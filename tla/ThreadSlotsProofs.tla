------------------------- MODULE ThreadSlotsProofs -------------------------
(***************************************************************************)
(* Proofs about ThreadSlots for any set of thread ids, any number of slots *)
(* and any limit of the depth.                                             *)
(***************************************************************************)
EXTENDS ThreadSlotsInv, WellFoundedInduction, TLAPS

\* The first of some slots is one of them.
LEMMA MinSlot ==
  ASSUME NEW S \in SUBSET Slots, S # {}
  PROVE  Min(S) \in S
  <1>1. S \subseteq Nat BY ThreadSlotsConstants DEF Slots
  <1> DEFINE R == {ss \in Nat \X Nat : ss[1] < ss[2]}
  <1>2. IsWellFoundedOn(R, Nat) BY NatLessThanWellFounded DEF OpToRel
  <1>3. PICK x \in S : \A y \in S : ~(<<y, x>> \in R)
    <2> HIDE DEF R
    <2> QED BY <1>1, <1>2, WFMin
  <1>4. \A y \in S : x =< y
    <2> SUFFICES ASSUME NEW y \in S PROVE x =< y OBVIOUS
    <2>1. x \in Nat /\ y \in Nat BY <1>1
    <2>2. ~(y < x) BY <1>3, <2>1
    <2> QED BY <2>1, <2>2
  <1> QED BY <1>4 DEF Min

-----------------------------------------------------------------------------
(* Types.                                                                  *)

\* The first state is typed.
LEMMA TypeInit == Init => TypeOK
  BY ThreadSlotsConstants DEF Init, TypeOK, Slots, NoSlot, Ids

\* A slot that mtt_thread_get returns, or none, keeps the call typed.
LEMMA GotTypes ==
  ASSUME TypeOK, NEW t \in Tids, NEW s \in Slots \cup {NoSlot}, Got(t, s)
  PROVE  /\ ctx' \in [Tids -> Slots \cup {NoSlot}]
         /\ tls' \in [Tids -> [slot : Slots \cup {NoSlot}, tid : Tids \cup {NoTid}]]
         /\ pc' = [pc EXCEPT ![t] = "use"]
  BY DEF TypeOK, Got, Goto

\* The next index of a loop is a slot.
LEMMA NextIndex ==
  ASSUME TypeOK, NEW t \in Tids
  PROVE  (IF i[t] + 1 < NSlots THEN i[t] + 1 ELSE 0) \in Slots
  BY ThreadSlotsConstants DEF TypeOK, Slots

\* The search for a slot.
LEMMA GetTypes ==
  ASSUME TypeOK, NEW t \in Tids, GetStep(t)
  PROVE  TypeOK'
  <1> USE ThreadSlotsConstants DEF TypeOK, slotVars
  <1>0. 0 \in Slots /\ -1 \in -1 .. DepthMax BY DEF Slots
  <1>1. CASE Find(t)
    <2>1. Own(t) # {} /\ Own(t) \in SUBSET Slots BY <1>1 DEF Find, Own
    <2>2. Min(Own(t)) \in Slots BY <2>1, MinSlot
    <2> QED BY <1>1, <2>2, GotTypes DEF Find
  <1>2. CASE Miss(t) BY <1>0, <1>2 DEF Miss, Goto
  <1>f. ASSUME NEW o, Fresh(t, o), role' = role, use' = use, hook' = hook, nested' = nested
        PROVE  TypeOK'
    <2>1. i[t] \in Slots OBVIOUS
    <2> QED BY <1>0, <1>f, <2>1, GotTypes DEF Fresh, Ids
  <1>3. CASE Claim(t)
    <2>1. CASE Fresh(t, NoTid) BY <1>3, <2>1, <1>f DEF Claim
    <2>2. CASE NextClaim(t) /\ UNCHANGED <<slotVars, seen, residue, mixed>>
      BY <1>0, <1>3, <2>2, NextIndex DEF Claim, NextClaim, Goto
    <2> QED BY <1>3, <2>1, <2>2 DEF Claim
  <1>n. ASSUME NextCheck(t), role' = role, use' = use, hook' = hook, nested' = nested,
               slotVars' = slotVars, seen' \in [Tids -> Ids \cup {NoTid}]
        PROVE  TypeOK'
    <2>1. CASE i[t] + 1 < NSlots
      BY <1>0, <1>n, <2>1, NextIndex DEF NextCheck, Goto
    <2>2. CASE ~(i[t] + 1 < NSlots)
      BY <1>0, <1>n, <2>2, GotTypes DEF NextCheck
    <2> QED BY <2>1, <2>2
  <1>4. CASE Check(t)
    <2>1. CASE Dead(t, owner[i[t]])
      <3>1. owner[i[t]] \in Ids BY <2>1 DEF Dead
      <3> QED BY <1>4, <2>1, <3>1 DEF Check, Goto
    <2>2. CASE ~Dead(t, owner[i[t]]) BY <1>4, <2>2, <1>n DEF Check
    <2> QED BY <2>1, <2>2
  <1>5. CASE Steal(t)
    <2>1. CASE Fresh(t, seen[t]) BY <1>5, <2>1, <1>f DEF Steal
    <2>2. CASE owner[i[t]] # seen[t] BY <1>5, <2>2, <1>n DEF Steal, Fresh
    <2> QED BY <1>5, <2>1, <2>2 DEF Steal
  <1> QED BY <1>1, <1>2, <1>3, <1>4, <1>5 DEF GetStep

\* A slot that a step may use is a slot.
LEMMA GivenType ==
  ASSUME TypeOK, NEW t \in Tids
  PROVE  Given(t) \in Slots \cup {NoSlot}
  BY DEF TypeOK, Given

\* A hook that returns.
LEMMA ReturnTypes ==
  ASSUME TypeOK, NEW t \in Tids, Return(t)
  PROVE  /\ pc' \in [Tids -> {"idle", "get", "claim", "check", "steal", "use", "decide", "work"}]
         /\ use' \in [Tids -> {"mark", "enter", "ctx", "inc", "dec"}]
         /\ hook' \in [Tids -> Slots \cup {NoSlot}]
         /\ nested' \in [Tids -> BOOLEAN]
  <1>1. hook' \in [Tids -> Slots \cup {NoSlot}]
    <2>1. CASE nested[t] BY <2>1 DEF TypeOK, Return
    <2>2. CASE ~nested[t] BY <2>2 DEF TypeOK, Return
    <2> QED BY <2>1, <2>2
  <1> QED BY <1>1 DEF TypeOK, Return, Goto

\* The hooks.
LEMMA HookTypes ==
  ASSUME TypeOK, NEW t \in Tids, Call(t) \/ HookStep(t) \/ Jump(t)
  PROVE  TypeOK'
  <1> USE ThreadSlotsConstants DEF TypeOK, slotVars, histVars, Goto
  <1>0. Given(t) \in Slots \cup {NoSlot} BY GivenType
  <1>1. CASE Call(t) BY <1>1 DEF Call, Ask
  <1>2. CASE Enter(t)
    <2>1. CASE Given(t) = NoSlot BY <1>2, <2>1 DEF Enter, Ask, Used, NoSlot
    <2>2. CASE Given(t) # NoSlot
      <3>1. (IF Depth(Given(t)) > DepthMax THEN 0 ELSE Depth(Given(t))) \in -1 .. DepthMax
        BY <1>0, <2>2 DEF Depth
      <3>2. depth' \in [Slots -> -1 .. DepthMax] BY <1>0, <1>2, <2>2, <3>1 DEF Enter
      <3>3. CASE Return(t) BY <1>2, <3>2, <3>3, ReturnTypes DEF Enter, Used
      <3>4. CASE Ask(t, "ctx") /\ UNCHANGED <<hook, nested>>
        BY <1>2, <3>2, <3>4 DEF Enter, Ask, Used
      <3> QED BY <1>2, <2>2, <3>3, <3>4 DEF Enter
    <2> QED BY <2>1, <2>2
  <1>3. CASE GetCtx(t)
    <2>1. CASE Return(t)
      <3>1. /\ role' = role /\ owner' = owner /\ depth' = depth /\ tool' = tool /\ i' = i
            /\ seen' = seen /\ tls' = tls /\ ctx' = [ctx EXCEPT ![t] = NoSlot]
        BY <1>3 DEF GetCtx, Used
      <3> QED BY <2>1, <3>1, ReturnTypes
    <2>2. CASE Given(t) # NoSlot /\ Ask(t, "inc") /\ nested' = nested
               /\ hook' = [hook EXCEPT ![t] = Given(t)]
      BY <1>0, <1>3, <2>2 DEF GetCtx, Ask, Used
    <2> QED BY <1>3, <2>1, <2>2 DEF GetCtx
  <1>4. CASE IncDepth(t)
    <2>1. depth' \in [Slots -> -1 .. DepthMax] BY <1>0, <1>4 DEF IncDepth, Depth
    <2> QED BY <1>4, <2>1 DEF IncDepth, Used
  <1>5. CASE Decide(t) BY <1>5 DEF Decide, Ask
  <1>6. CASE CallNested(t) BY <1>6 DEF CallNested, Ask
  <1>7. CASE Worked(t) BY <1>7 DEF Worked, Ask
  <1>8. CASE DecDepth(t)
    <2>1. depth' \in [Slots -> -1 .. DepthMax] BY <1>0, <1>8 DEF DecDepth
    <2>2. /\ role' = role /\ owner' = owner /\ tool' = tool /\ i' = i /\ seen' = seen
          /\ tls' = tls /\ ctx' = [ctx EXCEPT ![t] = NoSlot] /\ Return(t)
      BY <1>8 DEF DecDepth, Used
    <2> QED BY <2>1, <2>2, ReturnTypes
  <1>9. CASE Mark(t) BY <1>0, <1>9 DEF Mark, Used
  <1>10. CASE Jump(t) BY <1>10 DEF Jump
  <1> QED BY <1>1, <1>2, <1>3, <1>4, <1>5, <1>6, <1>7, <1>8, <1>9, <1>10 DEF HookStep

\* Threads and processes.
LEMMA LifeTypes ==
  ASSUME TypeOK, NEW t \in Tids,
         Begin(t) \/ BeginTool(t) \/ End(t) \/ EndOther(t) \/ \E c \in Tids : Fork(t, c)
  PROVE  TypeOK'
  <1> USE ThreadSlotsConstants DEF TypeOK, slotVars, callVars, histVars, Goto
  <1>0. 0 \in Slots /\ 0 \in -1 .. DepthMax BY DEF Slots
  <1>1. CASE Begin(t) BY <1>0, <1>1 DEF Begin, Reset, Ids
  <1>2. CASE BeginTool(t) BY <1>0, <1>2 DEF BeginTool, Reset, Ask, Ids
  <1>3. CASE End(t) BY <1>0, <1>3 DEF End, Reset, Ids
  <1>4. CASE EndOther(t) BY <1>4 DEF EndOther, Ids
  <1>5. ASSUME NEW c \in Tids, Fork(t, c) PROVE TypeOK'
    BY <1>0, <1>5 DEF Fork, Ids
  <1> QED BY <1>1, <1>2, <1>3, <1>4, <1>5

\* Every step keeps the types.
LEMMA TypeStep == TypeOK /\ [Next]_vars => TypeOK'
  <1> SUFFICES ASSUME TypeOK, [Next]_vars PROVE TypeOK' OBVIOUS
  <1>1. CASE UNCHANGED vars
    BY <1>1 DEF vars, slotVars, callVars, TypeOK
  <1>2. CASE Next
    BY <1>2, GetTypes, HookTypes, LifeTypes DEF Next, Step
  <1> QED BY <1>1, <1>2

-----------------------------------------------------------------------------
(* What a step of one thread leaves alone.                                 *)

\* The call of thread u, and its place in the world, are not touched.
Same(u) ==
  /\ pc'[u] = pc[u] /\ use'[u] = use[u] /\ i'[u] = i[u] /\ seen'[u] = seen[u]
  /\ ctx'[u] = ctx[u] /\ hook'[u] = hook[u] /\ nested'[u] = nested[u] /\ tls'[u] = tls[u]
  /\ role'[u] = role[u]

\* What is left of the chances of a search were chances before and can still be
\* claimed.
LEMMA ChancesShrink ==
  ASSUME TypeOK, HistoryOK, Chances
  PROVE  /\ avail' \in [Tids -> SUBSET Slots]
         /\ \A u \in Tids : pc[u] # "get" \/ pc'[u] # "claim" =>
              avail'[u] \subseteq avail[u] \cap Claimable'
  <1>1. Claimable \in SUBSET Slots BY DEF Claimable
  <1>2. avail' = [u \in Tids |-> IF pc[u] = "get" /\ pc'[u] = "claim" THEN Claimable
                    ELSE IF pc'[u] \in {"claim", "check", "steal", "use"}
                    THEN avail[u] \cap Claimable' ELSE {}]
    BY DEF Chances
  <1>3. avail \in [Tids -> SUBSET Slots] BY DEF HistoryOK
  <1> HIDE DEF Claimable
  <1> QED BY <1>1, <1>2, <1>3

\* The search of a thread that takes no step, while others claim slots.
LEMMA SearchKept ==
  ASSUME TypeOK, TypeOK', HistoryOK, Chances, NEW u \in Tids, SearchInv(u), Same(u),
         \A s \in Slots : owner'[s] = owner[s] \/ (owner'[s] # u /\ owner'[s] \in Live')
  PROVE  SearchInv(u)'
  <1>1. u \in Live <=> u \in Live' BY DEF Same, Live
  <1>2. avail'[u] \subseteq avail[u] \cap Claimable' BY ChancesShrink DEF Same
  <1>3. \A s \in Slots : owner[s] # NoTid => owner'[s] # NoTid
    BY ThreadSlotsConstants DEF Live
  <1>4. Own(u)' \subseteq Own(u) BY DEF Own
  <1>5. ASSUME pc[u] = "steal" PROVE owner'[i[u]] = seen[u] \/ i[u] \notin avail'[u]
    <2>1. i[u] \in Slots BY DEF TypeOK
    <2>2. CASE owner'[i[u]] = owner[i[u]] BY <1>2, <1>5, <2>2 DEF SearchInv
    <2>3. CASE owner'[i[u]] \in Live'
      <3>1. i[u] \notin Claimable'
        BY <2>1, <2>3, ThreadSlotsConstants DEF Live, Claimable
      <3> QED BY <1>2, <3>1
    <2> QED BY <2>1, <2>2, <2>3
  <1> HIDE DEF Claimable
  <1> QED BY <1>1, <1>2, <1>3, <1>4, <1>5 DEF SearchInv, Same

\* The hook of a thread that takes no step, while others claim slots that are
\* not its own and change the depth in their own slots.
LEMMA HookKept ==
  ASSUME TypeOK, NEW u \in Tids, CacheInv(u), HookInv(u), Same(u),
         \A s \in Slots : owner'[s] = owner[s]
            \/ (owner[s] # u /\ owner'[s] # u
                /\ ~(u \in Live /\ tls[u].slot = s /\ tls[u].tid = owner'[s])),
         \A s \in Slots : owner[s] = u => depth'[s] = depth[s]
  PROVE  CacheInv(u)' /\ HookInv(u)'
  <1>1. u \in Live <=> u \in Live' BY DEF Same, Live
  <1>2. tls[u].slot \in Slots \cup {NoSlot} /\ hook[u] \in Slots \cup {NoSlot}
        /\ ctx[u] \in Slots \cup {NoSlot}
    BY DEF TypeOK
  <1>3. CacheInv(u)' BY <1>1, <1>2 DEF CacheInv, Same
  <1>4. HookInv(u)' BY <1>2 DEF HookInv, Same
  <1> QED BY <1>3, <1>4

\* The other threads, when thread t neither claims a slot nor changes the depth
\* in another's slot.
LEMMA OthersQuiet ==
  ASSUME SlotInv, TypeOK', Chances, NEW t \in Tids, \A u \in Tids \ {t} : Same(u),
         owner' = owner, mixed' = mixed,
         ~mixed => \A s \in Slots : depth'[s] # depth[s] => owner[s] = t
  PROVE  \A u \in Tids \ {t} : SearchInv(u)' /\ (~mixed' => CacheInv(u)' /\ HookInv(u)')
  <1> TAKE u \in Tids \ {t}
  <1>1. SearchInv(u)' BY SearchKept DEF SlotInv
  <1>2. ASSUME ~mixed PROVE CacheInv(u)' /\ HookInv(u)'
    BY <1>2, HookKept DEF SlotInv
  <1> QED BY <1>1, <1>2

\* A step of that kind keeps the invariant if thread t keeps its part.
LEMMA QuietStep ==
  ASSUME SlotInv, TypeOK', Chances, NEW t \in Tids, \A u \in Tids \ {t} : Same(u),
         owner' = owner, mixed' = mixed,
         ~mixed => \A s \in Slots : depth'[s] # depth[s] => owner[s] = t,
         SearchInv(t)', ~mixed => CacheInv(t)' /\ HookInv(t)'
  PROVE  SlotInv'
  <1>1. HistoryOK' BY ChancesShrink DEF SlotInv, HistoryOK
  <1>2. OwnerInv' BY DEF SlotInv, OwnerInv
  <1> QED BY <1>1, <1>2, OthersQuiet DEF SlotInv

-----------------------------------------------------------------------------
(* The search for a slot.                                                  *)

\* A compare-and-swap that replaced o in a slot that thread t does not yet have.
LEMMA FreshStep ==
  ASSUME SlotInv, TypeOK', Chances, NEW t \in Tids, NEW o, Fresh(t, o), owner[i[t]] = o,
         pc[t] \in {"claim", "steal"},
         role' = role, use' = use, hook' = hook, nested' = nested
  PROVE  SlotInv'
  <1> USE ThreadSlotsConstants DEF SlotInv
  <1>1. i[t] \in Slots /\ t # NoTid /\ NoSlot \notin Slots BY DEF TypeOK, Slots, NoSlot
  <1>2. t \in Live /\ Own(t) = {} BY DEF SearchInv
  <1>3. /\ owner' = [owner EXCEPT ![i[t]] = t] /\ depth' = [depth EXCEPT ![i[t]] = -1]
        /\ mixed' = (mixed \/ o \in Live
                      \/ \E u \in Live \ {t} : tls[u] = [slot |-> i[t], tid |-> t])
        /\ pc' = [pc EXCEPT ![t] = "use"] /\ ctx' = [ctx EXCEPT ![t] = i[t]]
    BY DEF Fresh, Got, Goto
  <1>4. \A u \in Tids \ {t} : Same(u) BY DEF Fresh, Got, Goto, Same, TypeOK
  <1>5. Live' = Live BY DEF Live
  <1>6. HistoryOK' BY <1>3, ChancesShrink DEF HistoryOK
  <1>7. \A s \in Slots : owner'[s] = IF s = i[t] THEN t ELSE owner[s] BY <1>3 DEF TypeOK
  <1>8. OwnerInv' BY <1>2, <1>7 DEF OwnerInv, Own
  <1>9. SearchInv(t)' BY <1>1, <1>2, <1>3, <1>5 DEF SearchInv, TypeOK
  <1>10. \A u \in Tids \ {t} : SearchInv(u)'
    BY <1>2, <1>4, <1>5, <1>7, SearchKept
  <1>11. ASSUME ~mixed' PROVE CacheInv(t)' /\ HookInv(t)'
    <2>1. ~mixed BY <1>3, <1>11
    <2>2. hook[t] = NoSlot
      BY <1>2, <2>1 DEF HookInv, Own, TypeOK
    <2>3. CacheInv(t)'
      BY <1>1, <1>5, <1>7, <2>1 DEF CacheInv, Fresh, Got, TypeOK
    <2>4. ~nested[t] /\ ~(use[t] = "inc") BY <2>1, <2>2 DEF HookInv
    <2>5. HookInv(t)' BY <1>1, <1>3, <1>7, <2>2, <2>4 DEF HookInv, TypeOK
    <2> QED BY <2>3, <2>5
  <1>12. ASSUME ~mixed', NEW u \in Tids \ {t} PROVE CacheInv(u)' /\ HookInv(u)'
    <2>1. ~mixed /\ o \notin Live BY <1>3, <1>12
    <2>2. tls[u] \in [slot : Slots \cup {NoSlot}, tid : Tids \cup {NoTid}] BY DEF TypeOK
    <2>3. ~(u \in Live /\ tls[u].slot = i[t] /\ tls[u].tid = t)
      BY <1>3, <1>12, <2>2
    <2>4. CASE u \in Live
      <3>1. \A s \in Slots : owner'[s] = owner[s]
               \/ (owner[s] # u /\ owner'[s] # u
                   /\ ~(u \in Live /\ tls[u].slot = s /\ tls[u].tid = owner'[s]))
        BY <1>7, <2>1, <2>3, <2>4
      <3>2. \A s \in Slots : owner[s] = u => depth'[s] = depth[s]
        BY <1>3, <2>1, <2>4 DEF TypeOK
      <3> QED BY <1>4, <2>1, <3>1, <3>2, HookKept
    <2>5. CASE u \notin Live
      <3>1. pc[u] = "idle" BY <2>5 DEF SearchInv
      <3>2. hook[u] = NoSlot /\ ~nested[u] BY <2>1, <3>1 DEF HookInv
      <3> QED BY <1>4, <1>5, <2>1, <2>5, <3>1, <3>2 DEF CacheInv, HookInv, Same
    <2> QED BY <2>4, <2>5
  <1> QED BY <1>6, <1>8, <1>9, <1>10, <1>11, <1>12

\* On to the next slot of the third phase, or to the end of the search: the slot
\* at the index is no longer available.
LEMMA NextCheckStep ==
  ASSUME SlotInv, TypeOK', Chances, NEW t \in Tids, NextCheck(t), pc[t] \in {"check", "steal"},
         i[t] \notin avail'[t], \A u \in Tids : seen'[u] = seen[u] \/ u = t,
         role' = role, slotVars' = slotVars, use' = use, hook' = hook, nested' = nested,
         mixed' = mixed
  PROVE  SlotInv'
  <1> USE ThreadSlotsConstants DEF slotVars
  <1>1. \A u \in Tids \ {t} : Same(u) BY DEF SlotInv, TypeOK, NextCheck, Got, Goto, Same
  <1>2. avail'[t] \subseteq avail[t] /\ avail'[t] \subseteq Slots
    BY ChancesShrink DEF SlotInv
  <1>3. /\ t \in Live' /\ Own(t)' = {}
        /\ \A s \in Slots : owner'[s] # NoTid /\ (s \in avail'[t] => i[t] + 1 <= s)
    BY <1>2 DEF SlotInv, SearchInv, Live, Own, TypeOK, Slots
  <1>4. CASE i[t] + 1 < NSlots
    <2>1. pc' = [pc EXCEPT ![t] = "check"] /\ i'[t] = i[t] + 1 /\ ctx' = ctx /\ tls' = tls
      BY <1>4 DEF NextCheck, Goto, SlotInv, TypeOK
    <2>2. SearchInv(t)' BY <1>3, <2>1 DEF SearchInv, SlotInv, TypeOK
    <2>3. ASSUME ~mixed PROVE CacheInv(t)' /\ HookInv(t)'
      BY <2>1, <2>3 DEF SlotInv, SearchInv, CacheInv, HookInv, TypeOK, Live
    <2> QED BY <1>1, <2>2, <2>3, QuietStep
  <1>5. CASE ~(i[t] + 1 < NSlots)
    <2>1. pc' = [pc EXCEPT ![t] = "use"] /\ ctx' = [ctx EXCEPT ![t] = NoSlot]
          /\ tls' = IF use[t] = "mark" THEN tls
                    ELSE [tls EXCEPT ![t] = [slot |-> NoSlot, tid |-> NoTid]]
      BY <1>5 DEF NextCheck, Got, Goto
    <2>2. avail'[t] = {} BY <1>2, <1>3, <1>5 DEF SlotInv, TypeOK, Slots
    <2>3. SearchInv(t)' BY <1>3, <2>1, <2>2 DEF SearchInv, SlotInv, TypeOK
    <2>4. ASSUME ~mixed PROVE CacheInv(t)' /\ HookInv(t)'
      <3>1. CacheInv(t)' BY <2>1, <2>4 DEF SlotInv, CacheInv, TypeOK, Live
      <3>2. HookInv(t)' BY <2>1, <2>4 DEF SlotInv, HookInv, TypeOK
      <3> QED BY <3>1, <3>2
    <2> QED BY <1>1, <2>3, <2>4, QuietStep
  <1> QED BY <1>4, <1>5

\* Every step of the search keeps the invariant.
LEMMA GetInv ==
  ASSUME SlotInv, NEW t \in Tids, GetStep(t), Chances
  PROVE  SlotInv'
  <1> USE ThreadSlotsConstants
  <1>t. TypeOK' BY GetTypes DEF SlotInv
  <1>0. NoSlot \notin Slots BY DEF Slots, NoSlot
  <1>1. CASE Find(t)
    <2>1. Own(t) # {} /\ Own(t) \in SUBSET Slots BY <1>1 DEF Find, Own
    <2>2. Min(Own(t)) \in Own(t) BY <2>1, MinSlot
    <2> DEFINE s == Min(Own(t))
    <2> HIDE DEF s
    <2>3. s \in Slots /\ owner[s] = t BY <2>2 DEF s, Own
    <2>4. Got(t, s) BY <1>1 DEF Find, s
    <2>5. /\ pc[t] = "get" /\ role' = role /\ slotVars' = slotVars /\ use' = use /\ i' = i
          /\ seen' = seen /\ hook' = hook /\ nested' = nested /\ mixed' = mixed
      BY <1>1 DEF Find, histVars
    <2>6. \A u \in Tids \ {t} : Same(u) BY <2>4, <2>5 DEF SlotInv, TypeOK, Got, Goto, Same
    <2>7. pc' = [pc EXCEPT ![t] = "use"] /\ ctx' = [ctx EXCEPT ![t] = s]
      BY <2>4 DEF Got, Goto
    <2>8. SearchInv(t)'
      BY <1>0, <2>3, <2>5, <2>7 DEF SlotInv, SearchInv, TypeOK, Live
    <2>9. ASSUME ~mixed PROVE CacheInv(t)' /\ HookInv(t)'
      <3>1. CacheInv(t)'
        BY <2>3, <2>4, <2>5, <2>9 DEF SlotInv, CacheInv, TypeOK, Live, Got, slotVars
      <3>2. HookInv(t)'
        BY <2>3, <2>5, <2>7, <2>9 DEF SlotInv, HookInv, TypeOK, slotVars
      <3> QED BY <3>1, <3>2
    <2> QED BY <1>t, <2>5, <2>6, <2>8, <2>9, QuietStep DEF slotVars
  <1>2. CASE Miss(t)
    <2>1. /\ pc[t] = "get" /\ Own(t) = {} /\ role' = role /\ slotVars' = slotVars /\ use' = use
          /\ seen' = seen /\ hook' = hook /\ nested' = nested /\ mixed' = mixed /\ ctx' = ctx
          /\ tls' = tls /\ pc' = [pc EXCEPT ![t] = "claim"] /\ i' = [i EXCEPT ![t] = 0]
      BY <1>2 DEF Miss, Goto, histVars
    <2>2. \A u \in Tids \ {t} : Same(u) BY <2>1 DEF SlotInv, TypeOK, Same
    <2>3. SearchInv(t)'
      BY <2>1 DEF SlotInv, SearchInv, TypeOK, Live, Own, slotVars, Slots
    <2>4. ASSUME ~mixed PROVE CacheInv(t)' /\ HookInv(t)'
      BY <2>1, <2>4 DEF SlotInv, CacheInv, HookInv, TypeOK, Live, slotVars
    <2> QED BY <1>t, <2>1, <2>2, <2>3, <2>4, QuietStep DEF slotVars
  <1>3. CASE Claim(t)
    <2>1. CASE owner[i[t]] = NoTid
      BY <1>3, <1>t, <2>1, FreshStep DEF Claim
    <2>2. CASE owner[i[t]] # NoTid
      <3>1. /\ pc[t] = "claim" /\ NextClaim(t) /\ role' = role /\ slotVars' = slotVars
            /\ use' = use /\ seen' = seen /\ hook' = hook /\ nested' = nested
            /\ mixed' = mixed /\ ctx' = ctx /\ tls' = tls
        BY <1>3, <2>2 DEF Claim, NextClaim
      <3>2. \A u \in Tids \ {t} : Same(u)
        BY <3>1 DEF SlotInv, TypeOK, Same, NextClaim, Goto
      <3>3. t \in Live' /\ Own(t)' = {} BY <3>1 DEF SlotInv, SearchInv, Live, Own, slotVars
      <3>4. \A s \in Slots : s < i[t] + 1 => owner'[s] # NoTid
        BY <2>2, <3>1 DEF SlotInv, SearchInv, TypeOK, Slots, slotVars
      <3>6. SearchInv(t)'
        <4>1. CASE i[t] + 1 < NSlots
          BY <3>1, <3>3, <3>4, <4>1 DEF NextClaim, Goto, SearchInv, SlotInv, TypeOK
        <4>2. CASE ~(i[t] + 1 < NSlots)
          <5>1. i[t] \in Slots BY DEF SlotInv, TypeOK
          <5>2. i' = [i EXCEPT ![t] = 0] /\ pc' = [pc EXCEPT ![t] = "check"]
            BY <3>1, <4>2, <5>1 DEF NextClaim, Goto, SlotInv, TypeOK
          <5>3. \A s \in Slots : s < i[t] + 1 /\ 0 <= s BY <4>2, <5>1 DEF Slots
          <5>4. i'[t] = 0 /\ pc'[t] = "check" BY <5>2 DEF SlotInv, TypeOK
          <5> QED BY <3>3, <3>4, <5>3, <5>4 DEF SearchInv
        <4> QED BY <4>1, <4>2
      <3>7. ASSUME ~mixed PROVE CacheInv(t)' /\ HookInv(t)'
        BY <3>1, <3>7 DEF SlotInv, CacheInv, HookInv, TypeOK, Live, slotVars, NextClaim, Goto
      <3> QED BY <1>t, <3>1, <3>2, <3>6, <3>7, QuietStep DEF slotVars
    <2> QED BY <2>1, <2>2
  <1>4. CASE Check(t)
    <2>1. /\ pc[t] = "check" /\ role' = role /\ slotVars' = slotVars /\ use' = use
          /\ hook' = hook /\ nested' = nested /\ mixed' = mixed
      BY <1>4 DEF Check, histVars
    <2>2. i[t] \in Slots /\ owner[i[t]] # NoTid /\ owner[i[t]] \in Ids \cup {NoTid}
          /\ t \in Live
      BY <2>1 DEF SlotInv, SearchInv, TypeOK
    <2>3. avail'[t] \subseteq avail[t] \cap Claimable' BY <2>1, ChancesShrink DEF SlotInv
    <2>4. CASE Dead(t, owner[i[t]])
      <3>1. /\ seen' = [seen EXCEPT ![t] = owner[i[t]]] /\ pc' = [pc EXCEPT ![t] = "steal"]
            /\ i' = i /\ ctx' = ctx /\ tls' = tls
        BY <1>4, <2>4 DEF Check, Goto
      <3>2. \A u \in Tids \ {t} : Same(u) BY <2>1, <3>1 DEF SlotInv, TypeOK, Same
      <3> HIDE DEF Claimable
      <3>3. SearchInv(t)'
        BY <2>1, <2>3, <3>1 DEF SlotInv, SearchInv, TypeOK, Live, Own, slotVars
      <3>4. ASSUME ~mixed PROVE CacheInv(t)' /\ HookInv(t)'
        BY <2>1, <3>1, <3>4 DEF SlotInv, CacheInv, HookInv, TypeOK, Live, slotVars
      <3> QED BY <1>t, <2>1, <3>2, <3>3, <3>4, QuietStep DEF slotVars
    <2>5. CASE ~Dead(t, owner[i[t]])
      <3>1. i[t] \notin Claimable'
        BY <2>1, <2>2, <2>5 DEF Dead, Claimable, slotVars, Live
      <3>2. NextCheck(t) /\ seen' = seen BY <1>4, <2>5 DEF Check
      <3> HIDE DEF Claimable
      <3> QED BY <1>t, <2>1, <2>3, <3>1, <3>2, NextCheckStep
    <2> QED BY <2>4, <2>5
  <1>5. CASE Steal(t)
    <2>1. CASE owner[i[t]] = seen[t]
      BY <1>5, <1>t, <2>1, FreshStep DEF Steal
    <2>2. CASE owner[i[t]] # seen[t]
      <3>1. /\ pc[t] = "steal" /\ NextCheck(t) /\ role' = role /\ slotVars' = slotVars
            /\ use' = use /\ hook' = hook /\ nested' = nested /\ mixed' = mixed
            /\ seen' = [seen EXCEPT ![t] = NoTid]
        BY <1>5, <2>2 DEF Steal
      <3>2. i[t] \notin avail[t] BY <2>2, <3>1 DEF SlotInv, SearchInv
      <3>3. avail'[t] \subseteq avail[t] BY <3>1, ChancesShrink DEF SlotInv
      <3>4. \A u \in Tids : seen'[u] = seen[u] \/ u = t BY <3>1 DEF SlotInv, TypeOK
      <3> QED BY <1>t, <3>1, <3>2, <3>3, <3>4, NextCheckStep
    <2> QED BY <2>1, <2>2
  <1> QED BY <1>1, <1>2, <1>3, <1>4, <1>5 DEF GetStep

-----------------------------------------------------------------------------
(* The hooks.                                                              *)

\* The slot a step may use is the thread's own, and the one its hook works with;
\* without a slot, the thread has none.
LEMMA GivenIsOwn ==
  ASSUME SlotInv, ~mixed, NEW t \in Tids, Ready(t)
  PROVE  /\ t \in Live
         /\ Given(t) # NoSlot => owner[Given(t)] = t
         /\ hook[t] # NoSlot => Given(t) = hook[t]
  <1>1. t \in Live BY DEF SlotInv, SearchInv, Ready
  <1>2. Given(t) \in Slots \cup {NoSlot} /\ hook[t] \in Slots \cup {NoSlot}
    BY GivenType DEF SlotInv, TypeOK
  <1>3. Given(t) # NoSlot => owner[Given(t)] = t
    <2>1. CASE pc[t] = "use" BY <2>1 DEF SlotInv, HookInv, Given
    <2>2. CASE pc[t] # "use" BY <1>1, <2>2 DEF SlotInv, CacheInv, Given, Ready, FastPath
    <2> QED BY <2>1, <2>2
  <1>4. Given(t) = NoSlot => Own(t) = {}
    BY DEF SlotInv, SearchInv, Given, Ready, FastPath
  <1>5. hook[t] # NoSlot => owner[hook[t]] = t BY DEF SlotInv, HookInv
  <1>6. t # NoTid BY ThreadSlotsConstants
  <1>7. ASSUME hook[t] # NoSlot PROVE Given(t) = hook[t]
    <2>1. Given(t) # NoSlot BY <1>2, <1>4, <1>5, <1>7 DEF Own
    <2> QED BY <1>2, <1>3, <1>5, <1>6, <1>7, <2>1 DEF SlotInv, OwnerInv
  <1> QED BY <1>1, <1>3, <1>7

\* A step of a hook keeps the invariant if it keeps what is said of the hook.
LEMMA HookMove ==
  ASSUME SlotInv, TypeOK', Chances, NEW t \in Tids, t \in Live,
         pc'[t] \in {"get", "idle", "decide", "work"}, \A u \in Tids \ {t} : Same(u),
         role' = role, owner' = owner, mixed' = mixed, tls' = tls,
         ~mixed => \A s \in Slots : depth'[s] # depth[s] => owner[s] = t,
         ~mixed => HookInv(t)'
  PROVE  SlotInv'
  <1>1. SearchInv(t)' BY DEF SearchInv, Live
  <1>2. ~mixed => CacheInv(t)' BY DEF SlotInv, CacheInv, Live
  <1> QED BY <1>1, <1>2, QuietStep

\* Every step of a hook keeps the invariant.
LEMMA HookStepInv ==
  ASSUME SlotInv, NEW t \in Tids, Call(t) \/ HookStep(t) \/ Jump(t), Chances
  PROVE  SlotInv'
  <1> USE ThreadSlotsConstants
  <1>t. TypeOK' BY HookTypes DEF SlotInv
  <1>0. /\ Given(t) \in Slots \cup {NoSlot} /\ NoSlot \notin Slots
        /\ hook[t] \in Slots \cup {NoSlot} /\ DepthMax > 0
    <2>1. Given(t) \in Slots \cup {NoSlot} BY GivenType DEF SlotInv
    <2>2. NoSlot \notin Slots BY DEF Slots, NoSlot
    <2>3. hook[t] \in Slots \cup {NoSlot} BY DEF SlotInv, TypeOK
    <2>4. DepthMax > 0 OBVIOUS
    <2> QED BY <2>1, <2>2, <2>3, <2>4
  <1>l. pc[t] # "idle" => t \in Live BY DEF SlotInv, SearchInv
  <1>1. CASE Call(t)
    <2>1. \A u \in Tids \ {t} : Same(u)
      BY <1>1 DEF Call, Ask, Goto, Same, SlotInv, TypeOK
    <2>2. ~mixed => HookInv(t)'
      BY <1>1 DEF Call, Ask, Goto, SlotInv, TypeOK, HookInv, slotVars
    <2> QED BY <1>1, <1>t, <2>1, <2>2, HookMove
        DEF Call, Ask, Goto, SlotInv, TypeOK, slotVars, histVars
  <1>2. CASE Enter(t)
    <2>1. \A u \in Tids \ {t} : Same(u)
      BY <1>2 DEF Enter, Ask, Return, Used, Goto, Same, SlotInv, TypeOK
    <2>2. /\ Ready(t) /\ use[t] = "enter" /\ pc[t] # "idle" /\ role' = role /\ owner' = owner
          /\ mixed' = mixed /\ tls' = tls
      BY <1>2 DEF Enter, Ready, histVars
    <2>3. pc'[t] \in {"get", "idle", "decide", "work"}
      BY <1>2 DEF Enter, Ask, Return, Goto, SlotInv, TypeOK
    <2>4. ASSUME ~mixed PROVE \A s \in Slots : depth'[s] # depth[s] => owner[s] = t
      BY <1>0, <1>2, <2>2, <2>4, GivenIsOwn DEF Enter, SlotInv, TypeOK
    <2>5. ASSUME ~mixed PROVE HookInv(t)'
      <3>1. CASE nested[t]
        <4>1. Given(t) = hook[t] /\ hook[t] \in Slots /\ depth[hook[t]] > 0
              /\ owner[hook[t]] = t
          BY <1>0, <2>2, <2>5, <3>1, GivenIsOwn DEF SlotInv, HookInv
        <4>2. depth[hook[t]] \in -1 .. DepthMax BY <4>1 DEF SlotInv, TypeOK
        <4>3. depth'[hook[t]] = depth[hook[t]]
          BY <1>0, <1>2, <4>1, <4>2 DEF Enter, Depth, SlotInv, TypeOK
        <4>4. Return(t) BY <1>0, <1>2, <4>1, <4>3 DEF Enter
        <4>5. pc'[t] = "work" /\ use'[t] = "enter" /\ hook'[t] = hook[t] /\ nested'[t] = FALSE
          BY <3>1, <4>4 DEF Return, Goto, SlotInv, TypeOK
        <4> QED BY <1>0, <2>2, <4>1, <4>3, <4>5 DEF HookInv
      <3>2. CASE ~nested[t]
        <4>1. CASE Return(t)
          <5>1. pc'[t] = "idle" /\ use'[t] = "enter" /\ hook'[t] = NoSlot
                /\ nested'[t] = FALSE
            BY <3>2, <4>1 DEF Return, Goto, SlotInv, TypeOK
          <5> QED BY <5>1 DEF HookInv
        <4>2. CASE Ask(t, "ctx") /\ UNCHANGED <<hook, nested>>
          <5>1. pc'[t] = "get" /\ use'[t] = "ctx" /\ hook'[t] = hook[t] /\ ~nested'[t]
            BY <3>2, <4>2 DEF Ask, Goto, SlotInv, TypeOK
          <5> QED BY <2>2, <2>5, <5>1 DEF HookInv, SlotInv
        <4> QED BY <1>2, <4>1, <4>2 DEF Enter
      <3> QED BY <3>1, <3>2
    <2> QED BY <1>t, <1>l, <2>1, <2>2, <2>3, <2>4, <2>5, HookMove
  <1>3. CASE GetCtx(t)
    <2>1. \A u \in Tids \ {t} : Same(u)
      BY <1>3 DEF GetCtx, Ask, Return, Used, Goto, Same, SlotInv, TypeOK
    <2>2. /\ Ready(t) /\ use[t] = "ctx" /\ pc[t] # "idle" /\ role' = role /\ owner' = owner
          /\ mixed' = mixed /\ tls' = tls /\ depth' = depth
      BY <1>3 DEF GetCtx, Ready, histVars, slotVars
    <2>3. pc'[t] \in {"get", "idle", "decide", "work"}
      BY <1>3 DEF GetCtx, Ask, Return, Goto, SlotInv, TypeOK
    <2>4. ASSUME ~mixed PROVE HookInv(t)'
      <3>1. ~nested[t] BY <2>2, <2>4 DEF SlotInv, HookInv
      <3>2. CASE Return(t)
        <4>1. pc'[t] = "idle" /\ use'[t] = "enter" /\ hook'[t] = NoSlot /\ nested'[t] = FALSE
          BY <3>1, <3>2 DEF Return, Goto, SlotInv, TypeOK
        <4> QED BY <4>1 DEF HookInv
      <3>3. CASE /\ Given(t) # NoSlot /\ Ask(t, "inc") /\ nested' = nested
                 /\ hook' = [hook EXCEPT ![t] = Given(t)]
        <4>1. pc'[t] = "get" /\ use'[t] = "inc" /\ hook'[t] = Given(t) /\ ~nested'[t]
          BY <3>1, <3>3 DEF Ask, Goto, SlotInv, TypeOK
        <4>2. owner'[Given(t)] = t BY <2>2, <2>4, <3>3, GivenIsOwn
        <4> QED BY <3>3, <4>1, <4>2 DEF HookInv
      <3> QED BY <1>3, <3>2, <3>3 DEF GetCtx
    <2> QED BY <1>t, <1>l, <2>1, <2>2, <2>3, <2>4, HookMove
  <1>4. CASE IncDepth(t)
    <2>1. \A u \in Tids \ {t} : Same(u)
      BY <1>4 DEF IncDepth, Used, Goto, Same, SlotInv, TypeOK
    <2>2. /\ Ready(t) /\ use[t] = "inc" /\ pc[t] # "idle" /\ role' = role /\ owner' = owner
          /\ mixed' = mixed /\ tls' = tls /\ pc'[t] = "decide" /\ use' = use /\ hook' = hook
          /\ nested' = nested
      BY <1>4 DEF IncDepth, Ready, histVars, Goto, SlotInv, TypeOK
    <2>3. ASSUME ~mixed PROVE \A s \in Slots : depth'[s] # depth[s] => owner[s] = t
      BY <1>0, <1>4, <2>2, <2>3, GivenIsOwn DEF IncDepth, SlotInv, TypeOK
    <2>4. ASSUME ~mixed PROVE HookInv(t)'
      <3>1. hook[t] # NoSlot /\ owner[hook[t]] = t /\ ~nested[t]
        BY <2>2, <2>4 DEF SlotInv, HookInv
      <3>2. Given(t) = hook[t] /\ hook[t] \in Slots BY <1>0, <2>2, <2>4, <3>1, GivenIsOwn
      <3>3. depth[hook[t]] \in -1 .. DepthMax BY <3>2 DEF SlotInv, TypeOK
      <3>4. depth'[hook[t]] > 0
        BY <1>0, <1>4, <3>2, <3>3 DEF IncDepth, Depth, SlotInv, TypeOK
      <3> QED BY <2>2, <3>1, <3>4 DEF HookInv
    <2> QED BY <1>t, <1>l, <2>1, <2>2, <2>3, <2>4, HookMove
  <1>5. CASE Decide(t) \/ CallNested(t) \/ Worked(t)
    <2>1. \A u \in Tids \ {t} : Same(u)
      BY <1>5 DEF Decide, CallNested, Worked, Ask, Goto, Same, SlotInv, TypeOK
    <2>2. /\ pc[t] \in {"decide", "work"} /\ role' = role /\ owner' = owner /\ depth' = depth
          /\ mixed' = mixed /\ tls' = tls /\ hook' = hook
          /\ \/ pc'[t] = "get" /\ use'[t] = "dec" /\ nested' = nested
             \/ pc'[t] = "work" /\ use' = use /\ nested' = nested
             \/ pc'[t] = "get" /\ use'[t] = "enter"
      BY <1>5 DEF Decide, CallNested, Worked, Ask, Goto, SlotInv, TypeOK, slotVars, histVars
    <2>3. ASSUME ~mixed PROVE HookInv(t)'
      <3>1. hook[t] # NoSlot /\ owner[hook[t]] = t /\ depth[hook[t]] > 0 /\ ~nested[t]
        BY <2>2, <2>3 DEF SlotInv, HookInv
      <3> QED BY <2>2, <2>3, <3>1 DEF SlotInv, HookInv
    <2> QED BY <1>t, <1>l, <2>1, <2>2, <2>3, HookMove
  <1>6. CASE DecDepth(t)
    <2>1. \A u \in Tids \ {t} : Same(u)
      BY <1>6 DEF DecDepth, Return, Used, Goto, Same, SlotInv, TypeOK
    <2>2. /\ Ready(t) /\ use[t] = "dec" /\ pc[t] # "idle" /\ role' = role /\ owner' = owner
          /\ mixed' = mixed /\ tls' = tls /\ Return(t)
      BY <1>6 DEF DecDepth, Ready, histVars
    <2>3. ASSUME ~mixed PROVE \A s \in Slots : depth'[s] # depth[s] => owner[s] = t
      BY <1>0, <1>6, <2>2, <2>3, GivenIsOwn DEF DecDepth, SlotInv, TypeOK
    <2>4. pc'[t] \in {"get", "idle", "decide", "work"}
      BY <2>2 DEF Return, Goto, SlotInv, TypeOK
    <2>5. ASSUME ~mixed PROVE HookInv(t)'
      <3>1. ~nested[t] BY <2>2, <2>5 DEF SlotInv, HookInv
      <3>2. pc'[t] = "idle" /\ use'[t] = "enter" /\ hook'[t] = NoSlot /\ nested'[t] = FALSE
        BY <2>2, <3>1 DEF Return, Goto, SlotInv, TypeOK
      <3> QED BY <3>2 DEF HookInv
    <2> QED BY <1>t, <1>l, <2>1, <2>2, <2>3, <2>4, <2>5, HookMove
  <1>7. CASE Mark(t)
    <2>1. \A u \in Tids \ {t} : Same(u)
      BY <1>7 DEF Mark, Used, Goto, Same, SlotInv, TypeOK
    <2>2. /\ use[t] = "mark" /\ pc[t] # "idle" /\ role' = role /\ owner' = owner
          /\ mixed' = mixed /\ tls' = tls /\ depth' = depth /\ hook' = hook /\ nested' = nested
          /\ pc'[t] = "idle" /\ use'[t] = "enter"
      BY <1>7 DEF Mark, Ready, Goto, SlotInv, TypeOK
    <2>3. ASSUME ~mixed PROVE HookInv(t)'
      BY <2>2, <2>3 DEF SlotInv, HookInv
    <2> QED BY <1>t, <1>l, <2>1, <2>2, <2>3, HookMove
  <1>8. CASE Jump(t)
    <2>1. \A u \in Tids \ {t} : Same(u)
      BY <1>8 DEF Jump, Goto, Same, SlotInv, TypeOK
    <2>2. /\ pc[t] = "work" /\ role' = role /\ owner' = owner
          /\ mixed' = mixed /\ tls' = tls /\ depth' = depth /\ hook'[t] = NoSlot
          /\ nested' = nested /\ pc'[t] = "idle" /\ use'[t] = "enter"
      BY <1>8 DEF Jump, Goto, SlotInv, TypeOK, slotVars
    <2>3. ASSUME ~mixed PROVE HookInv(t)'
      BY <2>2, <2>3 DEF SlotInv, HookInv
    <2> QED BY <1>t, <1>l, <2>1, <2>2, <2>3, HookMove
  <1> QED BY <1>1, <1>2, <1>3, <1>4, <1>5, <1>6, <1>7, <1>8 DEF HookStep

-----------------------------------------------------------------------------
(* Threads begin and end, and the process forks.                           *)

\* A thread that begins or ends, here or in another process, keeps the invariant.
LEMMA ThreadStepInv ==
  ASSUME SlotInv, NEW t \in Tids, Begin(t) \/ BeginTool(t) \/ End(t) \/ EndOther(t), Chances
  PROVE  SlotInv'
  <1>t. TypeOK' BY LifeTypes DEF SlotInv
  <1>0. /\ role \in [Ids -> {"none", "prog", "tool", "other"}] /\ t \in Ids
        /\ \A u \in Tids : u \in Ids
    BY DEF SlotInv, TypeOK, Ids
  <1>1. CASE Begin(t) \/ BeginTool(t) \/ End(t)
    <2>1. \A u \in Tids \ {t} : Same(u)
      BY <1>0, <1>1 DEF Begin, BeginTool, End, Reset, Ask, Goto, Same, SlotInv, TypeOK
    <2>2. /\ owner' = owner /\ depth' = depth /\ mixed' = mixed /\ tls'[t].slot = NoSlot
          /\ hook'[t] = NoSlot /\ nested'[t] = FALSE
      BY <1>1 DEF Begin, BeginTool, End, Reset, slotVars, SlotInv, TypeOK
    <2>3. pc'[t] = "idle" \/ (pc'[t] = "get" /\ use'[t] = "mark" /\ t \in Live')
      BY <1>0, <1>1 DEF Begin, BeginTool, End, Ask, Goto, SlotInv, TypeOK, Live
    <2>4. SearchInv(t)' BY <2>3 DEF SearchInv
    <2>5. CacheInv(t)' /\ HookInv(t)' BY <2>2, <2>3 DEF CacheInv, HookInv
    <2> QED BY <1>t, <2>1, <2>2, <2>4, <2>5, QuietStep
  <1>2. CASE EndOther(t)
    <2>1. /\ role' = [role EXCEPT ![t] = "none"] /\ role[t] = "other"
          /\ owner' = owner /\ depth' = depth /\ mixed' = mixed /\ pc' = pc /\ use' = use
          /\ i' = i /\ seen' = seen /\ ctx' = ctx /\ hook' = hook /\ nested' = nested
          /\ tls' = tls
      BY <1>2 DEF EndOther, slotVars, callVars, histVars
    <2>2. t \notin Live /\ t \notin Live' BY <1>0, <2>1 DEF Live
    <2>3. pc[t] = "idle" BY <2>2 DEF SlotInv, SearchInv
    <2>4. \A u \in Tids \ {t} : Same(u) BY <1>0, <2>1 DEF Same
    <2>5. SearchInv(t)' BY <2>1, <2>3 DEF SearchInv
    <2>6. ~mixed => CacheInv(t)' BY <2>1, <2>2 DEF SlotInv, CacheInv
    <2>7. ~mixed => HookInv(t)' BY <2>1 DEF SlotInv, HookInv
    <2> QED BY <1>t, <2>1, <2>4, <2>5, <2>6, <2>7, QuietStep
  <1> QED BY <1>1, <1>2

\* The child of a fork starts in the invariant, although it keeps the cache of
\* the thread that forked: no slot has that thread's id any more.
LEMMA ForkInv ==
  ASSUME SlotInv, NEW t \in Tids, NEW c \in Tids, Fork(t, c), Chances
  PROVE  SlotInv'
  <1> USE ThreadSlotsConstants
  <1>t. TypeOK' BY LifeTypes DEF SlotInv
  <1>1. /\ \A s \in Slots : owner'[s] = IF owner[s] = c THEN c ELSE NoTid
        /\ \A u \in Tids : /\ pc'[u] = "idle" /\ hook'[u] = NoSlot /\ nested'[u] = FALSE
                           /\ tls'[u] = IF u = c THEN tls[t]
                                        ELSE [slot |-> NoSlot, tid |-> NoTid]
        /\ mixed' = mixed
    BY DEF Fork
  <1>2. HistoryOK' BY <1>1, ChancesShrink DEF SlotInv, HistoryOK
  <1>3. OwnerInv' BY <1>1 DEF SlotInv, OwnerInv
  <1>4. \A u \in Tids : SearchInv(u)' BY <1>1 DEF SearchInv
  <1>5. ASSUME ~mixed, NEW u \in Tids PROVE CacheInv(u)'
    <2>1. tls[t].slot # NoSlot => tls[t].tid # NoTid BY <1>5 DEF SlotInv, CacheInv
    <2>2. tls[t].slot \in Slots \cup {NoSlot} BY DEF SlotInv, TypeOK
    <2>3. CASE u = c BY <1>1, <2>1, <2>2, <2>3 DEF CacheInv
    <2>4. CASE u # c BY <1>1, <2>4 DEF CacheInv
    <2> QED BY <2>3, <2>4
  <1>6. \A u \in Tids : HookInv(u)' BY <1>1 DEF HookInv
  <1> QED BY <1>t, <1>1, <1>2, <1>3, <1>4, <1>5, <1>6 DEF SlotInv

-----------------------------------------------------------------------------
(* The invariant, and what follows from it.                                *)

\* The invariant holds at the start.
LEMMA SlotInit == Init => SlotInv
  <1> SUFFICES ASSUME Init PROVE SlotInv OBVIOUS
  <1>1. TypeOK BY TypeInit
  <1>2. HistoryOK BY DEF Init, HistoryOK
  <1>3. OwnerInv BY DEF Init, OwnerInv
  <1>4. \A t \in Tids : SearchInv(t) BY DEF Init, SearchInv
  <1>5. \A t \in Tids : CacheInv(t) /\ HookInv(t) BY DEF Init, CacheInv, HookInv
  <1> QED BY <1>1, <1>2, <1>3, <1>4, <1>5 DEF SlotInv

\* Every step keeps it.
LEMMA SlotStep == SlotInv /\ [Next]_vars => SlotInv'
  <1> SUFFICES ASSUME SlotInv, [Next]_vars PROVE SlotInv' OBVIOUS
  <1>1. CASE UNCHANGED vars
    BY <1>1 DEF vars, slotVars, callVars, histVars, SlotInv, TypeOK, HistoryOK, OwnerInv,
                SearchInv, CacheInv, HookInv, Live, Own
  <1>2. CASE Next
    BY <1>2, GetInv, HookStepInv, ThreadStepInv, ForkInv DEF Next, Step
  <1> QED BY <1>1, <1>2

\* Throughout every behaviour of the slots a search has passed only slots that
\* were taken, a remembered slot is the thread's own, and inside a hook its
\* depth is raised (per_thread.h:57-126, hooks.c:86-137).
THEOREM SlotInvariant == Spec => []SlotInv
  BY SlotInit, SlotStep, PTL DEF Spec

\* Outside the two mix-ups that the history records, no two threads ever work
\* with one slot: the compare-and-swap of per_thread.h:76 and 96 gives it to
\* one, whatever the number of threads and of slots.
THEOREM SlotsNotShared == Spec => []SlotNotShared
  <1>1. ASSUME SlotInv PROVE SlotNotShared
    <2> SUFFICES ASSUME ~mixed, NEW t \in Live, NEW u \in Live, t # u, NEW s,
                        s \in InUse(t) \cap InUse(u), s # NoSlot
                 PROVE  FALSE
      BY DEF SlotNotShared
    <2>1. ASSUME NEW v \in Live, s \in InUse(v) PROVE owner[s] = v
      <3>1. v \in Tids BY DEF Live
      <3>2. CASE Ready(v) /\ s = Given(v) BY <1>1, <3>1, <3>2, GivenIsOwn
      <3>3. CASE s = hook[v] BY <1>1, <3>1, <3>3 DEF SlotInv, HookInv
      <3> QED BY <2>1, <3>2, <3>3 DEF InUse
    <2> QED BY <2>1
  <1> QED BY <1>1, SlotInvariant, PTL

\* A hook called from inside a hook of the same thread never comes to the point
\* where it would track its call (hooks.c:102-124), whatever the limit of the
\* depth: the depth in the thread's slot was raised and is still raised.
THEOREM NestedHooksPass == Spec => []RecursionGuard
  <1>1. ASSUME SlotInv PROVE RecursionGuard
    BY <1>1 DEF SlotInv, HookInv, RecursionGuard
  <1> QED BY <1>1, SlotInvariant, PTL

\* mtt_thread_get comes back without a slot only if no slot stayed free, or the
\* slot of a thread that is gone, all through its search (per_thread.h:71-110).
THEOREM SearchFailsOnlyIfFull == Spec => []FullOnlyIfTaken
  <1>1. ASSUME SlotInv PROVE FullOnlyIfTaken
    BY <1>1 DEF SlotInv, SearchInv, FullOnlyIfTaken
  <1> QED BY <1>1, SlotInvariant, PTL


-----------------------------------------------------------------------------
(* What a hook reads before it decides to pass.                            *)

\* The hook of a thread that takes no step finds its slot as it was.
LEMMA DecideKept ==
  ASSUME NEW u \in Tids, DecideInv(u), Same(u),
         residue'[u] = residue[u], unmarked'[u] = unmarked[u],
         role[u] \in {"prog", "tool"} =>
           \A s \in Slots : /\ owner'[s] = u <=> owner[s] = u
                            /\ owner[s] = u => depth'[s] = depth[s] /\ tool'[s] = tool[s]
  PROVE  DecideInv(u)'
  <1>1. /\ Raised(u)' <=> Raised(u)
        /\ Marked(u)' <=> Marked(u)
    BY DEF Raised, Marked, Same
  <1>2. Raised(u)' => hook'[u] # NoSlot BY <1>1 DEF DecideInv, Same
  <1>3. ASSUME role'[u] = "prog", ~residue'[u], NEW s \in Slots, owner'[s] = u
        PROVE  ~tool'[s] /\ (IF Raised(u)' THEN depth'[s] = 1 ELSE depth'[s] <= 0)
    BY <1>1, <1>3 DEF DecideInv, Same
  <1>4. ASSUME Marked(u)', ~unmarked'[u]
        PROVE  /\ pc'[u] # "work" /\ ~nested'[u]
               /\ Own(u)' # {} /\ \A s \in Slots : owner'[s] = u => tool'[s]
    <2>1. role[u] = "tool" BY <1>1, <1>4 DEF Marked
    <2>2. Own(u)' = Own(u) BY <2>1 DEF Own
    <2> QED BY <1>1, <1>4, <2>1, <2>2 DEF DecideInv, Same
  <1>5. use'[u] = "mark" /\ pc'[u] # "idle" =>
          role'[u] = "tool" /\ ~nested'[u] /\ pc'[u] \notin {"decide", "work"}
    BY DEF DecideInv, Same
  <1> QED BY <1>2, <1>3, <1>4, <1>5 DEF DecideInv

\* A step that leaves the slots alone, and is not at the work of a hook before
\* or after it.
LEMMA DecideSearch ==
  ASSUME NEW t \in Tids, DecideInv(t), slotVars' = slotVars, role' = role, use' = use,
         hook' = hook, nested' = nested, residue' = residue, unmarked' = unmarked,
         pc[t] \in {"get", "claim", "check", "steal"},
         pc'[t] \in {"get", "claim", "check", "steal", "use"}
  PROVE  DecideInv(t)'
  <1>1. /\ Raised(t)' <=> Raised(t)
        /\ Marked(t)' <=> Marked(t)
    BY DEF Raised, Marked
  <1>2. Own(t)' = Own(t) /\ owner' = owner /\ depth' = depth /\ tool' = tool
    BY DEF Own, slotVars
  <1> QED BY <1>1, <1>2 DEF DecideInv

\* A thread that claims a slot has no hook open, and if it is the tool's, it has
\* not marked a slot yet or has found none.
LEMMA DecideFresh ==
  ASSUME SlotInv, ~mixed', NEW t \in Tids, NEW o, Fresh(t, o), DecideInv(t),
         pc[t] \in {"claim", "steal"}, ~mixed,
         role' = role, use' = use, hook' = hook, nested' = nested, unmarked' = unmarked
  PROVE  DecideInv(t)'
  <1> USE ThreadSlotsConstants
  <1>1. /\ owner' = [owner EXCEPT ![i[t]] = t] /\ depth' = [depth EXCEPT ![i[t]] = -1]
        /\ tool' = [tool EXCEPT ![i[t]] = FALSE]
        /\ pc'[t] = "use"
    BY DEF Fresh, Got, Goto, SlotInv, TypeOK
  <1>2. Own(t) = {} /\ i[t] \in Slots BY DEF SlotInv, SearchInv, TypeOK
  <1>3. hook[t] = NoSlot BY <1>2 DEF SlotInv, HookInv, Own, TypeOK
  <1>4. ~Raised(t) BY <1>3 DEF DecideInv
  <1>5. ~Raised(t)' BY <1>1, <1>4 DEF Raised
  <1>6. \A s \in Slots : owner'[s] = t => s = i[t] /\ ~tool'[s] /\ depth'[s] <= 0
    BY <1>1, <1>2 DEF Own, SlotInv, TypeOK
  <1>7. ~(Marked(t) /\ ~unmarked[t]) BY <1>2 DEF DecideInv
  <1>8. ~(Marked(t)' /\ ~unmarked'[t]) BY <1>1, <1>7 DEF Marked
  <1>9. use'[t] = "mark" /\ pc'[t] # "idle" => ~nested'[t] /\ pc'[t] \notin {"decide", "work"}
    BY <1>1 DEF DecideInv
  <1> QED BY <1>5, <1>6, <1>8, <1>9 DEF DecideInv

\* The search for a slot keeps what the hook of its thread, and of every other,
\* will read.
LEMMA DecideGet ==
  ASSUME DecideSlotInv, NEW t \in Tids, GetStep(t), ~mixed'
  PROVE  \A u \in Tids : DecideInv(u)'
  <1> USE ThreadSlotsConstants
  <1>0. SlotInv /\ TypeOK BY DEF DecideSlotInv, SlotInv
  <1>m. ~mixed
    <2>1. CASE Find(t) \/ Miss(t) \/ Check(t) BY <2>1 DEF Find, Miss, Check, histVars
    <2>2. CASE Claim(t) \/ Steal(t) BY <1>0, <2>2 DEF Claim, Steal, Fresh
    <2> QED BY <2>1, <2>2 DEF GetStep
  <1>d. \A u \in Tids : DecideInv(u) BY <1>m DEF DecideSlotInv
  <1>f. ASSUME NEW o, Fresh(t, o), owner[i[t]] = o, pc[t] \in {"claim", "steal"},
               role' = role, use' = use, hook' = hook, nested' = nested, unmarked' = unmarked
        PROVE  \A u \in Tids : DecideInv(u)'
    <2>1. DecideInv(t)' BY <1>0, <1>m, <1>d, <1>f, DecideFresh
    <2>2. ASSUME NEW u \in Tids \ {t} PROVE DecideInv(u)'
      <3>1. Same(u) BY <1>0, <1>f DEF Fresh, Got, Goto, Same, TypeOK
      <3>2. residue'[u] = residue[u] /\ unmarked'[u] = unmarked[u] BY <1>f DEF Fresh
      <3>3. /\ owner' = [owner EXCEPT ![i[t]] = t] /\ depth' = [depth EXCEPT ![i[t]] = -1]
            /\ tool' = [tool EXCEPT ![i[t]] = FALSE] /\ o \notin Live
        BY <1>f DEF Fresh
      <3>4. role[u] \in {"prog", "tool"} => u \in Live BY DEF Live
      <3>5. role[u] \in {"prog", "tool"} =>
             \A s \in Slots : /\ owner'[s] = u <=> owner[s] = u
                              /\ owner[s] = u => depth'[s] = depth[s] /\ tool'[s] = tool[s]
        <4>1. i[t] \in Slots /\ u # t BY <1>0 DEF TypeOK
        <4>2. \A s \in Slots : s # i[t] => /\ owner'[s] = owner[s] /\ depth'[s] = depth[s]
                                          /\ tool'[s] = tool[s]
          BY <1>0, <3>3 DEF TypeOK
        <4>3. owner'[i[t]] = t BY <1>0, <3>3, <4>1 DEF TypeOK
        <4>4. role[u] \in {"prog", "tool"} => owner[i[t]] # u BY <1>f, <3>3, <3>4
        <4> QED BY <4>1, <4>2, <4>3, <4>4
      <3> QED BY <1>d, <3>1, <3>2, <3>5, DecideKept
    <2> QED BY <2>1, <2>2
  <1>q. ASSUME slotVars' = slotVars, role' = role, use' = use, hook' = hook, nested' = nested,
               residue' = residue, unmarked' = unmarked,
               pc[t] \in {"get", "claim", "check", "steal"},
               pc'[t] \in {"get", "claim", "check", "steal", "use"},
               \A u \in Tids \ {t} : Same(u)
        PROVE  \A u \in Tids : DecideInv(u)'
    <2>1. DecideInv(t)' BY <1>d, <1>q, DecideSearch
    <2>2. ASSUME NEW u \in Tids \ {t} PROVE DecideInv(u)'
      BY <1>d, <1>q, <2>2, DecideKept DEF slotVars
    <2> QED BY <2>1, <2>2
  <1>1. CASE Find(t) BY <1>0, <1>1, <1>q DEF Find, Got, Goto, Same, TypeOK, histVars
  <1>2. CASE Miss(t) BY <1>0, <1>2, <1>q DEF Miss, Goto, Same, TypeOK, histVars
  <1>n. ASSUME NextCheck(t), slotVars' = slotVars, role' = role, use' = use, hook' = hook,
               nested' = nested, residue' = residue, unmarked' = unmarked,
               pc[t] \in {"check", "steal"}, \A u \in Tids : seen'[u] = seen[u] \/ u = t
        PROVE  \A u \in Tids : DecideInv(u)'
    <2>1. pc'[t] \in {"check", "use"}
      BY <1>0, <1>n DEF NextCheck, Got, Goto, TypeOK
    <2>2. \A u \in Tids \ {t} : Same(u) BY <1>0, <1>n DEF NextCheck, Got, Goto, Same, TypeOK
    <2> QED BY <1>n, <1>q, <2>1, <2>2
  <1>3. CASE Claim(t)
    <2>1. CASE Fresh(t, NoTid) /\ owner[i[t]] = NoTid
      BY <1>3, <1>f, <2>1 DEF Claim
    <2>2. CASE NextClaim(t) /\ UNCHANGED <<slotVars, seen, residue, mixed>>
      BY <1>0, <1>3, <1>q, <2>2 DEF Claim, NextClaim, Goto, Same, TypeOK
    <2> QED BY <1>3, <2>1, <2>2 DEF Claim
  <1>4. CASE Check(t)
    <2>1. CASE Dead(t, owner[i[t]])
      BY <1>0, <1>4, <1>q, <2>1 DEF Check, Goto, Same, TypeOK, histVars
    <2>2. CASE ~Dead(t, owner[i[t]])
      BY <1>4, <1>n, <2>2 DEF Check, histVars
    <2> QED BY <2>1, <2>2
  <1>5. CASE Steal(t)
    <2>1. CASE Fresh(t, seen[t]) /\ owner[i[t]] = seen[t]
      BY <1>5, <1>f, <2>1 DEF Steal
    <2>2. CASE NextCheck(t) /\ seen' = [seen EXCEPT ![t] = NoTid]
               /\ UNCHANGED <<slotVars, residue, mixed>>
      BY <1>0, <1>5, <1>n, <2>2 DEF Steal, TypeOK
    <2> QED BY <1>5, <2>1, <2>2 DEF Steal
  <1> QED BY <1>1, <1>2, <1>3, <1>4, <1>5 DEF GetStep

\* The other threads, when thread t takes a step of a hook: what it writes, it
\* writes to its own slot.
LEMMA DecideOthers ==
  ASSUME SlotInv, NEW t \in Tids, NEW u \in Tids \ {t}, DecideInv(u), Same(u),
         owner' = owner, residue'[u] = residue[u], unmarked'[u] = unmarked[u],
         \A s \in Slots : depth'[s] # depth[s] \/ tool'[s] # tool[s] => owner[s] = t
  PROVE  DecideInv(u)'
  BY DecideKept

\* What thread t works with when it is given a slot: the only one it has.
LEMMA OnlySlot ==
  ASSUME SlotInv, ~mixed, NEW t \in Tids, Ready(t)
  PROVE  /\ Given(t) \in Slots \cup {NoSlot} /\ NoSlot \notin Slots
         /\ \A s \in Slots : owner[s] = t => s = Given(t)
         /\ Given(t) # NoSlot => owner[Given(t)] = t
         /\ hook[t] # NoSlot => Given(t) = hook[t]
         /\ t \in Live /\ pc[t] # "idle"
  <1>1. Given(t) \in Slots \cup {NoSlot} BY GivenType DEF SlotInv
  <1>2. t # NoTid /\ NoSlot \notin Slots BY ThreadSlotsConstants DEF Slots, NoSlot
  <1>3. Given(t) # NoSlot => owner[Given(t)] = t BY GivenIsOwn
  <1>4. Given(t) = NoSlot => Own(t) = {}
    BY DEF SlotInv, SearchInv, Given, Ready, FastPath
  <1>5. ASSUME NEW s \in Slots, owner[s] = t PROVE s = Given(t)
    BY <1>1, <1>2, <1>3, <1>4, <1>5 DEF Own, SlotInv, OwnerInv
  <1>6. pc[t] # "idle" BY DEF Ready
  <1> QED BY <1>1, <1>2, <1>3, <1>5, <1>6, GivenIsOwn

\* Every step of a hook keeps what the hooks will read.
LEMMA DecideHook ==
  ASSUME DecideSlotInv, NEW t \in Tids, Call(t) \/ HookStep(t) \/ Jump(t), ~mixed'
  PROVE  \A u \in Tids : DecideInv(u)'
  <1> USE ThreadSlotsConstants
  <1>0. SlotInv /\ TypeOK BY DEF DecideSlotInv, SlotInv
  <1>m. ~mixed
    BY DEF Call, HookStep, Enter, GetCtx, IncDepth, Decide, CallNested, Worked, DecDepth, Mark,
           Jump, histVars
  <1>d. \A u \in Tids : DecideInv(u) BY <1>m DEF DecideSlotInv
  <1>h. HookInv(t) BY <1>0, <1>m DEF SlotInv
  <1>f. FlagsOK BY DEF DecideSlotInv
  <1>o. ASSUME owner' = owner, \A u \in Tids \ {t} : Same(u),
               \A u \in Tids \ {t} : residue'[u] = residue[u] /\ unmarked'[u] = unmarked[u],
               \A s \in Slots : depth'[s] # depth[s] \/ tool'[s] # tool[s] => owner[s] = t,
               DecideInv(t)'
        PROVE  \A u \in Tids : DecideInv(u)'
    BY <1>0, <1>d, <1>o, DecideOthers
  <1>1. CASE Call(t)
    <2>1. \A u \in Tids \ {t} : Same(u) BY <1>0, <1>1 DEF Call, Ask, Goto, Same, TypeOK
    <2>2. /\ slotVars' = slotVars /\ role' = role /\ hook' = hook /\ nested' = nested
          /\ residue' = residue /\ unmarked' = unmarked /\ pc[t] = "idle"
          /\ pc'[t] = "get" /\ use'[t] = "enter"
      BY <1>0, <1>1 DEF Call, Ask, Goto, TypeOK, histVars
    <2>3. Raised(t)' <=> Raised(t) BY <1>h, <2>2 DEF Raised, HookInv
    <2>4. Marked(t)' => Marked(t) BY <2>2 DEF Marked
    <2>5. owner' = owner /\ depth' = depth /\ tool' = tool /\ Own(t)' = Own(t)
      BY <2>2 DEF slotVars, Own
    <2>6. DecideInv(t)' BY <1>d, <2>2, <2>3, <2>4, <2>5 DEF DecideInv
    <2> QED BY <1>o, <2>1, <2>2, <2>5, <2>6
  <1>2. CASE Enter(t)
    <2>1. \A u \in Tids \ {t} : Same(u)
      BY <1>0, <1>2 DEF Enter, Ask, Return, Used, Goto, Same, TypeOK
    <2>2. /\ Ready(t) /\ use[t] = "enter" /\ role' = role /\ owner' = owner /\ tool' = tool
          /\ residue' = residue /\ unmarked' = unmarked /\ Own(t)' = Own(t)
      BY <1>2 DEF Enter, histVars, Own
    <2>3. \A s \in Slots : depth'[s] # depth[s] => owner[s] = t
      BY <1>0, <1>2, <1>m, <2>2, OnlySlot DEF Enter, TypeOK
    <2>4. Raised(t) <=> nested[t] BY <2>2 DEF Raised, Ready
    <2>5. Marked(t) <=> role[t] = "tool" BY <2>2 DEF Marked
    <2>6. CASE Given(t) = NoSlot
      <3>1. /\ pc'[t] = "get" /\ use'[t] = "ctx" /\ hook' = hook /\ nested' = nested
            /\ depth' = depth
        BY <1>0, <1>2, <2>6 DEF Enter, Ask, Goto, TypeOK
      <3>2. hook[t] = NoSlot BY <1>0, <1>m, <2>2, <2>6, OnlySlot
      <3>3. ~Raised(t) BY <1>d, <3>2 DEF DecideInv
      <3>4. ~Raised(t)' BY <2>4, <3>1, <3>3 DEF Raised
      <3>5. DecideInv(t)' BY <1>d, <2>2, <2>5, <3>1, <3>3, <3>4 DEF DecideInv, Marked
      <3> QED BY <1>o, <2>1, <2>2, <2>3, <3>5
    <2>7. CASE Given(t) # NoSlot
      <3>0. Given(t) \in Slots /\ owner[Given(t)] = t /\ depth[Given(t)] \in -1 .. DepthMax
        BY <1>0, <1>m, <2>2, <2>7, OnlySlot DEF TypeOK
      <3> DEFINE d == IF Depth(Given(t)) > DepthMax THEN 0 ELSE Depth(Given(t))
      <3>1. depth' = [depth EXCEPT ![Given(t)] = d] BY <1>2, <2>7 DEF Enter
      <3>2. d = Depth(Given(t)) BY <3>0 DEF Depth
      <3>3. depth'[Given(t)] = Depth(Given(t)) BY <1>0, <3>0, <3>1, <3>2 DEF TypeOK
      <3> HIDE DEF d
      <3>4. \A s \in Slots : owner[s] = t => s = Given(t) BY <1>0, <1>m, <2>2, OnlySlot
      <3>5. CASE depth'[Given(t)] > 0
        <4>1. Return(t) BY <1>2, <2>7, <3>5 DEF Enter
        <4>2. CASE nested[t]
          <5>1. pc'[t] = "work" /\ use'[t] = "enter" /\ hook' = hook /\ ~nested'[t]
            BY <1>0, <4>1, <4>2 DEF Return, Goto, TypeOK
          <5>2. Raised(t) /\ Raised(t)' BY <2>4, <4>2, <5>1 DEF Raised
          <5>3. ~(role[t] = "tool" /\ ~unmarked[t]) BY <1>d, <2>5, <4>2 DEF DecideInv
          <5>4. ASSUME NEW s \in Slots, role[t] = "prog", ~residue[t], owner[s] = t
                PROVE  ~tool[s] /\ depth'[s] = 1
            BY <1>d, <3>3, <3>4, <5>2, <5>4 DEF DecideInv, Depth
          <5>5. DecideInv(t)'
            BY <1>d, <2>2, <5>1, <5>2, <5>3, <5>4 DEF DecideInv, Marked
          <5> QED BY <1>o, <2>1, <2>2, <2>3, <5>5
        <4>3. CASE ~nested[t]
          <5>1. pc'[t] = "idle" /\ use'[t] = "enter" /\ ~nested'[t]
            BY <1>0, <4>1, <4>3 DEF Return, Goto, TypeOK
          <5>2. ~Raised(t) /\ ~Raised(t)' BY <2>4, <4>3, <5>1 DEF Raised
          <5>3. ASSUME role[t] = "prog", ~residue[t] PROVE FALSE
            BY <1>d, <3>0, <3>3, <3>5, <5>2, <5>3 DEF DecideInv, Depth
          <5>4. DecideInv(t)' BY <1>d, <2>2, <2>5, <5>1, <5>2, <5>3 DEF DecideInv, Marked
          <5> QED BY <1>o, <2>1, <2>2, <2>3, <5>4
        <4> QED BY <4>2, <4>3
      <3>6. CASE ~(depth'[Given(t)] > 0)
        <4>1. pc'[t] = "get" /\ use'[t] = "ctx" /\ hook' = hook /\ nested' = nested
          BY <1>0, <1>2, <2>7, <3>6 DEF Enter, Ask, Goto, TypeOK
        <4>2. ~nested[t]
          <5> SUFFICES ASSUME nested[t] PROVE FALSE OBVIOUS
          <5>1. hook[t] # NoSlot /\ depth[hook[t]] > 0 BY <1>h DEF HookInv
          <5>2. Given(t) = hook[t] BY <1>0, <1>m, <2>2, <5>1, OnlySlot
          <5> QED BY <3>0, <3>3, <3>6, <5>1, <5>2 DEF Depth
        <4>3. ~Raised(t) /\ ~Raised(t)' BY <2>4, <4>1, <4>2 DEF Raised
        <4>4. \A s \in Slots : owner[s] = t => depth'[s] <= 0
          BY <3>0, <3>3, <3>4, <3>6 DEF Depth
        <4>5. DecideInv(t)'
          BY <1>d, <2>2, <2>5, <4>1, <4>3, <4>4 DEF DecideInv, Marked
        <4> QED BY <1>o, <2>1, <2>2, <2>3, <4>5
      <3> QED BY <3>5, <3>6
    <2> QED BY <2>6, <2>7
  <1>3. CASE GetCtx(t)
    <2>1. \A u \in Tids \ {t} : Same(u)
      BY <1>0, <1>3 DEF GetCtx, Ask, Return, Used, Goto, Same, TypeOK
    <2>2. /\ Ready(t) /\ use[t] = "ctx" /\ role' = role /\ owner' = owner /\ tool' = tool
          /\ depth' = depth /\ residue' = residue /\ unmarked' = unmarked /\ Own(t)' = Own(t)
      BY <1>3 DEF GetCtx, histVars, slotVars, Own
    <2>3. ~nested[t] BY <1>h, <2>2 DEF HookInv
    <2>4. ~Raised(t) BY <2>2, <2>3 DEF Raised, Ready
    <2>5. pc'[t] \in {"idle", "get"} /\ use'[t] \in {"enter", "inc"} /\ ~nested'[t]
      BY <1>0, <1>3, <2>3 DEF GetCtx, Ask, Return, Goto, TypeOK
    <2>6. ~Raised(t)' BY <2>5 DEF Raised
    <2>7. Marked(t) <=> role[t] = "tool" BY <2>2 DEF Marked
    <2>8. DecideInv(t)' BY <1>d, <2>2, <2>4, <2>5, <2>6, <2>7 DEF DecideInv, Marked
    <2> QED BY <1>o, <2>1, <2>2, <2>8
  <1>4. CASE IncDepth(t)
    <2>1. \A u \in Tids \ {t} : Same(u) BY <1>0, <1>4 DEF IncDepth, Used, Goto, Same, TypeOK
    <2>2. /\ Ready(t) /\ use[t] = "inc" /\ role' = role /\ owner' = owner /\ tool' = tool
          /\ residue' = residue /\ unmarked' = unmarked /\ Own(t)' = Own(t)
          /\ pc'[t] = "decide" /\ use' = use /\ hook' = hook /\ nested' = nested
      BY <1>0, <1>4 DEF IncDepth, histVars, Own, Goto, TypeOK
    <2>3. \A s \in Slots : depth'[s] # depth[s] => owner[s] = t
      BY <1>0, <1>4, <1>m, <2>2, OnlySlot DEF IncDepth, TypeOK
    <2>4. hook[t] # NoSlot /\ ~nested[t] BY <1>h, <2>2 DEF HookInv, Ready
    <2>5. Given(t) = hook[t] /\ Given(t) \in Slots /\ depth[Given(t)] \in -1 .. DepthMax
          /\ \A s \in Slots : owner[s] = t => s = Given(t)
      BY <1>0, <1>m, <2>2, <2>4, OnlySlot DEF TypeOK
    <2>6. ~Raised(t) /\ Raised(t)' BY <2>2, <2>4 DEF Raised, Ready
    <2>7. ASSUME role[t] = "prog", ~residue[t], owner[Given(t)] = t
          PROVE  depth'[Given(t)] = 1
      <3>1. depth[Given(t)] <= 0 BY <1>d, <2>5, <2>6, <2>7 DEF DecideInv
      <3>2. Depth(Given(t)) = 0 BY <2>5, <3>1 DEF Depth
      <3> QED BY <1>0, <1>4, <2>4, <2>5, <3>2 DEF IncDepth, TypeOK
    <2>8. Marked(t) <=> role[t] = "tool" BY <2>2 DEF Marked
    <2>9. DecideInv(t)'
      BY <1>d, <2>2, <2>4, <2>5, <2>6, <2>7, <2>8 DEF DecideInv, Marked
    <2> QED BY <1>o, <2>1, <2>2, <2>3, <2>9
  <1>5. CASE Decide(t) \/ CallNested(t) \/ Worked(t)
    <2>1. \A u \in Tids \ {t} : Same(u)
      BY <1>0, <1>5 DEF Decide, CallNested, Worked, Ask, Goto, Same, TypeOK
    <2>2. /\ pc[t] \in {"decide", "work"} /\ role' = role /\ owner' = owner /\ depth' = depth
          /\ tool' = tool /\ hook' = hook /\ residue' = residue /\ unmarked' = unmarked
          /\ Own(t)' = Own(t)
      BY <1>5 DEF Decide, CallNested, Worked, slotVars, histVars, Own
    <2>3. hook[t] # NoSlot /\ owner[hook[t]] = t /\ hook[t] \in Slots /\ ~nested[t]
      BY <1>0, <1>h, <2>2 DEF HookInv, TypeOK
    <2>4. \/ pc'[t] = "get" /\ use'[t] = "dec" /\ ~nested'[t]
          \/ pc[t] = "decide" /\ pc'[t] = "work" /\ ~tool[hook[t]] /\ ~nested'[t] /\ use' = use
          \/ pc[t] = "work" /\ pc'[t] = "get" /\ nested'[t] /\ use'[t] = "enter"
      BY <1>0, <1>5, <2>3 DEF Decide, CallNested, Worked, Ask, Goto, TypeOK
    <2>5. Raised(t) /\ Raised(t)' BY <2>2, <2>4 DEF Raised
    <2>6. use[t] # "mark" BY <1>h, <2>3 DEF HookInv
    <2>7. Marked(t) <=> role[t] = "tool" BY <2>6 DEF Marked
    <2>8. use'[t] # "mark" BY <2>4, <2>6
    <2>9. role[t] = "tool" /\ ~unmarked[t] =>
            /\ pc'[t] # "work" /\ ~nested'[t]
            /\ Own(t) # {} /\ \A s \in Slots : owner[s] = t => tool[s]
      BY <1>d, <2>3, <2>4, <2>7 DEF DecideInv
    <2>10. DecideInv(t)'
      BY <1>d, <2>2, <2>3, <2>5, <2>7, <2>8, <2>9 DEF DecideInv, Marked
    <2> QED BY <1>o, <2>1, <2>2, <2>10
  <1>6. CASE DecDepth(t)
    <2>1. \A u \in Tids \ {t} : Same(u)
      BY <1>0, <1>6 DEF DecDepth, Return, Used, Goto, Same, TypeOK
    <2>2. /\ Ready(t) /\ use[t] = "dec" /\ role' = role /\ owner' = owner /\ tool' = tool
          /\ residue' = residue /\ unmarked' = unmarked /\ Own(t)' = Own(t) /\ Return(t)
      BY <1>6 DEF DecDepth, histVars, Own
    <2>3. \A s \in Slots : depth'[s] # depth[s] => owner[s] = t
      BY <1>0, <1>6, <1>m, <2>2, OnlySlot DEF DecDepth, TypeOK
    <2>4. ~nested[t] BY <1>h, <2>2 DEF HookInv
    <2>5. pc'[t] = "idle" /\ use'[t] = "enter" /\ ~nested'[t]
      BY <1>0, <2>2, <2>4 DEF Return, Goto, TypeOK
    <2>6. pc[t] # "idle" BY <2>2 DEF Ready
    <2>7. Raised(t) /\ ~Raised(t)' BY <2>2, <2>5, <2>6 DEF Raised
    <2>8. Given(t) \in Slots /\ \A s \in Slots : owner[s] = t => s = Given(t)
      BY <1>0, <1>d, <1>m, <2>2, <2>7, OnlySlot DEF DecideInv
    <2>9. depth'[Given(t)] = IF depth[Given(t)] > 0 THEN depth[Given(t)] - 1 ELSE 0
      BY <1>0, <1>6, <2>8, OnlySlot, <1>m, <2>2 DEF DecDepth, TypeOK
    <2>10. ASSUME role[t] = "prog", ~residue[t], NEW s \in Slots, owner[s] = t
           PROVE  ~tool[s] /\ depth'[s] <= 0
      BY <1>d, <2>7, <2>8, <2>9, <2>10 DEF DecideInv
    <2>11. Marked(t) <=> role[t] = "tool" BY <2>2 DEF Marked
    <2>12. DecideInv(t)'
      BY <1>d, <2>2, <2>5, <2>7, <2>10, <2>11 DEF DecideInv, Marked
    <2> QED BY <1>o, <2>1, <2>2, <2>3, <2>12
  <1>7. CASE Mark(t)
    <2>1. \A u \in Tids \ {t} : Same(u) BY <1>0, <1>7 DEF Mark, Used, Goto, Same, TypeOK
    <2>2. /\ Ready(t) /\ use[t] = "mark" /\ role' = role /\ owner' = owner /\ depth' = depth
          /\ residue' = residue /\ Own(t)' = Own(t) /\ hook' = hook /\ nested' = nested
          /\ pc'[t] = "idle" /\ use'[t] = "enter"
          /\ unmarked' = [unmarked EXCEPT ![t] = (Given(t) = NoSlot)]
          /\ tool' = IF Given(t) = NoSlot THEN tool ELSE [tool EXCEPT ![Given(t)] = TRUE]
      BY <1>0, <1>7 DEF Mark, Own, Goto, TypeOK
    <2>3. /\ pc[t] # "idle" /\ Given(t) \in Slots \cup {NoSlot} /\ NoSlot \notin Slots
          /\ \A s \in Slots : owner[s] = t => s = Given(t)
          /\ Given(t) # NoSlot => owner[Given(t)] = t
      BY <1>0, <1>m, <2>2, OnlySlot
    <2>4. \A s \in Slots : tool'[s] # tool[s] => owner[s] = t
      BY <1>0, <2>2, <2>3 DEF TypeOK
    <2>5. ~nested[t] BY <1>d, <2>2, <2>3 DEF DecideInv
    <2>6. ~Raised(t)' BY <2>2, <2>5 DEF Raised
    <2>7. role[t] # "prog" BY <1>d, <2>2, <2>3 DEF DecideInv
    <2>8. ASSUME ~unmarked'[t] PROVE Own(t) # {} /\ \A s \in Slots : owner[s] = t => tool'[s]
      <3>1. Given(t) \in Slots /\ owner[Given(t)] = t BY <1>f, <2>2, <2>3, <2>8 DEF FlagsOK
      <3>2. tool'[Given(t)] = TRUE BY <1>0, <2>2, <2>3, <3>1 DEF TypeOK
      <3>3. Given(t) \in Own(t) BY <3>1 DEF Own
      <3> QED BY <2>3, <3>2, <3>3
    <2>9. DecideInv(t)' BY <2>2, <2>5, <2>6, <2>7, <2>8 DEF DecideInv, Marked
    <2> QED BY <1>f, <1>o, <2>1, <2>2, <2>4, <2>9 DEF FlagsOK
  <1>8. CASE Jump(t)
    <2>1. \A u \in Tids \ {t} : Same(u) BY <1>0, <1>8 DEF Jump, Goto, Same, TypeOK
    <2>2. /\ pc[t] = "work" /\ role' = role /\ slotVars' = slotVars /\ unmarked' = unmarked
          /\ nested' = nested /\ pc'[t] = "idle" /\ use'[t] = "enter" /\ Own(t)' = Own(t)
          /\ residue' = [residue EXCEPT ![t] = TRUE]
      BY <1>0, <1>8 DEF Jump, Goto, TypeOK, slotVars, Own
    <2>3. ~nested[t] BY <1>h, <2>2 DEF HookInv
    <2>4. ~Raised(t)' BY <2>2, <2>3 DEF Raised
    <2>5. use[t] # "mark" BY <1>h, <2>2 DEF HookInv
    <2>6. ~(role[t] = "tool" /\ ~unmarked[t]) BY <1>d, <2>2, <2>5 DEF DecideInv, Marked
    <2>7. residue'[t] BY <1>f, <2>2 DEF FlagsOK
    <2>8. DecideInv(t)' BY <2>2, <2>3, <2>4, <2>6, <2>7 DEF DecideInv, Marked
    <2> QED BY <1>f, <1>o, <2>1, <2>2, <2>8 DEF slotVars, FlagsOK
  <1> QED BY <1>1, <1>2, <1>3, <1>4, <1>5, <1>6, <1>7, <1>8 DEF HookStep

\* Threads that begin and end, here or elsewhere: what a thread that begins to
\* exist finds in the slot of its id is recorded.
LEMMA DecideLife ==
  ASSUME DecideSlotInv, NEW t \in Tids, Begin(t) \/ BeginTool(t) \/ End(t) \/ EndOther(t), ~mixed'
  PROVE  \A u \in Tids : DecideInv(u)'
  <1>0. SlotInv /\ TypeOK /\ FlagsOK /\ t \in Ids BY DEF DecideSlotInv, SlotInv, Ids
  <1>1. slotVars' = slotVars /\ ~mixed
    BY DEF Begin, BeginTool, End, EndOther, histVars
  <1>d. \A u \in Tids : DecideInv(u) BY <1>1 DEF DecideSlotInv
  <1>2. ASSUME NEW u \in Tids \ {t} PROVE DecideInv(u)'
    <2>1. Same(u) /\ residue'[u] = residue[u] /\ unmarked'[u] = unmarked[u]
      BY <1>0 DEF Begin, BeginTool, End, EndOther, Reset, Ask, Goto, Same, TypeOK, FlagsOK,
                  callVars, histVars, Ids
    <2> QED BY <1>1, <1>d, <2>1, DecideKept DEF slotVars
  <1>3. DecideInv(t)'
    <2>1. CASE Begin(t)
      <3>1. /\ role'[t] = "prog" /\ pc'[t] = "idle" /\ use'[t] = "enter" /\ ~nested'[t]
            /\ residue'[t] = \E s \in Own(t) : depth[s] > 0 \/ tool[s]
        BY <1>0, <2>1 DEF Begin, Reset, Goto, TypeOK, FlagsOK
      <3>2. ~Raised(t)' BY <3>1 DEF Raised
      <3>3. ASSUME ~residue'[t], NEW s \in Slots, owner[s] = t PROVE ~tool[s] /\ depth[s] <= 0
        <4>1. depth[s] \in -1 .. DepthMax BY <1>0 DEF TypeOK
        <4>2. s \in Own(t) BY <3>3 DEF Own
        <4>3. ~(depth[s] > 0 \/ tool[s]) BY <3>1, <3>3, <4>2
        <4> QED BY <4>1, <4>3, ThreadSlotsConstants
      <3> QED BY <1>1, <3>1, <3>2, <3>3 DEF DecideInv, Marked, slotVars
    <2>2. CASE BeginTool(t)
      <3>1. role'[t] = "tool" /\ pc'[t] = "get" /\ use'[t] = "mark" /\ ~nested'[t]
        BY <1>0, <2>2 DEF BeginTool, Reset, Ask, Goto, TypeOK
      <3>2. ~Raised(t)' /\ ~Marked(t)' BY <3>1 DEF Raised, Marked
      <3> QED BY <3>1, <3>2 DEF DecideInv
    <2>3. CASE End(t)
      <3>1. role'[t] = "none" /\ pc'[t] = "idle" /\ use'[t] = "enter" /\ ~nested'[t]
        BY <1>0, <2>3 DEF End, Reset, Goto, TypeOK
      <3>2. ~Raised(t)' BY <3>1 DEF Raised
      <3> QED BY <3>1, <3>2 DEF DecideInv, Marked
    <2>4. CASE EndOther(t)
      <3>1. /\ role'[t] = "none" /\ role[t] = "other" /\ pc' = pc /\ use' = use
            /\ nested' = nested /\ hook' = hook
        BY <1>0, <2>4 DEF EndOther, callVars, TypeOK
      <3>2. pc[t] = "idle" BY <1>0, <3>1 DEF SlotInv, SearchInv, Live
      <3>3. Raised(t)' <=> Raised(t) BY <3>1 DEF Raised
      <3> QED BY <1>d, <3>1, <3>2, <3>3 DEF DecideInv, Marked
    <2> QED BY <2>1, <2>2, <2>3, <2>4
  <1> QED BY <1>2, <1>3

\* The child of a fork: its one slot, if it has one, has a depth of 0, and that
\* it was marked is recorded.
LEMMA DecideFork ==
  ASSUME DecideSlotInv, NEW t \in Tids, NEW c \in Tids, Fork(t, c)
  PROVE  \A u \in Tids : DecideInv(u)'
  <1> TAKE u \in Tids
  <1>1. /\ u \in Ids
        /\ role'[u] = IF u = c THEN "prog" ELSE IF role[u] = "none" THEN "none" ELSE "other"
        /\ pc'[u] = "idle" /\ use'[u] = "enter" /\ ~nested'[u]
        /\ residue'[u] = (u = c /\ \E s \in Own(c) : tool[s])
    BY DEF Fork, Ids
  <1>2. ~Raised(u)' /\ ~Marked(u)' BY <1>1 DEF Raised, Marked
  <1>3. ASSUME u = c, ~residue'[u], NEW s \in Slots, owner'[s] = u
        PROVE  ~tool'[s] /\ depth'[s] <= 0
    <2>1. owner[s] = c BY <1>3, ThreadSlotsConstants DEF Fork
    <2>2. s \in Own(c) BY <2>1 DEF Own
    <2>3. depth'[s] = 0 /\ tool' = tool BY <2>2 DEF Fork
    <2>4. ~tool[s] BY <1>1, <1>3, <2>2
    <2> QED BY <2>3, <2>4
  <1> QED BY <1>1, <1>2, <1>3 DEF DecideInv

\* The flags of the history stay Boolean.
LEMMA FlagTypes ==
  ASSUME FlagsOK, Next
  PROVE  FlagsOK'
  <1>1. PICK t \in Tids :
             \/ Call(t) \/ GetStep(t) \/ HookStep(t) \/ Jump(t)
             \/ Begin(t) \/ BeginTool(t) \/ End(t) \/ EndOther(t)
             \/ \E c \in Tids : Fork(t, c)
    BY DEF Next, Step
  <1>2. CASE Call(t) \/ Find(t) \/ Miss(t) \/ Check(t) \/ EndOther(t)
    BY <1>2 DEF Call, Find, Miss, Check, EndOther, histVars, FlagsOK
  <1>3. CASE Claim(t) \/ Steal(t) BY <1>3 DEF Claim, Steal, Fresh, FlagsOK
  <1>4. CASE Enter(t) \/ GetCtx(t) \/ IncDepth(t) \/ Decide(t) \/ CallNested(t) \/ Worked(t)
             \/ DecDepth(t)
    BY <1>4 DEF Enter, GetCtx, IncDepth, Decide, CallNested, Worked, DecDepth, histVars, FlagsOK
  <1>5. CASE Mark(t)
    <2>1. residue' = residue /\ unmarked' = [unmarked EXCEPT ![t] = (Given(t) = NoSlot)]
      BY <1>5 DEF Mark
    <2> QED BY <2>1 DEF FlagsOK
  <1>6. CASE Jump(t) BY <1>6 DEF Jump, FlagsOK
  <1>7. CASE Begin(t)
    <2> DEFINE r == \E s \in Own(t) : depth[s] > 0 \/ tool[s]
    <2>1. residue' = [residue EXCEPT ![t] = r] /\ unmarked' = [unmarked EXCEPT ![t] = FALSE]
      BY <1>7 DEF Begin, Reset
    <2>2. r \in BOOLEAN OBVIOUS
    <2> HIDE DEF r
    <2> QED BY <2>1, <2>2 DEF FlagsOK
  <1>8. CASE BeginTool(t) \/ End(t) BY <1>8 DEF BeginTool, End, Reset, FlagsOK
  <1>9. ASSUME NEW c \in Tids, Fork(t, c) PROVE FlagsOK'
    <2> DEFINE r == \E s \in Own(c) : tool[s]
    <2>1. residue' = [u \in Tids |-> u = c /\ r] /\ unmarked' = [u \in Tids |-> FALSE]
      BY <1>9 DEF Fork
    <2>2. \A u \in Tids : (u = c /\ r) \in BOOLEAN OBVIOUS
    <2> HIDE DEF r
    <2> QED BY <2>1, <2>2 DEF FlagsOK
  <1> QED BY <1>1, <1>2, <1>3, <1>4, <1>5, <1>6, <1>7, <1>8, <1>9 DEF GetStep, HookStep

\* What the hooks will read holds at the start, and every step keeps it.
LEMMA DecideStep ==
  /\ Init => DecideSlotInv
  /\ DecideSlotInv /\ [Next]_vars => DecideSlotInv'
  <1>1. ASSUME Init PROVE DecideSlotInv
    <2>1. SlotInv BY <1>1, SlotInit
    <2>2. FlagsOK BY <1>1 DEF Init, FlagsOK
    <2>3. \A t \in Tids : ~Raised(t)
      BY <1>1 DEF Init, Raised
    <2>4. \A s \in Slots : depth[s] <= 0 /\ ~tool[s] BY <1>1 DEF Init
    <2>5. \A t \in Tids : pc[t] = "idle" /\ role[t] # "tool"
      BY <1>1 DEF Init, Ids
    <2>6. \A t \in Tids : DecideInv(t) BY <2>3, <2>4, <2>5 DEF DecideInv, Marked
    <2> QED BY <2>1, <2>2, <2>6 DEF DecideSlotInv
  <1>2. ASSUME DecideSlotInv, [Next]_vars PROVE DecideSlotInv'
    <2>1. SlotInv' BY <1>2, SlotStep DEF DecideSlotInv
    <2>2. CASE UNCHANGED vars
      BY <1>2, <2>1, <2>2 DEF vars, slotVars, callVars, histVars, DecideSlotInv, FlagsOK, DecideInv,
                              Raised, Marked, Own
    <2>3. CASE Next
      <3>1. FlagsOK' BY <1>2, <2>3, FlagTypes DEF DecideSlotInv
      <3>2. ASSUME ~mixed' PROVE \A u \in Tids : DecideInv(u)'
        BY <1>2, <2>3, <3>2, DecideGet, DecideHook, DecideLife, DecideFork DEF Next, Step
      <3> QED BY <2>1, <3>1, <3>2 DEF DecideSlotInv
    <2> QED BY <1>2, <2>2, <2>3
  <1> QED BY <1>1, <1>2

\* Unless the history excuses it, the outermost hook of a thread of the program
\* that has a slot never passes untracked, and a thread of the tool that marked
\* its slot never comes to the work of a hook (hooks.c:102-137,
\* reporter.c:1110-1112): the depth of the slot counts the open hook and nothing
\* else, and the mark stays as long as the thread.
THEOREM HooksDecideRight == Spec => []DecidesRight
  <1>1. ASSUME DecideSlotInv PROVE DecidesRight
    <2> SUFFICES ASSUME ~mixed, NEW t \in Tids
                 PROVE  /\ role[t] = "prog" /\ Passes(t) => residue[t]
                        /\ role[t] = "tool" /\ pc[t] = "work" => unmarked[t]
      BY DEF DecidesRight
    <2>0. SlotInv /\ TypeOK /\ HookInv(t) /\ DecideInv(t)
      BY <1>1 DEF DecideSlotInv, SlotInv
    <2>1. ASSUME role[t] = "prog", ~residue[t], Ready(t), use[t] = "enter", ~nested[t],
                 Given(t) # NoSlot, depth[Given(t)] > 0
          PROVE  FALSE
      <3>1. Given(t) \in Slots /\ owner[Given(t)] = t BY <2>0, <2>1, OnlySlot
      <3>2. ~Raised(t) BY <2>1 DEF Raised, Ready
      <3>3. depth[Given(t)] <= 0 BY <2>0, <2>1, <3>1, <3>2 DEF DecideInv
      <3>4. depth[Given(t)] \in -1 .. DepthMax BY <2>0, <3>1 DEF TypeOK
      <3> QED BY <2>1, <3>3, <3>4, ThreadSlotsConstants
    <2>2. ASSUME role[t] = "prog", ~residue[t], pc[t] = "decide", tool[hook[t]]
          PROVE  FALSE
      <3>1. owner[hook[t]] = t /\ hook[t] \in Slots BY <2>0, <2>2 DEF HookInv, TypeOK
      <3> QED BY <2>0, <2>2, <3>1 DEF DecideInv
    <2>3. ASSUME role[t] = "tool", pc[t] = "work" PROVE unmarked[t]
      BY <2>0, <2>3 DEF DecideInv, Marked
    <2> QED BY <2>1, <2>2, <2>3 DEF Passes
  <1> QED BY <1>1, DecideStep, PTL DEF Spec
=============================================================================
