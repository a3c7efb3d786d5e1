-------------------------- MODULE RawResolveProofs --------------------------
(***************************************************************************)
(* Proofs about RawResolve for any set of threads, any number of calls and *)
(* any functions that RTLD_NEXT or the candidate libraries do not yield.   *)
(***************************************************************************)
EXTENDS RawResolve, TLAPS

\* The steps of the thread that won the compare-and-swap.
Winning == {"set", "libc", "publish"}

\* The preset: a caller that has stored some bootstrap addresses, or all of
\* them, left no NULL behind, and resolution only starts after all of them
\* (tracker.c:275-281).
PresetInv ==
  /\ \A t \in Threads : pc[t] = "preset" =>
       \A j \in 1 .. i[t] - 1 : raw[Order[j]] # "null"
  /\ \A t \in Threads : pc[t] = "cas" => i[t] = 1 /\ \A f \in Fns : raw[f] # "null"
  /\ g_raw_resolved => \A f \in Fns : raw[f] # "null"
  /\ \A t \in Threads : pc[t] = "call" => raw["malloc"] # "null"

\* The compare-and-swap: one caller resolves, and nobody does after the flag
\* is up or before the swap.
WinnerInv ==
  /\ \A t \in Threads : pc[t] \in Winning => g_raw_resolved /\ ~g_raw_ready
  /\ \A t, u \in Threads : pc[t] \in Winning /\ pc[u] \in Winning => t = u
  /\ g_raw_ready => g_raw_resolved

\* The stores of the winner, as far as it has come.
StoresInv ==
  ~late => \A t \in Threads :
    /\ pc[t] = "set" =>
         \A j \in 1 .. i[t] - 1 : Order[j] \notin Refused => raw[Order[j]] = "real"
    /\ pc[t] = "libc" => \A f \in Fns \ Refused : raw[f] = "real"
    /\ pc[t] = "publish" => \A f \in Fns \ NotInLibc : raw[f] = "real"

\* The inductive invariant.
ResolveInv == TypeOK /\ PresetInv /\ WinnerInv /\ StoresInv /\ ReadyMeansReal

\* The order of the stores names every function once.
LEMMA OrderNames ==
  /\ Len(Order) = 4
  /\ \A j \in 1 .. 4 : Order[j] \in Fns
  /\ \A f \in Fns : \E j \in 1 .. 4 : Order[j] = f
  /\ Order[1] = "malloc"
  BY DEF Order, Fns

\* The first state.
LEMMA InvInit == Init => ResolveInv
  <1> SUFFICES ASSUME Init PROVE ResolveInv
    OBVIOUS
  <1>1. TypeOK
    <2>1. nested \in [Threads -> BOOLEAN] /\ raw \in [Fns -> {"null", "boot", "real"}]
      BY DEF Init
    <2>2. i \in [Threads -> 1 .. Len(Order)]
      <3>1. 1 \in 1 .. Len(Order) BY OrderNames
      <3> QED BY <3>1 DEF Init
    <2>3. pc \in [Threads -> {"idle", "ready", "null", "preset", "cas", "set", "libc",
                              "publish", "call"}]
      BY DEF Init
    <2>4. g_raw_resolved \in BOOLEAN /\ g_raw_ready \in BOOLEAN /\ late \in BOOLEAN
      BY DEF Init
    <2>5. calls \in 0 .. MaxCalls BY ResolveConstants DEF Init
    <2> QED BY <2>1, <2>2, <2>3, <2>4, <2>5 DEF TypeOK
  <1>2. \A t \in Threads : pc[t] = "idle" BY DEF Init
  <1> QED BY <1>1, <1>2
          DEF Init, ResolveInv, PresetInv, WinnerInv, StoresInv, ReadyMeansReal, Winning

\* Types.
LEMMA TypeStep == TypeOK /\ [Next]_vars => TypeOK'
  <1> SUFFICES ASSUME TypeOK, [Next]_vars PROVE TypeOK'
    OBVIOUS
  <1> USE ResolveConstants, OrderNames DEF TypeOK
  <1>1. CASE UNCHANGED vars BY <1>1 DEF vars
  <1>2. ASSUME NEW t \in Threads, Enter(t) \/ LoadReady(t) \/ LoadRaw(t) PROVE TypeOK'
    BY <1>2 DEF Enter, LoadReady, LoadRaw, Goto
  <1>6. ASSUME NEW t \in Threads, Cas(t) \/ Nested(t) \/ Publish(t) \/ CallRaw(t)
        PROVE  TypeOK'
    BY <1>6 DEF Cas, Nested, Publish, CallRaw, Goto
  <1>3. ASSUME NEW t \in Threads, Preset(t) PROVE TypeOK'
    BY <1>3 DEF Preset, Goto
  <1>4. ASSUME NEW t \in Threads, SafeSet(t) PROVE TypeOK'
    BY <1>4 DEF SafeSet, Goto
  <1>5. ASSUME NEW t \in Threads, Candidates(t) PROVE TypeOK'
    BY <1>5 DEF Candidates, Goto
  <1> QED BY <1>1, <1>2, <1>3, <1>4, <1>5, <1>6 DEF Next, Step

\* A step that leaves the pointers, the flags and the stores done alone, and
\* goes nowhere the invariant speaks of, keeps it.
LEMMA QuietStep ==
  ASSUME ResolveInv, TypeOK', NEW t \in Threads,
         \A u \in Threads \ {t} : pc'[u] = pc[u] /\ i'[u] = i[u],
         \/ pc'[t] \in {"idle", "ready", "null"}
         \/ pc'[t] = "call" /\ raw["malloc"] # "null"
         \/ pc'[t] = "preset" /\ i'[t] = 1,
         UNCHANGED <<raw, g_raw_resolved, g_raw_ready, late>>
  PROVE  ResolveInv'
  <1> USE DEF ResolveInv, TypeOK
  <1>1. PresetInv'
    <2>1. \A u \in Threads : pc'[u] = "preset" =>
            (pc[u] = "preset" /\ i'[u] = i[u]) \/ i'[u] = 1
      OBVIOUS
    <2>2. \A u \in Threads : pc'[u] = "cas" => pc[u] = "cas" /\ i'[u] = i[u]
      OBVIOUS
    <2>3. \A u \in Threads : pc'[u] = "call" => pc[u] = "call" \/ raw["malloc"] # "null"
      OBVIOUS
    <2>4. \A u \in Threads : pc'[u] = "preset" =>
            \A j \in 1 .. i'[u] - 1 : raw'[Order[j]] # "null"
      BY <2>1 DEF PresetInv
    <2> QED BY <2>2, <2>3, <2>4 DEF PresetInv
  <1>2. WinnerInv' BY DEF WinnerInv, Winning
  <1>3. StoresInv' BY DEF StoresInv
  <1>4. ReadyMeansReal' BY DEF ReadyMeansReal
  <1> QED BY <1>1, <1>2, <1>3, <1>4

\* A store of a bootstrap address: late, if the swap has been won.
LEMMA PresetStep ==
  ASSUME ResolveInv, TypeOK', NEW t \in Threads, Preset(t)
  PROVE  ResolveInv'
  <1> USE OrderNames DEF ResolveInv, TypeOK
  <1>0. i[t] \in 1 .. 4 /\ Order[i[t]] \in Fns OBVIOUS
  <1>1. \A f \in Fns : raw'[f] = IF f = Order[i[t]] THEN "boot" ELSE raw[f]
    BY <1>0 DEF Preset
  <1>2. PresetInv'
    <2>1. CASE i[t] < 4
      BY <1>0, <1>1, <2>1 DEF Preset, PresetInv
    <2>2. CASE i[t] = 4
      <3>1. \A f \in Fns : raw'[f] # "null"
        BY <1>0, <1>1, <2>2 DEF Preset, PresetInv
      <3> QED BY <1>0, <3>1 DEF Preset, PresetInv, Goto
    <2> QED BY <1>0, <2>1, <2>2
  <1>3. pc' = pc \/ pc' = [pc EXCEPT ![t] = "cas"] BY DEF Preset, Goto
  <1>4. WinnerInv' BY <1>3 DEF Preset, WinnerInv, Winning
  <1>5. StoresInv' /\ ReadyMeansReal'
    BY <1>3, <1>4 DEF Preset, WinnerInv, StoresInv, ReadyMeansReal, Winning
  <1> QED BY <1>2, <1>4, <1>5

\* The compare-and-swap.
LEMMA CasStep ==
  ASSUME ResolveInv, TypeOK', NEW t \in Threads, Cas(t)
  PROVE  ResolveInv'
  <1> USE DEF ResolveInv, TypeOK
  <1>1. "malloc" \in Fns BY DEF Fns
  <1>2. PresetInv' BY <1>1 DEF Cas, PresetInv, Goto
  <1>3. WinnerInv' BY DEF Cas, WinnerInv, Goto, Winning
  <1>4. \A u \in Threads : pc'[u] \in {"libc", "publish"} => pc'[u] = pc[u]
    BY DEF Cas, Goto
  <1>5. \A u \in Threads : pc'[u] = "set" => pc[u] = "set" \/ u = t
    BY DEF Cas, Goto
  <1>6. i[t] = 1 BY DEF Cas, PresetInv
  <1>7. StoresInv' BY <1>4, <1>5, <1>6 DEF Cas, StoresInv
  <1>8. ReadyMeansReal' BY DEF Cas, ReadyMeansReal
  <1> QED BY <1>2, <1>3, <1>7, <1>8

\* RAW_SAFE_SET.
LEMMA SafeSetStep ==
  ASSUME ResolveInv, TypeOK', NEW t \in Threads, SafeSet(t)
  PROVE  ResolveInv'
  <1> USE OrderNames DEF ResolveInv, TypeOK
  <1>0. i[t] \in 1 .. 4 /\ Order[i[t]] \in Fns /\ "malloc" \in Fns BY DEF Fns
  <1>1. \A f \in Fns : raw'[f] = IF f = Order[i[t]] /\ f \notin Refused
                                 THEN "real" ELSE raw[f]
    BY <1>0 DEF SafeSet
  <1>2. pc' = pc \/ pc' = [pc EXCEPT ![t] = "libc"] BY DEF SafeSet, Goto
  <1>3. \A u \in Threads \ {t} : pc'[u] = pc[u] /\ i'[u] = i[u]
    BY <1>2 DEF SafeSet
  <1>4. PresetInv'
    BY <1>0, <1>1, <1>2, <1>3 DEF SafeSet, PresetInv
  <1>5. WinnerInv' BY <1>2 DEF SafeSet, WinnerInv, Winning
  <1>6. \A u \in Threads : pc'[u] \in Winning => u = t
    BY <1>5, <1>2 DEF SafeSet, WinnerInv, Winning
  <1>7. ASSUME ~late
        PROVE  \A j \in 1 .. i[t] : Order[j] \notin Refused => raw'[Order[j]] = "real"
    BY <1>0, <1>1, <1>7 DEF SafeSet, StoresInv
  <1>8. StoresInv'
    <2>1. CASE i[t] < 4
      BY <1>0, <1>6, <1>7, <2>1 DEF SafeSet, StoresInv, Winning
    <2>2. CASE i[t] = 4
      BY <1>0, <1>6, <1>7, <2>2 DEF SafeSet, StoresInv, Winning, Goto
    <2> QED BY <1>0, <2>1, <2>2
  <1>9. ReadyMeansReal' BY DEF SafeSet, WinnerInv, ReadyMeansReal, Winning
  <1> QED BY <1>4, <1>5, <1>8, <1>9

\* The candidate libraries.
LEMMA CandidatesStep ==
  ASSUME ResolveInv, TypeOK', NEW t \in Threads, Candidates(t)
  PROVE  ResolveInv'
  <1> USE ResolveConstants DEF ResolveInv, TypeOK
  <1>0. "malloc" \in Fns /\ \A j \in 1 .. 4 : Order[j] \in Fns BY OrderNames
  <1>1. PresetInv'
    BY <1>0, OrderNames DEF Candidates, PresetInv, Goto
  <1>2. WinnerInv' BY DEF Candidates, WinnerInv, Winning, Goto
  <1>3. \A u \in Threads : pc'[u] \in Winning => u = t
    BY <1>2 DEF Candidates, WinnerInv, Winning, Goto
  <1>4. \A f \in Fns : raw[f] # "null"
    BY DEF Candidates, PresetInv, WinnerInv, Winning
  <1>5. ~late => \A f \in Fns \ NotInLibc : raw'[f] = "real"
    BY <1>4 DEF Candidates, StoresInv
  <1>6. StoresInv' BY <1>3, <1>5 DEF Candidates, StoresInv, Winning, Goto
  <1>7. ReadyMeansReal' BY DEF Candidates, WinnerInv, ReadyMeansReal, Winning
  <1> QED BY <1>1, <1>2, <1>6, <1>7

\* The flag goes up.
LEMMA PublishStep ==
  ASSUME ResolveInv, TypeOK', NEW t \in Threads, Publish(t)
  PROVE  ResolveInv'
  <1> USE DEF ResolveInv, TypeOK
  <1>0. "malloc" \in Fns BY DEF Fns
  <1>1. PresetInv' BY <1>0 DEF Publish, PresetInv, WinnerInv, Winning, Goto
  <1>2. WinnerInv' BY DEF Publish, WinnerInv, Winning, Goto
  <1>3. StoresInv' BY DEF Publish, StoresInv, Goto
  <1>4. ReadyMeansReal' BY DEF Publish, StoresInv, ReadyMeansReal
  <1> QED BY <1>1, <1>2, <1>3, <1>4

\* Every step keeps the invariant.
LEMMA InvStep == ResolveInv /\ [Next]_vars => ResolveInv'
  <1> SUFFICES ASSUME ResolveInv, [Next]_vars PROVE ResolveInv'
    OBVIOUS
  <1>0. TypeOK' BY TypeStep DEF ResolveInv
  <1>1. CASE UNCHANGED vars
    BY <1>1 DEF vars, ResolveInv, TypeOK, PresetInv, WinnerInv, StoresInv, ReadyMeansReal
  <1>2. ASSUME NEW t \in Threads, Enter(t) PROVE ResolveInv'
    <2>1. /\ \A u \in Threads \ {t} : pc'[u] = pc[u] /\ i'[u] = i[u]
          /\ pc'[t] = "ready"
      BY <1>2 DEF Enter, Goto, ResolveInv, TypeOK
    <2> QED BY <1>0, <1>2, <2>1, QuietStep DEF Enter
  <1>3. ASSUME NEW t \in Threads, LoadReady(t) PROVE ResolveInv'
    <2>1. g_raw_ready => raw["malloc"] # "null"
      BY DEF ResolveInv, PresetInv, WinnerInv, Fns
    <2>2. /\ \A u \in Threads \ {t} : pc'[u] = pc[u] /\ i'[u] = i[u]
          /\ pc'[t] = "null" \/ (pc'[t] = "call" /\ g_raw_ready)
      BY <1>3 DEF LoadReady, Goto, ResolveInv, TypeOK
    <2> QED BY <1>0, <1>3, <2>1, <2>2, QuietStep DEF LoadReady
  <1>4. ASSUME NEW t \in Threads, LoadRaw(t) PROVE ResolveInv'
    <2>1. /\ \A u \in Threads \ {t} : pc'[u] = pc[u] /\ i'[u] = i[u]
          /\ i'[t] = 1
          /\ pc'[t] = "preset" \/ (pc'[t] = "call" /\ raw["malloc"] # "null")
      BY <1>4 DEF LoadRaw, Goto, ResolveInv, TypeOK
    <2> QED BY <1>0, <1>4, <2>1, QuietStep DEF LoadRaw
  <1>5. ASSUME NEW t \in Threads, Nested(t) PROVE ResolveInv'
    BY <1>0, <1>5
       DEF Nested, ResolveInv, PresetInv, WinnerInv, StoresInv, ReadyMeansReal
  <1>6. ASSUME NEW t \in Threads, CallRaw(t) PROVE ResolveInv'
    <2>1. /\ \A u \in Threads \ {t} : pc'[u] = pc[u] /\ i'[u] = i[u]
          /\ pc'[t] = "idle"
      BY <1>6 DEF CallRaw, Goto, ResolveInv, TypeOK
    <2> QED BY <1>0, <1>6, <2>1, QuietStep DEF CallRaw
  <1> QED BY <1>0, <1>1, <1>2, <1>3, <1>4, <1>5, <1>6, PresetStep, CasStep, SafeSetStep,
             CandidatesStep, PublishStep DEF Next, Step

\* The invariant holds in every state.
THEOREM ResolveInvariant == Spec => []ResolveInv
  BY InvInit, InvStep, PTL DEF Spec

\* The pointers, flags and locals of mtt_resolve_raw_allocators
\* (tracker.c:262-341) keep their types.
THEOREM ResolveTypes == Spec => []TypeOK
  <1>1. ResolveInv => TypeOK BY DEF ResolveInv
  <1> QED BY <1>1, ResolveInvariant, PTL

\* No hook, the malloc inside dlsym included, calls a NULL raw_malloc: the
\* bootstrap addresses are stored before the compare-and-swap
\* (tracker.c:275-281).
THEOREM NeverNull == Spec => []MallocNeverNull
  <1>1. ResolveInv => MallocNeverNull
    BY DEF ResolveInv, PresetInv, WinnerInv, MallocNeverNull, Winning, Fns
  <1> QED BY <1>1, ResolveInvariant, PTL

\* When g_raw_ready is up, every function that some library yields is libc's
\* (tracker.c:278-341), unless a caller overtaken between its NULL check and
\* its stores wrote bootstrap addresses after the swap.
THEOREM ReadyReal == Spec => []ReadyMeansReal
  <1>1. ResolveInv => ReadyMeansReal BY DEF ResolveInv
  <1> QED BY <1>1, ResolveInvariant, PTL
=============================================================================
