---------------------------- MODULE ThreadSlots ----------------------------
(***************************************************************************)
(* The slots in which the tool keeps what it knows of a thread             *)
(* (per_thread.h): whether the thread is inside a hook, and whether it is  *)
(* one of the tool's own.  A thread finds its slot by its kernel thread id *)
(* and remembers it in thread-local storage; a slot is claimed with a      *)
(* compare-and-swap, is never given back, and is taken over when its       *)
(* owner's id no longer exists.  The kernel uses ids again.  A behaviour   *)
(* follows one process, and may go on in a forked child: the parent's      *)
(* threads are then threads of another process, whose ids still exist.     *)
(* hook_depth and depth_inited are one number: -1 is a depth that was not  *)
(* initialised, which every reader takes for 0.  in_hook is left out: no   *)
(* decision reads it.                                                      *)
(***************************************************************************)
EXTENDS Integers, FiniteSets, FiniteSetsExt

CONSTANTS
  Tids,       \* kernel thread ids
  Gone,       \* ids of earlier threads, not used again
  NSlots,     \* MTT_MAX_THREADS
  DepthMax,   \* MTT_HOOK_DEPTH_MAX
  NoTid       \* 0: a free slot

ASSUME ThreadSlotsConstants ==
  /\ NSlots \in Nat \ {0} /\ DepthMax \in Nat \ {0} /\ NoTid \notin Tids \cup Gone
  /\ Tids \cap Gone = {}

Slots == 0 .. NSlots - 1
NoSlot == -1
Ids == Tids \cup Gone

VARIABLES
  role,     \* id -> "none" (no such thread), "prog" (the program's), "tool",
            \* or "other" (a thread of another process)
  owner,    \* slot -> tid
  depth,    \* slot -> hook_depth
  tool,     \* slot -> tool_internal
  pc,       \* next step of each thread
  use,      \* what the slot is asked for: "mark", "enter", "ctx", "inc", "dec"
  i,        \* index of the loop
  seen,     \* the owner that kill() was asked about
  ctx,      \* what mtt_thread_get returned
  hook,     \* ctx of the hook's call
  nested,   \* the call comes from inside a hook of the same thread
  tls,      \* mtt_tls_ctx and mtt_tls_cached_tid
  avail,    \* history: slots it could have claimed ever since its search began
  residue,  \* history: the thread's slot holds what a thread left behind that
            \* died or jumped out of a hook, or a dead thread of the tool
  unmarked, \* history: a thread of the tool that found no slot when it started
  mixed     \* history: a slot was claimed that belongs to a thread whose id had
            \* come to life again, or that is in the cache of a forked child
            \* under the id of its parent, which is now used again

slotVars == <<owner, depth, tool>>
callVars == <<pc, use, i, seen, ctx, hook, nested, tls>>
histVars == <<residue, unmarked, mixed>>
vars == <<role, slotVars, callVars, histVars, avail>>

Live == {t \in Tids : role[t] \in {"prog", "tool"}}

Init ==
  /\ \E t \in Tids : role = [u \in Ids |-> IF u = t THEN "prog" ELSE "none"]
  /\ \/ owner = [s \in Slots |-> NoTid]
     \/ owner \in [Slots -> Gone] /\ \A s, r \in Slots : owner[s] = owner[r] => s = r
  /\ depth = [s \in Slots |-> 0] /\ tool = [s \in Slots |-> FALSE]
  /\ pc = [t \in Tids |-> "idle"] /\ use = [t \in Tids |-> "enter"]
  /\ i = [t \in Tids |-> 0] /\ seen = [t \in Tids |-> NoTid]
  /\ ctx = [t \in Tids |-> NoSlot] /\ hook = [t \in Tids |-> NoSlot]
  /\ nested = [t \in Tids |-> FALSE]
  /\ tls = [t \in Tids |-> [slot |-> NoSlot, tid |-> NoTid]]
  /\ avail = [t \in Tids |-> {}]
  /\ residue = [t \in Tids |-> FALSE] /\ unmarked = [t \in Tids |-> FALSE]
  /\ mixed = FALSE

Goto(t, label) == pc' = [pc EXCEPT ![t] = label]

\* A slot that a search has to be able to claim.
Claimable == {s \in Slots : owner[s] = NoTid \/ (owner[s] \in Ids /\ role[owner[s]] = "none")}

-----------------------------------------------------------------------------
(* mtt_thread_get, and mtt_thread_get_cached around it.                    *)

Ask(t, what) == use' = [use EXCEPT ![t] = what] /\ Goto(t, "get")

Own(t) == {s \in Slots : owner[s] = t}

\* The fast path of mtt_thread_get_cached: the remembered slot still has the
\* remembered id.
FastPath(t) == use[t] # "mark" /\ tls[t].slot # NoSlot
               /\ owner[tls[t].slot] = tls[t].tid

\* A step may use the slot it asked for: Given is the slot, or NoSlot.  A slot
\* of the fast path is used in the step that finds it: another thread that
\* takes it over in between has mixed the two up.
Ready(t) == pc[t] = "use" \/ (pc[t] = "get" /\ FastPath(t))
Given(t) == IF pc[t] = "use" THEN ctx[t] ELSE tls[t].slot

\* mtt_thread_get returns slot s, and mtt_thread_get_cached remembers it.
Got(t, s) ==
  /\ ctx' = [ctx EXCEPT ![t] = s]
  /\ tls' = IF use[t] = "mark" THEN tls
            ELSE [tls EXCEPT ![t] = [slot |-> s, tid |-> IF s = NoSlot THEN NoTid ELSE t]]
  /\ Goto(t, "use")

\* Phase 1: a slot with the thread's id.
Find(t) ==
  /\ pc[t] = "get" /\ ~FastPath(t) /\ Own(t) # {}
  /\ Got(t, Min(Own(t)))
  /\ UNCHANGED <<role, slotVars, use, i, seen, hook, nested, histVars>>

Miss(t) ==
  /\ pc[t] = "get" /\ ~FastPath(t) /\ Own(t) = {}
  /\ i' = [i EXCEPT ![t] = 0]
  /\ Goto(t, "claim")
  /\ UNCHANGED <<role, slotVars, use, seen, ctx, hook, nested, tls, histVars>>

\* A compare-and-swap has replaced id o in the slot: its fields are reset.
Fresh(t, o) ==
  /\ owner' = [owner EXCEPT ![i[t]] = t]
  /\ depth' = [depth EXCEPT ![i[t]] = -1]
  /\ tool' = [tool EXCEPT ![i[t]] = FALSE]
  /\ residue' = [residue EXCEPT ![t] = FALSE]
  /\ mixed' = (mixed \/ o \in Live
                \/ \E u \in Live \ {t} : tls[u] = [slot |-> i[t], tid |-> t])
  /\ i' = [i EXCEPT ![t] = 0] /\ seen' = [seen EXCEPT ![t] = NoTid]
  /\ Got(t, i[t])

\* The next index of the first loop, or the second loop; the next index of the
\* second loop, or the end of the search.
NextClaim(t) ==
  /\ i' = [i EXCEPT ![t] = IF @ + 1 < NSlots THEN @ + 1 ELSE 0]
  /\ Goto(t, IF i[t] + 1 < NSlots THEN "claim" ELSE "check")
  /\ UNCHANGED <<ctx, tls>>
NextCheck(t) ==
  /\ i' = [i EXCEPT ![t] = IF @ + 1 < NSlots THEN @ + 1 ELSE 0]
  /\ IF i[t] + 1 < NSlots THEN Goto(t, "check") /\ UNCHANGED <<ctx, tls>> ELSE Got(t, NoSlot)

\* Phase 2: a free slot, one compare-and-swap after the other.
Claim(t) ==
  /\ pc[t] = "claim"
  /\ \/ owner[i[t]] = NoTid /\ Fresh(t, NoTid)
     \/ /\ owner[i[t]] # NoTid /\ NextClaim(t)
        /\ UNCHANGED <<slotVars, seen, residue, mixed>>
  /\ UNCHANGED <<role, use, hook, nested, unmarked>>

\* Phase 3: is the owner's id still in use anywhere?
Dead(t, o) == o \in Ids \ {t} /\ role[o] = "none"

Check(t) ==
  /\ pc[t] = "check"
  /\ \/ /\ Dead(t, owner[i[t]])
        /\ seen' = [seen EXCEPT ![t] = owner[i[t]]]
        /\ Goto(t, "steal") /\ UNCHANGED <<i, ctx, tls>>
     \/ ~Dead(t, owner[i[t]]) /\ NextCheck(t) /\ UNCHANGED seen
  /\ UNCHANGED <<role, slotVars, use, hook, nested, histVars>>

\* Mutants of Steal: the slot is stored to, not compared; after a failure the
\* other slots are not tried.
Steal_Store(t) ==
  /\ pc[t] = "steal" /\ Fresh(t, seen[t])
  /\ UNCHANGED <<role, use, hook, nested, unmarked>>
Steal_GivesUp(t) ==
  /\ pc[t] = "steal"
  /\ \/ owner[i[t]] = seen[t] /\ Fresh(t, seen[t])
     \/ /\ owner[i[t]] # seen[t] /\ Got(t, NoSlot)
        /\ i' = [i EXCEPT ![t] = 0] /\ seen' = [seen EXCEPT ![t] = NoTid]
        /\ UNCHANGED <<slotVars, residue, mixed>>
  /\ UNCHANGED <<role, use, hook, nested, unmarked>>

\* The compare-and-swap that takes the slot over; if another thread was first,
\* on to the next slot.
Steal(t) ==
  /\ pc[t] = "steal"
  /\ \/ owner[i[t]] = seen[t] /\ Fresh(t, seen[t])
     \/ /\ owner[i[t]] # seen[t] /\ NextCheck(t)
        /\ seen' = [seen EXCEPT ![t] = NoTid]
        /\ UNCHANGED <<slotVars, residue, mixed>>
  /\ UNCHANGED <<role, use, hook, nested, unmarked>>

-----------------------------------------------------------------------------
(* A hook: mtt_hook_enter, the slot, mtt_hook_inc_depth, the work, and     *)
(* mtt_hook_dec_depth, each of which asks for the slot again.              *)

\* The program calls malloc, free, calloc or realloc.
Call(t) ==
  /\ t \in Live /\ pc[t] = "idle"
  /\ Ask(t, "enter")
  /\ UNCHANGED <<role, slotVars, i, seen, ctx, hook, nested, tls, histVars>>

\* A hook returns; a nested one to the work it was called from.
Return(t) ==
  /\ Goto(t, IF nested[t] THEN "work" ELSE "idle")
  /\ use' = [use EXCEPT ![t] = "enter"]
  /\ hook' = IF nested[t] THEN hook ELSE [hook EXCEPT ![t] = NoSlot]
  /\ nested' = [nested EXCEPT ![t] = FALSE]

\* A step that has used the slot it was given.
Used(t) == ctx' = [ctx EXCEPT ![t] = NoSlot]

Depth(s) == IF depth[s] < 0 THEN 0 ELSE depth[s]

Enter(t) ==
  /\ Ready(t) /\ use[t] = "enter"
  /\ \/ Given(t) = NoSlot /\ Ask(t, "ctx") /\ UNCHANGED <<depth, hook, nested>>
     \/ /\ Given(t) # NoSlot
        /\ depth' = [depth EXCEPT ![Given(t)] =
                       IF Depth(Given(t)) > DepthMax THEN 0 ELSE Depth(Given(t))]
        /\ IF depth'[Given(t)] > 0
           THEN Return(t)
           ELSE Ask(t, "ctx") /\ UNCHANGED <<hook, nested>>
  /\ Used(t)
  /\ UNCHANGED <<role, owner, tool, i, seen, tls, histVars>>

GetCtx(t) ==
  /\ Ready(t) /\ use[t] = "ctx"
  /\ \/ Given(t) = NoSlot /\ Return(t)
     \/ /\ Given(t) # NoSlot /\ Ask(t, "inc")
        /\ hook' = [hook EXCEPT ![t] = Given(t)] /\ UNCHANGED nested
  /\ Used(t)
  /\ UNCHANGED <<role, slotVars, i, seen, tls, histVars>>

\* Mutant of IncDepth: an uninitialised depth is incremented as it is.
IncDepth_Unset(t) ==
  /\ Ready(t) /\ use[t] = "inc"
  /\ depth' = IF Given(t) = NoSlot \/ depth[Given(t)] >= DepthMax THEN depth
              ELSE [depth EXCEPT ![Given(t)] = @ + 1]
  /\ Goto(t, "decide") /\ Used(t)
  /\ UNCHANGED <<role, owner, tool, use, i, seen, hook, nested, tls, histVars>>

IncDepth(t) ==
  /\ Ready(t) /\ use[t] = "inc"
  /\ depth' = IF Given(t) = NoSlot \/ Depth(Given(t)) >= DepthMax THEN depth
              ELSE [depth EXCEPT ![Given(t)] = Depth(Given(t)) + 1]
  /\ Goto(t, "decide") /\ Used(t)
  /\ UNCHANGED <<role, owner, tool, use, i, seen, hook, nested, tls, histVars>>

\* A thread of the tool passes through; the call of any other is tracked.
Decide(t) ==
  /\ pc[t] = "decide"
  /\ IF tool[hook[t]] THEN Ask(t, "dec") ELSE Goto(t, "work") /\ UNCHANGED use
  /\ UNCHANGED <<role, slotVars, i, seen, ctx, hook, nested, tls, histVars>>

\* What the hook does may call a hook: dlsym, pthread_create, the unwinder.
CallNested(t) ==
  /\ pc[t] = "work" /\ ~nested[t]
  /\ nested' = [nested EXCEPT ![t] = TRUE]
  /\ Ask(t, "enter")
  /\ UNCHANGED <<role, slotVars, i, seen, ctx, hook, tls, histVars>>

Worked(t) ==
  /\ pc[t] = "work"
  /\ Ask(t, "dec")
  /\ UNCHANGED <<role, slotVars, i, seen, ctx, hook, nested, tls, histVars>>

DecDepth(t) ==
  /\ Ready(t) /\ use[t] = "dec"
  /\ depth' = IF Given(t) = NoSlot THEN depth
              ELSE [depth EXCEPT ![Given(t)] = IF @ > 0 THEN @ - 1 ELSE 0]
  /\ Return(t) /\ Used(t)
  /\ UNCHANGED <<role, owner, tool, i, seen, tls, histVars>>

\* A long jump out of the hook: mtt_hook_dec_depth is not reached.
Jump(t) ==
  /\ pc[t] = "work"
  /\ Goto(t, "idle") /\ hook' = [hook EXCEPT ![t] = NoSlot]
  /\ use' = [use EXCEPT ![t] = "enter"]
  /\ residue' = [residue EXCEPT ![t] = TRUE]
  /\ UNCHANGED <<role, slotVars, i, seen, ctx, nested, tls, unmarked, mixed>>

-----------------------------------------------------------------------------
(* Threads begin and end, and the process forks.                           *)

\* What thread t, which does not exist now, finds if it begins to exist.
Reset(t) ==
  /\ tls' = [tls EXCEPT ![t] = [slot |-> NoSlot, tid |-> NoTid]]
  /\ ctx' = [ctx EXCEPT ![t] = NoSlot] /\ hook' = [hook EXCEPT ![t] = NoSlot]
  /\ nested' = [nested EXCEPT ![t] = FALSE]
  /\ unmarked' = [unmarked EXCEPT ![t] = FALSE]
  /\ i' = [i EXCEPT ![t] = 0] /\ seen' = [seen EXCEPT ![t] = NoTid]

\* A thread of the program.
Begin(t) ==
  /\ role[t] = "none" /\ role' = [role EXCEPT ![t] = "prog"]
  /\ Reset(t) /\ Goto(t, "idle") /\ use' = [use EXCEPT ![t] = "enter"]
  /\ residue' = [residue EXCEPT ![t] = \E s \in Own(t) : depth[s] > 0 \/ tool[s]]
  /\ UNCHANGED <<slotVars, mixed>>

\* reporter_thread_fn, http_thread_fn and mtt_signal_thread_fn begin with
\* mtt_thread_get and mark their slot.
BeginTool(t) ==
  /\ role[t] = "none" /\ role' = [role EXCEPT ![t] = "tool"]
  /\ Reset(t) /\ Ask(t, "mark")
  /\ residue' = [residue EXCEPT ![t] = FALSE]
  /\ UNCHANGED <<slotVars, mixed>>

Mark(t) ==
  /\ Ready(t) /\ use[t] = "mark"
  /\ tool' = IF Given(t) = NoSlot THEN tool ELSE [tool EXCEPT ![Given(t)] = TRUE]
  /\ unmarked' = [unmarked EXCEPT ![t] = (Given(t) = NoSlot)]
  /\ Goto(t, "idle") /\ Used(t) /\ use' = [use EXCEPT ![t] = "enter"]
  /\ UNCHANGED <<role, owner, depth, i, seen, hook, nested, tls, residue, mixed>>

\* A thread ends between its calls; one of the program may be cancelled
\* inside a hook.  Its slot stays as it is.
End(t) ==
  /\ t \in Live /\ pc[t] \in {"idle", "work"}
  /\ role' = [role EXCEPT ![t] = "none"]
  /\ Reset(t) /\ Goto(t, "idle") /\ use' = [use EXCEPT ![t] = "enter"]
  /\ residue' = [residue EXCEPT ![t] = FALSE]
  /\ UNCHANGED <<slotVars, mixed>>

\* A thread of another process ends.
EndOther(t) ==
  /\ role[t] = "other" /\ role' = [role EXCEPT ![t] = "none"]
  /\ UNCHANGED <<slotVars, callVars, histVars>>

\* Mutant of Fork: the depth in the child's slot is kept.
Fork_KeepsDepth(t, c) ==
  /\ t \in Live /\ role[t] = "prog" /\ pc[t] = "idle" /\ role[c] = "none"
  /\ \A u \in Tids : role[u] # "other"
  /\ role' = [u \in Ids |-> IF u = c THEN "prog" ELSE IF role[u] = "none" THEN "none"
                             ELSE "other"]
  /\ owner' = [s \in Slots |-> IF owner[s] = c THEN c ELSE NoTid]
  /\ pc' = [u \in Tids |-> "idle"] /\ use' = [u \in Tids |-> "enter"]
  /\ i' = [u \in Tids |-> 0] /\ seen' = [u \in Tids |-> NoTid]
  /\ ctx' = [u \in Tids |-> NoSlot] /\ hook' = [u \in Tids |-> NoSlot]
  /\ nested' = [u \in Tids |-> FALSE]
  /\ tls' = [u \in Tids |-> IF u = c THEN tls[t] ELSE [slot |-> NoSlot, tid |-> NoTid]]
  /\ unmarked' = [u \in Tids |-> FALSE]
  /\ residue' = [u \in Tids |-> u = c /\ \E s \in Own(c) : tool[s]]
  /\ UNCHANGED <<depth, tool, mixed>>

\* Thread t forks between its calls, and the child's thread is c.
\* mtt_fork_child frees every slot but one with the child's own id, and resets
\* the depth of that one.  The thread-local cache of hooks.c is inherited: the
\* two variables that mtt_fork_child clears are the copies of tracker.c.
Fork(t, c) ==
  /\ t \in Live /\ role[t] = "prog" /\ pc[t] = "idle" /\ role[c] = "none"
  /\ \A u \in Tids : role[u] # "other"
  /\ role' = [u \in Ids |-> IF u = c THEN "prog" ELSE IF role[u] = "none" THEN "none"
                             ELSE "other"]
  /\ owner' = [s \in Slots |-> IF owner[s] = c THEN c ELSE NoTid]
  /\ depth' = [s \in Slots |-> IF s \in Own(c) THEN 0 ELSE depth[s]]
  /\ pc' = [u \in Tids |-> "idle"] /\ use' = [u \in Tids |-> "enter"]
  /\ i' = [u \in Tids |-> 0] /\ seen' = [u \in Tids |-> NoTid]
  /\ ctx' = [u \in Tids |-> NoSlot] /\ hook' = [u \in Tids |-> NoSlot]
  /\ nested' = [u \in Tids |-> FALSE]
  /\ tls' = [u \in Tids |-> IF u = c THEN tls[t] ELSE [slot |-> NoSlot, tid |-> NoTid]]
  /\ unmarked' = [u \in Tids |-> FALSE]
  /\ residue' = [u \in Tids |-> u = c /\ \E s \in Own(c) : tool[s]]
  /\ UNCHANGED <<tool, mixed>>

GetStep(t) == Find(t) \/ Miss(t) \/ Claim(t) \/ Check(t) \/ Steal(t)
HookStep(t) == Enter(t) \/ GetCtx(t) \/ IncDepth(t) \/ Decide(t) \/ CallNested(t)
               \/ Worked(t) \/ DecDepth(t) \/ Mark(t)

Step == \E t \in Tids :
  \/ Call(t) \/ GetStep(t) \/ HookStep(t) \/ Jump(t)
  \/ Begin(t) \/ BeginTool(t) \/ End(t) \/ EndOther(t)
  \/ \E c \in Tids : Fork(t, c)

\* The chances of a search: all claimable slots when it begins, and those that
\* stay claimable after every step.
Chances == avail' = [t \in Tids |-> IF pc[t] = "get" /\ pc'[t] = "claim" THEN Claimable
                                   ELSE IF pc'[t] \in {"claim", "check", "steal", "use"}
                                   THEN avail[t] \cap Claimable' ELSE {}]

Next == Step /\ Chances

Spec == Init /\ [][Next]_vars
-----------------------------------------------------------------------------
\* Types, indices of the loops included.
TypeOK ==
  /\ role \in [Ids -> {"none", "prog", "tool", "other"}]
  /\ owner \in [Slots -> Ids \cup {NoTid}] /\ depth \in [Slots -> -1 .. DepthMax]
  /\ tool \in [Slots -> BOOLEAN]
  /\ pc \in [Tids -> {"idle", "get", "claim", "check", "steal", "use",
                      "decide", "work"}]
  /\ use \in [Tids -> {"mark", "enter", "ctx", "inc", "dec"}]
  /\ i \in [Tids -> Slots] /\ seen \in [Tids -> Ids \cup {NoTid}]
  /\ ctx \in [Tids -> Slots \cup {NoSlot}] /\ hook \in [Tids -> Slots \cup {NoSlot}]
  /\ nested \in [Tids -> BOOLEAN]
  /\ tls \in [Tids -> [slot : Slots \cup {NoSlot}, tid : Tids \cup {NoTid}]]

\* The slots a thread works with: the one it was given, and the one its hook
\* goes on with.
InUse(t) ==
  (IF Ready(t) THEN {Given(t)} ELSE {})
  \cup (IF pc[t] = "idle" THEN {} ELSE {hook[t]})

\* No two threads ever work with one slot: of several that reclaim the slot of
\* a dead thread one compare-and-swap wins, and a thread's own slot is not
\* taken from it while it is alive (per_thread.h:91-108), unless the dead
\* owner's id came to life again between kill() and the compare-and-swap, or a
\* forked child still has its parent's id in its cache.
SlotNotShared ==
  mixed \/ \A t, u \in Live : t # u => InUse(t) \cap InUse(u) \subseteq {NoSlot}

\* A hook called from inside a hook finds the depth raised and passes, also
\* when the outer one found its slot only at its second attempt
\* (hooks.c:102-124): the tool never tracks its own work.
RecursionGuard == \A t \in Tids : nested[t] /\ ~mixed => pc[t] # "decide"

\* The outermost hook of t is about to pass although it has a slot.
Passes(t) ==
  \/ Ready(t) /\ use[t] = "enter" /\ ~nested[t] /\ Given(t) # NoSlot /\ depth[Given(t)] > 0
  \/ pc[t] = "decide" /\ tool[hook[t]]

\* The program's calls are tracked whenever the thread has a slot, in a forked
\* child too (tracker.c:1567-1590), and the calls of the tool's own threads
\* never are (reporter.c:1110-1112).  Left out are a thread that jumped out of
\* a hook, one that found the slot of a dead thread with its id that had or
\* that was the tool's, and a thread of the tool that found no slot when it
\* began and finds one later.
DecidesRight ==
  \A t \in Tids :
    /\ role[t] = "prog" /\ Passes(t) => residue[t] \/ mixed
    /\ role[t] = "tool" /\ pc[t] = "work" => unmarked[t] \/ mixed

\* A search comes back without a slot only if every slot was, at some moment of
\* the search, the slot of a thread that existed (per_thread.h:71-110).
FullOnlyIfTaken ==
  \A t \in Tids : pc[t] = "use" /\ ctx[t] = NoSlot => avail[t] = {}
=============================================================================
