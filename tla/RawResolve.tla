----------------------------- MODULE RawResolve -----------------------------
(***************************************************************************)
(* mtt_resolve_raw_allocators (tracker.c): how the hooks find libc's       *)
(* malloc, free, calloc and realloc.  The first caller points the raw_*    *)
(* pointers at the bootstrap allocator, wins a compare-and-swap, and       *)
(* replaces them by what dlsym returns; a caller that loses goes on with   *)
(* whatever the pointers hold.  dlsym itself may call malloc, which enters *)
(* the hook again on the same thread.  The four pointers are plain         *)
(* variables: every store to one is a step.                                *)
(***************************************************************************)
EXTENDS Naturals, Sequences, FiniteSets

CONSTANTS
  Threads,
  Refused,     \* functions RTLD_NEXT does not yield (RAW_SAFE_SET rejects)
  NotInLibc,   \* functions no candidate library yields either
  MaxCalls     \* bound: hook calls of all threads

Fns == {"malloc", "free", "calloc", "realloc"}
\* The order of the stores.
Order == <<"malloc", "free", "calloc", "realloc">>

ASSUME ResolveConstants ==
  /\ Refused \subseteq Fns /\ NotInLibc \subseteq Refused /\ MaxCalls \in Nat

VARIABLES
  raw,             \* the raw_* pointers: "null", "boot" or "real"
  g_raw_resolved,  \* the flag of the compare-and-swap
  g_raw_ready,     \* resolution finished
  pc, i,           \* next step of each thread, and stores it has done
  nested,          \* dlsym has called malloc on this thread
  late,            \* history: a bootstrap address was stored after the
                   \* compare-and-swap had been won
  calls

vars == <<raw, g_raw_resolved, g_raw_ready, pc, i, nested, late, calls>>

Init ==
  /\ raw = [f \in Fns |-> "null"]
  /\ g_raw_resolved = FALSE /\ g_raw_ready = FALSE
  /\ pc = [t \in Threads |-> "idle"] /\ i = [t \in Threads |-> 1]
  /\ nested = [t \in Threads |-> FALSE] /\ late = FALSE /\ calls = 0

Goto(t, label) == pc' = [pc EXCEPT ![t] = label]

\* The program calls a hook.
Enter(t) ==
  /\ pc[t] = "idle" /\ calls < MaxCalls
  /\ calls' = calls + 1
  /\ Goto(t, "ready")
  /\ UNCHANGED <<raw, g_raw_resolved, g_raw_ready, i, nested, late>>

\* The two fast paths: resolved, or bootstrap pointers already in place.
LoadReady(t) ==
  /\ pc[t] = "ready"
  /\ Goto(t, IF g_raw_ready THEN "call" ELSE "null")
  /\ UNCHANGED <<raw, g_raw_resolved, g_raw_ready, i, nested, late, calls>>

\* Mutant of LoadRaw: the compare-and-swap comes before the preset.
LoadRaw_NoPreset(t) ==
  /\ pc[t] = "null"
  /\ Goto(t, IF raw["malloc"] # "null" THEN "call" ELSE "cas")
  /\ i' = [i EXCEPT ![t] = 1]
  /\ UNCHANGED <<raw, g_raw_resolved, g_raw_ready, nested, late, calls>>

LoadRaw(t) ==
  /\ pc[t] = "null"
  /\ Goto(t, IF raw["malloc"] # "null" THEN "call" ELSE "preset")
  /\ i' = [i EXCEPT ![t] = 1]
  /\ UNCHANGED <<raw, g_raw_resolved, g_raw_ready, nested, late, calls>>

\* One store of the bootstrap allocator's address.
Preset(t) ==
  /\ pc[t] = "preset"
  /\ raw' = [raw EXCEPT ![Order[i[t]]] = "boot"]
  /\ IF i[t] < Len(Order)
     THEN i' = [i EXCEPT ![t] = @ + 1] /\ UNCHANGED pc
     ELSE i' = [i EXCEPT ![t] = 1] /\ Goto(t, "cas")
  /\ late' = (late \/ g_raw_resolved)
  /\ UNCHANGED <<g_raw_resolved, g_raw_ready, nested, calls>>

Cas(t) ==
  /\ pc[t] = "cas"
  /\ g_raw_resolved' = TRUE
  /\ Goto(t, IF g_raw_resolved THEN "call" ELSE "set")
  /\ UNCHANGED <<raw, g_raw_ready, i, nested, late, calls>>

\* dlsym calls malloc: raw_resolving is set, so the nested hook resolves
\* nothing and allocates with the pointer as it is.
Nested(t) ==
  /\ pc[t] = "set" /\ i[t] = 1 /\ ~nested[t]
  /\ nested' = [nested EXCEPT ![t] = TRUE]
  /\ UNCHANGED <<raw, g_raw_resolved, g_raw_ready, pc, i, late, calls>>

\* RAW_SAFE_SET of one pointer; one that is refused keeps its value.
SafeSet(t) ==
  /\ pc[t] = "set"
  /\ raw' = IF Order[i[t]] \in Refused THEN raw
            ELSE [raw EXCEPT ![Order[i[t]]] = "real"]
  /\ IF i[t] < Len(Order)
     THEN i' = [i EXCEPT ![t] = @ + 1] /\ UNCHANGED pc
     ELSE i' = [i EXCEPT ![t] = 1] /\ Goto(t, "libc")
  /\ UNCHANGED <<g_raw_resolved, g_raw_ready, nested, late, calls>>

\* Mutant of Candidates: they are tried only if malloc is still bootstrap.
Candidates_IfMalloc(t) ==
  /\ pc[t] = "libc"
  /\ raw' = [f \in Fns |-> IF raw["malloc"] = "boot" /\ raw[f] = "boot" /\ f \notin NotInLibc
                           THEN "real" ELSE raw[f]]
  /\ Goto(t, "publish")
  /\ UNCHANGED <<g_raw_resolved, g_raw_ready, i, nested, late, calls>>

\* The candidate libraries replace the pointers that are still bootstrap.
Candidates(t) ==
  /\ pc[t] = "libc"
  /\ raw' = [f \in Fns |-> IF raw[f] = "boot" /\ f \notin NotInLibc
                           THEN "real" ELSE raw[f]]
  /\ Goto(t, "publish")
  /\ UNCHANGED <<g_raw_resolved, g_raw_ready, i, nested, late, calls>>

\* Mutant of Publish: the flag is not set.
Publish_NotReady(t) ==
  /\ pc[t] = "publish"
  /\ Goto(t, "call")
  /\ UNCHANGED <<raw, g_raw_resolved, g_raw_ready, i, nested, late, calls>>

Publish(t) ==
  /\ pc[t] = "publish"
  /\ g_raw_ready' = TRUE
  /\ Goto(t, "call")
  /\ UNCHANGED <<raw, g_raw_resolved, i, nested, late, calls>>

\* The hook calls the raw function it is for, and returns.
CallRaw(t) ==
  /\ pc[t] = "call"
  /\ Goto(t, "idle")
  /\ UNCHANGED <<raw, g_raw_resolved, g_raw_ready, i, nested, late, calls>>

Step(t) ==
  \/ LoadReady(t) \/ LoadRaw(t) \/ Preset(t) \/ Cas(t) \/ SafeSet(t)
  \/ Candidates(t) \/ Publish(t) \/ CallRaw(t)

Next == \E t \in Threads : Enter(t) \/ Step(t) \/ Nested(t)

Spec == Init /\ [][Next]_vars
FairSpec == Spec /\ \A t \in Threads : WF_vars(Step(t))

-----------------------------------------------------------------------------
\* Types of the pointers, flags and locals.
TypeOK ==
  /\ raw \in [Fns -> {"null", "boot", "real"}]
  /\ g_raw_resolved \in BOOLEAN /\ g_raw_ready \in BOOLEAN
  /\ pc \in [Threads -> {"idle", "ready", "null", "preset", "cas", "set", "libc",
                         "publish", "call"}]
  /\ i \in [Threads -> 1 .. Len(Order)] /\ nested \in [Threads -> BOOLEAN]
  /\ late \in BOOLEAN /\ calls \in 0 .. MaxCalls

\* No hook, nested ones included, ever calls a NULL raw_malloc: the pointers
\* are preset before the compare-and-swap (tracker.c:275-281), so a loser and
\* the malloc inside dlsym find the bootstrap allocator.
MallocNeverNull ==
  \A t \in Threads : pc[t] \in {"call", "set", "cas"} => raw["malloc"] # "null"

\* Once some thread has won, resolution finishes: a loser never waits for it,
\* and the winner's nested malloc does not start it again.
EventuallyReady == g_raw_resolved ~> g_raw_ready

\* "A thread that lost the swap learns from g_raw_ready that resolution is
\* really complete" (tracker.c:278-280): with the flag set, every pointer that
\* some library yields is libc's, whatever RTLD_NEXT refused, unless a thread
\* that had passed the NULL check before the winner stored anything wrote its
\* bootstrap addresses over the resolved ones.
ReadyMeansReal ==
  g_raw_ready /\ ~late => \A f \in Fns \ NotInLibc : raw[f] = "real"
=============================================================================
