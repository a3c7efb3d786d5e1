--------------------------- MODULE ThreadSlotsInv ---------------------------
(***************************************************************************)
(* The inductive invariant of ThreadSlots, on which its proofs rest.       *)
(***************************************************************************)
EXTENDS ThreadSlots

\* The types of the history variables that the invariant speaks of.
HistoryOK == avail \in [Tids -> SUBSET Slots] /\ mixed \in BOOLEAN

\* No id is in two slots.
OwnerInv == \A s, r \in Slots : owner[s] = owner[r] /\ owner[s] # NoTid => s = r

\* A search: the thread has no slot while it looks for one; the slots the loops
\* have passed are not free, and their owners existed, so that they are no
\* longer available; one whose owner changed since kill() is neither.
SearchInv(t) ==
  /\ pc[t] # "idle" => t \in Live
  /\ pc[t] \in {"claim", "check", "steal"} \/ (pc[t] = "use" /\ ctx[t] = NoSlot) => Own(t) = {}
  /\ pc[t] = "claim" => \A s \in Slots : s < i[t] => owner[s] # NoTid
  /\ pc[t] \in {"check", "steal"} =>
       \A s \in Slots : owner[s] # NoTid /\ (s \in avail[t] => i[t] <= s)
  /\ pc[t] = "steal" => owner[i[t]] = seen[t] \/ i[t] \notin avail[t]
  /\ pc[t] = "use" /\ ctx[t] = NoSlot => avail[t] = {}

\* A remembered slot that still has the remembered id is the thread's own.
CacheInv(t) ==
  /\ tls[t].slot # NoSlot => tls[t].tid # NoTid
  /\ t \in Live /\ tls[t].slot # NoSlot /\ owner[tls[t].slot] = tls[t].tid => tls[t].tid = t

\* What a thread was given, and what its hook works with, is its own slot, and
\* inside the hook the depth is raised.
HookInv(t) ==
  /\ pc[t] = "use" /\ ctx[t] # NoSlot => owner[ctx[t]] = t
  /\ hook[t] # NoSlot => owner[hook[t]] = t /\ pc[t] # "idle" /\ use[t] # "mark"
  /\ pc[t] \in {"decide", "work"} \/ nested[t] => hook[t] # NoSlot /\ depth[hook[t]] > 0
  /\ nested[t] => use[t] = "enter" /\ pc[t] \notin {"decide", "work"}
  /\ use[t] = "inc" /\ pc[t] # "idle" => hook[t] # NoSlot

SlotInv ==
  /\ TypeOK /\ HistoryOK /\ OwnerInv
  /\ \A t \in Tids : SearchInv(t)
  /\ ~mixed => \A t \in Tids : CacheInv(t) /\ HookInv(t)

-----------------------------------------------------------------------------
(* What a hook reads of its thread before it decides to pass.              *)

\* The outermost hook of the thread has raised the depth and not yet lowered it.
Raised(t) == pc[t] \in {"decide", "work"} \/ nested[t] \/ (use[t] = "dec" /\ pc[t] # "idle")

\* The mark of a thread of the tool has been set, or could not be.
Marked(t) == role[t] = "tool" /\ ~(use[t] = "mark" /\ pc[t] # "idle")

\* A hook that raised the depth knows its slot.  The slot of a thread of the
\* program is not marked, and its depth counts the hook that is open, if there
\* is one; a thread of the tool keeps a slot that is marked, and does not come
\* to the work of a hook.
DecideInv(t) ==
  /\ Raised(t) => hook[t] # NoSlot
  /\ role[t] = "prog" /\ ~residue[t] =>
       \A s \in Slots : owner[s] = t =>
         ~tool[s] /\ (IF Raised(t) THEN depth[s] = 1 ELSE depth[s] <= 0)
  /\ Marked(t) /\ ~unmarked[t] =>
       /\ pc[t] # "work" /\ ~nested[t]
       /\ Own(t) # {} /\ \A s \in Slots : owner[s] = t => tool[s]
  /\ use[t] = "mark" /\ pc[t] # "idle" =>
       role[t] = "tool" /\ ~nested[t] /\ pc[t] \notin {"decide", "work"}

\* The types of the history variables that it speaks of.
FlagsOK == residue \in [Tids -> BOOLEAN] /\ unmarked \in [Tids -> BOOLEAN]

DecideSlotInv == SlotInv /\ FlagsOK /\ (~mixed => \A t \in Tids : DecideInv(t))
=============================================================================
