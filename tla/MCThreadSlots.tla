--------------------------- MODULE MCThreadSlots ---------------------------
(***************************************************************************)
(* Small instances of ThreadSlots.                                         *)
(***************************************************************************)
EXTENDS ThreadSlots, TLC

\* Thread ids are interchangeable.
TidSymmetry == Permutations(Tids) \cup Permutations(Gone)

\* States in which two threads may be mixed up are not continued.  SlotNotShared,
\* RecursionGuard and DecidesRight excuse them; FullOnlyIfTaken does not, and is
\* checked here up to that point only (SearchFailsOnlyIfFull of
\* ThreadSlotsProofs is about all states).
Unmixed == ~mixed
=============================================================================
