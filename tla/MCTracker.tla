----------------------------- MODULE MCTracker -----------------------------
(***************************************************************************)
(* Small instances of Tracker.                                             *)
(***************************************************************************)
EXTENDS TrackerInv, TLC

CONSTANTS a1, a2, t1, t2

\* Two addresses on two stripes, and on one.
TwoAddr     == (a1 :> 0) @@ (a2 :> 1)
TwoAddrOne  == (a1 :> 0) @@ (a2 :> 0)

\* Records return to the stripe of their own address, which is not the one
\* init dealt them to.
SwappedEntries == [e \in Entries |-> (e + 1) % NStripes]

Config(pooled, realloc, limit) == [pooled |-> pooled, realloc |-> realloc, limit |-> limit]

\* The pool and raw_realloc; with them, single records and realloc by copy;
\* and single records with room for one only.
PoolMode   == {Config(TRUE, TRUE, 2)}
TwoModes   == PoolMode \cup {Config(FALSE, FALSE, 2)}
ThreeModes == TwoModes \cup {Config(FALSE, FALSE, 1)}

\* Threads are interchangeable.
ThreadSymmetry == Permutations(Threads)
=============================================================================
