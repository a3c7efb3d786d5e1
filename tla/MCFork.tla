------------------------------- MODULE MCFork -------------------------------
(***************************************************************************)
(* Small instances of Fork.                                                *)
(***************************************************************************)
EXTENDS Fork, TLC

CONSTANTS w1, w2

\* Allocations and frees beside reallocations.
TwoPrograms == (w1 :> {"malloc", "free"}) @@ (w2 :> {"realloc"})
=============================================================================
