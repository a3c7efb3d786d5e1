----------------------------- MODULE MCReporter -----------------------------
(***************************************************************************)
(* Small instances of Reporter.                                            *)
(***************************************************************************)
EXTENDS Reporter, TLC

CONSTANTS r1, r2, r3

\* Two records share a stripe, two share a call site, and sizes differ.
TheStripes == (r1 :> 0) @@ (r2 :> 1) @@ (r3 :> 0)
TheSites   == (r1 :> "f") @@ (r2 :> "f") @@ (r3 :> "g")
TheSizes   == (r1 :> 1) @@ (r2 :> 2) @@ (r3 :> 1)

\* The first.
OneStripes == r1 :> 0
OneSites   == r1 :> "f"
OneSizes   == r1 :> 1
=============================================================================
