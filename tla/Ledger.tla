------------------------------- MODULE Ledger -------------------------------
(***************************************************************************)
(* What the tracking table promises to a program that only calls malloc    *)
(* and free, without threads' program counters, locks or a pool: a ledger  *)
(* in which a line is written only for a block that is allocated, with its *)
(* true size, is struck out only after the program gave the block up, and  *)
(* always before libc takes the block back.                                *)
(***************************************************************************)
EXTENDS Naturals

CONSTANTS Addr, MaxSize

VARIABLES
  live,    \* size of each allocated block, 0 if not allocated
  held,    \* blocks the program holds
  line     \* recorded size of each block, 0 if it has no line

vars == <<live, held, line>>

Init ==
  /\ live = [a \in Addr |-> 0]
  /\ held = {}
  /\ line = [a \in Addr |-> 0]

\* libc hands out a block; the program holds it at once if it is not to be
\* recorded, else when the hook returns.
Allocate(a, n) ==
  /\ live[a] = 0
  /\ live' = [live EXCEPT ![a] = n]
  /\ held' \in {held, held \cup {a}}
  /\ UNCHANGED line

\* The hook decides not to record the block and returns.
HandOver(a) ==
  /\ live[a] # 0 /\ a \notin held
  /\ held' = held \cup {a}
  /\ UNCHANGED <<live, line>>

\* The line is written, and the hook returns the block.
Write(a) ==
  /\ live[a] # 0 /\ a \notin held /\ line[a] = 0
  /\ line' = [line EXCEPT ![a] = live[a]]
  /\ held' = held \cup {a}
  /\ UNCHANGED live

\* The program passes the block to free.
GiveUpBlock(a) ==
  /\ a \in held
  /\ held' = held \ {a}
  /\ UNCHANGED <<live, line>>

StrikeOut(a) ==
  /\ a \notin held /\ line[a] # 0
  /\ line' = [line EXCEPT ![a] = 0]
  /\ UNCHANGED <<live, held>>

\* libc takes back a block that has no line.
Release(a) ==
  /\ live[a] # 0 /\ line[a] = 0
  /\ live' = [live EXCEPT ![a] = 0]
  /\ held' = held \ {a}
  /\ UNCHANGED line

Next == \E a \in Addr :
  \/ \E n \in 1 .. MaxSize : Allocate(a, n)
  \/ HandOver(a) \/ Write(a) \/ GiveUpBlock(a) \/ StrikeOut(a) \/ Release(a)

Spec == Init /\ [][Next]_vars
=============================================================================
