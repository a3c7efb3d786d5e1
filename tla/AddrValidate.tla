---------------------------- MODULE AddrValidate ----------------------------
(***************************************************************************)
(* The cache of executable ranges (addr_validate.c) that the frame pointer *)
(* walk of every allocation asks whether a return address is code.  A scan *)
(* parses /proc/self/maps and copies the result over g_ranges range by     *)
(* range; threads search g_ranges at the same time without a lock.  The    *)
(* model starts when the cache has been filled once; a range is            *)
(* [lo |-> first address, hi |-> first address behind it].                 *)
(***************************************************************************)
EXTENDS Integers, Sequences, FiniteSets, FiniteSetsExt

CONSTANTS
  Readers,    \* threads that capture stacks
  Addrs,      \* addresses, a set of naturals
  Libs,       \* the ranges of the program and of its libraries
  Fixed,      \* those that stay mapped
  MaxRanges,  \* MTT_MAX_EXEC_RANGES
  MaxLoads    \* bound: loads and unloads of libraries

ASSUME AddrValidateConstants ==
  /\ Addrs \subseteq Nat /\ MaxRanges \in Nat \ {0} /\ MaxLoads \in Nat
  /\ Fixed \subseteq Libs
  /\ \A r \in Libs : r.lo \in Nat /\ r.hi \in Nat /\ r.lo < r.hi
  /\ \A r, q \in Libs : r = q \/ r.hi <= q.lo \/ q.hi <= r.lo

ASSUME FiniteLibs == IsFiniteSet(Libs)

VARIABLES
  mapped,     \* executable ranges of the process
  g_ranges, g_range_count,
  writer,     \* the refresh under way: [pc, tmp, n]
  reader,     \* thread -> [pc, a, n, lo, hi, found]
  stable,     \* history: thread -> no refresh has touched g_ranges since its search
              \* began, and none was under way then
  loads

vars == <<mapped, g_ranges, g_range_count, writer, reader, stable, loads>>

Slots == 0 .. MaxRanges - 1
Unused == [lo |-> 0, hi |-> 0]
Covers(r, a) == r.lo <= a /\ a < r.hi

\* The ranges of /proc/self/maps, in the order of their addresses, as many as
\* the array holds.
Rank(R, r) == Cardinality({q \in R : q.lo < r.lo}) + 1
ParseMaps(R) ==
  [k \in 1 .. Min({Cardinality(R), MaxRanges}) |-> CHOOSE r \in R : Rank(R, r) = k]

Filled(seq) == [i \in Slots |-> IF i < Len(seq) THEN seq[i + 1] ELSE Unused]
NoWrite == [pc |-> "idle", tmp |-> <<>>, n |-> 0]
NoSearch == [pc |-> "idle", a |-> 0, n |-> 0, lo |-> 0, hi |-> -1, found |-> FALSE]

Init ==
  /\ mapped \in {M \in SUBSET Libs : Fixed \subseteq M}
  /\ g_ranges = Filled(ParseMaps(mapped)) /\ g_range_count = Len(ParseMaps(mapped))
  /\ writer = NoWrite /\ reader = [t \in Readers |-> NoSearch]
  /\ stable = [t \in Readers |-> TRUE] /\ loads = 0

\* dlopen and dlclose.
Load(r) ==
  /\ r \in Libs \ Fixed /\ loads < MaxLoads /\ loads' = loads + 1
  /\ mapped' = IF r \in mapped THEN mapped \ {r} ELSE mapped \cup {r}
  /\ UNCHANGED <<g_ranges, g_range_count, writer, reader, stable>>

-----------------------------------------------------------------------------
(* mtt_addr_validate_refresh, under g_refresh_lock: one at a time.         *)

Parse ==
  /\ writer.pc = "idle"
  /\ writer' = [pc |-> "copy", tmp |-> ParseMaps(mapped), n |-> 0]
  /\ UNCHANGED <<mapped, g_ranges, g_range_count, reader, stable, loads>>

\* One range of the memcpy over the array that readers use.
Copy ==
  /\ writer.pc = "copy" /\ writer.n < Len(writer.tmp)
  /\ g_ranges' = [g_ranges EXCEPT ![writer.n] = writer.tmp[writer.n + 1]]
  /\ writer' = [writer EXCEPT !.n = @ + 1]
  /\ stable' = [t \in Readers |-> FALSE]
  /\ UNCHANGED <<mapped, g_range_count, reader, loads>>

PublishCount ==
  /\ writer.pc = "copy" /\ writer.n = Len(writer.tmp)
  /\ g_range_count' = writer.n /\ writer' = NoWrite
  /\ UNCHANGED <<mapped, g_ranges, reader, stable, loads>>

-----------------------------------------------------------------------------
(* mtt_addr_is_executable: a binary search, one probe at a time.           *)

Search(t, a) ==
  /\ reader[t].pc \in {"idle", "done"}
  /\ reader' = [reader EXCEPT ![t] =
       [pc |-> "probe", a |-> a, n |-> g_range_count, lo |-> 0,
        hi |-> g_range_count - 1, found |-> FALSE]]
  /\ stable' = [stable EXCEPT ![t] = (writer.pc = "idle")]
  /\ UNCHANGED <<mapped, g_ranges, g_range_count, writer, loads>>

\* Mutant of Probe: the range behind the middle is skipped.
Probe_SkipsNext(t) ==
  LET s == reader[t]
      mid == s.lo + (s.hi - s.lo) \div 2
  IN /\ s.pc = "probe" /\ s.lo <= s.hi
     /\ reader' = [reader EXCEPT ![t] =
          IF s.a < g_ranges[mid].lo THEN [s EXCEPT !.hi = mid - 1]
          ELSE IF s.a >= g_ranges[mid].hi THEN [s EXCEPT !.lo = mid + 2]
          ELSE [s EXCEPT !.pc = "done", !.found = TRUE]]
     /\ UNCHANGED <<mapped, g_ranges, g_range_count, writer, stable, loads>>

Probe(t) ==
  LET s == reader[t]
      mid == s.lo + (s.hi - s.lo) \div 2
  IN /\ s.pc = "probe" /\ s.lo <= s.hi
     /\ reader' = [reader EXCEPT ![t] =
          IF s.a < g_ranges[mid].lo THEN [s EXCEPT !.hi = mid - 1]
          ELSE IF s.a >= g_ranges[mid].hi THEN [s EXCEPT !.lo = mid + 1]
          ELSE [s EXCEPT !.pc = "done", !.found = TRUE]]
     /\ UNCHANGED <<mapped, g_ranges, g_range_count, writer, stable, loads>>

NotFound(t) ==
  /\ reader[t].pc = "probe" /\ reader[t].lo > reader[t].hi
  /\ reader' = [reader EXCEPT ![t].pc = "done"]
  /\ UNCHANGED <<mapped, g_ranges, g_range_count, writer, stable, loads>>

RefreshStep == Parse \/ Copy \/ PublishCount \/ \E r \in Libs : Load(r)
LookupStep(t) == Probe(t) \/ NotFound(t)

-----------------------------------------------------------------------------
\* Types; every probe is inside the array.
TypeOK ==
  /\ mapped \subseteq Libs /\ g_ranges \in [Slots -> Libs \cup {Unused}]
  /\ g_range_count \in 0 .. MaxRanges /\ writer.pc \in {"idle", "copy"}
  /\ \A t \in Readers :
       /\ reader[t].pc \in {"idle", "probe", "done"}
       /\ reader[t].lo \in 0 .. MaxRanges /\ reader[t].hi \in -1 .. MaxRanges - 1

\* The answer of a search that no refresh overlapped is right: the
\* address is in one of the ranges that were counted, or in none
\* (addr_validate.c:163-174).
SearchCorrect ==
  \A t \in Readers : reader[t].pc = "done" /\ stable[t] =>
    (reader[t].found <=> \E i \in 0 .. reader[t].n - 1 : Covers(g_ranges[i], reader[t].a))
=============================================================================
