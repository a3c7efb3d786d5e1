--------------------------- MODULE ReporterProofs ---------------------------
(***************************************************************************)
(* Proofs about Reporter for any number of records, stripes and sites.     *)
(***************************************************************************)
EXTENDS Reporter, FiniteSetTheorems, TLAPS

-----------------------------------------------------------------------------
(* The invariants.                                                         *)

Labels == {"idle", "lock", "load", "refresh", "series", "seriesStore", "snaps", "copy",
           "dedup", "lookup", "report", "saveFree", "save", "publishFree", "publishClear",
           "publishPairs", "publishNew", "publishFill", "publishStacks", "publishSeries",
           "publishRest", "unlock", "exited"}

\* Where a scan has counted the records and not made its array.
Counting == {"refresh", "series", "seriesStore", "snaps"}

\* Where it holds cache_lock.
Publishing == {"seriesStore", "publishClear", "publishPairs", "publishNew", "publishFill",
               "publishStacks", "publishSeries", "publishRest"}

AtType == [pc : Labels, snap : SUBSET Records, limit : Nat, stripe : 0 .. NStripes,
           sorted : BOOLEAN, last : BOOLEAN]

\* The types that the steps of a scan need.
ScanTypes ==
  /\ at \in [Scanners -> AtType]
  /\ scan_mutex \in Scanners \cup {"none"}
  /\ table \subseteq Records /\ fresh \subseteq Records /\ base \subseteq Records
  /\ busy \in [Stripes -> SUBSET Records]
  /\ entry_count \in Nat /\ counted \in Nat /\ late \in Nat

\* One scan at a time is past the mutex, also in the child of a fork.
Scanning(c) == at[c].pc \notin {"idle", "lock", "exited"}
MutexInv == \A c \in Scanners : Scanning(c) => scan_mutex = c

\* The records that no hook is linking, and the stripes where one is being
\* taken out.  A record taken out is counted until its hook gets to it.
Settled == table \ UNION {busy[i] : i \in Stripes}
Unlinking == {i \in Stripes : ~(busy[i] \subseteq table)}

TableInv ==
  /\ \A i \in Stripes : \A r, q \in busy[i] : r = q /\ StripeOf[r] = i
  /\ fresh \cap (table \cup base) = {}
  /\ entry_count = Cardinality(Settled) + Cardinality(Unlinking)

\* What a scan has copied: all that was there of the stripes behind it, unless
\* the array is full; and what it did not count is no more than was counted
\* since.
Full(c) == Cardinality(at[c].snap) = at[c].limit
CopiedRight(c) ==
  /\ Cardinality(at[c].snap) <= at[c].limit
  /\ at[c].pc \in {"lock", "load"} \cup Counting => at[c].snap = {} /\ at[c].stripe = 0
  /\ at[c].pc \in {"copy", "dedup"} \cup Counting =>
       /\ \A r \in at[c].snap : StripeOf[r] < at[c].stripe
       /\ Full(c) \/ \A r \in base \cap table :
                       StripeOf[r] < at[c].stripe => r \in at[c].snap
       /\ Cardinality((Settled \cup at[c].snap) \ base) <= late
  /\ at[c].pc = "dedup" => Full(c) \/ at[c].stripe = NStripes
CopyInv == Cardinality(base) <= counted /\ \A c \in Scanners : CopiedRight(c)

ScansInv == ScanTypes /\ MutexInv /\ TableInv /\ CopyInv

\* The sites are those of the snapshot from the clearing of the table on.
SitesInv ==
  /\ \A c \in Scanners : at[c].pc = "dedup" => leak_table = NoLeaks
  /\ SitesMatchSnapshot

SiteType == [count : Nat, total : Nat, per : Nat]

\* The sizes that the next report is compared with have been reported.
GrowthTypes ==
  /\ leak_table \in [Sites -> SiteType]
  /\ prev \in [mem : {"null", "live", "freed"}, size : [Sites -> Nat]]
  /\ reported \in [Sites -> Nat] /\ written \in [Sites -> Nat]
GrowthInv ==
  ~forked => \A s \in Sites :
    /\ prev.size[s] <= reported[s] /\ written[s] <= reported[s]
    /\ \A c \in Scanners : at[c].pc \in {"saveFree", "save"} /\ at[c].sorted =>
                             leak_table[s].total <= reported[s]

\* The exit handler frees after the scans, or was hurried.
ExitInv ==
  /\ atexit # "no" => ~running
  /\ atexit \in {"no", "wait"} => ~hurried
  /\ atexit \in {"prev", "clear", "done"} /\ ~hurried => ScansOver

\* The arrays of the last scan are dangling only between two steps of one
\* scan, or of the exit handler.
FreedInv ==
  "prev" \notin torn /\ ~hurried =>
    /\ prev.mem = "freed" => (\E c \in Scanners : at[c].pc = "save") \/ atexit = "clear"
    /\ "prev" \notin misuse

\* What the HTTP thread would read is missing only where a scan holds
\* cache_lock.
StaleAt == [k \in {"pairs", "series"} |->
              IF k = "pairs" THEN {"publishPairs", "publishSeries"}
              ELSE {"seriesStore", "publishRest"}]
CacheType ==
  [mem : {"null", "live", "freed"}, sites : SUBSET Sites, stale : SUBSET {"pairs", "series"}]
CacheInv ==
  /\ cached \in CacheType /\ cached_site_count \in Nat
  /\ \A c \in Scanners : at[c].pc \in Publishing => cache_lock = c
  /\ \A c \in Scanners : at[c].pc = "publishFill" => cached.mem = "live"
  /\ ~forked => torn = {}
  /\ "cache" \notin torn =>
       /\ Short => \E c \in Scanners : at[c].pc \in {"publishClear", "publishFill"}
       /\ \A k \in cached.stale : \E c \in Scanners : at[c].pc \in StaleAt[k]
       /\ "cache" \notin misuse

-----------------------------------------------------------------------------
(* The program's steps: what they do to the counted records.               *)

\* Sets of records, and of stripes, are finite.
LEMMA RecordsFinite ==
  \A R \in SUBSET Records : IsFiniteSet(R) /\ Cardinality(R) \in Nat
  BY FiniteRecords, FS_Subset, FS_CardinalityType

\* Any set of stripes is finite.
LEMMA StripesFinite ==
  \A I \in SUBSET Stripes : IsFiniteSet(I) /\ Cardinality(I) \in Nat
  <1>1. IsFiniteSet(Stripes) BY ReporterConstants, FS_Interval DEF Stripes
  <1> QED BY <1>1, FS_Subset, FS_CardinalityType

\* The constants a record comes with.
LEMMA RecordConstants ==
  ASSUME NEW r \in Records
  PROVE  StripeOf[r] \in Stripes /\ StripeOf[r] \in Nat /\ SizeOf[r] \in Nat /\ SiteOf[r] \in Sites
  BY ReporterConstants DEF Stripes, Sites

\* A record is counted when its hook has let go of its stripe.
LEMMA InSettled ==
  /\ \A x : x \in Settled <=> x \in table /\ \A i \in Stripes : x \notin busy[i]
  /\ \A x : x \in Settled' <=> x \in table' /\ \A i \in Stripes : x \notin busy'[i]
  BY DEF Settled

\* A record that is being linked is not counted yet.
LEMMA LinkKeeps ==
  ASSUME ScanTypes, TableInv, NEW r \in Records, Link(r)
  PROVE  /\ Settled' = Settled /\ Unlinking' = Unlinking
         /\ table' \subseteq Records /\ fresh' \subseteq Records
         /\ busy' \in [Stripes -> SUBSET Records] /\ fresh' \cap (table' \cup base') = {}
         /\ \A i \in Stripes : \A x, y \in busy'[i] : x = y /\ StripeOf[x] = i
         /\ base \cap table' = base \cap table
  <1>i. PICK i \in Stripes : i = StripeOf[r] BY RecordConstants
  <1>1. /\ r \in fresh /\ busy[i] = {} /\ fresh' = fresh \ {r} /\ table' = table \cup {r}
        /\ busy' = [busy EXCEPT ![i] = {r}] /\ base' = base /\ r \notin table /\ r \notin base
    BY <1>i DEF Link, snapshot, TableInv
  <1>2. busy'[i] = {r} /\ \A j \in Stripes \ {i} : busy'[j] = busy[j]
    BY <1>1 DEF ScanTypes
  <1>3. \A j \in Stripes \ {i} : r \notin busy[j] BY <1>i DEF TableInv
  <1>4. \A x : x \in Settled' <=> x \in Settled BY <1>1, <1>2, InSettled
  <1>5. Unlinking' = Unlinking BY <1>1, <1>2, <1>3 DEF Unlinking
  <1>6. \A j \in Stripes : \A x, y \in busy'[j] : x = y /\ StripeOf[x] = j
    BY <1>i, <1>2 DEF TableInv
  <1>7. /\ table' \subseteq Records /\ fresh' \subseteq Records
        /\ busy' \in [Stripes -> SUBSET Records] /\ fresh' \cap (table' \cup base') = {}
        /\ base \cap table' = base \cap table
    BY <1>1 DEF ScanTypes, TableInv
  <1> QED BY <1>4, <1>5, <1>6, <1>7

\* A record that is being unlinked leaves the table, and is counted still.
LEMMA UnlinkTakes ==
  ASSUME ScanTypes, TableInv, NEW r \in Records, Unlink(r)
  PROVE  /\ r \in Settled /\ Settled' = Settled \ {r}
         /\ \E i \in Stripes : i \notin Unlinking /\ Unlinking' = Unlinking \cup {i}
         /\ table' \subseteq table /\ fresh' = fresh
         /\ busy' \in [Stripes -> SUBSET Records]
         /\ \A i \in Stripes : \A x, y \in busy'[i] : x = y /\ StripeOf[x] = i
  <1>i. PICK i \in Stripes : i = StripeOf[r] BY RecordConstants
  <1>1. /\ r \in table /\ busy[i] = {} /\ fresh' = fresh /\ table' = table \ {r}
        /\ busy' = [busy EXCEPT ![i] = {r}]
    BY <1>i DEF Unlink
  <1>2. busy'[i] = {r} /\ \A j \in Stripes \ {i} : busy'[j] = busy[j]
    BY <1>1 DEF ScanTypes
  <1>3. \A j \in Stripes : r \notin busy[j] BY <1>i, <1>1 DEF TableInv
  <1>4. r \in Settled BY <1>1, <1>3, InSettled
  <1>5. \A x : x \in Settled' <=> x \in Settled /\ x # r BY <1>1, <1>2, <1>3, InSettled
  <1>6. i \notin Unlinking /\ Unlinking' = Unlinking \cup {i}
    BY <1>1, <1>2, <1>3 DEF Unlinking
  <1>7. \A j \in Stripes : \A x, y \in busy'[j] : x = y /\ StripeOf[x] = j
    BY <1>i, <1>2 DEF TableInv
  <1>8. busy' \in [Stripes -> SUBSET Records] BY <1>1 DEF ScanTypes
  <1>9. Settled' = Settled \ {r} BY <1>5
  <1> QED BY <1>1, <1>4, <1>6, <1>7, <1>8, <1>9

\* The count follows: one record more, or one less that was unlinked.
LEMMA CountSettles ==
  ASSUME ScanTypes, TableInv, NEW i \in Stripes, CountEntry(i)
  PROVE  /\ UNCHANGED <<table, fresh>> /\ busy' \in [Stripes -> SUBSET Records]
         /\ \A j \in Stripes : \A x, y \in busy'[j] : x = y /\ StripeOf[x] = j
         /\ \/ /\ entry_count' = entry_count + 1 /\ late' = late + 1 /\ Unlinking' = Unlinking
               /\ \E r \in Records : r \notin Settled /\ Settled' = Settled \cup {r}
            \/ /\ entry_count' = entry_count - 1 /\ late' = late /\ Settled' = Settled
               /\ i \in Unlinking /\ Unlinking' = Unlinking \ {i}
  <1>1. /\ busy[i] # {} /\ busy' = [busy EXCEPT ![i] = {}] /\ UNCHANGED <<table, fresh>>
    BY DEF CountEntry
  <1>2. busy'[i] = {} /\ \A j \in Stripes \ {i} : busy'[j] = busy[j]
    BY <1>1 DEF ScanTypes
  <1>3. PICK r \in Records : busy[i] = {r} /\ StripeOf[r] = i
    BY <1>1 DEF TableInv, ScanTypes
  <1>4. \A j \in Stripes \ {i} : r \notin busy[j] BY <1>3 DEF TableInv
  <1>5. \A x : (\A j \in Stripes : x \notin busy[j]) <=>
              x # r /\ \A j \in Stripes : x \notin busy'[j]
    BY <1>2, <1>3
  <1>6. \A j \in Stripes : r \notin busy'[j] BY <1>2, <1>4
  <1>7. \A j \in Stripes : \A x, y \in busy'[j] : x = y /\ StripeOf[x] = j
    BY <1>2 DEF TableInv
  <1>8. busy' \in [Stripes -> SUBSET Records] BY <1>1 DEF ScanTypes
  <1>9. CASE r \in table
    <2>1. r \notin Settled BY <1>3, InSettled
    <2>2. Settled' = Settled \cup {r}
      <3>1. \A x : x \in Settled' <=> x \in Settled \/ x = r
        BY <1>1, <1>5, <1>6, <1>9, InSettled
      <3> QED BY <3>1
    <2>3. Unlinking' = Unlinking BY <1>1, <1>2, <1>3, <1>9 DEF Unlinking
    <2>4. entry_count' = entry_count + 1 /\ late' = late + 1 BY <1>3, <1>9 DEF CountEntry
    <2> QED BY <1>1, <1>7, <1>8, <2>1, <2>2, <2>3, <2>4
  <1>10. CASE r \notin table
    <2>1. Settled' = Settled
      <3>1. \A x : x \in Settled' <=> x \in Settled BY <1>1, <1>5, <1>10, InSettled
      <3> QED BY <3>1
    <2>2. i \in Unlinking /\ Unlinking' = Unlinking \ {i}
      BY <1>1, <1>2, <1>3, <1>10 DEF Unlinking
    <2>3. entry_count' = entry_count - 1 /\ late' = late BY <1>3, <1>10 DEF CountEntry
    <2> QED BY <1>1, <1>7, <1>8, <2>1, <2>2, <2>3
  <1> QED BY <1>9, <1>10

\* What is counted is a finite set.
LEMMA SettledIs ==
  ASSUME ScanTypes
  PROVE  /\ Settled \subseteq Records /\ Settled \subseteq table /\ Unlinking \subseteq Stripes
         /\ IsFiniteSet(Settled) /\ Cardinality(Settled) \in Nat
         /\ IsFiniteSet(Unlinking) /\ Cardinality(Unlinking) \in Nat
  <1>1. Settled \subseteq table /\ table \subseteq Records /\ Unlinking \subseteq Stripes
    BY DEF Settled, Unlinking, ScanTypes
  <1> QED BY <1>1, RecordsFinite, StripesFinite

\* entry_count goes with them.
LEMMA EntryCountStep ==
  ASSUME ScanTypes, TableInv, NEW r \in Records, NEW i \in Stripes,
         Link(r) \/ Unlink(r) \/ CountEntry(i)
  PROVE  /\ entry_count' \in Nat
         /\ entry_count' = Cardinality(Settled') + Cardinality(Unlinking')
  <1>s. PICK S, U : S = Settled /\ U = Unlinking OBVIOUS
  <1>0. /\ IsFiniteSet(S) /\ Cardinality(S) \in Nat /\ IsFiniteSet(U) /\ Cardinality(U) \in Nat
        /\ entry_count = Cardinality(S) + Cardinality(U)
    BY <1>s, SettledIs DEF TableInv
  <1>1. CASE Link(r)
    <2>1. Settled' = S /\ Unlinking' = U BY <1>s, <1>1, LinkKeeps
    <2> QED BY <1>0, <1>1, <2>1 DEF Link
  <1>2. CASE Unlink(r)
    <2>1. r \in S /\ Settled' = S \ {r} BY <1>s, <1>2, UnlinkTakes
    <2>2. PICK j \in Stripes : j \notin U /\ Unlinking' = U \cup {j} BY <1>s, <1>2, UnlinkTakes
    <2>3. Cardinality(S \ {r}) = Cardinality(S) - 1 BY <1>0, <2>1, FS_RemoveElement
    <2>4. Cardinality(U \cup {j}) = Cardinality(U) + 1 BY <1>0, <2>2, FS_AddElement
    <2>5. entry_count' = entry_count BY <1>2 DEF Unlink
    <2> QED BY <1>0, <2>1, <2>2, <2>3, <2>4, <2>5
  <1>3. CASE CountEntry(i)
    <2>1. CASE /\ entry_count' = entry_count + 1 /\ Unlinking' = U
               /\ \E q \in Records : q \notin S /\ Settled' = S \cup {q}
      <3>1. PICK q \in Records : q \notin S /\ Settled' = S \cup {q} BY <2>1
      <3>2. Cardinality(S \cup {q}) = Cardinality(S) + 1 BY <1>0, <3>1, FS_AddElement
      <3>3. entry_count' = Cardinality(S) + Cardinality(U) + 1 BY <1>0, <2>1
      <3>4. Cardinality(Settled') = Cardinality(S) + 1 BY <3>1, <3>2
      <3>5. Cardinality(Unlinking') = Cardinality(U) BY <2>1
      <3> QED BY <1>0, <3>3, <3>4, <3>5
    <2>2. CASE /\ entry_count' = entry_count - 1 /\ Settled' = S
               /\ i \in U /\ Unlinking' = U \ {i}
      <3>1. Cardinality(U \ {i}) = Cardinality(U) - 1 BY <1>0, <2>2, FS_RemoveElement
      <3>2. Cardinality(U \ {i}) \in Nat BY <1>0, FS_RemoveElement, FS_CardinalityType
      <3> QED BY <1>0, <2>2, <3>1, <3>2
    <2> QED BY <1>s, <1>3, <2>1, <2>2, CountSettles
  <1> QED BY <1>1, <1>2, <1>3

-----------------------------------------------------------------------------
(* The steps of the scanners.                                              *)

Others(c) == \A d \in Scanners \ {c} : at'[d] = at[d]
Same(c) == at'[c].snap = at[c].snap /\ at'[c].limit = at[c].limit /\ at'[c].stripe = at[c].stripe

\* A scan goes on, with what it has copied.
Goes(c) ==
  /\ at' \in [Scanners -> AtType] /\ Same(c) /\ Others(c)
  /\ Scanning(c) /\ Scanning(c)'
  /\ at[c].pc \notin {"lock", "load"} /\ at'[c].pc \notin {"lock", "load", "copy"}
  /\ at'[c].pc \in Counting => at[c].pc \in Counting
  /\ at'[c].pc = "dedup" => at[c].pc = "copy" /\ (Full(c) \/ at[c].stripe = NStripes)
  /\ UNCHANGED <<program, scan_mutex, base, counted, late>>

\* A scanner that is given new locals.
LEMMA AtEffect ==
  ASSUME ScanTypes, NEW c \in Scanners, NEW d \in AtType, at' = [at EXCEPT ![c] = d]
  PROVE  at' \in [Scanners -> AtType] /\ at'[c] = d /\ Others(c)
  BY DEF ScanTypes, Others

\* What going on to another program point changes of a scan: only that.
LEMMA ToEffect ==
  ASSUME ScanTypes, NEW c \in Scanners, NEW label \in Labels, To(c, label)
  PROVE  /\ at' \in [Scanners -> AtType] /\ at'[c].pc = label /\ Same(c) /\ Others(c)
         /\ at'[c].sorted = at[c].sorted /\ at'[c].last = at[c].last
  <1>1. PICK d : d = [at[c] EXCEPT !.pc = label] OBVIOUS
  <1>2. at[c] \in AtType BY DEF ScanTypes
  <1>3. /\ d \in AtType /\ d.pc = label /\ d.snap = at[c].snap /\ d.limit = at[c].limit
        /\ d.stripe = at[c].stripe /\ d.sorted = at[c].sorted /\ d.last = at[c].last
    BY <1>1, <1>2 DEF AtType
  <1>4. at' = [at EXCEPT ![c] = d] BY <1>1 DEF To, ScanTypes
  <1> QED BY <1>3, <1>4, AtEffect DEF Same

\* A scanner that has nothing copied.
LEMMA IdleEffect ==
  ASSUME ScanTypes, NEW c \in Scanners, NEW label \in Labels, NEW b \in BOOLEAN,
         \/ at' = [at EXCEPT ![c] = [Idle EXCEPT !.pc = label, !.last = b]]
         \/ at' = [at EXCEPT ![c] = [Idle EXCEPT !.pc = label]]
  PROVE  /\ at' \in [Scanners -> AtType] /\ at'[c].pc = label /\ Others(c)
         /\ at'[c].snap = {} /\ at'[c].limit = 0 /\ at'[c].stripe = 0
  <1>0. 0 \in 0 .. NStripes BY ReporterConstants
  <1>1. PICK d : /\ d \in {[Idle EXCEPT !.pc = label, !.last = b], [Idle EXCEPT !.pc = label]}
                 /\ at' = [at EXCEPT ![c] = d]
    OBVIOUS
  <1>2. d \in AtType /\ d.pc = label /\ d.snap = {} /\ d.limit = 0 /\ d.stripe = 0
    <2>1. PICK z \in BOOLEAN : d = [pc |-> label, snap |-> {}, limit |-> 0, stripe |-> 0,
                                   sorted |-> TRUE, last |-> z]
      BY <1>1 DEF Idle
    <2> QED BY <1>0, <2>1 DEF AtType
  <1> QED BY <1>1, <1>2, AtEffect

\* A scan begins with an empty snapshot, before it has the mutex.
LEMMA BeginEffect ==
  ASSUME ScanTypes, NEW c \in Scanners, NEW b \in BOOLEAN, Begin(c, b)
  PROVE  /\ at' \in [Scanners -> AtType] /\ at[c].pc = "idle" /\ at'[c].pc = "lock"
         /\ at'[c].snap = {} /\ at'[c].limit = 0 /\ at'[c].stripe = 0 /\ Others(c)
         /\ UNCHANGED <<program, scan_mutex, base, counted, late>>
  <1>1. at' = [at EXCEPT ![c] = [Idle EXCEPT !.pc = "lock", !.last = b]] BY DEF Begin
  <1>2. at[c].pc = "idle" /\ UNCHANGED <<program, scan_mutex, base, counted, late>>
    BY DEF Begin, snapshot
  <1> QED BY <1>1, <1>2, IdleEffect DEF Labels

\* A scan that returns gives the mutex back and forgets its snapshot.
LEMMA UnlockEffect ==
  ASSUME ScanTypes, NEW c \in Scanners, ScanUnlock(c)
  PROVE  /\ at' \in [Scanners -> AtType] /\ at'[c].pc \in {"idle", "exited"}
         /\ at'[c].snap = {} /\ at'[c].limit = 0 /\ at'[c].stripe = 0 /\ Others(c)
         /\ at[c].pc = "unlock" /\ scan_mutex' = "none"
         /\ UNCHANGED <<program, base, counted, late>>
  <1>1. PICK lab \in {"idle", "exited"} : at' = [at EXCEPT ![c] = [Idle EXCEPT !.pc = lab]]
    <2>1. PICK lab \in {"idle", "exited"} : lab = IF at[c].last THEN "exited" ELSE "idle"
      OBVIOUS
    <2> QED BY <2>1 DEF ScanUnlock
  <1>2. lab \in Labels BY DEF Labels
  <1>3. /\ at' \in [Scanners -> AtType] /\ at'[c].pc = lab /\ Others(c)
        /\ at'[c].snap = {} /\ at'[c].limit = 0 /\ at'[c].stripe = 0
    BY <1>1, <1>2, IdleEffect
  <1> QED BY <1>3 DEF ScanUnlock, Elsewhere, snapshot

\* What a scan takes from entry_count (reporter.c:283).
LEMMA LoadEffect ==
  ASSUME ScanTypes, NEW c \in Scanners, ScanLoad(c)
  PROVE  /\ at' \in [Scanners -> AtType] /\ at'[c].pc = "refresh" /\ Others(c)
         /\ at'[c].snap = at[c].snap /\ at'[c].stripe = at[c].stripe
         /\ at'[c].limit = entry_count
         /\ at[c].pc = "load" /\ base' = Settled /\ counted' = entry_count /\ late' = 0
         /\ UNCHANGED <<program, scan_mutex>>
  <1>1. /\ at[c].pc = "load" /\ base' = Settled /\ counted' = entry_count /\ late' = 0
        /\ UNCHANGED <<program, scan_mutex>>
        /\ at' = [at EXCEPT ![c].pc = "refresh", ![c].limit = entry_count]
    BY DEF ScanLoad, Elsewhere, Settled
  <1>2. PICK d : d = [at[c] EXCEPT !.pc = "refresh", !.limit = entry_count] OBVIOUS
  <1>3. at[c] \in AtType /\ entry_count \in Nat BY DEF ScanTypes
  <1>4. /\ d \in AtType /\ d.pc = "refresh" /\ d.limit = entry_count
        /\ d.snap = at[c].snap /\ d.stripe = at[c].stripe
    BY <1>2, <1>3 DEF AtType, Labels
  <1>5. at' = [at EXCEPT ![c] = d] BY <1>1, <1>2 DEF ScanTypes
  <1> QED BY <1>1, <1>4, <1>5, AtEffect

\* The array has room for what was counted, or for half of it, or the scan is
\* given up (reporter.c:336-354).
LEMMA SnapsEffect ==
  ASSUME ScanTypes, NEW c \in Scanners, ScanSnaps(c)
  PROVE  /\ at' \in [Scanners -> AtType] /\ at'[c].pc \in {"copy", "unlock"} /\ Others(c)
         /\ at'[c].snap = at[c].snap /\ at'[c].stripe = at[c].stripe
         /\ at[c].pc = "snaps" /\ UNCHANGED <<program, scan_mutex, base, counted, late>>
  <1>1. /\ at[c].pc = "snaps" /\ UNCHANGED <<program, scan_mutex, base, counted, late>>
    BY DEF ScanSnaps, Elsewhere, snapshot
  <1>2. CASE To(c, "copy") \/ To(c, "unlock") BY <1>1, <1>2, ToEffect DEF Labels, Same
  <1>3. CASE at' = [at EXCEPT ![c].pc = "copy", ![c].limit = @ \div 2]
    <2>1. PICK d : d = [at[c] EXCEPT !.pc = "copy", !.limit = @ \div 2] OBVIOUS
    <2>2. at[c] \in AtType BY DEF ScanTypes
    <2>3. at[c].limit \div 2 \in Nat BY <2>2 DEF AtType
    <2>4. /\ d \in AtType /\ d.pc = "copy" /\ d.snap = at[c].snap /\ d.stripe = at[c].stripe
      BY <2>1, <2>2, <2>3 DEF AtType, Labels
    <2>5. at' = [at EXCEPT ![c] = d] BY <1>3, <2>1 DEF ScanTypes
    <2> QED BY <1>1, <2>4, <2>5, AtEffect
  <1> QED BY <1>2, <1>3 DEF ScanSnaps

\* What a scan copies of one stripe: all of it, or as much as there is room for
\* (reporter.c:356-371).
LEMMA CopyEffect ==
  ASSUME ScanTypes, NEW c \in Scanners, ScanCopy(c)
  PROVE  /\ at' \in [Scanners -> AtType] /\ at[c].pc = "copy" /\ at'[c].pc = "copy" /\ Others(c)
         /\ at'[c].limit = at[c].limit /\ at[c].stripe < NStripes
         /\ at'[c].stripe = at[c].stripe + 1 /\ busy[at[c].stripe] = {}
         /\ at[c].limit - Cardinality(at[c].snap) > 0
         /\ \E copied \in SUBSET {r \in table : StripeOf[r] = at[c].stripe} :
              /\ at'[c].snap = at[c].snap \cup copied
              /\ Cardinality(copied) =
                   Min({at[c].limit - Cardinality(at[c].snap),
                        Cardinality({r \in table : StripeOf[r] = at[c].stripe})})
         /\ UNCHANGED <<program, scan_mutex, base, counted, late>>
  <1>1. /\ at[c].pc = "copy" /\ at[c].stripe < NStripes /\ busy[at[c].stripe] = {}
        /\ at[c].limit - Cardinality(at[c].snap) > 0
        /\ UNCHANGED <<program, scan_mutex, base, counted, late>>
    BY DEF ScanCopy, Elsewhere, snapshot
  <1>2. PICK copied \in SUBSET {r \in table : StripeOf[r] = at[c].stripe} :
          /\ Cardinality(copied) =
               Min({at[c].limit - Cardinality(at[c].snap),
                    Cardinality({r \in table : StripeOf[r] = at[c].stripe})})
          /\ at' = [at EXCEPT ![c].snap = @ \cup copied, ![c].stripe = @ + 1]
    BY DEF ScanCopy
  <1>3. PICK d : d = [at[c] EXCEPT !.snap = @ \cup copied, !.stripe = @ + 1] OBVIOUS
  <1>4. at[c] \in AtType /\ copied \subseteq Records /\ at[c].stripe + 1 \in 0 .. NStripes
    <2>1. at[c] \in AtType /\ table \subseteq Records BY DEF ScanTypes
    <2>2. at[c].stripe \in 0 .. NStripes BY <2>1 DEF AtType
    <2> QED BY <1>1, <2>1, <2>2, ReporterConstants
  <1>5. /\ d \in AtType /\ d.pc = "copy" /\ d.snap = at[c].snap \cup copied
        /\ d.stripe = at[c].stripe + 1 /\ d.limit = at[c].limit
    BY <1>1, <1>3, <1>4 DEF AtType
  <1>6. at' = [at EXCEPT ![c] = d] BY <1>2, <1>3 DEF ScanTypes
  <1>7. at' \in [Scanners -> AtType] /\ at'[c] = d /\ Others(c) BY <1>5, <1>6, AtEffect
  <1> QED BY <1>1, <1>2, <1>5, <1>7

\* Every other step of a scan leaves its snapshot alone.
LEMMA ScanGoes ==
  ASSUME ScanTypes, NEW c \in Scanners,
         \/ ScanRefresh(c) \/ ScanSeries(c) \/ ScanSeriesStore(c) \/ ScanCopied(c)
         \/ ScanDedup(c) \/ ScanLookup(c) \/ ScanReport(c) \/ ScanNoFile(c)
         \/ ScanSaveFree(c) \/ ScanSave(c) \/ ScanPublishFree(c) \/ ScanPublishClear(c)
         \/ ScanPublishPairs(c) \/ ScanPublishNew(c) \/ ScanPublishFill(c)
         \/ ScanPublishStacks(c) \/ ScanPublishSeries(c) \/ ScanPublishRest(c)
  PROVE  Goes(c)
  <1>0. at[c] \in AtType BY DEF ScanTypes
  <1>1. UNCHANGED <<program, scan_mutex, base, counted, late>>
    BY DEF ScanRefresh, ScanSeries, ScanSeriesStore, ScanCopied, ScanDedup, ScanLookup,
       ScanReport, ScanNoFile, ScanSaveFree, ScanSave, ScanPublishFree, ScanPublishClear,
       ScanPublishPairs, ScanPublishNew, ScanPublishFill, ScanPublishStacks,
       ScanPublishSeries, ScanPublishRest, Elsewhere, snapshot
  <1>2. CASE ScanCopied(c)
    <2>1. at[c].pc = "copy" /\ To(c, "dedup") BY <1>2 DEF ScanCopied
    <2>2. Full(c) \/ at[c].stripe = NStripes
      <3>1. at[c].stripe \in 0 .. NStripes BY <1>0 DEF AtType
      <3>2. at[c].stripe >= NStripes \/ at[c].limit = Cardinality(at[c].snap)
        BY <1>2 DEF ScanCopied
      <3> QED BY <3>1, <3>2, ReporterConstants DEF Full
    <2>3. /\ at' \in [Scanners -> AtType] /\ at'[c].pc = "dedup" /\ Same(c) /\ Others(c)
      BY <2>1, ToEffect DEF Labels
    <2> QED BY <1>1, <2>1, <2>2, <2>3 DEF Goes, Scanning, Counting
  <1>3. CASE ScanLookup(c)
    <2>1. PICK ok \in BOOLEAN : at' = [at EXCEPT ![c].pc = "report", ![c].sorted = ok]
      BY <1>3 DEF ScanLookup
    <2>2. PICK d : d = [at[c] EXCEPT !.pc = "report", !.sorted = ok] OBVIOUS
    <2>3. /\ d \in AtType /\ d.pc = "report" /\ d.snap = at[c].snap /\ d.limit = at[c].limit
          /\ d.stripe = at[c].stripe
      BY <1>0, <2>2 DEF AtType, Labels
    <2>4. at' = [at EXCEPT ![c] = d] BY <2>1, <2>2 DEF ScanTypes
    <2>5. at' \in [Scanners -> AtType] /\ at'[c] = d /\ Others(c) BY <2>3, <2>4, AtEffect
    <2>6. at[c].pc = "lookup" BY <1>3 DEF ScanLookup
    <2> QED BY <1>1, <2>3, <2>5, <2>6 DEF Goes, Scanning, Same, Counting
  <1>4. ASSUME NEW p, at[c].pc = p, NEW q \in Labels, To(c, q),
               \/ p \in {"refresh", "series", "seriesStore"}
                  /\ q \in {"series", "seriesStore", "snaps"}
               \/ /\ p \in {"dedup", "report", "saveFree", "save", "publishFree"} \cup Publishing
                  /\ q \in {"lookup", "saveFree", "save", "publishFree", "unlock"}
                            \cup (Publishing \ {"seriesStore"})
        PROVE  Goes(c)
    <2>1. at' \in [Scanners -> AtType] /\ at'[c].pc = q /\ Same(c) /\ Others(c)
      BY <1>4, ToEffect
    <2> QED BY <1>1, <1>4, <2>1 DEF Goes, Scanning, Counting, Publishing
  <1>5. CASE ScanRefresh(c) BY <1>4, <1>5 DEF ScanRefresh, Labels
  <1>6. CASE ScanSeries(c) BY <1>4, <1>6 DEF ScanSeries, Labels
  <1>7. CASE ScanDedup(c) BY <1>4, <1>7 DEF ScanDedup, Labels
  <1>8. CASE ScanReport(c) BY <1>4, <1>8 DEF ScanReport, Labels
  <1>9. CASE ScanNoFile(c) BY <1>4, <1>9 DEF ScanNoFile, Labels
  <1>10. CASE ScanSaveFree(c) BY <1>4, <1>10 DEF ScanSaveFree, Labels
  <1>11. CASE ScanSave(c) BY <1>4, <1>11 DEF ScanSave, Labels
  <1>12. CASE ScanPublishFree(c) BY <1>4, <1>12 DEF ScanPublishFree, Labels, Publishing
  <1>13. CASE ScanPublishClear(c) \/ ScanPublishPairs(c)
    BY <1>4, <1>13 DEF ScanPublishClear, ScanPublishPairs, Labels, Publishing
  <1>14. CASE ScanPublishNew(c) BY <1>4, <1>14 DEF ScanPublishNew, Labels, Publishing
  <1>15. CASE ScanPublishStacks(c) \/ ScanPublishSeries(c) \/ ScanPublishRest(c)
    BY <1>4, <1>15 DEF ScanPublishStacks, ScanPublishSeries, ScanPublishRest, Labels, Publishing
  <1>17. CASE ScanSeriesStore(c) BY <1>4, <1>17 DEF ScanSeriesStore, Labels
  <1>16. CASE ScanPublishFill(c)
    <2>1. at[c].pc = "publishFill" BY <1>16 DEF ScanPublishFill
    <2>2. CASE To(c, "publishStacks") BY <1>4, <2>1, <2>2 DEF Labels, Publishing
    <2>3. CASE UNCHANGED at
      <3>1. at' \in [Scanners -> AtType] BY <2>3 DEF ScanTypes
      <3> QED BY <1>1, <2>1, <2>3, <3>1 DEF Goes, Scanning, Same, Others, Counting
    <2> QED BY <1>16, <2>2, <2>3 DEF ScanPublishFill
  <1> QED BY <1>2, <1>3, <1>5, <1>6, <1>7, <1>8, <1>9, <1>10, <1>11, <1>12, <1>13, <1>14,
             <1>15, <1>16, <1>17

\* The steps that publish, under cache_lock.
Publishes(c) ==
  \/ ScanSeries(c) \/ ScanSeriesStore(c)
  \/ ScanPublishFree(c) \/ ScanPublishClear(c) \/ ScanPublishPairs(c) \/ ScanPublishNew(c)
  \/ ScanPublishFill(c) \/ ScanPublishStacks(c) \/ ScanPublishSeries(c) \/ ScanPublishRest(c)

\* They leave their scan among them, before its snapshot or at its end.
LEMMA PublishEffect ==
  ASSUME ScanTypes, NEW c \in Scanners, Publishes(c)
  PROVE  /\ Others(c) /\ Scanning(c) /\ at[c].pc # "save"
         /\ at'[c].pc \in Publishing \cup {"snaps", "unlock"}
  <1>1. ASSUME NEW q \in Publishing \cup {"snaps", "unlock"}, To(c, q)
        PROVE  Others(c) /\ at'[c].pc \in Publishing \cup {"snaps", "unlock"}
    <2>1. q \in Labels BY DEF Publishing, Labels
    <2> QED BY <1>1, <2>1, ToEffect
  <1>2. CASE at[c].pc = "publishFill" /\ UNCHANGED at
    BY <1>2 DEF Others, Scanning, Publishing
  <1>3. Scanning(c) /\ at[c].pc # "save"
    BY DEF Publishes, ScanSeries, ScanSeriesStore, ScanPublishFree, ScanPublishClear,
       ScanPublishPairs, ScanPublishNew, ScanPublishFill, ScanPublishStacks,
       ScanPublishSeries, ScanPublishRest, Scanning
  <1>4. CASE ScanSeries(c) \/ ScanSeriesStore(c) \/ ScanPublishFree(c) \/ ScanPublishClear(c)
    BY <1>1, <1>3, <1>4 DEF ScanSeries, ScanSeriesStore, ScanPublishFree, ScanPublishClear,
       Publishing
  <1>5. CASE ScanPublishPairs(c) \/ ScanPublishNew(c) \/ ScanPublishStacks(c)
    BY <1>1, <1>3, <1>5 DEF ScanPublishPairs, ScanPublishNew, ScanPublishStacks, Publishing
  <1>6. CASE ScanPublishFill(c) \/ ScanPublishSeries(c) \/ ScanPublishRest(c)
    BY <1>1, <1>2, <1>3, <1>6 DEF ScanPublishFill, ScanPublishSeries, ScanPublishRest,
       Publishing
  <1> QED BY <1>4, <1>5, <1>6 DEF Publishes

-----------------------------------------------------------------------------
(* The mutex, the counts and the snapshot.                                 *)

\* Two scans are never past the mutex together.
LEMMA OneScans ==
  ASSUME MutexInv, NEW c \in Scanners, NEW d \in Scanners \ {c}, Scanning(c)
  PROVE  ~Scanning(d)
  BY DEF MutexInv

\* A step of the program leaves the scans in order: what it counts is late.
LEMMA ProgramStep ==
  ASSUME ScansInv, NEW r \in Records, NEW i \in Stripes,
         Link(r) \/ Unlink(r) \/ CountEntry(i)
  PROVE  ScansInv'
  <1>0. ScanTypes /\ MutexInv /\ TableInv /\ CopyInv BY DEF ScansInv
  <1>1. UNCHANGED <<at, scan_mutex, base, counted>>
    BY DEF Link, Unlink, CountEntry, snapshot
  <1>2. /\ table' \subseteq Records /\ fresh' \subseteq Records
        /\ busy' \in [Stripes -> SUBSET Records] /\ fresh' \cap (table' \cup base') = {}
        /\ \A j \in Stripes : \A x, y \in busy'[j] : x = y /\ StripeOf[x] = j
        /\ base \cap table' \subseteq base \cap table
    <2>1. CASE Link(r) BY <1>0, <2>1, LinkKeeps
    <2>2. CASE Unlink(r) BY <1>0, <1>1, <2>2, UnlinkTakes DEF ScanTypes, TableInv
    <2>3. CASE CountEntry(i) BY <1>0, <1>1, <2>3, CountSettles DEF ScanTypes, TableInv
    <2> QED BY <2>1, <2>2, <2>3
  <1>3. \/ Settled' \subseteq Settled /\ late' = late
        \/ late' = late + 1 /\ \E q \in Records : Settled' = Settled \cup {q}
    <2>1. CASE Link(r) BY <1>0, <2>1, LinkKeeps DEF Link
    <2>2. CASE Unlink(r) BY <1>0, <2>2, UnlinkTakes DEF Unlink
    <2>3. CASE CountEntry(i) BY <1>0, <2>3, CountSettles
    <2> QED BY <2>1, <2>2, <2>3
  <1>4. late' \in Nat BY <1>0, <1>3 DEF ScanTypes
  <1>5. ScanTypes' BY <1>0, <1>1, <1>2, <1>4, EntryCountStep DEF ScanTypes
  <1>6. MutexInv' BY <1>0, <1>1 DEF MutexInv, Scanning
  <1>7. TableInv' BY <1>0, <1>2, EntryCountStep DEF TableInv
  <1>8. ASSUME NEW c \in Scanners PROVE CopiedRight(c)'
    <2>1. CopiedRight(c) BY <1>0 DEF CopyInv
    <2>2. PICK A : A = (Settled \cup at[c].snap) \ base OBVIOUS
    <2>3. A \subseteq Records /\ IsFiniteSet(A) /\ Cardinality(A) \in Nat
      <3>1. Settled \subseteq Records BY <1>0, SettledIs
      <3>2. at[c].snap \subseteq Records BY <1>0 DEF ScanTypes, AtType
      <3> QED BY <2>2, <3>1, <3>2, RecordsFinite
    <2>4. Cardinality(A) <= late => Cardinality((Settled' \cup at'[c].snap) \ base') <= late'
      <3>1. CASE Settled' \subseteq Settled /\ late' = late
        <4>1. (Settled' \cup at'[c].snap) \ base' \subseteq A BY <1>1, <2>2, <3>1
        <4>2. PICK B : B = (Settled' \cup at'[c].snap) \ base' OBVIOUS
        <4>3. Cardinality(B) <= Cardinality(A) /\ Cardinality(B) \in Nat
          BY <2>3, <4>1, <4>2, FS_Subset, FS_CardinalityType
        <4> QED BY <1>0, <2>3, <3>1, <4>2, <4>3 DEF ScanTypes
      <3>2. ASSUME NEW q \in Records, Settled' = Settled \cup {q}, late' = late + 1
            PROVE  Cardinality(A) <= late
                     => Cardinality((Settled' \cup at'[c].snap) \ base') <= late'
        <4>1. (Settled' \cup at'[c].snap) \ base' \subseteq A \cup {q} BY <1>1, <2>2, <3>2
        <4>2. PICK B : B = (Settled' \cup at'[c].snap) \ base' OBVIOUS
        <4>3. /\ IsFiniteSet(A \cup {q})
              /\ Cardinality(A \cup {q}) \in {Cardinality(A), Cardinality(A) + 1}
          BY <2>3, FS_AddElement
        <4>4. Cardinality(B) <= Cardinality(A \cup {q}) /\ Cardinality(B) \in Nat
          BY <4>1, <4>2, <4>3, FS_Subset, FS_CardinalityType
        <4> QED BY <1>0, <2>3, <3>2, <4>2, <4>3, <4>4 DEF ScanTypes
      <3> QED BY <1>3, <3>1, <3>2
    <2> QED BY <1>1, <1>2, <2>1, <2>2, <2>4 DEF CopiedRight, Full
  <1> QED BY <1>0, <1>1, <1>5, <1>6, <1>7, <1>8 DEF ScansInv, CopyInv

\* A scan that does not run keeps its locals.
LEMMA CopiedOthers ==
  ASSUME ScansInv, NEW c \in Scanners, NEW d \in Scanners \ {c}, Others(c),
         \/ Scanning(c)
         \/ UNCHANGED <<program, base, late>>
  PROVE  CopiedRight(d)'
  <1>0. MutexInv /\ CopiedRight(d) BY DEF ScansInv, CopyInv
  <1>1. at'[d] = at[d] BY DEF Others
  <1>2. CASE Scanning(c)
    <2>1. at[d].pc \in {"idle", "lock", "exited"} BY <1>0, <1>2, OneScans DEF Scanning
    <2> QED BY <1>0, <1>1, <2>1 DEF CopiedRight, Counting
  <1>3. CASE UNCHANGED <<program, base, late>>
    BY <1>0, <1>1, <1>3 DEF CopiedRight, Full, Settled, program
  <1> QED BY <1>2, <1>3

\* A step of a scan after its snapshot keeps the invariant of the scans.
LEMMA GoesStep ==
  ASSUME ScansInv, NEW c \in Scanners, Goes(c)
  PROVE  ScansInv'
  <1>0. ScanTypes /\ MutexInv /\ TableInv /\ CopyInv BY DEF ScansInv
  <1>1. /\ UNCHANGED <<table, entry_count, busy, fresh, scan_mutex, base, counted, late>>
        /\ at' \in [Scanners -> AtType]
    BY DEF Goes, program
  <1>2. Settled' = Settled /\ Unlinking' = Unlinking BY <1>1 DEF Settled, Unlinking
  <1>3. ScanTypes' BY <1>0, <1>1 DEF ScanTypes
  <1>4. MutexInv' BY <1>0, <1>1 DEF MutexInv, Scanning, Goes, Others
  <1>5. TableInv' BY <1>0, <1>1, <1>2 DEF TableInv
  <1>6. CopiedRight(c)'
    BY <1>0, <1>1, <1>2 DEF CopyInv, CopiedRight, Goes, Same, Full, Counting
  <1>7. \A d \in Scanners \ {c} : CopiedRight(d)' BY CopiedOthers DEF Goes
  <1> QED BY <1>0, <1>1, <1>3, <1>4, <1>5, <1>6, <1>7 DEF ScansInv, CopyInv

\* A scanner enters, or leaves.
LEMMA EnterStep ==
  ASSUME ScansInv, NEW c \in Scanners,
         at' \in [Scanners -> AtType], Others(c),
         at'[c].snap = {} /\ at'[c].limit = 0 /\ at'[c].stripe = 0,
         \/ at'[c].pc = "lock" /\ scan_mutex' = scan_mutex
         \/ at[c].pc = "unlock" /\ at'[c].pc \in {"idle", "exited"} /\ scan_mutex' = "none",
         UNCHANGED <<program, base, counted, late>>
  PROVE  ScansInv'
  <1>0. ScanTypes /\ MutexInv /\ TableInv /\ CopyInv BY DEF ScansInv
  <1>1. /\ UNCHANGED <<table, entry_count, busy, fresh, base, counted, late>>
        /\ at' \in [Scanners -> AtType]
    BY DEF program
  <1>2. Settled' = Settled /\ Unlinking' = Unlinking BY <1>1 DEF Settled, Unlinking
  <1>3. ScanTypes' BY <1>0, <1>1 DEF ScanTypes
  <1>4. MutexInv'
    <2> SUFFICES ASSUME NEW d \in Scanners, Scanning(d)' PROVE scan_mutex' = d
      BY DEF MutexInv
    <2>1. d # c BY DEF Scanning
    <2>2. Scanning(d) BY <2>1 DEF Scanning, Others
    <2>3. at[c].pc # "unlock"
      <3>1. at[c].pc = "unlock" => Scanning(c) BY DEF Scanning
      <3> QED BY <1>0, <2>1, <2>2, <3>1, OneScans
    <2> QED BY <1>0, <2>2, <2>3 DEF MutexInv
  <1>5. TableInv' BY <1>0, <1>1, <1>2 DEF TableInv
  <1>6. CopiedRight(c)' BY FS_EmptySet DEF CopiedRight, Counting
  <1>7. \A d \in Scanners \ {c} : CopiedRight(d)' BY CopiedOthers
  <1> QED BY <1>0, <1>1, <1>3, <1>4, <1>5, <1>6, <1>7 DEF ScansInv, CopyInv

\* Taking scan_mutex keeps the invariant of the scans.
LEMMA LockStep ==
  ASSUME ScansInv, NEW c \in Scanners, ScanLock(c)
  PROVE  ScansInv'
  <1>0. ScanTypes /\ MutexInv /\ TableInv /\ CopyInv BY DEF ScansInv
  <1>1. /\ UNCHANGED <<table, entry_count, busy, fresh, base, counted, late>>
        /\ at[c].pc = "lock" /\ scan_mutex = "none" /\ scan_mutex' = c /\ To(c, "load")
    BY DEF ScanLock, Elsewhere, program, snapshot
  <1>a. at' \in [Scanners -> AtType] /\ at'[c].pc = "load" /\ Same(c) /\ Others(c)
    BY <1>0, <1>1, ToEffect DEF Labels
  <1>2. Settled' = Settled /\ Unlinking' = Unlinking BY <1>1 DEF Settled, Unlinking
  <1>3. ScanTypes' BY <1>0, <1>1, <1>a DEF ScanTypes
  <1>4. MutexInv' BY <1>0, <1>1, <1>a DEF MutexInv, Scanning, Others, Scanners
  <1>5. TableInv' BY <1>0, <1>1, <1>2 DEF TableInv
  <1>6. CopiedRight(c)' BY <1>0, <1>1, <1>a DEF CopyInv, CopiedRight, Same, Counting
  <1>7. \A d \in Scanners \ {c} : CopiedRight(d)'
    <2>1. UNCHANGED <<program, base, late>> BY <1>1 DEF program
    <2> QED BY <1>a, <2>1, CopiedOthers
  <1> QED BY <1>0, <1>1, <1>3, <1>4, <1>5, <1>6, <1>7 DEF ScansInv, CopyInv

\* The array is sized before any stripe is locked: what is counted by then is
\* what no hook is linking, and more.
LEMMA LoadStep ==
  ASSUME ScansInv, NEW c \in Scanners, ScanLoad(c)
  PROVE  ScansInv'
  <1>0. ScanTypes /\ MutexInv /\ TableInv /\ CopyInv BY DEF ScansInv
  <1>1. /\ at' \in [Scanners -> AtType] /\ at'[c].pc = "refresh" /\ Others(c)
        /\ at'[c].snap = at[c].snap /\ at'[c].stripe = at[c].stripe
        /\ at'[c].limit = entry_count
        /\ at[c].pc = "load" /\ base' = Settled /\ counted' = entry_count /\ late' = 0
        /\ UNCHANGED <<table, entry_count, busy, fresh, scan_mutex>>
    BY <1>0, LoadEffect DEF program
  <1>2. Settled' = Settled /\ Unlinking' = Unlinking BY <1>1 DEF Settled, Unlinking
  <1>3. /\ Settled \subseteq Records /\ Settled \subseteq table
        /\ Cardinality(Settled) \in Nat /\ Cardinality(Unlinking) \in Nat
    BY <1>0, SettledIs
  <1>4. ScanTypes' BY <1>0, <1>1, <1>3 DEF ScanTypes
  <1>5. MutexInv' BY <1>0, <1>1 DEF MutexInv, Scanning, Others
  <1>6. TableInv' BY <1>0, <1>1, <1>2, <1>3 DEF TableInv
  <1>7. CopiedRight(c)'
    <2>1. at'[c].snap = {} /\ at'[c].stripe = 0 BY <1>0, <1>1 DEF CopyInv, CopiedRight
    <2>2. at'[c].limit \in Nat BY <1>1 DEF AtType
    <2>3. (Settled' \cup at'[c].snap) \ base' = {} BY <1>1, <1>2, <2>1
    <2>4. \A r \in base' \cap table' : ~(StripeOf[r] < 0)
      <3>1. table' \subseteq Records BY <1>4 DEF ScanTypes
      <3>2. \A r \in Records : ~(StripeOf[r] < 0) BY RecordConstants
      <3> QED BY <3>1, <3>2
    <2>5. Cardinality(at'[c].snap) = 0 BY <2>1, FS_EmptySet
    <2>6. Cardinality((Settled' \cup at'[c].snap) \ base') = 0 BY <2>3, FS_EmptySet
    <2>7. \A r \in at'[c].snap : StripeOf[r] < at'[c].stripe BY <2>1
    <2> QED BY <1>1, <2>1, <2>2, <2>4, <2>5, <2>6, <2>7 DEF CopiedRight, Counting
  <1>8. \A d \in Scanners \ {c} : CopiedRight(d)'
    <2>1. Scanning(c) BY <1>1 DEF Scanning
    <2> QED BY <1>1, <2>1, CopiedOthers
  <1>9. Cardinality(base)' <= counted' BY <1>0, <1>1, <1>3 DEF TableInv
  <1> QED BY <1>4, <1>5, <1>6, <1>7, <1>8, <1>9 DEF ScansInv, CopyInv

\* Making the array, of any size, leaves it empty.
LEMMA SnapsStep ==
  ASSUME ScansInv, NEW c \in Scanners, ScanSnaps(c)
  PROVE  ScansInv'
  <1>0. ScanTypes /\ MutexInv /\ TableInv /\ CopyInv BY DEF ScansInv
  <1>1. /\ at' \in [Scanners -> AtType] /\ at'[c].pc \in {"copy", "unlock"} /\ Others(c)
        /\ at'[c].snap = at[c].snap /\ at'[c].stripe = at[c].stripe /\ at[c].pc = "snaps"
        /\ UNCHANGED <<table, entry_count, busy, fresh, scan_mutex, base, counted, late>>
    BY <1>0, SnapsEffect DEF program
  <1>2. Settled' = Settled /\ Unlinking' = Unlinking BY <1>1 DEF Settled, Unlinking
  <1>3. ScanTypes' BY <1>0, <1>1 DEF ScanTypes
  <1>4. MutexInv' BY <1>0, <1>1 DEF MutexInv, Scanning, Others
  <1>5. TableInv' BY <1>0, <1>1, <1>2 DEF TableInv
  <1>6. CopiedRight(c)'
    <2>1. /\ at'[c].snap = {} /\ at'[c].stripe = 0
          /\ Cardinality((Settled' \cup at'[c].snap) \ base') <= late'
      BY <1>0, <1>1, <1>2 DEF CopyInv, CopiedRight, Counting
    <2>2. at'[c].limit \in Nat BY <1>1 DEF AtType
    <2>3. \A r \in base' \cap table' : ~(StripeOf[r] < 0)
      <3>1. table' \subseteq Records BY <1>3 DEF ScanTypes
      <3>2. \A r \in Records : ~(StripeOf[r] < 0) BY RecordConstants
      <3> QED BY <3>1, <3>2
    <2>4. Cardinality(at'[c].snap) = 0 BY <2>1, FS_EmptySet
    <2>5. \A r \in at'[c].snap : StripeOf[r] < at'[c].stripe BY <2>1
    <2> QED BY <1>1, <2>1, <2>2, <2>3, <2>4, <2>5 DEF CopiedRight, Counting
  <1>7. \A d \in Scanners \ {c} : CopiedRight(d)'
    <2>1. Scanning(c) BY <1>1 DEF Scanning
    <2> QED BY <1>1, <2>1, CopiedOthers
  <1> QED BY <1>0, <1>1, <1>3, <1>4, <1>5, <1>6, <1>7 DEF ScansInv, CopyInv

\* The least of two numbers.
LEMMA MinOfTwo ==
  ASSUME NEW a \in Int, NEW b \in Int
  PROVE  Min({a, b}) = IF a <= b THEN a ELSE b
  <1>1. PICK m : m = IF a <= b THEN a ELSE b OBVIOUS
  <1>2. m \in {a, b} /\ \A y \in {a, b} : m <= y BY <1>1
  <1>3. \A x \in {a, b} : (\A y \in {a, b} : x <= y) => x = m BY <1>1
  <1> QED BY <1>1, <1>2, <1>3 DEF Min

\* A stripe is copied to its end, or until the array is full.
LEMMA CopyStep ==
  ASSUME ScansInv, NEW c \in Scanners, ScanCopy(c)
  PROVE  ScansInv'
  <1>0. ScanTypes /\ MutexInv /\ TableInv /\ CopyInv BY DEF ScansInv
  <1> DEFINE here == {r \in table : StripeOf[r] = at[c].stripe}
  <1>1. /\ at' \in [Scanners -> AtType] /\ at[c].pc = "copy" /\ at'[c].pc = "copy" /\ Others(c)
        /\ at'[c].limit = at[c].limit /\ at[c].stripe < NStripes
        /\ at'[c].stripe = at[c].stripe + 1 /\ busy[at[c].stripe] = {}
        /\ at[c].limit - Cardinality(at[c].snap) > 0
        /\ UNCHANGED <<table, entry_count, busy, fresh, scan_mutex, base, counted, late>>
    BY <1>0, CopyEffect DEF program
  <1>c. PICK copied \in SUBSET here :
          /\ at'[c].snap = at[c].snap \cup copied
          /\ Cardinality(copied) = Min({at[c].limit - Cardinality(at[c].snap), Cardinality(here)})
    BY <1>0, CopyEffect
  <1>2. Settled' = Settled /\ Unlinking' = Unlinking BY <1>1 DEF Settled, Unlinking
  <1>3. /\ at[c] \in AtType /\ at[c].stripe \in Stripes /\ at[c].limit \in Nat
        /\ at[c].snap \subseteq Records /\ table \subseteq Records /\ at[c].stripe \in Nat
    BY <1>0, <1>1, ReporterConstants DEF ScanTypes, AtType, Stripes
  <1>4. ScanTypes' BY <1>0, <1>1 DEF ScanTypes
  <1>5. MutexInv' BY <1>0, <1>1 DEF MutexInv, Scanning, Others
  <1>6. TableInv' BY <1>0, <1>1, <1>2 DEF TableInv
  <1>7. CopiedRight(c) /\ \A r \in at[c].snap : StripeOf[r] < at[c].stripe
    BY <1>0, <1>1 DEF CopyInv, CopiedRight
  <1>8. PICK S, H : S = at[c].snap /\ H = here OBVIOUS
  <1>9. /\ IsFiniteSet(S) /\ IsFiniteSet(H) /\ IsFiniteSet(copied)
        /\ Cardinality(S) \in Nat /\ Cardinality(H) \in Nat /\ Cardinality(copied) \in Nat
    <2>1. S \subseteq Records /\ H \subseteq Records /\ copied \subseteq Records BY <1>3, <1>8
    <2> QED BY <2>1, RecordsFinite
  <1>10. S \cap copied = {}
    <2>1. \A r \in copied : StripeOf[r] = at[c].stripe OBVIOUS
    <2> QED BY <1>3, <1>7, <1>8, <2>1
  <1>11. Cardinality(S \cup copied) = Cardinality(S) + Cardinality(copied)
    <2>1. Cardinality(S \cap copied) = 0 BY <1>10, FS_EmptySet
    <2>2. Cardinality(S \cup copied) =
            Cardinality(S) + Cardinality(copied) - Cardinality(S \cap copied)
      BY <1>9, FS_Union
    <2> QED BY <1>9, <2>1, <2>2
  <1>12. Cardinality(copied) = IF at[c].limit - Cardinality(S) <= Cardinality(H)
                               THEN at[c].limit - Cardinality(S) ELSE Cardinality(H)
    <2>1. at[c].limit - Cardinality(S) \in Int BY <1>3, <1>9
    <2> QED BY <1>c, <1>8, <1>9, <2>1, MinOfTwo
  <1>13. Cardinality(at'[c].snap) <= at'[c].limit
    BY <1>1, <1>c, <1>3, <1>8, <1>9, <1>11, <1>12
  <1>14. Full(c)' \/ copied = H
    <2>1. CASE at[c].limit - Cardinality(S) <= Cardinality(H)
      BY <1>1, <1>c, <1>3, <1>8, <1>9, <1>11, <1>12, <2>1 DEF Full
    <2>2. CASE ~(at[c].limit - Cardinality(S) <= Cardinality(H))
      <3>1. Cardinality(copied) = Cardinality(H) BY <1>12, <2>2
      <3> QED BY <1>8, <1>9, <3>1, FS_Subset
    <2> QED BY <2>1, <2>2
  <1>15. \A r \in at'[c].snap : StripeOf[r] < at'[c].stripe
    <2>1. \A r \in copied : StripeOf[r] = at[c].stripe OBVIOUS
    <2>2. \A r \in at[c].snap : StripeOf[r] \in Nat BY <1>3, RecordConstants
    <2> QED BY <1>1, <1>c, <1>3, <1>7, <2>1, <2>2
  <1>16. Full(c)' \/ \A r \in base' \cap table' :
                       StripeOf[r] < at'[c].stripe => r \in at'[c].snap
    <2> SUFFICES ASSUME ~Full(c)', NEW r \in base' \cap table', StripeOf[r] < at'[c].stripe
                 PROVE  r \in at'[c].snap
      OBVIOUS
    <2>1. copied = H BY <1>14
    <2>2. r \in base \cap table /\ r \in Records /\ StripeOf[r] \in Nat
      BY <1>1, <1>3, RecordConstants
    <2>3. ~Full(c) BY <1>1, <1>3, <1>8, <1>9 DEF Full
    <2>4. StripeOf[r] < at[c].stripe => r \in at[c].snap
      BY <1>1, <1>7, <2>2, <2>3 DEF CopiedRight
    <2>5. StripeOf[r] = at[c].stripe => r \in copied BY <1>8, <2>1, <2>2
    <2> QED BY <1>1, <1>c, <1>3, <2>2, <2>4, <2>5
  <1>17. copied \subseteq Settled
    <2> SUFFICES ASSUME NEW r \in copied PROVE r \in Settled OBVIOUS
    <2>1. r \in table /\ StripeOf[r] = at[c].stripe OBVIOUS
    <2>2. \A i \in Stripes : r \notin busy[i] BY <1>0, <1>1, <2>1 DEF TableInv
    <2> QED BY <2>1, <2>2, InSettled
  <1>18. Cardinality((Settled' \cup at'[c].snap) \ base') <= late'
    <2>1. (Settled' \cup at'[c].snap) \ base' = (Settled \cup at[c].snap) \ base
      BY <1>1, <1>c, <1>2, <1>17
    <2> QED BY <1>1, <1>7, <2>1 DEF CopiedRight
  <1>19. CopiedRight(c)' BY <1>1, <1>13, <1>15, <1>16, <1>18 DEF CopiedRight, Counting
  <1>20. \A d \in Scanners \ {c} : CopiedRight(d)'
    <2>1. Scanning(c) BY <1>1 DEF Scanning
    <2> QED BY <1>1, <2>1, CopiedOthers
  <1> QED BY <1>0, <1>1, <1>4, <1>5, <1>6, <1>19, <1>20 DEF ScansInv, CopyInv

\* Steps that are no concern of a scan: the exit handler's.
LEMMA ElsewhereStep ==
  ASSUME ScansInv, UNCHANGED <<program, scan_mutex, at, base, counted, late>>
  PROVE  ScansInv'
  <1>0. ScanTypes /\ MutexInv /\ TableInv /\ CopyInv BY DEF ScansInv
  <1>1. UNCHANGED <<table, entry_count, busy, fresh, scan_mutex, at, base, counted, late>>
    BY DEF program
  <1>2. ScanTypes' /\ MutexInv' BY <1>0, <1>1 DEF ScanTypes, MutexInv, Scanning
  <1>3. TableInv' BY <1>0, <1>1 DEF TableInv, Settled, Unlinking
  <1>4. ASSUME NEW c \in Scanners PROVE CopiedRight(c)'
    <2>1. CopiedRight(c) /\ at'[c] = at[c] BY <1>0, <1>1 DEF CopyInv
    <2>2. Settled' = Settled BY <1>1 DEF Settled
    <2> QED BY <1>1, <2>1, <2>2 DEF CopiedRight, Full
  <1> QED BY <1>0, <1>1, <1>2, <1>3, <1>4 DEF ScansInv, CopyInv

\* In the child no scan is under way, and the table is empty.
LEMMA ForkStep ==
  ASSUME ScansInv, ForkChild
  PROVE  ScansInv'
  <1>0. ScanTypes /\ TableInv /\ CopyInv BY DEF ScansInv
  <1>1. /\ table' = {} /\ entry_count' = 0 /\ at' = [c \in Scanners |-> Idle]
        /\ scan_mutex' = "none" /\ UNCHANGED <<fresh, busy, base, counted, late>>
        /\ \A i \in Stripes : busy[i] = {}
    BY DEF ForkChild
  <1>2. 0 \in 0 .. NStripes BY ReporterConstants
  <1>3. Idle \in AtType /\ Idle.pc = "idle" /\ Idle.snap = {} /\ Idle.limit = 0
    BY <1>2 DEF Idle, AtType, Labels
  <1>4. ScanTypes' BY <1>0, <1>1, <1>3 DEF ScanTypes
  <1>5. \A c \in Scanners : at'[c] = Idle BY <1>1
  <1>6. MutexInv' BY <1>3, <1>5 DEF MutexInv, Scanning
  <1>7. Settled' = {} /\ Unlinking' = {} BY <1>1 DEF Settled, Unlinking
  <1>8. TableInv' BY <1>0, <1>1, <1>7, FS_EmptySet DEF TableInv
  <1>9. CopyInv'
    BY <1>0, <1>1, <1>3, <1>5, FS_EmptySet DEF CopyInv, CopiedRight, Counting
  <1> QED BY <1>4, <1>6, <1>8, <1>9 DEF ScansInv

\* The invariant of the scans holds at the start.
LEMMA ScansInit == Init => ScansInv
  <1> SUFFICES ASSUME Init PROVE ScansInv OBVIOUS
  <1>1. 0 \in 0 .. NStripes BY ReporterConstants
  <1>2. Idle \in AtType /\ Idle.pc = "idle" /\ Idle.snap = {} /\ Idle.limit = 0
    BY <1>1 DEF Idle, AtType, Labels
  <1>3. \A c \in Scanners : at[c] = Idle BY DEF Init
  <1>4. at \in [Scanners -> AtType] BY <1>2 DEF Init
  <1>5. ScanTypes BY <1>4 DEF Init, ScanTypes
  <1>6. MutexInv BY <1>2, <1>3 DEF MutexInv, Scanning
  <1>7. Settled = {} /\ Unlinking = {} BY DEF Settled, Unlinking, Init
  <1>8. TableInv BY <1>7, FS_EmptySet DEF TableInv, Init
  <1>9. CopyInv
    <2>1. Cardinality(base) <= counted BY FS_EmptySet DEF Init
    <2>2. ASSUME NEW c \in Scanners PROVE CopiedRight(c)
      <3>1. at[c].pc = "idle" /\ at[c].snap = {} /\ at[c].limit = 0 BY <1>2, <1>3
      <3>2. Cardinality(at[c].snap) <= at[c].limit BY <3>1, FS_EmptySet
      <3>3. at[c].pc \notin {"lock", "load", "copy", "dedup"} \cup Counting
        BY <3>1 DEF Counting
      <3> QED BY <3>2, <3>3 DEF CopiedRight
    <2> QED BY <2>1, <2>2 DEF CopyInv
  <1> QED BY <1>5, <1>6, <1>8, <1>9 DEF ScansInv

\* The steps that no scan takes.
ExitStep == AtExitStop \/ AtExitFreeCache \/ AtExitFreePrev \/ AtExitClearPrev

\* Whatever makes a scanner enter.
Enters(c) == (\E last \in BOOLEAN : Begin(c, last)) /\ UNCHANGED running

\* The kinds of step of the model.
LEMMA StepKinds ==
  ASSUME Next
  PROVE  \/ \E r \in Records : Link(r) \/ Unlink(r)
         \/ \E i \in Stripes : CountEntry(i)
         \/ \E c \in Scanners : Enters(c) \/ ScanStep(c)
         \/ ExitStep \/ ForkChild
  BY DEF Next, ExitStep, Enters, WakePeak, WakeLast, WakeInterval, Begin, Scanners

\* The mutex, the counts of the table and the snapshots are in order at every
\* step.
THEOREM ScansInvariant == Spec => []ScansInv
  <1>1. ScansInv /\ [Next]_vars => ScansInv'
    <2> SUFFICES ASSUME ScansInv, [Next]_vars PROVE ScansInv' OBVIOUS
    <2>0. ScanTypes BY DEF ScansInv
    <2>1. CASE UNCHANGED vars
      <3>1. UNCHANGED <<program, scan_mutex, at, base, counted, late>>
        BY <2>1 DEF vars, snapshot
      <3> QED BY <3>1, ElsewhereStep
    <2>2. ASSUME NEW r \in Records, Link(r) \/ Unlink(r) PROVE ScansInv'
      <3>1. StripeOf[r] \in Stripes BY RecordConstants
      <3> QED BY <2>2, <3>1, ProgramStep
    <2>3. ASSUME NEW i \in Stripes, CountEntry(i) PROVE ScansInv'
      <3>1. PICK r \in Records : TRUE BY <2>0, <2>3 DEF CountEntry, ScanTypes
      <3> QED BY <2>3, <3>1, ProgramStep
    <2>4. ASSUME NEW c \in Scanners, Enters(c) PROVE ScansInv'
      <3>1. PICK last \in BOOLEAN : Begin(c, last) BY <2>4 DEF Enters
      <3>2. /\ at' \in [Scanners -> AtType] /\ at'[c].pc = "lock" /\ Others(c)
            /\ at'[c].snap = {} /\ at'[c].limit = 0 /\ at'[c].stripe = 0
            /\ scan_mutex' = scan_mutex /\ UNCHANGED <<program, base, counted, late>>
        BY <2>0, <3>1, BeginEffect
      <3> QED BY <3>2, EnterStep
    <2>5. ASSUME NEW c \in Scanners, ScanStep(c) PROVE ScansInv'
      <3>1. CASE ScanLock(c) BY <3>1, LockStep
      <3>2. CASE ScanLoad(c) BY <3>2, LoadStep
      <3>3. CASE ScanCopy(c) BY <3>3, CopyStep
      <3>4. CASE ScanUnlock(c)
        <4>1. /\ at' \in [Scanners -> AtType] /\ at'[c].pc \in {"idle", "exited"} /\ Others(c)
              /\ at'[c].snap = {} /\ at'[c].limit = 0 /\ at'[c].stripe = 0
              /\ at[c].pc = "unlock" /\ scan_mutex' = "none"
              /\ UNCHANGED <<program, base, counted, late>>
          BY <2>0, <3>4, UnlockEffect
        <4> QED BY <4>1, EnterStep
      <3>5. CASE ScanSnaps(c) BY <3>5, SnapsStep
      <3>6. CASE ~(\/ ScanLock(c) \/ ScanLoad(c) \/ ScanCopy(c) \/ ScanUnlock(c)
                   \/ ScanSnaps(c))
        <4>1. Goes(c) BY <2>0, <2>5, <3>6, ScanGoes DEF ScanStep
        <4> QED BY <4>1, GoesStep
      <3> QED BY <3>1, <3>2, <3>3, <3>4, <3>5, <3>6
    <2>6. CASE ExitStep
      <3>1. UNCHANGED <<program, scan_mutex, at, base, counted, late>>
        BY <2>6 DEF ExitStep, AtExitStop, AtExitFreeCache, AtExitFreePrev, AtExitClearPrev,
           snapshot
      <3> QED BY <3>1, ElsewhereStep
    <2>7. CASE ForkChild BY <2>7, ForkStep
    <2> QED BY <2>1, <2>2, <2>3, <2>4, <2>5, <2>6, <2>7, StepKinds
  <1> QED BY <1>1, ScansInit, PTL DEF Spec

\* A scan misses no more of the records that are there from its beginning to
\* its end than hooks added behind its back: the array was sized for the
\* counter before any stripe was locked (reporter.c:283, 356-363).
THEOREM MissesBounded == Spec => []MissedBounded
  <1>1. ScansInv => MissedBounded
    <2> SUFFICES ASSUME ScansInv, NEW c \in Scanners, at[c].pc = "dedup", at[c].limit = counted
                 PROVE  Cardinality((base \cap table) \ at[c].snap) <= late
      BY DEF MissedBounded
    <2>1. PICK S, B, M : S = at[c].snap /\ B = base /\ M = (base \cap table) \ at[c].snap
      OBVIOUS
    <2>2. /\ S \subseteq Records /\ B \subseteq Records /\ M \subseteq B \ S
          /\ Settled \subseteq Records /\ late \in Nat /\ at[c].stripe \in 0 .. NStripes
          /\ table \subseteq Records
      BY <2>1, SettledIs DEF ScansInv, ScanTypes, AtType
    <2>3. /\ Full(c) \/ at[c].stripe = NStripes
          /\ Full(c) \/ \A r \in base \cap table :
                          StripeOf[r] < at[c].stripe => r \in at[c].snap
          /\ Cardinality((Settled \cup S) \ B) <= late /\ Cardinality(B) <= counted
      BY <2>1 DEF ScansInv, CopyInv, CopiedRight
    <2>4. CASE ~Full(c)
      <3>1. \A r \in base \cap table : StripeOf[r] < NStripes
        BY <2>2, RecordConstants, ReporterConstants DEF Stripes
      <3>2. M = {} BY <2>1, <2>3, <2>4, <3>1
      <3> QED BY <2>1, <2>2, <3>2, FS_EmptySet
    <2>5. CASE Full(c)
      <3>1. Cardinality(S) = counted BY <2>1, <2>5 DEF Full
      <3>2. IsFiniteSet(S) /\ IsFiniteSet(B) BY <2>2, RecordsFinite
      <3>3. /\ Cardinality(S \ B) = Cardinality(S) - Cardinality(S \cap B)
            /\ Cardinality(B \ S) = Cardinality(B) - Cardinality(S \cap B)
        <4>1. Cardinality(S \ B) = Cardinality(S) - Cardinality(S \cap B)
          BY <3>2, FS_Difference
        <4>2. Cardinality(B \ S) = Cardinality(B) - Cardinality(B \cap S)
          BY <3>2, FS_Difference
        <4>3. B \cap S = S \cap B OBVIOUS
        <4> QED BY <4>1, <4>2, <4>3
      <3>4. /\ Cardinality(S) \in Nat /\ Cardinality(B) \in Nat /\ Cardinality(S \cap B) \in Nat
            /\ IsFiniteSet(B \ S)
        <4>1. S \cap B \subseteq Records /\ B \ S \subseteq Records BY <2>2
        <4> QED BY <2>2, <4>1, RecordsFinite
      <3>5. Cardinality(B \ S) <= Cardinality(S \ B) BY <2>3, <3>1, <3>3, <3>4
      <3>6. Cardinality(S \ B) <= Cardinality((Settled \cup S) \ B)
            /\ Cardinality((Settled \cup S) \ B) \in Nat
        <4>1. PICK A : A = (Settled \cup S) \ B OBVIOUS
        <4>2. A \subseteq Records /\ S \ B \subseteq A BY <2>2, <4>1
        <4>3. IsFiniteSet(A) /\ Cardinality(A) \in Nat BY <4>2, RecordsFinite
        <4> QED BY <4>1, <4>2, <4>3, FS_Subset
      <3>7. Cardinality(M) <= Cardinality(B \ S) /\ Cardinality(M) \in Nat
        BY <2>2, <3>4, FS_Subset, FS_CardinalityType
      <3> QED BY <2>1, <2>2, <2>3, <3>3, <3>4, <3>5, <3>6, <3>7
    <2> QED BY <2>4, <2>5
  <1> QED BY <1>1, ScansInvariant, PTL

-----------------------------------------------------------------------------
(* The sites of the report.                                                *)

\* There are no more sites than records.
LEMMA SitesFinite ==
  ASSUME NEW R \in SUBSET Records
  PROVE  IsFiniteSet(SitesOf(R)) /\ Cardinality(SitesOf(R)) \in Nat /\ SitesOf(R) \subseteq Sites
  <1>1. IsFiniteSet(R) BY RecordsFinite
  <1> DEFINE f == [r \in R |-> SiteOf[r]]
  <1>2. f \in Surjection(R, SitesOf(R)) BY DEF Surjection, SitesOf
  <1>3. IsFiniteSet(SitesOf(R))
    <2> HIDE DEF f
    <2> QED BY <1>1, <1>2, FS_Surjection
  <1> QED BY <1>3, FS_CardinalityType DEF SitesOf, Sites

\* Nothing is left out when every record finds a place.
LEMMA KeptWhole ==
  ASSUME NEW R \in SUBSET Records, NEW K \in Kept(R), "site" \notin Failures,
         Cardinality(SitesOf(R)) <= MaxSites
  PROVE  K = R
  <1>1. K \subseteq R /\ \A r \in R : SiteOf[r] \in SitesOf(K) => r \in K
    BY DEF Kept
  <1>2. Cardinality(SitesOf(K)) = Min({MaxSites, Cardinality(SitesOf(R))}) BY DEF Kept
  <1>3. Cardinality(SitesOf(R)) \in Nat /\ IsFiniteSet(SitesOf(R)) BY SitesFinite
  <1>4. Cardinality(SitesOf(K)) = Cardinality(SitesOf(R))
    BY <1>2, <1>3, MinOfTwo, ReporterConstants
  <1>5. SitesOf(K) \subseteq SitesOf(R) BY <1>1 DEF SitesOf
  <1>6. SitesOf(K) = SitesOf(R) BY <1>3, <1>4, <1>5, FS_Subset
  <1>7. \A r \in R : SiteOf[r] \in SitesOf(R) BY DEF SitesOf
  <1> QED BY <1>1, <1>6, <1>7

\* Where the sites are those of the snapshot.
Grouped == {"lookup", "report", "saveFree", "save"}

\* Steps that leave the sites alone.
LEMMA SitesQuiet ==
  ASSUME SitesInv, UNCHANGED <<leak_table, leak_bytes_total>>,
         \A c \in Scanners :
           \/ at'[c] = at[c]
           \/ at'[c].pc \notin {"dedup"} \cup Grouped
           \/ /\ at[c].pc \in Grouped /\ at'[c].pc \in Grouped
              /\ at'[c].snap = at[c].snap
  PROVE  SitesInv'
  <1>1. \A c \in Scanners : at'[c].pc = "dedup" => leak_table' = NoLeaks
    BY DEF SitesInv, Grouped
  <1>2. ASSUME NEW c \in Scanners, at'[c].pc \in Grouped
        PROVE  at[c].pc \in Grouped /\ at'[c].snap = at[c].snap
    BY <1>2 DEF Grouped
  <1>3. SitesMatchSnapshot'
    <2> SUFFICES ASSUME NEW d \in Scanners, at'[d].pc \in Grouped
                 PROVE  /\ (leak_bytes_total = SumTotals(leak_table))'
                        /\ \E K \in SUBSET at'[d].snap :
                             /\ leak_table' = AddTo(NoLeaks, K)
                             /\ "site" \notin Failures
                                  /\ Cardinality(SitesOf(at'[d].snap)) <= MaxSites
                                => K = at'[d].snap
      BY DEF SitesMatchSnapshot, Grouped
    <2>1. at[d].pc \in Grouped /\ at'[d].snap = at[d].snap BY <1>2
    <2> QED BY <2>1 DEF SitesInv, SitesMatchSnapshot, Grouped
  <1> QED BY <1>1, <1>3 DEF SitesInv

\* A step of a scan keeps the sites in agreement with its snapshot.
LEMMA SitesStep ==
  ASSUME ScansInv, SitesInv, NEW c \in Scanners, Enters(c) \/ ScanStep(c)
  PROVE  SitesInv'
  <1>0. ScanTypes /\ MutexInv BY DEF ScansInv
  <1>q. ASSUME UNCHANGED <<leak_table, leak_bytes_total>>, Others(c),
               \/ at'[c].pc \notin {"dedup"} \cup Grouped
               \/ /\ at[c].pc \in Grouped /\ at'[c].pc \in Grouped
                  /\ at'[c].snap = at[c].snap
        PROVE  SitesInv'
    BY <1>q, SitesQuiet DEF Others
  <1>1. CASE Enters(c)
    <2>1. PICK last \in BOOLEAN : Begin(c, last) BY <1>1 DEF Enters
    <2>2. Others(c) /\ at'[c].pc = "lock" BY <1>0, <2>1, BeginEffect
    <2>3. UNCHANGED <<leak_table, leak_bytes_total>> BY <2>1 DEF Begin, result
    <2> QED BY <1>q, <2>2, <2>3 DEF Grouped
  <1>2. CASE ScanLock(c)
    <2>1. Others(c) /\ at'[c].pc = "load" BY <1>0, <1>2, ToEffect DEF ScanLock, Labels
    <2>2. UNCHANGED <<leak_table, leak_bytes_total>> BY <1>2 DEF ScanLock, result
    <2> QED BY <1>q, <2>1, <2>2 DEF Grouped
  <1>3. CASE ScanLoad(c) \/ ScanSnaps(c)
    <2>1. Others(c) /\ at'[c].pc \in {"refresh", "copy", "unlock"}
      BY <1>0, <1>3, LoadEffect, SnapsEffect
    <2>2. UNCHANGED <<leak_table, leak_bytes_total>> BY <1>3 DEF ScanLoad, ScanSnaps, result
    <2> QED BY <1>q, <2>1, <2>2 DEF Grouped
  <1>4. CASE ScanCopy(c)
    <2>1. Others(c) /\ at'[c].pc = "copy" BY <1>0, <1>4, CopyEffect
    <2>2. UNCHANGED <<leak_table, leak_bytes_total>> BY <1>4 DEF ScanCopy, result
    <2> QED BY <1>q, <2>1, <2>2 DEF Grouped
  <1>5. CASE ScanUnlock(c)
    <2>1. Others(c) /\ at'[c].pc \in {"idle", "exited"} BY <1>0, <1>5, UnlockEffect
    <2>2. UNCHANGED <<leak_table, leak_bytes_total>> BY <1>5 DEF ScanUnlock, result
    <2> QED BY <1>q, <2>1, <2>2 DEF Grouped
  <1>o. ASSUME Scanning(c), Others(c), NEW d \in Scanners \ {c}
        PROVE  at'[d].pc \in {"idle", "lock", "exited"}
    <2>1. ~Scanning(d) BY <1>0, <1>o, OneScans
    <2> QED BY <1>o, <2>1 DEF Scanning, Others
  <1>6. CASE ScanCopied(c)
    <2>1. Others(c) /\ at'[c].pc = "dedup" BY <1>0, <1>6, ToEffect DEF ScanCopied, Labels
    <2>2. leak_table' = NoLeaks /\ Scanning(c) BY <1>6 DEF ScanCopied, Scanning
    <2>3. \A d \in Scanners : at'[d].pc \notin Grouped
      BY <1>o, <2>1, <2>2 DEF Grouped
    <2> QED BY <2>2, <2>3 DEF SitesInv, SitesMatchSnapshot, Grouped
  <1>7. CASE ScanDedup(c)
    <2>1. /\ Goes(c) /\ Others(c) /\ at[c].pc = "dedup" /\ Scanning(c)
          /\ at'[c].snap = at[c].snap /\ at[c].snap \subseteq Records
      BY <1>0, <1>7, ScanGoes DEF ScanDedup, Goes, Same, ScanTypes, AtType
    <2>2. PICK K \in Kept(at[c].snap) : leak_table' = AddTo(leak_table, K)
      BY <1>7 DEF ScanDedup
    <2>3. leak_table = NoLeaks BY <2>1 DEF SitesInv
    <2>4. (leak_bytes_total = SumTotals(leak_table))' BY <1>7 DEF ScanDedup
    <2>5. K \in SUBSET at'[c].snap BY <2>1 DEF Kept
    <2>6. leak_table' = AddTo(NoLeaks, K) BY <2>2, <2>3
    <2>7. "site" \notin Failures /\ Cardinality(SitesOf(at'[c].snap)) <= MaxSites
            => K = at'[c].snap
      BY <2>1, KeptWhole
    <2>8. \A d \in Scanners \ {c} : at'[d].pc \in {"idle", "lock", "exited"} BY <1>o, <2>1
    <2>9. at'[c].pc = "lookup" BY <1>0, <1>7, ToEffect DEF ScanDedup, Labels
    <2>10. SitesMatchSnapshot'
      <3> SUFFICES ASSUME NEW d \in Scanners, at'[d].pc \in Grouped
                   PROVE  /\ (leak_bytes_total = SumTotals(leak_table))'
                          /\ \E L \in SUBSET at'[d].snap :
                               /\ leak_table' = AddTo(NoLeaks, L)
                               /\ "site" \notin Failures
                                    /\ Cardinality(SitesOf(at'[d].snap)) <= MaxSites
                                  => L = at'[d].snap
        BY DEF SitesMatchSnapshot, Grouped
      <3>1. d = c BY <2>8 DEF Grouped
      <3> QED BY <2>4, <2>5, <2>6, <2>7, <3>1
    <2> QED BY <2>8, <2>9, <2>10 DEF SitesInv
  <1>8. CASE ScanReport(c) \/ ScanSaveFree(c)
    <2>1. Others(c) /\ at'[c].snap = at[c].snap /\ at[c].pc \in Grouped /\ at'[c].pc \in Grouped
      BY <1>0, <1>8, ToEffect DEF ScanReport, ScanSaveFree, Labels, Same, Grouped
    <2>2. UNCHANGED <<leak_table, leak_bytes_total>> BY <1>8 DEF ScanReport, ScanSaveFree, result
    <2> QED BY <1>q, <2>1, <2>2
  <1>9. CASE ScanLookup(c)
    <2>1. Goes(c) BY <1>0, <1>9, ScanGoes
    <2>2. at[c].pc = "lookup" /\ at'[c].pc = "report"
      <3>1. PICK ok \in BOOLEAN : at' = [at EXCEPT ![c].pc = "report", ![c].sorted = ok]
        BY <1>9 DEF ScanLookup
      <3> QED BY <1>0, <1>9, <3>1 DEF ScanLookup, ScanTypes, AtType
    <2>3. UNCHANGED <<leak_table, leak_bytes_total>> BY <1>9 DEF ScanLookup, result
    <2> QED BY <1>q, <2>1, <2>2, <2>3 DEF Goes, Same, Grouped
  <1>10. CASE ScanRefresh(c) \/ ScanNoFile(c) \/ ScanSave(c)
    <2>1. Others(c) /\ at'[c].pc \in {"series", "unlock", "publishFree"}
      BY <1>0, <1>10, ToEffect DEF ScanRefresh, ScanNoFile, ScanSave, Labels
    <2>2. UNCHANGED <<leak_table, leak_bytes_total>>
      BY <1>10 DEF ScanRefresh, ScanNoFile, ScanSave, result
    <2> QED BY <1>q, <2>1, <2>2 DEF Grouped
  <1>11. CASE Publishes(c)
    <2>1. UNCHANGED <<leak_table, leak_bytes_total>>
      BY <1>11 DEF Publishes, ScanSeries, ScanSeriesStore, ScanPublishFree, ScanPublishClear,
         ScanPublishPairs, ScanPublishNew, ScanPublishFill, ScanPublishStacks,
         ScanPublishSeries, ScanPublishRest, result
    <2>2. Others(c) /\ at'[c].pc \notin {"dedup"} \cup Grouped
      BY <1>0, <1>11, PublishEffect DEF Grouped, Publishing
    <2> QED BY <1>q, <2>1, <2>2
  <1> QED BY <1>1, <1>2, <1>3, <1>4, <1>5, <1>6, <1>7, <1>8, <1>9, <1>10, <1>11
          DEF ScanStep, Publishes

\* The sites account for the snapshot of the scan under way and nothing else,
\* although the table they are in is static and two threads scan
\* (reporter.c:399, 1305-1307).
THEOREM SitesAreOwn == Spec => []SitesMatchSnapshot
  <1>1. Init => SitesInv
    <2>1. Init => \A c \in Scanners : at[c].pc = "idle" BY DEF Init, Idle
    <2> QED BY <2>1 DEF SitesInv, SitesMatchSnapshot
  <1>2. ScansInv /\ SitesInv /\ [Next]_vars => SitesInv'
    <2> SUFFICES ASSUME ScansInv, SitesInv, [Next]_vars PROVE SitesInv' OBVIOUS
    <2>1. ASSUME UNCHANGED <<leak_table, leak_bytes_total, at>> PROVE SitesInv'
      BY <2>1, SitesQuiet
    <2>2. CASE UNCHANGED vars BY <2>1, <2>2 DEF vars, result
    <2>3. ASSUME NEW r \in Records, Link(r) \/ Unlink(r) PROVE SitesInv'
      BY <2>1, <2>3 DEF Link, Unlink, result
    <2>4. ASSUME NEW i \in Stripes, CountEntry(i) PROVE SitesInv'
      BY <2>1, <2>4 DEF CountEntry, result
    <2>5. CASE ExitStep
      BY <2>1, <2>5 DEF ExitStep, AtExitStop, AtExitFreeCache, AtExitFreePrev,
                        AtExitClearPrev, result
    <2>6. CASE ForkChild
      <3>1. \A c \in Scanners : at'[c].pc = "idle" BY <2>6 DEF ForkChild, Idle
      <3> QED BY <3>1 DEF SitesInv, SitesMatchSnapshot
    <2> QED BY <2>2, <2>3, <2>4, <2>5, <2>6, SitesStep, StepKinds
  <1>3. SitesInv => SitesMatchSnapshot BY DEF SitesInv
  <1> QED BY <1>1, <1>2, <1>3, ScansInvariant, PTL DEF Spec

-----------------------------------------------------------------------------
(* The growth that the reports show.                                       *)

\* Finitely many records have finitely many bytes.
LEMMA BytesFinite ==
  ASSUME NEW R \in SUBSET Records
  PROVE  Cardinality(BytesOf(R)) \in Nat
  <1> DEFINE B == {{r} \X (1 .. SizeOf[r]) : r \in R}
             bytes == [r \in R |-> {r} \X (1 .. SizeOf[r])]
  <1>1. IsFiniteSet(R) BY RecordsFinite
  <1>2. bytes \in Surjection(R, B) BY DEF Surjection
  <1>3. IsFiniteSet(B)
    <2> HIDE DEF bytes, B
    <2> QED BY <1>1, <1>2, FS_Surjection
  <1>4. ASSUME NEW b \in B PROVE IsFiniteSet(b)
    <2>1. PICK r \in R : b = {r} \X (1 .. SizeOf[r]) OBVIOUS
    <2>2. SizeOf[r] \in Int BY RecordConstants
    <2>3. IsFiniteSet({r}) BY FS_Singleton
    <2>4. IsFiniteSet(1 .. SizeOf[r]) BY <2>2, FS_Interval
    <2> QED BY <2>1, <2>3, <2>4, FS_Product
  <1> HIDE DEF B
  <1>5. IsFiniteSet(UNION B) BY <1>3, <1>4, FS_UNION
  <1> QED BY <1>5, FS_CardinalityType DEF BytesOf, B

\* Grouping records gives counts and sizes.
LEMMA AddToTypes ==
  ASSUME NEW tbl \in [Sites -> SiteType], NEW R \in SUBSET Records
  PROVE  AddTo(tbl, R) \in [Sites -> SiteType]
  <1> SUFFICES ASSUME NEW s \in Sites PROVE AddTo(tbl, R)[s] \in SiteType
    BY DEF AddTo
  <1> DEFINE here == {r \in R : SiteOf[r] = s}
  <1>1. AddTo(tbl, R)[s] =
          IF here = {} THEN tbl[s]
          ELSE [count |-> tbl[s].count + Cardinality(here),
                total |-> tbl[s].total + Cardinality(BytesOf(here)),
                per   |-> IF tbl[s].count > 0 THEN tbl[s].per
                          ELSE SizeOf[CHOOSE r \in here : TRUE]]
    BY DEF AddTo
  <1>2. tbl[s] \in SiteType /\ tbl[s].count \in Nat /\ tbl[s].total \in Nat /\ tbl[s].per \in Nat
    BY DEF SiteType
  <1>3. here \subseteq Records /\ \A r \in here : SizeOf[r] \in Nat
    BY RecordConstants
  <1> HIDE DEF here
  <1>4. IsFiniteSet(here) /\ Cardinality(here) \in Nat BY <1>3, RecordsFinite
  <1>5. Cardinality(BytesOf(here)) \in Nat BY <1>3, BytesFinite
  <1>6. here # {} => SizeOf[CHOOSE r \in here : TRUE] \in Nat BY <1>3
  <1> QED BY <1>1, <1>2, <1>4, <1>5, <1>6 DEF SiteType

\* diff_size makes up for what the last report showed.
LEMMA DiffCovers ==
  ASSUME GrowthTypes, NEW s \in Sites
  PROVE  /\ Diff(s) \in Nat /\ leak_table[s].total \in Nat
         /\ leak_table[s].total <= prev.size[s] + Diff(s)
  <1>1. leak_table[s].total \in Nat /\ prev.size[s] \in Nat BY DEF GrowthTypes, SiteType
  <1> QED BY <1>1 DEF Diff

\* What GrowthInv says of one site.
Shown(s) ==
  /\ prev.size[s] <= reported[s] /\ written[s] <= reported[s]
  /\ \A c \in Scanners : at[c].pc \in {"saveFree", "save"} /\ at[c].sorted =>
                           leak_table[s].total <= reported[s]

\* Steps that leave the sites and the reports alone.
LEMMA GrowthQuiet ==
  ASSUME GrowthTypes, GrowthInv, UNCHANGED <<leak_table, reported, written, forked>>,
         prev' \in [mem : {"null", "live", "freed"}, size : [Sites -> Nat]],
         prev'.size \in {prev.size, Zero},
         \A c \in Scanners :
           \/ at'[c] = at[c]
           \/ at'[c].pc \notin {"saveFree", "save"}
           \/ at[c].pc = "saveFree" /\ at'[c].sorted = at[c].sorted
  PROVE  GrowthTypes' /\ GrowthInv'
  <1>1. GrowthTypes' BY DEF GrowthTypes
  <1>2. ASSUME ~forked, NEW s \in Sites PROVE Shown(s)'
    <2>1. Shown(s) BY <1>2 DEF GrowthInv, Shown
    <2>2. Zero[s] = 0 /\ reported[s] \in Nat BY DEF Zero, GrowthTypes
    <2>3. prev'.size[s] <= reported'[s] BY <2>1, <2>2 DEF Shown
    <2> QED BY <2>1, <2>3 DEF Shown
  <1> QED BY <1>1, <1>2 DEF GrowthInv, Shown

\* A step of a scan keeps what is said of growth and reports.
LEMMA GrowthStep ==
  ASSUME "output" \notin Failures, ScansInv, GrowthTypes, GrowthInv, NEW c \in Scanners,
         Enters(c) \/ ScanStep(c)
  PROVE  GrowthTypes' /\ GrowthInv'
  <1>0. ScanTypes /\ MutexInv BY DEF ScansInv
  <1>p. prev \in [mem : {"null", "live", "freed"}, size : [Sites -> Nat]] BY DEF GrowthTypes
  <1>z. Zero \in [Sites -> Nat] BY DEF Zero
  <1>q. ASSUME UNCHANGED <<leak_table, reported, written, forked>>, Others(c),
               \/ prev' = prev
               \/ /\ prev' \in [mem : {"null", "live", "freed"}, size : [Sites -> Nat]]
                  /\ prev'.size \in {prev.size, Zero},
               \/ at'[c].pc \notin {"saveFree", "save"}
               \/ at[c].pc = "saveFree" /\ at'[c].sorted = at[c].sorted
        PROVE  GrowthTypes' /\ GrowthInv'
    BY <1>p, <1>q, GrowthQuiet DEF Others
  <1>o. ASSUME Scanning(c), Others(c), NEW d \in Scanners \ {c}
        PROVE  at'[d].pc \in {"idle", "lock", "exited"}
    <2>1. ~Scanning(d) BY <1>0, <1>o, OneScans
    <2> QED BY <1>o, <2>1 DEF Scanning, Others
  <1>1. CASE Enters(c) \/ ScanLock(c)
    <2>1. Others(c) /\ at'[c].pc \in {"lock", "load"}
      <3>1. CASE Enters(c)
        <4>1. PICK last \in BOOLEAN : Begin(c, last) BY <3>1 DEF Enters
        <4> QED BY <1>0, <4>1, BeginEffect
      <3>2. CASE ScanLock(c) BY <1>0, <3>2, ToEffect DEF ScanLock, Labels
      <3> QED BY <1>1, <3>1, <3>2
    <2>2. UNCHANGED <<leak_table, reported, written, forked, prev>>
      BY <1>1 DEF Enters, Begin, ScanLock, result, growth, snapshot, once
    <2> QED BY <1>q, <2>1, <2>2
  <1>2. CASE ScanLoad(c) \/ ScanSnaps(c)
    <2>1. Others(c) /\ at'[c].pc \in {"refresh", "copy", "unlock"}
      BY <1>0, <1>2, LoadEffect, SnapsEffect
    <2>2. UNCHANGED <<leak_table, reported, written, forked, prev>>
      BY <1>2 DEF ScanLoad, ScanSnaps, result, growth, snapshot, once
    <2> QED BY <1>q, <2>1, <2>2
  <1>3. CASE ScanCopy(c)
    <2>1. Others(c) /\ at'[c].pc = "copy" BY <1>0, <1>3, CopyEffect
    <2>2. UNCHANGED <<leak_table, reported, written, forked, prev>>
      BY <1>3 DEF ScanCopy, result, growth, snapshot, once
    <2> QED BY <1>q, <2>1, <2>2
  <1>4. CASE ScanUnlock(c)
    <2>1. Others(c) /\ at'[c].pc \in {"idle", "exited"} BY <1>0, <1>4, UnlockEffect
    <2>2. UNCHANGED <<leak_table, reported, written, forked, prev>>
      BY <1>4 DEF ScanUnlock, result, growth, snapshot, once
    <2> QED BY <1>q, <2>1, <2>2
  <1>5. CASE ScanCopied(c) \/ ScanDedup(c)
    <2>1. Goes(c) BY <1>0, <1>5, ScanGoes
    <2>2. Others(c) /\ Scanning(c) BY <2>1 DEF Goes
    <2>3. at'[c].pc \in {"dedup", "lookup"}
      BY <1>0, <1>5, ToEffect DEF ScanCopied, ScanDedup, Labels
    <2>4. UNCHANGED <<reported, written, forked, prev>>
      BY <1>5 DEF ScanCopied, ScanDedup, growth, snapshot, once
    <2>5. leak_table' \in [Sites -> SiteType]
      <3>1. CASE ScanCopied(c) BY <3>1 DEF ScanCopied, NoLeaks, NoSite, SiteType
      <3>2. CASE ScanDedup(c)
        <4>1. PICK K \in Kept(at[c].snap) : leak_table' = AddTo(leak_table, K)
          BY <3>2 DEF ScanDedup
        <4>2. K \subseteq Records BY <1>0, <4>1 DEF Kept, ScanTypes, AtType
        <4>3. leak_table \in [Sites -> SiteType] BY DEF GrowthTypes, SiteType
        <4> QED BY <4>1, <4>2, <4>3, AddToTypes
      <3> QED BY <1>5, <3>1, <3>2
    <2>6. GrowthTypes' BY <2>4, <2>5 DEF GrowthTypes, SiteType
    <2>7. \A d \in Scanners : at'[d].pc \notin {"saveFree", "save"} BY <1>o, <2>2, <2>3
    <2> QED BY <2>4, <2>6, <2>7 DEF GrowthInv
  <1>6. CASE ScanReport(c)
    <2>1. /\ at[c].pc = "report" /\ Others(c) /\ Scanning(c) /\ at'[c].pc = "saveFree"
          /\ at'[c].sorted = at[c].sorted
      BY <1>0, <1>6, ToEffect DEF ScanReport, Labels, Scanning
    <2>2. UNCHANGED <<leak_table, prev, forked>> BY <1>6 DEF ScanReport, result, snapshot, once
    <2>3. CASE at[c].sorted /\ reported' = [s \in Sites |-> reported[s] + Diff(s)]
                            /\ written' = [s \in Sites |-> leak_table[s].total]
      <3>1. GrowthTypes'
        <4>1. reported' \in [Sites -> Nat] BY <2>3, DiffCovers DEF GrowthTypes
        <4>2. written' \in [Sites -> Nat] BY <2>3, DiffCovers
        <4> QED BY <2>2, <4>1, <4>2 DEF GrowthTypes
      <3>2. ASSUME ~forked, NEW s \in Sites PROVE Shown(s)'
        <4>1. prev.size[s] <= reported[s] BY <3>2 DEF GrowthInv
        <4>2. /\ Diff(s) \in Nat /\ leak_table[s].total \in Nat
              /\ leak_table[s].total <= prev.size[s] + Diff(s)
          BY DiffCovers
        <4>3. reported[s] \in Nat /\ prev.size[s] \in Nat BY DEF GrowthTypes
        <4>4. reported'[s] = reported[s] + Diff(s) /\ written'[s] = leak_table[s].total
          BY <2>3
        <4>5. prev.size[s] <= reported'[s] /\ leak_table[s].total <= reported'[s]
          BY <4>1, <4>2, <4>3, <4>4
        <4> QED BY <2>2, <4>4, <4>5 DEF Shown
      <3> QED BY <2>2, <3>1, <3>2 DEF GrowthInv, Shown
    <2>4. CASE ~at[c].sorted /\ UNCHANGED <<reported, written>>
      <3>1. GrowthTypes' BY <2>2, <2>4 DEF GrowthTypes
      <3>2. \A d \in Scanners : at'[d].pc \in {"saveFree", "save"} /\ at'[d].sorted
                                  => d # c /\ at'[d] = at[d]
        BY <2>1, <2>4 DEF Others
      <3>3. ASSUME ~forked, NEW s \in Sites PROVE Shown(s)'
        <4>1. Shown(s) BY <3>3 DEF GrowthInv, Shown
        <4> QED BY <2>2, <2>4, <3>2, <4>1 DEF Shown
      <3> QED BY <2>2, <3>1, <3>3 DEF GrowthInv, Shown
    <2> QED BY <1>6, <2>3, <2>4 DEF ScanReport
  <1>7. CASE ScanNoFile(c)
    <2>1. Others(c) /\ at'[c].pc = "unlock" BY <1>0, <1>7, ToEffect DEF ScanNoFile, Labels
    <2>2. UNCHANGED <<leak_table, reported, written, forked, prev>>
      BY <1>7 DEF ScanNoFile, result, snapshot, once
    <2> QED BY <1>q, <2>1, <2>2
  <1>8. CASE ScanSaveFree(c)
    <2>1. Others(c) /\ at[c].pc = "saveFree" /\ at'[c].sorted = at[c].sorted
      BY <1>0, <1>8, ToEffect DEF ScanSaveFree, Labels
    <2>2. UNCHANGED <<leak_table, reported, written, forked>>
      BY <1>8 DEF ScanSaveFree, result, snapshot, once
    <2>3. PICK m \in {"null", "freed"} : prev' = [prev EXCEPT !.mem = m]
      <3>1. PICK m \in {"null", "freed"} : m = IF prev.mem = "null" THEN "null" ELSE "freed"
        OBVIOUS
      <3> QED BY <1>8, <3>1 DEF ScanSaveFree
    <2>4. /\ prev' \in [mem : {"null", "live", "freed"}, size : [Sites -> Nat]]
          /\ prev'.size = prev.size
      BY <1>p, <2>3
    <2> QED BY <1>q, <2>1, <2>2, <2>4
  <1>9. CASE ScanSave(c)
    <2>1. /\ at[c].pc = "save" /\ Others(c) /\ Scanning(c) /\ at'[c].pc = "publishFree"
      BY <1>0, <1>9, ToEffect DEF ScanSave, Labels, Scanning
    <2>2. UNCHANGED <<leak_table, reported, written, forked>>
      BY <1>9 DEF ScanSave, result, snapshot, once
    <2>3. CASE prev' = [mem |-> "null", size |-> Zero]
      <3>1. /\ prev' \in [mem : {"null", "live", "freed"}, size : [Sites -> Nat]]
            /\ prev'.size = Zero
        BY <1>z, <2>3
      <3> QED BY <1>q, <2>1, <2>2, <3>1
    <2>4. CASE /\ at[c].sorted
               /\ prev' = [mem |-> "live", size |-> [s \in Sites |-> leak_table[s].total]]
      <3>1. [s \in Sites |-> leak_table[s].total] \in [Sites -> Nat] BY DiffCovers
      <3>2. prev' \in [mem : {"null", "live", "freed"}, size : [Sites -> Nat]]
        BY <2>4, <3>1
      <3>3. GrowthTypes' BY <2>2, <3>2 DEF GrowthTypes
      <3>4. \A d \in Scanners : at'[d].pc \notin {"saveFree", "save"} BY <1>o, <2>1
      <3>5. ASSUME ~forked, NEW s \in Sites PROVE Shown(s)'
        <4>1. Shown(s) BY <3>5 DEF GrowthInv, Shown
        <4>2. prev'.size[s] = leak_table[s].total BY <2>4
        <4> QED BY <2>1, <2>2, <2>4, <3>4, <4>1, <4>2 DEF Shown
      <3> QED BY <2>2, <3>3, <3>5 DEF GrowthInv, Shown
    <2> QED BY <1>9, <2>3, <2>4 DEF ScanSave
  <1>10. CASE Publishes(c)
    <2>1. UNCHANGED <<leak_table, reported, written, forked, prev>>
      BY <1>10 DEF Publishes, ScanSeries, ScanSeriesStore, ScanPublishFree,
         ScanPublishClear, ScanPublishPairs, ScanPublishNew, ScanPublishFill,
         ScanPublishStacks, ScanPublishSeries, ScanPublishRest, result, growth, snapshot, once
    <2>2. Others(c) /\ at'[c].pc \notin {"saveFree", "save"}
      BY <1>0, <1>10, PublishEffect DEF Publishing
    <2> QED BY <1>q, <2>1, <2>2
  <1>11. CASE ScanRefresh(c)
    <2>1. Others(c) /\ at'[c].pc = "series"
      BY <1>0, <1>11, ToEffect DEF ScanRefresh, Labels
    <2>2. UNCHANGED <<leak_table, reported, written, forked, prev>>
      BY <1>11 DEF ScanRefresh, result, growth, snapshot, once
    <2> QED BY <1>q, <2>1, <2>2
  <1>12. CASE ScanLookup(c)
    <2>1. Goes(c) BY <1>0, <1>12, ScanGoes
    <2>2. at'[c].pc = "report"
      <3>1. PICK ok \in BOOLEAN : at' = [at EXCEPT ![c].pc = "report", ![c].sorted = ok]
        BY <1>12 DEF ScanLookup
      <3> QED BY <1>0, <3>1 DEF ScanTypes, AtType
    <2>3. UNCHANGED <<leak_table, reported, written, forked, prev>>
      BY <1>12 DEF ScanLookup, result, growth, snapshot, once
    <2> QED BY <1>q, <2>1, <2>2, <2>3 DEF Goes
  <1> QED BY <1>1, <1>2, <1>3, <1>4, <1>5, <1>6, <1>7, <1>8, <1>9, <1>10, <1>11, <1>12
          DEF ScanStep, Publishes

\* No growth is lost between the reports of a process, although scans are
\* skipped and files cannot be opened (reporter.c:566-578, 815-837): what the
\* next scan compares with has been reported.  A report that is written and
\* cannot be renamed is left out.
THEOREM GrowthIsReported ==
  ASSUME "output" \notin Failures
  PROVE  Spec => []GrowthReported
  <1>1. Init => GrowthTypes /\ GrowthInv
    <2> SUFFICES ASSUME Init PROVE GrowthTypes /\ GrowthInv OBVIOUS
    <2>1. Zero \in [Sites -> Nat] /\ \A s \in Sites : Zero[s] = 0 BY DEF Zero
    <2>2. prev = [mem |-> "null", size |-> Zero] /\ reported = Zero /\ written = Zero
      BY DEF Init
    <2>3. leak_table \in [Sites -> SiteType] BY DEF Init, NoLeaks, NoSite, SiteType
    <2>4. \A c \in Scanners : at[c].pc = "idle" BY DEF Init, Idle
    <2>5. GrowthTypes BY <2>1, <2>2, <2>3 DEF GrowthTypes, SiteType
    <2> QED BY <2>1, <2>2, <2>4, <2>5 DEF GrowthInv
  <1>2. ScansInv /\ GrowthTypes /\ GrowthInv /\ [Next]_vars => GrowthTypes' /\ GrowthInv'
    <2> SUFFICES ASSUME ScansInv, GrowthTypes, GrowthInv, [Next]_vars
                 PROVE  GrowthTypes' /\ GrowthInv'
      OBVIOUS
    <2>0. prev \in [mem : {"null", "live", "freed"}, size : [Sites -> Nat]] BY DEF GrowthTypes
    <2>1. ASSUME UNCHANGED <<leak_table, reported, written, forked, at, prev>>
          PROVE  GrowthTypes' /\ GrowthInv'
      BY <2>0, <2>1, GrowthQuiet
    <2>2. CASE UNCHANGED vars BY <2>1, <2>2 DEF vars, result, growth, snapshot, once
    <2>3. ASSUME NEW r \in Records, Link(r) \/ Unlink(r) PROVE GrowthTypes' /\ GrowthInv'
      BY <2>1, <2>3 DEF Link, Unlink, result, growth, snapshot, once
    <2>4. ASSUME NEW i \in Stripes, CountEntry(i) PROVE GrowthTypes' /\ GrowthInv'
      BY <2>1, <2>4 DEF CountEntry, result, growth, snapshot, once
    <2>5. CASE AtExitStop \/ AtExitFreeCache
      BY <2>1, <2>5 DEF AtExitStop, AtExitFreeCache, result, growth, snapshot, once
    <2>6. CASE AtExitFreePrev
      <3>1. PICK m \in {"null", "freed"} : prev' = [prev EXCEPT !.mem = m]
        <4>1. PICK m \in {"null", "freed"} : m = IF prev.mem = "null" THEN "null" ELSE "freed"
          OBVIOUS
        <4> QED BY <2>6, <4>1 DEF AtExitFreePrev
      <3>2. /\ prev' \in [mem : {"null", "live", "freed"}, size : [Sites -> Nat]]
            /\ prev'.size = prev.size
        BY <2>0, <3>1
      <3>3. UNCHANGED <<leak_table, reported, written, forked, at>>
        BY <2>6 DEF AtExitFreePrev, result, snapshot, once
      <3> QED BY <3>2, <3>3, GrowthQuiet
    <2>7. CASE AtExitClearPrev
      <3>1. /\ prev' \in [mem : {"null", "live", "freed"}, size : [Sites -> Nat]]
            /\ prev'.size = Zero
        BY <2>7 DEF AtExitClearPrev, Zero
      <3>2. UNCHANGED <<leak_table, reported, written, forked, at>>
        BY <2>7 DEF AtExitClearPrev, result, snapshot, once
      <3> QED BY <3>1, <3>2, GrowthQuiet
    <2>8. CASE ForkChild
      <3>1. /\ forked' /\ reported' = Zero /\ written' = Zero /\ UNCHANGED <<leak_table, prev>>
        BY <2>8 DEF ForkChild
      <3>2. Zero \in [Sites -> Nat] BY DEF Zero
      <3>3. GrowthTypes' BY <3>1, <3>2 DEF GrowthTypes
      <3> QED BY <3>1, <3>3 DEF GrowthInv
    <2> QED BY <2>2, <2>3, <2>4, <2>5, <2>6, <2>7, <2>8, GrowthStep, StepKinds DEF ExitStep
  <1>3. GrowthTypes /\ GrowthInv => GrowthReported BY DEF GrowthInv, GrowthTypes, GrowthReported
  <1> QED BY <1>1, <1>2, <1>3, ScansInvariant, PTL DEF Spec

-----------------------------------------------------------------------------
(* What the scans leave for the next reader.                               *)

\* The sites of all records.
LEMMA AllSitesFinite ==
  \A L \in SUBSET Sites : IsFiniteSet(L) /\ Cardinality(L) \in Nat
  <1>1. SitesOf(Records) = Sites BY DEF SitesOf, Sites
  <1>2. IsFiniteSet(Sites) BY <1>1, SitesFinite
  <1> QED BY <1>2, FS_Subset, FS_CardinalityType

\* What a step of a scan does to its program point.
LEMMA StepEffect ==
  ASSUME ScanTypes, NEW c \in Scanners, ScanStep(c)
  PROVE  /\ Others(c) /\ at[c].pc \notin {"idle", "exited"} /\ UNCHANGED <<atexit, running>>
         /\ at'[c].pc = "save" => ScanSaveFree(c)
         /\ ~Publishes(c) => at[c].pc \notin Publishing /\ at'[c].pc \notin Publishing
  <1>1. UNCHANGED <<atexit, running>>
    BY DEF ScanStep, ScanLock, ScanLoad, ScanRefresh, ScanSeries, ScanSeriesStore, ScanSnaps, ScanCopy,
       ScanCopied, ScanDedup, ScanLookup, ScanReport, ScanNoFile, ScanSaveFree, ScanSave,
       ScanPublishFree, ScanPublishClear, ScanPublishPairs, ScanPublishNew, ScanPublishFill,
     ScanPublishStacks, ScanPublishSeries, ScanPublishRest,
       ScanUnlock, Elsewhere
  <1>2. CASE Publishes(c) BY <1>1, <1>2, PublishEffect DEF Scanning, Publishing
  <1>3. CASE ScanLoad(c) BY <1>1, <1>3, LoadEffect DEF Publishing
  <1>4. CASE ScanSnaps(c) BY <1>1, <1>4, SnapsEffect DEF Publishing
  <1>5. CASE ScanCopy(c) BY <1>1, <1>5, CopyEffect DEF Publishing
  <1>6. CASE ScanUnlock(c) BY <1>1, <1>6, UnlockEffect DEF Publishing
  <1>7. CASE ScanLookup(c)
    <2>1. Goes(c) BY <1>7, ScanGoes
    <2>2. at[c].pc = "lookup" /\ at'[c].pc = "report"
      <3>1. PICK ok \in BOOLEAN : at' = [at EXCEPT ![c].pc = "report", ![c].sorted = ok]
        BY <1>7 DEF ScanLookup
      <3> QED BY <1>7, <3>1 DEF ScanLookup, ScanTypes, AtType
    <2> QED BY <1>1, <2>1, <2>2 DEF Goes, Publishing
  <1>8. ASSUME NEW p, at[c].pc = p, NEW q \in Labels, To(c, q), q \notin Publishing,
               p \notin {"idle", "exited"} \cup Publishing, q = "save" => ScanSaveFree(c)
        PROVE  /\ Others(c) /\ at[c].pc \notin {"idle", "exited"}
               /\ at'[c].pc = "save" => ScanSaveFree(c)
               /\ at[c].pc \notin Publishing /\ at'[c].pc \notin Publishing
    BY <1>8, ToEffect
  <1>9. CASE ScanLock(c) \/ ScanRefresh(c) \/ ScanCopied(c)
    BY <1>1, <1>8, <1>9 DEF ScanLock, ScanRefresh, ScanCopied, Labels, Publishing
  <1>10. CASE ScanDedup(c) \/ ScanReport(c) \/ ScanNoFile(c)
    BY <1>1, <1>8, <1>10 DEF ScanDedup, ScanReport, ScanNoFile, Labels, Publishing
  <1>11. CASE ScanSaveFree(c)
    <2>1. at[c].pc = "saveFree" /\ To(c, "save") BY <1>11 DEF ScanSaveFree
    <2> QED BY <1>1, <1>8, <1>11, <2>1 DEF Labels, Publishing
  <1>12. CASE ScanSave(c)
    BY <1>1, <1>8, <1>12 DEF ScanSave, Labels, Publishing
  <1> QED BY <1>2, <1>3, <1>4, <1>5, <1>6, <1>7, <1>9, <1>10, <1>11, <1>12
          DEF ScanStep, Publishes

\* No step of a scan is a fork, or the exit handler's.
LEMMA HurriedStays ==
  ASSUME NEW c \in Scanners, ScanStep(c)
  PROVE  hurried' = hurried /\ torn' = torn
  BY DEF ScanStep, ScanLock, ScanLoad, ScanRefresh, ScanSeries, ScanSeriesStore, ScanSnaps, ScanCopy,
     ScanCopied, ScanDedup, ScanLookup, ScanReport, ScanNoFile, ScanSaveFree, ScanSave,
     ScanPublishFree, ScanPublishClear, ScanPublishPairs, ScanPublishNew, ScanPublishFill,
     ScanPublishStacks, ScanPublishSeries, ScanPublishRest,
     ScanUnlock, snapshot, once

\* A step that leaves the cache alone, and nobody in it.
LEMMA CacheQuiet ==
  ASSUME CacheInv, UNCHANGED <<cached, cached_site_count, cache_lock, forked, torn>>,
         "cache" \in misuse' => "cache" \in misuse,
         \A c \in Scanners : \/ at'[c] = at[c]
                             \/ at[c].pc \notin Publishing /\ at'[c].pc \notin Publishing
  PROVE  CacheInv'
  <1>1. \A c \in Scanners : at[c].pc \in Publishing => at'[c].pc = at[c].pc OBVIOUS
  <1>2. \A k \in {"pairs", "series"} : StaleAt[k] \subseteq Publishing
    BY DEF StaleAt, Publishing
  <1>3. CacheInv BY DEF CacheInv
  <1>4. \A k \in cached.stale : k \in {"pairs", "series"} BY DEF CacheInv, CacheType
  <1> QED BY <1>1, <1>2, <1>3, <1>4 DEF CacheInv, Short, Publishing

\* When no scan is in the middle of it, what is read is there.
LEMMA NotDangling ==
  ASSUME CacheInv, "cache" \notin torn,
         \A c \in Scanners : at[c].pc \notin {"seriesStore", "publishClear", "publishPairs",
                                           "publishFill", "publishSeries", "publishRest"}
  PROVE  ~Dangling
  <1>1. ~Short BY DEF CacheInv
  <1>2. cached.stale \subseteq {"pairs", "series"} BY DEF CacheInv, CacheType
  <1>3. cached.stale = {} BY <1>2 DEF CacheInv, StaleAt
  <1> QED BY <1>1, <1>3 DEF Dangling

\* While one scan publishes, the other does not.
LEMMA PublishAlone ==
  ASSUME ScansInv, NEW c \in Scanners, Scanning(c), NEW d \in Scanners \ {c}
  PROVE  at[d].pc \notin Publishing
  <1>1. ~Scanning(d) BY OneScans DEF ScansInv
  <1> QED BY <1>1 DEF Scanning, Publishing

\* What is published is there again when cache_lock is released.
LEMMA PublishStep ==
  ASSUME ScansInv, CacheInv, NEW c \in Scanners, Publishes(c)
  PROVE  CacheInv'
  <1>0. ScanTypes BY DEF ScansInv
  <1>1. Others(c) /\ Scanning(c) /\ \A d \in Scanners \ {c} : at[d].pc \notin Publishing
    BY <1>0, PublishEffect, PublishAlone
  <1>2. \A d \in Scanners \ {c} : at'[d].pc \notin Publishing BY <1>1 DEF Others
  <1>3. cached \in CacheType /\ cached_site_count \in Nat BY DEF CacheInv
  <1>4. UNCHANGED <<forked, torn>>
    BY DEF Publishes, ScanSeries, ScanSeriesStore, ScanPublishFree, ScanPublishClear,
       ScanPublishPairs, ScanPublishNew, ScanPublishFill, ScanPublishStacks,
       ScanPublishSeries, ScanPublishRest, snapshot, once
  <1>5. Listed(leak_table) \subseteq Sites BY DEF Listed
  <1>6. at[c].pc \in Publishing => cache_lock = c BY DEF CacheInv
  <1>7. \A q \in Labels : To(c, q) => at'[c].pc = q BY <1>0, ToEffect
  <1>8. cached.stale \subseteq {"pairs", "series"} BY <1>3 DEF CacheType
  <1>d. "cache" \notin torn =>
          /\ "cache" \notin misuse
          /\ at[c].pc \notin {"publishClear", "publishFill"} => ~Short
          /\ "pairs" \in cached.stale => at[c].pc \in {"publishPairs", "publishSeries"}
          /\ "series" \in cached.stale => at[c].pc \in {"seriesStore", "publishRest"}
    BY <1>1 DEF CacheInv, Publishing, StaleAt
  \* What is to be shown of a step of c.
  <1>q. ASSUME at'[c].pc \in Publishing => cache_lock' = c,
               at'[c].pc = "publishFill" => cached'.mem = "live",
               cached' \in CacheType, cached_site_count' \in Nat,
               "cache" \notin torn =>
                 /\ "cache" \notin misuse'
                 /\ at'[c].pc \notin {"publishClear", "publishFill"} => ~Short'
                 /\ "pairs" \in cached'.stale => at'[c].pc \in {"publishPairs", "publishSeries"}
                 /\ "series" \in cached'.stale => at'[c].pc \in {"seriesStore", "publishRest"}
        PROVE  CacheInv'
    <2>1. \A d \in Scanners : at'[d].pc \in Publishing => cache_lock' = d BY <1>2, <1>q
    <2>2. \A d \in Scanners : at'[d].pc = "publishFill" => cached'.mem = "live"
      BY <1>2, <1>q DEF Publishing
    <2>3. \A k \in cached'.stale : k \in {"pairs", "series"} BY <1>q DEF CacheType
    <2>4. "cache" \notin torn =>
            /\ Short' => \E d \in Scanners : at'[d].pc \in {"publishClear", "publishFill"}
            /\ \A k \in cached'.stale : \E d \in Scanners : at'[d].pc \in StaleAt[k]
            /\ "cache" \notin misuse'
      BY <1>q, <2>3 DEF StaleAt
    <2>5. ~forked' => torn' = {} BY <1>4 DEF CacheInv
    <2> QED BY <1>4, <1>q, <2>1, <2>2, <2>4, <2>5 DEF CacheInv
  <1>9. CASE ScanSeries(c)
    <2>1. at[c].pc = "series" /\ UNCHANGED cached_site_count BY <1>9 DEF ScanSeries
    <2>2. "cache" \notin torn => ~Short /\ cached.stale = {} /\ "cache" \notin misuse
      BY <1>8, <1>d, <2>1
    <2>3. CASE /\ cache_lock' = c /\ Uses("cache", "series" \in cached.stale)
               /\ cached' = [cached EXCEPT !.stale = @ \cup {"series"}]
               /\ To(c, "seriesStore")
      <3>1. at'[c].pc = "seriesStore" BY <1>7, <2>3 DEF Labels
      <3>2. /\ cached' \in CacheType /\ cached'.stale = cached.stale \cup {"series"}
            /\ cached'.mem = cached.mem /\ cached'.sites = cached.sites
        BY <1>3, <2>3 DEF CacheType
      <3>3. "cache" \notin torn => "cache" \notin misuse' BY <2>2, <2>3 DEF Uses
      <3>4. Short' = Short BY <2>1, <3>2 DEF Short
      <3> QED BY <1>3, <1>q, <2>1, <2>2, <2>3, <3>1, <3>2, <3>3, <3>4
    <2>4. CASE To(c, "snaps") /\ UNCHANGED <<cache_lock, cached, misuse>>
      <3>1. at'[c].pc = "snaps" BY <1>7, <2>4 DEF Labels
      <3>2. Short' = Short BY <2>1, <2>4 DEF Short
      <3> QED BY <1>3, <1>q, <2>1, <2>2, <2>4, <3>1, <3>2 DEF Publishing
    <2> QED BY <1>9, <2>3, <2>4 DEF ScanSeries
  <1>10. CASE ScanSeriesStore(c) \/ ScanPublishRest(c)
    <2>1. /\ at[c].pc \in {"seriesStore", "publishRest"} /\ UNCHANGED <<cached_site_count, misuse>>
          /\ cached' = [cached EXCEPT !.stale = @ \ {"series"}]
          /\ at'[c].pc \in {"snaps", "unlock"}
      BY <1>7, <1>10 DEF ScanSeriesStore, ScanPublishRest, Labels, growth
    <2>2. /\ cached' \in CacheType /\ cached'.stale = cached.stale \ {"series"}
          /\ cached'.mem = cached.mem /\ cached'.sites = cached.sites
      BY <1>3, <2>1 DEF CacheType
    <2>3. Short' = Short BY <2>1, <2>2 DEF Short
    <2> QED BY <1>3, <1>d, <1>q, <2>1, <2>2, <2>3 DEF Publishing
  <1>11. CASE ScanPublishFree(c)
    <2>1. /\ at[c].pc = "publishFree" /\ cache_lock' = c /\ at'[c].pc = "publishClear"
          /\ UNCHANGED cached_site_count
      BY <1>7, <1>11 DEF ScanPublishFree, Labels
    <2>2. PICK m \in {"null", "freed"} : cached' = [cached EXCEPT !.mem = m]
      <3>1. PICK m \in {"null", "freed"} : m = IF cached.mem = "null" THEN "null" ELSE "freed"
        OBVIOUS
      <3> QED BY <1>11, <3>1 DEF ScanPublishFree
    <2>3. cached' \in CacheType /\ cached'.stale = cached.stale BY <1>3, <2>2 DEF CacheType
    <2>4. "cache" \notin torn => ~Dangling BY <1>8, <1>d, <2>1 DEF Dangling
    <2>5. "cache" \notin torn => "cache" \notin misuse'
      <3>1. misuse' = misuse \cup (IF Dangling THEN {"cache"} ELSE {})
        BY <1>11 DEF ScanPublishFree, Uses
      <3> QED BY <1>d, <2>4, <3>1
    <2> QED BY <1>3, <1>d, <1>q, <2>1, <2>3, <2>5
  <1>12. CASE ScanPublishClear(c)
    <2>1. /\ at[c].pc = "publishClear" /\ UNCHANGED <<cache_lock, cached_site_count, misuse>>
          /\ at'[c].pc = "publishPairs"
          /\ cached' = [NoCache EXCEPT !.stale = cached.stale \cup {"pairs"}]
      BY <1>7, <1>12 DEF ScanPublishClear, Labels, growth
    <2>2. /\ cached' \in CacheType /\ cached'.mem = "null"
          /\ cached'.stale = cached.stale \cup {"pairs"}
      BY <1>8, <2>1 DEF NoCache, CacheType
    <2>3. ~Short' BY <2>2 DEF Short
    <2> QED BY <1>3, <1>6, <1>d, <1>q, <2>1, <2>2, <2>3 DEF Publishing
  <1>13. CASE ScanPublishPairs(c)
    <2>1. /\ at[c].pc = "publishPairs" /\ UNCHANGED <<cache_lock, cached_site_count, misuse>>
          /\ at'[c].pc = "publishNew" /\ cached' = [cached EXCEPT !.stale = @ \ {"pairs"}]
      BY <1>7, <1>13 DEF ScanPublishPairs, Labels, growth
    <2>2. /\ cached' \in CacheType /\ cached'.stale = cached.stale \ {"pairs"}
          /\ cached'.mem = cached.mem /\ cached'.sites = cached.sites
      BY <1>3, <2>1 DEF CacheType
    <2>3. Short' = Short BY <2>1, <2>2 DEF Short
    <2> QED BY <1>3, <1>6, <1>d, <1>q, <2>1, <2>2, <2>3 DEF Publishing
  <1>14. CASE ScanPublishNew(c)
    <2>1. /\ at[c].pc = "publishNew" /\ UNCHANGED <<cache_lock, misuse>>
      BY <1>14 DEF ScanPublishNew, growth
    <2>2. CASE cached' = [cached EXCEPT !.mem = "live"] /\ To(c, "publishFill")
               /\ UNCHANGED cached_site_count
      <3>1. at'[c].pc = "publishFill" BY <1>7, <2>2 DEF Labels
      <3>2. /\ cached' \in CacheType /\ cached'.stale = cached.stale /\ cached'.mem = "live"
        BY <1>3, <2>2 DEF CacheType
      <3> QED BY <1>3, <1>6, <1>d, <1>q, <2>1, <2>2, <3>1, <3>2 DEF Publishing
    <2>3. CASE To(c, "publishStacks") /\ UNCHANGED <<cached, cached_site_count>>
      <3>1. at'[c].pc = "publishStacks" BY <1>7, <2>3 DEF Labels
      <3>2. Short' = Short BY <2>3 DEF Short
      <3> QED BY <1>3, <1>6, <1>d, <1>q, <2>1, <2>3, <3>1, <3>2 DEF Publishing
    <2>4. CASE cached_site_count' = 0 /\ To(c, "publishStacks") /\ UNCHANGED cached
      <3>1. at'[c].pc = "publishStacks" BY <1>7, <2>4 DEF Labels
      <3>2. Short' => Short
        <4>1. Cardinality(cached.sites) \in Nat BY <1>3, AllSitesFinite DEF CacheType
        <4> QED BY <2>4, <4>1 DEF Short
      <3> QED BY <1>3, <1>6, <1>d, <1>q, <2>1, <2>4, <3>1, <3>2 DEF Publishing
    <2> QED BY <1>14, <2>2, <2>3, <2>4 DEF ScanPublishNew
  <1>15. CASE ScanPublishFill(c)
    <2>1. /\ at[c].pc = "publishFill" /\ UNCHANGED <<cache_lock, misuse>> /\ cached.mem = "live"
      BY <1>15 DEF ScanPublishFill, growth, CacheInv
    <2>2. ASSUME NEW s \in Listed(leak_table), cached' = [cached EXCEPT !.sites = @ \cup {s}],
                 UNCHANGED <<at, cached_site_count>>
          PROVE  CacheInv'
      <3>1. /\ cached' \in CacheType /\ cached'.stale = cached.stale /\ cached'.mem = "live"
        BY <1>3, <1>5, <2>1, <2>2 DEF CacheType
      <3> QED BY <1>3, <1>6, <1>d, <1>q, <2>1, <2>2, <3>1 DEF Publishing
    <2>3. CASE /\ Listed(leak_table) \subseteq cached.sites /\ UNCHANGED cached
               /\ cached_site_count' = Cardinality(Listed(leak_table))
               /\ To(c, "publishStacks")
      <3>1. at'[c].pc = "publishStacks" BY <1>7, <2>3 DEF Labels
      <3>2. cached_site_count' \in Nat BY <1>5, <2>3, AllSitesFinite
      <3>3. /\ cached_site_count' <= Cardinality(cached.sites)
            /\ Cardinality(cached.sites) \in Nat
        <4>1. IsFiniteSet(cached.sites) /\ Cardinality(cached.sites) \in Nat
          BY <1>3, AllSitesFinite DEF CacheType
        <4> QED BY <2>3, <4>1, FS_Subset
      <3>4. ~Short' BY <2>1, <2>3, <3>2, <3>3 DEF Short
      <3> QED BY <1>3, <1>6, <1>d, <1>q, <2>1, <2>3, <3>1, <3>2, <3>4 DEF Publishing
    <2> QED BY <1>15, <2>2, <2>3 DEF ScanPublishFill
  <1>16. CASE ScanPublishStacks(c)
    <2>1. /\ at[c].pc = "publishStacks" /\ UNCHANGED <<cache_lock, cached_site_count, misuse>>
          /\ at'[c].pc = "publishSeries"
          /\ cached' = cached \/ cached' = [cached EXCEPT !.stale = @ \cup {"pairs"}]
      BY <1>7, <1>16 DEF ScanPublishStacks, Labels, growth
    <2>2. /\ cached' \in CacheType /\ cached'.stale \subseteq cached.stale \cup {"pairs"}
          /\ cached'.mem = cached.mem /\ cached'.sites = cached.sites
      BY <1>3, <2>1 DEF CacheType
    <2>3. Short' = Short BY <2>1, <2>2 DEF Short
    <2> QED BY <1>3, <1>6, <1>d, <1>q, <2>1, <2>2, <2>3 DEF Publishing
  <1>17. CASE ScanPublishSeries(c)
    <2>1. /\ at[c].pc = "publishSeries" /\ UNCHANGED <<cache_lock, cached_site_count, misuse>>
          /\ at'[c].pc = "publishRest"
          /\ \/ cached' = [cached EXCEPT !.stale = {}]
             \/ cached' = [cached EXCEPT !.stale = {"series"}]
      BY <1>7, <1>17 DEF ScanPublishSeries, Labels, growth
    <2>2. /\ cached' \in CacheType /\ "pairs" \notin cached'.stale
          /\ cached'.mem = cached.mem /\ cached'.sites = cached.sites
      BY <1>3, <2>1 DEF CacheType
    <2>3. Short' = Short BY <2>1, <2>2 DEF Short
    <2> QED BY <1>3, <1>6, <1>d, <1>q, <2>1, <2>2, <2>3 DEF Publishing
  <1> QED BY <1>9, <1>10, <1>11, <1>12, <1>13, <1>14, <1>15, <1>16, <1>17 DEF Publishes

\* What the HTTP thread reads is missing only while a scan holds cache_lock.
LEMMA CacheStep ==
  ASSUME ScansInv, CacheInv, [Next]_vars
  PROVE  CacheInv'
  <1>0. ScanTypes BY DEF ScansInv
  <1>q. ASSUME UNCHANGED <<cached, cached_site_count, cache_lock, forked, torn>>,
               "cache" \in misuse' => "cache" \in misuse, at' = at
        PROVE  CacheInv'
    BY <1>q, CacheQuiet
  <1>1. CASE UNCHANGED vars BY <1>q, <1>1 DEF vars, cache, growth, snapshot, once
  <1>2. ASSUME NEW r \in Records, Link(r) \/ Unlink(r) PROVE CacheInv'
    BY <1>q, <1>2 DEF Link, Unlink, cache, growth, snapshot, once
  <1>3. ASSUME NEW i \in Stripes, CountEntry(i) PROVE CacheInv'
    BY <1>q, <1>3 DEF CountEntry, cache, growth, snapshot, once
  <1>4. ASSUME NEW c \in Scanners, Enters(c) PROVE CacheInv'
    <2>1. PICK last \in BOOLEAN : Begin(c, last) BY <1>4 DEF Enters
    <2>2. at[c].pc = "idle" /\ at'[c].pc = "lock" /\ Others(c) BY <1>0, <2>1, BeginEffect
    <2>3. /\ UNCHANGED <<cached, cached_site_count, cache_lock, forked, torn>>
          /\ misuse' = misuse
      BY <2>1 DEF Begin, cache, growth, snapshot, once
    <2> QED BY <2>2, <2>3, CacheQuiet DEF Others, Publishing
  <1>5. ASSUME NEW c \in Scanners, ScanStep(c), ~Publishes(c) PROVE CacheInv'
    <2>1. /\ Others(c) /\ at[c].pc \notin Publishing /\ at'[c].pc \notin Publishing
      BY <1>0, <1>5, StepEffect
    <2>2. UNCHANGED <<cached, cached_site_count, cache_lock, forked, torn>>
      BY <1>5 DEF ScanStep, Publishes, ScanLock, ScanLoad, ScanRefresh, ScanSeries,
         ScanSnaps, ScanCopy, ScanCopied, ScanDedup, ScanLookup, ScanReport, ScanNoFile,
         ScanSaveFree, ScanSave, ScanUnlock, cache, snapshot, once
    <2>3. "cache" \in misuse' => "cache" \in misuse
      <3>1. misuse' = misuse \/ Uses("prev", prev.mem = "freed")
        BY <1>5 DEF ScanStep, Publishes, ScanLock, ScanLoad, ScanRefresh, ScanSeries,
           ScanSnaps, ScanCopy, ScanCopied, ScanDedup, ScanLookup, ScanReport, ScanNoFile,
           ScanSaveFree, ScanSave, ScanUnlock, growth
      <3> QED BY <3>1 DEF Uses
    <2> QED BY <2>1, <2>2, <2>3, CacheQuiet DEF Others
  <1>6. CASE AtExitStop \/ AtExitClearPrev
    BY <1>q, <1>6 DEF AtExitStop, AtExitClearPrev, cache, growth, snapshot, once
  <1>7. CASE AtExitFreePrev
    <2>1. UNCHANGED <<cached, cached_site_count, cache_lock, forked, torn, at>>
      BY <1>7 DEF AtExitFreePrev, cache, snapshot, once
    <2>2. "cache" \in misuse' => "cache" \in misuse BY <1>7 DEF AtExitFreePrev, Uses
    <2> QED BY <1>q, <2>1, <2>2
  <1>8. CASE AtExitFreeCache
    <2>1. /\ cache_lock = "none" /\ cached' = NoCache
          /\ cached_site_count' = 0 /\ UNCHANGED <<cache_lock, forked, torn, at>>
          /\ misuse' = misuse \cup (IF Dangling THEN {"cache"} ELSE {})
      BY <1>8 DEF AtExitFreeCache, Uses
    <2>2. \A c \in Scanners : at[c].pc \notin Publishing BY <2>1 DEF CacheInv, Scanners
    <2>3. "cache" \notin torn => ~Dangling BY <2>2, NotDangling DEF Publishing
    <2>4. NoCache \in CacheType /\ ~Short' /\ cached'.stale = {}
      BY <2>1 DEF NoCache, CacheType, Short
    <2> QED BY <2>1, <2>2, <2>3, <2>4 DEF CacheInv, Publishing
  <1>9. CASE ForkChild
    <2>1. /\ ~forked /\ forked' /\ torn' = Halfway
          /\ UNCHANGED <<cached, cached_site_count, misuse>>
          /\ \A c \in Scanners : at'[c].pc = "idle"
      BY <1>9 DEF ForkChild, Idle
    <2>2. "cache" \notin torn' =>
            \A c \in Scanners : at[c].pc \notin {"seriesStore", "publishClear", "publishPairs",
                                              "publishFill", "publishSeries", "publishRest"}
      BY <2>1 DEF Halfway
    <2>3. torn = {} BY <2>1 DEF CacheInv
    <2>4. "cache" \notin torn' => ~Dangling /\ "cache" \notin misuse
      BY <2>2, <2>3, NotDangling DEF CacheInv
    <2> QED BY <2>1, <2>4 DEF CacheInv, Dangling, Short, Publishing
  <1> QED BY <1>1, <1>2, <1>3, <1>4, <1>5, <1>6, <1>7, <1>8, <1>9, PublishStep, StepKinds
          DEF ExitStep

\* Where the exit handler is.
LEMMA ExitInvStep ==
  ASSUME ScansInv, ExitInv, [Next]_vars
  PROVE  ExitInv'
  <1>0. ScanTypes BY DEF ScansInv
  <1>1. ASSUME UNCHANGED <<atexit, running, hurried, at>> PROVE ExitInv'
    BY <1>1 DEF ExitInv, ScansOver
  <1>2. CASE UNCHANGED vars BY <1>1, <1>2 DEF vars, snapshot, once
  <1>3. ASSUME NEW r \in Records, Link(r) \/ Unlink(r) PROVE ExitInv'
    BY <1>1, <1>3 DEF Link, Unlink, snapshot, once
  <1>4. ASSUME NEW i \in Stripes, CountEntry(i) PROVE ExitInv'
    BY <1>1, <1>4 DEF CountEntry, snapshot, once
  <1>5. ASSUME NEW c \in Scanners, ScanStep(c) PROVE ExitInv'
    <2>1. at[c].pc \notin {"idle", "exited"} /\ UNCHANGED <<atexit, running>>
      BY <1>0, <1>5, StepEffect
    <2>2. hurried' = hurried BY <1>5, HurriedStays
    <2>3. ~ScansOver BY <2>1 DEF ScansOver, Scanners
    <2> QED BY <2>1, <2>2, <2>3 DEF ExitInv
  <1>6. ASSUME WakePeak \/ WakeLast \/ \E c \in Scanners : WakeInterval(c) PROVE ExitInv'
    <2>1. UNCHANGED <<atexit, running, hurried>>
      BY <1>6 DEF WakePeak, WakeLast, WakeInterval, Begin, snapshot, once
    <2>2. PICK c \in Scanners, last \in BOOLEAN :
            Begin(c, last) /\ (running \/ c = "reporter")
      BY <1>6 DEF WakePeak, WakeLast, WakeInterval, Scanners
    <2>3. at[c].pc = "idle" BY <2>2 DEF Begin
    <2>4. running \/ ~ScansOver BY <2>2, <2>3 DEF ScansOver
    <2>5. atexit \in {"prev", "clear", "done"} => hurried BY <2>4 DEF ExitInv
    <2> QED BY <2>1, <2>5 DEF ExitInv
  <1>7. CASE AtExitStop BY <1>7 DEF AtExitStop, ExitInv, snapshot, once
  <1>8. CASE AtExitFreeCache
    <2>1. /\ atexit = "wait" /\ atexit' = "prev" /\ hurried' = ~ScansOver
          /\ UNCHANGED <<running, at>>
      BY <1>8 DEF AtExitFreeCache
    <2> QED BY <2>1 DEF ExitInv, ScansOver
  <1>9. CASE AtExitFreePrev \/ AtExitClearPrev
    <2>1. /\ atexit \in {"prev", "clear"} /\ atexit' \in {"clear", "done"}
          /\ UNCHANGED <<running, at, hurried>>
      BY <1>9 DEF AtExitFreePrev, AtExitClearPrev, snapshot, once
    <2> QED BY <2>1 DEF ExitInv, ScansOver
  <1>10. CASE ForkChild BY <1>10 DEF ForkChild, ExitInv
  <1> QED BY <1>2, <1>3, <1>4, <1>5, <1>6, <1>7, <1>8, <1>9, <1>10 DEF Next

\* The arrays of the last scan are dangling only while their scan goes on to
\* replace them, or the exit handler does.
LEMMA FreedStep ==
  ASSUME ScansInv, ExitInv, CacheInv, FreedInv, [Next]_vars
  PROVE  FreedInv'
  <1>0. ScanTypes BY DEF ScansInv
  <1>q. ASSUME UNCHANGED <<prev, hurried, torn>>, "prev" \in misuse' => "prev" \in misuse,
               atexit' = atexit \/ atexit # "clear",
               \A c \in Scanners : at[c].pc = "save" => at'[c].pc = "save"
        PROVE  FreedInv'
    BY <1>q DEF FreedInv
  <1>2. CASE UNCHANGED vars BY <1>q, <1>2 DEF vars, growth, snapshot, once
  <1>3. ASSUME NEW r \in Records, Link(r) \/ Unlink(r) PROVE FreedInv'
    BY <1>q, <1>3 DEF Link, Unlink, growth, snapshot, once
  <1>4. ASSUME NEW i \in Stripes, CountEntry(i) PROVE FreedInv'
    BY <1>q, <1>4 DEF CountEntry, growth, snapshot, once
  <1>5. ASSUME NEW c \in Scanners, Enters(c) PROVE FreedInv'
    <2>1. PICK last \in BOOLEAN : Begin(c, last) BY <1>5 DEF Enters
    <2>2. at[c].pc = "idle" /\ Others(c) BY <1>0, <2>1, BeginEffect
    <2>3. UNCHANGED <<prev, misuse, hurried, torn, atexit>>
      BY <2>1 DEF Begin, growth, snapshot, once
    <2> QED BY <1>q, <2>2, <2>3 DEF Others
  <1>s. ASSUME NEW c \in Scanners, Scanning(c), at[c].pc # "save", "prev" \notin torn, ~hurried
        PROVE  prev.mem # "freed" /\ "prev" \notin misuse
    <2>1. \A d \in Scanners \ {c} : ~Scanning(d) BY <1>s, OneScans DEF ScansInv
    <2>2. atexit # "clear" BY <1>s DEF ExitInv, ScansOver, Scanning, Scanners
    <2> QED BY <1>s, <2>1, <2>2 DEF Scanning, FreedInv
  <1>6. ASSUME NEW c \in Scanners, ScanStep(c) PROVE FreedInv'
    <2>1. Others(c) /\ atexit' = atexit BY <1>0, <1>6, StepEffect
    <2>2. hurried' = hurried /\ torn' = torn BY <1>6, HurriedStays
    <2>3. CASE /\ ~(ScanReport(c) \/ ScanNoFile(c) \/ ScanSaveFree(c) \/ ScanSave(c))
               /\ ~Publishes(c)
      <3>1. UNCHANGED <<prev, misuse>> /\ at[c].pc # "save"
        BY <1>6, <2>3 DEF ScanStep, Publishes, ScanLock, ScanLoad, ScanRefresh, ScanSeries,
           ScanSnaps, ScanCopy, ScanCopied, ScanDedup, ScanLookup, ScanUnlock, growth
      <3> QED BY <1>q, <2>1, <2>2, <3>1 DEF Others
    <2>4. CASE Publishes(c)
      <3>1. at[c].pc # "save" BY <1>0, <2>4, PublishEffect
      <3>2. prev' = prev /\ ("prev" \in misuse' => "prev" \in misuse)
        BY <2>4 DEF Publishes, ScanSeries, ScanSeriesStore, ScanPublishFree, ScanPublishClear,
           ScanPublishPairs, ScanPublishNew, ScanPublishFill, ScanPublishStacks,
           ScanPublishSeries, ScanPublishRest, Uses, growth
      <3> QED BY <1>q, <2>1, <2>2, <3>1, <3>2 DEF Others
    <2>5. CASE ScanReport(c) \/ ScanNoFile(c)
      <3>1. /\ at[c].pc = "report" /\ prev' = prev
            /\ misuse' = misuse \cup (IF prev.mem = "freed" THEN {"prev"} ELSE {})
        BY <2>5 DEF ScanReport, ScanNoFile, Uses
      <3>2. "prev" \notin torn /\ ~hurried => prev.mem # "freed" /\ "prev" \notin misuse
        BY <1>s, <3>1 DEF Scanning
      <3> QED BY <2>2, <3>1, <3>2 DEF FreedInv
    <2>6. CASE ScanSaveFree(c)
      <3>1. /\ at[c].pc = "saveFree" /\ at'[c].pc = "save"
            /\ misuse' = misuse \cup (IF prev.mem = "freed" THEN {"prev"} ELSE {})
        BY <1>0, <2>6, ToEffect DEF ScanSaveFree, Uses, Labels
      <3>2. "prev" \notin torn /\ ~hurried => prev.mem # "freed" /\ "prev" \notin misuse
        BY <1>s, <3>1 DEF Scanning
      <3> QED BY <2>2, <3>1, <3>2 DEF FreedInv
    <2>7. CASE ScanSave(c)
      <3>1. misuse' = misuse /\ prev'.mem # "freed" BY <2>7 DEF ScanSave
      <3> QED BY <2>2, <3>1 DEF FreedInv
    <2> QED BY <1>6, <2>3, <2>4, <2>5, <2>6, <2>7
  <1>7. CASE AtExitStop
    BY <1>q, <1>7 DEF AtExitStop, growth, snapshot, once
  <1>8. CASE AtExitFreeCache
    <2>1. /\ atexit = "wait" /\ UNCHANGED <<prev, torn, at>>
          /\ misuse' = misuse \cup (IF Dangling THEN {"cache"} ELSE {})
      BY <1>8 DEF AtExitFreeCache, Uses
    <2>2. ~hurried BY <2>1 DEF ExitInv
    <2> QED BY <2>1, <2>2 DEF FreedInv
  <1>9. CASE AtExitFreePrev
    <2>1. /\ atexit = "prev" /\ atexit' = "clear" /\ UNCHANGED <<hurried, torn>>
          /\ misuse' = misuse \cup (IF prev.mem = "freed" THEN {"prev"} ELSE {})
      BY <1>9 DEF AtExitFreePrev, Uses, snapshot, once
    <2>2. ~hurried => \A c \in Scanners : at[c].pc # "save"
      BY <2>1 DEF ExitInv, ScansOver, Scanners
    <2> QED BY <2>1, <2>2 DEF FreedInv
  <1>10. CASE AtExitClearPrev
    <2>1. misuse' = misuse /\ prev'.mem = "null" /\ UNCHANGED <<hurried, torn>>
      BY <1>10 DEF AtExitClearPrev, snapshot, once
    <2> QED BY <2>1 DEF FreedInv
  <1>11. CASE ForkChild
    <2>1. /\ ~forked /\ atexit = "no" /\ torn' = Halfway /\ UNCHANGED <<prev, misuse>>
      BY <1>11 DEF ForkChild
    <2>2. ~hurried /\ torn = {} BY <2>1 DEF ExitInv, CacheInv
    <2>3. "prev" \notin torn' => \A c \in Scanners : at[c].pc # "save"
      BY <2>1 DEF Halfway
    <2> QED BY <2>1, <2>2, <2>3 DEF FreedInv
  <1> QED BY <1>2, <1>3, <1>4, <1>5, <1>6, <1>7, <1>8, <1>9, <1>10, <1>11, StepKinds
          DEF ExitStep

\* What the scans leave for the next reader is there, after any allocation that
\* fails, whenever a fork or the exit handler comes: only a child that was
\* copied between a free and the next pointer, or while the new array was
\* filled, and for the arrays of the last scan only an exit handler that did not
\* wait long enough, find what is not there (reporter.c:53-54, 84-91, 815-933).
THEOREM CacheIsSafe == Spec => []CacheSafe
  <1> DEFINE I == CacheInv /\ ExitInv /\ FreedInv
  <1>1. Init => I
    <2> SUFFICES ASSUME Init PROVE I OBVIOUS
    <2>1. \A c \in Scanners : at[c].pc = "idle" BY DEF Init, Idle
    <2>2. NoCache \in CacheType /\ cached = NoCache /\ ~Short /\ cached.stale = {}
      BY DEF Init, NoCache, CacheType, Short
    <2>3. CacheInv BY <2>1, <2>2 DEF Init, CacheInv, Publishing
    <2> QED BY <2>3 DEF Init, ExitInv, FreedInv
  <1>2. ScansInv /\ I /\ [Next]_vars => I' BY CacheStep, ExitInvStep, FreedStep
  <1>3. I => CacheSafe
    <2> SUFFICES ASSUME I PROVE CacheSafe OBVIOUS
    <2>1. ASSUME "cache" \notin torn, cache_lock = "none" PROVE ~Dangling
      <3>1. \A c \in Scanners : at[c].pc \notin Publishing BY <2>1 DEF CacheInv, Scanners
      <3> QED BY <2>1, <3>1, NotDangling DEF Publishing
    <2> QED BY <2>1 DEF CacheInv, FreedInv, CacheSafe, CacheReadable
  <1> QED BY <1>1, <1>2, <1>3, ScansInvariant, PTL DEF Spec

=============================================================================
