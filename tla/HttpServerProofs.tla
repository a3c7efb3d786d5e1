-------------------------- MODULE HttpServerProofs --------------------------
(***************************************************************************)
(* Proofs about HttpServer, StackCache and TimeSeries: the window of the   *)
(* ring of points, the symbols of the published stacks, the descriptors of *)
(* the server and the port it reports, for any capacity, any stacks, ports *)
(* and descriptors.                                                        *)
(***************************************************************************)
EXTENDS HttpServer, SequenceTheorems, FiniteSetTheorems, TLAPS

-----------------------------------------------------------------------------
(* The ring of points.                                                     *)

PointsMade == [at : Nat, by : Writers \cup {"none"}]

SeriesTypes ==
  /\ ready \in BOOLEAN /\ points \in [RingSlots -> PointsMade] /\ head \in RingSlots
  /\ count = Len(stored) /\ clock \in Nat
  /\ held \in [Writers -> PointsMade] /\ stored \in Seq(PointsMade)

\* The slot that lies d behind the head.
Behind(d) == IF d <= head THEN head - d ELSE head - d + Capacity

\* The d-th last point stored is still in the ring, d behind the head, if d
\* does not exceed the capacity; before the ring wraps the head is the count.
RingInv ==
  /\ SeriesTypes
  /\ ~ready => stored = <<>> /\ \A w \in Writers : held[w] = NoPoint
  /\ count < Capacity => head = count
  /\ count = Capacity => head = 0
  /\ \A d \in 1 .. Capacity : d <= count => points[Behind(d)] = stored[count - d + 1]

\* The smaller of two numbers.
LEMMA MinOfTwo ==
  ASSUME NEW x \in Int, NEW y \in Int
  PROVE  Min({x, y}) = IF x <= y THEN x ELSE y
  <1> DEFINE P(m) == m \in {x, y} /\ \A z \in {x, y} : m <= z
  <1>1. P(IF x <= y THEN x ELSE y) OBVIOUS
  <1>2. P(CHOOSE m : P(m)) BY <1>1
  <1>3. Min({x, y}) = CHOOSE m \in {x, y} : \A z \in {x, y} : m <= z BY DEF Min
  <1>4. P(Min({x, y})) BY <1>2, <1>3
  <1> QED BY <1>4

\* The remainder of a number that exceeds the capacity less than once.
LEMMA OneWrap ==
  ASSUME NEW C \in Nat \ {0}, NEW x \in Nat, x < 2 * C
  PROVE  x % C = IF x < C THEN x ELSE x - C
  OBVIOUS

\* mtt_ts_record_point stores a point and moves the head: every older point is
\* one further behind it.
LEMMA StoreStep ==
  ASSUME RingInv, NEW w \in Writers, Store(w)
  PROVE  RingInv'
  <1>1. /\ points \in [RingSlots -> PointsMade] /\ head \in RingSlots /\ count = Len(stored)
        /\ held \in [Writers -> PointsMade] /\ stored \in Seq(PointsMade)
        /\ Capacity \in Nat \ {0} /\ count \in Nat
    BY TimeSeriesConstants DEF RingInv, SeriesTypes
  <1>2. PICK p \in PointsMade : p = held[w] BY <1>1
  <1>3. PICK h \in RingSlots : h = IF head + 1 >= Capacity THEN 0 ELSE head + 1
    BY <1>1 DEF RingSlots
  <1>4. /\ points' = [points EXCEPT ![head] = p] /\ head' = h /\ count' = count + 1
        /\ stored' = Append(stored, p) /\ UNCHANGED <<ready, clock>>
        /\ held' = [held EXCEPT ![w] = NoPoint] /\ held[w] # NoPoint
    BY <1>2, <1>3 DEF Store
  <1>5. NoPoint \in PointsMade BY DEF NoPoint, PointsMade
  <1>6. /\ Len(stored') = count + 1 /\ stored'[count + 1] = p /\ stored' \in Seq(PointsMade)
        /\ \A i \in 1 .. count : stored'[i] = stored[i]
    BY <1>1, <1>4
  <1>7. SeriesTypes' BY <1>1, <1>4, <1>5, <1>6 DEF RingInv, SeriesTypes, RingSlots
  <1>8. ready' BY <1>4 DEF RingInv, SeriesTypes
  <1>9. /\ count < Capacity => head = count
        /\ count = Capacity => head = 0
    BY DEF RingInv
  <1>10. /\ count' < Capacity => head' = count'
         /\ count' = Capacity => head' = 0
    BY <1>1, <1>3, <1>4, <1>9 DEF RingSlots
  <1>11. ASSUME NEW d \in 1 .. Capacity, d <= count + 1, NEW slot,
                slot = IF d <= h THEN h - d ELSE h - d + Capacity
         PROVE  points'[slot] = stored'[count + 1 - d + 1]
    <2>1. CASE d = 1
      <3>1. slot = head BY <1>1, <1>3, <1>11, <2>1 DEF RingSlots
      <3>2. points'[slot] = p BY <1>1, <1>4, <3>1
      <3> QED BY <1>1, <1>6, <2>1, <3>2
    <2>2. CASE d # 1
      <3>1. d - 1 \in 1 .. Capacity /\ d - 1 <= count BY <1>1, <1>11, <2>2
      <3>2. points[Behind(d - 1)] = stored[count - (d - 1) + 1] BY <3>1 DEF RingInv
      <3>3. slot = Behind(d - 1) /\ slot \in RingSlots /\ slot # head
        BY <1>1, <1>3, <1>11, <2>2 DEF RingSlots, Behind
      <3>4. points'[slot] = points[slot] BY <1>1, <1>4, <3>3
      <3>5. count + 1 - d + 1 = count - (d - 1) + 1 /\ count - (d - 1) + 1 \in 1 .. count
        BY <1>1, <3>1
      <3> QED BY <1>6, <3>2, <3>3, <3>4, <3>5
    <2> QED BY <2>1, <2>2
  <1>12. \A d \in 1 .. Capacity : d <= count' => points'[Behind(d)'] = stored'[count' - d + 1]
    <2>1. \A d : Behind(d)' = IF d <= h THEN h - d ELSE h - d + Capacity BY <1>4 DEF Behind
    <2>2. count' = count + 1 BY <1>4
    <2> SUFFICES ASSUME NEW d \in 1 .. Capacity, d <= count'
                 PROVE  points'[Behind(d)'] = stored'[count' - d + 1]
      OBVIOUS
    <2>3. PICK slot : slot = IF d <= h THEN h - d ELSE h - d + Capacity OBVIOUS
    <2>4. Behind(d)' = slot BY <2>1, <2>3
    <2>5. d <= count + 1 BY <2>2
    <2>6. points'[slot] = stored'[count + 1 - d + 1] BY <1>11, <2>3, <2>5
    <2>7. count' - d + 1 = count + 1 - d + 1 BY <1>1, <2>2
    <2>8. points'[slot] = stored'[count' - d + 1] BY <2>6, <2>7
    <2> QED BY <2>4, <2>8
  <1> QED BY <1>7, <1>8, <1>10, <1>12 DEF RingInv

\* A change of what the writers hold leaves the ring alone.
LEMMA HeldStep ==
  ASSUME RingInv, held' \in [Writers -> PointsMade], clock' \in Nat,
         ready \/ \A w \in Writers : held'[w] = NoPoint,
         UNCHANGED <<ready, points, head, count, stored>>
  PROVE  RingInv'
  <1>1. SeriesTypes' BY DEF RingInv, SeriesTypes, RingSlots
  <1> QED BY <1>1 DEF RingInv, Behind

\* Every operation of the ring.
LEMMA SeriesKeepsRing ==
  ASSUME RingInv, NEW reading, SeriesStep \/ SeriesFork(reading)
  PROVE  RingInv'
  <1>0. NoPoint \in PointsMade BY DEF NoPoint, PointsMade
  <1>1. CASE TsInit
    <2>1. stored = <<>> /\ Len(stored) = 0 /\ \A w \in Writers : held[w] = NoPoint
      BY <1>1 DEF TsInit, RingInv
    <2>2. SeriesTypes'
      BY <1>0, <1>1, <2>1, TimeSeriesConstants DEF TsInit, RingInv, SeriesTypes, RingSlots
    <2> QED BY <1>1, <2>1, <2>2, TimeSeriesConstants DEF TsInit, RingInv
  <1>2. ASSUME NEW w \in Writers, Capture(w) PROVE RingInv'
    <2>1. clock + 1 \in Nat BY DEF RingInv, SeriesTypes
    <2>2. [at |-> clock + 1, by |-> w] \in PointsMade BY <2>1 DEF PointsMade
    <2>3. held' = [held EXCEPT ![w] = [at |-> clock + 1, by |-> w]] /\ clock' = clock + 1
      BY <1>2 DEF Capture
    <2>4. held' \in [Writers -> PointsMade] BY <2>2, <2>3 DEF RingInv, SeriesTypes
    <2> QED BY <1>2, <2>1, <2>3, <2>4, HeldStep DEF Capture
  <1>3. CASE SeriesFork(reading)
    <2>1. held' \in [Writers -> PointsMade] /\ \A w \in Writers : held'[w] = NoPoint
      BY <1>0, <1>3 DEF SeriesFork
    <2>2. clock' \in Nat BY <1>3 DEF SeriesFork, RingInv, SeriesTypes
    <2> QED BY <1>3, <2>1, <2>2, HeldStep DEF SeriesFork
  <1> QED BY <1>1, <1>2, <1>3, StoreStep DEF SeriesStep

\* What a range of the ring holds, element by element.
LEMMA RangeElements ==
  ASSUME RingInv, NEW from \in 0 .. Capacity, NEW max \in 1 .. Capacity + 1
  PROVE  GetRange(from, max) = SubSeq(Window, from + 1, Min({from + max, Len(Window)}))
  <1>1. /\ count \in Nat /\ count = Len(stored) /\ head \in RingSlots
        /\ Capacity \in Nat \ {0} /\ stored \in Seq(PointsMade) /\ from \in Nat /\ max \in Nat
        /\ head \in Nat /\ head < Capacity
    BY TimeSeriesConstants DEF RingInv, SeriesTypes, RingSlots
  <1>2. PICK v \in Nat : v = IF count <= Capacity THEN count ELSE Capacity BY <1>1
  <1>3. Min({Len(stored), Capacity}) = v BY <1>1, <1>2, MinOfTwo
  <1>4. /\ Window \in Seq(PointsMade) /\ Len(Window) = v
        /\ \A i \in 1 .. v : Window[i] = stored[count - v + i]
    <2>c. count \in Nat /\ v \in Nat BY <1>1
    <2>0. PICK lo \in Int : lo = count - v + 1 BY <2>c
    <2>1. \A i \in lo .. count : stored[i] \in PointsMade BY <1>1, <1>2, <2>0
    <2>2. Window = SubSeq(stored, lo, count) BY <1>1, <1>3, <2>0 DEF Window
    <2>3. count \in Int BY <1>1
    <2>4. /\ SubSeq(stored, lo, count) \in Seq(PointsMade)
          /\ Len(SubSeq(stored, lo, count)) = IF lo <= count THEN count - lo + 1 ELSE 0
          /\ \A i \in 1 .. count - lo + 1 : SubSeq(stored, lo, count)[i] = stored[lo + i - 1]
      BY <2>1, <2>3, SubSeqProperties
    <2>5. count - lo + 1 = v BY <1>1, <1>2, <2>0
    <2>6. v = IF lo <= count THEN count - lo + 1 ELSE 0 BY <1>1, <1>2, <2>0
    <2>7. ASSUME NEW i \in 1 .. v PROVE SubSeq(stored, lo, count)[i] = stored[count - v + i]
      <3>1. lo + i - 1 = count - v + i BY <1>1, <1>2, <2>0
      <3> QED BY <2>4, <2>5, <3>1
    <2> QED BY <2>2, <2>4, <2>6, <2>7
  <1>5. PICK m \in Nat : m = Min({max, IF from < v THEN v - from ELSE 0})
    BY <1>1, <1>2, MinOfTwo
  <1>6. /\ m = IF from >= v THEN 0 ELSE IF max <= v - from THEN max ELSE v - from
    BY <1>1, <1>2, <1>5, MinOfTwo
  <1>7. PICK e \in Int : e = Min({from + max, v}) BY <1>1, <1>2, MinOfTwo
  <1>8. e = IF from + max <= v THEN from + max ELSE v
    BY <1>1, <1>2, <1>7, MinOfTwo
  <1>9. /\ SubSeq(Window, from + 1, e) \in Seq(PointsMade)
        /\ Len(SubSeq(Window, from + 1, e)) = m
        /\ \A k \in 1 .. m : SubSeq(Window, from + 1, e)[k] = stored[count - v + from + k]
    <2>1. \A i \in from + 1 .. e : Window[i] \in PointsMade BY <1>1, <1>2, <1>4, <1>8
    <2>2. from + 1 \in Int BY <1>1
    <2>3. /\ SubSeq(Window, from + 1, e) \in Seq(PointsMade)
          /\ Len(SubSeq(Window, from + 1, e)) = IF from + 1 <= e THEN e - (from + 1) + 1 ELSE 0
          /\ \A i \in 1 .. e - (from + 1) + 1 :
               SubSeq(Window, from + 1, e)[i] = Window[from + 1 + i - 1]
      BY <2>1, <2>2, SubSeqProperties
    <2>4. m = IF from + 1 <= e THEN e - (from + 1) + 1 ELSE 0 BY <1>1, <1>2, <1>6, <1>8
    <2>5. ASSUME NEW k \in 1 .. m
          PROVE  SubSeq(Window, from + 1, e)[k] = stored[count - v + from + k]
      <3>1. k \in 1 .. e - (from + 1) + 1 /\ from + k \in 1 .. v /\ from + 1 + k - 1 = from + k
        <4>1. k \in Nat /\ k >= 1 /\ k <= m OBVIOUS
        <4> QED BY <1>1, <1>2, <1>8, <2>4, <4>1
      <3>2. Window[from + k] = stored[count - v + (from + k)] BY <1>4, <3>1
      <3>3. count - v + (from + k) = count - v + from + k BY <1>1, <1>2
      <3> QED BY <2>3, <3>1, <3>2, <3>3
    <2> QED BY <2>3, <2>4, <2>5
  <1>10. ASSUME NEW k \in 1 .. m
         PROVE  (IF count <= Capacity THEN points[from + k - 1]
                 ELSE points[(head + from + k - 1) % Capacity]) = stored[count - v + from + k]
    <2> DEFINE d == v - from - k + 1
    <2>1. d \in 1 .. Capacity /\ d <= count /\ from + k <= v BY <1>1, <1>2, <1>6
    <2>2. points[Behind(d)] = stored[count - d + 1] BY <2>1 DEF RingInv
    <2>k. k \in Nat OBVIOUS
    <2>3. count - d + 1 = count - v + from + k BY <1>1, <1>2
    <2>4. CASE count <= Capacity
      <3>1. Behind(d) = from + k - 1
        <4>1. /\ count < Capacity => head = count
              /\ count = Capacity => head = 0
          BY DEF RingInv
        <4> QED BY <1>1, <1>2, <2>1, <2>4, <2>k, <4>1 DEF Behind
      <3> QED BY <2>2, <2>3, <2>4, <3>1
    <2>5. CASE count > Capacity
      <3>1. PICK x \in Nat : x = head + from + k - 1 BY <1>1, <2>k
      <3>2. x < 2 * Capacity /\ v = Capacity BY <1>1, <1>2, <2>1, <2>5, <2>k, <3>1
      <3>3. x % Capacity = IF x < Capacity THEN x ELSE x - Capacity
        BY <1>1, <3>2, OneWrap
      <3>5. Behind(d) = IF x < Capacity THEN x ELSE x - Capacity
        BY <1>1, <2>k, <3>1, <3>2 DEF Behind
      <3>4. ~(count <= Capacity) BY <1>1, <2>5
      <3> QED BY <2>2, <2>3, <3>1, <3>3, <3>4, <3>5
    <2> QED BY <1>1, <2>4, <2>5
  <1>11. GetRange(from, max) =
           [k \in 1 .. m |-> IF count <= Capacity THEN points[from + k - 1]
                             ELSE points[(head + from + k - 1) % Capacity]]
    <2>1. CASE count <= Capacity BY <1>2, <1>5, <2>1 DEF GetRange
    <2>2. CASE ~(count <= Capacity) BY <1>2, <1>5, <2>2 DEF GetRange
    <2> QED BY <2>1, <2>2
  <1>12. GetRange(from, max) = [k \in 1 .. m |-> stored[count - v + from + k]]
    BY <1>10, <1>11
  <1>13. SubSeq(Window, from + 1, e) = [k \in 1 .. m |-> stored[count - v + from + k]]
    <2>1. PICK q : q = SubSeq(Window, from + 1, e) OBVIOUS
    <2>2. q \in Seq(PointsMade) /\ Len(q) = m /\ \A k \in 1 .. m : q[k] = stored[count - v + from + k]
      BY <1>9, <2>1
    <2>3. q = [k \in 1 .. Len(q) |-> q[k]] BY <2>2
    <2> QED BY <2>1, <2>2, <2>3
  <1> QED BY <1>4, <1>7, <1>12, <1>13

\* The ring holds the last points in every state of the server, whatever else
\* the process does.
THEOREM RingInvariant == Spec => []RingInv
  <1>1. Init => RingInv
    <2>1. NoPoint \in PointsMade BY DEF NoPoint, PointsMade
    <2> SUFFICES ASSUME SeriesInit PROVE RingInv BY DEF Init
    <2>2. SeriesTypes
      BY <2>1, TimeSeriesConstants DEF SeriesInit, SeriesTypes, RingSlots
    <2>3. /\ head = 0 /\ count = 0 /\ stored = <<>>
          /\ \A w \in Writers : held[w] = NoPoint
      BY DEF SeriesInit
    <2> QED BY <2>2, <2>3, TimeSeriesConstants DEF RingInv
  <1>2. RingInv /\ [Next]_vars => RingInv'
    <2> SUFFICES ASSUME RingInv, [Next]_vars PROVE RingInv' OBVIOUS
    <2>1. CASE UNCHANGED seriesVars
      BY <2>1 DEF seriesVars, RingInv, SeriesTypes, RingSlots, Behind
    <2>2. CASE Points BY <2>2, SeriesKeepsRing DEF Points
    <2>3. CASE Fork BY <2>3, SeriesKeepsRing DEF Fork
    <2>4. CASE UNCHANGED vars BY <2>1, <2>4 DEF vars
    <2>5. CASE StartStep
      BY <2>1, <2>5 DEF StartStep, StartSocket, StartBind, StartNext, StartListen, StartRun,
                        StartFrame
    <2>6. CASE HttpStep
      BY <2>1, <2>6 DEF HttpStep, HttpLoop, HttpPoll, HttpAccept, HttpRecv, HttpSeries, HttpLock,
                        HttpSite, HttpResolve, HttpUnlock, HttpClose, HttpFrame
    <2>7. CASE StopFlag \/ StopStep
      BY <2>1, <2>7 DEF StopFlag, StopStep, StopClose, StopClear, StopFree, ExitFrame
    <2>8. CASE \/ Connect \/ SlowClient \/ ProgramOpen
               \/ (\E f \in Fds : ProgramClose(f)) \/ (\E p \in Ports : Release(p))
      BY <2>1, <2>8 DEF Connect, SlowClient, ProgramOpen, ProgramClose, Release, WorldFrame
    <2>9. CASE ScanStarts \/ Scan BY <2>1, <2>9 DEF ScanStarts, Scan
    <2> QED BY <2>2, <2>3, <2>4, <2>5, <2>6, <2>7, <2>8, <2>9 DEF Next
  <1> QED BY <1>1, <1>2, PTL DEF Spec

\* mtt_ts_get_range answers with the part of the last points that was asked for,
\* oldest first, before and after the ring wraps and in a child
\* (time_series.c:148-176), for every capacity.
THEOREM RangesAreWindows == Spec => []RangeIsWindow
  <1>1. RingInv => RangeIsWindow BY RangeElements DEF RangeIsWindow
  <1> QED BY <1>1, RingInvariant, PTL

-----------------------------------------------------------------------------
(* The stack cache.                                                        *)

Symbols == [of : Frames \cup {NoFrame}, fixed : BOOLEAN]

\* Between ResolveStart and ResolveEnd.
Naming == {"frame", "exe", "insert", "fill"}
CallType ==
  [pc : {"idle", "search", "check"} \cup Naming, stack : Stacks \cup {<<>>}, i : Nat,
   slot : 0 .. AddrSlots - 1]
ScanType ==
  [stage : {"none", "refresh", "series", "dedup", "safety", "pairs", "publish"},
   todo : SUBSET Stacks, first : SUBSET Stacks, pairs : SUBSET Stacks]
HttpType ==
  [pc : {"none", "loop", "poll", "accept", "recv", "series", "lock", "sites", "close", "ended"},
   fd : Fds \cup {-1}, tries : Nat, todo : SUBSET Stacks]

CacheTypes ==
  /\ entries \subseteq Stacks /\ IsFiniteSet(entries)
  /\ is_resolved \in [Stacks -> BOOLEAN]
  /\ DOMAIN resolved = Stacks /\ \A s \in Stacks : resolved[s] \in [DOMAIN s -> Symbols]
  /\ addr_cache \in [0 .. AddrSlots - 1 -> [addr : Nat, symbol : Symbols]]
  /\ non_pie \in {-1, 0, 1}
  /\ call \in [Resolvers -> CallType] /\ scan \in ScanType /\ http \in HttpType
  /\ cached_pairs \subseteq Stacks /\ failed \in Nat /\ raced \in BOOLEAN /\ torn \in BOOLEAN
  /\ \A r \in Resolvers :
       /\ call[r].pc # "idle" => call[r].stack \in Stacks
       /\ call[r].pc = "frame" => call[r].i >= 1
       /\ call[r].pc \in {"exe", "insert", "fill"} => call[r].i \in DOMAIN call[r].stack

\* While two threads never resolve at once and no fork copies a symbol half
\* written, one thread at most is naming, what it has named so far is right,
\* and so is every symbol of the address table but the one it is writing.
NamingInv(r) ==
  LET c == call[r]
  IN /\ ~is_resolved[c.stack]
     /\ \A o \in Resolvers \ {r} : call[o].pc \notin Naming
     /\ \A j \in DOMAIN c.stack : j < c.i => resolved[c.stack][j] = RightName(c.stack[j])
     /\ c.pc \in {"insert", "fill"} => resolved[c.stack][c.i] = RightName(Frame(r))
     /\ c.pc = "fill" => addr_cache[c.slot].addr = Frame(r)
     /\ c.pc = "exe" => non_pie # -1

SymbolInv ==
  ~raced /\ ~torn =>
    /\ \A s \in Stacks : is_resolved[s] =>
         \A i \in DOMAIN s : resolved[s][i] = RightName(s[i])
    /\ \A r \in Resolvers : call[r].pc \in Naming => NamingInv(r)
    /\ non_pie = -1 \/ non_pie = (IF NonPie THEN 1 ELSE 0)
         \/ \E r \in Resolvers : call[r].pc = "exe"
    /\ \A n \in 0 .. AddrSlots - 1 :
         \/ addr_cache[n].addr = NoFrame
         \/ addr_cache[n].symbol = RightName(addr_cache[n].addr)
         \/ \E r \in Resolvers : call[r].pc = "fill" /\ call[r].slot = n

\* While no entry failed to be allocated: a site that has been looked up is
\* resolved, or has no entry because the table was full, and still is.
LookedUp(s) ==
  \/ s \in entries /\ is_resolved[s]
  \/ s \notin entries /\ Cardinality(entries) >= CacheSize

LookupInv ==
  LET c == call["scan"]
  IN /\ c.pc = "search" => c.stack \in scan.todo
     /\ c.pc \notin {"idle", "search"} => c.stack \in entries
     /\ c.pc \notin {"idle", "search"} => scan.stage \in {"dedup", "safety"}
     /\ c.pc # "idle" => scan.stage \in {"dedup", "safety", "pairs"}
     /\ scan.stage = "dedup" => \A s \in scan.first \ scan.todo :
          LookedUp(s) \/ (c.pc # "idle" /\ c.stack = s)
     /\ scan.stage \in {"safety", "pairs"} =>
          scan.todo \subseteq scan.first /\ \A s \in scan.first : LookedUp(s)

ResolvedInv ==
  failed = 0 =>
    /\ LookupInv
    /\ \A s \in scan.pairs \cup cached_pairs \cup http.todo : is_resolved[s]
    /\ call["http"].pc = "idle"

\* A set of numbers that is not empty has a least one.
LEMMA LeastElement ==
  ASSUME NEW S \in SUBSET Nat, S # {}
  PROVE  Min(S) \in S /\ \A y \in S : Min(S) <= y
  <1> DEFINE T == {0 .. n : n \in S}
             R == StrictSubsetOrdering(Nat)
  <1>1. IsWellFoundedOn(R, FiniteSubsetsOf(Nat)) BY FS_StrictSubsetOrderingWellFounded
  <1>2. T \subseteq FiniteSubsetsOf(Nat)
    <2>1. ASSUME NEW n \in S PROVE IsFiniteSet(0 .. n) /\ 0 .. n \subseteq Nat
      BY FS_Interval
    <2> QED BY <2>1 DEF FiniteSubsetsOf
  <1>3. T # {} OBVIOUS
  <1>4. \E x \in T : \A y \in T : ~(<<y, x>> \in R)
    <2> HIDE DEF T, R
    <2> QED BY <1>1, <1>2, <1>3, WFMin
  <1>5. PICK m \in S : \A y \in T : ~(<<y, 0 .. m>> \in R) BY <1>4
  <1>6. \A k \in S : m <= k
    <2> SUFFICES ASSUME NEW k \in S, k < m PROVE FALSE OBVIOUS
    <2>1. 0 .. k \subseteq 0 .. m /\ 0 .. k # 0 .. m /\ 0 .. k \subseteq Nat /\ 0 .. m \subseteq Nat
      <3>1. m \in 0 .. m /\ m \notin 0 .. k OBVIOUS
      <3> QED BY <3>1
    <2>2. <<0 .. k, 0 .. m>> \in R BY <2>1 DEF StrictSubsetOrdering
    <2> QED BY <1>5, <2>2
  <1> DEFINE P(x) == x \in S /\ \A y \in S : x <= y
  <1>7. P(m) BY <1>6
  <1>8. P(CHOOSE x : P(x)) BY <1>7
  <1>9. Min(S) = CHOOSE x \in S : \A y \in S : x <= y BY DEF Min
  <1>10. \E x \in S : \A y \in S : x <= y BY <1>6
  <1> QED BY <1>9, <1>10

\* The slots that are probed for an address are slots of the table, so is the
\* one that an insertion takes; a hit is the address's own.
LEMMA ProbedSlots ==
  ASSUME NEW a \in Frames
  PROVE  /\ \A n \in 1 .. Probes : Probe(a)[n] \in 0 .. AddrSlots - 1
         /\ Slot(a) \in 0 .. AddrSlots - 1
         /\ Hits(a) # {} => /\ Probe(a)[Min(Hits(a))] \in 0 .. AddrSlots - 1
                            /\ addr_cache[Probe(a)[Min(Hits(a))]].addr = a
  <1>1. /\ Bucket[a] \in 0 .. AddrSlots - 1 /\ AddrSlots \in Nat \ {0} /\ Probes \in 1 .. AddrSlots
    BY StackCacheConstants
  <1>2. ASSUME NEW n \in 1 .. Probes PROVE Probe(a)[n] \in 0 .. AddrSlots - 1
    <2>1. Probe(a)[n] = (Bucket[a] + n - 1) % AddrSlots BY DEF Probe
    <2>2. PICK x \in Nat : x = Bucket[a] + n - 1 BY <1>1
    <2>3. x % AddrSlots \in 0 .. AddrSlots - 1 BY <1>1
    <2> QED BY <2>1, <2>2, <2>3
  <1>3. Slot(a) \in 0 .. AddrSlots - 1
    <2> DEFINE usable == {n \in 1 .. Probes : addr_cache[Probe(a)[n]].addr \in {NoFrame, a}}
    <2>1. CASE usable = {} BY <1>1, <2>1 DEF Slot
    <2>2. CASE usable # {}
      <3>1. usable \in SUBSET Nat /\ usable \subseteq 1 .. Probes BY <1>1
      <3>2. Min(usable) \in 1 .. Probes
        <4> HIDE DEF usable
        <4> QED BY <2>2, <3>1, LeastElement
      <3>3. Slot(a) = Probe(a)[Min(usable)] BY <2>2 DEF Slot
      <3> QED BY <1>2, <3>2, <3>3
    <2> QED BY <2>1, <2>2
  <1>4. ASSUME Hits(a) # {}
        PROVE  /\ Probe(a)[Min(Hits(a))] \in 0 .. AddrSlots - 1
               /\ addr_cache[Probe(a)[Min(Hits(a))]].addr = a
    <2>1. Hits(a) \in SUBSET Nat /\ Hits(a) \subseteq 1 .. Probes BY <1>1 DEF Hits
    <2>2. Min(Hits(a)) \in Hits(a) BY <1>4, <2>1, LeastElement
    <2> QED BY <1>2, <2>1, <2>2 DEF Hits
  <1> QED BY <1>2, <1>3, <1>4

\* The frame a resolution is at is one of the program's, and not the value that
\* marks an empty slot.
LEMMA FrameIsFrame ==
  ASSUME NEW s \in Stacks, NEW i \in DOMAIN s
  PROVE  s[i] \in Frames /\ s[i] # NoFrame /\ s[i] \in Nat
  <1>1. s[i] \in Frames BY DEF Frames
  <1>2. NoFrame \notin {s[j] : j \in DOMAIN s} BY StackCacheConstants
  <1>3. s \in Seq(Nat) BY StackCacheConstants
  <1> QED BY <1>1, <1>2, <1>3

\* The symbol of a frame.
LEMMA NameType ==
  ASSUME NEW a \in Frames, NEW fixed
  PROVE  Name(a, fixed) \in Symbols /\ NoSymbol \in Symbols
  BY DEF Name, Symbols, NoSymbol

\* CacheTypes for one call.
CallFits(c) ==
  /\ c \in CallType
  /\ c.pc # "idle" => c.stack \in Stacks
  /\ c.pc = "frame" => c.i >= 1
  /\ c.pc \in {"exe", "insert", "fill"} => c.i \in DOMAIN c.stack

\* No resolution under way is of the type of a call, and idle.
LEMMA NoCallFits == CallFits(NoCall) /\ NoCall.pc = "idle"
  BY StackCacheConstants DEF CallFits, NoCall, CallType

\* No thread and no scan under way are of their types.
LEMMA NoHttpType == NoHttp \in HttpType /\ NoScan \in ScanType
  BY DEF NoHttp, HttpType, NoScan, ScanType

\* The frame that a resolution is at, while it has one.
LEMMA FrameAt ==
  ASSUME CacheTypes, NEW r \in Resolvers,
         \/ call[r].pc \in {"exe", "insert", "fill"}
         \/ call[r].pc = "frame" /\ call[r].i <= Len(call[r].stack)
  PROVE  /\ call[r].stack \in Stacks /\ call[r].stack \in Seq(Nat)
         /\ call[r].i \in DOMAIN call[r].stack /\ call[r].i \in Nat
         /\ DOMAIN call[r].stack = 1 .. Len(call[r].stack)
         /\ Frame(r) \in Frames /\ Frame(r) # NoFrame /\ Frame(r) \in Nat
  <1>1. call[r] \in CallType /\ call[r].stack \in Stacks BY DEF CacheTypes, CallType
  <1>2. call[r].stack \in Seq(Nat) BY <1>1, StackCacheConstants
  <1>3. DOMAIN call[r].stack = 1 .. Len(call[r].stack) /\ Len(call[r].stack) \in Nat BY <1>2
  <1>4. call[r].i \in Nat BY <1>1 DEF CallType
  <1>5. call[r].i \in DOMAIN call[r].stack BY <1>3, <1>4 DEF CacheTypes
  <1> QED BY <1>1, <1>2, <1>3, <1>4, <1>5, FrameIsFrame DEF Frame

\* A symbol is written over one frame of the entry.
LEMMA SetNameEffect ==
  ASSUME CacheTypes, NEW r \in Resolvers, NEW sym \in Symbols, call[r].stack \in Stacks,
         call[r].i \in DOMAIN call[r].stack, SetName(r, sym)
  PROVE  /\ DOMAIN resolved' = Stacks /\ \A s \in Stacks : resolved'[s] \in [DOMAIN s -> Symbols]
         /\ resolved'[call[r].stack][call[r].i] = sym
         /\ \A s \in Stacks : \A j \in DOMAIN s :
              s # call[r].stack \/ j # call[r].i => resolved'[s][j] = resolved[s][j]
  <1>1. PICK s \in Stacks : s = call[r].stack OBVIOUS
  <1>2. PICK i \in DOMAIN s : i = call[r].i BY <1>1
  <1>3. resolved' = [resolved EXCEPT ![s] = [resolved[s] EXCEPT ![i] = sym]]
    BY <1>1, <1>2 DEF SetName
  <1>4. DOMAIN resolved = Stacks /\ \A u \in Stacks : resolved[u] \in [DOMAIN u -> Symbols]
    BY DEF CacheTypes
  <1>5. /\ resolved'[s] = [resolved[s] EXCEPT ![i] = sym]
        /\ \A u \in Stacks : u # s => resolved'[u] = resolved[u]
        /\ DOMAIN resolved' = Stacks
    BY <1>3, <1>4
  <1>6. resolved'[s] \in [DOMAIN s -> Symbols] BY <1>4, <1>5
  <1> QED BY <1>1, <1>2, <1>4, <1>5, <1>6

\* What a step of thread r's call has to respect for the types.
LEMMA TypesKept ==
  ASSUME CacheTypes, NEW r \in Resolvers, NEW d, CallFits(d), call' = [call EXCEPT ![r] = d],
         entries' \subseteq Stacks /\ IsFiniteSet(entries'),
         is_resolved' \in [Stacks -> BOOLEAN],
         DOMAIN resolved' = Stacks /\ \A s \in Stacks : resolved'[s] \in [DOMAIN s -> Symbols],
         addr_cache' \in [0 .. AddrSlots - 1 -> [addr : Nat, symbol : Symbols]],
         non_pie' \in {-1, 0, 1}, scan' \in ScanType, http' \in HttpType,
         cached_pairs' \subseteq Stacks, failed' \in Nat, raced' \in BOOLEAN, torn' \in BOOLEAN
  PROVE  CacheTypes'
  <1>1. call' \in [Resolvers -> CallType] BY DEF CacheTypes, CallFits
  <1>2. \A o \in Resolvers : CallFits(call'[o]) BY DEF CacheTypes, CallFits
  <1> QED BY <1>1, <1>2 DEF CacheTypes, CallFits

\* mtt_stack_resolve keeps the types.
LEMMA ResolveTypes ==
  ASSUME CacheTypes, NEW r \in Resolvers, ResolveStep(r), UNCHANGED http
  PROVE  CacheTypes'
  <1>0. /\ call[r] \in CallType /\ entries \subseteq Stacks /\ IsFiniteSet(entries)
        /\ is_resolved \in [Stacks -> BOOLEAN] /\ scan \in ScanType /\ http \in HttpType
        /\ DOMAIN resolved = Stacks /\ \A s \in Stacks : resolved[s] \in [DOMAIN s -> Symbols]
        /\ addr_cache \in [0 .. AddrSlots - 1 -> [addr : Nat, symbol : Symbols]]
        /\ non_pie \in {-1, 0, 1} /\ cached_pairs \subseteq Stacks /\ failed \in Nat
        /\ raced \in BOOLEAN /\ torn \in BOOLEAN
    BY DEF CacheTypes
  <1>f. CallFits(call[r]) BY DEF CacheTypes, CallFits
  <1>1. CASE ResolveStart(r)
    <2>1. PICK d : d = IF is_resolved[call[r].stack] THEN NoCall
                       ELSE [call[r] EXCEPT !.pc = "frame", !.i = 1]
      OBVIOUS
    <2>2. CallFits(d)
      <3>1. CASE is_resolved[call[r].stack] BY <2>1, <3>1, NoCallFits
      <3>2. CASE ~is_resolved[call[r].stack]
        <4>1. call[r].pc = "check" BY <1>1 DEF ResolveStart
        <4>2. d = [call[r] EXCEPT !.pc = "frame", !.i = 1] BY <2>1, <3>2
        <4>3. d \in CallType /\ d.pc = "frame" /\ d.i = 1 /\ d.stack = call[r].stack
          <5>1. call[r] \in CallType BY <1>0
          <5> QED BY <4>2, <5>1 DEF CallType, Naming
        <4>4. call[r].stack \in Stacks BY <1>f, <4>1 DEF CallFits
        <4> HIDE DEF CallType
        <4> QED BY <4>3, <4>4 DEF CallFits
      <3> QED BY <3>1, <3>2
    <2>3. call' = [call EXCEPT ![r] = d] BY <1>1, <2>1 DEF ResolveStart
    <2>4. raced' \in BOOLEAN BY <1>1 DEF ResolveStart
    <2>5. UNCHANGED <<entries, symbolVars, stack_lock, scanVars, failed, torn>>
      BY <1>1 DEF ResolveStart
    <2> QED BY <1>0, <2>2, <2>3, <2>4, <2>5, TypesKept DEF symbolVars, scanVars
  <1>2. CASE FrameHit(r)
    <2>1. call[r].pc = "frame" /\ call[r].i <= Len(call[r].stack) /\ Hits(Frame(r)) # {}
      BY <1>2 DEF FrameHit
    <2>2. PICK sym : sym = addr_cache[Probe(Frame(r))[Min(Hits(Frame(r)))]].symbol OBVIOUS
    <2>3. sym \in Symbols BY <1>0, <2>1, <2>2, FrameAt, ProbedSlots
    <2>4. SetName(r, sym) BY <1>2, <2>2 DEF FrameHit
    <2>5. DOMAIN resolved' = Stacks /\ \A s \in Stacks : resolved'[s] \in [DOMAIN s -> Symbols]
      BY <2>1, <2>3, <2>4, FrameAt, SetNameEffect
    <2>6. PICK d : d = [call[r] EXCEPT !.i = @ + 1] OBVIOUS
    <2>7. CallFits(d) BY <1>f, <2>1, <2>6 DEF CallFits, CallType
    <2>8. call' = [call EXCEPT ![r] = d] BY <1>2, <2>6 DEF FrameHit
    <2>9. UNCHANGED <<entries, is_resolved, addr_cache, non_pie, stack_lock, scanVars,
                      failed, raced, torn>>
      BY <1>2 DEF FrameHit
    <2> QED BY <1>0, <2>5, <2>7, <2>8, <2>9, TypesKept DEF scanVars
  <1>3. CASE FrameMiss(r)
    <2>1. call[r].pc = "frame" /\ call[r].i <= Len(call[r].stack) BY <1>3 DEF FrameMiss
    <2>2. PICK lab \in {"exe", "insert"}, sym \in Symbols :
            SetName(r, sym) /\ To(r, lab) /\ non_pie' \in {-1, 0, 1}
      BY <1>0, <1>3, <2>1, FrameAt, NameType DEF FrameMiss
    <2>3. DOMAIN resolved' = Stacks /\ \A s \in Stacks : resolved'[s] \in [DOMAIN s -> Symbols]
      BY <2>1, <2>2, FrameAt, SetNameEffect
    <2>4. PICK d : d = [call[r] EXCEPT !.pc = lab] OBVIOUS
    <2>5. CallFits(d) BY <1>f, <2>1, <2>4, FrameAt DEF CallFits, CallType, Naming
    <2>6. call' = [call EXCEPT ![r] = d] BY <2>2, <2>4 DEF To
    <2>7. UNCHANGED <<entries, is_resolved, addr_cache, stack_lock, scanVars, failed, raced, torn>>
      BY <1>3 DEF FrameMiss
    <2> QED BY <1>0, <2>2, <2>3, <2>5, <2>6, <2>7, TypesKept DEF scanVars
  <1>4. CASE ReadExe(r)
    <2>1. call[r].pc = "exe" BY <1>4 DEF ReadExe
    <2>2. PICK sym \in Symbols : SetName(r, sym)
      BY <1>4, <2>1, FrameAt, NameType DEF ReadExe
    <2>3. DOMAIN resolved' = Stacks /\ \A s \in Stacks : resolved'[s] \in [DOMAIN s -> Symbols]
      BY <2>1, <2>2, FrameAt, SetNameEffect
    <2>4. PICK d : d = [call[r] EXCEPT !.pc = "insert"] OBVIOUS
    <2>5. CallFits(d) BY <1>f, <2>1, <2>4 DEF CallFits, CallType, Naming
    <2>6. call' = [call EXCEPT ![r] = d] /\ non_pie' \in {0, 1} BY <1>4, <2>4 DEF ReadExe, To
    <2>7. UNCHANGED <<entries, is_resolved, addr_cache, stack_lock, scanVars, failed, raced, torn>>
      BY <1>4 DEF ReadExe
    <2> QED BY <1>0, <2>3, <2>5, <2>6, <2>7, TypesKept DEF scanVars
  <1>5. CASE InsertAddr(r)
    <2>1. call[r].pc = "insert" BY <1>5 DEF InsertAddr
    <2>2. PICK n \in 0 .. AddrSlots - 1 : n = Slot(Frame(r)) BY <2>1, FrameAt, ProbedSlots
    <2>3. PICK d : d = [call[r] EXCEPT !.pc = "fill", !.slot = n] OBVIOUS
    <2>4. CallFits(d) BY <1>f, <2>1, <2>3 DEF CallFits, CallType, Naming
    <2>5. /\ call' = [call EXCEPT ![r] = d]
          /\ addr_cache' = [addr_cache EXCEPT ![n].addr = Frame(r)]
      BY <1>5, <2>2, <2>3 DEF InsertAddr
    <2>6. addr_cache' \in [0 .. AddrSlots - 1 -> [addr : Nat, symbol : Symbols]]
      BY <1>0, <2>1, <2>5, FrameAt
    <2>7. UNCHANGED <<entries, is_resolved, resolved, non_pie, stack_lock, scanVars, failed,
                      raced, torn>>
      BY <1>5 DEF InsertAddr
    <2> QED BY <1>0, <2>4, <2>5, <2>6, <2>7, TypesKept DEF scanVars
  <1>6. CASE InsertSymbol(r)
    <2>1. call[r].pc = "fill" BY <1>6 DEF InsertSymbol
    <2>2. PICK d : d = [call[r] EXCEPT !.pc = "frame", !.i = @ + 1] OBVIOUS
    <2>3. CallFits(d)
      <3>1. call[r].i \in Nat BY <1>0 DEF CallType
      <3>2. call[r].i >= 1 /\ call[r].stack \in Stacks
        <4>1. /\ call[r].i \in DOMAIN call[r].stack
              /\ DOMAIN call[r].stack = 1 .. Len(call[r].stack) /\ call[r].stack \in Stacks
          BY <2>1, FrameAt
        <4>2. call[r].i \in 1 .. Len(call[r].stack) BY <4>1
        <4> QED BY <4>1, <4>2
      <3>3. d \in CallType /\ d.pc = "frame" /\ d.i = call[r].i + 1 /\ d.stack = call[r].stack
        <4>1. call[r] \in CallType BY <1>0
        <4>2. call[r].i + 1 \in Nat BY <3>1
        <4> QED BY <2>2, <4>1, <4>2 DEF CallType, Naming
      <3> QED BY <3>1, <3>2, <3>3 DEF CallFits
    <2>4. /\ call' = [call EXCEPT ![r] = d]
          /\ addr_cache' = [addr_cache EXCEPT ![call[r].slot].symbol =
                              resolved[call[r].stack][call[r].i]]
      BY <1>6, <2>2 DEF InsertSymbol
    <2>5. resolved[call[r].stack][call[r].i] \in Symbols BY <1>0, <2>1, FrameAt
    <2>6. addr_cache' \in [0 .. AddrSlots - 1 -> [addr : Nat, symbol : Symbols]]
      <3>1. PICK y \in Symbols : y = resolved[call[r].stack][call[r].i] BY <2>5
      <3>2. PICK n : n = call[r].slot OBVIOUS
      <3>3. addr_cache' = [addr_cache EXCEPT ![n].symbol = y] BY <2>4, <3>1, <3>2
      <3> QED BY <1>0, <3>3
    <2>7. UNCHANGED <<entries, is_resolved, resolved, non_pie, stack_lock, scanVars, failed,
                      raced, torn>>
      BY <1>6 DEF InsertSymbol
    <2> QED BY <1>0, <2>3, <2>4, <2>6, <2>7, TypesKept DEF scanVars
  <1>7. CASE ResolveEnd(r)
    <2>1. call' = [call EXCEPT ![r] = NoCall] BY <1>7 DEF ResolveEnd
    <2>2. is_resolved' \in [Stacks -> BOOLEAN] BY <1>0, <1>7 DEF ResolveEnd
    <2>3. UNCHANGED <<entries, resolved, addr_cache, non_pie, stack_lock, scanVars, failed,
                      raced, torn>>
      BY <1>7 DEF ResolveEnd
    <2> QED BY <1>0, <2>1, <2>2, <2>3, NoCallFits, TypesKept DEF scanVars
  <1> QED BY <1>1, <1>2, <1>3, <1>4, <1>5, <1>6, <1>7 DEF ResolveStep

\* What a step of the one thread that is naming has to respect for the symbols.
LEMMA SymbolsKept ==
  ASSUME CacheTypes, SymbolInv, ~raced, ~torn, NEW r \in Resolvers, call[r].pc \in Naming,
         NEW d, call' = [call EXCEPT ![r] = d],
         \A s \in Stacks : is_resolved'[s] =>
           \A i \in DOMAIN s : resolved'[s][i] = RightName(s[i]),
         d.pc \in Naming =>
           /\ ~is_resolved'[d.stack]
           /\ \A j \in DOMAIN d.stack : j < d.i => resolved'[d.stack][j] = RightName(d.stack[j])
           /\ d.pc \in {"insert", "fill"} => resolved'[d.stack][d.i] = RightName(d.stack[d.i])
           /\ d.pc = "fill" => addr_cache'[d.slot].addr = d.stack[d.i]
           /\ d.pc = "exe" => non_pie' # -1,
         non_pie' = -1 \/ non_pie' = (IF NonPie THEN 1 ELSE 0) \/ d.pc = "exe",
         \A n \in 0 .. AddrSlots - 1 :
           \/ addr_cache'[n].addr = NoFrame
           \/ addr_cache'[n].symbol = RightName(addr_cache'[n].addr)
           \/ d.pc = "fill" /\ d.slot = n
  PROVE  SymbolInv'
  <1>1. call'[r] = d /\ \A o \in Resolvers : o # r => call'[o] = call[o] BY DEF CacheTypes
  <1>2. \A o \in Resolvers \ {r} : call[o].pc \notin Naming BY DEF SymbolInv, NamingInv
  <1>3. \A o \in Resolvers : call'[o].pc \in Naming => o = r BY <1>1, <1>2
  <1>4. ASSUME d.pc \in Naming PROVE NamingInv(r)'
    BY <1>1, <1>3, <1>4 DEF NamingInv, RightName, Name, Frame
  <1>5. \A o \in Resolvers : call'[o].pc \in Naming => NamingInv(o)'
    BY <1>1, <1>3, <1>4
  <1>6. /\ d.pc = "exe" => \E o \in Resolvers : call'[o].pc = "exe"
        /\ \A n : d.pc = "fill" /\ d.slot = n =>
             \E o \in Resolvers : call'[o].pc = "fill" /\ call'[o].slot = n
    BY <1>1
  <1> QED BY <1>5, <1>6 DEF SymbolInv, RightName, Name

\* mtt_stack_resolve names the frames of its entry right, through the table of
\* symbols by address and the flag of main_is_non_pie.
LEMMA ResolveSymbols ==
  ASSUME CacheTypes, SymbolInv, NEW r \in Resolvers, ResolveStep(r)
  PROVE  SymbolInv'
  <1> SUFFICES ASSUME ~raced', ~torn' PROVE SymbolInv' BY DEF SymbolInv
  <1>u. /\ raced \in BOOLEAN /\ call[r] \in CallType /\ is_resolved \in [Stacks -> BOOLEAN]
        /\ addr_cache \in [0 .. AddrSlots - 1 -> [addr : Nat, symbol : Symbols]]
        /\ AddrSlots \in Nat
    BY StackCacheConstants DEF CacheTypes
  <1>r. ~raced /\ ~torn
    BY <1>u DEF ResolveStep, ResolveStart, FrameHit, FrameMiss, ReadExe, InsertAddr, InsertSymbol,
                ResolveEnd
  <1>s. \A s \in Stacks : is_resolved[s] => \A i \in DOMAIN s : resolved[s][i] = RightName(s[i])
    BY <1>r DEF SymbolInv
  <1>p. non_pie = -1 \/ non_pie = (IF NonPie THEN 1 ELSE 0)
          \/ \E o \in Resolvers : call[o].pc = "exe"
    BY <1>r DEF SymbolInv
  <1>a. \A n \in 0 .. AddrSlots - 1 :
          \/ addr_cache[n].addr = NoFrame
          \/ addr_cache[n].symbol = RightName(addr_cache[n].addr)
          \/ \E o \in Resolvers : call[o].pc = "fill" /\ call[o].slot = n
    BY <1>r DEF SymbolInv
  <1>n. ASSUME call[r].pc \in Naming
        PROVE  /\ ~is_resolved[call[r].stack]
               /\ \A o \in Resolvers : o # r => call[o].pc \notin Naming
               /\ \A j \in DOMAIN call[r].stack : j < call[r].i =>
                    resolved[call[r].stack][j] = RightName(call[r].stack[j])
               /\ call[r].pc \in {"insert", "fill"} =>
                    resolved[call[r].stack][call[r].i] = RightName(Frame(r))
               /\ call[r].pc = "fill" => addr_cache[call[r].slot].addr = Frame(r)
    BY <1>r, <1>n DEF SymbolInv, NamingInv
  <1>i. call[r].i \in Nat BY <1>u DEF CallType
  <1>1. CASE ResolveStart(r)
    <2>0. /\ call[r].pc = "check" /\ UNCHANGED <<is_resolved, resolved, addr_cache, non_pie>>
      BY <1>1 DEF ResolveStart, symbolVars
    <2>o. \A o \in Resolvers : o # r => call'[o] = call[o] BY <1>1 DEF ResolveStart, CacheTypes
    <2>1. CASE is_resolved[call[r].stack]
      <3>1. call'[r].pc = "idle" BY <1>1, <2>1 DEF ResolveStart, CacheTypes, NoCall
      <3>2. \A o \in Resolvers : call'[o].pc \in Naming => o # r /\ call[o].pc \in Naming
        BY <2>o, <3>1 DEF Naming
      <3>3. \A o \in Resolvers : call[o].pc \in {"exe", "fill"} => o # r BY <2>0
      <3>4. ASSUME NEW o \in Resolvers, call'[o].pc \in Naming PROVE NamingInv(o)'
        <4>1. NamingInv(o) /\ call'[o] = call[o] BY <1>r, <2>o, <3>2, <3>4 DEF SymbolInv
        <4>2. \A q \in Resolvers \ {o} : call'[q].pc \notin Naming BY <3>2, <4>1 DEF NamingInv
        <4> QED BY <2>0, <4>1, <4>2 DEF NamingInv, RightName, Name, Frame
      <3>5. \A o \in Resolvers : call[o].pc \in {"exe", "fill"} => call'[o] = call[o]
        BY <2>o, <3>3
      <3> QED BY <1>s, <1>p, <1>a, <2>0, <3>4, <3>5 DEF SymbolInv, RightName, Name
    <2>2. CASE ~is_resolved[call[r].stack]
      <3>1. /\ call'[r].pc = "frame" /\ call'[r].i = 1 /\ call'[r].stack = call[r].stack
        <4>1. call' = [call EXCEPT ![r] = [call[r] EXCEPT !.pc = "frame", !.i = 1]]
          BY <1>1, <2>2 DEF ResolveStart
        <4> QED BY <1>u, <4>1 DEF CacheTypes, CallType
      <3>2. \A o \in Resolvers : o # r => call[o].pc \notin Naming
        <4>1. \A o \in Resolvers \ {r} : ~Resolving(o) BY <1>1, <2>2 DEF ResolveStart
        <4> QED BY <4>1 DEF Resolving, Naming
      <3>3. call[r].stack \in Stacks /\ call[r].stack \in Seq(Nat)
        BY <2>0, StackCacheConstants DEF CacheTypes
      <3>4. \A j \in DOMAIN call[r].stack : ~(j < 1) BY <3>3
      <3>5. NamingInv(r)'
        BY <2>0, <2>2, <2>o, <3>1, <3>2, <3>4 DEF NamingInv
      <3>6. \A o \in Resolvers : call'[o].pc \in Naming => NamingInv(o)' BY <2>o, <3>2, <3>5
      <3>7. \A o \in Resolvers : call[o].pc \notin {"exe", "fill"}
        BY <2>0, <3>2 DEF Naming
      <3> QED BY <1>s, <1>p, <1>a, <2>0, <3>6, <3>7 DEF SymbolInv, RightName, Name
    <2> QED BY <2>1, <2>2
  <1>2. CASE FrameHit(r)
    <2>0. call[r].pc = "frame" /\ call[r].i <= Len(call[r].stack) /\ Hits(Frame(r)) # {}
      BY <1>2 DEF FrameHit
    <2>a. call[r].pc \in Naming BY <2>0 DEF Naming
    <2>f. /\ call[r].stack \in Stacks /\ call[r].i \in DOMAIN call[r].stack
          /\ call[r].stack \in Seq(Nat) /\ Frame(r) \in Frames /\ Frame(r) # NoFrame
      BY <2>0, FrameAt
    <2>1. PICK n \in 0 .. AddrSlots - 1 :
            n = Probe(Frame(r))[Min(Hits(Frame(r)))] /\ addr_cache[n].addr = Frame(r)
      BY <2>0, <2>f, ProbedSlots
    <2>2. addr_cache[n].symbol = RightName(Frame(r))
      BY <1>a, <1>n, <2>0, <2>1, <2>a, <2>f DEF Naming
    <2>3. SetName(r, addr_cache[n].symbol) /\ addr_cache[n].symbol \in Symbols
      BY <1>2, <1>u, <2>1 DEF FrameHit
    <2>4. /\ resolved'[call[r].stack][call[r].i] = RightName(Frame(r))
          /\ \A s \in Stacks : \A j \in DOMAIN s :
               s # call[r].stack \/ j # call[r].i => resolved'[s][j] = resolved[s][j]
      BY <2>2, <2>3, <2>f, SetNameEffect
    <2>5. PICK d : d = [call[r] EXCEPT !.i = call[r].i + 1] OBVIOUS
    <2>6. d.pc = "frame" /\ d.stack = call[r].stack /\ d.i = call[r].i + 1
      BY <1>u, <2>0, <2>5 DEF CallType
    <2>7. /\ call' = [call EXCEPT ![r] = d] /\ UNCHANGED <<is_resolved, addr_cache, non_pie>>
      BY <1>2, <2>5 DEF FrameHit
    <2>8. \A s \in Stacks : is_resolved'[s] => \A i \in DOMAIN s : resolved'[s][i] = RightName(s[i])
      BY <1>n, <1>s, <2>4, <2>7, <2>a
    <2>9. \A j \in DOMAIN d.stack : j < d.i => resolved'[d.stack][j] = RightName(d.stack[j])
      <3> SUFFICES ASSUME NEW j \in DOMAIN call[r].stack, j < call[r].i + 1
                   PROVE  resolved'[call[r].stack][j] = RightName(call[r].stack[j])
        BY <2>6
      <3>1. j \in Nat BY <2>f
      <3>2. CASE j = call[r].i BY <2>4, <3>2 DEF Frame
      <3>3. CASE j < call[r].i
        <4>1. j # call[r].i BY <1>i, <3>1, <3>3
        <4>2. resolved'[call[r].stack][j] = resolved[call[r].stack][j] BY <2>4, <2>f, <4>1
        <4>3. resolved[call[r].stack][j] = RightName(call[r].stack[j]) BY <1>n, <2>a, <3>3
        <4> QED BY <4>2, <4>3
      <3> QED BY <1>i, <3>1, <3>2, <3>3
    <2>10. non_pie' = -1 \/ non_pie' = (IF NonPie THEN 1 ELSE 0)
      BY <1>n, <1>p, <2>0, <2>7, <2>a DEF Naming
    <2>11. \A k \in 0 .. AddrSlots - 1 :
             addr_cache'[k].addr = NoFrame \/ addr_cache'[k].symbol = RightName(addr_cache'[k].addr)
      BY <1>a, <1>n, <2>0, <2>7, <2>a DEF Naming
    <2>12. ~is_resolved'[d.stack] BY <1>n, <2>6, <2>7, <2>a
    <2> QED BY <1>r, <2>6, <2>7, <2>8, <2>9, <2>10, <2>11, <2>12, <2>a, SymbolsKept
  <1>3. CASE FrameMiss(r)
    <2>0. call[r].pc = "frame" /\ call[r].i <= Len(call[r].stack) BY <1>3 DEF FrameMiss
    <2>a. call[r].pc \in Naming BY <2>0 DEF Naming
    <2>f. /\ call[r].stack \in Stacks /\ call[r].i \in DOMAIN call[r].stack
          /\ call[r].stack \in Seq(Nat) /\ Frame(r) \in Frames
      BY <2>0, FrameAt
    <2>1. PICK lab \in {"exe", "insert"}, sym \in Symbols :
            /\ SetName(r, sym) /\ To(r, lab)
            /\ lab = "insert" => sym = Name(Frame(r), non_pie) /\ non_pie # -1
                                 /\ non_pie' = non_pie
            /\ lab = "exe" => non_pie' = 0
      BY <1>3, <2>f, NameType DEF FrameMiss
    <2>2. \A o \in Resolvers : call[o].pc # "exe" BY <1>n, <2>0, <2>a DEF Naming
    <2>3. lab = "insert" => sym = RightName(Frame(r)) BY <1>p, <2>1, <2>2 DEF RightName
    <2>4. /\ resolved'[call[r].stack][call[r].i] = sym
          /\ \A s \in Stacks : \A j \in DOMAIN s :
               s # call[r].stack \/ j # call[r].i => resolved'[s][j] = resolved[s][j]
      BY <2>1, <2>f, SetNameEffect
    <2>5. PICK d : d = [call[r] EXCEPT !.pc = lab] OBVIOUS
    <2>6. d.pc = lab /\ d.stack = call[r].stack /\ d.i = call[r].i
      BY <1>u, <2>5 DEF CallType
    <2>7. /\ call' = [call EXCEPT ![r] = d] /\ UNCHANGED <<is_resolved, addr_cache>>
      BY <1>3, <2>1, <2>5 DEF FrameMiss, To
    <2>8. \A s \in Stacks : is_resolved'[s] => \A i \in DOMAIN s : resolved'[s][i] = RightName(s[i])
      BY <1>n, <1>s, <2>4, <2>7, <2>a
    <2>9. \A j \in DOMAIN d.stack : j < d.i => resolved'[d.stack][j] = RightName(d.stack[j])
      <3> SUFFICES ASSUME NEW j \in DOMAIN call[r].stack, j < call[r].i
                   PROVE  resolved'[call[r].stack][j] = RightName(call[r].stack[j])
        BY <2>6
      <3>1. j # call[r].i BY <1>i, <2>f
      <3>2. resolved'[call[r].stack][j] = resolved[call[r].stack][j] BY <2>4, <2>f, <3>1
      <3>3. resolved[call[r].stack][j] = RightName(call[r].stack[j]) BY <1>n, <2>a
      <3> QED BY <3>2, <3>3
    <2>10. non_pie' = -1 \/ non_pie' = (IF NonPie THEN 1 ELSE 0) \/ d.pc = "exe"
      BY <1>p, <2>1, <2>2, <2>6
    <2>11. \A k \in 0 .. AddrSlots - 1 :
             addr_cache'[k].addr = NoFrame \/ addr_cache'[k].symbol = RightName(addr_cache'[k].addr)
      BY <1>a, <1>n, <2>0, <2>7, <2>a DEF Naming
    <2>12. ~is_resolved'[d.stack] BY <1>n, <2>6, <2>7, <2>a
    <2>13. /\ d.pc \in {"insert", "fill"} => resolved'[d.stack][d.i] = RightName(d.stack[d.i])
           /\ d.pc # "fill" /\ (d.pc = "exe" => non_pie' # -1)
      BY <2>1, <2>3, <2>4, <2>6 DEF Frame
    <2> QED BY <1>r, <2>7, <2>8, <2>9, <2>10, <2>11, <2>12, <2>13, <2>a, SymbolsKept
  <1>4. CASE ReadExe(r)
    <2>0. call[r].pc = "exe" BY <1>4 DEF ReadExe
    <2>a. call[r].pc \in Naming BY <2>0 DEF Naming
    <2>f. /\ call[r].stack \in Stacks /\ call[r].i \in DOMAIN call[r].stack
          /\ call[r].stack \in Seq(Nat) /\ Frame(r) \in Frames
      BY <2>0, FrameAt
    <2>1. PICK sym \in Symbols : SetName(r, sym) /\ sym = RightName(Frame(r))
      BY <1>4, <2>f, NameType DEF ReadExe, RightName
    <2>4. /\ resolved'[call[r].stack][call[r].i] = RightName(Frame(r))
          /\ \A s \in Stacks : \A j \in DOMAIN s :
               s # call[r].stack \/ j # call[r].i => resolved'[s][j] = resolved[s][j]
      BY <2>1, <2>f, SetNameEffect
    <2>5. PICK d : d = [call[r] EXCEPT !.pc = "insert"] OBVIOUS
    <2>6. d.pc = "insert" /\ d.stack = call[r].stack /\ d.i = call[r].i
      BY <1>u, <2>5 DEF CallType
    <2>7. /\ call' = [call EXCEPT ![r] = d] /\ UNCHANGED <<is_resolved, addr_cache>>
          /\ non_pie' = IF NonPie THEN 1 ELSE 0
      BY <1>4, <2>5 DEF ReadExe, To
    <2>8. \A s \in Stacks : is_resolved'[s] => \A i \in DOMAIN s : resolved'[s][i] = RightName(s[i])
      BY <1>n, <1>s, <2>4, <2>7, <2>a
    <2>9. \A j \in DOMAIN d.stack : j < d.i => resolved'[d.stack][j] = RightName(d.stack[j])
      <3> SUFFICES ASSUME NEW j \in DOMAIN call[r].stack, j < call[r].i
                   PROVE  resolved'[call[r].stack][j] = RightName(call[r].stack[j])
        BY <2>6
      <3>1. j # call[r].i BY <1>i, <2>f
      <3>2. resolved'[call[r].stack][j] = resolved[call[r].stack][j] BY <2>4, <2>f, <3>1
      <3>3. resolved[call[r].stack][j] = RightName(call[r].stack[j]) BY <1>n, <2>a
      <3> QED BY <3>2, <3>3
    <2>11. \A k \in 0 .. AddrSlots - 1 :
             addr_cache'[k].addr = NoFrame \/ addr_cache'[k].symbol = RightName(addr_cache'[k].addr)
      BY <1>a, <1>n, <2>0, <2>7, <2>a DEF Naming
    <2>12. ~is_resolved'[d.stack] BY <1>n, <2>6, <2>7, <2>a
    <2>13. resolved'[d.stack][d.i] = RightName(d.stack[d.i])
      BY <2>4, <2>6 DEF Frame
    <2> QED BY <1>r, <2>6, <2>7, <2>8, <2>9, <2>11, <2>12, <2>13, <2>a, SymbolsKept
  <1>5. CASE InsertAddr(r)
    <2>0. call[r].pc = "insert" BY <1>5 DEF InsertAddr
    <2>a. call[r].pc \in Naming BY <2>0 DEF Naming
    <2>f. Frame(r) \in Frames /\ Frame(r) \in Nat BY <2>0, FrameAt
    <2>1. PICK n \in 0 .. AddrSlots - 1 : n = Slot(Frame(r)) BY <2>f, ProbedSlots
    <2>5. PICK d : d = [call[r] EXCEPT !.pc = "fill", !.slot = n] OBVIOUS
    <2>6. d.pc = "fill" /\ d.stack = call[r].stack /\ d.i = call[r].i /\ d.slot = n
      BY <1>u, <2>5 DEF CallType
    <2>7. /\ call' = [call EXCEPT ![r] = d] /\ UNCHANGED <<is_resolved, resolved, non_pie>>
          /\ addr_cache' = [addr_cache EXCEPT ![n].addr = Frame(r)]
      BY <1>5, <2>1, <2>5 DEF InsertAddr
    <2>8. addr_cache'[n].addr = Frame(r) /\ \A k \in 0 .. AddrSlots - 1 :
            k # n => addr_cache'[k] = addr_cache[k]
      BY <1>u, <2>7
    <2>9. \A j \in DOMAIN d.stack : j < d.i => resolved'[d.stack][j] = RightName(d.stack[j])
      BY <1>n, <2>6, <2>7, <2>a
    <2>10. non_pie' = -1 \/ non_pie' = (IF NonPie THEN 1 ELSE 0)
      BY <1>n, <1>p, <2>0, <2>7, <2>a DEF Naming
    <2>11. \A k \in 0 .. AddrSlots - 1 :
             \/ addr_cache'[k].addr = NoFrame
             \/ addr_cache'[k].symbol = RightName(addr_cache'[k].addr)
             \/ d.slot = k
      BY <1>a, <1>n, <2>0, <2>6, <2>8, <2>a DEF Naming
    <2>12. ~is_resolved'[d.stack] BY <1>n, <2>6, <2>7, <2>a
    <2>13. /\ resolved'[d.stack][d.i] = RightName(d.stack[d.i])
           /\ addr_cache'[d.slot].addr = d.stack[d.i]
      BY <1>n, <2>0, <2>6, <2>7, <2>8, <2>a DEF Frame
    <2>14. \A s \in Stacks : is_resolved'[s] => \A i \in DOMAIN s : resolved'[s][i] = RightName(s[i])
      BY <1>s, <2>7
    <2> QED BY <1>r, <2>6, <2>7, <2>9, <2>10, <2>11, <2>12, <2>13, <2>14, <2>a, SymbolsKept
  <1>6. CASE InsertSymbol(r)
    <2>0. call[r].pc = "fill" BY <1>6 DEF InsertSymbol
    <2>a. call[r].pc \in Naming BY <2>0 DEF Naming
    <2>f. /\ call[r].stack \in Stacks /\ call[r].i \in DOMAIN call[r].stack
          /\ call[r].stack \in Seq(Nat)
      BY <2>0, FrameAt
    <2>1. PICK n \in 0 .. AddrSlots - 1 : n = call[r].slot BY <1>u DEF CallType
    <2>5. PICK d : d = [call[r] EXCEPT !.pc = "frame", !.i = call[r].i + 1] OBVIOUS
    <2>6. d.pc = "frame" /\ d.stack = call[r].stack /\ d.i = call[r].i + 1
      BY <1>u, <2>5 DEF CallType
    <2>7. /\ call' = [call EXCEPT ![r] = d] /\ UNCHANGED <<is_resolved, resolved, non_pie>>
          /\ addr_cache' = [addr_cache EXCEPT ![n].symbol = resolved[call[r].stack][call[r].i]]
      BY <1>6, <2>1, <2>5 DEF InsertSymbol
    <2>8. /\ addr_cache'[n].symbol = RightName(Frame(r)) /\ addr_cache'[n].addr = Frame(r)
          /\ \A k \in 0 .. AddrSlots - 1 : k # n => addr_cache'[k] = addr_cache[k]
      <3>1. resolved[call[r].stack][call[r].i] = RightName(Frame(r))
            /\ addr_cache[n].addr = Frame(r)
        BY <1>n, <2>0, <2>1, <2>a
      <3> QED BY <1>u, <2>7, <3>1
    <2>9. \A j \in DOMAIN d.stack : j < d.i => resolved'[d.stack][j] = RightName(d.stack[j])
      <3> SUFFICES ASSUME NEW j \in DOMAIN call[r].stack, j < call[r].i + 1
                   PROVE  resolved[call[r].stack][j] = RightName(call[r].stack[j])
        BY <2>6, <2>7
      <3>1. j \in Nat BY <2>f
      <3>2. CASE j = call[r].i BY <1>n, <2>0, <2>a, <3>2 DEF Frame
      <3>3. CASE j < call[r].i BY <1>n, <2>a, <3>3
      <3> QED BY <1>i, <3>1, <3>2, <3>3
    <2>10. non_pie' = -1 \/ non_pie' = (IF NonPie THEN 1 ELSE 0)
      BY <1>n, <1>p, <2>0, <2>7, <2>a DEF Naming
    <2>11. \A k \in 0 .. AddrSlots - 1 :
             addr_cache'[k].addr = NoFrame \/ addr_cache'[k].symbol = RightName(addr_cache'[k].addr)
      BY <1>a, <1>n, <2>0, <2>1, <2>8, <2>a DEF Naming
    <2>12. ~is_resolved'[d.stack] BY <1>n, <2>6, <2>7, <2>a
    <2>14. \A s \in Stacks : is_resolved'[s] => \A i \in DOMAIN s : resolved'[s][i] = RightName(s[i])
      BY <1>s, <2>7
    <2> QED BY <1>r, <2>6, <2>7, <2>9, <2>10, <2>11, <2>12, <2>14, <2>a, SymbolsKept
  <1>7. CASE ResolveEnd(r)
    <2>0. call[r].pc = "frame" /\ call[r].i > Len(call[r].stack) BY <1>7 DEF ResolveEnd
    <2>a. call[r].pc \in Naming BY <2>0 DEF Naming
    <2>f. call[r].stack \in Stacks /\ call[r].stack \in Seq(Nat)
      BY <2>0, StackCacheConstants DEF CacheTypes
    <2>1. call' = [call EXCEPT ![r] = NoCall] /\ NoCall.pc = "idle"
          /\ is_resolved' = [is_resolved EXCEPT ![call[r].stack] = TRUE]
          /\ UNCHANGED <<resolved, addr_cache, non_pie>>
      BY <1>7 DEF ResolveEnd, NoCall
    <2>2. \A i \in DOMAIN call[r].stack : resolved[call[r].stack][i] = RightName(call[r].stack[i])
      <3>1. \A i \in DOMAIN call[r].stack : i < call[r].i BY <1>i, <2>0, <2>f
      <3> QED BY <1>n, <2>a, <3>1
    <2>3. \A s \in Stacks : is_resolved'[s] => \A i \in DOMAIN s : resolved'[s][i] = RightName(s[i])
      BY <1>s, <1>u, <2>1, <2>2
    <2>10. non_pie' = -1 \/ non_pie' = (IF NonPie THEN 1 ELSE 0)
      BY <1>n, <1>p, <2>0, <2>1, <2>a DEF Naming
    <2>11. \A k \in 0 .. AddrSlots - 1 :
             addr_cache'[k].addr = NoFrame \/ addr_cache'[k].symbol = RightName(addr_cache'[k].addr)
      BY <1>a, <1>n, <2>0, <2>1, <2>a DEF Naming
    <2>12. NoCall.pc \notin Naming BY <2>1 DEF Naming
    <2> QED BY <1>r, <2>1, <2>3, <2>10, <2>11, <2>12, <2>a, SymbolsKept
  <1> QED BY <1>1, <1>2, <1>3, <1>4, <1>5, <1>6, <1>7 DEF ResolveStep

\* Steps that do not resolve and leave the symbols alone.
LEMMA SymbolsUntouched ==
  ASSUME CacheTypes, SymbolInv, UNCHANGED <<symbolVars, raced, torn>>,
         \A o \in Resolvers : /\ call'[o].pc \in Naming => call[o].pc \in Naming
                              /\ call[o].pc \in Naming => call'[o] = call[o]
  PROVE  SymbolInv'
  <1> SUFFICES ASSUME ~raced, ~torn PROVE SymbolInv' BY DEF SymbolInv
  <1>u. UNCHANGED <<is_resolved, resolved, addr_cache, non_pie>> BY DEF symbolVars
  <1>1. ASSUME NEW o \in Resolvers, call'[o].pc \in Naming PROVE NamingInv(o)'
    <2>1. NamingInv(o) /\ call'[o] = call[o] BY <1>1 DEF SymbolInv
    <2>2. \A q \in Resolvers \ {o} : call'[q].pc \notin Naming BY <2>1 DEF NamingInv
    <2> QED BY <1>u, <2>1, <2>2 DEF NamingInv, RightName, Name, Frame
  <1>2. \A o \in Resolvers : call[o].pc \in {"exe", "fill"} => call'[o] = call[o]
    BY DEF Naming
  <1> QED BY <1>u, <1>1, <1>2 DEF SymbolInv, RightName, Name

\* A step of the resolution of thread r: it goes on with its entry, or it ends
\* with the entry marked; no mark is ever taken back.
LEMMA ResolveEffect ==
  ASSUME CacheTypes, NEW r \in Resolvers, ResolveStep(r)
  PROVE  /\ UNCHANGED <<entries, scan, cached_pairs, failed>>
         /\ \A s \in Stacks : is_resolved[s] => is_resolved'[s]
         /\ \A o \in Resolvers : o # r => call'[o] = call[o]
         /\ call[r].pc \notin {"idle", "search"}
         /\ \/ call'[r].pc \in Naming /\ call'[r].stack = call[r].stack
            \/ call'[r].pc = "idle" /\ is_resolved'[call[r].stack]
  <1>0. call \in [Resolvers -> CallType] /\ call[r] \in CallType
        /\ is_resolved \in [Stacks -> BOOLEAN]
        /\ (call[r].pc # "idle" => call[r].stack \in Stacks)
    BY DEF CacheTypes
  <1>1. CASE ResolveStart(r)
    <2>1. UNCHANGED <<entries, scan, cached_pairs, failed, is_resolved>> /\ call[r].pc = "check"
          /\ \A o \in Resolvers : o # r => call'[o] = call[o]
      BY <1>0, <1>1 DEF ResolveStart, symbolVars, scanVars
    <2>2. CASE is_resolved[call[r].stack]
      BY <1>0, <1>1, <2>1, <2>2 DEF ResolveStart, NoCall
    <2>3. CASE ~is_resolved[call[r].stack]
      <3>1. call' = [call EXCEPT ![r] = [call[r] EXCEPT !.pc = "frame", !.i = 1]]
        BY <1>1, <2>3 DEF ResolveStart
      <3>2. call'[r].pc = "frame" /\ call'[r].stack = call[r].stack
        BY <1>0, <3>1 DEF CallType
      <3> QED BY <2>1, <3>2 DEF Naming
    <2> QED BY <2>2, <2>3
  <1>2. CASE FrameHit(r)
    BY <1>0, <1>2 DEF FrameHit, scanVars, CallType, Naming
  <1>3. CASE FrameMiss(r) \/ ReadExe(r)
    <2>1. PICK lab \in {"exe", "insert"} : To(r, lab) BY <1>3 DEF FrameMiss, ReadExe
    <2>2. call'[r].pc = lab /\ call'[r].stack = call[r].stack
          /\ \A o \in Resolvers : o # r => call'[o] = call[o]
      BY <1>0, <2>1 DEF To, CallType
    <2>3. UNCHANGED <<entries, scan, cached_pairs, failed, is_resolved>>
          /\ call[r].pc \in {"frame", "exe"}
      BY <1>3 DEF FrameMiss, ReadExe, scanVars
    <2> QED BY <2>2, <2>3 DEF Naming
  <1>4. CASE InsertAddr(r)
    BY <1>0, <1>4 DEF InsertAddr, scanVars, CallType, Naming
  <1>5. CASE InsertSymbol(r)
    BY <1>0, <1>5 DEF InsertSymbol, scanVars, CallType, Naming
  <1>6. CASE ResolveEnd(r)
    <2>1. call'[r].pc = "idle" /\ \A o \in Resolvers : o # r => call'[o] = call[o]
      BY <1>0, <1>6 DEF ResolveEnd, NoCall
    <2>2. UNCHANGED <<entries, scan, cached_pairs, failed>> /\ call[r].pc = "frame"
          /\ is_resolved' = [is_resolved EXCEPT ![call[r].stack] = TRUE]
      BY <1>6 DEF ResolveEnd, scanVars
    <2> QED BY <1>0, <2>1, <2>2
  <1> QED BY <1>1, <1>2, <1>3, <1>4, <1>5, <1>6 DEF ResolveStep

\* Resolving adds to what is resolved, and the HTTP thread has nothing to resolve
\* as long as no entry failed to be allocated.
LEMMA ResolveResolved ==
  ASSUME CacheTypes, ResolvedInv, NEW r \in Resolvers, ResolveStep(r), UNCHANGED http
  PROVE  ResolvedInv'
  <1> SUFFICES ASSUME failed' = 0 PROVE ResolvedInv' BY DEF ResolvedInv
  <1>1. /\ UNCHANGED <<entries, scan, cached_pairs, failed>>
        /\ \A s \in Stacks : is_resolved[s] => is_resolved'[s]
        /\ \A o \in Resolvers : o # r => call'[o] = call[o]
        /\ call[r].pc \notin {"idle", "search"}
        /\ \/ call'[r].pc \in Naming /\ call'[r].stack = call[r].stack
           \/ call'[r].pc = "idle" /\ is_resolved'[call[r].stack]
    BY ResolveEffect
  <1>2. failed = 0 BY <1>1
  <1>3. /\ LookupInv /\ \A s \in scan.pairs \cup cached_pairs \cup http.todo : is_resolved[s]
        /\ call["http"].pc = "idle"
    BY <1>2 DEF ResolvedInv
  <1>4. r = "scan" /\ "http" \in Resolvers /\ "http" # r BY <1>1, <1>3 DEF Resolvers
  <1>5. /\ scan.pairs \subseteq Stacks /\ cached_pairs \subseteq Stacks /\ http.todo \subseteq Stacks
        /\ scan.first \subseteq Stacks /\ entries \subseteq Stacks
    BY DEF CacheTypes, ScanType, HttpType
  <1>6. \A s \in Stacks : LookedUp(s) => LookedUp(s)' BY <1>1 DEF LookedUp
  <1>7. call["scan"].stack \in entries /\ scan.stage \in {"dedup", "safety"}
    BY <1>1, <1>3, <1>4 DEF LookupInv
  <1>k. PICK k \in Stacks : k = call["scan"].stack BY <1>5, <1>7
  <1>8. ASSUME call'["scan"].pc = "idle" PROVE LookedUp(k)'
    <2>1. is_resolved'[k] BY <1>1, <1>4, <1>8, <1>k DEF Naming
    <2> QED BY <1>1, <1>7, <1>k, <2>1 DEF LookedUp
  <1>9. LookupInv'
    <2>1. CASE call'["scan"].pc = "idle"
      <3>1. scan.stage = "dedup" => \A s \in scan.first \ scan.todo : LookedUp(s)'
        <4> SUFFICES ASSUME scan.stage = "dedup", NEW s \in scan.first \ scan.todo
                     PROVE  LookedUp(s)'
          OBVIOUS
        <4>1. LookedUp(s) \/ k = s BY <1>3, <1>k DEF LookupInv
        <4> QED BY <1>5, <1>6, <1>8, <2>1, <4>1
      <3> QED BY <1>1, <1>3, <1>5, <1>6, <2>1, <3>1 DEF LookupInv
    <2>2. CASE call'["scan"].pc \in Naming /\ call'["scan"].stack = call["scan"].stack
      <3>1. call'["scan"].pc \notin {"idle", "search"} BY <2>2 DEF Naming
      <3>2. scan.stage = "dedup" => \A s \in scan.first \ scan.todo :
              LookedUp(s)' \/ (call'["scan"].pc # "idle" /\ call'["scan"].stack = s)
        BY <1>3, <1>5, <1>6, <2>2, <3>1 DEF LookupInv
      <3> QED BY <1>1, <1>3, <1>5, <1>6, <1>7, <2>2, <3>1, <3>2 DEF LookupInv
    <2> QED BY <1>1, <1>4, <2>1, <2>2
  <1>10. \A s \in scan.pairs \cup cached_pairs \cup http.todo : is_resolved'[s]
    BY <1>1, <1>3, <1>5
  <1>11. call'["http"].pc = "idle" BY <1>1, <1>3, <1>4
  <1> QED BY <1>1, <1>9, <1>10, <1>11 DEF ResolvedInv

CacheInv == CacheTypes /\ SymbolInv /\ ResolvedInv

\* A step of mtt_stack_resolve keeps all that is said of the stack cache.
LEMMA ResolveCache ==
  ASSUME CacheInv, NEW r \in Resolvers, ResolveStep(r), UNCHANGED http
  PROVE  CacheInv'
  BY ResolveTypes, ResolveSymbols, ResolveResolved DEF CacheInv

\* The scan looks one more stack up.
LEMMA LookupLockStep ==
  ASSUME CacheInv, NEW s \in Stacks, LookupLock(s), UNCHANGED http
  PROVE  CacheInv'
  <1>0. "scan" \in Resolvers /\ "http" \in Resolvers BY DEF Resolvers
  <1>1. /\ scan.stage \in {"dedup", "safety", "pairs"} /\ call["scan"].pc = "idle" /\ s \in scan.todo
        /\ UNCHANGED <<entries, symbolVars, scanVars, failed, raced, torn>>
    BY DEF LookupLock
  <1>2. PICK d : d = [NoCall EXCEPT !.pc = "search", !.stack = s] OBVIOUS
  <1>3. CallFits(d) /\ d.pc = "search" /\ d.stack = s
    <2>1. NoCall \in CallType BY NoCallFits DEF CallFits
    <2>2. d \in CallType /\ d.pc = "search" /\ d.stack = s BY <1>2, <2>1 DEF CallType
    <2> QED BY <2>2, s \in Stacks DEF CallFits
  <1>4. call' = [call EXCEPT !["scan"] = d] BY <1>2 DEF LookupLock
  <1>5. call'["scan"] = d /\ \A o \in Resolvers : o # "scan" => call'[o] = call[o]
    BY <1>0, <1>4 DEF CacheInv, CacheTypes
  <1>6. CacheTypes'
    BY <1>0, <1>1, <1>3, <1>4, TypesKept DEF CacheInv, CacheTypes, symbolVars, scanVars
  <1>7. SymbolInv'
    BY <1>1, <1>3, <1>5, SymbolsUntouched DEF CacheInv, Naming
  <1>8. ResolvedInv'
    <2> SUFFICES ASSUME failed = 0 PROVE ResolvedInv' BY <1>1 DEF ResolvedInv
    <2>1. /\ UNCHANGED <<entries, scan, cached_pairs, http, is_resolved, failed>>
          /\ call'["http"] = call["http"]
      BY <1>0, <1>1, <1>5 DEF scanVars, symbolVars
    <2>2. /\ LookupInv /\ \A u \in scan.pairs \cup cached_pairs \cup http.todo : is_resolved[u]
          /\ call["http"].pc = "idle"
      BY DEF CacheInv, ResolvedInv
    <2>3. \A u : LookedUp(u) => LookedUp(u)' BY <2>1 DEF LookedUp
    <2>4. LookupInv'
      BY <1>1, <1>3, <1>5, <2>1, <2>2, <2>3 DEF LookupInv
    <2> QED BY <2>1, <2>2, <2>4 DEF ResolvedInv
  <1> QED BY <1>6, <1>7, <1>8 DEF CacheInv

\* mtt_stack_cache_lookup, under the lock: an entry is found or added, unless the
\* table is full or memory is short.
LEMMA LookupDoneStep ==
  ASSUME CacheInv, LookupDone, UNCHANGED http
  PROVE  CacheInv'
  <1>0. "scan" \in Resolvers /\ "http" \in Resolvers /\ CacheTypes BY DEF Resolvers, CacheInv
  <1>1. PICK s : s = call["scan"].stack OBVIOUS
  <1>2. call["scan"].pc = "search" /\ UNCHANGED <<symbolVars, cached_pairs, cache_lock, raced, torn>>
    BY DEF LookupDone
  <1>3. s \in Stacks BY <1>0, <1>1, <1>2 DEF CacheTypes
  <1>4. PICK got \in Find(s) :
          /\ entries' = entries \cup got
          /\ failed' = failed + IF got = {} /\ Cardinality(entries) < CacheSize THEN 1 ELSE 0
          /\ scan' = [scan EXCEPT !.todo = scan.todo \ {s},
                        !.pairs = IF scan.stage = "pairs" THEN scan.pairs \cup got ELSE scan.pairs]
          /\ To("scan", IF got # {} /\ scan.stage # "pairs" THEN "check" ELSE "idle")
    BY <1>1 DEF LookupDone
  <1>5. /\ got = {} \/ got = {s}
        /\ s \in entries => got = {s}
        /\ s \notin entries /\ Cardinality(entries) >= CacheSize => got = {}
    BY <1>4 DEF Find
  <1>t. /\ entries \subseteq Stacks /\ IsFiniteSet(entries) /\ failed \in Nat /\ scan \in ScanType
        /\ call \in [Resolvers -> CallType] /\ call["scan"] \in CallType
        /\ Cardinality(entries) \in Nat /\ CacheSize \in Nat
    BY <1>0, FS_CardinalityType, StackCacheConstants DEF CacheTypes
  <1>6. scan' \in ScanType /\ scan'.stage = scan.stage /\ scan'.first = scan.first
        /\ scan'.todo = scan.todo \ {s}
        /\ scan'.pairs = (IF scan.stage = "pairs" THEN scan.pairs \cup got ELSE scan.pairs)
    BY <1>3, <1>4, <1>5, <1>t DEF ScanType
  <1>7. PICK lab \in {"check", "idle"} :
          lab = IF got # {} /\ scan.stage # "pairs" THEN "check" ELSE "idle"
    OBVIOUS
  <1>8. PICK d : d = [call["scan"] EXCEPT !.pc = lab] OBVIOUS
  <1>9. d.pc = lab /\ d.stack = s /\ CallFits(d)
    BY <1>1, <1>3, <1>8, <1>t DEF CallFits, CallType, Naming
  <1>10. call' = [call EXCEPT !["scan"] = d] BY <1>4, <1>7, <1>8 DEF To
  <1>11. call'["scan"] = d /\ \A o \in Resolvers : o # "scan" => call'[o] = call[o]
    BY <1>0, <1>10, <1>t
  <1>12. entries' \subseteq Stacks /\ IsFiniteSet(entries')
    <2>1. CASE got = {} BY <1>4, <1>t, <2>1
    <2>2. CASE got = {s} BY <1>3, <1>4, <1>t, <2>2, FS_AddElement
    <2> QED BY <1>5, <2>1, <2>2
  <1>13. CacheTypes'
    <2>1. failed' \in Nat BY <1>4, <1>t
    <2> QED BY <1>0, <1>2, <1>6, <1>9, <1>10, <1>12, <2>1, TypesKept DEF CacheTypes, symbolVars
  <1>14. SymbolInv'
    <2>1. d.pc \notin Naming /\ call["scan"].pc \notin Naming BY <1>2, <1>9 DEF Naming
    <2> QED BY <1>2, <1>11, <2>1, SymbolsUntouched DEF CacheInv
  <1>15. ResolvedInv'
    <2> SUFFICES ASSUME failed' = 0 PROVE ResolvedInv' BY DEF ResolvedInv
    <2>1. failed = 0 /\ (got = {} => Cardinality(entries) >= CacheSize)
      BY <1>4, <1>t
    <2>2. /\ LookupInv /\ \A u \in scan.pairs \cup cached_pairs \cup http.todo : is_resolved[u]
          /\ call["http"].pc = "idle"
      BY <2>1 DEF CacheInv, ResolvedInv
    <2>3. UNCHANGED <<is_resolved, cached_pairs, http>> /\ call'["http"] = call["http"]
      BY <1>0, <1>2, <1>11 DEF symbolVars
    <2>4. s \in scan.todo /\ scan.stage \in {"dedup", "safety", "pairs"}
      BY <1>1, <1>2, <2>2 DEF LookupInv
    <2>5. \A u : LookedUp(u) => LookedUp(u)'
      <3>1. CASE got = {} \/ s \in entries
        BY <1>4, <1>5, <2>3, <3>1 DEF LookedUp
      <3>2. CASE got = {s} /\ s \notin entries
        <4>1. ~(Cardinality(entries) >= CacheSize) BY <1>5, <3>2
        <4> QED BY <1>4, <2>3, <4>1 DEF LookedUp
      <3> QED BY <1>5, <3>1, <3>2
    <2>6. got = {} => LookedUp(s)'
      BY <1>4, <1>5, <2>1 DEF LookedUp
    <2>7. scan.stage = "pairs" => LookedUp(s) /\ s \in scan.first /\ (got = {s} => is_resolved[s])
      BY <1>5, <2>2, <2>4 DEF LookupInv, LookedUp
    <2>8. \A u \in scan'.pairs \cup cached_pairs \cup http.todo : is_resolved'[u]
      BY <1>5, <1>6, <2>2, <2>3, <2>7
    <2>9. LookupInv'
      <3>1. \A u \in scan.first \ scan'.todo :
              scan.stage = "dedup" => LookedUp(u)' \/ (lab # "idle" /\ s = u)
        <4> SUFFICES ASSUME NEW u \in scan.first \ scan'.todo, scan.stage = "dedup"
                     PROVE  LookedUp(u)' \/ (lab # "idle" /\ s = u)
          OBVIOUS
        <4>1. CASE u = s BY <1>5, <1>7, <2>6, <4>1
        <4>2. CASE u # s
          <5>1. LookedUp(u) BY <1>1, <1>6, <2>2, <4>2 DEF LookupInv
          <5> QED BY <2>5, <5>1
        <4> QED BY <4>1, <4>2
      <3>2. lab = "check" => s \in entries' /\ scan.stage \in {"dedup", "safety"}
        BY <1>4, <1>5, <1>7, <2>4
      <3>3. scan.stage \in {"safety", "pairs"} =>
              scan'.todo \subseteq scan.first /\ \A u \in scan.first : LookedUp(u)'
        BY <1>6, <2>2, <2>5 DEF LookupInv
      <3> QED BY <1>6, <1>9, <1>11, <2>4, <3>1, <3>2, <3>3 DEF LookupInv
    <2> QED BY <2>2, <2>3, <2>8, <2>9 DEF ResolvedInv
  <1> QED BY <1>13, <1>14, <1>15 DEF CacheInv

\* A step that makes no symbol and no entry: what is published, and what the HTTP
\* thread has left to write, comes from what the scan collected.
LEMMA OutsideStep ==
  ASSUME CacheInv, UNCHANGED <<entries, symbolVars, call, failed, raced, torn>>,
         http' \in HttpType, http'.todo \subseteq http.todo \cup cached_pairs,
         cached_pairs' \subseteq cached_pairs \cup scan.pairs,
         scan' \in ScanType, scan'.pairs \subseteq scan.pairs, LookupInv => LookupInv'
  PROVE  CacheInv'
  <1>1. CacheTypes'
    <2>1. cached_pairs' \subseteq Stacks BY DEF CacheInv, CacheTypes, ScanType
    <2> QED BY <2>1 DEF CacheInv, CacheTypes, symbolVars
  <1>2. SymbolInv'
    BY DEF CacheInv, SymbolInv, NamingInv, Frame, symbolVars
  <1>3. ResolvedInv' BY DEF CacheInv, ResolvedInv, symbolVars
  <1> QED BY <1>1, <1>2, <1>3 DEF CacheInv

\* A step elsewhere.
LEMMA ElsewhereStep ==
  ASSUME CacheInv, UNCHANGED cacheVars, http' \in HttpType, http'.todo \subseteq http.todo
  PROVE  CacheInv'
  <1>1. UNCHANGED <<entries, symbolVars, call, failed, raced, torn, cached_pairs, scan, is_resolved>>
    BY DEF cacheVars, scanVars, symbolVars
  <1>2. scan' \in ScanType BY <1>1 DEF CacheInv, CacheTypes
  <1>3. LookupInv => LookupInv' BY <1>1 DEF LookupInv, LookedUp
  <1> QED BY <1>1, <1>2, <1>3, OutsideStep

\* The scan goes from stage to stage.
LEMMA ScanStages ==
  ASSUME CacheInv, ScanBegin \/ ScanRefresh \/ ScanSnapshot \/ ScanStage \/ ScanPublish,
         UNCHANGED http
  PROVE  CacheInv'
  <1>1. UNCHANGED <<entries, symbolVars, call, failed, raced, torn, is_resolved>>
    BY DEF ScanBegin, ScanRefresh, ScanSnapshot, ScanStage, ScanPublish, symbolVars
  <1>2. scan \in ScanType /\ http \in HttpType BY DEF CacheInv, CacheTypes
  <1>b. CASE ScanBegin \/ ScanRefresh
    <2>1. /\ scan.stage \in {"none", "refresh"} /\ UNCHANGED cached_pairs
          /\ \/ scan' = [NoScan EXCEPT !.stage = "refresh"]
             \/ scan' = [scan EXCEPT !.stage = "series"]
      BY <1>b DEF ScanBegin, ScanRefresh
    <2>2. /\ scan' \in ScanType /\ scan'.pairs \subseteq scan.pairs
          /\ scan'.stage \in {"refresh", "series"}
      BY <1>2, <2>1 DEF NoScan, ScanType
    <2>3. LookupInv => LookupInv' BY <1>1, <2>1, <2>2 DEF LookupInv
    <2> QED BY <1>1, <1>2, <2>1, <2>2, <2>3, OutsideStep
  <1>3. CASE ScanSnapshot
    <2>1. PICK snap \in Snapshots : \E first \in Firsts(snap) :
            scan' = [stage |-> "dedup", todo |-> snap, first |-> first, pairs |-> {}]
      BY <1>3 DEF ScanSnapshot
    <2>2. PICK first \in Firsts(snap) :
            scan' = [stage |-> "dedup", todo |-> snap, first |-> first, pairs |-> {}]
      BY <2>1
    <2>3. first \subseteq snap /\ snap \subseteq Stacks BY StackCacheConstants DEF Firsts
    <2>4. scan' \in ScanType BY <2>2, <2>3 DEF ScanType
    <2>5. scan.stage = "series" /\ UNCHANGED cached_pairs BY <1>3 DEF ScanSnapshot
    <2>6. LookupInv => LookupInv' BY <1>1, <2>2, <2>3, <2>5 DEF LookupInv
    <2> QED BY <1>1, <1>2, <2>2, <2>4, <2>5, <2>6, OutsideStep
  <1>4. CASE ScanStage
    <2>1. /\ scan.todo = {} /\ call["scan"].pc = "idle" /\ UNCHANGED cached_pairs
          /\ scan.stage \in {"dedup", "safety", "pairs"}
      BY <1>4 DEF ScanStage
    <2>2. \/ scan.stage = "dedup" /\ scan' = [scan EXCEPT !.stage = "safety", !.todo = scan.first]
          \/ scan.stage = "safety" /\ scan' = [scan EXCEPT !.stage = "pairs", !.todo = scan.first]
          \/ scan.stage = "pairs" /\ scan' = [scan EXCEPT !.stage = "publish"]
      BY <1>4 DEF ScanStage
    <2>3. /\ scan' \in ScanType /\ scan'.pairs = scan.pairs /\ scan'.first = scan.first
          /\ scan'.stage \in {"safety", "pairs"} => scan'.todo = scan.first
          /\ scan'.stage \in {"safety", "pairs"} => scan.stage \in {"dedup", "safety"}
          /\ scan'.stage # "dedup"
      BY <1>2, <2>2 DEF ScanType
    <2>4. LookupInv => LookupInv'
      <3> SUFFICES ASSUME LookupInv PROVE LookupInv' OBVIOUS
      <3>1. scan.stage \in {"dedup", "safety"} => \A s \in scan.first : LookedUp(s)
        BY <2>1 DEF LookupInv
      <3>2. \A s : LookedUp(s) => LookedUp(s)' BY <1>1 DEF LookedUp
      <3> QED BY <1>1, <2>1, <2>3, <3>1, <3>2 DEF LookupInv
    <2> QED BY <1>1, <1>2, <2>1, <2>3, <2>4, OutsideStep
  <1>5. CASE ScanPublish
    <2>1. /\ scan.stage = "publish" /\ cached_pairs' \subseteq scan.pairs /\ scan' = NoScan
      BY <1>5 DEF ScanPublish
    <2>2. scan' \in ScanType /\ scan'.pairs = {} /\ scan'.stage = "none"
      BY <2>1, NoHttpType DEF NoScan
    <2>3. LookupInv => LookupInv' BY <1>1, <2>1, <2>2 DEF LookupInv
    <2> QED BY <1>1, <1>2, <2>1, <2>2, <2>3, OutsideStep
  <1> QED BY <1>b, <1>3, <1>4, <1>5

\* In the child of a fork nobody is naming; a slot or a symbol that was copied
\* half written is noted.
LEMMA ForkKeepsCache ==
  ASSUME CacheInv, CacheFork, http' = NoHttp
  PROVE  CacheInv'
  <1>1. /\ call' = [r \in Resolvers |-> NoCall] /\ scan' = NoScan
        /\ UNCHANGED <<entries, symbolVars, cached_pairs, scans, failed, raced>>
        /\ torn' = (torn \/ \E r \in Resolvers : call[r].pc \in {"exe", "fill"})
    BY DEF CacheFork
  <1>2. \A r \in Resolvers : call'[r] = NoCall /\ call'[r].pc = "idle"
    BY <1>1, NoCallFits
  <1>3. CacheTypes'
    <2>1. call' \in [Resolvers -> CallType] BY <1>1, NoCallFits DEF CallFits
    <2>2. torn' \in BOOLEAN BY <1>1 DEF CacheInv, CacheTypes
    <2>3. scan' \in ScanType /\ http' \in HttpType BY <1>1, NoHttpType
    <2>4. /\ entries \subseteq Stacks /\ IsFiniteSet(entries)
          /\ is_resolved \in [Stacks -> BOOLEAN]
          /\ DOMAIN resolved = Stacks /\ \A s \in Stacks : resolved[s] \in [DOMAIN s -> Symbols]
          /\ addr_cache \in [0 .. AddrSlots - 1 -> [addr : Nat, symbol : Symbols]]
          /\ non_pie \in {-1, 0, 1} /\ cached_pairs \subseteq Stacks /\ failed \in Nat
          /\ raced \in BOOLEAN
      BY DEF CacheInv, CacheTypes
    <2>5. UNCHANGED <<entries, is_resolved, resolved, addr_cache, non_pie, cached_pairs, failed, raced>>
      BY <1>1 DEF symbolVars
    <2> QED BY <1>2, <2>1, <2>2, <2>3, <2>4, <2>5 DEF CacheTypes
  <1>4. SymbolInv'
    <2> SUFFICES ASSUME ~raced, ~torn, ~torn' PROVE SymbolInv'
      BY <1>1 DEF SymbolInv
    <2>1. \A r \in Resolvers : call[r].pc \notin {"exe", "fill"} BY <1>1
    <2>2. UNCHANGED <<is_resolved, resolved, addr_cache, non_pie>> BY <1>1 DEF symbolVars
    <2>3. /\ \A s \in Stacks : is_resolved[s] =>
               \A i \in DOMAIN s : resolved[s][i] = RightName(s[i])
          /\ non_pie = -1 \/ non_pie = (IF NonPie THEN 1 ELSE 0)
          /\ \A n \in 0 .. AddrSlots - 1 :
               \/ addr_cache[n].addr = NoFrame
               \/ addr_cache[n].symbol = RightName(addr_cache[n].addr)
      BY <2>1 DEF CacheInv, SymbolInv
    <2> QED BY <1>2, <2>2, <2>3 DEF SymbolInv, Naming
  <1>5. ResolvedInv'
    <2>1. /\ scan'.pairs = {} /\ http'.todo = {} /\ scan'.stage = "none"
      BY <1>1 DEF NoScan, NoHttp
    <2>2. UNCHANGED <<cached_pairs, is_resolved, failed>> BY <1>1 DEF symbolVars
    <2>3. call'["http"].pc = "idle" /\ call'["scan"].pc = "idle" BY <1>2 DEF Resolvers
    <2> QED BY <2>1, <2>2, <2>3 DEF CacheInv, ResolvedInv, LookupInv
  <1> QED BY <1>3, <1>4, <1>5 DEF CacheInv

\* The kernel gives out a descriptor that is free.
LEMMA FreeFdIsOne ==
  ASSUME FreeFds # {}
  PROVE  Min(FreeFds) \in Fds /\ desc[Min(FreeFds)] = Free
  <1>1. FreeFds \in SUBSET Nat BY HttpServerConstants DEF FreeFds
  <1> QED BY <1>1, LeastElement DEF FreeFds

\* write_leak_json writes a site, or has it resolved first; the latter only after
\* an entry failed to be allocated.
LEMMA HttpSiteStep ==
  ASSUME CacheInv, NEW s \in Stacks, HttpSite(s)
  PROVE  CacheInv'
  <1>0. "scan" \in Resolvers /\ "http" \in Resolvers BY DEF Resolvers
  <1>1. s \in http.todo /\ http \in HttpType /\ scan \in ScanType
    BY DEF HttpSite, CacheInv, CacheTypes
  <1>2. CASE is_resolved[s]
    <2>1. http' = [http EXCEPT !.todo = http.todo \ {s}] /\ UNCHANGED cacheVars
      BY <1>2 DEF HttpSite, cacheVars, scanVars
    <2>2. http' \in HttpType /\ http'.todo \subseteq http.todo BY <1>1, <2>1 DEF HttpType
    <2> QED BY <2>1, <2>2, ElsewhereStep
  <1>3. CASE ~is_resolved[s]
    <2>1. /\ UNCHANGED <<http, entries, symbolVars, scanVars, failed, raced, torn>>
          /\ call["http"].pc = "idle"
      BY <1>3 DEF HttpSite
    <2>2. PICK d : d = [NoCall EXCEPT !.pc = "check", !.stack = s] OBVIOUS
    <2>3. CallFits(d) /\ d.pc = "check"
      <3>1. NoCall \in CallType BY NoCallFits DEF CallFits
      <3>2. d \in CallType /\ d.pc = "check" /\ d.stack = s BY <2>2, <3>1 DEF CallType
      <3> QED BY <3>2 DEF CallFits
    <2>4. call' = [call EXCEPT !["http"] = d] BY <1>3, <2>2 DEF HttpSite
    <2>5. call'["http"] = d /\ \A o \in Resolvers : o # "http" => call'[o] = call[o]
      BY <1>0, <2>4 DEF CacheInv, CacheTypes
    <2>6. CacheTypes'
      BY <1>0, <2>1, <2>3, <2>4, TypesKept DEF CacheInv, CacheTypes, symbolVars, scanVars
    <2>7. SymbolInv' BY <2>1, <2>3, <2>5, SymbolsUntouched DEF CacheInv, Naming
    <2>8. failed # 0 BY <1>1, <1>3 DEF CacheInv, ResolvedInv
    <2>9. ResolvedInv' BY <2>1, <2>8 DEF ResolvedInv
    <2> QED BY <2>6, <2>7, <2>9 DEF CacheInv
  <1> QED BY <1>2, <1>3

\* The other steps of the HTTP thread.
LEMMA HttpCacheStep ==
  ASSUME CacheInv, HttpStep
  PROVE  CacheInv'
  <1>1. http \in HttpType /\ scan \in ScanType BY DEF CacheInv, CacheTypes
  <1>2. CASE HttpLoop \/ HttpPoll \/ HttpRecv \/ HttpSeries \/ HttpAccept \/ HttpClose
    <2>1. UNCHANGED cacheVars
      BY <1>2 DEF HttpLoop, HttpPoll, HttpRecv, HttpSeries, HttpAccept, HttpClose
    <2>2. CASE HttpLoop \/ HttpPoll \/ HttpRecv \/ HttpSeries
      BY <1>1, <2>1, <2>2, ElsewhereStep
         DEF HttpLoop, HttpPoll, HttpRecv, HttpSeries, Goes, HttpType
    <2>3. CASE HttpClose BY <2>1, <2>3, ElsewhereStep DEF HttpClose, NoHttp, HttpType
    <2>4. CASE HttpAccept
      <3>1. \/ \E lab \in {"loop", "ended"} : Goes(lab)
            \/ /\ FreeFds # {} /\ http' = [NoHttp EXCEPT !.pc = "recv", !.fd = Min(FreeFds)]
        BY <2>4 DEF HttpAccept
      <3>2. CASE \E lab \in {"loop", "ended"} : Goes(lab)
        BY <1>1, <2>1, <3>2, ElsewhereStep DEF Goes, HttpType
      <3>3. CASE FreeFds # {} /\ http' = [NoHttp EXCEPT !.pc = "recv", !.fd = Min(FreeFds)]
        <4>1. Min(FreeFds) \in Fds BY <3>3, FreeFdIsOne
        <4>2. http' \in HttpType /\ http'.todo = {} BY <3>3, <4>1, NoHttpType DEF NoHttp, HttpType
        <4> QED BY <2>1, <4>2, ElsewhereStep
      <3> QED BY <3>1, <3>2, <3>3
    <2> QED BY <1>2, <2>2, <2>3, <2>4
  <1>3. CASE HttpLock
    <2>1. /\ UNCHANGED <<entries, symbolVars, call, scan, cached_pairs, failed, raced, torn>>
          /\ http' = [http EXCEPT !.pc = "sites", !.todo = cached_pairs]
      BY <1>3 DEF HttpLock
    <2>2. http' \in HttpType /\ http'.todo = cached_pairs
      BY <1>1, <2>1 DEF HttpType, CacheInv, CacheTypes
    <2>3. LookupInv => LookupInv' BY <2>1 DEF LookupInv, LookedUp, symbolVars
    <2> QED BY <1>1, <2>1, <2>2, <2>3, OutsideStep
  <1>4. CASE HttpUnlock
    <2>1. /\ UNCHANGED <<entries, symbolVars, call, scan, cached_pairs, failed, raced, torn>>
          /\ Goes("close")
      BY <1>4 DEF HttpUnlock
    <2>2. http' \in HttpType /\ http'.todo = http.todo BY <1>1, <2>1 DEF Goes, HttpType
    <2>3. LookupInv => LookupInv' BY <2>1 DEF LookupInv, LookedUp, symbolVars
    <2> QED BY <1>1, <2>1, <2>2, <2>3, OutsideStep
  <1>5. CASE HttpResolve
    <2>1. ResolveStep("http") /\ UNCHANGED http /\ "http" \in Resolvers
      BY <1>5 DEF HttpResolve, Resolvers
    <2> QED BY <2>1, ResolveCache
  <1> QED BY <1>2, <1>3, <1>4, <1>5, HttpSiteStep DEF HttpStep

\* The cache of stacks keeps its invariant in every state of the process.
THEOREM CacheInvariant == Spec => []CacheInv
  <1>1. Init => CacheInv
    <2> SUFFICES ASSUME Init PROVE CacheInv OBVIOUS
    <2>1. CacheInit /\ http = NoHttp BY DEF Init
    <2>2. /\ call = [r \in Resolvers |-> NoCall] /\ scan = NoScan /\ entries = {} /\ failed = 0
          /\ cached_pairs = {} /\ raced = FALSE /\ torn = FALSE /\ non_pie = -1
          /\ is_resolved = [s \in Stacks |-> FALSE]
          /\ resolved = [s \in Stacks |-> [i \in DOMAIN s |-> NoSymbol]]
          /\ addr_cache = [n \in 0 .. AddrSlots - 1 |-> [addr |-> NoFrame, symbol |-> NoSymbol]]
      BY <2>1 DEF CacheInit
    <2>3. \A r \in Resolvers : call[r] = NoCall /\ call[r].pc = "idle" BY <2>2, NoCallFits
    <2>4. CacheTypes
      <3>1. call \in [Resolvers -> CallType] BY <2>2, NoCallFits DEF CallFits
      <3>2. scan \in ScanType /\ http \in HttpType BY <2>1, <2>2, NoHttpType
      <3>3. NoSymbol \in Symbols BY DEF NoSymbol, Symbols
      <3>4. addr_cache \in [0 .. AddrSlots - 1 -> [addr : Nat, symbol : Symbols]]
        BY <2>2, <3>3 DEF NoFrame
      <3>5. DOMAIN resolved = Stacks /\ \A s \in Stacks : resolved[s] \in [DOMAIN s -> Symbols]
        BY <2>2, <3>3
      <3> QED BY <2>2, <2>3, <3>1, <3>2, <3>4, <3>5, FS_EmptySet DEF CacheTypes
    <2>5. SymbolInv BY <2>2, <2>3 DEF SymbolInv, Naming
    <2>6. ResolvedInv BY <2>1, <2>2, <2>3 DEF ResolvedInv, LookupInv, NoScan, NoHttp, Resolvers
    <2> QED BY <2>4, <2>5, <2>6 DEF CacheInv
  <1>2. CacheInv /\ [Next]_vars => CacheInv'
    <2> SUFFICES ASSUME CacheInv, [Next]_vars PROVE CacheInv' OBVIOUS
    <2>0. http \in HttpType BY DEF CacheInv, CacheTypes
    <2>1. CASE UNCHANGED vars BY <2>0, <2>1, ElsewhereStep DEF vars, serviceVars
    <2>2. CASE StartStep
      <3>1. UNCHANGED cacheVars
        BY <2>2 DEF StartStep, StartSocket, StartBind, StartNext, StartListen, StartRun, StartFrame
      <3>2. http' = http \/ http' = [NoHttp EXCEPT !.pc = "loop"]
        BY <2>2 DEF StartStep, StartSocket, StartBind, StartNext, StartListen, StartRun, StartFrame
      <3>3. http' \in HttpType /\ http'.todo \subseteq http.todo
        BY <2>0, <3>2 DEF NoHttp, HttpType
      <3> QED BY <3>1, <3>3, ElsewhereStep
    <2>3. CASE HttpStep BY <2>3, HttpCacheStep
    <2>4. CASE StopFlag \/ StopClose \/ StopClear
      BY <2>0, <2>4, ElsewhereStep DEF StopFlag, StopClose, StopClear, ExitFrame
    <2>5. CASE StopFree
      <3>1. /\ UNCHANGED <<entries, symbolVars, call, scan, failed, raced, torn, http>>
            /\ cached_pairs' = {}
        BY <2>5 DEF StopFree, ExitFrame
      <3>2. LookupInv => LookupInv' BY <3>1 DEF LookupInv, LookedUp, symbolVars
      <3>3. scan \in ScanType BY DEF CacheInv, CacheTypes
      <3> QED BY <2>0, <3>1, <3>2, <3>3, OutsideStep
    <2>6. CASE \/ Connect \/ SlowClient \/ ProgramOpen
               \/ (\E f \in Fds : ProgramClose(f)) \/ (\E p \in Ports : Release(p))
      BY <2>0, <2>6, ElsewhereStep DEF Connect, SlowClient, ProgramOpen, ProgramClose, Release, WorldFrame
    <2>7. CASE Fork BY <2>7, ForkKeepsCache DEF Fork
    <2>8. CASE Points BY <2>0, <2>8, ElsewhereStep DEF Points, serviceVars
    <2>9. CASE ScanStarts BY <2>9, ScanStages DEF ScanStarts, serviceVars
    <2>10. CASE Scan
      <3>1. ScanStep /\ UNCHANGED http BY <2>10 DEF Scan, serviceVars
      <3>2. "scan" \in Resolvers BY DEF Resolvers
      <3> QED BY <3>1, <3>2, LookupLockStep, LookupDoneStep, ResolveCache, ScanStages DEF ScanStep
    <2> QED BY <2>1, <2>2, <2>3, <2>4, <2>5, <2>6, <2>7, <2>8, <2>9, <2>10 DEF Next, StopStep
  <1> QED BY <1>1, <1>2, PTL DEF Spec

\* mtt_stack_resolve gives an entry the names of its own frames, from whichever
\* slots of the address table and by whichever thread (stack_cache.c:795), for
\* every set of stacks and every size of the two tables.
THEOREM SymbolsAreRight == Spec => []SymbolsRight
  <1>1. CacheInv => SymbolsRight BY DEF CacheInv, CacheTypes, SymbolInv, SymbolsRight
  <1> QED BY <1>1, CacheInvariant, PTL

\* What a scan publishes is resolved, so that the HTTP thread resolves nothing
\* (stack_cache.c:7, reporter.c:1190-1237), as long as every entry that the table
\* has room for is allocated.
THEOREM PublishedResolved == Spec => []ScanResolvesAll
  <1>1. CacheInv => ScanResolvesAll BY DEF CacheInv, ResolvedInv, ScanResolvesAll
  <1> QED BY <1>1, CacheInvariant, PTL

-----------------------------------------------------------------------------
(* The server's descriptors.                                               *)

Kinds == {"free", "listen", "client", "program"}
StartType ==
  [pc : {"socket", "bind", "next", "listen", "run", "done"}, asked : Ports, want : Ports,
   fd : Fds \cup {-1}, attempt : Nat, ret : Ports]

ServerTypes ==
  /\ desc \in [Fds -> [kind : Kinds, port : Ports]] /\ start \in StartType
  /\ listen_fd \in Fds \cup {0, -1} /\ stop \in {"no", "close", "clear", "free", "done"}
  /\ running \in BOOLEAN /\ pending \in Nat
  /\ {early, wrapped, orphan, starved, misused} \subseteq BOOLEAN

\* listen_fd is a socket of the server.
Owned == listen_fd \in Fds /\ desc[listen_fd].kind = "listen"

\* The thread could not be created, and listen_fd kept the number.
Stale == orphan /\ start.pc = "done" /\ http.pc = "none"

\* start has a socket of its own; before it is published, nothing is.
StartInv ==
  /\ start.pc \in {"socket", "bind", "next", "listen"} =>
       listen_fd \in {0, -1} /\ stop \notin {"close", "clear"}
  /\ start.pc \in {"bind", "next", "listen"} =>
       start.fd \in Fds /\ desc[start.fd].kind = "listen"
  /\ start.pc # "done" => http.pc = "none"
  /\ stop # "no" /\ ~early => start.pc = "done"

\* What is published is a socket, as long as the thread or start use it and the
\* exit handler has not closed it, and the thread's connection is one.
PublishedInv ==
  /\ start.pc = "run" \/ http.pc # "none" \/ listen_fd > 0 =>
       Owned \/ stop = "clear" \/ (stop \in {"free", "done"} /\ listen_fd = -1) \/ Stale
  /\ stop = "close" => listen_fd > 0
  /\ stop = "clear" => listen_fd \in Fds /\ listen_fd > 0 /\ desc[listen_fd].kind # "listen"
  /\ stop \in {"free", "done"} /\ ~early => listen_fd \in {0, -1}
  /\ http.pc \in {"recv", "series", "lock", "sites", "close"} =>
       http.fd \in Fds /\ desc[http.fd].kind = "client"

\* A listening socket that this process made is the published one or start's.
SocketsInv ==
  \A f \in Fds \ (inherited \cup {0}) : desc[f].kind = "listen" =>
    f = listen_fd \/ (start.pc \in {"bind", "next", "listen"} /\ f = start.fd)

OwnInv == StartInv /\ PublishedInv /\ SocketsInv /\ (~orphan => ~misused)

\* The port that start returns is the socket's, which the thread serves; until
\* the program exits, the thread ends only because accept failed.
ToldInv ==
  /\ start.pc \in {"bind", "next"} => start.want # 0
  /\ start.pc = "listen" => desc[start.fd].port = start.want
  /\ start.pc \in {"listen", "run"} /\ start.want = 0 => wrapped
  /\ stop = "no" =>
       /\ start.pc # "done" => ~running
       /\ start.pc = "run" => desc[listen_fd].port = start.want
       /\ start.pc = "done" /\ start.ret = 0 /\ ~wrapped => http.pc = "none" /\ ~running
       /\ start.pc = "done" /\ start.ret # 0 =>
            running /\ http.pc # "none" /\ desc[listen_fd].port = start.ret
       /\ http.pc # "none" => running
       /\ http.pc = "ended" => starved
       /\ http.pc = "accept" => pending > 0

ServerInv == ServerTypes /\ OwnInv /\ ToldInv /\ http \in HttpType

\* Port 0 stands for the one that the kernel chooses.
LEMMA ZeroIsPort == 0 \in Ports
  <1>1. PICK n \in Nat \ {0} : n = Cardinality(Ports) /\ Ports = 0 .. n - 1
    BY HttpServerConstants
  <1>2. 0 \in 0 .. n - 1 OBVIOUS
  <1> QED BY <1>1, <1>2

\* The port to try next is a port.
LEMMA NextPortIsOne ==
  ASSUME ServerTypes
  PROVE  NextPort \in Ports
  <1>1. PICK n \in Nat \ {0} : n = Cardinality(Ports) /\ Ports = 0 .. n - 1
    BY HttpServerConstants
  <1>2. start.want \in Nat /\ start.attempt \in Nat BY <1>1 DEF ServerTypes, StartType
  <1>3. PICK x \in Nat : x = start.want + start.attempt BY <1>2
  <1>4. x % n \in 0 .. n - 1 OBVIOUS
  <1>5. NextPort = x % n BY <1>1, <1>3 DEF NextPort
  <1> QED BY <1>1, <1>4, <1>5

\* One descriptor changes.
LEMMA OneDescriptor ==
  ASSUME ServerTypes, 0 \in Ports, NEW f \in Fds, NEW k \in Kinds,
         desc' = [desc EXCEPT ![f] = Fd(k)]
  PROVE  /\ desc' \in [Fds -> [kind : Kinds, port : Ports]]
         /\ desc'[f].kind = k
         /\ \A g \in Fds : g # f => desc'[g] = desc[g]
  <1>1. Fd(k) \in [kind : Kinds, port : Ports] /\ Fd(k).kind = k
    <2>1. Free \in [kind : Kinds, port : Ports] BY DEF Free, Kinds
    <2> QED BY <2>1 DEF Fd
  <1> QED BY <1>1 DEF ServerTypes

\* A descriptor is closed.
LEMMA DescriptorCloses ==
  ASSUME ServerTypes, NEW f \in Fds, desc' = [desc EXCEPT ![f] = Free]
  PROVE  /\ desc' \in [Fds -> [kind : Kinds, port : Ports]]
         /\ desc'[f] = Free /\ desc'[f].kind = "free"
         /\ \A g \in Fds : g # f => desc'[g] = desc[g]
  <1>1. 0 \in Ports BY ZeroIsPort
  <1>2. Free \in [kind : Kinds, port : Ports] /\ Free.kind = "free" BY <1>1 DEF Free, Kinds
  <1> QED BY <1>2 DEF ServerTypes

\* A socket is bound: its port changes, and it stays a socket.
LEMMA PortChanges ==
  ASSUME ServerTypes, NEW f \in Fds, NEW p \in Ports, desc' = [desc EXCEPT ![f].port = p]
  PROVE  /\ desc' \in [Fds -> [kind : Kinds, port : Ports]]
         /\ desc'[f].kind = desc[f].kind /\ desc'[f].port = p
         /\ \A g \in Fds : g # f => desc'[g] = desc[g]
  BY DEF ServerTypes

\* mtt_http_server_start gets a socket, or is not to start.
LEMMA StartSocketStep ==
  ASSUME ServerInv, StartSocket
  PROVE  ServerInv'
  <1>0. UNCHANGED <<stop, early, forked, starved, inherited, misused, running, listen_fd, port,
                    wrapped, orphan, http, pending>> /\ start.pc = "socket"
    BY DEF StartSocket, StartFrame, serverVars
  <1>t. start \in StartType /\ listen_fd \in {0, -1} /\ http.pc = "none" /\ start.want \in Ports
        /\ desc \in [Fds -> [kind : Kinds, port : Ports]] /\ 0 \in Ports
    BY <1>0, ZeroIsPort DEF ServerInv, ServerTypes, OwnInv, StartInv, StartType
  <1>1. CASE start.want = 0 \/ FreeFds = {}
    <2>1. start' = [start EXCEPT !.pc = "done", !.ret = 0] /\ UNCHANGED desc
      BY <1>1 DEF StartSocket, Returns
    <2>2. start' \in StartType /\ start'.pc = "done" /\ start'.ret = 0 BY <1>t, <2>1 DEF StartType
    <2>3. ServerTypes' BY <1>0, <2>1, <2>2 DEF ServerInv, ServerTypes
    <2>4. StartInv' BY <1>0, <1>t, <2>2 DEF StartInv
    <2>5. PublishedInv' BY <1>0, <1>t, <2>1, <2>2 DEF ServerInv, OwnInv, PublishedInv, Owned, Stale, StartInv
    <2>6. SocketsInv' BY <1>0, <2>1, <2>2 DEF ServerInv, OwnInv, SocketsInv
    <2>7. ToldInv' BY <1>0, <1>t, <2>1, <2>2 DEF ServerInv, ToldInv
    <2> QED BY <1>0, <2>3, <2>4, <2>5, <2>6, <2>7 DEF ServerInv, OwnInv
  <1>2. CASE ~(start.want = 0 \/ FreeFds = {})
    <2>0. PICK f \in Fds : f = Min(FreeFds) /\ desc[f] = Free BY <1>2, FreeFdIsOne
    <2>1. start' = [start EXCEPT !.pc = "bind", !.fd = f] /\ desc' = [desc EXCEPT ![f] = Fd("listen")]
      BY <1>2, <2>0 DEF StartSocket
    <2>2. start' \in StartType /\ start'.pc = "bind" /\ start'.fd = f /\ start'.want = start.want
      BY <1>t, <2>1 DEF StartType
    <2>3. /\ desc' \in [Fds -> [kind : Kinds, port : Ports]]
          /\ desc'[f].kind = "listen" /\ \A g \in Fds : g # f => desc'[g] = desc[g]
      <3>1. "listen" \in Kinds /\ ServerTypes BY DEF Kinds, ServerInv
      <3> QED BY <1>t, <2>1, <3>1, OneDescriptor
    <2>4. ServerTypes' BY <1>0, <2>2, <2>3 DEF ServerInv, ServerTypes
    <2>5. StartInv' BY <1>0, <1>t, <2>2, <2>3 DEF ServerInv, OwnInv, StartInv
    <2>6. PublishedInv' BY <1>0, <1>t, <2>2, <2>3 DEF ServerInv, OwnInv, PublishedInv, StartInv
    <2>7. SocketsInv' BY <1>0, <2>2, <2>3 DEF ServerInv, OwnInv, SocketsInv
    <2>8. ToldInv' BY <1>0, <1>2, <1>t, <2>2 DEF ServerInv, ToldInv
    <2> QED BY <1>0, <2>4, <2>5, <2>6, <2>7, <2>8 DEF ServerInv, OwnInv
  <1> QED BY <1>1, <1>2

\* The socket is bound to a port, or another one is tried, or start gives up.
LEMMA StartBindStep ==
  ASSUME ServerInv, StartBind \/ StartNext
  PROVE  ServerInv'
  <1>0. UNCHANGED <<stop, early, forked, starved, inherited, misused, running, listen_fd, port,
                    orphan, http, pending>> /\ start.pc \in {"bind", "next"}
    BY DEF StartBind, StartNext, StartFrame, serverVars
  <1>t. start \in StartType /\ listen_fd \in {0, -1} /\ http.pc = "none" /\ start.want \in Ports
        /\ desc \in [Fds -> [kind : Kinds, port : Ports]] /\ 0 \in Ports /\ NextPort \in Ports
        /\ start.want # 0
        /\ stop \notin {"close", "clear"} /\ (stop # "no" => early)
    BY <1>0, NextPortIsOne, ZeroIsPort DEF ServerInv, ServerTypes, OwnInv, StartInv, StartType, ToldInv
  <1>f. PICK f \in Fds : f = start.fd /\ desc[f].kind = "listen"
    BY <1>0 DEF ServerInv, OwnInv, StartInv
  <1>1. ASSUME NEW p \in Ports, Bound(p), p = 0 => wrapped', wrapped' \in BOOLEAN
        PROVE  ServerInv'
    <2>1. start' = [start EXCEPT !.pc = "listen", !.want = p] /\ desc' = [desc EXCEPT ![f].port = p]
      BY <1>1, <1>f DEF Bound
    <2>2. start' \in StartType /\ start'.pc = "listen" /\ start'.fd = f /\ start'.want = p
      BY <1>t, <1>f, <2>1 DEF StartType
    <2>3. /\ desc' \in [Fds -> [kind : Kinds, port : Ports]]
          /\ desc'[f].kind = "listen" /\ desc'[f].port = p
          /\ \A g \in Fds : g # f => desc'[g] = desc[g]
      <3>1. ServerTypes BY DEF ServerInv
      <3>2. desc' = [desc EXCEPT ![f].port = p] BY <2>1
      <3>3. /\ desc' \in [Fds -> [kind : Kinds, port : Ports]]
            /\ desc'[f].kind = desc[f].kind /\ desc'[f].port = p
            /\ \A g \in Fds : g # f => desc'[g] = desc[g]
        BY <3>1, <3>2, PortChanges
      <3> QED BY <1>f, <3>3
    <2>4. ServerTypes' BY <1>0, <1>1, <2>2, <2>3 DEF ServerInv, ServerTypes
    <2>5. StartInv' BY <1>0, <1>t, <2>2, <2>3 DEF ServerInv, OwnInv, StartInv
    <2>6. PublishedInv' BY <1>0, <1>t, <2>2, <2>3 DEF ServerInv, OwnInv, PublishedInv
    <2>7. SocketsInv' BY <1>0, <1>f, <2>2, <2>3 DEF ServerInv, OwnInv, SocketsInv
    <2>8. ToldInv' BY <1>0, <1>1, <1>t, <2>2, <2>3 DEF ServerInv, ToldInv
    <2> QED BY <1>0, <2>4, <2>5, <2>6, <2>7, <2>8 DEF ServerInv, OwnInv
  <1>2. ASSUME UNCHANGED <<desc, wrapped>>, start'.pc \in {"bind", "next"}, start' \in StartType,
               start'.want = start.want, start'.fd = start.fd
        PROVE  ServerInv'
    <2>4. ServerTypes' BY <1>0, <1>2 DEF ServerInv, ServerTypes
    <2>5. StartInv' BY <1>0, <1>t, <1>f, <1>2 DEF ServerInv, OwnInv, StartInv
    <2>6. PublishedInv' BY <1>0, <1>t, <1>2 DEF ServerInv, OwnInv, PublishedInv
    <2>7. SocketsInv' BY <1>0, <1>2 DEF ServerInv, OwnInv, SocketsInv
    <2>8. ToldInv' BY <1>0, <1>2, <1>t DEF ServerInv, ToldInv
    <2> QED BY <1>0, <2>4, <2>5, <2>6, <2>7, <2>8 DEF ServerInv, OwnInv
  <1>3. CASE StartBind /\ Bindable(start.want)
    <2>1. Bound(start.want) /\ UNCHANGED wrapped BY <1>3 DEF StartBind
    <2> QED BY <1>1, <1>t, <2>1 DEF ServerInv, ServerTypes
  <1>4. CASE StartBind /\ ~Bindable(start.want)
    <2>1. start' = [start EXCEPT !.attempt = IF start.attempt + 1 < BindRetries THEN start.attempt + 1 ELSE 1,
                       !.pc = IF start.attempt + 1 < BindRetries THEN "bind" ELSE "next"]
      BY <1>4 DEF StartBind
    <2>2. start' \in StartType /\ start'.pc \in {"bind", "next"} /\ start'.want = start.want
          /\ start'.fd = start.fd
      <3>1. PICK n \in Nat :
              n = IF start.attempt + 1 < BindRetries THEN start.attempt + 1 ELSE 1
        BY <1>t DEF StartType
      <3>2. PICK lab \in {"bind", "next"} :
              lab = IF start.attempt + 1 < BindRetries THEN "bind" ELSE "next"
        OBVIOUS
      <3>3. start' = [start EXCEPT !.attempt = n, !.pc = lab] BY <2>1, <3>1, <3>2
      <3> QED BY <1>t, <3>3 DEF StartType
    <2> QED BY <1>2, <1>4, <2>2 DEF StartBind
  <1>5. CASE StartNext /\ start.attempt > Fallbacks
    <2>1. /\ start' = [start EXCEPT !.pc = "done", !.ret = 0] /\ UNCHANGED wrapped
          /\ desc' = [desc EXCEPT ![f] = Free]
      BY <1>5, <1>f DEF StartNext, Returns
    <2>2. start' \in StartType /\ start'.pc = "done" /\ start'.ret = 0
      BY <1>t, <2>1 DEF StartType
    <2>3. /\ desc' \in [Fds -> [kind : Kinds, port : Ports]]
          /\ desc'[f].kind = "free" /\ \A g \in Fds : g # f => desc'[g] = desc[g]
      BY <2>1, DescriptorCloses DEF ServerInv
    <2>4. ServerTypes' BY <1>0, <2>1, <2>2, <2>3 DEF ServerInv, ServerTypes
    <2>5. StartInv' BY <1>0, <1>t, <2>2 DEF StartInv
    <2>6. PublishedInv' BY <1>0, <1>t, <2>2, <2>3 DEF ServerInv, OwnInv, PublishedInv
    <2>7. SocketsInv' BY <1>0, <1>f, <2>2, <2>3 DEF ServerInv, OwnInv, SocketsInv
    <2>8. ToldInv' BY <1>0, <1>t, <2>1, <2>2 DEF ServerInv, ToldInv
    <2> QED BY <1>0, <2>4, <2>5, <2>6, <2>7, <2>8 DEF ServerInv, OwnInv
  <1>6. CASE StartNext /\ ~(start.attempt > Fallbacks) /\ Bindable(NextPort)
    <2>1. Bound(NextPort) /\ wrapped' = (NextPort = 0) BY <1>6 DEF StartNext
    <2> QED BY <1>1, <1>t, <2>1
  <1>7. CASE StartNext /\ ~(start.attempt > Fallbacks) /\ ~Bindable(NextPort)
    <2>1. start' = [start EXCEPT !.attempt = start.attempt + 1] /\ UNCHANGED <<desc, wrapped>>
      BY <1>7 DEF StartNext
    <2>2. start' \in StartType /\ start'.pc = start.pc /\ start'.want = start.want
          /\ start'.fd = start.fd
      BY <1>t, <2>1 DEF StartType
    <2> QED BY <1>0, <1>2, <2>1, <2>2
  <1> QED BY <1>3, <1>4, <1>5, <1>6, <1>7

\* listen, and the socket is published; or it is closed.
LEMMA StartListenStep ==
  ASSUME ServerInv, StartListen
  PROVE  ServerInv'
  <1>0. UNCHANGED <<stop, early, forked, starved, inherited, misused, running, wrapped,
                    orphan, http, pending>> /\ start.pc = "listen"
    BY DEF StartListen, StartFrame, serverVars
  <1>t. start \in StartType /\ listen_fd \in {0, -1} /\ http.pc = "none" /\ start.want \in Ports
        /\ desc \in [Fds -> [kind : Kinds, port : Ports]] /\ 0 \in Ports
        /\ stop \notin {"close", "clear"} /\ (stop # "no" => early)
    BY <1>0, ZeroIsPort DEF ServerInv, ServerTypes, OwnInv, StartInv, StartType
  <1>f. PICK f \in Fds : f = start.fd /\ desc[f].kind = "listen" /\ desc[f].port = start.want
    BY <1>0 DEF ServerInv, OwnInv, StartInv, ToldInv
  <1>1. CASE UNCHANGED <<running, desc>> /\ listen_fd' = start.fd
             /\ start' = [start EXCEPT !.pc = "run"]
    <2>1. start' \in StartType /\ start'.pc = "run" /\ start'.want = start.want
      BY <1>t, <1>1 DEF StartType
    <2>2. ServerTypes' BY <1>0, <1>1, <1>f, <2>1 DEF ServerInv, ServerTypes
    <2>3. StartInv' BY <1>0, <1>t, <2>1 DEF StartInv
    <2>4. PublishedInv' BY <1>0, <1>1, <1>t, <1>f, <2>1 DEF ServerInv, PublishedInv, Owned
    <2>5. SocketsInv'
      <3> SUFFICES ASSUME NEW g \in Fds \ (inherited \cup {0}), desc[g].kind = "listen"
                   PROVE  g = listen_fd'
        BY <1>0, <1>1 DEF SocketsInv
      <3>1. g = listen_fd \/ g = start.fd BY DEF ServerInv, OwnInv, SocketsInv
      <3>2. g # 0 /\ g # -1 BY HttpServerConstants
      <3> QED BY <1>1, <1>t, <3>1, <3>2
    <2>6. ToldInv' BY <1>0, <1>1, <1>t, <1>f, <2>1 DEF ServerInv, ToldInv
    <2> QED BY <1>0, <2>2, <2>3, <2>4, <2>5, <2>6 DEF ServerInv, OwnInv
  <1>2. CASE Returns(0) /\ desc' = [desc EXCEPT ![start.fd] = Free] /\ UNCHANGED <<running, listen_fd>>
    <2>1. start' \in StartType /\ start'.pc = "done" /\ start'.ret = 0
      BY <1>t, <1>2 DEF StartType, Returns
    <2>2. /\ desc' \in [Fds -> [kind : Kinds, port : Ports]]
          /\ desc'[f].kind = "free" /\ \A g \in Fds : g # f => desc'[g] = desc[g]
      BY <1>2, <1>f, DescriptorCloses DEF ServerInv
    <2>3. ServerTypes' BY <1>0, <1>2, <2>1, <2>2 DEF ServerInv, ServerTypes
    <2>4. StartInv' BY <1>0, <1>t, <2>1 DEF StartInv
    <2>5. PublishedInv' BY <1>0, <1>2, <1>t, <2>1 DEF ServerInv, OwnInv, PublishedInv
    <2>6. SocketsInv' BY <1>0, <1>2, <1>f, <2>1, <2>2 DEF ServerInv, OwnInv, SocketsInv
    <2>7. ToldInv' BY <1>0, <1>t, <1>2, <2>1 DEF ServerInv, ToldInv
    <2> QED BY <1>0, <2>3, <2>4, <2>5, <2>6, <2>7 DEF ServerInv, OwnInv
  <1> QED BY <1>1, <1>2 DEF StartListen, serverVars

\* The thread is created; if it cannot be, the socket is closed, and listen_fd
\* keeps its number.
LEMMA StartRunStep ==
  ASSUME ServerInv, StartRun
  PROVE  ServerInv'
  <1>0. UNCHANGED <<stop, early, forked, starved, inherited, misused, listen_fd, wrapped>>
        /\ start.pc = "run"
    BY DEF StartRun, StartFrame
  <1>t. start \in StartType /\ http.pc = "none" /\ start.want \in Ports
        /\ desc \in [Fds -> [kind : Kinds, port : Ports]] /\ 0 \in Ports
        /\ (stop # "no" => early) /\ listen_fd \in Fds \cup {0, -1}
    BY <1>0, ZeroIsPort DEF ServerInv, ServerTypes, OwnInv, StartInv, StartType
  <1>p. Owned \/ stop = "clear" \/ (stop \in {"free", "done"} /\ listen_fd = -1)
    BY <1>0 DEF ServerInv, OwnInv, PublishedInv, Stale
  <1>1. CASE running' = TRUE /\ Returns(start.want) /\ http' = [NoHttp EXCEPT !.pc = "loop"]
             /\ UNCHANGED <<desc, orphan, pending>>
    <2>1. start' \in StartType /\ start'.pc = "done" /\ start'.ret = start.want
      BY <1>t, <1>1 DEF StartType, Returns
    <2>2. http' \in HttpType /\ http'.pc = "loop" BY <1>1, NoHttpType DEF HttpType
    <2>3. ServerTypes' BY <1>0, <1>1, <2>1 DEF ServerInv, ServerTypes
    <2>4. StartInv' BY <2>1 DEF StartInv
    <2>5. PublishedInv'
      BY <1>0, <1>1, <1>t, <1>p, <2>1, <2>2 DEF ServerInv, OwnInv, PublishedInv, Owned
    <2>6. SocketsInv' BY <1>0, <1>1, <2>1 DEF ServerInv, OwnInv, SocketsInv
    <2>7. ToldInv' BY <1>0, <1>t, <1>1, <2>1, <2>2 DEF ServerInv, ToldInv
    <2> QED BY <1>0, <1>1, <2>2, <2>3, <2>4, <2>5, <2>6, <2>7 DEF ServerInv, OwnInv
  <1>2. CASE /\ running' = FALSE /\ Returns(0) /\ orphan' = TRUE
             /\ desc' = [desc EXCEPT ![start.fd] = Free] /\ pending' = 0 /\ UNCHANGED http
    <2>1. start' \in StartType /\ start'.pc = "done" /\ start'.ret = 0
      BY <1>t, <1>2 DEF StartType, Returns
    <2>2. /\ desc' \in [Fds -> [kind : Kinds, port : Ports]]
          /\ \A g \in Fds : desc'[g].kind = "listen" => desc[g].kind = "listen"
      <3>1. CASE start.fd \in Fds
        <4>1. PICK f \in Fds : f = start.fd BY <3>1
        <4>2. /\ desc' \in [Fds -> [kind : Kinds, port : Ports]] /\ desc'[f].kind = "free"
              /\ \A g \in Fds : g # f => desc'[g] = desc[g]
          BY <1>2, <4>1, DescriptorCloses DEF ServerInv
        <4> QED BY <4>2
      <3>2. CASE start.fd \notin Fds
        <4>1. desc' = desc BY <1>2, <1>t, <3>2
        <4> QED BY <1>t, <4>1
      <3> QED BY <3>1, <3>2
    <2>3. ServerTypes' BY <1>0, <1>2, <2>1, <2>2 DEF ServerInv, ServerTypes
    <2>4. StartInv' BY <2>1 DEF StartInv
    <2>5. PublishedInv'
      <3>1. Stale' BY <1>2, <1>t, <2>1 DEF Stale
      <3>2. stop = "clear" => listen_fd \in Fds /\ listen_fd > 0 /\ desc'[listen_fd].kind # "listen"
        BY <2>2 DEF ServerInv, OwnInv, PublishedInv
      <3> QED BY <1>0, <1>2, <1>t, <3>1, <3>2 DEF ServerInv, OwnInv, PublishedInv
    <2>6. SocketsInv' BY <1>0, <2>1, <2>2 DEF ServerInv, OwnInv, SocketsInv
    <2>7. ToldInv' BY <1>0, <1>t, <1>2, <2>1 DEF ServerInv, ToldInv
    <2> QED BY <1>0, <1>2, <2>3, <2>4, <2>5, <2>6, <2>7 DEF ServerInv, OwnInv
  <1> QED BY <1>1, <1>2 DEF StartRun

\* A step of the HTTP thread that touches no descriptor.
LEMMA HttpMoves ==
  ASSUME ServerInv, http.pc # "none", http'.pc # "none",
         UNCHANGED <<running, listen_fd, port, start, early, wrapped, orphan, stop, inherited,
                     desc, pending>>,
         http' \in HttpType, http'.fd = http.fd, starved' \in BOOLEAN, starved => starved',
         misused' \in BOOLEAN, ~orphan => misused' = misused,
         http'.pc \in {"recv", "series", "lock", "sites", "close"} =>
           http.pc \in {"recv", "series", "lock", "sites", "close"},
         stop = "no" => /\ http'.pc = "accept" => pending > 0
                        /\ http'.pc = "ended" => http.pc = "ended" \/ starved'
  PROVE  ServerInv'
  <1>1. ServerTypes' BY DEF ServerInv, ServerTypes
  <1>2. StartInv' BY DEF ServerInv, OwnInv, StartInv
  <1>3. PublishedInv' BY DEF ServerInv, OwnInv, PublishedInv, Owned, Stale
  <1>4. SocketsInv' BY DEF ServerInv, OwnInv, SocketsInv
  <1>5. ToldInv' BY DEF ServerInv, ToldInv, OwnInv, StartInv
  <1> QED BY <1>1, <1>2, <1>3, <1>4, <1>5 DEF ServerInv, OwnInv

\* A step that touches nothing of the server.
LEMMA ServerKept ==
  ASSUME ServerInv,
         UNCHANGED <<running, listen_fd, port, start, early, wrapped, orphan, stop, inherited,
                     desc, starved, misused, http>>,
         pending' \in Nat, http.pc = "accept" => pending <= pending'
  PROVE  ServerInv'
  <1>0. pending \in Nat BY DEF ServerInv, ServerTypes
  <1>1. ServerTypes' BY DEF ServerInv, ServerTypes
  <1>2. OwnInv'
    BY DEF ServerInv, OwnInv, StartInv, PublishedInv, SocketsInv, Owned, Stale
  <1>3. ToldInv' BY <1>0 DEF ServerInv, ToldInv
  <1> QED BY <1>1, <1>2, <1>3 DEF ServerInv

\* accept gives the thread a descriptor of its own, or it ends: until the program
\* exits, only when there is none left or the call fails.
LEMMA HttpAcceptStep ==
  ASSUME ServerInv, HttpAccept
  PROVE  ServerInv'
  <1>0. /\ UNCHANGED <<running, listen_fd, port, start, early, wrapped, orphan, stop, inherited>>
        /\ http.pc = "accept"
    BY DEF HttpAccept, HttpFrame, serverVars, startVars
  <1>t. /\ http \in HttpType /\ desc \in [Fds -> [kind : Kinds, port : Ports]] /\ 0 \in Ports
        /\ misused \in BOOLEAN /\ starved \in BOOLEAN /\ pending \in Nat
    BY ZeroIsPort DEF ServerInv, ServerTypes
  <1>p. Owned \/ stop = "clear" \/ (stop \in {"free", "done"} /\ listen_fd = -1)
    BY <1>0 DEF ServerInv, OwnInv, PublishedInv, Stale
  <1>s. start.pc = "done" BY <1>0 DEF ServerInv, OwnInv, StartInv
  <1>m. misused' = misused
    <2>1. misused' = (misused \/ (stop # "clear" /\ listen_fd \in Fds
                                    /\ desc[listen_fd].kind = "program"))
      BY DEF HttpAccept
    <2>2. ~(stop # "clear" /\ listen_fd \in Fds /\ desc[listen_fd].kind = "program")
      BY <1>p, HttpServerConstants DEF Owned
    <2> QED BY <1>t, <2>1, <2>2
  <1>n. stop = "no" => Owned /\ pending > 0
    BY <1>0, <1>p DEF ServerInv, ToldInv
  <1>1. ASSUME FreeFds # {}, pending' = pending - 1, pending > 0, UNCHANGED starved,
               desc' = [desc EXCEPT ![Min(FreeFds)] = Fd("client")],
               http' = [NoHttp EXCEPT !.pc = "recv", !.fd = Min(FreeFds)]
        PROVE  ServerInv'
    <2>0. PICK f \in Fds : f = Min(FreeFds) /\ desc[f] = Free BY <1>1, FreeFdIsOne
    <2>1. http' \in HttpType /\ http'.pc = "recv" /\ http'.fd = f
      BY <1>1, <2>0, NoHttpType DEF HttpType
    <2>2. /\ desc' \in [Fds -> [kind : Kinds, port : Ports]]
          /\ desc'[f].kind = "client" /\ \A g \in Fds : g # f => desc'[g] = desc[g]
      <3>1. "client" \in Kinds /\ ServerTypes BY DEF Kinds, ServerInv
      <3> QED BY <1>1, <1>t, <2>0, <3>1, OneDescriptor
    <2>3. desc[f].kind = "free" BY <2>0 DEF Free
    <2>4. pending' \in Nat BY <1>1, <1>t
    <2>5. ServerTypes' BY <1>0, <1>1, <1>m, <2>2, <2>4 DEF ServerInv, ServerTypes
    <2>6. StartInv' BY <1>0, <1>s DEF ServerInv, OwnInv, StartInv
    <2>7. PublishedInv'
      BY <1>0, <1>s, <1>p, <2>1, <2>2, <2>3 DEF ServerInv, OwnInv, PublishedInv, Owned
    <2>8. SocketsInv' BY <1>0, <2>2 DEF ServerInv, OwnInv, SocketsInv
    <2>9. ToldInv' BY <1>0, <1>1, <1>n, <1>s, <2>1, <2>2, <2>3 DEF ServerInv, ToldInv, Owned
    <2> QED BY <1>0, <1>m, <2>1, <2>5, <2>6, <2>7, <2>8, <2>9 DEF ServerInv, OwnInv
  <1>2. ASSUME NEW lab \in {"loop", "ended"}, Goes(lab), UNCHANGED <<desc, pending>>,
               starved' \in BOOLEAN, starved => starved', stop = "no" /\ lab = "ended" => starved'
        PROVE  ServerInv'
    <2>1. http' \in HttpType /\ http'.pc = lab /\ http'.fd = http.fd
      BY <1>t, <1>2 DEF Goes, HttpType
    <2> QED BY <1>0, <1>2, <1>m, <1>t, <2>1, HttpMoves
  <1>3. CASE listen_fd \in Fds /\ desc[listen_fd].kind = "listen" /\ pending > 0
    <2>1. CASE FreeFds # {} /\ pending' = pending - 1 /\ UNCHANGED starved
               /\ desc' = [desc EXCEPT ![Min(FreeFds)] = Fd("client")]
               /\ http' = [NoHttp EXCEPT !.pc = "recv", !.fd = Min(FreeFds)]
      BY <1>1, <1>3, <2>1
    <2>2. CASE Goes("loop") /\ UNCHANGED <<desc, pending, starved>> BY <1>2, <1>t, <2>2
    <2>3. CASE Goes("ended") /\ starved' = TRUE /\ UNCHANGED <<desc, pending>>
      BY <1>2, <2>3
    <2> QED BY <1>3, <2>1, <2>2, <2>3 DEF HttpAccept
  <1>4. CASE ~(listen_fd \in Fds /\ desc[listen_fd].kind = "listen" /\ pending > 0)
    <2>1. Goes("ended") /\ UNCHANGED <<desc, pending, starved>> BY <1>4 DEF HttpAccept
    <2>2. stop # "no" BY <1>4, <1>n DEF Owned
    <2> QED BY <1>2, <1>t, <2>1, <2>2
  <1> QED BY <1>3, <1>4

\* The thread closes the connection it accepted.
LEMMA HttpCloseStep ==
  ASSUME ServerInv, HttpClose
  PROVE  ServerInv'
  <1>0. /\ UNCHANGED <<running, listen_fd, port, start, early, wrapped, orphan, stop, inherited,
                       misused, starved, pending>>
        /\ http.pc = "close" /\ http' = [NoHttp EXCEPT !.pc = "loop"]
    BY DEF HttpClose, HttpFrame, serverVars, startVars
  <1>1. http' \in HttpType /\ http'.pc = "loop" BY <1>0, NoHttpType DEF HttpType
  <1>2. PICK f \in Fds : f = http.fd /\ desc[f].kind = "client"
    BY <1>0 DEF ServerInv, OwnInv, PublishedInv
  <1>3. /\ desc' \in [Fds -> [kind : Kinds, port : Ports]]
        /\ desc'[f].kind = "free" /\ \A g \in Fds : g # f => desc'[g] = desc[g]
    BY <1>2, DescriptorCloses DEF HttpClose, ServerInv
  <1>p. Owned \/ stop = "clear" \/ (stop \in {"free", "done"} /\ listen_fd = -1)
    BY <1>0 DEF ServerInv, OwnInv, PublishedInv, Stale
  <1>s. start.pc = "done" BY <1>0 DEF ServerInv, OwnInv, StartInv
  <1>4. ServerTypes' BY <1>0, <1>3 DEF ServerInv, ServerTypes
  <1>5. StartInv' BY <1>0, <1>s DEF ServerInv, OwnInv, StartInv
  <1>6. PublishedInv'
    BY <1>0, <1>1, <1>2, <1>3, <1>p, <1>s DEF ServerInv, OwnInv, PublishedInv, Owned
  <1>7. SocketsInv' BY <1>0, <1>3 DEF ServerInv, OwnInv, SocketsInv
  <1>8. ToldInv' BY <1>0, <1>1, <1>2, <1>3, <1>p, <1>s DEF ServerInv, ToldInv, Owned
  <1> QED BY <1>0, <1>1, <1>4, <1>5, <1>6, <1>7, <1>8 DEF ServerInv, OwnInv

\* Every step of the thread.
LEMMA HttpKeepsServer ==
  ASSUME ServerInv, HttpStep, http' \in HttpType
  PROVE  ServerInv'
  <1>t. http \in HttpType /\ starved \in BOOLEAN /\ misused \in BOOLEAN /\ pending \in Nat
    BY DEF ServerInv, ServerTypes
  <1>1. CASE HttpResolve
    BY <1>1, <1>t, ServerKept DEF HttpResolve, HttpFrame, serverVars, startVars
  <1>2. CASE \E s \in Stacks : HttpSite(s)
    <2>1. /\ UNCHANGED <<running, listen_fd, port, start, early, wrapped, orphan, stop, inherited,
                         misused, starved, desc, pending>>
          /\ http.pc = "sites"
      BY <1>2 DEF HttpSite, HttpFrame, serverVars, startVars
    <2>2. http'.pc = "sites" /\ http'.fd = http.fd
      BY <1>2, <1>t DEF HttpSite, HttpType
    <2> QED BY <1>t, <2>1, <2>2, HttpMoves
  <1>3. CASE HttpLock
    <2>1. /\ UNCHANGED <<running, listen_fd, port, start, early, wrapped, orphan, stop, inherited,
                         misused, starved, desc, pending>>
          /\ http.pc = "lock" /\ http' = [http EXCEPT !.pc = "sites", !.todo = cached_pairs]
      BY <1>3 DEF HttpLock, HttpFrame, serverVars, startVars
    <2>2. http'.pc = "sites" /\ http'.fd = http.fd BY <1>t, <2>1 DEF HttpType
    <2> QED BY <1>t, <2>1, <2>2, HttpMoves
  <1>4. CASE HttpUnlock \/ HttpRecv \/ HttpSeries
    <2>1. /\ UNCHANGED <<running, listen_fd, port, start, early, wrapped, orphan, stop, inherited,
                         misused, starved, desc, pending>>
          /\ http.pc \in {"recv", "series", "sites"}
      BY <1>4 DEF HttpUnlock, HttpRecv, HttpSeries, HttpFrame, serverVars, startVars
    <2>2. http'.pc \in {"recv", "series", "lock", "close"} /\ http'.fd = http.fd
      BY <1>4, <1>t DEF HttpUnlock, HttpRecv, HttpSeries, Goes, HttpType
    <2> QED BY <1>t, <2>1, <2>2, HttpMoves
  <1>5. CASE HttpLoop \/ HttpPoll
    <2>1. /\ UNCHANGED <<running, listen_fd, port, start, early, wrapped, orphan, stop, inherited,
                         misused, starved, desc, pending>>
          /\ http.pc \in {"loop", "poll"}
      BY <1>5 DEF HttpLoop, HttpPoll, HttpFrame, serverVars, startVars
    <2>2. http'.pc \in {"loop", "poll", "accept", "ended"} /\ http'.fd = http.fd
      BY <1>5, <1>t DEF HttpLoop, HttpPoll, Goes, HttpType
    <2>3. stop = "no" => http'.pc # "ended"
      <3>1. stop = "no" => running BY <2>1 DEF ServerInv, ToldInv
      <3> QED BY <1>5, <1>t, <3>1 DEF HttpLoop, HttpPoll, Goes, HttpType
    <2>4. stop = "no" /\ http'.pc = "accept" => pending > 0
      <3> SUFFICES ASSUME stop = "no", http'.pc = "accept" PROVE pending > 0 OBVIOUS
      <3>1. Readable(listen_fd) BY <1>5, <1>t DEF HttpLoop, HttpPoll, Goes, HttpType
      <3>2. Owned BY <2>1 DEF ServerInv, OwnInv, PublishedInv, Stale
      <3> QED BY <3>1, <3>2 DEF Readable, Owned
    <2> QED BY <1>t, <2>1, <2>2, <2>3, <2>4, HttpMoves
  <1> QED BY <1>1, <1>2, <1>3, <1>4, <1>5, HttpAcceptStep, HttpCloseStep DEF HttpStep

\* The exit handler: what it closes is the server's socket, or listen_fd is stale.
LEMMA StopKeepsServer ==
  ASSUME ServerInv, StopFlag \/ StopStep
  PROVE  ServerInv'
  <1>0. UNCHANGED <<start, wrapped, orphan, http, starved, inherited>>
    BY DEF StopFlag, StopStep, StopClose, StopClear, StopFree, ExitFrame
  <1>t. /\ desc \in [Fds -> [kind : Kinds, port : Ports]] /\ misused \in BOOLEAN
        /\ listen_fd \in Fds \cup {0, -1} /\ pending \in Nat
    BY DEF ServerInv, ServerTypes
  <1>1. CASE StopFlag
    <2>1. /\ UNCHANGED <<listen_fd, port, desc, pending, misused>> /\ running' = FALSE /\ stop = "no"
          /\ stop' = (IF listen_fd > 0 THEN "close" ELSE "free") /\ early' = (start.pc # "done")
      BY <1>1 DEF StopFlag
    <2>2. stop' \in {"close", "free"} /\ (stop' = "close" <=> listen_fd > 0) BY <2>1
    <2>e. ~early' => start.pc = "done" BY <2>1
    <2>3. listen_fd \in {0, -1} \/ listen_fd > 0 BY <1>t, HttpServerConstants
    <2>4. ServerTypes' BY <1>0, <2>1, <2>2 DEF ServerInv, ServerTypes
    <2>5. StartInv'
      <3>1. start.pc \in {"socket", "bind", "next", "listen"} =>
              listen_fd \in {0, -1} /\ stop' \notin {"close", "clear"}
        BY <2>2 DEF ServerInv, OwnInv, StartInv
      <3> QED BY <1>0, <2>1, <2>e, <3>1 DEF ServerInv, OwnInv, StartInv
    <2>6. PublishedInv' BY <1>0, <2>1, <2>2, <2>3 DEF ServerInv, OwnInv, PublishedInv, Owned, Stale
    <2>7. SocketsInv' BY <1>0, <2>1 DEF ServerInv, OwnInv, SocketsInv
    <2>8. ToldInv' BY <1>0, <2>1, <2>2 DEF ServerInv, ToldInv
    <2> QED BY <1>0, <2>1, <2>4, <2>5, <2>6, <2>7, <2>8 DEF ServerInv, OwnInv
  <1>2. CASE StopClose
    <2>1. /\ UNCHANGED <<early, running, listen_fd, port>> /\ stop = "close" /\ stop' = "clear"
          /\ desc' = [desc EXCEPT ![listen_fd] = Free]
          /\ pending' = (IF desc[listen_fd].kind = "listen" THEN 0 ELSE pending)
          /\ misused' = (misused \/ desc[listen_fd].kind = "program")
      BY <1>2 DEF StopClose, CloseFd, Takes, serverVars
    <2>2. listen_fd > 0 /\ (Owned \/ Stale) BY <2>1 DEF ServerInv, OwnInv, PublishedInv
    <2>3. PICK f \in Fds : f = listen_fd /\ f > 0 BY <1>t, <2>2
    <2>4. /\ desc' \in [Fds -> [kind : Kinds, port : Ports]]
          /\ desc'[f].kind = "free" /\ \A g \in Fds : g # f => desc'[g] = desc[g]
      BY <2>1, <2>3, DescriptorCloses DEF ServerInv
    <2>5. ServerTypes' BY <1>0, <1>t, <2>1, <2>4 DEF ServerInv, ServerTypes
    <2>6. StartInv' BY <1>0, <2>1, <2>3 DEF ServerInv, OwnInv, StartInv
    <2>7. PublishedInv'
      <3>1. http.pc \in {"recv", "series", "lock", "sites", "close"} =>
              http.fd \in Fds /\ desc'[http.fd].kind = "client"
        BY <2>2, <2>3, <2>4 DEF ServerInv, OwnInv, PublishedInv, Owned, Stale
      <3> QED BY <1>0, <2>1, <2>3, <2>4, <3>1 DEF ServerInv, OwnInv, PublishedInv
    <2>8. SocketsInv' BY <1>0, <2>1, <2>4 DEF ServerInv, OwnInv, SocketsInv
    <2>9. ~orphan => ~misused' BY <2>1, <2>2 DEF ServerInv, OwnInv, Owned, Stale
    <2>10. ToldInv' BY <1>0, <2>1, <2>3 DEF ServerInv, ToldInv, OwnInv, StartInv
    <2> QED BY <1>0, <2>5, <2>6, <2>7, <2>8, <2>9, <2>10 DEF ServerInv, OwnInv
  <1>3. CASE StopClear
    <2>1. /\ UNCHANGED <<early, running, port, desc, pending, misused>>
          /\ stop = "clear" /\ stop' = "free" /\ listen_fd' = -1
      BY <1>3 DEF StopClear
    <2>2. ServerTypes' BY <1>0, <2>1 DEF ServerInv, ServerTypes
    <2>3. StartInv' BY <1>0, <2>1 DEF ServerInv, OwnInv, StartInv
    <2>4. PublishedInv' BY <1>0, <2>1 DEF ServerInv, OwnInv, PublishedInv
    <2>5. SocketsInv'
      <3> SUFFICES ASSUME NEW g \in Fds \ (inherited \cup {0}), desc[g].kind = "listen"
                   PROVE  start.pc \in {"bind", "next", "listen"} /\ g = start.fd
        BY <1>0, <2>1 DEF SocketsInv
      <3>1. g # listen_fd BY <2>1 DEF ServerInv, OwnInv, PublishedInv
      <3> QED BY <3>1 DEF ServerInv, OwnInv, SocketsInv
    <2>6. ToldInv' BY <1>0, <2>1 DEF ServerInv, ToldInv
    <2> QED BY <1>0, <2>1, <2>2, <2>3, <2>4, <2>5, <2>6 DEF ServerInv, OwnInv
  <1>4. CASE StopFree
    <2>1. /\ UNCHANGED <<early, running, listen_fd, port, desc, pending, misused>>
          /\ stop = "free" /\ stop' = "done"
      BY <1>4 DEF StopFree, serverVars
    <2>2. ServerTypes' BY <1>0, <2>1 DEF ServerInv, ServerTypes
    <2>3. StartInv' BY <1>0, <2>1 DEF ServerInv, OwnInv, StartInv
    <2>4. PublishedInv' BY <1>0, <2>1 DEF ServerInv, OwnInv, PublishedInv, Owned, Stale
    <2>5. SocketsInv' BY <1>0, <2>1 DEF ServerInv, OwnInv, SocketsInv
    <2>6. ToldInv' BY <1>0, <2>1 DEF ServerInv, ToldInv
    <2> QED BY <1>0, <2>1, <2>2, <2>3, <2>4, <2>5, <2>6 DEF ServerInv, OwnInv
  <1> QED BY <1>1, <1>2, <1>3, <1>4 DEF StopStep

\* What the program and its clients do with descriptors: they neither make nor
\* close a socket of the server.
LEMMA WorldKeepsServer ==
  ASSUME ServerInv,
         \/ Connect \/ SlowClient \/ ProgramOpen \/ (\E f \in Fds : ProgramClose(f))
         \/ (\E p \in Ports : Release(p))
  PROVE  ServerInv'
  <1>0. UNCHANGED <<running, listen_fd, port, start, early, wrapped, orphan, http, stop, starved,
                    inherited, misused>>
    BY DEF Connect, SlowClient, ProgramOpen, ProgramClose, Release, WorldFrame, serverVars, startVars
  <1>t. /\ desc \in [Fds -> [kind : Kinds, port : Ports]] /\ pending \in Nat /\ 0 \in Ports
    BY ZeroIsPort DEF ServerInv, ServerTypes
  <1>1. CASE Connect \/ SlowClient \/ \E p \in Ports : Release(p)
    <2>1. UNCHANGED desc /\ pending' \in Nat /\ pending <= pending'
      BY <1>1, <1>t DEF Connect, SlowClient, Release, WorldFrame, clientVars
    <2> QED BY <1>0, <2>1, ServerKept
  <1>2. ASSUME NEW f \in Fds, desc[f].kind \in {"free", "program"},
               desc' \in [Fds -> [kind : Kinds, port : Ports]],
               desc'[f].kind \in {"free", "program"}, \A g \in Fds : g # f => desc'[g] = desc[g],
               UNCHANGED pending
        PROVE  ServerInv'
    <2>1. /\ \A g \in Fds : desc[g].kind \in {"listen", "client"} => desc'[g] = desc[g]
          /\ \A g \in Fds : desc'[g].kind = "listen" => desc[g].kind = "listen"
      BY <1>2
    <2>2. ServerTypes' BY <1>0, <1>2 DEF ServerInv, ServerTypes
    <2>3. StartInv' BY <1>0, <2>1 DEF ServerInv, OwnInv, StartInv
    <2>4. PublishedInv' BY <1>0, <2>1 DEF ServerInv, OwnInv, PublishedInv, Owned, Stale
    <2>5. SocketsInv' BY <1>0, <2>1 DEF ServerInv, OwnInv, SocketsInv
    <2>6. stop = "no" /\ (start.pc = "run" \/ http.pc # "none") => Owned
      BY DEF ServerInv, OwnInv, PublishedInv, Stale
    <2>7. start.pc = "listen" => desc'[start.fd] = desc[start.fd]
      BY <2>1 DEF ServerInv, OwnInv, StartInv
    <2>8. ToldInv' BY <1>0, <1>2, <2>1, <2>6, <2>7 DEF ServerInv, ToldInv, Owned
    <2> QED BY <1>0, <2>2, <2>3, <2>4, <2>5, <2>8 DEF ServerInv, OwnInv
  <1>3. CASE ProgramOpen
    <2>1. PICK f \in Fds : f = Min(FreeFds) /\ desc[f] = Free BY <1>3, FreeFdIsOne DEF ProgramOpen
    <2>2. desc' = [desc EXCEPT ![f] = Fd("program")] /\ UNCHANGED pending
      BY <1>3, <2>1 DEF ProgramOpen, clientVars
    <2>3. "program" \in Kinds /\ ServerTypes /\ desc[f].kind = "free"
      BY <2>1 DEF Kinds, ServerInv, Free
    <2> QED BY <1>2, <1>t, <2>2, <2>3, OneDescriptor
  <1>4. ASSUME NEW f \in Fds, ProgramClose(f) PROVE ServerInv'
    <2>1. desc[f].kind = "program" /\ desc' = [desc EXCEPT ![f] = Free] /\ UNCHANGED pending
      BY <1>4 DEF ProgramClose, CloseFd
    <2> QED BY <1>2, <2>1, DescriptorCloses DEF ServerInv
  <1> QED BY <1>1, <1>3, <1>4

\* mtt_http_reset_for_fork closes the inherited socket, and start begins again.
LEMMA ForkKeepsServer ==
  ASSUME ServerInv, Fork
  PROVE  ServerInv'
  <1>0. /\ stop = "no" /\ running' = FALSE /\ pending' = 0 /\ wrapped' = FALSE
        /\ start' = NoStart(start.asked) /\ http' = NoHttp
        /\ inherited' = {f \in Fds : desc'[f].kind \in {"client", "listen"}}
        /\ UNCHANGED <<stop, starved, early, orphan>>
    BY DEF Fork
  <1>t. /\ desc \in [Fds -> [kind : Kinds, port : Ports]] /\ misused \in BOOLEAN /\ 0 \in Ports
        /\ listen_fd \in Fds \cup {0, -1} /\ start \in StartType
    BY ZeroIsPort DEF ServerInv, ServerTypes
  <1>1. /\ start' \in StartType /\ start'.pc = "socket"
    BY <1>0, <1>t DEF NoStart, StartType
  <1>2. http' \in HttpType /\ http'.pc = "none" BY <1>0, NoHttpType DEF NoHttp
  <1>3. /\ desc' \in [Fds -> [kind : Kinds, port : Ports]] /\ listen_fd' \in {0, -1}
        /\ misused' \in BOOLEAN /\ (~orphan => ~misused')
    <2>1. CASE listen_fd > 0
      <3>1. /\ listen_fd' = -1 /\ misused' = (misused \/ desc[listen_fd].kind = "program")
            /\ desc' = [desc EXCEPT ![listen_fd] = Free]
        BY <2>1 DEF Fork, Takes
      <3>2. PICK f \in Fds : f = listen_fd BY <1>t, <2>1
      <3>3. desc' \in [Fds -> [kind : Kinds, port : Ports]]
        BY <3>1, <3>2, DescriptorCloses DEF ServerInv
      <3>4. Owned \/ Stale BY <1>0, <2>1 DEF ServerInv, OwnInv, PublishedInv
      <3>5. ~orphan => ~misused' BY <3>1, <3>4 DEF ServerInv, OwnInv, Owned, Stale
      <3>6. misused' \in BOOLEAN BY <3>1
      <3> QED BY <3>1, <3>3, <3>5, <3>6
    <2>2. CASE ~(listen_fd > 0)
      <3>1. UNCHANGED <<listen_fd, desc, misused>> BY <2>2 DEF Fork
      <3>2. listen_fd \in {0, -1} BY <1>t, <2>2, HttpServerConstants
      <3> QED BY <1>t, <3>1, <3>2 DEF ServerInv, OwnInv
    <2> QED BY <2>1, <2>2
  <1>4. ServerTypes' BY <1>0, <1>1, <1>3 DEF ServerInv, ServerTypes
  <1>5. StartInv' BY <1>0, <1>1, <1>2, <1>3 DEF StartInv
  <1>6. PublishedInv' BY <1>0, <1>1, <1>2, <1>3 DEF PublishedInv
  <1>7. SocketsInv' BY <1>0 DEF SocketsInv
  <1>8. ToldInv' BY <1>0, <1>1, <1>2 DEF ToldInv
  <1> QED BY <1>0, <1>2, <1>3, <1>4, <1>5, <1>6, <1>7, <1>8 DEF ServerInv, OwnInv

\* The server's invariant, in every process and its child.
THEOREM ServerInvariant == Spec => []ServerInv
  <1>1. Init => ServerInv
    <2> SUFFICES ASSUME Init PROVE ServerInv OBVIOUS
    <2>1. PICK p : /\ p \in (IF "off" \in parts THEN {0}
                             ELSE IF "ports" \in parts THEN Requested ELSE {DefaultPort})
                   /\ start = NoStart(p)
      BY DEF Init
    <2>2. 0 \in Ports BY ZeroIsPort
    <2>3. p \in Ports BY <2>1, <2>2, HttpServerConstants
    <2>4. start \in StartType /\ start.pc = "socket" BY <2>1, <2>2, <2>3 DEF NoStart, StartType
    <2>5. /\ running = FALSE /\ listen_fd = 0 /\ http = NoHttp /\ stop = "no" /\ pending = 0
          /\ {early, wrapped, orphan, starved, misused} = {FALSE}
          /\ desc = [f \in Fds |-> IF f = 0 /\ "daemon" \notin parts THEN Fd("program") ELSE Free]
      BY DEF Init
    <2>6. /\ Free \in [kind : Kinds, port : Ports] /\ Free.kind = "free"
          /\ Fd("program") \in [kind : Kinds, port : Ports] /\ Fd("program").kind = "program"
      <3>1. Free \in [kind : Kinds, port : Ports] /\ Free.kind = "free"
        BY <2>2 DEF Free, Kinds
      <3>2. "program" \in Kinds BY DEF Kinds
      <3> QED BY <3>1, <3>2 DEF Fd
    <2>7. /\ desc \in [Fds -> [kind : Kinds, port : Ports]]
          /\ \A f \in Fds : desc[f].kind \in {"free", "program"}
      BY <2>5, <2>6
    <2>8. http \in HttpType /\ http.pc = "none" BY <2>5, NoHttpType DEF NoHttp
    <2>9. ServerTypes BY <2>4, <2>5, <2>7 DEF ServerTypes
    <2>10. OwnInv
      <3>1. ~misused BY <2>5
      <3>2. \A f \in Fds : desc[f].kind # "listen" BY <2>7
      <3>3. StartInv /\ PublishedInv BY <2>4, <2>5, <2>8 DEF StartInv, PublishedInv
      <3> QED BY <3>1, <3>2, <3>3 DEF OwnInv, SocketsInv
    <2>11. ToldInv BY <2>4, <2>5, <2>8 DEF ToldInv
    <2> QED BY <2>8, <2>9, <2>10, <2>11 DEF ServerInv
  <1>2. ServerInv /\ CacheInv' /\ [Next]_vars => ServerInv'
    <2> SUFFICES ASSUME ServerInv, CacheInv', [Next]_vars PROVE ServerInv' OBVIOUS
    <2>0. http' \in HttpType /\ pending \in Nat
      BY DEF CacheInv, CacheTypes, ServerInv, ServerTypes
    <2>1. CASE UNCHANGED serviceVars
      BY <2>0, <2>1, ServerKept DEF serviceVars, serverVars, startVars, clientVars
    <2>2. CASE StartStep
      BY <2>2, StartSocketStep, StartBindStep, StartListenStep, StartRunStep DEF StartStep
    <2>3. CASE HttpStep BY <2>0, <2>3, HttpKeepsServer
    <2>4. CASE StopFlag \/ StopStep BY <2>4, StopKeepsServer
    <2>5. CASE \/ Connect \/ SlowClient \/ ProgramOpen
               \/ (\E f \in Fds : ProgramClose(f)) \/ (\E p \in Ports : Release(p))
      BY <2>5, WorldKeepsServer
    <2>6. CASE Fork BY <2>6, ForkKeepsServer
    <2>7. CASE Points \/ ScanStarts \/ Scan BY <2>1, <2>7 DEF Points, ScanStarts, Scan
    <2>8. CASE UNCHANGED vars BY <2>1, <2>8 DEF vars
    <2> QED BY <2>2, <2>3, <2>4, <2>5, <2>6, <2>7, <2>8 DEF Next
  <1> QED BY <1>1, <1>2, CacheInvariant, PTL DEF Spec

\* The tool closes its own sockets and nobody else's, and leaves none when the
\* program ends (http_server.c:785-792, 801-810), whatever descriptors the program
\* opens and closes meanwhile, in the process and in its child.
THEOREM DescriptorsAreOwn == Spec => []OwnDescriptors
  <1>1. ServerInv => OwnDescriptors
    <2> SUFFICES ASSUME ServerInv, ~orphan PROVE OwnDescriptors BY DEF OwnDescriptors
    <2>1. ~misused BY DEF ServerInv, OwnInv
    <2>2. ASSUME stop = "done", ~early, NEW f \in Fds \ (inherited \cup {0})
          PROVE  desc[f].kind # "listen"
      <3>1. start.pc = "done" /\ listen_fd \in {0, -1}
        BY <2>2 DEF ServerInv, OwnInv, StartInv, PublishedInv
      <3>2. f # 0 /\ f # -1 BY HttpServerConstants
      <3> QED BY <3>1, <3>2 DEF ServerInv, OwnInv, SocketsInv
    <2> QED BY <2>1, <2>2 DEF OwnDescriptors
  <1> QED BY <1>1, ServerInvariant, PTL

\* What mtt_http_server_start returns is true until the program exits: a port is
\* the one its socket is bound to and that the thread serves, and 0 means that
\* nobody does (http_server.h:36).
THEOREM PortIsServed == Spec => []ServesAsTold
  <1>1. ServerInv => ServesAsTold
    <2> SUFFICES ASSUME ServerInv, start.pc = "done", stop = "no", ~wrapped PROVE ServesAsTold
      BY DEF ServesAsTold
    <2>1. CASE start.ret = 0 BY <2>1 DEF ServerInv, ToldInv, ServesAsTold
    <2>2. CASE start.ret # 0
      <3>1. /\ running /\ http.pc # "none" /\ desc[listen_fd].port = start.ret
            /\ http.pc # "ended" \/ starved
        BY <2>2 DEF ServerInv, ToldInv
      <3>2. Owned BY <3>1 DEF ServerInv, OwnInv, PublishedInv, Stale
      <3>3. desc[listen_fd] \in [kind : Kinds, port : Ports]
        BY <3>2 DEF Owned, ServerInv, ServerTypes
      <3>4. desc[listen_fd] = [kind |-> "listen", port |-> start.ret]
        BY <3>1, <3>2, <3>3 DEF Owned
      <3> QED BY <2>2, <3>1, <3>4 DEF ServesAsTold
    <2> QED BY <2>1, <2>2
  <1> QED BY <1>1, ServerInvariant, PTL

=============================================================================
