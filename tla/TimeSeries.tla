----------------------------- MODULE TimeSeries -----------------------------
(***************************************************************************)
(* The ring of samples behind the dashboard's chart (time_series.c).  The  *)
(* reporter thread every second, and the signal thread at SIGUSR1, read    *)
(* the counters and then store the point under the lock; the HTTP thread   *)
(* and the scans read a range.  A point is known by the moment its         *)
(* counters were read; in a process they only grow, so this orders them.   *)
(***************************************************************************)
EXTENDS Naturals, Sequences, FiniteSets, FiniteSetsExt

CONSTANTS
  Writers,    \* threads that record points
  Capacity,   \* MTT_TS_MAX_POINTS
  MaxPoints   \* bound: points captured

ASSUME TimeSeriesConstants ==
  Capacity \in Nat \ {0} /\ MaxPoints \in Nat

VARIABLES
  ready,      \* g_ts_initialized
  points, head, count,
  held,       \* writer -> the point it has captured and not stored, or NoPoint
  series_lock, \* g_time_series.lock: "none", or "lost" in a child
  clock,      \* points captured so far
  stored      \* history: the points in the order they were stored

seriesVars == <<ready, points, head, count, held, series_lock, clock, stored>>

NoPoint == [at |-> 0, by |-> "none"]
RingSlots == 0 .. Capacity - 1

SeriesInit ==
  /\ ready = FALSE /\ points = [i \in RingSlots |-> NoPoint] /\ head = 0 /\ count = 0
  /\ held = [w \in Writers |-> NoPoint] /\ clock = 0 /\ stored = <<>>
  /\ series_lock = "none"

\* mtt_ts_init clears the ring, once.  A child's call returns early, and leaves
\* the lock as it was copied.
TsInit ==
  /\ ~ready /\ ready' = TRUE
  /\ points' = [i \in RingSlots |-> NoPoint] /\ head' = 0 /\ count' = 0
  /\ UNCHANGED <<held, series_lock, clock, stored>>

\* mtt_ts_record_point, up to the lock: the counters are read one after the
\* other, then /proc/self/statm.
Capture(w) ==
  /\ ready /\ held[w] = NoPoint /\ clock < MaxPoints
  /\ clock' = clock + 1
  /\ held' = [held EXCEPT ![w] = [at |-> clock', by |-> w]]
  /\ UNCHANGED <<ready, points, head, count, series_lock, stored>>

\* Under the lock: the point replaces the oldest one.
Store(w) ==
  /\ held[w] # NoPoint /\ series_lock = "none"
  /\ points' = [points EXCEPT ![head] = held[w]]
  /\ head' = IF head + 1 >= Capacity THEN 0 ELSE head + 1
  /\ count' = count + 1
  /\ held' = [held EXCEPT ![w] = NoPoint]
  /\ stored' = Append(stored, held[w])
  /\ UNCHANGED <<ready, series_lock, clock>>

\* The program goes on as the child of a fork, whose writers start anew.  The
\* ring and its flag are inherited, and so is the lock, from a writer that is
\* storing its point or from a reader.
SeriesFork(reading) ==
  /\ held' = [w \in Writers |-> NoPoint]
  /\ series_lock' \in {series_lock} \cup (IF reading \/ \E w \in Writers : held[w] # NoPoint
                                         THEN {"lost"} ELSE {})
  /\ UNCHANGED <<ready, points, head, count, clock, stored>>

\* Mutant of GetRange: one point less once the ring is full.
GetRange_Short(start, max) ==
  LET valid  == IF count <= Capacity THEN count ELSE Capacity - 1
      oldest == IF count <= Capacity THEN 0 ELSE head
      avail  == IF start < valid THEN valid - start ELSE 0
  IN [k \in 1 .. Min({max, avail}) |->
        IF count <= Capacity THEN points[start + k - 1]
        ELSE points[(oldest + start + k - 1) % Capacity]]

\* mtt_ts_get_range: at most max points, the first start of the ring left out.
GetRange(start, max) ==
  LET valid  == IF count <= Capacity THEN count ELSE Capacity
      oldest == IF count <= Capacity THEN 0 ELSE head
      avail  == IF start < valid THEN valid - start ELSE 0
  IN [k \in 1 .. Min({max, avail}) |->
        IF count <= Capacity THEN points[start + k - 1]
        ELSE points[(oldest + start + k - 1) % Capacity]]

SeriesStep == TsInit \/ \E w \in Writers : Capture(w) \/ Store(w)

-----------------------------------------------------------------------------
\* The last points stored, as many as the ring can hold.
Window == SubSeq(stored, Len(stored) - Min({Len(stored), Capacity}) + 1, Len(stored))

\* Whatever range is asked for, the answer is that part of the last Capacity
\* points stored, oldest first, before and after the ring wraps
\* (time_series.c:148-176); in a child, of those its parent had stored, too.
RangeIsWindow ==
  \A start \in 0 .. Capacity : \A max \in 1 .. Capacity + 1 :
    GetRange(start, max) = SubSeq(Window, start + 1, Min({start + max, Len(Window)}))
=============================================================================
