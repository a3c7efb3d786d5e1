------------------------------ MODULE Sampling ------------------------------
(***************************************************************************)
(* mtt_should_track (tracker.c): which allocations of a program are        *)
(* recorded.  Large and medium requests always are.  Small ones are        *)
(* sampled by bytes (an accumulator shared by all threads, reduced by one  *)
(* step for each record), by count (every period-th call), or not at all.  *)
(* A step is one atomic operation; the accumulator is a size_t of Width    *)
(* bits.                                                                   *)
(***************************************************************************)
EXTENDS Integers, FiniteSets

CONSTANTS
  Threads,
  Modes,      \* "bytes" (sample_rate > 0), "count" (sample_period > 0), "all"
  StepBytes,  \* 1 << sample_rate
  Period,     \* sample_period
  SmallSizes, \* request sizes below MTT_SAMPLE_EXEMPT_THRESHOLD
  Width,      \* bits of a size_t
  MaxCalls    \* bound: calls of mtt_should_track

ASSUME SamplingConstants ==
  /\ Modes \subseteq {"bytes", "count", "all"}
  /\ StepBytes \in Nat \ {0} /\ Period \in Nat \ {0}
  /\ SmallSizes \subseteq Nat \ {0}
  /\ Width \in Nat /\ 2^Width \in Nat /\ StepBytes < 2^Width
  /\ MaxCalls \in Nat

VARIABLES
  mode,        \* which of the two is configured, fixed by mtt_ensure_init
  sample_bytes_accum, sample_counter, skipped_sampled,
  pc,          \* "idle", or "sub": chosen, the step not yet subtracted
  seen,        \* history: bytes of the small requests so far
  taken,       \* history: small requests chosen to be recorded
  gap,         \* history: bytes requested since the last one chosen
  raced,       \* history: a call added between the addition and the
               \* subtraction of another
  calls

vars == <<mode, sample_bytes_accum, sample_counter, skipped_sampled, pc, seen, taken,
          gap, raced, calls>>

Wrap(n) == n % 2^Width

Init ==
  /\ mode \in Modes
  /\ sample_bytes_accum = 0 /\ sample_counter = 0 /\ skipped_sampled = 0
  /\ pc = [t \in Threads |-> "idle"]
  /\ seen = 0 /\ taken = 0 /\ gap = 0 /\ raced = FALSE /\ calls = 0

Call(t) == pc[t] = "idle" /\ calls < MaxCalls /\ calls' = calls + 1

\* The request is recorded, or it is skipped.
Take(n) == taken' = taken + 1 /\ gap' = 0 /\ seen' = seen + n
           /\ UNCHANGED skipped_sampled
Skip(n) == skipped_sampled' = skipped_sampled + 1 /\ gap' = gap + n
           /\ seen' = seen + n /\ UNCHANGED taken

\* size >= MTT_SAMPLE_EXEMPT_THRESHOLD (and so >= MTT_BIG_ALLOC_THRESHOLD):
\* recorded without touching the accumulator or the counter.
Exempt(t) ==
  /\ Call(t)
  /\ UNCHANGED <<mode, sample_bytes_accum, sample_counter, skipped_sampled, pc, seen,
                 taken, gap, raced>>

\* Mutants of FetchAdd: a request that exactly fills the step is skipped;
\* one that would do so is taken early.
FetchAdd_Strict(t, n) ==
  /\ mode = "bytes" /\ Call(t)
  /\ sample_bytes_accum' = Wrap(sample_bytes_accum + n)
  /\ IF Wrap(sample_bytes_accum + n) > StepBytes
     THEN Take(n) /\ pc' = [pc EXCEPT ![t] = "sub"]
     ELSE Skip(n) /\ UNCHANGED pc
  /\ raced' = (raced \/ \E u \in Threads : pc[u] = "sub")
  /\ UNCHANGED <<mode, sample_counter>>
FetchAdd_Early(t, n) ==
  /\ mode = "bytes" /\ Call(t)
  /\ sample_bytes_accum' = Wrap(sample_bytes_accum + n)
  /\ IF Wrap(sample_bytes_accum + n) >= StepBytes - 1
     THEN Take(n) /\ pc' = [pc EXCEPT ![t] = "sub"]
     ELSE Skip(n) /\ UNCHANGED pc
  /\ raced' = (raced \/ \E u \in Threads : pc[u] = "sub")
  /\ UNCHANGED <<mode, sample_counter>>

\* Byte sampling: the accumulator is fetched and increased in one step, and
\* the decision uses the value fetched.
FetchAdd(t, n) ==
  /\ mode = "bytes" /\ Call(t)
  /\ sample_bytes_accum' = Wrap(sample_bytes_accum + n)
  /\ IF Wrap(sample_bytes_accum + n) >= StepBytes
     THEN Take(n) /\ pc' = [pc EXCEPT ![t] = "sub"]
     ELSE Skip(n) /\ UNCHANGED pc
  /\ raced' = (raced \/ \E u \in Threads : pc[u] = "sub")
  /\ UNCHANGED <<mode, sample_counter>>

FetchSub(t) ==
  /\ pc[t] = "sub"
  /\ sample_bytes_accum' = Wrap(sample_bytes_accum - StepBytes)
  /\ pc' = [pc EXCEPT ![t] = "idle"]
  /\ UNCHANGED <<mode, sample_counter, skipped_sampled, seen, taken, gap, raced, calls>>

\* Mutant of Count: the value after the increment is tested.
Count_After(t, n) ==
  /\ mode = "count" /\ Call(t)
  /\ sample_counter' = sample_counter + 1
  /\ IF (sample_counter + 1) % Period = 0 THEN Take(n) ELSE Skip(n)
  /\ UNCHANGED <<mode, sample_bytes_accum, pc, raced>>

\* Count sampling.
Count(t, n) ==
  /\ mode = "count" /\ Call(t)
  /\ sample_counter' = sample_counter + 1
  /\ IF sample_counter % Period = 0 THEN Take(n) ELSE Skip(n)
  /\ UNCHANGED <<mode, sample_bytes_accum, pc, raced>>

\* Neither: every request is recorded.
All(t, n) ==
  /\ mode = "all" /\ Call(t) /\ Take(n)
  /\ UNCHANGED <<mode, sample_bytes_accum, sample_counter, pc, raced>>

Next == \E t \in Threads :
  \/ Exempt(t) \/ FetchSub(t)
  \/ \E n \in SmallSizes : FetchAdd(t, n) \/ Count(t, n) \/ All(t, n)

Spec == Init /\ [][Next]_vars

-----------------------------------------------------------------------------
\* Types; the accumulator is unsigned.
TypeOK ==
  /\ mode \in Modes
  /\ sample_bytes_accum \in 0 .. (2^Width - 1)
  /\ sample_counter \in Nat /\ skipped_sampled \in Nat
  /\ pc \in [Threads -> {"idle", "sub"}]
  /\ seen \in Nat /\ taken \in Nat /\ gap \in Nat /\ raced \in BOOLEAN /\ calls \in Nat

\* "A sample is taken only once 2^N bytes have been saved up" (README.md, byte
\* sampling; tracker.c:550-551): the records taken stand for no more bytes
\* than the program requested, as long as no two calls overlapped between the
\* addition and the subtraction.  Once two did, the accumulator may wrap below
\* zero, and then every later small request is recorded.
OneRecordPerStep == mode = "bytes" /\ ~raced => taken * StepBytes <= seen

\* The program never requests StepBytes bytes in small blocks in a row of
\* which none is recorded: no allocation site is sampled more thinly than
\* the configured rate, under the same condition, and until the small
\* requests add up to what a size_t holds.  (Requests larger than the step
\* leave their excess in the accumulator, and the addition that wraps it
\* skips a request that should have been recorded.)
GapBounded == mode = "bytes" /\ ~raced /\ seen < 2^Width => gap < StepBytes

\* Counting: exactly one call of every Period is recorded, whichever threads
\* make them.
CountExact ==
  mode = "count" => taken = (sample_counter + Period - 1) \div Period
=============================================================================
