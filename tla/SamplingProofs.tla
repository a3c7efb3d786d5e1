--------------------------- MODULE SamplingProofs ---------------------------
(***************************************************************************)
(* Proofs about Sampling for any set of threads, step, period, request     *)
(* sizes and width of a size_t.                                            *)
(***************************************************************************)
EXTENDS Sampling, TLAPS

\* Somebody has been chosen and has not subtracted its step yet.
Pending == \E t \in Threads : pc[t] = "sub"

\* Without a race, one thread at a time is between addition and subtraction.
OnePending ==
  ~raced => \A t, u \in Threads : pc[t] = "sub" /\ pc[u] = "sub" => t = u

\* The steps taken and the rest in the accumulator come out of the bytes
\* requested; the one chosen last still has its step in the accumulator.
BytesInv ==
  mode = "bytes" /\ ~raced =>
    /\ ~Pending => taken * StepBytes + sample_bytes_accum <= seen
    /\ Pending => /\ taken * StepBytes + sample_bytes_accum <= seen + StepBytes
                  /\ sample_bytes_accum >= StepBytes

\* What has gone unrecorded is in the accumulator.
GapInv ==
  mode = "bytes" /\ ~raced /\ seen < 2^Width =>
    /\ gap < StepBytes
    /\ Pending => gap = 0
    /\ gap <= sample_bytes_accum

\* Only the byte mode leaves a subtraction pending.
ModeInv == Pending => mode = "bytes"

\* The inductive invariant.
SamplingInv == TypeOK /\ OnePending /\ BytesInv /\ GapInv /\ ModeInv /\ CountExact

-----------------------------------------------------------------------------
(* Arithmetic.                                                             *)

\* A sum that fits is not changed by wrapping, and none is made larger.
LEMMA WrapFacts ==
  ASSUME NEW n \in Nat
  PROVE  /\ Wrap(n) \in 0 .. (2^Width - 1) /\ Wrap(n) <= n
         /\ n < 2^Width => Wrap(n) = n
  <1> DEFINE m == 2^Width
  <1>1. m \in Nat \ {0} BY SamplingConstants
  <1> HIDE DEF m
  <1>2. n % m \in 0 .. (m - 1) /\ n % m <= n BY <1>1
  <1>3. n < m => n % m = n BY <1>1
  <1> QED BY <1>2, <1>3 DEF m, Wrap

\* An accumulator below zero wraps to a value of the same range.
LEMMA WrapRange ==
  ASSUME NEW n \in Int
  PROVE  Wrap(n) \in 0 .. (2^Width - 1)
  <1> DEFINE m == 2^Width
  <1>1. m \in Nat \ {0} BY SamplingConstants
  <1> HIDE DEF m
  <1>2. n % m \in 0 .. (m - 1) BY <1>1
  <1> QED BY <1>2 DEF m, Wrap

\* A quotient is known by a remainder in its range.
LEMMA Quotient ==
  ASSUME NEW m \in Nat \ {0}, NEW a \in Int, NEW q \in Int, NEW r \in 0 .. (m - 1),
         a = m * q + r
  PROVE  a \div m = q
  OBVIOUS

\* The rounded-up quotient goes up with a call whose number the period
\* divides, and with no other.
LEMMA NextQuotient ==
  ASSUME NEW m \in Nat \ {0}, NEW c \in Nat
  PROVE  (c + 1 + m - 1) \div m =
           (c + m - 1) \div m + (IF c % m = 0 THEN 1 ELSE 0)
  <1> DEFINE q == c \div m
             r == c % m
  <1>1. q \in Int /\ r \in 0 .. (m - 1) /\ c = (m * q) + r OBVIOUS
  <1> HIDE DEF q, r
  <1>2. m * (q + 1) = (m * q) + m BY <1>1
  <1>3. (c + 1 + m - 1) \div m = q + 1
    <2>1. c + 1 + m - 1 = (m * (q + 1)) + r BY <1>1, <1>2
    <2> QED BY <1>1, <2>1, Quotient
  <1>4. CASE r = 0
    <2>1. c + m - 1 = (m * q) + (m - 1) BY <1>1, <1>4
    <2>2. (c + m - 1) \div m = q BY <1>1, <2>1, Quotient
    <2> QED BY <1>1, <1>3, <1>4, <2>2 DEF r
  <1>5. CASE r # 0
    <2>1. c + m - 1 = (m * (q + 1)) + (r - 1) BY <1>1, <1>2
    <2>2. (c + m - 1) \div m = q + 1 BY <1>1, <1>5, <2>1, Quotient
    <2> QED BY <1>1, <1>3, <1>5, <2>2 DEF r
  <1> QED BY <1>4, <1>5

-----------------------------------------------------------------------------
\* The first state.
LEMMA InvInit == Init => SamplingInv
  <1> SUFFICES ASSUME Init PROVE SamplingInv
    OBVIOUS
  <1> USE SamplingConstants
  <1>1. TypeOK
    <2>1. pc \in [Threads -> {"idle", "sub"}] BY DEF Init
    <2>2. raced \in BOOLEAN BY DEF Init
    <2> QED BY <2>1, <2>2 DEF Init, TypeOK
  <1>2. ~Pending BY DEF Init, Pending
  <1>3. CountExact
    <2>1. Period - 1 = (Period * 0) + (Period - 1) OBVIOUS
    <2>2. (Period - 1) \div Period = 0 BY <2>1, Quotient
    <2> QED BY <2>2 DEF Init, CountExact
  <1>4. OnePending BY <1>2 DEF OnePending, Pending
  <1>5. BytesInv
    <2>1. 0 * StepBytes = 0 OBVIOUS
    <2> QED BY <1>2, <2>1 DEF Init, BytesInv
  <1>6. GapInv BY <1>2 DEF Init, GapInv
  <1>7. ModeInv BY <1>2 DEF ModeInv
  <1> QED BY <1>1, <1>3, <1>4, <1>5, <1>6, <1>7 DEF SamplingInv

\* A call that touches neither the accumulator nor the counter.
LEMMA ExemptStep ==
  ASSUME SamplingInv, NEW t \in Threads, Exempt(t)
  PROVE  SamplingInv'
  BY DEF SamplingInv, TypeOK, OnePending, BytesInv, GapInv, ModeInv, CountExact, Pending,
         Exempt, Call

\* A request recorded by the mode without sampling.
LEMMA AllStep ==
  ASSUME SamplingInv, NEW t \in Threads, NEW n \in SmallSizes, All(t, n)
  PROVE  SamplingInv'
  <1> USE SamplingConstants DEF SamplingInv
  <1>1. mode' = "all" /\ mode = "all" /\ pc' = pc /\ raced' = raced BY DEF All
  <1>2. TypeOK' BY DEF TypeOK, All, Call, Take
  <1>3. OnePending' BY <1>1 DEF OnePending
  <1>4. BytesInv' /\ GapInv' /\ CountExact' BY <1>1 DEF BytesInv, GapInv, CountExact
  <1>5. ModeInv' BY <1>1 DEF ModeInv, Pending
  <1> QED BY <1>2, <1>3, <1>4, <1>5

\* A call of the count mode.
LEMMA CountStep ==
  ASSUME SamplingInv, NEW t \in Threads, NEW n \in SmallSizes, Count(t, n)
  PROVE  SamplingInv'
  <1> USE SamplingConstants DEF SamplingInv
  <1>1. mode' = "count" /\ mode = "count" /\ pc' = pc /\ raced' = raced BY DEF Count
  <1>2. TypeOK' BY DEF TypeOK, Count, Call, Take, Skip
  <1>3. OnePending' BY <1>1 DEF OnePending
  <1>4. BytesInv' /\ GapInv' BY <1>1 DEF BytesInv, GapInv
  <1>5. ModeInv' BY <1>1 DEF ModeInv, Pending
  <1>6. CountExact'
    <2>1. sample_counter \in Nat /\ taken \in Nat BY DEF TypeOK
    <2>2. taken' = taken + (IF sample_counter % Period = 0 THEN 1 ELSE 0)
      BY <2>1 DEF Count, Take, Skip
    <2>3. sample_counter' = sample_counter + 1 BY DEF Count
    <2>4. taken = (sample_counter + Period - 1) \div Period BY <1>1 DEF CountExact
    <2>5. (sample_counter + 1 + Period - 1) \div Period = taken'
      BY <2>1, <2>2, <2>4, NextQuotient
    <2> QED BY <1>1, <2>3, <2>5 DEF CountExact
  <1> QED BY <1>2, <1>3, <1>4, <1>5, <1>6

\* The addition, and the decision on the value it fetched.
LEMMA FetchAddStep ==
  ASSUME SamplingInv, NEW t \in Threads, NEW n \in SmallSizes, FetchAdd(t, n)
  PROVE  SamplingInv'
  <1> USE SamplingConstants DEF SamplingInv
  <1> DEFINE a == Wrap(sample_bytes_accum + n)
  <1>1. n \in Nat \ {0} /\ sample_bytes_accum \in Nat /\ seen \in Nat /\ taken \in Nat
        /\ gap \in Nat
    BY DEF TypeOK
  <1>2. /\ a \in 0 .. (2^Width - 1) /\ a <= sample_bytes_accum + n
        /\ sample_bytes_accum + n < 2^Width => a = sample_bytes_accum + n
    BY <1>1, WrapFacts
  <1>3. /\ mode = "bytes" /\ mode' = "bytes" /\ sample_counter' = sample_counter
        /\ sample_bytes_accum' = a /\ seen' = seen + n /\ pc[t] = "idle"
        /\ calls' = calls + 1 /\ raced' = (raced \/ Pending)
    BY DEF FetchAdd, Call, Take, Skip, Pending
  <1>4. \/ /\ a >= StepBytes /\ taken' = taken + 1 /\ gap' = 0
           /\ skipped_sampled' = skipped_sampled /\ pc' = [pc EXCEPT ![t] = "sub"]
        \/ /\ a < StepBytes /\ taken' = taken /\ gap' = gap + n
           /\ skipped_sampled' = skipped_sampled + 1 /\ pc' = pc
    BY <1>2 DEF FetchAdd, Take, Skip
  <1> HIDE DEF a
  <1>5. TypeOK'
    <2>1. pc' \in [Threads -> {"idle", "sub"}] BY <1>4 DEF TypeOK
    <2>2. raced' \in BOOLEAN BY <1>3
    <2> QED BY <1>1, <1>2, <1>3, <1>4, <2>1, <2>2 DEF TypeOK
  <1>6. ModeInv' BY <1>3 DEF ModeInv
  <1>7. CountExact' BY <1>3 DEF CountExact
  <1>8. ASSUME ~raced' PROVE ~raced /\ ~Pending BY <1>3, <1>8
  <1>9. OnePending'
    <2> SUFFICES ASSUME ~raced' PROVE \A u \in Threads : pc'[u] = "sub" => u = t
      BY DEF OnePending
    <2> QED BY <1>4, <1>8 DEF Pending, TypeOK
  <1>10. (taken + 1) * StepBytes = (taken * StepBytes) + StepBytes /\ taken * StepBytes \in Nat
    BY <1>1
  <1>11. \/ Pending' /\ a >= StepBytes /\ taken' = taken + 1 /\ gap' = 0
         \/ a < StepBytes /\ taken' = taken /\ gap' = gap + n /\ (Pending' <=> Pending)
    BY <1>4 DEF Pending, TypeOK
  <1>12. BytesInv'
    <2> SUFFICES ASSUME ~raced' PROVE BytesInv' BY DEF BytesInv
    <2>1. (taken * StepBytes) + sample_bytes_accum <= seen BY <1>3, <1>8 DEF BytesInv
    <2> DEFINE T == taken * StepBytes
    <2>2. T \in Nat /\ T + sample_bytes_accum <= seen BY <1>10, <2>1
    <2>3. taken' * StepBytes = IF taken' = taken + 1 THEN T + StepBytes ELSE T
      BY <1>1, <1>10, <1>11
    <2> HIDE DEF T
    <2>4. CASE Pending' /\ a >= StepBytes /\ taken' = taken + 1
      BY <1>1, <1>2, <1>3, <2>2, <2>3, <2>4 DEF BytesInv
    <2>5. CASE a < StepBytes /\ taken' = taken /\ ~Pending'
      BY <1>1, <1>2, <1>3, <2>2, <2>3, <2>5 DEF BytesInv
    <2> QED BY <1>8, <1>11, <2>4, <2>5
  <1>13. GapInv'
    <2> SUFFICES ASSUME ~raced', seen' < 2^Width
                 PROVE  gap' < StepBytes /\ (Pending' => gap' = 0) /\ gap' <= a
      BY <1>3 DEF GapInv
    <2>1. (taken * StepBytes) + sample_bytes_accum <= seen BY <1>3, <1>8 DEF BytesInv
    <2>2. sample_bytes_accum <= seen BY <1>1, <1>10, <2>1
    <2>3. a = sample_bytes_accum + n BY <1>1, <1>2, <1>3, <2>2
    <2>4. gap <= sample_bytes_accum BY <1>1, <1>3, <1>8 DEF GapInv
    <2> QED BY <1>1, <1>2, <1>8, <1>11, <2>3, <2>4
  <1> QED BY <1>5, <1>6, <1>7, <1>9, <1>12, <1>13

\* The subtraction.
LEMMA FetchSubStep ==
  ASSUME SamplingInv, NEW t \in Threads, FetchSub(t)
  PROVE  SamplingInv'
  <1> USE SamplingConstants DEF SamplingInv
  <1> DEFINE a == Wrap(sample_bytes_accum - StepBytes)
  <1>1. sample_bytes_accum \in Nat /\ seen \in Nat /\ taken \in Nat /\ gap \in Nat
        /\ taken * StepBytes \in Nat
    BY DEF TypeOK
  <1>2. a \in 0 .. (2^Width - 1) BY <1>1, WrapRange
  <1>3. /\ sample_bytes_accum' = a /\ pc' = [pc EXCEPT ![t] = "idle"] /\ pc[t] = "sub"
        /\ UNCHANGED <<mode, sample_counter, skipped_sampled, seen, taken, gap, raced, calls>>
    BY DEF FetchSub
  <1>4. Pending BY <1>3 DEF Pending
  <1>5. mode = "bytes" BY <1>4 DEF ModeInv
  <1>6. ~raced => ~Pending' BY <1>3 DEF Pending, OnePending, TypeOK
  <1>7. ~raced => a = sample_bytes_accum - StepBytes
    <2> SUFFICES ASSUME ~raced PROVE a = sample_bytes_accum - StepBytes OBVIOUS
    <2>1. sample_bytes_accum - StepBytes \in Nat /\ sample_bytes_accum - StepBytes < 2^Width
      BY <1>1, <1>4, <1>5 DEF BytesInv, TypeOK
    <2> QED BY <2>1, WrapFacts
  <1> HIDE DEF a
  <1>8. TypeOK'
    <2>1. pc' \in [Threads -> {"idle", "sub"}] BY <1>3 DEF TypeOK
    <2> QED BY <1>2, <1>3, <2>1 DEF TypeOK
  <1>9. OnePending' BY <1>3, <1>6 DEF OnePending, Pending
  <1>10. BytesInv'
    <2> SUFFICES ASSUME ~raced PROVE BytesInv' BY <1>3 DEF BytesInv
    <2> DEFINE T == taken * StepBytes
    <2>1. T + sample_bytes_accum <= seen + StepBytes BY <1>4, <1>5 DEF BytesInv
    <2>2. taken' * StepBytes = T BY <1>3
    <2>3. T \in Nat BY <1>1
    <2> HIDE DEF T
    <2> QED BY <1>1, <1>3, <1>6, <1>7, <2>1, <2>2, <2>3 DEF BytesInv
  <1>11. GapInv'
    <2> SUFFICES ASSUME ~raced, seen < 2^Width PROVE gap = 0 /\ gap <= a /\ ~Pending'
      BY <1>3 DEF GapInv
    <2>1. gap = 0 BY <1>4, <1>5 DEF GapInv
    <2> QED BY <1>2, <1>6, <2>1
  <1>12. ModeInv' BY <1>3, <1>5 DEF ModeInv
  <1>13. CountExact' BY <1>3 DEF CountExact
  <1> QED BY <1>8, <1>9, <1>10, <1>11, <1>12, <1>13

\* Every step keeps the invariant.
LEMMA InvStep == SamplingInv /\ [Next]_vars => SamplingInv'
  <1> SUFFICES ASSUME SamplingInv, [Next]_vars PROVE SamplingInv'
    OBVIOUS
  <1>1. CASE UNCHANGED vars
    BY <1>1 DEF vars, SamplingInv, TypeOK, OnePending, BytesInv, GapInv, ModeInv,
                CountExact, Pending
  <1> QED BY <1>1, ExemptStep, AllStep, CountStep, FetchAddStep, FetchSubStep DEF Next

\* The invariant holds in every state.
THEOREM SamplingInvariant == Spec => []SamplingInv
  BY InvInit, InvStep, PTL DEF Spec

\* The state of mtt_should_track (tracker.c:557-595) keeps its types; the
\* accumulator never leaves the range of a size_t.
THEOREM SamplingTypes == Spec => []TypeOK
  <1>1. SamplingInv => TypeOK BY DEF SamplingInv
  <1> QED BY <1>1, SamplingInvariant, PTL

\* Byte sampling (tracker.c:572-583) never records more than the bytes
\* requested pay for, unless two calls overlapped.
THEOREM RecordsPaidFor == Spec => []OneRecordPerStep
  <1>1. SamplingInv => OneRecordPerStep
    <2> SUFFICES ASSUME SamplingInv, mode = "bytes", ~raced
                 PROVE  taken * StepBytes <= seen
      BY DEF OneRecordPerStep
    <2> DEFINE T == taken * StepBytes
    <2>1. T \in Nat /\ seen \in Nat /\ sample_bytes_accum \in Nat
      BY SamplingConstants DEF SamplingInv, TypeOK
    <2>2. \/ T + sample_bytes_accum <= seen
          \/ T + sample_bytes_accum <= seen + StepBytes /\ sample_bytes_accum >= StepBytes
      BY DEF SamplingInv, BytesInv
    <2> HIDE DEF T
    <2>3. T <= seen BY <2>1, <2>2, SamplingConstants
    <2> QED BY <2>3 DEF T
  <1> QED BY <1>1, SamplingInvariant, PTL

\* Nor does it leave a step's worth of requests in a row unrecorded
\* (tracker.c:572-583), under the conditions of GapBounded.
THEOREM GapsBounded == Spec => []GapBounded
  <1>1. SamplingInv => GapBounded BY DEF SamplingInv, GapInv, GapBounded
  <1> QED BY <1>1, SamplingInvariant, PTL

\* Count sampling (tracker.c:586-595) records exactly one call of each
\* period, whichever threads make them.
THEOREM CountsExact == Spec => []CountExact
  <1>1. SamplingInv => CountExact BY DEF SamplingInv
  <1> QED BY <1>1, SamplingInvariant, PTL
=============================================================================
