----------------------------- MODULE ForkProofs -----------------------------
(***************************************************************************)
(* Proofs about Fork: a mutex is released by the thread that locked it, in *)
(* the parent and in the child, for any number of threads and stripes.     *)
(***************************************************************************)
EXTENDS Fork, TLAPS

-----------------------------------------------------------------------------
(* The inductive invariant.                                                *)

Ops == ({"lock", "unlock", "try", "fork"} \X Locks)
       \cup ({"init", "start"} \X {Single("init")})
       \cup ({"check", "make"} \X {Single("tsinit")})

\* What a thread does that starts the tool, after mtt_ensure_init.
Starts == {"check", "make", "start"}

\* The mutexes that mtt_ts_init and mtt_reporter_start make, while the tool is
\* starting.
Late == {Single("ts"), Single("scan"), Single("cache")}
HookLocks == Locks \ (Late \cup {Single("tsinit")})

ForkTypes ==
  /\ side \in {"parent", "child"}
  /\ locks \in [Locks -> Threads \cup {"none", "lost"}]
  /\ alive \subseteq Threads /\ todo \in [Threads -> Seq(Ops)]
  /\ initialized \in BOOLEAN /\ ts_ready \in BOOLEAN
  /\ registered \in BOOLEAN /\ remade \in BOOLEAN
  /\ \A t \in Threads \ alive : todo[t] = <<>>

\* The operation may change who has the mutex l.
Touches(op, l) ==
  (op[2] = l /\ op[1] \notin {"fork", "start"}) \/ (op[1] \in {"make", "start"} /\ l \in Late)

\* The operation at place k is for the owner of its mutex only.
Ends == {"unlock", "init", "make"}
\* Its mutex is locked at an earlier place, and nothing happens to it between.
Opened(s, k) ==
  \E j \in 1 .. k - 1 :
    /\ s[j][1] = "lock" /\ s[j][2] = s[k][2]
    /\ \A i \in j + 1 .. k - 1 : ~Touches(s[i], s[k][2])
\* Nothing happens to the mutex l before place k.
Untouched(s, k, l) == \A i \in 1 .. k - 1 : ~Touches(s[i], l)
Owns(t, k) ==
  locks[todo[t][k][2]] = t /\ Untouched(todo[t], k, todo[t][k][2])

\* A thread that is to release a mutex has it, or will lock it before.
OwnInv ==
  ~remade => \A t \in Threads : \A k \in DOMAIN todo[t] :
    todo[t][k][1] \in Ends => Opened(todo[t], k) \/ Owns(t, k)

Has(s, kind) == \E k \in DOMAIN s : s[k][1] = kind
Starting(s) == \E k \in DOMAIN s : s[k][1] \in Starts
Early(s) == \A k \in DOMAIN s : s[k][2] \notin Late

\* mtt_ensure_init is not called within mtt_ts_init.
Outside(s) == \A j, k \in DOMAIN s :
  s[j][1] = "init" /\ j < k => s[k][2] # Single("tsinit")

\* One thread starts the tool, in a hook, which takes no late mutex.
StartInv ==
  /\ \A t \in Threads : Has(todo[t], "init") \/ Starting(todo[t]) => Early(todo[t])
  /\ \A t \in Threads : Starting(todo[t]) => initialized
  /\ \A t \in Threads : Outside(todo[t])
  /\ \A t, u \in Threads : \A j \in DOMAIN todo[t], k \in DOMAIN todo[u] :
       todo[t][j][1] \in Starts /\ todo[u][k][1] \in Starts => t = u /\ j = k

\* Until it has done so nobody uses a late mutex: in the parent there is nobody
\* who would, in the child there is nobody else.
Young == ~initialized \/ \E t \in Threads : Starting(todo[t])
YoungInv ==
  Young =>
    \/ /\ side = "parent" /\ ~registered /\ alive \cap Tools = {}
       /\ \A t \in Threads : Early(todo[t])
    \/ side = "child" /\ \E t \in Threads : alive = {t}

ForkInv == ForkTypes /\ OwnInv /\ StartInv /\ YoungInv

-----------------------------------------------------------------------------
(* Sequences of operations.                                                *)

\* Each release of a call comes after a lock of the call.
Paired(s) == \A k \in DOMAIN s : s[k][1] \in Ends => Opened(s, k)

\* A call that uses the mutexes in L and starts nothing.
IsCall(s, L) == s \in Seq({"lock", "unlock", "try", "fork"} \X L) /\ Paired(s)

\* The names of the mutexes.
LEMMA LockNames ==
  /\ \A i \in Stripes : Bucket(i) \in HookLocks /\ Pool(i) \in HookLocks
  /\ \A n \in Singles : Single(n) \in Locks
  /\ \A n \in Singles \ {"scan", "cache", "ts", "tsinit"} : Single(n) \in HookLocks
  /\ HookLocks \subseteq Locks /\ Late \subseteq Locks
  BY DEF HookLocks, Late, Locks, Bucket, Pool, Single, Singles

\* What is opened stays so behind other operations.
LEMMA OpenedAfter ==
  ASSUME NEW S, NEW a \in Seq(S), NEW b \in Seq(S), NEW m \in 1 .. Len(b), Opened(b, m)
  PROVE  Opened(a \o b, Len(a) + m)
  <1> DEFINE c == a \o b
  <1>1. Len(a) \in Nat /\ Len(b) \in Nat OBVIOUS
  <1>2. \A k \in 1 .. Len(b) : c[Len(a) + k] = b[k] OBVIOUS
  <1> HIDE DEF c
  <1>3. PICK j \in 1 .. m - 1 :
          /\ b[j][1] = "lock" /\ b[j][2] = b[m][2]
          /\ \A i \in j + 1 .. m - 1 : ~Touches(b[i], b[m][2])
    BY DEF Opened
  <1>4. /\ c[Len(a) + j] = b[j] /\ c[Len(a) + m] = b[m]
        /\ Len(a) + j \in 1 .. (Len(a) + m) - 1
    BY <1>1, <1>2, <1>3
  <1>5. ASSUME NEW i \in (Len(a) + j) + 1 .. (Len(a) + m) - 1
        PROVE  ~Touches(c[i], c[Len(a) + m][2])
    <2>1. i - Len(a) \in j + 1 .. m - 1 BY <1>1, <1>3
    <2>2. i - Len(a) \in 1 .. Len(b) /\ Len(a) + (i - Len(a)) = i
      <3>1. j \in Nat /\ j >= 1 /\ m \in Nat /\ m <= Len(b) /\ i \in Nat BY <1>1, <1>3
      <3>2. i - Len(a) >= j + 1 /\ i - Len(a) <= m - 1 BY <2>1
      <3> QED BY <3>1, <3>2, <1>1
    <2>3. c[i] = b[i - Len(a)] BY <2>2, <1>2
    <2> QED BY <1>3, <1>4, <2>1, <2>3
  <1> QED BY <1>3, <1>4, <1>5 DEF Opened, c

\* One call after the other is a call.
LEMMA PairedConcat ==
  ASSUME NEW S, NEW a \in Seq(S), NEW b \in Seq(S), Paired(a), Paired(b)
  PROVE  Paired(a \o b)
  <1> DEFINE c == a \o b
  <1>1. Len(a) \in Nat /\ Len(b) \in Nat /\ DOMAIN a = 1 .. Len(a) /\ DOMAIN b = 1 .. Len(b)
    OBVIOUS
  <1>2. DOMAIN c = 1 .. Len(a) + Len(b) OBVIOUS
  <1>3. \A k \in 1 .. Len(a) : c[k] = a[k] OBVIOUS
  <1>4. \A k \in 1 .. Len(b) : c[Len(a) + k] = b[k] OBVIOUS
  <1> HIDE DEF c
  <1>5. ASSUME NEW k \in DOMAIN c, c[k][1] \in Ends PROVE Opened(c, k)
    <2>1. CASE k \in 1 .. Len(a)
      <3>1. Opened(a, k) BY <1>1, <1>3, <1>5, <2>1 DEF Paired
      <3>2. PICK j \in 1 .. k - 1 :
              /\ a[j][1] = "lock" /\ a[j][2] = a[k][2]
              /\ \A i \in j + 1 .. k - 1 : ~Touches(a[i], a[k][2])
        BY <3>1 DEF Opened
      <3>3. \A i \in 1 .. k : c[i] = a[i] BY <1>1, <1>3, <2>1
      <3> QED BY <3>2, <3>3, <1>1, <2>1 DEF Opened
    <2>2. CASE k \notin 1 .. Len(a)
      <3> DEFINE m == k - Len(a)
      <3>1. m \in 1 .. Len(b) /\ k = Len(a) + m BY <1>1, <1>2, <2>2
      <3> HIDE DEF m
      <3>2. Opened(b, m) BY <1>1, <1>4, <1>5, <3>1 DEF Paired
      <3> QED BY <3>1, <3>2, OpenedAfter DEF c
    <2> QED BY <2>1, <2>2
  <1> QED BY <1>5 DEF Paired, c

\* So it is for calls of one set of mutexes.
LEMMA CallConcat ==
  ASSUME NEW L, NEW a, NEW b, IsCall(a, L), IsCall(b, L)
  PROVE  IsCall(a \o b, L)
  <1> DEFINE S == {"lock", "unlock", "try", "fork"} \X L
  <1>1. a \in Seq(S) /\ b \in Seq(S) /\ Paired(a) /\ Paired(b) BY DEF IsCall
  <1>2. a \o b \in Seq(S) BY <1>1
  <1>3. Paired(a \o b) BY <1>1, PairedConcat
  <1> QED BY <1>2, <1>3 DEF IsCall

\* No call at all.
LEMMA CallEmpty == ASSUME NEW L PROVE IsCall(<<>>, L)
  BY DEF IsCall, Paired

\* A mutex that is taken and given back.
LEMMA CallHold ==
  ASSUME NEW L, NEW l \in L
  PROVE  IsCall(Hold(l), L)
  <1> DEFINE s == Hold(l)
  <1>1. s \in Seq({"lock", "unlock", "try", "fork"} \X L) BY DEF Hold
  <1>2. Len(s) = 2 /\ DOMAIN s = 1 .. 2 /\ s[1] = <<"lock", l>> /\ s[2] = <<"unlock", l>>
    BY DEF Hold
  <1> HIDE DEF s
  <1>3. Opened(s, 2) BY <1>2 DEF Opened
  <1>4. Paired(s) BY <1>2, <1>3 DEF Paired, Ends
  <1> QED BY <1>1, <1>4 DEF IsCall, s

\* A call of other mutexes may come between lock and unlock.
LEMMA CallWithin ==
  ASSUME NEW L, NEW l \in L, NEW s, IsCall(s, L \ {l})
  PROVE  IsCall(Within(l, s), L)
  <1> DEFINE S == {"lock", "unlock", "try", "fork"} \X L
             n == Len(s)
             w == Within(l, s)
  <1>1. s \in Seq(S) /\ n \in Nat /\ DOMAIN s = 1 .. n BY DEF IsCall
  <1>2. \A i \in 1 .. n : s[i] \in {"lock", "unlock", "try", "fork"} \X (L \ {l})
    BY DEF IsCall
  <1>3. w \in Seq(S) /\ Len(w) = n + 2 /\ DOMAIN w = 1 .. n + 2 BY <1>1 DEF Within
  <1>4. w[1] = <<"lock", l>> /\ w[n + 2] = <<"unlock", l>> BY <1>1 DEF Within
  <1>5. \A i \in 1 .. n : w[i + 1] = s[i] BY <1>1 DEF Within
  <1>6. Paired(s) BY DEF IsCall
  <1> HIDE DEF n, w
  <1>7. Opened(w, n + 2)
    <2>1. ASSUME NEW i \in 2 .. n + 1 PROVE ~Touches(w[i], l)
      <3>1. i - 1 \in 1 .. n /\ (i - 1) + 1 = i BY <1>1
      <3>2. w[i] = s[i - 1] BY <3>1, <1>5
      <3>3. s[i - 1][1] \notin {"make", "start"} /\ s[i - 1][2] # l BY <3>1, <1>2
      <3> QED BY <3>2, <3>3 DEF Touches
    <2> QED BY <2>1, <1>1, <1>4 DEF Opened
  <1>8. ASSUME NEW k \in 1 .. n, s[k][1] \in Ends PROVE Opened(w, k + 1)
    <2>1. PICK j \in 1 .. k - 1 :
            /\ s[j][1] = "lock" /\ s[j][2] = s[k][2]
            /\ \A i \in j + 1 .. k - 1 : ~Touches(s[i], s[k][2])
      BY <1>1, <1>6, <1>8 DEF Paired, Opened
    <2>2. w[j + 1] = s[j] /\ w[k + 1] = s[k] /\ j + 1 \in 1 .. (k + 1) - 1 BY <1>1, <1>5, <2>1
    <2>3. ASSUME NEW i \in (j + 1) + 1 .. (k + 1) - 1 PROVE ~Touches(w[i], w[k + 1][2])
      <3>1. i - 1 \in j + 1 .. k - 1 /\ i - 1 \in 1 .. n /\ (i - 1) + 1 = i BY <1>1, <2>1
      <3>2. w[i] = s[i - 1] BY <3>1, <1>5
      <3> QED BY <3>1, <3>2, <2>1, <2>2
    <2> QED BY <2>1, <2>2, <2>3 DEF Opened
  <1>9. Paired(w)
    <2> SUFFICES ASSUME NEW k \in 1 .. n + 2, w[k][1] \in Ends PROVE Opened(w, k)
      BY <1>3 DEF Paired
    <2>1. k # 1 BY <1>4 DEF Ends
    <2>2. CASE k = n + 2 BY <1>7, <2>2
    <2>3. CASE k # n + 2
      <3>1. k - 1 \in 1 .. n /\ (k - 1) + 1 = k BY <1>1, <2>1, <2>3
      <3>2. w[k] = s[k - 1] BY <3>1, <1>5
      <3>3. Opened(w, (k - 1) + 1) BY <3>1, <3>2, <1>8
      <3> QED BY <3>1, <3>3
    <2> QED BY <2>2, <2>3
  <1> QED BY <1>3, <1>9 DEF IsCall, w

-----------------------------------------------------------------------------
(* The calls of the tool.                                                  *)

\* A call may use more mutexes than it does.
LEMMA CallMore ==
  ASSUME NEW L, NEW M, L \subseteq M, NEW s, IsCall(s, L)
  PROVE  IsCall(s, M)
  <1>1. {"lock", "unlock", "try", "fork"} \X L \subseteq {"lock", "unlock", "try", "fork"} \X M
    OBVIOUS
  <1>2. s \in Seq({"lock", "unlock", "try", "fork"} \X M) BY <1>1 DEF IsCall
  <1> QED BY <1>2 DEF IsCall

\* mtt_entry_new
LEMMA EntryNewCall ==
  ASSUME NEW i \in Stripes, NEW e \in BOOLEAN
  PROVE  IsCall(EntryNew(i, e), HookLocks)
  <1> DEFINE tries == [k \in 1 .. NStripes - 1 |-> <<"try", Pool((i + k) % NStripes)>>]
             S == {"lock", "unlock", "try", "fork"} \X HookLocks
             rest == IF e THEN tries ELSE <<>>
             own == IF Unwinds THEN Hold(Single("unwind")) ELSE <<>>
  <1>1. NStripes - 1 \in Nat /\ \A k \in 1 .. NStripes - 1 : (i + k) % NStripes \in Stripes
    BY ForkConstants DEF Stripes
  <1>2. tries \in Seq(S)
    <2>1. \A k \in 1 .. NStripes - 1 : <<"try", Pool((i + k) % NStripes)>> \in S
      BY <1>1, LockNames
    <2> QED BY <1>1, <2>1
  <1>3. Paired(tries) BY DEF Paired, Ends
  <1>4. IsCall(rest, HookLocks) BY <1>2, <1>3, CallEmpty DEF IsCall
  <1>5. Single("unwind") \in HookLocks BY LockNames DEF Singles
  <1>6. IsCall(own, HookLocks) BY <1>5, CallHold, CallEmpty
  <1>7. IsCall(Hold(Pool(i)), HookLocks) BY LockNames, CallHold
  <1>8. EntryNew(i, e) = (Hold(Pool(i)) \o rest) \o own BY DEF EntryNew
  <1> HIDE DEF rest, own
  <1> QED BY <1>4, <1>6, <1>7, <1>8, CallConcat

\* mtt_entry_remove
LEMMA EntryRemoveCall ==
  ASSUME NEW i \in Stripes, NEW j \in Stripes
  PROVE  IsCall(EntryRemove(i, j), HookLocks)
  <1>1. Pool(j) \in HookLocks \ {Bucket(i)} BY LockNames DEF Pool, Bucket
  <1>2. IsCall(Hold(Pool(j)), HookLocks \ {Bucket(i)}) BY <1>1, CallHold
  <1> QED BY <1>2, LockNames, CallWithin DEF EntryRemove

\* The hooks of malloc, free and realloc use no late mutex.
LEMMA HookIsCall ==
  ASSUME NEW c \in Malloc \cup Free \cup Realloc
  PROVE  IsCall(c, HookLocks)
  <1>0. \A i \in Stripes : IsCall(Hold(Bucket(i)), HookLocks) /\ IsCall(Hold(Pool(i)), HookLocks)
    BY LockNames, CallHold
  <1>1. CASE c \in Malloc
    <2>1. PICK i \in Stripes, e \in BOOLEAN, d \in {<<>>} \cup {Hold(Pool(j)) : j \in Stripes} :
            c = EntryNew(i, e) \o Hold(Bucket(i)) \o d
      BY <1>1 DEF Malloc
    <2>2. IsCall(d, HookLocks) BY <1>0, CallEmpty
    <2>3. IsCall(EntryNew(i, e) \o Hold(Bucket(i)), HookLocks) BY <1>0, EntryNewCall, CallConcat
    <2> QED BY <2>1, <2>2, <2>3, CallConcat
  <1>2. CASE c \in Free BY <1>0, <1>2, EntryRemoveCall DEF Free
  <1>3. CASE c \in Realloc
    <2>1. PICK i \in Stripes, j \in Stripes, k \in Stripes : c = Renew(i, j, k)
      BY <1>3 DEF Realloc
    <2>2. IsCall(Hold(Bucket(i)) \o EntryRemove(i, j), HookLocks)
      BY <1>0, EntryRemoveCall, CallConcat
    <2>3. IsCall(Hold(Bucket(i)) \o EntryRemove(i, j) \o EntryNew(k, FALSE), HookLocks)
      BY <2>2, EntryNewCall, CallConcat
    <2> QED BY <1>0, <2>1, <2>3, CallConcat DEF Renew
  <1> QED BY <1>1, <1>2, <1>3

\* A scan copies one stripe after the other.
LEMMA CopyCall == IsCall(CopyStripes, HookLocks)
  <1> DEFINE c == CopyStripes  S == {"lock", "unlock", "try", "fork"} \X HookLocks
  <1>1. NStripes \in Nat /\ 2 * NStripes \in Nat BY ForkConstants
  <1>2. ASSUME NEW k \in 1 .. 2 * NStripes PROVE (k - 1) \div 2 \in Stripes
    BY <1>1 DEF Stripes
  <1>3. c \in Seq(S) /\ DOMAIN c = 1 .. 2 * NStripes
    <2>1. ASSUME NEW k \in 1 .. 2 * NStripes
          PROVE  <<IF k % 2 = 1 THEN "lock" ELSE "unlock", Bucket((k - 1) \div 2)>> \in S
      BY <1>2, LockNames
    <2> QED BY <1>1, <2>1 DEF CopyStripes
  <1>4. Paired(c)
    <2> SUFFICES ASSUME NEW k \in 1 .. 2 * NStripes, c[k][1] \in Ends PROVE Opened(c, k)
      BY <1>3 DEF Paired
    <2>1. c[k] = <<IF k % 2 = 1 THEN "lock" ELSE "unlock", Bucket((k - 1) \div 2)>>
      BY DEF CopyStripes
    <2>2. k % 2 # 1 BY <2>1 DEF Ends
    <2>3. k - 1 \in 1 .. 2 * NStripes /\ (k - 1) % 2 = 1 /\ ((k - 1) - 1) \div 2 = (k - 1) \div 2
      BY <2>2, <1>1
    <2>4. c[k - 1] = <<"lock", Bucket((k - 1) \div 2)>> BY <2>3 DEF CopyStripes
    <2> HIDE DEF c
    <2>5. k - 1 \in 1 .. k - 1 /\ (k - 1) + 1 .. k - 1 = {} BY <2>3
    <2> QED BY <2>1, <2>4, <2>5 DEF Opened
  <1> QED BY <1>3, <1>4 DEF IsCall

\* The rounds of the reporter, the signal thread and the HTTP thread.
LEMMA RoundCalls ==
  ASSUME NEW t \in Tools, NEW c \in Round(t)
  PROVE  IsCall(c, Locks)
  <1> DEFINE L == Locks \ {Single("scan")}
             H(n) == Hold(Single(n))
  <1>1. \A n \in {"refresh", "ts", "cache", "stacks"} :
          /\ Single(n) \in L /\ Single(n) \in Locks
          /\ IsCall(H(n), L) /\ IsCall(H(n), Locks)
    <2> SUFFICES ASSUME NEW n \in {"refresh", "ts", "cache", "stacks"}
                 PROVE  /\ Single(n) \in L /\ Single(n) \in Locks
                        /\ IsCall(H(n), L) /\ IsCall(H(n), Locks)
      OBVIOUS
    <2>1. n \in Singles /\ n # "scan" BY DEF Singles
    <2>2. Single(n) # Single("scan") BY <2>1 DEF Single
    <2>3. Single(n) \in Locks BY <2>1, LockNames
    <2> QED BY <2>2, <2>3, CallHold
  <1>2. IsCall(CopyStripes, L)
    <2>1. HookLocks \subseteq L BY LockNames DEF HookLocks, Late
    <2> QED BY <2>1, CopyCall, CallMore
  <1>3. IsCall(Within(Single("cache"), H("ts")), L)
    <2>1. Single("ts") \in L \ {Single("cache")} BY <1>1 DEF Single
    <2>2. IsCall(H("ts"), L \ {Single("cache")}) BY <2>1, CallHold
    <2> QED BY <1>1, <2>2, CallWithin
  <1>4. IsCall(Scan, Locks)
    <2>1. IsCall(H("refresh") \o H("ts"), L) BY <1>1, CallConcat
    <2>2. IsCall(H("refresh") \o H("ts") \o H("cache"), L) BY <1>1, <2>1, CallConcat
    <2>3. IsCall(H("refresh") \o H("ts") \o H("cache") \o CopyStripes, L)
      BY <1>2, <2>2, CallConcat
    <2>4. IsCall(H("refresh") \o H("ts") \o H("cache") \o CopyStripes \o H("stacks"), L)
      BY <1>1, <2>3, CallConcat
    <2>5. IsCall(H("refresh") \o H("ts") \o H("cache") \o CopyStripes \o H("stacks")
                 \o Within(Single("cache"), H("ts")), L)
      BY <1>3, <2>4, CallConcat
    <2>6. Single("scan") \in Locks BY LockNames DEF Singles
    <2> QED BY <2>5, <2>6, CallWithin DEF Scan
  <1>5. IsCall(H("ts") \o Scan, Locks) BY <1>1, <1>4, CallConcat
  <1> QED BY <1>1, <1>5 DEF Round

\* fork takes the stripe locks in order and gives them back in order.
LEMMA ForkCalls == IsCall(ForkCall, HookLocks)
  <1> DEFINE c == ForkCall  n == NStripes  S == {"lock", "unlock", "try", "fork"} \X HookLocks
  <1>1. n \in Nat /\ n > 0 BY ForkConstants
  <1>2. \A i \in 1 .. n : i - 1 \in Stripes BY <1>1 DEF Stripes
  <1>3. \A i \in 1 .. n : Bucket(i - 1) \in HookLocks BY <1>2, LockNames
  <1>4. Prepare \in Seq(S) /\ Len(Prepare) = n BY <1>1, <1>3 DEF Prepare
  <1>5. ForkParent \in Seq(S) /\ Len(ForkParent) = n BY <1>1, <1>3 DEF ForkParent
  <1>6. <<<<"fork", Bucket(0)>>>> \in Seq(S)
    <2>1. Bucket(0) \in HookLocks BY <1>1, LockNames DEF Stripes
    <2> QED BY <2>1
  <1>7. c \in Seq(S) /\ Len(c) = 2 * n + 1
    <2>1. Prepare \o <<<<"fork", Bucket(0)>>>> \in Seq(S) BY <1>4, <1>6
    <2>2. Len(Prepare \o <<<<"fork", Bucket(0)>>>>) = n + 1 BY <1>1, <1>4, <1>6
    <2>3. c = (Prepare \o <<<<"fork", Bucket(0)>>>>) \o ForkParent BY DEF ForkCall
    <2> HIDE DEF c, n
    <2>4. c \in Seq(S) BY <2>1, <2>3, <1>5
    <2>5. Len(c) = (n + 1) + n BY <2>1, <2>2, <2>3, <1>5
    <2> QED BY <2>4, <2>5, <1>1
  <1>8. \A i \in 1 .. n : c[i] = <<"lock", Bucket(i - 1)>>
    <2>1. \A i \in 1 .. n : c[i] = Prepare[i] BY <1>1, <1>4, <1>5, <1>6 DEF ForkCall
    <2> QED BY <2>1 DEF Prepare
  <1>9. c[n + 1] = <<"fork", Bucket(0)>> BY <1>1, <1>4, <1>5, <1>6 DEF ForkCall
  <1>10. \A i \in 1 .. n : c[(n + 1) + i] = <<"unlock", Bucket(i - 1)>>
    <2>1. \A i \in 1 .. n : c[(n + 1) + i] = ForkParent[i]
      BY <1>1, <1>4, <1>5, <1>6 DEF ForkCall
    <2> QED BY <2>1 DEF ForkParent
  <1> HIDE DEF c, n
  <1>11. \A i, j \in 1 .. n : i # j => Bucket(i - 1) # Bucket(j - 1)
    <2>1. \A i, j : Bucket(i) = Bucket(j) => i = j BY DEF Bucket
    <2>2. \A i, j \in 1 .. n : i # j => i - 1 # j - 1 BY <1>1
    <2> QED BY <2>1, <2>2
  <1>12. ASSUME NEW i \in 1 .. n PROVE Opened(c, (n + 1) + i)
    <2>1. ASSUME NEW k \in i + 1 .. ((n + 1) + i) - 1 PROVE ~Touches(c[k], Bucket(i - 1))
      <3>1. CASE k \in 1 .. n
        <4>1. i # k BY <2>1, <1>1
        <4>2. Bucket(i - 1) # Bucket(k - 1) BY <3>1, <4>1, <1>11
        <4> QED BY <3>1, <4>2, <1>8 DEF Touches
      <3>2. CASE k = n + 1 BY <3>2, <1>9 DEF Touches
      <3>3. CASE k > n + 1
        <4>1. k - (n + 1) \in 1 .. n /\ (n + 1) + (k - (n + 1)) = k /\ k - (n + 1) # i
          BY <2>1, <3>3, <1>1
        <4>2. c[k] = <<"unlock", Bucket((k - (n + 1)) - 1)>> BY <4>1, <1>10
        <4>3. Bucket((k - (n + 1)) - 1) # Bucket(i - 1) BY <4>1, <1>11
        <4> QED BY <4>2, <4>3 DEF Touches
      <3> QED BY <3>1, <3>2, <3>3, <2>1, <1>1
    <2>2. c[i] = <<"lock", Bucket(i - 1)>> /\ c[(n + 1) + i] = <<"unlock", Bucket(i - 1)>>
      BY <1>8, <1>10
    <2>3. i \in 1 .. ((n + 1) + i) - 1 BY <1>1
    <2> QED BY <2>1, <2>2, <2>3 DEF Opened
  <1>13. Paired(c)
    <2> SUFFICES ASSUME NEW k \in 1 .. 2 * n + 1, c[k][1] \in Ends PROVE Opened(c, k)
      BY <1>7 DEF Paired
    <2>1. k \notin 1 .. n /\ k # n + 1 BY <1>8, <1>9 DEF Ends
    <2>2. k - (n + 1) \in 1 .. n /\ (n + 1) + (k - (n + 1)) = k BY <2>1, <1>1
    <2>3. Opened(c, (n + 1) + (k - (n + 1))) BY <2>2, <1>12
    <2> QED BY <2>2, <2>3
  <1> QED BY <1>7, <1>13 DEF IsCall, c

-----------------------------------------------------------------------------
(* One operation of a call.                                                *)

\* What follows an operation that is replaced by f.
LEMMA Shifted ==
  ASSUME NEW s \in Seq(Ops), s # <<>>, NEW f \in Seq(Ops)
  PROVE  LET new == f \o Tail(s)
         IN /\ new \in Seq(Ops) /\ Len(f) \in Nat /\ Len(s) \in Nat
            /\ DOMAIN new = 1 .. Len(f) + Len(s) - 1
            /\ \A p \in 1 .. Len(f) : new[p] = f[p]
            /\ \A p \in DOMAIN new : p > Len(f) =>
                 p - Len(f) + 1 \in 2 .. Len(s) /\ new[p] = s[p - Len(f) + 1]
  <1> DEFINE new == f \o Tail(s)
  <1>1. /\ Tail(s) \in Seq(Ops) /\ Len(Tail(s)) = Len(s) - 1
        /\ Len(s) \in Nat /\ Len(s) > 0 /\ Len(f) \in Nat
    OBVIOUS
  <1>2. new \in Seq(Ops) /\ Len(new) = Len(f) + (Len(s) - 1)
    <2> DEFINE b == Tail(s)
    <2>1. b \in Seq(Ops) /\ Len(b) = Len(s) - 1 BY <1>1
    <2> HIDE DEF b
    <2>2. f \o b \in Seq(Ops) /\ Len(f \o b) = Len(f) + Len(b) BY <2>1
    <2> QED BY <2>1, <2>2 DEF b
  <1>3. \A p \in 1 .. Len(f) : new[p] = f[p] BY <1>1
  <1>4. ASSUME NEW p \in 1 .. Len(f) + Len(s) - 1, p > Len(f)
        PROVE  p - Len(f) + 1 \in 2 .. Len(s) /\ new[p] = s[p - Len(f) + 1]
    <2>1. p - Len(f) \in 1 .. Len(Tail(s)) BY <1>1, <1>4
    <2>2. new[p] = Tail(s)[p - Len(f)] BY <1>1, <2>1, <1>4
    <2>3. Tail(s)[p - Len(f)] = s[(p - Len(f)) + 1] BY <1>1, <2>1
    <2> QED BY <1>1, <1>4, <2>2, <2>3
  <1> HIDE DEF new
  <1>5. DOMAIN new = 1 .. Len(f) + Len(s) - 1 BY <1>1, <1>2
  <1> QED BY <1>1, <1>2, <1>3, <1>4, <1>5 DEF new

\* A mutex that was to be locked first is locked now, or nothing has changed.
LEMMA OpenedTail ==
  ASSUME NEW s \in Seq(Ops), s # <<>>, NEW k \in 1 .. Len(Tail(s)), Opened(s, k + 1)
  PROVE  \/ Opened(Tail(s), k)
         \/ /\ s[1][1] = "lock" /\ s[1][2] = Tail(s)[k][2]
            /\ Untouched(Tail(s), k, Tail(s)[k][2])
  <1> DEFINE b == Tail(s)
  <1>1. Len(s) \in Nat /\ Len(b) = Len(s) - 1 /\ \A i \in 1 .. Len(b) : b[i] = s[i + 1]
    OBVIOUS
  <1> HIDE DEF b
  <1>0. k \in 1 .. Len(b) BY DEF b
  <1>2. PICK j \in 1 .. (k + 1) - 1 :
          /\ s[j][1] = "lock" /\ s[j][2] = s[k + 1][2]
          /\ \A i \in j + 1 .. (k + 1) - 1 : ~Touches(s[i], s[k + 1][2])
    BY DEF Opened
  <1>3. b[k] = s[k + 1] BY <1>0, <1>1
  <1>4. ASSUME NEW i \in 1 .. k - 1, i + 1 > j PROVE ~Touches(b[i], b[k][2])
    <2>1. i + 1 \in j + 1 .. (k + 1) - 1 /\ b[i] = s[i + 1] BY <1>0, <1>1, <1>2, <1>4
    <2> QED BY <2>1, <1>2, <1>3
  <1>5. CASE j = 1
    <2>1. Untouched(b, k, b[k][2]) BY <1>4, <1>5 DEF Untouched
    <2> QED BY <1>2, <1>3, <1>5, <2>1 DEF b
  <1>6. CASE j # 1
    <2>1. j - 1 \in 1 .. k - 1 /\ b[j - 1] = s[j] BY <1>0, <1>1, <1>2, <1>6
    <2>2. \A i \in (j - 1) + 1 .. k - 1 : ~Touches(b[i], b[k][2]) BY <1>2, <1>4, <1>6
    <2> QED BY <1>2, <1>3, <2>1, <2>2 DEF Opened, b
  <1> QED BY <1>5, <1>6

\* What OwnInv says of one thread.
Releases(t) ==
  \A k \in DOMAIN todo[t] : todo[t][k][1] \in Ends => Opened(todo[t], k) \/ Owns(t, k)

\* A thread whose call stays the same and that keeps its mutexes.
LEMMA OthersRelease ==
  ASSUME NEW u \in Threads, Releases(u), todo'[u] = todo[u],
         \A k \in DOMAIN todo[u] :
           locks[todo[u][k][2]] = u => locks'[todo[u][k][2]] = u
  PROVE  Releases(u)'
  BY DEF Releases, Owns

\* The thread whose first operation is replaced by f.
LEMMA OwnerReleases ==
  ASSUME NEW t \in Threads, todo[t] \in Seq(Ops), todo[t] # <<>>, Releases(t),
         NEW f \in Seq(Ops), todo'[t] = f \o Tail(todo[t]),
         todo[t][1][1] = "lock" => f = <<>> /\ locks'[todo[t][1][2]] = t,
         \A k \in DOMAIN f : f[k][1] \in Ends =>
           Opened(f, k) \/ (locks'[f[k][2]] = t /\ Untouched(f, k, f[k][2])),
         \A k \in 2 .. Len(todo[t]) :
           locks[todo[t][k][2]] = t /\ ~Touches(todo[t][1], todo[t][k][2]) =>
             /\ locks'[todo[t][k][2]] = t
             /\ \A i \in DOMAIN f : ~Touches(f[i], todo[t][k][2])
  PROVE  Releases(t)'
  <1> DEFINE s == todo[t]  new == f \o Tail(s)
  <1>1. /\ new \in Seq(Ops) /\ Len(f) \in Nat /\ Len(s) \in Nat
        /\ DOMAIN new = 1 .. Len(f) + Len(s) - 1
        /\ \A p \in 1 .. Len(f) : new[p] = f[p]
        /\ \A p \in DOMAIN new : p > Len(f) =>
             p - Len(f) + 1 \in 2 .. Len(s) /\ new[p] = s[p - Len(f) + 1]
    BY Shifted
  <1>2. DOMAIN f = 1 .. Len(f) /\ DOMAIN s = 1 .. Len(s) OBVIOUS
  <1>3. /\ Tail(s) \in Seq(Ops) /\ Len(Tail(s)) = Len(s) - 1
        /\ \A i \in 1 .. Len(s) - 1 : Tail(s)[i] = s[i + 1]
    OBVIOUS
  <1>4. todo'[t] = new OBVIOUS
  <1> HIDE DEF new
  <1>5. ASSUME NEW p \in DOMAIN new, new[p][1] \in Ends
        PROVE  Opened(new, p) \/ (locks'[new[p][2]] = t /\ Untouched(new, p, new[p][2]))
    <2>0. Len(f) \in Nat /\ Len(s) \in Nat /\ p \in 1 .. Len(f) + Len(s) - 1
      BY <1>1
    <2>1. CASE p <= Len(f)
      <3>1. p \in 1 .. Len(f) BY <2>0, <2>1
      <3>2. Opened(f, p) \/ (locks'[f[p][2]] = t /\ Untouched(f, p, f[p][2]))
        BY <1>1, <1>2, <1>5, <3>1
      <3>3. \A i \in 1 .. p : i \in 1 .. Len(f) BY <2>0, <3>1
      <3>4. \A i \in 1 .. p : new[i] = f[i] BY <1>1, <3>3
      <3>5. new[p] = f[p] /\ \A i \in 1 .. p - 1 : new[i] = f[i] BY <3>1, <3>4
      <3>6. CASE Opened(f, p)
        <4>1. \A j \in 1 .. p - 1 : new[j] = f[j] BY <3>5
        <4> QED BY <3>5, <3>6, <4>1 DEF Opened
      <3>7. CASE locks'[f[p][2]] = t /\ Untouched(f, p, f[p][2])
        BY <3>5, <3>7 DEF Untouched
      <3> QED BY <3>2, <3>6, <3>7
    <2>2. CASE p > Len(f)
      <3> DEFINE k == p - Len(f)
      <3>1. k \in 1 .. Len(s) - 1 /\ k + 1 \in 2 .. Len(s) /\ p = Len(f) + k
        BY <2>0, <2>2
      <3>2. new[p] = s[k + 1] /\ Tail(s)[k] = s[k + 1] BY <1>1, <1>3, <2>2, <3>1
      <3> HIDE DEF k
      <3>3. Opened(s, k + 1) \/ Owns(t, k + 1) BY <1>2, <1>5, <3>1, <3>2 DEF Releases
      <3>4. CASE Opened(Tail(s), k)
        <4>1. Opened(f \o Tail(s), Len(f) + k) BY <1>3, <3>1, <3>4, OpenedAfter
        <4> QED BY <4>1, <3>1 DEF new
      <3>5. CASE s[1][1] = "lock" /\ s[1][2] = Tail(s)[k][2]
                 /\ Untouched(Tail(s), k, Tail(s)[k][2])
        <4>1. f = <<>> /\ locks'[s[1][2]] = t BY <3>5
        <4>2. new = Tail(s) /\ p = k BY <4>1, <1>3, <3>1 DEF new
        <4> QED BY <3>5, <4>1, <4>2
      <3>6. CASE Owns(t, k + 1)
        <4>1. locks[s[k + 1][2]] = t /\ \A i \in 1 .. k : ~Touches(s[i], s[k + 1][2])
          BY <3>1, <3>6 DEF Owns, Untouched
        <4>2. /\ locks'[s[k + 1][2]] = t
              /\ \A i \in DOMAIN f : ~Touches(f[i], s[k + 1][2])
          <5>1. 1 \in 1 .. k BY <3>1, <2>0
          <5>2. locks[s[k + 1][2]] = t /\ ~Touches(s[1], s[k + 1][2]) BY <4>1, <5>1
          <5> QED BY <3>1, <5>2
        <4>3. ASSUME NEW i \in 1 .. p - 1 PROVE ~Touches(new[i], s[k + 1][2])
          <5>1. CASE i <= Len(f)
            <6>1. i \in 1 .. Len(f) BY <2>0, <5>1
            <6> QED BY <1>1, <1>2, <4>2, <6>1
          <5>2. CASE i > Len(f)
            <6>1. i \in DOMAIN new /\ i - Len(f) + 1 \in 1 .. k BY <1>1, <3>1, <5>2
            <6>2. new[i] = s[i - Len(f) + 1] BY <1>1, <5>2, <6>1
            <6> QED BY <4>1, <6>1, <6>2
          <5> QED BY <5>1, <5>2, <2>0
        <4> QED BY <3>2, <4>2, <4>3 DEF Untouched
      <3>7. k \in 1 .. Len(Tail(s)) BY <1>3, <3>1
      <3> QED BY <3>3, <3>4, <3>5, <3>6, <3>7, OpenedTail
    <2> QED BY <2>1, <2>2, <1>1
  <1> QED BY <1>4, <1>5 DEF Releases, Owns

\* The thread whose first operation is done.
LEMMA OwnerGoesOn ==
  ASSUME NEW t \in Threads, todo[t] \in Seq(Ops), todo[t] # <<>>, Releases(t),
         todo'[t] = Tail(todo[t]),
         todo[t][1][1] = "lock" => locks'[todo[t][1][2]] = t,
         \A k \in 2 .. Len(todo[t]) :
           locks[todo[t][k][2]] = t /\ ~Touches(todo[t][1], todo[t][k][2]) =>
             locks'[todo[t][k][2]] = t
  PROVE  Releases(t)'
  <1>0. <<>> \in Seq(Ops) OBVIOUS
  <1>1. PICK f \in Seq(Ops) : f = <<>> BY <1>0
  <1>2. DOMAIN f = {} BY <1>1
  <1>3. todo'[t] = f \o Tail(todo[t]) BY <1>1
  <1> QED BY <1>1, <1>2, <1>3, OwnerReleases

-----------------------------------------------------------------------------
(* The steps.                                                              *)

\* A call consists of operations, none of which starts anything.
LEMMA CallOps ==
  ASSUME NEW L, L \subseteq Locks, NEW c, IsCall(c, L)
  PROVE  /\ c \in Seq(Ops) /\ Paired(c) /\ ~Has(c, "init") /\ ~Starting(c) /\ Outside(c)
         /\ L \cap Late = {} => Early(c)
  <1>1. {"lock", "unlock", "try", "fork"} \X L \subseteq Ops BY DEF Ops
  <1>2. \A k \in DOMAIN c : c[k] \in {"lock", "unlock", "try", "fork"} \X L BY DEF IsCall
  <1>3. c \in Seq(Ops) BY <1>1 DEF IsCall
  <1>4. \A k \in DOMAIN c : c[k][1] \notin {"init"} \cup Starts /\ c[k][2] \in L
    BY <1>2 DEF Starts
  <1> QED BY <1>3, <1>4 DEF IsCall, Has, Starting, Outside, Early

\* Each operation of two calls is one of the first or of the second.
LEMMA BothParts ==
  ASSUME NEW S, NEW a \in Seq(S), NEW c \in Seq(S), NEW k \in DOMAIN (a \o c)
  PROVE  \/ k \in DOMAIN a /\ (a \o c)[k] = a[k]
         \/ k - Len(a) \in DOMAIN c /\ (a \o c)[k] = c[k - Len(a)]
  <1>1. Len(a) \in Nat /\ DOMAIN a = 1 .. Len(a) /\ Len(c) \in Nat /\ DOMAIN c = 1 .. Len(c)
    OBVIOUS
  <1>2. k \in 1 .. Len(a) + Len(c) OBVIOUS
  <1>3. CASE k <= Len(a)
    <2>1. k \in 1 .. Len(a) BY <1>1, <1>2, <1>3
    <2> QED BY <1>1, <2>1
  <1>4. CASE k > Len(a)
    <2>1. k - Len(a) \in 1 .. Len(c) /\ Len(a) + (k - Len(a)) = k BY <1>1, <1>2, <1>4
    <2> QED BY <1>1, <2>1
  <1> QED BY <1>1, <1>2, <1>3, <1>4

\* The first hook of a process initialises the tool before its own work.
LEMMA FirstHook ==
  ASSUME NEW c, IsCall(c, HookLocks)
  PROVE  LET e == EnsureInit \o c
         IN e \in Seq(Ops) /\ Paired(e) /\ ~Starting(e) /\ Early(e) /\ Outside(e)
  <1> DEFINE a == EnsureInit  e == a \o c
  <1>0. Single("init") \in Locks /\ Single("init") \notin Late \cup {Single("tsinit")}
    BY LockNames DEF Singles, Late, Single
  <1>1. a \in Seq(Ops) /\ Len(a) = 2 /\ DOMAIN a = 1 .. 2
        /\ a[1] = <<"lock", Single("init")>> /\ a[2] = <<"init", Single("init")>>
    BY <1>0 DEF EnsureInit, Ops
  <1>2. /\ c \in Seq(Ops) /\ Paired(c) /\ ~Starting(c) /\ Early(c)
    BY CallOps, LockNames DEF HookLocks
  <1> HIDE DEF a
  <1>3. Paired(a)
    <2>1. Opened(a, 2) BY <1>1 DEF Opened
    <2> QED BY <1>1, <2>1 DEF Paired, Ends
  <1>4. e \in Seq(Ops) /\ Paired(e) BY <1>1, <1>2, <1>3, PairedConcat
  <1>5. \A k \in DOMAIN e : (k \in DOMAIN a /\ e[k] = a[k])
                            \/ (k - 2 \in DOMAIN c /\ e[k] = c[k - 2])
    BY <1>1, <1>2, BothParts
  <1>6. \A k \in DOMAIN a : a[k][1] \notin Starts /\ a[k][2] \notin Late \cup {Single("tsinit")}
    BY <1>0, <1>1 DEF Starts
  <1>7. \A k \in DOMAIN c : c[k][2] # Single("tsinit") BY DEF IsCall, HookLocks
  <1> HIDE DEF e
  <1>8. ~Starting(e) BY <1>2, <1>5, <1>6 DEF Starting
  <1>9. Early(e) BY <1>2, <1>5, <1>6 DEF Early
  <1>10. Outside(e) BY <1>5, <1>6, <1>7 DEF Outside
  <1> QED BY <1>4, <1>8, <1>9, <1>10 DEF e, a

\* A thread enters the tool.
LEMMA EnterStep ==
  ASSUME ForkInv, NEW t \in Threads, NEW c \in Seq(Ops), Enter(t, c),
         Paired(c), ~Starting(c), Outside(c), Has(c, "init") => Early(c),
         Young /\ side = "parent" => Early(c)
  PROVE  ForkInv'
  <1>1. /\ t \in alive /\ todo[t] = <<>> /\ todo' = [todo EXCEPT ![t] = c]
        /\ UNCHANGED <<side, locks, alive, initialized, ts_ready, registered, remade>>
    BY DEF Enter
  <1>2. todo \in [Threads -> Seq(Ops)] BY DEF ForkInv, ForkTypes
  <1>3. todo'[t] = c /\ \A u \in Threads \ {t} : todo'[u] = todo[u] BY <1>1, <1>2
  <1>4. ForkTypes' BY <1>1, <1>2, <1>3 DEF ForkInv, ForkTypes
  <1>5. OwnInv'
    <2> SUFFICES ASSUME ~remade, NEW u \in Threads PROVE Releases(u)'
      BY <1>1 DEF OwnInv, Releases
    <2>1. CASE u = t BY <1>3, <2>1 DEF Releases, Paired
    <2>2. CASE u # t
      <3>1. Releases(u) BY DEF ForkInv, OwnInv, Releases
      <3> QED BY <1>1, <1>3, <2>2, <3>1, OthersRelease
    <2> QED BY <2>1, <2>2
  <1>6. \A u \in Threads : /\ Starting(todo'[u]) => u # t /\ Starting(todo[u])
                           /\ Has(todo'[u], "init") => u = t \/ Has(todo[u], "init")
    BY <1>3
  <1>7. StartInv'
    <2>1. \A u \in Threads : Has(todo'[u], "init") \/ Starting(todo'[u]) => Early(todo'[u])
      BY <1>3, <1>6 DEF ForkInv, StartInv
    <2>2. \A u \in Threads : Starting(todo'[u]) => initialized'
      BY <1>1, <1>6 DEF ForkInv, StartInv
    <2>3. ASSUME NEW u \in Threads, NEW v \in Threads, NEW j \in DOMAIN todo'[u],
                 NEW k \in DOMAIN todo'[v], todo'[u][j][1] \in Starts, todo'[v][k][1] \in Starts
          PROVE  u = v /\ j = k
      <3>1. u # t /\ v # t BY <1>3, <2>3 DEF Starting
      <3> QED BY <1>3, <2>3, <3>1 DEF ForkInv, StartInv
    <2>4. \A u \in Threads : Outside(todo'[u]) BY <1>3 DEF ForkInv, StartInv
    <2> QED BY <2>1, <2>2, <2>3, <2>4 DEF StartInv
  <1>8. YoungInv'
    <2>1. Young' => Young BY <1>1, <1>6 DEF Young
    <2>2. CASE Young
      <3>1. CASE side = "parent" BY <1>1, <1>3, <2>2, <3>1 DEF ForkInv, YoungInv
      <3>2. CASE side # "parent" BY <1>1, <2>2, <3>2 DEF ForkInv, YoungInv
      <3> QED BY <3>1, <3>2
    <2> QED BY <2>1, <2>2 DEF YoungInv
  <1> QED BY <1>4, <1>5, <1>7, <1>8 DEF ForkInv

\* Hooks, the exit handler, the rounds of the tool's threads and fork.
LEMMA EnterSteps ==
  ASSUME ForkInv, NEW t \in Threads,
         Hook(t) \/ Exit(t) \/ ToolRound(t) \/ CallFork(t)
  PROVE  ForkInv'
  <1>0. HookLocks \subseteq Locks /\ HookLocks \cap Late = {} BY DEF HookLocks
  <1>1. CASE Hook(t)
    <2>1. PICK c \in Malloc \cup Free \cup Realloc :
            Enter(t, IF initialized THEN c ELSE EnsureInit \o c)
      BY <1>1 DEF Hook, HookCalls
    <2>2. IsCall(c, HookLocks) BY HookIsCall
    <2>3. CASE initialized
      <3>1. /\ c \in Seq(Ops) /\ Paired(c) /\ ~Has(c, "init") /\ ~Starting(c) /\ Early(c)
            /\ Outside(c)
        BY <1>0, <2>2, CallOps
      <3> QED BY <2>1, <2>3, <3>1, EnterStep
    <2>4. CASE ~initialized
      <3> DEFINE e == EnsureInit \o c
      <3>1. e \in Seq(Ops) /\ Paired(e) /\ ~Starting(e) /\ Early(e) /\ Outside(e)
        BY <2>2, FirstHook
      <3>2. Enter(t, e) BY <2>1, <2>4
      <3> HIDE DEF e
      <3> QED BY <3>1, <3>2, EnterStep
    <2> QED BY <2>3, <2>4
  <1>2. CASE Exit(t)
    <2>1. Enter(t, AtExit) /\ registered BY <1>2 DEF Exit
    <2>2. IsCall(AtExit, Locks) BY LockNames, CallHold DEF AtExit, Singles
    <2>3. ~(Young /\ side = "parent") BY <2>1 DEF ForkInv, YoungInv
    <2> QED BY <2>1, <2>2, <2>3, CallOps, EnterStep
  <1>3. CASE ToolRound(t)
    <2>1. PICK c \in Round(t) : t \in Tools /\ Enter(t, c) BY <1>3 DEF ToolRound
    <2>2. IsCall(c, Locks) BY <2>1, RoundCalls
    <2>3. ~(Young /\ side = "parent") BY <2>1 DEF ForkInv, YoungInv, Enter
    <2> QED BY <2>1, <2>2, <2>3, CallOps, EnterStep
  <1>4. CASE CallFork(t)
    <2>1. Enter(t, ForkCall) BY <1>4 DEF CallFork
    <2> QED BY <1>0, <2>1, ForkCalls, CallOps, EnterStep
  <1> QED BY <1>1, <1>2, <1>3, <1>4

\* An operation is done, or replaced by the release of its mutex.
LEMMA Advance ==
  ASSUME ForkInv, NEW t \in alive, todo[t] # <<>>, NEW f \in Seq(Ops),
         todo' = [todo EXCEPT ![t] = f \o Tail(@)],
         UNCHANGED <<side, alive, initialized, ts_ready, registered, remade>>,
         locks' \in [Locks -> Threads \cup {"none", "lost"}],
         \A i \in DOMAIN f : f[i] = <<"unlock", todo[t][1][2]>>,
         ~remade => \A u \in Threads : Releases(u)'
  PROVE  ForkInv'
  <1>1. t \in Threads /\ todo \in [Threads -> Seq(Ops)] BY DEF ForkInv, ForkTypes
  <1> DEFINE s == todo[t]  new == f \o Tail(s)
  <1>2. /\ new \in Seq(Ops) /\ Len(f) \in Nat /\ Len(s) \in Nat
        /\ DOMAIN new = 1 .. Len(f) + Len(s) - 1
        /\ \A p \in 1 .. Len(f) : new[p] = f[p]
        /\ \A p \in DOMAIN new : p > Len(f) =>
             p - Len(f) + 1 \in 2 .. Len(s) /\ new[p] = s[p - Len(f) + 1]
    BY <1>1, Shifted
  <1>3. todo'[t] = new /\ \A u \in Threads \ {t} : todo'[u] = todo[u] BY <1>1
  <1>4. s \in Seq(Ops) /\ DOMAIN s = 1 .. Len(s) /\ DOMAIN f = 1 .. Len(f) BY <1>1
  <1> HIDE DEF new
  <1>5. ForkTypes' BY <1>1, <1>2, <1>3 DEF ForkInv, ForkTypes
  <1>6. OwnInv' BY DEF OwnInv, Releases
  <1>7. ASSUME NEW p \in DOMAIN new
        PROVE  \/ new[p][1] = "unlock" /\ new[p][2] = s[1][2] /\ 1 \in DOMAIN s
               \/ p > Len(f) /\ p - Len(f) + 1 \in DOMAIN s /\ new[p] = s[p - Len(f) + 1]
    <2>1. CASE p > Len(f)
      <3>1. p - Len(f) + 1 \in 2 .. Len(s) /\ new[p] = s[p - Len(f) + 1] BY <1>2, <2>1
      <3> QED BY <2>1, <3>1, <1>2, <1>4
    <2>2. CASE ~(p > Len(f))
      <3>1. p \in 1 .. Len(f) BY <1>2, <2>2
      <3>2. new[p] = <<"unlock", s[1][2]>> BY <1>2, <1>4, <3>1
      <3>3. 1 \in DOMAIN s BY <1>4
      <3> QED BY <3>2, <3>3
    <2> QED BY <2>1, <2>2
  <1>8. /\ Starting(new) => Starting(s)
        /\ Has(new, "init") => Has(s, "init")
        /\ Early(s) => Early(new)
    BY <1>7 DEF Has, Starting, Starts, Early
  <1>9. StartInv'
    <2>1. \A u \in Threads : Has(todo'[u], "init") \/ Starting(todo'[u]) => Early(todo'[u])
      BY <1>3, <1>8 DEF ForkInv, StartInv
    <2>2. \A u \in Threads : Starting(todo'[u]) => initialized'
      BY <1>1, <1>3, <1>8 DEF ForkInv, StartInv
    <2>3. ASSUME NEW u \in Threads, NEW v \in Threads, NEW j \in DOMAIN todo'[u],
                 NEW k \in DOMAIN todo'[v], todo'[u][j][1] \in Starts, todo'[v][k][1] \in Starts
          PROVE  u = v /\ j = k
      <3> DEFINE Old(w, i) == IF w = t THEN i - Len(f) + 1 ELSE i
      <3>1. Old(u, j) \in DOMAIN todo[u] /\ todo[u][Old(u, j)][1] \in Starts
        <4>1. CASE u = t
          <5>1. j \in DOMAIN new /\ new[j][1] \in Starts BY <1>3, <2>3, <4>1
          <5>2. new[j][1] # "unlock" BY <5>1 DEF Starts
          <5> QED BY <1>7, <4>1, <5>1, <5>2
        <4>2. CASE u # t BY <1>3, <2>3, <4>2
        <4> QED BY <4>1, <4>2
      <3>2. Old(v, k) \in DOMAIN todo[v] /\ todo[v][Old(v, k)][1] \in Starts
        <4>1. CASE v = t
          <5>1. k \in DOMAIN new /\ new[k][1] \in Starts BY <1>3, <2>3, <4>1
          <5>2. new[k][1] # "unlock" BY <5>1 DEF Starts
          <5> QED BY <1>7, <4>1, <5>1, <5>2
        <4>2. CASE v # t BY <1>3, <2>3, <4>2
        <4> QED BY <4>1, <4>2
      <3>3. u = v /\ Old(u, j) = Old(v, k) BY <3>1, <3>2 DEF ForkInv, StartInv
      <3>4. CASE u = t
        <4>1. j \in Nat /\ k \in Nat BY <1>2, <1>3, <3>3, <3>4
        <4> QED BY <4>1, <3>3, <3>4, <1>2
      <3>5. CASE u # t BY <3>3, <3>5
      <3> QED BY <3>4, <3>5
    <2>4. ASSUME NEW p \in DOMAIN new, NEW q \in DOMAIN new, new[p][1] = "init", p < q
          PROVE  new[q][2] # Single("tsinit")
      <3>1. p > Len(f) /\ p - Len(f) + 1 \in DOMAIN s /\ new[p] = s[p - Len(f) + 1]
        BY <1>7, <2>4
      <3>2. p \in Nat /\ q \in Nat /\ q > Len(f) BY <1>2, <2>4, <3>1
      <3>3. q - Len(f) + 1 \in DOMAIN s /\ new[q] = s[q - Len(f) + 1] BY <1>2, <1>4, <3>2
      <3>4. p - Len(f) + 1 < q - Len(f) + 1 BY <1>2, <2>4, <3>2
      <3> QED BY <1>1, <2>4, <3>1, <3>3, <3>4 DEF ForkInv, StartInv, Outside
    <2>5. \A u \in Threads : Outside(todo'[u])
      <3>1. Outside(new) BY <2>4 DEF Outside
      <3> QED BY <1>3, <3>1 DEF ForkInv, StartInv
    <2> QED BY <2>1, <2>2, <2>3, <2>5 DEF StartInv
  <1>10. YoungInv'
    <2>1. Young' => Young BY <1>1, <1>3, <1>8 DEF Young
    <2>2. (\A u \in Threads : Early(todo[u])) => \A u \in Threads : Early(todo'[u])
      BY <1>1, <1>3, <1>8
    <2> QED BY <2>1, <2>2 DEF ForkInv, YoungInv
  <1> QED BY <1>5, <1>6, <1>9, <1>10 DEF ForkInv

\* An operation is done.
LEMMA GoOn ==
  ASSUME ForkInv, NEW t \in alive, todo[t] # <<>>, todo' = [todo EXCEPT ![t] = Tail(@)],
         UNCHANGED <<side, alive, initialized, ts_ready, registered, remade>>,
         locks' \in [Locks -> Threads \cup {"none", "lost"}],
         ~remade => \A u \in Threads : Releases(u)'
  PROVE  ForkInv'
  <1>0. <<>> \in Seq(Ops) OBVIOUS
  <1>1. PICK f \in Seq(Ops) : f = <<>> BY <1>0
  <1>2. DOMAIN f = {} BY <1>1
  <1>3. todo[t] \in Seq(Ops) BY DEF ForkInv, ForkTypes
  <1>4. todo' = [todo EXCEPT ![t] = f \o Tail(@)] BY <1>1, <1>3
  <1> QED BY <1>2, <1>4, Advance

\* pthread_mutex_lock, trylock and unlock, fork in the parent, and
\* mtt_ensure_init when another thread was faster.
LEMMA MutexSteps ==
  ASSUME ForkInv, NEW t \in Threads,
         \/ Lock(t) \/ TryLock(t) \/ Unlock(t) \/ RawForkParent(t)
         \/ EnsureInitBody(t) /\ initialized
  PROVE  ForkInv'
  <1> DEFINE s == todo[t]  l == s[1][2]
  <1>1. /\ todo \in [Threads -> Seq(Ops)] /\ s \in Seq(Ops) /\ t \in alive /\ s # <<>>
        /\ locks \in [Locks -> Threads \cup {"none", "lost"}]
    BY DEF ForkInv, ForkTypes, Lock, TryLock, Unlock, RawForkParent, EnsureInitBody, At
  <1>2. Head(s) = s[1] /\ 1 \in DOMAIN s /\ DOMAIN s = 1 .. Len(s) /\ Len(s) \in Nat /\ TheLock(t) = l
    BY <1>1 DEF TheLock
  <1>3. s[1] \in Ops /\ l \in Locks
    BY <1>1, <1>2, LockNames DEF Ops, Singles
  <1>4. "none" \notin Threads /\ "lost" \notin Threads BY ForkConstants DEF Threads
  <1>5. ~remade => \A u \in Threads : Releases(u) BY DEF ForkInv, OwnInv, Releases
  <1>6. \A k \in 2 .. Len(s) : s[k][2] \in Locks
    <2>1. \A k \in 1 .. Len(s) : s[k][2] \in Locks BY <1>1, LockNames DEF Ops, Singles
    <2> QED BY <2>1, <1>2
  \* The first operation is for the owner.
  <1>7. s[1][1] \in Ends /\ ~remade => locks[l] = t
    <2>1. ~Opened(s, 1) BY DEF Opened
    <2> QED BY <1>2, <1>5, <2>1 DEF Releases, Owns
  <1>8. CASE Lock(t)
    <2>1. /\ s[1][1] = "lock" /\ locks[l] = "none" /\ locks' = [locks EXCEPT ![l] = t]
          /\ todo' = [todo EXCEPT ![t] = Tail(@)]
          /\ UNCHANGED <<side, alive, initialized, ts_ready, registered, remade>>
      BY <1>1, <1>2, <1>8 DEF Lock, At, Done
    <2>2. locks'[l] = t /\ \A m \in Locks \ {l} : locks'[m] = locks[m] BY <1>1, <1>3, <2>1
    <2>3. todo'[t] = Tail(s) /\ \A u \in Threads \ {t} : todo'[u] = todo[u]
      BY <1>1, <2>1
    <2>4. ASSUME ~remade, NEW u \in Threads PROVE Releases(u)'
      <3>1. CASE u = t
        <4>1. \A k \in 2 .. Len(s) : ~Touches(s[1], s[k][2]) => s[k][2] # l
          BY <2>1 DEF Touches
        <4> HIDE DEF s
        <4>2. \A k \in 2 .. Len(s) : locks[s[k][2]] = t /\ ~Touches(s[1], s[k][2]) =>
                                       locks'[s[k][2]] = t
          BY <1>6, <2>2, <4>1
        <4> QED BY <1>1, <1>5, <1>6, <2>2, <2>3, <2>4, <3>1, <4>2, OwnerGoesOn DEF s
      <3>2. CASE u # t
        <4>1. \A m \in Locks : locks[m] = u => locks'[m] = u BY <1>4, <2>1, <2>2
        <4>2. \A k \in DOMAIN todo[u] : todo[u][k][2] \in Locks
          BY <1>1, LockNames DEF Ops, Singles
        <4> QED BY <1>5, <2>3, <2>4, <3>2, <4>1, <4>2, OthersRelease
      <3> QED BY <3>1, <3>2
    <2>5. locks' \in [Locks -> Threads \cup {"none", "lost"}] BY <1>1, <2>1
    <2> QED BY <1>1, <1>6, <2>1, <2>4, <2>5, GoOn
  <1>9. CASE Unlock(t)
    <2>1. /\ s[1][1] = "unlock" /\ locks' = [locks EXCEPT ![l] = "none"]
          /\ todo' = [todo EXCEPT ![t] = Tail(@)]
          /\ UNCHANGED <<side, alive, initialized, ts_ready, registered, remade>>
      BY <1>1, <1>2, <1>9 DEF Unlock, At, Done
    <2>2. \A m \in Locks \ {l} : locks'[m] = locks[m] BY <1>1, <1>3, <2>1
    <2>3. todo'[t] = Tail(s) /\ \A u \in Threads \ {t} : todo'[u] = todo[u]
      BY <1>1, <2>1
    <2>4. ASSUME ~remade, NEW u \in Threads PROVE Releases(u)'
      <3>1. CASE u = t
        <4>1. \A k \in 2 .. Len(s) : ~Touches(s[1], s[k][2]) => s[k][2] # l
          BY <2>1 DEF Touches
        <4> HIDE DEF s
        <4>2. \A k \in 2 .. Len(s) : locks[s[k][2]] = t /\ ~Touches(s[1], s[k][2]) =>
                                       locks'[s[k][2]] = t
          BY <1>6, <2>2, <4>1
        <4>3. s[1][1] # "lock" BY <2>1 DEF s
        <4> QED BY <1>1, <1>5, <2>3, <2>4, <3>1, <4>2, <4>3, OwnerGoesOn DEF s
      <3>2. CASE u # t
        <4>1. locks[l] # u BY <1>7, <2>1, <2>4, <3>2 DEF Ends
        <4>2. \A m \in Locks : locks[m] = u => locks'[m] = u BY <2>2, <4>1
        <4>3. \A k \in DOMAIN todo[u] : todo[u][k][2] \in Locks
          BY <1>1, LockNames DEF Ops, Singles
        <4> QED BY <1>5, <2>3, <2>4, <3>2, <4>2, <4>3, OthersRelease
      <3> QED BY <3>1, <3>2
    <2>5. locks' \in [Locks -> Threads \cup {"none", "lost"}] BY <1>1, <2>1
    <2> QED BY <1>1, <1>6, <2>1, <2>4, <2>5, GoOn
  \* The mutexes stay as they are and nothing is put in place of the operation.
  <1>10. ASSUME s[1][1] # "lock", UNCHANGED locks, todo' = [todo EXCEPT ![t] = Tail(@)],
                UNCHANGED <<side, alive, initialized, ts_ready, registered, remade>>
         PROVE  ForkInv'
    <2>3. todo'[t] = Tail(s) /\ \A u \in Threads \ {t} : todo'[u] = todo[u]
      BY <1>1, <1>10
    <2>4. ASSUME ~remade, NEW u \in Threads PROVE Releases(u)'
      <3>1. CASE u = t
        BY <1>1, <1>5, <1>10, <2>3, <2>4, <3>1, OwnerGoesOn
      <3>2. CASE u # t BY <1>5, <1>10, <2>3, <2>4, <3>2, OthersRelease
      <3> QED BY <3>1, <3>2
    <2> QED BY <1>1, <1>6, <1>10, <2>4, GoOn
  \* The operation becomes the release of a mutex that the thread has now.
  <1>11. ASSUME s[1][1] \in {"try", "init"},
                \/ locks[l] = "none" /\ locks' = [locks EXCEPT ![l] = t]
                \/ (~remade => locks[l] = t) /\ UNCHANGED locks,
                todo' = [todo EXCEPT ![t] = <<<<"unlock", l>>>> \o Tail(@)],
                UNCHANGED <<side, alive, initialized, ts_ready, registered, remade>>
         PROVE  ForkInv'
    <2> DEFINE f == <<<<"unlock", l>>>>
    <2>1. f \in Seq(Ops) /\ DOMAIN f = {1} /\ f[1] = <<"unlock", l>> /\ f # <<>>
      BY <1>3 DEF Ops
    <2>2. ~remade => locks'[l] = t BY <1>1, <1>3, <1>11
    <2>3. \A m \in Locks \ {l} : locks'[m] = locks[m] BY <1>1, <1>3, <1>11
    <2>4. todo'[t] = f \o Tail(s) /\ \A u \in Threads \ {t} : todo'[u] = todo[u]
      BY <1>1, <1>11
    <2> HIDE DEF f
    <2>5. ASSUME ~remade, NEW u \in Threads PROVE Releases(u)'
      <3>1. CASE u = t
        <4>1. \A k \in 2 .. Len(s) : ~Touches(s[1], s[k][2]) => s[k][2] # l
          BY <1>11 DEF Touches
        <4>2. \A i \in DOMAIN f : \A m \in Locks \ {l} : ~Touches(f[i], m)
          BY <2>1 DEF Touches
        <4>3. \A k \in DOMAIN f : locks'[f[k][2]] = t /\ Untouched(f, k, f[k][2])
          BY <2>1, <2>2, <2>5 DEF Untouched
        <4>4. s[1][1] # "lock" BY <1>11
        <4> HIDE DEF s
        <4>5. \A k \in 2 .. Len(s) : locks[s[k][2]] = t /\ ~Touches(s[1], s[k][2]) =>
                /\ locks'[s[k][2]] = t
                /\ \A i \in DOMAIN f : ~Touches(f[i], s[k][2])
          BY <1>6, <2>3, <4>1, <4>2
        <4> QED BY <1>1, <1>5, <2>1, <2>4, <2>5, <3>1, <4>3, <4>4, <4>5, OwnerReleases DEF s
      <3>2. CASE u # t
        <4>1. locks[l] = u => UNCHANGED locks BY <1>4, <1>11
        <4>2. \A m \in Locks : locks[m] = u => locks'[m] = u BY <2>3, <4>1
        <4>3. \A k \in DOMAIN todo[u] : todo[u][k][2] \in Locks
          BY <1>1, LockNames DEF Ops, Singles
        <4> QED BY <1>5, <2>4, <2>5, <3>2, <4>2, <4>3, OthersRelease
      <3> QED BY <3>1, <3>2
    <2>6. locks' \in [Locks -> Threads \cup {"none", "lost"}] BY <1>1, <1>11
    <2>7. \A i \in DOMAIN f : f[i] = <<"unlock", todo[t][1][2]>> BY <2>1
    <2>8. todo' = [todo EXCEPT ![t] = f \o Tail(@)] BY <1>11 DEF f
    <2> QED BY <1>1, <1>11, <2>1, <2>5, <2>6, <2>7, <2>8, Advance
  <1>12. CASE TryLock(t)
    <2>1. s[1][1] = "try" /\ UNCHANGED <<side, alive, initialized, ts_ready, registered, remade>>
      BY <1>2, <1>12 DEF TryLock, At
    <2>2. CASE locks[l] = "none"
      <3>1. locks' = [locks EXCEPT ![l] = t]
            /\ todo' = [todo EXCEPT ![t] = <<<<"unlock", l>>>> \o Tail(@)]
        BY <1>2, <1>12, <2>2 DEF TryLock, Then
      <3>2. \/ locks[l] = "none" /\ locks' = [locks EXCEPT ![l] = t]
            \/ (~remade => locks[l] = t) /\ UNCHANGED locks
        BY <2>2, <3>1
      <3> QED BY <1>11, <2>1, <3>1, <3>2
    <2>3. CASE locks[l] # "none"
      <3>1. UNCHANGED locks /\ todo' = [todo EXCEPT ![t] = Tail(@)]
        BY <1>1, <1>2, <1>12, <2>3 DEF TryLock, Done
      <3> QED BY <1>10, <2>1, <3>1
    <2> QED BY <2>2, <2>3
  <1>13. CASE RawForkParent(t)
    <2>1. s[1][1] = "fork" /\ UNCHANGED <<side, locks, alive, initialized, ts_ready, registered, remade>>
          /\ todo' = [todo EXCEPT ![t] = Tail(@)]
      BY <1>1, <1>2, <1>13 DEF RawForkParent, At, Done
    <2> QED BY <1>10, <2>1
  <1>14. CASE EnsureInitBody(t) /\ initialized
    <2>1. s[1][1] = "init" /\ UNCHANGED <<side, locks, alive, initialized, ts_ready, registered, remade>>
          /\ todo' = [todo EXCEPT ![t] = <<<<"unlock", Single("init")>>>> \o Tail(@)]
      BY <1>2, <1>14 DEF EnsureInitBody, At, Then
    <2>2. l = Single("init") BY <1>3, <2>1 DEF Ops
    <2>3. ~remade => locks[l] = t BY <1>7, <2>1 DEF Ends
    <2> QED BY <1>11, <2>1, <2>2, <2>3
  <1> QED BY <1>8, <1>9, <1>12, <1>13, <1>14

\* mtt_ensure_init by the first thread under g_init_lock: the locks it makes are
\* free, or remade says so, and its hook takes no late mutex.
LEMMA InitStep ==
  ASSUME ForkInv, NEW t \in Threads, EnsureInitBody(t), ~initialized
  PROVE  ForkInv'
  <1> DEFINE s == todo[t]  i == Single("init")
             f == <<<<"unlock", i>>, <<"check", Single("tsinit")>>>>
             new == f \o Tail(s)
  <1>1. /\ todo \in [Threads -> Seq(Ops)] /\ s \in Seq(Ops) /\ t \in alive /\ s # <<>>
        /\ locks \in [Locks -> Threads \cup {"none", "lost"}] /\ remade \in BOOLEAN
    BY DEF ForkInv, ForkTypes, EnsureInitBody, At
  <1>2. Head(s) = s[1] /\ DOMAIN s = 1 .. Len(s) /\ 1 \in DOMAIN s /\ Len(s) \in Nat BY <1>1
  <1>3. /\ s[1][1] = "init" /\ locks' = Reset({"bucket", "pool"}) /\ initialized' = TRUE
        /\ remade' = (remade \/ \E l \in Locks : l[1] \in {"bucket", "pool"} /\ locks[l] # "none")
        /\ todo' = [todo EXCEPT ![t] = f \o Tail(@)]
        /\ UNCHANGED <<side, alive, ts_ready, registered>>
    BY <1>2 DEF EnsureInitBody, At, Then
  <1>4. s[1][2] = i
    <2>1. s[1] \in Ops BY <1>1, <1>2
    <2> QED BY <2>1, <1>3 DEF Ops
  <1>5. f \in Seq(Ops) /\ Len(f) = 2 /\ DOMAIN f = 1 .. 2
        /\ f[1] = <<"unlock", i>> /\ f[2] = <<"check", Single("tsinit")>>
    BY LockNames DEF Ops, Singles
  <1> HIDE DEF f, i
  <1>6. /\ new \in Seq(Ops) /\ Len(f) \in Nat /\ Len(s) \in Nat
        /\ DOMAIN new = 1 .. Len(f) + Len(s) - 1
        /\ \A p \in 1 .. Len(f) : new[p] = f[p]
        /\ \A p \in DOMAIN new : p > Len(f) =>
             p - Len(f) + 1 \in 2 .. Len(s) /\ new[p] = s[p - Len(f) + 1]
    BY <1>1, <1>5, Shifted
  <1>7. todo'[t] = new /\ \A u \in Threads \ {t} : todo'[u] = todo[u] BY <1>1, <1>3
  <1> HIDE DEF new
  \* No thread was to start the tool, and this one is in a hook.
  <1>8. \A u \in Threads : ~Starting(todo[u]) BY <1>1 DEF ForkInv, StartInv
  <1>9. Early(s)
    <2>1. Has(s, "init") BY <1>2, <1>3 DEF Has
    <2> QED BY <2>1 DEF ForkInv, StartInv
  <1>10. i \notin Late /\ i \in Locks /\ Single("tsinit") \notin Late
    BY LockNames DEF Late, Single, Singles, i
  <1>11. \A p \in DOMAIN new :
           \/ p = 1 /\ new[p] = <<"unlock", i>>
           \/ p = 2 /\ new[p] = <<"check", Single("tsinit")>>
           \/ p - 1 \in 2 .. Len(s) /\ p - 1 \in DOMAIN s /\ new[p] = s[p - 1]
    <2> SUFFICES ASSUME NEW p \in DOMAIN new
                 PROVE  \/ p = 1 /\ new[p] = <<"unlock", i>>
                        \/ p = 2 /\ new[p] = <<"check", Single("tsinit")>>
                        \/ p - 1 \in 2 .. Len(s) /\ p - 1 \in DOMAIN s /\ new[p] = s[p - 1]
      OBVIOUS
    <2>1. CASE p > 2
      <3>1. p \in Nat /\ p - Len(f) + 1 = p - 1 BY <1>5, <1>6
      <3>2. p - 1 \in 2 .. Len(s) /\ new[p] = s[p - 1] BY <1>5, <1>6, <2>1, <3>1
      <3> QED BY <3>2, <1>2
    <2>2. CASE ~(p > 2)
      <3>1. p = 1 \/ p = 2 BY <1>5, <1>6, <2>2
      <3> QED BY <3>1, <1>5, <1>6
    <2> QED BY <2>1, <2>2
  <1>12. Early(new) BY <1>9, <1>10, <1>11 DEF Early
  <1>13. \A p \in DOMAIN new : new[p][1] \in Starts => p = 2
    BY <1>8, <1>11 DEF Starting, Starts
  <1>14. ForkTypes'
    <2>1. locks' \in [Locks -> Threads \cup {"none", "lost"}] BY <1>1, <1>3 DEF Reset
    <2>2. todo' \in [Threads -> Seq(Ops)] BY <1>1, <1>3, <1>6 DEF new
    <2>3. \A u \in Threads \ alive' : todo'[u] = <<>>
      BY <1>1, <1>3, <1>7 DEF ForkInv, ForkTypes
    <2>4. remade' \in BOOLEAN BY <1>1, <1>3
    <2> QED BY <1>3, <2>1, <2>2, <2>3, <2>4 DEF ForkInv, ForkTypes
  <1>15. OwnInv'
    <2> SUFFICES ASSUME ~remade', NEW u \in Threads PROVE Releases(u)'
      BY DEF OwnInv, Releases
    <2>1. ~remade /\ \A l \in Locks : l[1] \in {"bucket", "pool"} => locks[l] = "none"
      BY <1>1, <1>3
    <2>2. UNCHANGED locks BY <1>1, <1>3, <2>1 DEF Reset
    <2>3. \A v \in Threads : Releases(v) BY <2>1 DEF ForkInv, OwnInv, Releases
    <2>4. locks[i] = t
      <3>1. ~Opened(s, 1) BY DEF Opened
      <3> QED BY <1>2, <1>3, <1>4, <2>3, <3>1 DEF Releases, Owns, Ends
    <2>5. CASE u = t
      <3>1. \A k \in DOMAIN f : f[k][1] \in Ends => locks'[f[k][2]] = t /\ Untouched(f, k, f[k][2])
        BY <1>5, <2>2, <2>4 DEF Untouched, Ends
      <3>2. ASSUME NEW k \in 2 .. Len(s), locks[s[k][2]] = t, ~Touches(s[1], s[k][2])
            PROVE  locks'[s[k][2]] = t /\ \A j \in DOMAIN f : ~Touches(f[j], s[k][2])
        <4>1. s[k][2] # i BY <1>3, <1>4, <3>2 DEF Touches
        <4>2. s[k][2] # Single("tsinit")
          <5>1. k \in DOMAIN s /\ 1 < k BY <1>2, <3>2
          <5> QED BY <1>2, <1>3, <5>1 DEF ForkInv, StartInv, Outside
        <4> QED BY <1>5, <2>2, <3>2, <4>1, <4>2 DEF Touches
      <3>3. todo'[t] = f \o Tail(todo[t]) BY <1>7 DEF new
      <3>4. todo[t][1][1] # "lock" BY <1>3
      <3> QED BY <1>1, <1>5, <2>3, <2>5, <3>1, <3>2, <3>3, <3>4, OwnerReleases
    <2>6. CASE u # t BY <1>7, <2>2, <2>3, <2>6, OthersRelease
    <2> QED BY <2>5, <2>6
  <1>16. StartInv'
    <2>1. \A u \in Threads : Has(todo'[u], "init") \/ Starting(todo'[u]) => Early(todo'[u])
      BY <1>7, <1>12 DEF ForkInv, StartInv
    <2>2. \A u, v \in Threads : \A j \in DOMAIN todo'[u], k \in DOMAIN todo'[v] :
            todo'[u][j][1] \in Starts /\ todo'[v][k][1] \in Starts => u = v /\ j = k
      <3>1. \A u \in Threads : \A j \in DOMAIN todo'[u] :
              todo'[u][j][1] \in Starts => u = t /\ j = 2
        BY <1>7, <1>8, <1>13 DEF Starting
      <3> QED BY <3>1
    <2>3. Outside(new)
      <3>1. \A k \in 2 .. Len(s) : s[k][2] # Single("tsinit")
        BY <1>2, <1>3 DEF ForkInv, StartInv, Outside
      <3>2. ASSUME NEW p \in DOMAIN new, NEW q \in DOMAIN new, new[p][1] = "init", p < q
            PROVE  new[q][2] # Single("tsinit")
        <4>1. p # 1 /\ p # 2 BY <1>11, <3>2
        <4>2. p \in Nat /\ q \in Nat /\ p > 0 BY <1>6
        <4>3. q # 1 /\ q # 2 BY <4>1, <4>2, <3>2
        <4> QED BY <1>11, <3>1, <4>3
      <3> QED BY <3>2 DEF Outside
    <2>4. \A u \in Threads : Outside(todo'[u]) BY <1>7, <2>3 DEF ForkInv, StartInv
    <2> QED BY <1>3, <2>1, <2>2, <2>4 DEF StartInv
  <1>17. YoungInv'
    <2>1. Young BY DEF Young
    <2>2. (\A u \in Threads : Early(todo[u])) => \A u \in Threads : Early(todo'[u])
      BY <1>7, <1>12
    <2> QED BY <1>3, <2>1, <2>2 DEF ForkInv, YoungInv
  <1> QED BY <1>14, <1>15, <1>16, <1>17 DEF ForkInv

\* The thread that starts the tool goes on with f, a part of the start.
LEMMA StartsOn ==
  ASSUME ForkInv, NEW t \in alive, todo[t] # <<>>, todo[t][1][1] \in Starts,
         NEW f \in Seq(Ops), todo' = [todo EXCEPT ![t] = f \o Tail(@)],
         UNCHANGED <<side, alive, initialized, registered, remade>>, ts_ready' \in BOOLEAN,
         locks' \in [Locks -> Threads \cup {"none", "lost"}],
         \A k \in DOMAIN f : f[k][1] # "init" /\ f[k][2] \notin Late,
         \A k \in DOMAIN f : f[k][1] \in Starts => k = Len(f),
         ~remade => \A u \in Threads : Releases(u)'
  PROVE  ForkInv'
  <1>1. t \in Threads /\ todo \in [Threads -> Seq(Ops)] BY DEF ForkInv, ForkTypes
  <1> DEFINE s == todo[t]  new == f \o Tail(s)
  <1>2. /\ new \in Seq(Ops) /\ Len(f) \in Nat /\ Len(s) \in Nat
        /\ DOMAIN new = 1 .. Len(f) + Len(s) - 1
        /\ \A p \in 1 .. Len(f) : new[p] = f[p]
        /\ \A p \in DOMAIN new : p > Len(f) =>
             p - Len(f) + 1 \in 2 .. Len(s) /\ new[p] = s[p - Len(f) + 1]
    BY <1>1, Shifted
  <1>3. todo'[t] = new /\ \A u \in Threads \ {t} : todo'[u] = todo[u] BY <1>1
  <1>4. s \in Seq(Ops) /\ DOMAIN s = 1 .. Len(s) /\ DOMAIN f = 1 .. Len(f) /\ 1 \in DOMAIN s
    BY <1>1
  <1> HIDE DEF new
  <1>5. Starting(s) BY <1>4 DEF Starting
  <1>6. Early(s) /\ initialized BY <1>1, <1>5 DEF ForkInv, StartInv
  <1>7. \A k \in DOMAIN s : s[k][1] \in Starts => k = 1 BY <1>1, <1>4 DEF ForkInv, StartInv
  <1>8. \A u \in Threads \ {t} : ~Starting(todo[u])
    BY <1>1, <1>4 DEF Starting, ForkInv, StartInv
  <1>9. ForkTypes' BY <1>1, <1>2, <1>3 DEF ForkInv, ForkTypes
  <1>10. OwnInv' BY DEF OwnInv, Releases
  <1>11. ASSUME NEW p \in DOMAIN new
         PROVE  \/ p \in DOMAIN f /\ new[p] = f[p]
                \/ /\ p > Len(f) /\ p - Len(f) + 1 \in DOMAIN s /\ p - Len(f) + 1 # 1
                   /\ new[p] = s[p - Len(f) + 1]
    <2>1. CASE p > Len(f)
      <3>1. p - Len(f) + 1 \in 2 .. Len(s) /\ new[p] = s[p - Len(f) + 1] BY <1>2, <2>1
      <3> QED BY <2>1, <3>1, <1>2, <1>4
    <2>2. CASE ~(p > Len(f))
      <3>1. p \in 1 .. Len(f) BY <1>2, <2>2
      <3> QED BY <1>2, <1>4, <3>1
    <2> QED BY <2>1, <2>2
  <1>12. Early(new) BY <1>6, <1>11 DEF Early
  <1>13. \A p \in DOMAIN new : new[p][1] \in Starts => p = Len(f) BY <1>7, <1>11
  <1>14. StartInv'
    <2>1. \A u \in Threads : Has(todo'[u], "init") \/ Starting(todo'[u]) => Early(todo'[u])
      BY <1>3, <1>12 DEF ForkInv, StartInv
    <2>2. \A u, v \in Threads : \A j \in DOMAIN todo'[u], k \in DOMAIN todo'[v] :
            todo'[u][j][1] \in Starts /\ todo'[v][k][1] \in Starts => u = v /\ j = k
      <3>1. \A u \in Threads : \A j \in DOMAIN todo'[u] :
              todo'[u][j][1] \in Starts => u = t /\ j = Len(f)
        BY <1>3, <1>8, <1>13 DEF Starting
      <3> QED BY <3>1
    <2>3. ASSUME NEW p \in DOMAIN new, NEW q \in DOMAIN new, new[p][1] = "init", p < q
          PROVE  new[q][2] # Single("tsinit")
      <3>1. p > Len(f) /\ p - Len(f) + 1 \in DOMAIN s /\ new[p] = s[p - Len(f) + 1]
        BY <1>11, <2>3
      <3>2. p \in Nat /\ q \in Nat /\ q > Len(f) BY <1>2, <2>3, <3>1
      <3>3. q - Len(f) + 1 \in DOMAIN s /\ new[q] = s[q - Len(f) + 1] BY <1>2, <1>4, <3>2
      <3>4. p - Len(f) + 1 < q - Len(f) + 1 BY <1>2, <2>3, <3>2
      <3> QED BY <1>1, <2>3, <3>1, <3>3, <3>4 DEF ForkInv, StartInv, Outside
    <2>4. \A u \in Threads : Outside(todo'[u])
      <3>1. Outside(new) BY <2>3 DEF Outside
      <3> QED BY <1>3, <3>1 DEF ForkInv, StartInv
    <2> QED BY <1>6, <2>1, <2>2, <2>4 DEF StartInv
  <1>15. YoungInv'
    <2>1. Young BY <1>1, <1>5 DEF Young
    <2>2. (\A u \in Threads : Early(todo[u])) => \A u \in Threads : Early(todo'[u])
      BY <1>3, <1>12
    <2> QED BY <2>1, <2>2 DEF ForkInv, YoungInv
  <1> QED BY <1>9, <1>10, <1>14, <1>15 DEF ForkInv

\* While the tool is starting nobody has a late mutex to give back.
LEMMA AllEarly ==
  ASSUME ForkInv, NEW t \in Threads, Starting(todo[t])
  PROVE  \A u \in Threads : Early(todo[u])
  <1>1. Young BY DEF Young
  <1>2. CASE side = "parent" BY <1>1, <1>2 DEF ForkInv, YoungInv
  <1>3. CASE side # "parent"
    <2>1. PICK w \in Threads : alive = {w} BY <1>1, <1>3 DEF ForkInv, YoungInv
    <2>2. todo[t] # <<>> BY DEF Starting
    <2>3. t \in alive BY <2>2 DEF ForkInv, ForkTypes
    <2>4. \A u \in Threads \ {t} : todo[u] = <<>> BY <2>1, <2>3 DEF ForkInv, ForkTypes
    <2>5. \A u \in Threads \ {t} : Early(todo[u]) BY <2>4 DEF Early
    <2> QED BY <2>5 DEF ForkInv, StartInv
  <1> QED BY <1>2, <1>3

\* A part of the start leaves the mutexes of all calls alone, and the releases in
\* it are for the thread that runs it.
LEMMA StartsOwn ==
  ASSUME ForkInv, ~remade, NEW t \in Threads, todo[t] # <<>>, todo[t][1][1] \in Starts,
         todo[t][1][1] # "start" => todo[t][1][2] = Single("tsinit"),
         NEW f \in Seq(Ops), todo' = [todo EXCEPT ![t] = f \o Tail(@)],
         \A l \in Locks \ Late : locks'[l] = locks[l],
         \A k \in DOMAIN f : f[k][1] \in Ends =>
           Opened(f, k) \/ (locks'[f[k][2]] = t /\ Untouched(f, k, f[k][2])),
         \A k \in DOMAIN f : f[k][1] = "start" \/
           (todo[t][1][1] # "start" /\ f[k][2] = Single("tsinit"))
  PROVE  \A u \in Threads : Releases(u)'
  <1> DEFINE s == todo[t]
  <1>1. /\ todo \in [Threads -> Seq(Ops)] /\ s \in Seq(Ops) /\ s # <<>>
        /\ DOMAIN s = 1 .. Len(s) /\ 1 \in DOMAIN s /\ Len(s) \in Nat
    BY DEF ForkInv, ForkTypes
  <1>2. \A u \in Threads : Releases(u) BY DEF ForkInv, OwnInv, Releases
  <1>3. Starting(s) BY <1>1 DEF Starting
  <1>4. \A u \in Threads : Early(todo[u]) BY <1>3, AllEarly
  <1>5. \A u \in Threads : \A k \in DOMAIN todo[u] : todo[u][k][2] \in Locks \ Late
    <2> SUFFICES ASSUME NEW u \in Threads, NEW k \in DOMAIN todo[u]
                 PROVE  todo[u][k][2] \in Locks \ Late
      OBVIOUS
    <2>1. todo[u][k] \in Ops BY <1>1
    <2>2. todo[u][k][2] \in Locks BY <2>1, LockNames DEF Ops, Singles
    <2> QED BY <1>4, <2>2 DEF Early
  <1>6. todo'[t] = f \o Tail(s) /\ \A u \in Threads \ {t} : todo'[u] = todo[u] BY <1>1
  <1> SUFFICES ASSUME NEW u \in Threads PROVE Releases(u)'
    OBVIOUS
  <1>7. CASE u = t
    <2>1. s[1][1] # "lock" BY DEF Starts
    <2>2. ASSUME NEW k \in 2 .. Len(s), locks[s[k][2]] = t, ~Touches(s[1], s[k][2])
          PROVE  locks'[s[k][2]] = t /\ \A i \in DOMAIN f : ~Touches(f[i], s[k][2])
      <3>1. s[k][2] \in Locks \ Late
        <4>1. k \in DOMAIN s BY <1>1
        <4> QED BY <4>1, <1>5
      <3>2. s[1][1] # "start" => s[k][2] # Single("tsinit")
        BY <2>2 DEF Touches, Starts
      <3>3. \A i \in DOMAIN f : ~Touches(f[i], s[k][2]) BY <3>1, <3>2 DEF Touches
      <3> QED BY <2>2, <3>1, <3>3
    <2> QED BY <1>1, <1>2, <1>6, <1>7, <2>1, <2>2, OwnerReleases
  <1>8. CASE u # t
    <2>1. \A k \in DOMAIN todo[u] : locks[todo[u][k][2]] = u => locks'[todo[u][k][2]] = u
      BY <1>5
    <2> QED BY <1>2, <1>6, <1>8, <2>1, OthersRelease
  <1> QED BY <1>7, <1>8

\* mtt_ts_init: the time series are ready, or their mutex is to be made.
LEMMA CheckStep ==
  ASSUME ForkInv, NEW t \in Threads, TsInitCheck(t)
  PROVE  ForkInv'
  <1> DEFINE s == todo[t]  m == Single("tsinit")
             f == IF ts_ready THEN <<<<"start", Single("init")>>>>
                  ELSE <<<<"lock", m>>, <<"make", m>>>>
  <1>1. /\ todo \in [Threads -> Seq(Ops)] /\ s \in Seq(Ops) /\ s # <<>> /\ t \in alive
        /\ Head(s) = s[1] /\ DOMAIN s = 1 .. Len(s) /\ 1 \in DOMAIN s
        /\ locks \in [Locks -> Threads \cup {"none", "lost"}] /\ ts_ready \in BOOLEAN
    BY DEF ForkInv, ForkTypes, TsInitCheck, At
  <1>2. /\ s[1][1] = "check" /\ todo' = [todo EXCEPT ![t] = f \o Tail(@)]
        /\ UNCHANGED <<side, locks, alive, initialized, ts_ready, registered, remade>>
    BY <1>1 DEF TsInitCheck, At, Then
  <1>3. s[1][2] = m
    <2>1. s[1] \in Ops BY <1>1
    <2> QED BY <1>2, <2>1 DEF Ops
  <1>4. m \in Locks /\ m \notin Late /\ Single("init") \notin Late /\ Single("init") \in Locks
    BY LockNames DEF Singles, Late, Single
  <1>5. /\ f \in Seq(Ops)
        /\ \/ Len(f) = 1 /\ DOMAIN f = {1} /\ f[1] = <<"start", Single("init")>>
           \/ /\ Len(f) = 2 /\ DOMAIN f = 1 .. 2
              /\ f[1] = <<"lock", m>> /\ f[2] = <<"make", m>>
    <2>1. CASE ts_ready BY <1>4, <2>1 DEF Ops
    <2>2. CASE ~ts_ready BY <1>4, <2>2 DEF Ops
    <2> QED BY <2>1, <2>2
  <1> HIDE DEF f, m
  <1>6. \A k \in DOMAIN f : f[k][1] \in Ends => Opened(f, k)
    BY <1>5 DEF Opened, Ends
  <1>7. \A k \in DOMAIN f : f[k][1] # "init" /\ f[k][2] \notin Late BY <1>4, <1>5
  <1>8. \A k \in DOMAIN f : f[k][1] \in Starts => k = Len(f)
    <2>1. CASE Len(f) = 1 BY <1>5, <2>1
    <2>2. CASE Len(f) = 2
      <3>1. f[1][1] \notin Starts BY <1>5, <2>2 DEF Starts
      <3> QED BY <1>5, <2>2, <3>1
    <2> QED BY <1>5, <2>1, <2>2
  <1>9. \A k \in DOMAIN f : f[k][1] = "start" \/ f[k][2] = m BY <1>5
  <1>10. s[1][1] \in Starts BY <1>2 DEF Starts
  <1>11. ~remade => \A u \in Threads : Releases(u)'
    BY <1>1, <1>2, <1>3, <1>5, <1>6, <1>9, <1>10, StartsOwn DEF m
  <1> QED BY <1>1, <1>2, <1>5, <1>7, <1>8, <1>10, <1>11, StartsOn

\* mtt_ts_init makes the mutex of the time series, which nobody uses yet.
LEMMA MakeStep ==
  ASSUME ForkInv, NEW t \in Threads, TsInitMake(t)
  PROVE  ForkInv'
  <1> DEFINE s == todo[t]  m == Single("tsinit")
             f == <<<<"unlock", m>>, <<"start", Single("init")>>>>
  <1>1. /\ todo \in [Threads -> Seq(Ops)] /\ s \in Seq(Ops) /\ s # <<>> /\ t \in alive
        /\ Head(s) = s[1] /\ DOMAIN s = 1 .. Len(s) /\ 1 \in DOMAIN s
        /\ locks \in [Locks -> Threads \cup {"none", "lost"}]
    BY DEF ForkInv, ForkTypes, TsInitMake, At
  <1>2. /\ s[1][1] = "make" /\ todo' = [todo EXCEPT ![t] = f \o Tail(@)]
        /\ locks' = (IF ts_ready THEN locks ELSE Reset({"ts"})) /\ ts_ready' = TRUE
        /\ UNCHANGED <<side, alive, initialized, registered, remade>>
    BY <1>1 DEF TsInitMake, At, Then
  <1>3. s[1][2] = m
    <2>1. s[1] \in Ops BY <1>1
    <2> QED BY <1>2, <2>1 DEF Ops
  <1>4. m \in Locks /\ m \notin Late /\ Single("init") \notin Late /\ Single("init") \in Locks
    BY LockNames DEF Singles, Late, Single
  <1>5. /\ f \in Seq(Ops) /\ Len(f) = 2 /\ DOMAIN f = 1 .. 2
        /\ f[1] = <<"unlock", m>> /\ f[2] = <<"start", Single("init")>>
    BY <1>4 DEF Ops
  <1>6. \A l \in Locks \ Late : locks'[l] = locks[l]
    <2>1. \A l \in Locks : l[1] \in {"ts"} => l \in Late
      BY DEF Locks, Late, Bucket, Pool, Single, Singles
    <2> QED BY <1>2, <2>1 DEF Reset
  <1> HIDE DEF f, m
  <1>7. ~remade => locks'[m] = t
    <2>1. ~Opened(s, 1) BY DEF Opened
    <2>2. ~remade => locks[m] = t BY <1>1, <1>2, <1>3, <2>1 DEF ForkInv, OwnInv, Owns, Ends
    <2> QED BY <1>4, <1>6, <2>2
  <1>8. ~remade => \A k \in DOMAIN f : f[k][1] \in Ends =>
           Opened(f, k) \/ (locks'[f[k][2]] = t /\ Untouched(f, k, f[k][2]))
    BY <1>5, <1>7 DEF Untouched, Ends
  <1>9. \A k \in DOMAIN f : f[k][1] = "start" \/ f[k][2] = m BY <1>5
  <1>10. s[1][1] \in Starts BY <1>2 DEF Starts
  <1>11. ~remade => \A u \in Threads : Releases(u)'
    BY <1>1, <1>2, <1>3, <1>5, <1>6, <1>8, <1>9, <1>10, StartsOwn DEF m
  <1>12. \A k \in DOMAIN f : f[k][1] # "init" /\ f[k][2] \notin Late BY <1>4, <1>5
  <1>13. \A k \in DOMAIN f : f[k][1] \in Starts => k = Len(f) BY <1>5 DEF Starts
  <1>14. locks' \in [Locks -> Threads \cup {"none", "lost"}] BY <1>1, <1>2 DEF Reset
  <1> QED BY <1>1, <1>2, <1>5, <1>10, <1>11, <1>12, <1>13, <1>14, StartsOn

\* mtt_reporter_start: nobody has one of the mutexes it makes.
LEMMA StartStep ==
  ASSUME ForkInv, NEW t \in Threads, StartTools(t)
  PROVE  ForkInv'
  <1> DEFINE s == todo[t]
  <1>1. /\ todo \in [Threads -> Seq(Ops)] /\ s \in Seq(Ops) /\ t \in alive /\ s # <<>>
        /\ locks \in [Locks -> Threads \cup {"none", "lost"}] /\ alive \subseteq Threads
    BY DEF ForkInv, ForkTypes, StartTools, At
  <1>2. /\ Head(s) = s[1] /\ DOMAIN s = 1 .. Len(s) /\ 1 \in DOMAIN s /\ Len(s) \in Nat
        /\ Tail(s) \in Seq(Ops) /\ DOMAIN Tail(s) = 1 .. Len(s) - 1
        /\ \A k \in 1 .. Len(s) - 1 : Tail(s)[k] = s[k + 1]
    BY <1>1
  <1>0. PICK started \in Started : alive' = alive \cup started BY DEF StartTools
  <1>3. /\ s[1][1] = "start" /\ alive' \subseteq alive \cup Tools /\ alive \subseteq alive'
        /\ registered' = TRUE
        /\ locks' = Reset({"scan", "cache"}) /\ todo' = [todo EXCEPT ![t] = Tail(@)]
        /\ UNCHANGED <<side, initialized, ts_ready, remade>>
    BY <1>0, <1>2, ForkConstants DEF StartTools, At, Done
  <1>4. todo'[t] = Tail(s) /\ \A u \in Threads \ {t} : todo'[u] = todo[u] BY <1>1, <1>3
  <1>5. Starting(s) /\ s[1][1] \in Starts BY <1>2, <1>3 DEF Starting, Starts
  <1>6. initialized /\ Early(s) BY <1>5 DEF ForkInv, StartInv
  <1>7. \A u \in Threads : Early(todo[u]) BY <1>5, AllEarly
  \* There is no other start.
  <1>8. \A u \in Threads : ~Starting(todo'[u])
    <2> SUFFICES ASSUME NEW u \in Threads, NEW k \in DOMAIN todo'[u], todo'[u][k][1] \in Starts
                 PROVE  FALSE
      BY DEF Starting
    <2>1. CASE u = t
      <3>0. k \in 1 .. Len(s) - 1 /\ Tail(s)[k][1] \in Starts BY <1>2, <1>4, <2>1
      <3>1. k + 1 \in DOMAIN s /\ s[k + 1][1] \in Starts /\ k + 1 # 1 BY <1>2, <3>0
      <3> QED BY <1>2, <1>5, <3>1 DEF ForkInv, StartInv
    <2>2. CASE u # t
      <3>1. k \in DOMAIN todo[u] /\ todo[u][k][1] \in Starts BY <1>4, <2>2
      <3> QED BY <1>2, <1>5, <2>2, <3>1 DEF ForkInv, StartInv
    <2> QED BY <2>1, <2>2
  <1>9. Early(Tail(s))
    <2>1. \A k \in 1 .. Len(s) - 1 : k + 1 \in DOMAIN s BY <1>2
    <2> QED BY <1>2, <1>6, <2>1 DEF Early
  <1>10. ForkTypes'
    <2>1. locks' \in [Locks -> Threads \cup {"none", "lost"}] BY <1>1, <1>3 DEF Reset
    <2>2. todo' \in [Threads -> Seq(Ops)] BY <1>1, <1>2, <1>3
    <2>3. alive' \subseteq Threads BY <1>1, <1>3 DEF Threads
    <2>4. \A u \in Threads \ alive' : todo'[u] = <<>>
      BY <1>1, <1>3, <1>4 DEF ForkInv, ForkTypes
    <2> QED BY <1>3, <2>1, <2>2, <2>3, <2>4 DEF ForkInv, ForkTypes
  <1>11. OwnInv'
    <2> SUFFICES ASSUME ~remade, NEW u \in Threads PROVE Releases(u)'
      BY <1>3 DEF OwnInv, Releases
    <2>1. \A v \in Threads : Releases(v) BY DEF ForkInv, OwnInv, Releases
    <2>2. \A l \in Locks \ Late : locks'[l] = locks[l]
      <3>1. \A l \in Locks : l[1] \in {"scan", "cache"} => l \in Late
        BY DEF Locks, Late, Bucket, Pool, Single, Singles
      <3> QED BY <1>3, <3>1 DEF Reset
    <2>3. \A v \in Threads : \A k \in DOMAIN todo[v] : todo[v][k][2] \in Locks \ Late
      BY <1>1, <1>7, LockNames DEF Ops, Singles, Early
    <2>4. CASE u = t
      <3>1. \A k \in 2 .. Len(s) : locks'[s[k][2]] = locks[s[k][2]] BY <1>2, <2>2, <2>3
      <3>2. s[1][1] # "lock" BY <1>3
      <3> QED BY <1>1, <1>4, <2>1, <2>4, <3>1, <3>2, OwnerGoesOn
    <2>5. CASE u # t BY <1>4, <2>1, <2>2, <2>3, <2>5, OthersRelease
    <2> QED BY <2>4, <2>5
  <1>12. StartInv'
    <2>1. \A u \in Threads : Early(todo'[u]) BY <1>4, <1>7, <1>9
    <2>2. Outside(Tail(s))
      <3>1. \A j \in 1 .. Len(s) - 1 : j + 1 \in DOMAIN s BY <1>2
      <3>2. \A j, k \in 1 .. Len(s) - 1 : j < k => j + 1 < k + 1 BY <1>2
      <3> QED BY <1>2, <3>1, <3>2 DEF ForkInv, StartInv, Outside
    <2>3. \A u \in Threads : Outside(todo'[u]) BY <1>4, <2>2 DEF ForkInv, StartInv
    <2> QED BY <1>8, <2>1, <2>3 DEF StartInv, Starting
  <1>13. YoungInv'
    <2>1. ~Young' BY <1>3, <1>6, <1>8 DEF Young
    <2> QED BY <2>1 DEF YoungInv
  <1> QED BY <1>10, <1>11, <1>12, <1>13 DEF ForkInv

\* The child has one thread, which is in no call.
LEMMA ChildStep ==
  ASSUME ForkInv, NEW t \in Threads, RawForkChild(t)
  PROVE  ForkInv'
  <1>1. /\ side' = "child" /\ alive' = {t} /\ todo' = [u \in Threads |-> <<>>]
        /\ locks' = Copied(t, {"init", "bucket", "pool", "scan", "cache"})
        /\ initialized' = FALSE /\ UNCHANGED <<ts_ready, registered, remade>>
    BY DEF RawForkChild
  <1>2. locks' \in [Locks -> Threads \cup {"none", "lost"}]
    BY <1>1 DEF Copied
  <1>3. \A u \in Threads : todo'[u] = <<>> /\ DOMAIN todo'[u] = {} BY <1>1
  <1>4. todo' \in [Threads -> Seq(Ops)]
    <2>1. <<>> \in Seq(Ops) OBVIOUS
    <2> QED BY <1>1, <2>1
  <1>5. ForkTypes' BY <1>1, <1>2, <1>3, <1>4 DEF ForkInv, ForkTypes
  <1>6. OwnInv' BY <1>3 DEF OwnInv
  <1>7. StartInv' BY <1>3 DEF StartInv, Has, Starting, Outside
  <1>8. YoungInv' BY <1>1 DEF YoungInv
  <1> QED BY <1>5, <1>6, <1>7, <1>8 DEF ForkInv

-----------------------------------------------------------------------------
(* The theorems.                                                           *)

\* A thread that is to release a mutex has it, or will lock it first; the tool is
\* started once in a process, when nobody uses the reporter's mutexes.
THEOREM ForkInvariant == Spec => []ForkInv
  <1>1. Init => ForkInv
    <2> SUFFICES ASSUME Init PROVE ForkInv
      OBVIOUS
    <2>0. Workers \cap Tools = {} /\ Workers \subseteq Threads BY ForkConstants DEF Threads
    <2>1. <<>> \in Seq(Ops) OBVIOUS
    <2>2. \A t \in Threads : todo[t] = <<>> /\ DOMAIN todo[t] = {} BY DEF Init
    <2>3. ForkTypes BY <2>0, <2>1, <2>2 DEF Init, ForkTypes
    <2>4. OwnInv BY <2>2 DEF OwnInv
    <2>5. StartInv BY <2>2 DEF StartInv, Has, Starting, Outside
    <2>6. YoungInv BY <2>0, <2>2 DEF Init, YoungInv, Early
    <2> QED BY <2>3, <2>4, <2>5, <2>6 DEF ForkInv
  <1>2. ForkInv /\ [Next]_vars => ForkInv'
    <2> SUFFICES ASSUME ForkInv, [Next]_vars PROVE ForkInv'
      OBVIOUS
    <2>1. CASE UNCHANGED vars
      BY <2>1 DEF vars, ForkInv, ForkTypes, OwnInv, Owns, StartInv, YoungInv, Young
    <2>2. CASE Next
      <3>1. PICK t \in Threads :
              \/ Hook(t) \/ Exit(t) \/ ToolRound(t) \/ CallFork(t)
              \/ Step(t)
        BY <2>2 DEF Next
      <3>2. CASE Step(t)
        BY <3>2, MutexSteps, InitStep, CheckStep, MakeStep, StartStep, ChildStep DEF Step
      <3> QED BY <3>1, <3>2, EnterSteps
    <2> QED BY <2>1, <2>2
  <1> QED BY <1>1, <1>2, PTL DEF Spec

\* For any number of threads and stripes, in the parent and in the child, a mutex
\* of the tool is released by the thread that locked it, unless mtt_ensure_init
\* has made it anew while another thread held it (tracker.c:1336, 1594).
THEOREM OwnersUnlock == Spec => []UnlocksOwn
  <1>1. ForkInv => UnlocksOwn
    <2> SUFFICES ASSUME ForkInv, ~remade, NEW t \in Threads, At(t, "unlock")
                 PROVE  locks[TheLock(t)] = t
      BY DEF UnlocksOwn
    <2>1. todo[t] \in Seq(Ops) /\ todo[t] # <<>> /\ Head(todo[t])[1] = "unlock"
      BY DEF ForkInv, ForkTypes, At
    <2>2. Head(todo[t]) = todo[t][1] /\ 1 \in DOMAIN todo[t] BY <2>1
    <2>3. ~Opened(todo[t], 1) BY DEF Opened
    <2>4. Owns(t, 1) BY <2>1, <2>2, <2>3 DEF ForkInv, OwnInv, Ends
    <2> QED BY <2>2, <2>4 DEF Owns, TheLock
  <1> QED BY <1>1, ForkInvariant, PTL
=============================================================================
