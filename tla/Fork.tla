-------------------------------- MODULE Fork --------------------------------
(***************************************************************************)
(* The fork() hook (hooks.c, tracker.c, reporter.c) and every mutex of the *)
(* tool.  A call of the tool is the sequence of mutexes it takes and       *)
(* releases; its data is left out.  fork takes the 64 stripe locks, calls  *)
(* libc's fork, and releases them in the parent; the child starts as a     *)
(* copy of all the mutexes with one thread, resets some of them, and runs  *)
(* mtt_ensure_init again at its first hook.  The two processes share no    *)
(* mutex, so a behaviour goes on with one of them: all continuations of    *)
(* each are among the behaviours.                                          *)
(***************************************************************************)
EXTENDS Naturals, Sequences, FiniteSets

CONSTANTS
  Workers,      \* threads of the traced program
  Program,      \* the hooks each of them calls
  Tools,        \* the tool's own threads
  Started,      \* those that run after a start: any may fail, HTTP may be off
  NStripes,     \* MTT_LOCK_STRIPES
  Unwinds,      \* BOOLEAN: stacks are captured under g_unwind_mutex
  Calls         \* bound: calls of each thread, and again in the child

ASSUME ForkConstants ==
  /\ Tools \subseteq {"reporter", "signal", "http"} /\ Started \subseteq SUBSET Tools
  /\ Workers \cap (Tools \cup {"none", "lost"}) = {}
  /\ Program \in [Workers -> SUBSET {"malloc", "free", "realloc"}]
  /\ NStripes \in Nat \ {0} /\ Unwinds \in BOOLEAN /\ Calls \in Nat

Threads == Workers \cup Tools
Stripes == 0 .. NStripes - 1

\* g_init_lock, bucket_locks, pool_locks, g_unwind_mutex, scan_mutex,
\* cache_lock, the time series' lock, ts_init_lock, g_refresh_lock and the
\* stack cache's.
Bucket(i) == <<"bucket", i>>
Pool(i)   == <<"pool", i>>
Single(n) == <<n, 0>>
Singles   == {"init", "unwind", "scan", "cache", "ts", "tsinit", "refresh", "stacks"}
Locks == {Bucket(i) : i \in Stripes} \cup {Pool(i) : i \in Stripes}
         \cup {Single(n) : n \in Singles}

VARIABLES
  side,     \* the process that is followed: "parent" or "child"
  locks,    \* mutex -> thread that locked it, "none", or "lost": a thread
            \* that was not copied into the child
  alive,    \* threads that exist in this process
  todo,     \* thread -> mutex operations left of its call
  left,     \* thread -> calls it may still make
  initialized, \* s->initialized
  ts_ready,    \* g_ts_initialized
  registered,  \* atexit(mtt_atexit_handler) was called
  remade    \* history: a mutex was initialised while a thread held it

vars == <<side, locks, alive, todo, left, initialized, ts_ready, registered, remade>>

-----------------------------------------------------------------------------
(* The calls, as sequences of operations on mutexes.                       *)

Hold(l) == <<<<"lock", l>>, <<"unlock", l>>>>
Within(l, inner) == <<<<"lock", l>>>> \o inner \o <<<<"unlock", l>>>>

\* mtt_ensure_init, when initialized is not set.
EnsureInit == <<<<"lock", Single("init")>>, <<"init", Single("init")>>>>

\* mtt_entry_new: the stripe's pool and, if it is empty, a try at the others;
\* then the stack of the caller.
EntryNew(i, empty) ==
  Hold(Pool(i))
  \o (IF empty THEN [k \in 1 .. NStripes - 1 |-> <<"try", Pool((i + k) % NStripes)>>]
      ELSE <<>>)
  \o (IF Unwinds THEN Hold(Single("unwind")) ELSE <<>>)

\* malloc; a record that is over capacity is discarded after the lock.
Malloc == {EntryNew(i, e) \o Hold(Bucket(i)) \o d :
           i \in Stripes, e \in BOOLEAN, d \in {<<>>} \cup {Hold(Pool(j)) : j \in Stripes}}

\* mtt_entry_remove, with the stripe locked by its caller.
EntryRemove(i, j) == Within(Bucket(i), Hold(Pool(j)))

Free == {EntryRemove(i, j) : i \in Stripes, j \in Stripes}
        \cup {Hold(Bucket(i)) : i \in Stripes}

\* realloc: look the old record up, delete it, insert the new one.
Renew(i, j, k) ==
  Hold(Bucket(i)) \o EntryRemove(i, j) \o EntryNew(k, FALSE) \o Hold(Bucket(k))
Realloc == {Renew(i, j, k) : i \in Stripes, j \in Stripes, k \in Stripes}

HookCalls(name) == CASE name = "malloc" -> Malloc
                     [] name = "free"   -> Free
                     [] OTHER           -> Realloc

\* Every stripe is copied under its own lock.
CopyStripes ==
  [k \in 1 .. 2 * NStripes |->
     <<IF k % 2 = 1 THEN "lock" ELSE "unlock", Bucket((k - 1) \div 2)>>]

\* scan_and_report, with scan_mutex around all of it.
Scan ==
  Within(Single("scan"),
         Hold(Single("refresh")) \o Hold(Single("ts")) \o Hold(Single("cache"))
         \o CopyStripes
         \o Hold(Single("stacks")) \o Within(Single("cache"), Hold(Single("ts"))))

\* One round of reporter_thread_fn or of mtt_signal_thread_fn, and a request
\* to the HTTP server.
Round(t) == IF t = "http" THEN {Hold(Single("ts")), Hold(Single("cache"))}
            ELSE {Hold(Single("ts")) \o Scan}

\* mtt_atexit_handler.
AtExit == Hold(Single("cache"))

\* mtt_fork_prepare and mtt_fork_parent, around libc's fork.
Prepare == [i \in 1 .. NStripes |-> <<"lock", Bucket(i - 1)>>]
ForkParent == [i \in 1 .. NStripes |-> <<"unlock", Bucket(i - 1)>>]
ForkCall == Prepare \o <<<<"fork", Bucket(0)>>>> \o ForkParent

-----------------------------------------------------------------------------
Init ==
  /\ side = "parent"
  /\ locks = [l \in Locks |-> "none"]
  /\ alive = Workers
  /\ todo = [t \in Threads |-> <<>>]
  /\ left = [t \in Threads |-> Calls]
  /\ initialized = FALSE /\ ts_ready = FALSE /\ registered = FALSE /\ remade = FALSE

\* A thread that exists enters the tool.
Enter(t, call) ==
  /\ t \in alive /\ todo[t] = <<>> /\ left[t] > 0
  /\ todo' = [todo EXCEPT ![t] = call]
  /\ left' = [left EXCEPT ![t] = @ - 1]
  /\ UNCHANGED <<side, locks, alive, initialized, ts_ready, registered, remade>>

\* The first hook of a process initialises the tool.
Hook(t) ==
  /\ t \in Workers
  /\ \E name \in Program[t] : \E call \in HookCalls(name) :
       Enter(t, IF initialized THEN call ELSE EnsureInit \o call)

\* The program exits; mtt_reporter_start has registered the handler, and a
\* child inherits that.
Exit(t) == t \in Workers /\ registered /\ Enter(t, AtExit)

ToolRound(t) == t \in Tools /\ \E call \in Round(t) : Enter(t, call)

\* The program calls fork; the child's own forks are not modelled.
CallFork(t) == t \in Workers /\ side = "parent" /\ Enter(t, ForkCall)

-----------------------------------------------------------------------------
At(t, op) == t \in alive /\ todo[t] # <<>> /\ Head(todo[t])[1] = op
TheLock(t) == Head(todo[t])[2]
Done(t) == todo' = [todo EXCEPT ![t] = Tail(@)]
\* The operation is replaced by more of them.
Then(t, ops) == todo' = [todo EXCEPT ![t] = ops \o Tail(@)]

\* pthread_mutex_lock
Lock(t) ==
  /\ At(t, "lock") /\ locks[TheLock(t)] = "none"
  /\ locks' = [locks EXCEPT ![TheLock(t)] = t]
  /\ Done(t)
  /\ UNCHANGED <<side, alive, left, initialized, ts_ready, registered, remade>>

\* pthread_mutex_trylock: taken and released, or passed over.
TryLock(t) ==
  /\ At(t, "try")
  /\ IF locks[TheLock(t)] = "none"
     THEN /\ locks' = [locks EXCEPT ![TheLock(t)] = t]
          /\ Then(t, <<<<"unlock", TheLock(t)>>>>)
     ELSE Done(t) /\ UNCHANGED locks
  /\ UNCHANGED <<side, alive, left, initialized, ts_ready, registered, remade>>

\* pthread_mutex_unlock; nothing checks that the caller is the owner.
Unlock(t) ==
  /\ At(t, "unlock")
  /\ locks' = [locks EXCEPT ![TheLock(t)] = "none"]
  /\ Done(t)
  /\ UNCHANGED <<side, alive, left, initialized, ts_ready, registered, remade>>

\* pthread_mutex_init of the locks of the given kinds.
Reset(kinds) == [l \in Locks |-> IF l[1] \in kinds THEN "none" ELSE locks[l]]

\* mtt_ensure_init under g_init_lock: if no other thread was faster, the
\* table, the locks and the pool are made.
EnsureInitBody(t) ==
  /\ At(t, "init")
  /\ IF initialized
     THEN /\ Then(t, <<<<"unlock", Single("init")>>>>)
          /\ UNCHANGED <<locks, initialized, remade>>
     ELSE /\ locks' = Reset({"bucket", "pool"})
          /\ remade' = (remade \/ \E l \in Locks : l[1] \in {"bucket", "pool"} /\ locks[l] # "none")
          /\ initialized' = TRUE
          /\ Then(t, <<<<"unlock", Single("init")>>, <<"check", Single("tsinit")>>>>)
  /\ UNCHANGED <<side, alive, left, ts_ready, registered>>

\* mtt_ts_init, which the thread that initialised the tool calls when it has
\* released g_init_lock: it returns at once when the time series are ready, as
\* they are in a child whose parent had made them,
TsInitCheck(t) ==
  /\ At(t, "check")
  /\ Then(t, IF ts_ready THEN <<<<"start", Single("init")>>>>
             ELSE <<<<"lock", Single("tsinit")>>, <<"make", Single("tsinit")>>>>)
  /\ UNCHANGED <<side, locks, alive, left, initialized, ts_ready, registered, remade>>

\* and makes them, with their lock, under ts_init_lock if they still are not.
TsInitMake(t) ==
  /\ At(t, "make")
  /\ locks' = IF ts_ready THEN locks ELSE Reset({"ts"})
  /\ ts_ready' = TRUE
  /\ Then(t, <<<<"unlock", Single("tsinit")>>, <<"start", Single("init")>>>>)
  /\ UNCHANGED <<side, alive, left, initialized, registered, remade>>

\* mtt_reporter_start (which makes its two mutexes and registers the exit
\* handler), mtt_http_server_start and mtt_signal_thread_start.
StartTools(t) ==
  /\ At(t, "start")
  /\ \E started \in Started : alive' = alive \cup started
  /\ registered' = TRUE
  /\ locks' = Reset({"scan", "cache"})
  /\ Done(t)
  /\ UNCHANGED <<side, left, initialized, ts_ready, remade>>

\* The parent goes on after libc's fork, also when that failed.
RawForkParent(t) ==
  /\ At(t, "fork")
  /\ Done(t)
  /\ UNCHANGED <<side, locks, alive, left, initialized, ts_ready, registered, remade>>

\* The mutexes of the child t: those of the given kinds are made anew, the
\* others are as they were copied.
Copied(t, kinds) ==
  [l \in Locks |-> IF Reset(kinds)[l] \in {"none", t} THEN Reset(kinds)[l] ELSE "lost"]

RawForkChild_Unlocks(t) ==
  /\ At(t, "fork") /\ side' = "child"
  /\ alive' = {t}
  /\ locks' = Copied(t, {"init", "bucket", "pool", "scan", "cache"})
  /\ todo' = [u \in Threads |-> IF u = t THEN ForkParent ELSE <<>>]
  /\ left' = [u \in Threads |-> Calls]
  /\ initialized' = FALSE
  /\ UNCHANGED <<ts_ready, registered, remade>>

\* The child is a copy with the calling thread only.  mtt_fork_child and
\* mtt_reporter_reset_for_fork make some of the mutexes anew and clear
\* initialized.
RawForkChild(t) ==
  /\ At(t, "fork") /\ side' = "child"
  /\ alive' = {t}
  /\ locks' = Copied(t, {"init", "bucket", "pool", "scan", "cache"})
  /\ todo' = [u \in Threads |-> <<>>]
  /\ left' = [u \in Threads |-> Calls]
  /\ initialized' = FALSE
  /\ UNCHANGED <<ts_ready, registered, remade>>

Step(t) ==
  \/ Lock(t) \/ TryLock(t) \/ Unlock(t) \/ EnsureInitBody(t)
  \/ TsInitCheck(t) \/ TsInitMake(t) \/ StartTools(t) \/ RawForkParent(t) \/ RawForkChild(t)

Next == \E t \in Threads :
  Hook(t) \/ Exit(t) \/ ToolRound(t) \/ CallFork(t) \/ Step(t)

\* A thread that has entered the tool keeps running.
Spec == Init /\ [][Next]_vars
FairSpec == Spec /\ \A t \in Threads : WF_vars(Step(t))

-----------------------------------------------------------------------------
\* Types of the mutexes and of the threads' calls.
TypeOK ==
  /\ side \in {"parent", "child"}
  /\ locks \in [Locks -> Threads \cup {"none", "lost"}]
  /\ alive \subseteq Threads /\ initialized \in BOOLEAN
  /\ ts_ready \in BOOLEAN /\ registered \in BOOLEAN /\ remade \in BOOLEAN
  /\ left \in [Threads -> 0 .. Calls]
  /\ \A t \in Threads : \A k \in DOMAIN todo[t] :
       /\ todo[t][k][1] \in {"lock", "unlock", "try", "init", "check", "make", "start",
                            "fork"}
       /\ todo[t][k][2] \in Locks

\* A mutex is released by the thread that locked it, in both processes: no
\* path unlocks what it lost to a pthread_mutex_init (tracker.c:1336, 1594),
\* unless mtt_ensure_init of one thread re-made a mutex that another held,
\* which a fork before the tool is initialised brings about.
UnlocksOwn ==
  ~remade => \A t \in Threads : At(t, "unlock") => locks[TheLock(t)] = t

\* The thread waits for a mutex whose holder was not copied into the child.
WaitsForLost(t, names) ==
  At(t, "lock") /\ locks[TheLock(t)] = "lost" /\ TheLock(t)[1] \in names


\* Every hook the child calls returns: the purpose of the fork hook is that
\* the child does not hang on a mutex (tracker.c:1517, hooks.c:954-955).  Left
\* out is a fork within mtt_ts_init, whose mutex the child's first hook needs.
ChildHookReturns ==
  \A t \in Workers : side = "child" /\ todo[t] # <<>> ~>
    todo[t] = <<>> \/ WaitsForLost(t, {"tsinit"})
=============================================================================
