----------------------------- MODULE HttpServer -----------------------------
(***************************************************************************)
(* The dashboard's server (http_server.c) with what its thread reads: the  *)
(* ring of points (TimeSeries) and the entries that scans publish          *)
(* (StackCache).  mtt_http_server_start runs in the first hook of a        *)
(* process, mtt_http_server_stop in the exit handler, and the forked child *)
(* starts again.  Descriptors are numbers the kernel gives out lowest      *)
(* first, to the tool and to the program alike.  Requests are known by the *)
(* handler they reach; the text of the answers is left out.                *)
(***************************************************************************)
EXTENDS StackCache, TimeSeries

CONSTANTS
  Profiles,     \* the sets of parts that are active together, see parts
  Fds,          \* descriptor numbers, from 0
  Ports,        \* port numbers, from 0; arithmetic is modulo their number
  DefaultPort,  \* MTT_HTTP_DEFAULT_PORT
  Requested,    \* the ports MTT_HTTP_PORT may name
  Taken,        \* ports held by other processes at first
  BindRetries,  \* MTT_HTTP_BIND_RETRIES
  Fallbacks,    \* ports tried after the requested one
  RecvRetries,  \* retries of recv
  MaxRequests, MaxOpens   \* bounds: connections, descriptors the program opens

ASSUME HttpServerConstants ==
  /\ Fds \subseteq Nat
  /\ Cardinality(Ports) \in Nat \ {0} /\ Ports = 0 .. Cardinality(Ports) - 1
  /\ Requested \cup {DefaultPort} \subseteq Ports /\ Taken \subseteq Ports \ {0}
  /\ BindRetries \in Nat \ {0} /\ Fallbacks \in Nat /\ RecvRetries \in Nat
  /\ MaxRequests \in Nat /\ MaxOpens \in Nat

VARIABLES
  parts,       \* what happens besides requests: "series" (points), "scans" (of
               \* either, "point" and "scan": one in a process), "off" (port 0),
               \* "ports" (other processes hold some), "program" (it opens and
               \* closes descriptors), "daemon" (it closed descriptor 0), "fork",
               \* "exit", "slow" (clients), "fail" (calls of the server fail)
  running, listen_fd, port,   \* g_http_server
  desc,        \* descriptor -> [kind, port]
  start,       \* [pc, asked, want, fd, attempt, ret] of mtt_http_server_start
  http,        \* [pc, fd, tries, todo] of http_thread_fn
  stop,        \* progress of the exit handler
  taken,       \* ports held by other processes
  pending,     \* connections the kernel holds for accept
  requests, opens,
  slow,        \* the client of the connection neither sends nor reads
  forked,      \* this is the child of a fork
  early,       \* history: the program exited before start returned
  wrapped,     \* history: the port was 0, so that the kernel chose one
  orphan,      \* history: the thread could not be created
  starved,     \* history: accept failed
  inherited,   \* history: descriptors of the parent's tool
  misused      \* history: the tool closed or accepted on the program's descriptor

serverVars == <<running, listen_fd, port>>
startVars == <<start, early, wrapped, orphan>>
envVars == <<taken, opens, parts>>
clientVars == <<pending, requests>>
serviceVars == <<serverVars, desc, startVars, http, stop, envVars, clientVars, slow,
                 forked, starved, inherited, misused>>
vars == <<serviceVars, cacheVars, seriesVars>>

Free == [kind |-> "free", port |-> 0]
Fd(kind) == [Free EXCEPT !.kind = kind]
FreeFds == {f \in Fds : desc[f] = Free}
NoStart(p) == [pc |-> "socket", asked |-> p, want |-> p, fd |-> -1, attempt |-> 0, ret |-> 0]
NoHttp == [pc |-> "none", fd |-> -1, tries |-> 0, todo |-> {}]

Init ==
  /\ CacheInit /\ SeriesInit
  /\ parts \in Profiles
  /\ running = FALSE /\ listen_fd = 0 /\ port = 0
  /\ desc = [f \in Fds |-> IF f = 0 /\ "daemon" \notin parts THEN Fd("program") ELSE Free]
  /\ \E p \in (IF "off" \in parts THEN {0}
               ELSE IF "ports" \in parts THEN Requested ELSE {DefaultPort}) :
       start = NoStart(p)
  /\ http = NoHttp /\ stop = "no"
  /\ taken = IF "ports" \in parts THEN Taken ELSE {}
  /\ pending = 0 /\ requests = 0 /\ opens = 0
  /\ forked = FALSE /\ early = FALSE /\ wrapped = FALSE /\ orphan = FALSE
  /\ starved = FALSE /\ slow = FALSE
  /\ inherited = {} /\ misused = FALSE

-----------------------------------------------------------------------------
(* mtt_http_server_start, called once by mtt_ensure_init, after mtt_ts_init. *)

StartFrame == <<stop, early, envVars, requests, slow, forked, starved, inherited, misused,
                cacheVars, seriesVars>>

\* It returns r.
Returns(r) == start' = [start EXCEPT !.pc = "done", !.ret = r]

\* Port 0 turns the server off; otherwise a socket is made, if one is left.
StartSocket ==
  /\ start.pc = "socket" /\ ready
  /\ IF start.want = 0 \/ FreeFds = {}
     THEN Returns(0) /\ UNCHANGED desc
     ELSE /\ start' = [start EXCEPT !.pc = "bind", !.fd = Min(FreeFds)]
          /\ desc' = [desc EXCEPT ![Min(FreeFds)] = Fd("listen")]
  /\ UNCHANGED <<StartFrame, serverVars, wrapped, orphan, http, pending>>

\* A port that some socket listens on cannot be bound; port 0 always can, and
\* stands for a port the kernel chooses.
Bindable(p) ==
  p = 0 \/ (p \notin taken /\ \A f \in Fds : desc[f] # [kind |-> "listen", port |-> p])

Bound(p) ==
  /\ start' = [start EXCEPT !.pc = "listen", !.want = p]
  /\ desc' = [desc EXCEPT ![start.fd].port = p]

\* The requested port is tried a few times, half a second apart.
StartBind ==
  /\ start.pc = "bind"
  /\ IF Bindable(start.want) THEN Bound(start.want)
     ELSE /\ start' = [start EXCEPT !.attempt = IF @ + 1 < BindRetries THEN @ + 1 ELSE 1,
                         !.pc = IF start.attempt + 1 < BindRetries THEN "bind" ELSE "next"]
          /\ UNCHANGED desc
  /\ UNCHANGED <<StartFrame, serverVars, wrapped, orphan, http, pending>>

\* (uint16_t)try_port
NextPort == (start.want + start.attempt) % Cardinality(Ports)

\* Mutant of StartNext: port is not set to the port that was bound.
StartNext_OldPort ==
  /\ start.pc = "next"
  /\ IF start.attempt > Fallbacks
     THEN Returns(0) /\ desc' = [desc EXCEPT ![start.fd] = Free] /\ UNCHANGED wrapped
     ELSE IF Bindable(NextPort)
     THEN /\ start' = [start EXCEPT !.pc = "listen"]
          /\ desc' = [desc EXCEPT ![start.fd].port = NextPort]
          /\ wrapped' = (NextPort = 0)
     ELSE start' = [start EXCEPT !.attempt = @ + 1] /\ UNCHANGED <<desc, wrapped>>
  /\ UNCHANGED <<StartFrame, serverVars, orphan, http, pending>>

\* Then the ports after it.
StartNext ==
  /\ start.pc = "next"
  /\ IF start.attempt > Fallbacks
     THEN Returns(0) /\ desc' = [desc EXCEPT ![start.fd] = Free] /\ UNCHANGED wrapped
     ELSE IF Bindable(NextPort) THEN Bound(NextPort) /\ wrapped' = (NextPort = 0)
     ELSE start' = [start EXCEPT !.attempt = @ + 1] /\ UNCHANGED <<desc, wrapped>>
  /\ UNCHANGED <<StartFrame, serverVars, orphan, http, pending>>

\* listen, and the fields of g_http_server.
StartListen ==
  /\ start.pc = "listen"
  /\ \/ /\ start' = [start EXCEPT !.pc = "run"]
        /\ listen_fd' = start.fd /\ port' = start.want
        /\ UNCHANGED <<running, desc>>
     \/ /\ "fail" \in parts /\ Returns(0)
        /\ desc' = [desc EXCEPT ![start.fd] = Free]
        /\ UNCHANGED serverVars
  /\ UNCHANGED <<StartFrame, wrapped, orphan, http, pending>>

\* running is set and the thread created.  If it cannot be, the socket is
\* closed, but listen_fd keeps its number.
StartRun ==
  /\ start.pc = "run"
  /\ \/ /\ running' = TRUE /\ Returns(start.want)
        /\ http' = [NoHttp EXCEPT !.pc = "loop"]
        /\ UNCHANGED <<desc, orphan, pending>>
     \/ /\ "fail" \in parts /\ running' = FALSE /\ Returns(0) /\ orphan' = TRUE
        /\ desc' = [desc EXCEPT ![start.fd] = Free] /\ pending' = 0
        /\ UNCHANGED http
  /\ UNCHANGED <<StartFrame, listen_fd, port, wrapped>>

StartStep == StartSocket \/ StartBind \/ StartNext \/ StartListen \/ StartRun

-----------------------------------------------------------------------------
(* http_thread_fn.                                                         *)

HttpFrame == <<serverVars, startVars, stop, envVars, requests, slow, forked, inherited,
               seriesVars>>

Goes(label) == http' = [http EXCEPT !.pc = label]

\* The test of running.
HttpLoop ==
  /\ http.pc = "loop" /\ Goes(IF running THEN "poll" ELSE "ended")
  /\ UNCHANGED <<HttpFrame, desc, pending, starved, misused, cacheVars>>

\* The socket of that number has a connection, or it is by now something of
\* the program's that can be read.
Readable(f) ==
  f \in Fds /\ \/ desc[f].kind = "listen" /\ pending > 0
               \/ desc[f].kind = "program"

\* poll with a timeout of a second, which a signal may interrupt.
HttpPoll ==
  /\ http.pc = "poll"
  /\ Goes("loop") \/ (Readable(listen_fd) /\ Goes("accept"))
  /\ UNCHANGED <<HttpFrame, desc, pending, starved, misused, cacheVars>>

\* accept reads listen_fd again.  Any error but an interruption ends the
\* thread.
HttpAccept ==
  /\ http.pc = "accept"
  /\ misused' = (misused \/ (stop # "clear" /\ listen_fd \in Fds
                              /\ desc[listen_fd].kind = "program"))
  /\ IF listen_fd \in Fds /\ desc[listen_fd].kind = "listen" /\ pending > 0
     THEN \/ /\ FreeFds # {} /\ pending' = pending - 1
             /\ desc' = [desc EXCEPT ![Min(FreeFds)] = Fd("client")]
             /\ http' = [NoHttp EXCEPT !.pc = "recv", !.fd = Min(FreeFds)]
             /\ UNCHANGED starved
          \/ Goes("loop") /\ UNCHANGED <<desc, pending, starved>>
          \/ /\ FreeFds = {} \/ "fail" \in parts
             /\ Goes("ended") /\ starved' = TRUE /\ UNCHANGED <<desc, pending>>
     ELSE Goes("ended") /\ UNCHANGED <<desc, pending, starved>>
  /\ UNCHANGED <<HttpFrame, cacheVars>>

\* The request is read, with a few retries while there is nothing, and given
\* to its handler.  The page and the error answer are written at once;
\* handle_api_data reads the counters and goes on to the range of points,
\* handle_api_leaks to the sites.
HttpRecv ==
  /\ http.pc = "recv" /\ ~slow
  /\ \/ Goes("series") \/ Goes("lock") \/ Goes("close")
     \/ http.tries < RecvRetries /\ http' = [http EXCEPT !.tries = @ + 1]
  /\ UNCHANGED <<HttpFrame, desc, pending, starved, misused, cacheVars>>

\* mtt_ts_get_range, under the lock of the ring, if there is memory for it.
HttpSeries ==
  /\ http.pc = "series" /\ (series_lock = "none" \/ "fail" \in parts)
  /\ Goes("lock")
  /\ UNCHANGED <<HttpFrame, desc, pending, starved, misused, cacheVars>>

\* Mutant of HttpLock: a cache without sites is left at once.
HttpLock_EarlyReturn ==
  /\ http.pc = "lock" /\ cache_lock = "none" /\ cache_lock' = "http"
  /\ http' = [http EXCEPT !.pc = IF cached_pairs = {} THEN "close" ELSE "sites",
                !.todo = cached_pairs]
  /\ UNCHANGED <<HttpFrame, desc, pending, starved, misused, entries, symbolVars,
                 stack_lock, refresh_lock, call, scan, cached_pairs, scans,
                 failed, raced, torn>>

\* The sites are written with cache_lock held.
HttpLock ==
  /\ http.pc = "lock" /\ cache_lock = "none" /\ cache_lock' = "http"
  /\ http' = [http EXCEPT !.pc = "sites", !.todo = cached_pairs]
  /\ UNCHANGED <<HttpFrame, desc, pending, starved, misused, entries, symbolVars,
                 stack_lock, refresh_lock, call, scan, cached_pairs, scans,
                 failed, raced, torn>>

\* write_leak_json: an entry that is not resolved is resolved here, then its
\* symbols are written.
HttpSite(s) ==
  /\ http.pc = "sites" /\ ~slow /\ s \in http.todo /\ call["http"].pc = "idle"
  /\ IF is_resolved[s]
     THEN http' = [http EXCEPT !.todo = @ \ {s}] /\ UNCHANGED call
     ELSE /\ call' = [call EXCEPT !["http"] = [NoCall EXCEPT !.pc = "check", !.stack = s]]
          /\ UNCHANGED http
  /\ UNCHANGED <<HttpFrame, desc, pending, starved, misused, entries, symbolVars,
                 stack_lock, scanVars, failed, raced, torn>>

HttpResolve ==
  /\ ResolveStep("http")
  /\ UNCHANGED <<HttpFrame, desc, pending, starved, misused, http>>

HttpUnlock ==
  /\ http.pc = "sites" /\ ~slow /\ http.todo = {} /\ cache_lock' = "none"
  /\ Goes("close")
  /\ UNCHANGED <<HttpFrame, desc, pending, starved, misused, entries, symbolVars,
                 stack_lock, refresh_lock, call, scan, cached_pairs, scans,
                 failed, raced, torn>>

HttpClose ==
  /\ http.pc = "close" /\ http' = [NoHttp EXCEPT !.pc = "loop"]
  /\ desc' = [desc EXCEPT ![http.fd] = Free]
  /\ UNCHANGED <<HttpFrame, pending, starved, misused, cacheVars>>

HttpStep ==
  \/ HttpLoop \/ HttpPoll \/ HttpAccept \/ HttpRecv \/ HttpSeries \/ HttpLock
  \/ (\E s \in Stacks : HttpSite(s)) \/ HttpResolve \/ HttpUnlock \/ HttpClose

-----------------------------------------------------------------------------
(* The exit handler: mtt_http_server_stop, and the release of the cache.   *)

ExitFrame == <<start, wrapped, orphan, http, envVars, requests, slow, forked, starved,
               inherited, seriesVars>>

\* close(f), by whoever calls it: connections that wait are dropped with
\* their socket.
CloseFd(f) ==
  /\ desc' = [desc EXCEPT ![f] = Free]
  /\ pending' = IF desc[f].kind = "listen" THEN 0 ELSE pending

\* The tool closes a number that is by now the program's.
Takes(f) == misused' = (misused \/ desc[f].kind = "program")

StopFlag ==
  /\ "exit" \in parts /\ stop = "no" /\ running' = FALSE
  /\ stop' = IF listen_fd > 0 THEN "close" ELSE "free"
  /\ early' = (start.pc # "done")
  /\ UNCHANGED <<ExitFrame, listen_fd, port, desc, pending, misused, cacheVars>>

StopClose ==
  /\ stop = "close" /\ stop' = "clear" /\ CloseFd(listen_fd) /\ Takes(listen_fd)
  /\ UNCHANGED <<ExitFrame, early, serverVars, cacheVars>>

\* Mutant of StopClear: the number is kept.
StopClear_Keeps ==
  /\ stop = "clear" /\ stop' = "free"
  /\ UNCHANGED <<ExitFrame, early, running, listen_fd, port, desc, pending, misused, cacheVars>>

StopClear ==
  /\ stop = "clear" /\ stop' = "free" /\ listen_fd' = -1
  /\ UNCHANGED <<ExitFrame, early, running, port, desc, pending, misused, cacheVars>>

\* The published sites are freed under cache_lock.
StopFree ==
  /\ stop = "free" /\ cache_lock = "none" /\ stop' = "done" /\ cached_pairs' = {}
  /\ UNCHANGED <<ExitFrame, early, serverVars, desc, pending, misused, entries, symbolVars,
                 stack_lock, refresh_lock, call, scan, cache_lock, scans, failed, raced, torn>>

StopStep == StopClose \/ StopClear \/ StopFree

-----------------------------------------------------------------------------
(* The world around the server.                                            *)

WorldFrame == <<serverVars, startVars, http, stop, parts, slow, forked, starved, inherited,
                misused, cacheVars, seriesVars>>

\* A client connects.
Connect ==
  /\ requests < MaxRequests /\ requests' = requests + 1
  /\ start.pc \in {"run", "done"} /\ \E f \in Fds : desc[f].kind = "listen"
  /\ pending' = pending + 1
  /\ UNCHANGED <<WorldFrame, desc, taken, opens>>

\* The client is slow, or is no longer so: recv waits for its request, or a
\* write for it to read, in the middle of the sites too, with cache_lock held.
SlowClient ==
  /\ "slow" \in parts /\ http.pc \in {"recv", "sites"} /\ slow' = ~slow
  /\ UNCHANGED <<serverVars, startVars, http, stop, envVars, clientVars, desc, forked,
                 starved, inherited, misused, cacheVars, seriesVars>>

\* The program opens and closes its own descriptors.
ProgramOpen ==
  /\ "program" \in parts /\ opens < MaxOpens /\ opens' = opens + 1 /\ FreeFds # {}
  /\ desc' = [desc EXCEPT ![Min(FreeFds)] = Fd("program")]
  /\ UNCHANGED <<WorldFrame, taken, clientVars>>

ProgramClose(f) ==
  /\ "program" \in parts /\ f > 0 /\ desc[f].kind = "program" /\ CloseFd(f)
  /\ UNCHANGED <<WorldFrame, taken, opens, requests>>

\* The process that held a port ends: the parent of a daemon, for one.
Release(p) ==
  /\ p \in taken /\ taken' = taken \ {p}
  /\ UNCHANGED <<WorldFrame, desc, opens, clientVars>>

Listening == {desc[f].port : f \in {g \in Fds : desc[g].kind = "listen"}} \ {0}

\* The program goes on in the forked child: mtt_http_reset_for_fork closes the
\* inherited socket, and the server is started again.  The parent keeps its
\* port for the time being.  One fork is modelled.
Fork ==
  /\ "fork" \in parts /\ ~forked /\ forked' = TRUE /\ stop = "no"
  /\ running' = FALSE /\ port' = 0
  /\ taken' = taken \cup Listening
  /\ pending' = 0
  /\ IF listen_fd > 0
     THEN /\ listen_fd' = -1 /\ Takes(listen_fd)
          /\ desc' = [desc EXCEPT ![listen_fd] = Free]
     ELSE UNCHANGED <<listen_fd, desc, misused>>
  /\ inherited' = {f \in Fds : desc'[f].kind \in {"client", "listen"}}
  /\ start' = NoStart(start.asked) /\ wrapped' = FALSE
  /\ http' = NoHttp /\ slow' = FALSE
  /\ CacheFork /\ SeriesFork(http.pc = "series" \/ scan.stage \in {"series", "publish"})
  /\ UNCHANGED <<stop, opens, parts, requests, starved, early, orphan>>

-----------------------------------------------------------------------------
Points ==
  /\ SeriesStep /\ UNCHANGED <<serviceVars, cacheVars>>
  /\ \/ "series" \in parts \/ ~ready
     \/ "point" \in parts /\ clock' <= IF forked THEN 2 ELSE 1

\* A thread stores a point before every scan, so that it begins none when it
\* cannot have the lock of the ring, nor goes beyond the reading of the ring.
ScanStarts ==
  /\ "scans" \in parts \/ ("scan" \in parts /\ scans = IF forked THEN 1 ELSE 0)
  /\ ready /\ series_lock = "none"
  /\ ScanBegin /\ UNCHANGED <<serviceVars, seriesVars>>
Scan ==
  /\ scan.stage \in {"series", "publish"} => series_lock = "none"
  /\ ScanStep /\ UNCHANGED <<serviceVars, seriesVars>>

Next ==
  \/ StartStep \/ HttpStep \/ StopFlag \/ StopStep \/ Connect \/ SlowClient \/ ProgramOpen
  \/ (\E f \in Fds : ProgramClose(f)) \/ (\E p \in Ports : Release(p)) \/ Fork
  \/ Points \/ ScanStarts \/ Scan

Spec == Init /\ [][Next]_vars

\* The threads of the tool go on, the server's whenever its client does.
FairSpec ==
  Spec /\ WF_vars(StartStep) /\ WF_vars(HttpStep) /\ WF_vars(StopStep) /\ WF_vars(Scan)

-----------------------------------------------------------------------------
(* Properties.                                                             *)

\* The tool closes its own sockets and nobody else's: it never closes, and
\* never accepts on, a number the program has got in the meantime, and after
\* the exit handler no listening socket is left (http_server.c:785-792,
\* 801-810).  Left out are a server whose thread could not be created, whose
\* listen_fd is stale, a socket with number 0, which listen_fd > 0 takes for
\* none, an exit in the middle of start, and the window between the close and
\* the assignment in stop.
OwnDescriptors ==
  ~orphan => /\ ~misused
             /\ stop = "done" /\ ~early =>
                  \A f \in Fds \ (inherited \cup {0}) : desc[f].kind # "listen"

\* What start returns is true: a port p # 0 means that a thread serves the
\* socket bound to p until the program exits, and 0 that nobody serves
\* (http_server.h:36), also in a child that found its parent's port taken.
\* Left out are a port that wrapped around to 0 and a thread whose accept
\* failed, which ends for good.
ServesAsTold ==
  start.pc = "done" /\ stop = "no" /\ ~wrapped =>
    IF start.ret = 0 THEN http.pc = "none" /\ ~running
    ELSE /\ running /\ (http.pc # "ended" \/ starved)
         /\ desc[listen_fd] = [kind |-> "listen", port |-> start.ret]

\* A client that does not read keeps cache_lock with the server.
HeldUp == slow /\ cache_lock = "http"

\* Nobody waits for ever but for a client or for a lock that nobody holds:
\* every connection is closed, every scan ends and the exit handler returns,
\* although the server writes to its client with cache_lock held
\* (http_server.c:535-555).  What may keep them: a client that neither sends nor
\* reads, and in a child the locks of the stack cache, of the address ranges
\* and of the ring, which are not made anew (stack_cache.c:364, reporter.c:290,
\* time_series.c:142).  Connections that a child inherited are closed by nobody.
NothingWaits ==
  /\ http.fd # -1 ~> http.fd = -1 \/ slow \/ (http.pc = "series" /\ series_lock = "lost")
  /\ scan.stage # "none" ~>
       \/ scan.stage = "none" \/ HeldUp
       \/ scan.stage = "refresh" /\ refresh_lock = "lost"
       \/ scan.todo # {} /\ stack_lock = "lost"
  /\ stop # "no" ~> stop = "done" \/ HeldUp
=============================================================================
