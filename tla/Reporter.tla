------------------------------ MODULE Reporter ------------------------------
(***************************************************************************)
(* scan_and_report (reporter.c): the reporter thread and the signal thread *)
(* copy the table stripe by stripe while the program goes on allocating,   *)
(* group the copies by call site, write a report with the growth since the *)
(* last one, and publish the result for the HTTP thread.  The exit handler *)
(* stops them and frees what they keep.  A record is one allocation; the   *)
(* text of the report and the symbols are left out.                        *)
(***************************************************************************)
EXTENDS Integers, FiniteSets, FiniteSetsExt

CONSTANTS
  Records,     \* the allocations of the program
  StripeOf, SiteOf, SizeOf,  \* of each record
  NStripes,    \* MTT_LOCK_STRIPES
  MaxSites,    \* MTT_LEAK_DEDUP_SIZE
  Failures,    \* what may fail: "series", "snaps", "site", "sorted", "fopen",
               \* "output", "prev", "cache"
  Peaks,       \* BOOLEAN: an allocation may set a new peak
  Exits,       \* BOOLEAN: the program may exit
  Forks,       \* BOOLEAN: the program may go on in a forked child
  MaxScans     \* bound: scans of each scanner that no peak and no exit calls for

Sites == {SiteOf[r] : r \in Records}
Stripes == 0 .. NStripes - 1
Scanners == {"reporter", "signal"}

ASSUME ReporterConstants ==
  /\ NStripes \in Nat /\ MaxSites \in Nat /\ MaxScans \in Nat
  /\ StripeOf \in [Records -> Stripes] /\ SizeOf \in [Records -> Nat \ {0}]
  /\ DOMAIN SiteOf = Records
  /\ Peaks \in BOOLEAN /\ Exits \in BOOLEAN /\ Forks \in BOOLEAN
  /\ Failures \subseteq {"series", "snaps", "site", "sorted", "fopen", "output", "prev",
                         "cache"}
ASSUME FiniteRecords == IsFiniteSet(Records)

VARIABLES
  table, entry_count,
  busy,       \* stripe -> record being linked or unlinked under its lock
  fresh,      \* records not allocated yet
  peak_updated,
  running,    \* g_reporter.running
  atexit,     \* progress of mtt_atexit_handler
  scan_mutex, \* scanner that holds it, or "none"
  at,         \* scanner -> [pc, snap, limit, stripe, sorted, last]
  leak_table, \* the static table of the scan: site -> [count, total, per]
  prev,       \* prev_diff_*: [mem, size], size: site -> total, 0 if none
  cached,     \* cached_sites: [mem, sites, stale], sites: the elements written,
              \* stale: which of cached_pairs and cached_ts_data ("pairs",
              \* "series") is freed and not cleared, or not filled
  cached_site_count,
  cache_lock, \* holder, or "none"
  lost,       \* mutexes that were held at the fork and are not made anew
  leak_bytes_total,
  scans,      \* scans begun that nothing called for
  base, counted, late, \* history: records counted when the scan began, their
                       \* number, and how many were counted since
  forked,     \* history: this is the child of a fork
  reported,   \* history: site -> growth in all reports of this process
  written,    \* history: site -> total in the last report
  misuse,     \* history: what was read or freed after it was freed, or before
              \* it was written: "prev", "cache"
  torn,       \* history: what a scan was freeing or filling at the fork
  hurried     \* history: the exit handler freed while a scan was to come

program == <<table, entry_count, busy, fresh>>
result == <<leak_table, leak_bytes_total>>
cache == <<cached, cached_site_count, cache_lock>>
growth == <<prev, reported, written, misuse>>
once == <<forked, lost, torn, hurried>>
snapshot == <<base, counted, once>>
vars == <<program, result, cache, growth, snapshot, late, peak_updated, running,
          atexit, scan_mutex, at, scans>>

Zero == [s \in Sites |-> 0]
NoSite == [count |-> 0, total |-> 0, per |-> 0]
NoLeaks == [s \in Sites |-> NoSite]
NoCache == [mem |-> "null", sites |-> {}, stale |-> {}]
Idle == [pc |-> "idle", snap |-> {}, limit |-> 0, stripe |-> 0, sorted |-> TRUE,
         last |-> FALSE]

Init ==
  /\ table = {} /\ entry_count = 0 /\ busy = [i \in Stripes |-> {}]
  /\ fresh = Records /\ peak_updated = FALSE
  /\ running = TRUE /\ atexit = "no" /\ scan_mutex = "none"
  /\ at = [c \in Scanners |-> Idle] /\ scans = [c \in Scanners |-> 0]
  /\ leak_table = NoLeaks /\ leak_bytes_total = 0
  /\ prev = [mem |-> "null", size |-> Zero]
  /\ cached = NoCache /\ cached_site_count = 0
  /\ cache_lock = "none" /\ lost = {}
  /\ base = {} /\ counted = 0 /\ late = 0 /\ forked = FALSE
  /\ reported = Zero /\ written = Zero
  /\ misuse = {} /\ torn = {} /\ hurried = FALSE

-----------------------------------------------------------------------------
(* The program's hooks: linking or unlinking a record and counting it are  *)
(* two steps under the lock of the stripe (mtt_entry_add, mtt_entry_remove). *)

Link(r) ==
  /\ r \in fresh /\ busy[StripeOf[r]] = {}
  /\ fresh' = fresh \ {r} /\ table' = table \cup {r}
  /\ busy' = [busy EXCEPT ![StripeOf[r]] = {r}]
  /\ peak_updated' \in {peak_updated, peak_updated \/ Peaks}
  /\ UNCHANGED <<entry_count, result, cache, growth, snapshot, late, running,
                 atexit, scan_mutex, at, scans>>

Unlink(r) ==
  /\ r \in table /\ busy[StripeOf[r]] = {}
  /\ table' = table \ {r}
  /\ busy' = [busy EXCEPT ![StripeOf[r]] = {r}]
  /\ UNCHANGED <<entry_count, fresh, peak_updated, result, cache, growth, snapshot,
                 late, running, atexit, scan_mutex, at, scans>>

CountEntry(i) ==
  /\ busy[i] # {} /\ busy' = [busy EXCEPT ![i] = {}]
  /\ IF busy[i] \subseteq table
     THEN entry_count' = entry_count + 1 /\ late' = late + 1
     ELSE entry_count' = entry_count - 1 /\ UNCHANGED late
  /\ UNCHANGED <<table, fresh, peak_updated, result, cache, growth, snapshot, running,
                 atexit, scan_mutex, at, scans>>

-----------------------------------------------------------------------------
(* When a scan is made.                                                    *)

\* A thread records a point of the time series, under their mutex, and enters
\* scan_and_report; its last scan ends it.
Begin(c, last) ==
  /\ at[c].pc = "idle" /\ "ts" \notin lost
  /\ at' = [at EXCEPT ![c] = [Idle EXCEPT !.pc = "lock", !.last = last]]
  /\ UNCHANGED <<program, result, cache, growth, snapshot, late, running, atexit,
                 scan_mutex>>

\* Mutant of WakePeak: the flag is exchanged, but the scan is left to the
\* interval.
WakePeak_NoScan ==
  /\ running /\ peak_updated /\ peak_updated' = FALSE
  /\ at["reporter"].pc = "idle"
  /\ UNCHANGED <<program, result, cache, growth, snapshot, late, running, atexit,
                 scan_mutex, at, scans>>

\* The reporter thread exchanges peak_updated for 0 every second, and scans
\* at once if it was set.
WakePeak ==
  /\ running /\ peak_updated /\ peak_updated' = FALSE
  /\ Begin("reporter", FALSE) /\ UNCHANGED scans

\* The interval ends, or SIGUSR1 arrives.
WakeInterval(c) ==
  /\ running /\ scans[c] < MaxScans
  /\ Begin(c, FALSE)
  /\ scans' = [scans EXCEPT ![c] = @ + 1] /\ UNCHANGED peak_updated

\* running was cleared: the reporter thread scans for the last time.
WakeLast ==
  /\ ~running /\ Begin("reporter", TRUE) /\ UNCHANGED <<scans, peak_updated>>

-----------------------------------------------------------------------------
(* scan_and_report_locked.                                                 *)

\* What every step of a scan leaves alone.
Elsewhere == <<program, peak_updated, running, atexit, scans>>

To(c, label) == at' = [at EXCEPT ![c].pc = label]

\* Mutant of ScanLock: the signal thread does not take the mutex.
ScanLock_SignalFree(c) ==
  /\ at[c].pc = "lock"
  /\ IF c = "signal" THEN UNCHANGED scan_mutex
     ELSE scan_mutex = "none" /\ scan_mutex' = c
  /\ To(c, "load")
  /\ UNCHANGED <<Elsewhere, result, cache, growth, snapshot, late>>

ScanLock(c) ==
  /\ at[c].pc = "lock" /\ scan_mutex = "none" /\ scan_mutex' = c
  /\ To(c, "load")
  /\ UNCHANGED <<Elsewhere, result, cache, growth, snapshot, late>>

\* entry_count is read before any stripe is locked.
ScanLoad(c) ==
  /\ at[c].pc = "load"
  /\ base' = table \ UNION {busy[i] : i \in Stripes}
  /\ counted' = entry_count /\ late' = 0
  /\ at' = [at EXCEPT ![c].pc = "refresh", ![c].limit = entry_count]
  /\ UNCHANGED <<Elsewhere, scan_mutex, result, cache, growth, once>>

\* mtt_addr_validate_refresh, under g_refresh_lock.  The calls that take a
\* mutex of another module are one step; a fork finds that mutex held or not.
ScanRefresh(c) ==
  /\ at[c].pc = "refresh" /\ "refresh" \notin lost
  /\ To(c, "series")
  /\ UNCHANGED <<Elsewhere, scan_mutex, result, cache, growth, snapshot, late>>

\* What is used although it must not be.
Uses(what, wrong) == misuse' = misuse \cup (IF wrong THEN {what} ELSE {})

\* The time series are read under their mutex, and the old copy is freed under
\* cache_lock, if there is memory for a new one.
ScanSeries(c) ==
  /\ at[c].pc = "series" /\ "ts" \notin lost
  /\ \/ /\ cache_lock = "none" /\ cache_lock' = c
        /\ Uses("cache", "series" \in cached.stale)
        /\ cached' = [cached EXCEPT !.stale = @ \cup {"series"}]
        /\ To(c, "seriesStore")
     \/ /\ "series" \in Failures /\ To(c, "snaps")
        /\ UNCHANGED <<cache_lock, cached, misuse>>
  /\ UNCHANGED <<Elsewhere, scan_mutex, result, cached_site_count, prev, reported,
                 written, snapshot, late>>

\* The new copy takes its place.
ScanSeriesStore(c) ==
  /\ at[c].pc = "seriesStore" /\ cache_lock' = "none"
  /\ cached' = [cached EXCEPT !.stale = @ \ {"series"}]
  /\ To(c, "snaps")
  /\ UNCHANGED <<Elsewhere, scan_mutex, result, cached_site_count, growth, snapshot, late>>

\* The snapshot array is made for as many records as were counted, for half of
\* them if memory is short and that is enough to be worth it, or not at all,
\* and then the scan is skipped.
ScanSnaps(c) ==
  /\ at[c].pc = "snaps"
  /\ \/ To(c, "copy")
     \/ /\ "snaps" \in Failures /\ at[c].limit \div 2 > 0
        /\ at' = [at EXCEPT ![c].pc = "copy", ![c].limit = @ \div 2]
     \/ "snaps" \in Failures /\ at[c].limit > 0 /\ To(c, "unlock")
  /\ UNCHANGED <<Elsewhere, scan_mutex, result, cache, growth, snapshot, late>>

\* Mutant of ScanCopy: the loop ends one stripe early.
ScanCopy_SkipsLast(c) ==
  LET here == {r \in table : StripeOf[r] = at[c].stripe}
      room == at[c].limit - Cardinality(at[c].snap)
  IN /\ at[c].pc = "copy" /\ at[c].stripe < NStripes /\ room > 0
     /\ busy[at[c].stripe] = {}
     /\ \E copied \in SUBSET here :
          /\ Cardinality(copied) = Min({room, Cardinality(here)})
          /\ at' = [at EXCEPT ![c].snap = @ \cup copied, ![c].stripe = @ + 2]
     /\ UNCHANGED <<Elsewhere, scan_mutex, result, cache, growth, snapshot, late>>

\* One stripe is copied under its lock, as far as the array has room; which
\* records fit depends on the order of the chains.
ScanCopy(c) ==
  LET here == {r \in table : StripeOf[r] = at[c].stripe}
      room == at[c].limit - Cardinality(at[c].snap)
  IN /\ at[c].pc = "copy" /\ at[c].stripe < NStripes /\ room > 0
     /\ busy[at[c].stripe] = {}
     /\ \E copied \in SUBSET here :
          /\ Cardinality(copied) = Min({room, Cardinality(here)})
          /\ at' = [at EXCEPT ![c].snap = @ \cup copied, ![c].stripe = @ + 1]
     /\ UNCHANGED <<Elsewhere, scan_mutex, result, cache, growth, snapshot, late>>

\* All stripes are done, or the array is full; leak_table is cleared.
ScanCopied(c) ==
  /\ at[c].pc = "copy"
  /\ at[c].stripe >= NStripes \/ at[c].limit = Cardinality(at[c].snap)
  /\ To(c, "dedup")
  /\ leak_table' = NoLeaks
  /\ UNCHANGED <<Elsewhere, scan_mutex, leak_bytes_total, cache, growth, snapshot, late>>

\* The bytes of the records of R; their number is the sum of the sizes.
BytesOf(R) == UNION {{r} \X (1 .. SizeOf[r]) : r \in R}

\* The records of R, grouped by site, added to a table.
AddTo(tbl, R) ==
  [s \in Sites |->
     LET here == {r \in R : SiteOf[r] = s}
     IN IF here = {} THEN tbl[s]
        ELSE [count |-> tbl[s].count + Cardinality(here),
              total |-> tbl[s].total + Cardinality(BytesOf(here)),
              per   |-> IF tbl[s].count > 0 THEN tbl[s].per
                        ELSE SizeOf[CHOOSE r \in here : TRUE]]]

\* The sites of a set of records, and of a table.
SitesOf(R) == {SiteOf[r] : r \in R}
Listed(tbl) == {s \in Sites : tbl[s].count > 0}

\* What becomes of the snapshot: sites beyond the size of the table are
\* dropped, and so is a record whose site cannot be allocated.
Kept(R) ==
  {K \in SUBSET R :
     /\ Cardinality(SitesOf(K)) <= MaxSites
     /\ "site" \notin Failures =>
          /\ Cardinality(SitesOf(K)) = Min({MaxSites, Cardinality(SitesOf(R))})
          /\ \A r \in R : SiteOf[r] \in SitesOf(K) => r \in K}

SumTotals(tbl) == MapThenSumSet(LAMBDA s : tbl[s].total, Sites)

\* The snapshot is grouped by call site, after a look for the stack of each
\* record under the stack cache's mutex, and the total is stored for the time
\* series.
ScanDedup(c) ==
  /\ at[c].pc = "dedup" /\ (at[c].snap # {} => "stacks" \notin lost)
  /\ \E K \in Kept(at[c].snap) : leak_table' = AddTo(leak_table, K)
  /\ leak_bytes_total' = SumTotals(leak_table')
  /\ To(c, "lookup")
  /\ UNCHANGED <<Elsewhere, scan_mutex, cache, growth, snapshot, late>>

\* The stack of each site is looked up once more, and the array of sites is
\* made, or not.
ScanLookup(c) ==
  /\ at[c].pc = "lookup" /\ (Listed(leak_table) # {} => "stacks" \notin lost)
  /\ \E ok \in {TRUE} \cup (IF "sorted" \in Failures THEN {FALSE} ELSE {}) :
       at' = [at EXCEPT ![c].pc = "report", ![c].sorted = ok]
  /\ UNCHANGED <<Elsewhere, scan_mutex, result, cache, growth, snapshot, late>>

\* diff_size of a site: its growth since the arrays were saved.
Diff(s) == IF leak_table[s].total > prev.size[s]
           THEN leak_table[s].total - prev.size[s] ELSE 0

\* The report is written.  It lists nothing if the array of sites, or that of
\* the symbols, is missing, and is thrown away if it cannot be renamed.
ScanReport(c) ==
  /\ at[c].pc = "report"
  /\ Uses("prev", prev.mem = "freed")
  /\ \/ /\ at[c].sorted
        /\ reported' = [s \in Sites |-> reported[s] + Diff(s)]
        /\ written' = [s \in Sites |-> leak_table[s].total]
     \/ /\ ~at[c].sorted \/ "output" \in Failures
        /\ UNCHANGED <<reported, written>>
  /\ To(c, "saveFree")
  /\ UNCHANGED <<Elsewhere, scan_mutex, result, cache, prev, snapshot, late>>

\* Mutant of ScanNoFile: the sizes are saved although nothing was written.
ScanNoFile_Saves(c) ==
  /\ at[c].pc = "report" /\ "fopen" \in Failures
  /\ Uses("prev", prev.mem = "freed")
  /\ To(c, "saveFree")
  /\ UNCHANGED <<Elsewhere, scan_mutex, result, cache, prev, reported, written,
                 snapshot, late>>

\* The file cannot be opened: nothing is saved or published.
ScanNoFile(c) ==
  /\ at[c].pc = "report" /\ "fopen" \in Failures
  /\ Uses("prev", prev.mem = "freed")
  /\ To(c, "unlock")
  /\ UNCHANGED <<Elsewhere, scan_mutex, result, cache, prev, reported, written,
                 snapshot, late>>

\* The arrays of the last scan are freed, and those of this one are saved if
\* there is memory for them.
ScanSaveFree(c) ==
  /\ at[c].pc = "saveFree"
  /\ Uses("prev", prev.mem = "freed")
  /\ prev' = [prev EXCEPT !.mem = IF @ = "null" THEN "null" ELSE "freed"]
  /\ To(c, "save")
  /\ UNCHANGED <<Elsewhere, scan_mutex, result, cache, reported, written, snapshot, late>>

ScanSave(c) ==
  /\ at[c].pc = "save"
  /\ \/ /\ at[c].sorted /\ Listed(leak_table) # {}
        /\ prev' = [mem |-> "live", size |-> [s \in Sites |-> leak_table[s].total]]
     \/ /\ ~at[c].sorted \/ Listed(leak_table) = {} \/ "prev" \in Failures
        /\ prev' = [mem |-> "null", size |-> Zero]
  /\ To(c, "publishFree")
  /\ UNCHANGED <<Elsewhere, scan_mutex, result, cache, reported, written, misuse,
                 snapshot, late>>

\* A reader that goes through the first cached_site_count elements of
\* cached_sites meets what was freed, or what was never written.
Short == cached.mem = "freed" \/ (cached.mem = "live"
                                  /\ cached_site_count > Cardinality(cached.sites))
Dangling == Short \/ cached.stale # {}

\* The old copies of the sites are freed under cache_lock,
ScanPublishFree(c) ==
  /\ at[c].pc = "publishFree" /\ cache_lock = "none" /\ cache_lock' = c
  /\ Uses("cache", Dangling)
  /\ cached' = [cached EXCEPT !.mem = IF @ = "null" THEN "null" ELSE "freed"]
  /\ To(c, "publishClear")
  /\ UNCHANGED <<Elsewhere, scan_mutex, result, cached_site_count, prev, reported,
                 written, snapshot, late>>

\* the pointer is cleared, but not the count, the array of stacks is freed,
ScanPublishClear(c) ==
  /\ at[c].pc = "publishClear"
  /\ cached' = [NoCache EXCEPT !.stale = cached.stale \cup {"pairs"}]
  /\ To(c, "publishPairs")
  /\ UNCHANGED <<Elsewhere, scan_mutex, result, cached_site_count, cache_lock, growth,
                 snapshot, late>>

\* and its pointer is cleared.
ScanPublishPairs(c) ==
  /\ at[c].pc = "publishPairs"
  /\ cached' = [cached EXCEPT !.stale = @ \ {"pairs"}]
  /\ To(c, "publishNew")
  /\ UNCHANGED <<Elsewhere, scan_mutex, result, cached_site_count, cache_lock, growth,
                 snapshot, late>>

\* A new array is made.  If there is no memory for it the count keeps its old
\* value; if there are no sites it becomes 0.
ScanPublishNew(c) ==
  /\ at[c].pc = "publishNew"
  /\ \/ /\ at[c].sorted /\ Listed(leak_table) # {}
        /\ cached' = [cached EXCEPT !.mem = "live"] /\ To(c, "publishFill")
        /\ UNCHANGED cached_site_count
     \/ /\ at[c].sorted /\ Listed(leak_table) # {} /\ "cache" \in Failures
        /\ To(c, "publishStacks") /\ UNCHANGED <<cached, cached_site_count>>
     \/ /\ ~at[c].sorted \/ Listed(leak_table) = {}
        /\ cached_site_count' = 0 /\ To(c, "publishStacks") /\ UNCHANGED cached
  /\ UNCHANGED <<Elsewhere, scan_mutex, result, cache_lock, growth, snapshot, late>>

\* Mutant of ScanPublishFill: the loop ends at a copy that cannot be allocated,
\* and the count is that of the sites.
ScanPublishFill_Stops(c) ==
  /\ at[c].pc = "publishFill"
  /\ \/ /\ \E s \in Listed(leak_table) \ cached.sites :
             cached' = [cached EXCEPT !.sites = @ \cup {s}]
        /\ UNCHANGED <<at, cached_site_count>>
     \/ /\ Listed(leak_table) \subseteq cached.sites \/ "cache" \in Failures
        /\ cached_site_count' = Cardinality(Listed(leak_table))
        /\ To(c, "publishStacks") /\ UNCHANGED cached
  /\ UNCHANGED <<Elsewhere, scan_mutex, result, cache_lock, growth, snapshot, late>>

\* The sites are copied one by one, a copy for which there is no memory as
\* NULL, and then the count is stored.
ScanPublishFill(c) ==
  /\ at[c].pc = "publishFill"
  /\ \/ /\ \E s \in Listed(leak_table) \ cached.sites :
             cached' = [cached EXCEPT !.sites = @ \cup {s}]
        /\ UNCHANGED <<at, cached_site_count>>
     \/ /\ Listed(leak_table) \subseteq cached.sites
        /\ cached_site_count' = Cardinality(Listed(leak_table))
        /\ To(c, "publishStacks") /\ UNCHANGED cached
  /\ UNCHANGED <<Elsewhere, scan_mutex, result, cache_lock, growth, snapshot, late>>

\* The array of stacks is made, if there is memory for it,
ScanPublishStacks(c) ==
  /\ at[c].pc = "publishStacks"
  /\ \/ /\ cached' = [cached EXCEPT !.stale = @ \cup {"pairs"}]
        /\ at[c].sorted /\ Listed(leak_table) # {}
     \/ /\ ~at[c].sorted \/ Listed(leak_table) = {} \/ "cache" \in Failures
        /\ UNCHANGED cached
  /\ To(c, "publishSeries")
  /\ UNCHANGED <<Elsewhere, scan_mutex, result, cached_site_count, cache_lock, growth,
                 snapshot, late>>

\* and filled; the time series are read under their mutex, and the old copy is
\* freed, if there is memory for a new one,
ScanPublishSeries(c) ==
  /\ at[c].pc = "publishSeries" /\ "ts" \notin lost
  /\ \/ cached' = [cached EXCEPT !.stale = {"series"}]
     \/ "series" \in Failures /\ cached' = [cached EXCEPT !.stale = {}]
  /\ To(c, "publishRest")
  /\ UNCHANGED <<Elsewhere, scan_mutex, result, cached_site_count, cache_lock, growth,
                 snapshot, late>>

\* which takes its place, and cache_lock is released.
ScanPublishRest(c) ==
  /\ at[c].pc = "publishRest" /\ cache_lock' = "none"
  /\ cached' = [cached EXCEPT !.stale = @ \ {"series"}]
  /\ To(c, "unlock")
  /\ UNCHANGED <<Elsewhere, scan_mutex, result, cached_site_count, growth, snapshot, late>>

\* Mutant of ScanUnlock: a scan that was skipped keeps the mutex.
ScanUnlock_NotSkipped(c) ==
  /\ at[c].pc = "unlock"
  /\ scan_mutex' = IF at[c].snap = {} THEN scan_mutex ELSE "none"
  /\ at' = [at EXCEPT ![c] = [Idle EXCEPT !.pc = IF at[c].last THEN "exited" ELSE "idle"]]
  /\ UNCHANGED <<Elsewhere, result, cache, growth, snapshot, late>>

ScanUnlock(c) ==
  /\ at[c].pc = "unlock" /\ scan_mutex' = "none"
  /\ at' = [at EXCEPT ![c] = [Idle EXCEPT !.pc = IF at[c].last THEN "exited" ELSE "idle"]]
  /\ UNCHANGED <<Elsewhere, result, cache, growth, snapshot, late>>

-----------------------------------------------------------------------------
(* mtt_atexit_handler, and the child of a fork.                            *)

AtExitStop ==
  /\ Exits /\ atexit = "no" /\ atexit' = "wait" /\ running' = FALSE
  /\ UNCHANGED <<program, peak_updated, scans, scan_mutex, at, result, cache, growth,
                 snapshot, late>>

\* The scans that were to end in the two seconds that the handler waits.
ScansOver == at["reporter"].pc = "exited" /\ at["signal"].pc = "idle"

\* After them, whatever the scans do, the cache is freed under its lock.
AtExitFreeCache ==
  /\ atexit = "wait" /\ atexit' = "prev" /\ cache_lock = "none"
  /\ hurried' = ~ScansOver
  /\ Uses("cache", Dangling)
  /\ cached' = NoCache /\ cached_site_count' = 0
  /\ UNCHANGED <<program, peak_updated, running, scans, scan_mutex, at, result,
                 cache_lock, prev, reported, written, base, counted, forked, lost, torn,
                 late>>

\* The arrays of the last scan are freed outside of any lock.
AtExitFreePrev ==
  /\ atexit = "prev" /\ atexit' = "clear"
  /\ Uses("prev", prev.mem = "freed")
  /\ prev' = [prev EXCEPT !.mem = IF @ = "null" THEN "null" ELSE "freed"]
  /\ UNCHANGED <<program, peak_updated, running, scans, scan_mutex, at, result, cache,
                 reported, written, snapshot, late>>

AtExitClearPrev ==
  /\ atexit = "clear" /\ atexit' = "done"
  /\ prev' = [mem |-> "null", size |-> Zero]
  /\ UNCHANGED <<program, peak_updated, running, scans, scan_mutex, at, result, cache,
                 reported, written, misuse, snapshot, late>>

\* The mutexes that a thread may hold when another forks: a thread is in
\* mtt_ts_record_point or mtt_ts_get_range at any time.
HeldElsewhere ==
  {"ts"} \cup (IF \E c \in Scanners : at[c].pc = "refresh" THEN {"refresh"} ELSE {})
         \cup (IF \E c \in Scanners : at[c].pc \in {"dedup", "lookup"}
                THEN {"stacks"} ELSE {})

\* What a scan has freed and not cleared, or not filled.
Halfway ==
  (IF \E c \in Scanners : at[c].pc = "save" THEN {"prev"} ELSE {})
  \cup (IF \E c \in Scanners : at[c].pc \in {"seriesStore", "publishClear", "publishPairs",
                                             "publishFill", "publishSeries", "publishRest"}
        THEN {"cache"} ELSE {})

\* The program forks with all stripes locked and goes on as the child:
\* mtt_fork_child and mtt_reporter_reset_for_fork empty the table, reset the
\* counters and make the reporter's mutexes anew, but no others; the scanners
\* start again.  The static leak_table, prev_diff_* and the cache are inherited.
ForkChild ==
  /\ Forks /\ ~forked /\ forked' = TRUE
  /\ atexit = "no" /\ \A i \in Stripes : busy[i] = {}
  /\ table' = {} /\ entry_count' = 0 /\ peak_updated' = FALSE
  /\ leak_bytes_total' = 0
  /\ scan_mutex' = "none" /\ cache_lock' = "none"
  /\ lost' \in SUBSET HeldElsewhere /\ torn' = Halfway
  /\ at' = [c \in Scanners |-> Idle]
  /\ reported' = Zero /\ written' = Zero
  /\ UNCHANGED <<fresh, busy, running, atexit, scans, leak_table, cached,
                 cached_site_count, prev, misuse, base, counted, hurried, late>>

ScanStep(c) ==
  \/ ScanLock(c) \/ ScanLoad(c) \/ ScanRefresh(c) \/ ScanSeries(c) \/ ScanSeriesStore(c)
  \/ ScanSnaps(c) \/ ScanCopy(c) \/ ScanCopied(c) \/ ScanDedup(c) \/ ScanLookup(c)
  \/ ScanReport(c) \/ ScanNoFile(c) \/ ScanSaveFree(c) \/ ScanSave(c)
  \/ ScanPublishFree(c) \/ ScanPublishClear(c) \/ ScanPublishPairs(c)
  \/ ScanPublishNew(c) \/ ScanPublishFill(c) \/ ScanPublishStacks(c)
  \/ ScanPublishSeries(c) \/ ScanPublishRest(c) \/ ScanUnlock(c)

Next ==
  \/ \E r \in Records : Link(r) \/ Unlink(r)
  \/ \E i \in Stripes : CountEntry(i)
  \/ WakePeak \/ WakeLast \/ AtExitStop \/ AtExitFreeCache \/ AtExitFreePrev
  \/ AtExitClearPrev \/ ForkChild
  \/ \E c \in Scanners : WakeInterval(c) \/ ScanStep(c)

Spec == Init /\ [][Next]_vars

\* A thread in a hook leaves its stripe, a scan goes on, and the reporter
\* thread wakes up every second.
FairSpec ==
  /\ Spec /\ WF_vars(WakePeak) /\ WF_vars(WakeLast)
  /\ \A c \in Scanners : WF_vars(ScanStep(c))
  /\ \A i \in Stripes : WF_vars(CountEntry(i))

-----------------------------------------------------------------------------
\* Types of the shared and the local state.
TypeOK ==
  /\ table \subseteq Records /\ entry_count \in Nat /\ fresh \subseteq Records
  /\ busy \in [Stripes -> SUBSET Records] /\ peak_updated \in BOOLEAN
  /\ running \in BOOLEAN /\ atexit \in {"no", "wait", "prev", "clear", "done"}
  /\ scan_mutex \in Scanners \cup {"none"} /\ cache_lock \in Scanners \cup {"none"}
  /\ \A c \in Scanners :
       /\ at[c].pc \in {"idle", "lock", "load", "refresh", "series", "seriesStore", "snaps",
                        "copy", "dedup", "lookup", "report", "saveFree", "save",
                        "publishFree", "publishClear", "publishPairs", "publishNew",
                        "publishFill", "publishStacks", "publishSeries", "publishRest",
                        "unlock", "exited"}
       /\ at[c].snap \subseteq Records /\ at[c].stripe \in 0 .. NStripes
       /\ Cardinality(at[c].snap) <= at[c].limit
  /\ prev.mem \in {"null", "live", "freed"} /\ cached.mem \in {"null", "live", "freed"}
  /\ cached.sites \subseteq Sites /\ cached_site_count \in Nat
  /\ cached.stale \subseteq {"pairs", "series"} /\ lost \subseteq {"refresh", "ts", "stacks"} /\ hurried \in BOOLEAN
  /\ misuse \subseteq {"prev", "cache"} /\ torn \subseteq {"prev", "cache"}

\* A scan misses no more of the records that are there from its beginning to
\* its end than were added behind its back: the array was sized before the
\* stripes are copied (reporter.c:283, 356-363).
MissedBounded ==
  \A c \in Scanners :
    at[c].pc = "dedup" /\ at[c].limit = counted =>
      Cardinality((base \cap table) \ at[c].snap) <= late

\* The sites account for the snapshot of the scan under way and nothing else:
\* the table is static, and scan_mutex keeps the two threads apart
\* (reporter.c:399, 1305-1307).  They leave out only what finds no place.
SitesMatchSnapshot ==
  \A c \in Scanners : at[c].pc \in {"lookup", "report", "saveFree", "save"} =>
    /\ leak_bytes_total = SumTotals(leak_table)
    /\ \E K \in SUBSET at[c].snap :
         /\ leak_table = AddTo(NoLeaks, K)
         /\ "site" \notin Failures /\ Cardinality(SitesOf(at[c].snap)) <= MaxSites =>
              K = at[c].snap

\* No growth is lost between reports: what they have shown for a site adds up
\* to at least its size in the last one, although scans are skipped and files
\* cannot be opened (reporter.c:566-578, 815-837).  Not so in a child, which inherits the
\* sizes of its parent's last report (reporter.c:1324-1338).
GrowthReported == ~forked => \A s \in Sites : reported[s] >= written[s]

\* The HTTP thread, which reads cached_site_count elements of cached_sites
\* under cache_lock, finds them all (http_server.c:536-555).
CacheReadable == cache_lock = "none" => ~Dangling

\* What the scans leave for the next reader is there, after any failed
\* allocation, in the parent and in the child.  The published array holds as
\* many sites as its count says and nobody uses it after it is freed, whenever
\* the exit handler frees it; the arrays of the last scan, which the handler
\* frees without a lock, are not used after that either, if its two seconds
\* were enough for the scans (reporter.c:53-54, 84-91, 815-933).  A child that
\* was copied between the free and the next pointer, or before the new array
\* was filled, inherits what is not there.
CacheSafe ==
  /\ "cache" \notin torn => CacheReadable /\ "cache" \notin misuse
  /\ "prev" \notin torn /\ ~hurried => "prev" \notin misuse

\* A new peak leads to a scan without waiting for the interval
\* (reporter.c:1144-1149), in the parent, and in a child that did not inherit a
\* mutex of its scans from a thread it does not have.
PeakReported ==
  \A b \in BOOLEAN :
    peak_updated /\ forked = b ~>
      at["reporter"].pc = "lock" \/ ~running \/ forked # b \/ lost # {}

\* Once running is cleared, the reporter makes its last scan and ends, unless
\* it hangs in a child on such a mutex, or the exit is over before it.
StopsAfterLastScan == ~running ~> at["reporter"].pc = "exited" \/ lost # {} \/ hurried
=============================================================================
