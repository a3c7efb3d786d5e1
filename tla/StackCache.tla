----------------------------- MODULE StackCache -----------------------------
(***************************************************************************)
(* The cache of symbolised call stacks (stack_cache.c) and the scan's use  *)
(* of it (stages 2, 3, 5 and 7 of reporter.c).  A scan looks every stack   *)
(* of its snapshot up, has the symbols of new entries resolved, and        *)
(* publishes the entries for the HTTP thread, which resolves what it finds *)
(* unresolved.  The entry table has a lock; the symbols, the table of      *)
(* symbols by address and the flag of main_is_non_pie have none.           *)
(*                                                                         *)
(* A stack is a sequence of addresses.  The text of a symbol is known by   *)
(* the address it names and by whether the offset in it was computed for a *)
(* program at a fixed address; demangling and layout are left out.         *)
(***************************************************************************)
EXTENDS Integers, Sequences, FiniteSets, FiniteSetsExt

CONSTANTS
  Stacks,       \* call stacks of the program
  Snapshots,    \* sets of stacks that a scan may find in live records
  Digest,       \* xxhash64_frames of each sequence of frames
  CacheSize,    \* MTT_STACK_CACHE_SIZE
  AddrSlots,    \* ADDR_CACHE_BUCKETS
  Probes,       \* slots looked at from an address's bucket
  Bucket,       \* bucket of each address
  MainFrames,   \* addresses in the main program
  NonPie,       \* BOOLEAN: the main program is at a fixed address
  MaxScans,     \* bound: scans begun
  MaxFailures   \* bound: entries that cannot be allocated

Resolvers == {"scan", "http"}
Frames == UNION {{s[i] : i \in DOMAIN s} : s \in Stacks}
NoFrame == 0

ASSUME StackCacheConstants ==
  /\ Stacks \subseteq Seq(Nat) /\ Snapshots \subseteq SUBSET Stacks
  /\ CacheSize \in Nat /\ AddrSlots \in Nat \ {0} /\ Probes \in 1 .. AddrSlots
  /\ \A s \in Stacks : s # <<>> /\ NoFrame \notin {s[i] : i \in DOMAIN s}
  /\ Bucket \in [Frames -> 0 .. AddrSlots - 1] /\ MainFrames \subseteq Frames
  /\ NonPie \in BOOLEAN /\ MaxScans \in Nat /\ MaxFailures \in Nat

VARIABLES
  entries,      \* the stacks that have an entry; count is their number
  is_resolved,  \* stack -> the flag of its entry
  resolved,     \* stack -> the symbols of its entry
  addr_cache,   \* slot -> [addr, symbol]
  non_pie,      \* the static of main_is_non_pie, -1 before the first call
  stack_lock,   \* holder of g_stack_cache.lock, "none", or "lost" in a child
  call,         \* thread -> [pc, stack, i, slot] of its lookup or resolution
  refresh_lock, \* g_refresh_lock: "none", or "lost" in a child
  scan,         \* [stage, todo, first, pairs]
  cached_pairs, \* stacks whose entries were published last
  cache_lock,   \* holder, or "none"
  scans,        \* scans begun
  failed,       \* history: how often an entry could not be allocated
  raced,        \* history: two threads resolved at the same time
  torn          \* history: a fork copied a symbol or the flag half set

symbolVars == <<is_resolved, resolved, addr_cache, non_pie>>
scanVars == <<scan, refresh_lock, cached_pairs, cache_lock, scans>>
cacheVars == <<entries, symbolVars, stack_lock, call, scanVars, failed, raced, torn>>

NoSymbol == [of |-> NoFrame, fixed |-> FALSE]
NoCall == [pc |-> "idle", stack |-> <<>>, i |-> 0, slot |-> 0]
NoScan == [stage |-> "none", todo |-> {}, first |-> {}, pairs |-> {}]

CacheInit ==
  /\ entries = {} /\ is_resolved = [s \in Stacks |-> FALSE]
  /\ resolved = [s \in Stacks |-> [i \in DOMAIN s |-> NoSymbol]]
  /\ addr_cache = [n \in 0 .. AddrSlots - 1 |-> [addr |-> NoFrame, symbol |-> NoSymbol]]
  /\ non_pie = -1 /\ stack_lock = "none" /\ refresh_lock = "none"
  /\ call = [r \in Resolvers |-> NoCall]
  /\ scan = NoScan /\ cached_pairs = {} /\ cache_lock = "none" /\ scans = 0
  /\ failed = 0 /\ raced = FALSE /\ torn = FALSE

-----------------------------------------------------------------------------
(* Lookup.                                                                 *)

\* mtt_stack_hash_compute leaves out frame 0, the capture itself.
Hash(s) == Digest[IF Len(s) > 1 THEN Tail(s) ELSE s]

To(r, label) == call' = [call EXCEPT ![r].pc = label]

\* mtt_stack_cache_lookup of one more stack of the stage, up to the lock.
LookupLock(s) ==
  /\ scan.stage \in {"dedup", "safety", "pairs"} /\ call["scan"].pc = "idle"
  /\ s \in scan.todo /\ stack_lock = "none" /\ stack_lock' = "scan"
  /\ call' = [call EXCEPT !["scan"] = [NoCall EXCEPT !.pc = "search", !.stack = s]]
  /\ UNCHANGED <<entries, symbolVars, scanVars, failed, raced, torn>>

\* The entry of a stack whose frames all agree, a new one, or NULL when the
\* table is full or memory is short, as the set of the stacks found.
Find(s) ==
  IF s \in entries THEN {{s}}
  ELSE IF Cardinality(entries) >= CacheSize THEN {{}}
  ELSE IF failed = MaxFailures THEN {{s}} ELSE {{s}, {}}

LookupDone ==
  LET s == call["scan"].stack
  IN /\ call["scan"].pc = "search" /\ stack_lock' = "none"
     /\ \E got \in Find(s) :
          /\ entries' = entries \cup got
          /\ failed' = failed + IF got = {} /\ Cardinality(entries) < CacheSize THEN 1 ELSE 0
          /\ scan' = [scan EXCEPT !.todo = @ \ {s},
                        !.pairs = IF scan.stage = "pairs" THEN @ \cup got ELSE @]
          /\ To("scan", IF got # {} /\ scan.stage # "pairs" THEN "check" ELSE "idle")
     /\ UNCHANGED <<symbolVars, refresh_lock, cached_pairs, cache_lock, scans, raced, torn>>

-----------------------------------------------------------------------------
(* mtt_stack_resolve, by the scan or by the HTTP thread.                   *)

Resolving(r) == call[r].pc \notin {"idle", "search", "check"}

\* Nothing is done for an entry that is resolved.
ResolveStart(r) ==
  /\ call[r].pc = "check"
  /\ call' = [call EXCEPT ![r] = IF is_resolved[@.stack] THEN NoCall
                                 ELSE [@ EXCEPT !.pc = "frame", !.i = 1]]
  /\ raced' = (raced \/ (~is_resolved[call[r].stack]
                         /\ \E o \in Resolvers \ {r} : Resolving(o)))
  /\ UNCHANGED <<entries, symbolVars, stack_lock, scanVars, failed, torn>>

Frame(r) == call[r].stack[call[r].i]

\* The slots of the linear probe, in order.
Probe(a) == [n \in 1 .. Probes |-> (Bucket[a] + n - 1) % AddrSlots]
Hits(a) == {n \in 1 .. Probes : addr_cache[Probe(a)[n]].addr = a}

SetName(r, sym) == resolved' = [resolved EXCEPT ![call[r].stack][call[r].i] = sym]

\* resolve_one_frame: addr_cache_lookup finds the address.
FrameHit(r) ==
  /\ call[r].pc = "frame" /\ call[r].i <= Len(call[r].stack) /\ Hits(Frame(r)) # {}
  /\ SetName(r, addr_cache[Probe(Frame(r))[Min(Hits(Frame(r)))]].symbol)
  /\ call' = [call EXCEPT ![r].i = @ + 1]
  /\ UNCHANGED <<entries, is_resolved, addr_cache, non_pie, stack_lock, scanVars,
                 failed, raced, torn>>

\* The symbol as dladdr, backtrace_symbols and frame_addr2line_addr make it,
\* for a value of main_is_non_pie.
Name(a, fixed) == [of |-> a, fixed |-> fixed = 1 /\ a \in MainFrames]

\* It does not: out is cleared, and the symbol made, if main_is_non_pie has its
\* answer; otherwise its static is 0 while the ELF header is read.
FrameMiss(r) ==
  /\ call[r].pc = "frame" /\ call[r].i <= Len(call[r].stack) /\ Hits(Frame(r)) = {}
  /\ IF non_pie = -1
     THEN SetName(r, NoSymbol) /\ non_pie' = 0 /\ To(r, "exe")
     ELSE SetName(r, Name(Frame(r), non_pie)) /\ To(r, "insert") /\ UNCHANGED non_pie
  /\ UNCHANGED <<entries, is_resolved, addr_cache, stack_lock, scanVars, failed, raced, torn>>

\* Mutant of ReadExe: the answer is given, but not kept.
ReadExe_NotKept(r) ==
  /\ call[r].pc = "exe"
  /\ SetName(r, Name(Frame(r), IF NonPie THEN 1 ELSE 0))
  /\ To(r, "insert")
  /\ UNCHANGED <<entries, is_resolved, addr_cache, non_pie, stack_lock, scanVars,
                 failed, raced, torn>>

\* The header of /proc/self/exe is there and says so.
ReadExe(r) ==
  /\ call[r].pc = "exe"
  /\ non_pie' = IF NonPie THEN 1 ELSE 0
  /\ SetName(r, Name(Frame(r), non_pie'))
  /\ To(r, "insert")
  /\ UNCHANGED <<entries, is_resolved, addr_cache, stack_lock, scanVars, failed, raced, torn>>

\* The slot addr_cache_insert takes: the first that is empty or the address's
\* own, else the bucket itself.
Slot(a) ==
  LET usable == {n \in 1 .. Probes : addr_cache[Probe(a)[n]].addr \in {NoFrame, a}}
  IN IF usable = {} THEN Bucket[a] ELSE Probe(a)[Min(usable)]

\* The key is written before the symbol.
InsertAddr(r) ==
  /\ call[r].pc = "insert"
  /\ call' = [call EXCEPT ![r].pc = "fill", ![r].slot = Slot(Frame(r))]
  /\ addr_cache' = [addr_cache EXCEPT ![Slot(Frame(r))].addr = Frame(r)]
  /\ UNCHANGED <<entries, is_resolved, resolved, non_pie, stack_lock, scanVars, failed,
                 raced, torn>>

InsertSymbol(r) ==
  /\ call[r].pc = "fill"
  /\ call' = [call EXCEPT ![r].pc = "frame", ![r].i = @ + 1]
  /\ addr_cache' = [addr_cache EXCEPT ![call[r].slot].symbol =
                      resolved[call[r].stack][call[r].i]]
  /\ UNCHANGED <<entries, is_resolved, resolved, non_pie, stack_lock, scanVars, failed,
                 raced, torn>>

\* Mutant of ResolveEnd: the entry is not marked.
ResolveEnd_Unmarked(r) ==
  /\ call[r].pc = "frame" /\ call[r].i > Len(call[r].stack)
  /\ call' = [call EXCEPT ![r] = NoCall]
  /\ UNCHANGED <<entries, symbolVars, stack_lock, scanVars, failed, raced, torn>>

ResolveEnd(r) ==
  /\ call[r].pc = "frame" /\ call[r].i > Len(call[r].stack)
  /\ is_resolved' = [is_resolved EXCEPT ![call[r].stack] = TRUE]
  /\ call' = [call EXCEPT ![r] = NoCall]
  /\ UNCHANGED <<entries, resolved, addr_cache, non_pie, stack_lock, scanVars, failed,
                 raced, torn>>

ResolveStep(r) ==
  \/ ResolveStart(r) \/ FrameHit(r) \/ FrameMiss(r) \/ ReadExe(r)
  \/ InsertAddr(r) \/ InsertSymbol(r) \/ ResolveEnd(r)

-----------------------------------------------------------------------------
(* The scan.  Two scanners exclude each other by scan_mutex; "scan" is the *)
(* one that holds it.                                                      *)

\* One stack for each hash of the snapshot: the first one in its order.
Firsts(snap) ==
  {F \in SUBSET snap : /\ {Hash(s) : s \in F} = {Hash(s) : s \in snap}
                       /\ Cardinality(F) = Cardinality({Hash(s) : s \in F})}

\* A thread enters scan_and_report_locked.
ScanBegin ==
  /\ scan.stage = "none" /\ scans < MaxScans /\ scans' = scans + 1
  /\ scan' = [NoScan EXCEPT !.stage = "refresh"]
  /\ UNCHANGED <<entries, symbolVars, stack_lock, refresh_lock, call, cached_pairs,
                 cache_lock, failed, raced, torn>>

\* mtt_addr_validate_refresh, under its lock.
ScanRefresh ==
  /\ scan.stage = "refresh" /\ refresh_lock = "none"
  /\ scan' = [scan EXCEPT !.stage = "series"]
  /\ UNCHANGED <<entries, symbolVars, stack_lock, refresh_lock, call, cached_pairs,
                 cache_lock, scans, failed, raced, torn>>

\* The time series are read, and the snapshot is taken: it holds some stacks of
\* live records.
ScanSnapshot ==
  /\ scan.stage = "series"
  /\ \E snap \in Snapshots : \E first \in Firsts(snap) :
       scan' = [stage |-> "dedup", todo |-> snap, first |-> first, pairs |-> {}]
  /\ UNCHANGED <<entries, symbolVars, stack_lock, refresh_lock, call, cached_pairs,
                 cache_lock, scans, failed, raced, torn>>

\* A stage is done.  Stage 3 goes through the sites once more, stage 5
\* collects their entries and resolves nothing.
ScanStage ==
  /\ scan.stage \in {"dedup", "safety", "pairs"}
  /\ scan.todo = {} /\ call["scan"].pc = "idle"
  /\ scan' = CASE scan.stage = "dedup"  -> [scan EXCEPT !.stage = "safety", !.todo = scan.first]
               [] scan.stage = "safety" -> [scan EXCEPT !.stage = "pairs", !.todo = scan.first]
               [] scan.stage = "pairs"  -> [scan EXCEPT !.stage = "publish"]
  /\ UNCHANGED <<entries, symbolVars, stack_lock, refresh_lock, call, cached_pairs,
                 cache_lock, scans, failed, raced, torn>>

\* Stage 7, under cache_lock; without memory some or all are not published.
ScanPublish ==
  /\ scan.stage = "publish" /\ cache_lock = "none"
  /\ cached_pairs' \in SUBSET scan.pairs
  /\ scan' = NoScan
  /\ UNCHANGED <<entries, symbolVars, stack_lock, refresh_lock, call, cache_lock, scans,
                 failed, raced, torn>>

ScanStep ==
  \/ ScanRefresh \/ ScanSnapshot \/ (\E s \in Stacks : LookupLock(s))
  \/ LookupDone \/ ResolveStep("scan") \/ ScanStage \/ ScanPublish

\* The child of a fork: neither thread goes on, cache_lock is made anew, and
\* the rest is as it was copied, the locks that a scan held included.
CacheFork ==
  /\ call' = [r \in Resolvers |-> NoCall] /\ scan' = NoScan /\ cache_lock' = "none"
  /\ stack_lock' = IF stack_lock = "none" THEN "none" ELSE "lost"
  /\ refresh_lock' \in {refresh_lock} \cup (IF scan.stage = "refresh" THEN {"lost"} ELSE {})
  /\ torn' = (torn \/ \E r \in Resolvers : call[r].pc \in {"exe", "fill"})
  /\ UNCHANGED <<entries, symbolVars, cached_pairs, scans, failed, raced>>

-----------------------------------------------------------------------------
(* Properties.                                                             *)

RightName(a) == Name(a, IF NonPie THEN 1 ELSE 0)

\* An entry that is marked resolved names its own frames, whatever slots of
\* the address table were overwritten in between and whichever thread
\* resolved it (stack_cache.c:795), unless two threads resolved at once or a
\* fork copied a slot between key and symbol.
SymbolsRight ==
  ~raced /\ ~torn =>
    \A s \in entries : is_resolved[s] =>
      \A i \in DOMAIN s : resolved[s][i] = RightName(s[i])

\* Only scans touch the symbols ("accessed by the reporter thread only",
\* stack_cache.c:7): what is published is resolved, and the HTTP thread
\* resolves nothing, unless an entry could not be allocated in stages 2 and 3
\* and was in stage 5.
ScanResolvesAll ==
  failed = 0 => /\ \A s \in cached_pairs : is_resolved[s]
                /\ call["http"].pc = "idle"
=============================================================================
