------------------------------ MODULE Tracker ------------------------------
(***************************************************************************)
(* The tracking table of MemoryTraceTool: the malloc, free and realloc     *)
(* hooks (hooks.c), the striped hash table of records and the striped pool *)
(* the records come from (tracker.c, mtt_internal.h).                      *)
(*                                                                         *)
(* Any number of program threads run hooks concurrently.  A step of a      *)
(* thread is one atomic access to shared state: taking a lock, reading a   *)
(* list head, unlinking it, an atomic counter operation.  What a thread    *)
(* does under a lock to data only that lock protects is one step with the  *)
(* unlock that ends it.                                                    *)
(*                                                                         *)
(* libc's allocator is external: heap is what it has handed out.  The      *)
(* program is correct: it frees or reallocates only blocks it holds, once. *)
(* Whether a call is sampled (mtt_should_track) is an input here.          *)
(***************************************************************************)
EXTENDS Integers, FiniteSets, FiniteSetsExt

CONSTANTS
  Threads,       \* threads of the traced program
  Addr,          \* addresses libc hands out
  MaxSize,       \* sizes requested are 1..MaxSize
  NStripes,      \* MTT_LOCK_STRIPES
  PoolCapacity,  \* records in the pool, or record blocks libc can give
  AddrStripe,    \* mtt_stripe_of of each user address
  EntryStripe,   \* mtt_stripe_of of each record's own address
  Modes,         \* the ways initialisation may have ended, see mode
  CrossFree,     \* blacklisted code frees blocks the application allocated
  MaxOps,        \* bound: calls the program makes
  NoThread, NoAddr, NoEntry

Stripes == 0 .. (NStripes - 1)
Entries == 0 .. (PoolCapacity - 1)
Sizes   == 1 .. MaxSize

ASSUME TrackerConstants ==
  /\ MaxSize \in Nat /\ NStripes \in Nat \ {0} /\ PoolCapacity \in Nat
  /\ MaxOps \in Nat
  /\ AddrStripe \in [Addr -> Stripes]
  /\ EntryStripe \in [Entries -> Stripes]
  /\ Modes \subseteq [pooled : BOOLEAN, realloc : BOOLEAN, limit : Nat \ {0}]
  /\ CrossFree \in BOOLEAN
  /\ NoThread \notin Threads /\ NoAddr \notin Addr /\ NoEntry \notin Entries

\* A process has finitely many threads.
ASSUME FiniteThreads == IsFiniteSet(Threads)

VARIABLES
  mode,             \* pooled: pool_mode is ACTIVE, not FALLBACK;
                    \* realloc: raw_realloc was resolved;
                    \* limit: MTT_MAX_ENTRIES
  heap,             \* libc: size of each allocated block, 0 if not allocated
  app,              \* blocks the application holds and may free
  lib,              \* blocks allocated by untracked calls and still held
  ops,              \* calls made so far
  buckets,          \* records chained under each stripe
  bucket_locks, pool_locks,
  pool_free_lists,
  raw_entries,      \* FALLBACK: record blocks libc can still hand out
  eptr, esize, enum,\* fields ptr, size, alloc_num of each record
  pool_used, entry_count, current_bytes, peak_bytes,
  alloc_seq, free_count, skipped_overcap,
  pc, op,           \* each thread's next step, and the hook it runs
  old, tgt, size,   \* argument of free/realloc, new block and its size
  ent, dead,        \* record being filled; record on its way back
  k,                \* stripes of the pool already tried
  cur,              \* value loaded from current_bytes
  found,            \* realloc saw a record before raw_realloc
  discard           \* the record on its way back was never in the table

tableVars == <<buckets, eptr, esize, enum>>
poolVars  == <<mode, pool_free_lists, raw_entries, pool_used>>
statVars  == <<entry_count, current_bytes, peak_bytes, alloc_seq, free_count,
               skipped_overcap>>
libcVars  == <<heap, app, lib>>
lockVars  == <<bucket_locks, pool_locks>>
localVars == <<op, old, tgt, size, ent, dead, k, cur, found, discard>>
vars == <<libcVars, ops, tableVars, lockVars, poolVars, statVars, pc, localVars>>

Table == UNION {buckets[i] : i \in Stripes}

-----------------------------------------------------------------------------
(* Helpers of the hooks.                                                   *)

\* Mutant of mtt_entry_find: the chain's head, whatever its ptr.
mtt_entry_find_head(p) ==
  {e \in buckets[AddrStripe[p]] :
     \A f \in buckets[AddrStripe[p]] : enum[f] <= enum[e]}

\* mtt_entry_find: the first record of the chain whose ptr is p, as a set that
\* is empty when there is none.  Insertion
\* is at the head, under the lock under which alloc_num was drawn, so the
\* first one is the one with the largest alloc_num.
Matches(p) == {e \in buckets[AddrStripe[p]] : eptr[e] = p}

mtt_entry_find(p) ==
  {e \in Matches(p) : \A f \in Matches(p) : enum[f] <= enum[e]}

Goto(t, label) == pc' = [pc EXCEPT ![t] = label]

\* Mutants: a lock taken without waiting for its holder.
StripeLock_NoWait(t, p) ==
  bucket_locks' = [bucket_locks EXCEPT ![AddrStripe[p]] = t]
PoolLock_NoWait(t, i) == pool_locks' = [pool_locks EXCEPT ![i] = t]

\* mtt_stripe_lock and mtt_stripe_unlock on the stripe of address p.
StripeLock(t, p) ==
  /\ bucket_locks[AddrStripe[p]] = NoThread
  /\ bucket_locks' = [bucket_locks EXCEPT ![AddrStripe[p]] = t]
StripeUnlock(p) ==
  bucket_locks' = [bucket_locks EXCEPT ![AddrStripe[p]] = NoThread]

PoolLock(t, i) ==
  /\ pool_locks[i] = NoThread
  /\ pool_locks' = [pool_locks EXCEPT ![i] = t]
PoolUnlock(i) == pool_locks' = [pool_locks EXCEPT ![i] = NoThread]

\* memset(e, 0, sizeof(*e)) on a record that leaves the table or a hand.
Wipe(e) ==
  /\ eptr'  = [eptr  EXCEPT ![e] = NoAddr]
  /\ esize' = [esize EXCEPT ![e] = 0]
  /\ enum'  = [enum  EXCEPT ![e] = 0]

\* The hook returns to the program, which now holds the blocks got.
Return(t, got) ==
  /\ Goto(t, "idle")
  /\ app'   = app \cup got
  /\ op'    = [op    EXCEPT ![t] = "none"]
  /\ old'   = [old   EXCEPT ![t] = NoAddr]
  /\ tgt'   = [tgt   EXCEPT ![t] = NoAddr]
  /\ size'  = [size  EXCEPT ![t] = 0]
  /\ ent'   = [ent   EXCEPT ![t] = NoEntry]
  /\ dead'  = [dead  EXCEPT ![t] = NoEntry]
  /\ k'     = [k     EXCEPT ![t] = 0]
  /\ cur'   = [cur   EXCEPT ![t] = 0]
  /\ found' = [found EXCEPT ![t] = FALSE]
  /\ discard' = [discard EXCEPT ![t] = FALSE]

-----------------------------------------------------------------------------
(* Entering a hook.  raw_malloc returning NULL changes nothing and is not  *)
(* modelled.                                                               *)

Begin(t, name, label) ==
  /\ pc[t] = "idle" /\ ops < MaxOps
  /\ ops' = ops + 1
  /\ op' = [op EXCEPT ![t] = name]
  /\ Goto(t, label)

\* What raw_malloc(n) may return: any block libc has not handed out.
RawMalloc(a, n) == heap[a] = 0 /\ heap' = [heap EXCEPT ![a] = n]

\* malloc (and calloc, strdup, asprintf, which call it), and mtt_malloc.
Malloc(t, a, n) ==
  /\ Begin(t, "malloc", "track")
  /\ RawMalloc(a, n)
  /\ tgt'  = [tgt  EXCEPT ![t] = a]
  /\ size' = [size EXCEPT ![t] = n]
  /\ UNCHANGED <<app, lib, tableVars, lockVars, poolVars, statVars,
                 old, ent, dead, k, cur, found, discard>>

\* A malloc that is never tracked: called from a blacklisted library, by a
\* thread of the tool, in the startup grace period or with size 0, and the
\* aligned_alloc family.
MallocPass(t, a, n) ==
  /\ pc[t] = "idle" /\ ops < MaxOps
  /\ ops' = ops + 1
  /\ RawMalloc(a, n)
  /\ lib' = lib \cup {a}
  /\ UNCHANGED <<app, tableVars, lockVars, poolVars, statVars, pc, localVars>>

\* free and realloc called from a blacklisted library: raw_free and
\* raw_realloc only, whatever the table says of p.
PassBlocks == IF CrossFree THEN lib \cup app ELSE lib

FreePass(t, p) ==
  /\ pc[t] = "idle" /\ ops < MaxOps /\ p \in PassBlocks
  /\ ops' = ops + 1
  /\ heap' = [heap EXCEPT ![p] = 0]
  /\ lib' = lib \ {p} /\ app' = app \ {p}
  /\ UNCHANGED <<tableVars, lockVars, poolVars, statVars, pc, localVars>>

ReallocPass(t, p, a, n) ==
  /\ pc[t] = "idle" /\ ops < MaxOps /\ p \in PassBlocks
  /\ ops' = ops + 1
  /\ (mode.realloc /\ a = p) \/ heap[a] = 0
  /\ heap' = [[heap EXCEPT ![p] = 0] EXCEPT ![a] = n]
  /\ lib' = (lib \ {p}) \cup {a} /\ app' = app \ {p}
  /\ UNCHANGED <<tableVars, lockVars, poolVars, statVars, pc, localVars>>

\* Mutant of Free: raw_free first, then the record.
Free_RawFirst(t, p) ==
  /\ p \in app \cup lib
  /\ Begin(t, "free", "del_lock")
  /\ heap' = [heap EXCEPT ![p] = 0]
  /\ app' = app \ {p} /\ lib' = lib \ {p}
  /\ old' = [old EXCEPT ![t] = p]
  /\ UNCHANGED <<tableVars, lockVars, poolVars, statVars,
                 tgt, size, ent, dead, k, cur, found, discard>>

Free(t, p) ==
  /\ p \in app \cup lib
  /\ Begin(t, "free", "del_lock")
  /\ app' = app \ {p} /\ lib' = lib \ {p}
  /\ old' = [old EXCEPT ![t] = p]
  /\ UNCHANGED <<heap, tableVars, lockVars, poolVars, statVars,
                 tgt, size, ent, dead, k, cur, found, discard>>

Realloc(t, p, n) ==
  /\ mode.realloc
  /\ p \in app \cup lib
  /\ Begin(t, "realloc", "re_find")
  /\ app' = app \ {p} /\ lib' = lib \ {p}
  /\ old'  = [old  EXCEPT ![t] = p]
  /\ size' = [size EXCEPT ![t] = n]
  /\ UNCHANGED <<heap, tableVars, lockVars, poolVars, statVars,
                 tgt, ent, dead, k, cur, found, discard>>

\* realloc without raw_realloc: allocate first, copy, free the old block.
ReallocCopy(t, p, a, n) ==
  /\ ~mode.realloc
  /\ p \in app \cup lib
  /\ Begin(t, "copy", "new")
  /\ app' = app \ {p} /\ lib' = lib \ {p}
  /\ RawMalloc(a, n)
  /\ old'  = [old  EXCEPT ![t] = p]
  /\ tgt'  = [tgt  EXCEPT ![t] = a]
  /\ size' = [size EXCEPT ![t] = n]
  /\ UNCHANGED <<tableVars, lockVars, poolVars, statVars,
                 ent, dead, k, cur, found, discard>>

-----------------------------------------------------------------------------
(* malloc: mtt_should_track and mtt_is_over_capacity, both evaluated.      *)

OverCapacity == entry_count >= mode.limit

Track(t, sampled) ==
  /\ pc[t] = "track"
  /\ skipped_overcap' = skipped_overcap + (IF OverCapacity THEN 1 ELSE 0)
  /\ IF sampled /\ ~OverCapacity
     THEN Goto(t, "new") /\ UNCHANGED <<app, localVars>>
     ELSE Return(t, {tgt[t]})
  /\ UNCHANGED <<heap, lib, ops, tableVars, lockVars, poolVars, entry_count,
                 current_bytes, peak_bytes, alloc_seq, free_count>>

\* mtt_malloc, the API's own copy of malloc, differs in one way: a request
\* that is not sampled returns before the capacity is looked at.
ApiUnsampled(t) ==
  /\ pc[t] = "track"
  /\ Return(t, {tgt[t]})
  /\ UNCHANGED <<heap, lib, ops, tableVars, lockVars, poolVars, statVars>>

\* realloc: the capacity check before the new record is created.
ReCapacity(t) ==
  /\ pc[t] = "re_cap"
  /\ skipped_overcap' = skipped_overcap + (IF OverCapacity THEN 1 ELSE 0)
  /\ IF ~OverCapacity
     THEN Goto(t, "new") /\ UNCHANGED <<app, localVars>>
     ELSE Return(t, {tgt[t]})
  /\ UNCHANGED <<heap, lib, ops, tableVars, lockVars, poolVars, entry_count,
                 current_bytes, peak_bytes, alloc_seq, free_count>>

-----------------------------------------------------------------------------
(* mtt_entry_new.  k[t] stripes have been tried; the own stripe is locked, *)
(* every other one only tried.                                             *)

PoolIndex(t) == (AddrStripe[tgt[t]] + k[t]) % NStripes

\* memset, then ptr, size; the stack is captured into the record in hand.
Fill(t, e) ==
  /\ ent'   = [ent   EXCEPT ![t] = e]
  /\ eptr'  = [eptr  EXCEPT ![e] = tgt[t]]
  /\ esize' = [esize EXCEPT ![e] = size[t]]
  /\ enum'  = [enum  EXCEPT ![e] = 0]
  /\ Goto(t, IF op[t] = "copy" THEN "del_lock" ELSE "ins_lock")

\* Lock a stripe of the pool and read its list head.
PoolHead(t) ==
  /\ pc[t] = "new" /\ mode.pooled /\ k[t] < NStripes
  /\ LET i == PoolIndex(t) IN
     IF pool_free_lists[i] = {}
     THEN /\ pool_locks[i] = NoThread
          /\ k' = [k EXCEPT ![t] = @ + 1]
          /\ UNCHANGED <<pc, ent, pool_locks>>
     ELSE /\ PoolLock(t, i)
          /\ \E e \in pool_free_lists[i] : ent' = [ent EXCEPT ![t] = e]
          /\ Goto(t, "unlink")
          /\ UNCHANGED k
  /\ UNCHANGED <<libcVars, ops, tableVars, bucket_locks, poolVars, statVars,
                 op, old, tgt, size, dead, cur, found, discard>>

\* Mutant of PoolSkip: the loop runs once too often.
PoolSkip_OffByOne(t) ==
  /\ pc[t] = "new" /\ mode.pooled /\ k[t] \in 1 .. NStripes
  /\ pool_locks[PoolIndex(t)] # NoThread
  /\ k' = [k EXCEPT ![t] = @ + 1]
  /\ UNCHANGED <<libcVars, ops, tableVars, lockVars, poolVars, statVars, pc,
                 op, old, tgt, size, ent, dead, cur, found, discard>>

\* pthread_mutex_trylock fails on a neighbour stripe: skip it.
PoolSkip(t) ==
  /\ pc[t] = "new" /\ mode.pooled /\ k[t] \in 1 .. (NStripes - 1)
  /\ pool_locks[PoolIndex(t)] # NoThread
  /\ k' = [k EXCEPT ![t] = @ + 1]
  /\ UNCHANGED <<libcVars, ops, tableVars, lockVars, poolVars, statVars, pc,
                 op, old, tgt, size, ent, dead, cur, found, discard>>

\* The head is unlinked and the stripe of the pool unlocked.
PoolUnlink(t) ==
  /\ pc[t] = "unlink"
  /\ LET i == PoolIndex(t) IN
       /\ pool_free_lists' = [pool_free_lists EXCEPT ![i] = @ \ {ent[t]}]
       /\ PoolUnlock(i)
  /\ pool_used' = pool_used + 1
  /\ Fill(t, ent[t])
  /\ k' = [k EXCEPT ![t] = 0]
  /\ UNCHANGED <<libcVars, ops, buckets, bucket_locks, mode, raw_entries, statVars,
                 op, old, tgt, size, dead, cur, found, discard>>

\* FALLBACK: one raw_malloc per record.
RawNew(t) ==
  /\ pc[t] = "new" /\ ~mode.pooled
  /\ \E e \in raw_entries : raw_entries' = raw_entries \ {e} /\ Fill(t, e)
  /\ UNCHANGED <<libcVars, ops, buckets, lockVars, mode, pool_free_lists, pool_used,
                 statVars, op, old, tgt, size, dead, k, cur, found, discard>>

\* mtt_entry_new returned NULL: the block stays untracked; the copying
\* realloc gives its new block back and fails.
GiveUp(t) ==
  /\ pc[t] = "new" /\ (mode.pooled => k[t] = NStripes)
  /\ IF op[t] = "copy"
     THEN heap' = [heap EXCEPT ![tgt[t]] = 0] /\ Return(t, {old[t]})
     ELSE Return(t, {tgt[t]}) /\ UNCHANGED heap
  /\ UNCHANGED <<lib, ops, tableVars, lockVars, poolVars, statVars>>

-----------------------------------------------------------------------------
(* Inserting the record under the stripe lock of the new block.            *)

\* Mutant of InsLock: the check under the lock is left out.
InsLock_NoCheck(t) ==
  /\ pc[t] = "ins_lock"
  /\ StripeLock(t, tgt[t])
  /\ alloc_seq' = alloc_seq + 1
  /\ enum' = [enum EXCEPT ![ent[t]] = alloc_seq + 1]
  /\ Goto(t, "ins_bytes")
  /\ UNCHANGED <<libcVars, ops, buckets, eptr, esize, pool_locks, poolVars,
                 entry_count, current_bytes, peak_bytes, free_count,
                 skipped_overcap, op, old, tgt, size, ent, dead, k, cur, found,
                 discard>>

\* Lock, second capacity check, alloc_num.  malloc and the copying realloc
\* unlock before they discard the record; realloc discards it under the lock.
InsLock(t) ==
  /\ pc[t] = "ins_lock"
  /\ IF OverCapacity
     THEN /\ skipped_overcap' = skipped_overcap + 1
          /\ IF op[t] = "realloc"
             THEN StripeLock(t, tgt[t])
             ELSE bucket_locks[AddrStripe[tgt[t]]] = NoThread /\ UNCHANGED bucket_locks
          /\ dead' = [dead EXCEPT ![t] = ent[t]]
          /\ ent'  = [ent  EXCEPT ![t] = NoEntry]
          /\ discard' = [discard EXCEPT ![t] = TRUE]
          /\ Wipe(ent[t])
          /\ Goto(t, "ret_lock")
          /\ UNCHANGED alloc_seq
     ELSE /\ StripeLock(t, tgt[t])
          /\ alloc_seq' = alloc_seq + 1
          /\ enum' = [enum EXCEPT ![ent[t]] = alloc_seq + 1]
          /\ Goto(t, "ins_bytes")
          /\ UNCHANGED <<skipped_overcap, dead, ent, discard, eptr, esize>>
  /\ UNCHANGED <<libcVars, ops, buckets, pool_locks, poolVars, entry_count,
                 current_bytes, peak_bytes, free_count,
                 op, old, tgt, size, k, cur, found>>

InsBytes(t) ==
  /\ pc[t] = "ins_bytes"
  /\ current_bytes' = current_bytes + size[t]
  /\ Goto(t, "ins_peak")
  /\ UNCHANGED <<libcVars, ops, tableVars, lockVars, poolVars, entry_count,
                 peak_bytes, alloc_seq, free_count, skipped_overcap, localVars>>

InsPeak(t) ==
  /\ pc[t] = "ins_peak"
  /\ cur' = [cur EXCEPT ![t] = current_bytes]
  /\ Goto(t, "ins_max")
  /\ UNCHANGED <<libcVars, ops, tableVars, lockVars, poolVars, statVars,
                 op, old, tgt, size, ent, dead, k, found, discard>>

\* Mutant of InsMax: a store instead of the compare-and-swap loop.
InsMax_Store(t) ==
  /\ pc[t] = "ins_max"
  /\ peak_bytes' = cur[t]
  /\ Goto(t, "ins_add")
  /\ UNCHANGED <<libcVars, ops, tableVars, lockVars, poolVars, entry_count,
                 current_bytes, alloc_seq, free_count, skipped_overcap, localVars>>

\* The CAS loop: peak_bytes only grows, so the loop ends as one atomic
\* maximum with the value loaded by InsPeak.
InsMax(t) ==
  /\ pc[t] = "ins_max"
  /\ peak_bytes' = IF cur[t] > peak_bytes THEN cur[t] ELSE peak_bytes
  /\ Goto(t, "ins_add")
  /\ UNCHANGED <<libcVars, ops, tableVars, lockVars, poolVars, entry_count,
                 current_bytes, alloc_seq, free_count, skipped_overcap, localVars>>

\* mtt_entry_add and unlock; the copying realloc still has to free old.
InsAdd(t) ==
  /\ pc[t] = "ins_add"
  /\ buckets' = [buckets EXCEPT ![AddrStripe[eptr[ent[t]]]] = @ \cup {ent[t]}]
  /\ entry_count' = entry_count + 1
  /\ StripeUnlock(tgt[t])
  /\ IF op[t] = "copy"
     THEN /\ Goto(t, "rawfree")
          /\ ent' = [ent EXCEPT ![t] = NoEntry]
          /\ UNCHANGED <<app, op, old, tgt, size, dead, k, cur, found, discard>>
     ELSE Return(t, {tgt[t]})
  /\ UNCHANGED <<heap, lib, ops, eptr, esize, enum, pool_locks, poolVars,
                 current_bytes, peak_bytes, alloc_seq, free_count, skipped_overcap>>

-----------------------------------------------------------------------------
(* Deleting the record of the old block: free, and the tail of realloc.    *)

\* What follows the deletion.
AfterDelete(t) ==
  CASE op[t] = "free"    -> "rawfree"
    [] op[t] = "realloc" -> "re_cap"
    [] OTHER             -> "ins_lock"

\* Mutant of DelLock: the early exit keeps the lock.
DelLock_KeepsLock(t) ==
  /\ pc[t] = "del_lock"
  /\ StripeLock(t, old[t])
  /\ IF Matches(old[t]) = {}
     THEN Goto(t, AfterDelete(t)) /\ UNCHANGED <<dead, cur>>
     ELSE /\ \E e \in mtt_entry_find(old[t]) : dead' = [dead EXCEPT ![t] = e]
          /\ cur'  = [cur  EXCEPT ![t] = current_bytes]
          /\ Goto(t, "del_sub")
  /\ UNCHANGED <<libcVars, ops, tableVars, pool_locks, poolVars, statVars,
                 op, old, tgt, size, ent, k, found, discard>>

\* Lock, find, and the load of current_bytes that guards the subtraction.
DelLock(t) ==
  /\ pc[t] = "del_lock"
  /\ IF Matches(old[t]) = {}
     THEN /\ bucket_locks[AddrStripe[old[t]]] = NoThread
          /\ Goto(t, AfterDelete(t))
          /\ UNCHANGED <<bucket_locks, dead, cur>>
     ELSE /\ StripeLock(t, old[t])
          /\ \E e \in mtt_entry_find(old[t]) : dead' = [dead EXCEPT ![t] = e]
          /\ cur'  = [cur  EXCEPT ![t] = current_bytes]
          /\ Goto(t, "del_sub")
  /\ UNCHANGED <<libcVars, ops, tableVars, pool_locks, poolVars, statVars,
                 op, old, tgt, size, ent, k, found, discard>>

\* Mutant of DelSub: the subtraction is a load and a store.
DelSub_LoadStore(t) ==
  /\ pc[t] = "del_sub"
  /\ current_bytes' = IF esize[dead[t]] <= cur[t] THEN cur[t] - esize[dead[t]] ELSE 0
  /\ free_count' = free_count + 1
  /\ Goto(t, "del_unlink")
  /\ UNCHANGED <<libcVars, ops, tableVars, lockVars, poolVars, entry_count,
                 peak_bytes, alloc_seq, skipped_overcap, localVars>>
DelSub(t) ==
  /\ pc[t] = "del_sub"
  /\ current_bytes' = IF esize[dead[t]] <= cur[t]
                      THEN current_bytes - esize[dead[t]] ELSE 0
  /\ free_count' = free_count + 1
  /\ Goto(t, "del_unlink")
  /\ UNCHANGED <<libcVars, ops, tableVars, lockVars, poolVars, entry_count,
                 peak_bytes, alloc_seq, skipped_overcap, localVars>>

\* mtt_entry_remove looks the record up again and takes it off its chain.
DelUnlink(t) ==
  /\ pc[t] = "del_unlink"
  /\ \E e \in mtt_entry_find(old[t]) :
       /\ buckets' = [buckets EXCEPT ![AddrStripe[old[t]]] = @ \ {e}]
       /\ dead' = [dead EXCEPT ![t] = e]
       /\ Wipe(e)
  /\ entry_count' = entry_count - 1
  /\ Goto(t, "ret_lock")
  /\ UNCHANGED <<libcVars, ops, lockVars, poolVars, current_bytes, peak_bytes,
                 alloc_seq, free_count, skipped_overcap,
                 op, old, tgt, size, ent, k, cur, found, discard>>

-----------------------------------------------------------------------------
(* Giving the record dead[t] back: the end of mtt_entry_remove, and        *)
(* mtt_entry_discard.                                                      *)

\* The code after mtt_entry_remove or mtt_entry_discard, with its unlock.
AfterReturn(t) ==
  IF discard[t]
  THEN IF op[t] = "copy"
       THEN /\ Goto(t, "rawfree")
            /\ dead' = [dead EXCEPT ![t] = NoEntry]
            /\ discard' = [discard EXCEPT ![t] = FALSE]
            /\ UNCHANGED <<bucket_locks, app, op, old, tgt, size, ent, k, cur, found>>
       ELSE /\ Return(t, {tgt[t]})
            /\ IF op[t] = "realloc" THEN StripeUnlock(tgt[t])
                                    ELSE UNCHANGED bucket_locks
  ELSE /\ StripeUnlock(old[t])
       /\ Goto(t, AfterDelete(t))
       /\ dead' = [dead EXCEPT ![t] = NoEntry]
       /\ cur'  = [cur  EXCEPT ![t] = 0]
       /\ UNCHANGED <<app, op, old, tgt, size, ent, k, found, discard>>

RetLock(t) ==
  /\ pc[t] = "ret_lock" /\ mode.pooled
  /\ PoolLock(t, EntryStripe[dead[t]])
  /\ Goto(t, "ret_push")
  /\ UNCHANGED <<libcVars, ops, tableVars, bucket_locks, poolVars, statVars,
                 localVars>>

RetPush(t) ==
  /\ pc[t] = "ret_push"
  /\ LET i == EntryStripe[dead[t]] IN
       /\ pool_free_lists' = [pool_free_lists EXCEPT ![i] = @ \cup {dead[t]}]
       /\ PoolUnlock(i)
  /\ Goto(t, "ret_used")
  /\ UNCHANGED <<libcVars, ops, tableVars, bucket_locks, mode, raw_entries, pool_used,
                 statVars, localVars>>

\* Mutant of RetUsed: pool_used is not decremented.
RetUsed_NotCounted(t) ==
  /\ pc[t] = "ret_used"
  /\ AfterReturn(t)
  /\ UNCHANGED <<heap, lib, ops, tableVars, pool_locks, poolVars, statVars>>

RetUsed(t) ==
  /\ pc[t] = "ret_used"
  /\ pool_used' = pool_used - 1
  /\ AfterReturn(t)
  /\ UNCHANGED <<heap, lib, ops, tableVars, pool_locks, mode,
                 pool_free_lists, raw_entries, statVars>>

\* FALLBACK: raw_free of the record.
RetRaw(t) ==
  /\ pc[t] = "ret_lock" /\ ~mode.pooled
  /\ raw_entries' = raw_entries \cup {dead[t]}
  /\ AfterReturn(t)
  /\ UNCHANGED <<heap, lib, ops, tableVars, pool_locks, mode,
                 pool_free_lists, pool_used, statVars>>

\* raw_free of the old block, after its record is gone.
RawFree(t) ==
  /\ pc[t] = "rawfree"
  /\ heap' = [heap EXCEPT ![old[t]] = 0]
  /\ Return(t, IF op[t] = "free" THEN {} ELSE {tgt[t]})
  /\ UNCHANGED <<lib, ops, tableVars, lockVars, poolVars, statVars>>

-----------------------------------------------------------------------------
(* realloc with raw_realloc.                                               *)

\* The record is looked up under the lock, which is released again.
ReFind(t) ==
  /\ pc[t] = "re_find"
  /\ bucket_locks[AddrStripe[old[t]]] = NoThread
  /\ found' = [found EXCEPT ![t] = mtt_entry_find(old[t]) # {}]
  /\ Goto(t, "re_raw")
  /\ UNCHANGED <<libcVars, ops, tableVars, lockVars, poolVars, statVars,
                 op, old, tgt, size, ent, dead, k, cur, discard>>

\* raw_realloc keeps the block in place or moves it to a.  From here on libc
\* may hand the old address to another thread.
ReRaw(t, a) ==
  /\ pc[t] = "re_raw"
  /\ a = old[t] \/ heap[a] = 0
  /\ heap' = [[heap EXCEPT ![old[t]] = 0] EXCEPT ![a] = size[t]]
  /\ IF found[t]
     THEN /\ tgt' = [tgt EXCEPT ![t] = a]
          /\ Goto(t, "del_lock")
          /\ UNCHANGED <<app, op, old, size, ent, dead, k, cur, found, discard>>
     ELSE Return(t, {a})
  /\ UNCHANGED <<lib, ops, tableVars, lockVars, poolVars, statVars>>

\* raw_realloc fails and leaves the old block alone.
ReFail(t) ==
  /\ pc[t] = "re_raw"
  /\ Return(t, {old[t]})
  /\ UNCHANGED <<heap, lib, ops, tableVars, lockVars, poolVars, statVars>>

-----------------------------------------------------------------------------
Init ==
  /\ mode \in Modes
  /\ heap = [a \in Addr |-> 0] /\ app = {} /\ lib = {} /\ ops = 0
  /\ buckets = [i \in Stripes |-> {}]
  /\ bucket_locks = [i \in Stripes |-> NoThread]
  /\ pool_locks   = [i \in Stripes |-> NoThread]
  \* mtt_ensure_init deals the records out round robin
  /\ pool_free_lists = [i \in Stripes |->
                          {e \in Entries : mode.pooled /\ e % NStripes = i}]
  /\ raw_entries = {e \in Entries : ~mode.pooled}
  /\ eptr = [e \in Entries |-> NoAddr]
  /\ esize = [e \in Entries |-> 0] /\ enum = [e \in Entries |-> 0]
  /\ pool_used = 0 /\ entry_count = 0 /\ current_bytes = 0 /\ peak_bytes = 0
  /\ alloc_seq = 0 /\ free_count = 0 /\ skipped_overcap = 0
  /\ pc = [t \in Threads |-> "idle"] /\ op = [t \in Threads |-> "none"]
  /\ old = [t \in Threads |-> NoAddr] /\ tgt = [t \in Threads |-> NoAddr]
  /\ size = [t \in Threads |-> 0]
  /\ ent = [t \in Threads |-> NoEntry] /\ dead = [t \in Threads |-> NoEntry]
  /\ k = [t \in Threads |-> 0] /\ cur = [t \in Threads |-> 0]
  /\ found = [t \in Threads |-> FALSE] /\ discard = [t \in Threads |-> FALSE]

\* A step of thread t inside a hook.
Step(t) ==
  \/ \E sampled \in BOOLEAN : Track(t, sampled)
  \/ ApiUnsampled(t)
  \/ ReCapacity(t) \/ PoolHead(t) \/ PoolSkip(t) \/ PoolUnlink(t)
  \/ RawNew(t) \/ GiveUp(t)
  \/ InsLock(t) \/ InsBytes(t) \/ InsPeak(t) \/ InsMax(t) \/ InsAdd(t)
  \/ DelLock(t) \/ DelSub(t) \/ DelUnlink(t)
  \/ RetLock(t) \/ RetPush(t) \/ RetUsed(t) \/ RetRaw(t) \/ RawFree(t)

\* The program calls malloc or free.
CallMallocFree(t) ==
  \/ \E a \in Addr, n \in Sizes : Malloc(t, a, n) \/ MallocPass(t, a, n)
  \/ \E p \in Addr : Free(t, p) \/ FreePass(t, p)

\* The program calls realloc, and the steps only realloc takes.
ReallocStep(t) ==
  \/ ReFind(t) \/ ReFail(t) \/ \E a \in Addr : ReRaw(t, a)
CallRealloc(t) ==
  \/ \E p \in Addr, n \in Sizes : Realloc(t, p, n)
  \/ \E p, a \in Addr, n \in Sizes : ReallocCopy(t, p, a, n) \/ ReallocPass(t, p, a, n)

Next == \E t \in Threads :
  Step(t) \/ CallMallocFree(t) \/ ReallocStep(t) \/ CallRealloc(t)

\* A program that never calls realloc.
MallocFreeNext == \E t \in Threads : Step(t) \/ CallMallocFree(t)

Spec == Init /\ [][Next]_vars
MallocFreeSpec == Init /\ [][MallocFreeNext]_vars

\* The same when a thread inside a hook keeps running.
FairMallocFreeSpec == MallocFreeSpec /\ \A t \in Threads : WF_vars(Step(t))

-----------------------------------------------------------------------------
(* Properties.                                                             *)

PCs == {"idle", "track", "new", "unlink", "ins_lock", "ins_bytes", "ins_peak",
        "ins_max", "ins_add", "del_lock", "del_sub", "del_unlink", "ret_lock",
        "ret_push", "ret_used", "rawfree", "re_find", "re_raw", "re_cap"}

SharedTypes ==
  /\ mode \in Modes
  /\ heap \in [Addr -> 0 .. MaxSize]
  /\ app \subseteq Addr /\ lib \subseteq Addr /\ ops \in Nat
  /\ buckets \in [Stripes -> SUBSET Entries]
  /\ bucket_locks \in [Stripes -> Threads \cup {NoThread}]
  /\ pool_locks \in [Stripes -> Threads \cup {NoThread}]
  /\ pool_free_lists \in [Stripes -> SUBSET Entries]
  /\ raw_entries \subseteq Entries
  /\ eptr \in [Entries -> Addr \cup {NoAddr}]
  /\ esize \in [Entries -> 0 .. MaxSize] /\ enum \in [Entries -> Nat]
  /\ pool_used \in Int /\ entry_count \in Int
  /\ current_bytes \in Int /\ peak_bytes \in Int
  /\ alloc_seq \in Nat /\ free_count \in Nat /\ skipped_overcap \in Nat

LocalTypes ==
  /\ pc \in [Threads -> PCs]
  /\ op \in [Threads -> {"none", "malloc", "free", "realloc", "copy"}]
  /\ old \in [Threads -> Addr \cup {NoAddr}]
  /\ tgt \in [Threads -> Addr \cup {NoAddr}]
  /\ size \in [Threads -> 0 .. MaxSize]
  /\ ent \in [Threads -> Entries \cup {NoEntry}]
  /\ dead \in [Threads -> Entries \cup {NoEntry}]
  /\ k \in [Threads -> 0 .. NStripes] /\ cur \in [Threads -> Int]
  /\ found \in [Threads -> BOOLEAN] /\ discard \in [Threads -> BOOLEAN]

\* Every variable has the type of the C object it stands for.  That the size_t
\* counters never wrap below zero is what the properties on them say.
TypeOK == SharedTypes /\ LocalTypes

\* A thread owns a record outside every list: one it took from the pool and
\* has not inserted, or one it took off a chain and has not given back.
HoldsNew(t, e)  == ent[t] = e /\ pc[t] # "unlink"
HoldsDead(t, e) == dead[t] = e /\ pc[t] \in {"ret_lock", "ret_push"}

\* Where a record can be.
Places(e) ==
  {<<"list", i>> : i \in {j \in Stripes : e \in pool_free_lists[j]}} \cup
  {<<"chain", i>> : i \in {j \in Stripes : e \in buckets[j]}} \cup
  {<<"new", t>> : t \in {u \in Threads : HoldsNew(u, e)}} \cup
  {<<"dead", t>> : t \in {u \in Threads : HoldsDead(u, e)}} \cup
  {<<"libc", i>> : i \in {j \in {0} : e \in raw_entries}}

\* No record is lost or owned twice: at every moment each one is on exactly
\* one free list, or on exactly one chain, or in exactly one thread's hand
\* (mtt_internal.h: a record is on only one of the lists its next field
\* serves), although lists are read and unlinked in separate steps and
\* records return to another stripe than the one they came from.
PoolPartition == \A e \in Entries : \E x \in Places(e) : Places(e) = {x}

InUse == Table \cup {e \in Entries : \E t \in Threads : HoldsNew(t, e) \/ HoldsDead(t, e)}

\* pool_used counts the records in the table and in hands, plus one for each
\* thread that has pushed its record back and not yet decremented; with no
\* hook running this is the header's "pool in use = entry_count = records
\* on the chains".
PoolUsedExact ==
  mode.pooled => pool_used = Cardinality(InUse)
                        + Cardinality({t \in Threads : pc[t] = "ret_used"})

\* entry_count, read without a lock by the capacity checks and the reporter,
\* is the number of records in the table.
EntryCountExact == entry_count = Cardinality(Table)

\* alloc_count - free_count is what the report calls live allocations: it is
\* the number of records up to the hooks between the counter and the list.
CountsBalance ==
  alloc_seq - free_count =
    entry_count
    + Cardinality({t \in Threads : pc[t] \in {"ins_bytes", "ins_peak", "ins_max", "ins_add"}})
    - Cardinality({t \in Threads : pc[t] = "del_unlink"})

\* The three counters the report and the limits are taken from agree with the
\* table at every step, although each is a single atomic operation that hooks
\* on different stripes make without a common lock.
CountersExact == PoolUsedExact /\ EntryCountExact /\ CountsBalance

\* Records whose size current_bytes includes: those in the table but for the
\* one a thread is about to unlink, and those about to be inserted.
Counted ==
  (Table \ {dead[t] : t \in {u \in Threads : pc[u] = "del_unlink"}}) \cup
  {ent[t] : t \in {u \in Threads : pc[u] \in {"ins_peak", "ins_max", "ins_add"}}}

\* current_bytes is the sum of those sizes at every step, although hooks on
\* different stripes add to it and subtract from it without a common lock.
BytesExact == current_bytes = MapThenSumSet(LAMBDA e : esize[e], Counted)

\* The guard of the subtraction never fails: a hook never resets
\* current_bytes to 0 and never takes it below 0 after the value it loaded
\* went stale.
NoUnderflow ==
  \A t \in Threads : pc[t] = "del_sub" =>
     esize[dead[t]] <= cur[t] /\ esize[dead[t]] <= current_bytes

\* peak_bytes is at least current_bytes whenever no hook is between adding
\* its size and updating the peak: the last one to add loads afterwards.
PeakCovers ==
  (\A t \in Threads : pc[t] \notin {"ins_peak", "ins_max"})
     => current_bytes <= peak_bytes

\* The stripes the program's blocks lie on.
UsedStripes == {AddrStripe[a] : a \in Addr}

\* The second capacity check is made under the lock of one stripe and the
\* count is raised later under the same lock (hooks.c:266-308), so a hook on
\* another stripe can pass the check in between ("the check inside the lock
\* removes the TOCTOU window", tracker.c:1765, holds of one stripe only).
\* However many threads run, with the pool or without, the table exceeds
\* MTT_MAX_ENTRIES by at most one record for each further stripe, and not at
\* all when all blocks lie on one.
CapacityRespected == entry_count <= mode.limit + Cardinality(UsedStripes) - 1

\* Each record in the table describes a block that is allocated now, with
\* its size, and no block has two: free removes the record before libc gets
\* the block back, and malloc inserts after libc handed it out.
TableMatchesHeap ==
  \A e \in Table :
    /\ heap[eptr[e]] = esize[e]
    /\ \A f \in Table : eptr[f] = eptr[e] => f = e

\* When every hook has returned, the table describes the heap: "on free the
\* record is looked up by ptr and deleted" (mtt_internal.h:202-207).
QuiescentMatch == (\A t \in Threads : pc[t] = "idle") => TableMatchesHeap

Tracked(p) == Matches(p) # {}

\* A block the application keeps holding does not lose its record because of
\* what other threads do.
LiveStaysTracked == [][\A p \in app \cap app' : Tracked(p) => Tracked(p)']_vars

\* The ledger the table represents: the recorded size of each block.
RecordedSize ==
  [p \in Addr |-> IF Matches(p) = {} THEN 0
                  ELSE esize[CHOOSE e \in mtt_entry_find(p) : TRUE]]

L == INSTANCE Ledger WITH live <- heap, held <- app \cup lib, line <- RecordedSize

\* Without realloc and without frees from blacklisted code, the hooks with
\* their locks, lists and counters implement the ledger.
ImplementsLedger == L!Spec

\* Every hook call returns: no cycle among stripe locks and pool locks, and
\* the scan of the pool ends.
HookReturns == \A t \in Threads : pc[t] # "idle" ~> pc[t] = "idle"

=============================================================================
