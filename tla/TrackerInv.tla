---------------------------- MODULE TrackerInv ----------------------------
(***************************************************************************)
(* The inductive invariant of Tracker: what each thread's locals are at    *)
(* each point of a hook, and where each record is.                         *)
(***************************************************************************)
EXTENDS Tracker

InsPCs == {"ins_lock", "ins_bytes", "ins_peak", "ins_max", "ins_add"}
DelPCs == {"del_lock", "del_sub", "del_unlink"}
RetPCs == {"ret_lock", "ret_push", "ret_used"}

\* The hooks that pass through each point.
OpAtPC(t) ==
  /\ pc[t] = "idle" => op[t] = "none"
  /\ pc[t] = "track" => op[t] = "malloc"
  /\ pc[t] \in {"re_find", "re_raw", "re_cap"} => op[t] = "realloc"
  /\ pc[t] = "rawfree" => op[t] \in {"free", "copy"}
  /\ pc[t] \in {"new", "unlink"} \cup InsPCs => op[t] \in {"malloc", "realloc", "copy"}
  /\ pc[t] \in DelPCs => op[t] \in {"free", "realloc", "copy"}
  /\ pc[t] \in RetPCs =>
       op[t] \in (IF discard[t] THEN {"malloc"} ELSE {"free"}) \cup {"realloc", "copy"}
  /\ discard[t] => pc[t] \in RetPCs

\* The blocks the hook works on: old is the argument of free and realloc,
\* tgt the block realloc or malloc got from libc.
BlocksAtPC(t) ==
  /\ op[t] \in {"free", "realloc", "copy"} => old[t] \in Addr
  /\ op[t] \in {"malloc", "copy"} => tgt[t] \in Addr
  /\ op[t] = "realloc" /\ pc[t] \notin {"re_find", "re_raw"} => tgt[t] \in Addr

\* A thread has a record in ent from the moment it picks the list head until
\* it inserts or discards the record; the copying realloc has it while it
\* deletes the old one.
HasNew(t) ==
  \/ pc[t] \in {"unlink"} \cup InsPCs
  \/ op[t] = "copy" /\ pc[t] \in DelPCs
  \/ op[t] = "copy" /\ pc[t] \in RetPCs /\ ~discard[t]

\* ... and one in dead from the lookup until it is given back.
HasDead(t) == pc[t] \in {"del_sub", "del_unlink"} \cup RetPCs

RecordsAtPC(t) ==
  /\ IF HasNew(t) THEN ent[t] \in Entries ELSE ent[t] = NoEntry
  /\ IF HasDead(t) THEN dead[t] \in Entries ELSE dead[t] = NoEntry
  /\ pc[t] \in {"unlink", "ret_push", "ret_used"} => mode.pooled
  /\ pc[t] = "unlink" => k[t] < NStripes

\* The record in hand describes the block it is for.
Filled(t) == HasNew(t) /\ pc[t] # "unlink" => eptr[ent[t]] = tgt[t]

LocalsInv == \A t \in Threads :
  OpAtPC(t) /\ BlocksAtPC(t) /\ RecordsAtPC(t) /\ Filled(t)

\* A list head that a thread has read is still on its list when the thread
\* unlinks it, because it holds the lock of that stripe of the pool.
HeadInv == \A t \in Threads :
  /\ pc[t] = "unlink" => /\ pool_locks[PoolIndex(t)] = t
                         /\ ent[t] \in pool_free_lists[PoolIndex(t)]
  /\ pc[t] = "ret_push" => pool_locks[EntryStripe[dead[t]]] = t

OnList(e)  == \E i \in Stripes : e \in pool_free_lists[i]
OnChain(e) == \E i \in Stripes : e \in buckets[i]
InNew(e)   == \E t \in Threads : HoldsNew(t, e)
InDead(e)  == \E t \in Threads : HoldsDead(t, e)
InLibc(e)  == e \in raw_entries

\* No record is in two places of one kind,
Single == \A e \in Entries :
  /\ \A i, j \in Stripes : e \in pool_free_lists[i] /\ e \in pool_free_lists[j] => i = j
  /\ \A i, j \in Stripes : e \in buckets[i] /\ e \in buckets[j] => i = j
  /\ \A t, u \in Threads : HoldsNew(t, e) /\ HoldsNew(u, e) => t = u
  /\ \A t, u \in Threads : HoldsDead(t, e) /\ HoldsDead(u, e) => t = u

\* nor in places of two kinds,
Apart == \A e \in Entries :
  /\ OnList(e)  => ~OnChain(e) /\ ~InNew(e) /\ ~InDead(e) /\ ~InLibc(e)
  /\ OnChain(e) => ~InNew(e) /\ ~InDead(e) /\ ~InLibc(e)
  /\ InNew(e)   => ~InDead(e) /\ ~InLibc(e)
  /\ InDead(e)  => ~InLibc(e)

\* nor nowhere.
Somewhere == \A e \in Entries :
  OnList(e) \/ OnChain(e) \/ InNew(e) \/ InDead(e) \/ InLibc(e)

\* A record on a chain is on the chain of the stripe of the block it
\* describes.
ChainInv == \A i \in Stripes : \A e \in buckets[i] :
  eptr[e] \in Addr /\ AddrStripe[eptr[e]] = i

\* The inductive invariant.  PoolPartition alone is not inductive: that the
\* head a thread is about to unlink is still on its list follows only from
\* the locals and the locks.
OwnershipInv ==
  TypeOK /\ LocalsInv /\ HeadInv /\ Single /\ Apart /\ Somewhere /\ ChainInv

-----------------------------------------------------------------------------
(* The chains of the table.                                                *)

\* A hook holds the lock of the stripe of its new block while it inserts (and
\* realloc while it discards), and of the old one while it deletes.
InsWindow == {"ins_bytes", "ins_peak", "ins_max", "ins_add"}
LocksNew(t) ==
  \/ pc[t] \in InsWindow
  \/ pc[t] \in RetPCs /\ discard[t] /\ op[t] = "realloc"
LocksOld(t) ==
  \/ pc[t] \in {"del_sub", "del_unlink"}
  \/ pc[t] \in RetPCs /\ ~discard[t]

LockInv == \A t \in Threads :
  /\ LocksNew(t) => bucket_locks[AddrStripe[tgt[t]]] = t
  /\ LocksOld(t) => bucket_locks[AddrStripe[old[t]]] = t

\* alloc_num tells the records on the chains apart: it is drawn from a counter,
\* and is 0 in a record that has none yet.
NumberInv ==
  /\ \A e \in Entries : enum[e] <= alloc_seq
  /\ \A e, f \in Entries : enum[e] = enum[f] /\ enum[e] # 0 => e = f
  /\ \A e \in Entries : OnChain(e) => enum[e] # 0
  /\ \A t \in Threads : pc[t] \in InsWindow => enum[ent[t]] # 0

\* The record a hook has found is still the one its block has on the chain
\* when the hook subtracts its size and when it unlinks it.
FoundInv == \A t \in Threads :
  pc[t] \in {"del_sub", "del_unlink"} => dead[t] \in mtt_entry_find(old[t])

\* The size added to current_bytes is the one in the record.
SizeInv == \A t \in Threads :
  HasNew(t) /\ pc[t] # "unlink" => esize[ent[t]] = size[t]

ChainsInv == LockInv /\ NumberInv /\ FoundInv /\ SizeInv

\* The room below the limit, for CapacityRespected: the hooks that have passed
\* the second check and not yet raised the count are counted as if they had.
CapacityInv ==
  entry_count + Cardinality({t \in Threads : pc[t] \in InsWindow})
    <= mode.limit + Cardinality(UsedStripes) - 1

-----------------------------------------------------------------------------
(* The counters.                                                           *)

\* If current_bytes is above the peak, a hook is still to load it, or has
\* loaded a value at least as large.
PeakInv ==
  /\ peak_bytes >= 0
  /\ \/ current_bytes <= peak_bytes
     \/ \E t \in Threads : pc[t] = "ins_peak"
     \/ \E t \in Threads : pc[t] = "ins_max" /\ cur[t] >= current_bytes

\* The value loaded before the subtraction covers it.
LoadedInv == \A t \in Threads : pc[t] = "del_sub" => esize[dead[t]] <= cur[t]

-----------------------------------------------------------------------------
(* The ledger: a program that calls malloc and free only, without frees    *)
(* from blacklisted code.                                                  *)

\* A hook has a block that libc has handed out and the program does not hold.
Passing(t, a) ==
  \/ op[t] = "malloc" /\ tgt[t] = a
  \/ op[t] = "free" /\ old[t] = a

\* A block is with the application, with untracked code, or in one hook.
OwnersInv ==
  /\ \A t \in Threads : op[t] \in {"none", "malloc", "free"}
  /\ app \cap lib = {}
  /\ \A a \in app \cup lib : heap[a] # 0 /\ \A t \in Threads : ~Passing(t, a)
  /\ \A t \in Threads, a \in Addr : Passing(t, a) => heap[a] # 0
  /\ \A t, u \in Threads, a \in Addr : Passing(t, a) /\ Passing(u, a) => t = u
  /\ \A t \in Threads : op[t] = "malloc" => heap[tgt[t]] = size[t]

\* A free that has not deleted the record of its block yet.
Deleting(t, a) == op[t] = "free" /\ old[t] = a /\ pc[t] \in DelPCs

\* The block of a record is with the application, or in a free that is about
\* to delete the record; no block has two.
LinesInv ==
  /\ \A e \in Entries : OnChain(e) =>
       /\ heap[eptr[e]] = esize[e]
       /\ eptr[e] \in app \/ \E t \in Threads : Deleting(t, eptr[e])
  /\ \A e, f \in Entries : OnChain(e) /\ OnChain(f) /\ eptr[e] = eptr[f] => e = f

LedgerInv == OwnersInv /\ LinesInv
=============================================================================
