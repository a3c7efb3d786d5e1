--------------------------- MODULE TrackerProofs ---------------------------
(***************************************************************************)
(* Proofs about Tracker for any number of threads, addresses, stripes and  *)
(* records.                                                                *)
(***************************************************************************)
EXTENDS TrackerInv, FiniteSetTheorems, TLAPS

-----------------------------------------------------------------------------
(* Sums over finite sets, for the bytes of the records in the table.  They *)
(* rest on the least element of a set of finite sets, which takes the      *)
(* place of induction.                                                     *)

\* The sum of w over S, whose elements the fold takes in the order of FirstOf.
SumOver(w, S) == MapThenSumSet(LAMBDA r : w[r], S)
FirstOf(s) == CHOOSE x \in s : TRUE

\* What the fold computes, one element at a time.
IsFold(it, w, S) ==
  it = [s \in SUBSET S |-> IF s = {} THEN 0 ELSE w[FirstOf(s)] + it[s \ {FirstOf(s)}]]

\* A set of subsets of a finite set has a least one.
LEMMA LeastSubset ==
  ASSUME NEW S, IsFiniteSet(S), NEW B \in SUBSET SUBSET S, B # {}
  PROVE  \E U \in B : \A V \in B : V \subseteq U => V = U
  <1> DEFINE R == StrictSubsetOrdering(S)
  <1>1. IsWellFoundedOn(R, FiniteSubsetsOf(S)) BY FS_StrictSubsetOrderingWellFounded
  <1>2. B \subseteq FiniteSubsetsOf(S) BY FS_Subset DEF FiniteSubsetsOf
  <1>3. \E U \in B : \A V \in B : ~(<<V, U>> \in R)
    <2> HIDE DEF R
    <2> QED BY <1>1, <1>2, WFMin
  <1>4. PICK U \in B : \A V \in B : ~(<<V, U>> \in R) BY <1>3
  <1>5. \A V \in B : V \subseteq U => V = U BY <1>4 DEF StrictSubsetOrdering
  <1> QED BY <1>5

\* The fold takes an element out.
LEMMA FirstIn == \A s : s # {} => FirstOf(s) \in s
  BY DEF FirstOf

\* Two folds agree where both are defined.
LEMMA FoldsAgree ==
  ASSUME NEW w, NEW S, NEW T, IsFiniteSet(S), NEW a, NEW b, IsFold(a, w, S), IsFold(b, w, T)
  PROVE  \A U \in SUBSET S : U \subseteq T => a[U] = b[U]
  <1> DEFINE B == {U \in SUBSET S : U \subseteq T /\ a[U] # b[U]}
  <1> SUFFICES ASSUME B # {} PROVE FALSE OBVIOUS
  <1>0. B \in SUBSET SUBSET S OBVIOUS
  <1>1. PICK U \in B : \A V \in B : V \subseteq U => V = U
    <2> HIDE DEF B
    <2> QED BY <1>0, LeastSubset
  <1>2. U \in SUBSET S /\ U \in SUBSET T /\ a[U] # b[U] OBVIOUS
  <1>3. /\ a[U] = IF U = {} THEN 0 ELSE w[FirstOf(U)] + a[U \ {FirstOf(U)}]
        /\ b[U] = IF U = {} THEN 0 ELSE w[FirstOf(U)] + b[U \ {FirstOf(U)}]
    BY <1>2 DEF IsFold
  <1>4. U # {} BY <1>2, <1>3
  <1>5. U \ {FirstOf(U)} \subseteq U /\ U \ {FirstOf(U)} # U BY <1>4, FirstIn
  <1>6. a[U \ {FirstOf(U)}] = b[U \ {FirstOf(U)}] BY <1>1, <1>2, <1>5
  <1> QED BY <1>2, <1>3, <1>4, <1>6

\* The recursive function of the fold exists.
LEMMA FoldExists ==
  ASSUME NEW w, NEW S, IsFiniteSet(S)
  PROVE  \E it : IsFold(it, w, S)
  <1> DEFINE B == {U \in SUBSET S : ~\E it : IsFold(it, w, U)}
  <1> SUFFICES ASSUME B # {} PROVE FALSE OBVIOUS
  <1>0. B \in SUBSET SUBSET S OBVIOUS
  <1>1. PICK T \in B : \A V \in B : V \subseteq T => V = T
    <2> HIDE DEF B
    <2> QED BY <1>0, LeastSubset
  <1>2. T \in SUBSET S /\ IsFiniteSet(T) /\ ~\E it : IsFold(it, w, T) BY FS_Subset
  <1>3. \A U \in SUBSET T : U # T => \E it : IsFold(it, w, U) BY <1>1, <1>2
  <1> DEFINE fold(U) == CHOOSE it : IsFold(it, w, U)
             g(U) == fold(U)[U]
  <1>4. \A U \in SUBSET T : U # T => IsFold(fold(U), w, U) BY <1>3
  <1>5. ASSUME NEW U \in SUBSET T, U # T
        PROVE  g(U) = IF U = {} THEN 0 ELSE w[FirstOf(U)] + g(U \ {FirstOf(U)})
    <2>1. IsFold(fold(U), w, U) BY <1>4, <1>5
    <2> HIDE DEF fold
    <2>2. fold(U)[U] = IF U = {} THEN 0 ELSE w[FirstOf(U)] + fold(U)[U \ {FirstOf(U)}]
      BY <2>1 DEF IsFold
    <2>3. CASE U = {} BY <2>2, <2>3
    <2>4. CASE U # {}
      <3>1. PICK V : V = U \ {FirstOf(U)} OBVIOUS
      <3>2. V \in SUBSET T /\ V # T /\ V \subseteq U BY <1>5, <2>4, <3>1, FirstIn
      <3>3. IsFold(fold(V), w, V) BY <1>4, <3>2
      <3>4. IsFiniteSet(U) BY <1>2, FS_Subset
      <3>5. fold(U)[V] = fold(V)[V] BY <2>1, <3>2, <3>3, <3>4, FoldsAgree
      <3> QED BY <2>2, <2>4, <3>1, <3>5
    <2> QED BY <2>3, <2>4
  <1> DEFINE it == [s \in SUBSET T |-> IF s = {} THEN 0 ELSE w[FirstOf(s)] + g(s \ {FirstOf(s)})]
  <1>6. IsFold(it, w, T)
    <2>1. ASSUME NEW s \in SUBSET T, s # {} PROVE it[s \ {FirstOf(s)}] = g(s \ {FirstOf(s)})
      <3>1. PICK V : V = s \ {FirstOf(s)} OBVIOUS
      <3>2. V \in SUBSET T /\ V # T BY <2>1, <3>1, FirstIn
      <3>3. g(V) = IF V = {} THEN 0 ELSE w[FirstOf(V)] + g(V \ {FirstOf(V)}) BY <1>5, <3>2
      <3> HIDE DEF g
      <3>4. it[V] = IF V = {} THEN 0 ELSE w[FirstOf(V)] + g(V \ {FirstOf(V)}) BY <3>2
      <3> QED BY <3>1, <3>3, <3>4
    <2> HIDE DEF g
    <2>2. it = [s \in SUBSET T |-> IF s = {} THEN 0 ELSE w[FirstOf(s)] + it[s \ {FirstOf(s)}]]
      BY <2>1
    <2> HIDE DEF it
    <2> QED BY <2>2 DEF IsFold
  <1> QED BY <1>2, <1>6

\* The fold takes the elements out one by one.
LEMMA SumStep ==
  ASSUME NEW w, NEW S, IsFiniteSet(S)
  PROVE  SumOver(w, S) = IF S = {} THEN 0 ELSE w[FirstOf(S)] + SumOver(w, S \ {FirstOf(S)})
  <1> DEFINE fold(U) == CHOOSE it : IsFold(it, w, U)
  <1>1. \A U : SumOver(w, U) = fold(U)[U]
    BY DEF SumOver, MapThenSumSet, MapThenFoldSet, IsFold, FirstOf
  <1>2. \A U \in SUBSET S : IsFold(fold(U), w, U)
    <2> SUFFICES ASSUME NEW U \in SUBSET S PROVE IsFold(fold(U), w, U) OBVIOUS
    <2>1. IsFiniteSet(U) BY FS_Subset
    <2>2. \E it : IsFold(it, w, U) BY <2>1, FoldExists
    <2> QED BY <2>2
  <1> HIDE DEF fold
  <1>3. IsFold(fold(S), w, S) BY <1>2
  <1>4. fold(S)[S] = IF S = {} THEN 0 ELSE w[FirstOf(S)] + fold(S)[S \ {FirstOf(S)}]
    BY <1>3 DEF IsFold
  <1>5. PICK V \in SUBSET S : V = S \ {FirstOf(S)} OBVIOUS
  <1>6. fold(S)[V] = fold(V)[V] BY <1>2, <1>3, FoldsAgree
  <1> QED BY <1>1, <1>4, <1>5, <1>6

\* The sum of natural numbers is one.
LEMMA SumIsNat ==
  ASSUME NEW w, NEW S, IsFiniteSet(S), \A x \in S : w[x] \in Nat
  PROVE  SumOver(w, S) \in Nat
  <1> DEFINE B == {U \in SUBSET S : SumOver(w, U) \notin Nat}
  <1> SUFFICES ASSUME B # {} PROVE FALSE OBVIOUS
  <1>0. B \in SUBSET SUBSET S OBVIOUS
  <1>1. PICK U \in B : \A V \in B : V \subseteq U => V = U
    <2> HIDE DEF B
    <2> QED BY <1>0, LeastSubset
  <1>2. U \in SUBSET S /\ SumOver(w, U) \notin Nat /\ IsFiniteSet(U) BY FS_Subset
  <1>3. SumOver(w, U) = IF U = {} THEN 0 ELSE w[FirstOf(U)] + SumOver(w, U \ {FirstOf(U)})
    BY <1>2, SumStep
  <1>4. U # {} BY <1>2, <1>3
  <1>5. FirstOf(U) \in U /\ U \ {FirstOf(U)} # U BY <1>4, FirstIn
  <1>6. SumOver(w, U \ {FirstOf(U)}) \in Nat BY <1>1, <1>2, <1>5
  <1>7. w[FirstOf(U)] \in Nat BY <1>2, <1>5
  <1> QED BY <1>2, <1>3, <1>4, <1>6, <1>7

\* The order does not matter: any element can be taken out first.
LEMMA SumWithout ==
  ASSUME NEW w, NEW S, IsFiniteSet(S), \A x \in S : w[x] \in Nat
  PROVE  \A x \in S : SumOver(w, S) = w[x] + SumOver(w, S \ {x})
  <1> DEFINE B == {U \in SUBSET S : \E x \in U : SumOver(w, U) # w[x] + SumOver(w, U \ {x})}
  <1> SUFFICES ASSUME B # {} PROVE FALSE OBVIOUS
  <1>0. B \in SUBSET SUBSET S OBVIOUS
  <1>1. PICK U \in B : \A V \in B : V \subseteq U => V = U
    <2> HIDE DEF B
    <2> QED BY <1>0, LeastSubset
  <1>2. U \in SUBSET S /\ IsFiniteSet(U) BY FS_Subset
  <1>3. PICK x \in U : SumOver(w, U) # w[x] + SumOver(w, U \ {x}) OBVIOUS
  <1>4. PICK p \in U : p = FirstOf(U) BY <1>3, FirstIn
  <1>5. SumOver(w, U) = w[p] + SumOver(w, U \ {p}) BY <1>2, <1>3, <1>4, SumStep
  <1>6. p # x BY <1>3, <1>5
  <1>7. U \ {p} \notin B /\ U \ {x} \notin B BY <1>1, <1>3, <1>4
  <1>8. SumOver(w, U \ {p}) = w[x] + SumOver(w, (U \ {p}) \ {x}) BY <1>2, <1>3, <1>6, <1>7
  <1>9. SumOver(w, U \ {x}) = w[p] + SumOver(w, (U \ {x}) \ {p}) BY <1>2, <1>4, <1>6, <1>7
  <1>10. PICK V \in SUBSET U : V = (U \ {p}) \ {x} /\ V = (U \ {x}) \ {p} OBVIOUS
  <1>11. SumOver(w, V) \in Nat /\ w[p] \in Nat /\ w[x] \in Nat
    <2>1. IsFiniteSet(V) /\ \A y \in V : w[y] \in Nat BY <1>2, FS_Subset
    <2> QED BY <1>2, <2>1, SumIsNat
  <1> QED BY <1>3, <1>5, <1>8, <1>9, <1>10, <1>11

\* One more element adds its weight.
THEOREM SumAdds ==
  ASSUME NEW w, NEW S, IsFiniteSet(S), \A y \in S : w[y] \in Nat, NEW x, w[x] \in Nat, x \notin S
  PROVE  SumOver(w, S \cup {x}) = SumOver(w, S) + w[x] /\ SumOver(w, S) \in Nat
  <1>1. PICK T : T = S \cup {x} OBVIOUS
  <1>2. IsFiniteSet(T) BY <1>1, FS_AddElement
  <1>3. (\A y \in T : w[y] \in Nat) /\ x \in T /\ T \ {x} = S BY <1>1
  <1>4. SumOver(w, T) = w[x] + SumOver(w, T \ {x}) BY <1>2, <1>3, SumWithout
  <1>5. SumOver(w, S) \in Nat BY SumIsNat
  <1> QED BY <1>1, <1>3, <1>4, <1>5

\* Equal weights give equal sums.
LEMMA SumSame ==
  ASSUME NEW w, NEW v, NEW S, IsFiniteSet(S), \A x \in S : w[x] = v[x]
  PROVE  SumOver(w, S) = SumOver(v, S)
  <1> DEFINE B == {U \in SUBSET S : SumOver(w, U) # SumOver(v, U)}
  <1> SUFFICES ASSUME B # {} PROVE FALSE OBVIOUS
  <1>0. B \in SUBSET SUBSET S OBVIOUS
  <1>1. PICK U \in B : \A V \in B : V \subseteq U => V = U
    <2> HIDE DEF B
    <2> QED BY <1>0, LeastSubset
  <1>2. U \in SUBSET S /\ SumOver(w, U) # SumOver(v, U) /\ IsFiniteSet(U) BY FS_Subset
  <1>3. /\ SumOver(w, U) = IF U = {} THEN 0 ELSE w[FirstOf(U)] + SumOver(w, U \ {FirstOf(U)})
        /\ SumOver(v, U) = IF U = {} THEN 0 ELSE v[FirstOf(U)] + SumOver(v, U \ {FirstOf(U)})
    BY <1>2, SumStep
  <1>4. U # {} BY <1>2, <1>3
  <1>5. FirstOf(U) \in U /\ U \ {FirstOf(U)} # U BY <1>4, FirstIn
  <1>6. SumOver(w, U \ {FirstOf(U)}) = SumOver(v, U \ {FirstOf(U)}) BY <1>1, <1>2, <1>5
  <1>7. w[FirstOf(U)] = v[FirstOf(U)] BY <1>2, <1>5
  <1> QED BY <1>2, <1>3, <1>4, <1>6, <1>7

\* One weight is at most the sum.
LEMMA SumCovers ==
  ASSUME NEW w, NEW S, IsFiniteSet(S), \A y \in S : w[y] \in Nat, NEW x \in S
  PROVE  w[x] <= SumOver(w, S) /\ SumOver(w, S) = w[x] + SumOver(w, S \ {x})
  <1>1. PICK T : T = S \ {x} OBVIOUS
  <1>2. IsFiniteSet(T) /\ \A y \in T : w[y] \in Nat BY <1>1, FS_Subset
  <1>3. SumOver(w, T) \in Nat BY <1>2, SumIsNat
  <1>4. SumOver(w, S) = w[x] + SumOver(w, S \ {x}) BY SumWithout
  <1> QED BY <1>1, <1>3, <1>4

-----------------------------------------------------------------------------
(* The indices of stripes.                                                 *)

\* What is left over after dividing by the number of stripes is a stripe.
LEMMA ModRange ==
  ASSUME NEW a \in Nat, NEW n \in Nat \ {0}
  PROVE  a % n \in 0 .. (n - 1)
  OBVIOUS

\* The stripe of the pool a thread tries is one of the stripes.
LEMMA PoolIndexRange ==
  ASSUME NEW t \in Threads, tgt[t] \in Addr, k[t] \in Nat
  PROVE  PoolIndex(t) \in Stripes
  <1>1. AddrStripe[tgt[t]] \in Stripes BY TrackerConstants
  <1>2. AddrStripe[tgt[t]] + k[t] \in Nat BY <1>1, TrackerConstants DEF Stripes
  <1>3. NStripes \in Nat \ {0} BY TrackerConstants
  <1> QED BY <1>2, <1>3, ModRange DEF PoolIndex, Stripes

-----------------------------------------------------------------------------
(* Types.                                                                  *)

\* The state after mtt_ensure_init is typed.
LEMMA TypeInit == Init => TypeOK
  BY TrackerConstants
  DEF Init, TypeOK, SharedTypes, LocalTypes, Stripes, Entries, PCs

\* A hook that returns leaves its thread's locals typed.
LEMMA ReturnTypes ==
  ASSUME LocalTypes, app \subseteq Addr, NEW t \in Threads,
         NEW got \in SUBSET Addr, Return(t, got)
  PROVE  LocalTypes' /\ app' \subseteq Addr
  BY TrackerConstants DEF LocalTypes, Return, Goto, PCs

\* Entering a hook.
LEMMA CallTypes ==
  ASSUME TypeOK, NEW t \in Threads, CallMallocFree(t) \/ CallRealloc(t)
  PROVE  TypeOK'
  <1> USE TrackerConstants
      DEF TypeOK, SharedTypes, LocalTypes, tableVars, lockVars, poolVars, statVars
  <1>1. ASSUME NEW a \in Addr, NEW n \in Sizes, Malloc(t, a, n) PROVE TypeOK'
    BY <1>1 DEF Malloc, Begin, RawMalloc, Goto, PCs, Sizes
  <1>2. ASSUME NEW a \in Addr, NEW n \in Sizes, MallocPass(t, a, n) PROVE TypeOK'
    BY <1>2 DEF MallocPass, RawMalloc, Sizes, localVars
  <1>3. ASSUME NEW p \in Addr, Free(t, p) PROVE TypeOK'
    BY <1>3 DEF Free, Begin, Goto, PCs
  <1>4. ASSUME NEW p \in Addr, FreePass(t, p) PROVE TypeOK'
    BY <1>4 DEF FreePass, localVars
  <1>5. ASSUME NEW p \in Addr, NEW n \in Sizes, Realloc(t, p, n) PROVE TypeOK'
    BY <1>5 DEF Realloc, Begin, Goto, PCs, Sizes
  <1>6. ASSUME NEW p \in Addr, NEW a \in Addr, NEW n \in Sizes, ReallocCopy(t, p, a, n)
        PROVE  TypeOK'
    BY <1>6 DEF ReallocCopy, Begin, RawMalloc, Goto, PCs, Sizes
  <1>7. ASSUME NEW p \in Addr, NEW a \in Addr, NEW n \in Sizes, ReallocPass(t, p, a, n)
        PROVE  TypeOK'
    BY <1>7 DEF ReallocPass, Sizes, localVars
  <1> QED BY <1>1, <1>2, <1>3, <1>4, <1>5, <1>6, <1>7 DEF CallMallocFree, CallRealloc

\* The capacity checks and mtt_entry_new.
LEMMA NewTypes ==
  ASSUME TypeOK, NEW t \in Threads, OpAtPC(t), BlocksAtPC(t), RecordsAtPC(t),
         \/ \E sampled \in BOOLEAN : Track(t, sampled)
         \/ ApiUnsampled(t)
         \/ ReCapacity(t) \/ PoolHead(t) \/ PoolSkip(t) \/ PoolUnlink(t)
         \/ RawNew(t) \/ GiveUp(t)
  PROVE  TypeOK'
  <1> USE TrackerConstants DEF tableVars, lockVars
  <1>1. ASSUME NEW sampled \in BOOLEAN, Track(t, sampled) PROVE TypeOK'
    <2>1. tgt[t] \in Addr BY <1>1 DEF Track, OpAtPC, BlocksAtPC
    <2>2. LocalTypes' /\ app' \subseteq Addr
      <3>1. CASE sampled /\ ~OverCapacity
        BY <1>1, <3>1 DEF Track, TypeOK, SharedTypes, LocalTypes, Goto, PCs, localVars
      <3>2. CASE ~(sampled /\ ~OverCapacity)
        BY <1>1, <2>1, <3>2, ReturnTypes DEF Track, TypeOK, SharedTypes
      <3> QED BY <3>1, <3>2
    <2> QED BY <1>1, <2>2 DEF Track, TypeOK, SharedTypes, OverCapacity, poolVars
  <1>2. CASE ReCapacity(t)
    <2>1. tgt[t] \in Addr BY <1>2 DEF ReCapacity, OpAtPC, BlocksAtPC
    <2>2. LocalTypes' /\ app' \subseteq Addr
      <3>1. CASE OverCapacity
        BY <1>2, <2>1, <3>1, ReturnTypes DEF ReCapacity, TypeOK, SharedTypes
      <3>2. CASE ~OverCapacity
        BY <1>2, <3>2 DEF ReCapacity, TypeOK, SharedTypes, LocalTypes, Goto, PCs, localVars
      <3> QED BY <3>1, <3>2
    <2> QED BY <1>2, <2>2 DEF ReCapacity, TypeOK, SharedTypes, OverCapacity, poolVars
  <1>3. CASE PoolHead(t)
    <2>1. tgt[t] \in Addr BY <1>3 DEF PoolHead, OpAtPC, BlocksAtPC
    <2>2. PoolIndex(t) \in Stripes BY <2>1, PoolIndexRange DEF TypeOK, LocalTypes
    <2>3. LocalTypes'
      <3>1. CASE pool_free_lists[PoolIndex(t)] = {}
        BY <1>3, <3>1 DEF PoolHead, TypeOK, LocalTypes
      <3>2. CASE pool_free_lists[PoolIndex(t)] # {}
        <4>1. PICK e \in pool_free_lists[PoolIndex(t)] : ent' = [ent EXCEPT ![t] = e]
          BY <1>3, <3>2 DEF PoolHead
        <4>2. e \in Entries BY <2>2, <4>1 DEF TypeOK, SharedTypes
        <4> QED BY <1>3, <3>2, <4>1, <4>2 DEF PoolHead, TypeOK, LocalTypes, Goto, PCs
      <3> QED BY <3>1, <3>2
    <2>4. SharedTypes'
      <3>1. pool_locks' \in [Stripes -> Threads \cup {NoThread}]
        BY <1>3, <2>2 DEF PoolHead, PoolLock, TypeOK, SharedTypes
      <3> QED BY <1>3, <3>1 DEF PoolHead, TypeOK, SharedTypes, libcVars, poolVars, statVars
    <2> QED BY <2>3, <2>4 DEF TypeOK
  <1>4. CASE PoolSkip(t)
    BY <1>4 DEF PoolSkip, TypeOK, SharedTypes, LocalTypes, libcVars, poolVars, statVars
  <1>5. CASE PoolUnlink(t)
    <2>1. ent[t] \in Entries /\ tgt[t] \in Addr
      BY <1>5 DEF PoolUnlink, OpAtPC, BlocksAtPC, RecordsAtPC, HasNew
    <2>2. pc' \in [Threads -> PCs] BY <1>5 DEF PoolUnlink, Fill, Goto, PCs, TypeOK, LocalTypes
    <2>3. LocalTypes'
      <3>1. k' \in [Threads -> 0 .. NStripes] BY <1>5 DEF PoolUnlink, TypeOK, LocalTypes
      <3>2. ent' \in [Threads -> Entries \cup {NoEntry}]
        BY <1>5, <2>1 DEF PoolUnlink, Fill, TypeOK, LocalTypes
      <3> QED BY <1>5, <2>2, <3>1, <3>2 DEF PoolUnlink, TypeOK, LocalTypes
    <2>4. SharedTypes'
      <3>1. pool_free_lists' \in [Stripes -> SUBSET Entries]
            /\ pool_locks' \in [Stripes -> Threads \cup {NoThread}]
        BY <1>5 DEF PoolUnlink, PoolUnlock, TypeOK, SharedTypes
      <3>2. /\ eptr' \in [Entries -> Addr \cup {NoAddr}]
            /\ esize' \in [Entries -> 0 .. MaxSize] /\ enum' \in [Entries -> Nat]
        BY <1>5, <2>1 DEF PoolUnlink, Fill, TypeOK, SharedTypes, LocalTypes
      <3> QED BY <1>5, <3>1, <3>2 DEF PoolUnlink, TypeOK, SharedTypes, libcVars, statVars
    <2> QED BY <2>3, <2>4 DEF TypeOK
  <1>6. CASE RawNew(t)
    <2>1. tgt[t] \in Addr BY <1>6 DEF RawNew, OpAtPC, BlocksAtPC
    <2>2. PICK e \in raw_entries : raw_entries' = raw_entries \ {e} /\ Fill(t, e)
      BY <1>6 DEF RawNew
    <2>3. e \in Entries BY <2>2 DEF TypeOK, SharedTypes
    <2>4. pc' \in [Threads -> PCs] BY <2>2 DEF Fill, Goto, PCs, TypeOK, LocalTypes
    <2>5. LocalTypes'
      BY <1>6, <2>2, <2>3, <2>4 DEF RawNew, Fill, TypeOK, LocalTypes
    <2>6. SharedTypes'
      BY <1>6, <2>1, <2>2, <2>3 DEF RawNew, Fill, TypeOK, SharedTypes, LocalTypes,
         libcVars, statVars
    <2> QED BY <2>5, <2>6 DEF TypeOK
  <1>7. CASE GiveUp(t)
    <2>1. tgt[t] \in Addr BY <1>7 DEF GiveUp, OpAtPC, BlocksAtPC
    <2>2. LocalTypes' /\ app' \subseteq Addr
      <3>1. CASE op[t] = "copy"
        <4>1. old[t] \in Addr BY <3>1 DEF BlocksAtPC
        <4> QED BY <1>7, <3>1, <4>1, ReturnTypes DEF GiveUp, TypeOK, SharedTypes
      <3>2. CASE op[t] # "copy"
        BY <1>7, <2>1, <3>2, ReturnTypes DEF GiveUp, TypeOK, SharedTypes
      <3> QED BY <3>1, <3>2
    <2>3. heap' \in [Addr -> 0 .. MaxSize]
      <3>1. CASE op[t] = "copy"
        <4>1. heap' = [heap EXCEPT ![tgt[t]] = 0] BY <1>7, <3>1 DEF GiveUp
        <4> QED BY <4>1, <2>1 DEF TypeOK, SharedTypes
      <3>2. CASE op[t] # "copy" BY <1>7, <3>2 DEF GiveUp, TypeOK, SharedTypes
      <3> QED BY <3>1, <3>2
    <2>4. UNCHANGED <<lib, ops, tableVars, lockVars, poolVars, statVars>> BY <1>7 DEF GiveUp
    <2>5. SharedTypes'
      BY <2>2, <2>3, <2>4 DEF TypeOK, SharedTypes, poolVars, statVars
    <2> QED BY <2>2, <2>5 DEF TypeOK
  <1>8. CASE ApiUnsampled(t)
    <2>1. tgt[t] \in Addr BY <1>8 DEF ApiUnsampled, OpAtPC, BlocksAtPC
    <2>2. LocalTypes' /\ app' \subseteq Addr
      BY <1>8, <2>1, ReturnTypes DEF ApiUnsampled, TypeOK, SharedTypes
    <2> QED BY <1>8, <2>2 DEF ApiUnsampled, TypeOK, SharedTypes, poolVars, statVars
  <1> QED BY <1>8, <1>1, <1>2, <1>3, <1>4, <1>5, <1>6, <1>7

\* Inserting a record.
LEMMA InsertTypes ==
  ASSUME TypeOK, NEW t \in Threads, OpAtPC(t), BlocksAtPC(t), RecordsAtPC(t),
         InsLock(t) \/ InsBytes(t) \/ InsPeak(t) \/ InsMax(t) \/ InsAdd(t)
  PROVE  TypeOK'
  <1> USE TrackerConstants DEF tableVars, lockVars, poolVars, libcVars
  <1>1. CASE InsLock(t)
    <2>1. ent[t] \in Entries BY <1>1 DEF InsLock, RecordsAtPC, HasNew, InsPCs
    <2>2. LocalTypes'
      <3>1. CASE OverCapacity
        <4>1. pc' \in [Threads -> PCs] /\ discard' \in [Threads -> BOOLEAN]
          BY <1>1, <3>1 DEF InsLock, Goto, PCs, TypeOK, LocalTypes
        <4>2. /\ ent' \in [Threads -> Entries \cup {NoEntry}]
              /\ dead' \in [Threads -> Entries \cup {NoEntry}]
          BY <1>1, <2>1, <3>1 DEF InsLock, TypeOK, LocalTypes
        <4> QED BY <1>1, <4>1, <4>2 DEF InsLock, TypeOK, LocalTypes
      <3>2. CASE ~OverCapacity
        BY <1>1, <2>1, <3>2 DEF InsLock, Goto, PCs, TypeOK, LocalTypes
      <3> QED BY <3>1, <3>2
    <2>3. bucket_locks' \in [Stripes -> Threads \cup {NoThread}]
      BY <1>1 DEF InsLock, StripeLock, TypeOK, SharedTypes
    <2>4. /\ eptr' \in [Entries -> Addr \cup {NoAddr}]
          /\ esize' \in [Entries -> 0 .. MaxSize] /\ enum' \in [Entries -> Nat]
      <3>1. CASE OverCapacity
        <4>1. Wipe(ent[t]) BY <1>1, <3>1 DEF InsLock
        <4>2. 0 \in 0 .. MaxSize /\ 0 \in Nat OBVIOUS
        <4>3. SharedTypes BY DEF TypeOK
        <4>4. eptr' \in [Entries -> Addr \cup {NoAddr}]
          BY <2>1, <4>1, <4>3 DEF Wipe, SharedTypes
        <4>5. esize' \in [Entries -> 0 .. MaxSize]
          BY <2>1, <4>1, <4>2, <4>3 DEF Wipe, SharedTypes
        <4>6. enum' \in [Entries -> Nat]
          BY <2>1, <4>1, <4>2, <4>3 DEF Wipe, SharedTypes
        <4> QED BY <4>4, <4>5, <4>6
      <3>2. CASE ~OverCapacity
        <4>1. /\ enum' = [enum EXCEPT ![ent[t]] = alloc_seq + 1]
              /\ UNCHANGED <<eptr, esize>>
          BY <1>1, <3>2 DEF InsLock
        <4> QED BY <2>1, <4>1 DEF TypeOK, SharedTypes
      <3> QED BY <3>1, <3>2
    <2>5. alloc_seq' \in Nat /\ skipped_overcap' \in Nat
      BY <1>1 DEF InsLock, TypeOK, SharedTypes
    <2>6. SharedTypes'
      BY <1>1, <2>3, <2>4, <2>5 DEF InsLock, TypeOK, SharedTypes
    <2> QED BY <2>2, <2>6 DEF TypeOK
  <1>2. CASE InsBytes(t)
    BY <1>2 DEF InsBytes, Goto, PCs, TypeOK, SharedTypes, LocalTypes, localVars
  <1>3. CASE InsPeak(t)
    BY <1>3 DEF InsPeak, Goto, PCs, TypeOK, SharedTypes, LocalTypes, statVars
  <1>4. CASE InsMax(t)
    BY <1>4 DEF InsMax, Goto, PCs, TypeOK, SharedTypes, LocalTypes, localVars
  <1>5. CASE InsAdd(t)
    <2>1. ent[t] \in Entries /\ tgt[t] \in Addr
      BY <1>5 DEF InsAdd, OpAtPC, BlocksAtPC, RecordsAtPC, HasNew, InsPCs
    <2>2. LocalTypes' /\ app' \subseteq Addr
      <3>1. CASE op[t] = "copy"
        <4>1. LocalTypes' BY <1>5, <3>1 DEF InsAdd, Goto, PCs, TypeOK, LocalTypes
        <4> QED BY <1>5, <3>1, <4>1 DEF InsAdd, TypeOK, SharedTypes
      <3>2. CASE op[t] # "copy"
        BY <1>5, <2>1, <3>2, ReturnTypes DEF InsAdd, TypeOK, SharedTypes
      <3> QED BY <3>1, <3>2
    <2>3. buckets' \in [Stripes -> SUBSET Entries]
      BY <1>5, <2>1 DEF InsAdd, TypeOK, SharedTypes
    <2> QED BY <1>5, <2>1, <2>2, <2>3 DEF InsAdd, StripeUnlock, TypeOK, SharedTypes
  <1> QED BY <1>1, <1>2, <1>3, <1>4, <1>5

\* Deleting a record.
LEMMA DeleteTypes ==
  ASSUME TypeOK, NEW t \in Threads, OpAtPC(t), BlocksAtPC(t), RecordsAtPC(t),
         DelLock(t) \/ DelSub(t) \/ DelUnlink(t)
  PROVE  TypeOK'
  <1> USE TrackerConstants DEF lockVars, poolVars, libcVars
  <1>o. old[t] \in Addr BY DEF DelLock, DelSub, DelUnlink, OpAtPC, BlocksAtPC, DelPCs
  <1>m. mtt_entry_find(old[t]) \subseteq Entries
    BY <1>o DEF mtt_entry_find, Matches, TypeOK, SharedTypes
  <1>1. CASE DelLock(t)
    <2>1. LocalTypes'
      <3>1. CASE Matches(old[t]) = {}
        BY <1>1, <3>1 DEF DelLock, AfterDelete, Goto, PCs, TypeOK, LocalTypes
      <3>2. CASE Matches(old[t]) # {}
        <4>1. PICK e \in mtt_entry_find(old[t]) : dead' = [dead EXCEPT ![t] = e]
          BY <1>1, <3>2 DEF DelLock
        <4>2. dead' \in [Threads -> Entries \cup {NoEntry}]
          BY <1>m, <4>1 DEF TypeOK, LocalTypes
        <4> QED BY <1>1, <3>2, <4>2 DEF DelLock, Goto, PCs, TypeOK, SharedTypes, LocalTypes
      <3> QED BY <3>1, <3>2
    <2>2. SharedTypes'
      BY <1>1 DEF DelLock, StripeLock, TypeOK, SharedTypes, tableVars, statVars
    <2> QED BY <2>1, <2>2 DEF TypeOK
  <1>2. CASE DelSub(t)
    <2>1. dead[t] \in Entries BY <1>2 DEF DelSub, RecordsAtPC, HasDead
    <2> QED BY <1>2, <2>1 DEF DelSub, Goto, PCs, TypeOK, SharedTypes, LocalTypes,
               tableVars, localVars
  <1>3. CASE DelUnlink(t)
    <2>1. PICK e \in mtt_entry_find(old[t]) :
            /\ buckets' = [buckets EXCEPT ![AddrStripe[old[t]]] = @ \ {e}]
            /\ dead' = [dead EXCEPT ![t] = e]
            /\ Wipe(e)
      BY <1>3 DEF DelUnlink
    <2>2. e \in Entries BY <1>m, <2>1
    <2>3. LocalTypes'
      BY <1>3, <2>1, <2>2 DEF DelUnlink, Goto, PCs, TypeOK, LocalTypes
    <2>4. SharedTypes'
      <3>1. /\ eptr' \in [Entries -> Addr \cup {NoAddr}]
            /\ esize' \in [Entries -> 0 .. MaxSize] /\ enum' \in [Entries -> Nat]
        BY <2>1, <2>2 DEF Wipe, TypeOK, SharedTypes
      <3>2. buckets' \in [Stripes -> SUBSET Entries] BY <2>1 DEF TypeOK, SharedTypes
      <3> QED BY <1>3, <3>1, <3>2 DEF DelUnlink, TypeOK, SharedTypes
    <2> QED BY <2>3, <2>4 DEF TypeOK
  <1> QED BY <1>1, <1>2, <1>3

\* The steps after a record is back.
LEMMA AfterReturnTypes ==
  ASSUME TypeOK, NEW t \in Threads, OpAtPC(t), BlocksAtPC(t), pc[t] \in RetPCs,
         AfterReturn(t)
  PROVE  LocalTypes' /\ app' \subseteq Addr
         /\ bucket_locks' \in [Stripes -> Threads \cup {NoThread}]
  <1> USE TrackerConstants
  <1>1. CASE discard[t] /\ op[t] = "copy"
    <2>1. /\ Goto(t, "rawfree")
          /\ dead' = [dead EXCEPT ![t] = NoEntry]
          /\ discard' = [discard EXCEPT ![t] = FALSE]
          /\ UNCHANGED <<bucket_locks, app, op, old, tgt, size, ent, k, cur, found>>
      BY <1>1 DEF AfterReturn
    <2>2. LocalTypes' BY <2>1 DEF Goto, PCs, TypeOK, LocalTypes
    <2> QED BY <2>1, <2>2 DEF TypeOK, SharedTypes
  <1>2. CASE discard[t] /\ op[t] # "copy"
    <2>1. tgt[t] \in Addr BY <1>2 DEF OpAtPC, BlocksAtPC, RetPCs
    <2>2. Return(t, {tgt[t]}) BY <1>2 DEF AfterReturn
    <2>3. LocalTypes' /\ app' \subseteq Addr
      BY <2>1, <2>2, ReturnTypes DEF TypeOK, SharedTypes
    <2> QED BY <1>2, <2>3 DEF AfterReturn, StripeUnlock, TypeOK, SharedTypes
  <1>3. CASE ~discard[t]
    <2>1. AfterDelete(t) \in PCs BY DEF AfterDelete, PCs
    <2>2. /\ StripeUnlock(old[t])
          /\ Goto(t, AfterDelete(t))
          /\ dead' = [dead EXCEPT ![t] = NoEntry]
          /\ cur'  = [cur  EXCEPT ![t] = 0]
          /\ UNCHANGED <<app, op, old, tgt, size, ent, k, found, discard>>
      BY <1>3 DEF AfterReturn
    <2>3. LocalTypes' BY <2>1, <2>2 DEF Goto, TypeOK, LocalTypes
    <2> QED BY <2>2, <2>3 DEF StripeUnlock, TypeOK, SharedTypes
  <1> QED BY <1>1, <1>2, <1>3

\* Giving a record back, and raw_free.
LEMMA GiveBackTypes ==
  ASSUME TypeOK, NEW t \in Threads, OpAtPC(t), BlocksAtPC(t), RecordsAtPC(t),
         RetLock(t) \/ RetPush(t) \/ RetUsed(t) \/ RetRaw(t) \/ RawFree(t)
  PROVE  TypeOK'
  <1> USE TrackerConstants DEF tableVars
  <1>d. pc[t] \in RetPCs => dead[t] \in Entries BY DEF RecordsAtPC, HasDead
  <1>1. CASE RetLock(t)
    BY <1>1 DEF RetLock, PoolLock, Goto, PCs, TypeOK, SharedTypes, LocalTypes,
       libcVars, poolVars, statVars, localVars
  <1>2. CASE RetPush(t)
    <2>1. dead[t] \in Entries BY <1>2, <1>d DEF RetPush, RetPCs
    <2> QED BY <1>2, <2>1 DEF RetPush, PoolUnlock, Goto, PCs, TypeOK, SharedTypes,
               LocalTypes, libcVars, statVars, localVars
  <1>3. CASE RetUsed(t)
    <2>1. LocalTypes' /\ app' \subseteq Addr
          /\ bucket_locks' \in [Stripes -> Threads \cup {NoThread}]
      BY <1>3, AfterReturnTypes DEF RetUsed, RetPCs
    <2> QED BY <1>3, <2>1 DEF RetUsed, TypeOK, SharedTypes, statVars
  <1>4. CASE RetRaw(t)
    <2>1. LocalTypes' /\ app' \subseteq Addr
          /\ bucket_locks' \in [Stripes -> Threads \cup {NoThread}]
      BY <1>4, AfterReturnTypes DEF RetRaw, RetPCs
    <2>2. dead[t] \in Entries BY <1>4, <1>d DEF RetRaw, RetPCs
    <2> QED BY <1>4, <2>1, <2>2 DEF RetRaw, TypeOK, SharedTypes, statVars
  <1>5. CASE RawFree(t)
    <2>1. op[t] = "free" \/ tgt[t] \in Addr BY <1>5 DEF RawFree, OpAtPC, BlocksAtPC
    <2>2. LocalTypes' /\ app' \subseteq Addr
      <3>1. CASE op[t] = "free"
        BY <1>5, <3>1, ReturnTypes DEF RawFree, TypeOK, SharedTypes
      <3>2. CASE op[t] # "free"
        BY <1>5, <2>1, <3>2, ReturnTypes DEF RawFree, TypeOK, SharedTypes
      <3> QED BY <3>1, <3>2
    <2>3. heap' = [heap EXCEPT ![old[t]] = 0] BY <1>5 DEF RawFree
    <2>4. heap' \in [Addr -> 0 .. MaxSize]
      <3>1. 0 \in 0 .. MaxSize OBVIOUS
      <3>2. heap \in [Addr -> 0 .. MaxSize] BY DEF TypeOK, SharedTypes
      <3> QED BY <2>3, <3>1, <3>2
    <2> QED BY <1>5, <2>2, <2>4 DEF RawFree, TypeOK, SharedTypes, lockVars, poolVars, statVars
  <1> QED BY <1>1, <1>2, <1>3, <1>4, <1>5

\* The steps only realloc takes.
LEMMA ReallocTypes ==
  ASSUME TypeOK, NEW t \in Threads, OpAtPC(t), BlocksAtPC(t), ReallocStep(t)
  PROVE  TypeOK'
  <1> USE TrackerConstants DEF tableVars, lockVars, poolVars, statVars
  <1>1. CASE ReFind(t)
    BY <1>1 DEF ReFind, Goto, PCs, TypeOK, SharedTypes, LocalTypes, libcVars
  <1>2. CASE ReFail(t)
    <2>1. old[t] \in Addr BY <1>2 DEF ReFail, OpAtPC, BlocksAtPC
    <2>2. LocalTypes' /\ app' \subseteq Addr
      BY <1>2, <2>1, ReturnTypes DEF ReFail, TypeOK, SharedTypes
    <2> QED BY <1>2, <2>2 DEF ReFail, TypeOK, SharedTypes
  <1>3. ASSUME NEW a \in Addr, ReRaw(t, a) PROVE TypeOK'
    <2>1. LocalTypes' /\ app' \subseteq Addr
      <3>1. CASE found[t]
        <4>1. /\ tgt' = [tgt EXCEPT ![t] = a]
              /\ Goto(t, "del_lock")
              /\ UNCHANGED <<app, op, old, size, ent, dead, k, cur, found, discard>>
          BY <1>3, <3>1 DEF ReRaw
        <4> QED BY <4>1 DEF Goto, PCs, TypeOK, SharedTypes, LocalTypes
      <3>2. CASE ~found[t]
        BY <1>3, <3>2, ReturnTypes DEF ReRaw, TypeOK, SharedTypes
      <3> QED BY <3>1, <3>2
    <2> QED BY <1>3, <2>1 DEF ReRaw, TypeOK, SharedTypes, LocalTypes
  <1> QED BY <1>1, <1>2, <1>3 DEF ReallocStep

\* Every step of every hook keeps the types.
LEMMA TypeStep ==
  ASSUME TypeOK, LocalsInv, [Next]_vars
  PROVE  TypeOK'
  <1>1. CASE UNCHANGED vars
    BY <1>1 DEF vars, libcVars, tableVars, lockVars, poolVars, statVars, localVars,
       TypeOK, SharedTypes, LocalTypes
  <1>2. ASSUME NEW t \in Threads,
               Step(t) \/ CallMallocFree(t) \/ ReallocStep(t) \/ CallRealloc(t)
        PROVE  TypeOK'
    <2>1. OpAtPC(t) /\ BlocksAtPC(t) /\ RecordsAtPC(t) BY DEF LocalsInv
    <2> QED BY <1>2, <2>1, CallTypes, NewTypes, InsertTypes, DeleteTypes, GiveBackTypes,
               ReallocTypes DEF Step
  <1> QED BY <1>1, <1>2 DEF Next

-----------------------------------------------------------------------------
(* A step of one thread leaves the locals of the others alone.             *)

SameLocals(u) ==
  /\ pc'[u] = pc[u] /\ op'[u] = op[u] /\ old'[u] = old[u] /\ tgt'[u] = tgt[u]
  /\ ent'[u] = ent[u] /\ dead'[u] = dead[u] /\ k'[u] = k[u]
  /\ discard'[u] = discard[u]

\* A hook that returns touches only its own thread's locals.
LEMMA ReturnFrame ==
  ASSUME LocalTypes, NEW t \in Threads, NEW got, Return(t, got)
  PROVE  \A u \in Threads \ {t} : SameLocals(u)
  BY DEF LocalTypes, Return, Goto, SameLocals

\* Every step of a thread leaves the locals of the other threads alone.
LEMMA LocalFrame ==
  ASSUME LocalTypes, NEW t \in Threads,
         Step(t) \/ CallMallocFree(t) \/ ReallocStep(t) \/ CallRealloc(t),
         NEW u \in Threads \ {t}
  PROVE  SameLocals(u)
  <1> USE DEF LocalTypes, SameLocals, Goto, localVars
  <1>1. ASSUME NEW sampled \in BOOLEAN, Track(t, sampled) PROVE SameLocals(u)
    BY <1>1, ReturnFrame DEF Track
  <1>2. CASE ReCapacity(t) BY <1>2, ReturnFrame DEF ReCapacity
  <1>3. CASE PoolHead(t) BY <1>3 DEF PoolHead
  <1>4. CASE PoolSkip(t) BY <1>4 DEF PoolSkip
  <1>5. CASE PoolUnlink(t) BY <1>5 DEF PoolUnlink, Fill
  <1>6. CASE RawNew(t) BY <1>6 DEF RawNew, Fill
  <1>7. CASE GiveUp(t) BY <1>7, ReturnFrame DEF GiveUp
  <1>8. CASE InsLock(t) BY <1>8 DEF InsLock
  <1>9. CASE InsBytes(t) BY <1>9 DEF InsBytes
  <1>10. CASE InsPeak(t) BY <1>10 DEF InsPeak
  <1>11. CASE InsMax(t) BY <1>11 DEF InsMax
  <1>12. CASE InsAdd(t) BY <1>12, ReturnFrame DEF InsAdd
  <1>13. CASE DelLock(t) BY <1>13 DEF DelLock
  <1>14. CASE DelSub(t) BY <1>14 DEF DelSub
  <1>15. CASE DelUnlink(t) BY <1>15 DEF DelUnlink
  <1>16. CASE RetLock(t) BY <1>16 DEF RetLock
  <1>17. CASE RetPush(t) BY <1>17 DEF RetPush
  <1>a. AfterReturn(t) => SameLocals(u) BY ReturnFrame DEF AfterReturn
  <1>18. CASE RetUsed(t) \/ RetRaw(t) BY <1>18, <1>a DEF RetUsed, RetRaw
  <1>19. CASE RawFree(t) BY <1>19, ReturnFrame DEF RawFree
  <1>20. ASSUME NEW a \in Addr, NEW n \in Sizes, Malloc(t, a, n) \/ MallocPass(t, a, n)
         PROVE  SameLocals(u)
    BY <1>20 DEF Malloc, MallocPass, Begin
  <1>21. ASSUME NEW p \in Addr, Free(t, p) \/ FreePass(t, p) PROVE SameLocals(u)
    BY <1>21 DEF Free, FreePass, Begin
  <1>22. ASSUME NEW p \in Addr, NEW n \in Sizes, Realloc(t, p, n) PROVE SameLocals(u)
    BY <1>22 DEF Realloc, Begin
  <1>23. ASSUME NEW p \in Addr, NEW a \in Addr, NEW n \in Sizes,
                ReallocCopy(t, p, a, n) \/ ReallocPass(t, p, a, n)
         PROVE  SameLocals(u)
    BY <1>23 DEF ReallocCopy, ReallocPass, Begin
  <1>24. CASE ReFind(t) BY <1>24 DEF ReFind
  <1>25. CASE ReFail(t) BY <1>25, ReturnFrame DEF ReFail
  <1>26. ASSUME NEW a \in Addr, ReRaw(t, a) PROVE SameLocals(u)
    BY <1>26, ReturnFrame DEF ReRaw
  <1>27. CASE ApiUnsampled(t) BY <1>27, ReturnFrame DEF ApiUnsampled
  <1>s. Step(t) => SameLocals(u)
    BY <1>27, <1>1, <1>2, <1>3, <1>4, <1>5, <1>6, <1>7, <1>8, <1>9, <1>10, <1>11, <1>12, <1>13,
       <1>14, <1>15, <1>16, <1>17, <1>18, <1>19 DEF Step
  <1>c. CallMallocFree(t) \/ CallRealloc(t) => SameLocals(u)
    BY <1>20, <1>21, <1>22, <1>23 DEF CallMallocFree, CallRealloc
  <1>r. ReallocStep(t) => SameLocals(u) BY <1>24, <1>25, <1>26 DEF ReallocStep
  <1> QED BY <1>s, <1>c, <1>r

-----------------------------------------------------------------------------
(* The locals of the thread that moves.                                    *)

LocalOK(t) == OpAtPC(t) /\ BlocksAtPC(t) /\ RecordsAtPC(t) /\ Filled(t)

\* What LocalOK of the next state depends on.
LEMMA ReturnLocals ==
  ASSUME LocalTypes, NEW t \in Threads, NEW got, Return(t, got)
  PROVE  LocalOK(t)'
  <1>1. /\ pc'[t] = "idle" /\ op'[t] = "none" /\ ent'[t] = NoEntry
        /\ dead'[t] = NoEntry /\ ~discard'[t]
    BY DEF LocalTypes, Return, Goto
  <1> QED BY <1>1 DEF LocalOK, OpAtPC, BlocksAtPC, RecordsAtPC, Filled, HasNew, HasDead,
             InsPCs, DelPCs, RetPCs

\* Entering malloc, free or realloc sets up the locals of the hook's first step.
LEMMA CallLocals ==
  ASSUME TypeOK, NEW t \in Threads, LocalOK(t), CallMallocFree(t) \/ CallRealloc(t)
  PROVE  LocalOK(t)'
  <1> USE DEF LocalOK, OpAtPC, BlocksAtPC, RecordsAtPC, Filled, HasNew, HasDead,
          InsPCs, DelPCs, RetPCs, TypeOK, LocalTypes
  <1>1. ASSUME NEW a \in Addr, NEW n \in Sizes, Malloc(t, a, n) PROVE LocalOK(t)'
    BY <1>1 DEF Malloc, Begin, Goto
  <1>2. ASSUME NEW a \in Addr, NEW n \in Sizes, MallocPass(t, a, n) PROVE LocalOK(t)'
    BY <1>2 DEF MallocPass, tableVars, localVars
  <1>3. ASSUME NEW p \in Addr, Free(t, p) PROVE LocalOK(t)'
    BY <1>3 DEF Free, Begin, Goto
  <1>4. ASSUME NEW p \in Addr, FreePass(t, p) PROVE LocalOK(t)'
    BY <1>4 DEF FreePass, tableVars, localVars
  <1>5. ASSUME NEW p \in Addr, NEW n \in Sizes, Realloc(t, p, n) PROVE LocalOK(t)'
    BY <1>5 DEF Realloc, Begin, Goto
  <1>6. ASSUME NEW p \in Addr, NEW a \in Addr, NEW n \in Sizes, ReallocCopy(t, p, a, n)
        PROVE  LocalOK(t)'
    BY <1>6 DEF ReallocCopy, Begin, Goto
  <1>7. ASSUME NEW p \in Addr, NEW a \in Addr, NEW n \in Sizes, ReallocPass(t, p, a, n)
        PROVE  LocalOK(t)'
    BY <1>7 DEF ReallocPass, tableVars, localVars
  <1> QED BY <1>1, <1>2, <1>3, <1>4, <1>5, <1>6, <1>7 DEF CallMallocFree, CallRealloc

\* mtt_entry_new hands over a record that describes the new block.
LEMMA FillLocals ==
  ASSUME TypeOK, NEW t \in Threads, LocalOK(t), pc[t] \in {"new", "unlink"},
         NEW e \in Entries, Fill(t, e),
         UNCHANGED <<op, old, tgt, dead, discard>>
  PROVE  LocalOK(t)'
  <1>1. ent'[t] = e /\ eptr'[e] = tgt[t]
    BY DEF Fill, TypeOK, SharedTypes, LocalTypes
  <1>2. pc'[t] = IF op[t] = "copy" THEN "del_lock" ELSE "ins_lock"
    BY DEF Fill, Goto, TypeOK, LocalTypes
  <1>3. dead[t] = NoEntry /\ op[t] \in {"malloc", "realloc", "copy"} /\ ~discard[t]
        /\ tgt[t] \in Addr /\ (op[t] # "malloc" => old[t] \in Addr)
    BY DEF LocalOK, OpAtPC, BlocksAtPC, RecordsAtPC, HasDead, RetPCs
  <1>4. OpAtPC(t)' /\ BlocksAtPC(t)'
    BY <1>2, <1>3 DEF OpAtPC, BlocksAtPC, InsPCs, DelPCs, RetPCs
  <1>5. RecordsAtPC(t)' /\ Filled(t)'
    BY <1>1, <1>2, <1>3 DEF RecordsAtPC, Filled, HasNew, HasDead, InsPCs, DelPCs, RetPCs
  <1> QED BY <1>4, <1>5 DEF LocalOK

\* The capacity checks and mtt_entry_new keep the thread's part of the invariant.
LEMMA NewLocals ==
  ASSUME TypeOK, NEW t \in Threads, LocalOK(t),
         \/ \E sampled \in BOOLEAN : Track(t, sampled)
         \/ ApiUnsampled(t)
         \/ ReCapacity(t) \/ PoolHead(t) \/ PoolSkip(t) \/ PoolUnlink(t)
         \/ RawNew(t) \/ GiveUp(t)
  PROVE  LocalOK(t)'
  <1> USE DEF TypeOK
  <1>1. ASSUME NEW sampled \in BOOLEAN, Track(t, sampled) PROVE LocalOK(t)'
    <2>1. CASE sampled /\ ~OverCapacity
      BY <1>1, <2>1 DEF Track, Goto, LocalTypes, localVars, tableVars, LocalOK, OpAtPC,
         BlocksAtPC, RecordsAtPC, Filled, HasNew, HasDead, InsPCs, DelPCs, RetPCs
    <2>2. CASE ~(sampled /\ ~OverCapacity) BY <1>1, <2>2, ReturnLocals DEF Track
    <2> QED BY <2>1, <2>2
  <1>2. CASE ReCapacity(t)
    <2>1. CASE ~OverCapacity
      BY <1>2, <2>1 DEF ReCapacity, Goto, LocalTypes, localVars, tableVars, LocalOK, OpAtPC,
         BlocksAtPC, RecordsAtPC, Filled, HasNew, HasDead, InsPCs, DelPCs, RetPCs
    <2>2. CASE OverCapacity BY <1>2, <2>2, ReturnLocals DEF ReCapacity
    <2> QED BY <2>1, <2>2
  <1>3. CASE PoolHead(t)
    <2>1. CASE pool_free_lists[PoolIndex(t)] = {}
      BY <1>3, <2>1 DEF PoolHead, LocalTypes, tableVars, LocalOK, OpAtPC,
         BlocksAtPC, RecordsAtPC, Filled, HasNew, HasDead, InsPCs, DelPCs, RetPCs
    <2>2. CASE pool_free_lists[PoolIndex(t)] # {}
      <3>1. tgt[t] \in Addr BY <1>3 DEF PoolHead, LocalOK, OpAtPC, BlocksAtPC
      <3>2. PoolIndex(t) \in Stripes BY <3>1, TrackerConstants, PoolIndexRange DEF LocalTypes
      <3>3. ent'[t] \in Entries BY <1>3, <2>2, <3>2 DEF PoolHead, SharedTypes, LocalTypes
      <3> QED
        BY <1>3, <2>2, <3>3 DEF PoolHead, Goto, LocalTypes, poolVars, LocalOK, OpAtPC,
           BlocksAtPC, RecordsAtPC, Filled, HasNew, HasDead, InsPCs, DelPCs, RetPCs
    <2> QED BY <2>1, <2>2
  <1>4. CASE PoolSkip(t)
    BY <1>4 DEF PoolSkip, LocalTypes, tableVars, LocalOK, OpAtPC,
       BlocksAtPC, RecordsAtPC, Filled, HasNew, HasDead, InsPCs, DelPCs, RetPCs
  <1>5. CASE PoolUnlink(t)
    <2>1. ent[t] \in Entries BY <1>5 DEF PoolUnlink, LocalOK, RecordsAtPC, HasNew
    <2> QED BY <1>5, <2>1, FillLocals DEF PoolUnlink
  <1>6. CASE RawNew(t) BY <1>6, FillLocals DEF RawNew, SharedTypes
  <1>7. CASE GiveUp(t) BY <1>7, ReturnLocals DEF GiveUp
  <1>8. CASE ApiUnsampled(t) BY <1>8, ReturnLocals DEF ApiUnsampled
  <1> QED BY <1>8, <1>1, <1>2, <1>3, <1>4, <1>5, <1>6, <1>7

\* So do the steps that count and insert a record,
LEMMA InsertLocals ==
  ASSUME TypeOK, NEW t \in Threads, LocalOK(t),
         InsLock(t) \/ InsBytes(t) \/ InsPeak(t) \/ InsMax(t) \/ InsAdd(t)
  PROVE  LocalOK(t)'
  <1> USE DEF TypeOK, LocalTypes, Goto, tableVars, localVars
  <1>1. CASE InsLock(t)
    <2>1. ent[t] \in Entries BY <1>1 DEF InsLock, LocalOK, RecordsAtPC, HasNew, InsPCs
    <2>2. CASE OverCapacity
      <3>1. /\ pc'[t] = "ret_lock" /\ dead'[t] = ent[t] /\ ent'[t] = NoEntry
            /\ discard'[t] /\ op'[t] = op[t] /\ old'[t] = old[t] /\ tgt'[t] = tgt[t]
        BY <1>1, <2>2 DEF InsLock
      <3> QED
        BY <1>1, <2>1, <3>1 DEF InsLock, LocalOK, OpAtPC, BlocksAtPC, RecordsAtPC, Filled, HasNew,
         HasDead, InsPCs, DelPCs, RetPCs
    <2>3. CASE ~OverCapacity
      BY <1>1, <2>3 DEF InsLock, LocalOK, OpAtPC, BlocksAtPC, RecordsAtPC, Filled, HasNew,
         HasDead, InsPCs, DelPCs, RetPCs
    <2> QED BY <2>2, <2>3
  <1>2. CASE InsBytes(t)
    BY <1>2 DEF InsBytes, LocalOK, OpAtPC, BlocksAtPC, RecordsAtPC, Filled, HasNew,
         HasDead, InsPCs, DelPCs, RetPCs
  <1>3. CASE InsPeak(t)
    BY <1>3 DEF InsPeak, LocalOK, OpAtPC, BlocksAtPC, RecordsAtPC, Filled, HasNew,
         HasDead, InsPCs, DelPCs, RetPCs
  <1>4. CASE InsMax(t)
    BY <1>4 DEF InsMax, LocalOK, OpAtPC, BlocksAtPC, RecordsAtPC, Filled, HasNew,
         HasDead, InsPCs, DelPCs, RetPCs
  <1>5. CASE InsAdd(t)
    <2>1. CASE op[t] = "copy"
      BY <1>5, <2>1 DEF InsAdd, LocalOK, OpAtPC, BlocksAtPC, RecordsAtPC, Filled, HasNew,
         HasDead, InsPCs, DelPCs, RetPCs
    <2>2. CASE op[t] # "copy" BY <1>5, <2>2, ReturnLocals DEF InsAdd
    <2> QED BY <2>1, <2>2
  <1> QED BY <1>1, <1>2, <1>3, <1>4, <1>5

\* and the steps that look the old block's record up and count it out.
LEMMA DeleteLocals ==
  ASSUME TypeOK, NEW t \in Threads, LocalOK(t), DelLock(t) \/ DelSub(t)
  PROVE  LocalOK(t)'
  <1> USE DEF TypeOK, LocalTypes, Goto, tableVars, localVars
  <1>o. op[t] \in {"free", "realloc", "copy"} /\ old[t] \in Addr
    BY DEF DelLock, DelSub, LocalOK, OpAtPC, BlocksAtPC, DelPCs
  <1>1. CASE DelLock(t) /\ Matches(old[t]) = {}
    <2>1. pc'[t] = AfterDelete(t) /\ UNCHANGED dead BY <1>1 DEF DelLock
    <2>2. CASE op[t] = "free"
      <3>1. pc'[t] = "rawfree" BY <2>1, <2>2 DEF AfterDelete
      <3> QED BY <1>1, <2>1, <2>2, <3>1 DEF DelLock, LocalOK, OpAtPC, BlocksAtPC, RecordsAtPC,
          Filled, HasNew,
         HasDead, InsPCs, DelPCs, RetPCs
    <2>3. CASE op[t] = "realloc"
      <3>1. pc'[t] = "re_cap" BY <2>1, <2>3 DEF AfterDelete
      <3> QED BY <1>1, <2>1, <2>3, <3>1 DEF DelLock, LocalOK, OpAtPC, BlocksAtPC, RecordsAtPC,
          Filled, HasNew,
         HasDead, InsPCs, DelPCs, RetPCs
    <2>4. CASE op[t] = "copy"
      <3>1. pc'[t] = "ins_lock" BY <2>1, <2>4 DEF AfterDelete
      <3> QED BY <1>1, <2>1, <2>4, <3>1 DEF DelLock, LocalOK, OpAtPC, BlocksAtPC, RecordsAtPC,
          Filled, HasNew,
         HasDead, InsPCs, DelPCs, RetPCs
    <2> QED BY <1>o, <2>2, <2>3, <2>4
  <1>2. CASE DelLock(t) /\ Matches(old[t]) # {}
    <2>1. mtt_entry_find(old[t]) \subseteq Entries
      BY <1>o, TrackerConstants DEF mtt_entry_find, Matches, SharedTypes
    <2>2. pc'[t] = "del_sub" /\ dead'[t] \in Entries BY <1>2, <2>1 DEF DelLock
    <2> QED BY <1>2, <2>2 DEF DelLock, LocalOK, OpAtPC, BlocksAtPC, RecordsAtPC, Filled, HasNew,
         HasDead, InsPCs, DelPCs, RetPCs
  <1>3. CASE DelSub(t)
    BY <1>3 DEF DelSub, LocalOK, OpAtPC, BlocksAtPC, RecordsAtPC, Filled, HasNew,
         HasDead, InsPCs, DelPCs, RetPCs
  <1> QED BY <1>1, <1>2, <1>3

\* DelUnlink wipes a record on a chain, which the record in hand is not.
LEMMA DelUnlinkLocals ==
  ASSUME TypeOK, NEW t \in Threads, LocalOK(t), DelUnlink(t), Apart
  PROVE  LocalOK(t)'
  <1> USE DEF TypeOK, LocalTypes, Goto
  <1>1. old[t] \in Addr BY DEF DelUnlink, LocalOK, OpAtPC, BlocksAtPC, DelPCs
  <1>2. PICK e \in mtt_entry_find(old[t]) : dead' = [dead EXCEPT ![t] = e] /\ Wipe(e)
    BY DEF DelUnlink
  <1>3. e \in Entries /\ OnChain(e)
    BY <1>1, <1>2, TrackerConstants DEF mtt_entry_find, Matches, SharedTypes, OnChain
  <1>4. pc'[t] = "ret_lock" /\ dead'[t] = e BY <1>2 DEF DelUnlink
  <1>5. OpAtPC(t)' /\ BlocksAtPC(t)' /\ RecordsAtPC(t)'
    BY <1>3, <1>4 DEF DelUnlink, LocalOK, OpAtPC, BlocksAtPC, RecordsAtPC, Filled, HasNew,
         HasDead, InsPCs, DelPCs, RetPCs
  <1>6. Filled(t)'
    <2>1. HasNew(t) => ent[t] # e
      BY <1>3 DEF DelUnlink, Apart, InNew, HoldsNew, HasNew
    <2>2. HasNew(t)' <=> HasNew(t)
      BY <1>4 DEF DelUnlink, HasNew, LocalOK, OpAtPC, InsPCs, DelPCs, RetPCs
    <2>3. HasNew(t) => ent[t] \in Entries /\ eptr[ent[t]] = tgt[t]
      BY DEF DelUnlink, LocalOK, RecordsAtPC, Filled
    <2> QED BY <1>2, <1>3, <1>4, <2>1, <2>2, <2>3 DEF Filled, Wipe, DelUnlink, SharedTypes
  <1> QED BY <1>5, <1>6 DEF LocalOK

\* What follows the return of a record finds no record in dead.
LEMMA AfterReturnLocals ==
  ASSUME TypeOK, NEW t \in Threads, LocalOK(t), pc[t] \in RetPCs, AfterReturn(t),
         UNCHANGED eptr
  PROVE  LocalOK(t)'
  <1> USE DEF TypeOK, LocalTypes, Goto
  <1>1. CASE discard[t] /\ op[t] = "copy"
    <2>1. /\ pc'[t] = "rawfree" /\ dead'[t] = NoEntry /\ ~discard'[t]
          /\ UNCHANGED <<op, old, tgt, ent, k>>
      BY <1>1 DEF AfterReturn
    <2> QED BY <1>1, <2>1 DEF LocalOK, OpAtPC, BlocksAtPC, RecordsAtPC, Filled, HasNew,
         HasDead, InsPCs, DelPCs, RetPCs
  <1>2. CASE discard[t] /\ op[t] # "copy" BY <1>2, ReturnLocals DEF AfterReturn
  <1>3. CASE ~discard[t]
    <2>1. /\ pc'[t] = AfterDelete(t) /\ dead'[t] = NoEntry
          /\ UNCHANGED <<op, old, tgt, ent, k, discard>>
      BY <1>3 DEF AfterReturn
    <2>2. op[t] \in {"free", "realloc", "copy"} BY <1>3 DEF LocalOK, OpAtPC
    <2>3. CASE op[t] = "free"
      <3>1. pc'[t] = "rawfree" BY <2>1, <2>3 DEF AfterDelete
      <3> QED BY <1>3, <2>1, <2>3, <3>1 DEF LocalOK, OpAtPC, BlocksAtPC, RecordsAtPC, Filled,
          HasNew,
         HasDead, InsPCs, DelPCs, RetPCs
    <2>4. CASE op[t] = "realloc"
      <3>1. pc'[t] = "re_cap" BY <2>1, <2>4 DEF AfterDelete
      <3> QED BY <1>3, <2>1, <2>4, <3>1 DEF LocalOK, OpAtPC, BlocksAtPC, RecordsAtPC, Filled,
          HasNew,
         HasDead, InsPCs, DelPCs, RetPCs
    <2>5. CASE op[t] = "copy"
      <3>1. pc'[t] = "ins_lock" BY <2>1, <2>5 DEF AfterDelete
      <3> QED BY <1>3, <2>1, <2>5, <3>1 DEF LocalOK, OpAtPC, BlocksAtPC, RecordsAtPC, Filled,
          HasNew,
         HasDead, InsPCs, DelPCs, RetPCs
    <2> QED BY <2>2, <2>3, <2>4, <2>5
  <1> QED BY <1>1, <1>2, <1>3

\* Giving a record back keeps the thread's part of the invariant,
LEMMA GiveBackLocals ==
  ASSUME TypeOK, NEW t \in Threads, LocalOK(t),
         RetLock(t) \/ RetPush(t) \/ RetUsed(t) \/ RetRaw(t) \/ RawFree(t)
  PROVE  LocalOK(t)'
  <1> USE DEF TypeOK, tableVars
  <1>1. CASE RetLock(t)
    BY <1>1 DEF RetLock, Goto, LocalTypes, localVars, poolVars, LocalOK, OpAtPC, BlocksAtPC,
        RecordsAtPC, Filled, HasNew,
         HasDead, InsPCs, DelPCs, RetPCs
  <1>2. CASE RetPush(t)
    BY <1>2 DEF RetPush, Goto, LocalTypes, localVars, LocalOK, OpAtPC, BlocksAtPC, RecordsAtPC,
        Filled, HasNew,
         HasDead, InsPCs, DelPCs, RetPCs
  <1>3. CASE RetUsed(t) BY <1>3, AfterReturnLocals DEF RetUsed, RetPCs
  <1>4. CASE RetRaw(t) BY <1>4, AfterReturnLocals DEF RetRaw, RetPCs
  <1>5. CASE RawFree(t) BY <1>5, ReturnLocals DEF RawFree
  <1> QED BY <1>1, <1>2, <1>3, <1>4, <1>5

\* and so do the steps only realloc takes.
LEMMA ReallocLocals ==
  ASSUME TypeOK, NEW t \in Threads, LocalOK(t), ReallocStep(t)
  PROVE  LocalOK(t)'
  <1> USE DEF TypeOK, LocalTypes, Goto, tableVars
  <1>1. CASE ReFind(t)
    BY <1>1 DEF ReFind, LocalOK, OpAtPC, BlocksAtPC, RecordsAtPC, Filled, HasNew,
         HasDead, InsPCs, DelPCs, RetPCs
  <1>2. CASE ReFail(t) BY <1>2, ReturnLocals DEF ReFail
  <1>3. ASSUME NEW a \in Addr, ReRaw(t, a) PROVE LocalOK(t)'
    <2>1. CASE found[t]
      <3>1. /\ tgt'[t] = a /\ pc'[t] = "del_lock"
            /\ UNCHANGED <<op, old, ent, dead, k, discard>>
        BY <1>3, <2>1 DEF ReRaw
      <3> QED BY <1>3, <3>1 DEF ReRaw, LocalOK, OpAtPC, BlocksAtPC, RecordsAtPC, Filled, HasNew,
         HasDead, InsPCs, DelPCs, RetPCs
    <2>2. CASE ~found[t] BY <1>3, <2>2, ReturnLocals DEF ReRaw
    <2> QED BY <2>1, <2>2
  <1> QED BY <1>1, <1>2, <1>3 DEF ReallocStep

-----------------------------------------------------------------------------
(* Most steps move no record.                                              *)

KeepsHands(t) == \A e \in Entries :
  (HoldsNew(t, e)' <=> HoldsNew(t, e)) /\ (HoldsDead(t, e)' <=> HoldsDead(t, e))

Quiet(t) ==
  /\ UNCHANGED <<pool_free_lists, buckets, raw_entries, eptr>>
  /\ KeepsHands(t)

\* A hook that returns with no record in its hands.
LEMMA ReturnQuiet ==
  ASSUME LocalTypes, NEW t \in Threads, NEW got, Return(t, got),
         ent[t] = NoEntry, pc[t] \notin {"ret_lock", "ret_push"}
  PROVE  KeepsHands(t)
  <1>1. pc'[t] = "idle" /\ ent'[t] = NoEntry BY DEF LocalTypes, Return, Goto
  <1> QED BY <1>1, TrackerConstants DEF KeepsHands, HoldsNew, HoldsDead

\* Entering a hook moves no record.
LEMMA CallQuiet ==
  ASSUME TypeOK, NEW t \in Threads, CallMallocFree(t) \/ CallRealloc(t)
  PROVE  Quiet(t)
  <1> USE DEF Quiet, KeepsHands, HoldsNew, HoldsDead, TypeOK, LocalTypes, tableVars, poolVars,
          Begin, Goto
  <1>1. ASSUME NEW a \in Addr, NEW n \in Sizes, Malloc(t, a, n) PROVE Quiet(t)
    BY <1>1 DEF Malloc
  <1>2. ASSUME NEW a \in Addr, NEW n \in Sizes, MallocPass(t, a, n) PROVE Quiet(t)
    BY <1>2 DEF MallocPass, localVars
  <1>3. ASSUME NEW p \in Addr, Free(t, p) PROVE Quiet(t)
    BY <1>3 DEF Free
  <1>4. ASSUME NEW p \in Addr, FreePass(t, p) PROVE Quiet(t)
    BY <1>4 DEF FreePass, localVars
  <1>5. ASSUME NEW p \in Addr, NEW n \in Sizes, Realloc(t, p, n) PROVE Quiet(t)
    BY <1>5 DEF Realloc
  <1>6. ASSUME NEW p \in Addr, NEW a \in Addr, NEW n \in Sizes, ReallocCopy(t, p, a, n)
        PROVE  Quiet(t)
    BY <1>6 DEF ReallocCopy
  <1>7. ASSUME NEW p \in Addr, NEW a \in Addr, NEW n \in Sizes, ReallocPass(t, p, a, n)
        PROVE  Quiet(t)
    BY <1>7 DEF ReallocPass, localVars
  <1> QED BY <1>1, <1>2, <1>3, <1>4, <1>5, <1>6, <1>7 DEF CallMallocFree, CallRealloc

QuietStep(t) ==
  \/ \E sampled \in BOOLEAN : Track(t, sampled)
  \/ ApiUnsampled(t)
  \/ ReCapacity(t) \/ PoolHead(t) \/ PoolSkip(t) \/ GiveUp(t)
  \/ InsLock(t) /\ ~OverCapacity
  \/ InsBytes(t) \/ InsPeak(t) \/ InsMax(t)
  \/ DelLock(t) \/ DelSub(t) \/ RetLock(t) \/ RetUsed(t) \/ RawFree(t)
  \/ ReallocStep(t)

\* Neither do the steps inside a hook that only load, count or lock.
LEMMA StepQuiet ==
  ASSUME TypeOK, NEW t \in Threads, LocalOK(t), QuietStep(t)
  PROVE  Quiet(t)
  <1> USE DEF Quiet, TypeOK, tableVars, poolVars
  <1>n. ~HasNew(t) => ent[t] = NoEntry BY DEF LocalOK, RecordsAtPC
  <1>1. ASSUME NEW sampled \in BOOLEAN, Track(t, sampled) PROVE Quiet(t)
    <2>1. CASE sampled /\ ~OverCapacity
      BY <1>1, <2>1 DEF Track, Goto, LocalTypes, localVars, KeepsHands, HoldsNew, HoldsDead
    <2>2. CASE ~(sampled /\ ~OverCapacity)
      BY <1>1, <1>n, <2>2, ReturnQuiet DEF Track, HasNew, InsPCs, DelPCs, RetPCs
    <2> QED BY <2>1, <2>2
  <1>2. CASE ReCapacity(t)
    <2>1. CASE ~OverCapacity
      BY <1>2, <2>1 DEF ReCapacity, Goto, LocalTypes, localVars, KeepsHands, HoldsNew, HoldsDead
    <2>2. CASE OverCapacity
      BY <1>2, <1>n, <2>2, ReturnQuiet DEF ReCapacity, HasNew, InsPCs, DelPCs, RetPCs
    <2> QED BY <2>1, <2>2
  <1>3. CASE PoolHead(t)
    <2>1. ent[t] = NoEntry BY <1>3, <1>n DEF PoolHead, HasNew, InsPCs, DelPCs, RetPCs
    <2>2. CASE pool_free_lists[PoolIndex(t)] = {}
      BY <1>3, <2>2 DEF PoolHead, LocalTypes, KeepsHands, HoldsNew, HoldsDead
    <2>3. CASE pool_free_lists[PoolIndex(t)] # {}
      <3>1. pc'[t] = "unlink" BY <1>3, <2>3 DEF PoolHead, Goto, LocalTypes
      <3> QED BY <1>3, <2>1, <3>1, TrackerConstants
              DEF PoolHead, LocalTypes, KeepsHands, HoldsNew, HoldsDead
    <2> QED BY <2>2, <2>3
  <1>4. CASE PoolSkip(t) BY <1>4 DEF PoolSkip, LocalTypes, KeepsHands, HoldsNew, HoldsDead
  <1>5. CASE GiveUp(t)
    BY <1>5, <1>n, ReturnQuiet DEF GiveUp, HasNew, InsPCs, DelPCs, RetPCs
  <1>6. CASE InsLock(t) /\ ~OverCapacity
    BY <1>6 DEF InsLock, Goto, LocalTypes, KeepsHands, HoldsNew, HoldsDead
  <1>7. CASE InsBytes(t)
    BY <1>7 DEF InsBytes, Goto, LocalTypes, localVars, KeepsHands, HoldsNew, HoldsDead
  <1>8. CASE InsPeak(t)
    BY <1>8 DEF InsPeak, Goto, LocalTypes, KeepsHands, HoldsNew, HoldsDead
  <1>9. CASE InsMax(t)
    BY <1>9 DEF InsMax, Goto, LocalTypes, localVars, KeepsHands, HoldsNew, HoldsDead
  <1>10. CASE DelLock(t)
    <2>1. pc'[t] \in {"rawfree", "re_cap", "ins_lock", "del_sub"}
      BY <1>10 DEF DelLock, AfterDelete, Goto, LocalTypes
    <2> QED BY <1>10, <2>1 DEF DelLock, LocalTypes, KeepsHands, HoldsNew, HoldsDead
  <1>11. CASE DelSub(t)
    BY <1>11 DEF DelSub, Goto, LocalTypes, localVars, KeepsHands, HoldsNew, HoldsDead
  <1>12. CASE RetLock(t)
    BY <1>12 DEF RetLock, Goto, LocalTypes, localVars, KeepsHands, HoldsNew, HoldsDead
  <1>13. CASE RetUsed(t)
    <2>1. UNCHANGED <<pool_free_lists, buckets, raw_entries, eptr>> BY <1>13 DEF RetUsed
    <2>2. CASE discard[t] /\ op[t] # "copy"
      BY <1>13, <1>n, <2>2, <2>1, ReturnQuiet DEF RetUsed, AfterReturn, HasNew, InsPCs, DelPCs
    <2>3. CASE discard[t] /\ op[t] = "copy"
      <3>1. pc'[t] = "rawfree" /\ ent'[t] = ent[t]
        BY <1>13, <2>3 DEF RetUsed, AfterReturn, Goto, LocalTypes
      <3> QED BY <1>13, <2>1, <3>1 DEF RetUsed, KeepsHands, HoldsNew, HoldsDead
    <2>4. CASE ~discard[t]
      <3>1. pc'[t] = AfterDelete(t) /\ ent'[t] = ent[t]
        BY <1>13, <2>4 DEF RetUsed, AfterReturn, Goto, LocalTypes
      <3>2. AfterDelete(t) \in {"rawfree", "re_cap", "ins_lock"} BY DEF AfterDelete
      <3> QED BY <1>13, <2>1, <3>1, <3>2 DEF RetUsed, KeepsHands, HoldsNew, HoldsDead
    <2> QED BY <2>2, <2>3, <2>4
  <1>14. CASE RawFree(t)
    BY <1>14, <1>n, ReturnQuiet DEF RawFree, HasNew, InsPCs, DelPCs, RetPCs
  <1>15. CASE ReFind(t)
    BY <1>15 DEF ReFind, Goto, LocalTypes, KeepsHands, HoldsNew, HoldsDead
  <1>16. CASE ReFail(t)
    BY <1>16, <1>n, ReturnQuiet DEF ReFail, HasNew, InsPCs, DelPCs, RetPCs
  <1>17. ASSUME NEW a \in Addr, ReRaw(t, a) PROVE Quiet(t)
    <2>1. CASE found[t]
      BY <1>17, <2>1 DEF ReRaw, Goto, LocalTypes, KeepsHands, HoldsNew, HoldsDead
    <2>2. CASE ~found[t]
      BY <1>17, <1>n, <2>2, ReturnQuiet DEF ReRaw, HasNew, InsPCs, DelPCs, RetPCs
    <2> QED BY <2>1, <2>2
  <1>r. ReallocStep(t) => Quiet(t) BY <1>15, <1>16, <1>17 DEF ReallocStep
  <1>18. CASE ApiUnsampled(t)
    BY <1>18, <1>n, ReturnQuiet DEF ApiUnsampled, HasNew, InsPCs, DelPCs, RetPCs
  <1> QED BY <1>18, <1>1, <1>2, <1>3, <1>4, <1>5, <1>6, <1>7, <1>8, <1>9, <1>10, <1>11, <1>12,
             <1>13, <1>14, <1>r DEF QuietStep

-----------------------------------------------------------------------------
(* Seven steps move one record from one place to another.                  *)

Placed == Single /\ Apart /\ Somewhere

NewSame == \A u \in Threads, e \in Entries : HoldsNew(u, e)' <=> HoldsNew(u, e)
NewGains(t, x) == \A u \in Threads, e \in Entries :
  HoldsNew(u, e)' <=> HoldsNew(u, e) \/ (u = t /\ e = x)
NewLoses(t, x) == \A u \in Threads, e \in Entries :
  HoldsNew(u, e)' <=> HoldsNew(u, e) /\ ~(u = t /\ e = x)

DeadSame == \A u \in Threads, e \in Entries : HoldsDead(u, e)' <=> HoldsDead(u, e)
DeadGains(t, x) == \A u \in Threads, e \in Entries :
  HoldsDead(u, e)' <=> HoldsDead(u, e) \/ (u = t /\ e = x)
DeadLoses(t, x) == \A u \in Threads, e \in Entries :
  HoldsDead(u, e)' <=> HoldsDead(u, e) /\ ~(u = t /\ e = x)

ListLoses(i, x) == \A j \in Stripes, e \in Entries :
  e \in pool_free_lists'[j] <=> e \in pool_free_lists[j] /\ ~(j = i /\ e = x)
ListGains(i, x) == \A j \in Stripes, e \in Entries :
  e \in pool_free_lists'[j] <=> e \in pool_free_lists[j] \/ (j = i /\ e = x)

ChainLoses(i, x) == \A j \in Stripes, e \in Entries :
  e \in buckets'[j] <=> e \in buckets[j] /\ ~(j = i /\ e = x)
ChainGains(i, x) == \A j \in Stripes, e \in Entries :
  e \in buckets'[j] <=> e \in buckets[j] \/ (j = i /\ e = x)

\* If nothing moves, every record is still in exactly one place.
LEMMA QuietPlaced ==
  ASSUME Placed, UNCHANGED <<pool_free_lists, buckets, raw_entries>>, NewSame, DeadSame
  PROVE  Placed'
  BY DEF Placed, Single, Apart, Somewhere, OnList, OnChain, InNew, InDead, InLibc,
     NewSame, DeadSame

\* PoolUnlink.
LEMMA ListToNew ==
  ASSUME Placed, NEW t \in Threads, NEW i \in Stripes, NEW x \in Entries,
         x \in pool_free_lists[i], ListLoses(i, x), NewGains(t, x), DeadSame,
         UNCHANGED <<buckets, raw_entries>>
  PROVE  Placed'
  <1> USE DEF Placed, ListLoses, NewGains, DeadSame, OnList, OnChain, InNew, InDead, InLibc
  <1>1. Single' BY DEF Single, Apart
  <1>2. Apart' BY DEF Single, Apart
  <1>3. Somewhere' BY DEF Single, Somewhere
  <1> QED BY <1>1, <1>2, <1>3

\* RawNew.
LEMMA LibcToNew ==
  ASSUME Placed, NEW t \in Threads, NEW x \in Entries,
         x \in raw_entries, raw_entries' = raw_entries \ {x}, NewGains(t, x), DeadSame,
         UNCHANGED <<buckets, pool_free_lists>>
  PROVE  Placed'
  <1> USE DEF Placed, NewGains, DeadSame, OnList, OnChain, InNew, InDead, InLibc
  <1>1. Single' BY DEF Single, Apart
  <1>2. Apart' BY DEF Single, Apart
  <1>3. Somewhere' BY DEF Somewhere
  <1> QED BY <1>1, <1>2, <1>3

\* InsLock above capacity.
LEMMA NewToDead ==
  ASSUME Placed, NEW t \in Threads, NEW x \in Entries,
         HoldsNew(t, x), NewLoses(t, x), DeadGains(t, x),
         UNCHANGED <<buckets, pool_free_lists, raw_entries>>
  PROVE  Placed'
  <1> USE DEF Placed, NewLoses, DeadGains, OnList, OnChain, InNew, InDead, InLibc
  <1>1. Single' BY DEF Single, Apart
  <1>2. Apart' BY DEF Single, Apart
  <1>3. Somewhere' BY DEF Somewhere
  <1> QED BY <1>1, <1>2, <1>3

\* InsAdd.
LEMMA NewToChain ==
  ASSUME Placed, NEW t \in Threads, NEW i \in Stripes, NEW x \in Entries,
         HoldsNew(t, x), NewLoses(t, x), ChainGains(i, x), DeadSame,
         UNCHANGED <<pool_free_lists, raw_entries>>
  PROVE  Placed'
  <1> USE DEF Placed, NewLoses, ChainGains, DeadSame, OnList, OnChain, InNew, InDead, InLibc
  <1>1. Single' BY DEF Single, Apart
  <1>2. Apart' BY DEF Single, Apart
  <1>3. Somewhere' BY DEF Somewhere
  <1> QED BY <1>1, <1>2, <1>3

\* DelUnlink.
LEMMA ChainToDead ==
  ASSUME Placed, NEW t \in Threads, NEW i \in Stripes, NEW x \in Entries,
         x \in buckets[i], ChainLoses(i, x), DeadGains(t, x), NewSame,
         UNCHANGED <<pool_free_lists, raw_entries>>
  PROVE  Placed'
  <1> USE DEF Placed, ChainLoses, DeadGains, NewSame, OnList, OnChain, InNew, InDead, InLibc
  <1>1. Single' BY DEF Single, Apart
  <1>2. Apart' BY DEF Single, Apart
  <1>3. Somewhere' BY DEF Somewhere
  <1> QED BY <1>1, <1>2, <1>3

\* RetPush.
LEMMA DeadToList ==
  ASSUME Placed, NEW t \in Threads, NEW i \in Stripes, NEW x \in Entries,
         HoldsDead(t, x), DeadLoses(t, x), ListGains(i, x), NewSame,
         UNCHANGED <<buckets, raw_entries>>
  PROVE  Placed'
  <1> USE DEF Placed, DeadLoses, ListGains, NewSame, OnList, OnChain, InNew, InDead, InLibc
  <1>1. Single' BY DEF Single, Apart
  <1>2. Apart' BY DEF Single, Apart
  <1>3. Somewhere' BY DEF Somewhere
  <1> QED BY <1>1, <1>2, <1>3

\* RetRaw.
LEMMA DeadToLibc ==
  ASSUME Placed, NEW t \in Threads, NEW x \in Entries,
         HoldsDead(t, x), DeadLoses(t, x), raw_entries' = raw_entries \cup {x}, NewSame,
         UNCHANGED <<buckets, pool_free_lists>>
  PROVE  Placed'
  <1> USE DEF Placed, DeadLoses, NewSame, OnList, OnChain, InNew, InDead, InLibc
  <1>1. Single' BY DEF Single, Apart
  <1>2. Apart' BY DEF Single, Apart
  <1>3. Somewhere' BY DEF Somewhere
  <1> QED BY <1>1, <1>2, <1>3

-----------------------------------------------------------------------------
(* Each of those steps keeps every record in one place, and the fields of  *)
(* the records in other threads' hands.                                    *)

HandsFilled(t) == \A u \in Threads \ {t}, e \in Entries :
  HoldsNew(u, e) => eptr'[e] = eptr[e]

Kept(t) == Placed' /\ ChainInv' /\ HandsFilled(t)

OthersSame(t) == \A u \in Threads \ {t} : SameLocals(u)

\* One lemma for each kind of step: it keeps every record in exactly one place.
\* Steps that move nothing.
LEMMA QuietKept ==
  ASSUME Placed, ChainInv, NEW t \in Threads, OthersSame(t), Quiet(t)
  PROVE  Kept(t)
  <1>1. NewSame /\ DeadSame
    BY DEF NewSame, DeadSame, OthersSame, SameLocals, Quiet, KeepsHands, HoldsNew, HoldsDead
  <1>2. Placed' BY <1>1, QuietPlaced DEF Quiet
  <1>3. ChainInv' /\ HandsFilled(t) BY DEF ChainInv, HandsFilled, Quiet
  <1> QED BY <1>2, <1>3 DEF Kept

\* mtt_entry_new takes the head it read off the list it is on.
LEMMA PoolUnlinkKept ==
  ASSUME TypeOK, Placed, ChainInv, HeadInv, NEW t \in Threads, LocalOK(t), OthersSame(t),
         PoolUnlink(t)
  PROVE  Kept(t)
  <1> DEFINE i == PoolIndex(t)
             x == ent[t]
  <1>1. tgt[t] \in Addr /\ x \in Entries
    BY DEF PoolUnlink, LocalOK, OpAtPC, BlocksAtPC, RecordsAtPC, HasNew
  <1>2. i \in Stripes BY <1>1, TrackerConstants, PoolIndexRange DEF TypeOK, LocalTypes
  <1>3. x \in pool_free_lists[i] BY DEF HeadInv, PoolUnlink
  <1>4. ListLoses(i, x)
    BY <1>2 DEF PoolUnlink, ListLoses, TypeOK, SharedTypes
  <1>5. pc'[t] \in {"del_lock", "ins_lock"} /\ ent'[t] = x
    BY DEF PoolUnlink, Fill, Goto, TypeOK, LocalTypes
  <1>6. NewGains(t, x)
    BY <1>1, <1>5 DEF NewGains, OthersSame, SameLocals, HoldsNew, PoolUnlink
  <1>7. DeadSame
    BY <1>5 DEF DeadSame, OthersSame, SameLocals, HoldsDead, PoolUnlink
  <1>8. Placed'
    <2> HIDE DEF i, x
    <2> QED BY <1>1, <1>2, <1>3, <1>4, <1>6, <1>7, ListToNew DEF PoolUnlink
  <1>9. OnList(x) BY <1>2, <1>3 DEF OnList
  <1>10. eptr' = [eptr EXCEPT ![x] = tgt[t]] /\ UNCHANGED buckets
    BY DEF PoolUnlink, Fill
  <1>11. ChainInv'
    BY <1>1, <1>9, <1>10 DEF ChainInv, Placed, Apart, OnChain, TypeOK, SharedTypes
  <1>12. HandsFilled(t)
    BY <1>1, <1>9, <1>10 DEF HandsFilled, Placed, Apart, InNew, TypeOK, SharedTypes
  <1> QED BY <1>8, <1>11, <1>12 DEF Kept

\* mtt_entry_new takes a record from libc in FALLBACK mode.
LEMMA RawNewKept ==
  ASSUME TypeOK, Placed, ChainInv, NEW t \in Threads, LocalOK(t), OthersSame(t), RawNew(t)
  PROVE  Kept(t)
  <1>1. PICK x \in raw_entries : raw_entries' = raw_entries \ {x} /\ Fill(t, x)
    BY DEF RawNew
  <1>2. x \in Entries /\ InLibc(x) BY <1>1 DEF TypeOK, SharedTypes, InLibc
  <1>3. ent[t] = NoEntry
    BY DEF RawNew, LocalOK, RecordsAtPC, HasNew, InsPCs, DelPCs, RetPCs
  <1>4. pc'[t] \in {"del_lock", "ins_lock"} /\ ent'[t] = x
    BY <1>1 DEF Fill, Goto, TypeOK, LocalTypes
  <1>5. NewGains(t, x)
    BY <1>2, <1>3, <1>4, TrackerConstants
    DEF NewGains, OthersSame, SameLocals, HoldsNew
  <1>6. DeadSame BY <1>4 DEF DeadSame, OthersSame, SameLocals, HoldsDead, RawNew
  <1>7. Placed' BY <1>1, <1>2, <1>5, <1>6, LibcToNew DEF RawNew
  <1>8. eptr' = [eptr EXCEPT ![x] = tgt[t]] /\ UNCHANGED buckets
    BY <1>1 DEF RawNew, Fill
  <1>9. ChainInv'
    BY <1>2, <1>8 DEF ChainInv, Placed, Apart, OnChain, TypeOK, SharedTypes
  <1>10. HandsFilled(t)
    BY <1>2, <1>8 DEF HandsFilled, Placed, Apart, InNew, TypeOK, SharedTypes
  <1> QED BY <1>7, <1>9, <1>10 DEF Kept

\* Above capacity the new record is on its way back (mtt_entry_discard).
LEMMA OverCapacityKept ==
  ASSUME TypeOK, Placed, ChainInv, NEW t \in Threads, LocalOK(t), OthersSame(t),
         InsLock(t), OverCapacity
  PROVE  Kept(t)
  <1> DEFINE x == ent[t]
  <1>1. x \in Entries BY DEF InsLock, LocalOK, RecordsAtPC, HasNew, InsPCs
  <1>2. HoldsNew(t, x) BY DEF InsLock, HoldsNew
  <1>3. pc'[t] = "ret_lock" /\ dead'[t] = x /\ ent'[t] = NoEntry
    BY DEF InsLock, Goto, TypeOK, LocalTypes
  <1>4. NewLoses(t, x)
    BY <1>1, <1>3, TrackerConstants DEF NewLoses, OthersSame, SameLocals, HoldsNew
  <1>5. DeadGains(t, x)
    BY <1>3 DEF DeadGains, OthersSame, SameLocals, HoldsDead, InsLock
  <1>6. UNCHANGED <<buckets, pool_free_lists, raw_entries>> BY DEF InsLock, poolVars
  <1>7. Placed'
    <2> HIDE DEF x
    <2> QED BY <1>1, <1>2, <1>4, <1>5, <1>6, NewToDead
  <1>8. eptr' = [eptr EXCEPT ![x] = NoAddr] BY DEF InsLock, Wipe
  <1>9. ChainInv'
    BY <1>1, <1>2, <1>6, <1>8
    DEF ChainInv, Placed, Apart, OnChain, InNew, TypeOK, SharedTypes
  <1>10. HandsFilled(t)
    BY <1>1, <1>2, <1>8 DEF HandsFilled, Placed, Single, TypeOK, SharedTypes
  <1> QED BY <1>7, <1>9, <1>10 DEF Kept

\* mtt_entry_add puts the record on the chain of its block's stripe.
LEMMA InsAddKept ==
  ASSUME TypeOK, Placed, ChainInv, NEW t \in Threads, LocalOK(t), OthersSame(t), InsAdd(t)
  PROVE  Kept(t)
  <1> DEFINE x == ent[t]
             i == AddrStripe[tgt[t]]
  <1>1. x \in Entries /\ tgt[t] \in Addr /\ eptr[x] = tgt[t]
    BY DEF InsAdd, LocalOK, OpAtPC, BlocksAtPC, RecordsAtPC, Filled, HasNew, InsPCs
  <1>2. i \in Stripes BY <1>1, TrackerConstants
  <1>3. HoldsNew(t, x) BY DEF InsAdd, HoldsNew
  <1>4. pc'[t] \in {"rawfree", "idle"} /\ ent'[t] = NoEntry
    BY DEF InsAdd, Return, Goto, TypeOK, LocalTypes
  <1>5. NewLoses(t, x)
    BY <1>1, <1>4, TrackerConstants DEF NewLoses, OthersSame, SameLocals, HoldsNew
  <1>6. DeadSame BY <1>4 DEF DeadSame, OthersSame, SameLocals, HoldsDead, InsAdd
  <1>7. buckets' = [buckets EXCEPT ![i] = @ \cup {x}] BY <1>1 DEF InsAdd
  <1>8. ChainGains(i, x) BY <1>2, <1>7 DEF ChainGains, TypeOK, SharedTypes
  <1>9. UNCHANGED <<pool_free_lists, raw_entries, eptr>> BY DEF InsAdd, poolVars
  <1>10. Placed'
    <2> HIDE DEF x, i
    <2> QED BY <1>1, <1>2, <1>3, <1>5, <1>6, <1>8, <1>9, NewToChain
  <1>11. ChainInv'
    <2> SUFFICES ASSUME NEW j \in Stripes, NEW e \in buckets'[j]
                 PROVE  eptr'[e] \in Addr /\ AddrStripe[eptr'[e]] = j
      BY DEF ChainInv
    <2>1. CASE e \in buckets[j] BY <1>9, <2>1 DEF ChainInv
    <2>2. CASE e \notin buckets[j]
      <3>1. e = x /\ j = i BY <1>7, <2>2 DEF TypeOK, SharedTypes
      <3> QED BY <1>1, <1>9, <3>1
    <2> QED BY <2>1, <2>2
  <1>12. HandsFilled(t) BY <1>9 DEF HandsFilled
  <1> QED BY <1>10, <1>11, <1>12 DEF Kept

\* mtt_entry_remove takes the record it finds off the one chain it is on.
LEMMA DelUnlinkKept ==
  ASSUME TypeOK, Placed, ChainInv, NEW t \in Threads, LocalOK(t), OthersSame(t), DelUnlink(t)
  PROVE  Kept(t)
  <1> DEFINE i == AddrStripe[old[t]]
  <1>1. PICK x \in mtt_entry_find(old[t]) :
          /\ buckets' = [buckets EXCEPT ![i] = @ \ {x}]
          /\ dead' = [dead EXCEPT ![t] = x]
          /\ Wipe(x)
    BY DEF DelUnlink
  <1>2. i \in Stripes
    BY TrackerConstants DEF DelUnlink, LocalOK, OpAtPC, BlocksAtPC, DelPCs
  <1>3. x \in buckets[i] BY <1>1 DEF mtt_entry_find, Matches
  <1>4. x \in Entries /\ OnChain(x) BY <1>2, <1>3 DEF TypeOK, SharedTypes, OnChain
  <1>5. pc'[t] = "ret_lock" /\ dead'[t] = x /\ ent'[t] = ent[t]
    BY <1>1 DEF DelUnlink, Goto, TypeOK, LocalTypes
  <1>6. DeadGains(t, x)
    BY <1>5 DEF DeadGains, OthersSame, SameLocals, HoldsDead, DelUnlink
  <1>7. NewSame BY <1>5 DEF NewSame, OthersSame, SameLocals, HoldsNew, DelUnlink
  <1>8. ChainLoses(i, x) BY <1>1, <1>2 DEF ChainLoses, TypeOK, SharedTypes
  <1>9. UNCHANGED <<pool_free_lists, raw_entries>> BY DEF DelUnlink, poolVars
  <1>10. Placed'
    <2> HIDE DEF i
    <2> QED BY <1>2, <1>3, <1>4, <1>6, <1>7, <1>8, <1>9, ChainToDead
  <1>11. eptr' = [eptr EXCEPT ![x] = NoAddr] BY <1>1 DEF Wipe
  <1>12. ChainInv'
    <2> SUFFICES ASSUME NEW j \in Stripes, NEW e \in buckets'[j]
                 PROVE  eptr'[e] \in Addr /\ AddrStripe[eptr'[e]] = j
      BY DEF ChainInv
    <2>1. e \in buckets[j] /\ e \in Entries BY <1>1 DEF TypeOK, SharedTypes
    <2>2. e # x
      <3>1. CASE j = i BY <1>1, <3>1, <1>2 DEF TypeOK, SharedTypes
      <3>2. CASE j # i BY <1>2, <1>3, <1>4, <2>1, <3>2 DEF Placed, Single
      <3> QED BY <3>1, <3>2
    <2> QED BY <1>11, <2>1, <2>2 DEF ChainInv, TypeOK, SharedTypes
  <1>13. HandsFilled(t)
    BY <1>4, <1>11 DEF HandsFilled, Placed, Apart, InNew, TypeOK, SharedTypes
  <1> QED BY <1>10, <1>12, <1>13 DEF Kept

\* The record goes to the free list of the stripe of its own address.
LEMMA RetPushKept ==
  ASSUME TypeOK, Placed, ChainInv, NEW t \in Threads, LocalOK(t), OthersSame(t), RetPush(t)
  PROVE  Kept(t)
  <1> DEFINE x == dead[t]
             i == EntryStripe[x]
  <1>1. x \in Entries BY DEF RetPush, LocalOK, RecordsAtPC, HasDead, RetPCs
  <1>2. i \in Stripes BY <1>1, TrackerConstants
  <1>3. HoldsDead(t, x) BY DEF RetPush, HoldsDead
  <1>4. pc'[t] = "ret_used" /\ dead'[t] = x /\ ent'[t] = ent[t]
    BY DEF RetPush, Goto, TypeOK, LocalTypes, localVars
  <1>5. DeadLoses(t, x)
    BY <1>4 DEF DeadLoses, OthersSame, SameLocals, HoldsDead, RetPush
  <1>6. NewSame BY <1>4 DEF NewSame, OthersSame, SameLocals, HoldsNew, RetPush
  <1>7. ListGains(i, x) BY <1>2 DEF RetPush, ListGains, TypeOK, SharedTypes
  <1>8. UNCHANGED <<buckets, raw_entries, eptr>> BY DEF RetPush, tableVars
  <1>9. Placed'
    <2> HIDE DEF x, i
    <2> QED BY <1>1, <1>2, <1>3, <1>5, <1>6, <1>7, <1>8, DeadToList
  <1>10. ChainInv' /\ HandsFilled(t) BY <1>8 DEF ChainInv, HandsFilled
  <1> QED BY <1>9, <1>10 DEF Kept

\* The record goes back to libc in FALLBACK mode.
LEMMA RetRawKept ==
  ASSUME TypeOK, Placed, ChainInv, NEW t \in Threads, LocalOK(t), OthersSame(t), RetRaw(t)
  PROVE  Kept(t)
  <1> DEFINE x == dead[t]
  <1>1. x \in Entries BY DEF RetRaw, LocalOK, RecordsAtPC, HasDead, RetPCs
  <1>2. HoldsDead(t, x) BY DEF RetRaw, HoldsDead
  <1>3. pc'[t] \in {"rawfree", "idle", "re_cap", "ins_lock"}
    BY DEF RetRaw, AfterReturn, AfterDelete, Return, Goto, TypeOK, LocalTypes
  <1>4. ent'[t] = ent[t]
    <2>1. CASE discard[t] /\ op[t] # "copy"
      BY <2>1 DEF RetRaw, AfterReturn, Return, TypeOK, LocalTypes, LocalOK, RecordsAtPC, HasNew,
         InsPCs, DelPCs
    <2>2. CASE ~(discard[t] /\ op[t] # "copy") BY <2>2 DEF RetRaw, AfterReturn
    <2> QED BY <2>1, <2>2
  <1>5. DeadLoses(t, x)
    BY <1>3 DEF DeadLoses, OthersSame, SameLocals, HoldsDead, RetRaw
  <1>6. NewSame BY <1>3, <1>4 DEF NewSame, OthersSame, SameLocals, HoldsNew, RetRaw
  <1>7. UNCHANGED <<buckets, pool_free_lists, eptr>> /\ raw_entries' = raw_entries \cup {x}
    BY DEF RetRaw, tableVars
  <1>8. Placed'
    <2> HIDE DEF x
    <2> QED BY <1>1, <1>2, <1>5, <1>6, <1>7, DeadToLibc
  <1>9. ChainInv' /\ HandsFilled(t) BY <1>7 DEF ChainInv, HandsFilled
  <1> QED BY <1>8, <1>9 DEF Kept

-----------------------------------------------------------------------------
(* The locks of the pool protect the list heads.                           *)

HeadOK(t) ==
  /\ pc[t] = "unlink" => /\ pool_locks[PoolIndex(t)] = t
                         /\ ent[t] \in pool_free_lists[PoolIndex(t)]
  /\ pc[t] = "ret_push" => pool_locks[EntryStripe[dead[t]]] = t

\* The stripes of the pool whose locks a thread needs.
LEMMA LockedStripes ==
  ASSUME TypeOK, NEW u \in Threads, LocalOK(u)
  PROVE  /\ pc[u] = "unlink" => PoolIndex(u) \in Stripes
         /\ pc[u] = "ret_push" => EntryStripe[dead[u]] \in Stripes
  <1>1. pc[u] = "unlink" => tgt[u] \in Addr BY DEF LocalOK, OpAtPC, BlocksAtPC
  <1>2. pc[u] = "ret_push" => dead[u] \in Entries
    BY DEF LocalOK, RecordsAtPC, HasDead, RetPCs
  <1> QED BY <1>1, <1>2, PoolIndexRange, TrackerConstants DEF TypeOK, LocalTypes

\* A step keeps the locks and the lists it does not own.
PoolFrame(t) ==
  \/ UNCHANGED <<pool_locks, pool_free_lists>>
  \/ \E i \in Stripes : /\ pool_locks[i] = NoThread
                         /\ pool_locks' = [pool_locks EXCEPT ![i] = t]
                         /\ UNCHANGED pool_free_lists
  \/ \E i \in Stripes : /\ pool_locks[i] = t
                         /\ pool_locks' = [pool_locks EXCEPT ![i] = NoThread]
                         /\ \A j \in Stripes \ {i} : pool_free_lists'[j] = pool_free_lists[j]

\* A thread's step leaves alone every list whose lock another thread holds.
LEMMA HeadFrame ==
  ASSUME TypeOK, HeadInv, NEW t \in Threads, PoolFrame(t),
         NEW u \in Threads \ {t}, LocalOK(u), SameLocals(u)
  PROVE  HeadOK(u)'
  <1>1. HeadOK(u) BY DEF HeadInv, HeadOK
  <1>2. PoolIndex(u)' = PoolIndex(u) BY DEF PoolIndex, SameLocals
  <1>3. /\ pc[u] = "unlink" => PoolIndex(u) \in Stripes
        /\ pc[u] = "ret_push" => EntryStripe[dead[u]] \in Stripes
    BY LockedStripes
  <1>4. CASE UNCHANGED <<pool_locks, pool_free_lists>>
    BY <1>1, <1>2, <1>4 DEF HeadOK, SameLocals
  <1>5. ASSUME NEW i \in Stripes, pool_locks[i] = NoThread,
               pool_locks' = [pool_locks EXCEPT ![i] = t], UNCHANGED pool_free_lists
        PROVE  HeadOK(u)'
    BY <1>1, <1>2, <1>3, <1>5, TrackerConstants DEF HeadOK, SameLocals, TypeOK, SharedTypes
  <1>6. ASSUME NEW i \in Stripes, pool_locks[i] = t,
               pool_locks' = [pool_locks EXCEPT ![i] = NoThread],
               \A j \in Stripes \ {i} : pool_free_lists'[j] = pool_free_lists[j]
        PROVE  HeadOK(u)'
    BY <1>1, <1>2, <1>3, <1>6 DEF HeadOK, SameLocals, TypeOK, SharedTypes
  <1> QED BY <1>4, <1>5, <1>6 DEF PoolFrame

\* The steps that touch neither a lock nor a list of the pool, and end at a
\* point where no lock of the pool is held.
LEMMA HeadIdle ==
  ASSUME NEW t \in Threads, pc'[t] \notin {"unlink", "ret_push"}
  PROVE  HeadOK(t)'
  BY DEF HeadOK

\* A list head that was read is still there when it is unlinked.
LEMMA HeadStep ==
  ASSUME TypeOK, HeadInv, NEW t \in Threads, LocalOK(t),
         Step(t) \/ CallMallocFree(t) \/ ReallocStep(t) \/ CallRealloc(t)
  PROVE  PoolFrame(t) /\ HeadOK(t)'
  <1> USE DEF TypeOK, lockVars, poolVars
  <1>1. CASE PoolHead(t)
    <2>1. tgt[t] \in Addr BY <1>1 DEF PoolHead, LocalOK, OpAtPC, BlocksAtPC
    <2>2. PoolIndex(t) \in Stripes BY <2>1, TrackerConstants, PoolIndexRange DEF LocalTypes
    <2>3. CASE pool_free_lists[PoolIndex(t)] = {}
      <3>1. pc'[t] = "new" BY <1>1, <2>3 DEF PoolHead
      <3> QED BY <1>1, <2>3, <3>1, HeadIdle DEF PoolHead, PoolFrame
    <2>4. CASE pool_free_lists[PoolIndex(t)] # {}
      <3>1. /\ pool_locks[PoolIndex(t)] = NoThread
            /\ pool_locks' = [pool_locks EXCEPT ![PoolIndex(t)] = t]
            /\ UNCHANGED pool_free_lists
        BY <1>1, <2>4 DEF PoolHead, PoolLock
      <3>2. PoolIndex(t)' = PoolIndex(t) BY <1>1, <2>4 DEF PoolHead, PoolIndex
      <3>3. pc'[t] = "unlink" /\ ent'[t] \in pool_free_lists[PoolIndex(t)]
        BY <1>1, <2>4 DEF PoolHead, Goto, LocalTypes
      <3>4. HeadOK(t)' BY <2>2, <3>1, <3>2, <3>3 DEF HeadOK, SharedTypes
      <3> QED BY <2>2, <3>1, <3>4 DEF PoolFrame
    <2> QED BY <2>3, <2>4
  <1>2. CASE PoolUnlink(t)
    <2>1. PoolIndex(t) \in Stripes /\ pool_locks[PoolIndex(t)] = t
      BY <1>2, LockedStripes DEF PoolUnlink, HeadInv
    <2>2. pc'[t] \in {"del_lock", "ins_lock"} BY <1>2 DEF PoolUnlink, Fill, Goto, LocalTypes
    <2>3. \A j \in Stripes \ {PoolIndex(t)} : pool_free_lists'[j] = pool_free_lists[j]
      BY <1>2 DEF PoolUnlink, SharedTypes
    <2> QED BY <1>2, <2>1, <2>2, <2>3, HeadIdle DEF PoolUnlink, PoolUnlock, PoolFrame
  <1>3. CASE RetLock(t)
    <2>1. dead[t] \in Entries BY <1>3 DEF RetLock, LocalOK, RecordsAtPC, HasDead, RetPCs
    <2>2. EntryStripe[dead[t]] \in Stripes BY <2>1, TrackerConstants
    <2>3. pc'[t] = "ret_push" /\ UNCHANGED <<dead, pool_free_lists>>
      BY <1>3 DEF RetLock, Goto, LocalTypes, localVars
    <2> QED BY <1>3, <2>2, <2>3 DEF RetLock, PoolLock, PoolFrame, HeadOK, SharedTypes
  <1>4. CASE RetPush(t)
    <2>1. EntryStripe[dead[t]] \in Stripes /\ pool_locks[EntryStripe[dead[t]]] = t
      BY <1>4, LockedStripes DEF RetPush, HeadInv
    <2>2. pc'[t] = "ret_used" BY <1>4 DEF RetPush, Goto, LocalTypes
    <2>3. \A j \in Stripes \ {EntryStripe[dead[t]]} : pool_free_lists'[j] = pool_free_lists[j]
      BY <1>4 DEF RetPush, SharedTypes
    <2> QED BY <1>4, <2>1, <2>2, <2>3, HeadIdle DEF RetPush, PoolUnlock, PoolFrame
  <1> DEFINE Free0 == /\ UNCHANGED <<pool_locks, pool_free_lists>>
                      /\ pc'[t] \notin {"unlink", "ret_push"}
  <1>f. Free0 => PoolFrame(t) /\ HeadOK(t)' BY HeadIdle DEF PoolFrame
  <1>t. ASSUME NEW got, Return(t, got) PROVE pc'[t] = "idle"
    BY <1>t DEF Return, Goto, LocalTypes
  <1>5. ASSUME NEW sampled \in BOOLEAN, Track(t, sampled) PROVE Free0
    BY <1>5, <1>t DEF Track, Goto, LocalTypes
  <1>6. CASE ReCapacity(t) BY <1>6, <1>t, <1>f DEF ReCapacity, Goto, LocalTypes
  <1>7. CASE PoolSkip(t) BY <1>7, <1>f DEF PoolSkip
  <1>8. CASE RawNew(t) BY <1>8, <1>f DEF RawNew, Fill, Goto, LocalTypes
  <1>9. CASE GiveUp(t) BY <1>9, <1>t, <1>f DEF GiveUp
  <1>10. CASE InsLock(t) BY <1>10, <1>f DEF InsLock, Goto, LocalTypes
  <1>11. CASE InsBytes(t) \/ InsPeak(t) \/ InsMax(t)
    BY <1>11, <1>f DEF InsBytes, InsPeak, InsMax, Goto, LocalTypes
  <1>12. CASE InsAdd(t) BY <1>12, <1>t, <1>f DEF InsAdd, Goto, LocalTypes
  <1>13. CASE DelLock(t) BY <1>13, <1>f DEF DelLock, AfterDelete, Goto, LocalTypes
  <1>14. CASE DelSub(t) \/ DelUnlink(t)
    BY <1>14, <1>f DEF DelSub, DelUnlink, Goto, LocalTypes
  <1>a. AfterReturn(t) => pc'[t] \notin {"unlink", "ret_push"}
    BY <1>t DEF AfterReturn, AfterDelete, Goto, LocalTypes
  <1>15. CASE RetUsed(t) \/ RetRaw(t) BY <1>15, <1>a, <1>f DEF RetUsed, RetRaw
  <1>16. CASE RawFree(t) BY <1>16, <1>t, <1>f DEF RawFree
  <1>17. CASE ReFind(t) BY <1>17, <1>f DEF ReFind, Goto, LocalTypes
  <1>18. CASE ReFail(t) BY <1>18, <1>t, <1>f DEF ReFail
  <1>19. ASSUME NEW a \in Addr, ReRaw(t, a) PROVE Free0
    BY <1>19, <1>t DEF ReRaw, Goto, LocalTypes
  <1>20. ASSUME NEW a \in Addr, NEW n \in Sizes, Malloc(t, a, n) \/ MallocPass(t, a, n)
         PROVE  Free0
    BY <1>20 DEF Malloc, MallocPass, Begin, Goto, LocalTypes
  <1>21. ASSUME NEW p \in Addr, Free(t, p) \/ FreePass(t, p) PROVE Free0
    BY <1>21 DEF Free, FreePass, Begin, Goto, LocalTypes
  <1>22. ASSUME NEW p \in Addr, NEW n \in Sizes, Realloc(t, p, n) PROVE Free0
    BY <1>22 DEF Realloc, Begin, Goto, LocalTypes
  <1>23. ASSUME NEW p \in Addr, NEW a \in Addr, NEW n \in Sizes,
                ReallocCopy(t, p, a, n) \/ ReallocPass(t, p, a, n)
         PROVE  Free0
    BY <1>23 DEF ReallocCopy, ReallocPass, Begin, Goto, LocalTypes
  <1>24. CASE ApiUnsampled(t) BY <1>24, <1>t, <1>f DEF ApiUnsampled
  <1>s. Step(t) => PoolFrame(t) /\ HeadOK(t)'
    <2> HIDE DEF Free0
    <2> QED
      BY <1>24, <1>1, <1>2, <1>3, <1>4, <1>5, <1>6, <1>7, <1>8, <1>9, <1>10, <1>11, <1>12,
         <1>13, <1>14, <1>15, <1>16, <1>f DEF Step
  <1>c. CallMallocFree(t) \/ CallRealloc(t) => Free0
    <2> HIDE DEF Free0
    <2> QED BY <1>20, <1>21, <1>22, <1>23 DEF CallMallocFree, CallRealloc
  <1>r. ReallocStep(t) => PoolFrame(t) /\ HeadOK(t)'
    <2> HIDE DEF Free0
    <2> QED BY <1>17, <1>18, <1>19, <1>f DEF ReallocStep
  <1> QED BY <1>s, <1>c, <1>r, <1>f

-----------------------------------------------------------------------------
(* The inductive invariant.                                                *)

\* mtt_ensure_init deals every record out to exactly one free list.
LEMMA OwnershipInit == Init => OwnershipInv
  <1> SUFFICES ASSUME Init PROVE OwnershipInv OBVIOUS
  <1> USE TrackerConstants
  <1>1. TypeOK BY TypeInit
  <1>2. LocalsInv /\ HeadInv
    BY DEF Init, LocalsInv, HeadInv, OpAtPC, BlocksAtPC, RecordsAtPC, Filled, HasNew, HasDead,
       InsPCs, DelPCs, RetPCs
  <1>3. \A e \in Entries : e % NStripes \in Stripes
    BY ModRange DEF Entries, Stripes
  <1>4. \A t \in Threads, e \in Entries : ~HoldsNew(t, e) /\ ~HoldsDead(t, e)
    BY DEF Init, HoldsNew, HoldsDead
  <1>5. Single BY <1>4 DEF Init, Single
  <1>6. Apart BY <1>4 DEF Init, Apart, OnList, OnChain, InNew, InDead, InLibc
  <1>7. Somewhere BY <1>3 DEF Init, Somewhere, OnList, InLibc
  <1>8. ChainInv BY DEF Init, ChainInv
  <1> QED BY <1>1, <1>2, <1>5, <1>6, <1>7, <1>8 DEF OwnershipInv

\* No hook changes the mode.
LEMMA ModeFrame ==
  ASSUME NEW t \in Threads,
         Step(t) \/ CallMallocFree(t) \/ ReallocStep(t) \/ CallRealloc(t)
  PROVE  mode' = mode
  <1> USE DEF poolVars
  <1>1. CASE Step(t)
    <2>1. CASE \/ \E sampled \in BOOLEAN : Track(t, sampled)
               \/ ApiUnsampled(t) \/ ReCapacity(t) \/ PoolHead(t) \/ PoolSkip(t)
               \/ PoolUnlink(t) \/ RawNew(t) \/ GiveUp(t)
      BY <2>1 DEF Track, ApiUnsampled, ReCapacity, PoolHead, PoolSkip, PoolUnlink,
         RawNew, GiveUp
    <2>2. CASE \/ InsLock(t) \/ InsBytes(t) \/ InsPeak(t) \/ InsMax(t) \/ InsAdd(t)
               \/ DelLock(t) \/ DelSub(t) \/ DelUnlink(t)
      BY <2>2 DEF InsLock, InsBytes, InsPeak, InsMax, InsAdd, DelLock, DelSub, DelUnlink
    <2>3. CASE RetLock(t) \/ RetPush(t) \/ RetUsed(t) \/ RetRaw(t) \/ RawFree(t)
      BY <2>3 DEF RetLock, RetPush, RetUsed, RetRaw, RawFree
    <2> QED BY <1>1, <2>1, <2>2, <2>3 DEF Step
  <1>2. CASE CallMallocFree(t)
    BY <1>2 DEF CallMallocFree, Malloc, MallocPass, Free, FreePass
  <1>3. CASE ReallocStep(t) \/ CallRealloc(t)
    BY <1>3 DEF ReallocStep, ReFind, ReFail, ReRaw, CallRealloc, Realloc, ReallocCopy,
       ReallocPass
  <1> QED BY <1>1, <1>2, <1>3

\* A thread that does not move keeps its locals' part of the invariant, since
\* nobody writes to the record in its hand.
LEMMA OtherLocals ==
  ASSUME TypeOK, NEW u \in Threads, LocalOK(u), SameLocals(u), mode' = mode,
         \A e \in Entries : HoldsNew(u, e) => eptr'[e] = eptr[e]
  PROVE  LocalOK(u)'
  <1>1. HasNew(u)' <=> HasNew(u) BY DEF HasNew, SameLocals
  <1>2. HasDead(u)' <=> HasDead(u) BY DEF HasDead, SameLocals
  <1>3. OpAtPC(u)' BY DEF LocalOK, OpAtPC, SameLocals
  <1>4. BlocksAtPC(u)' BY DEF LocalOK, BlocksAtPC, SameLocals
  <1>5. RecordsAtPC(u)' BY <1>1, <1>2 DEF LocalOK, RecordsAtPC, SameLocals
  <1>6. Filled(u)'
    BY <1>1 DEF LocalOK, Filled, RecordsAtPC, HoldsNew, SameLocals
  <1> QED BY <1>3, <1>4, <1>5, <1>6 DEF LocalOK

\* Every step inside a hook keeps every record in exactly one place.
LEMMA StepKept ==
  ASSUME OwnershipInv, NEW t \in Threads,
         Step(t) \/ CallMallocFree(t) \/ ReallocStep(t) \/ CallRealloc(t)
  PROVE  Kept(t)
  <1>1. TypeOK /\ Placed /\ ChainInv /\ HeadInv /\ LocalOK(t)
    BY DEF OwnershipInv, Placed, LocalsInv, LocalOK
  <1>2. OthersSame(t) BY <1>1, LocalFrame DEF OthersSame, TypeOK
  <1>3. CASE CallMallocFree(t) \/ CallRealloc(t)
    BY <1>1, <1>2, <1>3, CallQuiet, QuietKept
  <1>4. CASE QuietStep(t) BY <1>1, <1>2, <1>4, StepQuiet, QuietKept
  <1>5. CASE PoolUnlink(t) BY <1>1, <1>2, <1>5, PoolUnlinkKept
  <1>6. CASE RawNew(t) BY <1>1, <1>2, <1>6, RawNewKept
  <1>7. CASE InsLock(t) /\ OverCapacity BY <1>1, <1>2, <1>7, OverCapacityKept
  <1>8. CASE InsAdd(t) BY <1>1, <1>2, <1>8, InsAddKept
  <1>9. CASE DelUnlink(t) BY <1>1, <1>2, <1>9, DelUnlinkKept
  <1>10. CASE RetPush(t) BY <1>1, <1>2, <1>10, RetPushKept
  <1>11. CASE RetRaw(t) BY <1>1, <1>2, <1>11, RetRawKept
  <1> QED BY <1>3, <1>4, <1>5, <1>6, <1>7, <1>8, <1>9, <1>10, <1>11 DEF Step, QuietStep

\* Every step keeps the inductive invariant.
LEMMA OwnershipStep == OwnershipInv /\ [Next]_vars => OwnershipInv'
  <1> SUFFICES ASSUME OwnershipInv, [Next]_vars PROVE OwnershipInv' OBVIOUS
  <1>1. TypeOK' BY TypeStep DEF OwnershipInv
  <1>2. CASE UNCHANGED vars
    <2> USE <1>2 DEF vars, libcVars, tableVars, lockVars, poolVars, localVars
    <2>1. LocalsInv'
      BY DEF OwnershipInv, LocalsInv, OpAtPC, BlocksAtPC, RecordsAtPC, Filled, HasNew, HasDead
    <2>2. HeadInv' BY DEF OwnershipInv, HeadInv, PoolIndex
    <2>3. Single' /\ ChainInv'
      BY DEF OwnershipInv, Single, ChainInv, HoldsNew, HoldsDead
    <2>4. Apart' /\ Somewhere'
      BY DEF OwnershipInv, Apart, Somewhere, OnList, OnChain, InNew, InDead, InLibc,
         HoldsNew, HoldsDead
    <2> QED BY <1>1, <2>1, <2>2, <2>3, <2>4 DEF OwnershipInv
  <1>3. ASSUME NEW t \in Threads,
               Step(t) \/ CallMallocFree(t) \/ ReallocStep(t) \/ CallRealloc(t)
        PROVE  OwnershipInv'
    <2>1. TypeOK /\ HeadInv /\ Apart /\ \A u \in Threads : LocalOK(u)
      BY DEF OwnershipInv, LocalsInv, LocalOK
    <2>2. OthersSame(t) BY <1>3, <2>1, LocalFrame DEF OthersSame, TypeOK
    <2>3. Kept(t) BY <1>3, StepKept
    <2>4. LocalOK(t)'
      BY <1>3, <2>1, CallLocals, NewLocals, InsertLocals, DeleteLocals, DelUnlinkLocals,
         GiveBackLocals, ReallocLocals DEF Step
    <2>5. \A u \in Threads \ {t} : LocalOK(u)'
      BY <1>3, <2>1, <2>2, <2>3, ModeFrame, OtherLocals DEF OthersSame, Kept, HandsFilled
    <2>6. LocalsInv' BY <2>4, <2>5 DEF LocalsInv, LocalOK
    <2>7. PoolFrame(t) /\ HeadOK(t)' BY <1>3, <2>1, HeadStep
    <2>8. \A u \in Threads \ {t} : HeadOK(u)'
      BY <2>1, <2>2, <2>7, HeadFrame DEF OthersSame
    <2>9. HeadInv' BY <2>7, <2>8 DEF HeadInv, HeadOK
    <2> QED BY <1>1, <2>3, <2>6, <2>9 DEF OwnershipInv, Kept, Placed
  <1> QED BY <1>2, <1>3 DEF Next

\* The inductive invariant holds in every state of every run of the hooks.
THEOREM OwnershipInvariant == Spec => []OwnershipInv
  BY OwnershipInit, OwnershipStep, PTL DEF Spec

\* Types are respected in every state, for every value of the constants.
THEOREM TypeCorrect == Spec => []TypeOK
  <1>1. OwnershipInv => TypeOK BY DEF OwnershipInv
  <1> QED BY <1>1, OwnershipInvariant, PTL

\* The inductive invariant implies that each record is in exactly one place.
LEMMA OwnershipGivesPartition == OwnershipInv => PoolPartition
  <1> SUFFICES ASSUME OwnershipInv, NEW e \in Entries
               PROVE  \E x \in Places(e) : Places(e) = {x}
    BY DEF PoolPartition
  <1> USE DEF OwnershipInv
  <1>1. CASE OnList(e)
    <2>1. PICK i \in Stripes : e \in pool_free_lists[i] BY <1>1 DEF OnList
    <2>2. /\ \A j \in Stripes : e \in pool_free_lists[j] => j = i
          /\ \A j \in Stripes : e \notin buckets[j]
          /\ \A u \in Threads : ~HoldsNew(u, e) /\ ~HoldsDead(u, e)
          /\ e \notin raw_entries
      BY <1>1, <2>1 DEF Single, Apart, OnChain, InNew, InDead, InLibc
    <2>3. Places(e) = {<<"list", i>>} BY <2>1, <2>2 DEF Places
    <2> QED BY <2>3
  <1>2. CASE OnChain(e)
    <2>1. PICK i \in Stripes : e \in buckets[i] BY <1>2 DEF OnChain
    <2>2. /\ \A j \in Stripes : e \in buckets[j] => j = i
          /\ \A j \in Stripes : e \notin pool_free_lists[j]
          /\ \A u \in Threads : ~HoldsNew(u, e) /\ ~HoldsDead(u, e)
          /\ e \notin raw_entries
      BY <1>2, <2>1 DEF Single, Apart, OnList, InNew, InDead, InLibc
    <2>3. Places(e) = {<<"chain", i>>} BY <2>1, <2>2 DEF Places
    <2> QED BY <2>3
  <1>3. CASE InNew(e)
    <2>1. PICK t \in Threads : HoldsNew(t, e) BY <1>3 DEF InNew
    <2>2. /\ \A u \in Threads : HoldsNew(u, e) => u = t
          /\ \A j \in Stripes : e \notin pool_free_lists[j] /\ e \notin buckets[j]
          /\ \A u \in Threads : ~HoldsDead(u, e)
          /\ e \notin raw_entries
      BY <1>3, <2>1 DEF Single, Apart, OnList, OnChain, InDead, InLibc
    <2>3. Places(e) = {<<"new", t>>} BY <2>1, <2>2 DEF Places
    <2> QED BY <2>3
  <1>4. CASE InDead(e)
    <2>1. PICK t \in Threads : HoldsDead(t, e) BY <1>4 DEF InDead
    <2>2. /\ \A u \in Threads : HoldsDead(u, e) => u = t
          /\ \A j \in Stripes : e \notin pool_free_lists[j] /\ e \notin buckets[j]
          /\ \A u \in Threads : ~HoldsNew(u, e)
          /\ e \notin raw_entries
      BY <1>4, <2>1 DEF Single, Apart, OnList, OnChain, InNew, InLibc
    <2>3. Places(e) = {<<"dead", t>>} BY <2>1, <2>2 DEF Places
    <2> QED BY <2>3
  <1>5. CASE InLibc(e)
    <2>1. /\ \A j \in Stripes : e \notin pool_free_lists[j] /\ e \notin buckets[j]
          /\ \A u \in Threads : ~HoldsNew(u, e) /\ ~HoldsDead(u, e)
          /\ e \in raw_entries
      BY <1>5 DEF Apart, OnList, OnChain, InNew, InDead, InLibc
    <2>2. Places(e) = {<<"libc", 0>>} BY <2>1 DEF Places
    <2> QED BY <2>2
  <1> QED BY <1>1, <1>2, <1>3, <1>4, <1>5 DEF Somewhere

\* No record is lost or owned twice, however many threads run hooks.
THEOREM RecordsPartitioned == Spec => []PoolPartition
  BY OwnershipInvariant, OwnershipGivesPartition, PTL

-----------------------------------------------------------------------------
(* The table: what its stripe locks protect, and that the counters agree   *)
(* with it.                                                                *)

\* A step of thread t.
Acts(t) == Step(t) \/ CallMallocFree(t) \/ ReallocStep(t) \/ CallRealloc(t)

\* The points of a hook between taking a stripe lock, or drawing a number, and
\* returning a record.
Busy == InsWindow \cup {"del_sub", "del_unlink"} \cup RetPCs

\* A step that touches no chain, no record, no stripe lock, no list and no
\* counter but skipped_overcap, outside those points.
Plain(t) ==
  /\ UNCHANGED <<mode, buckets, eptr, esize, enum, bucket_locks, pool_free_lists,
                 raw_entries, pool_used, entry_count, current_bytes, peak_bytes,
                 alloc_seq, free_count>>
  /\ pc[t] \notin Busy /\ pc'[t] \notin Busy
  /\ HasNew(t)' /\ pc'[t] # "unlink" =>
       HasNew(t) /\ pc[t] # "unlink" /\ ent'[t] = ent[t] /\ size'[t] = size[t]

PlainStep(t) ==
  \/ CallMallocFree(t) \/ CallRealloc(t) \/ ReallocStep(t)
  \/ \E sampled \in BOOLEAN : Track(t, sampled)
  \/ ApiUnsampled(t) \/ ReCapacity(t) \/ PoolHead(t) \/ PoolSkip(t) \/ GiveUp(t)
  \/ DelLock(t) /\ Matches(old[t]) = {}
  \/ RawFree(t)

\* The other steps.
OtherStep(t) ==
  \/ PoolUnlink(t) \/ RawNew(t)
  \/ InsLock(t) \/ InsBytes(t) \/ InsPeak(t) \/ InsMax(t) \/ InsAdd(t)
  \/ DelLock(t) /\ Matches(old[t]) # {}
  \/ DelSub(t) \/ DelUnlink(t)
  \/ RetLock(t) \/ RetPush(t) \/ RetUsed(t) \/ RetRaw(t)

\* Every step is one of the two kinds.
LEMMA TwoKinds ==
  ASSUME NEW t \in Threads, Acts(t)
  PROVE  PlainStep(t) \/ OtherStep(t)
  BY DEF Acts, Step, PlainStep, OtherStep

\* The locals of a thread whose hook has returned.
LEMMA ReturnEffects ==
  ASSUME LocalTypes, NEW t \in Threads, NEW got, Return(t, got)
  PROVE  pc'[t] = "idle" /\ op'[t] = "none" /\ ent'[t] = NoEntry /\ dead'[t] = NoEntry
         /\ ~discard'[t] /\ ~HasNew(t)'
  <1>1. pc'[t] = "idle" /\ op'[t] = "none" /\ ent'[t] = NoEntry /\ dead'[t] = NoEntry
        /\ ~discard'[t]
    BY DEF Return, Goto, LocalTypes
  <1> QED BY <1>1 DEF HasNew, InsPCs

\* The first kind.
LEMMA PlainEffects ==
  ASSUME TypeOK, NEW t \in Threads, LocalOK(t), PlainStep(t)
  PROVE  Plain(t)
  <1> USE DEF TypeOK, tableVars, poolVars, statVars, lockVars
  <1>r. ASSUME NEW got, Return(t, got) PROVE pc'[t] \notin Busy /\ ~HasNew(t)'
    BY <1>r, ReturnEffects DEF Busy, InsWindow, RetPCs
  <1>1. ASSUME NEW a \in Addr, NEW n \in Sizes, Malloc(t, a, n) PROVE Plain(t)
    BY <1>1 DEF Malloc, Begin, Goto, Plain, Busy, InsWindow, RetPCs, HasNew, InsPCs, DelPCs,
       LocalTypes
  <1>2. ASSUME NEW a \in Addr, NEW n \in Sizes, MallocPass(t, a, n) PROVE Plain(t)
    BY <1>2 DEF MallocPass, Plain, Busy, InsWindow, RetPCs, HasNew, InsPCs, DelPCs, localVars
  <1>3. ASSUME NEW p \in Addr, Free(t, p) PROVE Plain(t)
    BY <1>3 DEF Free, Begin, Goto, Plain, Busy, InsWindow, RetPCs, HasNew, InsPCs, DelPCs,
       LocalTypes
  <1>4. ASSUME NEW p \in Addr, FreePass(t, p) PROVE Plain(t)
    BY <1>4 DEF FreePass, Plain, Busy, InsWindow, RetPCs, HasNew, InsPCs, DelPCs, localVars
  <1>5. ASSUME NEW p \in Addr, NEW n \in Sizes, Realloc(t, p, n) PROVE Plain(t)
    BY <1>5 DEF Realloc, Begin, Goto, Plain, Busy, InsWindow, RetPCs, HasNew, InsPCs, DelPCs,
       LocalTypes
  <1>6. ASSUME NEW p \in Addr, NEW a \in Addr, NEW n \in Sizes, ReallocCopy(t, p, a, n)
        PROVE  Plain(t)
    BY <1>6 DEF ReallocCopy, Begin, Goto, Plain, Busy, InsWindow, RetPCs, HasNew, InsPCs,
       DelPCs, LocalTypes
  <1>7. ASSUME NEW p \in Addr, NEW a \in Addr, NEW n \in Sizes, ReallocPass(t, p, a, n)
        PROVE  Plain(t)
    BY <1>7 DEF ReallocPass, Plain, Busy, InsWindow, RetPCs, HasNew, InsPCs, DelPCs, localVars
  <1>8. CASE ReFind(t)
    BY <1>8 DEF ReFind, Goto, Plain, Busy, InsWindow, RetPCs, HasNew, InsPCs, DelPCs, LocalTypes
  <1>9. CASE ReFail(t)
    BY <1>9, <1>r DEF ReFail, Plain, Busy, InsWindow, RetPCs
  <1>10. ASSUME NEW a \in Addr, ReRaw(t, a) PROVE Plain(t)
    <2>1. op[t] = "realloc" BY <1>10 DEF ReRaw, LocalOK, OpAtPC
    <2>2. CASE found[t]
      BY <1>10, <2>1, <2>2 DEF ReRaw, Goto, Plain, Busy, InsWindow, RetPCs, HasNew, InsPCs,
         DelPCs, LocalTypes
    <2>3. CASE ~found[t]
      BY <1>10, <1>r, <2>3 DEF ReRaw, Plain, Busy, InsWindow, RetPCs
    <2> QED BY <2>2, <2>3
  <1>11. ASSUME NEW sampled \in BOOLEAN, Track(t, sampled) PROVE Plain(t)
    <2>1. CASE sampled /\ ~OverCapacity
      BY <1>11, <2>1 DEF Track, Goto, Plain, Busy, InsWindow, RetPCs, HasNew, InsPCs, DelPCs,
         LocalTypes
    <2>2. CASE ~(sampled /\ ~OverCapacity)
      BY <1>11, <1>r, <2>2 DEF Track, Plain, Busy, InsWindow, RetPCs
    <2> QED BY <2>1, <2>2
  <1>12. CASE ApiUnsampled(t)
    BY <1>12, <1>r DEF ApiUnsampled, Plain, Busy, InsWindow, RetPCs
  <1>13. CASE ReCapacity(t)
    <2>1. CASE ~OverCapacity
      BY <1>13, <2>1 DEF ReCapacity, Goto, Plain, Busy, InsWindow, RetPCs, HasNew, InsPCs,
         DelPCs, LocalTypes
    <2>2. CASE OverCapacity
      BY <1>13, <1>r, <2>2 DEF ReCapacity, Plain, Busy, InsWindow, RetPCs
    <2> QED BY <2>1, <2>2
  <1>14. CASE PoolHead(t)
    <2>1. pc[t] = "new" /\ pc'[t] \in {"new", "unlink"} /\ op' = op
      BY <1>14 DEF PoolHead, Goto, LocalTypes
    <2> QED BY <1>14, <2>1 DEF PoolHead, Plain, Busy, InsWindow, RetPCs, HasNew, InsPCs, DelPCs
  <1>15. CASE PoolSkip(t)
    BY <1>15 DEF PoolSkip, Plain, Busy, InsWindow, RetPCs, HasNew, InsPCs, DelPCs
  <1>16. CASE GiveUp(t)
    BY <1>16, <1>r DEF GiveUp, Plain, Busy, InsWindow, RetPCs
  <1>17. CASE DelLock(t) /\ Matches(old[t]) = {}
    <2>1. /\ pc[t] = "del_lock" /\ pc'[t] \in {"rawfree", "re_cap", "ins_lock"}
          /\ pc'[t] = "ins_lock" => op[t] = "copy"
      BY <1>17 DEF DelLock, AfterDelete, Goto, LocalTypes, LocalOK, OpAtPC, DelPCs
    <2> QED BY <1>17, <2>1 DEF DelLock, Plain, Busy, InsWindow, RetPCs, HasNew, InsPCs, DelPCs
  <1>18. CASE RawFree(t)
    BY <1>18, <1>r DEF RawFree, Plain, Busy, InsWindow, RetPCs
  <1> QED BY <1>1, <1>2, <1>3, <1>4, <1>5, <1>6, <1>7, <1>8, <1>9, <1>10, <1>11, <1>12,
             <1>13, <1>14, <1>15, <1>16, <1>17, <1>18
          DEF PlainStep, CallMallocFree, CallRealloc, ReallocStep

-----------------------------------------------------------------------------
(* What a step leaves alone.                                               *)

\* The locals that SameLocals leaves out.
SameSizes(u) == size'[u] = size[u] /\ cur'[u] = cur[u]

\* A step changes no other thread's size or loaded value.
LEMMA SizesFrame ==
  ASSUME LocalTypes, NEW t \in Threads, Acts(t), NEW u \in Threads \ {t}
  PROVE  SameSizes(u)
  <1> USE DEF LocalTypes, SameSizes, localVars
  <1>r. ASSUME NEW got, Return(t, got) PROVE SameSizes(u)
    BY <1>r DEF Return
  <1>1. CASE CallMallocFree(t)
    BY <1>1 DEF CallMallocFree, Malloc, MallocPass, Free, FreePass
  <1>2. CASE CallRealloc(t)
    BY <1>2 DEF CallRealloc, Realloc, ReallocCopy, ReallocPass
  <1>3. CASE ReFind(t) \/ ReFail(t) BY <1>3, <1>r DEF ReFind, ReFail
  <1>4. ASSUME NEW a \in Addr, ReRaw(t, a) PROVE SameSizes(u)
    BY <1>4, <1>r DEF ReRaw
  <1>5. ASSUME NEW sampled \in BOOLEAN, Track(t, sampled) PROVE SameSizes(u)
    BY <1>5, <1>r DEF Track
  <1>6. CASE ApiUnsampled(t) \/ ReCapacity(t) \/ RawFree(t)
    BY <1>6, <1>r DEF ApiUnsampled, ReCapacity, RawFree
  <1>7. CASE PoolHead(t) \/ PoolSkip(t) \/ PoolUnlink(t) \/ RawNew(t)
    BY <1>7 DEF PoolHead, PoolSkip, PoolUnlink, RawNew
  <1>8. CASE GiveUp(t) \/ InsAdd(t) BY <1>8, <1>r DEF GiveUp, InsAdd
  <1>9. CASE InsLock(t) \/ InsBytes(t) \/ InsPeak(t) \/ InsMax(t)
    BY <1>9 DEF InsLock, InsBytes, InsPeak, InsMax
  <1>10. CASE DelLock(t) \/ DelSub(t) \/ DelUnlink(t)
    BY <1>10 DEF DelLock, DelSub, DelUnlink
  <1>11. CASE RetLock(t) \/ RetPush(t) BY <1>11 DEF RetLock, RetPush
  <1>12. ASSUME AfterReturn(t) PROVE SameSizes(u)
    BY <1>12, <1>r DEF AfterReturn
  <1>13. CASE RetUsed(t) \/ RetRaw(t) BY <1>12, <1>13 DEF RetUsed, RetRaw
  <1> QED BY <1>1, <1>2, <1>3, <1>4, <1>5, <1>6, <1>7, <1>8, <1>9, <1>10, <1>11, <1>13
          DEF Acts, Step, ReallocStep

\* Only a record on a free list, in the thread's own hand, or on the chain
\* the thread has locked to unlink one, is written to.
FieldsSame(e) == eptr'[e] = eptr[e] /\ esize'[e] = esize[e] /\ enum'[e] = enum[e]

Writable(t, e) ==
  \/ OnList(e) \/ InLibc(e) \/ HoldsNew(t, e)
  \/ pc[t] = "del_unlink" /\ e \in buckets[AddrStripe[old[t]]]

\* The record a pool step picks is on a free list.
LEMMA HeadOnList ==
  ASSUME OwnershipInv, NEW t \in Threads, PoolUnlink(t)
  PROVE  OnList(ent[t]) /\ ent[t] \in Entries
  <1>1. TypeOK /\ LocalOK(t) /\ HeadInv BY DEF OwnershipInv, LocalsInv, LocalOK
  <1>2. PoolIndex(t) \in Stripes BY <1>1, LockedStripes DEF PoolUnlink
  <1>3. ent[t] \in pool_free_lists[PoolIndex(t)] BY <1>1 DEF HeadInv, PoolUnlink
  <1> QED BY <1>1, <1>2, <1>3 DEF OnList, TypeOK, SharedTypes

\* What a step may write to.
LEMMA FieldFrame ==
  ASSUME OwnershipInv, NEW t \in Threads, Acts(t), NEW e \in Entries, ~FieldsSame(e)
  PROVE  Writable(t, e)
  <1>0. TypeOK /\ LocalOK(t) BY DEF OwnershipInv, LocalsInv, LocalOK
  <1> USE DEF FieldsSame, Writable, tableVars
  <1>1. CASE PlainStep(t) BY <1>0, <1>1, PlainEffects DEF Plain
  <1>2. CASE PoolUnlink(t)
    <2>1. e = ent[t] BY <1>0, <1>2 DEF PoolUnlink, Fill, TypeOK, SharedTypes
    <2> QED BY <1>2, <2>1, HeadOnList
  <1>3. CASE RawNew(t)
    <2>1. PICK x \in raw_entries : Fill(t, x) BY <1>3 DEF RawNew
    <2>2. e = x BY <1>0, <2>1 DEF Fill, TypeOK, SharedTypes
    <2> QED BY <2>2 DEF InLibc
  <1>4. CASE InsLock(t)
    <2>1. e = ent[t] BY <1>0, <1>4 DEF InsLock, Wipe, TypeOK, SharedTypes
    <2> QED BY <1>4, <2>1 DEF HoldsNew, InsLock
  <1>5. CASE InsBytes(t) \/ InsPeak(t) \/ InsMax(t) \/ InsAdd(t) \/ DelLock(t) \/ DelSub(t)
    BY <1>5 DEF InsBytes, InsPeak, InsMax, InsAdd, DelLock, DelSub
  <1>6. CASE DelUnlink(t)
    <2>1. PICK x \in mtt_entry_find(old[t]) : Wipe(x) BY <1>6 DEF DelUnlink
    <2>2. x \in buckets[AddrStripe[old[t]]] BY <2>1 DEF mtt_entry_find, Matches
    <2>3. e = x BY <1>0, <2>1 DEF Wipe, TypeOK, SharedTypes
    <2> QED BY <1>6, <2>2, <2>3 DEF DelUnlink
  <1>7. CASE RetLock(t) \/ RetPush(t) \/ RetUsed(t) \/ RetRaw(t)
    BY <1>7 DEF RetLock, RetPush, RetUsed, RetRaw
  <1> QED BY <1>1, <1>2, <1>3, <1>4, <1>5, <1>6, <1>7, TwoKinds DEF OtherStep

\* The stripes of a thread's blocks.
LEMMA BlockStripes ==
  ASSUME OwnershipInv, NEW t \in Threads
  PROVE  /\ LocksNew(t) => tgt[t] \in Addr /\ AddrStripe[tgt[t]] \in Stripes
         /\ LocksOld(t) \/ pc[t] = "del_lock" =>
              old[t] \in Addr /\ AddrStripe[old[t]] \in Stripes
         /\ pc[t] = "ins_lock" => tgt[t] \in Addr /\ AddrStripe[tgt[t]] \in Stripes
  <1>1. OpAtPC(t) /\ BlocksAtPC(t) BY DEF OwnershipInv, LocalsInv
  <1>2. LocksNew(t) \/ pc[t] = "ins_lock" => tgt[t] \in Addr
    BY <1>1 DEF OpAtPC, BlocksAtPC, LocksNew, InsWindow, InsPCs, RetPCs
  <1>3. LocksOld(t) \/ pc[t] = "del_lock" => old[t] \in Addr
    BY <1>1 DEF OpAtPC, BlocksAtPC, LocksOld, DelPCs, RetPCs
  <1> QED BY <1>2, <1>3, TrackerConstants

\* The code after a record is given back drops the lock of its own stripe.
LEMMA AfterReturnLock ==
  ASSUME OwnershipInv, LockInv, NEW t \in Threads, pc[t] \in RetPCs, AfterReturn(t)
  PROVE  \/ bucket_locks' = bucket_locks
         \/ \E s \in Stripes : /\ bucket_locks[s] = t
                               /\ bucket_locks' = [bucket_locks EXCEPT ![s] = NoThread]
  <1>1. CASE ~discard[t]
    <2>1. LocksOld(t) BY <1>1 DEF LocksOld
    <2> QED BY <1>1, <2>1, BlockStripes DEF AfterReturn, StripeUnlock, LockInv
  <1>2. CASE discard[t] /\ op[t] = "realloc"
    <2>1. LocksNew(t) BY <1>2 DEF LocksNew
    <2> QED BY <1>2, <2>1, BlockStripes DEF AfterReturn, StripeUnlock, LockInv
  <1>3. CASE discard[t] /\ op[t] # "realloc"
    BY <1>3 DEF AfterReturn
  <1> QED BY <1>1, <1>2, <1>3

\* A step changes one stripe lock: it takes a free one or drops its own; and it
\* changes a chain only under its lock.
LockStep(t) ==
  \/ bucket_locks' = bucket_locks
  \/ \E s \in Stripes : /\ bucket_locks[s] = NoThread
                        /\ bucket_locks' = [bucket_locks EXCEPT ![s] = t]
  \/ \E s \in Stripes : /\ bucket_locks[s] = t
                        /\ bucket_locks' = [bucket_locks EXCEPT ![s] = NoThread]

ChainStep(t) ==
  \/ buckets' = buckets
  \/ \E s \in Stripes : /\ bucket_locks[s] = t
                        /\ \A r \in Stripes \ {s} : buckets'[r] = buckets[r]

\* Every step does.
LEMMA LockFrame ==
  ASSUME OwnershipInv, LockInv, NEW t \in Threads, Acts(t)
  PROVE  LockStep(t) /\ ChainStep(t)
  <1>0. TypeOK /\ LocalOK(t) BY DEF OwnershipInv, LocalsInv, LocalOK
  <1> USE DEF LockStep, ChainStep, lockVars, tableVars
  <1>1. CASE PlainStep(t) BY <1>0, <1>1, PlainEffects DEF Plain
  <1>2. CASE PoolUnlink(t) \/ RawNew(t) BY <1>2 DEF PoolUnlink, RawNew
  <1>3. CASE InsLock(t)
    BY <1>3, BlockStripes DEF InsLock, StripeLock
  <1>4. CASE InsBytes(t) \/ InsPeak(t) \/ InsMax(t) \/ DelSub(t)
    BY <1>4 DEF InsBytes, InsPeak, InsMax, DelSub
  <1>5. CASE InsAdd(t)
    <2>1. LocksNew(t) BY <1>5 DEF LocksNew, InsWindow, InsAdd
    <2>2. eptr[ent[t]] = tgt[t]
      BY <1>0, <1>5 DEF InsAdd, LocalOK, Filled, HasNew, InsPCs
    <2>3. /\ bucket_locks' = [bucket_locks EXCEPT ![AddrStripe[tgt[t]]] = NoThread]
          /\ buckets' = [buckets EXCEPT ![AddrStripe[tgt[t]]] = @ \cup {ent[t]}]
      BY <1>5, <2>2 DEF InsAdd, StripeUnlock
    <2> QED BY <1>0, <2>1, <2>3, BlockStripes DEF LockInv, TypeOK, SharedTypes
  <1>6. CASE DelLock(t)
    BY <1>6, BlockStripes DEF DelLock, StripeLock
  <1>7. CASE DelUnlink(t)
    <2>1. LocksOld(t) BY <1>7 DEF LocksOld, DelUnlink
    <2>2. PICK x : buckets' = [buckets EXCEPT ![AddrStripe[old[t]]] = @ \ {x}]
      BY <1>7 DEF DelUnlink
    <2> QED BY <1>0, <1>7, <2>1, <2>2, BlockStripes DEF DelUnlink, LockInv, TypeOK, SharedTypes
  <1>8. CASE RetLock(t) \/ RetPush(t) BY <1>8 DEF RetLock, RetPush
  <1>9. CASE RetUsed(t) \/ RetRaw(t)
    <2>1. AfterReturn(t) /\ pc[t] \in RetPCs /\ buckets' = buckets
      BY <1>9 DEF RetUsed, RetRaw, RetPCs
    <2> QED BY <2>1, AfterReturnLock
  <1> QED BY <1>1, <1>2, <1>3, <1>4, <1>5, <1>6, <1>7, <1>8, <1>9, TwoKinds DEF OtherStep

-----------------------------------------------------------------------------
(* The chains.                                                             *)

\* What LockInv, FoundInv, SizeInv and NumberInv say of one thread.
ThreadChains(t) ==
  /\ LocksNew(t) => bucket_locks[AddrStripe[tgt[t]]] = t
  /\ LocksOld(t) => bucket_locks[AddrStripe[old[t]]] = t
  /\ pc[t] \in {"del_sub", "del_unlink"} => dead[t] \in mtt_entry_find(old[t])
  /\ HasNew(t) /\ pc[t] # "unlink" => esize[ent[t]] = size[t]
  /\ pc[t] \in InsWindow => enum[ent[t]] # 0

\* And of the records.
Numbers ==
  /\ \A e \in Entries : enum[e] <= alloc_seq
  /\ \A e, f \in Entries : enum[e] = enum[f] /\ enum[e] # 0 => e = f
  /\ \A e \in Entries : OnChain(e) => enum[e] # 0

\* Together they are the invariant of the chains.
LEMMA ChainsParts == ChainsInv <=> Numbers /\ \A t \in Threads : ThreadChains(t)
  BY DEF ChainsInv, LockInv, FoundInv, SizeInv, NumberInv, Numbers, ThreadChains

\* The same of the next state.
LEMMA ChainsPartsNext == ChainsInv' <=> Numbers' /\ \A t \in Threads : ThreadChains(t)'
  BY DEF ChainsInv, LockInv, FoundInv, SizeInv, NumberInv, Numbers, ThreadChains

\* A chain another thread has locked does not change, nor do its records.
LEMMA LockedChain ==
  ASSUME OwnershipInv, ChainsInv, NEW t \in Threads, Acts(t),
         NEW s \in Stripes, bucket_locks[s] # t
  PROVE  buckets'[s] = buckets[s] /\ \A e \in buckets[s] : FieldsSame(e)
  <1>1. LockInv BY DEF ChainsInv
  <1>2. buckets'[s] = buckets[s] BY <1>1, LockFrame DEF ChainStep
  <1>3. ASSUME NEW e \in buckets[s], ~FieldsSame(e) PROVE FALSE
    <2>1. e \in Entries /\ OnChain(e) BY DEF OwnershipInv, TypeOK, SharedTypes, OnChain
    <2>2. Writable(t, e) BY <1>3, <2>1, FieldFrame
    <2>3. ~OnList(e) /\ ~InLibc(e) /\ ~HoldsNew(t, e)
      BY <2>1 DEF OwnershipInv, Apart, InNew
    <2>4. pc[t] = "del_unlink" /\ e \in buckets[AddrStripe[old[t]]]
      BY <2>2, <2>3 DEF Writable
    <2>5. LocksOld(t) BY <2>4 DEF LocksOld
    <2>6. AddrStripe[old[t]] \in Stripes /\ bucket_locks[AddrStripe[old[t]]] = t
      BY <1>1, <2>5, BlockStripes DEF LockInv
    <2>7. s = AddrStripe[old[t]] BY <2>1, <2>4, <2>6 DEF OwnershipInv, Single
    <2> QED BY <2>6, <2>7
  <1> QED BY <1>2, <1>3

\* A lookup in a chain that does not change finds the same record.
LEMMA SameFind ==
  ASSUME NEW p \in Addr, NEW q, q = p,
         buckets'[AddrStripe[p]] = buckets[AddrStripe[p]],
         \A e \in buckets[AddrStripe[p]] : FieldsSame(e)
  PROVE  mtt_entry_find(q)' = mtt_entry_find(p) /\ Matches(q)' = Matches(p)
  <1>1. Matches(q)' = Matches(p) BY DEF Matches, FieldsSame
  <1>2. \A e \in Matches(p) : enum'[e] = enum[e] BY DEF Matches, FieldsSame
  <1> QED BY <1>1, <1>2 DEF mtt_entry_find

\* The part of a thread that does not move.
LEMMA OtherChains ==
  ASSUME OwnershipInv, ChainsInv, NEW t \in Threads, Acts(t), NEW u \in Threads \ {t}
  PROVE  ThreadChains(u)'
  <1>1. TypeOK /\ LockInv /\ ThreadChains(u) /\ LocalOK(u)
    BY ChainsParts DEF OwnershipInv, ChainsInv, LocalsInv, LocalOK
  <1>2. SameLocals(u) /\ SameSizes(u)
    BY <1>1, LocalFrame, SizesFrame DEF TypeOK, Acts
  <1>3. \A s \in Stripes : bucket_locks[s] = u => bucket_locks'[s] = u
    BY <1>1, LockFrame, TrackerConstants DEF LockStep, TypeOK, SharedTypes
  <1>4. LocksNew(u)' => bucket_locks'[AddrStripe[tgt'[u]]] = u
    BY <1>1, <1>2, <1>3, BlockStripes DEF LocksNew, SameLocals, ThreadChains
  <1>5. LocksOld(u)' => bucket_locks'[AddrStripe[old'[u]]] = u
    BY <1>1, <1>2, <1>3, BlockStripes DEF LocksOld, SameLocals, ThreadChains
  <1>6. pc'[u] \in {"del_sub", "del_unlink"} => dead'[u] \in mtt_entry_find(old[u])'
    <2> SUFFICES ASSUME pc[u] \in {"del_sub", "del_unlink"}
                 PROVE  dead'[u] \in mtt_entry_find(old[u])'
      BY <1>2 DEF SameLocals
    <2>1. LocksOld(u) BY DEF LocksOld
    <2>2. /\ old[u] \in Addr /\ AddrStripe[old[u]] \in Stripes
          /\ bucket_locks[AddrStripe[old[u]]] # t
      BY <1>1, <2>1, BlockStripes DEF ThreadChains
    <2>3. /\ buckets'[AddrStripe[old[u]]] = buckets[AddrStripe[old[u]]]
          /\ \A e \in buckets[AddrStripe[old[u]]] : FieldsSame(e)
      BY <2>2, LockedChain
    <2>4. old'[u] = old[u] /\ dead'[u] = dead[u] BY <1>2 DEF SameLocals
    <2>5. mtt_entry_find(old[u])' = mtt_entry_find(old[u]) BY <2>2, <2>3, <2>4, SameFind
    <2> QED BY <1>1, <2>4, <2>5 DEF ThreadChains
  <1>7. HasNew(u) /\ pc[u] # "unlink" => FieldsSame(ent[u]) /\ ent[u] \in Entries
    <2> SUFFICES ASSUME HasNew(u), pc[u] # "unlink"
                 PROVE  FieldsSame(ent[u]) /\ ent[u] \in Entries
      OBVIOUS
    <2>1. ent[u] \in Entries /\ HoldsNew(u, ent[u])
      BY <1>1 DEF LocalOK, RecordsAtPC, HoldsNew
    <2>2. ~Writable(t, ent[u])
      <3>1. InNew(ent[u]) BY <2>1 DEF InNew
      <3>2. ~OnList(ent[u]) /\ ~InLibc(ent[u]) /\ ~OnChain(ent[u]) /\ ~HoldsNew(t, ent[u])
        BY <2>1, <3>1 DEF OwnershipInv, Apart, Single
      <3>3. pc[t] = "del_unlink" => AddrStripe[old[t]] \in Stripes
        BY BlockStripes DEF LocksOld
      <3> QED BY <3>2, <3>3 DEF Writable, OnChain
    <2> QED BY <2>1, <2>2, FieldFrame
  <1>8. (HasNew(u)' <=> HasNew(u)) /\ (pc'[u] \in InsWindow => HasNew(u) /\ pc[u] # "unlink")
    BY <1>2 DEF HasNew, SameLocals, InsWindow, InsPCs
  <1>9. /\ HasNew(u)' /\ pc'[u] # "unlink" => esize'[ent'[u]] = size'[u]
        /\ pc'[u] \in InsWindow => enum'[ent'[u]] # 0
    BY <1>1, <1>2, <1>7, <1>8 DEF ThreadChains, FieldsSame, SameLocals, SameSizes
  <1> QED BY <1>4, <1>5, <1>6, <1>9 DEF ThreadChains

\* Giving a record back ends outside the points the parts speak of.
LEMMA AfterReturnEffects ==
  ASSUME TypeOK, NEW t \in Threads, LocalOK(t), pc[t] \in RetPCs, AfterReturn(t)
  PROVE  /\ pc'[t] \in {"rawfree", "idle", "re_cap", "ins_lock"}
         /\ HasNew(t)' => HasNew(t) /\ ent'[t] = ent[t] /\ size'[t] = size[t]
  <1> USE DEF TypeOK
  <1>1. CASE discard[t] /\ op[t] = "copy"
    <2>1. pc'[t] = "rawfree" BY <1>1 DEF AfterReturn, Goto, LocalTypes
    <2> QED BY <2>1 DEF HasNew, InsPCs, DelPCs, RetPCs
  <1>2. CASE discard[t] /\ op[t] # "copy"
    BY <1>2, ReturnEffects DEF AfterReturn
  <1>3. CASE ~discard[t]
    <2>1. /\ pc'[t] = AfterDelete(t) /\ op' = op /\ ent' = ent /\ size' = size
      BY <1>3 DEF AfterReturn, Goto, LocalTypes
    <2>2. pc'[t] \in {"rawfree", "re_cap", "ins_lock"} BY <2>1 DEF AfterDelete
    <2>3. pc'[t] = "ins_lock" => op[t] = "copy"
      BY <1>3, <2>1 DEF AfterDelete, LocalOK, OpAtPC
    <2> QED BY <1>3, <2>1, <2>2, <2>3 DEF HasNew, InsPCs, DelPCs, RetPCs
  <1> QED BY <1>1, <1>2, <1>3

\* A step to a point outside them.
LEMMA OutsideChains ==
  ASSUME NEW t \in Threads, pc'[t] \notin Busy,
         HasNew(t)' /\ pc'[t] # "unlink" => esize'[ent'[t]] = size'[t]
  PROVE  ThreadChains(t)'
  BY DEF ThreadChains, Busy, LocksNew, LocksOld

\* The part of the thread that moves.
LEMMA OwnChains ==
  ASSUME OwnershipInv, ChainsInv, NEW t \in Threads, Acts(t)
  PROVE  ThreadChains(t)'
  <1>0. TypeOK /\ LocalOK(t) /\ ThreadChains(t)
    BY ChainsParts DEF OwnershipInv, LocalsInv, LocalOK
  <1> USE DEF TypeOK
  <1>1. CASE PlainStep(t)
    BY <1>0, <1>1, PlainEffects, OutsideChains DEF Plain, ThreadChains
  <1>f. ASSUME NEW e \in Entries, Fill(t, e), size' = size PROVE ThreadChains(t)'
    <2>1. /\ ent'[t] = e /\ esize'[e] = size[t] /\ pc'[t] \in {"del_lock", "ins_lock"}
      BY <1>0, <1>f DEF Fill, Goto, LocalTypes, SharedTypes
    <2> QED BY <1>f, <2>1, OutsideChains DEF Busy, InsWindow, RetPCs
  <1>2. CASE PoolUnlink(t)
    BY <1>2, <1>f, HeadOnList DEF PoolUnlink
  <1>3. CASE RawNew(t)
    <2>1. PICK e \in raw_entries : Fill(t, e) BY <1>3 DEF RawNew
    <2>2. e \in Entries /\ size' = size BY <1>0, <1>3 DEF RawNew, SharedTypes
    <2> QED BY <2>1, <2>2, <1>f
  <1>4. CASE InsLock(t) /\ ~OverCapacity
    <2>1. /\ pc'[t] = "ins_bytes" /\ UNCHANGED <<tgt, ent, size, esize, op, discard>>
          /\ pc[t] = "ins_lock" /\ enum' = [enum EXCEPT ![ent[t]] = alloc_seq + 1]
          /\ bucket_locks' = [bucket_locks EXCEPT ![AddrStripe[tgt[t]]] = t]
      BY <1>0, <1>4 DEF InsLock, StripeLock, Goto, LocalTypes
    <2>2. HasNew(t) /\ ent[t] \in Entries
      BY <1>0, <2>1 DEF HasNew, InsPCs, LocalOK, RecordsAtPC
    <2>3. enum'[ent[t]] # 0 /\ bucket_locks'[AddrStripe[tgt[t]]] = t
      BY <1>0, <2>1, <2>2, BlockStripes DEF SharedTypes
    <2>4. ~LocksOld(t)' BY <2>1 DEF LocksOld, RetPCs
    <2> QED BY <1>0, <2>1, <2>2, <2>3, <2>4 DEF ThreadChains
  <1>5. CASE InsLock(t) /\ OverCapacity
    <2>1. /\ pc'[t] = "ret_lock" /\ discard'[t] /\ UNCHANGED <<tgt, op>>
          /\ op[t] = "realloc" =>
               bucket_locks' = [bucket_locks EXCEPT ![AddrStripe[tgt[t]]] = t]
          /\ pc[t] = "ins_lock"
      BY <1>0, <1>5 DEF InsLock, StripeLock, Goto, LocalTypes
    <2>2. ~HasNew(t)' /\ ~LocksOld(t)' /\ pc'[t] \notin InsWindow
      BY <2>1 DEF HasNew, LocksOld, InsPCs, DelPCs, InsWindow
    <2>3. LocksNew(t)' => bucket_locks'[AddrStripe[tgt'[t]]] = t
      BY <1>0, <2>1, <2>2, BlockStripes DEF LocksNew, SharedTypes
    <2> QED BY <2>1, <2>2, <2>3 DEF ThreadChains
  <1>6. CASE InsBytes(t) \/ InsPeak(t) \/ InsMax(t)
    <2>1. /\ pc[t] \in InsWindow /\ pc'[t] \in InsWindow /\ pc[t] # "unlink"
          /\ UNCHANGED <<tgt, ent, size, esize, enum, bucket_locks>>
      BY <1>0, <1>6 DEF InsBytes, InsPeak, InsMax, Goto, LocalTypes, InsWindow, localVars,
         tableVars, lockVars
    <2>2. HasNew(t) /\ LocksNew(t) /\ ~LocksOld(t)' /\ pc'[t] \notin {"del_sub", "del_unlink"}
      BY <2>1 DEF HasNew, InsPCs, InsWindow, LocksNew, LocksOld, RetPCs
    <2> QED BY <1>0, <2>1, <2>2 DEF ThreadChains
  <1>7. CASE InsAdd(t)
    <2>1. pc'[t] \in {"rawfree", "idle"}
      BY <1>0, <1>7, ReturnEffects DEF InsAdd, Goto, LocalTypes
    <2> QED BY <2>1, OutsideChains DEF Busy, InsWindow, RetPCs, HasNew, InsPCs, DelPCs
  <1>8. CASE DelLock(t) /\ Matches(old[t]) # {}
    <2>1. /\ pc[t] = "del_lock" /\ pc'[t] = "del_sub"
          /\ bucket_locks' = [bucket_locks EXCEPT ![AddrStripe[old[t]]] = t]
          /\ UNCHANGED <<old, ent, size, esize, enum, eptr, buckets, op>>
          /\ dead'[t] \in mtt_entry_find(old[t])
      BY <1>0, <1>8 DEF DelLock, StripeLock, Goto, LocalTypes, tableVars
    <2>2. mtt_entry_find(old[t])' = mtt_entry_find(old[t])
      BY <2>1 DEF mtt_entry_find, Matches
    <2>3. bucket_locks'[AddrStripe[old[t]]] = t
      BY <1>0, <2>1, BlockStripes DEF SharedTypes
    <2>4. HasNew(t)' => HasNew(t) /\ pc[t] # "unlink"
      BY <2>1 DEF HasNew, InsPCs, DelPCs, RetPCs
    <2>5. ~LocksNew(t)' /\ pc'[t] \notin InsWindow BY <2>1 DEF LocksNew, InsWindow, RetPCs
    <2> QED BY <1>0, <2>1, <2>2, <2>3, <2>4, <2>5 DEF ThreadChains
  <1>9. CASE DelSub(t)
    <2>1. /\ pc[t] = "del_sub" /\ pc'[t] = "del_unlink"
          /\ UNCHANGED <<old, dead, ent, size, esize, enum, eptr, buckets, op, bucket_locks>>
      BY <1>0, <1>9 DEF DelSub, Goto, LocalTypes, tableVars, lockVars, localVars
    <2>2. mtt_entry_find(old[t])' = mtt_entry_find(old[t])
      BY <2>1 DEF mtt_entry_find, Matches
    <2>3. LocksOld(t) /\ ~LocksNew(t)' /\ pc'[t] \notin InsWindow
      BY <2>1 DEF LocksOld, LocksNew, InsWindow, RetPCs
    <2>4. HasNew(t)' => HasNew(t) /\ pc[t] # "unlink"
      BY <2>1 DEF HasNew, InsPCs, DelPCs, RetPCs
    <2> QED BY <1>0, <2>1, <2>2, <2>3, <2>4 DEF ThreadChains
  <1>10. CASE DelUnlink(t)
    <2>1. /\ pc[t] = "del_unlink" /\ pc'[t] = "ret_lock"
          /\ UNCHANGED <<old, ent, size, op, discard, bucket_locks>>
      BY <1>0, <1>10 DEF DelUnlink, Goto, LocalTypes, lockVars
    <2>2. ~discard[t] BY <1>0, <2>1 DEF LocalOK, OpAtPC, RetPCs
    <2>3. LocksOld(t) /\ ~LocksNew(t)' /\ pc'[t] \notin InsWindow
      BY <2>1, <2>2 DEF LocksOld, LocksNew, InsWindow, RetPCs
    <2>4. HasNew(t)' => HasNew(t) /\ pc[t] # "unlink"
      BY <2>1, <2>2 DEF HasNew, InsPCs, DelPCs, RetPCs
    <2>5. HasNew(t) => FieldsSame(ent[t])
      <3> SUFFICES ASSUME HasNew(t) PROVE FieldsSame(ent[t]) OBVIOUS
      <3>1. PICK x \in mtt_entry_find(old[t]) : Wipe(x) BY <1>10 DEF DelUnlink
      <3>2. AddrStripe[old[t]] \in Stripes BY <2>3, BlockStripes
      <3>3. x \in buckets[AddrStripe[old[t]]] BY <3>1 DEF mtt_entry_find, Matches
      <3>4. x \in Entries /\ OnChain(x) BY <1>0, <3>2, <3>3 DEF OnChain, SharedTypes
      <3>5. ent[t] \in Entries /\ InNew(ent[t])
        BY <1>0, <2>1 DEF LocalOK, RecordsAtPC, InNew, HoldsNew
      <3>6. x # ent[t] BY <3>4, <3>5 DEF OwnershipInv, Apart
      <3> QED BY <1>0, <3>1, <3>4, <3>5, <3>6 DEF Wipe, FieldsSame, SharedTypes
    <2> QED BY <1>0, <2>1, <2>3, <2>4, <2>5 DEF ThreadChains, FieldsSame
  <1>11. CASE RetLock(t) \/ RetPush(t)
    <2>1. /\ pc[t] \in RetPCs /\ pc'[t] \in RetPCs
          /\ UNCHANGED <<old, tgt, ent, size, esize, op, discard, bucket_locks>>
      BY <1>0, <1>11 DEF RetLock, RetPush, Goto, LocalTypes, tableVars, localVars, RetPCs
    <2>2. /\ LocksOld(t)' => LocksOld(t)
          /\ LocksNew(t)' => LocksNew(t)
          /\ HasNew(t)' => HasNew(t) /\ pc[t] # "unlink"
          /\ pc'[t] \notin InsWindow /\ pc'[t] \notin {"del_sub", "del_unlink"}
      BY <2>1 DEF LocksOld, LocksNew, HasNew, InsWindow, InsPCs, DelPCs, RetPCs
    <2> QED BY <1>0, <2>1, <2>2 DEF ThreadChains
  <1>12. CASE RetUsed(t) \/ RetRaw(t)
    <2>1. AfterReturn(t) /\ pc[t] \in RetPCs /\ esize' = esize
      BY <1>12 DEF RetUsed, RetRaw, RetPCs, tableVars
    <2>2. pc[t] # "unlink" BY <2>1 DEF RetPCs
    <2> QED BY <1>0, <2>1, <2>2, AfterReturnEffects, OutsideChains
            DEF ThreadChains, Busy, InsWindow, RetPCs
  <1> QED BY <1>1, <1>2, <1>3, <1>4, <1>5, <1>6, <1>7, <1>8, <1>9, <1>10, <1>11, <1>12,
             TwoKinds DEF OtherStep

\* The numbers of the records.
LEMMA NumbersStep ==
  ASSUME OwnershipInv, ChainsInv, NEW t \in Threads, Acts(t)
  PROVE  Numbers'
  <1>0. TypeOK /\ LocalOK(t) /\ ThreadChains(t) /\ Numbers
    BY ChainsParts DEF OwnershipInv, LocalsInv, LocalOK
  <1> USE DEF TypeOK
  <1>s. ASSUME UNCHANGED <<enum, alloc_seq, buckets>> PROVE Numbers'
    BY <1>0, <1>s DEF Numbers, OnChain
  <1>1. CASE PlainStep(t) BY <1>0, <1>1, <1>s, PlainEffects DEF Plain
  <1>f. ASSUME NEW x \in Entries, enum' = [enum EXCEPT ![x] = 0], alloc_seq' = alloc_seq,
               \A e \in Entries : OnChain(e)' => OnChain(e) /\ e # x
        PROVE  Numbers'
    BY <1>0, <1>f DEF Numbers, SharedTypes
  <1>2. CASE PoolUnlink(t)
    <2>1. /\ enum' = [enum EXCEPT ![ent[t]] = 0] /\ alloc_seq' = alloc_seq
          /\ buckets' = buckets
      BY <1>2 DEF PoolUnlink, Fill, statVars
    <2>2. ent[t] \in Entries /\ ~OnChain(ent[t])
      BY <1>2, HeadOnList DEF OwnershipInv, Apart
    <2> QED BY <1>f, <2>1, <2>2 DEF OnChain
  <1>3. CASE RawNew(t)
    <2>1. PICK x \in raw_entries : enum' = [enum EXCEPT ![x] = 0]
      BY <1>3 DEF RawNew, Fill
    <2>2. x \in Entries /\ ~OnChain(x)
      BY <1>0, <2>1 DEF OwnershipInv, Apart, InLibc, SharedTypes
    <2>3. alloc_seq' = alloc_seq /\ buckets' = buckets BY <1>3 DEF RawNew, statVars
    <2> QED BY <1>f, <2>1, <2>2, <2>3 DEF OnChain
  <1>4. CASE InsLock(t) /\ ~OverCapacity
    <2>1. /\ enum' = [enum EXCEPT ![ent[t]] = alloc_seq + 1]
          /\ alloc_seq' = alloc_seq + 1 /\ buckets' = buckets
      BY <1>4 DEF InsLock
    <2> QED BY <1>0, <2>1 DEF Numbers, OnChain, SharedTypes
  <1>5. CASE InsLock(t) /\ OverCapacity
    <2>1. /\ enum' = [enum EXCEPT ![ent[t]] = 0] /\ alloc_seq' = alloc_seq
          /\ buckets' = buckets /\ pc[t] = "ins_lock"
      BY <1>5 DEF InsLock, Wipe
    <2>2. ent[t] \in Entries /\ InNew(ent[t])
      BY <1>0, <2>1 DEF LocalOK, RecordsAtPC, HasNew, InsPCs, InNew, HoldsNew
    <2>3. ~OnChain(ent[t]) BY <2>2 DEF OwnershipInv, Apart
    <2> QED BY <1>f, <2>1, <2>2, <2>3 DEF OnChain
  <1>6. CASE InsBytes(t) \/ InsPeak(t) \/ InsMax(t) \/ DelLock(t) \/ DelSub(t)
    BY <1>6, <1>s DEF InsBytes, InsPeak, InsMax, DelLock, DelSub, tableVars, statVars
  <1>7. CASE InsAdd(t)
    <2>1. /\ UNCHANGED <<enum, alloc_seq>>
          /\ \A e \in Entries : OnChain(e)' => OnChain(e) \/ e = ent[t]
      BY <1>0, <1>7 DEF InsAdd, OnChain, SharedTypes
    <2>2. enum[ent[t]] # 0 BY <1>0, <1>7 DEF InsAdd, ThreadChains, InsWindow
    <2> QED BY <1>0, <2>1, <2>2 DEF Numbers
  <1>8. CASE DelUnlink(t)
    <2>1. PICK x \in mtt_entry_find(old[t]) :
            /\ buckets' = [buckets EXCEPT ![AddrStripe[old[t]]] = @ \ {x}]
            /\ enum' = [enum EXCEPT ![x] = 0]
      BY <1>8 DEF DelUnlink, Wipe
    <2>2. AddrStripe[old[t]] \in Stripes BY <1>8, BlockStripes DEF DelUnlink, LocksOld
    <2>3. x \in buckets[AddrStripe[old[t]]] BY <2>1 DEF mtt_entry_find, Matches
    <2>4. x \in Entries BY <1>0, <2>2, <2>3 DEF SharedTypes
    <2>5. \A s \in Stripes : x \notin buckets'[s]
      BY <1>0, <2>1, <2>2, <2>3, <2>4 DEF OwnershipInv, Single, SharedTypes
    <2>6. \A e \in Entries : OnChain(e)' => OnChain(e)
      BY <1>0, <2>1 DEF OnChain, SharedTypes
    <2>7. alloc_seq' = alloc_seq BY <1>8 DEF DelUnlink
    <2>8. \A e \in Entries : OnChain(e)' => e # x BY <2>5 DEF OnChain
    <2> QED BY <1>f, <2>1, <2>4, <2>6, <2>7, <2>8
  <1>9. CASE RetLock(t) \/ RetPush(t) \/ RetUsed(t) \/ RetRaw(t)
    BY <1>9, <1>s DEF RetLock, RetPush, RetUsed, RetRaw, tableVars, statVars
  <1> QED BY <1>1, <1>2, <1>3, <1>4, <1>5, <1>6, <1>7, <1>8, <1>9, TwoKinds DEF OtherStep

\* The chains after mtt_ensure_init.
LEMMA ChainsInit == Init => ChainsInv
  BY TrackerConstants
     DEF Init, ChainsInv, LockInv, NumberInv, FoundInv, SizeInv, LocksNew, LocksOld, HasNew,
         OnChain, InsWindow, InsPCs, RetPCs

\* Every step keeps the invariant of the chains.
LEMMA ChainsStep == OwnershipInv /\ ChainsInv /\ [Next]_vars => ChainsInv'
  <1> SUFFICES ASSUME OwnershipInv, ChainsInv, [Next]_vars PROVE ChainsInv' OBVIOUS
  <1>1. CASE UNCHANGED vars
    BY <1>1 DEF vars, tableVars, lockVars, statVars, localVars, ChainsInv, LockInv, NumberInv,
       FoundInv, SizeInv, LocksNew, LocksOld, HasNew, OnChain, mtt_entry_find, Matches
  <1>2. ASSUME NEW t \in Threads, Acts(t) PROVE ChainsInv'
    BY <1>2, OwnChains, OtherChains, NumbersStep, ChainsPartsNext
  <1> QED BY <1>1, <1>2 DEF Next, Acts

\* While a hook inserts, deletes or gives back a record, it has the lock of
\* the stripe, the record it found is still the one to delete, and its number
\* tells it apart (hooks.c:268-309 and 390-411, tracker.c:841-953).
THEOREM ChainsInvariant == Spec => [](OwnershipInv /\ ChainsInv)
  <1>1. Init => OwnershipInv /\ ChainsInv BY OwnershipInit, ChainsInit
  <1>2. OwnershipInv /\ ChainsInv /\ [Next]_vars => (OwnershipInv /\ ChainsInv)'
    BY OwnershipStep, ChainsStep
  <1> QED BY <1>1, <1>2, PTL DEF Spec

-----------------------------------------------------------------------------
(* The counters.                                                           *)

\* The records are finitely many.
LEMMA FiniteRecords ==
  ASSUME NEW S \in SUBSET Entries
  PROVE  IsFiniteSet(S) /\ Cardinality(S) \in Nat /\ Cardinality(S) <= PoolCapacity
  <1>1. IsFiniteSet(Entries) /\ Cardinality(Entries) = PoolCapacity
    BY TrackerConstants, FS_Interval DEF Entries
  <1>2. IsFiniteSet(S) /\ Cardinality(S) <= Cardinality(Entries) BY <1>1, FS_Subset
  <1> QED BY <1>1, <1>2, FS_CardinalityType

\* The threads at some points of a hook.
At(W) == {t \in Threads : pc[t] \in W}

\* Their number goes up and down with the thread that moves.
LEMMA AtStep ==
  ASSUME NEW W, NEW t \in Threads, \A u \in Threads \ {t} : pc'[u] = pc[u]
  PROVE  /\ Cardinality(At(W)) \in Nat /\ Cardinality(At(W)') \in Nat
         /\ pc[t] \in W /\ pc'[t] \in W => At(W)' = At(W)
         /\ pc[t] \notin W /\ pc'[t] \notin W => At(W)' = At(W)
         /\ pc[t] \notin W /\ pc'[t] \in W => Cardinality(At(W)') = Cardinality(At(W)) + 1
         /\ pc[t] \in W /\ pc'[t] \notin W => Cardinality(At(W)') = Cardinality(At(W)) - 1
  <1>1. At(W) \in SUBSET Threads /\ At(W)' \in SUBSET Threads BY DEF At
  <1>2. IsFiniteSet(At(W)) /\ IsFiniteSet(At(W)') BY <1>1, FS_Subset, FiniteThreads
  <1>3. Cardinality(At(W)) \in Nat /\ Cardinality(At(W)') \in Nat
    BY <1>2, FS_CardinalityType
  <1>4. CASE (pc[t] \in W) = (pc'[t] \in W) BY <1>3, <1>4 DEF At
  <1>5. CASE pc[t] \notin W /\ pc'[t] \in W
    <2>1. At(W)' = At(W) \cup {t} /\ t \notin At(W) BY <1>5 DEF At
    <2>2. Cardinality(At(W)') = Cardinality(At(W)) + 1 BY <1>2, <2>1, FS_AddElement
    <2> QED BY <1>3, <1>5, <2>2
  <1>6. CASE pc[t] \in W /\ pc'[t] \notin W
    <2>1. At(W)' = At(W) \ {t} /\ t \in At(W) BY <1>6 DEF At
    <2>2. Cardinality(At(W)') = Cardinality(At(W)) - 1 BY <1>2, <2>1, FS_RemoveElement
    <2> QED BY <1>3, <1>6, <2>2
  <1> QED BY <1>4, <1>5, <1>6

\* The table as a set of records.
LEMMA TableIs ==
  ASSUME TypeOK
  PROVE  Table = {e \in Entries : OnChain(e)}
  BY DEF Table, OnChain, TypeOK, SharedTypes

\* The same of the next state.
LEMMA TableIsNext ==
  ASSUME TypeOK'
  PROVE  Table' = {e \in Entries : OnChain(e)'}
  BY DEF Table, OnChain, TypeOK, SharedTypes

\* A record is in use exactly when no list has it: this is Apart and Somewhere.
LEMMA InUseIs ==
  ASSUME OwnershipInv
  PROVE  InUse = {e \in Entries : ~OnList(e) /\ ~InLibc(e)}
  <1>1. Table = {e \in Entries : OnChain(e)} BY TableIs DEF OwnershipInv
  <1>2. InUse = {e \in Entries : OnChain(e) \/ InNew(e) \/ InDead(e)}
    BY <1>1 DEF InUse, InNew, InDead
  <1> QED BY <1>2 DEF OwnershipInv, Apart, Somewhere

\* The same of the next state.
LEMMA InUseIsNext ==
  ASSUME OwnershipInv'
  PROVE  InUse' = {e \in Entries : ~OnList(e)' /\ ~InLibc(e)'}
  <1>1. Table' = {e \in Entries : OnChain(e)'} BY TableIsNext DEF OwnershipInv
  <1>2. InUse' = {e \in Entries : OnChain(e)' \/ InNew(e)' \/ InDead(e)'}
    BY <1>1 DEF InUse, InNew, InDead
  <1> QED BY <1>2 DEF OwnershipInv, Apart, Somewhere

\* mtt_entry_add, mtt_entry_remove and entry_count.
LEMMA EntryCountStep ==
  ASSUME OwnershipInv, OwnershipInv', NEW t \in Threads, Acts(t), EntryCountExact
  PROVE  EntryCountExact'
  <1>0. TypeOK /\ TypeOK' /\ LocalOK(t) BY DEF OwnershipInv, LocalsInv, LocalOK
  <1> USE DEF EntryCountExact
  <1>s. ASSUME UNCHANGED <<buckets, entry_count>> PROVE EntryCountExact'
    BY <1>s DEF Table
  <1>1. CASE PlainStep(t) BY <1>0, <1>1, <1>s, PlainEffects DEF Plain
  <1>2. CASE PoolUnlink(t) \/ RawNew(t) \/ InsLock(t) \/ InsBytes(t) \/ InsPeak(t)
             \/ InsMax(t)
    BY <1>2, <1>s DEF PoolUnlink, RawNew, InsLock, InsBytes, InsPeak, InsMax, tableVars,
       statVars
  <1>3. CASE InsAdd(t)
    <2>1. ent[t] \in Entries /\ InNew(ent[t]) /\ AddrStripe[eptr[ent[t]]] \in Stripes
      BY <1>0, <1>3, TrackerConstants
         DEF InsAdd, LocalOK, OpAtPC, BlocksAtPC, Filled, RecordsAtPC, HasNew, InsPCs, InNew,
             HoldsNew
    <2>2. ~OnChain(ent[t]) BY <2>1 DEF OwnershipInv, Apart
    <2>3. \A e \in Entries : OnChain(e)' <=> OnChain(e) \/ e = ent[t]
      BY <1>0, <1>3, <2>1 DEF InsAdd, OnChain, TypeOK, SharedTypes
    <2>4. Table' = Table \cup {ent[t]} /\ ent[t] \notin Table
      BY <1>0, <2>1, <2>2, <2>3, TableIs, TableIsNext
    <2>5. Table \in SUBSET Entries BY <1>0, TableIs
    <2>6. Cardinality(Table') = Cardinality(Table) + 1
      BY <2>4, <2>5, FiniteRecords, FS_AddElement
    <2> QED BY <1>3, <2>6 DEF InsAdd
  <1>4. CASE DelLock(t) \/ DelSub(t)
    BY <1>4, <1>s DEF DelLock, DelSub, tableVars, statVars
  <1>5. CASE DelUnlink(t)
    <2>1. PICK x \in mtt_entry_find(old[t]) :
            buckets' = [buckets EXCEPT ![AddrStripe[old[t]]] = @ \ {x}]
      BY <1>5 DEF DelUnlink
    <2>2. AddrStripe[old[t]] \in Stripes BY <1>5, BlockStripes DEF DelUnlink, LocksOld
    <2>3. x \in buckets[AddrStripe[old[t]]] BY <2>1 DEF mtt_entry_find, Matches
    <2>4. x \in Entries /\ OnChain(x) BY <1>0, <2>2, <2>3 DEF OnChain, TypeOK, SharedTypes
    <2>5. \A e \in Entries : OnChain(e)' <=> OnChain(e) /\ e # x
      BY <1>0, <2>1, <2>2, <2>3, <2>4 DEF OwnershipInv, Single, OnChain, TypeOK, SharedTypes
    <2>6. Table' = Table \ {x} /\ x \in Table
      BY <1>0, <2>4, <2>5, TableIs, TableIsNext
    <2>7. Table \in SUBSET Entries BY <1>0, TableIs
    <2>8. Cardinality(Table') = Cardinality(Table) - 1
      BY <2>6, <2>7, FiniteRecords, FS_RemoveElement
    <2> QED BY <1>5, <2>8 DEF DelUnlink
  <1>6. CASE RetLock(t) \/ RetPush(t) \/ RetUsed(t) \/ RetRaw(t)
    BY <1>6, <1>s DEF RetLock, RetPush, RetUsed, RetRaw, tableVars, statVars
  <1> QED BY <1>1, <1>2, <1>3, <1>4, <1>5, <1>6, TwoKinds DEF OtherStep

\* The free lists and pool_used.
LEMMA PoolUsedStep ==
  ASSUME OwnershipInv, OwnershipInv', NEW t \in Threads, Acts(t), PoolUsedExact
  PROVE  PoolUsedExact'
  <1>0. TypeOK /\ LocalOK(t) BY DEF OwnershipInv, LocalsInv, LocalOK
  <1>m. mode' = mode BY ModeFrame DEF Acts
  <1> SUFFICES ASSUME mode.pooled
               PROVE  pool_used' = Cardinality(InUse') + Cardinality(At({"ret_used"})')
    BY <1>m DEF PoolUsedExact, At
  <1>p. \A u \in Threads \ {t} : pc'[u] = pc[u]
    BY <1>0, LocalFrame DEF TypeOK, Acts, SameLocals
  <1>a. pool_used = Cardinality(InUse) + Cardinality(At({"ret_used"}))
    BY DEF PoolUsedExact, At
  <1>c. /\ InUse \in SUBSET Entries /\ InUse' \in SUBSET Entries
        /\ Cardinality(InUse) \in Nat /\ Cardinality(InUse') \in Nat
    BY InUseIs, InUseIsNext, FiniteRecords
  <1>i. ASSUME UNCHANGED <<pool_free_lists, raw_entries>> PROVE InUse' = InUse
    BY <1>i, InUseIs, InUseIsNext DEF OnList, InLibc
  <1>s. ASSUME UNCHANGED <<pool_free_lists, raw_entries, pool_used>>,
               pc[t] # "ret_used", pc'[t] # "ret_used"
        PROVE  pool_used' = Cardinality(InUse') + Cardinality(At({"ret_used"})')
    BY <1>a, <1>i, <1>p, <1>s, AtStep
  <1>1. CASE PlainStep(t)
    BY <1>0, <1>1, <1>s, PlainEffects DEF Plain, Busy, RetPCs
  <1>2. CASE PoolUnlink(t)
    <2>1. ent[t] \in Entries /\ OnList(ent[t]) BY <1>2, HeadOnList
    <2>2. PoolIndex(t) \in Stripes BY <1>0, <1>2, LockedStripes DEF PoolUnlink
    <2>3. ent[t] \in pool_free_lists[PoolIndex(t)] BY <1>2 DEF OwnershipInv, HeadInv, PoolUnlink
    <2>4. /\ pool_free_lists' = [pool_free_lists EXCEPT ![PoolIndex(t)] = @ \ {ent[t]}]
          /\ raw_entries' = raw_entries /\ pool_used' = pool_used + 1 /\ pc[t] = "unlink"
      BY <1>2 DEF PoolUnlink
    <2>5. \A e \in Entries : OnList(e)' <=> OnList(e) /\ e # ent[t]
      BY <1>0, <2>1, <2>2, <2>3, <2>4 DEF OnList, OwnershipInv, Single, TypeOK, SharedTypes
    <2>6. ~InLibc(ent[t]) BY <2>1 DEF OwnershipInv, Apart
    <2>7. InUse' = InUse \cup {ent[t]} /\ ent[t] \notin InUse
      BY <2>1, <2>4, <2>5, <2>6, InUseIs, InUseIsNext DEF InLibc
    <2>8. Cardinality(InUse') = Cardinality(InUse) + 1
      BY <1>c, <2>7, FiniteRecords, FS_AddElement
    <2>9. pc'[t] # "ret_used" BY <1>0, <1>2 DEF PoolUnlink, Fill, Goto, TypeOK, LocalTypes
    <2>10. At({"ret_used"})' = At({"ret_used"}) /\ Cardinality(At({"ret_used"})) \in Nat
      BY <1>p, <2>4, <2>9, AtStep
    <2> QED BY <1>a, <1>c, <2>4, <2>8, <2>10
  <1>3. CASE RawNew(t) \/ RetRaw(t) BY <1>3 DEF RawNew, RetRaw
  <1>4. CASE InsLock(t) \/ InsBytes(t) \/ InsPeak(t) \/ InsMax(t)
    BY <1>0, <1>4, <1>s DEF InsLock, InsBytes, InsPeak, InsMax, Goto, TypeOK, LocalTypes, poolVars
  <1>5. CASE InsAdd(t)
    <2>1. pc'[t] \in {"rawfree", "idle"} /\ pc[t] = "ins_add"
      BY <1>0, <1>5, ReturnEffects DEF InsAdd, Goto, TypeOK, LocalTypes
    <2> QED BY <1>5, <1>s, <2>1 DEF InsAdd, poolVars
  <1>6. CASE DelLock(t) /\ Matches(old[t]) # {}
    BY <1>0, <1>6, <1>s DEF DelLock, Goto, TypeOK, LocalTypes, poolVars
  <1>7. CASE DelSub(t) \/ DelUnlink(t) \/ RetLock(t)
    BY <1>0, <1>7, <1>s DEF DelSub, DelUnlink, RetLock, Goto, TypeOK, LocalTypes, poolVars
  <1>8. CASE RetPush(t)
    <2> DEFINE i == EntryStripe[dead[t]]
    <2>1. dead[t] \in Entries /\ InDead(dead[t]) /\ i \in Stripes
      BY <1>0, <1>8, TrackerConstants
         DEF RetPush, LocalOK, RecordsAtPC, HasDead, RetPCs, InDead, HoldsDead
    <2>2. /\ pool_free_lists' = [pool_free_lists EXCEPT ![i] = @ \cup {dead[t]}]
          /\ raw_entries' = raw_entries /\ pool_used' = pool_used
          /\ pc[t] = "ret_push" /\ pc'[t] = "ret_used"
      BY <1>0, <1>8 DEF RetPush, Goto, TypeOK, LocalTypes
    <2>3. \A e \in Entries : OnList(e)' <=> OnList(e) \/ e = dead[t]
      BY <1>0, <2>1, <2>2 DEF OnList, TypeOK, SharedTypes
    <2>4. ~OnList(dead[t]) /\ ~InLibc(dead[t]) BY <2>1 DEF OwnershipInv, Apart
    <2>5. InUse' = InUse \ {dead[t]} /\ dead[t] \in InUse
      BY <2>1, <2>2, <2>3, <2>4, InUseIs, InUseIsNext DEF InLibc
    <2>6. Cardinality(InUse') = Cardinality(InUse) - 1
      BY <1>c, <2>5, FiniteRecords, FS_RemoveElement
    <2>7. /\ Cardinality(At({"ret_used"})') = Cardinality(At({"ret_used"})) + 1
          /\ Cardinality(At({"ret_used"})) \in Nat
      BY <1>p, <2>2, AtStep
    <2> QED BY <1>a, <1>c, <2>2, <2>6, <2>7
  <1>9. CASE RetUsed(t)
    <2>1. /\ pool_used' = pool_used - 1 /\ UNCHANGED <<pool_free_lists, raw_entries>>
          /\ pc[t] = "ret_used" /\ AfterReturn(t)
      BY <1>9 DEF RetUsed
    <2>2. pc'[t] # "ret_used" BY <1>0, <2>1, AfterReturnEffects DEF RetPCs
    <2>3. /\ Cardinality(At({"ret_used"})') = Cardinality(At({"ret_used"})) - 1
          /\ Cardinality(At({"ret_used"})) \in Nat
      BY <1>p, <2>1, <2>2, AtStep
    <2> QED BY <1>a, <1>c, <1>i, <2>1, <2>3
  <1> QED BY <1>1, <1>2, <1>3, <1>4, <1>5, <1>6, <1>7, <1>8, <1>9, TwoKinds DEF OtherStep

\* alloc_seq and free_count.
LEMMA BalanceStep ==
  ASSUME OwnershipInv, NEW t \in Threads, Acts(t), CountsBalance
  PROVE  CountsBalance'
  <1>0. TypeOK /\ LocalOK(t) BY DEF OwnershipInv, LocalsInv, LocalOK
  <1> DEFINE I == Cardinality(At(InsWindow))
             D == Cardinality(At({"del_unlink"}))
  <1>p. \A u \in Threads \ {t} : pc'[u] = pc[u]
    BY <1>0, LocalFrame DEF TypeOK, Acts, SameLocals
  <1>t. I \in Nat /\ D \in Nat /\ I' \in Nat /\ D' \in Nat /\ alloc_seq \in Nat
        /\ free_count \in Nat /\ entry_count \in Int
    BY <1>0, <1>p, AtStep DEF TypeOK, SharedTypes
  <1>a. alloc_seq - free_count = entry_count + I - D
    BY DEF CountsBalance, At, InsWindow
  <1>q. ASSUME alloc_seq' - free_count' = entry_count' + I' - D' PROVE CountsBalance'
    BY <1>q DEF CountsBalance, At, InsWindow
  <1>i. /\ pc[t] \in InsWindow /\ pc'[t] \in InsWindow => I' = I
        /\ pc[t] \notin InsWindow /\ pc'[t] \notin InsWindow => I' = I
        /\ pc[t] \notin InsWindow /\ pc'[t] \in InsWindow => I' = I + 1
        /\ pc[t] \in InsWindow /\ pc'[t] \notin InsWindow => I' = I - 1
    BY <1>p, AtStep
  <1>d. /\ pc[t] # "del_unlink" /\ pc'[t] # "del_unlink" => D' = D
        /\ pc[t] # "del_unlink" /\ pc'[t] = "del_unlink" => D' = D + 1
        /\ pc[t] = "del_unlink" /\ pc'[t] # "del_unlink" => D' = D - 1
    <2>1. \A x : x \in {"del_unlink"} <=> x = "del_unlink" OBVIOUS
    <2> QED BY <1>p, <2>1, AtStep
  <1> HIDE DEF I, D
  <1>s. ASSUME UNCHANGED <<alloc_seq, free_count, entry_count>>,
               pc[t] \in InsWindow <=> pc'[t] \in InsWindow,
               pc[t] # "del_unlink", pc'[t] # "del_unlink"
        PROVE  CountsBalance'
    BY <1>a, <1>d, <1>i, <1>q, <1>s
  <1>1. CASE PlainStep(t)
    <2>1. Plain(t) BY <1>0, <1>1, PlainEffects
    <2> QED BY <2>1, <1>s DEF Plain, Busy
  <1>2. CASE PoolUnlink(t) \/ RawNew(t)
    BY <1>0, <1>2, <1>s
       DEF PoolUnlink, RawNew, Fill, Goto, TypeOK, LocalTypes, statVars, InsWindow
  <1>3. CASE InsLock(t) /\ ~OverCapacity
    <2>1. /\ pc[t] = "ins_lock" /\ pc'[t] = "ins_bytes" /\ alloc_seq' = alloc_seq + 1
          /\ UNCHANGED <<free_count, entry_count>>
      BY <1>0, <1>3 DEF InsLock, Goto, TypeOK, LocalTypes
    <2>2. I' = I + 1 /\ D' = D BY <1>d, <1>i, <2>1 DEF InsWindow
    <2> QED BY <1>a, <1>q, <1>t, <2>1, <2>2
  <1>4. CASE InsLock(t) /\ OverCapacity
    BY <1>0, <1>4, <1>s DEF InsLock, Goto, TypeOK, LocalTypes, InsWindow
  <1>5. CASE InsBytes(t) \/ InsPeak(t) \/ InsMax(t)
    BY <1>0, <1>5, <1>s
       DEF InsBytes, InsPeak, InsMax, Goto, TypeOK, LocalTypes, statVars, InsWindow
  <1>6. CASE InsAdd(t)
    <2>1. /\ pc[t] = "ins_add" /\ pc'[t] \in {"rawfree", "idle"}
          /\ entry_count' = entry_count + 1 /\ UNCHANGED <<free_count, alloc_seq>>
      BY <1>0, <1>6, ReturnEffects DEF InsAdd, Goto, TypeOK, LocalTypes
    <2>2. I' = I - 1 /\ D' = D BY <1>d, <1>i, <2>1 DEF InsWindow
    <2> QED BY <1>a, <1>q, <1>t, <2>1, <2>2
  <1>7. CASE DelLock(t) /\ Matches(old[t]) # {}
    BY <1>0, <1>7, <1>s DEF DelLock, Goto, TypeOK, LocalTypes, statVars, InsWindow
  <1>8. CASE DelSub(t)
    <2>1. /\ pc[t] = "del_sub" /\ pc'[t] = "del_unlink" /\ free_count' = free_count + 1
          /\ UNCHANGED <<alloc_seq, entry_count>>
      BY <1>0, <1>8 DEF DelSub, Goto, TypeOK, LocalTypes
    <2>2. D' = D + 1 /\ I' = I BY <1>d, <1>i, <2>1 DEF InsWindow
    <2> QED BY <1>a, <1>q, <1>t, <2>1, <2>2
  <1>9. CASE DelUnlink(t)
    <2>1. /\ pc[t] = "del_unlink" /\ pc'[t] = "ret_lock" /\ entry_count' = entry_count - 1
          /\ UNCHANGED <<alloc_seq, free_count>>
      BY <1>0, <1>9 DEF DelUnlink, Goto, TypeOK, LocalTypes
    <2>2. D' = D - 1 /\ I' = I BY <1>d, <1>i, <2>1 DEF InsWindow
    <2> QED BY <1>a, <1>q, <1>t, <2>1, <2>2
  <1>10. CASE RetLock(t) \/ RetPush(t)
    BY <1>0, <1>10, <1>s
       DEF RetLock, RetPush, Goto, TypeOK, LocalTypes, statVars, InsWindow
  <1>11. CASE RetUsed(t) \/ RetRaw(t)
    <2>1. AfterReturn(t) /\ pc[t] \in RetPCs /\ UNCHANGED <<alloc_seq, free_count, entry_count>>
      BY <1>11 DEF RetUsed, RetRaw, RetPCs, statVars
    <2>2. pc'[t] \in {"rawfree", "idle", "re_cap", "ins_lock"}
      BY <1>0, <2>1, AfterReturnEffects
    <2> QED BY <1>s, <2>1, <2>2 DEF RetPCs, InsWindow
  <1> QED BY <1>1, <1>2, <1>3, <1>4, <1>5, <1>6, <1>7, <1>8, <1>9, <1>10, <1>11, TwoKinds
          DEF OtherStep

\* The counters after mtt_ensure_init.
LEMMA CountersInit == Init => CountersExact
  <1> SUFFICES ASSUME Init PROVE CountersExact OBVIOUS
  <1>1. OwnershipInv BY OwnershipInit
  <1>2. Table = {} BY DEF Init, Table
  <1>4. {t \in Threads : pc[t] \in {"ins_bytes", "ins_peak", "ins_max", "ins_add"}} = {}
        /\ {t \in Threads : pc[t] = "del_unlink"} = {}
        /\ {t \in Threads : pc[t] = "ret_used"} = {}
    BY DEF Init
  <1>3. \A e \in Entries, t \in Threads : ~HoldsNew(t, e) /\ ~HoldsDead(t, e)
    BY TrackerConstants DEF Init, HoldsNew, HoldsDead
  <1>5. InUse = {} BY <1>2, <1>3 DEF InUse
  <1>6. Cardinality({}) = 0 BY FS_EmptySet
  <1>7. pool_used = 0 /\ entry_count = 0 /\ alloc_seq = 0 /\ free_count = 0 BY DEF Init
  <1>8. PoolUsedExact BY <1>4, <1>5, <1>6, <1>7 DEF PoolUsedExact
  <1>9. EntryCountExact BY <1>2, <1>6, <1>7 DEF EntryCountExact
  <1>10. CountsBalance BY <1>4, <1>6, <1>7 DEF CountsBalance
  <1> QED BY <1>8, <1>9, <1>10 DEF CountersExact

\* Every step keeps the counters exact.
LEMMA CountersStep ==
  OwnershipInv /\ OwnershipInv' /\ CountersExact /\ [Next]_vars => CountersExact'
  <1> SUFFICES ASSUME OwnershipInv, OwnershipInv', CountersExact, [Next]_vars
               PROVE  CountersExact'
    OBVIOUS
  <1>1. CASE UNCHANGED vars
    BY <1>1 DEF vars, tableVars, poolVars, statVars, localVars, CountersExact, PoolUsedExact,
       EntryCountExact, CountsBalance, InUse, Table, HoldsNew, HoldsDead
  <1>2. ASSUME NEW t \in Threads, Acts(t) PROVE CountersExact'
    BY <1>2, PoolUsedStep, EntryCountStep, BalanceStep DEF CountersExact
  <1> QED BY <1>1, <1>2 DEF Next, Acts

\* entry_count, pool_used and alloc_count - free_count agree with the table,
\* the free lists and the hooks in between at every step (mtt_entry_new, _add
\* and _remove, hooks.c:282-306), whatever the hooks of the other threads do.
THEOREM CountersAgree == Spec => []CountersExact
  <1>1. Init => OwnershipInv /\ CountersExact BY OwnershipInit, CountersInit
  <1>2. OwnershipInv /\ CountersExact /\ [Next]_vars => (OwnershipInv /\ CountersExact)'
    BY OwnershipStep, CountersStep
  <1>3. OwnershipInv /\ CountersExact => CountersExact OBVIOUS
  <1> QED BY <1>1, <1>2, <1>3, PTL DEF Spec

\* The number of stripes in use.
LEMMA FiniteUsed == IsFiniteSet(UsedStripes) /\ Cardinality(UsedStripes) \in Nat
  <1>1. UsedStripes \in SUBSET Stripes BY TrackerConstants DEF UsedStripes
  <1>2. IsFiniteSet(Stripes) BY TrackerConstants, FS_Interval DEF Stripes
  <1> QED BY <1>1, <1>2, FS_Subset, FS_CardinalityType

\* The hooks between the second check and the insertion are on stripes of
\* their own: each one has the lock of its stripe.
LEMMA InsertersApart ==
  OwnershipInv /\ ChainsInv => Cardinality(At(InsWindow)) <= Cardinality(UsedStripes)
  <1> SUFFICES ASSUME OwnershipInv, ChainsInv
               PROVE  Cardinality(At(InsWindow)) <= Cardinality(UsedStripes)
    OBVIOUS
  <1> DEFINE f == [t \in At(InsWindow) |-> AddrStripe[tgt[t]]]
  <1>1. \A t \in At(InsWindow) : /\ tgt[t] \in Addr
                                 /\ bucket_locks[AddrStripe[tgt[t]]] = t
    <2> SUFFICES ASSUME NEW t \in Threads, pc[t] \in InsWindow
                 PROVE  tgt[t] \in Addr /\ bucket_locks[AddrStripe[tgt[t]]] = t
      BY DEF At
    <2>1. LocksNew(t) BY DEF LocksNew
    <2> QED BY <2>1, BlockStripes DEF ChainsInv, LockInv
  <1>2. f \in [At(InsWindow) -> UsedStripes] BY <1>1 DEF UsedStripes
  <1>3. f \in Injection(At(InsWindow), UsedStripes) BY <1>1, <1>2 DEF Injection, IsInjective
  <1> QED BY <1>3, FiniteUsed, FS_Injection

\* The same of the next state.
LEMMA InsertersApartNext ==
  (OwnershipInv /\ ChainsInv)' => (Cardinality(At(InsWindow)) <= Cardinality(UsedStripes))'
  BY InsertersApart, PTL

\* A hook passes the second check only below the limit, and there is at most
\* one such hook on each stripe.
LEMMA CapacityStep ==
  ASSUME OwnershipInv, OwnershipInv', ChainsInv', NEW t \in Threads, Acts(t), CapacityInv
  PROVE  CapacityInv'
  <1>0. TypeOK /\ LocalOK(t) BY DEF OwnershipInv, LocalsInv, LocalOK
  <1> DEFINE I == Cardinality(At(InsWindow))
             U == Cardinality(UsedStripes)
  <1>p. \A u \in Threads \ {t} : pc'[u] = pc[u]
    BY <1>0, LocalFrame DEF TypeOK, Acts, SameLocals
  <1>m. mode' = mode BY ModeFrame DEF Acts
  <1>t. I \in Nat /\ I' \in Nat /\ U \in Nat /\ entry_count \in Int /\ mode.limit \in Nat \ {0}
    BY <1>0, <1>p, AtStep, FiniteUsed, TrackerConstants DEF TypeOK, SharedTypes
  <1>a. entry_count + I <= mode.limit + U - 1 BY DEF CapacityInv, At
  <1>q. ASSUME entry_count' + I' <= mode.limit + U - 1 PROVE CapacityInv'
    BY <1>m, <1>q DEF CapacityInv, At, InsWindow, UsedStripes
  <1>i. /\ pc[t] \in InsWindow /\ pc'[t] \in InsWindow => I' = I
        /\ pc[t] \notin InsWindow /\ pc'[t] \notin InsWindow => I' = I
        /\ pc[t] \in InsWindow /\ pc'[t] \notin InsWindow => I' = I - 1
    BY <1>p, AtStep
  <1>u. I' <= U
    BY InsertersApartNext DEF UsedStripes
  <1> HIDE DEF I, U
  <1>s. ASSUME entry_count' = entry_count, pc[t] \in InsWindow <=> pc'[t] \in InsWindow
        PROVE  CapacityInv'
    BY <1>a, <1>i, <1>q, <1>s
  <1>1. CASE PlainStep(t)
    <2>1. Plain(t) BY <1>0, <1>1, PlainEffects
    <2> QED BY <2>1, <1>s DEF Plain, Busy
  <1>2. CASE PoolUnlink(t) \/ RawNew(t)
    BY <1>0, <1>2, <1>s
       DEF PoolUnlink, RawNew, Fill, Goto, TypeOK, LocalTypes, statVars, InsWindow
  <1>3. CASE InsLock(t) /\ ~OverCapacity
    <2>1. entry_count' = entry_count /\ ~(entry_count >= mode.limit)
      BY <1>3 DEF InsLock, OverCapacity
    <2> QED BY <1>q, <1>t, <1>u, <2>1
  <1>4. CASE InsLock(t) /\ OverCapacity
    BY <1>0, <1>4, <1>s DEF InsLock, Goto, TypeOK, LocalTypes, InsWindow
  <1>5. CASE InsBytes(t) \/ InsPeak(t) \/ InsMax(t)
    BY <1>0, <1>5, <1>s
       DEF InsBytes, InsPeak, InsMax, Goto, TypeOK, LocalTypes, statVars, InsWindow
  <1>6. CASE InsAdd(t)
    <2>1. /\ pc[t] = "ins_add" /\ pc'[t] \in {"rawfree", "idle"}
          /\ entry_count' = entry_count + 1
      BY <1>0, <1>6, ReturnEffects DEF InsAdd, Goto, TypeOK, LocalTypes
    <2>2. I' = I - 1 BY <1>i, <2>1 DEF InsWindow
    <2> QED BY <1>a, <1>q, <1>t, <2>1, <2>2
  <1>7. CASE DelLock(t) /\ Matches(old[t]) # {}
    BY <1>0, <1>7, <1>s DEF DelLock, Goto, TypeOK, LocalTypes, statVars, InsWindow
  <1>8. CASE DelSub(t)
    BY <1>0, <1>8, <1>s DEF DelSub, Goto, TypeOK, LocalTypes, InsWindow
  <1>9. CASE DelUnlink(t)
    <2>1. /\ pc[t] = "del_unlink" /\ pc'[t] = "ret_lock" /\ entry_count' = entry_count - 1
      BY <1>0, <1>9 DEF DelUnlink, Goto, TypeOK, LocalTypes
    <2>2. I' = I BY <1>i, <2>1 DEF InsWindow
    <2> QED BY <1>a, <1>q, <1>t, <2>1, <2>2
  <1>10. CASE RetLock(t) \/ RetPush(t)
    BY <1>0, <1>10, <1>s
       DEF RetLock, RetPush, Goto, TypeOK, LocalTypes, statVars, InsWindow
  <1>11. CASE RetUsed(t) \/ RetRaw(t)
    <2>1. AfterReturn(t) /\ pc[t] \in RetPCs /\ entry_count' = entry_count
      BY <1>11 DEF RetUsed, RetRaw, RetPCs, statVars
    <2>2. pc'[t] \in {"rawfree", "idle", "re_cap", "ins_lock"}
      BY <1>0, <2>1, AfterReturnEffects
    <2> QED BY <1>s, <2>1, <2>2 DEF RetPCs, InsWindow
  <1> QED BY <1>1, <1>2, <1>3, <1>4, <1>5, <1>6, <1>7, <1>8, <1>9, <1>10, <1>11, TwoKinds
          DEF OtherStep

\* However many threads insert at once, with the pool or without it, the
\* table exceeds MTT_MAX_ENTRIES by less than the number of stripes the
\* program's blocks lie on (the checks of hooks.c:239 and 273, which
\* tracker.c:1765 says leave no window).
THEOREM CapacityKept == Spec => []CapacityRespected
  <1> DEFINE IInv == OwnershipInv /\ ChainsInv /\ CapacityInv
  <1>1. Init => IInv
    <2> SUFFICES ASSUME Init PROVE CapacityInv BY OwnershipInit, ChainsInit
    <2>1. {t \in Threads : pc[t] \in InsWindow} = {} BY DEF Init, InsWindow
    <2>2. entry_count = 0 /\ mode.limit \in Nat \ {0} BY TrackerConstants DEF Init
    <2> QED BY <2>1, <2>2, FiniteUsed, FS_EmptySet DEF CapacityInv
  <1>2. IInv /\ [Next]_vars => IInv'
    <2> SUFFICES ASSUME IInv, [Next]_vars PROVE IInv' OBVIOUS
    <2>1. OwnershipInv' /\ ChainsInv' BY OwnershipStep, ChainsStep
    <2>2. CASE UNCHANGED vars
      BY <2>1, <2>2 DEF vars, poolVars, statVars, CapacityInv, UsedStripes
    <2>3. ASSUME NEW t \in Threads, Acts(t) PROVE CapacityInv'
      BY <2>1, <2>3, CapacityStep
    <2> QED BY <2>1, <2>2, <2>3 DEF Next, Acts
  <1>3. IInv => CapacityRespected
    <2> SUFFICES ASSUME IInv PROVE CapacityRespected OBVIOUS
    <2>1. IsFiniteSet({t \in Threads : pc[t] \in InsWindow}) BY FS_Subset, FiniteThreads
    <2>2. Cardinality({t \in Threads : pc[t] \in InsWindow}) \in Nat
      BY <2>1, FS_CardinalityType
    <2>3. entry_count \in Int /\ mode.limit \in Nat \ {0}
      BY TrackerConstants DEF OwnershipInv, TypeOK, SharedTypes
    <2> QED BY <2>2, <2>3, FiniteUsed DEF CapacityInv, CapacityRespected
  <1> QED BY <1>1, <1>2, <1>3, PTL DEF Spec

-----------------------------------------------------------------------------
(* The peak.                                                               *)

\* The locals of the threads that do not move.
LEMMA OthersStand ==
  ASSUME OwnershipInv, NEW t \in Threads, Acts(t), NEW u \in Threads \ {t}
  PROVE  /\ pc'[u] = pc[u] /\ cur'[u] = cur[u] /\ ent'[u] = ent[u] /\ dead'[u] = dead[u]
         /\ old'[u] = old[u]
  BY LocalFrame, SizesFrame DEF OwnershipInv, TypeOK, Acts, SameLocals, SameSizes

\* The maximum of a value loaded after the last addition covers the sum.
LEMMA PeakStep ==
  ASSUME OwnershipInv, NEW t \in Threads, Acts(t), PeakInv
  PROVE  PeakInv'
  <1>0. TypeOK /\ LocalOK(t) BY DEF OwnershipInv, LocalsInv, LocalOK
  <1>t. current_bytes \in Int /\ peak_bytes \in Int /\ \A u \in Threads : cur[u] \in Int
    BY <1>0 DEF TypeOK, SharedTypes, LocalTypes
  <1>o. \A u \in Threads \ {t} : pc'[u] = pc[u] /\ cur'[u] = cur[u] BY OthersStand
  <1>k. ASSUME current_bytes' = current_bytes, peak_bytes' = peak_bytes,
               pc[t] \notin {"ins_peak", "ins_max"}
        PROVE  PeakInv'
    BY <1>k, <1>o DEF PeakInv
  <1>1. CASE PlainStep(t)
    BY <1>0, <1>1, <1>k, PlainEffects DEF Plain, Busy, InsWindow
  <1>2. CASE PoolUnlink(t) \/ RawNew(t)
    BY <1>2, <1>k DEF PoolUnlink, RawNew, statVars
  <1>3. CASE InsLock(t) \/ InsAdd(t)
    BY <1>3, <1>k DEF InsLock, InsAdd
  <1>4. CASE InsBytes(t)
    <2>1. pc'[t] = "ins_peak" /\ peak_bytes' = peak_bytes
      BY <1>0, <1>4 DEF InsBytes, Goto, TypeOK, LocalTypes
    <2> QED BY <2>1 DEF PeakInv
  <1>5. CASE InsPeak(t)
    <2>1. /\ pc'[t] = "ins_max" /\ cur'[t] = current_bytes /\ peak_bytes' = peak_bytes
          /\ current_bytes' = current_bytes
      BY <1>0, <1>5 DEF InsPeak, Goto, TypeOK, LocalTypes, statVars
    <2> QED BY <1>t, <2>1 DEF PeakInv
  <1>6. CASE InsMax(t)
    <2>1. /\ pc[t] = "ins_max" /\ current_bytes' = current_bytes
          /\ peak_bytes' = IF cur[t] > peak_bytes THEN cur[t] ELSE peak_bytes
      BY <1>6 DEF InsMax
    <2>2. peak_bytes' >= peak_bytes /\ peak_bytes' >= cur[t] /\ peak_bytes' \in Int
      BY <1>t, <2>1
    <2>3. peak_bytes' >= 0 BY <1>t, <2>2 DEF PeakInv
    <2>4. CASE current_bytes <= peak_bytes BY <1>t, <2>1, <2>2, <2>3, <2>4 DEF PeakInv
    <2>5. CASE \E u \in Threads : pc[u] = "ins_peak"
      BY <1>o, <2>1, <2>3, <2>5 DEF PeakInv
    <2>6. ASSUME NEW u \in Threads, pc[u] = "ins_max", cur[u] >= current_bytes PROVE PeakInv'
      <3>1. CASE u = t BY <1>t, <2>1, <2>2, <2>3, <2>6, <3>1 DEF PeakInv
      <3>2. CASE u # t BY <1>o, <2>1, <2>3, <2>6, <3>2 DEF PeakInv
      <3> QED BY <3>1, <3>2
    <2> QED BY <2>4, <2>5, <2>6 DEF PeakInv
  <1>7. CASE DelLock(t) BY <1>7, <1>k DEF DelLock, statVars
  <1>8. CASE DelSub(t)
    <2>1. /\ peak_bytes' = peak_bytes /\ pc[t] = "del_sub"
          /\ current_bytes' = IF esize[dead[t]] <= cur[t]
                              THEN current_bytes - esize[dead[t]] ELSE 0
      BY <1>8 DEF DelSub
    <2>2. esize[dead[t]] \in Nat
      BY <1>0, <2>1, TrackerConstants
         DEF TypeOK, SharedTypes, LocalOK, RecordsAtPC, HasDead
    <2>3. current_bytes' = 0 \/ (current_bytes' \in Int /\ current_bytes' <= current_bytes)
      BY <1>t, <2>1, <2>2
    <2>4. CASE current_bytes' = 0 BY <2>1, <2>4 DEF PeakInv
    <2>5. CASE current_bytes' \in Int /\ current_bytes' <= current_bytes
      <3>1. CASE current_bytes <= peak_bytes BY <1>t, <2>1, <2>5, <3>1 DEF PeakInv
      <3>2. CASE \E u \in Threads : pc[u] = "ins_peak" BY <1>o, <2>1, <3>2 DEF PeakInv
      <3>3. ASSUME NEW u \in Threads, pc[u] = "ins_max", cur[u] >= current_bytes
            PROVE  PeakInv'
        <4>1. pc'[u] = "ins_max" /\ cur'[u] = cur[u] BY <1>o, <2>1, <3>3
        <4>2. cur'[u] >= current_bytes' BY <1>t, <2>5, <3>3, <4>1
        <4> QED BY <2>1, <4>1, <4>2 DEF PeakInv
      <3> QED BY <3>1, <3>2, <3>3 DEF PeakInv
    <2> QED BY <2>3, <2>4, <2>5
  <1>9. CASE DelUnlink(t) BY <1>9, <1>k DEF DelUnlink
  <1>10. CASE RetLock(t) \/ RetPush(t) \/ RetUsed(t) \/ RetRaw(t)
    BY <1>10, <1>k DEF RetLock, RetPush, RetUsed, RetRaw, statVars
  <1> QED BY <1>1, <1>2, <1>3, <1>4, <1>5, <1>6, <1>7, <1>8, <1>9, <1>10, TwoKinds
          DEF OtherStep

\* peak_bytes, updated by a compare-and-swap loop with a value that may be
\* stale, is at least current_bytes whenever no hook is in between
\* (hooks.c:289-299).
THEOREM PeakKept == Spec => []PeakCovers
  <1>1. Init => OwnershipInv /\ PeakInv
    BY OwnershipInit DEF Init, PeakInv
  <1>2. OwnershipInv /\ PeakInv /\ [Next]_vars => (OwnershipInv /\ PeakInv)'
    <2> SUFFICES ASSUME OwnershipInv, PeakInv, [Next]_vars PROVE PeakInv'
      BY OwnershipStep
    <2>1. CASE UNCHANGED vars BY <2>1 DEF vars, statVars, localVars, PeakInv
    <2>2. ASSUME NEW t \in Threads, Acts(t) PROVE PeakInv' BY <2>2, PeakStep
    <2> QED BY <2>1, <2>2 DEF Next, Acts
  <1>3. PeakInv => PeakCovers BY DEF PeakInv, PeakCovers
  <1> QED BY <1>1, <1>2, <1>3, PTL DEF Spec

-----------------------------------------------------------------------------
(* current_bytes.                                                          *)

Adding == {"ins_peak", "ins_max", "ins_add"}

\* The two ways a record is counted, or not, because of a thread.
Arriving(e) == \E u \in Threads : pc[u] \in Adding /\ ent[u] = e
Leaving(e)  == \E u \in Threads : pc[u] = "del_unlink" /\ dead[u] = e

\* What current_bytes counts: the chains, without a record whose size is already
\* subtracted, and with one whose size is added before it is linked.
LEMMA CountedIs ==
  ASSUME TypeOK, NEW e \in Entries
  PROVE  e \in Counted <=> (OnChain(e) /\ ~Leaving(e)) \/ Arriving(e)
  BY TableIs DEF Counted, Arriving, Leaving, Adding

\* The same of the next state.
LEMMA CountedIsNext ==
  ASSUME TypeOK', NEW e \in Entries
  PROVE  (e \in Counted)' <=> (OnChain(e)' /\ ~Leaving(e)') \/ Arriving(e)'
  BY TableIsNext DEF Counted, Arriving, Leaving, Adding

\* A record that is arriving is in its thread's hand alone; one that is leaving
\* is still on its chain, and one thread deletes it.
LEMMA ArrivingIs ==
  ASSUME OwnershipInv, NEW u \in Threads, pc[u] \in {"ins_lock", "ins_bytes"} \cup Adding
  PROVE  /\ ent[u] \in Entries /\ InNew(ent[u]) /\ ~OnChain(ent[u]) /\ ~OnList(ent[u])
         /\ ~InLibc(ent[u]) /\ \A v \in Threads \ {u} : ~(pc[v] \in Adding /\ ent[v] = ent[u])
  <1>1. ent[u] \in Entries /\ pc[u] # "unlink"
    BY DEF OwnershipInv, LocalsInv, RecordsAtPC, HasNew, InsPCs, Adding
  <1>2. HoldsNew(u, ent[u]) BY <1>1 DEF HoldsNew
  <1>3. \A v \in Threads : pc[v] \in Adding /\ ent[v] = ent[u] => HoldsNew(v, ent[u])
    BY DEF HoldsNew, Adding
  <1> QED BY <1>1, <1>2, <1>3 DEF OwnershipInv, Apart, Single, InNew

\* The record that a hook deletes is on the chain whose lock the hook holds, and no
\* other hook deletes it.
LEMMA LeavingIs ==
  ASSUME OwnershipInv, ChainsInv, NEW u \in Threads, pc[u] \in {"del_sub", "del_unlink"}
  PROVE  /\ dead[u] \in Entries /\ OnChain(dead[u]) /\ ~Arriving(dead[u])
         /\ old[u] \in Addr /\ AddrStripe[old[u]] \in Stripes
         /\ dead[u] \in buckets[AddrStripe[old[u]]] /\ bucket_locks[AddrStripe[old[u]]] = u
         /\ \A v \in Threads \ {u} :
              pc[v] \in {"del_sub", "del_unlink"} => dead[v] # dead[u]
  <1>l. LocksOld(u) BY DEF LocksOld
  <1>1. /\ old[u] \in Addr /\ AddrStripe[old[u]] \in Stripes
        /\ dead[u] \in buckets[AddrStripe[old[u]]] /\ bucket_locks[AddrStripe[old[u]]] = u
    BY <1>l, BlockStripes DEF ChainsInv, LockInv, FoundInv, mtt_entry_find, Matches
  <1>2. dead[u] \in Entries /\ OnChain(dead[u])
    BY <1>1 DEF OnChain, OwnershipInv, TypeOK, SharedTypes
  <1>3. ~Arriving(dead[u])
    BY <1>2 DEF Arriving, Adding, OwnershipInv, Apart, InNew, HoldsNew
  <1>4. ASSUME NEW v \in Threads \ {u}, pc[v] \in {"del_sub", "del_unlink"}, dead[v] = dead[u]
        PROVE  FALSE
    <2>l. LocksOld(v) BY <1>4 DEF LocksOld
    <2>1. /\ AddrStripe[old[v]] \in Stripes
          /\ dead[v] \in buckets[AddrStripe[old[v]]] /\ bucket_locks[AddrStripe[old[v]]] = v
      BY <1>4, <2>l, BlockStripes DEF ChainsInv, LockInv, FoundInv, mtt_entry_find, Matches
    <2>2. AddrStripe[old[v]] = AddrStripe[old[u]]
      BY <1>1, <1>2, <1>4, <2>1 DEF OwnershipInv, Single
    <2> QED BY <1>1, <1>4, <2>1, <2>2
  <1> QED BY <1>1, <1>2, <1>3, <1>4

\* mtt_entry_find has one result: numbers tell records apart.
LEMMA FindUnique ==
  ASSUME OwnershipInv, ChainsInv, NEW p \in Addr, NEW x \in mtt_entry_find(p),
         NEW y \in mtt_entry_find(p)
  PROVE  x = y
  <1>1. AddrStripe[p] \in Stripes BY TrackerConstants
  <1>2. x \in buckets[AddrStripe[p]] /\ y \in buckets[AddrStripe[p]]
    BY DEF mtt_entry_find, Matches
  <1>3. x \in Entries /\ OnChain(x) /\ y \in Entries
    BY <1>1, <1>2 DEF OnChain, OwnershipInv, TypeOK, SharedTypes
  <1>4. enum[x] <= enum[y] /\ enum[y] <= enum[x] BY DEF mtt_entry_find
  <1>5. enum[x] \in Nat /\ enum[y] \in Nat BY <1>3 DEF OwnershipInv, TypeOK, SharedTypes
  <1>6. enum[x] = enum[y] BY <1>4, <1>5
  <1>7. enum[x] # 0 BY <1>3 DEF ChainsInv, NumberInv
  <1> QED BY <1>3, <1>6, <1>7 DEF ChainsInv, NumberInv

\* A step leaves alone what a record contributes to current_bytes.
KeptBytes(e) ==
  /\ (e \in Counted)' <=> e \in Counted
  /\ e \in Counted => esize'[e] = esize[e]

\* A step that is not on a chain does.
LEMMA KeptOffChain ==
  ASSUME OwnershipInv, OwnershipInv', NEW t \in Threads, Acts(t), buckets' = buckets,
         NEW e \in Entries,
         pc[t] \notin Adding \/ ent[t] # e, pc'[t] \notin Adding \/ ent'[t] # e,
         pc[t] # "del_unlink" \/ dead[t] # e, pc'[t] # "del_unlink" \/ dead'[t] # e,
         esize'[e] = esize[e] \/ (~OnChain(e) /\ ~Arriving(e))
  PROVE  KeptBytes(e)
  <1>1. \A u \in Threads \ {t} : pc'[u] = pc[u] /\ ent'[u] = ent[u] /\ dead'[u] = dead[u]
    BY OthersStand
  <1>2. Arriving(e)' <=> Arriving(e) BY <1>1 DEF Arriving
  <1>3. Leaving(e)' <=> Leaving(e) BY <1>1 DEF Leaving
  <1>4. OnChain(e)' <=> OnChain(e) BY DEF OnChain
  <1>5. (e \in Counted)' <=> e \in Counted
    BY <1>2, <1>3, <1>4, CountedIs, CountedIsNext DEF OwnershipInv
  <1>6. e \in Counted => esize'[e] = esize[e] BY CountedIs DEF OwnershipInv
  <1> QED BY <1>5, <1>6 DEF KeptBytes

\* Only the addition and the subtraction change what is counted.
LEMMA KeptQuietly ==
  ASSUME OwnershipInv, OwnershipInv', ChainsInv, NEW t \in Threads, Acts(t),
         ~InsBytes(t), ~DelSub(t), NEW e \in Entries
  PROVE  KeptBytes(e) /\ current_bytes' = current_bytes
  <1>0. TypeOK /\ TypeOK' /\ LocalOK(t) BY DEF OwnershipInv, LocalsInv, LocalOK
  <1>o. \A u \in Threads \ {t} : pc'[u] = pc[u] /\ ent'[u] = ent[u] /\ dead'[u] = dead[u]
    BY OthersStand
  <1>s. ASSUME buckets' = buckets, pc[t] \notin Adding, pc'[t] \notin Adding,
               pc[t] # "del_unlink", pc'[t] # "del_unlink",
               esize'[e] = esize[e] \/ (~OnChain(e) /\ ~Arriving(e))
        PROVE  KeptBytes(e)
    BY <1>s, KeptOffChain
  <1>1. CASE PlainStep(t)
    <2>1. Plain(t) BY <1>0, <1>1, PlainEffects
    <2> QED BY <2>1, <1>s DEF Plain, Busy, InsWindow, Adding
  <1>f. ASSUME NEW x \in Entries, Fill(t, x), OnList(x) \/ InLibc(x), buckets' = buckets,
               pc[t] \in {"new", "unlink"}
        PROVE  KeptBytes(e)
    <2>1. ~OnChain(x) /\ ~InNew(x) BY <1>f DEF OwnershipInv, Apart
    <2>2. ~Arriving(x) BY <2>1 DEF Arriving, InNew, HoldsNew, Adding
    <2>3. esize'[e] = esize[e] \/ e = x BY <1>0, <1>f DEF Fill, TypeOK, SharedTypes
    <2>4. pc'[t] \in {"del_lock", "ins_lock"} BY <1>0, <1>f DEF Fill, Goto, TypeOK, LocalTypes
    <2> QED BY <1>f, <1>s, <2>1, <2>2, <2>3, <2>4 DEF Adding
  <1>2. CASE PoolUnlink(t)
    BY <1>2, <1>f, HeadOnList DEF PoolUnlink, statVars
  <1>3. CASE RawNew(t)
    <2>1. PICK x \in raw_entries : Fill(t, x) BY <1>3 DEF RawNew
    <2>2. x \in Entries /\ InLibc(x) BY <1>0, <2>1 DEF InLibc, TypeOK, SharedTypes
    <2> QED BY <1>3, <1>f, <2>1, <2>2 DEF RawNew, statVars
  <1>4. CASE InsLock(t)
    <2>1. /\ pc[t] = "ins_lock" /\ pc'[t] \in {"ins_bytes", "ret_lock"} /\ buckets' = buckets
          /\ current_bytes' = current_bytes
      BY <1>0, <1>4 DEF InsLock, Goto, TypeOK, LocalTypes
    <2>2. ent[t] \in Entries /\ ~OnChain(ent[t]) /\ ~Arriving(ent[t])
      BY <2>1, ArrivingIs DEF Arriving, Adding
    <2>3. esize'[e] = esize[e] \/ e = ent[t]
      BY <1>0, <1>4 DEF InsLock, Wipe, TypeOK, SharedTypes
    <2> QED BY <1>s, <2>1, <2>2, <2>3 DEF Adding
  <1>5. CASE InsPeak(t) \/ InsMax(t)
    <2>1. /\ pc[t] \in Adding /\ pc'[t] \in Adding /\ UNCHANGED <<buckets, esize, ent>>
          /\ current_bytes' = current_bytes
      BY <1>0, <1>5 DEF InsPeak, InsMax, Goto, TypeOK, LocalTypes, tableVars, localVars,
         statVars, Adding
    <2>2. Arriving(e)' <=> Arriving(e) BY <1>o, <2>1 DEF Arriving
    <2>3. Leaving(e)' <=> Leaving(e) BY <1>o, <2>1 DEF Leaving, Adding
    <2>4. OnChain(e)' <=> OnChain(e) BY <2>1 DEF OnChain
    <2>5. (e \in Counted)' <=> e \in Counted
      BY <1>0, <2>2, <2>3, <2>4, CountedIs, CountedIsNext
    <2> QED BY <2>1, <2>5 DEF KeptBytes
  <1>6. CASE InsAdd(t)
    <2>1. /\ pc[t] = "ins_add" /\ pc'[t] \in {"rawfree", "idle"}
          /\ current_bytes' = current_bytes /\ esize' = esize
          /\ buckets' = [buckets EXCEPT ![AddrStripe[eptr[ent[t]]]] = @ \cup {ent[t]}]
      BY <1>0, <1>6, ReturnEffects DEF InsAdd, Goto, TypeOK, LocalTypes
    <2>2. ent[t] \in Entries /\ ~OnChain(ent[t]) /\ Arriving(ent[t])
      BY <2>1, ArrivingIs DEF Arriving, Adding
    <2>3. AddrStripe[eptr[ent[t]]] \in Stripes
      BY <1>0, <2>1, TrackerConstants
         DEF LocalOK, OpAtPC, BlocksAtPC, Filled, HasNew, InsPCs
    <2>4. OnChain(e)' <=> OnChain(e) \/ e = ent[t]
      BY <1>0, <2>1, <2>2, <2>3 DEF OnChain, TypeOK, SharedTypes
    <2>5. Leaving(e)' <=> Leaving(e) BY <1>o, <2>1 DEF Leaving
    <2>6. ~Leaving(ent[t]) BY <2>2, LeavingIs DEF Leaving
    <2>7. e # ent[t] => (Arriving(e)' <=> Arriving(e))
      BY <1>o, <2>1 DEF Arriving, Adding
    <2>8. (e \in Counted)' <=> e \in Counted
      BY <1>0, <2>2, <2>4, <2>5, <2>6, <2>7, CountedIs, CountedIsNext
    <2> QED BY <2>1, <2>8 DEF KeptBytes
  <1>7. CASE DelLock(t) /\ Matches(old[t]) # {}
    <2>1. /\ pc[t] = "del_lock" /\ pc'[t] = "del_sub" /\ UNCHANGED <<buckets, esize>>
          /\ current_bytes' = current_bytes
      BY <1>0, <1>7 DEF DelLock, Goto, TypeOK, LocalTypes, tableVars, statVars
    <2> QED BY <1>s, <2>1 DEF Adding
  <1>8. CASE DelUnlink(t)
    <2>1. PICK x \in mtt_entry_find(old[t]) :
            /\ buckets' = [buckets EXCEPT ![AddrStripe[old[t]]] = @ \ {x}]
            /\ esize' = [esize EXCEPT ![x] = 0]
      BY <1>8 DEF DelUnlink, Wipe
    <2>2. /\ pc[t] = "del_unlink" /\ pc'[t] = "ret_lock" /\ current_bytes' = current_bytes
      BY <1>0, <1>8 DEF DelUnlink, Goto, TypeOK, LocalTypes
    <2>3. /\ dead[t] \in Entries /\ OnChain(dead[t]) /\ ~Arriving(dead[t])
          /\ AddrStripe[old[t]] \in Stripes /\ Leaving(dead[t])
      BY <2>2, LeavingIs DEF Leaving
    <2>4. x = dead[t]
      <3>1. dead[t] \in mtt_entry_find(old[t]) BY <2>2 DEF ChainsInv, FoundInv
      <3> QED BY <2>1, <2>2, <3>1, LeavingIs, FindUnique
    <2>5. CASE e = dead[t]
      <3>1. e \notin Counted BY <1>0, <2>3, <2>5, CountedIs
      <3>2. e \in buckets[AddrStripe[old[t]]] BY <2>2, <2>5, LeavingIs
      <3>3. \A s \in Stripes : e \in buckets[s] => s = AddrStripe[old[t]]
        BY <2>3, <3>2 DEF OwnershipInv, Single
      <3>4. ~OnChain(e)'
        BY <1>0, <2>1, <2>3, <2>4, <2>5, <3>3 DEF OnChain, TypeOK, SharedTypes
      <3>5. ~Arriving(e)' BY <1>o, <2>2, <2>3, <2>5 DEF Arriving, Adding
      <3> QED BY <1>0, <2>2, <3>1, <3>4, <3>5, CountedIsNext DEF KeptBytes
    <2>6. CASE e # dead[t]
      <3>1. OnChain(e)' <=> OnChain(e)
        BY <1>0, <2>1, <2>3, <2>4, <2>6 DEF OnChain, TypeOK, SharedTypes
      <3>2. Leaving(e)' <=> Leaving(e) BY <1>o, <2>2, <2>6 DEF Leaving
      <3>3. Arriving(e)' <=> Arriving(e) BY <1>o, <2>2 DEF Arriving, Adding
      <3>4. esize'[e] = esize[e] BY <1>0, <2>1, <2>4, <2>6 DEF TypeOK, SharedTypes
      <3>5. (e \in Counted)' <=> e \in Counted
        BY <1>0, <3>1, <3>2, <3>3, CountedIs, CountedIsNext
      <3> QED BY <2>2, <3>4, <3>5 DEF KeptBytes
    <2> QED BY <2>5, <2>6
  <1>9. CASE RetLock(t) \/ RetPush(t)
    <2>1. /\ pc[t] \in RetPCs /\ pc'[t] \in RetPCs /\ UNCHANGED <<buckets, esize>>
          /\ current_bytes' = current_bytes
      BY <1>0, <1>9 DEF RetLock, RetPush, Goto, TypeOK, LocalTypes, tableVars, statVars, RetPCs
    <2> QED BY <1>s, <2>1 DEF Adding, RetPCs
  <1>10. CASE RetUsed(t) \/ RetRaw(t)
    <2>1. /\ AfterReturn(t) /\ pc[t] \in RetPCs /\ UNCHANGED <<buckets, esize>>
          /\ current_bytes' = current_bytes
      BY <1>10 DEF RetUsed, RetRaw, RetPCs, tableVars, statVars
    <2>2. pc'[t] \in {"rawfree", "idle", "re_cap", "ins_lock"}
      BY <1>0, <2>1, AfterReturnEffects
    <2> QED BY <1>s, <2>1, <2>2 DEF Adding, RetPCs
  <1> QED BY <1>1, <1>2, <1>3, <1>4, <1>5, <1>6, <1>7, <1>8, <1>9, <1>10, TwoKinds
          DEF OtherStep

\* The addition counts the record in hand, with its size.
LEMMA AddedBytes ==
  ASSUME OwnershipInv, OwnershipInv', ChainsInv, NEW t \in Threads, Acts(t), InsBytes(t)
  PROVE  /\ ent[t] \in Entries /\ ent[t] \notin Counted /\ (ent[t] \in Counted)'
         /\ ent' = ent /\ esize'[ent[t]] = size[t]
         /\ \A e \in Entries \ {ent[t]} : KeptBytes(e)
         /\ current_bytes' = current_bytes + size[t]
  <1>0. TypeOK /\ TypeOK' /\ LocalOK(t) BY DEF OwnershipInv, LocalsInv, LocalOK
  <1>1. /\ pc[t] = "ins_bytes" /\ pc'[t] = "ins_peak" /\ UNCHANGED <<buckets, esize, ent>>
        /\ current_bytes' = current_bytes + size[t]
    BY <1>0 DEF InsBytes, Goto, TypeOK, LocalTypes, tableVars, localVars
  <1>2. ent[t] \in Entries /\ ~OnChain(ent[t]) /\ ~Arriving(ent[t])
    BY <1>1, ArrivingIs DEF Arriving, Adding
  <1>3. ent[t] \notin Counted BY <1>0, <1>2, CountedIs
  <1>4. Arriving(ent[t])' BY <1>1 DEF Arriving, Adding
  <1>5. esize[ent[t]] = size[t]
    BY <1>1 DEF ChainsInv, SizeInv, HasNew, InsPCs
  <1>6. (ent[t] \in Counted)' BY <1>0, <1>1, <1>2, <1>4, CountedIsNext
  <1>7. ASSUME NEW e \in Entries \ {ent[t]} PROVE KeptBytes(e)
    BY <1>1, <1>7, KeptOffChain DEF Adding
  <1> QED BY <1>1, <1>2, <1>3, <1>5, <1>6, <1>7

\* The subtraction takes the size of the record found out again.
LEMMA SubtractedBytes ==
  ASSUME OwnershipInv, OwnershipInv', ChainsInv, LoadedInv, NEW t \in Threads, Acts(t),
         DelSub(t)
  PROVE  /\ dead[t] \in Entries /\ dead[t] \in Counted /\ ~(dead[t] \in Counted)'
         /\ dead' = dead
         /\ \A e \in Entries \ {dead[t]} : KeptBytes(e)
         /\ current_bytes' = current_bytes - esize[dead[t]]
  <1>0. TypeOK /\ TypeOK' BY DEF OwnershipInv
  <1>1. /\ pc[t] = "del_sub" /\ pc'[t] = "del_unlink" /\ UNCHANGED <<buckets, esize, dead>>
    BY <1>0 DEF DelSub, Goto, TypeOK, LocalTypes, tableVars, localVars
  <1>2. dead[t] \in Entries /\ OnChain(dead[t]) /\ ~Arriving(dead[t]) /\ ~Leaving(dead[t])
    BY <1>1, LeavingIs DEF Leaving
  <1>3. dead[t] \in Counted BY <1>0, <1>2, CountedIs
  <1>4. current_bytes' = current_bytes - esize[dead[t]] BY <1>1 DEF DelSub, LoadedInv
  <1>5. Leaving(dead[t])' BY <1>1 DEF Leaving
  <1>6. \A u \in Threads \ {t} : pc'[u] = pc[u] /\ ent'[u] = ent[u] BY OthersStand
  <1>7. ~Arriving(dead[t])' BY <1>1, <1>2, <1>6 DEF Arriving, Adding
  <1>8. ~(dead[t] \in Counted)' BY <1>0, <1>1, <1>2, <1>5, <1>7, CountedIsNext
  <1>9. ASSUME NEW e \in Entries \ {dead[t]} PROVE KeptBytes(e)
    BY <1>1, <1>9, KeptOffChain DEF Adding
  <1> QED BY <1>1, <1>2, <1>3, <1>4, <1>8, <1>9

\* BytesExact with the sum by its name.
LEMMA BytesAre == BytesExact <=> current_bytes = SumOver(esize, Counted)
  BY DEF BytesExact, SumOver, MapThenSumSet, MapThenFoldSet

\* What the sum is taken over: a finite set of records with sizes.
LEMMA CountedSizes ==
  ASSUME OwnershipInv
  PROVE  /\ Counted \subseteq Entries /\ IsFiniteSet(Counted)
         /\ \A e \in Entries : esize[e] \in Nat
  <1>0. TypeOK BY DEF OwnershipInv
  <1>1. \A e \in Entries : esize[e] \in Nat
    BY <1>0, TrackerConstants DEF TypeOK, SharedTypes
  <1>2. Table \subseteq Entries BY <1>0 DEF Table, TypeOK, SharedTypes
  <1>3. \A t \in Threads : pc[t] \in Adding => ent[t] \in Entries BY ArrivingIs
  <1>4. Counted \subseteq Entries BY <1>2, <1>3 DEF Counted, Adding
  <1>5. IsFiniteSet(Entries) BY TrackerConstants, FS_Interval DEF Entries
  <1> QED BY <1>1, <1>4, <1>5, FS_Subset

\* current_bytes covers what each record contributed.
LEMMA BytesCover ==
  ASSUME OwnershipInv, BytesExact, NEW e \in Counted
  PROVE  esize[e] <= current_bytes
  <1>1. IsFiniteSet(Counted) /\ \A x \in Counted : esize[x] \in Nat BY CountedSizes
  <1>2. esize[e] <= SumOver(esize, Counted) BY <1>1, SumCovers
  <1> QED BY <1>2, BytesAre

\* The sum goes with the counter.
LEMMA BytesStep ==
  ASSUME OwnershipInv, OwnershipInv', ChainsInv, LoadedInv, BytesExact,
         NEW t \in Threads, Acts(t)
  PROVE  BytesExact'
  <1>0. TypeOK BY DEF OwnershipInv
  <1>1. PICK C, w : C = Counted /\ w = esize OBVIOUS
  <1>2. PICK D, v : D = Counted' /\ v = esize' OBVIOUS
  <1>3. current_bytes = SumOver(w, C) BY <1>1, BytesAre
  <1>4. SUFFICES current_bytes' = SumOver(v, D)
    <2>1. (BytesExact <=> current_bytes = SumOver(esize, Counted))' BY BytesAre, PTL
    <2> QED BY <1>2, <2>1
  <1>5. C \subseteq Entries /\ IsFiniteSet(C) /\ \A e \in Entries : w[e] \in Nat
    BY <1>1, CountedSizes
  <1>6. D \subseteq Entries /\ IsFiniteSet(D) /\ \A e \in Entries : v[e] \in Nat
    <2>1. (OwnershipInv => /\ Counted \subseteq Entries /\ IsFiniteSet(Counted)
                           /\ \A e \in Entries : esize[e] \in Nat)'
      BY CountedSizes, PTL
    <2> QED BY <1>2, <2>1
  <1>7. \A e \in Entries : KeptBytes(e) => (e \in D <=> e \in C) /\ (e \in C => v[e] = w[e])
    BY <1>1, <1>2 DEF KeptBytes
  <1>8. CASE InsBytes(t)
    <2>1. PICK x \in Entries : x = ent[t] BY <1>8, AddedBytes
    <2>2. /\ x \notin C /\ x \in D /\ v[x] = size[t]
          /\ \A e \in Entries \ {x} : KeptBytes(e)
          /\ current_bytes' = current_bytes + size[t]
      BY <1>1, <1>2, <1>8, <2>1, AddedBytes
    <2>3. D = C \cup {x} BY <1>5, <1>6, <1>7, <2>2
    <2>4. SumOver(v, C \cup {x}) = SumOver(v, C) + v[x] BY <1>5, <1>6, <2>2, SumAdds
    <2>5. SumOver(w, C) = SumOver(v, C)
      <3>1. \A e \in C : w[e] = v[e] BY <1>5, <1>7, <2>2
      <3> QED BY <1>5, <3>1, SumSame
    <2> QED BY <1>3, <2>2, <2>3, <2>4, <2>5
  <1>9. CASE DelSub(t)
    <2>1. PICK x \in Entries : x = dead[t] BY <1>9, SubtractedBytes
    <2>2. /\ x \in C /\ x \notin D
          /\ \A e \in Entries \ {x} : KeptBytes(e)
          /\ current_bytes' = current_bytes - w[x]
      BY <1>1, <1>2, <1>9, <2>1, SubtractedBytes
    <2>3. D = C \ {x} BY <1>5, <1>6, <1>7, <2>2
    <2>4. SumOver(w, C) = w[x] + SumOver(w, C \ {x})
      <3>1. \A e \in C : w[e] \in Nat BY <1>5
      <3> QED BY <1>5, <2>2, <3>1, SumCovers
    <2>5. SumOver(w, D) = SumOver(v, D)
      <3>1. \A e \in D : w[e] = v[e] BY <1>6, <1>7, <2>2
      <3> QED BY <1>6, <3>1, SumSame
    <2>6. SumOver(w, D) \in Nat /\ w[x] \in Nat BY <1>5, <1>6, SumIsNat
    <2> QED BY <1>3, <2>2, <2>3, <2>4, <2>5, <2>6
  <1>10. CASE ~InsBytes(t) /\ ~DelSub(t)
    <2>1. \A e \in Entries : KeptBytes(e) BY <1>10, KeptQuietly
    <2>2. current_bytes' = current_bytes
      <3>1. CASE PlainStep(t)
        BY <1>0, <3>1, PlainEffects DEF OwnershipInv, LocalsInv, LocalOK, Plain
      <3>2. CASE OtherStep(t)
        BY <1>10, <3>2 DEF OtherStep, PoolUnlink, RawNew, InsLock, InsPeak, InsMax, InsAdd,
           DelLock, DelUnlink, RetLock, RetPush, RetUsed, RetRaw, statVars
      <3> QED BY <3>1, <3>2, TwoKinds
    <2>3. D = C BY <1>5, <1>6, <1>7, <2>1
    <2>4. \A e \in C : w[e] = v[e] BY <1>5, <1>7, <2>1
    <2>5. SumOver(w, C) = SumOver(v, C) BY <1>5, <2>4, SumSame
    <2> QED BY <1>3, <2>2, <2>3, <2>5
  <1> QED BY <1>8, <1>9, <1>10

\* The value a hook loaded before it subtracts stays large enough: it was when
\* the record was found, and the record's size does not change under the lock.
LEMMA LoadedStep ==
  ASSUME OwnershipInv, ChainsInv, LoadedInv, BytesExact, NEW t \in Threads, Acts(t),
         NEW u \in Threads, pc'[u] = "del_sub"
  PROVE  esize'[dead'[u]] <= cur'[u]
  <1>0. TypeOK /\ LocalOK(t) BY DEF OwnershipInv, LocalsInv, LocalOK
  <1>1. CASE u # t
    <2>1. pc[u] = "del_sub" /\ cur'[u] = cur[u] /\ dead'[u] = dead[u] BY <1>1, OthersStand
    <2>2. /\ dead[u] \in buckets[AddrStripe[old[u]]] /\ AddrStripe[old[u]] \in Stripes
          /\ bucket_locks[AddrStripe[old[u]]] = u
      BY <2>1, LeavingIs
    <2>3. FieldsSame(dead[u]) BY <1>1, <2>2, LockedChain
    <2> QED BY <2>1, <2>3 DEF FieldsSame, LoadedInv
  <1>2. CASE u = t
    <2>1. DelLock(t) /\ Matches(old[t]) # {}
      <3>1. ~PlainStep(t)
        <4>1. PlainStep(t) => pc'[t] \notin Busy BY <1>0, PlainEffects DEF Plain
        <4> QED BY <1>2, <4>1 DEF Busy
      <3>2. pc'[t] = "del_sub" BY <1>2
      <3>3. ~PoolUnlink(t) /\ ~RawNew(t)
        BY <1>0, <3>2 DEF PoolUnlink, RawNew, Fill, Goto, TypeOK, LocalTypes
      <3>4. ~InsLock(t) /\ ~InsBytes(t) /\ ~InsPeak(t) /\ ~InsMax(t)
        BY <1>0, <3>2 DEF InsLock, InsBytes, InsPeak, InsMax, Goto, TypeOK, LocalTypes
      <3>5. ~InsAdd(t)
        BY <1>0, <3>2, ReturnEffects DEF InsAdd, Goto, TypeOK, LocalTypes
      <3>6. ~DelSub(t) /\ ~DelUnlink(t) /\ ~RetLock(t) /\ ~RetPush(t)
        BY <1>0, <3>2 DEF DelSub, DelUnlink, RetLock, RetPush, Goto, TypeOK, LocalTypes
      <3>7. ~RetUsed(t) /\ ~RetRaw(t)
        <4>1. RetUsed(t) \/ RetRaw(t) => AfterReturn(t) /\ pc[t] \in RetPCs
          BY DEF RetUsed, RetRaw, RetPCs
        <4> QED BY <1>0, <3>2, <4>1, AfterReturnEffects
      <3> QED BY <3>1, <3>3, <3>4, <3>5, <3>6, <3>7, TwoKinds DEF OtherStep
    <2>2. /\ dead'[t] \in mtt_entry_find(old[t]) /\ cur'[t] = current_bytes
          /\ esize' = esize /\ pc[t] = "del_lock"
          /\ bucket_locks[AddrStripe[old[t]]] = NoThread
      BY <1>0, <2>1 DEF DelLock, StripeLock, TypeOK, LocalTypes, tableVars
    <2>3. AddrStripe[old[t]] \in Stripes BY <2>2, BlockStripes
    <2>4. dead'[t] \in buckets[AddrStripe[old[t]]] BY <2>2 DEF mtt_entry_find, Matches
    <2>5. dead'[t] \in Entries /\ OnChain(dead'[t])
      BY <1>0, <2>3, <2>4 DEF OnChain, TypeOK, SharedTypes
    <2>6. PICK x \in Entries : x = dead'[t] BY <2>5
    <2>7. ~Leaving(x)
      <3> SUFFICES ASSUME NEW v \in Threads, pc[v] = "del_unlink", dead[v] = x PROVE FALSE
        BY DEF Leaving
      <3>1. /\ AddrStripe[old[v]] \in Stripes /\ x \in buckets[AddrStripe[old[v]]]
            /\ bucket_locks[AddrStripe[old[v]]] = v
        BY LeavingIs
      <3>2. AddrStripe[old[v]] = AddrStripe[old[t]]
        BY <2>3, <2>4, <2>6, <3>1 DEF OwnershipInv, Single
      <3> QED BY <2>2, <3>1, <3>2, TrackerConstants
    <2>8. x \in Counted BY <1>0, <2>5, <2>6, <2>7, CountedIs
    <2>9. esize[x] <= current_bytes BY <1>0, <2>8, BytesCover
    <2> QED BY <1>2, <2>2, <2>6, <2>9
  <1> QED BY <1>1, <1>2

\* After mtt_ensure_init nothing is counted.
LEMMA BytesInit == Init => BytesExact /\ LoadedInv
  <1> SUFFICES ASSUME Init PROVE BytesExact /\ LoadedInv OBVIOUS
  <1>1. PICK C : C = Counted OBVIOUS
  <1>2. C = {} BY <1>1 DEF Init, Counted, Table
  <1>3. SumOver(esize, C) = 0 BY <1>2, FS_EmptySet, SumStep
  <1>4. BytesExact BY <1>1, <1>3, BytesAre DEF Init
  <1>5. LoadedInv BY DEF Init, LoadedInv
  <1> QED BY <1>4, <1>5

TotalsInv == OwnershipInv /\ ChainsInv /\ BytesExact /\ LoadedInv

\* current_bytes is at every step the sum of the sizes of the records that have
\* been added and not subtracted, although hooks on different stripes add
\* and subtract without a common lock (hooks.c:284 and 395-398).
THEOREM TotalsInvariant == Spec => []TotalsInv
  <1>1. Init => TotalsInv BY OwnershipInit, ChainsInit, BytesInit DEF TotalsInv
  <1>2. TotalsInv /\ [Next]_vars => TotalsInv'
    <2> SUFFICES ASSUME TotalsInv, [Next]_vars PROVE TotalsInv' OBVIOUS
    <2>1. OwnershipInv' /\ ChainsInv' BY OwnershipStep, ChainsStep DEF TotalsInv
    <2>2. CASE UNCHANGED vars
      <3>1. UNCHANGED <<buckets, esize, ent, dead, pc, current_bytes, cur>>
        BY <2>2 DEF vars, tableVars, statVars, localVars
      <3>2. (Counted)' = Counted BY <3>1 DEF Counted, Table
      <3>3. (BytesExact <=> current_bytes = SumOver(esize, Counted))' BY BytesAre, PTL
      <3>4. BytesExact' BY <3>1, <3>2, <3>3, BytesAre DEF TotalsInv
      <3> QED BY <2>1, <3>1, <3>4 DEF TotalsInv, LoadedInv
    <2>3. ASSUME NEW t \in Threads, Acts(t) PROVE TotalsInv'
      <3>1. BytesExact' BY <2>1, <2>3, BytesStep DEF TotalsInv
      <3>2. LoadedInv' BY <2>3, LoadedStep DEF TotalsInv, LoadedInv
      <3> QED BY <2>1, <3>1, <3>2 DEF TotalsInv
    <2> QED BY <2>2, <2>3 DEF Next, Acts
  <1> QED BY <1>1, <1>2, PTL DEF Spec

\* So the number the report and the signal thread print for the bytes in use is
\* exact between any two steps.
THEOREM BytesAgree == Spec => []BytesExact
  <1>1. TotalsInv => BytesExact BY DEF TotalsInv
  <1> QED BY <1>1, TotalsInvariant, PTL

\* The guard of the subtraction (hooks.c:395) never fails, with the value
\* loaded or with the one current_bytes has by then: the counter neither wraps
\* nor is reset to 0.
THEOREM SubtractionSafe == Spec => []NoUnderflow
  <1>1. TotalsInv => NoUnderflow
    <2> SUFFICES ASSUME TotalsInv, NEW t \in Threads, pc[t] = "del_sub"
                 PROVE  esize[dead[t]] <= cur[t] /\ esize[dead[t]] <= current_bytes
      BY DEF NoUnderflow
    <2>0. OwnershipInv /\ TypeOK /\ ChainsInv /\ BytesExact BY DEF TotalsInv, OwnershipInv
    <2>1. dead[t] \in Entries /\ OnChain(dead[t]) /\ ~Leaving(dead[t])
      BY <2>0, LeavingIs DEF Leaving
    <2>2. dead[t] \in Counted BY <2>0, <2>1, CountedIs
    <2>3. esize[dead[t]] <= current_bytes BY <2>0, <2>2, BytesCover
    <2> QED BY <2>3 DEF TotalsInv, LoadedInv
  <1> QED BY <1>1, TotalsInvariant, PTL

-----------------------------------------------------------------------------
(* What a step does to the records on the chains.                          *)

\* A hook links its new record, or unlinks the one it deletes, and leaves the
\* fields of those on the chains alone.
LEMMA TableStep ==
  ASSUME OwnershipInv, ChainsInv, NEW t \in Threads, Acts(t), NEW e \in Entries
  PROVE  /\ ~InsAdd(t) /\ OnChain(e)' => OnChain(e)
         /\ InsAdd(t) /\ OnChain(e)' => OnChain(e) \/ e = ent[t]
         /\ ~DelUnlink(t) /\ OnChain(e) => OnChain(e)'
         /\ DelUnlink(t) => (OnChain(e)' <=> OnChain(e) /\ e # dead[t])
         /\ InsAdd(t) => eptr' = eptr /\ esize' = esize
         /\ OnChain(e) /\ OnChain(e)' => FieldsSame(e)
  <1>0. TypeOK /\ LocalOK(t) BY DEF OwnershipInv, LocalsInv, LocalOK
  <1>w. OnChain(e) /\ ~FieldsSame(e) => pc[t] = "del_unlink"
    BY FieldFrame DEF Writable, OwnershipInv, Apart, InNew
  <1>s. ASSUME buckets' = buckets, pc[t] \notin {"del_unlink", "ins_add"}
        PROVE  (OnChain(e)' <=> OnChain(e)) /\ ~InsAdd(t) /\ ~DelUnlink(t)
    BY <1>s DEF OnChain, InsAdd, DelUnlink
  <1>1. CASE PlainStep(t)
    <2>1. Plain(t) BY <1>0, <1>1, PlainEffects
    <2> QED BY <2>1, <1>s, <1>w DEF Plain, Busy, InsWindow
  <1>2. CASE PoolUnlink(t) \/ RawNew(t) \/ InsLock(t)
    BY <1>2, <1>s, <1>w DEF PoolUnlink, RawNew, InsLock
  <1>3. CASE InsBytes(t) \/ InsPeak(t) \/ InsMax(t) \/ DelLock(t) \/ DelSub(t)
    BY <1>3, <1>s, <1>w DEF InsBytes, InsPeak, InsMax, DelLock, DelSub, tableVars
  <1>4. CASE RetLock(t) \/ RetPush(t) \/ RetUsed(t) \/ RetRaw(t)
    BY <1>4, <1>s, <1>w DEF RetLock, RetPush, RetUsed, RetRaw, tableVars
  <1>5. CASE InsAdd(t)
    <2>1. /\ pc[t] = "ins_add" /\ UNCHANGED <<eptr, esize, enum>>
          /\ buckets' = [buckets EXCEPT ![AddrStripe[eptr[ent[t]]]] = @ \cup {ent[t]}]
      BY <1>5 DEF InsAdd
    <2>2. (OnChain(e)' => OnChain(e) \/ e = ent[t]) /\ (OnChain(e) => OnChain(e)')
      BY <1>0, <2>1 DEF OnChain, TypeOK, SharedTypes
    <2>3. ~DelUnlink(t) BY <2>1 DEF DelUnlink
    <2> QED BY <1>5, <2>1, <2>2, <2>3 DEF FieldsSame
  <1>6. CASE DelUnlink(t)
    <2>1. PICK x \in mtt_entry_find(old[t]) :
            buckets' = [buckets EXCEPT ![AddrStripe[old[t]]] = @ \ {x}] /\ Wipe(x)
      BY <1>6 DEF DelUnlink
    <2>2. pc[t] = "del_unlink" BY <1>6 DEF DelUnlink
    <2>3. /\ dead[t] \in Entries /\ AddrStripe[old[t]] \in Stripes
          /\ dead[t] \in buckets[AddrStripe[old[t]]] /\ OnChain(dead[t])
      BY <2>2, LeavingIs
    <2>4. x = dead[t]
      <3>1. dead[t] \in mtt_entry_find(old[t]) BY <2>2 DEF ChainsInv, FoundInv
      <3> QED BY <2>1, <2>2, <3>1, LeavingIs, FindUnique
    <2>5. OnChain(e)' <=> OnChain(e) /\ e # dead[t]
      BY <1>0, <2>1, <2>3, <2>4 DEF OnChain, OwnershipInv, Single, TypeOK, SharedTypes
    <2>6. e # dead[t] => FieldsSame(e)
      BY <1>0, <2>1, <2>3, <2>4 DEF Wipe, FieldsSame, TypeOK, SharedTypes
    <2>7. ~InsAdd(t) BY <2>2 DEF InsAdd
    <2> QED BY <1>6, <2>5, <2>6, <2>7
  <1> QED BY <1>1, <1>2, <1>3, <1>4, <1>5, <1>6, TwoKinds DEF OtherStep

-----------------------------------------------------------------------------
(* The ledger.                                                             *)

\* A step of a program without realloc.
Moves(t) == Step(t) \/ CallMallocFree(t)

\* Inside a hook no block changes hands; when malloc returns, one does.
Inner(t) == UNCHANGED <<heap, app, lib, op, old, tgt, size>>
Handing(t) ==
  /\ op[t] = "malloc" /\ UNCHANGED <<heap, lib>>
  /\ app' = app \cup {tgt[t]}
  /\ op'[t] = "none"

\* A malloc that returns hands its block to the application.
LEMMA HandingReturn ==
  ASSUME LocalTypes, NEW t \in Threads, op[t] = "malloc", UNCHANGED <<heap, lib>>,
         Return(t, {tgt[t]})
  PROVE  Handing(t)
  BY ReturnEffects DEF Handing, Return

\* The kinds of step, by what happens to blocks.
LEMMA BlockKinds ==
  ASSUME OwnershipInv, OwnersInv, NEW t \in Threads, Step(t)
  PROVE  /\ RawFree(t) \/ Handing(t) \/ Inner(t)
         /\ InsAdd(t) => Handing(t)
         /\ DelUnlink(t) => Inner(t)
  <1>0. LocalTypes /\ LocalOK(t) /\ OpAtPC(t) BY DEF OwnershipInv, TypeOK, LocalsInv, LocalOK
  <1>p. op[t] \in {"none", "malloc", "free"} BY DEF OwnersInv
  <1>a. /\ InsAdd(t) => pc[t] = "ins_add"
        /\ DelUnlink(t) => pc[t] = "del_unlink"
    BY DEF InsAdd, DelUnlink
  <1> USE DEF libcVars, localVars
  <1>1. ASSUME NEW sampled \in BOOLEAN, Track(t, sampled)
        PROVE  (Handing(t) \/ Inner(t)) /\ pc[t] = "track"
    <2>1. pc[t] = "track" /\ op[t] = "malloc" /\ UNCHANGED <<heap, lib>>
      BY <1>0, <1>1 DEF Track, OpAtPC
    <2> QED BY <1>0, <1>1, <2>1, HandingReturn DEF Track, Inner
  <1>2. CASE ApiUnsampled(t)
    <2>1. pc[t] = "track" /\ op[t] = "malloc" /\ UNCHANGED <<heap, lib>>
      BY <1>0, <1>2 DEF ApiUnsampled, OpAtPC
    <2> QED BY <1>0, <1>2, <1>a, <2>1, HandingReturn DEF ApiUnsampled
  <1>3. CASE ReCapacity(t) BY <1>0, <1>3, <1>p DEF ReCapacity, OpAtPC
  <1>4. CASE PoolHead(t) \/ PoolSkip(t) \/ PoolUnlink(t) \/ RawNew(t)
    BY <1>4, <1>a DEF PoolHead, PoolSkip, PoolUnlink, RawNew, Inner
  <1>5. CASE GiveUp(t)
    <2>1. pc[t] = "new" /\ op[t] = "malloc" BY <1>0, <1>5, <1>p DEF GiveUp, OpAtPC
    <2>2. UNCHANGED <<heap, lib>> /\ Return(t, {tgt[t]}) BY <1>5, <2>1 DEF GiveUp
    <2> QED BY <1>0, <1>a, <2>1, <2>2, HandingReturn
  <1>6. CASE InsLock(t) \/ InsBytes(t) \/ InsPeak(t) \/ InsMax(t)
    BY <1>6, <1>a DEF InsLock, InsBytes, InsPeak, InsMax, Inner
  <1>7. CASE InsAdd(t)
    <2>1. pc[t] = "ins_add" /\ op[t] = "malloc"
      BY <1>0, <1>7, <1>p DEF InsAdd, OpAtPC, InsPCs
    <2>2. UNCHANGED <<heap, lib>> /\ Return(t, {tgt[t]}) BY <1>7, <2>1 DEF InsAdd
    <2> QED BY <1>0, <1>a, <2>1, <2>2, HandingReturn
  <1>8. CASE DelLock(t) \/ DelSub(t) \/ DelUnlink(t)
    BY <1>8, <1>a DEF DelLock, DelSub, DelUnlink, Inner
  <1>9. CASE RetLock(t) \/ RetPush(t) BY <1>9, <1>a DEF RetLock, RetPush, Inner
  <1>10. CASE RetUsed(t) \/ RetRaw(t)
    <2>1. pc[t] \in RetPCs /\ AfterReturn(t) /\ UNCHANGED <<heap, lib>>
      BY <1>10 DEF RetUsed, RetRaw, RetPCs
    <2>2. CASE discard[t]
      <3>1. op[t] = "malloc" BY <1>0, <1>p, <2>1, <2>2 DEF OpAtPC
      <3>2. Return(t, {tgt[t]}) BY <2>1, <2>2, <3>1 DEF AfterReturn
      <3> QED BY <1>0, <1>a, <2>1, <3>1, <3>2, HandingReturn DEF RetPCs
    <2>3. CASE ~discard[t] BY <1>a, <2>1, <2>3 DEF AfterReturn, Inner, RetPCs
    <2> QED BY <2>2, <2>3
  <1>11. CASE RawFree(t) BY <1>11, <1>a DEF RawFree
  <1> QED BY <1>1, <1>2, <1>3, <1>4, <1>5, <1>6, <1>7, <1>8, <1>9, <1>10, <1>11, <1>a
          DEF Step

\* What the threads that do not move keep of their blocks.
LEMMA PassingFrame ==
  ASSUME OwnershipInv, NEW t \in Threads, Moves(t), NEW u \in Threads \ {t}
  PROVE  /\ op'[u] = op[u] /\ old'[u] = old[u] /\ tgt'[u] = tgt[u] /\ size'[u] = size[u]
         /\ pc'[u] = pc[u]
  BY LocalFrame, SizesFrame
     DEF OwnershipInv, TypeOK, Acts, Moves, SameLocals, SameSizes

\* Blocks have one owner.
LEMMA OwnersStep ==
  ASSUME ~CrossFree, OwnershipInv, OwnersInv, NEW t \in Threads, Moves(t)
  PROVE  OwnersInv'
  <1>0. TypeOK /\ OpAtPC(t) /\ BlocksAtPC(t) BY DEF OwnershipInv, LocalsInv
  <1>h. heap \in [Addr -> 0 .. MaxSize] /\ app \subseteq Addr /\ lib \subseteq Addr
    BY <1>0 DEF TypeOK, SharedTypes
  <1>l. /\ op \in [Threads -> {"none", "malloc", "free", "realloc", "copy"}]
        /\ old \in [Threads -> Addr \cup {NoAddr}] /\ tgt \in [Threads -> Addr \cup {NoAddr}]
        /\ size \in [Threads -> 0 .. MaxSize]
    BY <1>0 DEF TypeOK, LocalTypes
  <1>f. \A u \in Threads \ {t} : /\ op'[u] = op[u] /\ old'[u] = old[u] /\ tgt'[u] = tgt[u]
                                /\ size'[u] = size[u]
    BY PassingFrame
  <1>n. \A n \in Sizes : n # 0 BY DEF Sizes
  <1>m. \A u \in Threads : op[u] = "malloc" => tgt[u] \in Addr /\ Passing(u, tgt[u])
    BY DEF OwnershipInv, LocalsInv, BlocksAtPC, Passing
  <1>1. ASSUME NEW a \in Addr, NEW n \in Sizes, Malloc(t, a, n) PROVE OwnersInv'
    <2>1. /\ heap[a] = 0 /\ heap' = [heap EXCEPT ![a] = n] /\ UNCHANGED <<app, lib>>
          /\ op'[t] = "malloc" /\ tgt'[t] = a /\ size'[t] = n /\ op[t] = "none"
      BY <1>0, <1>1, <1>l DEF Malloc, Begin, RawMalloc, OpAtPC
    <2>2. a \notin app \cup lib /\ \A u \in Threads : ~Passing(u, a) BY <2>1 DEF OwnersInv
    <2>3. \A u \in Threads, b \in Addr :
            Passing(u, b)' <=> IF u = t THEN b = a ELSE Passing(u, b)
      BY <1>f, <2>1 DEF Passing
    <2>4. \A b \in Addr : heap'[b] = IF b = a THEN n ELSE heap[b] BY <1>h, <2>1
    <2>5. \A u \in Threads : op'[u] = "malloc" => heap'[tgt'[u]] = size'[u]
      BY <1>f, <1>m, <2>1, <2>2, <2>4 DEF OwnersInv
    <2> QED BY <1>f, <1>h, <1>n, <2>1, <2>2, <2>3, <2>4, <2>5 DEF OwnersInv
  <1>2. ASSUME NEW a \in Addr, NEW n \in Sizes, MallocPass(t, a, n) PROVE OwnersInv'
    <2>1. /\ heap[a] = 0 /\ heap' = [heap EXCEPT ![a] = n] /\ app' = app
          /\ lib' = lib \cup {a} /\ UNCHANGED <<op, old, tgt, size>>
      BY <1>2 DEF MallocPass, RawMalloc, localVars
    <2>2. a \notin app \cup lib /\ \A u \in Threads : ~Passing(u, a) BY <2>1 DEF OwnersInv
    <2>3. \A u \in Threads, b \in Addr : Passing(u, b)' <=> Passing(u, b)
      BY <2>1 DEF Passing
    <2>4. \A b \in Addr : heap'[b] = IF b = a THEN n ELSE heap[b] BY <1>h, <2>1
    <2>5. \A u \in Threads : op'[u] = "malloc" => heap'[tgt'[u]] = size'[u]
      BY <1>m, <2>1, <2>2, <2>4 DEF OwnersInv
    <2> QED BY <1>h, <1>n, <2>1, <2>2, <2>3, <2>4, <2>5 DEF OwnersInv
  <1>3. ASSUME NEW p \in Addr, Free(t, p) PROVE OwnersInv'
    <2>1. /\ p \in app \cup lib /\ heap' = heap /\ app' = app \ {p} /\ lib' = lib \ {p}
          /\ op'[t] = "free" /\ old'[t] = p /\ op[t] = "none"
      BY <1>0, <1>3, <1>l DEF Free, Begin, OpAtPC
    <2>2. heap[p] # 0 /\ \A u \in Threads : ~Passing(u, p) BY <2>1 DEF OwnersInv
    <2>3. \A u \in Threads, b \in Addr :
            Passing(u, b)' <=> IF u = t THEN b = p ELSE Passing(u, b)
      BY <1>f, <2>1 DEF Passing
    <2>5. \A u \in Threads : op'[u] = "malloc" => heap'[tgt'[u]] = size'[u]
      BY <1>f, <2>1 DEF OwnersInv
    <2> QED BY <1>f, <1>h, <2>1, <2>2, <2>3, <2>5 DEF OwnersInv
  <1>4. ASSUME NEW p \in Addr, FreePass(t, p) PROVE OwnersInv'
    <2>1. /\ p \in lib /\ heap' = [heap EXCEPT ![p] = 0] /\ app' = app \ {p}
          /\ lib' = lib \ {p} /\ UNCHANGED <<op, old, tgt, size>>
      BY <1>4 DEF FreePass, PassBlocks, localVars
    <2>2. p \notin app /\ \A u \in Threads : ~Passing(u, p) BY <2>1 DEF OwnersInv
    <2>3. \A u \in Threads, b \in Addr : Passing(u, b)' <=> Passing(u, b)
      BY <2>1 DEF Passing
    <2>4. \A b \in Addr : heap'[b] = IF b = p THEN 0 ELSE heap[b] BY <1>h, <2>1
    <2>5. \A u \in Threads : op'[u] = "malloc" => heap'[tgt'[u]] = size'[u]
      BY <1>m, <2>1, <2>2, <2>4 DEF OwnersInv
    <2> QED BY <1>h, <2>1, <2>2, <2>3, <2>4, <2>5 DEF OwnersInv
  <1>5. CASE Step(t) /\ RawFree(t)
    <2>1. op[t] = "free" /\ old[t] \in Addr
      BY <1>0, <1>5 DEF RawFree, OpAtPC, BlocksAtPC, OwnersInv
    <2>2. /\ heap' = [heap EXCEPT ![old[t]] = 0] /\ app' = app /\ lib' = lib
          /\ op'[t] = "none"
      BY <1>0, <1>5, <2>1, ReturnEffects DEF RawFree, Return, TypeOK
    <2>3. /\ old[t] \notin app \cup lib
          /\ \A u \in Threads \ {t} : ~Passing(u, old[t])
      BY <2>1 DEF OwnersInv, Passing
    <2>4. \A u \in Threads, b \in Addr : Passing(u, b)' <=> u # t /\ Passing(u, b)
      BY <1>f, <2>2 DEF Passing
    <2>5. \A b \in Addr : heap'[b] = IF b = old[t] THEN 0 ELSE heap[b] BY <1>h, <2>1, <2>2
    <2>6. \A u \in Threads : op'[u] = "malloc" => heap'[tgt'[u]] = size'[u]
      BY <1>f, <1>m, <2>2, <2>3, <2>5 DEF OwnersInv
    <2> QED BY <1>f, <1>h, <2>2, <2>3, <2>4, <2>5, <2>6 DEF OwnersInv
  <1>6. CASE Step(t) /\ Handing(t)
    <2>1. /\ op[t] = "malloc" /\ UNCHANGED <<heap, lib>> /\ app' = app \cup {tgt[t]}
          /\ op'[t] = "none" /\ tgt[t] \in Addr
      BY <1>6, <1>m DEF Handing
    <2>2. /\ tgt[t] \notin app \cup lib /\ heap[tgt[t]] # 0
          /\ \A u \in Threads \ {t} : ~Passing(u, tgt[t])
      BY <2>1 DEF OwnersInv, Passing
    <2>3. \A u \in Threads, b \in Addr : Passing(u, b)' <=> u # t /\ Passing(u, b)
      BY <1>f, <2>1 DEF Passing
    <2>4. \A u \in Threads : op'[u] = "malloc" => heap'[tgt'[u]] = size'[u]
      BY <1>f, <2>1 DEF OwnersInv
    <2> QED BY <1>f, <1>h, <2>1, <2>2, <2>3, <2>4 DEF OwnersInv
  <1>7. CASE Inner(t)
    BY <1>7 DEF Inner, OwnersInv, Passing
  <1> QED BY <1>1, <1>2, <1>3, <1>4, <1>5, <1>6, <1>7, BlockKinds DEF Moves, CallMallocFree

\* A record on a chain is on the chain its block is looked up in.
LEMMA MatchesIs ==
  ASSUME OwnershipInv, NEW p \in Addr, NEW e
  PROVE  e \in Matches(p) <=> e \in Entries /\ OnChain(e) /\ eptr[e] = p
  <1>1. AddrStripe[p] \in Stripes BY TrackerConstants
  <1>2. \A i \in Stripes : buckets[i] \subseteq Entries
    BY DEF OwnershipInv, TypeOK, SharedTypes
  <1>3. \A i \in Stripes : \A x \in buckets[i] : AddrStripe[eptr[x]] = i
    BY DEF OwnershipInv, ChainInv
  <1> QED BY <1>1, <1>2, <1>3 DEF Matches, OnChain

\* The same of the next state.
LEMMA MatchesIsNext ==
  ASSUME OwnershipInv', NEW p \in Addr, NEW e
  PROVE  e \in Matches(p)' <=> e \in Entries /\ OnChain(e)' /\ eptr'[e] = p
  <1>1. AddrStripe[p] \in Stripes BY TrackerConstants
  <1>2. \A i \in Stripes : buckets'[i] \subseteq Entries
    BY DEF OwnershipInv, TypeOK, SharedTypes
  <1>3. \A i \in Stripes : \A x \in buckets'[i] : AddrStripe[eptr'[x]] = i
    BY DEF OwnershipInv, ChainInv
  <1> QED BY <1>1, <1>2, <1>3 DEF Matches, OnChain

\* The block of a record.
LEMMA RecordBlock ==
  ASSUME OwnershipInv, NEW e \in Entries, OnChain(e)
  PROVE  eptr[e] \in Addr
  BY DEF OwnershipInv, ChainInv, OnChain

\* A free that has a record to delete goes on until it has deleted it.
LEMMA DeletesOn ==
  ASSUME OwnershipInv, NEW t \in Threads, Moves(t), NEW p \in Addr, Deleting(t, p),
         ~DelUnlink(t), Matches(p) # {}
  PROVE  Deleting(t, p)' /\ Inner(t)
  <1>0. LocalTypes /\ pc[t] \in DelPCs /\ old[t] = p /\ op[t] = "free"
    BY DEF OwnershipInv, TypeOK, Deleting
  <1>1. CASE DelLock(t)
    <2>1. pc'[t] = "del_sub" /\ Inner(t)
      BY <1>0, <1>1 DEF DelLock, Goto, LocalTypes, Inner, libcVars
    <2> QED BY <1>0, <2>1 DEF Deleting, DelPCs, Inner
  <1>2. CASE DelSub(t)
    <2>1. pc'[t] = "del_unlink" /\ Inner(t)
      BY <1>0, <1>2 DEF DelSub, Goto, LocalTypes, Inner, libcVars, localVars
    <2> QED BY <1>0, <2>1 DEF Deleting, DelPCs, Inner
  <1>3. ~CallMallocFree(t)
    BY <1>0 DEF CallMallocFree, Malloc, MallocPass, Free, FreePass, Begin, DelPCs
  <1>4. CASE Step(t) /\ ~DelLock(t) /\ ~DelSub(t)
    BY <1>0, <1>4 DEF Step, Track, ApiUnsampled, ReCapacity, PoolHead, PoolSkip, PoolUnlink,
       RawNew, GiveUp, InsLock, InsBytes, InsPeak, InsMax, InsAdd, RetLock, RetPush, RetUsed,
       RetRaw, RawFree, DelPCs
  <1> QED BY <1>1, <1>2, <1>3, <1>4 DEF Moves

\* The record being inserted describes a block no record describes.
LEMMA FreshLine ==
  ASSUME OwnershipInv, ChainsInv, LedgerInv, NEW t \in Threads, InsAdd(t)
  PROVE  /\ op[t] = "malloc" /\ tgt[t] \in Addr /\ ent[t] \in Entries /\ ~OnChain(ent[t])
         /\ eptr[ent[t]] = tgt[t] /\ esize[ent[t]] = heap[tgt[t]] /\ heap[tgt[t]] # 0
         /\ tgt[t] \notin app \cup lib
         /\ \A e \in Entries : OnChain(e) => eptr[e] # tgt[t]
  <1>1. pc[t] = "ins_add" /\ OpAtPC(t) /\ BlocksAtPC(t) /\ Filled(t) /\ OwnersInv /\ LinesInv
    BY DEF InsAdd, OwnershipInv, LocalsInv, LedgerInv
  <1>2. op[t] = "malloc" /\ tgt[t] \in Addr
    BY <1>1 DEF OpAtPC, BlocksAtPC, OwnersInv, InsPCs
  <1>3. ent[t] \in Entries /\ ~OnChain(ent[t]) BY <1>1, ArrivingIs DEF Adding
  <1>4. eptr[ent[t]] = tgt[t] /\ esize[ent[t]] = size[t]
    BY <1>1 DEF Filled, HasNew, InsPCs, ChainsInv, SizeInv
  <1>5. Passing(t, tgt[t]) BY <1>2 DEF Passing
  <1>6. heap[tgt[t]] = size[t] /\ heap[tgt[t]] # 0 /\ tgt[t] \notin app \cup lib
    BY <1>1, <1>2, <1>5 DEF OwnersInv
  <1>7. ASSUME NEW e \in Entries, OnChain(e), eptr[e] = tgt[t] PROVE FALSE
    <2>1. PICK u \in Threads : Deleting(u, tgt[t]) BY <1>1, <1>6, <1>7 DEF LinesInv
    <2>2. Passing(u, tgt[t]) /\ op[u] = "free" BY <2>1 DEF Deleting, Passing
    <2> QED BY <1>1, <1>2, <1>5, <2>2 DEF OwnersInv
  <1> QED BY <1>2, <1>3, <1>4, <1>6, <1>7

\* A block a record describes is not one libc hands out or takes back.
LEMMA LineBlock ==
  ASSUME ~CrossFree, OwnershipInv, LedgerInv, NEW t \in Threads, Moves(t),
         NEW e \in Entries, OnChain(e)
  PROVE  /\ heap'[eptr[e]] = heap[eptr[e]] /\ heap[eptr[e]] # 0
         /\ \A p \in app : p = eptr[e] => p \in app' \/ Deleting(t, p)'
  <1>0. /\ heap \in [Addr -> 0 .. MaxSize] /\ OwnersInv /\ LinesInv /\ eptr[e] \in Addr
        /\ LocalTypes
    BY RecordBlock DEF OwnershipInv, TypeOK, SharedTypes, LedgerInv
  <1>1. eptr[e] \in app \/ \E u \in Threads : Deleting(u, eptr[e]) BY <1>0 DEF LinesInv
  <1>2. heap[eptr[e]] # 0 BY <1>0, <1>1 DEF OwnersInv, Deleting, Passing
  <1>3. eptr[e] \notin lib BY <1>0, <1>1 DEF OwnersInv, Deleting, Passing
  <1>4. ASSUME NEW a \in Addr, NEW n \in Sizes, Malloc(t, a, n) \/ MallocPass(t, a, n)
        PROVE  heap'[eptr[e]] = heap[eptr[e]] /\ app' = app
    BY <1>0, <1>2, <1>4 DEF Malloc, MallocPass, RawMalloc
  <1>5. ASSUME NEW p \in Addr, Free(t, p)
        PROVE  heap' = heap /\ \A q \in app : q \in app' \/ Deleting(t, q)'
    <2>1. heap' = heap /\ app' = app \ {p} BY <1>5 DEF Free
    <2>2. Deleting(t, p)'
      BY <1>0, <1>5 DEF Free, Begin, Goto, Deleting, LocalTypes, DelPCs
    <2> QED BY <2>1, <2>2
  <1>6. ASSUME NEW p \in Addr, FreePass(t, p)
        PROVE  heap'[eptr[e]] = heap[eptr[e]] /\ (eptr[e] \in app => eptr[e] \in app')
    BY <1>0, <1>3, <1>6 DEF FreePass, PassBlocks
  <1>7. CASE Step(t) /\ RawFree(t)
    <2>1. pc[t] = "rawfree" /\ op[t] = "free"
      BY <1>0, <1>7 DEF RawFree, OwnershipInv, LocalsInv, OpAtPC, OwnersInv
    <2>2. heap' = [heap EXCEPT ![old[t]] = 0] /\ app' = app
      BY <1>7, <2>1 DEF RawFree, Return
    <2>3. ASSUME eptr[e] = old[t] PROVE FALSE
      <3>1. Passing(t, eptr[e]) BY <2>1, <2>3 DEF Passing
      <3>2. eptr[e] \notin app BY <1>0, <3>1 DEF OwnersInv
      <3>3. PICK u \in Threads : Deleting(u, eptr[e]) BY <1>1, <3>2
      <3>4. Passing(u, eptr[e]) BY <3>3 DEF Deleting, Passing
      <3>5. u = t BY <1>0, <3>1, <3>4 DEF OwnersInv
      <3> QED BY <2>1, <3>3, <3>5 DEF Deleting, DelPCs
    <2> QED BY <1>0, <1>2, <2>2, <2>3
  <1>8. CASE Step(t) /\ (Handing(t) \/ Inner(t))
    BY <1>2, <1>8 DEF Handing, Inner
  <1>9. CASE Step(t) BY <1>0, <1>7, <1>8, <1>9, BlockKinds
  <1> QED BY <1>2, <1>4, <1>5, <1>6, <1>9 DEF Moves, CallMallocFree

\* The records describe blocks with an owner.
LEMMA LinesStep ==
  ASSUME ~CrossFree, OwnershipInv, ChainsInv, LedgerInv, NEW t \in Threads, Moves(t)
  PROVE  LinesInv'
  <1>0. OwnersInv /\ LinesInv /\ Acts(t) BY DEF LedgerInv, Moves, Acts
  <1>f. \A u \in Threads \ {t}, p \in Addr : Deleting(u, p) => Deleting(u, p)'
    BY PassingFrame DEF Deleting
  <1>1. ASSUME NEW e \in Entries, OnChain(e), OnChain(e)'
        PROVE  /\ heap'[eptr'[e]] = esize'[e] /\ eptr'[e] = eptr[e]
               /\ eptr'[e] \in app' \/ \E u \in Threads : Deleting(u, eptr[e])'
    <2>1. eptr'[e] = eptr[e] /\ esize'[e] = esize[e]
      BY <1>0, <1>1, TableStep DEF FieldsSame
    <2>2. PICK p \in Addr : p = eptr[e] BY <1>1, RecordBlock
    <2>3. heap'[p] = heap[p] /\ (p \in app => p \in app' \/ Deleting(t, p)')
      BY <1>1, <2>2, LineBlock
    <2>4. heap[p] = esize[e] /\ (p \in app \/ \E u \in Threads : Deleting(u, p))
      BY <1>0, <1>1, <2>2 DEF LinesInv
    <2>5. ASSUME Deleting(t, p) PROVE Deleting(t, p)'
      <3>1. e \in Matches(p) BY <1>1, <2>2, MatchesIs
      <3>2. CASE DelUnlink(t)
        <4>1. OnChain(e)' => e # dead[t] BY <1>0, <3>2, TableStep
        <4>2. pc[t] = "del_unlink" BY <3>2 DEF DelUnlink
        <4>3. dead[t] \in Entries /\ OnChain(dead[t]) BY <4>2, LeavingIs
        <4>4. eptr[dead[t]] = old[t]
          BY <4>2 DEF ChainsInv, FoundInv, mtt_entry_find, Matches
        <4>5. eptr[dead[t]] = eptr[e] BY <2>2, <2>5, <4>4 DEF Deleting
        <4> QED BY <1>0, <1>1, <4>1, <4>3, <4>5 DEF LinesInv
      <3>3. CASE ~DelUnlink(t) BY <2>5, <3>1, <3>3, DeletesOn
      <3> QED BY <3>2, <3>3
    <2>6. p \in app' \/ \E u \in Threads : Deleting(u, p)' BY <1>f, <2>3, <2>4, <2>5
    <2>7. \A u \in Threads : Deleting(u, p)' => Deleting(u, eptr[e])'
      BY <2>1, <2>2 DEF Deleting
    <2> QED BY <2>1, <2>2, <2>3, <2>4, <2>6, <2>7
  <1>2. CASE ~InsAdd(t)
    <2>1. \A e \in Entries : OnChain(e)' => OnChain(e) BY <1>0, <1>2, TableStep
    <2>2. \A e \in Entries : OnChain(e)' => eptr'[e] = eptr[e] BY <1>1, <2>1
    <2>3. \A e, f \in Entries : OnChain(e)' /\ OnChain(f)' /\ eptr'[e] = eptr'[f] => e = f
      BY <1>0, <2>1, <2>2 DEF LinesInv
    <2> QED BY <1>1, <2>1, <2>3 DEF LinesInv
  <1>3. CASE InsAdd(t)
    <2>1. /\ op[t] = "malloc" /\ tgt[t] \in Addr /\ ent[t] \in Entries /\ ~OnChain(ent[t])
          /\ eptr[ent[t]] = tgt[t] /\ esize[ent[t]] = heap[tgt[t]]
          /\ \A e \in Entries : OnChain(e) => eptr[e] # tgt[t]
      BY <1>3, FreshLine
    <2>2. \A e \in Entries : OnChain(e)' => OnChain(e) \/ e = ent[t]
      BY <1>0, <1>3, TableStep
    <2>3. eptr' = eptr /\ esize' = esize BY <1>3 DEF InsAdd
    <2>4. Step(t) BY <1>3 DEF Step
    <2>5. heap' = heap /\ app' = app \cup {tgt[t]} BY <1>0, <1>3, <2>4, BlockKinds DEF Handing
    <2>6. \A e \in Entries : e = ent[t] => heap'[eptr'[e]] = esize'[e] /\ eptr'[e] \in app'
      BY <2>1, <2>3, <2>5
    <2>7. \A e, f \in Entries : OnChain(e)' /\ OnChain(f)' /\ eptr'[e] = eptr'[f] => e = f
      BY <1>0, <2>1, <2>2, <2>3 DEF LinesInv
    <2> QED BY <1>1, <2>2, <2>6, <2>7 DEF LinesInv
  <1> QED BY <1>2, <1>3

\* No block is allocated and no record is linked at the start.
LEMMA LedgerInit == Init => LedgerInv
  BY DEF Init, LedgerInv, OwnersInv, LinesInv, Passing, OnChain

LedgerAll == OwnershipInv /\ ChainsInv /\ LedgerInv

\* Every step of a program that calls malloc and free only keeps the ledger.
LEMMA LedgerStep ==
  ASSUME ~CrossFree
  PROVE  LedgerAll /\ [MallocFreeNext]_vars => LedgerAll'
  <1> SUFFICES ASSUME LedgerAll, [MallocFreeNext]_vars PROVE LedgerAll' OBVIOUS
  <1>0. OwnershipInv /\ ChainsInv /\ LedgerInv BY DEF LedgerAll
  <1>1. [Next]_vars BY DEF MallocFreeNext, Next
  <1>2. OwnershipInv' /\ ChainsInv' BY <1>0, <1>1, OwnershipStep, ChainsStep
  <1>3. CASE UNCHANGED vars
    <2>1. LedgerInv'
      BY <1>0, <1>3 DEF vars, libcVars, tableVars, localVars, LedgerInv, OwnersInv, LinesInv,
         Passing, Deleting, OnChain
    <2> QED BY <1>2, <2>1 DEF LedgerAll
  <1>4. ASSUME NEW t \in Threads, Moves(t) PROVE LedgerAll'
    BY <1>0, <1>2, <1>4, OwnersStep, LinesStep DEF LedgerAll, LedgerInv
  <1> QED BY <1>3, <1>4 DEF MallocFreeNext, Moves

\* In a program that calls malloc and free only, each block is with one owner
\* and each record describes a block that is still the application's, or is in
\* a free that has not deleted the record yet (hooks.c, malloc and free).
THEOREM LedgerInvariant ==
  ASSUME ~CrossFree
  PROVE  MallocFreeSpec => []LedgerAll
  <1>1. Init => LedgerAll BY OwnershipInit, ChainsInit, LedgerInit DEF LedgerAll
  <1>2. LedgerAll /\ [MallocFreeNext]_vars => LedgerAll' BY LedgerStep
  <1> QED BY <1>1, <1>2, PTL DEF MallocFreeSpec

\* There, each record in the table has the size of a block that is allocated
\* now, and no block has two records: free deletes the record before raw_free,
\* and malloc inserts after raw_malloc.
THEOREM TableDescribesHeap ==
  ASSUME ~CrossFree
  PROVE  MallocFreeSpec => []TableMatchesHeap
  <1>1. LedgerAll => TableMatchesHeap
    <2> SUFFICES ASSUME LedgerAll PROVE TableMatchesHeap OBVIOUS
    <2>1. Table = {e \in Entries : OnChain(e)} BY TableIs DEF LedgerAll, OwnershipInv
    <2> QED BY <2>1 DEF TableMatchesHeap, LedgerAll, LedgerInv, LinesInv
  <1> QED BY <1>1, LedgerInvariant, PTL

\* There, a block the application keeps holding keeps its record, whatever the
\* hooks of other threads do to its chain.
THEOREM LiveBlocksTracked ==
  ASSUME ~CrossFree
  PROVE  MallocFreeSpec => LiveStaysTracked
  <1>1. LedgerAll /\ LedgerAll' /\ [MallocFreeNext]_vars
          => [\A p \in app \cap app' : Tracked(p) => Tracked(p)']_vars
    <2> SUFFICES ASSUME LedgerAll, LedgerAll', NEW t \in Threads, Moves(t),
                        NEW p \in app \cap app', Tracked(p)
                 PROVE  Tracked(p)'
      BY DEF MallocFreeNext, Moves
    <2>0. OwnershipInv /\ ChainsInv /\ OwnersInv /\ LinesInv /\ OwnershipInv' /\ Acts(t)
      BY DEF LedgerAll, LedgerInv, Moves, Acts
    <2>1. p \in Addr BY <2>0 DEF OwnershipInv, TypeOK, SharedTypes
    <2>2. PICK e : e \in Matches(p) BY DEF Tracked
    <2>3. e \in Entries /\ OnChain(e) /\ eptr[e] = p BY <2>0, <2>1, <2>2, MatchesIs
    <2>4. OnChain(e)'
      <3>1. CASE ~DelUnlink(t) BY <2>0, <2>3, <3>1, TableStep
      <3>2. CASE DelUnlink(t)
        <4>1. pc[t] = "del_unlink" BY <3>2 DEF DelUnlink
        <4>2. eptr[dead[t]] = old[t]
          BY <2>0, <4>1 DEF ChainsInv, FoundInv, mtt_entry_find, Matches
        <4>3. op[t] = "free"
          BY <2>0, <4>1 DEF OwnershipInv, LocalsInv, OpAtPC, DelPCs, OwnersInv
        <4>4. old[t] # p BY <2>0, <4>3 DEF OwnersInv, Passing
        <4> QED BY <2>0, <2>3, <3>2, <4>2, <4>4, TableStep
      <3> QED BY <3>1, <3>2
    <2>5. eptr'[e] = p BY <2>0, <2>3, <2>4, TableStep DEF FieldsSame
    <2>6. e \in Matches(p)' BY <2>0, <2>1, <2>3, <2>4, <2>5, MatchesIsNext
    <2> QED BY <2>6 DEF Tracked
  <1> QED BY <1>1, LedgerInvariant, PTL DEF MallocFreeSpec, LiveStaysTracked

-----------------------------------------------------------------------------
(* The hooks implement the ledger.                                         *)

\* The line of a block is the size in its record, or 0.
LineFacts ==
  /\ RecordedSize = [p \in Addr |-> RecordedSize[p]]
  /\ \A p \in Addr : \A e \in Entries :
       OnChain(e) /\ eptr[e] = p => RecordedSize[p] = esize[e]
  /\ \A p \in Addr :
       (\A e \in Entries : OnChain(e) => eptr[e] # p) => RecordedSize[p] = 0

\* The line of a block is the size in its record, or 0 without one.
LEMMA LineIs == LedgerAll => LineFacts
  <1> SUFFICES ASSUME LedgerAll PROVE LineFacts OBVIOUS
  <1>0. OwnershipInv /\ LinesInv BY DEF LedgerAll, LedgerInv
  <1>1. RecordedSize = [p \in Addr |-> RecordedSize[p]] BY DEF RecordedSize
  <1>2. ASSUME NEW p \in Addr, NEW e \in Entries, OnChain(e), eptr[e] = p
        PROVE  RecordedSize[p] = esize[e]
    <2>1. Matches(p) = {e} BY <1>0, <1>2, MatchesIs DEF LinesInv
    <2>2. enum[e] <= enum[e] BY <1>0 DEF OwnershipInv, TypeOK, SharedTypes
    <2>3. mtt_entry_find(p) = {e} BY <2>1, <2>2 DEF mtt_entry_find
    <2>4. (CHOOSE x \in {e} : TRUE) = e OBVIOUS
    <2> QED BY <2>1, <2>3, <2>4 DEF RecordedSize
  <1>3. ASSUME NEW p \in Addr, \A e \in Entries : OnChain(e) => eptr[e] # p
        PROVE  RecordedSize[p] = 0
    <2>1. Matches(p) = {} BY <1>0, <1>3, MatchesIs
    <2> QED BY <2>1 DEF RecordedSize
  <1> QED BY <1>1, <1>2, <1>3 DEF LineFacts

\* The same of the next state.
LEMMA LineIsNext == LedgerAll' => LineFacts'
  BY LineIs, PTL

\* Only inserting a record and unlinking it change a line.
LEMMA LineStep ==
  ASSUME LedgerAll, LedgerAll', NEW t \in Threads, Moves(t), NEW p \in Addr
  PROVE  /\ InsAdd(t) /\ p = tgt[t] => RecordedSize[p] = 0 /\ RecordedSize'[p] = heap[p]
         /\ DelUnlink(t) /\ p = old[t] => RecordedSize[p] # 0 /\ RecordedSize'[p] = 0
         /\ ~(InsAdd(t) /\ p = tgt[t]) /\ ~(DelUnlink(t) /\ p = old[t])
              => RecordedSize'[p] = RecordedSize[p]
  <1>0. OwnershipInv /\ ChainsInv /\ LedgerInv /\ OwnersInv /\ LinesInv /\ Acts(t)
    BY DEF LedgerAll, LedgerInv, Moves, Acts
  <1>l. LineFacts /\ LineFacts' BY LineIs, LineIsNext
  <1>1. ASSUME InsAdd(t), p = tgt[t]
        PROVE  RecordedSize[p] = 0 /\ RecordedSize'[p] = heap[p]
    <2>1. /\ ent[t] \in Entries /\ eptr[ent[t]] = p /\ esize[ent[t]] = heap[p]
          /\ \A e \in Entries : OnChain(e) => eptr[e] # p
      BY <1>0, <1>1, FreshLine
    <2>2. PICK x \in Entries : x = ent[t] BY <2>1
    <2>3. AddrStripe[p] \in Stripes BY TrackerConstants
    <2>4. OnChain(x)' /\ eptr' = eptr /\ esize' = esize
      BY <1>0, <1>1, <2>1, <2>2, <2>3
         DEF InsAdd, OnChain, OwnershipInv, TypeOK, SharedTypes
    <2> QED BY <1>l, <2>1, <2>2, <2>4 DEF LineFacts
  <1>d. ASSUME DelUnlink(t)
        PROVE  /\ dead[t] \in Entries /\ OnChain(dead[t]) /\ eptr[dead[t]] = old[t]
               /\ op[t] = "free" /\ old[t] \in Addr
    <2>1. pc[t] = "del_unlink" BY <1>d DEF DelUnlink
    <2>2. dead[t] \in Entries /\ OnChain(dead[t]) BY <1>0, <2>1, LeavingIs
    <2>3. eptr[dead[t]] = old[t]
      BY <1>0, <2>1 DEF ChainsInv, FoundInv, mtt_entry_find, Matches
    <2>4. op[t] = "free"
      BY <1>0, <2>1 DEF OwnershipInv, LocalsInv, OpAtPC, DelPCs, OwnersInv
    <2> QED BY <1>0, <2>2, <2>3, <2>4, RecordBlock
  <1>2. ASSUME DelUnlink(t), p = old[t]
        PROVE  RecordedSize[p] # 0 /\ RecordedSize'[p] = 0
    <2>1. RecordedSize[p] = esize[dead[t]] BY <1>d, <1>l, <1>2 DEF LineFacts
    <2>2. esize[dead[t]] = heap[p] BY <1>0, <1>d, <1>2 DEF LinesInv
    <2>3. heap[p] # 0 BY <1>0, <1>d, <1>2 DEF OwnersInv, Passing
    <2>4. \A e \in Entries : OnChain(e)' => eptr'[e] # p
      <3> SUFFICES ASSUME NEW e \in Entries, OnChain(e)', eptr'[e] = p PROVE FALSE
        OBVIOUS
      <3>1. OnChain(e) /\ e # dead[t] BY <1>0, <1>2, TableStep
      <3>2. eptr[e] = p BY <1>0, <3>1, TableStep DEF FieldsSame
      <3> QED BY <1>0, <1>d, <1>2, <3>1, <3>2 DEF LinesInv
    <2> QED BY <1>l, <2>1, <2>2, <2>3, <2>4 DEF LineFacts
  <1>3. ASSUME ~(InsAdd(t) /\ p = tgt[t]), ~(DelUnlink(t) /\ p = old[t])
        PROVE  RecordedSize'[p] = RecordedSize[p]
    <2>1. ASSUME NEW e \in Entries, OnChain(e), eptr[e] = p
          PROVE  RecordedSize'[p] = RecordedSize[p]
      <3>1. OnChain(e)'
        <4>1. CASE ~DelUnlink(t) BY <1>0, <2>1, <4>1, TableStep
        <4>2. CASE DelUnlink(t) BY <1>0, <1>d, <1>3, <2>1, <4>2, TableStep
        <4> QED BY <4>1, <4>2
      <3>2. eptr'[e] = p /\ esize'[e] = esize[e]
        BY <1>0, <2>1, <3>1, TableStep DEF FieldsSame
      <3> QED BY <1>l, <2>1, <3>1, <3>2 DEF LineFacts
    <2>2. ASSUME \A e \in Entries : OnChain(e) => eptr[e] # p
          PROVE  RecordedSize'[p] = RecordedSize[p]
      <3>1. ASSUME NEW e \in Entries, OnChain(e)', eptr'[e] = p PROVE FALSE
        <4>1. CASE OnChain(e) BY <1>0, <2>2, <3>1, <4>1, TableStep DEF FieldsSame
        <4>2. CASE ~OnChain(e)
          <5>1. InsAdd(t) /\ e = ent[t] BY <1>0, <3>1, <4>2, TableStep
          <5>2. eptr[ent[t]] = tgt[t] /\ eptr' = eptr
            BY <1>0, <5>1, FreshLine DEF InsAdd
          <5> QED BY <1>3, <3>1, <5>1, <5>2
        <4> QED BY <4>1, <4>2
      <3> QED BY <1>l, <2>2, <3>1 DEF LineFacts
    <2> QED BY <2>1, <2>2
  <1> QED BY <1>1, <1>2, <1>3

\* Each step of a hook is a step of the ledger or changes nothing in it.
LEMMA LedgerSimulates ==
  ASSUME ~CrossFree, LedgerAll, LedgerAll', NEW t \in Threads, Moves(t)
  PROVE  [L!Next]_(L!vars)
  <1>0. OwnershipInv /\ ChainsInv /\ LedgerInv /\ OwnersInv /\ LinesInv
        /\ OpAtPC(t) /\ BlocksAtPC(t) /\ LocalTypes
    BY DEF LedgerAll, LedgerInv, OwnershipInv, LocalsInv, TypeOK
  <1>h. /\ heap \in [Addr -> 0 .. MaxSize] /\ app \subseteq Addr /\ lib \subseteq Addr
    BY <1>0 DEF OwnershipInv, TypeOK, SharedTypes
  <1>f. LineFacts /\ LineFacts' BY LineIs, LineIsNext
  <1>r. RecordedSize = [p \in Addr |-> RecordedSize[p]]
        /\ RecordedSize' = [p \in Addr |-> RecordedSize'[p]]
    BY <1>f DEF LineFacts
  <1>s. ASSUME ~InsAdd(t), ~DelUnlink(t) PROVE RecordedSize' = RecordedSize
    <2>1. \A p \in Addr : RecordedSize'[p] = RecordedSize[p] BY <1>s, LineStep
    <2> QED BY <1>r, <2>1
  <1>p. ASSUME pc[t] \notin {"ins_add", "del_unlink"} PROVE RecordedSize' = RecordedSize
    BY <1>p, <1>s DEF InsAdd, DelUnlink
  <1>n. \A n \in Sizes : n \in 1 .. MaxSize BY DEF Sizes
  <1>1. ASSUME NEW a \in Addr, NEW n \in Sizes, Malloc(t, a, n) PROVE L!Next
    <2>1. /\ heap[a] = 0 /\ heap' = [heap EXCEPT ![a] = n] /\ UNCHANGED <<app, lib>>
          /\ pc[t] = "idle"
      BY <1>1 DEF Malloc, Begin, RawMalloc
    <2>2. L!Allocate(a, n) BY <1>p, <2>1 DEF L!Allocate
    <2> QED BY <1>n, <2>2 DEF L!Next
  <1>2. ASSUME NEW a \in Addr, NEW n \in Sizes, MallocPass(t, a, n) PROVE L!Next
    <2>1. /\ heap[a] = 0 /\ heap' = [heap EXCEPT ![a] = n] /\ app' = app
          /\ lib' = lib \cup {a} /\ pc[t] = "idle"
      BY <1>2 DEF MallocPass, RawMalloc
    <2>2. (app \cup lib)' = (app \cup lib) \cup {a} BY <2>1
    <2>3. L!Allocate(a, n) BY <1>p, <2>1, <2>2 DEF L!Allocate
    <2> QED BY <1>n, <2>3 DEF L!Next
  <1>3. ASSUME NEW p \in Addr, Free(t, p) PROVE L!Next
    <2>1. /\ p \in app \cup lib /\ heap' = heap /\ app' = app \ {p} /\ lib' = lib \ {p}
          /\ pc[t] = "idle"
      BY <1>3 DEF Free, Begin
    <2>2. (app \cup lib)' = (app \cup lib) \ {p} BY <2>1
    <2>3. L!GiveUpBlock(p) BY <1>p, <2>1, <2>2 DEF L!GiveUpBlock
    <2> QED BY <2>3 DEF L!Next
  <1>z. ASSUME NEW p \in Addr, \A e \in Entries : OnChain(e) => eptr[e] # p
        PROVE  RecordedSize[p] = 0
    BY <1>f, <1>z DEF LineFacts
  <1>4. ASSUME NEW p \in Addr, FreePass(t, p) PROVE L!Next
    <2>1. /\ p \in lib /\ heap' = [heap EXCEPT ![p] = 0] /\ app' = app \ {p}
          /\ lib' = lib \ {p} /\ pc[t] = "idle"
      BY <1>4 DEF FreePass, PassBlocks
    <2>2. heap[p] # 0 /\ p \notin app /\ \A u \in Threads : ~Passing(u, p)
      BY <1>0, <2>1 DEF OwnersInv
    <2>3. \A e \in Entries : OnChain(e) => eptr[e] # p
      BY <1>0, <2>2 DEF LinesInv, Deleting, Passing
    <2>4. (app \cup lib)' = (app \cup lib) \ {p} BY <2>1
    <2>5. L!Release(p) BY <1>p, <1>z, <2>1, <2>2, <2>3, <2>4 DEF L!Release
    <2> QED BY <2>5 DEF L!Next
  <1>5. CASE RawFree(t)
    <2>1. pc[t] = "rawfree" /\ op[t] = "free" /\ old[t] \in Addr
      BY <1>0, <1>5 DEF RawFree, OpAtPC, BlocksAtPC, OwnersInv
    <2>2. heap' = [heap EXCEPT ![old[t]] = 0] /\ app' = app /\ lib' = lib
      BY <1>5, <2>1 DEF RawFree, Return
    <2>3. Passing(t, old[t]) BY <2>1 DEF Passing
    <2>4. heap[old[t]] # 0 /\ old[t] \notin app \cup lib BY <1>0, <2>1, <2>3 DEF OwnersInv
    <2>5. ASSUME NEW e \in Entries, OnChain(e), eptr[e] = old[t] PROVE FALSE
      <3>1. PICK u \in Threads : Deleting(u, old[t]) BY <1>0, <2>4, <2>5 DEF LinesInv
      <3>2. Passing(u, old[t]) BY <3>1 DEF Deleting, Passing
      <3>3. u = t BY <1>0, <2>1, <2>3, <3>2 DEF OwnersInv
      <3> QED BY <2>1, <3>1, <3>3 DEF Deleting, DelPCs
    <2>6. PICK p \in Addr : p = old[t] BY <2>1
    <2>7. RecordedSize[p] = 0 /\ RecordedSize' = RecordedSize BY <1>p, <1>z, <2>1, <2>5, <2>6
    <2>8. (app \cup lib)' = (app \cup lib) \ {p} BY <2>2, <2>4, <2>6
    <2>9. L!Release(p) BY <2>2, <2>4, <2>6, <2>7, <2>8 DEF L!Release
    <2> QED BY <2>9 DEF L!Next
  <1>6. CASE Handing(t)
    <2>1. /\ op[t] = "malloc" /\ UNCHANGED <<heap, lib>> /\ app' = app \cup {tgt[t]}
          /\ tgt[t] \in Addr
      BY <1>0, <1>6 DEF Handing, BlocksAtPC
    <2>2. Passing(t, tgt[t]) BY <2>1 DEF Passing
    <2>3. heap[tgt[t]] # 0 /\ tgt[t] \notin app \cup lib BY <1>0, <2>1, <2>2 DEF OwnersInv
    <2>4. PICK a \in Addr : a = tgt[t] BY <2>1
    <2>5. (app \cup lib)' = (app \cup lib) \cup {a} BY <2>1, <2>4
    <2>6. CASE InsAdd(t)
      <3>1. ~DelUnlink(t) BY <2>6 DEF InsAdd, DelUnlink
      <3>2. RecordedSize[a] = 0 /\ RecordedSize'[a] = heap[a] BY <2>4, <2>6, LineStep
      <3>3. \A q \in Addr : q # a => RecordedSize'[q] = RecordedSize[q]
        BY <2>4, <3>1, LineStep
      <3>4. RecordedSize' = [RecordedSize EXCEPT ![a] = heap[a]] BY <1>r, <3>2, <3>3
      <3>5. L!Write(a) BY <2>1, <2>3, <2>4, <2>5, <3>2, <3>4 DEF L!Write
      <3> QED BY <3>5 DEF L!Next
    <2>7. CASE ~InsAdd(t)
      <3>1. ~DelUnlink(t)
        BY <1>0, <2>1 DEF DelUnlink, OpAtPC, DelPCs
      <3>2. L!HandOver(a) BY <1>s, <2>1, <2>3, <2>4, <2>5, <2>7, <3>1 DEF L!HandOver
      <3> QED BY <3>2 DEF L!Next
    <2> QED BY <2>6, <2>7
  <1>7. CASE Inner(t) /\ DelUnlink(t)
    <2>1. heap' = heap /\ app' = app /\ lib' = lib BY <1>7 DEF Inner
    <2>2. op[t] = "free" /\ old[t] \in Addr
      BY <1>0, <1>7 DEF DelUnlink, OpAtPC, DelPCs, BlocksAtPC, OwnersInv
    <2>3. Passing(t, old[t]) BY <2>2 DEF Passing
    <2>4. old[t] \notin app \cup lib BY <1>0, <2>2, <2>3 DEF OwnersInv
    <2>5. PICK p \in Addr : p = old[t] BY <2>2
    <2>6. ~InsAdd(t) BY <1>7 DEF InsAdd, DelUnlink
    <2>7. RecordedSize[p] # 0 /\ RecordedSize'[p] = 0 BY <1>7, <2>5, LineStep
    <2>8. \A q \in Addr : q # p => RecordedSize'[q] = RecordedSize[q]
      BY <2>5, <2>6, LineStep
    <2>9. RecordedSize' = [RecordedSize EXCEPT ![p] = 0] BY <1>r, <2>7, <2>8
    <2>10. L!StrikeOut(p) BY <2>1, <2>4, <2>5, <2>7, <2>9 DEF L!StrikeOut
    <2> QED BY <2>10 DEF L!Next
  <1>8. CASE Inner(t) /\ ~DelUnlink(t) /\ ~InsAdd(t)
    <2>1. heap' = heap /\ app' = app /\ lib' = lib BY <1>8 DEF Inner
    <2> QED BY <1>8, <1>s, <2>1 DEF L!vars
  <1>9. CASE Step(t)
    BY <1>0, <1>5, <1>6, <1>7, <1>8, <1>9, BlockKinds
  <1> QED BY <1>1, <1>2, <1>3, <1>4, <1>9 DEF Moves, CallMallocFree

\* In a program that calls malloc and free only, the hooks, with their stripe
\* locks, chains, free lists and counters, implement the ledger: a line is
\* written only for an allocated block, with its size, and struck out after the
\* program gave the block up and before libc gets it back.
THEOREM LedgerImplemented ==
  ASSUME ~CrossFree
  PROVE  MallocFreeSpec => ImplementsLedger
  <1>1. Init => L!Init
    <2> SUFFICES ASSUME Init PROVE L!Init OBVIOUS
    <2>1. \A p \in Addr : Matches(p) = {} BY TrackerConstants DEF Init, Matches
    <2>2. RecordedSize = [p \in Addr |-> 0] BY <2>1 DEF RecordedSize
    <2> QED BY <2>2 DEF Init, L!Init
  <1>2. LedgerAll /\ LedgerAll' /\ [MallocFreeNext]_vars => [L!Next]_(L!vars)
    <2> SUFFICES ASSUME LedgerAll, LedgerAll', [MallocFreeNext]_vars
                 PROVE  [L!Next]_(L!vars)
      OBVIOUS
    <2>1. CASE UNCHANGED vars
      <3>1. UNCHANGED <<heap, app, lib, buckets, eptr, esize, enum>>
        BY <2>1 DEF vars, libcVars, tableVars
      <3>2. RecordedSize' = RecordedSize
        BY <3>1 DEF RecordedSize, mtt_entry_find, Matches
      <3> QED BY <3>1, <3>2 DEF L!vars
    <2>2. ASSUME NEW t \in Threads, Moves(t) PROVE [L!Next]_(L!vars)
      BY <2>2, LedgerSimulates
    <2> QED BY <2>1, <2>2 DEF MallocFreeNext, Moves
  <1> QED BY <1>1, <1>2, LedgerInvariant, PTL DEF MallocFreeSpec, ImplementsLedger, L!Spec

====
