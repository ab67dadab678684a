---------------------------- MODULE KvCacheProofs ----------------------------
(***************************************************************************)
(* The invariants of KvCache, proved for every pool size, block length,    *)
(* set of requests and alphabet.                                           *)
(***************************************************************************)
EXTENDS KvCache, FiniteSetTheorems, SequenceTheorems, TLAPS

-----------------------------------------------------------------------------
(* Arithmetic of blocks.                                                   *)

\* FullBlocks is the integer quotient by the block length (no bound is lost
\* when scheduler.rs rounds a cached length down to a block boundary).
LEMMA FullBlocksFacts ==
  ASSUME NEW n \in Nat
  PROVE  /\ FullBlocks(n) \in Nat
         /\ FullBlocks(n) * BlockLen <= n
         /\ n < (FullBlocks(n) + 1) * BlockLen
  BY BlockLenAssumption DEF FullBlocks

\* RequiredBlocks is the quotient rounded up (kv_cache.rs, required_blocks).
LEMMA RequiredBlocksFacts ==
  ASSUME NEW n \in Nat
  PROVE  /\ RequiredBlocks(n) \in Nat
         /\ n <= RequiredBlocks(n) * BlockLen
         /\ n > 0 => (RequiredBlocks(n) - 1) * BlockLen < n
         /\ RequiredBlocks(n) = 0 <=> n = 0
  BY BlockLenAssumption DEF RequiredBlocks

\* The quotient rounded up is the only number of blocks that fits.
LEMMA RequiredBlocksUnique ==
  ASSUME NEW n \in Nat, NEW q \in Nat,
         n <= q * BlockLen, n > 0 => (q - 1) * BlockLen < n, n = 0 => q = 0
  PROVE  RequiredBlocks(n) = q
  <1>1. CASE n = 0
    BY <1>1, RequiredBlocksFacts
  <1>2. CASE n > 0
    <2> DEFINE p == RequiredBlocks(n)
    <2>1. p \in Nat /\ n <= p * BlockLen /\ (p - 1) * BlockLen < n
      BY <1>2, RequiredBlocksFacts
    <2> HIDE DEF p
    <2>2. ~(p < q)
      <3> SUFFICES ASSUME p < q PROVE FALSE
        OBVIOUS
      <3>1. p * BlockLen <= (q - 1) * BlockLen
        BY <2>1, BlockLenAssumption
      <3> QED
        BY <3>1, <2>1, <1>2, BlockLenAssumption
    <2>3. ~(q < p)
      <3> SUFFICES ASSUME q < p PROVE FALSE
        OBVIOUS
      <3>1. q * BlockLen <= (p - 1) * BlockLen
        BY <2>1, BlockLenAssumption
      <3> QED
        BY <3>1, <2>1, <1>2, BlockLenAssumption
    <2> QED
      BY <2>1, <2>2, <2>3 DEF p
  <1> QED
    BY <1>1, <1>2

\* Blocks that are reused need not be reserved (reserve_to subtracts
\* reused_len before it rounds up).
LEMMA RequiredBlocksMinus ==
  ASSUME NEW n \in Nat, NEW k \in Nat, k * BlockLen <= n
  PROVE  /\ n - k * BlockLen \in Nat
         /\ RequiredBlocks(n - k * BlockLen) + k = RequiredBlocks(n)
  <1> DEFINE q == RequiredBlocks(n - k * BlockLen)
  <1>1. n - k * BlockLen \in Nat
    BY BlockLenAssumption
  <1>2. /\ q \in Nat
        /\ n - k * BlockLen <= q * BlockLen
        /\ n - k * BlockLen > 0 => (q - 1) * BlockLen < n - k * BlockLen
        /\ q = 0 <=> n - k * BlockLen = 0
    BY <1>1, RequiredBlocksFacts
  <1> HIDE DEF q
  <1>3. (q + k) * BlockLen = q * BlockLen + k * BlockLen
    BY <1>2, BlockLenAssumption
  <1>4. (q + k - 1) * BlockLen = (q - 1) * BlockLen + k * BlockLen
    BY <1>2, BlockLenAssumption
  <1>5. n > 0 => (q + k - 1) * BlockLen < n
    <2>1. CASE n - k * BlockLen > 0
      BY <2>1, <1>2, <1>4, BlockLenAssumption
    <2>2. CASE n - k * BlockLen = 0
      <3>1. q = 0 /\ n = k * BlockLen
        BY <2>2, <1>2, BlockLenAssumption
      <3>2. (k - 1) * BlockLen < k * BlockLen
        BY BlockLenAssumption
      <3> QED
        BY <3>1, <3>2
    <2> QED
      BY <2>1, <2>2, <1>1
  <1>6. n = 0 => q + k = 0
    BY <1>2, <1>1, BlockLenAssumption
  <1>7. RequiredBlocks(n) = q + k
    BY <1>2, <1>3, <1>5, <1>6, RequiredBlocksUnique, BlockLenAssumption
  <1> QED
    BY <1>1, <1>2, <1>7 DEF q

-----------------------------------------------------------------------------
(* Tables: concatenation of three sequences.                               *)

LEMMA ConcatElements ==
  ASSUME NEW S, NEW a \in Seq(S), NEW b \in Seq(S), NEW c \in Seq(S)
  PROVE  /\ a \o b \o c \in Seq(S)
         /\ Len(a \o b \o c) = Len(a) + Len(b) + Len(c)
         /\ \A i \in 1 .. Len(a) : (a \o b \o c)[i] = a[i]
         /\ \A i \in 1 .. Len(b) : (a \o b \o c)[Len(a) + i] = b[i]
         /\ \A i \in 1 .. Len(c) : (a \o b \o c)[Len(a) + Len(b) + i] = c[i]
         /\ \A i \in DOMAIN (a \o b \o c) :
              \/ i \in 1 .. Len(a)
              \/ i - Len(a) \in 1 .. Len(b)
              \/ i - Len(a) - Len(b) \in 1 .. Len(c)
  OBVIOUS

\* The blocks of a table that grew: the old ones, the reused ones and the
\* reserved ones.
LEMMA ConcatRange ==
  ASSUME NEW S, NEW a \in Seq(S), NEW b \in Seq(S), NEW c \in Seq(S)
  PROVE  Range(a \o b \o c) = Range(a) \cup Range(b) \cup Range(c)
  <1> DEFINE t == a \o b \o c
  <1>1. /\ t \in Seq(S)
        /\ Len(t) = Len(a) + Len(b) + Len(c)
        /\ \A i \in 1 .. Len(a) : t[i] = a[i]
        /\ \A i \in 1 .. Len(b) : t[Len(a) + i] = b[i]
        /\ \A i \in 1 .. Len(c) : t[Len(a) + Len(b) + i] = c[i]
        /\ \A i \in DOMAIN t :
             \/ i \in 1 .. Len(a)
             \/ i - Len(a) \in 1 .. Len(b)
             \/ i - Len(a) - Len(b) \in 1 .. Len(c)
    BY ConcatElements
  <1> HIDE DEF t
  <1>2. ASSUME NEW i \in DOMAIN t
        PROVE  t[i] \in Range(a) \cup Range(b) \cup Range(c)
    <2>1. CASE i \in 1 .. Len(a)
      BY <1>1, <2>1 DEF Range
    <2>2. CASE i - Len(a) \in 1 .. Len(b)
      <3>1. t[i] = b[i - Len(a)]
        BY <1>1, <2>2
      <3> QED
        BY <2>2, <3>1 DEF Range
    <2>3. CASE i - Len(a) - Len(b) \in 1 .. Len(c)
      <3>1. t[i] = c[i - Len(a) - Len(b)]
        BY <1>1, <2>3
      <3> QED
        BY <2>3, <3>1 DEF Range
    <2> QED
      BY <1>1, <2>1, <2>2, <2>3
  <1>3. \A i \in 1 .. Len(a) : a[i] \in Range(t)
    BY <1>1 DEF Range
  <1>4. ASSUME NEW i \in 1 .. Len(b) PROVE b[i] \in Range(t)
    <2>1. Len(a) + i \in DOMAIN t /\ t[Len(a) + i] = b[i]
      BY <1>1
    <2> QED
      BY <2>1 DEF Range
  <1>5. ASSUME NEW i \in 1 .. Len(c) PROVE c[i] \in Range(t)
    <2>1. Len(a) + Len(b) + i \in DOMAIN t /\ t[Len(a) + Len(b) + i] = c[i]
      BY <1>1
    <2> QED
      BY <2>1 DEF Range
  <1>6. Range(t) = Range(a) \cup Range(b) \cup Range(c)
    <2>1. Range(t) \subseteq Range(a) \cup Range(b) \cup Range(c)
      BY <1>2 DEF Range
    <2>2. Range(a) \subseteq Range(t)
      <3>1. DOMAIN a = 1 .. Len(a)
        OBVIOUS
      <3> QED
        BY <3>1, <1>3 DEF Range
    <2>3. Range(b) \subseteq Range(t)
      <3>1. DOMAIN b = 1 .. Len(b)
        OBVIOUS
      <3> QED
        BY <3>1, <1>4 DEF Range
    <2>4. Range(c) \subseteq Range(t)
      <3>1. DOMAIN c = 1 .. Len(c)
        OBVIOUS
      <3> QED
        BY <3>1, <1>5 DEF Range
    <2> QED
      BY <2>1, <2>2, <2>3, <2>4
  <1> QED
    BY <1>6 DEF t

\* A table that grew by blocks it did not hold has no repetition.
LEMMA ConcatInjective ==
  ASSUME NEW S, NEW a \in Seq(S), NEW b \in Seq(S), NEW c \in Seq(S),
         IsInjective(a), IsInjective(b), IsInjective(c),
         \A x \in Range(a) : x \notin Range(b) /\ x \notin Range(c),
         \A x \in Range(b) : x \notin Range(c)
  PROVE  IsInjective(a \o b \o c)
  <1> DEFINE t == a \o b \o c
  <1>1. /\ \A i \in 1 .. Len(a) : t[i] = a[i] /\ t[i] \in Range(a)
        /\ \A i \in 1 .. Len(b) : t[Len(a) + i] = b[i] /\ t[Len(a) + i] \in Range(b)
        /\ \A i \in 1 .. Len(c) : t[Len(a) + Len(b) + i] = c[i]
                                /\ t[Len(a) + Len(b) + i] \in Range(c)
    BY ConcatElements, SMTT(60) DEF Range
  <1>2. \A i \in DOMAIN t :
          \/ i \in 1 .. Len(a)
          \/ i - Len(a) \in 1 .. Len(b)
          \/ i - Len(a) - Len(b) \in 1 .. Len(c)
    BY ConcatElements
  <1>3. DOMAIN t \subseteq Nat
    BY ConcatElements
  <1> HIDE DEF t
  <1> SUFFICES ASSUME NEW i \in DOMAIN t, NEW j \in DOMAIN t, t[i] = t[j]
               PROVE  i = j
    BY DEF t, IsInjective
  <1>4. \/ i \in 1 .. Len(a) /\ t[i] = a[i] /\ t[i] \in Range(a)
        \/ /\ i - Len(a) \in 1 .. Len(b)
           /\ t[i] = b[i - Len(a)] /\ t[i] \in Range(b)
        \/ /\ i - Len(a) - Len(b) \in 1 .. Len(c)
           /\ t[i] = c[i - Len(a) - Len(b)] /\ t[i] \in Range(c)
    BY <1>1, <1>2, <1>3
  <1>5. \/ j \in 1 .. Len(a) /\ t[j] = a[j] /\ t[j] \in Range(a)
        \/ /\ j - Len(a) \in 1 .. Len(b)
           /\ t[j] = b[j - Len(a)] /\ t[j] \in Range(b)
        \/ /\ j - Len(a) - Len(b) \in 1 .. Len(c)
           /\ t[j] = c[j - Len(a) - Len(b)] /\ t[j] \in Range(c)
    BY <1>1, <1>2, <1>3
  <1> QED
    BY <1>3, <1>4, <1>5 DEF IsInjective

-----------------------------------------------------------------------------
(* Reference counts.                                                       *)

\* A table change of one request moves the reference counts exactly when they
\* move by one for the blocks it gains and by minus one for those it loses.
LEMMA RefCountsStep ==
  ASSUME RefCounts,
         allocations \in [Request -> Seq(BlockId)],
         pool \in Pool,
         NEW r \in Request, NEW table \in Seq(BlockId),
         allocations' = [allocations EXCEPT ![r] = table],
         \A b \in BlockId :
           pool'.ref_cnt[b] =
             IF b \in Range(table) /\ b \notin Range(allocations[r])
             THEN pool.ref_cnt[b] + 1
             ELSE IF b \notin Range(table) /\ b \in Range(allocations[r])
             THEN pool.ref_cnt[b] - 1
             ELSE pool.ref_cnt[b]
  PROVE  RefCounts'
  <1> SUFFICES ASSUME NEW b \in BlockId
               PROVE  pool'.ref_cnt[b] = Cardinality(Holders(b)')
    BY DEF RefCounts
  <1>1. IsFiniteSet(Holders(b)) /\ Cardinality(Holders(b)) = pool.ref_cnt[b]
    BY RequestAssumption, FS_Subset DEF Holders, RefCounts
  <1>2. \A q \in Request : allocations'[q] = IF q = r THEN table ELSE allocations[q]
    OBVIOUS
  <1>3. Holders(b)' = IF b \in Range(table) THEN Holders(b) \cup {r} ELSE Holders(b) \ {r}
    BY <1>2 DEF Holders
  <1>4. r \in Holders(b) <=> b \in Range(allocations[r])
    BY DEF Holders
  <1>5. Cardinality(Holders(b)) \in Nat
    BY <1>1, FS_CardinalityType
  <1>6. CASE b \in Range(table) /\ b \notin Range(allocations[r])
    <2>1. Cardinality(Holders(b) \cup {r}) = Cardinality(Holders(b)) + 1
      BY <1>1, <1>4, <1>6, FS_AddElement
    <2> QED
      BY <2>1, <1>1, <1>3, <1>6
  <1>7. CASE b \notin Range(table) /\ b \in Range(allocations[r])
    <2>1. Cardinality(Holders(b) \ {r}) = Cardinality(Holders(b)) - 1
      BY <1>1, <1>4, <1>7, FS_RemoveElement
    <2> QED
      BY <2>1, <1>1, <1>3, <1>7
  <1>8. CASE b \in Range(table) /\ b \in Range(allocations[r])
    <2>1. Holders(b) \cup {r} = Holders(b)
      BY <1>4, <1>8
    <2> QED
      BY <2>1, <1>1, <1>3, <1>8
  <1>9. CASE b \notin Range(table) /\ b \notin Range(allocations[r])
    <2>1. Holders(b) \ {r} = Holders(b)
      BY <1>4, <1>9
    <2> QED
      BY <2>1, <1>1, <1>3, <1>9
  <1> QED
    BY <1>6, <1>7, <1>8, <1>9

\* A block some table holds is allocated and has a positive count.
LEMMA HeldIsAllocated ==
  ASSUME TypeOK, Partition, RefCounts,
         NEW r \in Request, NEW i \in DOMAIN allocations[r]
  PROVE  /\ allocations[r][i] \in BlockId
         /\ allocations[r][i] \notin pool.free
         /\ allocations[r][i] \in pool.allocated
         /\ pool.ref_cnt[allocations[r][i]] >= 1
  <1> DEFINE b == allocations[r][i]
  <1>1. b \in BlockId
    BY DEF TypeOK
  <1>2. r \in Holders(b) /\ IsFiniteSet(Holders(b))
    BY RequestAssumption, FS_Subset DEF Holders, Range
  <1>3. Cardinality(Holders(b)) # 0 /\ Cardinality(Holders(b)) \in Nat
    BY <1>2, FS_EmptySet, FS_CardinalityType
  <1>4. pool.ref_cnt[b] >= 1
    BY <1>1, <1>3 DEF RefCounts
  <1> QED
    BY <1>1, <1>4 DEF Partition

\* A block that a single table holds once has count one.
LEMMA SoleHolderCount ==
  ASSUME RefCounts, NEW b \in BlockId, NEW r \in Request, Holders(b) = {r}
  PROVE  pool.ref_cnt[b] = 1
  BY FS_Singleton DEF RefCounts

-----------------------------------------------------------------------------
(* The two pool changes, field by field.                                   *)

\* reuse_and_reserve, as the scheduler uses it: the reserved blocks become
\* writable by the request, the reused ones gain a reference.
LEMMA ReuseAndReserveFields ==
  ASSUME pool \in Pool, Partition,
         NEW r \in Request,
         NEW plan, Range(plan) \subseteq BlockId \ pool.free,
         NEW ids, Range(ids) \subseteq pool.free,
         pool' = ReuseAndReserve(pool, plan, ids, r)
  PROVE  /\ pool' \in Pool
         /\ pool'.free = pool.free \ Range(ids)
         /\ pool'.allocated = pool.allocated \cup Range(ids)
         /\ \A b \in BlockId : pool'.ref_cnt[b] =
               IF b \in Range(ids) \cup Range(plan) THEN pool.ref_cnt[b] + 1
                                                   ELSE pool.ref_cnt[b]
         /\ \A b \in BlockId : pool'.state[b] =
               IF b \in Range(ids) THEN Writable(r) ELSE pool.state[b]
         /\ pool'.sealed = pool.sealed
  <1> DEFINE p1 == Reserve(pool, ids, r)
  <1>1. /\ p1 \in Pool
        /\ p1.free = pool.free \ Range(ids)
        /\ p1.allocated = pool.allocated \cup Range(ids)
        /\ p1.ref_cnt = [b \in BlockId |-> pool.ref_cnt[b] + IF b \in Range(ids) THEN 1 ELSE 0]
        /\ p1.state = [b \in BlockId |-> IF b \in Range(ids) THEN Writable(r)
                                                            ELSE pool.state[b]]
        /\ p1.sealed = pool.sealed
    BY DEF Reserve, Pool, BlockState, Writable
  <1>2. pool' = RetainShared(p1, Range(plan))
    BY DEF ReuseAndReserve
  <1> HIDE DEF p1
  <1>3. /\ pool'.free = p1.free \ Range(plan)
        /\ pool'.allocated = p1.allocated \cup (Range(plan) \cap p1.free)
        /\ pool'.ref_cnt = [b \in BlockId |-> p1.ref_cnt[b] + IF b \in Range(plan) THEN 1 ELSE 0]
        /\ pool'.state = p1.state
        /\ pool'.sealed = p1.sealed
        /\ pool' \in Pool
    BY <1>1, <1>2 DEF RetainShared, Pool
  <1> QED
    BY <1>1, <1>3 DEF Pool, Partition

\* The pool p2 is the pool p after the blocks ids lost a reference, which was
\* the last one of the blocks freed.
Released(p, ids, freed, p2) ==
  /\ p2 \in Pool
  /\ p2.free = p.free \cup freed
  /\ p2.allocated = p.allocated \ freed
  /\ \A b \in BlockId : p2.ref_cnt[b] = IF b \in ids THEN p.ref_cnt[b] - 1 ELSE p.ref_cnt[b]
  /\ \A b \in BlockId : p2.state[b] = IF b \in freed THEN Writable(None) ELSE p.state[b]
  /\ p2.sealed = {e \in p.sealed : \A b \in freed : IsSealed(p, b) => e[1] # p.state[b].hash}

\* release_blocks: the blocks whose count was one are reset and freed, and
\* their hashes leave the map.
LEMMA ReleaseFields ==
  ASSUME NEW p \in Pool, NEW ids \in SUBSET BlockId,
         \A b \in ids : p.ref_cnt[b] >= 1,
         NEW freed, freed = {b \in ids : p.ref_cnt[b] = 1}
  PROVE  Released(p, ids, freed, ReleaseBlocks(p, ids))
  BY DEF Released, ReleaseBlocks, Pool, BlockState, Writable

-----------------------------------------------------------------------------
(* reserve_to.                                                             *)

\* What holds after k reused and n reserved blocks were added to the table of r.
Reserved(r, k, plan, n, ids) ==
  /\ pool' \in Pool
  /\ allocations' \in [Request -> Seq(BlockId)]
  /\ Partition' /\ RefCounts' /\ SealedIndex' /\ TableInjective'
  /\ \A b \in BlockId : pool'.state[b] =
        IF b \in Range(ids) THEN Writable(r) ELSE pool.state[b]
  /\ Range(ids) \subseteq pool.free
  /\ Len(allocations'[r]) = Len(allocations[r]) + k + n
  /\ \A i \in 1 .. Len(allocations[r]) : allocations'[r][i] = allocations[r][i]
  /\ \A i \in 1 .. k : allocations'[r][Len(allocations[r]) + i] = plan[i]
  /\ \A i \in 1 .. n : allocations'[r][Len(allocations[r]) + k + i] = ids[i]

\* Reserving keeps the pool consistent: the new blocks come from the free
\* set, the reused ones are sealed and therefore held, and the table of the
\* request stays free of repetitions.
LEMMA ReserveStep ==
  ASSUME TypeOK, Partition, RefCounts, SealedIndex, TableInjective,
         NEW r \in Request,
         NEW k \in Nat, NEW plan \in [1 .. k -> BlockId],
         NEW n \in Nat, NEW ids \in LowestFree(pool, n),
         k > 0 => allocations[r] = <<>>,
         \A i, j \in 1 .. k : plan[i] = plan[j] => i = j,
         \A i \in 1 .. k : IsSealed(pool, plan[i]),
         pool' = ReuseAndReserve(pool, plan, ids, r),
         allocations' = [allocations EXCEPT ![r] = @ \o plan \o ids]
  PROVE  Reserved(r, k, plan, n, ids)
  <1> DEFINE old   == allocations[r]
             m     == Len(old)
             table == old \o plan \o ids
  <1>1. /\ ids \in [1 .. n -> pool.free]
        /\ \A i, j \in 1 .. n : ids[i] = ids[j] => i = j
        /\ Range(ids) \subseteq pool.free
        /\ Range(ids) \subseteq BlockId
    <2>1. /\ ids \in [1 .. n -> pool.free]
          /\ \A i, j \in 1 .. n : i < j => ids[i] < ids[j]
      BY DEF LowestFree
    <2>2. pool.free \subseteq BlockId
      BY DEF TypeOK, Pool
    <2>3. \A i \in 1 .. n : ids[i] \in Int
      BY <2>1, <2>2 DEF BlockId
    <2>4. \A i, j \in 1 .. n : ids[i] = ids[j] => i = j
      BY <2>1, <2>3
    <2> QED
      BY <2>1, <2>2, <2>4 DEF Range
  <1>2. /\ plan \in Seq(BlockId) /\ Len(plan) = k
        /\ ids \in Seq(BlockId) /\ Len(ids) = n
        /\ old \in Seq(BlockId) /\ m \in Nat
    <2>1. plan \in Seq(BlockId) /\ Len(plan) = k
      OBVIOUS
    <2>2. pool.free \subseteq BlockId
      BY DEF TypeOK, Pool
    <2>3. ids \in Seq(BlockId) /\ Len(ids) = n
      BY <1>1, <2>2
    <2>4. old \in Seq(BlockId)
      BY DEF TypeOK
    <2>5. m \in Nat
      BY <2>4, LenProperties, ZenonT(60)
    <2> QED
      BY <2>1, <2>3, <2>4, <2>5
  <1>3. /\ table \in Seq(BlockId)
        /\ Len(table) = m + k + n
        /\ \A i \in 1 .. m : table[i] = old[i]
        /\ \A i \in 1 .. k : table[m + i] = plan[i]
        /\ \A i \in 1 .. n : table[m + k + i] = ids[i]
    <2>1. /\ table \in Seq(BlockId)
          /\ Len(table) = Len(old) + Len(plan) + Len(ids)
          /\ \A i \in 1 .. Len(old) : table[i] = old[i]
          /\ \A i \in 1 .. Len(plan) : table[Len(old) + i] = plan[i]
          /\ \A i \in 1 .. Len(ids) : table[Len(old) + Len(plan) + i] = ids[i]
      <3>1. old \in Seq(BlockId) /\ plan \in Seq(BlockId) /\ ids \in Seq(BlockId)
        BY <1>2
      <3>2. \A a, b, c \in Seq(BlockId) :
              /\ a \o b \o c \in Seq(BlockId)
              /\ Len(a \o b \o c) = Len(a) + Len(b) + Len(c)
              /\ \A i \in 1 .. Len(a) : (a \o b \o c)[i] = a[i]
              /\ \A i \in 1 .. Len(b) : (a \o b \o c)[Len(a) + i] = b[i]
              /\ \A i \in 1 .. Len(c) : (a \o b \o c)[Len(a) + Len(b) + i] = c[i]
        BY ConcatElements
      <3> QED
        BY <3>1, <3>2, ZenonT(60)
    <2> QED
      BY <1>2, <2>1
  <1>4. /\ allocations' = [allocations EXCEPT ![r] = table]
        /\ allocations'[r] = table
        /\ \A q \in Request \ {r} : allocations'[q] = allocations[q]
        /\ allocations' \in [Request -> Seq(BlockId)]
    BY <1>3 DEF TypeOK
  <1> HIDE DEF table
  <1>6. Range(table) = Range(old) \cup Range(plan) \cup Range(ids)
    BY <1>2, ConcatRange DEF table
  <1>7. \A i \in 1 .. k : plan[i] \in BlockId /\ plan[i] \notin pool.free
    BY DEF SealedIndex, IsSealed, Writable
  <1>8. Range(plan) \subseteq BlockId \ pool.free /\ Range(plan) \cap Range(ids) = {}
    BY <1>1, <1>2, <1>7 DEF Range
  <1>9. \A b \in Range(old) : b \in BlockId /\ b \notin pool.free /\ b \notin Range(ids)
    BY <1>1, HeldIsAllocated DEF Range
  <1>10. Range(plan) \cap Range(old) = {}
    <2>1. CASE k = 0
      BY <2>1, <1>2 DEF Range
    <2>2. CASE k > 0
      BY <2>2 DEF Range
    <2> QED
      BY <2>1, <2>2
  <1>11. /\ pool' \in Pool
         /\ pool'.free = pool.free \ Range(ids)
         /\ pool'.allocated = pool.allocated \cup Range(ids)
         /\ \A b \in BlockId : pool'.ref_cnt[b] =
               IF b \in Range(ids) \cup Range(plan) THEN pool.ref_cnt[b] + 1
                                                   ELSE pool.ref_cnt[b]
         /\ \A b \in BlockId : pool'.state[b] =
               IF b \in Range(ids) THEN Writable(r) ELSE pool.state[b]
         /\ pool'.sealed = pool.sealed
    BY <1>1, <1>8, ReuseAndReserveFields DEF TypeOK
  <1>12. RefCounts'
    <2>1. \A b \in BlockId :
            pool'.ref_cnt[b] =
              IF b \in Range(table) /\ b \notin Range(old) THEN pool.ref_cnt[b] + 1
              ELSE IF b \notin Range(table) /\ b \in Range(old) THEN pool.ref_cnt[b] - 1
              ELSE pool.ref_cnt[b]
      BY <1>6, <1>9, <1>10, <1>11
    <2>2. /\ table \in Seq(BlockId) /\ allocations' = [allocations EXCEPT ![r] = table]
          /\ allocations \in [Request -> Seq(BlockId)] /\ pool \in Pool
      BY <1>3, <1>4 DEF TypeOK
    <2> QED
      BY <2>1, <2>2, RefCountsStep, ZenonT(60)
  <1>13. Partition'
    <2>1. \A b \in BlockId : pool.ref_cnt[b] \in Nat
      BY DEF TypeOK, Pool
    <2> QED
      BY <1>1, <1>8, <1>11, <2>1 DEF Partition
  <1>14. SealedIndex'
    <2>1. \A b \in BlockId : pool.state[b].kind = "sealed" => b \notin Range(ids)
      BY <1>1 DEF SealedIndex, Writable
    <2>2. \A e \in pool.sealed : e[2] \in BlockId /\ pool.state[e[2]] = Sealed(e[1])
      BY DEF SealedIndex, TypeOK, Pool
    <2>3. ASSUME NEW e \in pool.sealed PROVE e[2] \notin Range(ids)
      <3>1. pool.state[e[2]] = [kind |-> "sealed", hash |-> e[1]] /\ e[2] \in BlockId
        BY <2>2 DEF Sealed
      <3>2. pool.state[e[2]].kind = "sealed"
        BY <3>1
      <3> QED
        BY <2>1, <3>1, <3>2
    <2>4. \A e \in pool'.sealed : pool'.state[e[2]] = Sealed(e[1])
      BY <1>11, <2>2, <2>3
    <2>5. \A b \in BlockId : pool'.state[b].kind = "sealed"
                              => <<pool'.state[b].hash, b>> \in pool'.sealed
      BY <1>11 DEF SealedIndex, IsSealed, Writable
    <2>6. \A b \in pool'.free : pool'.state[b] = Writable(None)
      BY <1>11 DEF SealedIndex, TypeOK, Pool
    <2>7. \A e, f \in pool'.sealed : e[1] = f[1] => e[2] = f[2]
      BY <1>11 DEF SealedIndex
    <2> QED
      BY <2>4, <2>5, <2>6, <2>7 DEF SealedIndex, IsSealed
  <1>15. IsInjective(table)
    <2>1. IsInjective(old)
      BY DEF TableInjective
    <2>2. \A b \in Range(old) : b \notin Range(plan) /\ b \notin Range(ids)
      BY <1>9, <1>10
    <2>3. \A b \in Range(plan) : b \notin Range(ids)
      BY <1>8
    <2>4. IsInjective(plan) /\ IsInjective(ids)
      BY <1>1 DEF IsInjective
    <2>5. \A a, b, c \in Seq(BlockId) :
            /\ IsInjective(a) /\ IsInjective(b) /\ IsInjective(c)
            /\ \A x \in Range(a) : x \notin Range(b) /\ x \notin Range(c)
            /\ \A x \in Range(b) : x \notin Range(c)
            => IsInjective(a \o b \o c)
      BY ConcatInjective
    <2>6. old \in Seq(BlockId) /\ plan \in Seq(BlockId) /\ ids \in Seq(BlockId)
      BY <1>2
    <2> HIDE DEF old
    <2> QED
      BY <2>1, <2>2, <2>3, <2>4, <2>5, <2>6, ZenonT(60) DEF table
  <1>16. TableInjective'
    BY <1>4, <1>15 DEF TableInjective
  <1> QED
    BY <1>1, <1>3, <1>4, <1>11, <1>12, <1>13, <1>14, <1>16 DEF Reserved

-----------------------------------------------------------------------------
(* Prefixes.                                                               *)

\* The hash of a shorter prefix of a prefix, and the length of a hashed prefix.
LEMMA PrefixHashFacts ==
  ASSUME NEW text \in Seq(Token), NEW i \in Nat, i * BlockLen <= Len(text)
  PROVE  /\ PrefixHash(text, i) \in Seq(Token)
         /\ Len(PrefixHash(text, i)) = i * BlockLen
         /\ \A n \in Nat : i * BlockLen <= n /\ n <= Len(text)
              => PrefixHash(SubSeq(text, 1, n), i) = PrefixHash(text, i)
  <1> DEFINE len == i * BlockLen
  <1>1. len \in Nat /\ len <= Len(text)
    BY BlockLenAssumption
  <1> HIDE DEF len
  <1>2. SubSeq(text, 1, len) \in Seq(Token) /\ Len(SubSeq(text, 1, len)) = len
    BY <1>1
  <1>3. ASSUME NEW n \in Nat, len <= n, n <= Len(text)
        PROVE  SubSeq(SubSeq(text, 1, n), 1, len) = SubSeq(text, 1, len)
    BY <1>1, <1>3
  <1> QED
    BY <1>2, <1>3 DEF PrefixHash, len

\* A prefix and what follows it make a longer prefix.
LEMMA SubSeqConcat ==
  ASSUME NEW S, NEW t \in Seq(S), NEW x \in Nat, NEW y \in Nat, x <= y, y <= Len(t)
  PROVE  SubSeq(t, 1, x) \o SubSeq(t, x + 1, y) = SubSeq(t, 1, y)
  OBVIOUS

\* Hashes of prefixes of different lengths differ.
LEMMA PrefixHashInjective ==
  ASSUME NEW s \in Seq(Token), NEW t \in Seq(Token), NEW i \in Nat, NEW j \in Nat,
         i * BlockLen <= Len(s), j * BlockLen <= Len(t),
         PrefixHash(s, i) = PrefixHash(t, j)
  PROVE  i = j
  <1>1. i * BlockLen = j * BlockLen
    BY PrefixHashFacts
  <1>2. ~(i < j)
    <2>1. i < j => (i + 1) * BlockLen <= j * BlockLen
      BY BlockLenAssumption
    <2> QED
      BY <1>1, <2>1, BlockLenAssumption
  <1>3. ~(j < i)
    <2>1. j < i => (j + 1) * BlockLen <= i * BlockLen
      BY BlockLenAssumption
    <2> QED
      BY <1>1, <2>1, BlockLenAssumption
  <1> QED
    BY <1>2, <1>3

\* A block below a bound starts below it.
LEMMA BlockBound ==
  ASSUME NEW i \in Nat, NEW k \in Nat
  PROVE  i <= k <=> i * BlockLen <= k * BlockLen
  <1>1. i <= k => i * BlockLen <= k * BlockLen
    BY BlockLenAssumption
  <1>2. k < i => (k + 1) * BlockLen <= i * BlockLen
    BY BlockLenAssumption
  <1>3. k * BlockLen < (k + 1) * BlockLen
    BY BlockLenAssumption
  <1> QED
    BY <1>1, <1>2, <1>3, BlockLenAssumption

\* The block the map gives for a hash is sealed under it.
LEMMA SealedBlockFacts ==
  ASSUME TypeOK, SealedIndex, NEW hash, HasSealed(pool, hash)
  PROVE  /\ SealedBlock(pool, hash) \in BlockId
         /\ pool.state[SealedBlock(pool, hash)] = Sealed(hash)
         /\ IsSealed(pool, SealedBlock(pool, hash))
         /\ SealedBlock(pool, hash) \notin pool.free
  <1> DEFINE b == SealedBlock(pool, hash)
  <1>1. b \in BlockId /\ <<hash, b>> \in pool.sealed
    BY DEF HasSealed, SealedBlock
  <1> HIDE DEF b
  <1>2. pool.state[b] = Sealed(hash)
    BY <1>1 DEF SealedIndex
  <1>3. pool.state[b].kind = "sealed"
    BY <1>2 DEF Sealed
  <1>4. b \notin pool.free
    BY <1>3 DEF SealedIndex, Writable
  <1> QED
    BY <1>1, <1>2, <1>3, <1>4 DEF IsSealed, b

-----------------------------------------------------------------------------
(* The actions.                                                            *)

\* A reservation for r leaves the blocks of every other request as they were.
LEMMA ReserveOthers ==
  ASSUME CacheInv, NEW r \in Request, NEW ids, Range(ids) \subseteq pool.free,
         \A b \in BlockId : pool'.state[b] =
            IF b \in Range(ids) THEN Writable(r) ELSE pool.state[b],
         NEW q \in Request, NEW i \in DOMAIN allocations[q]
  PROVE  pool'.state[allocations[q][i]] = pool.state[allocations[q][i]]
  BY HeldIsAllocated DEF CacheInv

\* The first chunk of a request: the shared blocks hold the prefix it reuses.
LEMMA AdmitStep ==
  ASSUME CacheInv,
         NEW r \in Request, NEW prompt \in Texts, NEW text \in Texts,
         Admit(r, prompt, text)
  PROVE  CacheInv'
  <1> USE DEF CacheInv
  <1>1. /\ prompt \in Seq(Token) /\ text \in Seq(Token)
        /\ allocations[r] = <<>>
    BY TextsAssumption DEF Admit
  <1>2. PICK k \in 0 .. Len(prompt) :
          /\ IsReuse(pool, prompt, k)
          /\ Len(text) > k * BlockLen
          /\ ReserveTo(r, ReusePlan(pool, prompt, k), Len(text))
          /\ written'  = [written EXCEPT ![r] = SubSeq(prompt, 1, k * BlockLen)]
          /\ inflight' = [inflight EXCEPT ![r] = SubSeq(text, k * BlockLen + 1, Len(text))]
    BY DEF Admit
  <1> DEFINE plan == ReusePlan(pool, prompt, k)
             len  == Len(text)
             n    == RequiredBlocks(len - k * BlockLen)
  <1>3. k \in Nat /\ k * BlockLen \in Nat /\ len \in Nat
    BY <1>1, BlockLenAssumption
  <1>4. k * BlockLen <= Len(prompt)
    <2>1. CASE k = 0
      BY <2>1, <1>1, BlockLenAssumption
    <2>2. CASE k > 0
      <3>1. k <= FullBlocks(Len(prompt) - 1) /\ Len(prompt) - 1 \in Nat
        BY <2>2, <1>1, <1>2 DEF IsReuse, MaxReusableBlocks
      <3>2. /\ FullBlocks(Len(prompt) - 1) \in Nat
            /\ FullBlocks(Len(prompt) - 1) * BlockLen <= Len(prompt) - 1
        BY <3>1, FullBlocksFacts
      <3>3. k * BlockLen <= FullBlocks(Len(prompt) - 1) * BlockLen
        BY <3>1, <3>2, BlockBound
      <3> QED
        BY <3>2, <3>3, <1>1, <1>3, BlockLenAssumption
    <2> QED
      BY <2>1, <2>2
  <1>5. ASSUME NEW j \in 1 .. k
        PROVE  /\ plan[j] \in BlockId
               /\ pool.state[plan[j]] = Sealed(PrefixHash(prompt, j))
               /\ IsSealed(pool, plan[j])
               /\ j * BlockLen <= k * BlockLen
               /\ j * BlockLen <= Len(prompt)
    <2>1. HasSealed(pool, PrefixHash(prompt, j))
      BY <1>2 DEF IsReuse
    <2>2. plan[j] = SealedBlock(pool, PrefixHash(prompt, j))
      BY DEF ReusePlan
    <2>3. j * BlockLen <= k * BlockLen
      BY <1>3, BlockBound
    <2>4. j * BlockLen \in Nat
      BY BlockLenAssumption
    <2> HIDE DEF plan
    <2> QED
      BY <2>1, <2>2, <2>3, <2>4, <1>1, <1>3, <1>4, SealedBlockFacts
  <1>6. plan \in [1 .. k -> BlockId] /\ Len(plan) = k
    BY <1>3, <1>5 DEF ReusePlan
  <1>7. \A i, j \in 1 .. k : plan[i] = plan[j] => i = j
    <2> SUFFICES ASSUME NEW i \in 1 .. k, NEW j \in 1 .. k, plan[i] = plan[j]
                 PROVE  i = j
      OBVIOUS
    <2>1. Sealed(PrefixHash(prompt, i)) = Sealed(PrefixHash(prompt, j))
      BY <1>5
    <2>2. PrefixHash(prompt, i) = PrefixHash(prompt, j)
      BY <2>1 DEF Sealed
    <2> QED
      BY <2>2, <1>1, <1>3, <1>5, PrefixHashInjective
  <1>8. /\ n \in Nat /\ n > 0
        /\ n + k = RequiredBlocks(len)
        /\ len - k * BlockLen \in Nat
    <2>1. k * BlockLen < len
      BY <1>2, <1>3
    <2> HIDE DEF len
    <2>2. len - k * BlockLen \in Nat /\ n + k = RequiredBlocks(len)
      BY <2>1, <1>3, RequiredBlocksMinus
    <2>3. n \in Nat /\ (n = 0 <=> len - k * BlockLen = 0)
      BY <2>2, RequiredBlocksFacts
    <2> HIDE DEF n
    <2> QED
      BY <2>1, <2>2, <2>3, <1>3
  <1> HIDE DEF plan, n
  <1>9. MissingBlocks(r, plan, len) = n
    BY <1>1, <1>6, <1>8 DEF MissingBlocks, n
  <1>10. PICK ids \in LowestFree(pool, n) :
           /\ pool' = ReuseAndReserve(pool, plan, ids, r)
           /\ allocations' = [allocations EXCEPT ![r] = @ \o plan \o ids]
    <2>1. ReserveTo(r, plan, len)
      BY <1>2 DEF plan
    <2> QED
      BY <2>1, <1>8, <1>9 DEF ReserveTo
  <1>11. /\ pool' \in Pool
         /\ allocations' \in [Request -> Seq(BlockId)]
         /\ Partition' /\ RefCounts' /\ SealedIndex' /\ TableInjective'
         /\ \A b \in BlockId : pool'.state[b] =
               IF b \in Range(ids) THEN Writable(r) ELSE pool.state[b]
         /\ Range(ids) \subseteq pool.free
         /\ Len(allocations'[r]) = k + n
         /\ \A i \in 1 .. k : allocations'[r][i] = plan[i]
         /\ \A i \in 1 .. n : allocations'[r][k + i] = ids[i]
    <2>1. Reserved(r, k, plan, n, ids)
      <3>1. \A x \in Request, kk \in Nat, nn \in Nat :
            \A pl \in [1 .. kk -> BlockId] : \A ii \in LowestFree(pool, nn) :
              /\ TypeOK /\ Partition /\ RefCounts /\ SealedIndex /\ TableInjective
              /\ kk > 0 => allocations[x] = <<>>
              /\ \A i, j \in 1 .. kk : pl[i] = pl[j] => i = j
              /\ \A i \in 1 .. kk : IsSealed(pool, pl[i])
              /\ pool' = ReuseAndReserve(pool, pl, ii, x)
              /\ allocations' = [allocations EXCEPT ![x] = @ \o pl \o ii]
              => Reserved(x, kk, pl, nn, ii)
        BY ReserveStep, ZenonT(60)
      <3>2. \A i \in 1 .. k : IsSealed(pool, plan[i])
        BY <1>5
      <3> QED
        BY <3>1, <3>2, <1>1, <1>3, <1>6, <1>7, <1>8, <1>10, ZenonT(60)
    <2>2. Len(allocations[r]) = 0
      BY <1>1
    <2>3. \A i \in 1 .. k : Len(allocations[r]) + i = i
      BY <2>2
    <2>4. /\ Len(allocations[r]) + k = k
          /\ Len(allocations[r]) + k + n = k + n
      BY <2>2, <1>3, <1>8
    <2> QED
      BY <2>1, <2>3, <2>4 DEF Reserved
  <1>12. \A q \in Request \ {r} : /\ allocations'[q] = allocations[q]
                                  /\ written'[q] = written[q]
                                  /\ inflight'[q] = inflight[q]
    BY <1>2, <1>10 DEF TypeOK
  <1>13. /\ written'[r] = SubSeq(prompt, 1, k * BlockLen)
         /\ written'[r] \in Seq(Token) /\ Len(written'[r]) = k * BlockLen
         /\ inflight'[r] \in Seq(Token) /\ Len(inflight'[r]) = len - k * BlockLen
    <2> DEFINE kb == k * BlockLen
    <2>1. kb \in Nat /\ kb <= Len(prompt) /\ kb < Len(text)
      BY <1>2, <1>3, <1>4
    <2>2. /\ written'[r] = SubSeq(prompt, 1, kb)
          /\ inflight'[r] = SubSeq(text, kb + 1, Len(text))
      BY <1>2 DEF TypeOK
    <2> HIDE DEF kb
    <2>3. SubSeq(prompt, 1, kb) \in Seq(Token) /\ Len(SubSeq(prompt, 1, kb)) = kb
      BY <1>1, <2>1
    <2>4. /\ SubSeq(text, kb + 1, Len(text)) \in Seq(Token)
          /\ Len(SubSeq(text, kb + 1, Len(text))) = Len(text) - kb
      BY <1>1, <2>1
    <2> QED
      BY <2>2, <2>3, <2>4 DEF kb
  <1>14. TypeOK'
    BY <1>2, <1>11, <1>13 DEF TypeOK
  <1>15. TableCoversTokens'
    <2>1. Len(written'[r]) + Len(inflight'[r]) = len
      BY <1>3, <1>8, <1>13
    <2>2. k + n = n + k
      BY <1>3, <1>8
    <2>3. Len(allocations'[r]) = RequiredBlocks(Len(written'[r]) + Len(inflight'[r]))
      BY <2>1, <2>2, <1>8, <1>11, ZenonT(60)
    <2> QED
      BY <2>3, <1>12 DEF TableCoversTokens
  <1>16. TableContents'
    <2> SUFFICES ASSUME NEW q \in Request, NEW i \in DOMAIN allocations'[q]
                 PROVE  pool'.state[allocations'[q][i]] =
                          IF i * BlockLen <= Len(written'[q])
                          THEN Sealed(PrefixHash(written'[q], i))
                          ELSE Writable(q)
      BY DEF TableContents
    <2>1. CASE q # r
      BY <2>1, <1>11, <1>12, ReserveOthers DEF TableContents
    <2>2. CASE q = r
      <3>1. i \in 1 .. k + n
        BY <2>2, <1>11
      <3>2. CASE i \in 1 .. k
        <4>1. i * BlockLen <= k * BlockLen /\ i * BlockLen <= Len(prompt)
          BY <3>2, <1>5
        <4>2. PrefixHash(written'[r], i) = PrefixHash(prompt, i)
          BY <3>2, <4>1, <1>1, <1>3, <1>4, <1>13, PrefixHashFacts
        <4>3. allocations'[r][i] = plan[i] /\ plan[i] \notin pool.free
          BY <3>2, <1>5, <1>11 DEF SealedIndex, IsSealed, Writable
        <4>4. pool'.state[plan[i]] = Sealed(PrefixHash(prompt, i))
          BY <3>2, <4>3, <1>5, <1>11
        <4> QED
          BY <2>2, <4>1, <4>2, <4>3, <4>4, <1>13
      <3>3. CASE i - k \in 1 .. n
        <4>1. ~(i * BlockLen <= k * BlockLen)
          BY <3>1, <3>3, <1>3, BlockBound
        <4>2. allocations'[r][i] = ids[i - k]
          <5>1. allocations'[r][k + (i - k)] = ids[i - k]
            BY <3>3, <1>11
          <5>2. k + (i - k) = i
            BY <3>1, <1>3
          <5> QED
            BY <5>1, <5>2
        <4>3. ids[i - k] \in Range(ids) /\ ids[i - k] \in BlockId
          BY <3>3, <1>10, <1>11 DEF LowestFree, Range, TypeOK, Pool
        <4> QED
          BY <2>2, <4>1, <4>2, <4>3, <1>11, <1>13
      <3> QED
        BY <3>1, <3>2, <3>3, <1>3, <1>8
    <2> QED
      BY <2>1, <2>2
  <1> QED
    BY <1>11, <1>14, <1>15, <1>16

\* A later chunk or a decode token: the tokens cached before keep their blocks.
LEMMA GrowStep ==
  ASSUME CacheInv,
         NEW r \in Request, NEW text \in Texts,
         Grow(r, text)
  PROVE  CacheInv'
  <1> USE DEF CacheInv
  <1> DEFINE old == allocations[r]
             W   == Len(written[r])
             m   == Len(old)
             n   == RequiredBlocks(Len(text)) - m
  <1>1. /\ text \in Seq(Token) /\ written[r] \in Seq(Token) /\ old \in Seq(BlockId)
        /\ W \in Nat /\ m \in Nat /\ Len(text) \in Nat /\ W < Len(text)
        /\ inflight[r] = <<>>
        /\ ReserveTo(r, <<>>, Len(text))
        /\ written' = written
        /\ inflight' = [inflight EXCEPT ![r] = SubSeq(text, W + 1, Len(text))]
    BY TextsAssumption DEF Grow, TypeOK
  <1>2. m = RequiredBlocks(W)
    <2>1. Len(written[r]) + Len(inflight[r]) = W
      BY <1>1
    <2> QED
      BY <2>1 DEF TableCoversTokens
  <1>3. /\ W <= m * BlockLen
        /\ RequiredBlocks(Len(text)) \in Nat
        /\ m <= RequiredBlocks(Len(text))
    <2>1. W <= m * BlockLen /\ (W > 0 => (m - 1) * BlockLen < W) /\ (m = 0 <=> W = 0)
      BY <1>1, <1>2, RequiredBlocksFacts
    <2> DEFINE q == RequiredBlocks(Len(text))
    <2>2. q \in Nat /\ Len(text) <= q * BlockLen
      BY <1>1, RequiredBlocksFacts
    <2> HIDE DEF q
    <2>3. ~(q < m)
      <3> SUFFICES ASSUME q < m PROVE FALSE
        OBVIOUS
      <3>1. q * BlockLen <= (m - 1) * BlockLen
        BY <1>1, <2>2, BlockBound
      <3>2. (m - 1) * BlockLen < W
        BY <1>1, <2>1, <2>2
      <3> QED
        BY <3>1, <3>2, <1>1, <2>2, BlockLenAssumption
    <2> QED
      BY <1>1, <2>1, <2>2, <2>3 DEF q
  <1>4. MissingBlocks(r, <<>>, Len(text)) = n
    <2>1. Len(text) - Len(<<>>) * BlockLen = Len(text)
      BY <1>1, BlockLenAssumption
    <2> QED
      BY <2>1 DEF MissingBlocks
  <1>5. n \in Nat /\ m + n = RequiredBlocks(Len(text))
    BY <1>1, <1>3
  <1> HIDE DEF n
  <1>6. /\ \A q \in Request \ {r} : inflight'[q] = inflight[q]
        /\ inflight'[r] \in Seq(Token)
        /\ inflight' \in [Request -> Seq(Token)]
        /\ Len(written'[r]) + Len(inflight'[r]) = Len(text)
    <2>1. /\ SubSeq(text, W + 1, Len(text)) \in Seq(Token)
          /\ Len(SubSeq(text, W + 1, Len(text))) = Len(text) - W
      <3> HIDE DEF W
      <3> QED
        BY <1>1
    <2>2. inflight'[r] = SubSeq(text, W + 1, Len(text))
      BY <1>1 DEF TypeOK
    <2>3. Len(written'[r]) = W /\ W + (Len(text) - W) = Len(text)
      BY <1>1
    <2>4. /\ \A q \in Request \ {r} : inflight'[q] = inflight[q]
          /\ inflight' \in [Request -> Seq(Token)]
      BY <1>1, <2>1 DEF TypeOK
    <2> HIDE DEF W
    <2> QED
      BY <2>1, <2>2, <2>3, <2>4
  <1>7. CASE n > 0
    <2>1. PICK ids \in LowestFree(pool, n) :
            /\ pool' = ReuseAndReserve(pool, <<>>, ids, r)
            /\ allocations' = [allocations EXCEPT ![r] = @ \o <<>> \o ids]
      <3>1. ReserveTo(r, <<>>, Len(text))
        BY <1>1
      <3>2. n > 0 /\ ~(n <= 0)
        BY <1>5, <1>7
      <3> QED
        BY <3>1, <3>2, <1>4, ZenonT(60) DEF ReserveTo
    <2>2. Reserved(r, 0, <<>>, n, ids)
      <3>1. \A x \in Request, kk \in Nat, nn \in Nat :
            \A pl \in [1 .. kk -> BlockId] : \A ii \in LowestFree(pool, nn) :
              /\ TypeOK /\ Partition /\ RefCounts /\ SealedIndex /\ TableInjective
              /\ kk > 0 => allocations[x] = <<>>
              /\ \A i, j \in 1 .. kk : pl[i] = pl[j] => i = j
              /\ \A i \in 1 .. kk : IsSealed(pool, pl[i])
              /\ pool' = ReuseAndReserve(pool, pl, ii, x)
              /\ allocations' = [allocations EXCEPT ![x] = @ \o pl \o ii]
              => Reserved(x, kk, pl, nn, ii)
        BY ReserveStep, ZenonT(60)
      <3>2. 0 \in Nat /\ <<>> \in [1 .. 0 -> BlockId] /\ ~(0 > 0)
        OBVIOUS
      <3>3. /\ \A i, j \in 1 .. 0 : <<>>[i] = <<>>[j] => i = j
            /\ \A i \in 1 .. 0 : IsSealed(pool, <<>>[i])
        OBVIOUS
      <3> QED
        BY <3>1, <3>2, <3>3, <1>5, <2>1, ZenonT(60)
    <2>3. /\ pool' \in Pool
          /\ allocations' \in [Request -> Seq(BlockId)]
          /\ Partition' /\ RefCounts' /\ SealedIndex' /\ TableInjective'
          /\ \A b \in BlockId : pool'.state[b] =
                IF b \in Range(ids) THEN Writable(r) ELSE pool.state[b]
          /\ Range(ids) \subseteq pool.free
          /\ Len(allocations'[r]) = m + n
          /\ \A i \in 1 .. m : allocations'[r][i] = allocations[r][i]
          /\ \A i \in 1 .. n : allocations'[r][m + i] = ids[i]
      <3>1. m + 0 = m
        BY <1>1
      <3> QED
        BY <2>2, <3>1 DEF Reserved
    <2>4. \A q \in Request \ {r} : allocations'[q] = allocations[q]
      BY <2>1 DEF TypeOK
    <2>5. TypeOK'
      BY <1>1, <1>6, <2>3 DEF TypeOK
    <2>6. TableCoversTokens'
      BY <1>1, <1>5, <1>6, <2>3, <2>4 DEF TableCoversTokens
    <2>7. TableContents'
      <3> SUFFICES ASSUME NEW q \in Request, NEW i \in DOMAIN allocations'[q]
                   PROVE  pool'.state[allocations'[q][i]] =
                            IF i * BlockLen <= Len(written'[q])
                            THEN Sealed(PrefixHash(written'[q], i))
                            ELSE Writable(q)
        BY DEF TableContents
      <3>1. CASE q # r
        <4>1. allocations'[q] = allocations[q] /\ i \in DOMAIN allocations[q]
          BY <3>1, <2>4
        <4>2. pool'.state[allocations[q][i]] = pool.state[allocations[q][i]]
          BY <4>1, <2>3, ReserveOthers
        <4> QED
          BY <4>1, <4>2, <1>1 DEF TableContents
      <3>2. CASE q = r
        <4>1. i \in 1 .. m + n
          BY <3>2, <2>3
        <4>2. CASE i \in 1 .. m
          <5>1. allocations'[r][i] = allocations[r][i] /\ i \in DOMAIN allocations[r]
            BY <4>2, <2>3
          <5>2. pool'.state[allocations[r][i]] = pool.state[allocations[r][i]]
            BY <5>1, <2>3, ReserveOthers
          <5> QED
            BY <5>1, <5>2, <3>2, <1>1 DEF TableContents
        <4>3. CASE i - m \in 1 .. n
          <5>1. ~(i * BlockLen <= m * BlockLen)
            BY <4>1, <4>3, <1>1, BlockBound
          <5>2. ~(i * BlockLen <= W)
            <6>1. i * BlockLen \in Nat /\ m * BlockLen \in Nat
              BY <4>1, <1>1, <1>5, BlockLenAssumption
            <6> HIDE DEF m, W
            <6> QED
              BY <6>1, <5>1, <1>1, <1>3
          <5>3. allocations'[r][i] = ids[i - m]
            <6>1. allocations'[r][m + (i - m)] = ids[i - m]
              BY <4>3, <2>3
            <6>2. m + (i - m) = i
              BY <4>1, <1>1
            <6> QED
              BY <6>1, <6>2
          <5>4. ids[i - m] \in Range(ids) /\ ids[i - m] \in BlockId
            BY <4>3, <2>1, <2>3 DEF LowestFree, Range, TypeOK, Pool
          <5> QED
            BY <3>2, <5>2, <5>3, <5>4, <1>1, <2>3
        <4> QED
          BY <4>1, <4>2, <4>3, <1>1, <1>5
      <3> QED
        BY <3>1, <3>2
    <2> QED
      BY <2>3, <2>5, <2>6, <2>7
  <1>8. CASE n = 0
    <2>1. pool' = pool /\ allocations' = allocations
      BY <1>1, <1>4, <1>8 DEF ReserveTo
    <2>2. TypeOK'
      BY <1>1, <1>6, <2>1 DEF TypeOK
    <2>3. Partition' /\ RefCounts' /\ SealedIndex' /\ TableInjective' /\ TableContents'
      BY <1>1, <2>1 DEF Partition, RefCounts, SealedIndex, TableInjective, TableContents,
                        Holders, IsSealed
    <2>4. TableCoversTokens'
      <3>1. m = RequiredBlocks(Len(text))
        BY <1>1, <1>5, <1>8
      <3> QED
        BY <3>1, <1>1, <1>6, <2>1 DEF TableCoversTokens
    <2> QED
      BY <2>2, <2>3, <2>4
  <1> QED
    BY <1>5, <1>7, <1>8

\* A block in two tables has at least two references.
LEMMA SharedCount ==
  ASSUME RefCounts, NEW b \in BlockId,
         NEW r \in Request, NEW q \in Request, q # r,
         b \in Range(allocations[r]), b \in Range(allocations[q])
  PROVE  pool.ref_cnt[b] # 1
  <1>1. {r, q} \subseteq Holders(b) /\ IsFiniteSet(Holders(b))
    BY RequestAssumption, FS_Subset DEF Holders
  <1>2. Cardinality({r} \cup {q}) = Cardinality({r}) + 1 /\ Cardinality({r}) = 1
    BY FS_Singleton, FS_AddElement
  <1>3. {r} \cup {q} = {r, q}
    OBVIOUS
  <1>4. Cardinality({r, q}) <= Cardinality(Holders(b))
    BY <1>1, FS_Subset
  <1> QED
    BY <1>2, <1>3, <1>4 DEF RefCounts

\* Release of a request: the blocks it alone held are reset and freed.
LEMMA ReleaseStep ==
  ASSUME CacheInv, NEW r \in Request, Release(r)
  PROVE  CacheInv'
  <1> USE DEF CacheInv
  <1> DEFINE ids   == Range(allocations[r])
             freed == {b \in ids : pool.ref_cnt[b] = 1}
  <1>1. /\ pool' = ReleaseBlocks(pool, ids)
        /\ allocations' = [allocations EXCEPT ![r] = <<>>]
        /\ written'  = [written EXCEPT ![r] = <<>>]
        /\ inflight' = [inflight EXCEPT ![r] = <<>>]
    BY DEF Release, ReleaseAllocation
  <1>2. /\ ids \in SUBSET BlockId
        /\ \A b \in ids : pool.ref_cnt[b] >= 1 /\ b \in pool.allocated /\ b \notin pool.free
    BY HeldIsAllocated DEF Range, TypeOK
  <1>3. freed \subseteq ids
    OBVIOUS
  <1>4. /\ pool' \in Pool
        /\ pool'.free = pool.free \cup freed
        /\ pool'.allocated = pool.allocated \ freed
        /\ \A b \in BlockId : pool'.ref_cnt[b] =
              IF b \in ids THEN pool.ref_cnt[b] - 1 ELSE pool.ref_cnt[b]
        /\ \A b \in BlockId : pool'.state[b] =
              IF b \in freed THEN Writable(None) ELSE pool.state[b]
        /\ pool'.sealed =
              {e \in pool.sealed : \A b \in freed : IsSealed(pool, b) => e[1] # pool.state[b].hash}
    <2>1. pool \in Pool
      BY DEF TypeOK
    <2>2. freed = {b \in ids : pool.ref_cnt[b] = 1} /\ \A b \in ids : pool.ref_cnt[b] >= 1
      BY <1>2
    <2> HIDE DEF freed, ids
    <2>3. \A p \in Pool : \A x \in SUBSET BlockId : \A f :
            (\A b \in x : p.ref_cnt[b] >= 1) /\ f = {b \in x : p.ref_cnt[b] = 1}
              => Released(p, x, f, ReleaseBlocks(p, x))
      BY ReleaseFields
    <2>4. Released(pool, ids, freed, ReleaseBlocks(pool, ids))
      BY <1>2, <2>1, <2>2, <2>3, ZenonT(60)
    <2> QED
      BY <1>1, <2>4 DEF Released
  <1>5. \A b \in ids : b \in freed <=> pool.ref_cnt[b] = 1
    OBVIOUS
  <1> HIDE DEF freed
  <1>6. \A q \in Request \ {r} : /\ allocations'[q] = allocations[q]
                                 /\ written'[q] = written[q]
                                 /\ inflight'[q] = inflight[q]
    BY <1>1 DEF TypeOK
  <1>7. allocations'[r] = <<>> /\ written'[r] = <<>> /\ inflight'[r] = <<>>
    BY <1>1 DEF TypeOK
  <1>8. TypeOK'
    BY <1>1, <1>4 DEF TypeOK
  <1>9. Partition'
    <2>1. \A b \in BlockId : pool.ref_cnt[b] \in Nat
      BY DEF TypeOK, Pool
    <2>2. \A b \in BlockId : b \in pool'.free <=> pool'.ref_cnt[b] = 0
      BY <1>2, <1>3, <1>4, <1>5, <2>1 DEF Partition
    <2>3. /\ pool'.free \cap pool'.allocated = {}
          /\ pool'.free \cup pool'.allocated = BlockId
      BY <1>2, <1>3, <1>4 DEF Partition
    <2> QED
      BY <2>2, <2>3 DEF Partition
  <1>10. RefCounts'
    <2>1. <<>> \in Seq(BlockId) /\ Range(<<>>) = {}
      BY DEF Range
    <2>2. \A b \in BlockId :
            pool'.ref_cnt[b] =
              IF b \in Range(<<>>) /\ b \notin ids THEN pool.ref_cnt[b] + 1
              ELSE IF b \notin Range(<<>>) /\ b \in ids THEN pool.ref_cnt[b] - 1
              ELSE pool.ref_cnt[b]
      BY <1>4, <2>1
    <2> QED
      BY <1>1, <2>1, <2>2, RefCountsStep, ZenonT(60) DEF TypeOK
  <1>11. SealedIndex'
    <2>1. \A e \in pool.sealed : /\ e[2] \in BlockId
                                 /\ pool.state[e[2]].kind = "sealed"
                                 /\ pool.state[e[2]].hash = e[1]
                                 /\ pool.state[e[2]] = Sealed(e[1])
      <3>1. \A e \in pool.sealed : e[2] \in BlockId /\ pool.state[e[2]] = Sealed(e[1])
        BY DEF SealedIndex, TypeOK, Pool
      <3>2. \A h : Sealed(h).kind = "sealed" /\ Sealed(h).hash = h
        BY DEF Sealed
      <3> QED
        BY <3>1, <3>2
    <2>2. \A e \in pool'.sealed : e \in pool.sealed /\ e[2] \notin freed
      BY <1>4, <2>1 DEF IsSealed
    <2>3. \A e \in pool'.sealed : pool'.state[e[2]] = Sealed(e[1])
      BY <1>4, <2>1, <2>2
    <2>4. ASSUME NEW b \in BlockId, pool'.state[b].kind = "sealed"
          PROVE  <<pool'.state[b].hash, b>> \in pool'.sealed
      <3>1. b \notin freed /\ pool'.state[b] = pool.state[b]
        BY <1>4, <2>4 DEF Writable
      <3>2. <<pool.state[b].hash, b>> \in pool.sealed
        BY <2>4, <3>1 DEF SealedIndex, IsSealed
      <3>3. ASSUME NEW f \in freed, pool.state[f].kind = "sealed"
            PROVE  pool.state[b].hash # pool.state[f].hash
        <4>1. f \in BlockId /\ f # b
          BY <1>2, <1>3, <3>1
        <4>2. <<pool.state[f].hash, f>> \in pool.sealed
          BY <3>3, <4>1 DEF SealedIndex, IsSealed
        <4>3. \A x, y : /\ x \in pool.sealed /\ y \in pool.sealed /\ x[1] = y[1]
                        => x[2] = y[2]
          BY DEF SealedIndex
        <4> QED
          BY <3>2, <4>1, <4>2, <4>3
      <3> QED
        BY <1>4, <3>1, <3>2, <3>3 DEF IsSealed
    <2>5. \A e, f \in pool'.sealed : e[1] = f[1] => e[2] = f[2]
      BY <2>2 DEF SealedIndex
    <2>6. \A b \in pool'.free : pool'.state[b] = Writable(None)
      BY <1>2, <1>3, <1>4 DEF SealedIndex, TypeOK, Pool
    <2> QED
      BY <2>3, <2>4, <2>5, <2>6 DEF SealedIndex, IsSealed
  <1>12. TableInjective'
    BY <1>6, <1>7 DEF TableInjective, IsInjective
  <1>13. TableCoversTokens'
    <2>1. RequiredBlocks(0) = 0
      BY RequiredBlocksFacts
    <2>2. Len(allocations'[r]) = RequiredBlocks(Len(written'[r]) + Len(inflight'[r]))
      BY <1>7, <2>1
    <2> QED
      BY <1>6, <2>2 DEF TableCoversTokens
  <1>14. TableContents'
    <2> SUFFICES ASSUME NEW q \in Request, NEW i \in DOMAIN allocations'[q]
                 PROVE  pool'.state[allocations'[q][i]] =
                          IF i * BlockLen <= Len(written'[q])
                          THEN Sealed(PrefixHash(written'[q], i))
                          ELSE Writable(q)
      BY DEF TableContents
    <2>1. q # r
      BY <1>7
    <2>2. allocations'[q] = allocations[q] /\ written'[q] = written[q]
      BY <2>1, <1>6
    <2> DEFINE b == allocations[q][i]
    <2>3. b \in BlockId /\ b \in Range(allocations[q])
      BY <2>2, HeldIsAllocated DEF Range
    <2>4. b \notin freed
      BY <2>1, <2>3, <1>3, <1>5, SharedCount
    <2>5. pool'.state[b] = pool.state[b]
      BY <2>3, <2>4, <1>4
    <2> QED
      BY <2>2, <2>5 DEF TableContents
  <1> QED
    BY <1>8, <1>9, <1>10, <1>11, <1>12, <1>13, <1>14

-----------------------------------------------------------------------------
(* seal_blocks.                                                            *)

\* The pool p2 is the pool p after the blocks in the domain of hashes were
\* published, the blocks shared gained a reference and the blocks own lost
\* their only one.
Resealed(p, hashes, shared, own, p2) ==
  /\ p2 \in Pool
  /\ p2.free = p.free \cup own
  /\ p2.allocated = p.allocated \ own
  /\ \A b \in BlockId : p2.ref_cnt[b] = IF b \in own THEN p.ref_cnt[b] - 1
                                        ELSE IF b \in shared THEN p.ref_cnt[b] + 1
                                        ELSE p.ref_cnt[b]
  /\ \A b \in BlockId : p2.state[b] = IF b \in own THEN Writable(None)
                                      ELSE IF b \in DOMAIN hashes THEN Sealed(hashes[b])
                                      ELSE p.state[b]
  /\ p2.sealed = p.sealed \cup {<<hashes[b], b>> : b \in DOMAIN hashes}

\* The three pool changes of the seal_blocks loop, together.
LEMMA SealFields ==
  ASSUME NEW p \in Pool,
         NEW fresh \in SUBSET BlockId, NEW hashes \in [fresh -> Hash],
         NEW shared \in SUBSET (BlockId \ p.free),
         NEW own \in SUBSET BlockId,
         own \cap shared = {}, own \cap fresh = {},
         \A b \in own : p.ref_cnt[b] = 1 /\ ~IsSealed(p, b)
  PROVE  Resealed(p, hashes, shared, own,
                  ReleaseBlocks(RetainShared(Publish(p, hashes), shared), own))
  <1> DEFINE p1 == Publish(p, hashes)
             p2 == RetainShared(p1, shared)
  <1>1. /\ p1 \in Pool
        /\ p1.free = p.free /\ p1.allocated = p.allocated /\ p1.ref_cnt = p.ref_cnt
        /\ \A b \in BlockId : p1.state[b] = IF b \in fresh THEN Sealed(hashes[b]) ELSE p.state[b]
        /\ p1.sealed = p.sealed \cup {<<hashes[b], b>> : b \in fresh}
    BY DEF Publish, Pool, BlockState, Sealed
  <1> HIDE DEF p1
  <1>2. /\ p2 \in Pool
        /\ p2.free = p.free /\ p2.allocated = p.allocated
        /\ \A b \in BlockId : p2.ref_cnt[b] = p.ref_cnt[b] + IF b \in shared THEN 1 ELSE 0
        /\ p2.state = p1.state /\ p2.sealed = p1.sealed
    BY <1>1 DEF RetainShared, Pool
  <1> HIDE DEF p2
  <1>3. Released(p2, own, own, ReleaseBlocks(p2, own))
    <2>1. \A q \in Pool : \A x \in SUBSET BlockId : \A f :
            (\A b \in x : q.ref_cnt[b] >= 1) /\ f = {b \in x : q.ref_cnt[b] = 1}
              => Released(q, x, f, ReleaseBlocks(q, x))
      BY ReleaseFields
    <2>2. \A b \in own : p2.ref_cnt[b] = 1 /\ 1 >= 1
      BY <1>2 DEF Pool
    <2>3. own = {b \in own : p2.ref_cnt[b] = 1}
      BY <2>2
    <2> QED
      BY <1>2, <2>1, <2>2, <2>3
  <1>4. \A b \in own : ~IsSealed(p2, b)
    BY <1>1, <1>2 DEF IsSealed
  <1>5. \A b \in BlockId : p.ref_cnt[b] \in Nat
    BY DEF Pool
  <1>6. /\ \A b \in BlockId : b \in own => p2.ref_cnt[b] - 1 = p.ref_cnt[b] - 1
        /\ \A b \in BlockId : b \in shared => p2.ref_cnt[b] = p.ref_cnt[b] + 1
        /\ \A b \in BlockId : b \notin shared => p2.ref_cnt[b] = p.ref_cnt[b]
    BY <1>2, <1>5
  <1> QED
    <2> DEFINE p3 == ReleaseBlocks(p2, own)
    <2>1. Released(p2, own, own, p3)
      BY <1>3
    <2> HIDE DEF p3
    <2>2. /\ p3 \in Pool /\ p3.free = p.free \cup own /\ p3.allocated = p.allocated \ own
          /\ \A b \in BlockId : p3.state[b] = IF b \in own THEN Writable(None)
                                              ELSE IF b \in fresh THEN Sealed(hashes[b])
                                              ELSE p.state[b]
      BY <2>1, <1>1, <1>2 DEF Released
    <2>3. \A b \in BlockId : p3.ref_cnt[b] = IF b \in own THEN p.ref_cnt[b] - 1
                                              ELSE IF b \in shared THEN p.ref_cnt[b] + 1
                                              ELSE p.ref_cnt[b]
      BY <2>1, <1>6 DEF Released
    <2>4. p3.sealed = p.sealed \cup {<<hashes[b], b>> : b \in fresh}
      BY <2>1, <1>1, <1>2, <1>4 DEF Released
    <2>5. DOMAIN hashes = fresh
      OBVIOUS
    <2>6. Resealed(p, hashes, shared, own, p3)
      BY <2>2, <2>3, <2>4, <2>5 DEF Resealed
    <2> QED
      BY <2>6 DEF p3, p2, p1

\* The chain of hashes that seal_blocks continues gives every chunk the hash
\* of the whole prefix that ends with it.
LEMMA ChunkHashIsPrefix ==
  ASSUME CacheInv, NEW r \in Request,
         NEW text, text = written[r] \o inflight[r],
         NEW from, from = FullBlocks(Len(written[r])),
         NEW j \in Nat, from < j, j * BlockLen <= Len(text)
  PROVE  ChunkHash(r, text, from, j) = PrefixHash(text, j)
  <1> USE DEF CacheInv
  <1> DEFINE W  == Len(written[r])
             a  == from * BlockLen
             jb == j * BlockLen
  <1>1. /\ written[r] \in Seq(Token) /\ inflight[r] \in Seq(Token)
        /\ text \in Seq(Token) /\ W \in Nat /\ W <= Len(text)
        /\ SubSeq(text, 1, W) = written[r]
    BY DEF TypeOK
  <1>2. from \in Nat /\ a <= W
    BY <1>1, FullBlocksFacts
  <1>3. a \in Nat /\ jb \in Nat /\ a <= jb /\ jb <= Len(text) /\ a <= Len(text)
    <2>1. a \in Nat /\ jb \in Nat
      BY <1>2, BlockLenAssumption
    <2>2. from <= j
      BY <1>2
    <2>3. a <= jb
      BY <1>2, <2>2, BlockBound
    <2>4. Len(text) \in Nat
      BY <1>1, LenProperties, ZenonT(60)
    <2>5. jb <= Len(text)
      OBVIOUS
    <2>6. \A x, y, z \in Nat : x <= y /\ y <= z => x <= z
      OBVIOUS
    <2> HIDE DEF a, jb
    <2> QED
      BY <2>1, <2>3, <2>4, <2>5, <2>6, ZenonT(60)
  <1>4. CASE from = 0
    <2>1. a = 0
      BY <1>4, BlockLenAssumption
    <2>2. <<>> \o SubSeq(text, 1, jb) = SubSeq(text, 1, jb)
      <3> HIDE DEF jb
      <3> QED
        BY <1>1, <1>3
    <2>3. SubSeq(text, a + 1, jb) = SubSeq(text, 1, jb)
      <3>1. a + 1 = 1
        BY <2>1
      <3> HIDE DEF a, jb
      <3> QED
        BY <3>1
    <2> QED
      BY <1>4, <2>2, <2>3 DEF ChunkHash, PrefixHash
  <1>5. CASE from # 0
    <2>1. from \in DOMAIN allocations[r]
      <3> DEFINE len == W + Len(inflight[r])
                 q   == RequiredBlocks(len)
      <3>1. Len(allocations[r]) = q
        BY DEF TableCoversTokens
      <3>0. len \in Nat /\ W <= len
        <4>1. Len(inflight[r]) \in Nat
          BY <1>1
        <4> HIDE DEF W
        <4> QED
          BY <4>1, <1>1
      <3>2. q \in Nat /\ len <= q * BlockLen
        BY <3>0, RequiredBlocksFacts
      <3>3. a <= len
        <4> HIDE DEF len, W, a
        <4> QED
          BY <3>0, <1>1, <1>2, <1>3
      <3> HIDE DEF len, q
      <3>4. from * BlockLen <= q * BlockLen
        BY <3>0, <3>2, <3>3, <1>3, BlockLenAssumption
      <3>5. from <= q
        BY <3>2, <3>4, <1>2, BlockBound
      <3> QED
        BY <3>1, <3>2, <3>5, <1>2, <1>5 DEF TypeOK
    <2>2. pool.state[allocations[r][from]] = Sealed(PrefixHash(written[r], from))
      BY <1>2, <2>1 DEF TableContents
    <2>3. PrefixHash(written[r], from) = SubSeq(text, 1, a)
      <3>1. PrefixHash(SubSeq(text, 1, W), from) = PrefixHash(text, from)
        <4>1. \A n \in Nat : a <= n /\ n <= Len(text)
                => PrefixHash(SubSeq(text, 1, n), from) = PrefixHash(text, from)
          <5>1. a <= Len(text)
            BY <1>1, <1>2, <1>3, LenProperties, ZenonT(60)
          <5>2. \A t \in Seq(Token) : from * BlockLen <= Len(t) =>
                  \A n \in Nat : from * BlockLen <= n /\ n <= Len(t)
                    => PrefixHash(SubSeq(t, 1, n), from) = PrefixHash(t, from)
            BY <1>2, PrefixHashFacts
          <5> QED
            BY <5>1, <5>2, <1>1, ZenonT(60)
        <4> HIDE DEF W
        <4> QED
          BY <4>1, <1>1, <1>2
      <3> QED
        BY <3>1, <1>1 DEF PrefixHash
    <2>4. SubSeq(text, 1, a) \o SubSeq(text, a + 1, jb) = SubSeq(text, 1, jb)
      <3>1. \A x, y \in Nat : x <= y /\ y <= Len(text) =>
              SubSeq(text, 1, x) \o SubSeq(text, x + 1, y) = SubSeq(text, 1, y)
        BY <1>1, SubSeqConcat
      <3> HIDE DEF a, jb
      <3> QED
        BY <3>1, <1>3
    <2>5. pool.state[allocations[r][from]].hash = SubSeq(text, 1, a)
      <3>1. \A x : Sealed(x).hash = x
        BY DEF Sealed
      <3> QED
        BY <3>1, <2>2, <2>3
    <2> QED
      BY <1>5, <2>4, <2>5 DEF ChunkHash, PrefixHash
  <1> QED
    BY <1>4, <1>5

\* A block that is writable by a request is in that request's table only, and
\* once.
LEMMA WritableIsPrivate ==
  ASSUME CacheInv, NEW r \in Request, NEW j \in DOMAIN allocations[r],
         pool.state[allocations[r][j]] = Writable(r)
  PROVE  /\ Holders(allocations[r][j]) = {r}
         /\ pool.ref_cnt[allocations[r][j]] = 1
         /\ ~IsSealed(pool, allocations[r][j])
  <1> USE DEF CacheInv
  <1> DEFINE b == allocations[r][j]
  <1>1. b \in BlockId /\ b \in Range(allocations[r])
    BY HeldIsAllocated DEF Range
  <1>2. ASSUME NEW q \in Request, b \in Range(allocations[q]) PROVE q = r
    <2>1. PICK i \in DOMAIN allocations[q] : allocations[q][i] = b
      BY <1>2 DEF Range
    <2>2. pool.state[b] = Writable(q) \/ \E h : pool.state[b] = Sealed(h)
      BY <2>1 DEF TableContents
    <2>3. \A h : Sealed(h).kind = "sealed" /\ Writable(r).kind = "writable"
                 /\ Writable(r).writer = r /\ Writable(q).writer = q
      BY DEF Sealed, Writable
    <2> QED
      BY <2>2, <2>3
  <1>3. Holders(b) = {r}
    BY <1>1, <1>2 DEF Holders
  <1>4. pool.ref_cnt[b] = 1
    BY <1>1, <1>3, SoleHolderCount
  <1>5. ~IsSealed(pool, b)
    BY DEF IsSealed, Writable
  <1> QED
    BY <1>3, <1>4, <1>5

\* The chunks a commit seals: their blocks are still private, and their hashes
\* are the prefixes of the text that end with them.
LEMMA CommitChunks ==
  ASSUME CacheInv, NEW r \in Request,
         NEW text, text = written[r] \o inflight[r],
         NEW from, from = FullBlocks(Len(written[r])),
         NEW j \in from + 1 .. FullBlocks(Len(text))
  PROVE  /\ j \in Nat /\ j > 0
         /\ j \in DOMAIN allocations[r]
         /\ j * BlockLen <= Len(text)
         /\ ~(j * BlockLen <= Len(written[r]))
         /\ pool.state[allocations[r][j]] = Writable(r)
         /\ ChunkHash(r, text, from, j) = PrefixHash(text, j)
  <1> USE DEF CacheInv
  <1>1. /\ written[r] \in Seq(Token) /\ inflight[r] \in Seq(Token)
        /\ text \in Seq(Token)
        /\ Len(written[r]) \in Nat /\ Len(text) \in Nat
        /\ Len(text) = Len(written[r]) + Len(inflight[r])
    BY DEF TypeOK
  <1> DEFINE W  == Len(written[r])
             L  == Len(text)
             to == FullBlocks(L)
             q  == RequiredBlocks(L)
  <1>2. from \in Nat /\ W < (from + 1) * BlockLen
    BY <1>1, FullBlocksFacts
  <1>3. to \in Nat /\ to * BlockLen <= L
    BY <1>1, FullBlocksFacts
  <1>4. q \in Nat /\ L <= q * BlockLen /\ Len(allocations[r]) = q
    <2>1. q \in Nat /\ L <= q * BlockLen
      BY <1>1, RequiredBlocksFacts
    <2>2. Len(allocations[r]) = RequiredBlocks(Len(written[r]) + Len(inflight[r]))
      BY DEF TableCoversTokens
    <2> QED
      BY <1>1, <2>1, <2>2
  <1>5. W \in Nat /\ L \in Nat
    BY <1>1
  <1>6. j \in from + 1 .. to
    OBVIOUS
  <1> HIDE DEF W, L, to, q
  <1>7. /\ j \in Nat /\ from + 1 \in Nat /\ j > 0 /\ from < j
        /\ from + 1 <= j /\ j <= to
        /\ j * BlockLen \in Nat /\ to * BlockLen \in Nat /\ q * BlockLen \in Nat
        /\ (from + 1) * BlockLen \in Nat
    BY <1>2, <1>3, <1>4, <1>6, BlockLenAssumption
  <1>8. j * BlockLen <= to * BlockLen /\ (from + 1) * BlockLen <= j * BlockLen
    BY <1>3, <1>7, BlockBound
  <1>9. j * BlockLen <= L /\ ~(j * BlockLen <= W) /\ j * BlockLen <= q * BlockLen
    BY <1>2, <1>3, <1>4, <1>5, <1>7, <1>8
  <1>10. j <= q
    BY <1>4, <1>7, <1>9, BlockBound
  <1>11. j \in DOMAIN allocations[r]
    BY <1>4, <1>7, <1>10 DEF TypeOK
  <1>12. pool.state[allocations[r][j]] = Writable(r)
    BY <1>9, <1>11 DEF TableContents, W
  <1>13. ChunkHash(r, text, from, j) = PrefixHash(text, j)
    BY <1>7, <1>9, ChunkHashIsPrefix DEF L
  <1> QED
    BY <1>7, <1>9, <1>11, <1>12, <1>13 DEF W, L

\* A commit: each completed block is published under the prefix it holds, or
\* given up for the block that holds that prefix already.
LEMMA CommitStep ==
  ASSUME CacheInv, NEW r \in Request, Commit(r)
  PROVE  CacheInv'
  <1> USE DEF CacheInv
  <1> DEFINE table  == allocations[r]
             text   == written[r] \o inflight[r]
             from   == FullBlocks(Len(written[r]))
             chunks == from + 1 .. FullBlocks(Len(text))
             hash   == [j \in chunks |-> ChunkHash(r, text, from, j)]
             dups   == {j \in chunks : HasSealed(pool, hash[j])}
             own    == {table[j] : j \in dups}
             shared == {SealedBlock(pool, hash[j]) : j \in dups}
             fresh  == {table[j] : j \in chunks \ dups}
             hashes == [b \in fresh |-> hash[IndexOf(table, b)]]
             new    == [i \in DOMAIN table |-> IF i \in dups THEN SealedBlock(pool, hash[i])
                                                             ELSE table[i]]
  <1>1. /\ pool' = ReleaseBlocks(RetainShared(Publish(pool, hashes), shared), own)
        /\ allocations' = [allocations EXCEPT ![r] = new]
        /\ written' = [written EXCEPT ![r] = text]
        /\ inflight' = [inflight EXCEPT ![r] = <<>>]
    BY DEF Commit, SealBlocks
  <1>2. /\ table \in Seq(BlockId) /\ text \in Seq(Token) /\ Len(text) \in Nat
        /\ written[r] \in Seq(Token) /\ Len(written[r]) \in Nat
        /\ Len(written[r]) <= Len(text)
        /\ SubSeq(text, 1, Len(written[r])) = written[r]
        /\ Len(text) = Len(written[r]) + Len(inflight[r])
    BY DEF TypeOK
  <1>3. ASSUME NEW j \in chunks
        PROVE  /\ j \in Nat /\ j \in DOMAIN table
               /\ j * BlockLen <= Len(text) /\ ~(j * BlockLen <= Len(written[r]))
               /\ pool.state[table[j]] = Writable(r)
               /\ hash[j] = PrefixHash(text, j)
    BY CommitChunks, ZenonT(60)
  <1>4. \A i, j \in DOMAIN table : table[i] = table[j] => i = j
    BY DEF TableInjective, IsInjective
  <1>5. \A i, j \in chunks : hash[i] = hash[j] => i = j
    BY <1>2, <1>3, PrefixHashInjective, ZenonT(60)
  <1>6. dups \subseteq chunks /\ \A j \in chunks : j \in dups <=> HasSealed(pool, hash[j])
    OBVIOUS
  <1>7. \A b : /\ b \in own <=> \E j \in dups : b = table[j]
               /\ b \in shared <=> \E j \in dups : b = SealedBlock(pool, hash[j])
               /\ b \in fresh <=> \E j \in chunks \ dups : b = table[j]
    OBVIOUS
  <1>8. \A j \in chunks : hash[j] \in Hash
    BY <1>2, <1>3, PrefixHashFacts DEF Hash
  <1>9. DOMAIN hashes = fresh /\ \A j \in chunks \ dups : hashes[table[j]] = hash[j]
    <2>1. ASSUME NEW j \in chunks \ dups PROVE IndexOf(table, table[j]) = j
      BY <1>3, <1>4 DEF IndexOf
    <2> QED
      BY <2>1
  <1>10. hashes \in [fresh -> Hash]
    <2>1. ASSUME NEW b \in fresh PROVE hashes[b] \in Hash
      <3>1. PICK j \in chunks \ dups : b = table[j]
        BY <1>7
      <3>2. hashes[b] = hash[j] /\ j \in chunks
        BY <3>1, <1>9
      <3> HIDE DEF hashes, hash, chunks, dups
      <3> QED
        BY <3>2, <1>8
    <2>2. hashes = [b \in fresh |-> hashes[b]]
      <3> HIDE DEF hash, fresh, chunks, dups, own, shared, table, text
      <3> QED
        OBVIOUS
    <2> HIDE DEF hashes
    <2> QED
      BY <2>1, <2>2
  <1>11. /\ DOMAIN new = DOMAIN table
         /\ \A i \in DOMAIN table : new[i] = IF i \in dups THEN SealedBlock(pool, hash[i])
                                                           ELSE table[i]
    OBVIOUS
  <1> HIDE DEF chunks, hash, dups, own, shared, fresh, hashes, new
  <1>12. ASSUME NEW j \in dups
         PROVE  /\ SealedBlock(pool, hash[j]) \in BlockId
                /\ pool.state[SealedBlock(pool, hash[j])] = Sealed(hash[j])
                /\ IsSealed(pool, SealedBlock(pool, hash[j]))
                /\ SealedBlock(pool, hash[j]) \notin pool.free
    BY <1>6, SealedBlockFacts
  <1>13. ASSUME NEW j \in chunks
         PROVE  /\ table[j] \in BlockId /\ table[j] \in Range(table)
                /\ Holders(table[j]) = {r}
                /\ pool.ref_cnt[table[j]] = 1
                /\ ~IsSealed(pool, table[j])
                /\ table[j] \in pool.allocated /\ table[j] \notin pool.free
    <2>1. j \in DOMAIN allocations[r] /\ pool.state[allocations[r][j]] = Writable(r)
      BY <1>3
    <2> QED
      BY <2>1, WritableIsPrivate, HeldIsAllocated DEF Range
  <1>14. own \cap shared = {} /\ own \cap fresh = {} /\ shared \cap fresh = {}
    <2>1. \A b \in own \cup fresh : ~IsSealed(pool, b)
      BY <1>6, <1>7, <1>13
    <2>2. \A b \in shared : IsSealed(pool, b)
      BY <1>7, <1>12
    <2>3. \A i, j \in chunks : table[i] = table[j] => i = j
      BY <1>3, <1>4
    <2>4. own \cap fresh = {}
      BY <2>3, <1>6, <1>7
    <2> QED
      BY <2>1, <2>2, <2>4
  <1>15. shared \cap Range(table) = {}
    <2> SUFFICES ASSUME NEW j \in dups, NEW i \in DOMAIN table,
                        SealedBlock(pool, hash[j]) = table[i]
                 PROVE  FALSE
      BY <1>7 DEF Range
    <2>1. pool.state[table[i]] = Sealed(hash[j]) /\ hash[j] = PrefixHash(text, j)
      BY <1>3, <1>6, <1>12
    <2>2. pool.state[table[i]] = IF i * BlockLen <= Len(written[r])
                                 THEN Sealed(PrefixHash(written[r], i)) ELSE Writable(r)
      BY DEF TableContents
    <2>3. \A g, h : /\ Sealed(g) = Sealed(h) => g = h
                    /\ Sealed(g) # Writable(r)
      <3>1. \A g : Sealed(g).hash = g /\ Sealed(g).kind = "sealed"
                   /\ Writable(r).kind = "writable"
        BY DEF Sealed, Writable
      <3> QED
        BY <3>1
    <2>4. i * BlockLen <= Len(written[r]) /\ PrefixHash(written[r], i) = PrefixHash(text, j)
      BY <2>1, <2>2, <2>3
    <2>5. i \in Nat /\ j \in Nat /\ j * BlockLen <= Len(text)
          /\ ~(j * BlockLen <= Len(written[r]))
      <3>1. i \in Nat
        BY <1>2
      <3>2. j \in chunks
        BY <1>6
      <3> QED
        BY <3>1, <3>2, <1>3
    <2>6. i = j
      BY <2>4, <2>5, <1>2, PrefixHashInjective
    <2> QED
      BY <2>4, <2>5, <2>6
  <1>16. Resealed(pool, hashes, shared, own, pool')
    <2>1. \A p \in Pool : \A f \in SUBSET BlockId : \A h \in [f -> Hash] :
          \A s \in SUBSET (BlockId \ p.free) : \A o \in SUBSET BlockId :
            /\ o \cap s = {} /\ o \cap f = {}
            /\ \A b \in o : p.ref_cnt[b] = 1 /\ ~IsSealed(p, b)
            => Resealed(p, h, s, o, ReleaseBlocks(RetainShared(Publish(p, h), s), o))
      BY SealFields
    <2>2. pool \in Pool
      BY DEF TypeOK
    <2>3. fresh \in SUBSET BlockId /\ own \in SUBSET BlockId
      BY <1>6, <1>7, <1>13
    <2>4. shared \in SUBSET (BlockId \ pool.free)
      BY <1>7, <1>12
    <2>5. \A b \in own : pool.ref_cnt[b] = 1 /\ ~IsSealed(pool, b)
      BY <1>6, <1>7, <1>13
    <2> QED
      BY <2>1, <2>2, <2>3, <2>4, <2>5, <1>1, <1>10, <1>14, ZenonT(60)
  <1>17. /\ pool' \in Pool
         /\ pool'.free = pool.free \cup own
         /\ pool'.allocated = pool.allocated \ own
         /\ \A b \in BlockId : pool'.ref_cnt[b] = IF b \in own THEN pool.ref_cnt[b] - 1
                                                  ELSE IF b \in shared THEN pool.ref_cnt[b] + 1
                                                  ELSE pool.ref_cnt[b]
         /\ \A b \in BlockId : pool'.state[b] = IF b \in own THEN Writable(None)
                                                ELSE IF b \in fresh THEN Sealed(hashes[b])
                                                ELSE pool.state[b]
         /\ pool'.sealed = pool.sealed \cup {<<hashes[b], b>> : b \in fresh}
    BY <1>9, <1>16 DEF Resealed
  <1>18. \A q \in Request \ {r} : /\ allocations'[q] = allocations[q]
                                  /\ written'[q] = written[q]
                                  /\ inflight'[q] = inflight[q]
    BY <1>1 DEF TypeOK
  <1>19. allocations'[r] = new /\ written'[r] = text /\ inflight'[r] = <<>>
    BY <1>1 DEF TypeOK
  <1>20. new \in Seq(BlockId) /\ Len(new) = Len(table)
    <2>1. \A i \in DOMAIN table : new[i] \in BlockId
      BY <1>2, <1>11, <1>12
    <2>2. DOMAIN new = 1 .. Len(table)
      BY <1>2, <1>11
    <2>3. new = [i \in 1 .. Len(table) |-> new[i]]
      BY <2>2 DEF new
    <2>4. \A i \in 1 .. Len(table) : new[i] \in BlockId
      BY <2>1, <1>2
    <2>5. \A n \in Nat : \A f \in [1 .. n -> BlockId] : f \in Seq(BlockId) /\ Len(f) = n
      OBVIOUS
    <2>6. Len(table) \in Nat
      BY <1>2, LenProperties, ZenonT(60)
    <2>7. new \in [1 .. Len(table) -> BlockId]
      <3> HIDE DEF table
      <3> QED
        BY <2>3, <2>4
    <2> QED
      BY <2>5, <2>6, <2>7, ZenonT(60)
  <1> HIDE DEF table, text, from
  <1>21. Range(new) = (Range(table) \ own) \cup shared
    <2>1. ASSUME NEW x \in Range(new) PROVE x \in (Range(table) \ own) \cup shared
      <3>1. PICK i \in DOMAIN table : x = new[i]
        BY <1>11 DEF Range
      <3>2. CASE i \in dups
        BY <3>1, <3>2, <1>7, <1>11
      <3>3. CASE i \notin dups
        <4>1. x = table[i] /\ x \in Range(table)
          BY <3>1, <3>3, <1>11 DEF Range
        <4>2. x \notin own
          BY <4>1, <3>3, <1>3, <1>4, <1>6, <1>7 DEF table
        <4> QED
          BY <4>1, <4>2
      <3> QED
        BY <3>2, <3>3
    <2>2. ASSUME NEW x \in Range(table), x \notin own PROVE x \in Range(new)
      <3>1. PICK i \in DOMAIN table : x = table[i]
        BY DEF Range
      <3>2. i \notin dups
        BY <3>1, <2>2, <1>7
      <3> QED
        BY <3>1, <3>2, <1>11 DEF Range
    <2>3. ASSUME NEW x \in shared PROVE x \in Range(new)
      <3>1. PICK j \in dups : x = SealedBlock(pool, hash[j])
        BY <1>7
      <3>2. j \in DOMAIN table
        BY <1>3, <1>6
      <3> QED
        BY <3>1, <3>2, <1>11 DEF Range
    <2> QED
      BY <2>1, <2>2, <2>3
  <1>22. own \subseteq Range(table)
    BY <1>6, <1>7, <1>13
  <1>23. TypeOK'
    BY <1>1, <1>2, <1>17, <1>20 DEF TypeOK
  <1>24. \A b \in own : b \in BlockId /\ pool.ref_cnt[b] = 1 /\ b \in pool.allocated
                        /\ b \notin pool.free
    BY <1>6, <1>7, <1>13
  <1>25. \A b \in shared : b \in BlockId /\ b \notin pool.free
    BY <1>7, <1>12
  <1>26. Partition'
    <2>1. \A b \in BlockId : pool.ref_cnt[b] \in Nat
      BY DEF TypeOK, Pool
    <2>2. \A b \in BlockId : b \in pool'.free <=> pool'.ref_cnt[b] = 0
      <3> SUFFICES ASSUME NEW b \in BlockId
                   PROVE  b \in pool'.free <=> pool'.ref_cnt[b] = 0
        OBVIOUS
      <3>1. CASE b \in own
        BY <3>1, <1>17, <1>24
      <3>2. CASE b \notin own /\ b \in shared
        <4>1. pool'.ref_cnt[b] = pool.ref_cnt[b] + 1 /\ pool.ref_cnt[b] \in Nat
          BY <3>2, <2>1, <1>17
        <4>2. b \notin pool'.free
          BY <3>2, <1>17, <1>25
        <4> QED
          BY <4>1, <4>2
      <3>3. CASE b \notin own /\ b \notin shared
        BY <3>3, <1>17 DEF Partition
      <3> QED
        BY <3>1, <3>2, <3>3
    <2>3. /\ pool'.free \cap pool'.allocated = {}
          /\ pool'.free \cup pool'.allocated = BlockId
      BY <1>17, <1>24 DEF Partition
    <2> QED
      BY <2>2, <2>3 DEF Partition
  <1>27. RefCounts'
    <2>1. \A b \in BlockId :
            pool'.ref_cnt[b] =
              IF b \in Range(new) /\ b \notin Range(allocations[r]) THEN pool.ref_cnt[b] + 1
              ELSE IF b \notin Range(new) /\ b \in Range(allocations[r])
              THEN pool.ref_cnt[b] - 1
              ELSE pool.ref_cnt[b]
      <3> SUFFICES ASSUME NEW b \in BlockId
                   PROVE  pool'.ref_cnt[b] =
                     IF b \in Range(new) /\ b \notin Range(table) THEN pool.ref_cnt[b] + 1
                     ELSE IF b \notin Range(new) /\ b \in Range(table)
                     THEN pool.ref_cnt[b] - 1
                     ELSE pool.ref_cnt[b]
        BY DEF table
      <3> QED
        BY <1>14, <1>15, <1>17, <1>21, <1>22
    <2> QED
      BY <1>1, <1>20, <2>1, RefCountsStep, ZenonT(60) DEF TypeOK
  <1>28. SealedIndex'
    <2>1. \A e \in pool.sealed : /\ e[2] \in BlockId
                                 /\ IsSealed(pool, e[2])
                                 /\ pool.state[e[2]] = Sealed(e[1])
                                 /\ HasSealed(pool, e[1])
      <3>1. \A e \in pool.sealed : /\ e = <<e[1], e[2]>> /\ e[2] \in BlockId
                                   /\ pool.state[e[2]] = Sealed(e[1])
        BY DEF SealedIndex, TypeOK, Pool
      <3>2. \A h : Sealed(h).kind = "sealed"
        BY DEF Sealed
      <3> QED
        BY <3>1, <3>2 DEF IsSealed, HasSealed
    <2>2. \A b \in own \cup fresh : ~IsSealed(pool, b) /\ b \in BlockId
      BY <1>6, <1>7, <1>13
    <2>3. ASSUME NEW b \in fresh
          PROVE  /\ \E j \in chunks \ dups : b = table[j] /\ hashes[b] = hash[j]
                 /\ ~HasSealed(pool, hashes[b])
                 /\ pool'.state[b] = Sealed(hashes[b])
                 /\ <<hashes[b], b>> \in pool'.sealed
      <3>1. PICK j \in chunks \ dups : b = table[j]
        BY <1>7
      <3>2. hashes[b] = hash[j] /\ ~HasSealed(pool, hash[j])
        BY <3>1, <1>6, <1>9
      <3>3. pool'.state[b] = Sealed(hashes[b])
        BY <2>2, <1>14, <1>17
      <3> QED
        BY <3>1, <3>2, <3>3, <1>17
    <2>4. \A e \in pool'.sealed : \/ e \in pool.sealed
                                  \/ \E b \in fresh : e = <<hashes[b], b>>
      BY <1>17
    <2>5. ASSUME NEW e \in pool'.sealed PROVE pool'.state[e[2]] = Sealed(e[1])
      <3>1. CASE e \in pool.sealed
        <4>1. e[2] \notin own \cup fresh /\ e[2] \in BlockId
          BY <3>1, <2>1, <2>2
        <4> QED
          BY <4>1, <3>1, <2>1, <1>17
      <3>2. CASE \E b \in fresh : e = <<hashes[b], b>>
        BY <3>2, <2>3
      <3> QED
        BY <3>1, <3>2, <2>4
    <2>6. ASSUME NEW b \in BlockId, IsSealed(pool', b)
          PROVE  <<pool'.state[b].hash, b>> \in pool'.sealed
      <3>1. CASE b \in fresh
        <4>1. pool'.state[b].hash = hashes[b]
          <5>1. \A h : Sealed(h).hash = h
            BY DEF Sealed
          <5> QED
            BY <3>1, <2>3, <5>1
        <4> QED
          BY <3>1, <4>1, <2>3
      <3>2. CASE b \notin fresh
        <4>1. b \notin own
          BY <2>6, <1>17 DEF IsSealed, Writable
        <4>2. pool'.state[b] = pool.state[b]
          BY <3>2, <4>1, <1>17
        <4>3. <<pool.state[b].hash, b>> \in pool.sealed
          BY <2>6, <4>2 DEF SealedIndex, IsSealed
        <4> QED
          BY <4>2, <4>3, <1>17
      <3> QED
        BY <3>1, <3>2
    <2>7. ASSUME NEW e \in pool'.sealed, NEW f \in pool'.sealed, e[1] = f[1]
          PROVE  e[2] = f[2]
      <3>1. CASE e \in pool.sealed /\ f \in pool.sealed
        BY <3>1, <2>7 DEF SealedIndex
      <3>2. ASSUME NEW b \in fresh, f = <<hashes[b], b>> PROVE e \notin pool.sealed
        <4>1. f[1] = hashes[b]
          BY <3>2
        <4>2. e[1] = hashes[b]
          BY <4>1, <2>7
        <4>3. ~HasSealed(pool, hashes[b])
          BY <2>3
        <4> QED
          BY <4>2, <4>3, <2>1
      <3>3. ASSUME NEW b \in fresh, e = <<hashes[b], b>> PROVE f \notin pool.sealed
        <4>1. e[1] = hashes[b]
          BY <3>3
        <4>2. f[1] = hashes[b]
          BY <4>1, <2>7
        <4>3. ~HasSealed(pool, hashes[b])
          BY <2>3
        <4> QED
          BY <4>2, <4>3, <2>1
      <3>4. ASSUME NEW b \in fresh, NEW c \in fresh,
                   e = <<hashes[b], b>>, f = <<hashes[c], c>>
            PROVE  e[2] = f[2]
        <4>1. hashes[b] = hashes[c]
          BY <3>4, <2>7
        <4>2. PICK i \in chunks \ dups : b = table[i] /\ hashes[b] = hash[i]
          BY <2>3
        <4>3. PICK j \in chunks \ dups : c = table[j] /\ hashes[c] = hash[j]
          BY <2>3
        <4>4. i = j
          BY <4>1, <4>2, <4>3, <1>5
        <4> QED
          BY <4>2, <4>3, <4>4, <3>4
      <3> QED
        BY <3>1, <3>2, <3>3, <3>4, <2>4
    <2>8. ASSUME NEW b \in pool'.free PROVE pool'.state[b] = Writable(None)
      <3>1. CASE b \in own
        BY <3>1, <1>17, <1>24
      <3>2. CASE b \notin own
        <4>1. b \in pool.free /\ b \in BlockId
          BY <3>2, <1>17 DEF TypeOK, Pool
        <4>2. b \notin fresh
          BY <4>1, <1>7, <1>13
        <4> QED
          BY <3>2, <4>1, <4>2, <1>17 DEF SealedIndex
      <3> QED
        BY <3>1, <3>2
    <2> QED
      BY <2>5, <2>6, <2>7, <2>8 DEF SealedIndex
  <1>29. TableInjective'
    <2>1. ASSUME NEW i \in DOMAIN new, NEW j \in DOMAIN new, new[i] = new[j]
          PROVE  i = j
      <3>1. CASE i \in dups /\ j \in dups
        <4>1. Sealed(hash[i]) = Sealed(hash[j])
          BY <3>1, <2>1, <1>11, <1>12
        <4>2. hash[i] = hash[j]
          <5>1. \A h : Sealed(h).hash = h
            BY DEF Sealed
          <5> QED
            BY <4>1, <5>1
        <4> QED
          BY <4>2, <3>1, <1>5, <1>6
      <3>2. CASE i \in dups /\ j \notin dups
        <4>1. new[i] \in shared /\ new[j] \in Range(table)
          BY <3>2, <1>7, <1>11 DEF Range
        <4> QED
          BY <4>1, <2>1, <1>15
      <3>3. CASE i \notin dups /\ j \in dups
        <4>1. new[j] \in shared /\ new[i] \in Range(table)
          BY <3>3, <1>7, <1>11 DEF Range
        <4> QED
          BY <4>1, <2>1, <1>15
      <3>4. CASE i \notin dups /\ j \notin dups
        BY <3>4, <2>1, <1>4, <1>11 DEF table
      <3> QED
        BY <3>1, <3>2, <3>3, <3>4
    <2>2. IsInjective(new)
      BY <2>1 DEF IsInjective
    <2> SUFFICES ASSUME NEW q \in Request PROVE IsInjective(allocations'[q])
      BY DEF TableInjective, IsInjective
    <2>3. CASE q = r
      BY <2>2, <2>3, <1>19
    <2>4. CASE q # r
      BY <2>4, <1>18 DEF TableInjective, IsInjective
    <2> QED
      BY <2>3, <2>4
  <1>30. TableCoversTokens'
    <2>1. Len(allocations'[r]) = RequiredBlocks(Len(written'[r]) + Len(inflight'[r]))
      <3>1. Len(new) = RequiredBlocks(Len(text))
        BY <1>2, <1>20 DEF TableCoversTokens, table
      <3>2. Len(text) + Len(<<>>) = Len(text)
        BY <1>2
      <3> QED
        BY <3>1, <3>2, <1>19
    <2> QED
      BY <2>1, <1>18 DEF TableCoversTokens
  <1>31. ASSUME NEW i \in DOMAIN table, i \notin chunks, i * BlockLen <= Len(text)
         PROVE  /\ i \in Nat /\ i * BlockLen <= Len(written[r])
                /\ PrefixHash(written[r], i) = PrefixHash(text, i)
    <2>1. i \in Nat /\ i > 0
      BY <1>2
    <2> DEFINE W == Len(written[r])
               L == Len(text)
               to == FullBlocks(L)
    <2>2. from \in Nat /\ from * BlockLen <= W /\ to \in Nat /\ L < (to + 1) * BlockLen
      BY <1>2, FullBlocksFacts DEF from
    <2>3. W \in Nat /\ L \in Nat /\ W <= L
      BY <1>2
    <2>4. ~(i \in from + 1 .. to) /\ i * BlockLen <= L
      BY <1>31 DEF chunks
    <2> HIDE DEF W, L, to
    <2>5. i <= to
      <3> SUFFICES ASSUME to + 1 <= i PROVE FALSE
        BY <2>1, <2>2
      <3>1. (to + 1) * BlockLen <= i * BlockLen
        BY <2>1, <2>2, BlockBound
      <3> QED
        BY <3>1, <2>1, <2>2, <2>3, <2>4, BlockLenAssumption
    <2>6. i <= from
      BY <2>1, <2>2, <2>4, <2>5
    <2>7. i * BlockLen <= from * BlockLen
      BY <2>1, <2>2, <2>6, BlockBound
    <2>8. i * BlockLen <= W
      BY <2>1, <2>2, <2>3, <2>7, BlockLenAssumption
    <2>9. PrefixHash(SubSeq(text, 1, W), i) = PrefixHash(text, i)
      <3>1. \A t \in Seq(Token) : i * BlockLen <= Len(t) =>
              \A n \in Nat : i * BlockLen <= n /\ n <= Len(t)
                => PrefixHash(SubSeq(t, 1, n), i) = PrefixHash(t, i)
        BY <2>1, PrefixHashFacts
      <3> QED
        BY <3>1, <1>2, <2>3, <2>4, <2>8 DEF L
    <2> QED
      BY <2>1, <2>8, <2>9, <1>2 DEF W
  <1>32. TableContents'
    <2> SUFFICES ASSUME NEW q \in Request, NEW i \in DOMAIN allocations'[q]
                 PROVE  pool'.state[allocations'[q][i]] =
                          IF i * BlockLen <= Len(written'[q])
                          THEN Sealed(PrefixHash(written'[q], i))
                          ELSE Writable(q)
      BY DEF TableContents
    <2>1. CASE q # r
      <3> DEFINE b == allocations[q][i]
      <3>1. allocations'[q] = allocations[q] /\ written'[q] = written[q]
        BY <2>1, <1>18
      <3>2. b \in BlockId /\ q \in Holders(b)
        BY <3>1, HeldIsAllocated DEF Holders, Range
      <3>3. b \notin own /\ b \notin fresh
        <4>1. ASSUME NEW x \in own \cup fresh PROVE Holders(x) = {r}
          <5>1. PICK j \in chunks : x = table[j]
            BY <1>6, <1>7
          <5> QED
            BY <5>1, <1>13
        <4> HIDE DEF b
        <4> QED
          BY <4>1, <3>2, <2>1
      <3>4. pool'.state[b] = pool.state[b]
        BY <3>2, <3>3, <1>17
      <3> QED
        BY <3>1, <3>4 DEF TableContents
    <2>2. CASE q = r
      <3>1. i \in DOMAIN table /\ allocations'[q][i] = new[i] /\ written'[q] = text
        BY <2>2, <1>11, <1>19
      <3> SUFFICES pool'.state[new[i]] = IF i * BlockLen <= Len(text)
                                         THEN Sealed(PrefixHash(text, i)) ELSE Writable(r)
        BY <2>2, <3>1
      <3>2. CASE i \in dups
        <4>1. /\ new[i] = SealedBlock(pool, hash[i]) /\ new[i] \in shared
              /\ new[i] \in BlockId /\ pool.state[new[i]] = Sealed(hash[i])
          BY <3>1, <3>2, <1>7, <1>11, <1>12
        <4>2. pool'.state[new[i]] = Sealed(hash[i])
          BY <4>1, <1>14, <1>17
        <4> QED
          BY <4>2, <3>2, <1>3, <1>6
      <3>3. CASE i \in chunks \ dups
        <4>1. new[i] = table[i] /\ new[i] \in fresh /\ new[i] \in BlockId
          BY <3>1, <3>3, <1>7, <1>11, <1>13
        <4>2. pool'.state[new[i]] = Sealed(hashes[new[i]]) /\ hashes[new[i]] = hash[i]
          BY <4>1, <3>3, <1>9, <1>14, <1>17
        <4> QED
          BY <4>2, <3>3, <1>3
      <3>4. CASE i \notin chunks
        <4>1. new[i] = table[i] /\ new[i] \in BlockId
          BY <3>1, <3>4, <1>2, <1>6, <1>11
        <4>2. new[i] \notin own /\ new[i] \notin fresh
          BY <4>1, <3>1, <3>4, <1>3, <1>4, <1>6, <1>7 DEF table
        <4>3. pool'.state[new[i]] = pool.state[table[i]]
          BY <4>1, <4>2, <1>17
        <4>4. pool.state[table[i]] = IF i * BlockLen <= Len(written[r])
                                     THEN Sealed(PrefixHash(written[r], i)) ELSE Writable(r)
          BY <3>1 DEF TableContents, table
        <4>5. CASE i * BlockLen <= Len(text)
          BY <4>3, <4>4, <4>5, <3>1, <3>4, <1>31
        <4>6. CASE ~(i * BlockLen <= Len(text))
          <5>1. i * BlockLen \in Nat
            BY <3>1, <1>2, BlockLenAssumption
          <5>2. ~(i * BlockLen <= Len(written[r]))
            <6>1. \A x, y, z \in Nat : x <= y /\ y <= z => x <= z
              OBVIOUS
            <6> QED
              BY <5>1, <6>1, <4>6, <1>2, ZenonT(60)
          <5> QED
            BY <4>3, <4>4, <4>6, <5>2
        <4> QED
          BY <4>5, <4>6
      <3> QED
        BY <3>2, <3>3, <3>4
    <2> QED
      BY <2>1, <2>2
  <1> QED
    BY <1>23, <1>26, <1>27, <1>28, <1>29, <1>30, <1>32

-----------------------------------------------------------------------------
(* The theorems.                                                           *)

\* A new manager has every block free and no table.
LEMMA InitStep == Init => CacheInv
  <1> SUFFICES ASSUME Init PROVE CacheInv
    OBVIOUS
  <1>1. /\ pool = NewPool
        /\ allocations = [r \in Request |-> <<>>]
        /\ written = [r \in Request |-> <<>>]
        /\ inflight = [r \in Request |-> <<>>]
    BY DEF Init, ManagerInit
  <1>2. TypeOK
    BY <1>1 DEF TypeOK, NewPool, Pool, BlockState, Writable
  <1>3. Partition
    BY <1>1 DEF Partition, NewPool
  <1>4. RefCounts
    <2>1. ASSUME NEW b \in BlockId PROVE Holders(b) = {}
      BY <1>1 DEF Holders, Range
    <2> QED
      BY <2>1, <1>1, FS_EmptySet DEF RefCounts, NewPool
  <1>5. SealedIndex
    BY <1>1 DEF SealedIndex, NewPool, IsSealed, Writable
  <1>6. TableInjective
    BY <1>1 DEF TableInjective, IsInjective
  <1>7. TableCoversTokens
    <2>1. RequiredBlocks(0) = 0
      BY RequiredBlocksFacts
    <2> QED
      BY <2>1, <1>1 DEF TableCoversTokens
  <1>8. TableContents
    BY <1>1 DEF TableContents
  <1> QED
    BY <1>2, <1>3, <1>4, <1>5, <1>6, <1>7, <1>8 DEF CacheInv

\* One step of the cache manager, of any client.
THEOREM CacheStep == ASSUME CacheInv, [Next]_vars PROVE CacheInv'
  <1>1. CASE Next
    <2>1. PICK r \in Request :
            \/ \E prompt, text \in Texts : Admit(r, prompt, text)
            \/ \E text \in Texts : Grow(r, text)
            \/ Commit(r)
            \/ Release(r)
      BY <1>1 DEF Next
    <2>2. CASE \E prompt, text \in Texts : Admit(r, prompt, text)
      BY <2>2, AdmitStep
    <2>3. CASE \E text \in Texts : Grow(r, text)
      BY <2>3, GrowStep
    <2>4. CASE Commit(r)
      BY <2>4, CommitStep
    <2>5. CASE Release(r)
      BY <2>5, ReleaseStep
    <2> QED
      BY <2>1, <2>2, <2>3, <2>4, <2>5
  <1>2. CASE UNCHANGED vars
    BY <1>2 DEF vars, CacheInv, TypeOK, Partition, RefCounts, Holders, SealedIndex,
                IsSealed, TableInjective, TableCoversTokens, TableContents
  <1> QED
    BY <1>1, <1>2

\* The inductive invariant of the KV cache manager: whatever the order of
\* admissions, chunks, decode tokens, commits and releases, the pool, its map
\* and the tables of the requests stay consistent.
THEOREM CacheInvariant == Spec => []CacheInv
  <1>1. CacheInv /\ [Next]_vars => CacheInv'
    BY CacheStep
  <1> QED
    BY InitStep, <1>1, PTL DEF Spec

\* Type correctness: no table names a block outside the pool and no reference
\* count goes below zero.
THEOREM TypeCorrect == Spec => []TypeOK
  <1>1. CacheInv => TypeOK
    BY DEF CacheInv
  <1> QED
    BY <1>1, CacheInvariant, PTL

\* No block leaks and none is freed while a request reads it: a reference
\* count is the number of tables that hold the block, and a block is free
\* exactly when the count is zero.
THEOREM NoLeak == Spec => [](Partition /\ RefCounts)
  <1>1. CacheInv => Partition /\ RefCounts
    BY DEF CacheInv
  <1> QED
    BY <1>1, CacheInvariant, PTL

\* The map of sealed hashes gives, for a hash, a block that is in use and
\* holds the prefix of that hash.
THEOREM MapIsCurrent == Spec => []SealedIndex
  <1>1. CacheInv => SealedIndex
    BY DEF CacheInv
  <1> QED
    BY <1>1, CacheInvariant, PTL

\* The private blocks that reuse_and_reserve takes are none of the plan's, which are
\* in use or gone from the map: retain_shared never refuses after a reservation.
THEOREM PlansRetained == Spec => []PlansCanBeRetained
  <1>1. CacheInv => PlansCanBeRetained
    <2> SUFFICES ASSUME CacheInv,
                        NEW r \in Request, NEW prompt \in Texts, NEW count \in 0 .. NumBlocks,
                        NEW k \in 0 .. Len(prompt), NEW ids \in LowestFree(pool, count),
                        IsReuse(pool, prompt, k),
                        NEW b \in Range(ReusePlan(pool, prompt, k))
                 PROVE  IsSealed(Reserve(pool, ids, r), b)
      BY DEF PlansCanBeRetained, CanRetain
    <2>1. PICK j \in 1 .. k : b = SealedBlock(pool, PrefixHash(prompt, j))
      BY DEF ReusePlan, Range
    <2>2. HasSealed(pool, PrefixHash(prompt, j))
      BY DEF IsReuse
    <2>3. b \in BlockId /\ IsSealed(pool, b) /\ b \notin pool.free
      BY <2>1, <2>2, SealedBlockFacts DEF CacheInv
    <2>4. Range(ids) \subseteq pool.free
      BY DEF LowestFree, Range
    <2>5. Reserve(pool, ids, r).state[b] = pool.state[b]
      BY <2>3, <2>4 DEF Reserve
    <2> QED
      BY <2>3, <2>5 DEF IsSealed
  <1> QED
    BY <1>1, CacheInvariant, PTL

\* No table holds a block twice: the loops over the blocks of a request visit
\* different blocks, which is what lets each be written as one change.
THEOREM BlocksAreDistinct == Spec => []TableInjective
  <1>1. CacheInv => TableInjective
    BY DEF CacheInv
  <1> QED
    BY <1>1, CacheInvariant, PTL

\* A table covers the tokens of its request, those in flight included, with no
\* block to spare: reservations neither fall short nor accumulate.
THEOREM NoBlockToSpare == Spec => []TableCoversTokens
  <1>1. CacheInv => TableCoversTokens
    BY DEF CacheInv
  <1> QED
    BY <1>1, CacheInvariant, PTL

\* Sharing is invisible: every full block of a request is sealed under the
\* request's own prefix, and the block it writes next is writable by it alone.
THEOREM SharingIsInvisible == Spec => []TableContents
  <1>1. CacheInv => TableContents
    BY DEF CacheInv
  <1> QED
    BY <1>1, CacheInvariant, PTL
=============================================================================
