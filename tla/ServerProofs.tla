----------------------------- MODULE ServerProofs -----------------------------
(***************************************************************************)
(* Scheduler, and the server that runs it.                                 *)
(*                                                                         *)
(* Scheduler.  Its invariants and its refinement of KvCache, for every     *)
(* pool, block length, set of requests, prompts, budget and policy; who    *)
(* falls first under pressure, and that no request is left behind.  None   *)
(* of these theorems uses a constant or a variable of Server.              *)
(*                                                                         *)
(* Server.  Its scheduler is the one of Scheduler, whatever the executor   *)
(* does, and the KV storage holds what the scheduler counts as cached, for *)
(* every storage and set of buckets besides.                               *)
(*                                                                         *)
(* The arrays ModelInput and the padded rows of a decode graph give the    *)
(* kernels are, for every batch the scheduler makes, the ones that name    *)
(* each token's own place in the cache.                                    *)
(***************************************************************************)
EXTENDS Server, FiniteSetTheorems, SequenceTheorems, WellFoundedInduction, TLAPS

\* The cache manager as KvCache sees it, with what is proved of it.
K == INSTANCE KvCacheProofs WITH
       Texts    <- Texts,
       written  <- [r \in Request |-> Written(r)],
       inflight <- [r \in Request |-> InFlight(r)]

-----------------------------------------------------------------------------
(* Sequences: the queue operations of the scheduler.                       *)

LEMMA RemoveAtFacts ==
  ASSUME NEW S, NEW s \in Seq(S), NEW i \in 1 .. Len(s)
  PROVE  /\ RemoveAt(s, i) \in Seq(S)
         /\ Len(RemoveAt(s, i)) = Len(s) - 1
         /\ \A j \in 1 .. Len(s) - 1 : RemoveAt(s, i)[j] = IF j < i THEN s[j] ELSE s[j + 1]
  <1> DEFINE a == SubSeq(s, 1, i - 1)
             b == SubSeq(s, i + 1, Len(s))
  <1>1. a \in Seq(S) /\ Len(a) = i - 1 /\ \A j \in 1 .. i - 1 : a[j] = s[j]
    OBVIOUS
  <1>2. b \in Seq(S) /\ Len(b) = Len(s) - i /\ \A j \in 1 .. Len(s) - i : b[j] = s[i + j]
    OBVIOUS
  <1> HIDE DEF a, b
  <1>3. a \o b \in Seq(S) /\ Len(a \o b) = Len(s) - 1
    <2>1. a \o b \in Seq(S) /\ Len(a \o b) = Len(a) + Len(b)
      BY <1>1, <1>2, ConcatProperties
    <2>2. Len(s) \in Nat
      OBVIOUS
    <2> QED
      BY <2>1, <2>2, <1>1, <1>2
  <1>4. ASSUME NEW j \in 1 .. Len(s) - 1
        PROVE  (a \o b)[j] = IF j < i THEN s[j] ELSE s[j + 1]
    <2>1. CASE j < i
      <3>1. j \in 1 .. Len(a) /\ (a \o b)[j] = a[j]
        BY <2>1, <1>1, <1>2
      <3> QED
        BY <3>1, <2>1, <1>1
    <2>2. CASE ~(j < i)
      <3>1. j - Len(a) \in 1 .. Len(b) /\ (a \o b)[j] = b[j - Len(a)]
        BY <2>2, <1>1, <1>2
      <3>2. i + (j - Len(a)) = j + 1
        BY <1>1
      <3> QED
        BY <3>1, <3>2, <2>2, <1>1, <1>2
    <2> QED
      BY <2>1, <2>2
  <1> QED
    BY <1>3, <1>4 DEF RemoveAt, a, b

LEMMA RemoveFirstFacts ==
  ASSUME NEW S, NEW s \in Seq(S), IsInjective(s), NEW e
  PROVE  /\ RemoveFirst(s, e) \in Seq(S)
         /\ IsInjective(RemoveFirst(s, e))
         /\ \A x : Contains(RemoveFirst(s, e), x) <=> Contains(s, x) /\ x # e
         /\ \A i, j \in DOMAIN RemoveFirst(s, e) : i < j =>
              \E m, n \in DOMAIN s : m < n /\ s[m] = RemoveFirst(s, e)[i]
                                           /\ s[n] = RemoveFirst(s, e)[j]
  <1>1. CASE ~\E i \in 1 .. Len(s) : s[i] = e
    BY <1>1 DEF RemoveFirst, Contains
  <1>2. ASSUME NEW k \in 1 .. Len(s), s[k] = e
        PROVE  /\ RemoveFirst(s, e) \in Seq(S)
               /\ IsInjective(RemoveFirst(s, e))
               /\ \A x : Contains(RemoveFirst(s, e), x) <=> Contains(s, x) /\ x # e
               /\ \A i, j \in DOMAIN RemoveFirst(s, e) : i < j =>
                    \E m, n \in DOMAIN s : m < n /\ s[m] = RemoveFirst(s, e)[i]
                                                 /\ s[n] = RemoveFirst(s, e)[j]
    <2>1. {i \in 1 .. Len(s) : s[i] = e} = {k}
      BY <1>2 DEF IsInjective
    <2>2. Min({k}) = k
      BY DEF Min
    <2>3. SelectInSeq(s, LAMBDA v : v = e) = k
      BY <2>1, <2>2 DEF SelectInSeq
    <2> DEFINE t == RemoveAt(s, k)
    <2>4. RemoveFirst(s, e) = t
      BY <2>3, <1>2 DEF RemoveFirst
    <2>5. /\ t \in Seq(S) /\ Len(t) = Len(s) - 1
          /\ \A j \in 1 .. Len(s) - 1 : t[j] = IF j < k THEN s[j] ELSE s[j + 1]
      BY RemoveAtFacts
    <2> HIDE DEF t
    <2> DEFINE f(j) == IF j < k THEN j ELSE j + 1
    <2>6. \A j \in 1 .. Len(t) : f(j) \in 1 .. Len(s) /\ f(j) # k /\ t[j] = s[f(j)]
      BY <2>5
    <2>7. \A i, j \in 1 .. Len(t) : i < j => f(i) < f(j)
      BY <2>5
    <2>8. IsInjective(t)
      <3> SUFFICES ASSUME NEW i \in 1 .. Len(t), NEW j \in 1 .. Len(t), t[i] = t[j] PROVE i = j
        BY <2>5 DEF IsInjective
      <3>1. f(i) = f(j)
        BY <2>6 DEF IsInjective
      <3> QED
        BY <3>1, <2>5
    <2>9. ASSUME NEW x PROVE Contains(t, x) <=> Contains(s, x) /\ x # e
      <3>1. ASSUME NEW j \in 1 .. Len(t), t[j] = x PROVE Contains(s, x) /\ x # e
        <4>1. x = s[f(j)] /\ f(j) \in 1 .. Len(s) /\ f(j) # k
          BY <3>1, <2>6
        <4> HIDE DEF f
        <4> QED
          BY <4>1, <1>2 DEF Contains, IsInjective
      <3>2. ASSUME NEW j \in 1 .. Len(s), s[j] = x, x # e PROVE Contains(t, x)
        <4>1. j # k
          BY <3>2, <1>2
        <4>2. CASE j < k
          <5>1. j \in 1 .. Len(t) /\ t[j] = s[j]
            BY <4>2, <2>5
          <5> QED
            BY <5>1, <3>2 DEF Contains
        <4>3. CASE j > k
          <5>1. j - 1 \in 1 .. Len(t) /\ t[j - 1] = s[j]
            BY <4>3, <2>5
          <5> QED
            BY <5>1, <3>2 DEF Contains
        <4> QED
          BY <4>1, <4>2, <4>3
      <3> QED
        BY <3>1, <3>2 DEF Contains
    <2>10. ASSUME NEW i \in DOMAIN t, NEW j \in DOMAIN t, i < j
           PROVE  \E m, n \in DOMAIN s : m < n /\ s[m] = t[i] /\ s[n] = t[j]
      <3>1. i \in 1 .. Len(t) /\ j \in 1 .. Len(t)
        BY <2>5
      <3>2. f(i) \in DOMAIN s /\ f(j) \in DOMAIN s /\ f(i) < f(j)
        BY <3>1, <2>6, <2>7, <2>10
      <3>3. t[i] = s[f(i)] /\ t[j] = s[f(j)]
        BY <3>1, <2>6
      <3> HIDE DEF f
      <3> QED
        BY <3>2, <3>3
    <2> QED
      BY <2>4, <2>5, <2>8, <2>9, <2>10
  <1> QED
    BY <1>1, <1>2

LEMMA AppendFacts ==
  ASSUME NEW S, NEW s \in Seq(S), NEW e \in S
  PROVE  /\ Append(s, e) \in Seq(S)
         /\ \A x : Contains(Append(s, e), x) <=> Contains(s, x) \/ x = e
         /\ IsInjective(s) /\ ~Contains(s, e) => IsInjective(Append(s, e))
  <1>1. /\ Append(s, e) \in Seq(S) /\ Len(Append(s, e)) = Len(s) + 1
        /\ \A i \in 1 .. Len(s) : Append(s, e)[i] = s[i]
        /\ Append(s, e)[Len(s) + 1] = e
    OBVIOUS
  <1>2. \A i \in 1 .. Len(s) + 1 : i \in 1 .. Len(s) \/ i = Len(s) + 1
    OBVIOUS
  <1> QED
    BY <1>1, <1>2 DEF Contains, IsInjective

LEMMA PushFacts ==
  ASSUME NEW S, NEW s \in Seq(S), NEW e \in S
  PROVE  /\ <<e>> \o s \in Seq(S)
         /\ Len(<<e>> \o s) = Len(s) + 1
         /\ (<<e>> \o s)[1] = e
         /\ \A i \in 1 .. Len(s) : (<<e>> \o s)[i + 1] = s[i]
         /\ \A i \in 2 .. Len(s) + 1 : (<<e>> \o s)[i] = s[i - 1]
         /\ \A x : Contains(<<e>> \o s, x) <=> Contains(s, x) \/ x = e
         /\ IsInjective(s) /\ ~Contains(s, e) => IsInjective(<<e>> \o s)
  <1> DEFINE t == <<e>> \o s
  <1>1. /\ t \in Seq(S) /\ Len(t) = Len(s) + 1 /\ t[1] = e
        /\ \A i \in 2 .. Len(s) + 1 : t[i] = s[i - 1]
    OBVIOUS
  <1>2. \A i \in 1 .. Len(s) : t[i + 1] = s[i]
    OBVIOUS
  <1> HIDE DEF t
  <1>3. ASSUME NEW x PROVE Contains(t, x) <=> Contains(s, x) \/ x = e
    <2>1. ASSUME NEW i \in 1 .. Len(t), t[i] = x PROVE Contains(s, x) \/ x = e
      <3>1. CASE i = 1
        BY <3>1, <2>1, <1>1
      <3>2. CASE i # 1
        <4>1. i - 1 \in 1 .. Len(s) /\ s[i - 1] = x
          BY <3>2, <2>1, <1>1
        <4> QED
          BY <4>1 DEF Contains
      <3> QED
        BY <3>1, <3>2
    <2>2. ASSUME NEW i \in 1 .. Len(s), s[i] = x PROVE Contains(t, x)
      <3>1. i + 1 \in 1 .. Len(t) /\ t[i + 1] = x
        BY <2>2, <1>1, <1>2
      <3> QED
        BY <3>1 DEF Contains
    <2>3. Contains(t, e)
      <3>1. 1 \in 1 .. Len(t)
        BY <1>1
      <3> QED
        BY <3>1, <1>1 DEF Contains
    <2> QED
      BY <2>1, <2>2, <2>3 DEF Contains
  <1>4. ASSUME IsInjective(s), ~Contains(s, e) PROVE IsInjective(t)
    <2> SUFFICES ASSUME NEW i \in 1 .. Len(t), NEW j \in 1 .. Len(t), t[i] = t[j] PROVE i = j
      BY <1>1 DEF IsInjective
    <2>1. CASE i = 1 /\ j # 1
      <3>1. j - 1 \in 1 .. Len(s) /\ s[j - 1] = e
        BY <2>1, <1>1
      <3> QED
        BY <3>1, <1>4 DEF Contains
    <2>2. CASE i # 1 /\ j = 1
      <3>1. i - 1 \in 1 .. Len(s) /\ s[i - 1] = e
        BY <2>2, <1>1
      <3> QED
        BY <3>1, <1>4 DEF Contains
    <2>3. CASE i # 1 /\ j # 1
      <3>1. i - 1 \in 1 .. Len(s) /\ j - 1 \in 1 .. Len(s) /\ s[i - 1] = s[j - 1]
        BY <2>3, <1>1
      <3>2. i - 1 = j - 1
        BY <3>1, <1>4 DEF IsInjective
      <3> QED
        BY <3>2
    <2> QED
      BY <2>1, <2>2, <2>3
  <1> QED
    BY <1>1, <1>2, <1>3, <1>4 DEF t

LEMMA TailFacts ==
  ASSUME NEW S, NEW s \in Seq(S), s # <<>>
  PROVE  /\ Tail(s) \in Seq(S) /\ Head(s) \in S /\ Head(s) = s[1] /\ 1 \in DOMAIN s
         /\ Len(Tail(s)) = Len(s) - 1
         /\ \A i \in DOMAIN Tail(s) : i + 1 \in DOMAIN s /\ Tail(s)[i] = s[i + 1]
         /\ \A i \in DOMAIN s : i = 1 \/ (i - 1 \in DOMAIN Tail(s) /\ Tail(s)[i - 1] = s[i])
         /\ \A x : Contains(s, x) <=> Contains(Tail(s), x) \/ x = Head(s)
         /\ IsInjective(s) => IsInjective(Tail(s)) /\ ~Contains(Tail(s), Head(s))
  <1> DEFINE t == Tail(s)
  <1>1. /\ t \in Seq(S) /\ Len(t) = Len(s) - 1 /\ Head(s) = s[1] /\ Head(s) \in S
        /\ \A i \in 1 .. Len(t) : t[i] = s[i + 1]
        /\ 1 \in 1 .. Len(s)
    OBVIOUS
  <1>2. DOMAIN t = 1 .. Len(t) /\ DOMAIN s = 1 .. Len(s) /\ Len(s) \in Nat /\ Len(t) \in Nat
    BY <1>1
  <1> HIDE DEF t
  <1>3. \A i \in 1 .. Len(t) : i + 1 \in 1 .. Len(s)
    BY <1>1, <1>2
  <1>4. ASSUME NEW i \in 1 .. Len(s), i # 1 PROVE i - 1 \in 1 .. Len(t) /\ t[i - 1] = s[i]
    <2>1. i - 1 \in 1 .. Len(t) /\ (i - 1) + 1 = i
      BY <1>4, <1>1, <1>2
    <2> QED
      BY <2>1, <1>1
  <1>5. ASSUME NEW x PROVE Contains(s, x) <=> Contains(t, x) \/ x = Head(s)
    BY <1>1, <1>3, <1>4 DEF Contains
  <1>6. ASSUME IsInjective(s) PROVE IsInjective(t) /\ ~Contains(t, Head(s))
    <2>1. IsInjective(t)
      <3> SUFFICES ASSUME NEW i \in 1 .. Len(t), NEW j \in 1 .. Len(t), t[i] = t[j] PROVE i = j
        BY <1>2 DEF IsInjective
      <3>1. i + 1 = j + 1
        BY <1>6, <1>1, <1>2, <1>3 DEF IsInjective
      <3> QED
        BY <3>1
    <2>2. ASSUME NEW i \in 1 .. Len(t), t[i] = s[1] PROVE FALSE
      <3>1. i + 1 = 1
        BY <1>6, <1>1, <1>2, <1>3, <2>2 DEF IsInjective
      <3> QED
        BY <3>1
    <2> QED
      BY <2>1, <2>2, <1>1 DEF Contains
  <1> QED
    BY <1>1, <1>2, <1>3, <1>4, <1>5, <1>6 DEF t

LEMMA TailIsRemoveAt ==
  ASSUME NEW S, NEW s \in Seq(S), s # <<>>
  PROVE  Tail(s) = RemoveAt(s, 1)
  <1>1. 1 \in 1 .. Len(s)
    OBVIOUS
  <1>2. /\ RemoveAt(s, 1) \in Seq(S) /\ Len(RemoveAt(s, 1)) = Len(s) - 1
        /\ \A j \in 1 .. Len(s) - 1 : RemoveAt(s, 1)[j] = IF j < 1 THEN s[j] ELSE s[j + 1]
    BY <1>1, RemoveAtFacts
  <1>3. Tail(s) \in Seq(S) /\ Len(Tail(s)) = Len(s) - 1
        /\ \A j \in 1 .. Len(s) - 1 : Tail(s)[j] = s[j + 1]
    OBVIOUS
  <1>4. \A j \in 1 .. Len(s) - 1 : ~(j < 1)
    OBVIOUS
  <1> QED
    BY <1>2, <1>3, <1>4, SeqEqual

-----------------------------------------------------------------------------
(* What KvCacheProofs assumes of the texts, and its operators under their  *)
(* own names.                                                              *)

LEMMA ContextType ==
  ASSUME NEW r \in Request, NEW g \in Seq(OutToken)
  PROVE  /\ Prompt[r] \in Seq(Token) /\ Len(Prompt[r]) \in Nat \ {0}
         /\ g \in Seq(Token)
         /\ Prompt[r] \o g \in Seq(Token)
         /\ Len(Prompt[r] \o g) = Len(Prompt[r]) + Len(g)
  <1>1. Prompt[r] \in Seq(Token) /\ Len(Prompt[r]) \in Nat \ {0}
    BY PromptAssumption
  <1>2. g \in Seq(Token)
    BY OutTokenAssumption
  <1> QED
    BY <1>1, <1>2, ConcatProperties

LEMMA TextsFacts ==
  /\ Texts \subseteq Seq(Token)
  /\ \A r \in Request, g \in Seq(OutToken), l \in Nat :
       Len(g) <= MaxNewLen[r] /\ l <= Len(Prompt[r] \o g)
         => SubSeq(Prompt[r] \o g, 1, l) \in Texts
  <1>1. ASSUME NEW t \in Texts PROVE t \in Seq(Token)
    <2>0. PICK r \in Request : t \in UNION {Prefixes(Prompt[r] \o g) : g \in BoundedSeq(OutToken, MaxNewLen[r])}
      BY DEF Texts
    <2>1. PICK g \in BoundedSeq(OutToken, MaxNewLen[r]) : t \in Prefixes(Prompt[r] \o g)
      BY <2>0
    <2>2. g \in Seq(OutToken)
      BY MaxNewLenAssumption DEF BoundedSeq, SeqOf
    <2>3. Prompt[r] \o g \in Seq(Token)
      BY <2>2, ContextType
    <2>4. PICK l \in 0 .. Len(Prompt[r] \o g) : t = SubSeq(Prompt[r] \o g, 1, l)
      BY <2>1 DEF Prefixes
    <2> QED
      BY <2>3, <2>4
  <1>2. ASSUME NEW r \in Request, NEW g \in Seq(OutToken), NEW l \in Nat,
               Len(g) <= MaxNewLen[r], l <= Len(Prompt[r] \o g)
        PROVE  SubSeq(Prompt[r] \o g, 1, l) \in Texts
    <2>1. g \in BoundedSeq(OutToken, MaxNewLen[r])
      <3>1. g \in [1 .. Len(g) -> OutToken] /\ Len(g) \in 0 .. MaxNewLen[r]
        BY <1>2, MaxNewLenAssumption
      <3> QED
        BY <3>1 DEF BoundedSeq, SeqOf
    <2>2. Len(Prompt[r] \o g) \in Nat
      BY ContextType
    <2>3. SubSeq(Prompt[r] \o g, 1, l) \in Prefixes(Prompt[r] \o g)
      BY <1>2, <2>2 DEF Prefixes
    <2> QED
      BY <2>1, <2>3 DEF Texts
  <1> QED
    BY <1>1, <1>2

LEMMA SameReserveTo ==
  ASSUME NEW r, NEW plan, NEW n
  PROVE  K!ReserveTo(r, plan, n) <=> ReserveTo(r, plan, n)
  BY DEF K!ReserveTo, ReserveTo, K!MissingBlocks, MissingBlocks, K!RequiredBlocks, RequiredBlocks,
         K!CanReserve, CanReserve, K!LowestFree, LowestFree, K!CanRetain, CanRetain,
         K!Reserve, Reserve, K!ReuseAndReserve, ReuseAndReserve, K!RetainShared, RetainShared,
         K!IsSealed, IsSealed, K!Range, Range, K!Cardinality, Cardinality,
         K!BlockId, BlockId, K!Writable, Writable

LEMMA SameReleaseAllocation ==
  ASSUME NEW r
  PROVE  K!ReleaseAllocation(r) <=> ReleaseAllocation(r)
  BY DEF K!ReleaseAllocation, ReleaseAllocation, K!ReleaseBlocks, ReleaseBlocks, K!Range, Range,
         K!IsSealed, IsSealed, K!BlockId, BlockId, K!Writable, Writable

LEMMA SameSealBlocks ==
  ASSUME NEW r, NEW text, NEW n
  PROVE  K!SealBlocks(r, text, n) <=> SealBlocks(r, text, n)
  BY Zenon
     DEF K!SealBlocks, SealBlocks, K!ReleaseBlocks, ReleaseBlocks, K!Range, Range, K!IsSealed, IsSealed,
         K!BlockId, BlockId, K!Writable, Writable, K!FullBlocks, FullBlocks, K!ChunkHash, ChunkHash,
         K!HasSealed, HasSealed, K!SealedBlock, SealedBlock, K!Sealed, Sealed, K!Publish, Publish,
         K!RetainShared, RetainShared, K!IndexOf, IndexOf

LEMMA SameReuse ==
  ASSUME NEW p, NEW t, NEW k
  PROVE  /\ K!IsReuse(p, t, k) <=> IsReuse(p, t, k)
         /\ K!ReusePlan(p, t, k) = ReusePlan(p, t, k)
  BY DEF K!IsReuse, IsReuse, K!ReusePlan, ReusePlan, K!FullBlocks, FullBlocks,
         K!MaxReusableBlocks, MaxReusableBlocks, K!HasSealed, HasSealed, K!PrefixHash, PrefixHash,
         K!SealedBlock, SealedBlock, K!BlockId, BlockId

LEMMA SameBlocks ==
  ASSUME NEW n
  PROVE  K!FullBlocks(n) = FullBlocks(n) /\ K!RequiredBlocks(n) = RequiredBlocks(n)
  BY DEF K!FullBlocks, FullBlocks, K!RequiredBlocks, RequiredBlocks

\* A step that KvCache allows keeps its invariant (CacheStep of KvCacheProofs).
LEMMA CacheKeeps ==
  ASSUME K!CacheInv, K!Next \/ UNCHANGED K!vars
  PROVE  K!CacheInv'
  BY K!CacheStep, TextsFacts, NumBlocksAssumption, BlockLenAssumption, RequestAssumption
     DEF K!IsFiniteSet, IsFiniteSet

LEMMA CacheTypes ==
  K!CacheInv => /\ pool \in Pool
                /\ allocations \in [Request -> Seq(BlockId)]
  BY DEF K!CacheInv, K!TypeOK, K!Pool, Pool, K!BlockId, BlockId, K!BlockState, BlockState, K!Hash, Hash

LEMMA FullBlocksFacts ==
  ASSUME NEW n \in Nat
  PROVE  /\ FullBlocks(n) \in Nat
         /\ FullBlocks(n) * BlockLen <= n
         /\ n < (FullBlocks(n) + 1) * BlockLen
  BY BlockLenAssumption DEF FullBlocks

LEMMA RequiredBlocksFacts ==
  ASSUME NEW n \in Nat
  PROVE  /\ RequiredBlocks(n) \in Nat
         /\ n <= RequiredBlocks(n) * BlockLen
         /\ n > 0 => (RequiredBlocks(n) - 1) * BlockLen < n
         /\ RequiredBlocks(n) = 0 <=> n = 0
  BY BlockLenAssumption DEF RequiredBlocks

\* plan_reuse has a result: the first miss of the chain, or its end.
LEMMA ReuseExists ==
  ASSUME NEW p, NEW t \in Seq(Token), t # <<>>
  PROVE  \E k \in 0 .. Len(t) : IsReuse(p, t, k) /\ k * BlockLen < Len(t)
  <1> DEFINE max == MaxReusableBlocks(t)
             T == {k \in Nat : k >= max \/ ~HasSealed(p, PrefixHash(t, k + 1))}
  <1>1. /\ Len(t) - 1 \in Nat /\ max \in Nat /\ max * BlockLen <= Len(t) - 1
    <2>1. Len(t) - 1 \in Nat
      OBVIOUS
    <2> QED
      BY <2>1, FullBlocksFacts DEF MaxReusableBlocks
  <1> HIDE DEF max
  <1>2. T \subseteq Nat /\ max \in T
    BY <1>1
  <1>3. PICK k \in T : \A y \in T : ~(<<y, k>> \in OpToRel(<, Nat))
    BY <1>2, WFMin, NatLessThanWellFounded
  <1>4. \A y \in T : ~(y < k)
    BY <1>3 DEF OpToRel
  <1>5. k <= max
    BY <1>2, <1>4, <1>1
  <1>6. \A j \in 1 .. k : HasSealed(p, PrefixHash(t, j))
    <2> SUFFICES ASSUME NEW j \in 1 .. k PROVE HasSealed(p, PrefixHash(t, j))
      OBVIOUS
    <2>1. j - 1 \in Nat /\ j - 1 < k /\ ~(j - 1 >= max) /\ (j - 1) + 1 = j
      BY <1>5, <1>1
    <2>2. j - 1 \notin T
      BY <2>1, <1>4
    <2> QED
      BY <2>1, <2>2
  <1>7. k < max => ~HasSealed(p, PrefixHash(t, k + 1))
    BY <1>1
  <1>8. IsReuse(p, t, k)
    BY <1>5, <1>6, <1>7 DEF IsReuse, max
  <1>9. k * BlockLen <= max * BlockLen
    BY <1>5, <1>1, BlockLenAssumption
  <1>10. k * BlockLen < Len(t) /\ k <= k * BlockLen
    BY <1>9, <1>1, BlockLenAssumption
  <1>11. k \in 0 .. Len(t)
    BY <1>10, BlockLenAssumption
  <1> QED
    BY <1>8, <1>10, <1>11

-----------------------------------------------------------------------------
(* The batch.                                                              *)

IdsDistinct(b) == \A i, j \in DOMAIN b : b[i].id = b[j].id => i = j

InFlightIn(b, r) ==
  IF \E i \in DOMAIN b : b[i].id = r
  THEN b[CHOOSE i \in DOMAIN b : b[i].id = r].input
  ELSE <<>>

LEMMA InFlightOf ==
  ASSUME NEW r
  PROVE  InFlight(r) = InFlightIn(batch, r) /\ InFlight(r)' = InFlightIn(batch', r)
  BY DEF InFlight, Scheduled, InFlightIn

LEMMA InFlightOne ==
  ASSUME NEW b, IdsDistinct(b), NEW i \in DOMAIN b
  PROVE  InFlightIn(b, b[i].id) = b[i].input
  <1>1. (CHOOSE j \in DOMAIN b : b[j].id = b[i].id) = i
    BY DEF IdsDistinct
  <1> QED
    BY <1>1 DEF InFlightIn

LEMMA InFlightNone ==
  ASSUME NEW b, NEW r, \A i \in DOMAIN b : b[i].id # r
  PROVE  InFlightIn(b, r) = <<>>
  BY DEF InFlightIn

\* schedule_one's append.
LEMMA BatchAppend ==
  ASSUME NEW S, NEW b \in Seq(S), NEW e \in S, IdsDistinct(b),
         \A i \in DOMAIN b : b[i].id # e.id
  PROVE  /\ Append(b, e) \in Seq(S)
         /\ IdsDistinct(Append(b, e))
         /\ \A j \in DOMAIN Append(b, e) :
              Append(b, e)[j] = e \/ \E m \in DOMAIN b : Append(b, e)[j] = b[m]
         /\ \A m \in DOMAIN b : m \in DOMAIN Append(b, e) /\ Append(b, e)[m] = b[m]
         /\ \E j \in DOMAIN Append(b, e) : Append(b, e)[j] = e
         /\ InFlightIn(Append(b, e), e.id) = e.input
         /\ \A q : q # e.id => InFlightIn(Append(b, e), q) = InFlightIn(b, q)
  <1> DEFINE c == Append(b, e)
  <1>1. /\ c \in Seq(S) /\ Len(c) = Len(b) + 1 /\ Len(b) \in Nat
        /\ \A i \in 1 .. Len(b) : c[i] = b[i]
        /\ c[Len(b) + 1] = e
        /\ DOMAIN c = 1 .. Len(b) + 1 /\ DOMAIN b = 1 .. Len(b)
    OBVIOUS
  <1> HIDE DEF c
  <1>2. \A j \in DOMAIN c : j \in DOMAIN b \/ j = Len(b) + 1
    BY <1>1
  <1>3. \A m \in DOMAIN b : m \in DOMAIN c /\ c[m] = b[m]
    BY <1>1
  <1>4. Len(b) + 1 \in DOMAIN c /\ Len(b) + 1 \notin DOMAIN b
    BY <1>1
  <1>5. IdsDistinct(c)
    BY <1>1, <1>2, <1>3, <1>4 DEF IdsDistinct
  <1>6. InFlightIn(c, e.id) = e.input
    BY <1>1, <1>4, <1>5, InFlightOne
  <1>7. ASSUME NEW q, q # e.id PROVE InFlightIn(c, q) = InFlightIn(b, q)
    <2>1. CASE \E i \in DOMAIN b : b[i].id = q
      <3>1. PICK i \in DOMAIN b : b[i].id = q
        BY <2>1
      <3>2. InFlightIn(b, q) = b[i].input
        BY <3>1, InFlightOne
      <3>3. InFlightIn(c, q) = c[i].input
        BY <3>1, <1>3, <1>5, InFlightOne
      <3> QED
        BY <3>1, <3>2, <3>3, <1>3
    <2>2. CASE ~\E i \in DOMAIN b : b[i].id = q
      <3>1. \A i \in DOMAIN c : c[i].id # q
        BY <2>2, <1>1, <1>2, <1>3, <1>7
      <3> QED
        BY <2>2, <3>1, InFlightNone
    <2> QED
      BY <2>1, <2>2
  <1> QED
    BY <1>1, <1>2, <1>3, <1>4, <1>5, <1>6, <1>7 DEF c

\* An item of the batch is answered.
LEMMA BatchRemove ==
  ASSUME NEW S, NEW b \in Seq(S), NEW i \in DOMAIN b, IdsDistinct(b)
  PROVE  /\ RemoveAt(b, i) \in Seq(S)
         /\ IdsDistinct(RemoveAt(b, i))
         /\ \A j \in DOMAIN RemoveAt(b, i) :
              \E m \in DOMAIN b : m # i /\ RemoveAt(b, i)[j] = b[m]
         /\ \A m \in DOMAIN b : m # i =>
              \E j \in DOMAIN RemoveAt(b, i) : RemoveAt(b, i)[j] = b[m]
         /\ InFlightIn(RemoveAt(b, i), b[i].id) = <<>>
         /\ \A q : q # b[i].id => InFlightIn(RemoveAt(b, i), q) = InFlightIn(b, q)
  <1> DEFINE c == RemoveAt(b, i)
             f(j) == IF j < i THEN j ELSE j + 1
  <1>1. /\ c \in Seq(S) /\ Len(c) = Len(b) - 1 /\ Len(b) \in Nat
        /\ \A j \in 1 .. Len(b) - 1 : c[j] = IF j < i THEN b[j] ELSE b[j + 1]
        /\ i \in 1 .. Len(b) /\ DOMAIN b = 1 .. Len(b) /\ DOMAIN c = 1 .. Len(b) - 1
    <2>1. i \in 1 .. Len(b) /\ DOMAIN b = 1 .. Len(b) /\ Len(b) \in Nat
      OBVIOUS
    <2>2. /\ c \in Seq(S) /\ Len(c) = Len(b) - 1
          /\ \A j \in 1 .. Len(b) - 1 : c[j] = IF j < i THEN b[j] ELSE b[j + 1]
      BY <2>1, RemoveAtFacts
    <2> HIDE DEF c
    <2>3. DOMAIN c = 1 .. Len(c)
      BY <2>2
    <2> QED
      BY <2>1, <2>2, <2>3
  <1> HIDE DEF c
  <1>2. \A j \in DOMAIN c : f(j) \in DOMAIN b /\ f(j) # i /\ c[j] = b[f(j)]
    BY <1>1
  <1>3. \A j, k \in DOMAIN c : f(j) = f(k) => j = k
    BY <1>1
  <1>4. ASSUME NEW m \in DOMAIN b, m # i PROVE \E j \in DOMAIN c : c[j] = b[m]
    <2>1. CASE m < i
      <3>1. m \in DOMAIN c /\ c[m] = b[m]
        BY <2>1, <1>1
      <3> QED
        BY <3>1
    <2>2. CASE m > i
      <3>1. m - 1 \in DOMAIN c /\ c[m - 1] = b[m]
        BY <2>2, <1>1
      <3> QED
        BY <3>1
    <2> QED
      BY <2>1, <2>2, <1>1, <1>4
  <1> HIDE DEF f
  <1>5. IdsDistinct(c)
    BY <1>2, <1>3 DEF IdsDistinct
  <1>6. InFlightIn(c, b[i].id) = <<>>
    <2>1. \A j \in DOMAIN c : c[j].id # b[i].id
      BY <1>2 DEF IdsDistinct
    <2> QED
      BY <2>1, InFlightNone
  <1>7. ASSUME NEW q, q # b[i].id PROVE InFlightIn(c, q) = InFlightIn(b, q)
    <2>1. CASE \E m \in DOMAIN b : b[m].id = q
      <3>1. PICK m \in DOMAIN b : b[m].id = q
        BY <2>1
      <3>2. PICK j \in DOMAIN c : c[j] = b[m]
        BY <3>1, <1>4, <1>7
      <3>3. InFlightIn(b, q) = b[m].input
        BY <3>1, InFlightOne
      <3>4. InFlightIn(c, q) = c[j].input
        BY <3>1, <3>2, <1>5, InFlightOne
      <3> QED
        BY <3>2, <3>3, <3>4
    <2>2. CASE ~\E m \in DOMAIN b : b[m].id = q
      <3>1. \A j \in DOMAIN c : c[j].id # q
        BY <2>2, <1>2
      <3> QED
        BY <2>2, <3>1, InFlightNone
    <2> QED
      BY <2>1, <2>2
  <1> QED
    BY <1>1, <1>2, <1>4, <1>5, <1>6, <1>7 DEF c

-----------------------------------------------------------------------------
(* The inductive invariant.                                                *)

\* A waiting request has nothing cached, a running one something left to
\* compute, and only a completed one has all the tokens it may generate.
Lengths ==
  \A r \in Request :
    /\ state[r] \in {"Unsubmitted", "Waiting"} => cached_len[r] = 0
    /\ cached_len[r] <= Len(Context(r))
    /\ state[r] = "Running" => cached_len[r] < Len(Context(r))
    /\ state[r] \notin Terminal => Len(generated[r]) < MaxNewLen[r]

\* An item that does not sample leaves context to compute.
ItemsFit ==
  \A i \in DOMAIN batch :
    LET end == batch[i].start + Len(batch[i].input) IN
    /\ end <= Len(Context(batch[i].id))
    /\ ~batch[i].need_sample => end < Len(Context(batch[i].id))

\* What runs has something cached or in flight, hence blocks.
Held == \A r \in running : cached_len[r] > 0 \/ Scheduled(r)

\* The running loop visits a request once.
Loop ==
  phase = "running" => IsInjective(todo) /\ \A i \in DOMAIN todo : ~Scheduled(todo[i])

SchedInv ==
  /\ Queues
  /\ BatchIsCurrent
  /\ Lengths
  /\ ItemsFit
  /\ Held
  /\ Loop
  /\ K!CacheInv

\* A step of the scheduler as the cache manager sees it.
CacheMove == K!Next \/ UNCHANGED K!vars

LEMMA ContextFacts ==
  ASSUME TypeOK, NEW r \in Request
  PROVE  /\ Prompt[r] \in Seq(Token) /\ Len(Prompt[r]) \in Nat \ {0}
         /\ generated[r] \in Seq(OutToken) /\ Len(generated[r]) \in Nat
         /\ Context(r) \in Seq(Token)
         /\ Len(Context(r)) = Len(Prompt[r]) + Len(generated[r])
         /\ Len(Context(r)) \in Nat /\ cached_len[r] \in Nat
  <1>1. generated[r] \in Seq(OutToken) /\ cached_len[r] \in Nat
    BY DEF TypeOK
  <1>2. Len(generated[r]) \in Nat
    BY <1>1
  <1>3. /\ Prompt[r] \in Seq(Token) /\ Len(Prompt[r]) \in Nat \ {0}
        /\ Prompt[r] \o generated[r] \in Seq(Token)
        /\ Len(Prompt[r] \o generated[r]) = Len(Prompt[r]) + Len(generated[r])
    BY <1>1, ContextType
  <1>4. Context(r) = Prompt[r] \o generated[r]
    BY DEF Context
  <1>5. \A a, b \in Nat : a + b \in Nat
    OBVIOUS
  <1>6. Len(Prompt[r]) \in Nat
    BY <1>3
  <1> QED
    BY <1>1, <1>2, <1>3, <1>4, <1>5, <1>6, Zenon

LEMMA ScheduledRuns ==
  ASSUME SchedInv, NEW r \in Request, Scheduled(r)
  PROVE  state[r] = "Running" /\ r \in running
  BY DEF SchedInv, Queues, BatchIsCurrent, Scheduled

LEMMA WrittenLength ==
  ASSUME SchedInv, NEW r \in Request
  PROVE  Len(Written(r)) = IF r \in running THEN cached_len[r] ELSE 0
  <1>1. /\ Context(r) \in Seq(Token) /\ cached_len[r] \in Nat
        /\ cached_len[r] <= Len(Context(r))
    BY ContextFacts DEF SchedInv, Queues, Lengths
  <1>2. Len(SubSeq(Context(r), 1, cached_len[r])) = cached_len[r]
    BY <1>1
  <1> QED
    BY <1>2 DEF Written

\* A request has blocks exactly while it runs.
LEMMA Tables ==
  ASSUME SchedInv, NEW r \in Request
  PROVE  allocations[r] # <<>> <=> r \in running
  <1>1. /\ allocations[r] \in Seq(BlockId)
        /\ Len(allocations[r]) = RequiredBlocks(Len(Written(r)) + Len(InFlight(r)))
    <2>1. Len(allocations[r]) = K!RequiredBlocks(Len(Written(r)) + Len(InFlight(r)))
      BY DEF SchedInv, K!CacheInv, K!TableCoversTokens
    <2> QED
      BY <2>1, SameBlocks, CacheTypes DEF SchedInv
  <1>2. Len(Written(r)) = IF r \in running THEN cached_len[r] ELSE 0
    BY WrittenLength
  <1>3. cached_len[r] \in Nat
    BY ContextFacts DEF SchedInv, Queues
  <1>4. ASSUME Scheduled(r) PROVE Len(InFlight(r)) \in Nat /\ Len(InFlight(r)) > 0
    <2>1. PICK i \in DOMAIN batch : batch[i].id = r
      BY <1>4 DEF Scheduled
    <2>2. InFlight(r) = batch[i].input
      BY <2>1, InFlightOf, InFlightOne DEF SchedInv, BatchIsCurrent, IdsDistinct
    <2>3. batch[i].input \in Seq(Token) /\ batch[i].input # <<>>
      <3>1. batch[i] \in Item
        BY DEF SchedInv, Queues, TypeOK
      <3> QED
        BY <3>1 DEF SchedInv, Item, BatchIsCurrent
    <2> QED
      BY <2>2, <2>3
  <1>5. ~Scheduled(r) => InFlight(r) = <<>>
    BY DEF InFlight
  <1>6. CASE r \in running
    <2>1. Len(Written(r)) + Len(InFlight(r)) \in Nat /\ Len(Written(r)) + Len(InFlight(r)) # 0
      <3>1. CASE Scheduled(r)
        BY <3>1, <1>2, <1>3, <1>4, <1>6
      <3>2. CASE ~Scheduled(r)
        BY <3>2, <1>2, <1>3, <1>5, <1>6 DEF SchedInv, Held
      <3> QED
        BY <3>1, <3>2
    <2>2. Len(allocations[r]) # 0
      BY <2>1, <1>1, RequiredBlocksFacts
    <2> QED
      BY <2>2, <1>1, <1>6
  <1>7. CASE r \notin running
    <2>1. ~Scheduled(r)
      BY <1>7, ScheduledRuns
    <2>2. Len(Written(r)) + Len(InFlight(r)) = 0
      BY <2>1, <1>2, <1>5, <1>7
    <2>3. Len(allocations[r]) = 0
      BY <2>2, <1>1, RequiredBlocksFacts
    <2> QED
      BY <2>3, <1>1, <1>7
  <1> QED
    BY <1>6, <1>7

LEMMA SameFlight ==
  ASSUME batch' = batch, NEW q
  PROVE  InFlight(q)' = InFlight(q) /\ (Scheduled(q)' <=> Scheduled(q))
  BY DEF InFlight, Scheduled

\* BatchIsCurrent and ItemsFit, of one item and the fields of its request.
ItemOk(item, state_, cached_len_, generated_, allocations_) ==
  LET context == Prompt[item.id] \o generated_[item.id] IN
  /\ state_[item.id] = "Running"
  /\ item.start = cached_len_[item.id]
  /\ item.block_table = allocations_[item.id]
  /\ item.input = SubSeq(context, item.start + 1, item.start + Len(item.input))
  /\ item.input # <<>>
  /\ item.start + Len(item.input) <= Len(context)
  /\ ~item.need_sample => item.start + Len(item.input) < Len(context)

LEMMA ItemsOk ==
  ASSUME IdsDistinct(batch'),
         \A j \in DOMAIN batch' :
           ItemOk(batch'[j], state', cached_len', generated', allocations')
  PROVE  BatchIsCurrent' /\ ItemsFit'
  <1>1. BatchIsCurrent'
    BY Zenon DEF ItemOk, BatchIsCurrent, IdsDistinct, Context
  <1>2. ItemsFit'
    BY Zenon DEF ItemOk, ItemsFit, Context
  <1> QED
    BY <1>1, <1>2

LEMMA ItemStays ==
  ASSUME BatchIsCurrent, ItemsFit, NEW m \in DOMAIN batch,
         state'[batch[m].id] = state[batch[m].id],
         cached_len'[batch[m].id] = cached_len[batch[m].id],
         generated'[batch[m].id] = generated[batch[m].id],
         allocations'[batch[m].id] = allocations[batch[m].id]
  PROVE  ItemOk(batch[m], state', cached_len', generated', allocations')
  <1>1. /\ state[batch[m].id] = "Running"
        /\ batch[m].start = cached_len[batch[m].id]
        /\ batch[m].block_table = allocations[batch[m].id]
        /\ batch[m].input = SubSeq(Prompt[batch[m].id] \o generated[batch[m].id],
                                  batch[m].start + 1, batch[m].start + Len(batch[m].input))
        /\ batch[m].input # <<>>
    BY DEF BatchIsCurrent, Context
  <1>2. /\ batch[m].start + Len(batch[m].input)
             <= Len(Prompt[batch[m].id] \o generated[batch[m].id])
        /\ ~batch[m].need_sample => batch[m].start + Len(batch[m].input)
                                      < Len(Prompt[batch[m].id] \o generated[batch[m].id])
    BY DEF ItemsFit, Context
  <1> QED
    BY <1>1, <1>2, Zenon DEF ItemOk

\* The items whose requests a step leaves alone stay true.
LEMMA ItemsStay ==
  ASSUME BatchIsCurrent, ItemsFit, IdsDistinct(batch'),
         \A j \in DOMAIN batch' : \E m \in DOMAIN batch :
           /\ batch'[j] = batch[m]
           /\ state'[batch[m].id] = state[batch[m].id]
           /\ cached_len'[batch[m].id] = cached_len[batch[m].id]
           /\ generated'[batch[m].id] = generated[batch[m].id]
           /\ allocations'[batch[m].id] = allocations[batch[m].id]
  PROVE  BatchIsCurrent' /\ ItemsFit'
  <1>1. ASSUME NEW j \in DOMAIN batch'
        PROVE  ItemOk(batch'[j], state', cached_len', generated', allocations')
    BY ItemStays
  <1> QED
    BY <1>1, ItemsOk

LEMMA ItemFacts ==
  ASSUME TypeOK, NEW i \in DOMAIN batch
  PROVE  /\ batch[i] \in Item /\ batch[i].id \in Request
         /\ batch[i].input \in Seq(Token) /\ Len(batch[i].input) \in Nat
         /\ batch[i].start \in Nat
         /\ Scheduled(batch[i].id)
  <1>1. batch[i] \in Item
    BY DEF TypeOK
  <1>2. batch[i].input \in Seq(Token)
    BY <1>1 DEF Item
  <1> QED
    BY <1>1, <1>2 DEF Item, Scheduled

LEMMA BatchStays ==
  ASSUME SchedInv, batch' = batch,
         \A q \in Request : Scheduled(q) =>
           /\ state'[q] = state[q] /\ cached_len'[q] = cached_len[q]
           /\ generated'[q] = generated[q] /\ allocations'[q] = allocations[q]
  PROVE  BatchIsCurrent' /\ ItemsFit'
  <1>1. \A j \in DOMAIN batch : batch[j].id \in Request /\ Scheduled(batch[j].id)
    BY ItemFacts DEF SchedInv, Queues
  <1>2. IdsDistinct(batch')
    BY DEF SchedInv, BatchIsCurrent, IdsDistinct
  <1> QED
    BY <1>1, <1>2, ItemsStay DEF SchedInv

LEMMA WrittenStays ==
  ASSUME NEW q, q \in running' <=> q \in running,
         cached_len'[q] = cached_len[q], generated'[q] = generated[q]
  PROVE  Written(q)' = Written(q)
  BY DEF Written, Context

LEMMA CacheStays ==
  ASSUME UNCHANGED cacheVars,
         \A q \in Request : Written(q)' = Written(q) /\ InFlight(q)' = InFlight(q)
  PROVE  UNCHANGED K!vars
  <1>1. [q \in Request |-> Written(q)]' = [q \in Request |-> Written(q)]
    OBVIOUS
  <1>2. [q \in Request |-> InFlight(q)]' = [q \in Request |-> InFlight(q)]
    OBVIOUS
  <1> QED
    BY <1>1, <1>2 DEF K!vars, cacheVars

\* The steps that only move a call on.
LEMMA QuietStep ==
  ASSUME SchedInv, UNCHANGED <<requestVars, queueVars, cacheVars, batch>>,
         phase # "release", phase' \in {"idle", "running", "waiting", "apply", "fail"},
         todo' \in Seq(Request), remaining' \in 0 .. MaxBatchLen,
         phase' = "running" => IsInjective(todo') /\ \A i \in DOMAIN todo' : ~Scheduled(todo'[i])
  PROVE  SchedInv' /\ CacheMove
  <1> USE DEF requestVars, queueVars
  <1>1. Queues'
    BY DEF SchedInv, Queues, TypeOK, RunningIds
  <1>2. BatchIsCurrent' /\ ItemsFit'
    BY BatchStays DEF cacheVars
  <1>3. Lengths'
    BY DEF SchedInv, Lengths, Context
  <1>4. Held'
    BY DEF SchedInv, Held, Scheduled
  <1>5. Loop'
    BY DEF Loop, Scheduled
  <1>6. UNCHANGED K!vars
    BY CacheStays, WrittenStays, SameFlight
  <1>7. K!CacheInv'
    BY <1>6, CacheKeeps DEF SchedInv
  <1> QED
    BY <1>1, <1>2, <1>3, <1>4, <1>5, <1>6, <1>7 DEF SchedInv, CacheMove

LEMMA BeforeIrreflexive ==
  ASSUME TypeOK, NEW r \in Request
  PROVE  ~Before(r, r)
  <1>1. arrival_index[r] \in Nat
    BY DEF TypeOK
  <1> QED
    BY <1>1 DEF Before

\* ordered_running_ids lists every running request once.
LEMMA OrderedFacts ==
  ASSUME TypeOK, NEW ids \in OrderedRunningIds
  PROVE  /\ ids \in Seq(Request)
         /\ IsInjective(ids)
         /\ \A i \in DOMAIN ids : ids[i] \in RunningIds
         /\ \A q \in RunningIds : Contains(ids, q)
         /\ \A i, j \in DOMAIN ids : i < j => Before(ids[i], ids[j])
  <1> DEFINE n == Cardinality(RunningIds)
  <1>1. RunningIds \subseteq Request
    BY DEF RunningIds, TypeOK
  <1>2. IsFiniteSet(RunningIds) /\ n \in Nat
    BY <1>1, RequestAssumption, FS_Subset, FS_CardinalityType
  <1>3. /\ ids \in [1 .. n -> RunningIds]
        /\ \A i, j \in DOMAIN ids : i < j => Before(ids[i], ids[j])
    BY DEF OrderedRunningIds
  <1> HIDE DEF n
  <1>4. ids \in [1 .. n -> Request]
    BY <1>1, <1>3
  <1>5. ids \in Seq(Request) /\ Len(ids) = n /\ DOMAIN ids = 1 .. n
    BY <1>2, <1>4
  <1>6. \A i, j \in 1 .. n : ids[i] = ids[j] => i = j
    <2> SUFFICES ASSUME NEW i \in 1 .. n, NEW j \in 1 .. n, ids[i] = ids[j] PROVE i = j
      OBVIOUS
    <2>1. ~Before(ids[i], ids[j]) /\ ~Before(ids[j], ids[i])
      BY <1>4, BeforeIrreflexive
    <2>2. ~(i < j) /\ ~(j < i)
      BY <2>1, <1>3, <1>5
    <2> QED
      BY <2>2, <1>2
  <1>7. Cardinality(1 .. n) = n
    BY <1>2, FS_Interval
  <1>8. ids \in Injection(1 .. n, RunningIds)
    BY <1>3, <1>6 DEF Injection, IsInjective
  <1>9. ids \in Surjection(1 .. n, RunningIds)
    BY <1>2, <1>7, <1>8, FS_Injection DEF n
  <1>10. \A q \in RunningIds : \E i \in 1 .. n : ids[i] = q
    BY <1>9 DEF Surjection
  <1>11. \A q \in RunningIds : Contains(ids, q)
    BY <1>5, <1>10 DEF Contains
  <1>12. \A i \in DOMAIN ids : ids[i] \in RunningIds
    BY <1>3, <1>5
  <1>13. IsInjective(ids)
    BY <1>5, <1>6 DEF IsInjective
  <1> QED
    BY <1>3, <1>5, <1>11, <1>12, <1>13

\* The calls that start and end, and the turns that skip a request.
LEMMA ControlStep ==
  ASSUME SchedInv,
         \/ Schedule \/ ApplyResult \/ FailBatch
         \/ \E r \in Request : SkipRunning(r)
         \/ RunningLoopEnd \/ ScheduleEnd \/ ResultEnd
  PROVE  SchedInv' /\ CacheMove
  <1>0. TypeOK
    BY DEF SchedInv, Queues
  <1>00. todo \in Seq(Request) /\ remaining \in 0 .. MaxBatchLen /\ 0 \in 0 .. MaxBatchLen
         /\ MaxBatchLen \in 0 .. MaxBatchLen
    BY <1>0, ConfigAssumption DEF TypeOK
  <1>1. CASE Schedule
    <2>1. /\ todo' \in Seq(Request) /\ IsInjective(todo')
      BY <1>0, <1>1, OrderedFacts DEF Schedule
    <2>2. \A i \in DOMAIN todo' : ~Scheduled(todo'[i])
      BY <1>1 DEF Schedule, Scheduled
    <2> QED
      BY <1>1, <2>1, <2>2, <1>00, QuietStep DEF Schedule
  <1>2. CASE ApplyResult
    BY <1>2, <1>00, QuietStep DEF ApplyResult
  <1>3. CASE FailBatch
    BY <1>3, <1>00, QuietStep DEF FailBatch
  <1>4. ASSUME NEW r \in Request, SkipRunning(r) PROVE SchedInv' /\ CacheMove
    <2>1. /\ todo' = Tail(todo) /\ todo # <<>> /\ phase = "running"
          /\ UNCHANGED <<requestVars, queueVars, phase, remaining, cacheVars, batch>>
      BY <1>4 DEF SkipRunning, Visiting
    <2>2. /\ todo' \in Seq(Request) /\ IsInjective(todo')
          /\ \A i \in DOMAIN todo' : ~Scheduled(todo'[i])
      BY <2>1, <1>00, TailFacts DEF SchedInv, Loop
    <2> QED
      BY <2>1, <2>2, <1>00, QuietStep
  <1>5. CASE RunningLoopEnd
    <2>1. <<>> \in Seq(Request)
      OBVIOUS
    <2> QED
      BY <2>1, <1>5, <1>00, QuietStep DEF RunningLoopEnd
  <1>6. CASE ScheduleEnd
    BY <1>6, <1>00, QuietStep DEF ScheduleEnd
  <1>7. CASE ResultEnd
    BY <1>7, <1>00, QuietStep DEF ResultEnd
  <1> QED
    BY <1>1, <1>2, <1>3, <1>4, <1>5, <1>6, <1>7

LEMMA NothingReleased ==
  ASSUME NEW p \in Pool
  PROVE  ReleaseBlocks(p, Range(<<>>)) = p
  <1>1. Range(<<>>) = {}
    BY DEF Range
  <1>2. p.ref_cnt = [b \in BlockId |-> p.ref_cnt[b] - IF b \in {} THEN 1 ELSE 0]
    <2>1. p.ref_cnt \in [BlockId -> Nat]
      BY DEF Pool
    <2>2. \A b \in BlockId : p.ref_cnt[b] - (IF b \in {} THEN 1 ELSE 0) = p.ref_cnt[b]
      BY <2>1
    <2> QED
      BY <2>1, <2>2
  <1>3. p.state = [b \in BlockId |-> IF b \in {} THEN Writable(None) ELSE p.state[b]]
    BY DEF Pool
  <1>4. /\ p.free \cup {} = p.free /\ p.allocated \ {} = p.allocated
        /\ {e \in p.sealed : \A b \in {} : IsSealed(p, b) => e[1] # p.state[b].hash} = p.sealed
        /\ {b \in {} : p.ref_cnt[b] = 1} = {}
    OBVIOUS
  <1>5. p = [free |-> p.free, allocated |-> p.allocated, ref_cnt |-> p.ref_cnt,
             state |-> p.state, sealed |-> p.sealed]
    BY DEF Pool
  <1> QED
    BY <1>1, <1>2, <1>3, <1>4, <1>5, Zenon DEF ReleaseBlocks

\* release, from every handler that stops a request: KvCache's Release, or
\* nothing when the request held no block.
LEMMA ReleaseMove ==
  ASSUME SchedInv, NEW r \in Request, ReleaseAllocation(r),
         running' = running \ {r},
         \A q \in Request \ {r} :
           /\ cached_len'[q] = cached_len[q] /\ generated'[q] = generated[q]
           /\ InFlight(q)' = InFlight(q),
         InFlight(r)' = <<>>
  PROVE  /\ CacheMove
         /\ K!CacheInv'
         /\ \A q \in Request \ {r} : allocations'[q] = allocations[q]
  <1>1. pool \in Pool /\ allocations \in [Request -> Seq(BlockId)]
    BY CacheTypes DEF SchedInv
  <1>2. \A q \in Request \ {r} : Written(q)' = Written(q)
    BY WrittenStays
  <1>3. Written(r)' = <<>>
    BY DEF Written
  <1>4. ASSUME allocations[r] # <<>> PROVE CacheMove
    <2>1. [q \in Request |-> Written(q)]' = [[q \in Request |-> Written(q)] EXCEPT ![r] = <<>>]
      BY <1>2, <1>3
    <2>2. [q \in Request |-> InFlight(q)]' = [[q \in Request |-> InFlight(q)] EXCEPT ![r] = <<>>]
      OBVIOUS
    <2>3. K!Release(r)
      BY <1>4, <2>1, <2>2, SameReleaseAllocation DEF K!Release
    <2> QED
      BY <2>3 DEF CacheMove, K!Next
  <1>5. ASSUME allocations[r] = <<>> PROVE CacheMove
    <2>1. r \notin running
      BY <1>5, Tables
    <2>2. Written(r) = <<>>
      BY <2>1 DEF Written
    <2>3. InFlight(r) = <<>>
      <3>1. ~Scheduled(r)
        BY <2>1, ScheduledRuns
      <3> QED
        BY <3>1 DEF InFlight
    <2>4. pool' = pool
      BY <1>1, <1>5, NothingReleased DEF ReleaseAllocation
    <2>5. allocations' = allocations
      BY <1>1, <1>5 DEF ReleaseAllocation
    <2>6. \A q \in Request : Written(q)' = Written(q) /\ InFlight(q)' = InFlight(q)
      BY <1>2, <1>3, <2>2, <2>3
    <2> QED
      BY <2>4, <2>5, <2>6, CacheStays DEF CacheMove, cacheVars
  <1>6. CacheMove
    BY <1>4, <1>5
  <1>7. \A q \in Request \ {r} : allocations'[q] = allocations[q]
    BY <1>1 DEF ReleaseAllocation
  <1> QED
    BY <1>6, <1>7, CacheKeeps DEF SchedInv, CacheMove

LEMMA SubmitStep ==
  ASSUME SchedInv, NEW r \in Request, Submit(r)
  PROVE  SchedInv' /\ CacheMove
  <1> USE DEF SchedInv
  <1>1. /\ phase = "idle" /\ state[r] = "Unsubmitted"
        /\ state' = [state EXCEPT ![r] = "Waiting"]
        /\ arrival_index' = [arrival_index EXCEPT ![r] = next_arrival]
        /\ next_arrival' = next_arrival + 1
        /\ waiting' = Append(waiting, r)
        /\ UNCHANGED <<generated, cached_len, running, phase, todo, remaining, pool, allocations, batch>>
    BY DEF Submit, callVars, cacheVars
  <1>2. TypeOK
    BY DEF Queues
  <1>3. ~Contains(waiting, r) /\ waiting \in Seq(Request) /\ IsInjective(waiting) /\ r \notin running
    BY <1>1, <1>2 DEF Queues, TypeOK
  <1>4. /\ waiting' \in Seq(Request) /\ IsInjective(waiting')
        /\ \A q : Contains(waiting', q) <=> Contains(waiting, q) \/ q = r
    BY <1>1, <1>3, AppendFacts
  <1>5. state \in [Request -> {"Unsubmitted", "Waiting", "Running"} \cup Terminal]
    BY <1>2 DEF TypeOK
  <1>6. state'[r] = "Waiting" /\ \A q \in Request \ {r} : state'[q] = state[q]
    BY <1>1, <1>5
  <1>7. TypeOK'
    BY <1>1, <1>2, <1>4 DEF TypeOK
  <1>8. Queues'
    <2>1. \A q \in Request : state'[q] = "Waiting" <=> Contains(waiting', q)
      BY <1>4, <1>6 DEF Queues
    <2>2. \A q \in Request : state'[q] = "Running" <=> q \in running
      BY <1>1, <1>3, <1>6 DEF Queues
    <2> QED
      BY <1>1, <1>4, <1>7, <2>1, <2>2 DEF Queues
  <1>9. BatchIsCurrent' /\ ItemsFit'
    <2>1. \A q \in Request : Scheduled(q) => q # r
      BY <1>1, ScheduledRuns
    <2> QED
      BY <1>1, <1>6, <2>1, BatchStays
  <1>10. Lengths'
    BY <1>1, <1>6 DEF Lengths, Context, Terminal
  <1>11. Held' /\ Loop'
    BY <1>1 DEF Held, Loop, Scheduled
  <1>12. UNCHANGED K!vars
    BY <1>1, CacheStays, WrittenStays, SameFlight DEF cacheVars
  <1> QED
    BY <1>8, <1>9, <1>10, <1>11, <1>12, CacheKeeps DEF CacheMove

LEMMA CancelStep ==
  ASSUME SchedInv, NEW r \in Request, Cancel(r)
  PROVE  SchedInv' /\ CacheMove
  <1> USE DEF SchedInv
  <1>1. /\ phase = "idle" /\ state[r] \in {"Waiting", "Running"} /\ ~Scheduled(r)
        /\ state' = [state EXCEPT ![r] = "Cancelled"]
        /\ running' = running \ {r}
        /\ waiting' = RemoveFirst(waiting, r)
        /\ ReleaseAllocation(r)
        /\ UNCHANGED <<generated, cached_len, arrival_index, next_arrival, phase, todo, remaining, batch>>
    BY DEF Cancel, callVars
  <1>2. TypeOK
    BY DEF Queues
  <1>3. waiting \in Seq(Request) /\ IsInjective(waiting)
    BY <1>2 DEF Queues, TypeOK
  <1>4. /\ waiting' \in Seq(Request) /\ IsInjective(waiting')
        /\ \A q : Contains(waiting', q) <=> Contains(waiting, q) /\ q # r
    BY <1>1, <1>3, RemoveFirstFacts, Zenon
  <1>5. state \in [Request -> {"Unsubmitted", "Waiting", "Running"} \cup Terminal]
    BY <1>2 DEF TypeOK
  <1>6. state'[r] = "Cancelled" /\ \A q \in Request \ {r} : state'[q] = state[q]
    BY <1>1, <1>5
  <1>7. TypeOK'
    BY <1>1, <1>2, <1>4 DEF TypeOK, Terminal
  <1>8. Queues'
    <2>1. \A q \in Request : state'[q] = "Waiting" <=> Contains(waiting', q)
      BY <1>4, <1>6 DEF Queues
    <2>2. \A q \in Request : state'[q] = "Running" <=> q \in running'
      BY <1>1, <1>6 DEF Queues
    <2> QED
      BY <1>1, <1>4, <1>7, <2>1, <2>2 DEF Queues
  <1>9. /\ CacheMove /\ K!CacheInv'
        /\ \A q \in Request \ {r} : allocations'[q] = allocations[q]
    <2>1. InFlight(r)' = <<>>
      BY <1>1 DEF InFlight, Scheduled
    <2> QED
      BY <1>1, <2>1, ReleaseMove, SameFlight
  <1>10. BatchIsCurrent' /\ ItemsFit'
    BY <1>1, <1>6, <1>9, BatchStays
  <1>11. Lengths'
    BY <1>1, <1>6 DEF Lengths, Context, Terminal
  <1>12. Held' /\ Loop'
    BY <1>1 DEF Held, Loop, Scheduled
  <1> QED
    BY <1>8, <1>9, <1>10, <1>11, <1>12

LEMMA PreemptStep ==
  ASSUME SchedInv, NEW r \in Request, NEW v \in Request, Preempt(r, v)
  PROVE  SchedInv' /\ CacheMove
  <1> USE DEF SchedInv
  <1>1. /\ phase = "running" /\ state[v] = "Running" /\ v \in running /\ ~Scheduled(v)
        /\ state' = [state EXCEPT ![v] = "Waiting"]
        /\ cached_len' = [cached_len EXCEPT ![v] = 0]
        /\ running' = running \ {v}
        /\ waiting' = <<v>> \o waiting
        /\ ReleaseAllocation(v)
        /\ UNCHANGED <<generated, arrival_index, next_arrival, phase, todo, remaining, batch>>
    BY DEF Preempt, Visiting, IsVictim, RunningIds, PreemptId, PreemptRequest, callVars
  <1>2. TypeOK
    BY DEF Queues
  <1>3. waiting \in Seq(Request) /\ IsInjective(waiting) /\ ~Contains(waiting, v)
    BY <1>1, <1>2 DEF Queues, TypeOK
  <1>4. /\ waiting' \in Seq(Request) /\ IsInjective(waiting')
        /\ \A q : Contains(waiting', q) <=> Contains(waiting, q) \/ q = v
    <2>1. /\ <<v>> \o waiting \in Seq(Request)
          /\ \A q : Contains(<<v>> \o waiting, q) <=> Contains(waiting, q) \/ q = v
          /\ IsInjective(waiting) /\ ~Contains(waiting, v) => IsInjective(<<v>> \o waiting)
      BY <1>3, PushFacts
    <2> QED
      BY <1>1, <1>3, <2>1
  <1>5. /\ state \in [Request -> {"Unsubmitted", "Waiting", "Running"} \cup Terminal]
        /\ cached_len \in [Request -> Nat]
    BY <1>2 DEF TypeOK
  <1>6. /\ state'[v] = "Waiting" /\ cached_len'[v] = 0
        /\ \A q \in Request \ {v} : state'[q] = state[q] /\ cached_len'[q] = cached_len[q]
    BY <1>1, <1>5
  <1>7. TypeOK'
    BY <1>1, <1>2, <1>4 DEF TypeOK
  <1>8. Queues'
    <2>1. \A q \in Request : state'[q] = "Waiting" <=> Contains(waiting', q)
      BY <1>4, <1>6 DEF Queues
    <2>2. \A q \in Request : state'[q] = "Running" <=> q \in running'
      BY <1>1, <1>6 DEF Queues
    <2> QED
      BY <1>1, <1>4, <1>7, <2>1, <2>2 DEF Queues
  <1>9. /\ CacheMove /\ K!CacheInv'
        /\ \A q \in Request \ {v} : allocations'[q] = allocations[q]
    <2>1. InFlight(v)' = <<>>
      BY <1>1 DEF InFlight, Scheduled
    <2> QED
      BY <1>1, <1>6, <2>1, ReleaseMove, SameFlight
  <1>10. BatchIsCurrent' /\ ItemsFit'
    BY <1>1, <1>6, <1>9, BatchStays
  <1>11. Lengths'
    <2>1. Len(Context(v)) \in Nat
      BY <1>2, ContextFacts
    <2>2. 0 <= Len(Context(v))
      BY <2>1
    <2>3. \A q \in Request : Context(q)' = Context(q)
      BY <1>1 DEF Context
    <2>4. state'[v] = "Waiting" /\ Len(generated[v]) < MaxNewLen[v]
      BY <1>1, <1>6 DEF Lengths, Terminal
    <2> QED
      BY <1>1, <1>6, <2>2, <2>3, <2>4 DEF Lengths, Terminal
  <1>12. Held' /\ Loop'
    BY <1>1, <1>6, <1>2 DEF Held, Loop, Scheduled, TypeOK
  <1> QED
    BY <1>8, <1>9, <1>10, <1>11, <1>12

LEMMA FailRunningStep ==
  ASSUME SchedInv, NEW r \in Request, FailRunning(r)
  PROVE  SchedInv' /\ CacheMove
  <1> USE DEF SchedInv
  <1>1. /\ phase = "running" /\ state[r] = "Running" /\ r \in running /\ ~Scheduled(r)
        /\ todo # <<>>
        /\ state' = [state EXCEPT ![r] = "Failed"]
        /\ running' = running \ {r}
        /\ ReleaseAllocation(r)
        /\ todo' = Tail(todo)
        /\ UNCHANGED <<generated, cached_len, arrival_index, waiting, next_arrival, phase, remaining, batch>>
    BY DEF FailRunning, Visiting, IsVictim, RunningIds, FailId
  <1>2. TypeOK
    BY DEF Queues
  <1>3. /\ todo' \in Seq(Request) /\ IsInjective(todo')
        /\ \A i \in DOMAIN todo' : ~Scheduled(todo'[i])
    BY <1>1, <1>2, TailFacts DEF TypeOK, Loop
  <1>5. state \in [Request -> {"Unsubmitted", "Waiting", "Running"} \cup Terminal]
    BY <1>2 DEF TypeOK
  <1>6. state'[r] = "Failed" /\ \A q \in Request \ {r} : state'[q] = state[q]
    BY <1>1, <1>5
  <1>7. TypeOK'
    BY <1>1, <1>2, <1>3 DEF TypeOK, Terminal
  <1>8. Queues'
    <2>1. \A q \in Request : state'[q] = "Waiting" <=> Contains(waiting', q)
      BY <1>1, <1>6 DEF Queues
    <2>2. \A q \in Request : state'[q] = "Running" <=> q \in running'
      BY <1>1, <1>6 DEF Queues
    <2> QED
      BY <1>1, <1>7, <2>1, <2>2 DEF Queues
  <1>9. /\ CacheMove /\ K!CacheInv'
        /\ \A q \in Request \ {r} : allocations'[q] = allocations[q]
    <2>1. InFlight(r)' = <<>>
      BY <1>1 DEF InFlight, Scheduled
    <2> QED
      BY <1>1, <2>1, ReleaseMove, SameFlight
  <1>10. BatchIsCurrent' /\ ItemsFit'
    BY <1>1, <1>6, <1>9, BatchStays
  <1>11. Lengths'
    BY <1>1, <1>6 DEF Lengths, Context, Terminal
  <1>12. Held' /\ Loop'
    BY <1>1, <1>3 DEF Held, Loop, Scheduled
  <1> QED
    BY <1>8, <1>9, <1>10, <1>11, <1>12

LEMMA ReleaseFinishedStep ==
  ASSUME SchedInv, NEW r \in Request, ReleaseFinished(r)
  PROVE  SchedInv' /\ CacheMove
  <1> USE DEF SchedInv
  <1>1. /\ phase = "release" /\ r \in running /\ state[r] \in Terminal
        /\ running' = running \ {r}
        /\ ReleaseAllocation(r)
        /\ phase' = "apply"
        /\ UNCHANGED <<state, generated, cached_len, arrival_index, waiting, next_arrival,
                       todo, remaining, batch>>
    BY DEF ReleaseFinished, requestVars
  <1>2. TypeOK
    BY DEF Queues
  <1>3. state[r] # "Running"
    BY <1>1 DEF Terminal
  <1>4. running' = RunningIds
    BY <1>1, <1>3 DEF Queues, RunningIds
  <1>5. ~Scheduled(r)
    BY <1>3, ScheduledRuns
  <1>7. TypeOK'
    BY <1>1, <1>2 DEF TypeOK
  <1>8. Queues'
    <2>1. \A q \in Request : state'[q] = "Running" <=> q \in running'
      BY <1>1, <1>4 DEF Queues, RunningIds
    <2> QED
      BY <1>1, <1>7, <2>1 DEF Queues
  <1>9. /\ CacheMove /\ K!CacheInv'
        /\ \A q \in Request \ {r} : allocations'[q] = allocations[q]
    <2>1. InFlight(r)' = <<>>
      BY <1>1, <1>5 DEF InFlight, Scheduled
    <2> QED
      BY <1>1, <2>1, ReleaseMove, SameFlight
  <1>10. BatchIsCurrent' /\ ItemsFit'
    BY <1>1, <1>5, <1>9, BatchStays
  <1>11. Lengths'
    BY <1>1 DEF Lengths, Context
  <1>12. Held' /\ Loop'
    BY <1>1 DEF Held, Loop, Scheduled
  <1> QED
    BY <1>8, <1>9, <1>10, <1>11, <1>12

\* fail_batch, one item.
LEMMA FailItemStep ==
  ASSUME SchedInv, NEW r \in Request, FailItem(r)
  PROVE  SchedInv' /\ CacheMove
  <1> USE DEF SchedInv
  <1>1. /\ phase = "fail" /\ batch # <<>> /\ r = Head(batch).id
        /\ state' = [state EXCEPT ![r] = "Failed"]
        /\ running' = running \ {r}
        /\ ReleaseAllocation(r)
        /\ batch' = Tail(batch)
        /\ UNCHANGED <<generated, cached_len, arrival_index, waiting, next_arrival, phase, todo, remaining>>
    BY DEF FailItem, FailId, callVars
  <1>2. TypeOK
    BY DEF Queues
  <1>3. batch \in Seq(Item) /\ 1 \in DOMAIN batch /\ r = batch[1].id /\ batch' = RemoveAt(batch, 1)
        /\ IdsDistinct(batch)
    BY <1>1, <1>2, TailFacts, TailIsRemoveAt DEF TypeOK, BatchIsCurrent, IdsDistinct
  <1>4. /\ batch' \in Seq(Item) /\ IdsDistinct(batch')
        /\ \A j \in DOMAIN batch' : \E m \in DOMAIN batch : m # 1 /\ batch'[j] = batch[m]
        /\ \A m \in DOMAIN batch : m # 1 => \E j \in DOMAIN batch' : batch'[j] = batch[m]
        /\ InFlightIn(batch', r) = <<>>
        /\ \A q : q # r => InFlightIn(batch', q) = InFlightIn(batch, q)
    BY <1>3, BatchRemove, ZenonT(60)
  <1>5. state \in [Request -> {"Unsubmitted", "Waiting", "Running"} \cup Terminal]
    BY <1>2 DEF TypeOK
  <1>6. state'[r] = "Failed" /\ \A q \in Request \ {r} : state'[q] = state[q]
    BY <1>1, <1>5
  <1>7. TypeOK'
    BY <1>1, <1>2, <1>4 DEF TypeOK, Terminal
  <1>8. Queues'
    <2>0. state[r] = "Running" /\ r \in running
      BY <1>3, ItemFacts, ScheduledRuns, <1>2
    <2>1. \A q \in Request : state'[q] = "Waiting" <=> Contains(waiting', q)
      BY <1>1, <1>6, <2>0 DEF Queues
    <2>2. \A q \in Request : state'[q] = "Running" <=> q \in running'
      BY <1>1, <1>6 DEF Queues
    <2> QED
      BY <1>1, <1>7, <2>1, <2>2 DEF Queues
  <1>9. /\ CacheMove /\ K!CacheInv'
        /\ \A q \in Request \ {r} : allocations'[q] = allocations[q]
    <2>1. InFlight(r)' = <<>> /\ \A q \in Request \ {r} : InFlight(q)' = InFlight(q)
      BY <1>4, InFlightOf
    <2> QED
      BY <1>1, <2>1, ReleaseMove
  <1>10. BatchIsCurrent' /\ ItemsFit'
    <2>1. \A m \in DOMAIN batch : m # 1 => batch[m].id \in Request \ {r}
      BY <1>2, <1>3, ItemFacts DEF IdsDistinct
    <2>2. \A j \in DOMAIN batch' : \E m \in DOMAIN batch :
             batch'[j] = batch[m] /\ batch[m].id \in Request \ {r}
      BY <1>4, <2>1
    <2> QED
      BY <1>1, <1>4, <1>6, <1>9, <2>2, ItemsStay
  <1>11. Lengths'
    BY <1>1, <1>6 DEF Lengths, Context, Terminal
  <1>12. Held'
    <2>1. \A q \in running' : Scheduled(q) => Scheduled(q)'
      <3> SUFFICES ASSUME NEW q \in running', Scheduled(q) PROVE Scheduled(q)'
        OBVIOUS
      <3>1. PICK m \in DOMAIN batch : batch[m].id = q
        BY DEF Scheduled
      <3>2. m # 1
        BY <3>1, <1>1, <1>3
      <3> QED
        BY <3>1, <3>2, <1>4 DEF Scheduled
    <2> QED
      BY <1>1, <2>1 DEF Held
  <1>13. Loop'
    BY <1>1 DEF Loop
  <1> QED
    BY <1>8, <1>9, <1>10, <1>11, <1>12, <1>13

-----------------------------------------------------------------------------
(* schedule_one.                                                           *)

LEMMA PrefixFacts ==
  ASSUME NEW S, NEW c \in Seq(S), NEW x \in Nat, NEW y \in Nat, x <= y, y <= Len(c)
  PROVE  /\ SubSeq(c, 1, y) \in Seq(S) /\ Len(SubSeq(c, 1, y)) = y
         /\ SubSeq(c, x + 1, y) \in Seq(S) /\ Len(SubSeq(c, x + 1, y)) = y - x
         /\ SubSeq(SubSeq(c, 1, y), 1, x) = SubSeq(c, 1, x)
         /\ SubSeq(SubSeq(c, 1, y), x + 1, y) = SubSeq(c, x + 1, y)
         /\ SubSeq(c, 1, x) \o SubSeq(c, x + 1, y) = SubSeq(c, 1, y)
  <1>1. /\ SubSeq(c, 1, y) \in Seq(S) /\ Len(SubSeq(c, 1, y)) = y
        /\ SubSeq(c, x + 1, y) \in Seq(S) /\ Len(SubSeq(c, x + 1, y)) = y - x
    OBVIOUS
  <1>2. SubSeq(SubSeq(c, 1, y), 1, x) = SubSeq(c, 1, x)
    OBVIOUS
  <1>3. SubSeq(SubSeq(c, 1, y), x + 1, y) = SubSeq(c, x + 1, y)
    OBVIOUS
  <1>4. SubSeq(c, 1, x) \o SubSeq(c, x + 1, y) = SubSeq(c, 1, y)
    OBVIOUS
  <1> QED
    BY <1>1, <1>2, <1>3, <1>4

LEMMA MinOfThree ==
  ASSUME NEW a \in Nat, NEW b \in Nat, NEW c \in Nat
  PROVE  /\ Min({a, b, c}) \in {a, b, c}
         /\ Min({a, b, c}) <= a /\ Min({a, b, c}) <= b /\ Min({a, b, c}) <= c
  <1>1. \E x \in {a, b, c} : \A y \in {a, b, c} : x <= y
    OBVIOUS
  <1> QED
    BY <1>1 DEF Min

\* The chunk fits the budget and the context, and samples at its end.
LEMMA ChunkFacts ==
  ASSUME TypeOK, NEW r \in Request, NEW plan,
         Start(r, plan) \in Nat, Start(r, plan) < Len(Context(r)), remaining > 0,
         NEW n, n = ScheduledLen(r, plan)
  PROVE  /\ n \in Nat /\ n > 0 /\ n <= remaining
         /\ Start(r, plan) + n <= Len(Context(r))
         /\ n # Pending(r, plan) => Start(r, plan) + n < Len(Context(r))
  <1>1. /\ remaining \in Nat /\ MaxChunk \in Nat /\ MaxChunk > 0
        /\ Len(Context(r)) \in Nat
    BY ContextFacts, ConfigAssumption DEF TypeOK
  <1>2. CASE plan = <<>> /\ WorkIsDecode(r)
    <2>1. Min({1, 1, remaining}) = 1 /\ {1, 1, remaining} = {1, remaining}
      BY <1>1, MinOfThree
    <2>2. n = 1 /\ Pending(r, plan) = 1
      BY <1>2, <2>1 DEF ScheduledLen, Pending
    <2> QED
      BY <2>2, <1>1
  <1>3. CASE ~(plan = <<>> /\ WorkIsDecode(r))
    <2> DEFINE p == Len(Context(r)) - Start(r, plan)
    <2>1. p \in Nat /\ p > 0
      BY <1>1
    <2>2. Pending(r, plan) = p /\ n = Min({MaxChunk, p, remaining})
      BY <1>3 DEF Pending, ScheduledLen
    <2>3. n \in {MaxChunk, p, remaining} /\ n <= p /\ n <= remaining
      BY <1>1, <2>1, <2>2, MinOfThree
    <2> QED
      BY <1>1, <2>1, <2>2, <2>3
  <1> QED
    BY <1>2, <1>3

LEMMA ReserveLeavesOthers ==
  ASSUME allocations \in [Request -> Seq(BlockId)], NEW r \in Request, NEW plan, NEW n,
         ReserveTo(r, plan, n), NEW q \in Request, q # r
  PROVE  allocations'[q] = allocations[q]
  BY DEF ReserveTo

LEMMA CacheTypesNext ==
  K!CacheInv' => allocations' \in [Request -> Seq(BlockId)]
  BY DEF K!CacheInv, K!TypeOK, K!BlockId, BlockId

\* The item schedule_one appends.
NewItem(r, plan, table) ==
  [id          |-> r,
   input       |-> SubSeq(Context(r), Start(r, plan) + 1, Required(r, plan)),
   start       |-> Start(r, plan),
   block_table |-> table,
   need_sample |-> ScheduledLen(r, plan) = Pending(r, plan)]

\* What schedule_one does to the batch and to what is in flight.
LEMMA ScheduleOneFacts ==
  ASSUME SchedInv, NEW r \in Request, NEW plan, ScheduleOne(r, plan),
         ~Scheduled(r), Start(r, plan) \in Nat, Start(r, plan) < Len(Context(r)),
         remaining > 0,
         NEW e, e = NewItem(r, plan, allocations'[r])
  PROVE  /\ Required(r, plan) \in Nat
         /\ Start(r, plan) < Required(r, plan) /\ Required(r, plan) <= Len(Context(r))
         /\ e.input \in Seq(Token) /\ e.input # <<>>
         /\ e.start + Len(e.input) = Required(r, plan)
         /\ ~e.need_sample => Required(r, plan) < Len(Context(r))
         /\ allocations'[r] \in Seq(BlockId) => batch' \in Seq(Item)
         /\ IdsDistinct(batch')
         /\ \A j \in DOMAIN batch' : batch'[j] = e \/ \E m \in DOMAIN batch : batch'[j] = batch[m]
         /\ \A q : Scheduled(q)' <=> Scheduled(q) \/ q = r
         /\ InFlight(r)' = e.input
         /\ \A q : q # r => InFlight(q)' = InFlight(q)
         /\ remaining' \in 0 .. MaxBatchLen
         /\ \A q \in Request \ {r} : allocations'[q] = allocations[q]
  <1> DEFINE n == ScheduledLen(r, plan)
             st == Start(r, plan)
             c == Context(r)
  <1>0. TypeOK /\ batch \in Seq(Item) /\ c \in Seq(Token) /\ Len(c) \in Nat /\ remaining \in 0 .. MaxBatchLen
    BY ContextFacts DEF SchedInv, Queues, TypeOK
  <1>1. /\ n \in Nat /\ n > 0 /\ n <= remaining /\ st + n <= Len(c)
        /\ n # Pending(r, plan) => st + n < Len(c)
    BY <1>0, ChunkFacts
  <1>2. /\ ReserveTo(r, plan, Required(r, plan))
        /\ batch' = Append(batch, e)
        /\ remaining' = remaining - n
    BY DEF ScheduleOne, NewItem
  <1>3. Required(r, plan) = st + n
    BY DEF Required
  <1>4. st \in Nat
    OBVIOUS
  <1> HIDE DEF n, st, c
  <1>5. st + n \in Nat /\ st < st + n /\ st <= st + n
    BY <1>1, <1>4
  <1>6. /\ e.id = r /\ e.start = st /\ e.input = SubSeq(c, st + 1, st + n)
        /\ e.need_sample <=> n = Pending(r, plan)
        /\ e.block_table = allocations'[r]
    BY <1>3 DEF st, n, c, NewItem
  <1>7. e.input \in Seq(Token) /\ Len(e.input) = n /\ e.input # <<>>
    <2> DEFINE t == SubSeq(c, st + 1, st + n)
    <2>1. t \in Seq(Token) /\ Len(t) = (st + n) - st
      BY <1>0, <1>1, <1>4, <1>5, PrefixFacts
    <2> HIDE DEF t
    <2>2. Len(t) = n
      BY <2>1, <1>1, <1>4
    <2>3. t # <<>>
      BY <2>1, <2>2, <1>1
    <2> QED
      BY <2>1, <2>2, <2>3, <1>6, Zenon DEF t
  <1>9. allocations'[r] \in Seq(BlockId) => e \in Item
    BY <1>4, <1>7 DEF Item, st, NewItem
  <1>10. batch \in Seq(Item \cup {e}) /\ e \in Item \cup {e}
    BY <1>0
  <1>11. IdsDistinct(batch) /\ \A i \in DOMAIN batch : batch[i].id # e.id
    BY <1>6 DEF SchedInv, BatchIsCurrent, IdsDistinct, Scheduled
  <1>12. /\ IdsDistinct(batch')
         /\ \A j \in DOMAIN batch' : batch'[j] = e \/ \E m \in DOMAIN batch : batch'[j] = batch[m]
         /\ \A m \in DOMAIN batch : m \in DOMAIN batch' /\ batch'[m] = batch[m]
         /\ \E j \in DOMAIN batch' : batch'[j] = e
         /\ InFlightIn(batch', r) = e.input
         /\ \A q : q # r => InFlightIn(batch', q) = InFlightIn(batch, q)
    <2> DEFINE b == Append(batch, e)
    <2>1. batch' = b /\ e.id = r
      BY <1>2, <1>6
    <2>2. /\ IdsDistinct(b)
          /\ \A j \in DOMAIN b : b[j] = e \/ \E m \in DOMAIN batch : b[j] = batch[m]
          /\ \A m \in DOMAIN batch : m \in DOMAIN b /\ b[m] = batch[m]
          /\ \E j \in DOMAIN b : b[j] = e
          /\ InFlightIn(b, e.id) = e.input
          /\ \A q : q # e.id => InFlightIn(b, q) = InFlightIn(batch, q)
      BY <1>10, <1>11, BatchAppend
    <2> HIDE DEF b
    <2> QED
      BY <2>1, <2>2, Zenon
  <1>13. \A q : Scheduled(q)' <=> Scheduled(q) \/ q = r
    BY <1>6, <1>12 DEF Scheduled
  <1>14. InFlight(r)' = e.input /\ \A q : q # r => InFlight(q)' = InFlight(q)
    BY <1>12, InFlightOf
  <1>15. allocations'[r] \in Seq(BlockId) => batch' \in Seq(Item)
    BY <1>0, <1>2, <1>9
  <1>16. remaining' \in 0 .. MaxBatchLen
    BY <1>0, <1>1, <1>2, ConfigAssumption
  <1>17. \A q \in Request \ {r} : allocations'[q] = allocations[q]
    BY <1>2, CacheTypes, ReserveLeavesOthers DEF SchedInv
  <1> QED
    BY <1>1, <1>3, <1>5, <1>6, <1>7, <1>12, <1>13, <1>14, <1>15, <1>16, <1>17 DEF st, n, c

LEMMA ScheduleOneItems ==
  ASSUME SchedInv, NEW r \in Request, NEW plan, ScheduleOne(r, plan),
         ~Scheduled(r), Start(r, plan) \in Nat, Start(r, plan) < Len(Context(r)),
         remaining > 0,
         state'[r] = "Running", cached_len'[r] = Start(r, plan), generated' = generated,
         \A q \in Request \ {r} : state'[q] = state[q] /\ cached_len'[q] = cached_len[q]
  PROVE  BatchIsCurrent' /\ ItemsFit'
  <1> DEFINE e == NewItem(r, plan, allocations'[r])
  <1>1. /\ e.input # <<>> /\ e.start + Len(e.input) = Required(r, plan)
        /\ Required(r, plan) <= Len(Context(r))
        /\ ~e.need_sample => Required(r, plan) < Len(Context(r))
        /\ IdsDistinct(batch')
        /\ \A j \in DOMAIN batch' : batch'[j] = e \/ \E m \in DOMAIN batch : batch'[j] = batch[m]
        /\ \A q \in Request \ {r} : allocations'[q] = allocations[q]
    BY ScheduleOneFacts
  <1>2. ItemOk(e, state', cached_len', generated', allocations')
    <2>1. /\ e.id = r /\ e.start = Start(r, plan) /\ e.block_table = allocations'[r]
          /\ e.input = SubSeq(Context(r), Start(r, plan) + 1, Required(r, plan))
      BY DEF NewItem
    <2>2. Prompt[e.id] \o generated'[e.id] = Context(r)
      BY <2>1 DEF Context
    <2> HIDE DEF e
    <2> QED
      BY <1>1, <2>1, <2>2, Zenon DEF ItemOk
  <1> HIDE DEF e
  <1>3. \A m \in DOMAIN batch : batch[m].id \in Request \ {r}
    BY ItemFacts DEF SchedInv, Queues, Scheduled
  <1>4. \A j \in DOMAIN batch' :
           ItemOk(batch'[j], state', cached_len', generated', allocations')
    <2> SUFFICES ASSUME NEW j \in DOMAIN batch', NEW m \in DOMAIN batch, batch'[j] = batch[m]
                 PROVE  ItemOk(batch'[j], state', cached_len', generated', allocations')
      BY <1>1, <1>2
    <2>1. batch[m].id \in Request \ {r}
      BY <1>3
    <2> QED
      BY <1>1, <2>1, ItemStays DEF SchedInv
  <1> QED
    BY <1>1, <1>4, ItemsOk

LEMMA PrefixOfConcat ==
  ASSUME NEW S, NEW a \in Seq(S), NEW b \in Seq(S), NEW n \in Nat, n <= Len(a)
  PROVE  SubSeq(a \o b, 1, n) = SubSeq(a, 1, n)
  <1>1. /\ a \o b \in Seq(S) /\ Len(a \o b) = Len(a) + Len(b)
        /\ \A i \in 1 .. Len(a) : (a \o b)[i] = a[i]
        /\ Len(a) \in Nat /\ Len(b) \in Nat
    OBVIOUS
  <1> DEFINE c == a \o b
  <1> HIDE DEF c
  <1>2. n <= Len(c) /\ c \in Seq(S) /\ \A i \in 1 .. n : c[i] = a[i]
    BY <1>1 DEF c
  <1>3. SubSeq(c, 1, n) = SubSeq(a, 1, n)
    BY <1>2
  <1> QED
    BY <1>3 DEF c

\* The texts of KvCache contain what the scheduler reserves for.
LEMMA ContextTexts ==
  ASSUME TypeOK, NEW r \in Request
  PROVE  /\ Prompt[r] \in Texts
         /\ \A l \in Nat : l <= Len(Context(r)) => SubSeq(Context(r), 1, l) \in Texts
  <1>1. generated[r] \in Seq(OutToken) /\ Len(generated[r]) <= MaxNewLen[r]
    BY DEF TypeOK
  <1>2. \A l \in Nat : l <= Len(Context(r)) => SubSeq(Context(r), 1, l) \in Texts
    BY <1>1, TextsFacts DEF Context
  <1>3. <<>> \in Seq(OutToken) /\ Len(<<>>) <= MaxNewLen[r]
    BY MaxNewLenAssumption
  <1>4. Prompt[r] \in Seq(Token) /\ Len(Prompt[r]) \in Nat
    BY ContextType, <1>3
  <1>5. /\ Prompt[r] \o <<>> = Prompt[r]
        /\ SubSeq(Prompt[r], 1, Len(Prompt[r])) = Prompt[r]
    BY <1>4
  <1>6. Len(Prompt[r]) <= Len(Prompt[r] \o <<>>)
    BY <1>4, <1>5
  <1>7. SubSeq(Prompt[r] \o <<>>, 1, Len(Prompt[r])) \in Texts
    BY <1>3, <1>4, <1>6, TextsFacts, Zenon
  <1> QED
    BY <1>2, <1>5, <1>7, Zenon

LEMMA ScheduleRunningStep ==
  ASSUME SchedInv, NEW r \in Request, ScheduleRunning(r)
  PROVE  SchedInv' /\ CacheMove
  <1>1. /\ phase = "running" /\ remaining > 0 /\ todo # <<>> /\ r = Head(todo)
        /\ state[r] = "Running"
        /\ ScheduleOne(r, <<>>)
        /\ todo' = Tail(todo)
        /\ UNCHANGED <<state, generated, cached_len, arrival_index, waiting, running,
                       next_arrival, phase>>
    BY DEF ScheduleRunning, Visiting, requestVars, queueVars
  <1>2. TypeOK
    BY DEF SchedInv, Queues
  <1>3. r \in running
    BY <1>1 DEF SchedInv, Queues
  <1>4. /\ todo \in Seq(Request) /\ IsInjective(todo) /\ \A i \in DOMAIN todo : ~Scheduled(todo[i])
    BY <1>1, <1>2 DEF SchedInv, Loop, TypeOK
  <1>5. /\ ~Scheduled(r)
        /\ todo' \in Seq(Request) /\ IsInjective(todo')
        /\ \A i \in DOMAIN todo' : todo'[i] # r /\ ~Scheduled(todo'[i])
    BY <1>1, <1>4, TailFacts DEF Contains
  <1>6. /\ Start(r, <<>>) = cached_len[r] /\ cached_len[r] \in Nat
        /\ cached_len[r] < Len(Context(r))
    BY <1>1, <1>2, ContextFacts DEF Start, SchedInv, Lengths
  <1> DEFINE e == NewItem(r, <<>>, allocations'[r])
             m == Required(r, <<>>)
             text == SubSeq(Context(r), 1, m)
  <1>7. /\ m \in Nat /\ cached_len[r] < m /\ m <= Len(Context(r))
        /\ allocations'[r] \in Seq(BlockId) => batch' \in Seq(Item)
        /\ \A q : Scheduled(q)' <=> Scheduled(q) \/ q = r
        /\ InFlight(r)' = e.input
        /\ \A q : q # r => InFlight(q)' = InFlight(q)
        /\ remaining' \in 0 .. MaxBatchLen
    BY <1>1, <1>5, <1>6, ScheduleOneFacts
  <1>8. e.input = SubSeq(Context(r), cached_len[r] + 1, m)
    BY <1>6 DEF NewItem
  <1>9. ReserveTo(r, <<>>, m)
    BY <1>1 DEF ScheduleOne
  <1> HIDE DEF e, m
  <1>10. /\ Context(r) \in Seq(Token) /\ Len(Context(r)) \in Nat
         /\ generated[r] \in Seq(OutToken) /\ Len(generated[r]) <= MaxNewLen[r]
    BY <1>2, ContextFacts DEF TypeOK
  <1>11. text \in Texts
    BY <1>2, <1>7, ContextTexts
  <1>12. /\ Len(text) = m
         /\ SubSeq(text, 1, cached_len[r]) = SubSeq(Context(r), 1, cached_len[r])
         /\ SubSeq(text, cached_len[r] + 1, m) = SubSeq(Context(r), cached_len[r] + 1, m)
    <2>1. /\ cached_len[r] \in Nat /\ m \in Nat /\ cached_len[r] <= m /\ m <= Len(Context(r))
          /\ Context(r) \in Seq(Token)
      BY <1>6, <1>7, <1>10
    <2> QED
      BY <2>1, PrefixFacts, ZenonT(60)
  <1> HIDE DEF text
  <1>13. Len(Written(r)) = cached_len[r] /\ Written(r) = SubSeq(Context(r), 1, cached_len[r])
    BY <1>3, WrittenLength DEF Written
  <1>14. K!Grow(r, text)
    <2>1. allocations[r] # <<>>
      BY <1>3, Tables
    <2>2. [q \in Request |-> InFlight(q)][r] = <<>>
      BY <1>5 DEF InFlight
    <2>3. [q \in Request |-> Written(q)][r] = Written(r)
      OBVIOUS
    <2>4. Len(text) > Len(Written(r)) /\ SubSeq(text, 1, Len(Written(r))) = Written(r)
      BY <1>7, <1>12, <1>13
    <2>5. K!ReserveTo(r, <<>>, Len(text))
      BY <1>9, <1>12, SameReserveTo
    <2>6. [q \in Request |-> InFlight(q)]' =
            [[q \in Request |-> InFlight(q)] EXCEPT ![r] =
               SubSeq(text, Len(Written(r)) + 1, Len(text))]
      <3>1. InFlight(r)' = SubSeq(text, Len(Written(r)) + 1, Len(text))
        BY <1>7, <1>8, <1>12, <1>13
      <3>2. \A q \in Request \ {r} : InFlight(q)' = InFlight(q)
        BY <1>7
      <3> QED
        BY <3>1, <3>2
    <2>7. [q \in Request |-> Written(q)]' = [q \in Request |-> Written(q)]
      BY <1>1, WrittenStays
    <2> QED
      BY <2>1, <2>2, <2>3, <2>4, <2>5, <2>6, <2>7, Zenon DEF K!Grow
  <1>15. CacheMove
    BY <1>11, <1>14 DEF CacheMove, K!Next
  <1>16. K!CacheInv'
    BY <1>15, CacheKeeps DEF SchedInv, CacheMove
  <1>17. allocations'[r] \in Seq(BlockId)
    BY <1>16, CacheTypesNext
  <1>18. TypeOK'
    BY <1>1, <1>2, <1>5, <1>7, <1>17 DEF TypeOK
  <1>19. Queues'
    BY <1>1, <1>18 DEF SchedInv, Queues, RunningIds
  <1>20. BatchIsCurrent' /\ ItemsFit'
    BY <1>1, <1>5, <1>6, ScheduleOneItems
  <1>21. Lengths'
    BY <1>1 DEF SchedInv, Lengths, Context
  <1>22. Held'
    BY <1>1, <1>7 DEF SchedInv, Held
  <1>23. Loop'
    <2>1. \A q : q # r /\ ~Scheduled(q) => \A i \in DOMAIN batch' : batch'[i].id # q
      BY <1>7 DEF Scheduled
    <2> QED
      BY <1>5, <2>1 DEF Loop, Scheduled
  <1> QED
    BY <1>15, <1>16, <1>19, <1>20, <1>21, <1>22, <1>23 DEF SchedInv

\* The plan of an admission: whole blocks of the prompt, not all of it.
LEMMA PlanFacts ==
  ASSUME NEW r \in Request
  PROVE  \E k \in 0 .. Len(Prompt[r]) :
           /\ IsReuse(pool, Prompt[r], k)
           /\ Plan(r) = ReusePlan(pool, Prompt[r], k)
           /\ Len(Plan(r)) = k
           /\ k * BlockLen < Len(Prompt[r])
           /\ Plan(r) = <<>> <=> k = 0
  <1>1. Prompt[r] \in Seq(Token) /\ Prompt[r] # <<>> /\ Len(Prompt[r]) \in Nat \ {0}
    BY PromptAssumption, ContextType
  <1> DEFINE k == CHOOSE k \in 0 .. Len(Prompt[r]) : IsReuse(pool, Prompt[r], k)
  <1>2. \E j \in 0 .. Len(Prompt[r]) : IsReuse(pool, Prompt[r], j)
    BY <1>1, ReuseExists
  <1>3. k \in 0 .. Len(Prompt[r]) /\ IsReuse(pool, Prompt[r], k)
    BY <1>2
  <1>4. Plan(r) = ReusePlan(pool, Prompt[r], k)
    BY DEF Plan
  <1> HIDE DEF k
  <1>5. k \in Nat /\ Len(Prompt[r]) - 1 \in Nat
    BY <1>1, <1>3
  <1>6. k * BlockLen < Len(Prompt[r])
    <2> DEFINE max == FullBlocks(Len(Prompt[r]) - 1)
    <2>1. max \in Nat /\ max * BlockLen <= Len(Prompt[r]) - 1 /\ k <= max
      BY <1>3, <1>5, FullBlocksFacts DEF IsReuse, MaxReusableBlocks
    <2> HIDE DEF max
    <2>2. k * BlockLen <= max * BlockLen
      BY <2>1, <1>5, BlockLenAssumption
    <2>3. k * BlockLen \in Nat /\ max * BlockLen \in Nat
      BY <2>1, <1>5, BlockLenAssumption
    <2> QED
      BY <2>1, <2>2, <2>3, <1>1
  <1>7. Len(Plan(r)) = k /\ (Plan(r) = <<>> <=> k = 0)
    <2>1. Plan(r) = [j \in 1 .. k |-> SealedBlock(pool, PrefixHash(Prompt[r], j))]
      BY <1>4 DEF ReusePlan
    <2> QED
      BY <2>1, <1>5
  <1> QED
    BY <1>3, <1>4, <1>6, <1>7

LEMMA AdmitWaitingStep ==
  ASSUME SchedInv, NEW r \in Request, AdmitWaiting(r)
  PROVE  SchedInv' /\ CacheMove
  <1> DEFINE plan == Plan(r)
  <1>1. /\ phase = "waiting" /\ remaining > 0 /\ waiting # <<>> /\ r = Head(waiting)
        /\ ScheduleOne(r, plan)
        /\ waiting' = Tail(waiting)
        /\ state' = [state EXCEPT ![r] = "Running"]
        /\ cached_len' = [cached_len EXCEPT ![r] = @ + Len(plan) * BlockLen]
        /\ running' = running \cup {r}
        /\ UNCHANGED <<generated, arrival_index, next_arrival, phase, todo>>
    BY DEF AdmitWaiting
  <1>2. TypeOK
    BY DEF SchedInv, Queues
  <1>3. /\ waiting \in Seq(Request) /\ IsInjective(waiting)
        /\ waiting' \in Seq(Request) /\ IsInjective(waiting')
        /\ \A q : Contains(waiting', q) <=> Contains(waiting, q) /\ q # r
        /\ Contains(waiting, r)
    <2>1. waiting \in Seq(Request) /\ IsInjective(waiting)
      BY <1>2 DEF SchedInv, Queues, TypeOK
    <2> QED
      BY <1>1, <2>1, TailFacts
  <1>4. /\ state[r] = "Waiting" /\ cached_len[r] = 0 /\ r \notin running /\ ~Scheduled(r)
        /\ Len(generated[r]) < MaxNewLen[r]
    <2>1. state[r] = "Waiting"
      BY <1>3 DEF SchedInv, Queues
    <2> QED
      BY <1>1, <2>1, ScheduledRuns DEF SchedInv, Queues, Lengths, Terminal
  <1>5. /\ Prompt[r] \in Seq(Token) /\ Len(Prompt[r]) \in Nat \ {0}
        /\ generated[r] \in Seq(OutToken) /\ Len(generated[r]) \in Nat
        /\ Context(r) \in Seq(Token) /\ Len(Context(r)) \in Nat
        /\ Len(Context(r)) = Len(Prompt[r]) + Len(generated[r])
    BY <1>2, ContextFacts
  <1>6. PICK k \in 0 .. Len(Prompt[r]) :
           /\ IsReuse(pool, Prompt[r], k)
           /\ plan = ReusePlan(pool, Prompt[r], k)
           /\ Len(plan) = k
           /\ k * BlockLen < Len(Prompt[r])
           /\ plan = <<>> <=> k = 0
    BY PlanFacts
  <1> DEFINE st == k * BlockLen
             m == Required(r, plan)
             text == SubSeq(Context(r), 1, m)
             e == NewItem(r, plan, allocations'[r])
  <1>7. /\ Start(r, plan) = st /\ st \in Nat /\ st < Len(Context(r)) /\ st <= Len(Prompt[r])
    <2>1. k \in Nat /\ st \in Nat
      BY BlockLenAssumption
    <2>2. Start(r, plan) = st
      BY <1>4, <1>6, <2>1, BlockLenAssumption DEF Start
    <2>3. st < Len(Prompt[r]) /\ Len(Prompt[r]) \in Nat /\ Len(generated[r]) \in Nat
      BY <1>5, <1>6
    <2>4. st < Len(Prompt[r]) + Len(generated[r]) /\ st <= Len(Prompt[r])
      <3>1. \A a, b, c \in Nat : c < a => c < a + b /\ c <= a
        OBVIOUS
      <3> HIDE DEF st
      <3> QED
        BY <2>1, <2>3, <3>1
    <2>5. st < Len(Context(r))
      BY <1>5, <2>4
    <2> QED
      BY <2>1, <2>2, <2>4, <2>5
  <1> HIDE DEF plan, st
  <1>8. /\ m \in Nat /\ st < m /\ m <= Len(Context(r))
        /\ allocations'[r] \in Seq(BlockId) => batch' \in Seq(Item)
        /\ \A q : Scheduled(q)' <=> Scheduled(q) \/ q = r
        /\ InFlight(r)' = e.input
        /\ \A q : q # r => InFlight(q)' = InFlight(q)
        /\ remaining' \in 0 .. MaxBatchLen
    BY <1>1, <1>4, <1>7, ScheduleOneFacts
  <1>9. e.input = SubSeq(Context(r), st + 1, m)
    BY <1>7 DEF NewItem
  <1>10. ReserveTo(r, plan, m)
    BY <1>1 DEF ScheduleOne
  <1> HIDE DEF e, m
  <1>11. text \in Texts /\ Prompt[r] \in Texts
    BY <1>2, <1>8, ContextTexts
  <1>12. /\ Len(text) = m
         /\ SubSeq(text, 1, st) = SubSeq(Context(r), 1, st)
         /\ SubSeq(text, st + 1, m) = SubSeq(Context(r), st + 1, m)
    <2>1. st <= m
      BY <1>7, <1>8
    <2>2. /\ st \in Nat /\ m \in Nat /\ st <= m /\ m <= Len(Context(r))
          /\ Context(r) \in Seq(Token)
      BY <1>5, <1>7, <1>8, <2>1, Zenon
    <2> QED
      BY <2>2, PrefixFacts, ZenonT(60)
  <1>13. SubSeq(Context(r), 1, st) = SubSeq(Prompt[r], 1, st)
    <2>1. generated[r] \in Seq(Token)
      BY <1>5, ContextType
    <2> QED
      BY <1>5, <1>7, <2>1, PrefixOfConcat, Zenon DEF Context
  <1> HIDE DEF text
  <1>14. /\ state'[r] = "Running" /\ cached_len'[r] = st
         /\ \A q \in Request \ {r} : state'[q] = state[q] /\ cached_len'[q] = cached_len[q]
    <2>1. 0 + st = st
      BY <1>7
    <2> QED
      BY <1>1, <1>2, <1>4, <1>6, <2>1 DEF TypeOK, st
  <1>15. K!Admit(r, Prompt[r], text)
    <2>1. allocations[r] = <<>>
      BY <1>4, Tables
    <2>2. Prompt[r] # <<>>
      BY <1>5
    <2>3. K!IsReuse(pool, Prompt[r], k) /\ plan = K!ReusePlan(pool, Prompt[r], k)
      BY <1>6, SameReuse
    <2>4. Len(text) > k * BlockLen
          /\ SubSeq(text, 1, k * BlockLen) = SubSeq(Prompt[r], 1, k * BlockLen)
      BY <1>7, <1>8, <1>12, <1>13 DEF st
    <2>5. K!ReserveTo(r, K!ReusePlan(pool, Prompt[r], k), Len(text))
      BY <1>10, <1>12, <2>3, SameReserveTo
    <2>6. [q \in Request |-> Written(q)]' =
            [[q \in Request |-> Written(q)] EXCEPT ![r] = SubSeq(Prompt[r], 1, k * BlockLen)]
      <3>1. Written(r)' = SubSeq(Prompt[r], 1, k * BlockLen)
        <4>1. r \in running' /\ Prompt[r] \o generated'[r] = Context(r)
          BY <1>1 DEF Context
        <4>2. Written(r)' = SubSeq(Context(r), 1, st)
          BY <4>1, <1>14 DEF Written, Context
        <4> QED
          BY <4>2, <1>13 DEF st
      <3>2. \A q \in Request \ {r} : Written(q)' = Written(q)
        BY <1>1, <1>14, WrittenStays
      <3> QED
        BY <3>1, <3>2
    <2>7. [q \in Request |-> InFlight(q)]' =
            [[q \in Request |-> InFlight(q)] EXCEPT ![r] =
               SubSeq(text, k * BlockLen + 1, Len(text))]
      <3>1. InFlight(r)' = SubSeq(text, k * BlockLen + 1, Len(text))
        BY <1>8, <1>9, <1>12 DEF st
      <3>2. \A q \in Request \ {r} : InFlight(q)' = InFlight(q)
        BY <1>8
      <3> QED
        BY <3>1, <3>2
    <2> QED
      BY <2>1, <2>2, <2>3, <2>4, <2>5, <2>6, <2>7, Zenon DEF K!Admit
  <1>16. CacheMove
    BY <1>11, <1>15 DEF CacheMove, K!Next
  <1>17. K!CacheInv'
    BY <1>16, CacheKeeps DEF SchedInv, CacheMove
  <1>18. allocations'[r] \in Seq(BlockId)
    BY <1>17, CacheTypesNext
  <1>19. TypeOK'
    <2>1. cached_len' \in [Request -> Nat]
      BY <1>1, <1>2, <1>7, <1>14 DEF TypeOK
    <2>2. state' \in [Request -> {"Unsubmitted", "Waiting", "Running"} \cup Terminal]
      BY <1>1, <1>2 DEF TypeOK
    <2> QED
      BY <1>1, <1>2, <1>3, <1>8, <1>18, <2>1, <2>2 DEF TypeOK
  <1>20. Queues'
    <2>1. \A q \in Request : state'[q] = "Waiting" <=> Contains(waiting', q)
      BY <1>3, <1>14 DEF SchedInv, Queues
    <2>2. \A q \in Request : state'[q] = "Running" <=> q \in running'
      BY <1>1, <1>14 DEF SchedInv, Queues
    <2> QED
      BY <1>1, <1>3, <1>19, <2>1, <2>2 DEF Queues
  <1>21. BatchIsCurrent' /\ ItemsFit'
    BY <1>1, <1>4, <1>7, <1>14, ScheduleOneItems
  <1>22. Lengths'
    <2>1. \A q \in Request : Len(Context(q)') = Len(Context(q))
      BY <1>1 DEF Context
    <2> QED
      BY <1>1, <1>4, <1>7, <1>14, <2>1 DEF SchedInv, Lengths, Terminal
  <1>23. Held'
    BY <1>1, <1>8, <1>14, <1>2 DEF SchedInv, Held, TypeOK
  <1>24. Loop'
    BY <1>1 DEF Loop
  <1> QED
    BY <1>16, <1>17, <1>20, <1>21, <1>22, <1>23, <1>24 DEF SchedInv

-----------------------------------------------------------------------------
(* apply_result, one item.                                                 *)

LEMMA SealLeavesOthers ==
  ASSUME allocations \in [Request -> Seq(BlockId)], NEW r \in Request, NEW text, NEW n,
         SealBlocks(r, text, n), NEW q \in Request, q # r
  PROVE  allocations'[q] = allocations[q]
  BY DEF SealBlocks

\* The tokens an answer completes are those of the request's context, the
\* sampled one left out.
LEMMA ComputedText ==
  ASSUME TypeOK, NEW r \in Request, NEW tokens \in Seq(OutToken),
         NEW len \in Nat, cached_len[r] <= len, len <= Len(Context(r))
  PROVE  LET c == Prompt[r] \o (generated[r] \o tokens) IN
         /\ Len(c) = Len(Context(r)) + Len(tokens)
         /\ SubSeq(c, 1, len) = SubSeq(Context(r), 1, cached_len[r])
                                  \o SubSeq(Context(r), cached_len[r] + 1, len)
  <1>1. /\ Prompt[r] \in Seq(Token) /\ generated[r] \in Seq(Token) /\ tokens \in Seq(Token)
        /\ Context(r) \in Seq(Token) /\ cached_len[r] \in Nat
    <2>1. \A s \in Seq(OutToken) : s \in Seq(Token)
      BY OutTokenAssumption
    <2>2. /\ Prompt[r] \in Seq(Token) /\ generated[r] \in Seq(OutToken)
          /\ Context(r) \in Seq(Token) /\ cached_len[r] \in Nat
      BY ContextFacts
    <2> QED
      BY <2>1, <2>2
  <1>2. Prompt[r] \o (generated[r] \o tokens) = Context(r) \o tokens
    <2>1. (Prompt[r] \o generated[r]) \o tokens = Prompt[r] \o (generated[r] \o tokens)
      <3>1. \A s, t, u \in Seq(Token) : (s \o t) \o u = s \o (t \o u)
        BY ConcatAssociative
      <3> QED
        BY <1>1, <3>1, Zenon
    <2> QED
      BY <2>1, Zenon DEF Context
  <1>3. Len(Context(r) \o tokens) = Len(Context(r)) + Len(tokens)
    BY <1>1, ConcatProperties
  <1>4. SubSeq(Context(r) \o tokens, 1, len) = SubSeq(Context(r), 1, len)
    BY <1>1, PrefixOfConcat
  <1>5. SubSeq(Context(r), 1, len) = SubSeq(Context(r), 1, cached_len[r])
                                       \o SubSeq(Context(r), cached_len[r] + 1, len)
    BY <1>1, PrefixFacts, ZenonT(60)
  <1> QED
    BY <1>2, <1>3, <1>4, <1>5, Zenon

LEMMA ApplyItemStep ==
  ASSUME SchedInv, NEW i \in DOMAIN batch,
         NEW tokens \in {<<>>} \cup {<<t>> : t \in OutToken}, NEW is_eos \in BOOLEAN,
         ApplyItem(i, tokens, is_eos),
         NEW item, item = batch[i], NEW r, r = item.id
  PROVE  SchedInv' /\ CacheMove
  <1> DEFINE done == Completes(r, tokens, is_eos)
             text == SubSeq(Prompt[r] \o generated'[r], 1, cached_len'[r])
  <1>1. /\ phase = "apply"
        /\ (tokens # <<>>) = item.need_sample
        /\ state' = [state EXCEPT ![r] = IF done THEN "Finished" ELSE @]
        /\ phase' = IF done THEN "release" ELSE "apply"
        /\ generated' = [generated EXCEPT ![r] = @ \o tokens]
        /\ cached_len' = [cached_len EXCEPT ![r] = @ + Len(item.input)]
        /\ SealBlocks(r, text, FullBlocks(cached_len[r]))
        /\ batch' = RemoveAt(batch, i)
        /\ UNCHANGED <<arrival_index, waiting, running, next_arrival, todo, remaining>>
    BY DEF ApplyItem, queueVars
  <1>2. TypeOK
    BY DEF SchedInv, Queues
  <1>3. /\ item \in Item /\ r \in Request /\ item.input \in Seq(Token)
        /\ Len(item.input) \in Nat /\ item.start \in Nat /\ Scheduled(r)
    BY <1>2, ItemFacts
  <1>4. /\ state[r] = "Running" /\ item.start = cached_len[r] /\ item.input # <<>>
        /\ item.input = SubSeq(Context(r), item.start + 1, item.start + Len(item.input))
        /\ item.start + Len(item.input) <= Len(Context(r))
        /\ ~item.need_sample => item.start + Len(item.input) < Len(Context(r))
        /\ IdsDistinct(batch)
    BY DEF SchedInv, BatchIsCurrent, ItemsFit, IdsDistinct
  <1>5. r \in running
    BY <1>3, ScheduledRuns
  <1>6. /\ Prompt[r] \in Seq(Token) /\ Len(Prompt[r]) \in Nat
        /\ generated[r] \in Seq(OutToken) /\ Len(generated[r]) \in Nat
        /\ Context(r) \in Seq(Token) /\ Len(Context(r)) \in Nat /\ cached_len[r] \in Nat
    BY <1>2, <1>3, ContextFacts
  <1>7. /\ Len(generated[r]) < MaxNewLen[r] /\ MaxNewLen[r] \in Nat
    BY <1>3, <1>4, MaxNewLenAssumption DEF SchedInv, Lengths, Terminal
  <1> DEFINE n == Len(item.input)
             len == cached_len[r] + n
  <1>8. /\ n \in Nat /\ n > 0 /\ len \in Nat /\ len > 0 /\ cached_len[r] <= len
        /\ len <= Len(Context(r))
        /\ ~item.need_sample => len < Len(Context(r))
        /\ item.input = SubSeq(Context(r), cached_len[r] + 1, len)
    <2>1. n \in Nat /\ n > 0
      BY <1>3, <1>4
    <2> HIDE DEF n
    <2>2. len \in Nat /\ len > 0 /\ cached_len[r] <= len
      BY <2>1, <1>6
    <2> QED
      BY <2>1, <2>2, <1>4 DEF n
  <1>9. /\ tokens \in Seq(OutToken) /\ Len(tokens) \in {0, 1}
        /\ item.need_sample => Len(tokens) = 1
    <2>1. CASE tokens = <<>>
      <3>1. ~item.need_sample
        BY <1>1, <2>1, Zenon
      <3>2. tokens \in Seq(OutToken) /\ Len(tokens) = 0
        BY <2>1
      <3> QED
        BY <3>1, <3>2
    <2>2. ASSUME NEW t \in OutToken, tokens = <<t>>
          PROVE  tokens \in Seq(OutToken) /\ Len(tokens) = 1
      BY <2>2
    <2> QED
      BY <2>1, <2>2
  <1>10. /\ generated'[r] = generated[r] \o tokens /\ cached_len'[r] = len
         /\ \A q \in Request \ {r} : generated'[q] = generated[q] /\ cached_len'[q] = cached_len[q]
         /\ state'[r] = IF done THEN "Finished" ELSE "Running"
         /\ \A q \in Request \ {r} : state'[q] = state[q]
    BY <1>1, <1>2, <1>3, <1>4 DEF TypeOK
  <1> HIDE DEF done, n, len
  <1>11. /\ generated'[r] \in Seq(OutToken)
         /\ Len(generated'[r]) = Len(generated[r]) + Len(tokens)
    BY <1>6, <1>9, <1>10, ConcatProperties
  <1>0. \A a, m \in Nat : \A b \in {0, 1} :
          /\ a < m => a + b <= m
          /\ a < m /\ a + b # m => a + b < m
          /\ m <= a /\ b = 1 => m < a + b
          /\ m < a => m < a + b
          /\ m < a + b => m <= a + b
    OBVIOUS
  <1> DEFINE c == Prompt[r] \o generated'[r]
  <1>12. /\ Len(c) = Len(Context(r)) + Len(tokens)
         /\ SubSeq(c, 1, len) = SubSeq(Context(r), 1, cached_len[r])
                                  \o SubSeq(Context(r), cached_len[r] + 1, len)
    <2> DEFINE d == Prompt[r] \o (generated[r] \o tokens)
    <2>1. /\ Len(d) = Len(Context(r)) + Len(tokens)
          /\ SubSeq(d, 1, len) = SubSeq(Context(r), 1, cached_len[r])
                                   \o SubSeq(Context(r), cached_len[r] + 1, len)
      BY <1>2, <1>3, <1>8, <1>9, ComputedText
    <2>2. c = d
      BY <1>10
    <2> HIDE DEF c, d
    <2> QED
      BY <2>1, <2>2, Zenon
  <1>14. text = Written(r) \o InFlight(r)
    <2>1. Written(r) = SubSeq(Context(r), 1, cached_len[r])
      BY <1>5 DEF Written
    <2>2. InFlight(r) = SubSeq(Context(r), cached_len[r] + 1, len)
      <3>1. InFlight(r) = item.input
        BY <1>4, InFlightOf, InFlightOne
      <3> QED
        BY <3>1, <1>8
    <2> QED
      BY <2>1, <2>2, <1>10, <1>12, Zenon
  <1>15. Written(r)' = text
    <2>1. r \in running'
      BY <1>1, <1>5
    <2> QED
      BY <2>1 DEF Written, Context
  <1> HIDE DEF text
  <1>16. /\ batch' \in Seq(Item) /\ IdsDistinct(batch')
         /\ \A j \in DOMAIN batch' : \E m \in DOMAIN batch : m # i /\ batch'[j] = batch[m]
         /\ \A m \in DOMAIN batch : m # i => \E j \in DOMAIN batch' : batch'[j] = batch[m]
         /\ InFlightIn(batch', r) = <<>>
         /\ \A q : q # r => InFlightIn(batch', q) = InFlightIn(batch, q)
    <2>1. batch \in Seq(Item)
      BY <1>2 DEF TypeOK
    <2> QED
      BY <1>1, <1>4, <2>1, BatchRemove
  <1>17. InFlight(r)' = <<>> /\ \A q \in Request \ {r} : InFlight(q)' = InFlight(q)
    BY <1>16, InFlightOf
  <1>18. \A q \in Request \ {r} : Written(q)' = Written(q)
    BY <1>1, <1>10, WrittenStays
  <1>19. K!Commit(r)
    <2>1. InFlight(r) # <<>>
      BY <1>4, InFlightOf, InFlightOne
    <2>2. Len(Written(r)) = cached_len[r]
      BY <1>3, <1>5, WrittenLength
    <2>3. K!SealBlocks(r, Written(r) \o InFlight(r), K!FullBlocks(Len(Written(r))))
      BY <1>1, <1>14, <2>2, SameSealBlocks, SameBlocks
    <2>4. [q \in Request |-> Written(q)]' =
            [[q \in Request |-> Written(q)] EXCEPT ![r] = @ \o InFlight(r)]
      BY <1>14, <1>15, <1>18
    <2>5. [q \in Request |-> InFlight(q)]' = [[q \in Request |-> InFlight(q)] EXCEPT ![r] = <<>>]
      BY <1>17
    <2>6. [q \in Request |-> Written(q)][r] = Written(r) /\ [q \in Request |-> InFlight(q)][r] = InFlight(r)
      BY <1>3
    <2> QED
      BY <2>1, <2>3, <2>4, <2>5, <2>6 DEF K!Commit
  <1>20. CacheMove
    BY <1>3, <1>19 DEF CacheMove, K!Next
  <1>21. K!CacheInv'
    BY <1>20, CacheKeeps DEF SchedInv, CacheMove
  <1>22. TypeOK'
    <2>1. Len(generated'[r]) <= MaxNewLen[r]
      <3>1. Len(generated[r]) + Len(tokens) <= MaxNewLen[r]
        BY <1>0, <1>6, <1>7, <1>9, Zenon
      <3> QED
        BY <1>11, <3>1, Zenon
    <2>2. /\ generated' \in [Request -> Seq(OutToken)]
          /\ \A q \in Request : Len(generated'[q]) <= MaxNewLen[q]
      BY <1>1, <1>2, <1>10, <1>11, <2>1 DEF TypeOK
    <2>3. cached_len' \in [Request -> Nat]
      BY <1>1, <1>2, <1>8, <1>10 DEF TypeOK
    <2>4. state' \in [Request -> {"Unsubmitted", "Waiting", "Running"} \cup Terminal]
      BY <1>1, <1>2 DEF TypeOK, Terminal
    <2> QED
      BY <1>1, <1>2, <1>16, <2>2, <2>3, <2>4 DEF TypeOK
  <1>23. Queues'
    <2>1. \A q \in Request : state'[q] = "Waiting" <=> Contains(waiting', q)
      BY <1>1, <1>4, <1>10 DEF SchedInv, Queues
    <2>2. \A q \in Request : state[q] = "Running" <=> q \in running
      BY <1>1 DEF SchedInv, Queues
    <2>3. CASE done
      <3>1. phase' = "release" /\ state'[r] = "Finished"
        BY <1>1, <1>10, <2>3
      <3>2. running' \ RunningIds' = {r}
        BY <1>1, <1>2, <1>5, <1>10, <2>2, <3>1 DEF RunningIds, TypeOK
      <3>3. \A q \in Request : state'[q] = "Running" => q \in running'
        BY <1>1, <1>10, <2>2, <3>1
      <3> QED
        BY <1>1, <1>5, <1>22, <2>1, <3>1, <3>2, <3>3 DEF SchedInv, Queues
    <2>4. CASE ~done
      <3>1. phase' = "apply" /\ \A q \in Request : state'[q] = state[q]
        BY <1>1, <1>4, <1>10, <2>4
      <3> QED
        BY <1>1, <1>22, <2>1, <2>2, <3>1 DEF SchedInv, Queues
    <2> QED
      BY <2>3, <2>4
  <1>24. BatchIsCurrent' /\ ItemsFit'
    <2>1. \A m \in DOMAIN batch : m # i => batch[m].id \in Request \ {r}
      BY <1>2, <1>4, ItemFacts DEF IdsDistinct
    <2>2. \A q \in Request \ {r} : allocations'[q] = allocations[q]
      BY <1>1, <1>3, CacheTypes, SealLeavesOthers DEF SchedInv
    <2>3. \A j \in DOMAIN batch' : \E m \in DOMAIN batch :
             batch'[j] = batch[m] /\ batch[m].id \in Request \ {r}
      BY <1>16, <2>1
    <2>4. \A q \in Request \ {r} : /\ state'[q] = state[q] /\ cached_len'[q] = cached_len[q]
                                  /\ generated'[q] = generated[q]
      BY <1>10
    <2>5. \A j \in DOMAIN batch' : \E m \in DOMAIN batch :
            /\ batch'[j] = batch[m]
            /\ state'[batch[m].id] = state[batch[m].id]
            /\ cached_len'[batch[m].id] = cached_len[batch[m].id]
            /\ generated'[batch[m].id] = generated[batch[m].id]
            /\ allocations'[batch[m].id] = allocations[batch[m].id]
      BY <2>2, <2>3, <2>4, Zenon
    <2>6. BatchIsCurrent /\ ItemsFit
      BY DEF SchedInv
    <2> QED
      BY <1>16, <2>5, <2>6, ItemsStay, Zenon
  <1>25. Lengths'
    <2>1. /\ cached_len'[r] <= Len(c)
          /\ ~done => cached_len'[r] < Len(c) /\ Len(generated'[r]) < MaxNewLen[r]
      <3>1. len <= Len(c) /\ len < Len(c)
        <4>1. Len(tokens) \in Nat /\ Len(Context(r)) \in Nat /\ len \in Nat
          BY <1>6, <1>8, <1>9
        <4>2. len < Len(Context(r)) + Len(tokens)
          BY <1>0, <1>8, <1>9, <4>1
        <4>3. len <= Len(Context(r)) + Len(tokens)
          BY <1>0, <4>1, <4>2
        <4> QED
          BY <1>12, <4>2, <4>3
      <3>2. ~done => Len(generated'[r]) < MaxNewLen[r]
        <4>1. ~done => Len(generated[r]) + Len(tokens) # MaxNewLen[r]
          BY DEF done, Completes
        <4>2. ~done => Len(generated[r]) + Len(tokens) < MaxNewLen[r]
          BY <1>0, <1>6, <1>7, <1>9, <4>1, Zenon
        <4> QED
          BY <1>11, <4>2, Zenon
      <3> QED
        BY <1>10, <3>1, <3>2
    <2>2. Context(r)' = c
      BY DEF Context, c
    <2>3. \A q \in Request \ {r} : Prompt[q] \o generated'[q] = Context(q)
      BY <1>10 DEF Context
    <2> HIDE DEF c
    <2>4. /\ state'[r] \in {"Finished", "Running"}
          /\ state'[r] = "Running" => ~done
          /\ state'[r] \notin Terminal => ~done
      BY <1>10 DEF Terminal
    <2>5. ASSUME NEW q \in Request
          PROVE  /\ state'[q] \in {"Unsubmitted", "Waiting"} => cached_len'[q] = 0
                 /\ cached_len'[q] <= Len(Prompt[q] \o generated'[q])
                 /\ state'[q] = "Running" => cached_len'[q] < Len(Prompt[q] \o generated'[q])
                 /\ state'[q] \notin Terminal => Len(generated'[q]) < MaxNewLen[q]
      <3>1. CASE q = r
        BY <2>1, <2>4, <3>1 DEF c
      <3>2. CASE q # r
        BY <1>10, <2>3, <3>2 DEF SchedInv, Lengths
      <3> QED
        BY <3>1, <3>2
    <2> QED
      BY <2>5, Zenon DEF Lengths, Context
  <1>26. Held'
    <2>1. \A q \in running : q # r /\ Scheduled(q) => Scheduled(q)'
      <3> SUFFICES ASSUME NEW q \in running, q # r, Scheduled(q) PROVE Scheduled(q)'
        OBVIOUS
      <3>1. PICK m \in DOMAIN batch : batch[m].id = q
        BY DEF Scheduled
      <3>2. m # i
        BY <3>1
      <3> QED
        BY <3>1, <3>2, <1>16 DEF Scheduled
    <2>2. running \subseteq Request
      BY <1>2 DEF TypeOK
    <2> QED
      BY <1>1, <1>8, <1>10, <2>1, <2>2 DEF SchedInv, Held
  <1>27. Loop'
    BY <1>1 DEF Loop
  <1> QED
    BY <1>20, <1>21, <1>23, <1>24, <1>25, <1>26, <1>27 DEF SchedInv

-----------------------------------------------------------------------------
(* The specification.                                                      *)

LEMMA InitInv == Init => SchedInv /\ Cache!Init
  <1> SUFFICES ASSUME Init PROVE SchedInv /\ Cache!Init
    OBVIOUS
  <1> USE DEF Init
  <1>1. /\ pool = NewPool /\ allocations = [q \in Request |-> <<>>]
        /\ [q \in Request |-> Written(q)] = [q \in Request |-> <<>>]
        /\ [q \in Request |-> InFlight(q)] = [q \in Request |-> <<>>]
    <2>1. \A q \in Request : Written(q) = <<>> /\ InFlight(q) = <<>>
      BY DEF Written, InFlight, Scheduled
    <2> QED
      BY <2>1 DEF ManagerInit
  <1>2. K!Init /\ Cache!Init
    BY <1>1 DEF K!Init, K!ManagerInit, K!NewPool, NewPool, K!BlockId, BlockId, K!Writable, Writable,
                Cache!Init, Cache!ManagerInit, Cache!NewPool, Cache!BlockId, Cache!Writable
  <1>3. K!CacheInv
    BY <1>2, K!InitStep, TextsFacts, NumBlocksAssumption, BlockLenAssumption, RequestAssumption
       DEF K!IsFiniteSet, IsFiniteSet
  <1>4. TypeOK
    BY ConfigAssumption, MaxNewLenAssumption DEF TypeOK
  <1>5. Queues
    BY <1>4 DEF Queues, Contains, IsInjective, RunningIds
  <1>6. Lengths
    <2>1. \A q \in Request : Len(Context(q)) \in Nat
      BY <1>4, ContextFacts
    <2> QED
      BY <2>1, MaxNewLenAssumption DEF Lengths, Terminal
  <1>7. BatchIsCurrent /\ ItemsFit /\ Held /\ Loop
    BY DEF BatchIsCurrent, ItemsFit, Held, Loop
  <1> QED
    BY <1>2, <1>3, <1>5, <1>6, <1>7 DEF SchedInv

LEMMA NextInv ==
  ASSUME SchedInv, [Next]_schedVars
  PROVE  SchedInv' /\ CacheMove
  <1>1. ASSUME UNCHANGED schedVars PROVE SchedInv' /\ CacheMove
    <2> USE <1>1 DEF schedVars, requestVars, queueVars, callVars
    <2>1. UNCHANGED K!vars
      BY CacheStays, WrittenStays, SameFlight
    <2>2. K!CacheInv'
      BY <2>1, CacheKeeps DEF SchedInv
    <2>3. Queues'
      BY DEF SchedInv, Queues, TypeOK, RunningIds
    <2>4. BatchIsCurrent' /\ ItemsFit'
      BY BatchStays DEF cacheVars
    <2>5. Lengths'
      BY DEF SchedInv, Lengths, Context
    <2>6. Held' /\ Loop'
      BY DEF SchedInv, Held, Loop, Scheduled
    <2> QED
      BY <2>1, <2>2, <2>3, <2>4, <2>5, <2>6 DEF SchedInv, CacheMove
  <1>2. ASSUME NEW r \in Request, Submit(r) \/ Cancel(r) PROVE SchedInv' /\ CacheMove
    BY <1>2, SubmitStep, CancelStep
  <1>3. ASSUME Schedule \/ ApplyResult \/ FailBatch \/ RunningLoopEnd \/ ScheduleEnd \/ ResultEnd
        PROVE  SchedInv' /\ CacheMove
    BY <1>3, ControlStep
  <1>4. ASSUME NEW r \in Request,
               \/ SkipRunning(r) \/ ScheduleRunning(r) \/ FailRunning(r)
               \/ \E victim \in Request : Preempt(r, victim)
               \/ AdmitWaiting(r) \/ ReleaseFinished(r) \/ FailItem(r)
        PROVE  SchedInv' /\ CacheMove
    BY <1>4, ControlStep, ScheduleRunningStep, FailRunningStep, PreemptStep, AdmitWaitingStep,
       ReleaseFinishedStep, FailItemStep
  <1>5. ASSUME NEW i \in DOMAIN batch, NEW tokens \in {<<>>} \cup {<<t>> : t \in OutToken},
               NEW is_eos \in BOOLEAN, ApplyItem(i, tokens, is_eos)
        PROVE  SchedInv' /\ CacheMove
    BY <1>5, ApplyItemStep
  <1> QED
    BY <1>1, <1>2, <1>3, <1>4, <1>5 DEF Next, Within

\* The inductive invariant: it holds after every turn of every loop of a call,
\* for every pool, block length, prompts, budget, chunk and policy.
THEOREM SchedulerInvariant == Spec => []SchedInv
  <1>1. SchedInv /\ [Next]_schedVars => SchedInv'
    BY NextInv
  <1> QED
    BY InitInv, <1>1, PTL DEF Spec

\* No request is lost or queued twice: in every state, between the turns of a
\* loop as well, the queues and the states of the requests agree.
THEOREM QueuesAgree == Spec => []Queues
  <1>1. SchedInv => Queues
    BY DEF SchedInv
  <1> QED
    BY <1>1, SchedulerInvariant, PTL

\* What the executor was given stays true until it is answered, whatever the
\* client submits or cancels meanwhile.
THEOREM BatchStaysCurrent == Spec => []BatchIsCurrent
  <1>1. SchedInv => BatchIsCurrent
    BY DEF SchedInv
  <1> QED
    BY <1>1, SchedulerInvariant, PTL

\* The calls on the cache manager are the ones KvCache allows.
THEOREM SchedulerImplementsKvCache == Spec => RefinesKvCache
  <1>1. SchedInv /\ [Next]_schedVars => [Cache!Next]_Cache!vars
    <2>1. ASSUME SchedInv, [Next]_schedVars PROVE K!Next \/ UNCHANGED K!vars
      BY <2>1, NextInv DEF CacheMove
    <2>2. K!Next => Cache!Next
      <3>1. ASSUME NEW r, NEW plan, NEW n
            PROVE  K!ReserveTo(r, plan, n) <=> Cache!ReserveTo(r, plan, n)
        BY DEF K!ReserveTo, Cache!ReserveTo,
               K!MissingBlocks, Cache!MissingBlocks, K!RequiredBlocks, Cache!RequiredBlocks,
               K!CanReserve, Cache!CanReserve, K!LowestFree, Cache!LowestFree,
               K!CanRetain, Cache!CanRetain, K!Reserve, Cache!Reserve,
               K!ReuseAndReserve, Cache!ReuseAndReserve, K!RetainShared, Cache!RetainShared,
               K!IsSealed, Cache!IsSealed, K!Range, Cache!Range, K!Cardinality, Cache!Cardinality,
               K!BlockId, Cache!BlockId, K!Writable, Cache!Writable
      <3>2. ASSUME NEW r
            PROVE  K!ReleaseAllocation(r) <=> Cache!ReleaseAllocation(r)
        BY DEF K!ReleaseAllocation, Cache!ReleaseAllocation, K!ReleaseBlocks, Cache!ReleaseBlocks,
               K!IsSealed, Cache!IsSealed, K!Range, Cache!Range,
               K!BlockId, Cache!BlockId, K!Writable, Cache!Writable
      <3>3. ASSUME NEW r, NEW text, NEW n
            PROVE  K!SealBlocks(r, text, n) <=> Cache!SealBlocks(r, text, n)
        BY ZenonT(60)
           DEF K!SealBlocks, Cache!SealBlocks, K!FullBlocks, Cache!FullBlocks,
               K!ReleaseBlocks, Cache!ReleaseBlocks, K!RetainShared, Cache!RetainShared,
               K!IsSealed, Cache!IsSealed, K!Range, Cache!Range,
               K!BlockId, Cache!BlockId, K!Writable, Cache!Writable,
               K!ChunkHash, Cache!ChunkHash, K!HasSealed, Cache!HasSealed,
               K!SealedBlock, Cache!SealedBlock, K!Sealed, Cache!Sealed, K!Publish, Cache!Publish,
               K!IndexOf, Cache!IndexOf
      <3>4. ASSUME NEW p, NEW t, NEW k
            PROVE  /\ K!IsReuse(p, t, k) <=> Cache!IsReuse(p, t, k)
                   /\ K!ReusePlan(p, t, k) = Cache!ReusePlan(p, t, k)
        BY ZenonT(60)
           DEF K!IsReuse, Cache!IsReuse, K!ReusePlan, Cache!ReusePlan,
               K!FullBlocks, Cache!FullBlocks, K!HasSealed, Cache!HasSealed,
               K!SealedBlock, Cache!SealedBlock, K!BlockId, Cache!BlockId,
               K!MaxReusableBlocks, Cache!MaxReusableBlocks, K!PrefixHash, Cache!PrefixHash
      <3>5. \A n : K!FullBlocks(n) = Cache!FullBlocks(n)
        BY DEF K!FullBlocks, Cache!FullBlocks
      <3>6. ASSUME NEW r, NEW prompt, NEW text, K!Admit(r, prompt, text)
            PROVE  Cache!Admit(r, prompt, text)
        <4>1. \A k : /\ K!IsReuse(pool, prompt, k) <=> Cache!IsReuse(pool, prompt, k)
                     /\ K!ReusePlan(pool, prompt, k) = Cache!ReusePlan(pool, prompt, k)
          BY <3>4
        <4>2. \A k : K!ReserveTo(r, K!ReusePlan(pool, prompt, k), Len(text))
                       <=> Cache!ReserveTo(r, Cache!ReusePlan(pool, prompt, k), Len(text))
          BY <3>1, <4>1, Zenon
        <4> QED
          BY <3>6, <4>1, <4>2, ZenonT(60) DEF K!Admit, Cache!Admit
      <3>7. \A r, text : K!Grow(r, text) => Cache!Grow(r, text)
        BY <3>1, ZenonT(60) DEF K!Grow, Cache!Grow
      <3>8. \A r : K!Commit(r) => Cache!Commit(r)
        BY <3>3, <3>5, ZenonT(60) DEF K!Commit, Cache!Commit
      <3>9. \A r : K!Release(r) => Cache!Release(r)
        BY <3>2, ZenonT(60) DEF K!Release, Cache!Release
      <3> QED
        BY <3>6, <3>7, <3>8, <3>9, ZenonT(60) DEF K!Next, Cache!Next
    <2>3. UNCHANGED K!vars => UNCHANGED Cache!vars
      BY DEF K!vars, Cache!vars
    <2> QED
      BY <2>1, <2>2, <2>3
  <1>2. Init => Cache!Init
    BY InitInv
  <1> QED
    BY <1>1, <1>2, SchedulerInvariant, PTL DEF Spec, RefinesKvCache, Cache!Spec

-----------------------------------------------------------------------------
(* What the invariant says of the blocks.                                  *)

LEMMA Linear ==
  ASSUME NEW q \in Nat, NEW l \in Nat
  PROVE  q * l \in Nat /\ (q - 1) * l = q * l - l
  OBVIOUS

LEMMA TableLength ==
  ASSUME SchedInv, NEW r \in running
  PROVE  /\ r \in Request /\ allocations[r] \in Seq(BlockId)
         /\ cached_len[r] \in Nat /\ Len(Written(r)) = cached_len[r]
         /\ Len(allocations[r]) = RequiredBlocks(cached_len[r] + Len(InFlight(r)))
  <1>1. r \in Request /\ running \subseteq Request
    BY DEF SchedInv, Queues, TypeOK
  <1>2. Len(Written(r)) = cached_len[r]
    BY <1>1, WrittenLength
  <1>3. Len(allocations[r]) = RequiredBlocks(Len(Written(r)) + Len(InFlight(r)))
    <2>1. Len(allocations[r]) = K!RequiredBlocks(Len(Written(r)) + Len(InFlight(r)))
      BY <1>1 DEF SchedInv, K!CacheInv, K!TableCoversTokens
    <2> QED
      BY <2>1, SameBlocks
  <1> QED
    BY <1>1, <1>2, <1>3, CacheTypes, ContextFacts DEF SchedInv, Queues

\* A running request holds the blocks of what is cached and in flight of it and
\* no more, between the turns of a loop as well: no reservation is left over by a
\* preemption, a readmission or a failure within a call of schedule, which the
\* next call would count as pressure.
ReservationsAreUsed ==
  \A r \in running :
    LET tokens == cached_len[r] + Len(InFlight(r))
    IN Len(allocations[r]) * BlockLen \in tokens .. tokens + BlockLen - 1

THEOREM ReservationsHold == Spec => []ReservationsAreUsed
  <1>1. ASSUME SchedInv PROVE ReservationsAreUsed
    <2> SUFFICES ASSUME NEW r \in running
                 PROVE  LET tokens == cached_len[r] + Len(InFlight(r))
                        IN Len(allocations[r]) * BlockLen \in tokens .. tokens + BlockLen - 1
      BY DEF ReservationsAreUsed
    <2>0. r \in Request /\ cached_len[r] \in Nat /\ TypeOK
          /\ Len(allocations[r]) = RequiredBlocks(cached_len[r] + Len(InFlight(r)))
      BY <1>1, TableLength DEF SchedInv, Queues
    <2>1. Len(InFlight(r)) \in Nat
      <3>1. CASE Scheduled(r)
        <4>1. PICK i \in DOMAIN batch : batch[i].id = r
          BY <3>1 DEF Scheduled
        <4>2. InFlight(r) = batch[i].input
          BY <1>1, <4>1, InFlightOf, InFlightOne DEF SchedInv, BatchIsCurrent, IdsDistinct
        <4> QED
          BY <2>0, <4>2, ItemFacts
      <3>2. CASE ~Scheduled(r)
        BY <3>2 DEF InFlight
      <3> QED
        BY <3>1, <3>2
    <2>2. ASSUME NEW n \in Nat
          PROVE  RequiredBlocks(n) * BlockLen \in n .. n + BlockLen - 1
      <3>1. /\ RequiredBlocks(n) \in Nat
            /\ n <= RequiredBlocks(n) * BlockLen
            /\ n > 0 => (RequiredBlocks(n) - 1) * BlockLen < n
            /\ RequiredBlocks(n) = 0 <=> n = 0
        BY RequiredBlocksFacts
      <3> DEFINE q == RequiredBlocks(n)
      <3> HIDE DEF q
      <3>2. q \in Nat /\ n <= q * BlockLen /\ (n > 0 => (q - 1) * BlockLen < n) /\ (q = 0 <=> n = 0)
        BY <3>1 DEF q
      <3>3. BlockLen \in Nat /\ BlockLen > 0
        BY BlockLenAssumption
      <3>4. q * BlockLen \in Nat /\ (q - 1) * BlockLen = q * BlockLen - BlockLen
        BY <3>2, <3>3, Linear
      <3> DEFINE m == q * BlockLen
      <3> HIDE DEF m
      <3>5. m \in Nat /\ n <= m /\ (n > 0 => m - BlockLen < n) /\ (n = 0 => m = 0)
        BY <3>2, <3>3, <3>4 DEF m
      <3>6. m \in n .. n + BlockLen - 1
        BY <3>3, <3>5
      <3> QED
        BY <3>6 DEF m, q
    <2>3. cached_len[r] + Len(InFlight(r)) \in Nat
      BY <2>0, <2>1
    <2> QED
      BY <2>0, <2>2, <2>3
  <1> QED
    BY <1>1, SchedulerInvariant, PTL

LEMMA BlockOfPosition ==
  ASSUME NEW p \in Nat, NEW n \in Nat, p < n
  PROVE  /\ p \div BlockLen + 1 \in 1 .. RequiredBlocks(n)
         /\ p < (p \div BlockLen + 1) * BlockLen
  <1> DEFINE q == p \div BlockLen
             m == RequiredBlocks(n)
  <1>1. q \in Nat /\ q * BlockLen <= p /\ p < (q + 1) * BlockLen
    BY BlockLenAssumption
  <1>2. m \in Nat /\ n <= m * BlockLen
    BY RequiredBlocksFacts
  <1> HIDE DEF q, m
  <1>3. q * BlockLen < m * BlockLen
    BY <1>1, <1>2, BlockLenAssumption
  <1>4. q < m
    <2> SUFFICES ASSUME m <= q PROVE FALSE
      BY <1>1, <1>2
    <2>1. m * BlockLen <= q * BlockLen
      BY <1>1, <1>2, BlockLenAssumption
    <2> QED
      BY <1>1, <1>2, <1>3, <2>1, BlockLenAssumption
  <1> QED
    BY <1>1, <1>2, <1>4 DEF q, m

\* A batch writes only into blocks that are private to the request it writes
\* for: none that is sealed, none in another request's table.
THEOREM BatchWritesArePrivate == Spec => []WritesArePrivate
  <1>1. ASSUME SchedInv PROVE WritesArePrivate
    <2> SUFFICES ASSUME NEW i \in DOMAIN batch,
                        NEW p \in batch[i].start .. batch[i].start + Len(batch[i].input) - 1,
                        NEW b, b = batch[i].block_table[p \div BlockLen + 1]
                 PROVE  /\ pool.state[b] = Writable(batch[i].id)
                        /\ \A r \in Request \ {batch[i].id} : b \notin Range(allocations[r])
      BY DEF WritesArePrivate
    <2> DEFINE id == batch[i].id
               len == Len(batch[i].input)
               k == p \div BlockLen + 1
    <2>0. TypeOK /\ IdsDistinct(batch)
      BY <1>1 DEF SchedInv, Queues, BatchIsCurrent, IdsDistinct
    <2>1. /\ id \in Request /\ len \in Nat /\ Scheduled(id) /\ InFlight(id) = batch[i].input
          /\ batch[i].start \in Nat
      <3>1. InFlight(id) = InFlightIn(batch, id) /\ InFlightIn(batch, id) = batch[i].input
        BY <2>0, InFlightOf, InFlightOne
      <3> QED
        BY <2>0, <3>1, ItemFacts
    <2>2. /\ batch[i].start = cached_len[id] /\ batch[i].block_table = allocations[id]
          /\ id \in running
      BY <1>1, <2>1, ScheduledRuns DEF SchedInv, BatchIsCurrent
    <2>3. /\ allocations[id] \in Seq(BlockId) /\ Len(Written(id)) = cached_len[id]
          /\ Len(allocations[id]) = RequiredBlocks(cached_len[id] + len)
      BY <1>1, <2>1, <2>2, TableLength
    <2>4. p \in Nat /\ cached_len[id] <= p /\ p < cached_len[id] + len
          /\ cached_len[id] + len \in Nat
      BY <2>1, <2>2
    <2>5. k \in DOMAIN allocations[id] /\ p < k * BlockLen /\ k \in Nat
      BY <2>3, <2>4, BlockOfPosition
    <2>6. b = allocations[id][k]
      BY <2>2
    <2> HIDE DEF k, id, len
    <2>7. ~(k * BlockLen <= Len(Written(id)))
      BY <2>3, <2>4, <2>5, BlockLenAssumption
    <2>8. K!Holders(b) = {id} /\ pool.state[b] = Writable(id)
      <3>1. pool.state[allocations[id][k]] = K!Writable(id)
        BY <1>1, <2>1, <2>5, <2>7 DEF SchedInv, K!CacheInv, K!TableContents
      <3>2. K!Holders(allocations[id][k]) = {id}
        BY <1>1, <2>1, <2>5, <3>1, K!WritableIsPrivate, TextsFacts, NumBlocksAssumption,
           BlockLenAssumption, RequestAssumption DEF SchedInv, K!IsFiniteSet, IsFiniteSet
      <3> QED
        BY <2>6, <3>1, <3>2 DEF K!Writable, Writable
    <2>9. \A r \in Request \ {id} : b \notin Range(allocations[r])
      BY <2>8 DEF K!Holders, K!Range, Range
    <2> QED
      BY <2>8, <2>9 DEF id
  <1> QED
    BY <1>1, SchedulerInvariant, PTL

-----------------------------------------------------------------------------
(* The outputs.                                                            *)

LEMMA PrefixReflexive ==
  ASSUME NEW S, NEW s \in Seq(S)
  PROVE  IsPrefix(s, s)
  BY DEF IsPrefix

LEMMA PrefixAppended ==
  ASSUME NEW S, NEW s \in Seq(S), NEW t \in Seq(S)
  PROVE  IsPrefix(s, s \o t)
  <1>1. s \o t \in Seq(S) /\ Len(s \o t) = Len(s) + Len(t)
    BY ConcatProperties
  <1>2. Len(s) \in Nat /\ Len(t) \in Nat
    OBVIOUS
  <1>3. SubSeq(s \o t, 1, Len(s)) = SubSeq(s, 1, Len(s))
    BY <1>2, PrefixOfConcat
  <1>4. Len(s) <= Len(s \o t)
    BY <1>1, <1>2
  <1> QED
    BY <1>3, <1>4 DEF IsPrefix

\* A step that changes the state of q only, which has not ended, and no output.
LEMMA OutputStays ==
  ASSUME SchedInv, generated' = generated, NEW q, state[q] \notin Terminal,
         \A r \in Request \ {q} : state'[r] = state[r],
         NEW r \in Request
  PROVE  /\ IsPrefix(generated[r], generated'[r])
         /\ state[r] \in Terminal => state'[r] = state[r] /\ generated'[r] = generated[r]
  <1>1. generated[r] \in Seq(OutToken)
    BY DEF SchedInv, Queues, TypeOK
  <1> QED
    BY <1>1, PrefixReflexive

LEMMA OutputKept ==
  ASSUME SchedInv, generated' = generated, state' = state, NEW r \in Request
  PROVE  /\ IsPrefix(generated[r], generated'[r])
         /\ state[r] \in Terminal => state'[r] = state[r] /\ generated'[r] = generated[r]
  <1>1. generated[r] \in Seq(OutToken)
    BY DEF SchedInv, Queues, TypeOK
  <1> QED
    BY <1>1, PrefixReflexive

\* No step, preemption included, takes a generated token back, and a request
\* that ended stays as it ended.
THEOREM OutputStaysStable == Spec => OutputIsStable
  <1> DEFINE Kept(r) ==
        /\ IsPrefix(generated[r], generated'[r])
        /\ state[r] \in Terminal => state'[r] = state[r] /\ generated'[r] = generated[r]
  <1>1. ASSUME SchedInv, [Next]_schedVars, NEW r \in Request PROVE Kept(r)
    <2>0. /\ state \in [Request -> {"Unsubmitted", "Waiting", "Running"} \cup Terminal]
          /\ generated \in [Request -> Seq(OutToken)]
      BY <1>1 DEF SchedInv, Queues, TypeOK
    <2>1. CASE UNCHANGED schedVars
      BY <1>1, <2>1, OutputKept DEF schedVars, requestVars
    <2>2. CASE Schedule \/ ApplyResult \/ FailBatch \/ RunningLoopEnd \/ ScheduleEnd \/ ResultEnd
      BY <1>1, <2>2, OutputKept
         DEF Schedule, ApplyResult, FailBatch, RunningLoopEnd, ScheduleEnd, ResultEnd, requestVars
    <2>3. ASSUME NEW q \in Request, SkipRunning(q) \/ ScheduleRunning(q) \/ ReleaseFinished(q)
          PROVE  Kept(r)
      BY <1>1, <2>3, OutputKept DEF SkipRunning, ScheduleRunning, ReleaseFinished, requestVars
    <2>4. ASSUME NEW q \in Request, Submit(q) \/ Cancel(q) PROVE Kept(r)
      <3>1. generated' = generated /\ state[q] \notin Terminal
            /\ \A x \in Request \ {q} : state'[x] = state[x]
        BY <2>0, <2>4 DEF Submit, Cancel, Terminal
      <3> QED
        BY <1>1, <3>1, OutputStays
    <2>5. ASSUME NEW q \in Request, FailRunning(q) PROVE Kept(r)
      <3>1. generated' = generated /\ state[q] \notin Terminal
            /\ \A x \in Request \ {q} : state'[x] = state[x]
        BY <2>0, <2>5 DEF FailRunning, FailId, Terminal
      <3> QED
        BY <1>1, <3>1, OutputStays
    <2>6. ASSUME NEW q \in Request, NEW victim \in Request, Preempt(q, victim) PROVE Kept(r)
      <3>1. generated' = generated /\ state[victim] \notin Terminal
            /\ \A x \in Request \ {victim} : state'[x] = state[x]
        BY <2>0, <2>6 DEF Preempt, PreemptId, PreemptRequest, IsVictim, RunningIds, Terminal
      <3> QED
        BY <1>1, <3>1, OutputStays
    <2>7. ASSUME NEW q \in Request, AdmitWaiting(q) PROVE Kept(r)
      <3>1. state[q] = "Waiting"
        <4>1. waiting # <<>> /\ q = Head(waiting) /\ waiting \in Seq(Request)
          BY <1>1, <2>7 DEF AdmitWaiting, SchedInv, Queues, TypeOK
        <4>2. Contains(waiting, q)
          BY <4>1 DEF Contains
        <4> QED
          BY <1>1, <4>2 DEF SchedInv, Queues
      <3>2. generated' = generated /\ \A x \in Request \ {q} : state'[x] = state[x]
        BY <2>0, <2>7 DEF AdmitWaiting
      <3> QED
        BY <1>1, <3>1, <3>2, OutputStays DEF Terminal
    <2>8. ASSUME NEW q \in Request, FailItem(q) PROVE Kept(r)
      <3>1. 1 \in DOMAIN batch /\ q = batch[1].id
        BY <1>1, <2>8 DEF FailItem, SchedInv, Queues, TypeOK
      <3>2. state[q] = "Running"
        BY <1>1, <3>1 DEF SchedInv, BatchIsCurrent
      <3>3. generated' = generated /\ \A x \in Request \ {q} : state'[x] = state[x]
        BY <2>0, <2>8 DEF FailItem, FailId
      <3> QED
        BY <1>1, <3>2, <3>3, OutputStays DEF Terminal
    <2>9. ASSUME NEW i \in DOMAIN batch, NEW tokens \in {<<>>} \cup {<<t>> : t \in OutToken},
                 NEW is_eos \in BOOLEAN, ApplyItem(i, tokens, is_eos)
          PROVE  Kept(r)
      <3> DEFINE q == batch[i].id
      <3>1. q \in Request /\ state[q] = "Running"
        BY <1>1, ItemFacts DEF SchedInv, Queues, BatchIsCurrent
      <3>2. tokens \in Seq(OutToken)
        <4>1. <<>> \in Seq(OutToken) /\ \A t \in OutToken : <<t>> \in Seq(OutToken)
          OBVIOUS
        <4> QED
          BY <4>1, Zenon
      <3>3. /\ generated' = [generated EXCEPT ![q] = generated[q] \o tokens]
            /\ \E s : state' = [state EXCEPT ![q] = s]
        BY <2>9, Zenon DEF ApplyItem
      <3> HIDE DEF q
      <3>4. CASE r = q
        <4>1. generated'[r] = generated[r] \o tokens
          BY <2>0, <3>3, <3>4
        <4>2. state[r] \notin Terminal
          BY <3>1, <3>4 DEF Terminal
        <4> QED
          BY <2>0, <3>2, <4>1, <4>2, PrefixAppended
      <3>5. CASE r # q
        <4>1. generated'[r] = generated[r] /\ state'[r] = state[r]
          BY <2>0, <3>3, <3>5
        <4> QED
          BY <2>0, <4>1, PrefixReflexive
      <3> QED
        BY <3>4, <3>5
    <2> HIDE DEF Kept
    <2> QED
      BY <1>1, <2>1, <2>2, <2>3, <2>4, <2>5, <2>6, <2>7, <2>8, <2>9 DEF Next, Within
  <1>2. SchedInv /\ [Next]_schedVars => [\A r \in Request : Kept(r)]_schedVars
    BY <1>1
  <1> QED
    BY <1>2, SchedulerInvariant, PTL DEF Spec, OutputIsStable

-----------------------------------------------------------------------------
(* First come, first served.                                               *)

\* The running loop visits in order of arrival: what it has scheduled arrived
\* before what it has still to visit, and it visits every running request.
LoopOrder ==
  phase = "running" =>
    /\ \A i, j \in DOMAIN todo : i < j => arrival_index[todo[i]] < arrival_index[todo[j]]
    /\ \A r \in RunningIds : Scheduled(r) \/ Contains(todo, r)
    /\ \A r \in Request : Scheduled(r) =>
         \A i \in DOMAIN todo : arrival_index[r] < arrival_index[todo[i]]

ArrivedInv ==
  /\ ArrivalOrder
  /\ \A r \in Request : state[r] # "Unsubmitted" => arrival_index[r] < next_arrival
  /\ LoopOrder

\* A step that queues nobody and starts nobody.
LEMMA ArrivedStays ==
  ASSUME ArrivedInv, UNCHANGED <<arrival_index, waiting, next_arrival>>,
         \A r \in Request : state[r] = "Unsubmitted" => state'[r] = "Unsubmitted",
         RunningIds' \subseteq RunningIds,
         LoopOrder'
  PROVE  ArrivedInv'
  <1>1. ArrivalOrder'
    BY DEF ArrivedInv, ArrivalOrder
  <1> QED
    BY <1>1 DEF ArrivedInv

LEMMA LoopOrderTail ==
  ASSUME SchedInv, ArrivedInv, phase = "running", todo # <<>>,
         UNCHANGED <<arrival_index, batch>>, todo' = Tail(todo),
         RunningIds' \subseteq RunningIds \ {Head(todo)}
  PROVE  LoopOrder'
  <1>1. todo \in Seq(Request)
    BY DEF SchedInv, Queues, TypeOK
  <1>2. /\ \A i \in DOMAIN Tail(todo) : i + 1 \in DOMAIN todo /\ Tail(todo)[i] = todo[i + 1]
        /\ \A x : Contains(todo, x) <=> Contains(Tail(todo), x) \/ x = Head(todo)
    BY <1>1, TailFacts
  <1>3. \A i \in DOMAIN Tail(todo) : i \in Int
    BY <1>1
  <1>4. \A i, j \in DOMAIN todo' : i < j => arrival_index'[todo'[i]] < arrival_index'[todo'[j]]
    BY <1>2, <1>3 DEF ArrivedInv, LoopOrder
  <1>5. \A r \in RunningIds' : Scheduled(r)' \/ Contains(todo', r)
    BY <1>2 DEF ArrivedInv, LoopOrder, Scheduled
  <1>6. \A r \in Request : Scheduled(r)' =>
          \A i \in DOMAIN todo' : arrival_index'[r] < arrival_index'[todo'[i]]
    BY <1>2 DEF ArrivedInv, LoopOrder, Scheduled
  <1> QED
    BY <1>4, <1>5, <1>6 DEF LoopOrder

LEMMA FcfsBefore ==
  ASSUME Policy = "Fcfs", NEW a, NEW b
  PROVE  Before(a, b) <=> arrival_index[a] < arrival_index[b]
  BY DEF Before

LEMMA ArrivedNext ==
  ASSUME Policy = "Fcfs", SchedInv, ArrivedInv, [Next]_schedVars
  PROVE  ArrivedInv'
  <1>0. /\ TypeOK /\ IsInjective(waiting) /\ waiting \in Seq(Request) /\ todo \in Seq(Request)
        /\ arrival_index \in [Request -> Nat] /\ next_arrival \in Nat
        /\ state \in [Request -> {"Unsubmitted", "Waiting", "Running"} \cup Terminal]
        /\ \A r \in Request : state[r] = "Waiting" <=> Contains(waiting, r)
        /\ \A i \in DOMAIN waiting : waiting[i] \in Request /\ state[waiting[i]] = "Waiting"
    <2>1. /\ TypeOK /\ IsInjective(waiting)
          /\ \A r \in Request : state[r] = "Waiting" <=> Contains(waiting, r)
      BY DEF SchedInv, Queues
    <2>2. /\ waiting \in Seq(Request) /\ todo \in Seq(Request)
          /\ arrival_index \in [Request -> Nat] /\ next_arrival \in Nat
          /\ state \in [Request -> {"Unsubmitted", "Waiting", "Running"} \cup Terminal]
      BY <2>1 DEF TypeOK
    <2>3. \A i \in DOMAIN waiting : waiting[i] \in Request /\ Contains(waiting, waiting[i])
      BY <2>2 DEF Contains
    <2> QED
      BY <2>1, <2>2, <2>3
  <1>1. CASE UNCHANGED schedVars
    <2> USE <1>1 DEF schedVars, requestVars, queueVars, callVars
    <2>1. RunningIds' = RunningIds /\ LoopOrder'
      BY DEF RunningIds, LoopOrder, Scheduled, ArrivedInv
    <2> QED
      BY <2>1, ArrivedStays
  <1>2. ASSUME NEW r \in Request, Submit(r) PROVE ArrivedInv'
    <2>1. /\ state[r] = "Unsubmitted" /\ state' = [state EXCEPT ![r] = "Waiting"]
          /\ arrival_index' = [arrival_index EXCEPT ![r] = next_arrival]
          /\ next_arrival' = next_arrival + 1
          /\ waiting' = Append(waiting, r) /\ phase' # "running"
      BY <1>2 DEF Submit, callVars
    <2>2. /\ arrival_index'[r] = next_arrival
          /\ \A q \in Request \ {r} : arrival_index'[q] = arrival_index[q] /\ state'[q] = state[q]
          /\ state'[r] = "Waiting"
      BY <1>0, <2>1
    <2>3. \A q \in Request : q # r /\ state[q] # "Unsubmitted" => arrival_index'[q] < next_arrival
      BY <2>2 DEF ArrivedInv
    <2>4. /\ Len(waiting) \in Nat /\ DOMAIN waiting = 1 .. Len(waiting)
          /\ DOMAIN waiting' = 1 .. Len(waiting) + 1
          /\ waiting'[Len(waiting) + 1] = r
          /\ \A i \in 1 .. Len(waiting) : waiting'[i] = waiting[i] /\ waiting'[i] # r
      BY <1>0, <2>1
    <2>5. ASSUME NEW i \in DOMAIN waiting', NEW j \in DOMAIN waiting', i < j
          PROVE  arrival_index'[waiting'[i]] < arrival_index'[waiting'[j]]
      <3>1. i \in 1 .. Len(waiting) /\ waiting[i] \in Request /\ waiting'[i] = waiting[i] /\ waiting[i] # r
        BY <1>0, <2>4, <2>5
      <3>2. CASE j = Len(waiting) + 1
        <4>1. arrival_index'[waiting'[i]] < next_arrival
          BY <1>0, <2>3, <2>4, <3>1
        <4> QED
          BY <2>2, <2>4, <3>2, <4>1
      <3>3. CASE j # Len(waiting) + 1
        <4>1. j \in 1 .. Len(waiting) /\ waiting[j] \in Request /\ waiting'[j] = waiting[j] /\ waiting[j] # r
          BY <1>0, <2>4, <3>3
        <4>2. arrival_index[waiting[i]] < arrival_index[waiting[j]]
          BY <2>4, <2>5, <3>1, <4>1 DEF ArrivedInv, ArrivalOrder
        <4> QED
          BY <2>2, <3>1, <4>1, <4>2
      <3> QED
        BY <3>2, <3>3
    <2>6. ASSUME NEW q \in RunningIds', NEW i \in DOMAIN waiting'
          PROVE  arrival_index'[q] < arrival_index'[waiting'[i]]
      <3>1. q \in Request /\ q # r /\ q \in RunningIds /\ state[q] = "Running"
        BY <1>2, <2>2, <2>6, <1>0 DEF RunningIds, Submit, TypeOK
      <3>2. CASE i = Len(waiting) + 1
        BY <2>2, <2>3, <2>4, <3>1, <3>2
      <3>3. CASE i # Len(waiting) + 1
        <4>1. i \in DOMAIN waiting /\ waiting[i] \in Request /\ waiting'[i] = waiting[i] /\ waiting[i] # r
          BY <1>0, <2>4, <3>3
        <4> QED
          BY <2>2, <3>1, <4>1 DEF ArrivedInv, ArrivalOrder
      <3> QED
        BY <3>2, <3>3
    <2>7. \A q \in Request : state'[q] # "Unsubmitted" => arrival_index'[q] < next_arrival'
      <3> SUFFICES ASSUME NEW q \in Request, state'[q] # "Unsubmitted"
                   PROVE  arrival_index'[q] < next_arrival + 1
        BY <2>1
      <3>1. CASE q = r
        BY <1>0, <2>2, <3>1
      <3>2. CASE q # r
        <4>1. arrival_index'[q] < next_arrival /\ arrival_index'[q] \in Nat
          BY <1>0, <2>2, <2>3, <3>2
        <4> QED
          BY <1>0, <4>1
      <3> QED
        BY <3>1, <3>2
    <2> QED
      BY <2>1, <2>5, <2>6, <2>7 DEF ArrivedInv, ArrivalOrder, LoopOrder
  <1>3. ASSUME NEW r \in Request, Cancel(r) PROVE ArrivedInv'
    <2>1. /\ state' = [state EXCEPT ![r] = "Cancelled"] /\ running' = running \ {r}
          /\ UNCHANGED <<arrival_index, next_arrival>> /\ phase' # "running"
          /\ waiting' = RemoveFirst(waiting, r)
          /\ state[r] # "Unsubmitted"
      BY <1>3 DEF Cancel, callVars
    <2>2. RunningIds' \subseteq RunningIds
      BY <1>0, <2>1 DEF RunningIds, TypeOK
    <2>3. /\ waiting' \in Seq(Request)
          /\ \A q : Contains(waiting', q) => Contains(waiting, q)
          /\ \A i, j \in DOMAIN waiting' : i < j =>
               \E m, n \in DOMAIN waiting : m < n /\ waiting[m] = waiting'[i] /\ waiting[n] = waiting'[j]
      <3> DEFINE rest == RemoveFirst(waiting, r)
      <3>0. waiting \in Seq(Request) /\ IsInjective(waiting)
        BY <1>0
      <3>1. /\ rest \in Seq(Request)
            /\ \A q : Contains(rest, q) <=> Contains(waiting, q) /\ q # r
            /\ \A i, j \in DOMAIN rest : i < j =>
                 \E m, n \in DOMAIN waiting : m < n /\ waiting[m] = rest[i] /\ waiting[n] = rest[j]
        <4>1. rest \in Seq(Request)
          BY <3>0, RemoveFirstFacts, Zenon
        <4>2. \A q : Contains(rest, q) <=> Contains(waiting, q) /\ q # r
          BY <3>0, RemoveFirstFacts, Zenon
        <4>3. \A i, j \in DOMAIN rest : i < j =>
                \E m, n \in DOMAIN waiting : m < n /\ waiting[m] = rest[i] /\ waiting[n] = rest[j]
          BY <3>0, RemoveFirstFacts, SMTT(60)
        <4> QED
          BY <4>1, <4>2, <4>3
      <3>2. waiting' = rest
        BY <2>1
      <3> HIDE DEF rest
      <3> QED
        BY <3>1, <3>2
    <2>4. \A i \in DOMAIN waiting' : \E m \in DOMAIN waiting : waiting[m] = waiting'[i]
      <3>1. DOMAIN waiting = 1 .. Len(waiting) /\ DOMAIN waiting' = 1 .. Len(waiting')
        BY <1>0, <2>3
      <3>2. \A i \in DOMAIN waiting' : Contains(waiting', waiting'[i])
        BY <3>1 DEF Contains
      <3> QED
        BY <2>3, <3>1, <3>2 DEF Contains
    <2>5. ArrivalOrder'
      BY <2>1, <2>2, <2>3, <2>4 DEF ArrivedInv, ArrivalOrder
    <2>6. \A q \in Request : state'[q] # "Unsubmitted" => arrival_index'[q] < next_arrival'
      BY <1>0, <2>1 DEF ArrivedInv
    <2> QED
      BY <2>1, <2>5, <2>6 DEF ArrivedInv, LoopOrder
  <1>4. CASE Schedule
    <2>1. /\ todo' \in OrderedRunningIds /\ batch' = <<>>
          /\ UNCHANGED <<state, arrival_index, waiting, running, next_arrival>>
      BY <1>4 DEF Schedule, requestVars, queueVars
    <2>2. /\ \A q \in RunningIds : Contains(todo', q)
          /\ \A i, j \in DOMAIN todo' : i < j => Before(todo'[i], todo'[j])
      BY <1>0, <2>1, OrderedFacts
    <2>3. RunningIds' = RunningIds
      BY <2>1 DEF RunningIds
    <2>4. LoopOrder'
      BY <2>1, <2>2, <2>3, FcfsBefore DEF LoopOrder, Scheduled
    <2> QED
      BY <2>1, <2>3, <2>4, ArrivedStays
  <1>5. CASE ApplyResult \/ FailBatch \/ RunningLoopEnd \/ ScheduleEnd \/ ResultEnd
    <2>1. /\ UNCHANGED <<state, arrival_index, waiting, running, next_arrival>>
          /\ phase' # "running"
      BY <1>5 DEF ApplyResult, FailBatch, RunningLoopEnd, ScheduleEnd, ResultEnd, requestVars, queueVars
    <2>2. RunningIds' = RunningIds /\ LoopOrder'
      BY <2>1 DEF RunningIds, LoopOrder
    <2> QED
      BY <2>1, <2>2, ArrivedStays
  <1>6. ASSUME NEW r \in Request, SkipRunning(r) PROVE ArrivedInv'
    <2>1. /\ UNCHANGED <<state, arrival_index, waiting, running, next_arrival, batch>>
          /\ phase = "running" /\ todo # <<>> /\ r = Head(todo) /\ todo' = Tail(todo)
          /\ state[r] # "Running"
      BY <1>6 DEF SkipRunning, Visiting, requestVars, queueVars
    <2>2. RunningIds' \subseteq RunningIds \ {r}
      BY <2>1 DEF RunningIds
    <2> QED
      BY <2>1, <2>2, LoopOrderTail, ArrivedStays
  <1>7. ASSUME NEW r \in Request, FailRunning(r) PROVE ArrivedInv'
    <2>1. /\ UNCHANGED <<arrival_index, waiting, next_arrival, batch>>
          /\ phase = "running" /\ todo # <<>> /\ r = Head(todo) /\ todo' = Tail(todo)
          /\ state' = [state EXCEPT ![r] = "Failed"] /\ state[r] = "Running"
          /\ running' = running \ {r}
      BY <1>7 DEF FailRunning, FailId, Visiting
    <2>2. RunningIds' \subseteq RunningIds \ {r}
      BY <1>0, <2>1 DEF RunningIds, TypeOK
    <2>3. \A q \in Request : state[q] = "Unsubmitted" => state'[q] = "Unsubmitted"
      BY <1>0, <2>1
    <2> QED
      BY <2>1, <2>2, <2>3, LoopOrderTail, ArrivedStays
  <1>8. ASSUME NEW r \in Request, NEW v \in Request, Preempt(r, v) PROVE ArrivedInv'
    <2>1. /\ UNCHANGED <<arrival_index, next_arrival, batch, todo, phase>>
          /\ phase = "running" /\ IsVictim(v)
          /\ state' = [state EXCEPT ![v] = "Waiting"]
          /\ running' = running \ {v}
          /\ waiting' = <<v>> \o waiting
      BY <1>8 DEF Preempt, PreemptId, PreemptRequest, Visiting, callVars
    <2>2. v \in RunningIds /\ ~Scheduled(v) /\ state[v] = "Running" /\ v \in running
      BY <2>1 DEF IsVictim, RunningIds
    <2>3. RunningIds' = RunningIds \ {v}
      BY <1>0, <2>1 DEF RunningIds, TypeOK
    <2>4. PICK n \in DOMAIN todo : todo[n] = v
      <3>1. Contains(todo, v)
        BY <2>1, <2>2 DEF ArrivedInv, LoopOrder
      <3> QED
        BY <1>0, <3>1 DEF Contains
    <2>5. \A q \in RunningIds \ {v} : arrival_index[q] < arrival_index[v]
      <3> SUFFICES ASSUME NEW q \in RunningIds \ {v} PROVE arrival_index[q] < arrival_index[v]
        OBVIOUS
      <3>1. CASE Scheduled(q)
        <4>1. q \in Request
          BY <1>0 DEF RunningIds, TypeOK
        <4> QED
          BY <2>1, <2>4, <3>1, <4>1 DEF ArrivedInv, LoopOrder
      <3>2. CASE ~Scheduled(q)
        BY <2>1, <3>2, FcfsBefore DEF IsVictim
      <3> QED
        BY <3>1, <3>2
    <2>6. \A i \in DOMAIN waiting : arrival_index[v] < arrival_index[waiting[i]]
      BY <2>2 DEF ArrivedInv, ArrivalOrder
    <2>7. /\ DOMAIN waiting' = 1 .. Len(waiting) + 1 /\ Len(waiting) \in Nat
          /\ DOMAIN waiting = 1 .. Len(waiting)
          /\ waiting'[1] = v
          /\ \A i \in 2 .. Len(waiting) + 1 : waiting'[i] = waiting[i - 1]
      <3>1. /\ <<v>> \o waiting \in Seq(Request) /\ Len(<<v>> \o waiting) = Len(waiting) + 1
            /\ (<<v>> \o waiting)[1] = v
            /\ \A i \in 2 .. Len(waiting) + 1 : (<<v>> \o waiting)[i] = waiting[i - 1]
        BY <1>0, PushFacts
      <3> QED
        BY <1>0, <2>1, <3>1
    <2>8. \A i \in DOMAIN waiting' : i = 1 \/ (i - 1 \in DOMAIN waiting /\ waiting'[i] = waiting[i - 1])
      BY <2>7
    <2>9. ASSUME NEW i \in DOMAIN waiting', NEW j \in DOMAIN waiting', i < j
          PROVE  arrival_index[waiting'[i]] < arrival_index[waiting'[j]]
      <3>1. j # 1 /\ j - 1 \in DOMAIN waiting /\ waiting'[j] = waiting[j - 1]
        BY <2>7, <2>8, <2>9
      <3>2. CASE i = 1
        BY <2>6, <2>7, <3>1, <3>2
      <3>3. CASE i # 1
        <4>1. i - 1 \in DOMAIN waiting /\ waiting'[i] = waiting[i - 1] /\ i - 1 < j - 1
          BY <2>7, <2>8, <2>9, <3>3
        <4> QED
          BY <3>1, <4>1 DEF ArrivedInv, ArrivalOrder
      <3> QED
        BY <3>2, <3>3
    <2>10. ASSUME NEW q \in RunningIds \ {v}, NEW i \in DOMAIN waiting'
           PROVE  arrival_index[q] < arrival_index[waiting'[i]]
      BY <2>5, <2>7, <2>8 DEF ArrivedInv, ArrivalOrder
    <2>11. ArrivalOrder'
      BY <2>1, <2>3, <2>9, <2>10 DEF ArrivalOrder
    <2>12. LoopOrder'
      BY <2>1, <2>3 DEF ArrivedInv, LoopOrder, Scheduled
    <2>13. \A q \in Request : state'[q] # "Unsubmitted" => arrival_index'[q] < next_arrival'
      BY <1>0, <2>1, <2>2 DEF ArrivedInv
    <2> QED
      BY <2>11, <2>12, <2>13 DEF ArrivedInv
  <1>9. ASSUME NEW r \in Request, ScheduleRunning(r) PROVE ArrivedInv'
    <2>1. /\ UNCHANGED <<state, arrival_index, waiting, running, next_arrival>>
          /\ phase = "running" /\ todo # <<>> /\ r = Head(todo) /\ todo' = Tail(todo)
          /\ batch' = Append(batch, NewItem(r, <<>>, allocations'[r]))
      BY <1>9 DEF ScheduleRunning, Visiting, ScheduleOne, NewItem, requestVars, queueVars
    <2>2. RunningIds' = RunningIds
      BY <2>1 DEF RunningIds
    <2>3. \A q : Scheduled(q)' <=> Scheduled(q) \/ q = r
      <3>1. PICK e : e.id = r /\ batch' = Append(batch, e)
        <4>1. NewItem(r, <<>>, allocations'[r]).id = r
          BY DEF NewItem
        <4> QED
          BY <2>1, <4>1
      <3>2. /\ Len(batch) \in Nat /\ DOMAIN batch = 1 .. Len(batch)
            /\ DOMAIN batch' = 1 .. Len(batch) + 1 /\ batch'[Len(batch) + 1] = e
            /\ \A i \in 1 .. Len(batch) : batch'[i] = batch[i]
        BY <1>0, <3>1 DEF TypeOK
      <3>3. \A i \in 1 .. Len(batch) + 1 : i \in 1 .. Len(batch) \/ i = Len(batch) + 1
        BY <3>2
      <3>4. \A i \in 1 .. Len(batch) : i \in 1 .. Len(batch) + 1
        BY <3>2
      <3>5. Len(batch) + 1 \in 1 .. Len(batch) + 1
        BY <3>2
      <3> QED
        BY <3>1, <3>2, <3>3, <3>4, <3>5 DEF Scheduled
    <2>4. /\ \A i \in DOMAIN Tail(todo) : i + 1 \in DOMAIN todo /\ Tail(todo)[i] = todo[i + 1] /\ i \in Nat /\ 1 < i + 1
          /\ \A x : Contains(todo, x) <=> Contains(Tail(todo), x) \/ x = Head(todo)
          /\ r = todo[1] /\ 1 \in DOMAIN todo
      <3>1. Tail(todo) \in Seq(Request)
        BY <1>0, <2>1
      <3>2. \A i \in DOMAIN Tail(todo) : i \in Nat /\ 1 < i + 1
        BY <3>1
      <3> QED
        BY <1>0, <2>1, <3>2, TailFacts
    <2>5. \A i, j \in DOMAIN todo' : i < j => arrival_index'[todo'[i]] < arrival_index'[todo'[j]]
      <3>1. \A i, j \in DOMAIN Tail(todo) : i < j => i + 1 < j + 1
        BY <2>4
      <3> QED
        BY <2>1, <2>4, <3>1 DEF ArrivedInv, LoopOrder
    <2>6. \A q \in RunningIds' : Scheduled(q)' \/ Contains(todo', q)
      BY <2>1, <2>2, <2>3, <2>4 DEF ArrivedInv, LoopOrder
    <2>7. \A q \in Request : Scheduled(q)' =>
            \A i \in DOMAIN todo' : arrival_index'[q] < arrival_index'[todo'[i]]
      BY <2>1, <2>3, <2>4 DEF ArrivedInv, LoopOrder
    <2>8. LoopOrder'
      BY <2>5, <2>6, <2>7 DEF LoopOrder
    <2> QED
      BY <2>1, <2>2, <2>8, ArrivedStays
  <1>10. ASSUME NEW r \in Request, AdmitWaiting(r) PROVE ArrivedInv'
    <2>1. /\ UNCHANGED <<arrival_index, next_arrival>> /\ phase' # "running"
          /\ state' = [state EXCEPT ![r] = "Running"]
          /\ running' = running \cup {r}
          /\ waiting # <<>> /\ r = Head(waiting) /\ waiting' = Tail(waiting)
      BY <1>10 DEF AdmitWaiting
    <2>2. /\ \A i \in DOMAIN Tail(waiting) : i + 1 \in DOMAIN waiting /\ Tail(waiting)[i] = waiting[i + 1] /\ i \in Nat /\ 1 < i + 1
          /\ r = waiting[1] /\ 1 \in DOMAIN waiting
      <3>1. Tail(waiting) \in Seq(Request)
        BY <1>0, <2>1
      <3>2. \A i \in DOMAIN Tail(waiting) : i \in Nat /\ 1 < i + 1
        BY <3>1
      <3> QED
        BY <1>0, <2>1, <3>2, TailFacts
    <2>3. RunningIds' \subseteq RunningIds \cup {r}
      BY <1>0, <2>1 DEF RunningIds, TypeOK
    <2>4. \A i, j \in DOMAIN Tail(waiting) : i < j => i + 1 < j + 1
      BY <2>2
    <2>5. ArrivalOrder'
      BY <2>1, <2>2, <2>3, <2>4 DEF ArrivedInv, ArrivalOrder
    <2>6. \A q \in Request : state'[q] # "Unsubmitted" => arrival_index'[q] < next_arrival'
      BY <1>0, <2>1, <2>2 DEF ArrivedInv
    <2> QED
      BY <2>1, <2>5, <2>6 DEF ArrivedInv, LoopOrder
  <1>11. ASSUME NEW r \in Request, ReleaseFinished(r) PROVE ArrivedInv'
    <2>1. /\ UNCHANGED <<state, arrival_index, waiting, next_arrival>>
          /\ running' = running \ {r} /\ phase' # "running"
      BY <1>11 DEF ReleaseFinished, requestVars
    <2>2. RunningIds' \subseteq RunningIds /\ LoopOrder'
      BY <2>1 DEF RunningIds, LoopOrder
    <2> QED
      BY <2>1, <2>2, ArrivedStays
  <1>12. ASSUME NEW r \in Request, FailItem(r) PROVE ArrivedInv'
    <2>1. /\ UNCHANGED <<arrival_index, waiting, next_arrival>>
          /\ running' = running \ {r} /\ phase' # "running"
          /\ state' = [state EXCEPT ![r] = "Failed"] /\ batch # <<>> /\ r = Head(batch).id
      BY <1>12 DEF FailItem, FailId, callVars
    <2>2. RunningIds' \subseteq RunningIds /\ LoopOrder'
      BY <1>0, <2>1 DEF RunningIds, LoopOrder, TypeOK
    <2>3. state[r] = "Running"
      <3>1. 1 \in DOMAIN batch /\ r = batch[1].id
        BY <1>0, <2>1 DEF TypeOK
      <3> QED
        BY <3>1 DEF SchedInv, BatchIsCurrent
    <2>4. \A q \in Request : state[q] = "Unsubmitted" => state'[q] = "Unsubmitted"
      BY <1>0, <2>1, <2>3
    <2> QED
      BY <2>1, <2>2, <2>4, ArrivedStays
  <1>13. ASSUME NEW i \in DOMAIN batch, NEW tokens \in {<<>>} \cup {<<t>> : t \in OutToken},
                NEW is_eos \in BOOLEAN, ApplyItem(i, tokens, is_eos)
         PROVE  ArrivedInv'
    <2> DEFINE r == batch[i].id
    <2>1. r \in Request /\ state[r] = "Running"
      BY <1>0, ItemFacts DEF SchedInv, BatchIsCurrent
    <2>2. /\ UNCHANGED <<arrival_index, waiting, running, next_arrival>>
          /\ phase' \in {"release", "apply"}
          /\ \E s \in {"Finished", state[r]} : state' = [state EXCEPT ![r] = s]
      BY <1>13 DEF ApplyItem, queueVars
    <2> HIDE DEF r
    <2>3. PICK s \in {"Finished", state[r]} : state' = [state EXCEPT ![r] = s]
      BY <2>2
    <2>4. RunningIds' \subseteq RunningIds /\ LoopOrder'
      BY <1>0, <2>1, <2>2, <2>3 DEF RunningIds, LoopOrder, TypeOK
    <2>5. \A q \in Request : state[q] = "Unsubmitted" => state'[q] = "Unsubmitted"
      BY <1>0, <2>1, <2>3
    <2> QED
      BY <2>2, <2>4, <2>5, ArrivedStays
  <1> QED
    BY <1>1, <1>2, <1>3, <1>4, <1>5, <1>6, <1>7, <1>8, <1>9, <1>10, <1>11, <1>12, <1>13
       DEF Next, Within

\* Under the policy Fcfs the waiting queue is in order of arrival and whatever
\* runs arrived before whatever waits, through every preemption (which puts the
\* victim at the head of the queue) and readmission.
THEOREM ArrivalOrderHolds ==
  ASSUME Policy = "Fcfs"
  PROVE  Spec => []ArrivalOrder
  <1>1. Init => ArrivedInv
    BY DEF Init, ArrivedInv, ArrivalOrder, LoopOrder, RunningIds
  <1>2. SchedInv /\ ArrivedInv /\ [Next]_schedVars => ArrivedInv'
    BY ArrivedNext
  <1>3. ArrivedInv => ArrivalOrder
    BY DEF ArrivedInv
  <1> QED
    BY <1>1, <1>2, <1>3, SchedulerInvariant, PTL DEF Spec

-----------------------------------------------------------------------------
(* The order of the running loop, and a call that has scheduled nothing.   *)

\* The running loop has had its turn with a when that of b is still to come.
Ahead(a, b) ==
  \/ Scheduled(a) /\ Contains(todo, b)
  \/ \E i, j \in DOMAIN todo : i < j /\ todo[i] = a /\ todo[j] = b

\* Under either policy the running loop visits what still runs in the policy's
\* order, and it visits every running request.
TurnOrder ==
  phase = "running" =>
    /\ \A a, b \in RunningIds : Ahead(a, b) => Before(a, b)
    /\ \A q \in RunningIds : Scheduled(q) \/ Contains(todo, q)

\* A call that has scheduled nothing has its whole budget left, and after the
\* running loop nothing runs.
NothingYet ==
  batch = <<>> =>
    /\ phase \in {"running", "waiting"} => remaining = MaxBatchLen
    /\ phase = "waiting" => running = {}

TurnInv == TurnOrder /\ NothingYet

LEMMA BeforeAsymmetric ==
  ASSUME TypeOK, NEW a \in Request, NEW b \in Request, Before(a, b)
  PROVE  ~Before(b, a)
  <1>1. arrival_index[a] \in Nat /\ arrival_index[b] \in Nat
    BY DEF TypeOK
  <1> QED
    BY <1>1 DEF Before

\* Before depends on two fields of a request, which a turn does not change
\* unless the request stops running.
LEMMA TurnKeeps ==
  ASSUME TurnOrder, phase = "running", RunningIds' \subseteq RunningIds,
         \A q \in RunningIds' : /\ cached_len'[q] = cached_len[q]
                                /\ arrival_index'[q] = arrival_index[q],
         \A a, b \in RunningIds' : Ahead(a, b)' => Ahead(a, b),
         \A q \in RunningIds' : Scheduled(q)' \/ Contains(todo, q)'
  PROVE  TurnOrder'
  <1>1. ASSUME NEW a \in RunningIds', NEW b \in RunningIds', Ahead(a, b)'
        PROVE  Before(a, b)'
    <2>1. a \in RunningIds /\ b \in RunningIds /\ Ahead(a, b)
      BY <1>1
    <2>2. Before(a, b)
      BY <2>1 DEF TurnOrder
    <2>3. /\ cached_len'[a] = cached_len[a] /\ arrival_index'[a] = arrival_index[a]
          /\ cached_len'[b] = cached_len[b] /\ arrival_index'[b] = arrival_index[b]
      BY <1>1
    <2> QED
      BY <2>2, <2>3 DEF Before, WorkIsDecode
  <1> QED
    BY <1>1 DEF TurnOrder

\* A turn without a place in the batch: the head runs no more.
LEMMA TurnPasses ==
  ASSUME TypeOK, TurnOrder, phase = "running", todo # <<>>, todo' = Tail(todo), batch' = batch,
         UNCHANGED <<cached_len, arrival_index>>, RunningIds' \subseteq RunningIds \ {Head(todo)}
  PROVE  TurnOrder'
  <1>1. todo \in Seq(Request)
    BY DEF TypeOK
  <1>2. /\ \A i \in DOMAIN Tail(todo) : i + 1 \in DOMAIN todo /\ Tail(todo)[i] = todo[i + 1]
        /\ \A x : Contains(todo, x) <=> Contains(Tail(todo), x) \/ x = Head(todo)
    BY <1>1, TailFacts
  <1>3. \A i, j \in DOMAIN Tail(todo) : i < j => i + 1 < j + 1
    BY <1>1
  <1>4. \A q : Scheduled(q)' <=> Scheduled(q)
    BY DEF Scheduled
  <1>5. \A a, b : Ahead(a, b)' => Ahead(a, b)
    BY <1>2, <1>3, <1>4 DEF Ahead
  <1>6. \A q \in RunningIds' : Scheduled(q)' \/ Contains(todo, q)'
    BY <1>2, <1>4 DEF TurnOrder
  <1> QED
    BY <1>5, <1>6, TurnKeeps

\* Only while a finished request is released is there another in `running`.
LEMMA AllRun ==
  ASSUME SchedInv, phase # "release"
  PROVE  running = RunningIds
  <1>1. running \subseteq Request /\ \A r \in Request : state[r] = "Running" <=> r \in running
    BY DEF SchedInv, Queues, TypeOK
  <1> QED
    BY <1>1 DEF RunningIds

\* schedule_one puts the request into the batch.
LEMMA BatchGrows ==
  ASSUME TypeOK, NEW r, NEW plan, ScheduleOne(r, plan)
  PROVE  /\ \A q : Scheduled(q)' <=> Scheduled(q) \/ q = r
         /\ batch' # <<>>
  <1>1. PICK e : e.id = r /\ batch' = Append(batch, e)
    <2>1. NewItem(r, plan, allocations'[r]).id = r
      BY DEF NewItem
    <2> QED
      BY <2>1 DEF ScheduleOne, NewItem
  <1>2. /\ Len(batch) \in Nat /\ DOMAIN batch = 1 .. Len(batch)
        /\ DOMAIN batch' = 1 .. Len(batch) + 1 /\ batch'[Len(batch) + 1] = e
        /\ \A i \in 1 .. Len(batch) : batch'[i] = batch[i]
    BY <1>1 DEF TypeOK
  <1>3. /\ \A i \in 1 .. Len(batch) + 1 : i \in 1 .. Len(batch) \/ i = Len(batch) + 1
        /\ \A i \in 1 .. Len(batch) : i \in 1 .. Len(batch) + 1
        /\ Len(batch) + 1 \in 1 .. Len(batch) + 1
    BY <1>2
  <1>4. \A q : Scheduled(q)' <=> Scheduled(q) \/ q = r
    BY <1>1, <1>2, <1>3 DEF Scheduled
  <1>5. batch' # <<>>
    BY <1>2, <1>3
  <1> QED
    BY <1>4, <1>5

LEMMA TurnNext ==
  ASSUME SchedInv, TurnInv, [Next]_schedVars
  PROVE  TurnInv'
  <1>0. /\ TypeOK /\ waiting \in Seq(Request) /\ todo \in Seq(Request)
        /\ state \in [Request -> {"Unsubmitted", "Waiting", "Running"} \cup Terminal]
        /\ cached_len \in [Request -> Nat] /\ arrival_index \in [Request -> Nat]
        /\ running \subseteq Request
    BY DEF SchedInv, Queues, TypeOK
  <1> USE DEF TurnInv
  <1>1. CASE UNCHANGED schedVars
    <2> USE <1>1 DEF schedVars, requestVars, queueVars, callVars
    <2>1. TurnOrder'
      BY DEF TurnOrder, RunningIds, Ahead, Scheduled, Before, WorkIsDecode
    <2>2. NothingYet'
      BY DEF NothingYet
    <2> QED
      BY <2>1, <2>2
  <1>2. CASE \/ \E r \in Request : Submit(r) \/ Cancel(r)
             \/ ApplyResult \/ FailBatch \/ ScheduleEnd \/ ResultEnd
    <2>1. phase' \in {"idle", "apply", "fail"}
      BY <1>2 DEF Submit, Cancel, ApplyResult, FailBatch, ScheduleEnd, ResultEnd, callVars
    <2> QED
      BY <2>1 DEF TurnOrder, NothingYet
  <1>3. CASE \/ \E r \in Request : ReleaseFinished(r) \/ FailItem(r)
             \/ \E i \in DOMAIN batch, tokens \in {<<>>} \cup {<<t>> : t \in OutToken},
                   is_eos \in BOOLEAN : ApplyItem(i, tokens, is_eos)
    <2>1. phase' \in {"apply", "fail", "release"}
      BY <1>3 DEF ReleaseFinished, FailItem, ApplyItem, callVars
    <2> QED
      BY <2>1 DEF TurnOrder, NothingYet
  <1>4. CASE Schedule
    <2>1. /\ todo' \in OrderedRunningIds /\ batch' = <<>>
          /\ UNCHANGED <<state, cached_len, arrival_index, running>>
          /\ phase' = "running" /\ remaining' = MaxBatchLen
      BY <1>4 DEF Schedule, requestVars, queueVars
    <2>2. /\ \A q \in RunningIds : Contains(todo', q)
          /\ \A i, j \in DOMAIN todo' : i < j => Before(todo'[i], todo'[j])
      BY <1>0, <2>1, OrderedFacts
    <2>3. RunningIds' = RunningIds /\ \A a, b : Before(a, b)' <=> Before(a, b)
      BY <2>1 DEF RunningIds, Before, WorkIsDecode
    <2>4. \A a, b \in RunningIds' : Ahead(a, b)' => Before(a, b)'
      BY <2>1, <2>2, <2>3 DEF Ahead, Scheduled
    <2>5. \A q \in RunningIds' : Contains(todo, q)'
      BY <2>2, <2>3 DEF Contains
    <2> QED
      BY <2>1, <2>4, <2>5 DEF TurnOrder, NothingYet
  <1>5. CASE RunningLoopEnd
    <2>1. /\ phase = "running" /\ phase' = "waiting" /\ (todo = <<>> \/ remaining = 0)
          /\ UNCHANGED <<running, remaining, batch>>
      BY <1>5 DEF RunningLoopEnd, queueVars
    <2>2. ASSUME batch = <<>> PROVE remaining = MaxBatchLen /\ running = {}
      <3>1. remaining = MaxBatchLen /\ remaining # 0 /\ todo = <<>>
        BY <1>5, <2>1, <2>2, ConfigAssumption DEF NothingYet, RunningLoopEnd
      <3>2. \A q \in RunningIds : FALSE
        BY <2>1, <2>2, <3>1 DEF TurnOrder, Scheduled, Contains
      <3>3. running = RunningIds
        BY <2>1, AllRun
      <3> QED
        BY <3>1, <3>2, <3>3
    <2> QED
      BY <2>1, <2>2 DEF TurnOrder, NothingYet
  <1>6. ASSUME NEW r \in Request, SkipRunning(r) PROVE TurnInv'
    <2>1. /\ UNCHANGED <<state, cached_len, arrival_index, running, batch, remaining, phase>>
          /\ phase = "running" /\ todo # <<>> /\ r = Head(todo) /\ todo' = Tail(todo)
          /\ state[r] # "Running"
      BY <1>6 DEF SkipRunning, Visiting, requestVars, queueVars
    <2>2. RunningIds' \subseteq RunningIds \ {r}
      BY <2>1 DEF RunningIds
    <2>3. TurnOrder'
      BY <1>0, <2>1, <2>2, TurnPasses
    <2> QED
      BY <2>1, <2>3 DEF NothingYet
  <1>7. ASSUME NEW r \in Request, FailRunning(r) PROVE TurnInv'
    <2>1. /\ UNCHANGED <<cached_len, arrival_index, batch, remaining, phase>>
          /\ phase = "running" /\ todo # <<>> /\ r = Head(todo) /\ todo' = Tail(todo)
          /\ state' = [state EXCEPT ![r] = "Failed"]
          /\ running' = running \ {r}
      BY <1>7 DEF FailRunning, FailId, Visiting
    <2>2. RunningIds' \subseteq RunningIds \ {r}
      BY <1>0, <2>1 DEF RunningIds
    <2>3. TurnOrder'
      BY <1>0, <2>1, <2>2, TurnPasses
    <2> QED
      BY <2>1, <2>3 DEF NothingYet
  <1>8. ASSUME NEW r \in Request, NEW v \in Request, Preempt(r, v) PROVE TurnInv'
    <2>1. /\ UNCHANGED <<arrival_index, batch, todo, phase, remaining>>
          /\ phase = "running"
          /\ state' = [state EXCEPT ![v] = "Waiting"]
          /\ cached_len' = [cached_len EXCEPT ![v] = 0]
          /\ running' = running \ {v}
      BY <1>8 DEF Preempt, PreemptId, PreemptRequest, Visiting, callVars
    <2>2. /\ RunningIds' \subseteq RunningIds
          /\ \A q \in RunningIds' : cached_len'[q] = cached_len[q] /\ arrival_index'[q] = arrival_index[q]
      BY <1>0, <2>1 DEF RunningIds
    <2>3. \A a, b : /\ Ahead(a, b)' <=> Ahead(a, b)
                    /\ Scheduled(a)' <=> Scheduled(a)
                    /\ Contains(todo, a)' <=> Contains(todo, a)
      BY <2>1 DEF Ahead, Scheduled, Contains
    <2>4. TurnOrder'
      <3>1. \A q \in RunningIds' : Scheduled(q)' \/ Contains(todo, q)'
        BY <2>1, <2>2, <2>3 DEF TurnOrder
      <3> QED
        BY <2>1, <2>2, <2>3, <3>1, TurnKeeps
    <2> QED
      BY <2>1, <2>4 DEF NothingYet
  <1>9. ASSUME NEW r \in Request, ScheduleRunning(r) PROVE TurnInv'
    <2>1. /\ UNCHANGED <<state, cached_len, arrival_index, running>>
          /\ phase = "running" /\ phase' = "running" /\ todo # <<>> /\ r = Head(todo)
          /\ todo' = Tail(todo) /\ ScheduleOne(r, <<>>)
      BY <1>9 DEF ScheduleRunning, Visiting, requestVars, queueVars
    <2>2. RunningIds' = RunningIds
      BY <2>1 DEF RunningIds
    <2>3. (\A q : Scheduled(q)' <=> Scheduled(q) \/ q = r) /\ batch' # <<>>
      BY <1>0, <2>1, BatchGrows
    <2>4. /\ \A i \in DOMAIN Tail(todo) : i + 1 \in DOMAIN todo /\ Tail(todo)[i] = todo[i + 1]
          /\ \A x : Contains(todo, x) <=> Contains(Tail(todo), x) \/ x = r
          /\ r = todo[1] /\ 1 \in DOMAIN todo
      BY <1>0, <2>1, TailFacts
    <2>5. /\ \A i \in DOMAIN Tail(todo) : 1 < i + 1
          /\ \A i, j \in DOMAIN Tail(todo) : i < j => i + 1 < j + 1
      BY <1>0, <2>1
    <2>6. ASSUME NEW a, NEW b, Ahead(a, b)' PROVE Ahead(a, b)
      <3>1. CASE Scheduled(a)' /\ Contains(todo, b)'
        <4>1. Contains(Tail(todo), b)
          BY <2>1, <3>1 DEF Contains
        <4>2. CASE Scheduled(a)
          BY <2>4, <4>1, <4>2 DEF Ahead
        <4>3. CASE a = r
          <5>0. DOMAIN Tail(todo) = 1 .. Len(Tail(todo))
            BY <1>0, <2>1
          <5>1. PICK i \in DOMAIN Tail(todo) : Tail(todo)[i] = b
            BY <4>1, <5>0, Zenon DEF Contains
          <5> QED
            BY <2>4, <2>5, <4>3, <5>1 DEF Ahead
        <4> QED
          BY <2>3, <3>1, <4>2, <4>3
      <3>2. CASE \E i, j \in DOMAIN todo' : i < j /\ todo'[i] = a /\ todo'[j] = b
        BY <2>1, <2>4, <2>5, <3>2 DEF Ahead
      <3> QED
        BY <2>6, <3>1, <3>2 DEF Ahead
    <2>7. \A q \in RunningIds' : Scheduled(q)' \/ Contains(todo, q)'
      <3>1. \A q : Contains(todo, q)' <=> Contains(Tail(todo), q)
        BY <2>1 DEF Contains
      <3> QED
        BY <2>1, <2>2, <2>3, <2>4, <3>1 DEF TurnOrder
    <2>8. TurnOrder'
      BY <2>1, <2>2, <2>6, <2>7, TurnKeeps
    <2> QED
      BY <2>3, <2>8 DEF NothingYet
  <1>10. ASSUME NEW r \in Request, AdmitWaiting(r) PROVE TurnInv'
    <2>1. phase' = "waiting" /\ batch' # <<>>
      BY <1>0, <1>10, BatchGrows DEF AdmitWaiting
    <2> QED
      BY <2>1 DEF TurnOrder, NothingYet
  <1> QED
    BY <1>1, <1>2, <1>3, <1>4, <1>5, <1>6, <1>7, <1>8, <1>9, <1>10 DEF Next, Within

-----------------------------------------------------------------------------
(* What the pool has left when at most one request runs.                   *)

LEMMA RequiredBlocksMonotone ==
  ASSUME NEW m \in Nat, NEW n \in Nat, m <= n
  PROVE  RequiredBlocks(m) <= RequiredBlocks(n)
  <1> DEFINE a == RequiredBlocks(m)
             b == RequiredBlocks(n)
  <1>1. /\ a \in Nat /\ b \in Nat /\ n <= b * BlockLen
        /\ m > 0 => (a - 1) * BlockLen < m
        /\ m = 0 => a = 0
    BY RequiredBlocksFacts
  <1> HIDE DEF a, b
  <1>2. ASSUME a > b PROVE FALSE
    <2>1. a - 1 >= b /\ m > 0
      BY <1>1, <1>2
    <2>2. (a - 1) * BlockLen >= b * BlockLen
      BY <1>1, <2>1, BlockLenAssumption
    <2> QED
      BY <1>1, <2>1, <2>2, BlockLenAssumption
  <1>3. a <= b
    BY <1>1, <1>2
  <1> QED
    BY <1>3 DEF a, b

LEMMA RangeIsSmall ==
  ASSUME NEW S, NEW s \in Seq(S)
  PROVE  IsFiniteSet(Range(s)) /\ Cardinality(Range(s)) <= Len(s) /\ Cardinality(Range(s)) \in Nat
  <1>1. Len(s) \in Nat /\ s \in [1 .. Len(s) -> Range(s)] /\ DOMAIN s = 1 .. Len(s)
    BY DEF Range
  <1>2. s \in Surjection(1 .. Len(s), Range(s))
    BY <1>1, Zenon DEF Surjection, Range
  <1>3. IsFiniteSet(1 .. Len(s)) /\ Cardinality(1 .. Len(s)) = Len(s)
    BY <1>1, FS_Interval
  <1> QED
    BY <1>2, <1>3, FS_Surjection, FS_CardinalityType

\* With the tables of the others empty, all blocks but those of r are free.
LEMMA FreeBlocks ==
  ASSUME SchedInv, NEW r \in Request, running \subseteq {r}
  PROVE  /\ Cardinality(pool.free) \in Nat
         /\ Cardinality(pool.free) >= NumBlocks - Len(allocations[r])
  <1> DEFINE own == Range(allocations[r])
  <1>1. /\ pool \in Pool /\ allocations \in [Request -> Seq(BlockId)]
        /\ K!Partition /\ K!RefCounts
    BY CacheTypes DEF SchedInv, K!CacheInv
  <1>2. \A q \in Request \ {r} : allocations[q] = <<>>
    BY Tables
  <1>3. ASSUME NEW b \in BlockId \ own PROVE b \in pool.free
    <2>1. \A q \in Request : b \notin Range(allocations[q])
      <3>1. b \notin Range(<<>>)
        BY DEF Range
      <3> QED
        BY <1>2, <1>3, <3>1
    <2>2. K!Holders(b) = {}
      BY <2>1 DEF K!Holders, K!Range, Range
    <2>3. pool.ref_cnt[b] = 0
      <3>1. K!Cardinality({}) = Cardinality({})
        BY DEF K!Cardinality, Cardinality
      <3>2. K!Cardinality({}) = 0
        BY <3>1, FS_EmptySet
      <3>3. b \in K!BlockId
        BY <1>3 DEF K!BlockId, BlockId
      <3> QED
        BY <1>1, <2>2, <3>2, <3>3 DEF K!RefCounts
    <2> QED
      BY <1>1, <2>3 DEF K!Partition, K!BlockId, BlockId
  <1>4. IsFiniteSet(BlockId) /\ Cardinality(BlockId) = NumBlocks
    <2>1. 0 \in Int /\ NumBlocks - 1 \in Int
      BY NumBlocksAssumption
    <2> QED
      BY <2>1, FS_Interval, NumBlocksAssumption DEF BlockId
  <1>5. own \subseteq BlockId /\ IsFiniteSet(own) /\ Cardinality(own) <= Len(allocations[r])
        /\ Cardinality(own) \in Nat /\ Len(allocations[r]) \in Nat
    <2>1. allocations[r] \in Seq(BlockId)
      BY <1>1
    <2>2. own \subseteq BlockId
      BY <2>1 DEF Range
    <2> QED
      BY <2>1, <2>2, RangeIsSmall
  <1>6. pool.free \subseteq BlockId
    BY <1>1 DEF Pool
  <1> HIDE DEF own
  <1>7. Cardinality(BlockId \ own) = NumBlocks - Cardinality(own)
    <2>1. BlockId \cap own = own
      BY <1>5
    <2>2. Cardinality(BlockId \ own) = Cardinality(BlockId) - Cardinality(BlockId \cap own)
      BY <1>4, FS_Difference
    <2> QED
      BY <1>4, <2>1, <2>2
  <1>8. IsFiniteSet(pool.free) /\ Cardinality(pool.free) \in Nat
    BY <1>4, <1>6, FS_Subset, FS_CardinalityType
  <1>9. Cardinality(BlockId \ own) <= Cardinality(pool.free)
    <2>1. BlockId \ own \in SUBSET pool.free
      BY <1>3
    <2> QED
      BY <1>8, <2>1, FS_Subset
  <1> QED
    BY <1>5, <1>7, <1>8, <1>9, NumBlocksAssumption

-----------------------------------------------------------------------------
(* Whom a policy puts first, and calls that schedule nothing.              *)

\* A step of the running loop removes a request that is first of the policy only
\* when it is the only one and its context is more than the pool.
LEMMA FirstFalls ==
  ASSUME SchedInv, TurnInv, Next, NEW r \in RunningIds, phase = "running",
         \A q \in RunningIds \ {r} : Before(r, q),
         r \notin running'
  PROVE  RequiredBlocks(Len(Context(r))) > NumBlocks
  <1>1. /\ TypeOK /\ todo \in Seq(Request) /\ r \in Request /\ r \in running /\ state[r] = "Running"
        /\ RunningIds \subseteq Request /\ remaining \in Nat
    BY DEF SchedInv, Queues, TypeOK, RunningIds
  <1>2. PICK q \in Request : FailRunning(q) \/ \E v \in Request : Preempt(q, v)
    BY <1>1 DEF Next, Within, Submit, Cancel, Schedule, ApplyResult, FailBatch, SkipRunning,
                ScheduleRunning, AdmitWaiting, ReleaseFinished, FailItem, ApplyItem,
                RunningLoopEnd, ScheduleEnd, ResultEnd, queueVars
  <1>3. /\ q = Head(todo) /\ todo # <<>> /\ remaining > 0 /\ q \in RunningIds
        /\ InsufficientBlocks(q, <<>>)
    <2>1. /\ Visiting(q) /\ state[q] = "Running" /\ InsufficientBlocks(q, <<>>)
      BY <1>2 DEF FailRunning, Preempt
    <2> QED
      BY <2>1, AllRun, <1>2 DEF Visiting, RunningIds, SchedInv, Queues
  <1>4. Contains(todo, q) /\ ~Scheduled(q)
    <2>1. 1 \in DOMAIN todo /\ todo[1] = q /\ DOMAIN todo = 1 .. Len(todo)
      BY <1>1, <1>3, TailFacts
    <2> QED
      BY <2>1 DEF Contains, SchedInv, Loop
  <1>5. FailRunning(q)
    <2> SUFFICES ASSUME NEW v \in Request, Preempt(q, v) PROVE FALSE
      BY <1>2
    <2>1. IsVictim(v) /\ v # q /\ running' = running \ {v}
      BY DEF Preempt, PreemptId
    <2>2. v = r
      BY <1>1, <2>1
    <2>3. Before(q, r)
      BY <1>3, <1>4, <2>1, <2>2 DEF IsVictim
    <2>4. Before(r, q)
      BY <1>3, <2>1, <2>2
    <2> QED
      BY <1>1, <1>2, <2>3, <2>4, BeforeAsymmetric
  <1>6. q = r /\ IsVictim(r)
    BY <1>1, <1>5 DEF FailRunning, FailId
  <1>7. RunningIds \subseteq {r}
    <2> SUFFICES ASSUME NEW p \in RunningIds, p # r PROVE FALSE
      OBVIOUS
    <2>1. Before(r, p)
      OBVIOUS
    <2>2. Before(p, r)
      <3>1. CASE Scheduled(p)
        BY <1>4, <1>6, <3>1 DEF TurnInv, TurnOrder, Ahead
      <3>2. CASE ~Scheduled(p)
        BY <1>6, <3>2 DEF IsVictim
      <3> QED
        BY <3>1, <3>2
    <2> QED
      BY <1>1, <2>1, <2>2, BeforeAsymmetric
  <1>8. running \subseteq {r}
    BY <1>7, AllRun
  <1> DEFINE need == Required(r, <<>>)
             free == Cardinality(pool.free)
             length == Len(allocations[r])
             context == Len(Context(r))
  <1>9. /\ need \in Nat /\ need <= context /\ context \in Nat
        /\ MissingBlocks(r, <<>>, need) = RequiredBlocks(need) - length
    <2>1. /\ Start(r, <<>>) = cached_len[r] /\ cached_len[r] \in Nat
          /\ cached_len[r] < context /\ context \in Nat
      BY <1>1, ContextFacts DEF Start, SchedInv, Lengths
    <2>2. ScheduledLen(r, <<>>) \in Nat /\ cached_len[r] + ScheduledLen(r, <<>>) <= context
      BY <1>1, <1>3, <2>1, ChunkFacts
    <2>3. need = cached_len[r] + ScheduledLen(r, <<>>)
      BY <2>1 DEF Required
    <2>4. need \in Nat
      BY <2>1, <2>2, <2>3
    <2>5. Len(<<>>) * BlockLen = 0 /\ need - 0 = need
      BY <2>4, BlockLenAssumption
    <2> QED
      BY <2>1, <2>2, <2>3, <2>4, <2>5 DEF MissingBlocks
  <1>10. ~(RequiredBlocks(need) - length <= free)
    BY <1>3, <1>6, <1>9 DEF InsufficientBlocks, CanReserve
  <1>11. free \in Nat /\ free >= NumBlocks - length
    BY <1>1, <1>8, FreeBlocks
  <1>12. length \in Nat
    <2>1. allocations[r] \in Seq(BlockId)
      BY <1>1, CacheTypes DEF SchedInv
    <2> QED
      BY <2>1
  <1>13. /\ RequiredBlocks(need) \in Nat /\ RequiredBlocks(context) \in Nat
         /\ RequiredBlocks(need) <= RequiredBlocks(context)
    BY <1>9, RequiredBlocksFacts, RequiredBlocksMonotone
  <1> HIDE DEF need, free, length, context
  <1>14. RequiredBlocks(context) > NumBlocks
    BY <1>10, <1>11, <1>12, <1>13, NumBlocksAssumption
  <1> QED
    BY <1>14 DEF context

LEMMA TurnInvariant == Spec => []TurnInv
  <1>1. Init => TurnInv
    BY DEF Init, TurnInv, TurnOrder, NothingYet
  <1>2. SchedInv /\ TurnInv /\ [Next]_schedVars => TurnInv'
    BY TurnNext
  <1> QED
    BY <1>1, <1>2, SchedulerInvariant, PTL DEF Spec

(***************************************************************************)
(* schedule drops the first request of either policy only when its context *)
(* is more than the whole pool: by then it has preempted or waited for     *)
(* every other one, and each really gave its blocks back                   *)
(* (tests.rs:494, "one running request that cannot grow must fail").       *)
(***************************************************************************)
THEOREM FirstIsKept == Spec => FirstKeepsRunning
  <1> DEFINE Kept == \A r \in RunningIds :
                       /\ phase = "running"
                       /\ \A q \in RunningIds \ {r} : Before(r, q)
                       /\ r \notin running'
                       => RequiredBlocks(Len(Context(r))) > NumBlocks
  <1>1. SchedInv /\ TurnInv /\ Next => Kept
    BY FirstFalls
  <1> HIDE DEF Kept
  <1>2. SchedInv /\ TurnInv /\ [Next]_schedVars => [Kept]_schedVars
    BY <1>1
  <1>3. Spec => [][Kept]_schedVars
    BY <1>2, SchedulerInvariant, TurnInvariant, PTL DEF Spec
  <1> QED
    BY <1>3 DEF FirstKeepsRunning, Kept

\* The first chunk of a request, whatever it has to compute again after a
\* preemption, is not more than the pool holds.
FirstChunksFit ==
  \A r \in Request :
    RequiredBlocks(Min({MaxChunk, Len(Prompt[r]) + MaxNewLen[r] - 1, MaxBatchLen})) <= NumBlocks

LEMMA ContextBound ==
  ASSUME NEW p \in Nat \ {0}, NEW g \in Nat, NEW m \in Nat \ {0}, g < m
  PROVE  /\ p + g \in Nat /\ p + m - 1 \in Nat /\ p + g <= p + m - 1
         /\ \A x \in Nat : x < p => x < p + g
  OBVIOUS

\* With an empty pool and the whole budget the head of the queue is admitted.
LEMMA HeadFits ==
  ASSUME FirstChunksFit, SchedInv, running = {}, remaining = MaxBatchLen, waiting # <<>>,
         NEW h, h = Head(waiting)
  PROVE  ~InsufficientBlocks(h, Plan(h))
  <1>1. /\ TypeOK /\ waiting \in Seq(Request) /\ h \in Request /\ state[h] = "Waiting"
    <2>1. TypeOK /\ waiting \in Seq(Request)
      BY DEF SchedInv, Queues, TypeOK
    <2>2. h \in Request /\ h = waiting[1] /\ DOMAIN waiting = 1 .. Len(waiting) /\ 1 \in DOMAIN waiting
      BY <2>1, TailFacts
    <2>3. Contains(waiting, h)
      BY <2>2 DEF Contains
    <2> QED
      BY <2>1, <2>2, <2>3 DEF SchedInv, Queues
  <1> DEFINE plan == Plan(h)
             n == ScheduledLen(h, plan)
             context == Len(Context(h))
             longest == Len(Prompt[h]) + MaxNewLen[h] - 1
             most == Min({MaxChunk, longest, MaxBatchLen})
             shared == Len(plan) * BlockLen
  <1>2. /\ cached_len[h] = 0 /\ allocations[h] = <<>> /\ ~WorkIsDecode(h)
        /\ context \in Nat /\ longest \in Nat /\ context <= longest
    <2>1. /\ Len(Prompt[h]) \in Nat \ {0} /\ Len(generated[h]) \in Nat
          /\ context = Len(Prompt[h]) + Len(generated[h])
      BY <1>1, ContextFacts
    <2>2. cached_len[h] = 0 /\ Len(generated[h]) < MaxNewLen[h] /\ MaxNewLen[h] \in Nat \ {0}
      BY <1>1, MaxNewLenAssumption DEF SchedInv, Lengths, Terminal
    <2>3. allocations[h] = <<>>
      BY <1>1, Tables
    <2>4. ~WorkIsDecode(h)
      BY <2>1, <2>2 DEF WorkIsDecode
    <2>5. context \in Nat /\ longest \in Nat /\ context <= longest
      <3> HIDE DEF context
      <3> QED
        BY <2>1, <2>2, ContextBound
    <2> QED
      BY <2>2, <2>3, <2>4, <2>5
  <1>3. shared \in Nat /\ shared < context /\ Start(h, plan) = shared
    <2>1. PICK k \in 0 .. Len(Prompt[h]) : Len(plan) = k /\ k * BlockLen < Len(Prompt[h])
      BY <1>1, PlanFacts
    <2>2. /\ Len(Prompt[h]) \in Nat \ {0} /\ Len(generated[h]) \in Nat
          /\ context = Len(Prompt[h]) + Len(generated[h])
          /\ MaxNewLen[h] \in Nat \ {0} /\ Len(generated[h]) < MaxNewLen[h]
      BY <1>1, ContextFacts, MaxNewLenAssumption DEF SchedInv, Lengths, Terminal
    <2>3. shared = k * BlockLen
      BY <2>1
    <2>4. shared \in Nat
      BY <2>1, <2>2, <2>3, BlockLenAssumption
    <2>5. Start(h, plan) = shared
      <3>1. CASE plan = <<>>
        <4>1. Len(plan) = 0
          BY <3>1
        <4> QED
          BY <1>2, <3>1, <4>1, BlockLenAssumption DEF Start
      <3>2. CASE plan # <<>>
        BY <3>2 DEF Start
      <3> QED
        BY <3>1, <3>2
    <2>6. shared < context
      <3> HIDE DEF shared, context
      <3> QED
        BY <2>1, <2>2, <2>3, <2>4, ContextBound
    <2> QED
      BY <2>4, <2>5, <2>6
  <1>4. n = Min({MaxChunk, context - shared, MaxBatchLen})
    BY <1>2, <1>3 DEF ScheduledLen, Pending
  <1>5. Required(h, plan) = shared + n
    BY <1>3 DEF Required
  <1> HIDE DEF plan, n, context, longest, shared
  <1>6. MaxChunk \in Nat /\ MaxBatchLen \in Nat /\ context - shared \in Nat /\ context - shared <= longest
    BY <1>2, <1>3, ConfigAssumption
  <1>7. n \in Nat /\ n <= MaxChunk /\ n <= longest /\ n <= MaxBatchLen
    <2>1. /\ n \in {MaxChunk, context - shared, MaxBatchLen}
          /\ n <= MaxChunk /\ n <= context - shared /\ n <= MaxBatchLen
      BY <1>4, <1>6, MinOfThree
    <2> QED
      BY <1>2, <1>6, <2>1
  <1>8. most \in Nat /\ n <= most
    <2>1. most \in {MaxChunk, longest, MaxBatchLen}
      BY <1>2, <1>6, MinOfThree
    <2> HIDE DEF most
    <2> QED
      BY <1>2, <1>6, <1>7, <2>1
  <1>9. RequiredBlocks(most) <= NumBlocks
    BY <1>1 DEF FirstChunksFit, longest
  <1> HIDE DEF most
  <1>10. RequiredBlocks(n) \in Nat /\ RequiredBlocks(n) <= NumBlocks
    <2>1. RequiredBlocks(n) \in Nat /\ RequiredBlocks(most) \in Nat /\ RequiredBlocks(n) <= RequiredBlocks(most)
      BY <1>7, <1>8, RequiredBlocksFacts, RequiredBlocksMonotone
    <2> QED
      BY <1>9, <2>1, NumBlocksAssumption
  <1>11. MissingBlocks(h, plan, Required(h, plan)) = RequiredBlocks(n)
    <2>1. Required(h, plan) - Len(plan) * BlockLen = n /\ Len(allocations[h]) = 0
      BY <1>2, <1>3, <1>5, <1>7 DEF shared
    <2> QED
      BY <1>10, <2>1 DEF MissingBlocks
  <1>12. Cardinality(pool.free) \in Nat /\ Cardinality(pool.free) >= NumBlocks
    <2>1. /\ Cardinality(pool.free) \in Nat
          /\ Cardinality(pool.free) >= NumBlocks - Len(allocations[h])
      BY <1>1, FreeBlocks
    <2> QED
      BY <1>2, <2>1, NumBlocksAssumption
  <1>13. RequiredBlocks(n) <= Cardinality(pool.free)
    BY <1>10, <1>12, NumBlocksAssumption
  <1> QED
    BY <1>11, <1>13 DEF InsufficientBlocks, CanReserve, plan

(***************************************************************************)
(* schedule returns no batch only when no request is left, so the driver,  *)
(* which stops at the first None (lib.py:25), leaves nobody behind, when   *)
(* no first chunk is more than the pool: after a running loop that         *)
(* scheduled nothing the pool is empty and the budget whole.               *)
(***************************************************************************)
THEOREM NobodyIsLeft == FirstChunksFit => (Spec => NoIdleStall)
  <1> SUFFICES ASSUME FirstChunksFit PROVE Spec => NoIdleStall
    OBVIOUS
  <1> DEFINE NoneLeft == phase = "waiting" /\ phase' = "idle" /\ batch' = <<>>
                       => waiting' = <<>> /\ running' = {}
  <1>1. SchedInv /\ TurnInv /\ Next => NoneLeft
    <2> SUFFICES ASSUME SchedInv, TurnInv, Next, phase = "waiting", phase' = "idle", batch' = <<>>
                 PROVE  waiting' = <<>> /\ running' = {}
      BY DEF NoneLeft
    <2>1. ScheduleEnd
      BY DEF Next, Within, Submit, Cancel, Schedule, ApplyResult, FailBatch, SkipRunning,
             ScheduleRunning, FailRunning, Preempt, Visiting, AdmitWaiting, ReleaseFinished,
             FailItem, ApplyItem, RunningLoopEnd, ResultEnd, callVars
    <2>2. /\ UNCHANGED <<batch, waiting, running>>
          /\ \/ remaining = 0
             \/ waiting = <<>>
             \/ waiting # <<>> /\ InsufficientBlocks(Head(waiting), Plan(Head(waiting)))
      BY <2>1 DEF ScheduleEnd, queueVars
    <2>3. running = {} /\ remaining = MaxBatchLen
      BY <2>2 DEF TurnInv, NothingYet
    <2>4. remaining # 0
      BY <2>3, ConfigAssumption
    <2>5. waiting = <<>>
      BY <2>2, <2>3, <2>4, HeadFits
    <2> QED
      BY <2>2, <2>3, <2>5
  <1> HIDE DEF NoneLeft
  <1>2. SchedInv /\ TurnInv /\ [Next]_schedVars => [NoneLeft]_schedVars
    BY <1>1
  <1>3. Spec => [][NoneLeft]_schedVars
    BY <1>2, SchedulerInvariant, TurnInvariant, PTL DEF Spec
  <1> QED
    BY <1>3 DEF NoIdleStall, NoneLeft

-----------------------------------------------------------------------------
(***************************************************************************)
(* The server.                                                             *)
(***************************************************************************)

(* The scheduler of the server.                                            *)

\* A step of the server is a step of Scheduler or changes none of its variables.
LEMMA ServerMoves ==
  ASSUME [ServerNext]_serverVars
  PROVE  [Next]_schedVars
  <1>1. CASE ExecuteEager \/ ExecuteGraph \/ ExecuteRaises
    BY <1>1 DEF ExecuteEager, ExecuteGraph, ExecuteRaises
  <1>2. CASE Answer
    BY <1>2 DEF Answer, Next
  <1>3. CASE RejectResult \/ RunOnceRaises \/ UNCHANGED serverVars
    BY <1>3 DEF RejectResult, RunOnceRaises, serverVars
  <1>4. CASE \/ \E r \in Request : Submit(r) \/ Cancel(r)
             \/ Schedule
             \/ Within
    BY <1>4 DEF Next
  <1> QED
    BY <1>1, <1>2, <1>3, <1>4 DEF ServerNext

\* Whatever the executor does with a batch - eager execution, replay, failure, a
\* result that is rejected - the scheduler takes only steps of Scheduler, so
\* every safety theorem about Scheduler holds of the server.
THEOREM ServerImplementsScheduler == ServerSpec => Spec
  <1>1. ServerInit => Init
    BY DEF ServerInit
  <1> QED
    BY <1>1, ServerMoves, PTL DEF ServerSpec, Spec

-----------------------------------------------------------------------------
(* The invariant of the storage.                                           *)

\* The forward pass of r's item is done, and the item not yet counted.
Done(r) ==
  Scheduled(r) /\ (exec \in {"eager", "replayed", "rejected"} \/ phase \in {"apply", "release"})

\* How many tokens of r have their KV in the storage.
Valid(r) == cached_len[r] + IF Done(r) THEN Len(InFlight(r)) ELSE 0

ExecInv ==
  /\ exec \in {"none", "eager", "replayed", "raised", "rejected"}
  /\ exec # "none" => phase = "idle" /\ batch # <<>>

\* A sealed block holds the KV of the last block of the prefix it is sealed
\* under, whoever computed it.
SealedHold ==
  \A b \in BlockId, o \in 0 .. BlockLen - 1 :
    IsSealed(pool, b) =>
      LET hash == pool.state[b].hash
      IN slots[b * BlockLen + o] = SubSeq(hash, 1, Len(hash) - BlockLen + o + 1)

\* Past its sealed blocks, a running request holds its own KV.
TailHolds(r) ==
  \A p \in FullBlocks(cached_len[r]) * BlockLen + 1 .. Valid(r) :
    slots[Slot(allocations[r], p - 1)] = SubSeq(Context(r), 1, p)

TailsHold == \A r \in running : TailHolds(r)

StorageInv == ExecInv /\ SealedHold /\ TailsHold

-----------------------------------------------------------------------------
(* Slots.                                                                  *)

\* A slot belongs to one block, at one offset.
LEMMA SameSlot ==
  ASSUME NEW b \in Nat, NEW c \in Nat, NEW o \in 0 .. BlockLen - 1, NEW u \in 0 .. BlockLen - 1,
         b * BlockLen + o = c * BlockLen + u
  PROVE  b = c /\ o = u
  <1>1. BlockLen \in Nat /\ BlockLen > 0
    BY BlockLenAssumption
  <1>2. ASSUME NEW x \in Nat, NEW y \in Nat, x < y
        PROVE  x * BlockLen + BlockLen <= y * BlockLen
    <2>1. (x + 1) * BlockLen <= y * BlockLen
      BY <1>1, <1>2
    <2>2. (x + 1) * BlockLen = x * BlockLen + BlockLen
      BY <1>1
    <2> QED
      BY <2>1, <2>2
  <1>3. ASSUME NEW x \in Nat, NEW y \in Nat, x < y,
               NEW v \in 0 .. BlockLen - 1, NEW w \in 0 .. BlockLen - 1,
               x * BlockLen + v = y * BlockLen + w
        PROVE  FALSE
    <2>1. x * BlockLen \in Nat /\ y * BlockLen \in Nat
      BY <1>1
    <2>2. x * BlockLen + BlockLen <= y * BlockLen
      BY <1>2, <1>3
    <2> QED
      BY <2>1, <2>2, <1>1, <1>3
  <1>4. b = c
    BY <1>3
  <1>5. b * BlockLen \in Nat
    BY <1>1
  <1> QED
    BY <1>1, <1>4, <1>5

\* A position is its block's first one plus an offset within the block.
LEMMA PositionFacts ==
  ASSUME NEW p \in Nat
  PROVE  /\ p \div BlockLen \in Nat /\ p % BlockLen \in 0 .. BlockLen - 1
         /\ p = (p \div BlockLen) * BlockLen + (p % BlockLen)
  BY BlockLenAssumption

\* The slot of a position that a table covers is one of the storage.
LEMMA SlotInStorage ==
  ASSUME NEW b \in BlockId, NEW o \in 0 .. BlockLen - 1
  PROVE  b * BlockLen + o \in SlotId /\ b \in Nat
  <1>1. /\ BlockLen \in Nat /\ BlockLen > 0 /\ CacheBlocks \in Nat /\ NumBlocks \in Nat
        /\ b \in Nat /\ b + 1 <= CacheBlocks
    BY BlockLenAssumption, CacheAssumption, NumBlocksAssumption DEF BlockId
  <1>2. (b + 1) * BlockLen <= CacheBlocks * BlockLen
    BY <1>1
  <1>3. (b + 1) * BlockLen = b * BlockLen + BlockLen /\ b * BlockLen \in Nat
    BY <1>1
  <1>4. CacheBlocks * BlockLen \in Nat
    BY <1>1
  <1> QED
    BY <1>1, <1>2, <1>3, <1>4 DEF SlotId

LEMMA ItemOf ==
  ASSUME SchedInv, NEW r \in Request
  PROVE  /\ Len(InFlight(r)) \in Nat
         /\ \A i \in DOMAIN batch : batch[i].id = r => InFlight(r) = batch[i].input
         /\ ~Scheduled(r) => InFlight(r) = <<>>
  <1>1. \A i \in DOMAIN batch : batch[i].id = r => InFlight(r) = batch[i].input
    BY InFlightOf, InFlightOne DEF SchedInv, BatchIsCurrent, IdsDistinct
  <1>2. ~Scheduled(r) => InFlight(r) = <<>>
    BY DEF InFlight
  <1>3. \A i \in DOMAIN batch : Len(batch[i].input) \in Nat
    BY ItemFacts DEF SchedInv, Queues
  <1>4. Len(InFlight(r)) \in Nat
    <2>1. CASE Scheduled(r)
      BY <2>1, <1>1, <1>3 DEF Scheduled
    <2>2. CASE ~Scheduled(r)
      BY <2>2, <1>2
    <2> QED
      BY <2>1, <2>2
  <1> QED
    BY <1>1, <1>2, <1>4

\* The block and the offset of a position that is cached or in flight.
LEMMA PositionInTable ==
  ASSUME SchedInv, NEW r \in running,
         NEW q \in Nat, q < cached_len[r] + Len(InFlight(r))
  PROVE  LET i == q \div BlockLen + 1
             o == q % BlockLen
         IN /\ i \in DOMAIN allocations[r] /\ allocations[r][i] \in BlockId
            /\ i \in Nat /\ o \in 0 .. BlockLen - 1
            /\ Slot(allocations[r], q) = allocations[r][i] * BlockLen + o
            /\ Slot(allocations[r], q) \in SlotId
  <1> DEFINE i == q \div BlockLen + 1
             o == q % BlockLen
             n == cached_len[r] + Len(InFlight(r))
  <1>1. /\ r \in Request /\ allocations[r] \in Seq(BlockId) /\ cached_len[r] \in Nat
        /\ Len(allocations[r]) = RequiredBlocks(n)
    BY TableLength
  <1>2. n \in Nat
    BY <1>1, ItemOf
  <1>3. i \in DOMAIN allocations[r] /\ i \in Nat
    <2>1. i \in 1 .. RequiredBlocks(n)
      BY <1>2, BlockOfPosition
    <2> HIDE DEF i, n
    <2> QED
      BY <2>1, <1>1
  <1>4. o \in 0 .. BlockLen - 1
    BY PositionFacts
  <1>5. Slot(allocations[r], q) = allocations[r][i] * BlockLen + o
    BY DEF Slot
  <1> HIDE DEF i, o
  <1>6. allocations[r][i] \in BlockId
    BY <1>1, <1>3
  <1>7. Slot(allocations[r], q) \in SlotId
    BY <1>4, <1>5, <1>6, SlotInStorage
  <1> QED
    BY <1>3, <1>4, <1>5, <1>6, <1>7 DEF i, o

LEMMA FullPosition ==
  ASSUME NEW c \in Nat, NEW q \in Nat, q < FullBlocks(c) * BlockLen
  PROVE  /\ (q \div BlockLen + 1) * BlockLen <= FullBlocks(c) * BlockLen
         /\ q < (q \div BlockLen + 1) * BlockLen
         /\ (q \div BlockLen + 1) * BlockLen - BlockLen + (q % BlockLen) + 1 = q + 1
  <1> DEFINE i == q \div BlockLen
             o == q % BlockLen
             f == FullBlocks(c)
  <1>1. i \in Nat /\ o \in 0 .. BlockLen - 1 /\ q = i * BlockLen + o
    BY PositionFacts
  <1>2. f \in Nat /\ BlockLen \in Nat /\ BlockLen > 0
    BY FullBlocksFacts, BlockLenAssumption
  <1> HIDE DEF i, o, f
  <1>3. (i + 1) * BlockLen = i * BlockLen + BlockLen /\ i * BlockLen \in Nat
    BY <1>1, <1>2
  <1>4. i < f
    <2> SUFFICES ASSUME f <= i PROVE FALSE
      BY <1>1, <1>2
    <2>1. f * BlockLen <= i * BlockLen /\ f * BlockLen \in Nat
      BY <1>1, <1>2
    <2>2. q < f * BlockLen
      BY DEF f
    <2> QED
      BY <2>1, <2>2, <1>1, <1>3
  <1>5. (i + 1) * BlockLen <= f * BlockLen
    BY <1>1, <1>2, <1>4
  <1>6. q < (i + 1) * BlockLen /\ (i + 1) * BlockLen - BlockLen + o + 1 = q + 1
    BY <1>1, <1>2, <1>3
  <1> QED
    BY <1>5, <1>6 DEF i, o, f

\* What the two parts of the invariant say together.
LEMMA ValidHolds ==
  ASSUME SchedInv, SealedHold, NEW r \in running, TailHolds(r),
         NEW p \in 1 .. Valid(r)
  PROVE  slots[Slot(allocations[r], p - 1)] = SubSeq(Context(r), 1, p)
  <1>1. /\ r \in Request /\ cached_len[r] \in Nat /\ Len(Written(r)) = cached_len[r]
        /\ Len(InFlight(r)) \in Nat
    BY TableLength, ItemOf
  <1>2. Valid(r) \in Nat
    BY <1>1 DEF Valid
  <1>3. p \in Nat /\ p - 1 \in Nat /\ p >= 1 /\ p <= Valid(r)
    BY <1>2
  <1> DEFINE f == FullBlocks(cached_len[r]) * BlockLen
  <1>4. f \in Nat /\ f <= cached_len[r]
    <2>1. FullBlocks(cached_len[r]) \in Nat /\ f <= cached_len[r]
      BY <1>1, FullBlocksFacts
    <2>2. \A x \in Nat : x * BlockLen \in Nat
      BY BlockLenAssumption
    <2> QED
      BY <2>1, <2>2
  <1>5. CASE p > f
    <2>1. p \in f + 1 .. Valid(r)
      BY <1>2, <1>3, <1>4, <1>5
    <2> QED
      BY <2>1 DEF TailHolds
  <1>6. CASE p <= f
    <2> DEFINE q == p - 1
               i == q \div BlockLen + 1
               o == q % BlockLen
               m == i * BlockLen
               b == allocations[r][i]
    <2>1. q \in Nat /\ q < f /\ q < cached_len[r] + Len(InFlight(r)) /\ q + 1 = p
      BY <1>1, <1>3, <1>4, <1>6
    <2>2. m <= f /\ q < m /\ m - BlockLen + o + 1 = p
      BY <2>1, <1>1, FullPosition
    <2>3. /\ i \in DOMAIN allocations[r] /\ b \in BlockId /\ i \in Nat /\ o \in 0 .. BlockLen - 1
          /\ Slot(allocations[r], q) = b * BlockLen + o
      BY <2>1, PositionInTable
    <2>4. m \in Nat /\ m <= cached_len[r] /\ p <= m
      <3> HIDE DEF i, q
      <3>1. m \in Nat
        BY <2>3, BlockLenAssumption
      <3> HIDE DEF m, f
      <3> QED
        BY <3>1, <2>1, <2>2, <1>1, <1>3, <1>4
    <2> HIDE DEF q, i, o, b, f
    <2>5. pool.state[b] = Sealed(PrefixHash(Written(r), i))
      <3>1. pool.state[allocations[r][i]] = K!Sealed(K!PrefixHash(Written(r), i))
        BY <1>1, <2>3, <2>4 DEF SchedInv, K!CacheInv, K!TableContents
      <3> QED
        BY <3>1 DEF K!Sealed, Sealed, K!PrefixHash, PrefixHash, b
    <2> DEFINE hash == SubSeq(Written(r), 1, m)
    <2>6. IsSealed(pool, b) /\ pool.state[b].hash = hash
      <3>1. pool.state[b] = [kind |-> "sealed", hash |-> hash]
        BY <2>5 DEF Sealed, PrefixHash
      <3> HIDE DEF hash
      <3> QED
        BY <3>1 DEF IsSealed
    <2>7. slots[b * BlockLen + o] = SubSeq(hash, 1, Len(hash) - BlockLen + o + 1)
      BY <2>3, <2>6, Zenon DEF SealedHold
    <2>8. /\ Context(r) \in Seq(Token) /\ cached_len[r] <= Len(Context(r))
          /\ Written(r) = SubSeq(Context(r), 1, cached_len[r])
      BY <1>1, ContextFacts DEF SchedInv, Queues, Lengths, Written
    <2>9. hash = SubSeq(Context(r), 1, m) /\ Len(hash) = m /\ SubSeq(hash, 1, p) = SubSeq(Context(r), 1, p)
      <3> HIDE DEF m, hash
      <3>1. m <= Len(Context(r)) /\ Len(Context(r)) \in Nat
        BY <2>4, <2>8, <1>1
      <3>2. SubSeq(Written(r), 1, m) = SubSeq(Context(r), 1, m)
        BY <2>4, <2>8, <1>1, PrefixFacts
      <3>3. /\ Len(SubSeq(Context(r), 1, m)) = m
            /\ SubSeq(SubSeq(Context(r), 1, m), 1, p) = SubSeq(Context(r), 1, p)
        BY <2>4, <2>8, <1>3, <3>1, PrefixFacts
      <3> QED
        BY <3>2, <3>3 DEF hash
    <2>10. Len(hash) - BlockLen + o + 1 = p
      BY <2>2, <2>9 DEF o
    <2> QED
      BY <2>3, <2>7, <2>9, <2>10 DEF q
  <1> QED
    BY <1>3, <1>4, <1>5, <1>6

-----------------------------------------------------------------------------
(* Steps of the scheduler, which leave the storage alone.                  *)

\* No block is sealed that was not, and none under another hash.
NothingSealed ==
  \A b \in BlockId : IsSealed(pool', b) => pool'.state[b] = pool.state[b]

\* reserve_to takes free and shared blocks; it seals none.
LEMMA ReserveSealsNothing ==
  ASSUME NEW r, NEW plan, NEW n, ReserveTo(r, plan, n)
  PROVE  NothingSealed
  <1>1. CASE UNCHANGED <<pool, allocations>>
    BY <1>1 DEF NothingSealed
  <1>2. ASSUME NEW ids, pool' = ReuseAndReserve(pool, plan, ids, r) PROVE NothingSealed
    <2> SUFFICES ASSUME NEW b \in BlockId, IsSealed(pool', b)
                 PROVE  pool'.state[b] = pool.state[b]
      BY DEF NothingSealed
    <2>1. pool'.state[b] = IF b \in Range(ids) THEN Writable(r) ELSE pool.state[b]
      BY <1>2 DEF ReuseAndReserve, RetainShared, Reserve
    <2>2. pool'.state[b] # Writable(r)
      BY DEF IsSealed, Writable
    <2> QED
      BY <2>1, <2>2
  <1> QED
    BY <1>1, <1>2 DEF ReserveTo

\* release seals no block and leaves the sealed ones that stay as they were.
LEMMA ReleaseSealsNothing ==
  ASSUME NEW r, ReleaseAllocation(r)
  PROVE  NothingSealed
  <1> SUFFICES ASSUME NEW b \in BlockId, IsSealed(pool', b)
               PROVE  pool'.state[b] = pool.state[b]
    BY DEF NothingSealed
  <1>1. pool'.state[b] = Writable(None) \/ pool'.state[b] = pool.state[b]
    BY DEF ReleaseAllocation, ReleaseBlocks
  <1>2. pool'.state[b] # Writable(None)
    BY DEF IsSealed, Writable
  <1> QED
    BY <1>1, <1>2

\* Sealed blocks keep their KV in a step that seals none and writes no slot.
LEMMA SealedStays ==
  ASSUME SealedHold, slots' = slots, NothingSealed
  PROVE  SealedHold'
  <1> SUFFICES ASSUME NEW b \in BlockId, NEW o \in 0 .. BlockLen - 1, IsSealed(pool', b)
               PROVE  LET hash == pool'.state[b].hash
                      IN slots[b * BlockLen + o] = SubSeq(hash, 1, Len(hash) - BlockLen + o + 1)
    BY DEF SealedHold
  <1>1. pool'.state[b] = pool.state[b] /\ IsSealed(pool, b)
    BY DEF NothingSealed, IsSealed
  <1> QED
    BY <1>1, Zenon DEF SealedHold

\* What a step must leave alone of a request that it is not about.
Left(q) ==
  /\ q \in running
  /\ cached_len'[q] = cached_len[q] /\ generated'[q] = generated[q]
  /\ allocations'[q] = allocations[q]
  /\ Done(q)' => Done(q) /\ InFlight(q)' = InFlight(q)

\* A request keeps its tail in a step that is not about it and writes no slot.
LEMMA TailStays ==
  ASSUME SchedInv, slots' = slots, NEW q, Left(q), TailHolds(q)
  PROVE  TailHolds(q)'
  <1> SUFFICES ASSUME NEW p \in FullBlocks(cached_len'[q]) * BlockLen + 1 .. Valid(q)'
               PROVE  slots'[Slot(allocations'[q], p - 1)] = SubSeq(Context(q)', 1, p)
    BY DEF TailHolds, Slot
  <1>1. /\ cached_len[q] \in Nat /\ Len(InFlight(q)) \in Nat
        /\ FullBlocks(cached_len[q]) * BlockLen \in Nat
    <2>1. cached_len[q] \in Nat /\ Len(InFlight(q)) \in Nat
      BY TableLength, ItemOf DEF Left
    <2>2. FullBlocks(cached_len[q]) \in Nat
      BY <2>1, FullBlocksFacts
    <2> QED
      BY <2>1, <2>2, BlockLenAssumption
  <1>2. Valid(q)' = cached_len[q] + IF Done(q)' THEN Len(InFlight(q)) ELSE 0
    BY Zenon DEF Valid, Left
  <1>3. Valid(q)' \in Nat /\ Valid(q) \in Nat /\ Valid(q)' <= Valid(q)
    <2>1. CASE Done(q)'
      BY <2>1, <1>1, <1>2 DEF Valid, Left
    <2>2. CASE ~Done(q)'
      BY <2>2, <1>1, <1>2 DEF Valid
    <2> QED
      BY <2>1, <2>2
  <1>4. p \in FullBlocks(cached_len[q]) * BlockLen + 1 .. Valid(q)
    <2> DEFINE f == FullBlocks(cached_len[q]) * BlockLen
    <2>1. p \in f + 1 .. Valid(q)' /\ f \in Nat
      BY <1>1 DEF Left
    <2> HIDE DEF f
    <2>2. p \in f + 1 .. Valid(q)
      BY <2>1, <1>3
    <2> QED
      BY <2>2 DEF f
  <1>5. slots[Slot(allocations[q], p - 1)] = SubSeq(Context(q), 1, p)
    BY <1>4, Zenon DEF TailHolds
  <1>6. Context(q)' = Context(q)
    BY DEF Context, Left
  <1> QED
    BY <1>5, <1>6, Zenon DEF Left

\* The invariant needs only be shown of the requests that a step is about.
LEMMA StorageStays ==
  ASSUME SchedInv, StorageInv, slots' = slots, NothingSealed, ExecInv',
         \A q \in running' : Left(q) \/ TailHolds(q)'
  PROVE  StorageInv'
  <1>1. SealedHold'
    BY SealedStays DEF StorageInv
  <1>2. ASSUME NEW q \in running' PROVE TailHolds(q)'
    <2>1. ASSUME Left(q) PROVE TailHolds(q)'
      <3>1. TailHolds(q)
        BY <2>1 DEF Left, StorageInv, TailsHold
      <3> QED
        BY <2>1, <3>1, TailStays
    <2> QED
      BY <2>1
  <1> QED
    BY <1>1, <1>2 DEF StorageInv, TailsHold

\* Steps that change no table, no record and no item.
LEMMA StorageQuiet ==
  ASSUME SchedInv, StorageInv, ExecInv',
         UNCHANGED <<running, cached_len, generated, pool, allocations, batch, slots>>,
         \A q : Done(q)' => Done(q)
  PROVE  StorageInv'
  <1>1. \A q : InFlight(q)' = InFlight(q)
    BY SameFlight
  <1>2. \A q \in running' : Left(q)
    BY <1>1 DEF Left
  <1>3. NothingSealed
    BY DEF NothingSealed
  <1> QED
    BY <1>2, <1>3, StorageStays

\* Steps that stop a request.
LEMMA StorageStop ==
  ASSUME SchedInv, StorageInv, ExecInv', slots' = slots, NEW r,
         running' = running \ {r}, ReleaseAllocation(r),
         \A q \in Request \ {r} :
           /\ cached_len'[q] = cached_len[q] /\ generated'[q] = generated[q]
           /\ Done(q)' => Done(q) /\ InFlight(q)' = InFlight(q)
  PROVE  StorageInv'
  <1>1. allocations \in [Request -> Seq(BlockId)] /\ running \subseteq Request
    BY CacheTypes DEF SchedInv, Queues, TypeOK
  <1>2. \A q \in Request \ {r} : allocations'[q] = allocations[q]
    BY <1>1 DEF ReleaseAllocation
  <1>3. \A q \in running' : Left(q)
    BY <1>1, <1>2 DEF Left
  <1> QED
    BY <1>3, ReleaseSealsNothing, StorageStays

\* While a batch is put together or failed nothing of it is done.
LEMMA NotDone ==
  ASSUME ExecInv, phase # "idle"
  PROVE  /\ exec = "none"
         /\ exec' = exec => ExecInv'
         /\ exec' = exec /\ phase' \notin {"apply", "release"} => \A q : ~Done(q)'
  BY DEF ExecInv, Done

LEMMA QuietSteps ==
  ASSUME SchedInv, StorageInv, UNCHANGED <<slots, exec>>,
         \/ \E r \in Request : Submit(r) \/ SkipRunning(r)
         \/ Schedule \/ RunningLoopEnd \/ ScheduleEnd \/ ResultEnd
  PROVE  StorageInv'
  <1> USE DEF StorageInv
  <1>1. ASSUME NEW r \in Request, Submit(r) PROVE StorageInv'
    <2>1. UNCHANGED <<running, cached_len, generated, pool, allocations, batch, phase>>
      BY <1>1 DEF Submit, callVars, cacheVars
    <2>2. ExecInv' /\ \A q : Done(q)' => Done(q)
      BY <2>1 DEF ExecInv, Done, Scheduled
    <2> QED
      BY <2>1, <2>2, StorageQuiet
  <1>2. CASE Schedule
    <2>1. /\ UNCHANGED <<running, cached_len, generated, pool, allocations, batch>>
          /\ batch = <<>>
      BY <1>2 DEF Schedule, requestVars, queueVars, cacheVars
    <2>2. ExecInv' /\ \A q : ~Done(q)'
      BY <2>1 DEF ExecInv, Done, Scheduled
    <2> QED
      BY <2>1, <2>2, StorageQuiet
  <1>3. ASSUME NEW r \in Request, SkipRunning(r) PROVE StorageInv'
    <2>1. /\ UNCHANGED <<running, cached_len, generated, pool, allocations, batch, phase>>
          /\ phase = "running"
      BY <1>3 DEF SkipRunning, Visiting, requestVars, queueVars, cacheVars
    <2>2. ExecInv' /\ \A q : ~Done(q)'
      BY <2>1, NotDone
    <2> QED
      BY <2>1, <2>2, StorageQuiet
  <1>4. CASE RunningLoopEnd \/ ScheduleEnd
    <2>1. /\ UNCHANGED <<running, cached_len, generated, pool, allocations, batch>>
          /\ phase \in {"running", "waiting"} /\ phase' \in {"waiting", "idle"}
      BY <1>4 DEF RunningLoopEnd, ScheduleEnd, requestVars, queueVars, cacheVars
    <2>2. ExecInv' /\ \A q : ~Done(q)'
      BY <2>1, NotDone
    <2> QED
      BY <2>1, <2>2, StorageQuiet
  <1>5. CASE ResultEnd
    <2>1. /\ UNCHANGED <<running, cached_len, generated, pool, allocations, batch>>
          /\ phase \in {"apply", "fail"} /\ phase' = "idle"
      BY <1>5 DEF ResultEnd, requestVars, queueVars, cacheVars
    <2>2. ExecInv' /\ \A q : ~Done(q)'
      BY <2>1, NotDone
    <2> QED
      BY <2>1, <2>2, StorageQuiet
  <1> QED
    BY <1>1, <1>2, <1>3, <1>4, <1>5

LEMMA StopSteps ==
  ASSUME SchedInv, StorageInv, UNCHANGED <<slots, exec>>,
         \E r \in Request :
           \/ Cancel(r) \/ FailRunning(r) \/ ReleaseFinished(r) \/ FailItem(r)
           \/ \E visited \in Request : Preempt(visited, r)
  PROVE  StorageInv'
  <1> USE DEF StorageInv
  <1>0. cached_len \in [Request -> Nat] /\ batch \in Seq(Item)
    BY DEF SchedInv, Queues, TypeOK
  <1>1. ASSUME NEW r \in Request, Cancel(r) PROVE StorageInv'
    <2>1. /\ running' = running \ {r} /\ ReleaseAllocation(r)
          /\ UNCHANGED <<cached_len, generated, batch, phase>>
      BY <1>1 DEF Cancel, callVars
    <2>2. ExecInv' /\ \A q : Done(q)' => Done(q) /\ InFlight(q)' = InFlight(q)
      BY <2>1, SameFlight DEF ExecInv, Done
    <2> QED
      BY <2>1, <2>2, StorageStop
  <1>2. ASSUME NEW r \in Request, FailRunning(r) PROVE StorageInv'
    <2>1. /\ running' = running \ {r} /\ ReleaseAllocation(r) /\ phase = "running"
          /\ UNCHANGED <<cached_len, generated, phase>>
      BY <1>2 DEF FailRunning, FailId, Visiting
    <2>2. ExecInv' /\ \A q : ~Done(q)'
      BY <2>1, NotDone
    <2> QED
      BY <2>1, <2>2, StorageStop
  <1>3. ASSUME NEW r \in Request, NEW visited \in Request, Preempt(visited, r)
        PROVE  StorageInv'
    <2>1. /\ running' = running \ {r} /\ ReleaseAllocation(r) /\ phase = "running"
          /\ cached_len' = [cached_len EXCEPT ![r] = 0]
          /\ UNCHANGED <<generated, phase>>
      BY <1>3 DEF Preempt, PreemptId, PreemptRequest, Visiting, callVars
    <2>2. ExecInv' /\ \A q : ~Done(q)'
      BY <2>1, NotDone
    <2>3. \A q \in Request \ {r} : cached_len'[q] = cached_len[q]
      BY <2>1, <1>0
    <2> QED
      BY <2>1, <2>2, <2>3, StorageStop
  <1>4. ASSUME NEW r \in Request, ReleaseFinished(r) PROVE StorageInv'
    <2>1. /\ running' = running \ {r} /\ ReleaseAllocation(r)
          /\ UNCHANGED <<cached_len, generated, batch>>
          /\ phase = "release" /\ phase' = "apply"
      BY <1>4 DEF ReleaseFinished, requestVars
    <2>2. ExecInv' /\ \A q : Done(q)' => Done(q) /\ InFlight(q)' = InFlight(q)
      BY <2>1, SameFlight, NotDone DEF Done
    <2> QED
      BY <2>1, <2>2, StorageStop
  <1>5. ASSUME NEW r \in Request, FailItem(r) PROVE StorageInv'
    <2>1. /\ running' = running \ {r} /\ ReleaseAllocation(r) /\ phase = "fail"
          /\ UNCHANGED <<cached_len, generated, phase>>
      BY <1>5 DEF FailItem, FailId, callVars
    <2>2. ExecInv' /\ \A q : ~Done(q)'
      BY <2>1, NotDone
    <2> QED
      BY <2>1, <2>2, StorageStop
  <1> QED
    BY <1>1, <1>2, <1>3, <1>4, <1>5

\* A grown table keeps the slots of the positions it had.
LEMMA GrowStep ==
  ASSUME SchedInv, SchedInv', StorageInv, UNCHANGED <<slots, exec>>,
         NEW r \in Request, ScheduleRunning(r)
  PROVE  StorageInv'
  <1>1. /\ phase = "running" /\ state[r] = "Running" /\ remaining > 0
        /\ ReserveTo(r, <<>>, Required(r, <<>>))
        /\ UNCHANGED <<running, cached_len, generated, phase>>
    BY DEF ScheduleRunning, Visiting, ScheduleOne, requestVars, queueVars
  <1>2. ExecInv' /\ \A q : ~Done(q)'
    BY <1>1, NotDone DEF StorageInv
  <1>3. /\ allocations \in [Request -> Seq(BlockId)] /\ running \subseteq Request
        /\ r \in running
    BY <1>1, CacheTypes DEF SchedInv, Queues, TypeOK
  <1>4. \A q \in running' : q # r => Left(q)
    BY <1>1, <1>2, <1>3, ReserveLeavesOthers DEF Left
  <1>5. \A i \in DOMAIN allocations[r] : allocations'[r][i] = allocations[r][i]
    <2>1. CASE UNCHANGED <<pool, allocations>>
      BY <2>1
    <2>2. ASSUME NEW n \in Int, n > 0, NEW ids \in LowestFree(pool, n),
                 allocations' = [allocations EXCEPT ![r] = @ \o <<>> \o ids]
          PROVE  \A i \in DOMAIN allocations[r] : allocations'[r][i] = allocations[r][i]
      <3>1. ids \in Seq(pool.free)
        BY <2>2 DEF LowestFree
      <3>2. pool.free \subseteq BlockId
        BY CacheTypes DEF SchedInv, Pool
      <3>3. ids \in Seq(BlockId)
        BY <3>1, <3>2
      <3>4. allocations'[r] = allocations[r] \o <<>> \o ids
        BY <2>2, <1>3
      <3>5. allocations[r] \in Seq(BlockId)
        BY <1>3
      <3> QED
        BY <3>3, <3>4, <3>5
    <2>3. MissingBlocks(r, <<>>, Required(r, <<>>)) \in Int
      <3>1. /\ TypeOK /\ cached_len[r] \in Nat /\ Len(allocations[r]) \in Nat
            /\ Start(r, <<>>) = cached_len[r] /\ cached_len[r] < Len(Context(r))
        BY <1>1, <1>3, TableLength DEF SchedInv, Queues, Lengths, Start
      <3> DEFINE n == ScheduledLen(r, <<>>)
      <3>2. n \in Nat
        BY <1>1, <3>1, ChunkFacts
      <3> HIDE DEF n
      <3>3. Required(r, <<>>) = cached_len[r] + n
        BY <3>1 DEF Required, n
      <3>4. Required(r, <<>>) - Len(<<>>) * BlockLen \in Nat
        BY <3>1, <3>2, <3>3, BlockLenAssumption
      <3>5. RequiredBlocks(Required(r, <<>>) - Len(<<>>) * BlockLen) \in Nat
        BY <3>4, RequiredBlocksFacts
      <3> QED
        BY <3>1, <3>5 DEF MissingBlocks
    <2> QED
      BY <1>1, <2>1, <2>2, <2>3 DEF ReserveTo
  <1>6. TailHolds(r)'
    <2> SUFFICES ASSUME NEW p \in FullBlocks(cached_len[r]) * BlockLen + 1 .. Valid(r)'
                 PROVE  slots'[Slot(allocations'[r], p - 1)] = SubSeq(Context(r)', 1, p)
      BY <1>1 DEF TailHolds, Slot
    <2>1. /\ cached_len[r] \in Nat /\ Len(InFlight(r)) \in Nat
          /\ FullBlocks(cached_len[r]) * BlockLen \in Nat
      <3>1. cached_len[r] \in Nat /\ Len(InFlight(r)) \in Nat
        BY <1>3, TableLength, ItemOf
      <3>2. FullBlocks(cached_len[r]) \in Nat
        BY <3>1, FullBlocksFacts
      <3> QED
        BY <3>1, <3>2, BlockLenAssumption
    <2>2. Valid(r)' = cached_len[r]
      BY <1>1, <1>2, <2>1 DEF Valid
    <2>3. p \in Nat /\ p - 1 \in Nat /\ p <= cached_len[r] /\ p \in 1 .. Valid(r)
      <3>1. Valid(r) \in Nat /\ cached_len[r] <= Valid(r)
        BY <2>1 DEF Valid
      <3> DEFINE f == FullBlocks(cached_len[r]) * BlockLen
      <3> HIDE DEF f
      <3>2. p \in f + 1 .. cached_len[r] /\ f \in Nat
        BY <2>1, <2>2 DEF f
      <3> QED
        BY <3>1, <3>2, <2>1
    <2>4. slots[Slot(allocations[r], p - 1)] = SubSeq(Context(r), 1, p)
      BY <1>3, <2>3, ValidHolds DEF StorageInv, TailsHold
    <2>5. (p - 1) \div BlockLen + 1 \in DOMAIN allocations[r]
      <3>1. p - 1 < cached_len[r] + Len(InFlight(r))
        BY <2>1, <2>3
      <3> QED
        BY <1>3, <2>3, <3>1, PositionInTable
    <2>6. Slot(allocations'[r], p - 1) = Slot(allocations[r], p - 1)
      BY <1>5, <2>5 DEF Slot
    <2>7. Context(r)' = Context(r)
      BY <1>1 DEF Context
    <2> QED
      BY <2>4, <2>6, <2>7
  <1> QED
    BY <1>2, <1>1, <1>4, <1>6, ReserveSealsNothing, StorageStays

\* An admitted request has nothing but sealed blocks and blocks to fill.
LEMMA AdmitStep ==
  ASSUME SchedInv, SchedInv', StorageInv, UNCHANGED <<slots, exec>>,
         NEW r \in Request, AdmitWaiting(r)
  PROVE  StorageInv'
  <1>1. /\ phase = "waiting" /\ waiting # <<>> /\ r = Head(waiting)
        /\ ReserveTo(r, Plan(r), Required(r, Plan(r)))
        /\ cached_len' = [cached_len EXCEPT ![r] = @ + Len(Plan(r)) * BlockLen]
        /\ running' = running \cup {r}
        /\ UNCHANGED <<generated, phase>>
    BY DEF AdmitWaiting, ScheduleOne
  <1>2. ExecInv' /\ \A q : ~Done(q)'
    BY <1>1, NotDone DEF StorageInv
  <1>3. /\ allocations \in [Request -> Seq(BlockId)] /\ running \subseteq Request
        /\ cached_len \in [Request -> Nat] /\ waiting \in Seq(Request)
    BY CacheTypes DEF SchedInv, Queues, TypeOK
  <1>4. \A q \in running' : q # r => Left(q)
    BY <1>1, <1>2, <1>3, ReserveLeavesOthers DEF Left
  <1>5. cached_len'[r] = Len(Plan(r)) * BlockLen /\ Len(Plan(r)) \in Nat
    <2>1. Contains(waiting, r)
      BY <1>1, <1>3, TailFacts
    <2>2. cached_len[r] = 0
      BY <2>1 DEF SchedInv, Queues, Lengths
    <2>3. PICK k \in 0 .. Len(Prompt[r]) : Len(Plan(r)) = k
      BY PlanFacts
    <2>4. k \in Nat
      BY <2>3, ContextType, PromptAssumption
    <2>5. k * BlockLen \in Nat
      BY <2>4, BlockLenAssumption
    <2> QED
      BY <1>1, <1>3, <2>2, <2>3, <2>4, <2>5
  <1>6. TailHolds(r)'
    <2>1. FullBlocks(cached_len'[r]) * BlockLen = cached_len'[r] /\ cached_len'[r] \in Nat
      <3>1. \A k \in Nat : (k * BlockLen) \div BlockLen = k /\ k * BlockLen \in Nat
        BY BlockLenAssumption
      <3> QED
        BY <1>5, <3>1 DEF FullBlocks
    <2>2. Valid(r)' = cached_len'[r]
      BY <1>2, <2>1 DEF Valid
    <2>3. cached_len'[r] + 1 .. cached_len'[r] = {}
      BY <2>1
    <2> QED
      BY <2>1, <2>2, <2>3, Zenon DEF TailHolds
  <1> QED
    BY <1>2, <1>4, <1>6, <1>1, ReserveSealsNothing, StorageStays

\* Only these chunks of a table are sealed, or moved to a sealed block.
SealsOnly(r, chunks) ==
  /\ \A b \in BlockId : IsSealed(pool', b) =>
       \/ pool'.state[b] = pool.state[b]
       \/ \E j \in chunks : b = allocations[r][j] /\ b = allocations'[r][j]
  /\ \A j \in DOMAIN allocations[r] : j \notin chunks => allocations'[r][j] = allocations[r][j]
  /\ DOMAIN allocations'[r] = DOMAIN allocations[r]

\* seal_blocks: what is sealed was sealed before, or is a block of the table
\* that a chunk completes and that stays in it.
LEMMA SealMove ==
  ASSUME allocations \in [Request -> Seq(BlockId)], NEW r \in Request, NEW text, NEW n,
         SealBlocks(r, text, n),
         n + 1 .. FullBlocks(Len(text)) \subseteq DOMAIN allocations[r]
  PROVE  SealsOnly(r, n + 1 .. FullBlocks(Len(text)))
  <1> DEFINE chunks == n + 1 .. FullBlocks(Len(text))
             table  == allocations[r]
             hash   == [j \in chunks |-> ChunkHash(r, text, n, j)]
             dups   == {j \in chunks : HasSealed(pool, hash[j])}
             own    == {table[j] : j \in dups}
             shared == {SealedBlock(pool, hash[j]) : j \in dups}
             fresh  == {table[j] : j \in chunks \ dups}
             hashes == [b \in fresh |-> hash[IndexOf(table, b)]]
  <1>1. /\ pool' = ReleaseBlocks(RetainShared(Publish(pool, hashes), shared), own)
        /\ allocations' =
             [allocations EXCEPT ![r] =
                [i \in DOMAIN table |-> IF i \in dups THEN SealedBlock(pool, hash[i])
                                                      ELSE table[i]]]
    BY DEF SealBlocks
  <1>2. allocations'[r] = [i \in DOMAIN table |-> IF i \in dups THEN SealedBlock(pool, hash[i])
                                                                ELSE table[i]]
    BY <1>1, Zenon
  <1>3. dups \subseteq chunks /\ DOMAIN hashes = fresh
    OBVIOUS
  <1>4. \A j \in DOMAIN table : j \notin dups => allocations'[r][j] = table[j]
    <2> HIDE DEF dups, hash, table
    <2> QED
      BY <1>2
  <1>5. ASSUME NEW b \in BlockId, IsSealed(pool', b), b \notin fresh
        PROVE  pool'.state[b] = pool.state[b]
    <2> HIDE DEF own, shared, hashes, fresh
    <2>1. pool'.state[b] = Writable(None) \/ pool'.state[b] = pool.state[b]
      BY <1>1, <1>3, <1>5 DEF ReleaseBlocks, RetainShared, Publish
    <2>2. pool'.state[b] # Writable(None)
      BY <1>5 DEF IsSealed, Writable
    <2> QED
      BY <2>1, <2>2
  <1>6. ASSUME NEW b \in fresh
        PROVE  \E j \in chunks : b = allocations[r][j] /\ b = allocations'[r][j]
    <2>1. PICK j \in chunks \ dups : b = table[j]
      BY <1>6
    <2>2. allocations'[r][j] = table[j]
      BY <2>1, <1>4
    <2> QED
      BY <2>1, <2>2
  <1>7. DOMAIN allocations'[r] = DOMAIN table
    BY <1>2
  <1> HIDE DEF dups, hash, fresh
  <1>8. \A j \in DOMAIN table : j \notin chunks => allocations'[r][j] = table[j]
    BY <1>3, <1>4
  <1> QED
    BY <1>5, <1>6, <1>7, <1>8 DEF table, SealsOnly

\* Multiplication by a natural number keeps the order.
LEMMA TimesMonotone ==
  ASSUME NEW x \in Nat, NEW y \in Nat, NEW l \in Nat, x <= y
  PROVE  x * l <= y * l
  <1> DEFINE d == y - x
  <1>1. d \in Nat /\ y = x + d
    OBVIOUS
  <1> HIDE DEF d
  <1>2. y * l = x * l + d * l
    BY <1>1
  <1>3. d * l \in Nat /\ x * l \in Nat
    BY <1>1
  <1> QED
    BY <1>2, <1>3

\* A longer text has no fewer full blocks.
LEMMA FullBlocksMonotone ==
  ASSUME NEW x \in Nat, NEW y \in Nat, x <= y
  PROVE  FullBlocks(x) <= FullBlocks(y)
  <1> DEFINE a == FullBlocks(x)
             b == FullBlocks(y)
  <1>1. a \in Nat /\ a * BlockLen <= x /\ b \in Nat /\ y < (b + 1) * BlockLen
    BY FullBlocksFacts
  <1> HIDE DEF a, b
  <1>2. BlockLen \in Nat /\ BlockLen > 0
    BY BlockLenAssumption
  <1>3. ASSUME b < a PROVE FALSE
    <2>1. (b + 1) * BlockLen <= a * BlockLen
      BY <1>1, <1>2, <1>3
    <2>2. (b + 1) * BlockLen \in Nat /\ a * BlockLen \in Nat
      BY <1>1, <1>2
    <2> QED
      BY <2>1, <2>2, <1>1
  <1>4. a <= b
    BY <1>1, <1>3
  <1> QED
    BY <1>4 DEF a, b

\* The positions of a block that a chunk completes.
LEMMA ChunkPosition ==
  ASSUME NEW x \in Nat, NEW y \in Nat, x <= y,
         NEW j \in FullBlocks(x) + 1 .. FullBlocks(y), NEW o \in 0 .. BlockLen - 1,
         NEW p, p = (j - 1) * BlockLen + o + 1
  PROVE  /\ j \in Nat /\ j * BlockLen \in Nat /\ j * BlockLen <= y
         /\ p \in FullBlocks(x) * BlockLen + 1 .. y
         /\ FullBlocks(x) * BlockLen \in Nat /\ p \in Nat
         /\ (p - 1) \div BlockLen + 1 = j /\ (p - 1) % BlockLen = o
         /\ p = j * BlockLen - BlockLen + o + 1 /\ p <= j * BlockLen
  <1> DEFINE a == FullBlocks(x)
             b == FullBlocks(y)
  <1>1. a \in Nat /\ b \in Nat /\ b * BlockLen <= y
    BY FullBlocksFacts
  <1>2. j \in a + 1 .. b
    OBVIOUS
  <1> HIDE DEF a, b
  <1>3. BlockLen \in Nat /\ BlockLen > 0
    BY BlockLenAssumption
  <1>4. j \in Nat /\ j - 1 \in Nat /\ a <= j - 1 /\ j <= b
    BY <1>1, <1>2
  <1>5. /\ a * BlockLen <= (j - 1) * BlockLen /\ j * BlockLen <= b * BlockLen
        /\ (j - 1) * BlockLen = j * BlockLen - BlockLen
        /\ a * BlockLen \in Nat /\ j * BlockLen \in Nat /\ b * BlockLen \in Nat
        /\ (j - 1) * BlockLen \in Nat
    BY <1>1, <1>3, <1>4
  <1>6. p = j * BlockLen - BlockLen + o + 1 /\ p <= j * BlockLen /\ p - 1 \in Nat /\ p \in Nat
    <2> DEFINE m == j * BlockLen
               k == (j - 1) * BlockLen
    <2>1. m \in Nat /\ k \in Nat /\ k = m - BlockLen /\ p = k + o + 1
      BY <1>5
    <2> HIDE DEF m, k
    <2>2. p = m - BlockLen + o + 1 /\ p <= m /\ p - 1 \in Nat /\ p \in Nat
      BY <2>1, <1>3
    <2> QED
      BY <2>2 DEF m
  <1>7. p \in a * BlockLen + 1 .. y /\ a * BlockLen \in Nat
    <2> DEFINE s == a * BlockLen
               m == j * BlockLen
               e == b * BlockLen
               k == (j - 1) * BlockLen
    <2>1. s \in Nat /\ m \in Nat /\ e \in Nat /\ k \in Nat /\ s <= k /\ m <= e /\ e <= y
          /\ p <= m /\ p = k + o + 1
      BY <1>1, <1>5, <1>6
    <2> HIDE DEF s, m, e, k
    <2>2. p \in s + 1 .. y
      BY <2>1, <1>3
    <2> QED
      BY <2>1, <2>2 DEF s
  <1>8. (p - 1) \div BlockLen = j - 1 /\ (p - 1) % BlockLen = o
    <2> DEFINE q == p - 1
    <2>1. q \in Nat /\ q = (j - 1) * BlockLen + o
      BY <1>5, <1>6
    <2> HIDE DEF q
    <2>2. /\ q \div BlockLen \in Nat /\ q % BlockLen \in 0 .. BlockLen - 1
          /\ q = (q \div BlockLen) * BlockLen + (q % BlockLen)
      BY <2>1, PositionFacts
    <2>3. q \div BlockLen = j - 1 /\ q % BlockLen = o
      BY <2>1, <2>2, <1>4, SameSlot
    <2> QED
      BY <2>3 DEF q
  <1>9. j * BlockLen <= y
    BY <1>1, <1>5
  <1>10. (p - 1) \div BlockLen + 1 = j
    BY <1>4, <1>8
  <1> QED
    BY <1>4, <1>5, <1>6, <1>7, <1>8, <1>9, <1>10 DEF a

\* A context only grows at its end, so its prefixes stay what they were.
LEMMA ContextGrows ==
  ASSUME TypeOK, NEW r \in Request, NEW tokens \in {<<>>} \cup {<<t>> : t \in OutToken},
         generated'[r] = generated[r] \o tokens
  PROVE  /\ Context(r)' \in Seq(Token) /\ Len(Context(r)') \in Nat
         /\ Len(Context(r)) <= Len(Context(r)')
         /\ \A p \in Nat : p <= Len(Context(r)) =>
              SubSeq(Context(r)', 1, p) = SubSeq(Context(r), 1, p)
  <1>1. /\ Prompt[r] \in Seq(Token) /\ generated[r] \in Seq(Token) /\ tokens \in Seq(Token)
        /\ Context(r) \in Seq(Token)
    <2>1. \A s \in Seq(OutToken) : s \in Seq(Token)
      BY OutTokenAssumption
    <2>2. /\ Prompt[r] \in Seq(Token) /\ generated[r] \in Seq(OutToken)
          /\ Context(r) \in Seq(Token)
      BY ContextFacts
    <2>3. tokens \in Seq(OutToken)
      <3>1. \A t \in OutToken : <<t>> \in Seq(OutToken)
        OBVIOUS
      <3>2. <<>> \in Seq(OutToken)
        OBVIOUS
      <3> QED
        BY <3>1, <3>2
    <2> QED
      BY <2>1, <2>2, <2>3
  <1>2. Context(r)' = Context(r) \o tokens
    <2>1. (Prompt[r] \o generated[r]) \o tokens = Prompt[r] \o (generated[r] \o tokens)
      <3>1. \A s, t, u \in Seq(Token) : (s \o t) \o u = s \o (t \o u)
        BY ConcatAssociative
      <3> QED
        BY <1>1, <3>1, Zenon
    <2> QED
      BY <2>1, Zenon DEF Context
  <1>3. /\ Context(r) \o tokens \in Seq(Token)
        /\ Len(Context(r) \o tokens) = Len(Context(r)) + Len(tokens)
    BY <1>1, ConcatProperties
  <1>4. Len(Context(r)) \in Nat /\ Len(tokens) \in Nat
    BY <1>1
  <1>5. \A p \in Nat : p <= Len(Context(r)) =>
          SubSeq(Context(r) \o tokens, 1, p) = SubSeq(Context(r), 1, p)
    BY <1>1, PrefixOfConcat
  <1> QED
    BY <1>2, <1>3, <1>4, <1>5

\* An item is applied: the blocks it completes hold the KV they are sealed
\* under, and the last block keeps what is in it.
LEMMA ApplyStep ==
  ASSUME SchedInv, SchedInv', StorageInv, UNCHANGED <<slots, exec>>,
         NEW i \in DOMAIN batch,
         NEW tokens \in {<<>>} \cup {<<t>> : t \in OutToken}, NEW is_eos \in BOOLEAN,
         ApplyItem(i, tokens, is_eos), NEW r, r = batch[i].id
  PROVE  StorageInv'
  <1> DEFINE x == cached_len[r]
             y == cached_len[r] + Len(batch[i].input)
             text == SubSeq(Prompt[r] \o generated'[r], 1, cached_len'[r])
  <1>1. /\ phase = "apply" /\ phase' \in {"apply", "release"}
        /\ generated' = [generated EXCEPT ![r] = @ \o tokens]
        /\ cached_len' = [cached_len EXCEPT ![r] = @ + Len(batch[i].input)]
        /\ SealBlocks(r, text, FullBlocks(x))
        /\ batch' = RemoveAt(batch, i)
        /\ running' = running
    BY DEF ApplyItem, queueVars
  <1>2. /\ r \in Request /\ Scheduled(r) /\ r \in running
        /\ InFlight(r) = batch[i].input /\ Len(batch[i].input) \in Nat
        /\ y <= Len(Context(r))
    <2>1. /\ r \in Request /\ Scheduled(r) /\ Len(batch[i].input) \in Nat
      BY ItemFacts DEF SchedInv, Queues
    <2>2. r \in running
      BY <2>1, ScheduledRuns
    <2>3. y <= Len(Context(r))
      BY DEF SchedInv, BatchIsCurrent, ItemsFit
    <2> QED
      BY <2>1, <2>2, <2>3, ItemOf
  <1>3. /\ allocations \in [Request -> Seq(BlockId)] /\ running \subseteq Request
        /\ cached_len \in [Request -> Nat] /\ generated \in [Request -> Seq(OutToken)]
        /\ batch \in Seq(Item) /\ IdsDistinct(batch)
    BY CacheTypes DEF SchedInv, Queues, TypeOK, BatchIsCurrent, IdsDistinct
  <1>4. /\ cached_len'[r] = y /\ generated'[r] = generated[r] \o tokens
        /\ \A q \in Request \ {r} : cached_len'[q] = cached_len[q] /\ generated'[q] = generated[q]
        /\ x \in Nat /\ y \in Nat /\ x <= y
    <2>1. r \in Request /\ cached_len \in [Request -> Nat] /\ generated \in [Request -> Seq(OutToken)]
      BY <1>2, <1>3
    <2>2. /\ cached_len'[r] = y
          /\ \A q \in Request \ {r} : cached_len'[q] = cached_len[q]
      BY <1>1, <2>1
    <2>3. /\ generated'[r] = generated[r] \o tokens
          /\ \A q \in Request \ {r} : generated'[q] = generated[q]
      BY <1>1, <2>1
    <2>4. x \in Nat /\ y \in Nat /\ x <= y
      <3>1. cached_len[r] \in Nat /\ Len(batch[i].input) \in Nat
        BY <1>2, <2>1
      <3> QED
        BY <3>1
    <2> QED
      BY <2>2, <2>3, <2>4
  <1>5. /\ \A q : Scheduled(q)' => Scheduled(q) /\ q # r
        /\ \A q : q # r => InFlight(q)' = InFlight(q)
    <2>1. /\ \A j \in DOMAIN RemoveAt(batch, i) :
               \E m \in DOMAIN batch : m # i /\ RemoveAt(batch, i)[j] = batch[m]
          /\ \A q : q # r => InFlightIn(RemoveAt(batch, i), q) = InFlightIn(batch, q)
      BY <1>3, BatchRemove
    <2>2. \A m \in DOMAIN batch : m # i => batch[m].id # r
      BY <1>3 DEF IdsDistinct
    <2> QED
      BY <1>1, <2>1, <2>2, InFlightOf DEF Scheduled
  <1>6. /\ ExecInv' /\ Done(r) /\ ~Done(r)'
        /\ \A q : q # r /\ Done(q)' => Done(q)
    BY <1>1, <1>2, <1>5, NotDone DEF StorageInv, Done
  <1>7. Valid(r) = y /\ Valid(r)' = y
    BY <1>2, <1>4, <1>6 DEF Valid
  <1>8. /\ Written(r)' = text /\ Len(text) = y /\ text = SubSeq(Context(r)', 1, y)
        /\ Context(r)' \in Seq(Token) /\ y <= Len(Context(r)') /\ Len(Context(r)') \in Nat
        /\ \A p \in Nat : p <= y => SubSeq(Context(r)', 1, p) = SubSeq(Context(r), 1, p)
    <2>1. /\ Context(r)' \in Seq(Token) /\ Len(Context(r)') \in Nat
          /\ Len(Context(r)) <= Len(Context(r)')
          /\ \A p \in Nat : p <= Len(Context(r)) =>
               SubSeq(Context(r)', 1, p) = SubSeq(Context(r), 1, p)
      BY <1>2, <1>4, ContextGrows DEF SchedInv, Queues
    <2>2. text = SubSeq(Context(r)', 1, y)
      BY <1>4 DEF Context
    <2>3. Written(r)' = text
      BY <1>1, <1>2, <1>4, <2>2 DEF Written
    <2>4. Len(Context(r)) \in Nat
      BY <1>2, ContextFacts DEF SchedInv, Queues
    <2> HIDE DEF text
    <2>5. y <= Len(Context(r)')
      BY <1>2, <1>4, <2>1, <2>4
    <2>6. Len(text) = y
      BY <1>4, <2>1, <2>2, <2>5
    <2>7. \A p \in Nat : p <= y => p <= Len(Context(r))
      BY <1>2, <1>4, <2>4
    <2> QED
      BY <2>1, <2>2, <2>3, <2>5, <2>6, <2>7
  <1> DEFINE chunks == FullBlocks(x) + 1 .. FullBlocks(y)
  <1>9. chunks \subseteq DOMAIN allocations[r]
    <2> SUFFICES ASSUME NEW j \in chunks PROVE j \in DOMAIN allocations[r]
      OBVIOUS
    <2> HIDE DEF x, y
    <2>1. 0 \in 0 .. BlockLen - 1
      BY BlockLenAssumption
    <2> DEFINE p == (j - 1) * BlockLen + 0 + 1
    <2>2. /\ FullBlocks(x) * BlockLen \in Nat
          /\ p \in FullBlocks(x) * BlockLen + 1 .. y /\ (p - 1) \div BlockLen + 1 = j
      BY <2>1, <1>4, ChunkPosition
    <2> HIDE DEF p, chunks
    <2>3. p - 1 \in Nat /\ p - 1 < cached_len[r] + Len(InFlight(r))
      BY <2>2, <1>2, <1>4 DEF y
    <2> QED
      BY <1>2, <2>2, <2>3, PositionInTable
  <1>10. /\ \A b \in BlockId : IsSealed(pool', b) =>
              \/ pool'.state[b] = pool.state[b]
              \/ \E j \in chunks : b = allocations[r][j] /\ b = allocations'[r][j]
         /\ \A j \in DOMAIN allocations[r] :
              j \notin chunks => allocations'[r][j] = allocations[r][j]
         /\ DOMAIN allocations'[r] = DOMAIN allocations[r]
    <2>1. chunks = FullBlocks(x) + 1 .. FullBlocks(Len(text))
      BY <1>8
    <2> DEFINE n == FullBlocks(x)
    <2>2. SealBlocks(r, text, n)
      BY <1>1
    <2>3. n + 1 .. FullBlocks(Len(text)) = chunks
      BY <2>1
    <2> HIDE DEF chunks, x, text, n
    <2>4. n + 1 .. FullBlocks(Len(text)) \subseteq DOMAIN allocations[r]
      BY <1>9, <2>3
    <2>5. r \in Request /\ allocations \in [Request -> Seq(BlockId)]
      BY <1>2, <1>3
    <2>6. SealsOnly(r, n + 1 .. FullBlocks(Len(text)))
      BY <2>2, <2>4, <2>5, SealMove
    <2>7. SealsOnly(r, chunks)
      BY <2>3, <2>6
    <2> QED
      BY <2>7 DEF SealsOnly
  <1>11. \A q \in running' : q # r => Left(q)
    <2> SUFFICES ASSUME NEW q \in running, q # r PROVE Left(q)
      BY <1>1
    <2>1. q \in Request
      BY <1>3
    <2>2. allocations'[q] = allocations[q]
      BY <1>1, <1>2, <1>3, <2>1, SealLeavesOthers
    <2>3. Done(q)' => Done(q) /\ InFlight(q)' = InFlight(q)
      BY <1>5, <1>6
    <2>4. cached_len'[q] = cached_len[q] /\ generated'[q] = generated[q]
      BY <1>4, <2>1
    <2> QED
      BY <2>2, <2>3, <2>4 DEF Left
  <1> HIDE DEF x, y, text, chunks
  <1>12. TailHolds(r)
    BY <1>2 DEF StorageInv, TailsHold
  <1>13. SealedHold'
    <2> SUFFICES ASSUME NEW b \in BlockId, NEW o \in 0 .. BlockLen - 1, IsSealed(pool', b)
                 PROVE  LET hash == pool'.state[b].hash
                        IN slots[b * BlockLen + o] = SubSeq(hash, 1, Len(hash) - BlockLen + o + 1)
      BY DEF SealedHold
    <2>1. CASE pool'.state[b] = pool.state[b]
      <3>1. IsSealed(pool, b)
        BY <2>1 DEF IsSealed
      <3> QED
        BY <2>1, <3>1, Zenon DEF StorageInv, SealedHold
    <2>2. ASSUME NEW j \in chunks, b = allocations[r][j], b = allocations'[r][j]
          PROVE  LET hash == pool'.state[b].hash
                 IN slots[b * BlockLen + o] = SubSeq(hash, 1, Len(hash) - BlockLen + o + 1)
      <3> DEFINE p == (j - 1) * BlockLen + o + 1
                 m == j * BlockLen
                 hash == SubSeq(Context(r)', 1, m)
      <3>1. /\ j \in Nat /\ m \in Nat /\ m <= y
            /\ p \in FullBlocks(x) * BlockLen + 1 .. y
            /\ (p - 1) \div BlockLen + 1 = j /\ (p - 1) % BlockLen = o
            /\ p = m - BlockLen + o + 1 /\ p <= m /\ p \in Nat
        BY <1>4, ChunkPosition DEF chunks
      <3> HIDE DEF p, m
      <3>2. pool'.state[b] = [kind |-> "sealed", hash |-> hash]
        <4>1. pool'.state[allocations'[r][j]] = K!Sealed(K!PrefixHash(Written(r)', j))
          <5>1. j \in DOMAIN allocations'[r]
            BY <1>9, <1>10
          <5>2. j * BlockLen <= Len(Written(r)')
            BY <1>8, <3>1 DEF m
          <5> QED
            BY <1>2, <5>1, <5>2 DEF SchedInv, K!CacheInv, K!TableContents
        <4>2. SubSeq(Written(r)', 1, m) = hash
          BY <1>4, <1>8, <3>1, PrefixFacts
        <4> HIDE DEF hash
        <4> QED
          BY <2>2, <4>1, <4>2 DEF K!Sealed, K!PrefixHash, m
      <3>3. SubSeq(hash, 1, p) = SubSeq(Context(r)', 1, p) /\ Len(hash) = m /\ p \in Nat
        <4>2. m <= Len(Context(r)')
          BY <1>4, <1>8, <3>1
        <4> QED
          BY <1>8, <3>1, <4>2, PrefixFacts
      <3>4. slots[Slot(allocations[r], p - 1)] = SubSeq(Context(r), 1, p)
        BY <1>7, <1>12, <3>1 DEF TailHolds, x
      <3>5. Slot(allocations[r], p - 1) = b * BlockLen + o
        BY <2>2, <3>1 DEF Slot
      <3>6. slots[b * BlockLen + o] = SubSeq(hash, 1, p)
        <4>1. p <= y
          BY <1>4, <3>1, <3>3
        <4> QED
          BY <1>8, <3>3, <3>4, <3>5, <4>1
      <3> QED
        BY <3>1, <3>2, <3>3, <3>6
    <2> QED
      BY <1>10, <2>1, <2>2
  <1>14. TailHolds(r)'
    <2> SUFFICES ASSUME NEW p \in FullBlocks(y) * BlockLen + 1 .. y
                 PROVE  slots[Slot(allocations'[r], p - 1)] = SubSeq(Context(r)', 1, p)
      BY <1>4, <1>7 DEF TailHolds, Slot
    <2> DEFINE e == FullBlocks(x) * BlockLen
               f == FullBlocks(y) * BlockLen
               k == (p - 1) \div BlockLen
    <2>1. /\ FullBlocks(x) \in Nat /\ FullBlocks(y) \in Nat /\ FullBlocks(x) <= FullBlocks(y)
          /\ BlockLen \in Nat
      BY <1>4, FullBlocksFacts, FullBlocksMonotone, BlockLenAssumption
    <2>2. e \in Nat /\ f \in Nat /\ e <= f
      BY <2>1
    <2>3. p \in e + 1 .. y /\ p - 1 \in Nat /\ f <= p - 1 /\ p \in Nat /\ p <= y
      <3> HIDE DEF e, f
      <3>1. p \in f + 1 .. y
        BY DEF f
      <3> QED
        BY <3>1, <2>2, <1>4
    <2>4. slots[Slot(allocations[r], p - 1)] = SubSeq(Context(r), 1, p)
      BY <1>7, <1>12, <2>3 DEF TailHolds, x
    <2>5. k + 1 \in DOMAIN allocations[r]
      <3>1. p - 1 < cached_len[r] + Len(InFlight(r))
        BY <1>2, <1>4, <2>3 DEF y
      <3> QED
        BY <1>2, <2>3, <3>1, PositionInTable
    <2>6. k + 1 \notin chunks
      <3> HIDE DEF e, f
      <3>1. k \in Nat /\ (p - 1) % BlockLen \in 0 .. BlockLen - 1
            /\ p - 1 = k * BlockLen + ((p - 1) % BlockLen)
        BY <2>3, PositionFacts
      <3> HIDE DEF k
      <3>2. (k + 1) * BlockLen = k * BlockLen + BlockLen /\ k * BlockLen \in Nat
        BY <3>1, BlockLenAssumption
      <3>3. f < (k + 1) * BlockLen
        BY <2>1, <2>2, <2>3, <3>1, <3>2
      <3>4. ASSUME k + 1 <= FullBlocks(y) PROVE FALSE
        <4>1. (k + 1) * BlockLen <= FullBlocks(y) * BlockLen
          <5>1. k + 1 \in Nat /\ FullBlocks(y) \in Nat /\ BlockLen \in Nat
            BY <2>1, <3>1
          <5> QED
            BY ONLY <5>1, <3>4, TimesMonotone
        <4>2. (k + 1) * BlockLen \in Nat
          BY <3>2, <2>1, <3>1
        <4> QED
          BY <4>1, <4>2, <3>3, <2>2 DEF f
      <3> QED
        BY <3>1, <3>4, <2>1 DEF chunks
    <2>7. Slot(allocations'[r], p - 1) = Slot(allocations[r], p - 1)
      BY <1>10, <2>5, <2>6 DEF Slot
    <2> QED
      BY <1>8, <2>3, <2>4, <2>7
  <1> QED
    BY <1>1, <1>6, <1>11, <1>13, <1>14, TailStays DEF StorageInv, TailsHold

-----------------------------------------------------------------------------
(* Execution.                                                              *)

\* Where the rows of a batch write: blocks of their request alone, not sealed.
LEMMA RowFacts ==
  ASSUME SchedInv, WritesArePrivate, NEW i \in DOMAIN batch, NEW p \in Positions(batch[i]),
         NEW r, r = batch[i].id
  PROVE  /\ r \in Request /\ r \in running /\ Scheduled(r) /\ InFlight(r) = batch[i].input
         /\ batch[i].block_table = allocations[r] /\ batch[i].start = cached_len[r]
         /\ cached_len[r] \in Nat /\ Len(InFlight(r)) \in Nat
         /\ p \in Nat /\ cached_len[r] <= p /\ p < cached_len[r] + Len(InFlight(r))
         /\ pool.state[allocations[r][p \div BlockLen + 1]] = Writable(r)
         /\ \A q \in Request \ {r} :
              allocations[r][p \div BlockLen + 1] \notin Range(allocations[q])
  <1>1. r \in Request /\ Scheduled(r)
    BY ItemFacts DEF SchedInv, Queues
  <1>2. /\ r \in running /\ InFlight(r) = batch[i].input /\ Len(InFlight(r)) \in Nat
    BY <1>1, ScheduledRuns, ItemOf
  <1>3. batch[i].block_table = allocations[r] /\ batch[i].start = cached_len[r]
    BY DEF SchedInv, BatchIsCurrent
  <1>4. cached_len[r] \in Nat
    BY <1>2, TableLength
  <1>5. p \in cached_len[r] .. cached_len[r] + Len(InFlight(r)) - 1
    BY <1>2, <1>3 DEF Positions
  <1>6. p \in Nat /\ cached_len[r] <= p /\ p < cached_len[r] + Len(InFlight(r))
    BY <1>2, <1>4, <1>5
  <1>7. /\ pool.state[allocations[r][p \div BlockLen + 1]] = Writable(r)
        /\ \A q \in Request \ {r} :
             allocations[r][p \div BlockLen + 1] \notin Range(allocations[q])
    BY <1>3 DEF WritesArePrivate, Positions
  <1> QED
    BY <1>1, <1>2, <1>3, <1>4, <1>6, <1>7

\* A slot that a batch writes belongs to one position of one request.
LEMMA RowApart ==
  ASSUME SchedInv, WritesArePrivate, NEW i \in DOMAIN batch, NEW p \in Positions(batch[i]),
         NEW q \in running, NEW m \in Nat, m < cached_len[q] + Len(InFlight(q)),
         Slot(allocations[q], m) = Slot(batch[i].block_table, p)
  PROVE  q = batch[i].id /\ m = p
  <1>0. q \in Request
    BY TableLength
  <1>1. PICK r : r = batch[i].id
    OBVIOUS
  <1> DEFINE j == p \div BlockLen + 1
             k == m \div BlockLen + 1
  <1>2. /\ r \in Request /\ r \in running /\ batch[i].block_table = allocations[r]
        /\ p \in Nat /\ p < cached_len[r] + Len(InFlight(r))
        /\ \A x \in Request \ {r} : allocations[r][j] \notin Range(allocations[x])
    BY <1>1, RowFacts
  <1>3. /\ j \in DOMAIN allocations[r] /\ allocations[r][j] \in BlockId
        /\ p % BlockLen \in 0 .. BlockLen - 1
        /\ Slot(allocations[r], p) = allocations[r][j] * BlockLen + (p % BlockLen)
    BY <1>2, PositionInTable
  <1>4. /\ k \in DOMAIN allocations[q] /\ allocations[q][k] \in BlockId
        /\ m % BlockLen \in 0 .. BlockLen - 1
        /\ Slot(allocations[q], m) = allocations[q][k] * BlockLen + (m % BlockLen)
    BY PositionInTable
  <1> HIDE DEF j, k
  <1>5. allocations[q][k] = allocations[r][j] /\ m % BlockLen = p % BlockLen
    <2>1. BlockId \subseteq Nat
      BY NumBlocksAssumption DEF BlockId
    <2>2. allocations[q][k] * BlockLen + (m % BlockLen) = allocations[r][j] * BlockLen + (p % BlockLen)
      BY <1>2, <1>3, <1>4
    <2>3. allocations[q][k] \in Nat /\ allocations[r][j] \in Nat
      BY <1>3, <1>4, <2>1
    <2> DEFINE a == allocations[q][k]
               b == allocations[r][j]
    <2> HIDE DEF a, b
    <2>4. a = b /\ m % BlockLen = p % BlockLen
      BY <2>2, <2>3, <1>3, <1>4, SameSlot DEF a, b
    <2> QED
      BY <2>4 DEF a, b
  <1>6. q = r
    BY <1>0, <1>2, <1>4, <1>5 DEF Range
  <1>7. k = j
    <2>1. K!IsInjective(allocations[r])
      BY <1>2 DEF SchedInv, K!CacheInv, K!TableInjective
    <2> QED
      BY <2>1, <1>3, <1>4, <1>5, <1>6 DEF K!IsInjective
  <1>8. m \div BlockLen = p \div BlockLen
    <2>1. m \div BlockLen \in Nat /\ p \div BlockLen \in Nat
      BY <1>2, PositionFacts
    <2> QED
      BY <2>1, <1>7 DEF j, k
  <1>9. m = p
    BY <1>2, <1>5, <1>8, PositionFacts
  <1> QED
    BY <1>1, <1>6, <1>9

\* No row of a batch writes a slot of a sealed block.
LEMMA RowAvoidsSealed ==
  ASSUME SchedInv, WritesArePrivate, NEW i \in DOMAIN batch, NEW p \in Positions(batch[i]),
         NEW b \in BlockId, NEW o \in 0 .. BlockLen - 1, IsSealed(pool, b)
  PROVE  b * BlockLen + o # Slot(batch[i].block_table, p)
  <1>1. PICK r : r = batch[i].id
    OBVIOUS
  <1> DEFINE c == allocations[r][p \div BlockLen + 1]
             u == p % BlockLen
  <1>2. /\ r \in running /\ batch[i].block_table = allocations[r]
        /\ p \in Nat /\ p < cached_len[r] + Len(InFlight(r))
        /\ pool.state[c] = Writable(r)
    BY <1>1, RowFacts
  <1>3. c \in BlockId /\ u \in 0 .. BlockLen - 1
        /\ Slot(allocations[r], p) = c * BlockLen + u
    BY <1>2, PositionInTable
  <1> HIDE DEF c, u
  <1>4. b # c
    BY <1>2 DEF IsSealed, Writable
  <1>5. b \in Nat /\ c \in Nat
    BY <1>3, SlotInStorage
  <1>6. b * BlockLen + o # c * BlockLen + u
    BY <1>3, <1>4, <1>5, SameSlot
  <1> QED
    BY <1>2, <1>3, <1>6

\* The dummy block lies outside the pool when the storage is larger.
LEMMA DummyApart ==
  ASSUME DummyBlock >= NumBlocks, NEW b \in BlockId, NEW o \in 0 .. BlockLen - 1
  PROVE  b * BlockLen + o # DummyBlock * BlockLen
  <1> DEFINE d == DummyBlock
  <1>1. /\ b \in Nat /\ d \in Nat /\ b # d /\ 0 \in 0 .. BlockLen - 1
    BY BlockLenAssumption, NumBlocksAssumption, CacheAssumption DEF BlockId, DummyBlock
  <1> HIDE DEF d
  <1>2. b * BlockLen + o # d * BlockLen + 0
    BY <1>1, SameSlot
  <1>3. d * BlockLen \in Nat
    BY <1>1, BlockLenAssumption
  <1>4. d * BlockLen + 0 = d * BlockLen
    BY <1>3
  <1> QED
    BY <1>2, <1>4 DEF d

\* The positions before an item hold its context when it is computed.
LEMMA ReadsContext ==
  ASSUME SchedInv, WritesArePrivate, StorageInv, NEW i \in DOMAIN batch,
         NEW p \in Positions(batch[i]), NEW r, r = batch[i].id
  PROVE  /\ Coherent(batch[i])
         /\ Prefix(batch[i]) = SubSeq(Context(r), 1, cached_len[r])
  <1> DEFINE x == cached_len[r]
             c == Context(r)
  <1>1. /\ r \in Request /\ r \in running /\ batch[i].block_table = allocations[r]
        /\ batch[i].start = x /\ x \in Nat /\ Len(InFlight(r)) \in Nat
    BY RowFacts
  <1>2. c \in Seq(Token) /\ x <= Len(c)
    BY <1>1, ContextFacts DEF SchedInv, Queues, Lengths
  <1>3. \A q \in 1 .. x : q \in 1 .. Valid(r)
    <2>1. Valid(r) \in Nat /\ x <= Valid(r)
      BY <1>1 DEF Valid
    <2> HIDE DEF x
    <2> QED
      BY <1>1, <2>1
  <1>4. \A q \in 1 .. x : Reads(batch[i])[q] = SubSeq(c, 1, q)
    <2> SUFFICES ASSUME NEW q \in 1 .. x PROVE Reads(batch[i])[q] = SubSeq(c, 1, q)
      OBVIOUS
    <2>1. slots[Slot(allocations[r], q - 1)] = SubSeq(c, 1, q)
      BY <1>1, <1>3, ValidHolds DEF StorageInv, TailsHold
    <2>2. Reads(batch[i])[q] = slots[Slot(batch[i].block_table, q - 1)]
      BY <1>1 DEF Reads
    <2> QED
      BY <1>1, <2>1, <2>2
  <1> HIDE DEF x, c
  <1>5. Coherent(batch[i])
    <2> SUFFICES ASSUME NEW q \in 1 .. x
                 PROVE  /\ Len(Reads(batch[i])[q]) = q
                        /\ IsPrefix(Reads(batch[i])[q], Reads(batch[i])[x])
      BY <1>1 DEF Coherent
    <2>1. q \in Nat /\ q <= x /\ x \in 1 .. x /\ q <= Len(c)
      BY <1>1, <1>2
    <2>2. Reads(batch[i])[q] = SubSeq(c, 1, q) /\ Reads(batch[i])[x] = SubSeq(c, 1, x)
      BY <1>4, <2>1
    <2>3. /\ Len(SubSeq(c, 1, q)) = q /\ Len(SubSeq(c, 1, x)) = x
          /\ SubSeq(SubSeq(c, 1, x), 1, q) = SubSeq(c, 1, q)
          /\ SubSeq(SubSeq(c, 1, q), 1, q) = SubSeq(c, 1, q)
      BY <1>1, <1>2, <2>1, PrefixFacts
    <2> QED
      BY <2>1, <2>2, <2>3 DEF IsPrefix
  <1>6. Prefix(batch[i]) = SubSeq(c, 1, x)
    <2>1. CASE x = 0
      BY <1>1, <1>2, <2>1 DEF Prefix
    <2>2. CASE x # 0
      <3>1. x \in 1 .. x
        BY <1>1, <2>2
      <3> QED
        BY <1>1, <1>4, <2>2, <3>1 DEF Prefix
    <2> QED
      BY <2>1, <2>2
  <1> QED
    BY <1>5, <1>6 DEF x, c

\* The forward pass of a request that reads its own context computes its own KV.
LEMMA ComputedValue ==
  ASSUME SchedInv, WritesArePrivate, StorageInv, NEW i \in DOMAIN batch,
         NEW p \in Positions(batch[i])
  PROVE  Computed(batch[i])[Slot(batch[i].block_table, p)] = SubSeq(Context(batch[i].id), 1, p + 1)
  <1>1. PICK r : r = batch[i].id
    OBVIOUS
  <1> DEFINE item == batch[i]
             s == Slot(item.block_table, p)
             w == CHOOSE q \in Positions(item) : Slot(item.block_table, q) = s
  <1>2. /\ r \in Request /\ r \in running /\ item.block_table = allocations[r]
        /\ item.start = cached_len[r] /\ InFlight(r) = item.input
        /\ cached_len[r] \in Nat /\ p \in Nat /\ cached_len[r] <= p
        /\ p < cached_len[r] + Len(InFlight(r)) /\ Len(InFlight(r)) \in Nat
    BY <1>1, RowFacts
  <1>3. w = p
    <2>1. w \in Positions(item) /\ Slot(item.block_table, w) = s
      OBVIOUS
    <2> HIDE DEF w
    <2>2. w \in Nat /\ w < cached_len[r] + Len(InFlight(r))
      BY <1>1, <2>1, RowFacts
    <2> QED
      BY <1>2, <2>1, <2>2, RowApart
  <1>4. /\ Coherent(item) /\ Prefix(item) = SubSeq(Context(r), 1, cached_len[r])
    BY <1>1, ReadsContext
  <1>5. Computed(item)[s] = Prefix(item) \o SubSeq(item.input, 1, w - item.start + 1)
    <2>1. s \in {Slot(item.block_table, q) : q \in Positions(item)}
      OBVIOUS
    <2> HIDE DEF s, w, item
    <2> QED
      BY <1>4, <2>1 DEF Computed, w
  <1>6. SubSeq(Context(r), 1, cached_len[r]) \o SubSeq(item.input, 1, p - cached_len[r] + 1)
          = SubSeq(Context(r), 1, p + 1)
    <2> DEFINE c == Context(r)
               x == cached_len[r]
               n == Len(item.input)
    <2>1. /\ c \in Seq(Token) /\ x + n <= Len(c) /\ Len(c) \in Nat
          /\ item.input = SubSeq(c, x + 1, x + n)
      BY <1>1, <1>2, ContextFacts DEF SchedInv, Queues, BatchIsCurrent, ItemsFit
    <2>2. x \in Nat /\ n \in Nat /\ x <= p /\ p < x + n /\ p \in Nat
      BY <1>2
    <2> HIDE DEF c, x, n, item
    <2>3. SubSeq(SubSeq(c, x + 1, x + n), 1, p - x + 1) = SubSeq(c, x + 1, p + 1)
      BY <2>1, <2>2
    <2>4. SubSeq(c, 1, x) \o SubSeq(c, x + 1, p + 1) = SubSeq(c, 1, p + 1)
      <3>1. p + 1 \in Nat /\ x <= p + 1 /\ p + 1 <= Len(c)
        BY <2>1, <2>2
      <3> QED
        BY <2>1, <2>2, <3>1, PrefixFacts
    <2> QED
      BY <2>1, <2>3, <2>4 DEF c, x
  <1> QED
    BY <1>1, <1>2, <1>3, <1>4, <1>5, <1>6

\* The forward pass of the batch: every row its own KV, in its own slot.
LEMMA RowsValue ==
  ASSUME SchedInv, WritesArePrivate, StorageInv, NEW i \in DOMAIN batch,
         NEW p \in Positions(batch[i])
  PROVE  /\ Slot(batch[i].block_table, p) \in DOMAIN Rows
         /\ Rows[Slot(batch[i].block_table, p)] = SubSeq(Context(batch[i].id), 1, p + 1)
  <1> DEFINE s == Slot(batch[i].block_table, p)
             k == CHOOSE k \in DOMAIN batch : s \in DOMAIN Computed(batch[k])
  <1>1. s \in DOMAIN Computed(batch[i])
    BY DEF Computed
  <1>2. s \in RowSlots /\ DOMAIN Rows = RowSlots
    BY <1>1 DEF RowSlots, Rows
  <1>3. k \in DOMAIN batch /\ s \in DOMAIN Computed(batch[k])
    BY <1>1
  <1>4. Rows[s] = Computed(batch[k])[s]
    BY <1>2 DEF Rows
  <1> HIDE DEF k
  <1>5. k = i
    <2>1. PICK q \in Positions(batch[k]) : Slot(batch[k].block_table, q) = s
      BY <1>3 DEF Computed
    <2>2. PICK r : r = batch[k].id
      OBVIOUS
    <2>3. /\ r \in running /\ batch[k].block_table = allocations[r]
          /\ q \in Nat /\ q < cached_len[r] + Len(InFlight(r))
      BY <1>3, <2>2, RowFacts
    <2>4. r = batch[i].id
      BY <2>1, <2>3, RowApart
    <2> QED
      BY <1>3, <2>2, <2>4 DEF SchedInv, BatchIsCurrent
  <1>6. Computed(batch[i])[s] = SubSeq(Context(batch[i].id), 1, p + 1)
    BY ComputedValue
  <1> QED
    BY <1>2, <1>4, <1>5, <1>6

\* A forward pass, finished or not: it writes the slots of its rows and of the
\* dummy block only, and every row when it is finished.
LEMMA StoreHolds ==
  ASSUME SchedInv, WritesArePrivate, StorageInv,
         UNCHANGED schedVars, Outstanding, NEW w,
         slots' = [s \in SlotId |-> IF s \in DOMAIN w THEN w[s] ELSE slots[s]],
         \A s \in DOMAIN w :
           \/ s = DummyBlock * BlockLen /\ DummyBlock >= NumBlocks
           \/ \E i \in DOMAIN batch : \E p \in Positions(batch[i]) :
                s = Slot(batch[i].block_table, p),
         exec' \in {"eager", "replayed", "raised"},
         exec' # "raised" => \A i \in DOMAIN batch : \A p \in Positions(batch[i]) :
           LET s == Slot(batch[i].block_table, p)
           IN s \in DOMAIN w /\ w[s] = SubSeq(Context(batch[i].id), 1, p + 1)
  PROVE  StorageInv'
  <1>1. /\ UNCHANGED <<running, cached_len, generated, pool, allocations, batch, phase>>
        /\ phase = "idle" /\ batch # <<>>
    BY DEF schedVars, requestVars, queueVars, callVars, cacheVars, Outstanding
  <1>2. ExecInv'
    BY <1>1 DEF ExecInv
  <1>3. SealedHold'
    <2> SUFFICES ASSUME NEW b \in BlockId, NEW o \in 0 .. BlockLen - 1, IsSealed(pool, b)
                 PROVE  slots'[b * BlockLen + o] = slots[b * BlockLen + o]
      BY <1>1, Zenon DEF StorageInv, SealedHold
    <2>1. b * BlockLen + o \in SlotId
      BY SlotInStorage
    <2>2. b * BlockLen + o \notin DOMAIN w
      BY RowAvoidsSealed, DummyApart
    <2> QED
      BY <2>1, <2>2
  <1>4. ASSUME NEW r \in running, NEW p \in FullBlocks(cached_len[r]) * BlockLen + 1 .. Valid(r)'
        PROVE  slots'[Slot(allocations[r], p - 1)] = SubSeq(Context(r), 1, p)
    <2> DEFINE s == Slot(allocations[r], p - 1)
               f == FullBlocks(cached_len[r]) * BlockLen
    <2>1. /\ r \in Request /\ cached_len[r] \in Nat /\ Len(InFlight(r)) \in Nat
      BY TableLength, ItemOf
    <2>2. f \in Nat
      <3>1. FullBlocks(cached_len[r]) \in Nat
        BY <2>1, FullBlocksFacts
      <3> QED
        BY <3>1, BlockLenAssumption
    <2>3. /\ InFlight(r)' = InFlight(r) /\ (Scheduled(r)' <=> Scheduled(r))
      BY <1>1, SameFlight
    <2>4. Valid(r)' = cached_len[r] + IF Done(r)' THEN Len(InFlight(r)) ELSE 0
      BY <1>1, <2>3 DEF Valid
    <2>5. /\ p \in Nat /\ p - 1 \in Nat /\ p >= f + 1 /\ p >= 1
          /\ p <= cached_len[r] \/ (Done(r)' /\ p <= cached_len[r] + Len(InFlight(r)))
      <3>1. p \in f + 1 .. Valid(r)'
        OBVIOUS
      <3> HIDE DEF f
      <3> QED
        BY <3>1, <2>1, <2>2, <2>4
    <2>6. p - 1 < cached_len[r] + Len(InFlight(r))
      BY <2>1, <2>5
    <2>7. s \in SlotId
      BY <2>5, <2>6, PositionInTable
    <2> HIDE DEF f
    <2>8. CASE p <= cached_len[r]
      <3>1. slots[s] = SubSeq(Context(r), 1, p)
        <4>1. p \in 1 .. Valid(r)
          BY <2>1, <2>5, <2>8 DEF Valid
        <4> QED
          BY <4>1, ValidHolds DEF StorageInv, TailsHold
      <3>2. s \notin DOMAIN w
        <4>1. DummyBlock >= NumBlocks => s # DummyBlock * BlockLen
          <5> DEFINE j == (p - 1) \div BlockLen + 1
          <5>1. /\ allocations[r][j] \in BlockId /\ (p - 1) % BlockLen \in 0 .. BlockLen - 1
                /\ s = allocations[r][j] * BlockLen + ((p - 1) % BlockLen)
            BY <2>5, <2>6, PositionInTable
          <5> HIDE DEF j, s
          <5> QED
            BY <5>1, DummyApart
        <4>2. ASSUME NEW i \in DOMAIN batch, NEW q \in Positions(batch[i]),
                     s = Slot(batch[i].block_table, q)
              PROVE  FALSE
          <5>1. r = batch[i].id /\ p - 1 = q
            BY <2>5, <2>6, <4>2, RowApart
          <5>2. cached_len[r] <= q
            BY <5>1, RowFacts
          <5> QED
            BY <2>5, <2>8, <2>1, <5>1, <5>2
        <4> QED
          BY <4>1, <4>2
      <3> QED
        BY <2>7, <3>1, <3>2
    <2>9. CASE ~(p <= cached_len[r])
      <3>1. Done(r)' /\ p <= cached_len[r] + Len(InFlight(r))
        BY <2>5, <2>9
      <3>2. exec' # "raised" /\ Scheduled(r)
        BY <1>1, <2>3, <3>1 DEF Done
      <3>3. PICK i \in DOMAIN batch : batch[i].id = r
        BY <3>2 DEF Scheduled
      <3>4. /\ InFlight(r) = batch[i].input /\ batch[i].start = cached_len[r]
            /\ batch[i].block_table = allocations[r]
        BY <2>1, <3>3, ItemOf DEF SchedInv, BatchIsCurrent
      <3>5. p - 1 \in Positions(batch[i])
        <4>1. p - 1 \in cached_len[r] .. cached_len[r] + Len(InFlight(r)) - 1
          BY <2>1, <2>5, <2>9, <3>1
        <4> QED
          BY <3>4, <4>1 DEF Positions
      <3>6. s \in DOMAIN w /\ w[s] = SubSeq(Context(r), 1, (p - 1) + 1)
        BY <3>2, <3>3, <3>4, <3>5
      <3>7. (p - 1) + 1 = p
        BY <2>5
      <3> QED
        BY <2>7, <3>6, <3>7
    <2> QED
      BY <2>8, <2>9
  <1>5. TailsHold'
    <2> SUFFICES ASSUME NEW r \in running',
                        NEW p \in FullBlocks(cached_len'[r]) * BlockLen + 1 .. Valid(r)'
                 PROVE  slots'[Slot(allocations'[r], p - 1)] = SubSeq(Context(r)', 1, p)
      BY DEF TailsHold, TailHolds, Slot
    <2>1. Context(r)' = Context(r)
      BY <1>1 DEF Context
    <2> QED
      BY <1>1, <1>4, <2>1
  <1> QED
    BY <1>2, <1>3, <1>5 DEF StorageInv

\* Padding rows write the last block of the storage only.
LEMMA PaddingFacts ==
  DOMAIN Padding \subseteq {DummyBlock * BlockLen}
  BY DEF Padding

LEMMA RowSlotsFacts ==
  /\ DOMAIN Rows = RowSlots
  /\ \A s \in RowSlots : \E i \in DOMAIN batch : \E p \in Positions(batch[i]) :
       s = Slot(batch[i].block_table, p)
  BY DEF Rows, RowSlots, Computed

\* No row writes the dummy block when the storage is larger than the pool.
LEMMA RowsAvoidDummy ==
  ASSUME SchedInv, WritesArePrivate, DummyBlock >= NumBlocks
  PROVE  DummyBlock * BlockLen \notin DOMAIN Rows
  <1> SUFFICES ASSUME NEW i \in DOMAIN batch, NEW p \in Positions(batch[i]),
                      DummyBlock * BlockLen = Slot(batch[i].block_table, p)
               PROVE  FALSE
    BY RowSlotsFacts
  <1>1. PICK r : r = batch[i].id
    OBVIOUS
  <1>2. /\ r \in running /\ batch[i].block_table = allocations[r]
        /\ p \in Nat /\ p < cached_len[r] + Len(InFlight(r))
    BY <1>1, RowFacts
  <1> DEFINE j == p \div BlockLen + 1
  <1>3. /\ allocations[r][j] \in BlockId /\ p % BlockLen \in 0 .. BlockLen - 1
        /\ Slot(allocations[r], p) = allocations[r][j] * BlockLen + (p % BlockLen)
    BY <1>2, PositionInTable
  <1> HIDE DEF j
  <1> QED
    BY <1>2, <1>3, DummyApart

\* Only a replay, tried or done, writes the dummy block.
LEMMA NoDummy ==
  ASSUME Buckets # {} => CacheBlocks > NumBlocks, CanReplay
  PROVE  DummyBlock >= NumBlocks
  <1>1. Buckets # {}
    BY DEF CanReplay, Bucket
  <1> QED
    BY <1>1, CacheAssumption, NumBlocksAssumption DEF DummyBlock

\* The executor: eager, replay and failure keep the invariant.
LEMMA ExecuteSteps ==
  ASSUME SchedInv, WritesArePrivate, StorageInv, Buckets # {} => CacheBlocks > NumBlocks,
         ExecuteEager \/ ExecuteGraph \/ ExecuteRaises
  PROVE  StorageInv'
  <1> DEFINE dummy == DummyBlock * BlockLen
             Row(s) == \E i \in DOMAIN batch : \E p \in Positions(batch[i]) :
                         s = Slot(batch[i].block_table, p)
             Answers(w) == \A i \in DOMAIN batch : \A p \in Positions(batch[i]) :
                             LET s == Slot(batch[i].block_table, p)
                             IN s \in DOMAIN w /\ w[s] = SubSeq(Context(batch[i].id), 1, p + 1)
  <1>1. /\ \A s \in DOMAIN Rows : Row(s)
        /\ Answers(Rows)
    BY RowSlotsFacts, RowsValue
  <1>2. ASSUME NEW g, DOMAIN g \subseteq {dummy}, DOMAIN g # {} => CanReplay,
               NEW w, w = Over(Rows, g) \/ w = Over(g, Rows)
        PROVE  /\ \A s \in DOMAIN w : (s = dummy /\ CanReplay) \/ Row(s)
               /\ Answers(w)
    <2>1. /\ DOMAIN w = DOMAIN Rows \cup DOMAIN g
          /\ \A s \in DOMAIN Rows : w[s] = Rows[s]
      <3>1. CASE w = Over(Rows, g)
        BY <3>1 DEF Over
      <3>2. CASE w = Over(g, Rows)
        <4>1. DOMAIN w = DOMAIN g \cup DOMAIN Rows
              /\ \A s \in DOMAIN Rows \ DOMAIN g : w[s] = Rows[s]
          BY <3>2 DEF Over
        <4>2. DOMAIN g \cap DOMAIN Rows = {}
          BY <1>2, NoDummy, RowsAvoidDummy
        <4> QED
          BY <4>1, <4>2
      <3> QED
        BY <1>2, <3>1, <3>2
    <2> HIDE DEF Row, dummy
    <2>3. \A s \in DOMAIN w : (s = dummy /\ CanReplay) \/ Row(s)
      BY <1>1, <1>2, <2>1
    <2>4. Answers(w)
      BY <1>1, <2>1
    <2> QED
      BY <2>3, <2>4
  <1> HIDE DEF dummy
  <1>3. ASSUME NEW w, Outstanding, UNCHANGED schedVars, Store(w),
               \A s \in DOMAIN w : (s = dummy /\ CanReplay) \/ Row(s),
               exec' \in {"eager", "replayed", "raised"},
               exec' # "raised" => Answers(w)
        PROVE  StorageInv'
    <2>1. slots' = [s \in SlotId |-> IF s \in DOMAIN w THEN w[s] ELSE slots[s]]
      BY <1>3 DEF Store
    <2>2. \A s \in DOMAIN w :
            (s = DummyBlock * BlockLen /\ DummyBlock >= NumBlocks) \/ Row(s)
      BY <1>3, NoDummy DEF dummy
    <2> QED
      BY <1>3, <2>1, <2>2, StoreHolds
  <1>4. CASE ExecuteEager
    <2>1. PICK g \in Tried : Store(Over(Rows, g))
      BY <1>4 DEF ExecuteEager
    <2>2. Outstanding /\ UNCHANGED schedVars /\ exec' = "eager"
      BY <1>4 DEF ExecuteEager
    <2>3. DOMAIN g \subseteq {dummy} /\ (DOMAIN g # {} => CanReplay)
      BY <2>1, PaddingFacts DEF dummy, Tried
    <2> HIDE DEF Row, Answers
    <2> QED
      BY <1>2, <1>3, <2>1, <2>2, <2>3
  <1>5. CASE ExecuteGraph
    <2>1. PICK w : (w = Over(Rows, Padding) \/ w = Over(Padding, Rows)) /\ Store(w)
      BY <1>5 DEF ExecuteGraph
    <2>2. Outstanding /\ UNCHANGED schedVars /\ exec' = "replayed" /\ CanReplay
      BY <1>5 DEF ExecuteGraph
    <2>3. DOMAIN Padding \subseteq {dummy}
      BY PaddingFacts DEF dummy
    <2> HIDE DEF Row, Answers
    <2> QED
      BY <1>2, <1>3, <2>1, <2>2, <2>3
  <1>6. CASE ExecuteRaises
    <2>1. Outstanding /\ UNCHANGED schedVars /\ exec' = "raised"
      BY <1>6 DEF ExecuteRaises
    <2>2. PICK items \in SUBSET DOMAIN batch, g \in Tried :
            Store(Over([s \in UNION {DOMAIN Computed(batch[i]) : i \in items} |-> <<>>], g))
      BY <1>6 DEF ExecuteRaises
    <2> DEFINE part == [s \in UNION {DOMAIN Computed(batch[i]) : i \in items} |-> <<>>]
               w == Over(part, g)
    <2>3. \A s \in DOMAIN part : Row(s)
      BY DEF Computed
    <2>4. DOMAIN g \subseteq {dummy} /\ (DOMAIN g # {} => CanReplay)
      BY <2>2, PaddingFacts DEF dummy, Tried
    <2>5. Store(w)
      BY <2>2
    <2> HIDE DEF part
    <2>6. DOMAIN w = DOMAIN part \cup DOMAIN g
      BY DEF Over
    <2> HIDE DEF w, Row, Answers
    <2> QED
      BY <1>3, <2>1, <2>3, <2>4, <2>5, <2>6
  <1> QED
    BY <1>4, <1>5, <1>6

-----------------------------------------------------------------------------
(* The specification.                                                      *)

\* run_once's answer to the scheduler moves no KV.
LEMMA AnswerSteps ==
  ASSUME SchedInv, StorageInv, Answer \/ RejectResult \/ RunOnceRaises \/ UNCHANGED serverVars
  PROVE  StorageInv'
  <1> USE DEF StorageInv
  <1>1. CASE Answer
    <2>1. /\ UNCHANGED <<running, cached_len, generated, pool, allocations, batch, slots>>
          /\ exec' = "none"
          /\ \/ exec \in {"eager", "replayed"} /\ phase' = "apply"
             \/ phase' = "fail"
      BY <1>1 DEF Answer, ApplyResult, FailBatch, requestVars, queueVars, cacheVars
    <2>2. ExecInv' /\ \A q : Done(q)' => Done(q)
      BY <2>1 DEF ExecInv, Done, Scheduled
    <2> QED
      BY <2>1, <2>2, StorageQuiet
  <1>2. CASE RejectResult
    <2>1. /\ UNCHANGED <<running, cached_len, generated, pool, allocations, batch, slots, phase>>
          /\ exec' = "rejected" /\ exec \in {"eager", "replayed"}
      BY <1>2 DEF RejectResult, schedVars, requestVars, queueVars, callVars, cacheVars
    <2>2. ExecInv' /\ \A q : Done(q)' => Done(q)
      BY <2>1 DEF ExecInv, Done, Scheduled
    <2> QED
      BY <2>1, <2>2, StorageQuiet
  <1>3. CASE UNCHANGED serverVars
    <2>1. UNCHANGED <<running, cached_len, generated, pool, allocations, batch, slots, phase, exec>>
      BY <1>3 DEF serverVars, schedVars, requestVars, queueVars, callVars, cacheVars
    <2>2. ExecInv' /\ \A q : Done(q)' => Done(q)
      BY <2>1 DEF ExecInv, Done, Scheduled
    <2> QED
      BY <2>1, <2>2, StorageQuiet
  <1> QED
    BY <1>1, <1>2, <1>3 DEF RunOnceRaises

\* Every step of the server keeps the invariant.
LEMMA StorageNext ==
  ASSUME SchedInv, SchedInv', WritesArePrivate, Buckets # {} => CacheBlocks > NumBlocks,
         StorageInv, [ServerNext]_serverVars
  PROVE  StorageInv'
  <1>1. CASE ExecuteEager \/ ExecuteGraph \/ ExecuteRaises
    BY <1>1, ExecuteSteps
  <1>2. CASE Answer \/ RejectResult \/ RunOnceRaises \/ UNCHANGED serverVars
    BY <1>2, AnswerSteps
  <1>3. ASSUME UNCHANGED <<slots, exec>>,
               \/ \E r \in Request : Submit(r) \/ Cancel(r)
               \/ Schedule
               \/ Within
        PROVE  StorageInv'
    <2>1. ASSUME \/ \E r \in Request : Submit(r) \/ SkipRunning(r)
                 \/ Schedule \/ RunningLoopEnd \/ ScheduleEnd \/ ResultEnd
          PROVE  StorageInv'
      BY <1>3, <2>1, QuietSteps
    <2>2. ASSUME \E r \in Request :
                   \/ Cancel(r) \/ FailRunning(r) \/ ReleaseFinished(r) \/ FailItem(r)
                   \/ \E visited \in Request : Preempt(visited, r)
          PROVE  StorageInv'
      BY <1>3, <2>2, StopSteps
    <2>3. ASSUME NEW r \in Request, ScheduleRunning(r) PROVE StorageInv'
      BY <1>3, <2>3, GrowStep
    <2>4. ASSUME NEW r \in Request, AdmitWaiting(r) PROVE StorageInv'
      BY <1>3, <2>4, AdmitStep
    <2>5. ASSUME NEW i \in DOMAIN batch, NEW tokens \in {<<>>} \cup {<<t>> : t \in OutToken},
                 NEW is_eos \in BOOLEAN, ApplyItem(i, tokens, is_eos)
          PROVE  StorageInv'
      BY <1>3, <2>5, ApplyStep
    <2> QED
      BY <1>3, <2>1, <2>2, <2>3, <2>4, <2>5, ZenonT(60) DEF Within
  <1> QED
    BY <1>1, <1>2, <1>3 DEF ServerNext

\* At the start nothing is sealed and nothing runs.
LEMMA StorageInit == ServerInit => StorageInv
  <1> SUFFICES ASSUME ServerInit PROVE StorageInv
    OBVIOUS
  <1>1. Init /\ exec = "none"
    BY DEF ServerInit
  <1>2. ExecInv
    BY <1>1 DEF ExecInv
  <1>3. SealedHold
    BY <1>1 DEF SealedHold, Init, ManagerInit, NewPool, IsSealed, Writable
  <1>4. TailsHold
    BY <1>1 DEF TailsHold, Init
  <1> QED
    BY <1>2, <1>3, <1>4 DEF StorageInv

\* What the storage holds: the KV of every sealed block is that of the prefix it
\* is shared under, and every running request's own KV follows it.
THEOREM StorageInvariant ==
  ASSUME Buckets # {} => CacheBlocks > NumBlocks
  PROVE  ServerSpec => []StorageInv
  <1>1. SchedInv /\ SchedInv' /\ WritesArePrivate /\ StorageInv /\ [ServerNext]_serverVars
          => StorageInv'
    BY StorageNext
  <1>2. ServerSpec => []SchedInv
    BY ServerImplementsScheduler, SchedulerInvariant
  <1>3. ServerSpec => []WritesArePrivate
    BY ServerImplementsScheduler, BatchWritesArePrivate
  <1> QED
    BY <1>1, <1>2, <1>3, StorageInit, PTL DEF ServerSpec

\* Prefix sharing, preemption, failed steps and reuse of blocks never make a
\* request read KV that is not its own context's.  The storage must be larger
\* than the pool when there is a decode graph, whose padding rows write its last
\* block.
THEOREM CacheHolds ==
  ASSUME Buckets # {} => CacheBlocks > NumBlocks
  PROVE  ServerSpec => []CacheHoldsContext
  <1>1. ASSUME SchedInv, StorageInv PROVE CacheHoldsContext
    <2> SUFFICES ASSUME NEW r \in running,
                        NEW p \in 1 .. cached_len[r] + IF Computing(r) THEN Len(InFlight(r)) ELSE 0
                 PROVE  slots[Slot(allocations[r], p - 1)] = SubSeq(Context(r), 1, p)
      BY DEF CacheHoldsContext
    <2>1. cached_len[r] \in Nat /\ Len(InFlight(r)) \in Nat
      BY <1>1, TableLength, ItemOf
    <2>2. Computing(r) => Done(r)
      BY DEF Computing, Done
    <2>3. p \in 1 .. Valid(r)
      BY <2>1, <2>2 DEF Valid
    <2> QED
      BY <1>1, <2>3, ValidHolds DEF StorageInv, TailsHold
  <1>2. ServerSpec => []SchedInv
    BY ServerImplementsScheduler, SchedulerInvariant
  <1> QED
    BY <1>1, <1>2, StorageInvariant, PTL

-----------------------------------------------------------------------------
(***************************************************************************)
(* The metadata of a pass. A list of parts, its index pointers and the     *)
(* flat array are related place by place: a flat array is the only one     *)
(* that holds the parts where the pointers say.                            *)
(***************************************************************************)

\* Induction, for a set.
LEMMA SetInduction ==
  ASSUME NEW P, 0 \in P, \A m \in Nat : m \in P => m + 1 \in P
  PROVE  Nat \subseteq P
  <1> SUFFICES ASSUME Nat \ P # {}
               PROVE  FALSE
    OBVIOUS
  <1>1. IsWellFoundedOn(OpToRel(<, Nat), Nat)
    BY NatLessThanWellFounded
  <1>2. Nat \ P \subseteq Nat
    OBVIOUS
  <1>3. PICK x \in Nat \ P : \A y \in Nat \ P : ~(<<y, x>> \in OpToRel(<, Nat))
    BY <1>1, <1>2, WFMin
  <1>4. x - 1 \in Nat /\ x - 1 < x
    OBVIOUS
  <1>5. <<x - 1, x>> \in OpToRel(<, Nat)
    BY <1>3, <1>4 DEF OpToRel
  <1>6. x - 1 \in P
    BY <1>3, <1>4, <1>5
  <1> QED
    BY <1>4, <1>6

\* Sums of the first i numbers, from 0 up to the length.
SumsOf(lens, n, sums) ==
  sums = [i \in 1 .. n + 1 |-> IF i = 1 THEN 0 ELSE sums[i - 1] + lens[i - 1]]

LEMMA SumsExist ==
  ASSUME NEW lens, NEW n \in Nat
  PROVE  \E sums : SumsOf(lens, n, sums)
  <1> DEFINE P == {m \in Nat : \E sums : SumsOf(lens, m, sums)}
  <1>1. 0 \in P
    <2> DEFINE sums == [i \in 1 .. 1 |-> 0]
    <2>1. sums = [i \in 1 .. 0 + 1 |-> IF i = 1 THEN 0 ELSE sums[i - 1] + lens[i - 1]]
      OBVIOUS
    <2> QED
      BY <2>1 DEF SumsOf
  <1>2. ASSUME NEW m \in Nat, m \in P
        PROVE  m + 1 \in P
    <2>1. PICK sums : SumsOf(lens, m, sums)
      BY <1>2
    <2> DEFINE longer == [i \in 1 .. m + 2 |-> IF i = m + 2 THEN sums[m + 1] + lens[m + 1] ELSE sums[i]]
    <2>2. \A i \in 1 .. m + 1 : sums[i] = IF i = 1 THEN 0 ELSE sums[i - 1] + lens[i - 1]
      BY <2>1 DEF SumsOf
    <2>3. \A i \in 1 .. m + 2 : longer[i] = IF i = 1 THEN 0 ELSE longer[i - 1] + lens[i - 1]
      BY <2>2
    <2>4. longer = [i \in 1 .. m + 2 |-> longer[i]]
      OBVIOUS
    <2> HIDE DEF longer
    <2>5. 1 .. (m + 1) + 1 = 1 .. m + 2
      OBVIOUS
    <2>6. longer = [i \in 1 .. m + 2 |-> IF i = 1 THEN 0 ELSE longer[i - 1] + lens[i - 1]]
      BY <2>3, <2>4
    <2>7. longer = [i \in 1 .. (m + 1) + 1 |-> IF i = 1 THEN 0 ELSE longer[i - 1] + lens[i - 1]]
      BY <2>5, <2>6, Zenon
    <2> QED
      BY <2>7 DEF SumsOf
  <1>3. Nat \subseteq P
    <2> HIDE DEF P
    <2> QED
      BY <1>1, <1>2, SetInduction
  <1> QED
    BY <1>3

LEMMA IndptrIs ==
  ASSUME NEW n \in Nat, NEW lens \in [1 .. n -> Nat]
  PROVE  SumsOf(lens, n, Input!Indptr(lens))
  <1>1. Len(lens) = n
    OBVIOUS
  <1>2. Input!Indptr(lens) = CHOOSE sums : SumsOf(lens, n, sums)
    BY <1>1 DEF Input!Indptr, SumsOf
  <1> QED
    BY <1>2, SumsExist

(***************************************************************************)
(* The index pointers of a list of lengths.                                *)
(***************************************************************************)
Pointers(lens, n) ==
  LET at == Input!Indptr(lens) IN
  /\ at \in [1 .. n + 1 -> Nat] /\ at[1] = 0
  /\ \A i \in 1 .. n : at[i + 1] = at[i] + lens[i]
  /\ \A i, j \in 1 .. n + 1 : i <= j => at[i] <= at[j]

LEMMA IndptrFacts ==
  ASSUME NEW n \in Nat, NEW lens \in [1 .. n -> Nat]
  PROVE  Pointers(lens, n)
  <1>1. PICK at : at = Input!Indptr(lens)
    OBVIOUS
  <1>2. at = [i \in 1 .. n + 1 |-> IF i = 1 THEN 0 ELSE at[i - 1] + lens[i - 1]]
    BY <1>1, IndptrIs DEF SumsOf
  <1>3. DOMAIN at = 1 .. n + 1 /\ at = [i \in 1 .. n + 1 |-> at[i]]
    BY <1>2
  <1>4. at[1] = 0 /\ \A i \in 1 .. n : at[i + 1] = at[i] + lens[i]
    <2>1. at[1] = 0
      BY <1>2
    <2>2. ASSUME NEW i \in 1 .. n PROVE at[i + 1] = at[i] + lens[i]
      <3>1. i + 1 \in 1 .. n + 1 /\ i + 1 # 1 /\ (i + 1) - 1 = i
        OBVIOUS
      <3>2. at[i + 1] = IF i + 1 = 1 THEN 0 ELSE at[(i + 1) - 1] + lens[(i + 1) - 1]
        BY <1>2, <3>1
      <3> QED
        BY <3>1, <3>2
    <2> QED
      BY <2>1, <2>2
  <1> DEFINE P == {m \in Nat : m <= n =>
                     /\ at[m + 1] \in Nat
                     /\ \A i \in 1 .. m + 1 : at[i] \in Nat /\ at[i] <= at[m + 1]}
  <1>5. 0 \in P
    BY <1>4
  <1>6. ASSUME NEW m \in Nat, m \in P
        PROVE  m + 1 \in P
    <2> SUFFICES ASSUME m + 1 <= n
                 PROVE  /\ at[m + 2] \in Nat
                        /\ \A i \in 1 .. m + 2 : at[i] \in Nat /\ at[i] <= at[m + 2]
      OBVIOUS
    <2>1. at[m + 1] \in Nat /\ \A i \in 1 .. m + 1 : at[i] \in Nat /\ at[i] <= at[m + 1]
      BY <1>6
    <2>2. at[m + 2] = at[m + 1] + lens[m + 1] /\ lens[m + 1] \in Nat
      <3>1. m + 1 \in 1 .. n /\ (m + 1) + 1 = m + 2
        OBVIOUS
      <3> QED
        BY <1>4, <3>1
    <2>3. at[m + 2] \in Nat /\ at[m + 1] <= at[m + 2]
      BY <2>1, <2>2
    <2>4. \A i \in 1 .. m + 2 : i \in 1 .. m + 1 \/ i = m + 2
      OBVIOUS
    <2> QED
      BY <2>1, <2>3, <2>4
  <1>7. Nat \subseteq P
    <2> HIDE DEF P
    <2> QED
      BY <1>5, <1>6, SetInduction
  <1>8. \A i \in 1 .. n + 1 : at[i] \in Nat
    <2>1. n \in P
      BY <1>7
    <2> QED
      BY <2>1
  <1>9. \A i, j \in 1 .. n + 1 : i <= j => at[i] <= at[j]
    <2> SUFFICES ASSUME NEW i \in 1 .. n + 1, NEW j \in 1 .. n + 1, i <= j
                 PROVE  at[i] <= at[j]
      OBVIOUS
    <2>1. PICK m \in Nat : m = j - 1 /\ m <= n
      OBVIOUS
    <2>2. at[i] <= at[m + 1]
      BY <1>7, <2>1
    <2> QED
      BY <2>1, <2>2
  <1> QED
    BY <1>1, <1>3, <1>4, <1>8, <1>9 DEF Pointers

\* The lengths of the parts of a list.
Lens(parts, n) == [i \in 1 .. n |-> Len(parts[i])]

\* `flat` holds the n parts one after the other.
Laid(flat, parts, n) ==
  LET at == Input!Indptr(Lens(parts, n)) IN
  /\ flat = [j \in 1 .. at[n + 1] |-> flat[j]]
  /\ \A i \in 1 .. n : \A k \in 1 .. Len(parts[i]) : flat[at[i] + k] = parts[i][k]

\* Every place belongs to a part.
Covered(lens, n, at) ==
  \A j \in 1 .. at[n + 1] : \E i \in 1 .. n : \E k \in 1 .. lens[i] : j = at[i] + k

LEMMA Located ==
  ASSUME NEW n \in Nat, NEW lens \in [1 .. n -> Nat]
  PROVE  Covered(lens, n, Input!Indptr(lens))
  <1> DEFINE at == Input!Indptr(lens)
  <1> HIDE DEF at
  <1> SUFFICES ASSUME NEW j \in 1 .. at[n + 1]
               PROVE  \E i \in 1 .. n : \E k \in 1 .. lens[i] : j = at[i] + k
    BY DEF Covered, at
  <1>1. /\ at \in [1 .. n + 1 -> Nat] /\ at[1] = 0
        /\ \A i \in 1 .. n : at[i + 1] = at[i] + lens[i]
    BY IndptrFacts DEF Pointers, at
  <1> DEFINE Goal == \E i \in 1 .. n : \E k \in 1 .. lens[i] : j = at[i] + k
             P == {m \in Nat : m <= n => Goal \/ j > at[m + 1]}
  <1>2. j \in Nat /\ j > 0
    OBVIOUS
  <1>3. 0 \in P
    BY <1>1, <1>2
  <1>4. ASSUME NEW m \in Nat, m \in P
        PROVE  m + 1 \in P
    <2> SUFFICES ASSUME m + 1 <= n, ~(j > at[m + 2])
                 PROVE  Goal
      OBVIOUS
    <2>1. m + 1 \in 1 .. n /\ (m + 1) + 1 = m + 2 /\ m + 2 \in 1 .. n + 1 /\ m + 1 \in 1 .. n + 1
      OBVIOUS
    <2>2. at[m + 2] = at[m + 1] + lens[m + 1] /\ lens[m + 1] \in Nat
          /\ at[m + 1] \in Nat /\ at[m + 2] \in Nat
      BY <1>1, <2>1
    <2>3. CASE j > at[m + 1]
      <3>1. j - at[m + 1] \in 1 .. lens[m + 1] /\ j = at[m + 1] + (j - at[m + 1])
        BY <1>2, <2>2, <2>3
      <3> QED
        BY <2>1, <3>1
    <2>4. CASE ~(j > at[m + 1])
      BY <1>4, <2>4
    <2> QED
      BY <2>3, <2>4
  <1>5. n \in P
    <2>1. Nat \subseteq P
      <3> HIDE DEF P
      <3> QED
        BY <1>3, <1>4, SetInduction
    <2> QED
      BY <2>1
  <1>6. n + 1 \in 1 .. n + 1 /\ at[n + 1] \in Nat
    BY <1>1
  <1> QED
    BY <1>2, <1>5, <1>6

LEMMA LensType ==
  ASSUME NEW n \in Nat, NEW S, NEW parts \in [1 .. n -> Seq(S)]
  PROVE  /\ Lens(parts, n) \in [1 .. n -> Nat]
         /\ \A i \in 1 .. n : Lens(parts, n)[i] = Len(parts[i]) /\ Len(parts[i]) \in Nat
  BY DEF Lens

\* The list of the parts is unique.
LEMMA LaidUnique ==
  ASSUME NEW n \in Nat, NEW S, NEW parts \in [1 .. n -> Seq(S)], NEW f, NEW g,
         Laid(f, parts, n), Laid(g, parts, n)
  PROVE  f = g
  <1>1. PICK at : at = Input!Indptr(Lens(parts, n))
    OBVIOUS
  <1>2. /\ f = [j \in 1 .. at[n + 1] |-> f[j]] /\ g = [j \in 1 .. at[n + 1] |-> g[j]]
        /\ \A i \in 1 .. n : \A k \in 1 .. Len(parts[i]) :
             f[at[i] + k] = parts[i][k] /\ g[at[i] + k] = parts[i][k]
    BY <1>1 DEF Laid
  <1>3. ASSUME NEW j \in 1 .. at[n + 1] PROVE f[j] = g[j]
    <2>0. Lens(parts, n) \in [1 .. n -> Nat]
      BY LensType
    <2>1. PICK i \in 1 .. n : \E k \in 1 .. Lens(parts, n)[i] : j = at[i] + k
      <3>1. \A p \in 1 .. at[n + 1] : \E i \in 1 .. n : \E k \in 1 .. Lens(parts, n)[i] : p = at[i] + k
        <4>1. Covered(Lens(parts, n), n, at)
          BY <1>1, <2>0, Located
        <4> QED
          BY <4>1 DEF Covered
      <3> QED
        BY <1>3, <3>1
    <2>2. PICK k \in 1 .. Len(parts[i]) : j = at[i] + k
      BY <2>1, LensType
    <2> QED
      BY <1>2, <2>2
  <1> QED
    BY <1>2, <1>3

\* The pointers of a part slice it out.
\* The slice of an array between two pointers.
Slice(f, lens, i) == SubSeq(f, Input!Indptr(lens)[i] + 1, Input!Indptr(lens)[i + 1])

LEMMA LaidSlice ==
  ASSUME NEW n \in Nat, NEW S, NEW parts \in [1 .. n -> Seq(S)], NEW f, Laid(f, parts, n),
         NEW i \in 1 .. n
  PROVE  Slice(f, Lens(parts, n), i) = parts[i]
  <1>1. PICK at : at = Input!Indptr(Lens(parts, n))
    OBVIOUS
  <1>2. PICK l : l = Len(parts[i])
    OBVIOUS
  <1>3. parts[i] \in Seq(S) /\ l \in Nat /\ Lens(parts, n)[i] = l
    BY <1>2, LensType
  <1>4. at[i] \in Nat /\ at[i + 1] = at[i] + l
    <2>1. at \in [1 .. n + 1 -> Nat] /\ at[i + 1] = at[i] + Lens(parts, n)[i]
      BY <1>1, LensType, IndptrFacts DEF Pointers
    <2> QED
      BY <1>3, <2>1
  <1>5. \A k \in 1 .. l : f[at[i] + k] = parts[i][k]
    BY <1>1, <1>2 DEF Laid
  <1>6. \A p \in at[i] + 1 .. at[i + 1] : f[p] \in S
    <2> SUFFICES ASSUME NEW p \in at[i] + 1 .. at[i + 1]
                 PROVE  f[p] \in S
      OBVIOUS
    <2>1. PICK k \in 1 .. l : p = at[i] + k
      <3>1. p - at[i] \in 1 .. l /\ p = at[i] + (p - at[i])
        BY <1>3, <1>4
      <3> QED
        BY <3>1
    <2>2. parts[i][k] \in S
      BY <1>2, <1>3, ElementOfSeq
    <2> QED
      BY <1>5, <2>1, <2>2
  <1> DEFINE slice == SubSeq(f, at[i] + 1, at[i + 1])
  <1>11. at[i] + 1 \in Int /\ at[i + 1] \in Int
    BY <1>3, <1>4
  <1>7. /\ slice \in Seq(S)
        /\ Len(slice) = (IF at[i] + 1 <= at[i + 1] THEN at[i + 1] - (at[i] + 1) + 1 ELSE 0)
        /\ \A k \in 1 .. at[i + 1] - (at[i] + 1) + 1 : slice[k] = f[(at[i] + 1) + k - 1]
    BY <1>6, <1>11, SubSeqProperties, SMT
  <1> HIDE DEF slice
  <1>8. Len(slice) = l
    BY <1>3, <1>4, <1>7
  <1>9. \A k \in 1 .. l : slice[k] = parts[i][k]
    <2> SUFFICES ASSUME NEW k \in 1 .. l PROVE slice[k] = parts[i][k]
      OBVIOUS
    <2>1. k \in 1 .. at[i + 1] - (at[i] + 1) + 1 /\ (at[i] + 1) + k - 1 = at[i] + k
      BY <1>3, <1>4
    <2> QED
      BY <1>5, <1>7, <2>1
  <1>10. slice = parts[i]
    BY <1>2, <1>3, <1>7, <1>8, <1>9, SeqEqual
  <1> QED
    BY <1>1, <1>10 DEF slice, Slice

\* The parts joined so far.
Joined(parts, n, f) ==
  f = [i \in 1 .. n |-> IF i = 1 THEN parts[i] ELSE f[i - 1] \o parts[i]]

LEMMA JoinedExist ==
  ASSUME NEW parts, NEW n \in Nat
  PROVE  \E f : Joined(parts, n, f)
  <1> DEFINE P == {m \in Nat : \E f : Joined(parts, m, f)}
  <1>1. 0 \in P
    <2> DEFINE f == [i \in 1 .. 0 |-> parts[i]]
    <2>1. f = [i \in 1 .. 0 |-> IF i = 1 THEN parts[i] ELSE f[i - 1] \o parts[i]]
      OBVIOUS
    <2> QED
      BY <2>1 DEF Joined
  <1>2. ASSUME NEW m \in Nat, m \in P
        PROVE  m + 1 \in P
    <2>1. PICK f : Joined(parts, m, f)
      BY <1>2
    <2> DEFINE longer == [i \in 1 .. m + 1 |->
                            IF i = m + 1 THEN IF i = 1 THEN parts[i] ELSE f[m] \o parts[i] ELSE f[i]]
    <2>2. \A i \in 1 .. m : f[i] = IF i = 1 THEN parts[i] ELSE f[i - 1] \o parts[i]
      BY <2>1 DEF Joined
    <2>3. \A i \in 1 .. m + 1 : longer[i] = IF i = 1 THEN parts[i] ELSE longer[i - 1] \o parts[i]
      BY <2>2
    <2>4. longer = [i \in 1 .. m + 1 |-> longer[i]]
      OBVIOUS
    <2> HIDE DEF longer
    <2>5. longer = [i \in 1 .. m + 1 |-> IF i = 1 THEN parts[i] ELSE longer[i - 1] \o parts[i]]
      BY <2>3, <2>4
    <2>6. Joined(parts, m + 1, longer)
      BY <2>5 DEF Joined
    <2> QED
      BY <2>6
  <1>3. Nat \subseteq P
    <2> HIDE DEF P
    <2> QED
      BY <1>1, <1>2, SetInduction
  <1> QED
    BY <1>3

LEMMA FlattenLaid ==
  ASSUME NEW n \in Nat, NEW S, NEW parts \in [1 .. n -> Seq(S)]
  PROVE  Laid(Input!FlattenSeq(parts), parts, n)
  <1>1. PICK at : at = Input!Indptr(Lens(parts, n))
    OBVIOUS
  <1>2. /\ at \in [1 .. n + 1 -> Nat] /\ at[1] = 0
        /\ \A i \in 1 .. n : at[i + 1] = at[i] + Len(parts[i])
        /\ \A i, j \in 1 .. n + 1 : i <= j => at[i] <= at[j]
    <2>1. Pointers(Lens(parts, n), n)
      BY LensType, IndptrFacts
    <2> QED
      BY <1>1, <2>1, LensType DEF Pointers
  <1>3. Len(parts) = n
    OBVIOUS
  <1>4. CASE n = 0
    <2>1. Input!FlattenSeq(parts) = parts
      BY <1>3, <1>4 DEF Input!FlattenSeq
    <2>2. parts = [j \in 1 .. at[n + 1] |-> parts[j]]
      BY <1>2, <1>4
    <2> QED
      BY <1>1, <1>4, <2>1, <2>2 DEF Laid
  <1>5. CASE n > 0
    <2>1. PICK f : Joined(parts, n, f) /\ Input!FlattenSeq(parts) = f[n]
      <3>1. Input!FlattenSeq(parts) = (CHOOSE f : Joined(parts, n, f))[n]
        BY <1>3, <1>5 DEF Input!FlattenSeq, Joined
      <3> QED
        BY <3>1, JoinedExist
    <2>2. \A i \in 1 .. n : f[i] = IF i = 1 THEN parts[i] ELSE f[i - 1] \o parts[i]
      BY <2>1 DEF Joined
    <2> DEFINE Good(m) == /\ f[m] \in Seq(S) /\ Len(f[m]) = at[m + 1]
                          /\ \A i \in 1 .. m : \A k \in 1 .. Len(parts[i]) : f[m][at[i] + k] = parts[i][k]
               P == {m \in Nat : m + 1 <= n => Good(m + 1)}
    <2> HIDE DEF Good
    <2>3. 0 \in P
      <3>1. f[1] = parts[1] /\ parts[1] \in Seq(S) /\ Len(parts[1]) \in Nat
        BY <1>5, <2>2
      <3>2. at[2] = Len(parts[1]) /\ at[1] = 0
        <4>1. 1 \in 1 .. n /\ 1 + 1 = 2
          BY <1>5
        <4>2. at[2] = at[1] + Len(parts[1])
          BY <1>2, <4>1
        <4> QED
          BY <1>2, <3>1, <4>2
      <3>3. \A k \in 1 .. Len(parts[1]) : f[1][at[1] + k] = parts[1][k]
        BY <3>1, <3>2
      <3> QED
        <4>1. Good(1)
          BY <3>1, <3>2, <3>3 DEF Good
        <4> QED
          BY <4>1
    <2>4. ASSUME NEW m \in Nat, m \in P
          PROVE  m + 1 \in P
      <3>0. (m + 1) + 1 = m + 2
        OBVIOUS
      <3> SUFFICES ASSUME m + 2 <= n
                   PROVE  Good(m + 2)
        BY <3>0
      <3>1. /\ f[m + 1] \in Seq(S) /\ Len(f[m + 1]) = at[(m + 1) + 1]
            /\ \A i \in 1 .. m + 1 : \A k \in 1 .. Len(parts[i]) : f[m + 1][at[i] + k] = parts[i][k]
        <4>1. Good(m + 1)
          BY <2>4
        <4> QED
          BY <4>1 DEF Good
      <3>2. m + 2 \in 1 .. n /\ m + 2 # 1 /\ (m + 2) - 1 = m + 1 /\ (m + 1) + 1 = m + 2 /\ (m + 2) + 1 = m + 3
            /\ m + 2 \in 1 .. n + 1 /\ m + 3 \in 1 .. n + 1
        OBVIOUS
      <3>3. f[m + 2] = f[m + 1] \o parts[m + 2] /\ parts[m + 2] \in Seq(S)
        BY <2>2, <3>2
      <3>4. f[m + 1] \in Seq(S) /\ Len(f[m + 1]) = at[m + 2]
        BY <3>1, <3>2
      <3>5. /\ f[m + 2] \in Seq(S) /\ Len(f[m + 2]) = at[m + 2] + Len(parts[m + 2])
            /\ \A j \in 1 .. at[m + 2] + Len(parts[m + 2]) :
                 f[m + 2][j] = IF j <= at[m + 2] THEN f[m + 1][j] ELSE parts[m + 2][j - at[m + 2]]
        <4>1. /\ f[m + 1] \o parts[m + 2] \in Seq(S)
              /\ Len(f[m + 1] \o parts[m + 2]) = Len(f[m + 1]) + Len(parts[m + 2])
              /\ \A j \in 1 .. Len(f[m + 1]) + Len(parts[m + 2]) :
                   (f[m + 1] \o parts[m + 2])[j] = IF j <= Len(f[m + 1]) THEN f[m + 1][j]
                                                   ELSE parts[m + 2][j - Len(f[m + 1])]
          BY <3>3, <3>4, ConcatProperties, Zenon
        <4> QED
          BY <3>3, <3>4, <4>1, Zenon
      <3>6. at[m + 3] = at[m + 2] + Len(parts[m + 2]) /\ at[m + 2] \in Nat /\ Len(parts[m + 2]) \in Nat
        BY <1>2, <3>2, <3>3
      <3>7. ASSUME NEW i \in 1 .. m + 2, NEW k \in 1 .. Len(parts[i])
            PROVE  f[m + 2][at[i] + k] = parts[i][k]
        <4>1. CASE i = m + 2
          <5>1. /\ at[m + 2] + k \in 1 .. at[m + 2] + Len(parts[m + 2])
                /\ ~(at[m + 2] + k <= at[m + 2]) /\ (at[m + 2] + k) - at[m + 2] = k
            BY <3>6, <3>7, <4>1
          <5> QED
            BY <3>5, <4>1, <5>1
        <4>2. CASE i # m + 2
          <5>1. i \in 1 .. m + 1 /\ i \in 1 .. n /\ i + 1 \in 1 .. n + 1 /\ i + 1 <= m + 2 /\ i \in 1 .. n + 1
            BY <3>2, <4>2
          <5>2. f[m + 1][at[i] + k] = parts[i][k]
            BY <3>1, <3>7, <5>1
          <5>3. at[i + 1] = at[i] + Len(parts[i]) /\ at[i + 1] <= at[m + 2] /\ at[i] \in Nat
                /\ Len(parts[i]) \in Nat
            <6>1. at[i + 1] <= at[m + 2]
              BY <1>2, <3>2, <5>1
            <6>2. Len(parts[i]) \in Nat
              BY <5>1
            <6>3. at[i] \in Nat /\ at[i + 1] = at[i] + Len(parts[i])
              BY <1>2, <5>1
            <6> QED
              BY <6>1, <6>2, <6>3
          <5>4. at[i] + k \in 1 .. at[m + 2] + Len(parts[m + 2]) /\ at[i] + k <= at[m + 2]
            BY <3>6, <3>7, <5>3
          <5> QED
            BY <3>5, <5>2, <5>4
        <4> QED
          BY <4>1, <4>2
      <3> QED
        BY <3>2, <3>5, <3>6, <3>7 DEF Good
    <2>5. Good(n)
      <3>1. Nat \subseteq P
        <4> HIDE DEF P
        <4> QED
          BY <2>3, <2>4, SetInduction
      <3>2. n - 1 \in Nat /\ (n - 1) + 1 = n /\ (n - 1) + 1 <= n
        BY <1>5
      <3>3. n - 1 \in P
        BY <3>1, <3>2, Zenon
      <3> QED
        BY <3>2, <3>3
    <2>6. f[n] = [j \in 1 .. at[n + 1] |-> f[n][j]]
      BY <2>5 DEF Good
    <2> QED
      BY <1>1, <2>1, <2>5, <2>6 DEF Good, Laid
  <1> QED
    BY <1>4, <1>5

\* An array longer than the n parts, with the first m of them in place.
PartLaid(array, parts, n, m) ==
  LET at == Input!Indptr(Lens(parts, n)) IN
  /\ array = [j \in 1 .. at[n + 1] + 1 |-> array[j]]
  /\ \A i \in 1 .. m : \A k \in 1 .. Len(parts[i]) : array[at[i] + k] = parts[i][k]

PutKeeps(parts, n, m, array) ==
  PartLaid(Input!Put(array, Input!Indptr(Lens(parts, n))[m + 1], parts[m + 1]), parts, n, m + 1)

LEMMA InsideNew ==
  ASSUME NEW a \in Nat, NEW l \in Nat, NEW t \in Nat, a + l <= t, NEW k \in 1 .. l
  PROVE  a + k \in 1 .. t + 1 /\ (a + k) - a = k
  OBVIOUS

LEMMA OutsideNew ==
  ASSUME NEW a \in Nat, NEW l \in Nat, NEW b \in Nat, NEW new \in Nat, NEW t \in Nat,
         a + l <= b, b + new <= t, NEW k \in 1 .. l
  PROVE  a + k \in 1 .. t + 1 /\ ~((a + k) - b \in 1 .. new)
  OBVIOUS

LEMMA PutLaid ==
  ASSUME NEW n \in Nat, NEW S, NEW parts \in [1 .. n -> Seq(S)], NEW m \in Nat, m + 1 <= n,
         NEW array, PartLaid(array, parts, n, m)
  PROVE  PutKeeps(parts, n, m, array)
  <1>1. PICK at : at = Input!Indptr(Lens(parts, n))
    OBVIOUS
  <1>2. /\ at \in [1 .. n + 1 -> Nat] /\ at[1] = 0
        /\ \A i \in 1 .. n : at[i + 1] = at[i] + Len(parts[i])
        /\ \A i, j \in 1 .. n + 1 : i <= j => at[i] <= at[j]
    <2>1. Pointers(Lens(parts, n), n)
      BY LensType, IndptrFacts
    <2> QED
      BY <1>1, <2>1, LensType DEF Pointers
  <1>3. PICK new : new = parts[m + 1]
    OBVIOUS
  <1>4. m + 1 \in 1 .. n /\ m + 1 \in 1 .. n + 1 /\ n + 1 \in 1 .. n + 1 /\ m + 2 \in 1 .. n + 1
        /\ (m + 1) + 1 = m + 2
    OBVIOUS
  <1>5. new \in Seq(S) /\ Len(new) \in Nat /\ DOMAIN new = 1 .. Len(new)
    BY <1>3, <1>4
  <1>6. at[m + 1] \in Nat /\ at[n + 1] \in Nat /\ at[m + 2] = at[m + 1] + Len(new)
        /\ at[m + 2] <= at[n + 1]
    BY <1>2, <1>3, <1>4
  <1> DEFINE filled == Input!Put(array, at[m + 1], new)
  <1>7. array = [j \in 1 .. at[n + 1] + 1 |-> array[j]]
    BY <1>1 DEF PartLaid
  <1>8. filled = [j \in 1 .. at[n + 1] + 1 |->
                    IF j - at[m + 1] \in 1 .. Len(new) THEN new[j - at[m + 1]] ELSE array[j]]
    <2>1. DOMAIN array = 1 .. at[n + 1] + 1
      BY <1>7
    <2> QED
      BY <1>5, <2>1 DEF Input!Put
  <1> HIDE DEF filled
  <1>9. filled = [j \in 1 .. at[n + 1] + 1 |-> filled[j]]
    BY <1>8
  <1>10. ASSUME NEW i \in 1 .. m + 1, NEW k \in 1 .. Len(parts[i])
         PROVE  filled[at[i] + k] = parts[i][k]
    <2>1. CASE i = m + 1
      <3>1. /\ at[m + 1] + k \in 1 .. at[n + 1] + 1
            /\ (at[m + 1] + k) - at[m + 1] = k /\ k \in 1 .. Len(new)
        <4>1. k \in 1 .. Len(new)
          BY <1>3, <1>10, <2>1
        <4>2. at[m + 1] + Len(new) <= at[n + 1]
          BY <1>6
        <4> QED
          BY <1>5, <1>6, <4>1, <4>2, InsideNew
      <3> QED
        BY <1>3, <1>8, <2>1, <3>1
    <2>2. CASE i # m + 1
      <3>1. i \in 1 .. m /\ i \in 1 .. n /\ i + 1 \in 1 .. n + 1 /\ i + 1 <= m + 1 /\ i \in 1 .. n + 1
        BY <1>4, <2>2
      <3>2. array[at[i] + k] = parts[i][k]
        BY <1>1, <1>10, <3>1 DEF PartLaid
      <3>3. Len(parts[i]) \in Nat
        BY <3>1
      <3>4. at[i + 1] <= at[m + 1]
        BY <1>2, <1>4, <3>1
      <3>5. at[i + 1] = at[i] + Len(parts[i]) /\ at[i] \in Nat
        BY <1>2, <3>1
      <3>6. /\ at[i] + k \in 1 .. at[n + 1] + 1
            /\ ~((at[i] + k) - at[m + 1] \in 1 .. Len(new))
        <4>1. at[i] + Len(parts[i]) <= at[m + 1] /\ at[m + 1] + Len(new) <= at[n + 1]
          BY <1>6, <3>4, <3>5
        <4> QED
          BY <1>5, <1>6, <1>10, <3>3, <3>5, <4>1, OutsideNew
      <3> QED
        BY <1>8, <3>2, <3>6
    <2> QED
      BY <2>1, <2>2
  <1>11. PartLaid(filled, parts, n, m + 1)
    BY <1>1, <1>9, <1>10 DEF PartLaid
  <1> QED
    BY <1>1, <1>3, <1>11 DEF PutKeeps, filled

\* What is sliced from the array when all parts are in place.
LEMMA SlicedLaid ==
  ASSUME NEW n \in Nat, NEW S, NEW parts \in [1 .. n -> Seq(S)],
         NEW array, PartLaid(array, parts, n, n)
  PROVE  Laid(SubSeq(array, 1, Input!Indptr(Lens(parts, n))[n + 1]), parts, n)
  <1>1. PICK at : at = Input!Indptr(Lens(parts, n))
    OBVIOUS
  <1>2. /\ at \in [1 .. n + 1 -> Nat] /\ at[1] = 0
        /\ \A i \in 1 .. n : at[i + 1] = at[i] + Len(parts[i])
        /\ \A i, j \in 1 .. n + 1 : i <= j => at[i] <= at[j]
    <2>1. Pointers(Lens(parts, n), n)
      BY LensType, IndptrFacts
    <2> QED
      BY <1>1, <2>1, LensType DEF Pointers
  <1>3. PICK total \in Nat : total = at[n + 1]
    BY <1>2
  <1>4. PICK T : T = {array[j] : j \in 1 .. total}
    OBVIOUS
  <1> DEFINE slice == SubSeq(array, 1, total)
  <1>5. /\ slice \in Seq(T) /\ Len(slice) = (IF 1 <= total THEN total - 1 + 1 ELSE 0)
        /\ \A j \in 1 .. total - 1 + 1 : slice[j] = array[1 + j - 1]
    <2>1. 1 \in Int /\ total \in Int /\ \A j \in 1 .. total : array[j] \in T
      BY <1>4
    <2> QED
      BY <2>1, SubSeqProperties, SMT
  <1> HIDE DEF slice
  <1>6. Len(slice) = total /\ total - 1 + 1 = total
    BY <1>5
  <1>7. slice = [j \in 1 .. total |-> slice[j]]
    BY <1>5, <1>6
  <1>8. \A j \in 1 .. total : slice[j] = array[j]
    BY <1>5, <1>6
  <1>9. ASSUME NEW i \in 1 .. n, NEW k \in 1 .. Len(parts[i])
        PROVE  slice[at[i] + k] = parts[i][k]
    <2>1. i + 1 \in 1 .. n + 1 /\ n + 1 \in 1 .. n + 1 /\ i + 1 <= n + 1 /\ i \in 1 .. n + 1
      OBVIOUS
    <2>2. Len(parts[i]) \in Nat
      OBVIOUS
    <2>3. at[i + 1] <= at[n + 1]
      BY <1>2, <2>1
    <2>4. at[i + 1] = at[i] + Len(parts[i]) /\ at[i] \in Nat
      BY <1>2, <2>1
    <2>5. at[i] + k \in 1 .. total
      BY <1>3, <1>9, <2>2, <2>3, <2>4
    <2>6. array[at[i] + k] = parts[i][k]
      BY <1>1, <1>9 DEF PartLaid
    <2> QED
      BY <1>8, <2>5, <2>6
  <1>10. Laid(slice, parts, n)
    BY <1>1, <1>3, <1>7, <1>9 DEF Laid
  <1> QED
    BY <1>1, <1>3, <1>10 DEF slice

\* The requests filled in so far.
Filling(items, n, first, after) ==
  after = [i \in 0 .. n |-> IF i = 0 THEN first ELSE Input!FillRequest(after[i - 1], items[i])]

LEMMA FillingExists ==
  ASSUME NEW items, NEW first, NEW n \in Nat
  PROVE  \E after : Filling(items, n, first, after)
  <1> DEFINE P == {m \in Nat : \E after : Filling(items, m, first, after)}
  <1>1. 0 \in P
    <2> DEFINE after == [i \in 0 .. 0 |-> first]
    <2>1. after = [i \in 0 .. 0 |-> IF i = 0 THEN first ELSE Input!FillRequest(after[i - 1], items[i])]
      OBVIOUS
    <2>2. Filling(items, 0, first, after)
      BY <2>1 DEF Filling
    <2> QED
      BY <2>2
  <1>2. ASSUME NEW m \in Nat, m \in P
        PROVE  m + 1 \in P
    <2>1. PICK after : Filling(items, m, first, after)
      BY <1>2
    <2> DEFINE longer == [i \in 0 .. m + 1 |->
                            IF i = m + 1 THEN Input!FillRequest(after[m], items[m + 1]) ELSE after[i]]
    <2>2. \A i \in 0 .. m : after[i] = IF i = 0 THEN first ELSE Input!FillRequest(after[i - 1], items[i])
      BY <2>1 DEF Filling
    <2>3. \A i \in 0 .. m + 1 : longer[i] = IF i = 0 THEN first
                                            ELSE Input!FillRequest(longer[i - 1], items[i])
      BY <2>2
    <2>4. longer = [i \in 0 .. m + 1 |-> longer[i]]
      OBVIOUS
    <2> HIDE DEF longer
    <2>5. longer = [i \in 0 .. m + 1 |-> IF i = 0 THEN first
                                         ELSE Input!FillRequest(longer[i - 1], items[i])]
      BY <2>3, <2>4
    <2>6. Filling(items, m + 1, first, longer)
      BY <2>5 DEF Filling
    <2> QED
      BY <2>6
  <1>3. Nat \subseteq P
    <2> HIDE DEF P
    <2> QED
      BY <1>1, <1>2, SetInduction
  <1> QED
    BY <1>3

-----------------------------------------------------------------------------
(* The arrays of ModelInput as lists of parts, one for each request.       *)

\* The arrays of a pass, request by request.
InputParts(items)    == [i \in DOMAIN items |-> items[i].input]
PositionParts(items) == [i \in DOMAIN items |-> Input!QueryPositions(items[i])]
SlotParts(items)     == [i \in DOMAIN items |->
                           [t \in DOMAIN items[i].input |->
                              Input!SlotOf(items[i].block_table, Input!QueryPositions(items[i])[t])]]
PageParts(items)     == [i \in DOMAIN items |->
                           SubSeq(items[i].block_table, 1, Input!Pages(Input!ContextLen(items[i])))]

TokenLens(items) == [i \in DOMAIN items |-> Len(items[i].input)]
PageLens(items)  == [i \in DOMAIN items |-> Input!Pages(Input!ContextLen(items[i]))]

\* What the scheduler promises of an item: its table has the pages of its context.
ItemPlanned(item) ==
  /\ item.input \in Seq(Token \cup Int) /\ Len(item.input) \in Nat \ {0}
  /\ item.start \in Nat
  /\ item.block_table \in Seq(Int)
  /\ Len(item.block_table) = Input!Pages(Input!ContextLen(item))

Planned(items, n) ==
  /\ n \in Nat /\ items = [i \in 1 .. n |-> items[i]]
  /\ DOMAIN items = 1 .. n /\ Len(items) = n
  /\ \A i \in 1 .. n : ItemPlanned(items[i])

PartsTyped(items, n) ==
  /\ InputParts(items) \in [1 .. n -> Seq(Token \cup Int)]
  /\ PositionParts(items) \in [1 .. n -> Seq(Int)]
  /\ SlotParts(items) \in [1 .. n -> Seq(Int)]
  /\ PageParts(items) \in [1 .. n -> Seq(Int)]
  /\ \A i \in 1 .. n : PageParts(items)[i] = items[i].block_table
  /\ TokenLens(items) \in [1 .. n -> Nat] /\ PageLens(items) \in [1 .. n -> Nat]
  /\ Lens(InputParts(items), n) = TokenLens(items)
  /\ Lens(PositionParts(items), n) = TokenLens(items)
  /\ Lens(SlotParts(items), n) = TokenLens(items)
  /\ Lens(PageParts(items), n) = PageLens(items)

LEMMA PagesOfTable ==
  ASSUME NEW item, ItemPlanned(item)
  PROVE  /\ Input!ContextLen(item) \in Nat /\ item.start < Input!ContextLen(item)
         /\ Input!ContextLen(item) = item.start + Len(item.input)
         /\ Len(item.block_table) = RequiredBlocks(Input!ContextLen(item))
         /\ Len(item.block_table) \in Nat \ {0}
         /\ SubSeq(item.block_table, 1, Input!Pages(Input!ContextLen(item))) = item.block_table
  <1>1. /\ item.start \in Nat /\ Len(item.input) \in Nat /\ Len(item.input) > 0
        /\ item.block_table \in Seq(Int)
        /\ Len(item.block_table) = Input!Pages(Input!ContextLen(item))
    BY DEF ItemPlanned
  <1>2. /\ Input!ContextLen(item) \in Nat /\ item.start < Input!ContextLen(item)
        /\ Input!ContextLen(item) = item.start + Len(item.input)
    BY <1>1 DEF Input!ContextLen
  <1>3. Input!Pages(Input!ContextLen(item)) = RequiredBlocks(Input!ContextLen(item))
    BY DEF Input!Pages, RequiredBlocks
  <1>4. Len(item.block_table) \in Nat \ {0}
    <2>1. Input!ContextLen(item) # 0
      BY <1>1, <1>2
    <2> QED
      BY <1>1, <1>2, <1>3, <2>1, RequiredBlocksFacts
  <1>5. SubSeq(item.block_table, 1, Len(item.block_table)) = item.block_table
    BY <1>1, SubSeqFull
  <1> QED
    BY <1>1, <1>2, <1>3, <1>4, <1>5

\* The slot of a position of the context.
LEMMA SlotOfPosition ==
  ASSUME NEW item, ItemPlanned(item), NEW p \in 0 .. Input!ContextLen(item) - 1
  PROVE  /\ p \div BlockLen + 1 \in 1 .. Len(item.block_table)
         /\ Input!SlotOf(item.block_table, p) \in Int
  <1>1. Input!ContextLen(item) \in Nat /\ Len(item.block_table) = RequiredBlocks(Input!ContextLen(item))
        /\ item.block_table \in Seq(Int)
    BY PagesOfTable DEF ItemPlanned
  <1>2. p \in Nat /\ p < Input!ContextLen(item)
    BY <1>1
  <1>3. p \div BlockLen + 1 \in 1 .. Len(item.block_table)
    BY <1>1, <1>2, BlockOfPosition
  <1>4. PICK b : b = item.block_table[p \div BlockLen + 1]
    OBVIOUS
  <1>5. b \in Int
    BY <1>1, <1>3, <1>4, ElementOfSeq
  <1>6. b * BlockLen \in Int /\ p % BlockLen \in Int
    BY <1>2, <1>5, BlockLenAssumption
  <1>7. b * BlockLen + (p % BlockLen) \in Int
    BY <1>6
  <1> QED
    BY <1>3, <1>4, <1>7 DEF Input!SlotOf

LEMMA PositionsAre ==
  ASSUME NEW item, ItemPlanned(item)
  PROVE  /\ DOMAIN item.input = 1 .. Len(item.input)
         /\ Input!QueryPositions(item) = [t \in 1 .. Len(item.input) |-> item.start + t - 1]
         /\ \A t \in 1 .. Len(item.input) :
              Input!QueryPositions(item)[t] \in 0 .. Input!ContextLen(item) - 1
  <1>1. DOMAIN item.input = 1 .. Len(item.input) /\ item.start \in Nat /\ Len(item.input) \in Nat
    BY DEF ItemPlanned
  <1>2. Input!QueryPositions(item) = [t \in 1 .. Len(item.input) |-> item.start + t - 1]
    BY <1>1 DEF Input!QueryPositions
  <1>3. Input!ContextLen(item) = item.start + Len(item.input)
    BY PagesOfTable
  <1> QED
    BY <1>1, <1>2, <1>3

LEMMA PartsAreTyped ==
  ASSUME NEW items, NEW n, Planned(items, n)
  PROVE  PartsTyped(items, n)
  <1>1. n \in Nat /\ DOMAIN items = 1 .. n /\ \A i \in 1 .. n : ItemPlanned(items[i])
    BY DEF Planned
  <1>2. ASSUME NEW i \in 1 .. n
        PROVE  /\ InputParts(items)[i] \in Seq(Token \cup Int) /\ Len(InputParts(items)[i]) = TokenLens(items)[i]
               /\ PositionParts(items)[i] \in Seq(Int) /\ Len(PositionParts(items)[i]) = TokenLens(items)[i]
               /\ SlotParts(items)[i] \in Seq(Int) /\ Len(SlotParts(items)[i]) = TokenLens(items)[i]
               /\ PageParts(items)[i] \in Seq(Int) /\ Len(PageParts(items)[i]) = PageLens(items)[i]
               /\ TokenLens(items)[i] \in Nat /\ PageLens(items)[i] \in Nat
               /\ PageParts(items)[i] = items[i].block_table
    <2>1. ItemPlanned(items[i]) /\ i \in DOMAIN items
      BY <1>1, <1>2
    <2>2. TokenLens(items)[i] = Len(items[i].input) /\ Len(items[i].input) \in Nat
          /\ PageLens(items)[i] = Len(items[i].block_table) /\ items[i].block_table \in Seq(Int)
          /\ InputParts(items)[i] = items[i].input /\ items[i].input \in Seq(Token \cup Int)
      BY <2>1 DEF TokenLens, PageLens, ItemPlanned, InputParts
    <2>3. PageParts(items)[i] = items[i].block_table
      BY <2>1, PagesOfTable DEF PageParts
    <2>4. PositionParts(items)[i] \in Seq(Int) /\ Len(PositionParts(items)[i]) = Len(items[i].input)
      <3>1. PositionParts(items)[i] = [t \in 1 .. Len(items[i].input) |-> items[i].start + t - 1]
        BY <2>1, PositionsAre DEF PositionParts
      <3>2. items[i].start \in Nat
        BY <2>1 DEF ItemPlanned
      <3> QED
        BY <2>2, <3>1, <3>2
    <2>5. SlotParts(items)[i] \in Seq(Int) /\ Len(SlotParts(items)[i]) = Len(items[i].input)
      <3>1. SlotParts(items)[i] = [t \in 1 .. Len(items[i].input) |->
                Input!SlotOf(items[i].block_table, Input!QueryPositions(items[i])[t])]
        BY <2>1, PositionsAre DEF SlotParts
      <3>2. \A t \in 1 .. Len(items[i].input) :
              Input!SlotOf(items[i].block_table, Input!QueryPositions(items[i])[t]) \in Int
        BY <2>1, PositionsAre, SlotOfPosition
      <3> QED
        BY <2>2, <3>1, <3>2
    <2> QED
      BY <2>2, <2>3, <2>4, <2>5
  <1>3. DOMAIN InputParts(items) = 1 .. n /\ DOMAIN PositionParts(items) = 1 .. n
        /\ DOMAIN SlotParts(items) = 1 .. n /\ DOMAIN PageParts(items) = 1 .. n
        /\ DOMAIN TokenLens(items) = 1 .. n /\ DOMAIN PageLens(items) = 1 .. n
    BY <1>1 DEF InputParts, PositionParts, SlotParts, PageParts, TokenLens, PageLens
  <1>4. /\ InputParts(items) = [i \in 1 .. n |-> InputParts(items)[i]]
        /\ PositionParts(items) = [i \in 1 .. n |-> PositionParts(items)[i]]
        /\ SlotParts(items) = [i \in 1 .. n |-> SlotParts(items)[i]]
        /\ PageParts(items) = [i \in 1 .. n |-> PageParts(items)[i]]
        /\ TokenLens(items) = [i \in 1 .. n |-> TokenLens(items)[i]]
        /\ PageLens(items) = [i \in 1 .. n |-> PageLens(items)[i]]
    BY <1>1 DEF InputParts, PositionParts, SlotParts, PageParts, TokenLens, PageLens
  <1>5. /\ InputParts(items) \in [1 .. n -> Seq(Token \cup Int)] /\ PositionParts(items) \in [1 .. n -> Seq(Int)]
        /\ SlotParts(items) \in [1 .. n -> Seq(Int)] /\ PageParts(items) \in [1 .. n -> Seq(Int)]
        /\ TokenLens(items) \in [1 .. n -> Nat] /\ PageLens(items) \in [1 .. n -> Nat]
    BY <1>2, <1>4
  <1>6. /\ Lens(InputParts(items), n) = [i \in 1 .. n |-> TokenLens(items)[i]]
        /\ Lens(PositionParts(items), n) = [i \in 1 .. n |-> TokenLens(items)[i]]
        /\ Lens(SlotParts(items), n) = [i \in 1 .. n |-> TokenLens(items)[i]]
        /\ Lens(PageParts(items), n) = [i \in 1 .. n |-> PageLens(items)[i]]
    BY <1>2 DEF Lens
  <1> QED
    BY <1>2, <1>4, <1>5, <1>6 DEF PartsTyped

\* What the pool has filled in of the first m requests.
Filled(items, n, m, filled) ==
  /\ PartLaid(filled.tokens, InputParts(items), n, m)
  /\ PartLaid(filled.position, PositionParts(items), n, m)
  /\ PartLaid(filled.slot_mapping, SlotParts(items), n, m)
  /\ PartLaid(filled.kv_indices, PageParts(items), n, m)
  /\ filled.query_start_loc = [i \in 1 .. m + 1 |-> Input!Indptr(TokenLens(items))[i]]
  /\ filled.kv_indptr = [i \in 1 .. m + 1 |-> Input!Indptr(PageLens(items))[i]]
  /\ filled.offset = Input!Indptr(TokenLens(items))[m + 1]
  /\ filled.nnz = Input!Indptr(PageLens(items))[m + 1]

LEMMA AppendPointer ==
  ASSUME NEW m \in Nat, NEW at, \A i \in 1 .. m + 2 : at[i] \in Nat
  PROVE  Append([i \in 1 .. m + 1 |-> at[i]], at[m + 2]) = [i \in 1 .. (m + 1) + 1 |-> at[i]]
  <1>1. (m + 1) + 1 = m + 2 /\ m + 2 \in 1 .. m + 2
    OBVIOUS
  <1>2. [i \in 1 .. m + 1 |-> at[i]] \in Seq(Nat) /\ at[m + 2] \in Nat
    BY <1>1
  <1>3. Append([i \in 1 .. m + 1 |-> at[i]], at[m + 2]) \in Seq(Nat)
    BY <1>2
  <1> DEFINE s == Append([i \in 1 .. m + 1 |-> at[i]], at[m + 2])
             t == [i \in 1 .. m + 2 |-> at[i]]
  <1>4. Len(s) = m + 2 /\ \A i \in 1 .. m + 2 : s[i] = at[i]
    BY <1>2
  <1>5. t \in Seq(Nat) /\ Len(t) = m + 2 /\ \A i \in 1 .. m + 2 : t[i] = at[i]
    OBVIOUS
  <1> HIDE DEF s, t
  <1>6. s \in Seq(Nat)
    BY <1>3 DEF s
  <1>7. s = t
    BY <1>4, <1>5, <1>6, SeqEqual
  <1> QED
    BY <1>1, <1>7 DEF s, t

LEMMA LastPointer ==
  ASSUME NEW m \in Nat, NEW at
  PROVE  Input!Last([i \in 1 .. m + 1 |-> at[i]]) = at[m + 1]
  <1>1. Len([i \in 1 .. m + 1 |-> at[i]]) = m + 1 /\ m + 1 \in 1 .. m + 1
    OBVIOUS
  <1> QED
    BY <1>1 DEF Input!Last

\* The four lists that a request adds.
LEMMA RequestParts ==
  ASSUME NEW items, NEW n, Planned(items, n), NEW i \in 1 .. n
  PROVE  /\ items[i].input = InputParts(items)[i]
         /\ Input!QueryPositions(items[i]) = PositionParts(items)[i]
         /\ [t \in 1 .. Len(items[i].input) |-> Input!SlotOf(items[i].block_table, items[i].start + t - 1)]
              = SlotParts(items)[i]
         /\ SubSeq(items[i].block_table, 1, Input!Pages(Input!ContextLen(items[i]))) = PageParts(items)[i]
         /\ Len(items[i].input) = TokenLens(items)[i]
         /\ Input!Pages(Input!ContextLen(items[i])) = PageLens(items)[i]
  <1>1. ItemPlanned(items[i]) /\ i \in DOMAIN items
    BY DEF Planned
  <1>2. [t \in 1 .. Len(items[i].input) |-> Input!SlotOf(items[i].block_table, items[i].start + t - 1)]
              = SlotParts(items)[i]
    <2>1. SlotParts(items)[i] = [t \in 1 .. Len(items[i].input) |->
                Input!SlotOf(items[i].block_table, Input!QueryPositions(items[i])[t])]
      BY <1>1, PositionsAre DEF SlotParts
    <2>2. \A t \in 1 .. Len(items[i].input) : Input!QueryPositions(items[i])[t] = items[i].start + t - 1
      BY <1>1, PositionsAre
    <2> QED
      BY <2>1, <2>2
  <1> QED
    BY <1>1, <1>2 DEF InputParts, PositionParts, PageParts, TokenLens, PageLens

LEMMA FillRequestStep ==
  ASSUME NEW items, NEW n, Planned(items, n), NEW m \in Nat, m + 1 <= n,
         NEW filled, Filled(items, n, m, filled)
  PROVE  Filled(items, n, m + 1, Input!FillRequest(filled, items[m + 1]))
  <1>1. n \in Nat /\ m + 1 \in 1 .. n /\ (m + 1) + 1 = m + 2 /\ PartsTyped(items, n)
    BY PartsAreTyped DEF Planned
  <1>2. PICK at : at = Input!Indptr(TokenLens(items))
    OBVIOUS
  <1>3. PICK pg : pg = Input!Indptr(PageLens(items))
    OBVIOUS
  <1>4. /\ at \in [1 .. n + 1 -> Nat] /\ at[m + 2] = at[m + 1] + TokenLens(items)[m + 1]
        /\ pg \in [1 .. n + 1 -> Nat] /\ pg[m + 2] = pg[m + 1] + PageLens(items)[m + 1]
    <2>1. Pointers(TokenLens(items), n) /\ Pointers(PageLens(items), n)
      BY <1>1, IndptrFacts DEF PartsTyped
    <2> QED
      BY <1>1, <1>2, <1>3, <2>1 DEF Pointers
  <1> DEFINE item == items[m + 1]
             next == Input!FillRequest(filled, item)
  <1>5. /\ item.input = InputParts(items)[m + 1]
        /\ Input!QueryPositions(item) = PositionParts(items)[m + 1]
        /\ [t \in 1 .. Len(item.input) |-> Input!SlotOf(item.block_table, item.start + t - 1)]
             = SlotParts(items)[m + 1]
        /\ SubSeq(item.block_table, 1, Input!Pages(Input!ContextLen(item))) = PageParts(items)[m + 1]
        /\ Len(item.input) = TokenLens(items)[m + 1]
        /\ Input!Pages(Input!ContextLen(item)) = PageLens(items)[m + 1]
    BY <1>1, RequestParts
  <1>6. /\ filled.query_start_loc = [i \in 1 .. m + 1 |-> at[i]]
        /\ filled.kv_indptr = [i \in 1 .. m + 1 |-> pg[i]]
        /\ filled.offset = at[m + 1] /\ filled.nnz = pg[m + 1]
    BY <1>2, <1>3 DEF Filled
  <1>7. /\ next.tokens = Input!Put(filled.tokens, at[m + 1], InputParts(items)[m + 1])
        /\ next.position = Input!Put(filled.position, at[m + 1], PositionParts(items)[m + 1])
        /\ next.slot_mapping = Input!Put(filled.slot_mapping, at[m + 1], SlotParts(items)[m + 1])
        /\ next.kv_indices = Input!Put(filled.kv_indices, pg[m + 1], PageParts(items)[m + 1])
    BY <1>5, <1>6 DEF Input!FillRequest
  <1>8. /\ next.offset = at[m + 2] /\ next.nnz = pg[m + 2]
        /\ next.query_start_loc = Append([i \in 1 .. m + 1 |-> at[i]], at[m + 2])
        /\ next.kv_indptr = Append([i \in 1 .. m + 1 |-> pg[i]], pg[m + 2])
    <2>1. Input!Last(filled.query_start_loc) = at[m + 1]
      BY <1>6, LastPointer
    <2>2. /\ next.offset = filled.offset + Len(item.input)
          /\ next.nnz = filled.nnz + Input!Pages(Input!ContextLen(item))
          /\ next.query_start_loc
               = Append(filled.query_start_loc, Input!Last(filled.query_start_loc) + Len(item.input))
          /\ next.kv_indptr
               = Append(filled.kv_indptr, filled.nnz + Input!Pages(Input!ContextLen(item)))
      BY DEF Input!FillRequest
    <2> HIDE DEF item, next
    <2> QED
      BY <1>4, <1>5, <1>6, <2>1, <2>2
  <1> HIDE DEF item, next
  <1>9. /\ next.query_start_loc = [i \in 1 .. (m + 1) + 1 |-> at[i]]
        /\ next.kv_indptr = [i \in 1 .. (m + 1) + 1 |-> pg[i]]
    <2>1. \A i \in 1 .. m + 2 : at[i] \in Nat /\ pg[i] \in Nat
      <3>1. \A i \in 1 .. m + 2 : i \in 1 .. n + 1
        BY <1>1
      <3> QED
        BY <1>4, <3>1
    <2>2. Append([i \in 1 .. m + 1 |-> at[i]], at[m + 2]) = [i \in 1 .. (m + 1) + 1 |-> at[i]]
      BY <2>1, AppendPointer
    <2>3. Append([i \in 1 .. m + 1 |-> pg[i]], pg[m + 2]) = [i \in 1 .. (m + 1) + 1 |-> pg[i]]
      BY <2>1, AppendPointer
    <2> QED
      BY <1>8, <2>2, <2>3
  <1>10. PartLaid(next.tokens, InputParts(items), n, m + 1)
    <2>1. PutKeeps(InputParts(items), n, m, filled.tokens)
      BY <1>1, PutLaid DEF PartsTyped, Filled
    <2> QED
      BY <1>1, <1>2, <1>7, <2>1 DEF PutKeeps, PartsTyped
  <1>11. PartLaid(next.position, PositionParts(items), n, m + 1)
    <2>1. PutKeeps(PositionParts(items), n, m, filled.position)
      BY <1>1, PutLaid DEF PartsTyped, Filled
    <2> QED
      BY <1>1, <1>2, <1>7, <2>1 DEF PutKeeps, PartsTyped
  <1>12. PartLaid(next.slot_mapping, SlotParts(items), n, m + 1)
    <2>1. PutKeeps(SlotParts(items), n, m, filled.slot_mapping)
      BY <1>1, PutLaid DEF PartsTyped, Filled
    <2> QED
      BY <1>1, <1>2, <1>7, <2>1 DEF PutKeeps, PartsTyped
  <1>13. PartLaid(next.kv_indices, PageParts(items), n, m + 1)
    <2>1. PutKeeps(PageParts(items), n, m, filled.kv_indices)
      BY <1>1, PutLaid DEF PartsTyped, Filled
    <2> QED
      BY <1>1, <1>3, <1>7, <2>1 DEF PutKeeps, PartsTyped
  <1>14. Filled(items, n, m + 1, next)
    BY <1>1, <1>2, <1>3, <1>8, <1>9, <1>10, <1>11, <1>12, <1>13 DEF Filled
  <1> QED
    BY <1>14 DEF next, item

\* The arrays before the first request, with what an earlier batch left.
FirstFill(tokens, nnz) ==
  [tokens |-> Input!Left(tokens + 1), position |-> Input!Left(tokens + 1),
   slot_mapping |-> Input!Left(tokens + 1), kv_indices |-> Input!Left(nnz + 1),
   query_start_loc |-> <<0>>, kv_indptr |-> <<0>>, offset |-> 0, nnz |-> 0]

LEMMA LeftLaid ==
  ASSUME NEW n, NEW parts, NEW k, k = Input!Indptr(Lens(parts, n))[n + 1]
  PROVE  PartLaid(Input!Left(k + 1), parts, n, 0)
  <1>1. Input!Left(k + 1) = [j \in 1 .. k + 1 |-> Input!Left(k + 1)[j]]
    BY DEF Input!Left
  <1>2. \A i \in 1 .. 0 : \A j \in 1 .. Len(parts[i]) :
          Input!Left(k + 1)[Input!Indptr(Lens(parts, n))[i] + j] = parts[i][j]
    OBVIOUS
  <1> QED
    BY <1>1, <1>2 DEF PartLaid

LEMMA FirstFilled ==
  ASSUME NEW items, NEW n, Planned(items, n)
  PROVE  Filled(items, n, 0, FirstFill(Input!Total(TokenLens(items)), Input!Total(PageLens(items))))
  <1>1. n \in Nat /\ PartsTyped(items, n)
    BY PartsAreTyped DEF Planned
  <1>2. PICK at : at = Input!Indptr(TokenLens(items))
    OBVIOUS
  <1>3. PICK pg : pg = Input!Indptr(PageLens(items))
    OBVIOUS
  <1>4. at \in [1 .. n + 1 -> Nat] /\ at[1] = 0 /\ pg \in [1 .. n + 1 -> Nat] /\ pg[1] = 0
    <2>1. Pointers(TokenLens(items), n) /\ Pointers(PageLens(items), n)
      BY <1>1, IndptrFacts DEF PartsTyped
    <2> QED
      BY <1>2, <1>3, <2>1 DEF Pointers
  <1>5. Input!Total(TokenLens(items)) = at[n + 1] /\ Input!Total(PageLens(items)) = pg[n + 1]
    <2>1. Len(TokenLens(items)) = n /\ Len(PageLens(items)) = n
      BY <1>1 DEF PartsTyped
    <2> QED
      BY <1>2, <1>3, <2>1 DEF Input!Total
  <1> DEFINE first == FirstFill(at[n + 1], pg[n + 1])
  <1>6. /\ at[n + 1] = Input!Indptr(Lens(InputParts(items), n))[n + 1]
        /\ at[n + 1] = Input!Indptr(Lens(PositionParts(items), n))[n + 1]
        /\ at[n + 1] = Input!Indptr(Lens(SlotParts(items), n))[n + 1]
        /\ pg[n + 1] = Input!Indptr(Lens(PageParts(items), n))[n + 1]
    BY <1>1, <1>2, <1>3 DEF PartsTyped
  <1>7. /\ first.tokens = Input!Left(at[n + 1] + 1) /\ first.position = Input!Left(at[n + 1] + 1)
        /\ first.slot_mapping = Input!Left(at[n + 1] + 1) /\ first.kv_indices = Input!Left(pg[n + 1] + 1)
        /\ first.query_start_loc = <<0>> /\ first.kv_indptr = <<0>> /\ first.offset = 0 /\ first.nnz = 0
    BY DEF FirstFill
  <1> HIDE DEF first
  <1>8. PartLaid(first.tokens, InputParts(items), n, 0)
    BY <1>6, <1>7, LeftLaid
  <1>9. PartLaid(first.position, PositionParts(items), n, 0)
    BY <1>6, <1>7, LeftLaid
  <1>10. PartLaid(first.slot_mapping, SlotParts(items), n, 0)
    BY <1>6, <1>7, LeftLaid
  <1>11. PartLaid(first.kv_indices, PageParts(items), n, 0)
    BY <1>6, <1>7, LeftLaid
  <1>12. ASSUME NEW s, s[1] = 0 PROVE <<0>> = [i \in 1 .. 0 + 1 |-> s[i]]
    BY <1>12
  <1>13. Filled(items, n, 0, first)
    BY <1>2, <1>3, <1>4, <1>7, <1>8, <1>9, <1>10, <1>11, <1>12 DEF Filled
  <1> QED
    BY <1>5, <1>13 DEF first

\* What the pool hands out of its filled arrays.
PoolInput(items, filled) ==
  [tokens          |-> SubSeq(filled.tokens, 1, Input!Total(TokenLens(items))),
   position        |-> SubSeq(filled.position, 1, Input!Total(TokenLens(items))),
   slot_mapping    |-> SubSeq(filled.slot_mapping, 1, Input!Total(TokenLens(items))),
   query_start_loc |-> filled.query_start_loc,
   context_lens    |-> [i \in DOMAIN items |-> Input!ContextLen(items[i])],
   block_tables    |-> [i \in DOMAIN items |->
                          Input!PaddedTo(items[i].block_table, Input!Widest(items), -1)]]

PoolCsr(items, filled) ==
  [indptr    |-> filled.kv_indptr,
   indices   |-> SubSeq(filled.kv_indices, 1, Input!Total(PageLens(items))),
   last_page |-> [i \in DOMAIN items |-> Input!LastPageLen(Input!ContextLen(items[i]))]]

LEMMA PoolFilled ==
  ASSUME NEW items, NEW n, Planned(items, n)
  PROVE  \E filled :
           /\ Filled(items, n, n, filled)
           /\ Input!PoolBuild(items) =
                [input |-> PoolInput(items, filled), csr |-> PoolCsr(items, filled)]
  <1>1. n \in Nat /\ Len(items) = n /\ PartsTyped(items, n)
    BY PartsAreTyped DEF Planned
  <1>2. PICK first : first = FirstFill(Input!Total(TokenLens(items)), Input!Total(PageLens(items)))
    OBVIOUS
  <1> DEFINE after == CHOOSE after : Filling(items, n, first, after)
             filled == after[n]
  <1>3. Filling(items, n, first, after)
    BY <1>1, FillingExists
  <1>4. Input!PoolBuild(items) =
                [input |-> PoolInput(items, filled), csr |-> PoolCsr(items, filled)]
    BY <1>1, <1>2, Zenon
       DEF Input!PoolBuild, Filling, FirstFill, TokenLens, PageLens, PoolInput, PoolCsr
  <1> HIDE DEF after
  <1>5. \A i \in 0 .. n :
          after[i] = IF i = 0 THEN first ELSE Input!FillRequest(after[i - 1], items[i])
    BY <1>3 DEF Filling
  <1> DEFINE P == {m \in Nat : m <= n => Filled(items, n, m, after[m])}
  <1>6. 0 \in P
    <2>1. after[0] = first
      BY <1>1, <1>5
    <2> QED
      BY <1>2, <2>1, FirstFilled
  <1>7. ASSUME NEW m \in Nat, m \in P
        PROVE  m + 1 \in P
    <2> SUFFICES ASSUME m + 1 <= n
                 PROVE  Filled(items, n, m + 1, after[m + 1])
      OBVIOUS
    <2>1. Filled(items, n, m, after[m])
      BY <1>1, <1>7
    <2>2. m + 1 \in 0 .. n /\ m + 1 # 0 /\ (m + 1) - 1 = m
      BY <1>1
    <2>3. after[m + 1] = Input!FillRequest(after[m], items[m + 1])
      BY <1>5, <2>2
    <2> QED
      BY <2>1, <2>3, FillRequestStep
  <1>8. n \in P
    <2>1. Nat \subseteq P
      <3> HIDE DEF P
      <3> QED
        BY <1>6, <1>7, SetInduction
    <2> QED
      BY <1>1, <2>1
  <1>9. Filled(items, n, n, filled)
    BY <1>1, <1>8
  <1> HIDE DEF filled
  <1> QED
    BY <1>4, <1>9

\* The widest table is as wide as each.
LEMMA LargestExists ==
  ASSUME NEW n \in Nat, NEW lens \in [1 .. n -> Nat], n # 0
  PROVE  \E i \in 1 .. n : \A j \in 1 .. n : lens[i] >= lens[j]
  <1> DEFINE P == {m \in Nat : m + 1 <= n =>
                     \E i \in 1 .. m + 1 : \A j \in 1 .. m + 1 : lens[i] >= lens[j]}
  <1>1. 0 \in P
    <2>1. lens[1] >= lens[1]
      OBVIOUS
    <2> QED
      BY <2>1
  <1>2. ASSUME NEW m \in Nat, m \in P
        PROVE  m + 1 \in P
    <2>0. (m + 1) + 1 = m + 2
      OBVIOUS
    <2> SUFFICES ASSUME m + 2 <= n
                 PROVE  \E i \in 1 .. m + 2 : \A j \in 1 .. m + 2 : lens[i] >= lens[j]
      BY <2>0
    <2>1. PICK i \in 1 .. m + 1 : \A j \in 1 .. m + 1 : lens[i] >= lens[j]
      BY <1>2
    <2>2. i \in 1 .. m + 2 /\ m + 2 \in 1 .. m + 2 /\ lens[i] \in Nat /\ lens[m + 2] \in Nat
          /\ \A j \in 1 .. m + 2 : lens[j] \in Nat /\ (j \in 1 .. m + 1 \/ j = m + 2)
      OBVIOUS
    <2>3. CASE lens[i] >= lens[m + 2]
      BY <2>1, <2>2, <2>3
    <2>4. CASE ~(lens[i] >= lens[m + 2])
      <3>1. \A j \in 1 .. m + 2 : lens[m + 2] >= lens[j]
        BY <2>1, <2>2, <2>4
      <3> QED
        BY <2>2, <3>1
    <2> QED
      BY <2>3, <2>4
  <1>3. Nat \subseteq P
    <2> HIDE DEF P
    <2> QED
      BY <1>1, <1>2, SetInduction
  <1>4. n - 1 \in Nat /\ (n - 1) + 1 = n /\ (n - 1) + 1 <= n
    OBVIOUS
  <1>5. n - 1 \in P
    BY <1>3, <1>4, Zenon
  <1> QED
    BY <1>4, <1>5

LEMMA WidestBounds ==
  ASSUME NEW items, NEW n, Planned(items, n), NEW i \in 1 .. n
  PROVE  Input!Widest(items) \in Nat /\ Len(items[i].block_table) <= Input!Widest(items)
  <1> DEFINE lens == [j \in 1 .. n |-> Len(items[j].block_table)]
             L == {Len(items[j].block_table) : j \in DOMAIN items}
  <1>1. n \in Nat /\ n # 0 /\ DOMAIN items = 1 .. n
    BY DEF Planned
  <1>2. lens \in [1 .. n -> Nat]
    <2>1. \A j \in 1 .. n : Len(items[j].block_table) \in Nat
      BY PagesOfTable DEF Planned
    <2> QED
      BY <2>1
  <1>3. PICK k \in 1 .. n : \A j \in 1 .. n : lens[k] >= lens[j]
    BY <1>1, <1>2, LargestExists
  <1>4. lens[k] \in L /\ \A y \in L : lens[k] >= y /\ L \subseteq Nat
    BY <1>1, <1>2, <1>3
  <1>5. Input!Widest(items) = CHOOSE x \in L : \A y \in L : x >= y
    BY Zenon DEF Input!Widest, Input!Max
  <1>6. Input!Widest(items) \in L /\ \A y \in L : Input!Widest(items) >= y
    BY <1>4, <1>5
  <1>7. Len(items[i].block_table) \in L
    BY <1>1
  <1> QED
    BY <1>4, <1>6, <1>7

\* A padded table starts with the table.
LEMMA PaddedTable ==
  ASSUME NEW table \in Seq(Int), NEW width \in Nat, Len(table) <= width, NEW fill
  PROVE  SubSeq(Input!PaddedTo(table, width, fill), 1, Len(table)) = table
  <1> DEFINE padded == Input!PaddedTo(table, width, fill)
  <1>1. Len(table) \in Nat /\ \A j \in 1 .. Len(table) : padded[j] = table[j] /\ table[j] \in Int
    <2>1. padded = [j \in 1 .. width |-> IF j <= Len(table) THEN table[j] ELSE fill]
      BY DEF Input!PaddedTo
    <2> QED
      BY <2>1
  <1> HIDE DEF padded
  <1>2. PICK l \in Nat : l = Len(table)
    BY <1>1
  <1> DEFINE slice == SubSeq(padded, 1, l)
  <1>3. /\ slice \in Seq(Int) /\ Len(slice) = (IF 1 <= l THEN l - 1 + 1 ELSE 0)
        /\ \A j \in 1 .. l - 1 + 1 : slice[j] = padded[1 + j - 1]
    <2>1. 1 \in Int /\ l \in Int /\ \A j \in 1 .. l : padded[j] \in Int
      BY <1>1, <1>2
    <2> QED
      BY <2>1, SubSeqProperties, SMT
  <1> HIDE DEF slice
  <1>4. Len(slice) = Len(table) /\ \A j \in 1 .. Len(slice) : slice[j] = table[j]
    BY <1>1, <1>2, <1>3
  <1>5. slice = table
    BY <1>3, <1>4, SeqEqual
  <1> QED
    BY <1>2, <1>5 DEF slice, padded

LEMMA DivUnique ==
  ASSUME NEW x \in Nat, NEW q \in Nat, q * BlockLen <= x, x < (q + 1) * BlockLen
  PROVE  x \div BlockLen = q
  <1>1. PICK d \in Nat : d = x \div BlockLen /\ d * BlockLen <= x /\ x < (d + 1) * BlockLen
    BY BlockLenAssumption
  <1>2. PICK B \in Nat : B = BlockLen /\ B > 0
    BY BlockLenAssumption
  <1>3. \A a, b \in Nat : a < b => (a + 1) * B <= b * B
    BY <1>2
  <1>4. ~(d < q) /\ ~(q < d)
    BY <1>1, <1>2, <1>3
  <1> QED
    BY <1>1, <1>4

\* The full pages and the last one make up the context.
LEMMA PagesMakeUp ==
  ASSUME NEW c \in Nat, c > 0
  PROVE  (Input!Pages(c) - 1) * BlockLen + Input!LastPageLen(c) = c
  <1>1. PICK B \in Nat : B = BlockLen /\ B > 0
    BY BlockLenAssumption
  <1>2. PICK a \in Nat : a = c \div BlockLen
    BY BlockLenAssumption
  <1>3. PICK r \in Nat : r = c % BlockLen
    BY BlockLenAssumption
  <1>4. c = a * BlockLen + r /\ r < BlockLen
    BY <1>2, <1>3, BlockLenAssumption
  <1>5. c + BlockLen - 1 \in Nat /\ BlockLen \in Nat /\ a * BlockLen \in Nat
    BY BlockLenAssumption
  <1>6. \A q \in Nat : (q + 1) * BlockLen = q * BlockLen + BlockLen
    BY <1>5
  <1>7. CASE r = 0
    <2>1. a * BlockLen <= c + BlockLen - 1 /\ c + BlockLen - 1 < (a + 1) * BlockLen
      BY <1>1, <1>4, <1>5, <1>6, <1>7
    <2>2. Input!Pages(c) = a
      BY <1>5, <2>1, DivUnique DEF Input!Pages
    <2>3. Input!LastPageLen(c) = BlockLen
      BY <1>3, <1>7 DEF Input!LastPageLen
    <2>4. (a - 1) * BlockLen = a * BlockLen - BlockLen
      BY <1>5, Linear
    <2> QED
      BY <1>4, <1>5, <1>7, <2>2, <2>3, <2>4
  <1>8. CASE r # 0
    <2>1. (a + 1) * BlockLen <= c + BlockLen - 1 /\ c + BlockLen - 1 < ((a + 1) + 1) * BlockLen
      <3>1. ((a + 1) + 1) * BlockLen = (a + 1) * BlockLen + BlockLen
        BY <1>6
      <3> QED
        BY <1>1, <1>4, <1>5, <1>6, <1>8, <3>1
    <2>2. Input!Pages(c) = a + 1
      BY <1>5, <2>1, DivUnique DEF Input!Pages
    <2>3. Input!LastPageLen(c) = r
      BY <1>3, <1>8 DEF Input!LastPageLen
    <2> QED
      BY <1>4, <1>5, <2>2, <2>3
  <1> QED
    BY <1>7, <1>8

\* The CSR lists of a batch, from the plan.
CsrOf(items) ==
  [indptr    |-> Input!Indptr(PageLens(items)),
   indices   |-> Input!FlattenSeq(PageParts(items)),
   last_page |-> [i \in DOMAIN items |-> Input!LastPageLen(Input!ContextLen(items[i]))]]

ContextLens(items) == [i \in DOMAIN items |-> Input!ContextLen(items[i])]

WideTables(items, width) == [i \in DOMAIN items |-> Input!PaddedTo(items[i].block_table, width, -1)]

\* The pool's list of all parts is the flattened one.
LEMMA SlicedIsFlat ==
  ASSUME NEW n \in Nat, NEW S, NEW parts \in [1 .. n -> Seq(S)],
         NEW array, PartLaid(array, parts, n, n)
  PROVE  SubSeq(array, 1, Input!Indptr(Lens(parts, n))[n + 1]) = Input!FlattenSeq(parts)
  <1>1. Laid(SubSeq(array, 1, Input!Indptr(Lens(parts, n))[n + 1]), parts, n)
    BY SlicedLaid
  <1>2. Laid(Input!FlattenSeq(parts), parts, n)
    BY FlattenLaid
  <1> QED
    BY <1>1, <1>2, LaidUnique

LEMMA PointersAre ==
  ASSUME NEW n \in Nat, NEW lens \in [1 .. n -> Nat]
  PROVE  /\ [i \in 1 .. n + 1 |-> Input!Indptr(lens)[i]] = Input!Indptr(lens)
         /\ Input!Total(lens) = Input!Indptr(lens)[n + 1]
  <1>1. Input!Indptr(lens) \in [1 .. n + 1 -> Nat]
    BY IndptrFacts DEF Pointers
  <1>2. Len(lens) = n
    OBVIOUS
  <1> QED
    BY <1>1, <1>2 DEF Input!Total

\* The arrays the pool refills are those of the plan.
LEMMA PoolBuilds ==
  ASSUME NEW items, NEW n, Planned(items, n)
  PROVE  /\ Input!PoolBuild(items).input = Input!FromPlan(items)
         /\ Input!PoolBuild(items).csr = CsrOf(items)
  <1>1. n \in Nat /\ DOMAIN items = 1 .. n /\ PartsTyped(items, n)
    BY PartsAreTyped DEF Planned
  <1>2. PICK filled :
           /\ Filled(items, n, n, filled)
           /\ Input!PoolBuild(items) =
                [input |-> PoolInput(items, filled), csr |-> PoolCsr(items, filled)]
    BY PoolFilled, Zenon
  <1>3. /\ Input!Total(TokenLens(items)) = Input!Indptr(TokenLens(items))[n + 1]
        /\ Input!Total(PageLens(items)) = Input!Indptr(PageLens(items))[n + 1]
        /\ [i \in 1 .. n + 1 |-> Input!Indptr(TokenLens(items))[i]] = Input!Indptr(TokenLens(items))
        /\ [i \in 1 .. n + 1 |-> Input!Indptr(PageLens(items))[i]] = Input!Indptr(PageLens(items))
    BY <1>1, PointersAre DEF PartsTyped
  <1>4. SubSeq(filled.tokens, 1, Input!Total(TokenLens(items))) = Input!FlattenSeq(InputParts(items))
    <2>1. PartLaid(filled.tokens, InputParts(items), n, n)
      BY <1>2 DEF Filled
    <2>2. SubSeq(filled.tokens, 1, Input!Indptr(Lens(InputParts(items), n))[n + 1])
            = Input!FlattenSeq(InputParts(items))
      BY <1>1, <2>1, SlicedIsFlat DEF PartsTyped
    <2> QED
      BY <1>1, <1>3, <2>2 DEF PartsTyped
  <1>5. SubSeq(filled.position, 1, Input!Total(TokenLens(items))) = Input!FlattenSeq(PositionParts(items))
    <2>1. PartLaid(filled.position, PositionParts(items), n, n)
      BY <1>2 DEF Filled
    <2>2. SubSeq(filled.position, 1, Input!Indptr(Lens(PositionParts(items), n))[n + 1])
            = Input!FlattenSeq(PositionParts(items))
      BY <1>1, <2>1, SlicedIsFlat DEF PartsTyped
    <2> QED
      BY <1>1, <1>3, <2>2 DEF PartsTyped
  <1>6. SubSeq(filled.slot_mapping, 1, Input!Total(TokenLens(items))) = Input!FlattenSeq(SlotParts(items))
    <2>1. PartLaid(filled.slot_mapping, SlotParts(items), n, n)
      BY <1>2 DEF Filled
    <2>2. SubSeq(filled.slot_mapping, 1, Input!Indptr(Lens(SlotParts(items), n))[n + 1])
            = Input!FlattenSeq(SlotParts(items))
      BY <1>1, <2>1, SlicedIsFlat DEF PartsTyped
    <2> QED
      BY <1>1, <1>3, <2>2 DEF PartsTyped
  <1>7. SubSeq(filled.kv_indices, 1, Input!Total(PageLens(items))) = Input!FlattenSeq(PageParts(items))
    <2>1. PartLaid(filled.kv_indices, PageParts(items), n, n)
      BY <1>2 DEF Filled
    <2>2. SubSeq(filled.kv_indices, 1, Input!Indptr(Lens(PageParts(items), n))[n + 1])
            = Input!FlattenSeq(PageParts(items))
      BY <1>1, <2>1, SlicedIsFlat DEF PartsTyped
    <2> QED
      BY <1>1, <1>3, <2>2 DEF PartsTyped
  <1>8. /\ filled.query_start_loc = Input!Indptr(TokenLens(items))
        /\ filled.kv_indptr = Input!Indptr(PageLens(items))
    BY <1>2, <1>3 DEF Filled
  <1>9. Input!PoolBuild(items).csr = CsrOf(items)
    <2>1. Input!PoolBuild(items).csr = PoolCsr(items, filled)
      BY <1>2
    <2>2. PoolCsr(items, filled) = CsrOf(items)
      BY <1>7, <1>8, Zenon DEF CsrOf, PoolCsr
    <2> QED
      BY <2>1, <2>2
  <1>10. Input!FromPlan(items) =
           [tokens          |-> Input!FlattenSeq(InputParts(items)),
            position        |-> Input!FlattenSeq(PositionParts(items)),
            slot_mapping    |-> Input!FlattenSeq(SlotParts(items)),
            query_start_loc |-> Input!Indptr(TokenLens(items)),
            context_lens    |-> [i \in DOMAIN items |-> Input!ContextLen(items[i])],
            block_tables    |-> [i \in DOMAIN items |->
                                   Input!PaddedTo(items[i].block_table, Input!Widest(items), -1)]]
    BY Zenon DEF Input!FromPlan, InputParts, PositionParts, SlotParts, TokenLens
  <1>11. Input!PoolBuild(items).input = Input!FromPlan(items)
    <2>1. Input!PoolBuild(items).input = PoolInput(items, filled)
      BY <1>2
    <2>2. PoolInput(items, filled) = Input!FromPlan(items)
      BY <1>4, <1>5, <1>6, <1>8, <1>10, Zenon DEF PoolInput
    <2> QED
      BY <2>1, <2>2
  <1> QED
    BY <1>9, <1>11

\* The lists compacted from padded tables, however wide.
LEMMA CompactedCsr ==
  ASSUME NEW items, NEW n, Planned(items, n),
         NEW width \in Nat, \A i \in 1 .. n : Len(items[i].block_table) <= width
  PROVE  Input!BuildCsr(WideTables(items, width), ContextLens(items)) = CsrOf(items)
  <1>1. DOMAIN items = 1 .. n /\ \A i \in 1 .. n : ItemPlanned(items[i])
    BY DEF Planned
  <1> DEFINE tables == WideTables(items, width)
             context == ContextLens(items)
  <1>2. DOMAIN tables = 1 .. n /\ DOMAIN context = 1 .. n
        /\ \A i \in 1 .. n : /\ tables[i] = Input!PaddedTo(items[i].block_table, width, -1)
                             /\ context[i] = Input!ContextLen(items[i])
    BY <1>1 DEF WideTables, ContextLens
  <1> HIDE DEF tables, context
  <1>3. [i \in DOMAIN context |-> Input!Pages(context[i])] = PageLens(items)
    BY <1>1, <1>2 DEF PageLens
  <1>4. [i \in DOMAIN tables |-> SubSeq(tables[i], 1, Input!Pages(context[i]))] = PageParts(items)
    <2>1. ASSUME NEW i \in 1 .. n
          PROVE  SubSeq(tables[i], 1, Input!Pages(context[i]))
                   = SubSeq(items[i].block_table, 1, Input!Pages(Input!ContextLen(items[i])))
      <3>1. /\ items[i].block_table \in Seq(Int)
            /\ Len(items[i].block_table) = Input!Pages(Input!ContextLen(items[i]))
        BY <1>1 DEF ItemPlanned
      <3>2. SubSeq(Input!PaddedTo(items[i].block_table, width, -1), 1, Len(items[i].block_table))
              = items[i].block_table
        BY <3>1, PaddedTable
      <3>3. SubSeq(items[i].block_table, 1, Input!Pages(Input!ContextLen(items[i]))) = items[i].block_table
        BY <1>1, PagesOfTable
      <3> QED
        BY <1>2, <3>1, <3>2, <3>3
    <2> QED
      BY <1>1, <1>2, <2>1 DEF PageParts
  <1>5. [i \in DOMAIN context |-> Input!LastPageLen(context[i])]
          = [i \in DOMAIN items |-> Input!LastPageLen(Input!ContextLen(items[i]))]
    BY <1>1, <1>2
  <1>6. Input!BuildCsr(tables, context) = CsrOf(items)
    BY <1>3, <1>4, <1>5, Zenon DEF Input!BuildCsr, CsrOf
  <1> QED
    BY <1>6 DEF tables, context

\* The attention of a request reads the slots of its context.
LEMMA CsrReads ==
  ASSUME NEW items, NEW n, Planned(items, n), NEW i \in 1 .. n
  PROVE  Input!CsrSlots(CsrOf(items), i) = Input!ContextSlots(items[i])
  <1>1. n \in Nat /\ DOMAIN items = 1 .. n /\ PartsTyped(items, n) /\ ItemPlanned(items[i])
    BY PartsAreTyped DEF Planned
  <1> DEFINE csr == CsrOf(items)
             pages == SubSeq(csr.indices, csr.indptr[i] + 1, csr.indptr[i + 1])
  <1>2. pages = items[i].block_table
    <2>1. PageParts(items) \in [1 .. n -> Seq(Int)]
      BY <1>1 DEF PartsTyped
    <2>2. Laid(Input!FlattenSeq(PageParts(items)), PageParts(items), n)
      BY <1>1, <2>1, FlattenLaid
    <2>3. Slice(Input!FlattenSeq(PageParts(items)), Lens(PageParts(items), n), i) = PageParts(items)[i]
      BY <1>1, <2>1, <2>2, LaidSlice
    <2>4. csr.indices = Input!FlattenSeq(PageParts(items)) /\ csr.indptr = Input!Indptr(PageLens(items))
      BY DEF CsrOf
    <2>5. Lens(PageParts(items), n) = PageLens(items) /\ PageParts(items)[i] = items[i].block_table
      BY <1>1 DEF PartsTyped
    <2> QED
      BY <2>3, <2>4, <2>5 DEF Slice
  <1>3. csr.last_page[i] = Input!LastPageLen(Input!ContextLen(items[i]))
    BY <1>1 DEF CsrOf
  <1>4. (Len(pages) - 1) * BlockLen + csr.last_page[i] = Input!ContextLen(items[i])
    <2>1. /\ Input!ContextLen(items[i]) \in Nat /\ items[i].start < Input!ContextLen(items[i])
          /\ items[i].start \in Nat
          /\ Len(items[i].block_table) = Input!Pages(Input!ContextLen(items[i]))
      BY <1>1, PagesOfTable DEF ItemPlanned
    <2>2. Input!ContextLen(items[i]) > 0
      BY <2>1
    <2>3. (Input!Pages(Input!ContextLen(items[i])) - 1) * BlockLen
             + Input!LastPageLen(Input!ContextLen(items[i])) = Input!ContextLen(items[i])
      BY <2>1, <2>2, PagesMakeUp
    <2> HIDE DEF pages, csr
    <2> QED
      BY <1>2, <1>3, <2>1, <2>3
  <1>5. Input!CsrSlots(csr, i)
          = [p \in 1 .. (Len(pages) - 1) * BlockLen + csr.last_page[i] |-> Input!SlotOf(pages, p - 1)]
    BY DEF Input!CsrSlots
  <1>6. Input!ContextSlots(items[i])
          = [p \in 1 .. Input!ContextLen(items[i]) |-> Input!SlotOf(items[i].block_table, p - 1)]
    BY DEF Input!ContextSlots
  <1> HIDE DEF pages, csr
  <1>7. Input!CsrSlots(csr, i) = Input!ContextSlots(items[i])
    BY <1>2, <1>4, <1>5, <1>6, Zenon
  <1> QED
    BY <1>7 DEF csr

\* The pass writes the last slots of the context.
LEMMA PassWrites ==
  ASSUME NEW items, NEW n, Planned(items, n), NEW i \in 1 .. n
  PROVE  LET in == Input!FromPlan(items)
             context == Input!ContextSlots(items[i])
         IN SubSeq(in.slot_mapping, in.query_start_loc[i] + 1, in.query_start_loc[i + 1])
              = SubSeq(context, items[i].start + 1, Len(context))
  <1>1. n \in Nat /\ DOMAIN items = 1 .. n /\ PartsTyped(items, n) /\ ItemPlanned(items[i])
    BY PartsAreTyped DEF Planned
  <1> DEFINE in == Input!FromPlan(items)
             context == Input!ContextSlots(items[i])
             l == Len(items[i].input)
             start == items[i].start
  <1>2. SubSeq(in.slot_mapping, in.query_start_loc[i] + 1, in.query_start_loc[i + 1]) = SlotParts(items)[i]
    <2>1. SlotParts(items) \in [1 .. n -> Seq(Int)]
      BY <1>1 DEF PartsTyped
    <2>2. Laid(Input!FlattenSeq(SlotParts(items)), SlotParts(items), n)
      BY <1>1, <2>1, FlattenLaid
    <2>3. Slice(Input!FlattenSeq(SlotParts(items)), Lens(SlotParts(items), n), i) = SlotParts(items)[i]
      BY <1>1, <2>1, <2>2, LaidSlice
    <2>4. /\ in.slot_mapping = Input!FlattenSeq(SlotParts(items))
          /\ in.query_start_loc = Input!Indptr(TokenLens(items))
      BY DEF Input!FromPlan, SlotParts, TokenLens
    <2>5. Lens(SlotParts(items), n) = TokenLens(items)
      BY <1>1 DEF PartsTyped
    <2> QED
      BY <2>3, <2>4, <2>5 DEF Slice
  <1>3. /\ start \in Nat /\ l \in Nat /\ l > 0 /\ Input!ContextLen(items[i]) = start + l
    BY <1>1, PagesOfTable DEF ItemPlanned
  <1>4. SlotParts(items)[i] = [t \in 1 .. l |-> Input!SlotOf(items[i].block_table, start + t - 1)]
    BY RequestParts
  <1>5. context = [p \in 1 .. start + l |-> Input!SlotOf(items[i].block_table, p - 1)]
    BY <1>3 DEF Input!ContextSlots
  <1>6. \A p \in 1 .. start + l : Input!SlotOf(items[i].block_table, p - 1) \in Int
    <2>1. \A p \in 1 .. start + l : p - 1 \in 0 .. Input!ContextLen(items[i]) - 1
      BY <1>3
    <2> QED
      BY <1>1, <2>1, SlotOfPosition
  <1> HIDE DEF in, context, l, start
  <1>7. Len(context) = start + l /\ \A p \in 1 .. start + l : context[p] \in Int
    BY <1>3, <1>5, <1>6
  <1> DEFINE slice == SubSeq(context, start + 1, Len(context))
  <1>8. /\ slice \in Seq(Int)
        /\ Len(slice) = (IF start + 1 <= start + l THEN (start + l) - (start + 1) + 1 ELSE 0)
        /\ \A k \in 1 .. (start + l) - (start + 1) + 1 : slice[k] = context[(start + 1) + k - 1]
    <2>1. start + 1 \in Int /\ start + l \in Int /\ \A p \in start + 1 .. start + l : context[p] \in Int
      BY <1>3, <1>7
    <2> QED
      BY <1>7, <2>1, SubSeqProperties, SMT
  <1> HIDE DEF slice
  <1>9. Len(slice) = l /\ \A k \in 1 .. l : slice[k] = context[start + k]
    <2>1. (start + l) - (start + 1) + 1 = l /\ start + 1 <= start + l
          /\ \A k \in 1 .. l : (start + 1) + k - 1 = start + k
      BY <1>3
    <2> QED
      BY <1>8, <2>1
  <1>10. ASSUME NEW k \in 1 .. l PROVE slice[k] = SlotParts(items)[i][k]
    <2>1. start + k \in 1 .. start + l
      BY <1>3
    <2>2. context[start + k] = Input!SlotOf(items[i].block_table, start + k - 1)
      <3>1. PICK q : q = start + k
        OBVIOUS
      <3>2. context[q] = Input!SlotOf(items[i].block_table, q - 1)
        BY <1>5, <2>1, <3>1
      <3> QED
        BY <1>3, <3>1, <3>2
    <2>3. SlotParts(items)[i][k] = Input!SlotOf(items[i].block_table, start + k - 1)
      BY <1>4, Zenon
    <2> QED
      BY <1>9, <2>2, <2>3
  <1>11. slice = SlotParts(items)[i]
    <2>1. SlotParts(items)[i] \in Seq(Int) /\ Len(SlotParts(items)[i]) = l
      <3>1. SlotParts(items)[i] \in Seq(Int)
        BY <1>1 DEF PartsTyped
      <3> QED
        BY <1>3, <1>4, <3>1
    <2> QED
      BY <1>8, <1>9, <1>10, <2>1, SeqEqual
  <1> QED
    BY <1>2, <1>11 DEF in, context, start, slice

-----------------------------------------------------------------------------
(* The rows of a decode graph: the batch with items for the padding rows.  *)

\* A padding row of a decode graph, as an item: one token in the dummy page.
PadRow(dummy) == [input |-> <<0>>, start |-> 0, block_table |-> <<dummy>>]

GraphRows(items, n, size, dummy) == [i \in 1 .. size |-> IF i <= n THEN items[i] ELSE PadRow(dummy)]

LEMMA OnePage == Input!Pages(1) = 1 /\ Input!LastPageLen(1) = 1
  <1>1. PICK B \in Nat : B = BlockLen /\ B > 0
    BY BlockLenAssumption
  <1>2. 1 + B - 1 = B /\ 1 * B <= B /\ B < (1 + 1) * B
    BY <1>1
  <1>3. B \div B = 1
    BY <1>1, <1>2, DivUnique
  <1>4. 1 % B = IF B = 1 THEN 0 ELSE 1
    <2>1. CASE B = 1
      BY <2>1
    <2>2. CASE B # 1
      BY <1>1, <2>2
    <2> QED
      BY <2>1, <2>2
  <1>5. Input!Pages(1) = 1
    BY <1>1, <1>2, <1>3 DEF Input!Pages
  <1>6. Input!LastPageLen(1) = 1
    BY <1>1, <1>4 DEF Input!LastPageLen
  <1> QED
    BY <1>5, <1>6

LEMMA PadRowIs ==
  ASSUME NEW dummy \in Nat
  PROVE  /\ ItemPlanned(PadRow(dummy))
         /\ Input!ContextLen(PadRow(dummy)) = 1
         /\ PadRow(dummy).block_table = <<dummy>>
         /\ Input!ContextSlots(PadRow(dummy)) = <<dummy * BlockLen>>
  <1> DEFINE row == PadRow(dummy)
  <1>1. row.input = <<0>> /\ row.start = 0 /\ row.block_table = <<dummy>>
    BY DEF PadRow
  <1> HIDE DEF row
  <1>2. Len(<<0>>) = 1 /\ Len(<<dummy>>) = 1 /\ <<0>> \in Seq(Token \cup Int) /\ <<dummy>> \in Seq(Int)
    OBVIOUS
  <1>3. Input!ContextLen(row) = 1
    BY <1>1, <1>2 DEF Input!ContextLen
  <1>4. ItemPlanned(row)
    BY <1>1, <1>2, <1>3, OnePage DEF ItemPlanned
  <1>5. Input!ContextSlots(row) = <<dummy * BlockLen>>
    <2>1. Input!SlotOf(<<dummy>>, 0) = dummy * BlockLen
      <3>1. PICK B \in Nat : B = BlockLen /\ B > 0
        BY BlockLenAssumption
      <3>2. 0 \div B = 0 /\ 0 % B = 0
        BY <3>1
      <3>3. dummy * B \in Nat
        BY <3>1
      <3>4. <<dummy>>[0 + 1] = dummy
        OBVIOUS
      <3>5. dummy * B + 0 = dummy * B
        BY <3>3
      <3> QED
        BY <3>1, <3>2, <3>4, <3>5 DEF Input!SlotOf
    <2>2. Input!ContextSlots(row) = [p \in 1 .. 1 |-> Input!SlotOf(<<dummy>>, p - 1)]
      BY <1>1, <1>3 DEF Input!ContextSlots
    <2>3. \A p \in 1 .. 1 : p - 1 = 0
      OBVIOUS
    <2>4. Input!ContextSlots(row) = [p \in 1 .. 1 |-> dummy * BlockLen]
      BY <2>1, <2>2, <2>3
    <2> QED
      BY <2>4
  <1> QED
    BY <1>1, <1>3, <1>4, <1>5 DEF row

\* A decode batch: every query is one token.
Decoding(items, n) == \A i \in 1 .. n : Len(items[i].input) = 1

RowsAre(rows, items, n, size, dummy) ==
  /\ Planned(rows, size) /\ DOMAIN rows = 1 .. size
  /\ \A i \in 1 .. size : rows[i] = IF i <= n THEN items[i] ELSE PadRow(dummy)

LEMMA RowsPlanned ==
  ASSUME NEW items, NEW n, Planned(items, n), NEW size \in Nat, NEW dummy \in Nat
  PROVE  RowsAre(GraphRows(items, n, size, dummy), items, n, size, dummy)
  <1> DEFINE rows == GraphRows(items, n, size, dummy)
  <1>1. n \in Nat /\ \A i \in 1 .. n : ItemPlanned(items[i])
    BY DEF Planned
  <1>2. rows = [i \in 1 .. size |-> IF i <= n THEN items[i] ELSE PadRow(dummy)]
    BY DEF GraphRows
  <1> HIDE DEF rows
  <1>3. rows = [i \in 1 .. size |-> rows[i]] /\ DOMAIN rows = 1 .. size /\ Len(rows) = size
        /\ \A i \in 1 .. size : rows[i] = IF i <= n THEN items[i] ELSE PadRow(dummy)
    BY <1>2
  <1>4. \A i \in 1 .. size : i <= n => i \in 1 .. n
    BY <1>1
  <1>5. \A i \in 1 .. size : ItemPlanned(rows[i])
    BY <1>1, <1>3, <1>4, PadRowIs
  <1> QED
    BY <1>3, <1>5 DEF Planned, RowsAre, rows

\* Lists of one entry each, joined.
LEMMA SingleFlat ==
  ASSUME NEW n \in Nat, NEW S, NEW parts \in [1 .. n -> Seq(S)], \A i \in 1 .. n : Len(parts[i]) = 1
  PROVE  Input!FlattenSeq(parts) = [i \in 1 .. n |-> parts[i][1]]
  <1>1. PICK at : at = Input!Indptr(Lens(parts, n))
    OBVIOUS
  <1>2. at[1] = 0 /\ \A i \in 1 .. n : at[i + 1] = at[i] + 1
    <2>1. Pointers(Lens(parts, n), n)
      BY LensType, IndptrFacts
    <2> QED
      BY <1>1, <2>1, LensType DEF Pointers
  <1> DEFINE P == {m \in Nat : m <= n => at[m + 1] = m}
  <1>3. 0 \in P
    BY <1>2
  <1>4. ASSUME NEW m \in Nat, m \in P PROVE m + 1 \in P
    <2> SUFFICES ASSUME m + 1 <= n PROVE at[(m + 1) + 1] = m + 1
      OBVIOUS
    <2>1. m + 1 \in 1 .. n /\ at[m + 1] = m
      BY <1>4
    <2> QED
      BY <1>2, <2>1
  <1>5. \A m \in Nat : m <= n => at[m + 1] = m
    <2>1. Nat \subseteq P
      <3> HIDE DEF P
      <3> QED
        BY <1>3, <1>4, SetInduction
    <2> QED
      BY <2>1
  <1> DEFINE flat == [i \in 1 .. n |-> parts[i][1]]
  <1>6. flat = [j \in 1 .. at[n + 1] |-> flat[j]]
    BY <1>5
  <1>7. ASSUME NEW i \in 1 .. n, NEW k \in 1 .. Len(parts[i])
        PROVE  flat[at[i] + k] = parts[i][k]
    <2>0. Len(parts[i]) = 1
      OBVIOUS
    <2>1. k = 1
      BY <1>7, <2>0
    <2>2. at[i] = i - 1
      <3>1. i - 1 \in Nat /\ i - 1 <= n /\ (i - 1) + 1 = i
        OBVIOUS
      <3> QED
        BY <1>5, <3>1
    <2>3. at[i] + k = i
      BY <2>1, <2>2
    <2> QED
      BY <2>1, <2>3
  <1> HIDE DEF flat
  <1>8. Laid(flat, parts, n)
    BY <1>1, <1>6, <1>7 DEF Laid
  <1>9. Laid(Input!FlattenSeq(parts), parts, n)
    BY FlattenLaid
  <1>10. flat = Input!FlattenSeq(parts)
    BY <1>8, <1>9, LaidUnique
  <1> QED
    BY <1>10 DEF flat

\* The rows of the batch with padding after them.
PadsOut(values, n, size, fill) ==
  Input!Padded(values, size, fill) = [i \in 1 .. size |-> IF i <= n THEN values[i] ELSE fill]

LEMMA PaddedIs ==
  ASSUME NEW n \in Nat, NEW size \in Nat, n <= size, NEW values, values = [i \in 1 .. n |-> values[i]],
         NEW fill
  PROVE  PadsOut(values, n, size, fill)
  <1>1. PICK S : S = {values[i] : i \in 1 .. n} \cup {fill}
    OBVIOUS
  <1>2. values \in Seq(S) /\ Len(values) = n
    BY <1>1
  <1> DEFINE rest == [i \in 1 .. size - n |-> fill]
  <1>3. rest \in Seq(S) /\ Len(rest) = size - n /\ \A i \in 1 .. size - n : rest[i] = fill
    BY <1>1
  <1>4. Input!Padded(values, size, fill) = values \o rest
    BY <1>2 DEF Input!Padded
  <1> HIDE DEF rest
  <1>5. /\ values \o rest \in Seq(S)
        /\ Len(values \o rest) = Len(values) + Len(rest)
        /\ \A i \in 1 .. Len(values) + Len(rest) :
             (values \o rest)[i] = IF i <= Len(values) THEN values[i] ELSE rest[i - Len(values)]
    BY <1>2, <1>3, ConcatProperties, Zenon
  <1>6. Len(values) + Len(rest) = size
    BY <1>2, <1>3
  <1>7. PICK joined : joined = values \o rest
    OBVIOUS
  <1>8. joined = [i \in 1 .. size |-> joined[i]]
    BY <1>5, <1>6, <1>7
  <1>9. \A i \in 1 .. size : joined[i] = IF i <= n THEN values[i] ELSE fill
    <2> SUFFICES ASSUME NEW i \in 1 .. size
                 PROVE  joined[i] = IF i <= n THEN values[i] ELSE fill
      OBVIOUS
    <2>1. joined[i] = IF i <= n THEN values[i] ELSE rest[i - n]
      BY <1>2, <1>5, <1>6, <1>7
    <2>2. ~(i <= n) => i - n \in 1 .. size - n
      OBVIOUS
    <2> QED
      BY <1>3, <2>1, <2>2
  <1> QED
    BY <1>4, <1>7, <1>8, <1>9 DEF PadsOut

\* Padding a padded table.
LEMMA PaddedTwice ==
  ASSUME NEW table \in Seq(Int), NEW w \in Nat, Len(table) <= w, NEW width \in Nat
  PROVE  Input!PaddedTo(Input!PaddedTo(table, w, -1), width, -1) = Input!PaddedTo(table, width, -1)
  <1> DEFINE inner == Input!PaddedTo(table, w, -1)
  <1>1. inner = [j \in 1 .. w |-> IF j <= Len(table) THEN table[j] ELSE -1]
    BY DEF Input!PaddedTo
  <1> HIDE DEF inner
  <1>2. Len(inner) = w /\ Len(table) \in Nat
    BY <1>1
  <1>3. ASSUME NEW j \in 1 .. width
        PROVE  (IF j <= Len(inner) THEN inner[j] ELSE -1) = (IF j <= Len(table) THEN table[j] ELSE -1)
    <2>1. CASE j <= w
      <3>1. j \in 1 .. w
        BY <2>1
      <3> QED
        BY <1>1, <1>2, <2>1, <3>1
    <2>2. CASE ~(j <= w)
      BY <1>2, <2>2
    <2> QED
      BY <2>1, <2>2
  <1>4. Input!PaddedTo(inner, width, -1) = [j \in 1 .. width |-> IF j <= Len(inner) THEN inner[j] ELSE -1]
    BY DEF Input!PaddedTo
  <1>5. Input!PaddedTo(table, width, -1) = [j \in 1 .. width |-> IF j <= Len(table) THEN table[j] ELSE -1]
    BY DEF Input!PaddedTo
  <1>6. Input!PaddedTo(inner, width, -1) = Input!PaddedTo(table, width, -1)
    BY <1>3, <1>4, <1>5
  <1> QED
    BY <1>6 DEF inner

\* A batch that fits the graph.
FitsGraph(items, n, size, width, dummy) ==
  /\ Planned(items, n) /\ Decoding(items, n)
  /\ size \in Nat /\ n <= size /\ width \in Nat \ {0} /\ dummy \in Nat
  /\ \A i \in 1 .. n : Len(items[i].block_table) <= width

\* The rows of the graph for the batch, and their lists.
GraphOf(items, n, size, width, dummy) ==
  LET rows == GraphRows(items, n, size, dummy) IN
  [tokens       |-> [i \in 1 .. size |-> IF i <= n THEN items[i].input[1] ELSE 0],
   position     |-> [i \in 1 .. size |-> IF i <= n THEN items[i].start ELSE 0],
   slot_mapping |-> [i \in 1 .. size |-> IF i <= n THEN Input!SlotOf(items[i].block_table, items[i].start)
                                                   ELSE dummy * BlockLen],
   context_lens |-> ContextLens(rows),
   block_tables |-> WideTables(rows, width),
   csr          |-> CsrOf(rows)]

LEMMA DecodeItem ==
  ASSUME NEW item, ItemPlanned(item), Len(item.input) = 1
  PROVE  /\ Input!ContextLen(item) = item.start + 1 /\ item.start \in Nat
         /\ SubSeq(item.block_table, 1, Input!Pages(item.start + 1)) = item.block_table
         /\ Len(item.block_table) = Input!Pages(item.start + 1)
  <1>1. Input!ContextLen(item) = item.start + 1 /\ item.start \in Nat
    BY PagesOfTable DEF ItemPlanned
  <1> QED
    BY <1>1, PagesOfTable DEF ItemPlanned

LEMMA RowLists ==
  ASSUME NEW items, NEW n, NEW size, NEW width, NEW dummy, FitsGraph(items, n, size, width, dummy)
  PROVE  LET rows == GraphRows(items, n, size, dummy) IN
         /\ Planned(rows, size)
         /\ ContextLens(rows) = [i \in 1 .. size |-> IF i <= n THEN items[i].start + 1 ELSE 1]
         /\ WideTables(rows, width) = [i \in 1 .. size |->
               Input!PaddedTo(IF i <= n THEN items[i].block_table ELSE <<dummy>>, width, -1)]
         /\ PageParts(rows) = [i \in 1 .. size |-> IF i <= n THEN items[i].block_table ELSE <<dummy>>]
         /\ PageLens(rows) = [i \in 1 .. size |-> Len(IF i <= n THEN items[i].block_table ELSE <<dummy>>)]
         /\ \A i \in 1 .. size : Len(rows[i].block_table) <= width
  <1>1. /\ Planned(items, n) /\ size \in Nat /\ width \in Nat \ {0} /\ dummy \in Nat /\ n \in Nat
        /\ \A i \in 1 .. n : /\ ItemPlanned(items[i]) /\ Len(items[i].input) = 1
                             /\ Len(items[i].block_table) <= width
    BY DEF FitsGraph, Planned, Decoding
  <1> DEFINE rows == GraphRows(items, n, size, dummy)
  <1>2. /\ Planned(rows, size) /\ DOMAIN rows = 1 .. size
        /\ \A i \in 1 .. size : rows[i] = IF i <= n THEN items[i] ELSE PadRow(dummy)
    <2>1. RowsAre(GraphRows(items, n, size, dummy), items, n, size, dummy)
      BY <1>1, RowsPlanned
    <2> QED
      BY <2>1 DEF RowsAre
  <1> HIDE DEF rows
  <1>3. ASSUME NEW i \in 1 .. size
        PROVE  /\ Input!ContextLen(rows[i]) = IF i <= n THEN items[i].start + 1 ELSE 1
               /\ rows[i].block_table = IF i <= n THEN items[i].block_table ELSE <<dummy>>
               /\ Len(rows[i].block_table) <= width
    <2>1. CASE i <= n
      <3>1. i \in 1 .. n
        BY <1>1, <2>1
      <3> QED
        BY <1>1, <1>2, <2>1, <3>1, DecodeItem
    <2>2. CASE ~(i <= n)
      <3>1. rows[i] = PadRow(dummy)
        BY <1>2, <2>2
      <3>2. Len(<<dummy>>) <= width
        BY <1>1
      <3> QED
        BY <1>1, <2>2, <3>1, <3>2, PadRowIs
    <2> QED
      BY <2>1, <2>2
  <1>4. PartsTyped(rows, size) /\ \A i \in 1 .. size : ItemPlanned(rows[i])
    BY <1>2, PartsAreTyped DEF Planned
  <1>5. ContextLens(rows) = [i \in 1 .. size |-> IF i <= n THEN items[i].start + 1 ELSE 1]
    BY <1>2, <1>3 DEF ContextLens
  <1>6. WideTables(rows, width) = [i \in 1 .. size |->
               Input!PaddedTo(IF i <= n THEN items[i].block_table ELSE <<dummy>>, width, -1)]
    BY <1>2, <1>3 DEF WideTables
  <1>7. PageParts(rows) = [i \in 1 .. size |-> IF i <= n THEN items[i].block_table ELSE <<dummy>>]
    <2>1. PageParts(rows) = [i \in 1 .. size |-> PageParts(rows)[i]]
      BY <1>2 DEF PageParts
    <2>2. \A i \in 1 .. size : PageParts(rows)[i] = rows[i].block_table
      BY <1>4 DEF PartsTyped
    <2> QED
      BY <1>3, <2>1, <2>2
  <1>8. PageLens(rows) = [i \in 1 .. size |-> Len(IF i <= n THEN items[i].block_table ELSE <<dummy>>)]
    <2>1. PageLens(rows) = [i \in 1 .. size |-> Input!Pages(Input!ContextLen(rows[i]))]
      BY <1>2 DEF PageLens
    <2>2. \A i \in 1 .. size : Input!Pages(Input!ContextLen(rows[i])) = Len(rows[i].block_table)
      BY <1>4 DEF ItemPlanned
    <2> QED
      BY <1>3, <2>1, <2>2
  <1> QED
    BY <1>2, <1>3, <1>5, <1>6, <1>7, <1>8 DEF rows

\* The graph packed from the plan.
LEMMA PackedGraph ==
  ASSUME NEW items, NEW n, NEW size, NEW width, NEW dummy, FitsGraph(items, n, size, width, dummy)
  PROVE  Input!PackPlan(items, size, width, dummy) = GraphOf(items, n, size, width, dummy)
  <1>1. /\ Planned(items, n) /\ size \in Nat /\ n \in Nat /\ Len(items) = n /\ dummy \in Nat
        /\ \A i \in 1 .. n : ItemPlanned(items[i]) /\ Len(items[i].input) = 1
    BY DEF FitsGraph, Planned, Decoding
  <1> DEFINE rows == GraphRows(items, n, size, dummy)
             pages(i) == IF i <= n THEN SubSeq(items[i].block_table, 1, Input!Pages(items[i].start + 1))
                                   ELSE <<dummy>>
  <1>2. /\ Planned(rows, size)
        /\ ContextLens(rows) = [i \in 1 .. size |-> IF i <= n THEN items[i].start + 1 ELSE 1]
        /\ WideTables(rows, width) = [i \in 1 .. size |->
               Input!PaddedTo(IF i <= n THEN items[i].block_table ELSE <<dummy>>, width, -1)]
        /\ PageParts(rows) = [i \in 1 .. size |-> IF i <= n THEN items[i].block_table ELSE <<dummy>>]
        /\ PageLens(rows) = [i \in 1 .. size |-> Len(IF i <= n THEN items[i].block_table ELSE <<dummy>>)]
    BY RowLists
  <1>3. /\ DOMAIN rows = 1 .. size
        /\ \A i \in 1 .. size : rows[i] = IF i <= n THEN items[i] ELSE PadRow(dummy)
    <2>1. RowsAre(GraphRows(items, n, size, dummy), items, n, size, dummy)
      BY <1>1, RowsPlanned
    <2> QED
      BY <2>1 DEF RowsAre
  <1> HIDE DEF rows
  <1>4. \A i \in 1 .. size : pages(i) = IF i <= n THEN items[i].block_table ELSE <<dummy>>
    <2> SUFFICES ASSUME NEW i \in 1 .. size, i <= n
                 PROVE  pages(i) = items[i].block_table
      OBVIOUS
    <2>1. i \in 1 .. n
      BY <1>1
    <2> QED
      BY <1>1, <2>1, DecodeItem
  <1>5. [i \in 1 .. size |-> Len(pages(i))] = PageLens(rows) /\ [i \in 1 .. size |-> pages(i)] = PageParts(rows)
    <2> HIDE DEF pages
    <2> QED
      BY <1>2, <1>4
  <1>6. [i \in 1 .. size |-> IF i <= n THEN Input!LastPageLen(items[i].start + 1) ELSE 1]
          = [i \in DOMAIN rows |-> Input!LastPageLen(Input!ContextLen(rows[i]))]
    <2> SUFFICES ASSUME NEW i \in 1 .. size
                 PROVE  (IF i <= n THEN Input!LastPageLen(items[i].start + 1) ELSE 1)
                          = Input!LastPageLen(Input!ContextLen(rows[i]))
      BY <1>3
    <2>1. CASE i <= n
      <3>1. i \in 1 .. n
        BY <1>1, <2>1
      <3> QED
        BY <1>1, <1>3, <2>1, <3>1, DecodeItem
    <2>2. CASE ~(i <= n)
      BY <1>1, <1>3, <2>2, PadRowIs, OnePage
    <2> QED
      BY <2>1, <2>2
  <1>7. CsrOf(rows) = [indptr    |-> Input!Indptr([i \in 1 .. size |-> Len(pages(i))]),
                       indices   |-> Input!FlattenSeq([i \in 1 .. size |-> pages(i)]),
                       last_page |-> [i \in 1 .. size |->
                                        IF i <= n THEN Input!LastPageLen(items[i].start + 1) ELSE 1]]
    <2> HIDE DEF pages
    <2> QED
      BY <1>5, <1>6, Zenon DEF CsrOf
  <1>8. Input!PackPlan(items, size, width, dummy) =
          [tokens       |-> [i \in 1 .. size |-> IF i <= n THEN items[i].input[1] ELSE 0],
           position     |-> [i \in 1 .. size |-> IF i <= n THEN items[i].start ELSE 0],
           slot_mapping |-> [i \in 1 .. size |->
                               IF i <= n THEN Input!SlotOf(items[i].block_table, items[i].start)
                                         ELSE dummy * BlockLen],
           context_lens |-> [i \in 1 .. size |-> IF i <= n THEN items[i].start + 1 ELSE 1],
           block_tables |-> [i \in 1 .. size |->
                 Input!PaddedTo(IF i <= n THEN items[i].block_table ELSE <<dummy>>, width, -1)],
           csr          |-> [indptr    |-> Input!Indptr([i \in 1 .. size |-> Len(pages(i))]),
                             indices   |-> Input!FlattenSeq([i \in 1 .. size |-> pages(i)]),
                             last_page |-> [i \in 1 .. size |->
                                              IF i <= n THEN Input!LastPageLen(items[i].start + 1) ELSE 1]]]
    BY <1>1, Zenon DEF Input!PackPlan
  <1> HIDE DEF pages
  <1>9. GraphOf(items, n, size, width, dummy) =
          [tokens       |-> [i \in 1 .. size |-> IF i <= n THEN items[i].input[1] ELSE 0],
           position     |-> [i \in 1 .. size |-> IF i <= n THEN items[i].start ELSE 0],
           slot_mapping |-> [i \in 1 .. size |->
                               IF i <= n THEN Input!SlotOf(items[i].block_table, items[i].start)
                                         ELSE dummy * BlockLen],
           context_lens |-> ContextLens(rows),
           block_tables |-> WideTables(rows, width),
           csr          |-> CsrOf(rows)]
    BY Zenon DEF GraphOf, rows
  <1> QED
    BY <1>2, <1>7, <1>8, <1>9, Zenon

\* The graph filled from the input of the batch.
LEMMA FilledGraph ==
  ASSUME NEW items, NEW n, NEW size, NEW width, NEW dummy, FitsGraph(items, n, size, width, dummy)
  PROVE  Input!FillGraph(Input!FromPlan(items), CsrOf(items), size, width, dummy)
           = GraphOf(items, n, size, width, dummy)
  <1>1. /\ Planned(items, n) /\ size \in Nat /\ n \in Nat /\ n <= size /\ DOMAIN items = 1 .. n
        /\ dummy \in Nat /\ width \in Nat
        /\ \A i \in 1 .. n : ItemPlanned(items[i]) /\ Len(items[i].input) = 1
    BY DEF FitsGraph, Planned, Decoding
  <1> DEFINE rows == GraphRows(items, n, size, dummy)
             in == Input!FromPlan(items)
             tables == [i \in 1 .. n |-> Input!PaddedTo(in.block_tables[i], width, -1)]
  <1>2. /\ Planned(rows, size)
        /\ ContextLens(rows) = [i \in 1 .. size |-> IF i <= n THEN items[i].start + 1 ELSE 1]
        /\ WideTables(rows, width) = [i \in 1 .. size |->
               Input!PaddedTo(IF i <= n THEN items[i].block_table ELSE <<dummy>>, width, -1)]
        /\ \A i \in 1 .. size : Len(rows[i].block_table) <= width
    BY RowLists
  <1>3. /\ PartsTyped(items, n) /\ \A i \in 1 .. n : TokenLens(items)[i] = 1
    BY <1>1, PartsAreTyped DEF TokenLens
  <1>4. /\ \A i \in 1 .. n : Len(InputParts(items)[i]) = 1
        /\ \A i \in 1 .. n : Len(PositionParts(items)[i]) = 1
        /\ \A i \in 1 .. n : Len(SlotParts(items)[i]) = 1
    <2>1. \A i \in 1 .. n : /\ Lens(InputParts(items), n)[i] = 1
                            /\ Lens(PositionParts(items), n)[i] = 1
                            /\ Lens(SlotParts(items), n)[i] = 1
      BY <1>3 DEF PartsTyped
    <2> QED
      BY <2>1 DEF Lens
  <1>5. in.tokens = [i \in 1 .. n |-> items[i].input[1]]
    <2>1. Input!FlattenSeq(InputParts(items)) = [i \in 1 .. n |-> InputParts(items)[i][1]]
      BY <1>1, <1>3, <1>4, SingleFlat DEF PartsTyped
    <2>2. in.tokens = Input!FlattenSeq(InputParts(items))
      BY DEF Input!FromPlan, InputParts
    <2>3. \A i \in 1 .. n : InputParts(items)[i] = items[i].input
      BY <1>1 DEF InputParts
    <2> QED
      BY <2>1, <2>2, <2>3
  <1>6. in.position = [i \in 1 .. n |-> items[i].start]
    <2>1. Input!FlattenSeq(PositionParts(items)) = [i \in 1 .. n |-> PositionParts(items)[i][1]]
      BY <1>1, <1>3, <1>4, SingleFlat DEF PartsTyped
    <2>2. in.position = Input!FlattenSeq(PositionParts(items))
      BY DEF Input!FromPlan, PositionParts
    <2>3. \A i \in 1 .. n : PositionParts(items)[i][1] = items[i].start
      <3> SUFFICES ASSUME NEW i \in 1 .. n PROVE PositionParts(items)[i][1] = items[i].start
        OBVIOUS
      <3>1. PositionParts(items)[i] = [t \in 1 .. 1 |-> items[i].start + t - 1]
        BY <1>1, PositionsAre DEF PositionParts
      <3>2. items[i].start \in Nat
        BY <1>1 DEF ItemPlanned
      <3> QED
        BY <3>1, <3>2
    <2> QED
      BY <2>1, <2>2, <2>3
  <1>7. in.slot_mapping = [i \in 1 .. n |-> Input!SlotOf(items[i].block_table, items[i].start)]
    <2>1. Input!FlattenSeq(SlotParts(items)) = [i \in 1 .. n |-> SlotParts(items)[i][1]]
      BY <1>1, <1>3, <1>4, SingleFlat DEF PartsTyped
    <2>2. in.slot_mapping = Input!FlattenSeq(SlotParts(items))
      BY DEF Input!FromPlan, SlotParts
    <2>3. \A i \in 1 .. n : SlotParts(items)[i][1] = Input!SlotOf(items[i].block_table, items[i].start)
      <3> SUFFICES ASSUME NEW i \in 1 .. n
                   PROVE  SlotParts(items)[i][1] = Input!SlotOf(items[i].block_table, items[i].start)
        OBVIOUS
      <3>1. SlotParts(items)[i]
              = [t \in 1 .. 1 |-> Input!SlotOf(items[i].block_table, items[i].start + t - 1)]
        <4>1. SlotParts(items)[i] = [t \in 1 .. Len(items[i].input) |->
                                       Input!SlotOf(items[i].block_table, items[i].start + t - 1)]
          BY <1>1, RequestParts, Zenon
        <4> QED
          BY <1>1, <4>1
      <3>2. items[i].start \in Nat /\ items[i].start + 1 - 1 = items[i].start
        BY <1>1 DEF ItemPlanned
      <3>3. SlotParts(items)[i][1] = Input!SlotOf(items[i].block_table, items[i].start + 1 - 1)
        BY <3>1
      <3> QED
        BY <3>2, <3>3
    <2> QED
      BY <2>1, <2>2, <2>3
  <1>8. in.context_lens = [i \in 1 .. n |-> items[i].start + 1]
    <2>1. in.context_lens = [i \in 1 .. n |-> Input!ContextLen(items[i])]
      BY <1>1 DEF Input!FromPlan
    <2> QED
      BY <1>1, <2>1, DecodeItem
  <1>9. tables = [i \in 1 .. n |-> Input!PaddedTo(items[i].block_table, width, -1)]
    <2>1. in.block_tables = [i \in 1 .. n |-> Input!PaddedTo(items[i].block_table, Input!Widest(items), -1)]
      BY <1>1 DEF Input!FromPlan
    <2>2. ASSUME NEW i \in 1 .. n
          PROVE  Input!PaddedTo(in.block_tables[i], width, -1)
                   = Input!PaddedTo(items[i].block_table, width, -1)
      <3>1. in.block_tables[i] = Input!PaddedTo(items[i].block_table, Input!Widest(items), -1)
        BY <2>1
      <3>2. Input!Widest(items) \in Nat /\ Len(items[i].block_table) <= Input!Widest(items)
        BY <1>1, WidestBounds
      <3>3. items[i].block_table \in Seq(Int)
        BY <1>1 DEF ItemPlanned
      <3> QED
        BY <1>1, <3>1, <3>2, <3>3, PaddedTwice
    <2> QED
      BY <2>2
  <1> HIDE DEF in, rows, tables
  <1>10. Len(in.context_lens) = n
    BY <1>1, <1>8
  <1>11. Input!Padded(in.tokens, size, 0) = [i \in 1 .. size |-> IF i <= n THEN items[i].input[1] ELSE 0]
    <2>1. in.tokens = [i \in 1 .. n |-> in.tokens[i]]
      BY <1>5
    <2>2. PadsOut(in.tokens, n, size, 0)
      BY <1>1, <2>1, PaddedIs
    <2>3. Input!Padded(in.tokens, size, 0) = [i \in 1 .. size |-> IF i <= n THEN in.tokens[i] ELSE 0]
      BY <2>2 DEF PadsOut
    <2>4. \A i \in 1 .. size : i <= n => in.tokens[i] = items[i].input[1]
      BY <1>1, <1>5
    <2> QED
      BY <2>3, <2>4
  <1>12. Input!Padded(in.position, size, 0) = [i \in 1 .. size |-> IF i <= n THEN items[i].start ELSE 0]
    <2>1. in.position = [i \in 1 .. n |-> in.position[i]]
      BY <1>6
    <2>2. PadsOut(in.position, n, size, 0)
      BY <1>1, <2>1, PaddedIs
    <2>3. Input!Padded(in.position, size, 0) = [i \in 1 .. size |-> IF i <= n THEN in.position[i] ELSE 0]
      BY <2>2 DEF PadsOut
    <2>4. \A i \in 1 .. size : i <= n => in.position[i] = items[i].start
      BY <1>1, <1>6
    <2> QED
      BY <2>3, <2>4
  <1>13. Input!Padded(in.slot_mapping, size, dummy * BlockLen)
           = [i \in 1 .. size |-> IF i <= n THEN Input!SlotOf(items[i].block_table, items[i].start)
                                            ELSE dummy * BlockLen]
    <2>1. in.slot_mapping = [i \in 1 .. n |-> in.slot_mapping[i]]
      BY <1>7
    <2>2. PadsOut(in.slot_mapping, n, size, dummy * BlockLen)
      BY <1>1, <2>1, PaddedIs
    <2>3. Input!Padded(in.slot_mapping, size, dummy * BlockLen)
            = [i \in 1 .. size |-> IF i <= n THEN in.slot_mapping[i] ELSE dummy * BlockLen]
      BY <2>2 DEF PadsOut
    <2>4. \A i \in 1 .. size : i <= n =>
            in.slot_mapping[i] = Input!SlotOf(items[i].block_table, items[i].start)
      BY <1>1, <1>7
    <2> QED
      BY <2>3, <2>4
  <1>14. Input!Padded(in.context_lens, size, 1) = ContextLens(rows)
    <2>1. in.context_lens = [i \in 1 .. n |-> in.context_lens[i]]
      BY <1>8
    <2>2. PadsOut(in.context_lens, n, size, 1)
      BY <1>1, <2>1, PaddedIs
    <2>3. Input!Padded(in.context_lens, size, 1)
            = [i \in 1 .. size |-> IF i <= n THEN in.context_lens[i] ELSE 1]
      BY <2>2 DEF PadsOut
    <2>4. \A i \in 1 .. size : i <= n => in.context_lens[i] = items[i].start + 1
      BY <1>1, <1>8
    <2> QED
      BY <1>2, <2>3, <2>4
  <1>15. Input!Padded(tables, size, Input!PaddedTo(<<dummy>>, width, -1)) = WideTables(rows, width)
    <2>1. tables = [i \in 1 .. n |-> tables[i]]
      BY <1>9
    <2>2. PadsOut(tables, n, size, Input!PaddedTo(<<dummy>>, width, -1))
      BY <1>1, <2>1, PaddedIs
    <2>3. Input!Padded(tables, size, Input!PaddedTo(<<dummy>>, width, -1))
            = [i \in 1 .. size |-> IF i <= n THEN tables[i] ELSE Input!PaddedTo(<<dummy>>, width, -1)]
      BY <2>2 DEF PadsOut
    <2>4. \A i \in 1 .. size : i <= n => tables[i] = Input!PaddedTo(items[i].block_table, width, -1)
      BY <1>1, <1>9
    <2>5. \A i \in 1 .. size : (IF i <= n THEN tables[i] ELSE Input!PaddedTo(<<dummy>>, width, -1))
            = Input!PaddedTo(IF i <= n THEN items[i].block_table ELSE <<dummy>>, width, -1)
      BY <2>4
    <2> QED
      BY <1>2, <2>3, <2>5
  <1>16. Input!GraphCsr(CsrOf(items), n, size, WideTables(rows, width), ContextLens(rows)) = CsrOf(rows)
    <2>1. CASE n = size
      <3>1. rows = [i \in 1 .. n |-> items[i]]
        BY <1>1, <2>1 DEF rows, GraphRows
      <3>2. items = [i \in 1 .. n |-> items[i]]
        BY <1>1 DEF Planned
      <3> QED
        BY <2>1, <3>1, <3>2 DEF Input!GraphCsr
    <2>2. CASE n # size
      <3>1. Input!BuildCsr(WideTables(rows, width), ContextLens(rows)) = CsrOf(rows)
        BY <1>1, <1>2, CompactedCsr
      <3> QED
        BY <2>2, <3>1 DEF Input!GraphCsr
    <2> QED
      BY <2>1, <2>2
  <1>17. Input!FillGraph(in, CsrOf(items), size, width, dummy) =
           [tokens       |-> Input!Padded(in.tokens, size, 0),
            position     |-> Input!Padded(in.position, size, 0),
            slot_mapping |-> Input!Padded(in.slot_mapping, size, dummy * BlockLen),
            context_lens |-> Input!Padded(in.context_lens, size, 1),
            block_tables |-> Input!Padded(tables, size, Input!PaddedTo(<<dummy>>, width, -1)),
            csr          |-> Input!GraphCsr(CsrOf(items), n, size,
                               Input!Padded(tables, size, Input!PaddedTo(<<dummy>>, width, -1)),
                               Input!Padded(in.context_lens, size, 1))]
    BY <1>10, Zenon DEF Input!FillGraph, tables
  <1>18. GraphOf(items, n, size, width, dummy) =
          [tokens       |-> [i \in 1 .. size |-> IF i <= n THEN items[i].input[1] ELSE 0],
           position     |-> [i \in 1 .. size |-> IF i <= n THEN items[i].start ELSE 0],
           slot_mapping |-> [i \in 1 .. size |->
                               IF i <= n THEN Input!SlotOf(items[i].block_table, items[i].start)
                                         ELSE dummy * BlockLen],
           context_lens |-> ContextLens(rows),
           block_tables |-> WideTables(rows, width),
           csr          |-> CsrOf(rows)]
    BY Zenon DEF GraphOf, rows
  <1>19. Input!FillGraph(in, CsrOf(items), size, width, dummy) = GraphOf(items, n, size, width, dummy)
    BY <1>11, <1>12, <1>13, <1>14, <1>15, <1>16, <1>17, <1>18, Zenon
  <1> QED
    BY <1>19 DEF in

-----------------------------------------------------------------------------
(* The batches of the scheduler.                                           *)

LEMMA TableFitsCache ==
  ASSUME SchedInv, NEW r \in Request
  PROVE  Len(allocations[r]) <= CacheBlocks
  <1>1. allocations[r] \in Seq(BlockId) /\ K!IsInjective(allocations[r])
    BY CacheTypes DEF SchedInv, K!CacheInv, K!TableInjective
  <1>2. PICK l \in Nat : l = Len(allocations[r])
    BY <1>1
  <1>3. allocations[r] \in Injection(1 .. l, BlockId)
    <2>1. allocations[r] \in [1 .. l -> BlockId] /\ DOMAIN allocations[r] = 1 .. l
      BY <1>1, <1>2
    <2>2. \A a, b \in 1 .. l : allocations[r][a] = allocations[r][b] => a = b
      BY <1>1, <2>1 DEF K!IsInjective
    <2> QED
      BY <2>1, <2>2 DEF Injection, IsInjective
  <1>4. IsFiniteSet(BlockId) /\ Cardinality(BlockId) = NumBlocks
    <2>1. 0 \in Int /\ NumBlocks - 1 \in Int
      BY NumBlocksAssumption
    <2> QED
      BY <2>1, FS_Interval, NumBlocksAssumption DEF BlockId
  <1>5. Cardinality(1 .. l) <= Cardinality(BlockId)
    BY <1>3, <1>4, FS_Injection
  <1>6. Cardinality(1 .. l) = l
    BY <1>2, FS_Interval
  <1>7. l <= NumBlocks
    BY <1>4, <1>5, <1>6
  <1> QED
    BY <1>2, <1>7, CacheAssumption, NumBlocksAssumption

LEMMA BatchPlanned ==
  ASSUME SchedInv
  PROVE  /\ Planned(batch, Len(batch))
         /\ \A i \in 1 .. Len(batch) : Len(batch[i].block_table) <= CacheBlocks
  <1>1. TypeOK /\ batch \in Seq(Item)
    BY DEF SchedInv, Queues, TypeOK
  <1>2. PICK n \in Nat : n = Len(batch)
    BY <1>1
  <1>3. DOMAIN batch = 1 .. n /\ batch = [i \in 1 .. n |-> batch[i]]
    BY <1>1, <1>2
  <1>4. ASSUME NEW i \in 1 .. n
        PROVE  ItemPlanned(batch[i]) /\ Len(batch[i].block_table) <= CacheBlocks
    <2> DEFINE item == batch[i]
    <2>1. i \in DOMAIN batch
      BY <1>3
    <2>2. /\ item \in Item /\ item.id \in Request /\ item.input \in Seq(Token) /\ Len(item.input) \in Nat
          /\ item.start \in Nat
      BY <1>1, <2>1, ItemFacts
    <2>3. /\ state[item.id] = "Running" /\ item.start = cached_len[item.id]
          /\ item.block_table = allocations[item.id] /\ item.input # <<>>
      BY <2>1 DEF SchedInv, BatchIsCurrent
    <2>4. item.id \in running
      <3>1. Scheduled(item.id)
        BY <2>1 DEF Scheduled
      <3> QED
        BY <2>2, <3>1, ScheduledRuns
    <2>5. InFlight(item.id) = item.input
      BY <2>1, <2>2, ItemOf
    <2>6. /\ item.block_table \in Seq(BlockId)
          /\ Len(item.block_table) = RequiredBlocks(item.start + Len(item.input))
      BY <2>3, <2>4, <2>5, TableLength
    <2>7. Len(item.block_table) = Input!Pages(Input!ContextLen(item))
      BY <2>6 DEF Input!Pages, Input!ContextLen, RequiredBlocks
    <2>8. item.block_table \in Seq(Int)
      <3>1. BlockId \subseteq Int
        BY NumBlocksAssumption DEF BlockId
      <3> QED
        BY <2>6, <3>1, SeqMonotonic
    <2>9. item.input \in Seq(Token \cup Int) /\ Len(item.input) \in Nat \ {0}
      <3>1. item.input \in Seq(Token \cup Int)
        BY <2>2, SeqMonotonic
      <3>2. Len(item.input) # 0
        BY <2>2, <2>3
      <3> QED
        BY <2>2, <3>1, <3>2
    <2>10. Len(item.block_table) <= CacheBlocks
      BY <2>2, <2>3, TableFitsCache
    <2> HIDE DEF item
    <2>11. ItemPlanned(item)
      BY <2>2, <2>7, <2>8, <2>9 DEF ItemPlanned
    <2> QED
      BY <2>10, <2>11 DEF item
  <1> QED
    BY <1>2, <1>3, <1>4 DEF Planned

LEMMA InputAgrees ==
  ASSUME SchedInv
  PROVE  InputsAgree
  <1>1. Planned(batch, Len(batch)) /\ DOMAIN batch = 1 .. Len(batch)
    BY BatchPlanned DEF Planned
  <1> DEFINE in == Input!FromPlan(batch)
             built == Input!PoolBuild(batch)
  <1>2. built.input = in /\ built.csr = CsrOf(batch)
    BY <1>1, PoolBuilds
  <1>3. Input!BuildCsr(in.block_tables, in.context_lens) = CsrOf(batch)
    <2>1. in.context_lens = ContextLens(batch) /\ in.block_tables = WideTables(batch, Input!Widest(batch))
      BY DEF Input!FromPlan, ContextLens, WideTables
    <2>2. CASE Len(batch) = 0
      <3>1. \A i \in 1 .. Len(batch) : Len(batch[i].block_table) <= 0
        BY <2>2
      <3>2. Input!BuildCsr(WideTables(batch, 0), ContextLens(batch)) = CsrOf(batch)
        BY <1>1, <3>1, CompactedCsr
      <3>3. WideTables(batch, Input!Widest(batch)) = WideTables(batch, 0)
        BY <1>1, <2>2 DEF WideTables
      <3> QED
        BY <2>1, <3>2, <3>3
    <2>3. CASE Len(batch) # 0
      <3>1. /\ Input!Widest(batch) \in Nat
            /\ \A i \in 1 .. Len(batch) : Len(batch[i].block_table) <= Input!Widest(batch)
        <4>1. 1 \in 1 .. Len(batch)
          <5>1. Len(batch) \in Nat
            BY <1>1 DEF Planned
          <5> QED
            BY <2>3, <5>1
        <4> QED
          BY <1>1, <4>1, WidestBounds
      <3>2. Input!BuildCsr(WideTables(batch, Input!Widest(batch)), ContextLens(batch)) = CsrOf(batch)
        BY <1>1, <3>1, CompactedCsr
      <3> QED
        BY <2>1, <3>2
    <2> QED
      BY <2>2, <2>3
  <1>4. ASSUME NEW i \in DOMAIN batch
        PROVE  LET context == Input!ContextSlots(batch[i]) IN
               /\ Input!CsrSlots(built.csr, i) = context
               /\ SubSeq(in.slot_mapping, in.query_start_loc[i] + 1, in.query_start_loc[i + 1])
                    = SubSeq(context, batch[i].start + 1, Len(context))
    <2>1. i \in 1 .. Len(batch)
      BY <1>1
    <2>2. Input!CsrSlots(CsrOf(batch), i) = Input!ContextSlots(batch[i])
      BY <1>1, <2>1, CsrReads
    <2>3. SubSeq(in.slot_mapping, in.query_start_loc[i] + 1, in.query_start_loc[i + 1])
            = SubSeq(Input!ContextSlots(batch[i]), batch[i].start + 1, Len(Input!ContextSlots(batch[i])))
      BY <1>1, <2>1, PassWrites
    <2> QED
      BY <1>2, <2>2, <2>3
  <1> HIDE DEF in, built
  <1> QED
    BY <1>2, <1>3, <1>4 DEF InputsAgree, in, built

LEMMA ReplayAgrees ==
  ASSUME SchedInv
  PROVE  ReplayRowsAgree
  <1> SUFFICES ASSUME Outstanding, CanReplay
               PROVE  LET size  == CHOOSE b \in Bucket(Len(batch)) : TRUE
                          packed == Input!PackPlan(batch, size, CacheBlocks, DummyBlock)
                      IN /\ packed = Input!FillGraph(Input!FromPlan(batch), Input!PoolBuild(batch).csr,
                                                     size, CacheBlocks, DummyBlock)
                         /\ \A i \in 1 .. size :
                              Input!CsrSlots(packed.csr, i)
                                = IF i <= Len(batch) THEN Input!ContextSlots(batch[i])
                                                     ELSE <<DummyBlock * BlockLen>>
    BY DEF ReplayRowsAgree
  <1>1. PICK n : n = Len(batch)
    OBVIOUS
  <1>2. PICK size : size = CHOOSE b \in Bucket(Len(batch)) : TRUE
    OBVIOUS
  <1>3. Planned(batch, n) /\ n \in Nat /\ \A i \in 1 .. n : Len(batch[i].block_table) <= CacheBlocks
    BY <1>1, BatchPlanned DEF Planned
  <1>4. size \in Bucket(Len(batch))
    BY <1>2 DEF CanReplay
  <1>5. size \in Buckets /\ n <= size /\ size \in Nat /\ Buckets # {}
    <2>1. size \in Buckets /\ size >= Len(batch)
      BY <1>4 DEF Bucket
    <2> QED
      BY <1>1, <1>3, <2>1, CacheAssumption
  <1>6. CacheBlocks \in Nat \ {0} /\ DummyBlock \in Nat
    BY <1>5, CacheAssumption DEF DummyBlock
  <1>7. Decoding(batch, n)
    BY <1>3 DEF CanReplay, IsDecodeOnly, Decoding, Planned
  <1>8. FitsGraph(batch, n, size, CacheBlocks, DummyBlock)
    BY <1>3, <1>5, <1>6, <1>7 DEF FitsGraph
  <1> DEFINE graph == GraphOf(batch, n, size, CacheBlocks, DummyBlock)
             rows == GraphRows(batch, n, size, DummyBlock)
  <1>9. Input!PackPlan(batch, size, CacheBlocks, DummyBlock) = graph
    BY <1>8, PackedGraph
  <1>10. Input!FillGraph(Input!FromPlan(batch), Input!PoolBuild(batch).csr, size, CacheBlocks, DummyBlock)
           = graph
    <2>1. Input!PoolBuild(batch).csr = CsrOf(batch)
      BY <1>3, PoolBuilds
    <2> QED
      BY <1>8, <2>1, FilledGraph
  <1>11. graph.csr = CsrOf(rows)
    BY DEF GraphOf
  <1> HIDE DEF graph, rows
  <1>12. RowsAre(rows, batch, n, size, DummyBlock)
    BY <1>3, <1>5, <1>6, RowsPlanned DEF rows
  <1>13. ASSUME NEW i \in 1 .. size
         PROVE  Input!CsrSlots(graph.csr, i) = IF i <= n THEN Input!ContextSlots(batch[i])
                                                         ELSE <<DummyBlock * BlockLen>>
    <2>1. Planned(rows, size) /\ rows[i] = IF i <= n THEN batch[i] ELSE PadRow(DummyBlock)
      BY <1>12 DEF RowsAre
    <2>2. Input!CsrSlots(CsrOf(rows), i) = Input!ContextSlots(rows[i])
      BY <2>1, CsrReads
    <2>3. Input!ContextSlots(PadRow(DummyBlock)) = <<DummyBlock * BlockLen>>
      BY <1>6, PadRowIs
    <2> QED
      BY <1>11, <2>1, <2>2, <2>3
  <1> QED
    BY <1>1, <1>2, <1>9, <1>10, <1>13

\* However the metadata of a batch is built, by the plan, by the pool over what
\* an earlier batch left, compacted on the device or packed and padded for a
\* replay, the attention of a request reads the slots of its whole context in
\* order, and the pass writes the last of them.
THEOREM MetadataIsOne == ServerSpec => []MetadataAgrees
  <1>1. SchedInv => MetadataAgrees
    BY InputAgrees, ReplayAgrees DEF MetadataAgrees
  <1>2. ServerSpec => []SchedInv
    BY ServerImplementsScheduler, SchedulerInvariant
  <1> QED
    BY <1>1, <1>2, PTL
===============================================================================
