---------------------------- MODULE KernelsProofs ----------------------------
(***************************************************************************)
(* The kernels, proved for every input a launch accepts: the pipeline of   *)
(* FlashAttention for every number of warps and stages, tile size, query   *)
(* length and cached prefix; the views of an accumulator for every number  *)
(* of atoms; the weight format for every matrix of integers and every      *)
(* group size; the routing of a token and the expert MLP of a batch for    *)
(* every number of experts, tokens, slots and block sizes.                 *)
(***************************************************************************)
EXTENDS Kernels, FiniteSetTheorems, WellFoundedInduction, TLAPS

-----------------------------------------------------------------------------
(* Arithmetic of the tile: tile bound, copiers and owners of rows, stages. *)

LEMMA MinOfTwo ==
  ASSUME NEW a \in Nat, NEW b \in Nat
  PROVE  Min({a, b}) \in {a, b} /\ Min({a, b}) <= a /\ Min({a, b}) <= b
  <1>1. \E x \in {a, b} : \A y \in {a, b} : x <= y
    OBVIOUS
  <1> QED
    BY <1>1 DEF Min

LEMMA Division ==
  ASSUME NEW a \in Nat, NEW b \in Nat, b > 0
  PROVE  /\ a \div b \in Nat /\ a % b \in Nat /\ a % b < b
         /\ a = b * (a \div b) + (a % b)
         /\ b * (a \div b) <= a /\ a < b * (a \div b) + b
  OBVIOUS

\* a \div b < c when a < b * c.
LEMMA QuotientBound ==
  ASSUME NEW a \in Nat, NEW b \in Nat, b > 0, NEW c \in Nat, a < b * c
  PROVE  a \div b \in Nat /\ a \div b < c
  <1> DEFINE q == a \div b
  <1>1. q \in Nat /\ b * q <= a
    BY Division
  <1> HIDE DEF q
  <1>2. ASSUME c <= q PROVE FALSE
    <2>1. b * c <= b * q
      BY <1>1, <1>2
    <2>2. b * c \in Nat /\ b * q \in Nat
      BY <1>1
    <2> QED
      BY <1>1, <2>1, <2>2
  <1> QED
    BY <1>1, <1>2 DEF q

LEMMA CopierIsWarp ==
  ASSUME NEW i \in Nat
  PROVE  Copier(i) \in Warp
  <1>1. CopyRows \in Nat /\ CopyRows > 0 /\ NumWarps \in Nat /\ NumWarps > 0
    BY FlashAssumption
  <1> DEFINE m == CopyRows * NumWarps
             x == i % m
  <1>2. m \in Nat /\ m > 0
    BY <1>1
  <1> HIDE DEF m
  <1>3. x \in Nat /\ x < m
    BY <1>2, Division
  <1> HIDE DEF x
  <1>4. x < CopyRows * NumWarps
    BY <1>3 DEF m
  <1>5. x \div CopyRows \in Nat /\ x \div CopyRows < NumWarps
    BY <1>1, <1>3, <1>4, QuotientBound
  <1>6. x \div CopyRows \in 0 .. NumWarps - 1
    BY <1>1, <1>5
  <1> QED
    BY <1>6 DEF Copier, Warp, x, m

\* Every row has a warp it belongs to.
LEMMA OwnerIsWarp ==
  ASSUME NEW i \in Row
  PROVE  \E w \in Warp : i \in RowsOf(w)
  <1>1. /\ NumWarps \in Nat /\ NumWarps > 0 /\ BlockM \in Nat /\ BlockM > 0
        /\ BlockM % NumWarps = 0 /\ i \in Nat /\ i < BlockM
    BY FlashAssumption DEF Row
  <1> DEFINE m == BlockM \div NumWarps
  <1>2. m \in Nat /\ BlockM = NumWarps * m
    BY <1>1, Division
  <1> HIDE DEF m
  <1>3. m > 0
    BY <1>1, <1>2
  <1>4. i < m * NumWarps
    BY <1>1, <1>2
  <1>5. i \div m \in Nat /\ i \div m < NumWarps
    BY <1>1, <1>2, <1>3, <1>4, QuotientBound
  <1>6. i \div m \in Warp
    BY <1>1, <1>5 DEF Warp
  <1> QED
    BY <1>6 DEF RowsOf, m

LEMMA StageOf ==
  ASSUME NEW s \in Nat, s > 0, NEW t \in Nat
  PROVE  t % s \in 0 .. s - 1
  <1> DEFINE x == t % s
  <1>1. x \in Nat /\ x < s
    BY Division
  <1> HIDE DEF x
  <1>2. x \in 0 .. s - 1
    BY <1>1
  <1> QED
    BY <1>2 DEF x

\* Tiles that share a stage are a full round of the stages apart.
LEMMA StagesApart ==
  ASSUME NEW s \in Nat, s > 0, NEW t \in Nat, NEW u \in Nat, t < u, u < t + s
  PROVE  t % s # u % s
  <1> DEFINE a == t \div s
             b == u \div s
             x == t % s
             y == u % s
  <1>1. /\ a \in Nat /\ x \in Nat /\ x < s /\ t = s * a + x
        /\ b \in Nat /\ y \in Nat /\ y < s /\ u = s * b + y
    BY Division
  <1> HIDE DEF a, b, x, y
  <1>2. SUFFICES ASSUME x = y PROVE FALSE
    BY DEF x, y
  <1> DEFINE sa == s * a
             sb == s * b
  <1>3. sa \in Nat /\ sb \in Nat /\ t = sa + x /\ u = sb + x
    BY <1>1, <1>2
  <1>4. a <= b => a = b \/ sa + s <= sb
    <2>1. ASSUME a < b PROVE sa + s <= sb
      <3>1. s * (a + 1) <= s * b
        BY <1>1, <2>1
      <3>2. s * (a + 1) = s * a + s
        BY <1>1
      <3> QED
        BY <3>1, <3>2
    <2> QED
      BY <1>1, <2>1
  <1>5. b < a => sb + s <= sa
    <2>1. ASSUME b < a PROVE sb + s <= sa
      <3>1. s * (b + 1) <= s * a
        BY <1>1, <2>1
      <3>2. s * (b + 1) = s * b + s
        BY <1>1
      <3> QED
        BY <3>1, <3>2
    <2> QED
      BY <2>1
  <1>6. a = b => sa = sb
    OBVIOUS
  <1> HIDE DEF sa, sb
  <1> QED
    BY <1>1, <1>3, <1>4, <1>5, <1>6

-----------------------------------------------------------------------------
(* The inductive invariant.                                                *)

Copy  == [group : Nat, to : Matrix \cup {"Q"}, tile : Nat, stage : Nat]
Early == {"load Q", "wait Q", "sync Q"}
Late  == {"write O", "sync O", "copy out", "done"}
Turn  == {"sync full", "read K", "read V", "sync free", "issue", "fold"}

TypeInv ==
  /\ cta \in [tile : 0 .. QLen \div BlockM - 1, start : Starts, stages : StageCounts]
  /\ pc \in [Warp -> Pcs]
  /\ kv \in [Warp -> Nat] /\ kv_next \in [Warp -> Nat] /\ groups \in [Warp -> Nat]
  /\ pending \in [Warp -> SUBSET Copy]
  /\ smem \in [Matrix -> [0 .. cta.stages - 1 -> [KeyRow -> Nat \cup {None}]]]
  /\ sQ = [i \in Row |-> sQ[i]]
  /\ rQ \in [Warp -> SUBSET Row]
  /\ rK \in [Warp -> [KeyRow -> Nat \cup {None}]] /\ rV \in [Warp -> [KeyRow -> Nat \cup {None}]]
  /\ acc = [i \in Row |-> acc[i]] /\ out = [i \in Row |-> out[i]]

\* Between two barriers the warps are in one stretch of the program, in the
\* same turn of the loop.
Stretch ==
  \/ \A w \in Warp : pc[w] \in Early /\ kv[w] = 0
  \/ \A w \in Warp : pc[w] \in {"read Q", "prefetch", "wait tile", "sync full"} /\ kv[w] = 0
  \/ \E n \in Nat :
       \/ \A w \in Warp : pc[w] \in {"read K", "read V", "sync free"} /\ kv[w] = n
       \/ \A w \in Warp :
            \/ pc[w] \in {"issue", "fold"} /\ kv[w] = n
            \/ pc[w] \in {"wait tile", "sync full"} /\ kv[w] = n + 1 /\ n + 1 < NumVisible
            \/ pc[w] \in {"write O", "sync O"} /\ kv[w] = n + 1 /\ n + 1 = NumVisible
       \/ \A w \in Warp : pc[w] \in {"copy out", "done"} /\ kv[w] = n /\ n = NumVisible

\* The first tile a warp has still to fold.
Lo(w) == IF pc[w] = "fold" THEN kv[w] + 1 ELSE kv[w]

\* What a warp has issued and what of it may be in flight.
Issued(w) ==
  /\ groups[w] = IF pc[w] = "load Q" THEN 0 ELSE kv_next[w] + 1
  /\ pc[w] \in Early \cup {"read Q"} => kv_next[w] = 0
  /\ pc[w] \in Early \cup {"read Q", "prefetch"} => kv[w] = 0
  /\ pc[w] \in Turn \cup {"wait tile"} => kv[w] < NumVisible
  /\ pc[w] \in Late => kv[w] = NumVisible
  /\ kv_next[w] <= NumVisible /\ kv_next[w] <= Lo(w) + PrefetchSlots
  /\ pc[w] \in Turn \cup Late \cup {"wait tile"} =>
       kv_next[w] = NumVisible \/ kv_next[w] = Lo(w) + PrefetchSlots

InFlight(w) ==
  \A c \in pending[w] :
    \/ c.to = "Q" /\ c.group = 1 /\ c.stage \in 0 .. cta.stages - 1 /\ pc[w] = "wait Q"
    \/ /\ c.to \in Matrix /\ c.group = c.tile + 2 /\ c.stage = c.tile % cta.stages
       /\ kv[w] <= c.tile /\ c.tile < kv_next[w]
       /\ pc[w] \in Turn => kv[w] < c.tile

\* The rows of a tile that a warp copied are there once they landed, until
\* the warp has folded the tile.
Landed(w) ==
  \A m \in Matrix, t \in Nat :
    /\ Lo(w) <= t /\ t < kv_next[w]
    /\ \A c \in pending[w] : c.to = m => c.tile # t
    => \A j \in KeyRow : Copier(j) = w => smem[m][t % cta.stages][j] = t * BlockN + j

Tile(n) == [j \in KeyRow |-> n * BlockN + j]

Registers(w) ==
  /\ pc[w] \in Turn \ {"sync full", "read K"} => rK[w] = Tile(kv[w])
  /\ pc[w] \in Turn \ {"sync full", "read K", "read V"} => rV[w] = Tile(kv[w])
  /\ pc[w] \notin Early \cup {"read Q"} => rQ[w] = RowsOf(w)

\* Q is in shared memory until O takes its place.
Queries ==
  (\A w \in Warp : pc[w] \notin Late) =>
    \A w \in Warp : pc[w] \notin {"load Q", "wait Q"} \/ (pc[w] = "wait Q" /\ pending[w] = {}) =>
      \A i \in Row : Copier(i) = w => sQ[i].holds = "Q"

Position(i) == cta.start + cta.tile * BlockM + i

\* The keys of the first n tiles that the query of row i may see.
Keys(i, n) == {<<k, k, k>> : k \in {x \in 0 .. Position(i) : x < n * BlockN}}

Folded(w) ==
  \A i \in RowsOf(w) :
    /\ acc[i] = [seen |-> kv[w] # 0, keys |-> Keys(i, kv[w])]
    /\ pc[w] \in Late \ {"write O"} => sQ[i] = [holds |-> "O", keys |-> acc[i].keys]

PerWarp(w) == Issued(w) /\ InFlight(w) /\ Landed(w) /\ Registers(w) /\ Folded(w)

FlashInv ==
  /\ TypeInv
  /\ Stretch
  /\ \A w \in Warp : PerWarp(w)
  /\ Queries
  /\ RowsAreCausal

LEMMA Geometry ==
  ASSUME TypeInv
  PROVE  /\ cta.stages \in Nat /\ cta.stages > 0
         /\ PrefetchSlots \in Nat /\ PrefetchSlots > 0 /\ PrefetchSlots <= cta.stages
         /\ cta.stages > 1 => PrefetchSlots = cta.stages - 1 /\ SteadyWaitGroups = cta.stages - 2
         /\ cta.stages = 1 => PrefetchSlots = 1 /\ SteadyWaitGroups = 0
         /\ NumVisible \in Nat /\ NumVisible > 0
         /\ \A i \in Row : Position(i) \in Nat /\ Position(i) < NumVisible * BlockN
         /\ BlockN \in Nat /\ BlockN > 0
  <1>1. /\ cta.stages \in Nat /\ cta.stages > 0 /\ cta.start \in Nat
        /\ cta.tile \in Nat /\ cta.tile < QLen \div BlockM
        /\ BlockN \in Nat /\ BlockN > 0 /\ BlockM \in Nat /\ BlockM > 0
        /\ QLen \in Nat /\ QLen > 0 /\ QLen % BlockM = 0
    <2>1. /\ BlockN \in Nat /\ BlockN > 0 /\ BlockM \in Nat /\ BlockM > 0
          /\ QLen \in Nat /\ QLen > 0 /\ QLen % BlockM = 0
      BY FlashAssumption
    <2>2. QLen \div BlockM \in Nat
      BY <2>1, Division
    <2> QED
      BY <2>1, <2>2, FlashAssumption DEF TypeInv
  <1>2. /\ PrefetchSlots \in Nat /\ PrefetchSlots > 0 /\ PrefetchSlots <= cta.stages
        /\ cta.stages > 1 => PrefetchSlots = cta.stages - 1 /\ SteadyWaitGroups = cta.stages - 2
        /\ cta.stages = 1 => PrefetchSlots = 1 /\ SteadyWaitGroups = 0
    BY <1>1 DEF PrefetchSlots, SteadyWaitGroups
  <1> DEFINE tm == cta.tile * BlockM
             q == QLen \div BlockM
             a == cta.start + QLen
             b == cta.start + tm + BlockM
             e == Min({a, b})
  <1>3. tm \in Nat /\ tm + BlockM <= QLen
    <2>1. q \in Nat /\ QLen = BlockM * q
      BY <1>1, Division
    <2>2. cta.tile + 1 <= q
      BY <1>1, <2>1
    <2> HIDE DEF q
    <2>3. (cta.tile + 1) * BlockM <= q * BlockM
      BY <1>1, <2>1, <2>2
    <2>4. (cta.tile + 1) * BlockM = tm + BlockM /\ tm \in Nat
      BY <1>1
    <2>5. q * BlockM = QLen
      BY <1>1, <2>1
    <2> HIDE DEF tm
    <2> QED
      BY <2>3, <2>4, <2>5
  <1> HIDE DEF tm
  <1>4. a \in Nat /\ b \in Nat
    BY <1>1, <1>3
  <1>5. e \in {a, b}
    BY <1>4, MinOfTwo
  <1>7. e \in Nat /\ e >= cta.start + tm + BlockM
    BY <1>1, <1>3, <1>4, <1>5
  <1> HIDE DEF e
  <1>8. NumVisible = (e + BlockN - 1) \div BlockN
    BY DEF NumVisible, e, tm
  <1> DEFINE x == e + BlockN - 1
             n == x \div BlockN
  <1>9. x \in Nat /\ x >= e /\ x = e + BlockN - 1
    BY <1>1, <1>7
  <1>10. n \in Nat /\ x < BlockN * n + BlockN
    BY <1>1, <1>9, Division
  <1> HIDE DEF x, n
  <1>11. BlockN * n \in Nat /\ e <= BlockN * n
    BY <1>1, <1>7, <1>9, <1>10
  <1>12. n > 0
    BY <1>1, <1>3, <1>7, <1>10, <1>11
  <1>13. ASSUME NEW i \in Row PROVE Position(i) \in Nat /\ Position(i) < n * BlockN
    <2>1. i \in Nat /\ i < BlockM
      BY <1>1 DEF Row
    <2>2. Position(i) = cta.start + tm + i
      BY DEF Position, tm
    <2>3. n * BlockN = BlockN * n
      BY <1>1, <1>10
    <2> QED
      BY <1>1, <1>3, <1>7, <1>11, <2>1, <2>2, <2>3
  <1> QED
    BY <1>1, <1>2, <1>8, <1>10, <1>12, <1>13 DEF n, x

-----------------------------------------------------------------------------
(* Steps that leave a warp alone.                                          *)

LEMMA SameCta ==
  ASSUME cta' = cta
  PROVE  /\ NumVisible' = NumVisible /\ PrefetchSlots' = PrefetchSlots
         /\ SteadyWaitGroups' = SteadyWaitGroups
         /\ \A i : Position(i)' = Position(i)
         /\ \A i, n : Keys(i, n)' = Keys(i, n)
  <1>1. /\ NumVisible' = NumVisible /\ PrefetchSlots' = PrefetchSlots
        /\ SteadyWaitGroups' = SteadyWaitGroups
    BY DEF NumVisible, PrefetchSlots, SteadyWaitGroups
  <1>2. \A i : Position(i)' = Position(i)
    BY DEF Position
  <1>3. \A i, n : Keys(i, n)' = Keys(i, n)
    BY DEF Keys, Position
  <1> QED
    BY <1>1, <1>2, <1>3

\* A warp whose own state, rows of the tiles and rows of O stay.
LEMMA Others ==
  ASSUME TypeInv, NEW v \in Warp, PerWarp(v), cta' = cta,
         pc'[v] = pc[v], kv'[v] = kv[v], kv_next'[v] = kv_next[v], groups'[v] = groups[v],
         pending'[v] = pending[v], rQ'[v] = rQ[v], rK'[v] = rK[v], rV'[v] = rV[v],
         \A m \in Matrix, s \in 0 .. cta.stages - 1, j \in KeyRow :
           Copier(j) = v => smem'[m][s][j] = smem[m][s][j],
         \A i \in RowsOf(v) : acc'[i] = acc[i],
         pc[v] \in Late \ {"write O"} => \A i \in RowsOf(v) : sQ'[i] = sQ[i]
  PROVE  PerWarp(v)'
  <1>1. Issued(v)'
    <2>1. Lo(v)' = Lo(v)
      BY DEF Lo
    <2> QED
      BY <2>1, SameCta DEF PerWarp, Issued
  <1>2. InFlight(v)'
    BY DEF PerWarp, InFlight
  <1>3. Landed(v)'
    <2>1. Lo(v)' = Lo(v)
      BY DEF Lo
    <2>2. \A t \in Nat : t % cta.stages \in 0 .. cta.stages - 1
      BY Geometry, StageOf
    <2>3. \A m \in Matrix, t \in Nat, j \in KeyRow : Copier(j) = v =>
            smem'[m][t % cta.stages][j] = smem[m][t % cta.stages][j]
      BY <2>2
    <2> QED
      BY <2>1, <2>3, ZenonT(60) DEF PerWarp, Landed
  <1>4. Registers(v)'
    BY DEF PerWarp, Registers, Tile
  <1>5. Folded(v)'
    <2>1. Folded(v)
      BY DEF PerWarp
    <2>2. \A i : Keys(i, kv[v])' = Keys(i, kv[v])
      BY DEF Keys, Position
    <2> QED
      BY <2>1, <2>2, ZenonT(60) DEF Folded
  <1> QED
    BY <1>1, <1>2, <1>3, <1>4, <1>5 DEF PerWarp

-----------------------------------------------------------------------------
(* The steps of one warp, in the order of the kernel.                      *)

LEMMA Typed ==
  ASSUME TypeInv, NEW w \in Warp
  PROVE  /\ pc[w] \in Pcs /\ kv[w] \in Nat /\ kv_next[w] \in Nat /\ groups[w] \in Nat
         /\ pending[w] \subseteq Copy /\ WriteStage(w) \in 0 .. cta.stages - 1
         /\ ReadStage(w) \in 0 .. cta.stages - 1
         /\ \A c \in pending[w] : c \in Copy /\ c.group \in Nat /\ c.tile \in Nat
  <1>1. /\ pc[w] \in Pcs /\ kv[w] \in Nat /\ kv_next[w] \in Nat /\ groups[w] \in Nat
        /\ pending[w] \subseteq Copy
    BY DEF TypeInv
  <1>2. WriteStage(w) \in 0 .. cta.stages - 1 /\ ReadStage(w) \in 0 .. cta.stages - 1
    BY <1>1, Geometry, StageOf DEF WriteStage, ReadStage
  <1>3. \A c \in pending[w] : c \in Copy /\ c.group \in Nat /\ c.tile \in Nat
    BY <1>1 DEF Copy
  <1> QED
    BY <1>1, <1>2, <1>3

\* What a step of w leaves alone.
Moved(w) ==
  /\ cta' = cta
  /\ \A v \in Warp \ {w} :
       /\ pc'[v] = pc[v] /\ kv'[v] = kv[v] /\ kv_next'[v] = kv_next[v]
       /\ groups'[v] = groups[v] /\ pending'[v] = pending[v]
       /\ rQ'[v] = rQ[v] /\ rK'[v] = rK[v] /\ rV'[v] = rV[v]

LEMMA ControlTypes ==
  ASSUME TypeInv
  PROVE  /\ pc \in [Warp -> Pcs] /\ kv \in [Warp -> Nat] /\ kv_next \in [Warp -> Nat]
         /\ groups \in [Warp -> Nat] /\ pending \in [Warp -> SUBSET Copy]
  BY DEF TypeInv

LEMMA QuietTypes ==
  ASSUME TypeInv, cta' = cta, UNCHANGED <<tileVars, regVars, rowVars>>,
         pc' \in [Warp -> Pcs], kv' \in [Warp -> Nat], kv_next' \in [Warp -> Nat],
         groups' \in [Warp -> Nat], pending' \in [Warp -> SUBSET Copy]
  PROVE  TypeInv'
  BY DEF TypeInv, tileVars, regVars, rowVars

\* Steps that issue, wait, read or move on: nothing is copied or computed.
LEMMA Quiet ==
  ASSUME FlashInv, NEW w \in Warp, Moved(w), UNCHANGED <<tileVars, rowVars>>,
         TypeInv', Stretch', Issued(w)', InFlight(w)', Landed(w)', Registers(w)', Folded(w)',
         Queries'
  PROVE  FlashInv'
  <1>1. ASSUME NEW v \in Warp, v # w PROVE PerWarp(v)'
    <2>1. PerWarp(v) /\ TypeInv
      BY DEF FlashInv
    <2>2. /\ smem' = smem /\ sQ' = sQ /\ acc' = acc /\ cta' = cta
          /\ pc'[v] = pc[v] /\ kv'[v] = kv[v] /\ kv_next'[v] = kv_next[v]
          /\ groups'[v] = groups[v] /\ pending'[v] = pending[v]
          /\ rQ'[v] = rQ[v] /\ rK'[v] = rK[v] /\ rV'[v] = rV[v]
      BY <1>1 DEF Moved, tileVars, rowVars
    <2> QED
      BY <2>1, <2>2, Others
  <1>2. PerWarp(w)'
    BY DEF PerWarp
  <1>3. RowsAreCausal'
    <2>1. RowsAreCausal /\ out' = out /\ cta' = cta
      BY DEF FlashInv, Moved, rowVars
    <2> QED
      BY <2>1 DEF RowsAreCausal
  <1> QED
    BY <1>1, <1>2, <1>3 DEF FlashInv

LEMMA FoldedStays ==
  ASSUME NEW w \in Warp, Folded(w), cta' = cta, kv'[w] = kv[w], UNCHANGED <<tileVars, rowVars>>,
         pc'[w] \in Late \ {"write O"} => pc[w] \in Late \ {"write O"}
  PROVE  Folded(w)'
  <1>1. \A i : Keys(i, kv[w])' = Keys(i, kv[w])
    BY DEF Keys, Position
  <1>2. sQ' = sQ /\ acc' = acc
    BY DEF tileVars, rowVars
  <1> QED
    BY <1>1, <1>2 DEF Folded

LEMMA LandedStays ==
  ASSUME NEW w \in Warp, Landed(w), cta' = cta, Lo(w)' = Lo(w), kv_next'[w] = kv_next[w],
         pending'[w] = pending[w], smem' = smem
  PROVE  Landed(w)'
  BY DEF Landed

LEMMA GotoTypes ==
  ASSUME TypeInv, NEW w \in Warp, NEW p \in Pcs, Goto(w, p)
  PROVE  pc' \in [Warp -> Pcs] /\ pc'[w] = p /\ \A v \in Warp \ {w} : pc'[v] = pc[v]
  BY ControlTypes DEF Goto

LEMMA CommitTypes ==
  ASSUME TypeInv, NEW w \in Warp, NEW C \in SUBSET (Matrix \cup {"Q"}), Commit(w, C)
  PROVE  /\ groups' \in [Warp -> Nat] /\ groups'[w] = groups[w] + 1
         /\ pending' \in [Warp -> SUBSET Copy]
         /\ pending'[w] = pending[w] \cup
              {[group |-> groups[w] + 1, to |-> c, tile |-> kv_next[w],
                stage |-> WriteStage(w)] : c \in C}
         /\ \A v \in Warp \ {w} : groups'[v] = groups[v] /\ pending'[v] = pending[v]
  <1> DEFINE g == groups[w] + 1
             new == {[group |-> groups[w] + 1, to |-> c, tile |-> kv_next[w],
                      stage |-> WriteStage(w)] : c \in C}
  <1>1. groups' = [groups EXCEPT ![w] = g] /\ pending' = [pending EXCEPT ![w] = @ \cup new]
    BY DEF Commit
  <1>2. g \in Nat /\ groups \in [Warp -> Nat] /\ pending \in [Warp -> SUBSET Copy]
    BY ControlTypes
  <1>3. new \in SUBSET Copy
    <2>1. kv_next[w] \in Nat
      BY ControlTypes
    <2>2. WriteStage(w) \in Nat
      BY Geometry, Typed
    <2> QED
      BY <1>2, <2>1, <2>2 DEF Copy
  <1> HIDE DEF g, new
  <1>4. groups' \in [Warp -> Nat] /\ groups'[w] = g
    BY <1>1, <1>2
  <1>5. pending' \in [Warp -> SUBSET Copy] /\ pending'[w] = pending[w] \cup new
    BY <1>1, <1>2, <1>3
  <1>6. \A v \in Warp \ {w} : groups'[v] = groups[v] /\ pending'[v] = pending[v]
    BY <1>1, <1>2
  <1> QED
    BY <1>4, <1>5, <1>6 DEF g, new

\* Q stays in shared memory: the warp had its rows there, still waits for
\* them, or writes O.
LEMMA QueriesStay ==
  ASSUME FlashInv, NEW w \in Warp, Moved(w), sQ' = sQ,
         \/ pc'[w] \in Late
         \/ pc[w] = "load Q" /\ pc'[w] = "wait Q" /\ pending'[w] # {}
         \/ pc[w] = "wait Q" /\ pending[w] = {}
         \/ pc[w] \notin Late \cup {"load Q", "wait Q"}
  PROVE  Queries'
  <1> SUFFICES ASSUME \A v \in Warp : pc'[v] \notin Late, NEW v \in Warp,
                      pc'[v] \notin {"load Q", "wait Q"} \/ (pc'[v] = "wait Q" /\ pending'[v] = {}),
                      NEW i \in Row, Copier(i) = v
               PROVE  sQ[i].holds = "Q"
    BY DEF Queries
  <1>1. CASE pc[w] \in Late
    BY <1>1 DEF Late
  <1>2. CASE pc[w] \notin Late
    <2>1. \A u \in Warp : pc[u] \notin Late
      BY <1>2 DEF Moved
    <2>2. pc[v] \notin {"load Q", "wait Q"} \/ (pc[v] = "wait Q" /\ pending[v] = {})
      BY DEF Moved
    <2> QED
      BY <2>1, <2>2 DEF FlashInv, Queries
  <1> QED
    BY <1>1, <1>2

LEMMA LoadQStep ==
  ASSUME FlashInv, NEW w \in Warp, LoadQ(w)
  PROVE  FlashInv'
  <1> DEFINE new == [group |-> groups[w] + 1, to |-> "Q", tile |-> kv_next[w],
                     stage |-> WriteStage(w)]
  <1>1. TypeInv /\ Stretch /\ PerWarp(w)
    BY DEF FlashInv
  <1>2. /\ pc[w] = "load Q" /\ pc' = [pc EXCEPT ![w] = "wait Q"]
        /\ groups' = [groups EXCEPT ![w] = @ + 1]
        /\ pending' = [pending EXCEPT ![w] = @ \cup {new}]
        /\ cta' = cta /\ kv' = kv /\ kv_next' = kv_next
        /\ UNCHANGED <<tileVars, regVars, rowVars>>
    BY DEF LoadQ, Goto, Commit
  <1>3. /\ groups' \in [Warp -> Nat] /\ pending' \in [Warp -> SUBSET Copy]
        /\ pending'[w] = pending[w] \cup {new}
    <2>1. {"Q"} \in SUBSET (Matrix \cup {"Q"}) /\ Commit(w, {"Q"})
      BY DEF LoadQ
    <2>2. /\ groups' \in [Warp -> Nat] /\ pending' \in [Warp -> SUBSET Copy]
          /\ pending'[w] = pending[w] \cup
               {[group |-> groups[w] + 1, to |-> c, tile |-> kv_next[w],
                 stage |-> WriteStage(w)] : c \in {"Q"}}
      BY <1>1, <2>1, CommitTypes
    <2> QED
      BY <2>2
  <1> HIDE DEF new
  <1>4. TypeInv'
    <2>1. pc' \in [Warp -> Pcs]
      BY <1>1, <1>2, ControlTypes DEF Pcs
    <2> QED
      BY <1>1, <1>2, <1>3, <2>1, ControlTypes, QuietTypes
  <1>5. Moved(w)
    BY <1>1, <1>2 DEF Moved, TypeInv, regVars
  <1>6. /\ pc'[w] = "wait Q" /\ kv'[w] = kv[w] /\ kv_next'[w] = kv_next[w]
        /\ groups'[w] = groups[w] + 1 /\ pending'[w] = pending[w] \cup {new}
    BY <1>1, <1>2 DEF TypeInv
  <1>7. Stretch'
    BY <1>1, <1>2 DEF Stretch, TypeInv, Early
  <1>8. /\ Issued(w) /\ InFlight(w) /\ Registers(w) /\ Folded(w)
        /\ kv[w] = 0 /\ kv_next[w] = 0 /\ groups[w] = 0
    BY <1>1, <1>2 DEF PerWarp, Issued, Early
  <1>9. Issued(w)'
    BY <1>2, <1>6, <1>8, SameCta DEF Issued, Early, Late, Turn, Lo
  <1>10. InFlight(w)'
    <2>1. ASSUME NEW c \in pending[w] PROVE FALSE
      <3>1. c.tile \in Nat
        BY <1>1, Typed
      <3>2. pc[w] # "wait Q"
        BY <1>2
      <3>3. c.tile < kv_next[w]
        BY <1>8, <3>2 DEF InFlight
      <3> QED
        BY <1>8, <3>1, <3>3
    <2>2. new.to = "Q" /\ new.group = groups[w] + 1 /\ new.stage \in 0 .. cta.stages - 1
      BY <1>1, Typed DEF new
    <2>3. new.group = 1
      BY <1>8, <2>2
    <2>4. pending'[w] = pending[w] \cup {new}
      BY <1>6
    <2>5. \A c \in pending'[w] :
            c.to = "Q" /\ c.group = 1 /\ c.stage \in 0 .. cta.stages - 1
      BY <2>1, <2>2, <2>3, <2>4
    <2> QED
      BY <1>2, <1>6, <2>5 DEF InFlight
  <1>11. Landed(w)'
    <2>1. kv_next'[w] = 0 /\ Lo(w)' = 0
      BY <1>6, <1>8 DEF Lo
    <2> QED
      BY <2>1 DEF Landed
  <1>12. Registers(w)'
    BY <1>6 DEF Registers, Early, Turn
  <1>13. Folded(w)'
    BY <1>2, <1>6, <1>8, FoldedStays DEF Late
  <1>14. Queries'
    BY <1>2, <1>5, <1>6, QueriesStay DEF tileVars
  <1> QED
    BY <1>2, <1>4, <1>5, <1>7, <1>9, <1>10, <1>11, <1>12, <1>13, <1>14, Quiet

LEMMA WaitQStep ==
  ASSUME FlashInv, NEW w \in Warp, WaitQ(w)
  PROVE  FlashInv'
  <1>1. TypeInv /\ Stretch /\ PerWarp(w)
    BY DEF FlashInv
  <1>2. /\ pc[w] = "wait Q" /\ pc' = [pc EXCEPT ![w] = "sync Q"] /\ WaitGroup(w, 0)
        /\ cta' = cta /\ kv' = kv /\ kv_next' = kv_next /\ groups' = groups /\ pending' = pending
        /\ UNCHANGED <<tileVars, regVars, rowVars>>
    BY DEF WaitQ, Goto, copyVars
  <1>3. Moved(w)
    BY <1>1, <1>2, ControlTypes DEF Moved, regVars
  <1>4. pc'[w] = "sync Q" /\ pc' \in [Warp -> Pcs]
    BY <1>1, <1>2, ControlTypes DEF Pcs, Barriers
  <1>5. TypeInv'
    BY <1>1, <1>2, <1>4, ControlTypes, QuietTypes
  <1>6. Stretch'
    BY <1>1, <1>2, ControlTypes DEF Stretch, Early
  <1>7. /\ Issued(w) /\ InFlight(w) /\ Registers(w) /\ Folded(w)
        /\ kv[w] = 0 /\ kv_next[w] = 0 /\ groups[w] = 1
    <2>1. Issued(w) /\ InFlight(w) /\ Registers(w) /\ Folded(w)
      BY <1>1 DEF PerWarp
    <2>2. kv[w] = 0 /\ kv_next[w] = 0 /\ groups[w] = kv_next[w] + 1
      BY <1>2, <2>1 DEF Issued, Early
    <2> QED
      BY <2>1, <2>2
  <1>8. pending[w] = {}
    <2>1. ASSUME NEW c \in pending[w] PROVE FALSE
      <3>1. c.tile \in Nat /\ c.group \in Nat /\ c.group > groups[w] - 0
        BY <1>1, <1>2, Typed DEF WaitGroup
      <3>2. c.group = 1 \/ c.tile < kv_next[w]
        BY <1>7 DEF InFlight
      <3> QED
        BY <1>7, <3>1, <3>2
    <2> QED
      BY <2>1
  <1>9. Issued(w)'
    BY <1>2, <1>4, <1>7, SameCta DEF Issued, Early, Late, Turn, Lo
  <1>10. InFlight(w)'
    BY <1>2, <1>8 DEF InFlight
  <1>11. Landed(w)'
    <2>1. kv_next'[w] = 0 /\ Lo(w)' = 0
      BY <1>2, <1>4, <1>7 DEF Lo
    <2> QED
      BY <2>1 DEF Landed
  <1>12. Registers(w)'
    BY <1>4 DEF Registers, Early, Turn
  <1>13. Folded(w)'
    BY <1>2, <1>4, <1>7, FoldedStays DEF Late
  <1>14. Queries'
    BY <1>2, <1>3, <1>8, QueriesStay DEF tileVars
  <1> QED
    BY <1>2, <1>3, <1>5, <1>6, <1>9, <1>10, <1>11, <1>12, <1>13, <1>14, Quiet

LEMMA ReadQStep ==
  ASSUME FlashInv, NEW w \in Warp, ReadQ(w)
  PROVE  FlashInv'
  <1>1. TypeInv /\ Stretch /\ PerWarp(w) /\ Queries
    BY DEF FlashInv
  <1>2. /\ pc[w] = "read Q" /\ pc' = [pc EXCEPT ![w] = "prefetch"]
        /\ rQ' = [rQ EXCEPT ![w] = {i \in RowsOf(w) : sQ[i].holds = "Q"}]
        /\ cta' = cta /\ kv' = kv /\ kv_next' = kv_next /\ groups' = groups /\ pending' = pending
        /\ rK' = rK /\ rV' = rV /\ UNCHANGED <<tileVars, rowVars>>
    BY DEF ReadQ, Goto, copyVars
  <1>3. rQ \in [Warp -> SUBSET Row] /\ {i \in RowsOf(w) : sQ[i].holds = "Q"} \in SUBSET Row
    BY <1>1 DEF TypeInv, RowsOf
  <1>4. Moved(w)
    BY <1>1, <1>2, <1>3, ControlTypes DEF Moved
  <1>5. pc'[w] = "prefetch" /\ pc' \in [Warp -> Pcs]
    BY <1>1, <1>2, ControlTypes DEF Pcs, Barriers
  <1>6. TypeInv'
    <2>1. rQ' \in [Warp -> SUBSET Row]
      BY <1>2, <1>3
    <2> QED
      BY <1>1, <1>2, <1>5, <2>1 DEF TypeInv, tileVars, rowVars
  <1>7. Stretch'
    BY <1>1, <1>2, ControlTypes DEF Stretch, Early
  <1>8. /\ Issued(w) /\ InFlight(w) /\ Landed(w) /\ Registers(w) /\ Folded(w)
        /\ kv[w] = 0 /\ kv_next[w] = 0
    BY <1>1, <1>2 DEF PerWarp, Issued
  <1>9. Issued(w)'
    BY <1>2, <1>5, <1>8, SameCta DEF Issued, Early, Late, Turn, Lo
  <1>10. InFlight(w)'
    BY <1>2, <1>5, <1>8 DEF InFlight, Turn
  <1>11. Landed(w)'
    <2>1. Lo(w)' = Lo(w)
      BY <1>2, <1>5 DEF Lo
    <2> QED
      BY <1>2, <1>8, <2>1, LandedStays DEF tileVars
  <1>12. Registers(w)'
    <2>1. \A v \in Warp : pc[v] \notin Late \cup {"load Q", "wait Q"}
      BY <1>1, <1>2 DEF Stretch, Early, Late
    <2>2. \A i \in RowsOf(w) : sQ[i].holds = "Q"
      <3> SUFFICES ASSUME NEW i \in RowsOf(w) PROVE sQ[i].holds = "Q"
        OBVIOUS
      <3>1. i \in Row /\ i \in Nat
        BY Geometry, FlashAssumption DEF RowsOf, Row
      <3>2. Copier(i) \in Warp
        BY <3>1, CopierIsWarp
      <3> QED
        BY <1>1, <2>1, <3>1, <3>2 DEF Queries
    <2>3. rQ'[w] = RowsOf(w)
      BY <1>2, <1>3, <2>2
    <2> QED
      BY <1>5, <2>3 DEF Registers, Turn
  <1>13. Folded(w)'
    BY <1>2, <1>5, <1>8, FoldedStays DEF Late
  <1>14. Queries'
    BY <1>2, <1>4, QueriesStay DEF tileVars, Late
  <1> QED
    BY <1>2, <1>4, <1>6, <1>7, <1>9, <1>10, <1>11, <1>12, <1>13, <1>14, Quiet

\* A tile issued into the stage that the loop has left.
LEMMA Issue ==
  ASSUME FlashInv, NEW w \in Warp, IssueTile(w), cta' = cta, kv' = kv, smem' = smem,
         \/ pc[w] = "prefetch" /\ pc'[w] = "prefetch"
         \/ pc[w] = "issue" /\ pc'[w] = "fold" /\ kv[w] < kv_next[w]
  PROVE  /\ groups' \in [Warp -> Nat] /\ kv_next' \in [Warp -> Nat]
         /\ pending' \in [Warp -> SUBSET Copy]
         /\ groups'[w] = groups[w] + 1 /\ kv_next'[w] = kv_next[w] + 1
         /\ \A v \in Warp \ {w} :
              groups'[v] = groups[v] /\ kv_next'[v] = kv_next[v] /\ pending'[v] = pending[v]
         /\ InFlight(w)' /\ Landed(w)'
  <1> DEFINE new == {[group |-> groups[w] + 1, to |-> c, tile |-> kv_next[w],
                      stage |-> WriteStage(w)] : c \in Matrix}
             k == kv_next[w] + 1
  <1>1. TypeInv /\ Issued(w) /\ InFlight(w) /\ Landed(w)
    BY DEF FlashInv, PerWarp
  <1>2. /\ groups' \in [Warp -> Nat] /\ groups'[w] = groups[w] + 1
        /\ pending' \in [Warp -> SUBSET Copy] /\ pending'[w] = pending[w] \cup new
        /\ \A v \in Warp \ {w} : groups'[v] = groups[v] /\ pending'[v] = pending[v]
    <2>1. Commit(w, Matrix) /\ Matrix \in SUBSET (Matrix \cup {"Q"})
      BY DEF IssueTile
    <2> QED
      BY <1>1, <2>1, CommitTypes
  <1>3. /\ kv_next' \in [Warp -> Nat] /\ kv_next'[w] = k
        /\ \A v \in Warp \ {w} : kv_next'[v] = kv_next[v]
    <2>1. kv_next' = [kv_next EXCEPT ![w] = k]
      BY DEF IssueTile
    <2>2. k \in Nat /\ kv_next \in [Warp -> Nat]
      BY <1>1, ControlTypes
    <2> HIDE DEF k
    <2> QED
      BY <2>1, <2>2
  <1>4. kv[w] \in Nat /\ kv_next[w] \in Nat /\ groups[w] = kv_next[w] + 1 /\ kv'[w] = kv[w]
    BY <1>1, ControlTypes DEF Issued
  <1>5. \A c \in new : /\ c.to \in Matrix /\ c.group = kv_next[w] + 2 /\ c.tile = kv_next[w]
                       /\ c.stage = kv_next[w] % cta.stages
    <2>1. groups[w] + 1 = kv_next[w] + 2
      BY <1>4
    <2> QED
      BY <2>1 DEF WriteStage
  <1>6. new # {} /\ \A m \in Matrix : \E c \in new : c.to = m /\ c.tile = kv_next[w]
    <2>1. \A m \in Matrix :
            [group |-> groups[w] + 1, to |-> m, tile |-> kv_next[w], stage |-> WriteStage(w)] \in new
      OBVIOUS
    <2> DEFINE copy(m) == [group |-> groups[w] + 1, to |-> m, tile |-> kv_next[w],
                           stage |-> WriteStage(w)]
    <2>2. \A m \in Matrix : copy(m) \in new /\ copy(m).to = m /\ copy(m).tile = kv_next[w]
      BY <2>1
    <2> HIDE DEF copy, new
    <2> QED
      BY <2>2 DEF Matrix
  <1> HIDE DEF new
  <1>7. InFlight(w)'
    <2> SUFFICES ASSUME NEW c \in pending'[w]
                 PROVE  \/ /\ c.to = "Q" /\ c.group = 1 /\ c.stage \in 0 .. cta.stages - 1
                           /\ pc'[w] = "wait Q"
                        \/ /\ c.to \in Matrix /\ c.group = c.tile + 2
                           /\ c.stage = c.tile % cta.stages
                           /\ kv[w] <= c.tile /\ c.tile < kv_next[w] + 1
                           /\ pc'[w] \in Turn => kv[w] < c.tile
      BY <1>3, <1>4 DEF InFlight
    <2>1. CASE c \in new
      <3>1. kv[w] <= kv_next[w] /\ (pc'[w] \in Turn => kv[w] < kv_next[w])
        <4>1. CASE pc[w] = "prefetch" /\ pc'[w] = "prefetch"
          <5>1. kv[w] = 0
            BY <1>1, <4>1 DEF Issued
          <5> QED
            BY <1>4, <4>1, <5>1 DEF Turn
        <4>2. CASE kv[w] < kv_next[w]
          BY <1>4, <4>2
        <4> QED
          BY <4>1, <4>2
      <3>2. /\ c.to \in Matrix /\ c.group = kv_next[w] + 2 /\ c.tile = kv_next[w]
            /\ c.stage = kv_next[w] % cta.stages
        BY <1>5, <2>1
      <3>3. kv_next[w] < kv_next[w] + 1
        BY <1>4
      <3> QED
        BY <3>1, <3>2, <3>3
    <2>2. CASE c \in pending[w]
      <3>1. c.tile \in Nat
        BY <1>1, <2>2, Typed
      <3>2. pc[w] # "wait Q" /\ (pc'[w] \in Turn => pc[w] \in Turn)
        BY DEF Turn
      <3>3. /\ c.to \in Matrix /\ c.group = c.tile + 2 /\ c.stage = c.tile % cta.stages
            /\ kv[w] <= c.tile /\ c.tile < kv_next[w] /\ (pc[w] \in Turn => kv[w] < c.tile)
        BY <1>1, <2>2, <3>2 DEF InFlight
      <3>4. c.tile < kv_next[w] + 1
        BY <1>4, <3>1, <3>3
      <3> QED
        BY <3>2, <3>3, <3>4
    <2> QED
      BY <1>2, <2>1, <2>2
  <1>8. Landed(w)'
    <2>1. Lo(w) \in Nat /\ Lo(w)' \in Nat /\ Lo(w) <= Lo(w)'
      BY <1>4 DEF Lo
    <2> SUFFICES ASSUME NEW m \in Matrix, NEW t \in Nat, Lo(w)' <= t, t < kv_next[w] + 1,
                        \A c \in pending'[w] : c.to = m => c.tile # t,
                        NEW j \in KeyRow, Copier(j) = w
                 PROVE  smem[m][t % cta.stages][j] = t * BlockN + j
      BY <1>3 DEF Landed
    <2>2. t # kv_next[w]
      BY <1>2, <1>6
    <2>3. Lo(w) <= t /\ t < kv_next[w]
      BY <1>4, <2>1, <2>2
    <2>4. \A c \in pending[w] : c.to = m => c.tile # t
      BY <1>2
    <2> QED
      BY <1>1, <2>3, <2>4 DEF Landed
  <1> QED
    BY <1>2, <1>3, <1>7, <1>8

LEMMA PrefetchStep ==
  ASSUME FlashInv, NEW w \in Warp, Prefetch(w)
  PROVE  FlashInv'
  <1>1. TypeInv /\ Stretch /\ PerWarp(w)
    BY DEF FlashInv
  <1>2. /\ pc[w] = "prefetch" /\ kv_next[w] < Min({NumVisible, PrefetchSlots}) /\ IssueTile(w)
        /\ cta' = cta /\ pc' = pc /\ kv' = kv /\ UNCHANGED <<tileVars, regVars, rowVars>>
    BY DEF Prefetch
  <1>3. /\ groups' \in [Warp -> Nat] /\ kv_next' \in [Warp -> Nat]
        /\ pending' \in [Warp -> SUBSET Copy]
        /\ groups'[w] = groups[w] + 1 /\ kv_next'[w] = kv_next[w] + 1
        /\ \A v \in Warp \ {w} :
             groups'[v] = groups[v] /\ kv_next'[v] = kv_next[v] /\ pending'[v] = pending[v]
        /\ InFlight(w)' /\ Landed(w)'
    BY <1>2, Issue DEF tileVars
  <1>4. Moved(w)
    BY <1>2, <1>3 DEF Moved, regVars
  <1>5. TypeInv'
    BY <1>1, <1>2, <1>3, ControlTypes, QuietTypes
  <1>6. Stretch'
    <2>1. NumVisible' = NumVisible
      BY <1>2, SameCta
    <2> QED
      BY <1>1, <1>2, <2>1 DEF Stretch
  <1>7. /\ Issued(w) /\ Registers(w) /\ Folded(w) /\ kv[w] = 0
        /\ kv_next[w] \in Nat /\ groups[w] = kv_next[w] + 1
    BY <1>1, <1>2, ControlTypes DEF PerWarp, Issued
  <1>8. kv_next[w] + 1 <= NumVisible /\ kv_next[w] + 1 <= PrefetchSlots
    <2>1. NumVisible \in Nat /\ PrefetchSlots \in Nat
      BY <1>1, Geometry
    <2> DEFINE m == Min({NumVisible, PrefetchSlots})
    <2>2. m \in {NumVisible, PrefetchSlots} /\ m <= NumVisible /\ m <= PrefetchSlots
      BY <2>1, MinOfTwo
    <2>3. kv_next[w] < m
      BY <1>2
    <2> HIDE DEF m
    <2> QED
      BY <1>7, <2>1, <2>2, <2>3
  <1>9. Issued(w)'
    <2>1. Lo(w)' = 0
      BY <1>2, <1>7 DEF Lo
    <2>2. /\ NumVisible' = NumVisible /\ PrefetchSlots' = PrefetchSlots
          /\ PrefetchSlots \in Nat /\ NumVisible \in Nat
      BY <1>1, <1>2, SameCta, Geometry
    <2>3. groups'[w] = kv_next'[w] + 1
      BY <1>3, <1>7
    <2>4. kv_next'[w] <= NumVisible /\ kv_next'[w] <= 0 + PrefetchSlots
      BY <1>3, <1>7, <1>8, <2>2
    <2> QED
      BY <1>2, <1>7, <2>1, <2>2, <2>3, <2>4 DEF Issued, Early, Late, Turn
  <1>10. Registers(w)'
    BY <1>2, <1>7 DEF Registers, Turn, Tile, regVars
  <1>11. Folded(w)'
    BY <1>2, <1>7, FoldedStays
  <1>12. Queries'
    BY <1>2, <1>4, QueriesStay DEF tileVars, Late
  <1> QED
    BY <1>2, <1>3, <1>4, <1>5, <1>6, <1>9, <1>10, <1>11, <1>12, Quiet

LEMMA StartLoopStep ==
  ASSUME FlashInv, NEW w \in Warp, StartLoop(w)
  PROVE  FlashInv'
  <1>1. TypeInv /\ Stretch /\ PerWarp(w)
    BY DEF FlashInv
  <1>2. NumVisible \in Nat /\ NumVisible > 0 /\ PrefetchSlots \in Nat
    BY <1>1, Geometry
  <1>3. /\ pc[w] = "prefetch" /\ pc' = [pc EXCEPT ![w] = "wait tile"]
        /\ ~(kv_next[w] < Min({NumVisible, PrefetchSlots}))
        /\ cta' = cta /\ kv' = kv /\ kv_next' = kv_next /\ groups' = groups /\ pending' = pending
        /\ UNCHANGED <<tileVars, regVars, rowVars>>
    BY <1>2 DEF StartLoop, LoopOn, Goto, copyVars
  <1>4. Moved(w)
    BY <1>1, <1>3, ControlTypes DEF Moved, regVars
  <1>5. pc'[w] = "wait tile" /\ pc' \in [Warp -> Pcs]
    BY <1>1, <1>3, ControlTypes DEF Pcs
  <1>6. TypeInv'
    BY <1>1, <1>3, <1>5, ControlTypes, QuietTypes
  <1>7. Stretch'
    BY <1>1, <1>3, ControlTypes DEF Stretch, Early
  <1>8. /\ Issued(w) /\ InFlight(w) /\ Landed(w) /\ Registers(w) /\ Folded(w) /\ kv[w] = 0
    BY <1>1, <1>3 DEF PerWarp, Issued
  <1>9. Lo(w)' = kv[w] /\ Lo(w) = kv[w]
    BY <1>3, <1>5 DEF Lo
  <1>10. kv_next[w] = NumVisible \/ kv_next[w] = PrefetchSlots
    <2>1. kv_next[w] \in Nat /\ kv_next[w] <= NumVisible /\ kv_next[w] <= PrefetchSlots
      <3>1. kv_next[w] \in Nat
        BY <1>1, ControlTypes
      <3>2. kv_next[w] <= NumVisible /\ kv_next[w] <= 0 + PrefetchSlots
        BY <1>8, <1>9 DEF Issued
      <3> QED
        BY <1>2, <3>1, <3>2
    <2> DEFINE m == Min({NumVisible, PrefetchSlots})
    <2>2. m \in {NumVisible, PrefetchSlots} /\ ~(kv_next[w] < m)
      BY <1>2, <1>3, MinOfTwo
    <2> HIDE DEF m
    <2> QED
      BY <1>2, <2>1, <2>2
  <1>11. Issued(w)'
    <2>1. NumVisible' = NumVisible /\ PrefetchSlots' = PrefetchSlots
      BY <1>3, SameCta
    <2>2. kv_next[w] = NumVisible \/ kv_next[w] = Lo(w)' + PrefetchSlots
      BY <1>2, <1>8, <1>9, <1>10
    <2>3. /\ groups'[w] = kv_next'[w] + 1 /\ kv'[w] < NumVisible
          /\ kv_next'[w] <= NumVisible /\ kv_next'[w] <= Lo(w)' + PrefetchSlots
      BY <1>2, <1>3, <1>8, <1>9 DEF Issued
    <2> QED
      BY <1>3, <1>5, <2>1, <2>2, <2>3 DEF Issued, Early, Late, Turn
  <1>12. InFlight(w)'
    BY <1>3, <1>5, <1>8 DEF InFlight, Turn
  <1>13. Landed(w)'
    BY <1>3, <1>8, <1>9, LandedStays DEF tileVars
  <1>14. Registers(w)'
    BY <1>3, <1>5, <1>8 DEF Registers, Turn, Early, regVars
  <1>15. Folded(w)'
    BY <1>3, <1>5, <1>8, FoldedStays DEF Late
  <1>16. Queries'
    BY <1>3, <1>4, QueriesStay DEF tileVars, Late
  <1> QED
    BY <1>3, <1>4, <1>6, <1>7, <1>11, <1>12, <1>13, <1>14, <1>15, <1>16, Quiet

\* The groups that a steady wait leaves in flight are of later tiles.
LEMMA SteadyTile ==
  ASSUME NEW tile \in Nat, NEW n \in Nat, NEW slots \in Nat, NEW steady \in Int,
         slots = steady + 1, tile + 2 > n + slots + 1 - steady
  PROVE  n < tile
  OBVIOUS

LEMMA WaitTileStep ==
  ASSUME FlashInv, NEW w \in Warp, WaitTile(w)
  PROVE  FlashInv'
  <1>1. TypeInv /\ Stretch /\ PerWarp(w)
    BY DEF FlashInv
  <1>2. /\ pc[w] = "wait tile" /\ pc' = [pc EXCEPT ![w] = "sync full"]
        /\ WaitGroup(w, IF HasNext(w) THEN SteadyWaitGroups ELSE 0)
        /\ cta' = cta /\ kv' = kv /\ kv_next' = kv_next /\ groups' = groups /\ pending' = pending
        /\ UNCHANGED <<tileVars, regVars, rowVars>>
    BY DEF WaitTile, Goto, copyVars
  <1>3. Moved(w)
    BY <1>1, <1>2, ControlTypes DEF Moved, regVars
  <1>4. pc'[w] = "sync full" /\ pc' \in [Warp -> Pcs]
    BY <1>1, <1>2, ControlTypes DEF Pcs, Barriers
  <1>5. TypeInv'
    BY <1>1, <1>2, <1>4, ControlTypes, QuietTypes
  <1>6. Stretch'
    <2>1. NumVisible' = NumVisible
      BY <1>2, SameCta
    <2> QED
      BY <1>1, <1>2, <2>1, ControlTypes DEF Stretch, Early
  <1>7. Issued(w) /\ InFlight(w) /\ Landed(w) /\ Registers(w) /\ Folded(w)
    BY <1>1 DEF PerWarp
  <1>8. /\ kv[w] \in Nat /\ kv_next[w] \in Nat /\ groups[w] = kv_next[w] + 1
        /\ kv_next[w] <= NumVisible
        /\ kv_next[w] = NumVisible \/ kv_next[w] = kv[w] + PrefetchSlots
    BY <1>1, <1>2, <1>7, ControlTypes DEF Issued, Lo
  <1>9. Lo(w) = kv[w] /\ Lo(w)' = kv[w]
    BY <1>2, <1>4 DEF Lo
  <1>10. ASSUME NEW c \in pending[w] PROVE c.to # "Q" /\ kv[w] < c.tile
    <2>1. /\ c.to \in Matrix /\ c.group = c.tile + 2 /\ kv[w] <= c.tile /\ c.tile < kv_next[w]
          /\ c.tile \in Nat
      BY <1>1, <1>2, <1>7, Typed DEF InFlight
    <2>2. c.group > groups[w] - (IF HasNext(w) THEN SteadyWaitGroups ELSE 0)
      BY <1>2 DEF WaitGroup
    <2>3. NumVisible \in Nat /\ PrefetchSlots \in Nat /\ cta.stages \in Nat
      BY <1>1, Geometry
    <2>4. CASE HasNext(w)
      <3>1. kv_next[w] = kv[w] + PrefetchSlots
        BY <1>8, <2>3, <2>4 DEF HasNext
      <3>2. c.group > groups[w] - SteadyWaitGroups
        BY <2>2, <2>4
      <3>3. groups[w] = kv[w] + PrefetchSlots + 1
        BY <1>8, <3>1
      <3>4. PrefetchSlots = SteadyWaitGroups + 1 /\ SteadyWaitGroups \in Int
        BY <1>1, Geometry
      <3>5. kv[w] < c.tile
        BY <1>8, <2>1, <2>3, <3>2, <3>3, <3>4, SteadyTile
      <3> QED
        BY <2>1, <3>5 DEF Matrix
    <2>5. CASE ~HasNext(w)
      <3>1. c.tile + 2 > kv_next[w] + 1 - 0
        BY <1>8, <2>1, <2>2, <2>5
      <3> QED
        BY <1>8, <2>1, <3>1
    <2> QED
      BY <2>4, <2>5
  <1>11. Issued(w)'
    <2>1. NumVisible' = NumVisible /\ PrefetchSlots' = PrefetchSlots
      BY <1>2, SameCta
    <2>2. kv[w] < NumVisible /\ kv_next[w] <= kv[w] + PrefetchSlots
      BY <1>2, <1>7, <1>9 DEF Issued
    <2> QED
      BY <1>2, <1>4, <1>8, <1>9, <2>1, <2>2 DEF Issued, Early, Late, Turn
  <1>12. InFlight(w)'
    BY <1>2, <1>7, <1>10 DEF InFlight
  <1>13. Landed(w)'
    BY <1>2, <1>7, <1>9, LandedStays DEF tileVars
  <1>14. Registers(w)'
    BY <1>2, <1>4, <1>7 DEF Registers, Turn, Early, regVars
  <1>15. Folded(w)'
    BY <1>2, <1>4, <1>7, FoldedStays DEF Late
  <1>16. Queries'
    BY <1>2, <1>3, QueriesStay DEF tileVars, Late
  <1> QED
    BY <1>2, <1>3, <1>5, <1>6, <1>11, <1>12, <1>13, <1>14, <1>15, <1>16, Quiet

\* Between the barriers of an iteration the tile is there, with the rows of
\* every warp.
Reading(w) == pc[w] \in {"read K", "read V"}

LEMMA TileIsThere ==
  ASSUME FlashInv, NEW w \in Warp, Reading(w), NEW m \in Matrix
  PROVE  smem[m][ReadStage(w)] = Tile(kv[w])
  <1>1. TypeInv /\ Stretch /\ \A v \in Warp : PerWarp(v)
    BY DEF FlashInv
  <1>2. \A v \in Warp : pc[v] \in {"read K", "read V", "sync free"} /\ kv[v] = kv[w]
    BY <1>1 DEF Stretch, Early, Reading
  <1> DEFINE n == kv[w]
  <1>3. n \in Nat
    BY <1>1, ControlTypes
  <1>4. ASSUME NEW j \in KeyRow PROVE smem[m][ReadStage(w)][j] = n * BlockN + j
    <2> DEFINE v == Copier(j)
    <2>1. v \in Warp
      <3>1. j \in Nat
        BY <1>1, Geometry DEF KeyRow
      <3> QED
        BY <3>1, CopierIsWarp
    <2> HIDE DEF v
    <2>2. Issued(v) /\ InFlight(v) /\ Landed(v)
      BY <1>1, <2>1 DEF PerWarp
    <2>3. pc[v] \in Turn /\ pc[v] # "wait Q" /\ Lo(v) = n /\ kv[v] = n
      BY <1>2, <2>1 DEF Turn, Lo
    <2>4. n < kv_next[v]
      <3>1. kv_next[v] \in Nat /\ NumVisible \in Nat /\ PrefetchSlots \in Nat /\ PrefetchSlots > 0
        BY <1>1, <2>1, ControlTypes, Geometry
      <3>2. n < NumVisible /\ (kv_next[v] = NumVisible \/ kv_next[v] = n + PrefetchSlots)
        BY <2>2, <2>3 DEF Issued
      <3> HIDE DEF n
      <3> QED
        BY <1>3, <3>1, <3>2
    <2>5. \A c \in pending[v] : c.to = m => c.tile # n
      <3>1. ASSUME NEW c \in pending[v] PROVE c.tile # n
        <4>1. c.tile \in Nat /\ n < c.tile
          BY <1>1, <2>1, <2>2, <2>3, Typed DEF InFlight
        <4> HIDE DEF n
        <4> QED
          BY <1>3, <4>1
      <3> QED
        BY <3>1
    <2>6. n <= n
      BY <1>3
    <2>7. smem[m][n % cta.stages][j] = n * BlockN + j
      BY <1>3, <2>2, <2>3, <2>4, <2>5, <2>6 DEF Landed, v
    <2> QED
      BY <2>7 DEF ReadStage
  <1>5. smem[m][ReadStage(w)] \in [KeyRow -> Nat \cup {None}]
    <2>1. smem \in [Matrix -> [0 .. cta.stages - 1 -> [KeyRow -> Nat \cup {None}]]]
      BY <1>1 DEF TypeInv
    <2>2. ReadStage(w) \in 0 .. cta.stages - 1
      BY <1>1, Typed
    <2> QED
      BY <2>1, <2>2
  <1>6. smem[m][ReadStage(w)] = [j \in KeyRow |-> smem[m][ReadStage(w)][j]]
    BY <1>5
  <1> QED
    BY <1>4, <1>6 DEF Tile

LEMMA ReadKStep ==
  ASSUME FlashInv, NEW w \in Warp, ReadK(w)
  PROVE  FlashInv'
  <1>1. TypeInv /\ Stretch /\ PerWarp(w)
    BY DEF FlashInv
  <1>2. /\ pc[w] = "read K" /\ pc' = [pc EXCEPT ![w] = "read V"]
        /\ rK' = [rK EXCEPT ![w] = smem["K"][ReadStage(w)]]
        /\ cta' = cta /\ kv' = kv /\ kv_next' = kv_next /\ groups' = groups /\ pending' = pending
        /\ rQ' = rQ /\ rV' = rV /\ UNCHANGED <<tileVars, rowVars>>
    BY DEF ReadK, Goto, copyVars
  <1>3. /\ rK \in [Warp -> [KeyRow -> Nat \cup {None}]]
        /\ smem["K"][ReadStage(w)] \in [KeyRow -> Nat \cup {None}]
    BY <1>1, Typed DEF TypeInv, Matrix
  <1>4. Moved(w)
    BY <1>1, <1>2, <1>3, ControlTypes DEF Moved
  <1>5. pc'[w] = "read V" /\ pc' \in [Warp -> Pcs]
    BY <1>1, <1>2, ControlTypes DEF Pcs, Barriers
  <1>6. TypeInv'
    <2>1. rK' \in [Warp -> [KeyRow -> Nat \cup {None}]]
      BY <1>2, <1>3
    <2> QED
      BY <1>1, <1>2, <1>5, <2>1 DEF TypeInv, tileVars, rowVars
  <1>7. Stretch'
    BY <1>1, <1>2, ControlTypes DEF Stretch, Early
  <1>8. Issued(w) /\ InFlight(w) /\ Landed(w) /\ Registers(w) /\ Folded(w)
    BY <1>1 DEF PerWarp
  <1>9. Lo(w)' = Lo(w)
    BY <1>2, <1>5 DEF Lo
  <1>10. Issued(w)'
    BY <1>2, <1>5, <1>8, <1>9, SameCta DEF Issued, Early, Late, Turn
  <1>11. InFlight(w)'
    BY <1>2, <1>5, <1>8 DEF InFlight, Turn
  <1>12. Landed(w)'
    BY <1>2, <1>8, <1>9, LandedStays DEF tileVars
  <1>13. Registers(w)'
    <2>1. smem["K"][ReadStage(w)] = Tile(kv[w])
      BY <1>2, TileIsThere DEF Reading, Matrix
    <2>2. rK'[w] = Tile(kv[w])
      BY <1>2, <1>3, <2>1
    <2>3. Tile(kv[w])' = Tile(kv[w])
      BY <1>2 DEF Tile
    <2> QED
      BY <1>2, <1>5, <1>8, <2>2, <2>3 DEF Registers, Turn, Early
  <1>14. Folded(w)'
    BY <1>2, <1>5, <1>8, FoldedStays DEF Late
  <1>15. Queries'
    BY <1>2, <1>4, QueriesStay DEF tileVars, Late
  <1> QED
    BY <1>2, <1>4, <1>6, <1>7, <1>10, <1>11, <1>12, <1>13, <1>14, <1>15, Quiet

LEMMA ReadVStep ==
  ASSUME FlashInv, NEW w \in Warp, ReadV(w)
  PROVE  FlashInv'
  <1>1. TypeInv /\ Stretch /\ PerWarp(w)
    BY DEF FlashInv
  <1>2. /\ pc[w] = "read V" /\ pc' = [pc EXCEPT ![w] = "sync free"]
        /\ rV' = [rV EXCEPT ![w] = smem["V"][ReadStage(w)]]
        /\ cta' = cta /\ kv' = kv /\ kv_next' = kv_next /\ groups' = groups /\ pending' = pending
        /\ rQ' = rQ /\ rK' = rK /\ UNCHANGED <<tileVars, rowVars>>
    BY DEF ReadV, Goto, copyVars
  <1>3. /\ rV \in [Warp -> [KeyRow -> Nat \cup {None}]]
        /\ smem["V"][ReadStage(w)] \in [KeyRow -> Nat \cup {None}]
    BY <1>1, Typed DEF TypeInv, Matrix
  <1>4. Moved(w)
    BY <1>1, <1>2, <1>3, ControlTypes DEF Moved
  <1>5. pc'[w] = "sync free" /\ pc' \in [Warp -> Pcs]
    BY <1>1, <1>2, ControlTypes DEF Pcs, Barriers
  <1>6. TypeInv'
    <2>1. rV' \in [Warp -> [KeyRow -> Nat \cup {None}]]
      BY <1>2, <1>3
    <2> QED
      BY <1>1, <1>2, <1>5, <2>1 DEF TypeInv, tileVars, rowVars
  <1>7. Stretch'
    BY <1>1, <1>2, ControlTypes DEF Stretch, Early
  <1>8. Issued(w) /\ InFlight(w) /\ Landed(w) /\ Registers(w) /\ Folded(w)
    BY <1>1 DEF PerWarp
  <1>9. Lo(w)' = Lo(w)
    BY <1>2, <1>5 DEF Lo
  <1>10. Issued(w)'
    BY <1>2, <1>5, <1>8, <1>9, SameCta DEF Issued, Early, Late, Turn
  <1>11. InFlight(w)'
    BY <1>2, <1>5, <1>8 DEF InFlight, Turn
  <1>12. Landed(w)'
    BY <1>2, <1>8, <1>9, LandedStays DEF tileVars
  <1>13. Registers(w)'
    <2>1. smem["V"][ReadStage(w)] = Tile(kv[w])
      BY <1>2, TileIsThere DEF Reading, Matrix
    <2>2. rV'[w] = Tile(kv[w])
      BY <1>2, <1>3, <2>1
    <2>3. Tile(kv[w])' = Tile(kv[w])
      BY <1>2 DEF Tile
    <2> QED
      BY <1>2, <1>5, <1>8, <2>2, <2>3 DEF Registers, Turn, Early
  <1>14. Folded(w)'
    BY <1>2, <1>5, <1>8, FoldedStays DEF Late
  <1>15. Queries'
    BY <1>2, <1>4, QueriesStay DEF tileVars, Late
  <1> QED
    BY <1>2, <1>4, <1>6, <1>7, <1>10, <1>11, <1>12, <1>13, <1>14, <1>15, Quiet

LEMMA IssueNextStep ==
  ASSUME FlashInv, NEW w \in Warp, IssueNext(w)
  PROVE  FlashInv'
  <1>1. TypeInv /\ Stretch /\ PerWarp(w)
    BY DEF FlashInv
  <1>2. /\ pc[w] = "issue" /\ pc' = [pc EXCEPT ![w] = "fold"]
        /\ cta' = cta /\ kv' = kv /\ UNCHANGED <<tileVars, regVars, rowVars>>
    BY DEF IssueNext, Goto
  <1>3. pc'[w] = "fold" /\ pc' \in [Warp -> Pcs] /\ \A v \in Warp \ {w} : pc'[v] = pc[v]
    BY <1>1, <1>2, ControlTypes DEF Pcs
  <1>4. Issued(w) /\ InFlight(w) /\ Landed(w) /\ Registers(w) /\ Folded(w)
    BY <1>1 DEF PerWarp
  <1>5. /\ kv[w] \in Nat /\ kv_next[w] \in Nat /\ groups[w] \in Nat
        /\ NumVisible \in Nat /\ PrefetchSlots \in Nat /\ PrefetchSlots > 0
    BY <1>1, ControlTypes, Geometry
  <1>6. /\ groups[w] = kv_next[w] + 1 /\ kv[w] < NumVisible /\ kv_next[w] <= NumVisible
        /\ kv_next[w] = NumVisible \/ kv_next[w] = kv[w] + PrefetchSlots
    BY <1>2, <1>4 DEF Issued, Turn, Lo
  <1>7. Lo(w) = kv[w] /\ Lo(w)' = kv[w] + 1
    BY <1>2, <1>3 DEF Lo
  <1>8. kv[w] < kv_next[w]
    BY <1>5, <1>6
  <1>9. /\ groups' \in [Warp -> Nat] /\ kv_next' \in [Warp -> Nat]
        /\ pending' \in [Warp -> SUBSET Copy]
        /\ \A v \in Warp \ {w} :
             groups'[v] = groups[v] /\ kv_next'[v] = kv_next[v] /\ pending'[v] = pending[v]
        /\ InFlight(w)' /\ Landed(w)'
        /\ groups'[w] = kv_next'[w] + 1 /\ kv_next'[w] <= NumVisible
        /\ kv_next'[w] <= kv[w] + 1 + PrefetchSlots
        /\ kv_next'[w] = NumVisible \/ kv_next'[w] = kv[w] + 1 + PrefetchSlots
    <2>1. CASE HasNext(w)
      <3>1. IssueTile(w)
        BY <2>1 DEF IssueNext
      <3>2. /\ groups' \in [Warp -> Nat] /\ kv_next' \in [Warp -> Nat]
            /\ pending' \in [Warp -> SUBSET Copy]
            /\ groups'[w] = groups[w] + 1 /\ kv_next'[w] = kv_next[w] + 1
            /\ \A v \in Warp \ {w} :
                 groups'[v] = groups[v] /\ kv_next'[v] = kv_next[v] /\ pending'[v] = pending[v]
            /\ InFlight(w)' /\ Landed(w)'
        BY <1>2, <1>3, <1>8, <3>1, Issue DEF tileVars
      <3>3. kv_next[w] < NumVisible
        BY <2>1 DEF HasNext
      <3>4. kv_next[w] = kv[w] + PrefetchSlots
        BY <1>5, <1>6, <3>3
      <3>5. /\ groups'[w] = kv_next'[w] + 1 /\ kv_next'[w] <= NumVisible
            /\ kv_next'[w] = kv[w] + 1 + PrefetchSlots
        BY <1>5, <1>6, <3>2, <3>3, <3>4
      <3>6. kv_next'[w] <= kv[w] + 1 + PrefetchSlots
        BY <1>5, <3>5
      <3> QED
        BY <3>2, <3>5, <3>6
    <2>2. CASE ~HasNext(w)
      <3>1. groups' = groups /\ kv_next' = kv_next /\ pending' = pending
        BY <2>2 DEF IssueNext, copyVars
      <3>2. ~(kv_next[w] < NumVisible)
        BY <2>2 DEF HasNext
      <3>3. kv_next[w] = NumVisible /\ kv_next[w] <= kv[w] + 1 + PrefetchSlots
        <4>1. kv_next[w] <= kv[w] + PrefetchSlots
          BY <1>4, <1>7 DEF Issued
        <4> QED
          BY <1>5, <1>6, <3>2, <4>1
      <3>4. InFlight(w)'
        BY <1>2, <1>3, <1>4, <3>1 DEF InFlight, Turn
      <3>5. Landed(w)'
        <4>1. \A t \in Nat : kv[w] + 1 <= t => kv[w] <= t
          BY <1>5
        <4>2. smem' = smem
          BY <1>2 DEF tileVars
        <4> QED
          BY <1>2, <1>4, <1>7, <3>1, <4>1, <4>2 DEF Landed
      <3> QED
        BY <1>1, <1>6, <3>1, <3>3, <3>4, <3>5, ControlTypes
    <2> QED
      BY <2>1, <2>2
  <1>10. Moved(w)
    BY <1>2, <1>3, <1>9 DEF Moved, regVars
  <1>11. TypeInv'
    BY <1>1, <1>2, <1>3, <1>9, ControlTypes, QuietTypes
  <1>12. Stretch'
    <2>1. NumVisible' = NumVisible
      BY <1>2, SameCta
    <2> QED
      BY <1>1, <1>2, <2>1, ControlTypes DEF Stretch, Early
  <1>13. Issued(w)'
    <2>1. NumVisible' = NumVisible /\ PrefetchSlots' = PrefetchSlots
      BY <1>2, SameCta
    <2> QED
      BY <1>2, <1>3, <1>6, <1>7, <1>9, <2>1 DEF Issued, Early, Late, Turn
  <1>14. Registers(w)'
    BY <1>2, <1>3, <1>4 DEF Registers, Turn, Early, Tile, regVars
  <1>15. Folded(w)'
    BY <1>2, <1>3, <1>4, FoldedStays DEF Late
  <1>16. Queries'
    BY <1>2, <1>10, QueriesStay DEF tileVars, Late
  <1> QED
    BY <1>2, <1>9, <1>10, <1>11, <1>12, <1>13, <1>14, <1>15, <1>16, Quiet

\* A tile of keys folded into a row adds the keys of the tile that the row
\* may see; key 0 is one of them when nothing was folded before.
LEMMA FoldKeys ==
  ASSUME TypeInv, NEW w \in Warp, NEW i \in RowsOf(w),
         rK[w] = Tile(kv[w]), rV[w] = Tile(kv[w]),
         acc[i] = [seen |-> kv[w] # 0, keys |-> Keys(i, kv[w])]
  PROVE  FoldedRow(w, i) = [seen |-> TRUE, keys |-> Keys(i, kv[w] + 1)]
  <1> DEFINE n      == kv[w]
             nb     == n * BlockN
             p      == Position(i)
             live   == {j \in KeyRow : ~Future(i, n * BlockN + j)}
             seen   == acc[i].seen \/ live # {}
             tile   == {<<n * BlockN + j, rK[w][j], rV[w][j]>> : j \in live}
             before == {x \in 0 .. p : x < nb}
             after  == {x \in 0 .. p : x < nb + BlockN}
  <1>1. /\ n \in Nat /\ BlockN \in Nat /\ BlockN > 0 /\ p \in Nat
    <2>1. i \in Row
      BY DEF RowsOf
    <2> QED
      BY <2>1, Geometry, ControlTypes
  <1>2. nb \in Nat /\ (n + 1) * BlockN = nb + BlockN /\ (n = 0 => nb = 0)
    BY <1>1
  <1>3. live = {j \in KeyRow : nb + j <= p}
    <2>1. ASSUME NEW j \in KeyRow PROVE Future(i, n * BlockN + j) <=> nb + j > p
      BY DEF Future, Position
    <2>2. \A j \in KeyRow : j \in Nat
      BY <1>1 DEF KeyRow
    <2> HIDE DEF nb, p
    <2>3. ASSUME NEW j \in KeyRow PROVE ~(nb + j > p) <=> nb + j <= p
      BY <1>1, <1>2, <2>2
    <2> QED
      BY <2>1, <2>3
  <1>4. tile = {<<nb + j, nb + j, nb + j>> : j \in live}
    BY DEF Tile
  <1> HIDE DEF live
  <1>5. seen
    <2>1. CASE n = 0
      <3>1. 0 \in KeyRow
        BY <1>1 DEF KeyRow
      <3>2. nb + 0 <= p
        BY <1>1, <1>2, <2>1
      <3> QED
        BY <1>3, <3>1, <3>2
    <2>2. CASE n # 0
      <3>1. acc[i].seen = (n # 0)
        OBVIOUS
      <3> HIDE DEF n
      <3> QED
        BY <2>2, <3>1
    <2> QED
      BY <2>1, <2>2
  <1>6. FoldedRow(w, i) = [seen |-> TRUE,
                           keys |-> tile \cup IF n = 0 THEN {} ELSE Keys(i, n)]
    <2>1. FoldedRow(w, i) =
            [seen |-> seen,
             keys |-> {<<n * BlockN + j, rK[w][j], rV[w][j]>> : j \in IF seen THEN live ELSE KeyRow}
                      \cup IF seen /\ ~acc[i].seen THEN {} ELSE acc[i].keys]
      BY DEF FoldedRow, live
    <2>2. acc[i].seen = (n # 0) /\ acc[i].keys = Keys(i, n)
      OBVIOUS
    <2> HIDE DEF seen, n
    <2> QED
      BY <1>5, <2>1, <2>2
  <1>7. Keys(i, n) = {<<k, k, k>> : k \in before} /\ Keys(i, n + 1) = {<<k, k, k>> : k \in after}
    <2>1. Keys(i, n + 1) = {<<k, k, k>> : k \in {x \in 0 .. p : x < (n + 1) * BlockN}}
      BY DEF Keys
    <2>2. Keys(i, n) = {<<k, k, k>> : k \in before}
      BY DEF Keys
    <2> HIDE DEF n, nb, p
    <2> QED
      BY <1>2, <2>1, <2>2
  <1>8. tile = {<<k, k, k>> : k \in after \ before}
    <2>1. \A j \in live : nb + j \in after \ before
      <3>1. \A j \in live : j \in Nat /\ j < BlockN /\ nb + j <= p
        BY <1>1, <1>3 DEF KeyRow
      <3> HIDE DEF nb, p
      <3> QED
        BY <1>1, <1>2, <3>1
    <2>2. \A k \in after \ before : \E j \in live : k = nb + j
      <3> SUFFICES ASSUME NEW k \in after \ before
                   PROVE  \E j \in live : k = nb + j
        OBVIOUS
      <3> HIDE DEF nb, p
      <3>1. k \in Nat /\ k <= p /\ k < nb + BlockN /\ ~(k < nb)
        BY <1>1
      <3>2. k - nb \in KeyRow /\ nb + (k - nb) = k
        BY <1>1, <1>2, <3>1 DEF KeyRow
      <3>3. k - nb \in live
        BY <1>3, <3>1, <3>2
      <3> QED
        BY <3>2, <3>3
    <2> HIDE DEF nb, before, after
    <2> QED
      BY <1>4, <2>1, <2>2
  <1>9. before \subseteq after /\ (n = 0 => before = {})
    <2> HIDE DEF nb, p
    <2>1. \A x \in Nat : x < nb => x < nb + BlockN
      BY <1>1, <1>2
    <2> QED
      BY <1>1, <1>2, <2>1
  <1> HIDE DEF n, tile, before, after
  <1>10. tile \cup (IF n = 0 THEN {} ELSE Keys(i, n)) = Keys(i, n + 1)
    BY <1>7, <1>8, <1>9
  <1> QED
    BY <1>6, <1>10 DEF n

LEMMA FoldStep ==
  ASSUME FlashInv, NEW w \in Warp, Fold(w)
  PROVE  FlashInv'
  <1> DEFINE k == kv[w] + 1
             p == LoopOn(w, k)
  <1>1. TypeInv /\ Stretch /\ \A v \in Warp : PerWarp(v)
    BY DEF FlashInv
  <1>2. /\ pc[w] = "fold" /\ pc' = [pc EXCEPT ![w] = p] /\ kv' = [kv EXCEPT ![w] = k]
        /\ acc' = [i \in Row |-> IF i \in RowsOf(w) THEN FoldedRow(w, i) ELSE acc[i]]
        /\ cta' = cta /\ kv_next' = kv_next /\ groups' = groups /\ pending' = pending
        /\ out' = out /\ UNCHANGED <<tileVars, regVars>>
    BY DEF Fold, Goto, copyVars
  <1>3. /\ kv[w] \in Nat /\ k \in Nat /\ kv_next[w] \in Nat
        /\ NumVisible \in Nat /\ PrefetchSlots \in Nat /\ kv[w] < NumVisible
    <2>1. pc[w] \in Turn
      BY <1>2 DEF Turn
    <2>2. kv[w] < NumVisible
      BY <1>1, <2>1 DEF PerWarp, Issued
    <2> QED
      BY <1>1, <2>2, ControlTypes, Geometry
  <1>4. \/ p = "wait tile" /\ k < NumVisible
        \/ p = "write O" /\ k = NumVisible
    <2>1. k < NumVisible \/ k = NumVisible
      BY <1>3
    <2>2. ~(k < NumVisible /\ k = NumVisible)
      BY <1>3
    <2> HIDE DEF k
    <2> QED
      BY <2>1, <2>2 DEF LoopOn
  <1> HIDE DEF p
  <1>5. /\ pc' \in [Warp -> Pcs] /\ pc'[w] = p /\ kv' \in [Warp -> Nat] /\ kv'[w] = k
        /\ \A v \in Warp \ {w} : pc'[v] = pc[v] /\ kv'[v] = kv[v]
    <2>1. p \in Pcs
      BY <1>4 DEF Pcs
    <2>2. pc \in [Warp -> Pcs] /\ kv \in [Warp -> Nat]
      BY <1>1, ControlTypes
    <2> HIDE DEF k
    <2>3. pc' \in [Warp -> Pcs] /\ pc'[w] = p
      BY <1>2, <2>1, <2>2
    <2>4. kv' \in [Warp -> Nat] /\ kv'[w] = k
      BY <1>2, <1>3, <2>2
    <2>5. \A v \in Warp \ {w} : pc'[v] = pc[v] /\ kv'[v] = kv[v]
      BY <1>2, <2>2
    <2> QED
      BY <2>3, <2>4, <2>5
  <1>6. TypeInv'
    <2>1. acc' = [i \in Row |-> acc'[i]]
      BY <1>2
    <2> QED
      BY <1>1, <1>2, <1>5, <2>1 DEF TypeInv, tileVars, regVars
  <1>7. Stretch'
    <2>1. NumVisible' = NumVisible
      BY <1>2, SameCta
    <2>2. \A v \in Warp :
            \/ pc[v] \in {"issue", "fold"} /\ kv[v] = kv[w]
            \/ pc[v] \in {"wait tile", "sync full"} /\ kv[v] = kv[w] + 1 /\ kv[w] + 1 < NumVisible
            \/ pc[v] \in {"write O", "sync O"} /\ kv[v] = kv[w] + 1 /\ kv[w] + 1 = NumVisible
      BY <1>1, <1>2 DEF Stretch, Early
    <2>3. \A v \in Warp :
            \/ pc'[v] \in {"issue", "fold"} /\ kv'[v] = kv[w]
            \/ pc'[v] \in {"wait tile", "sync full"} /\ kv'[v] = kv[w] + 1 /\ kv[w] + 1 < NumVisible
            \/ pc'[v] \in {"write O", "sync O"} /\ kv'[v] = kv[w] + 1 /\ kv[w] + 1 = NumVisible
      <3> SUFFICES ASSUME NEW v \in Warp
                   PROVE  \/ pc'[v] \in {"issue", "fold"} /\ kv'[v] = kv[w]
                          \/ /\ pc'[v] \in {"wait tile", "sync full"}
                             /\ kv'[v] = kv[w] + 1 /\ kv[w] + 1 < NumVisible
                          \/ /\ pc'[v] \in {"write O", "sync O"}
                             /\ kv'[v] = kv[w] + 1 /\ kv[w] + 1 = NumVisible
        OBVIOUS
      <3>1. CASE v = w
        BY <1>4, <1>5, <3>1
      <3>2. CASE v # w
        BY <1>5, <2>2, <3>2
      <3> QED
        BY <3>1, <3>2
    <2> QED
      BY <1>3, <2>1, <2>3 DEF Stretch
  <1>8. Issued(w) /\ InFlight(w) /\ Landed(w) /\ Registers(w) /\ Folded(w)
    BY <1>1 DEF PerWarp
  <1>9. Lo(w) = k /\ Lo(w)' = k
    BY <1>2, <1>4, <1>5 DEF Lo
  <1>10. Issued(w)'
    <2>1. NumVisible' = NumVisible /\ PrefetchSlots' = PrefetchSlots
      BY <1>2, SameCta
    <2>2. /\ groups[w] = kv_next[w] + 1 /\ kv_next[w] <= NumVisible
          /\ kv_next[w] <= k + PrefetchSlots
          /\ kv_next[w] = NumVisible \/ kv_next[w] = k + PrefetchSlots
      BY <1>2, <1>8, <1>9 DEF Issued, Turn
    <2> HIDE DEF k
    <2> QED
      BY <1>2, <1>4, <1>5, <1>9, <2>1, <2>2 DEF Issued, Early, Late, Turn
  <1>11. InFlight(w)'
    <2> SUFFICES ASSUME NEW c \in pending[w]
                 PROVE  /\ c.to \in Matrix /\ c.group = c.tile + 2 /\ c.stage = c.tile % cta.stages
                        /\ k <= c.tile /\ c.tile < kv_next[w]
      BY <1>2, <1>4, <1>5 DEF InFlight, Turn
    <2>1. c.tile \in Nat
      BY <1>1, Typed
    <2>2. /\ c.to \in Matrix /\ c.group = c.tile + 2 /\ c.stage = c.tile % cta.stages
          /\ kv[w] < c.tile /\ c.tile < kv_next[w]
      BY <1>2, <1>8 DEF InFlight, Turn
    <2>3. k <= c.tile
      BY <1>3, <2>1, <2>2
    <2> QED
      BY <2>2, <2>3
  <1>12. Landed(w)'
    BY <1>2, <1>8, <1>9, LandedStays DEF tileVars
  <1>13. Registers(w)'
    BY <1>2, <1>4, <1>5, <1>8 DEF Registers, Turn, Early, regVars
  <1>14. Folded(w)'
    <2>1. rK[w] = Tile(kv[w]) /\ rV[w] = Tile(kv[w])
      BY <1>2, <1>8 DEF Registers, Turn
    <2>2. ASSUME NEW i \in RowsOf(w)
          PROVE  acc'[i] = [seen |-> k # 0, keys |-> Keys(i, k)]
      <3>1. acc[i] = [seen |-> kv[w] # 0, keys |-> Keys(i, kv[w])]
        BY <1>8 DEF Folded
      <3>2. FoldedRow(w, i) = [seen |-> TRUE, keys |-> Keys(i, kv[w] + 1)]
        BY <1>1, <2>1, <3>1, FoldKeys
      <3>3. acc'[i] = FoldedRow(w, i)
        BY <1>2 DEF RowsOf
      <3>4. (k # 0) = TRUE
        BY <1>3
      <3> QED
        BY <3>2, <3>3, <3>4
    <2>3. \A i : Keys(i, kv[w])' = Keys(i, kv'[w])
      BY <1>2 DEF Keys, Position
    <2>4. pc'[w] \notin Late \ {"write O"}
      BY <1>4, <1>5 DEF Late
    <2> HIDE DEF k
    <2> QED
      BY <1>5, <2>2, <2>3, <2>4 DEF Folded
  <1>15. Moved(w)
    BY <1>2, <1>5 DEF Moved, regVars
  <1>16. ASSUME NEW v \in Warp, v # w PROVE PerWarp(v)'
    <2>1. \A i \in RowsOf(v) : acc'[i] = acc[i]
      BY <1>2, <1>16 DEF RowsOf
    <2>2. /\ smem' = smem /\ sQ' = sQ /\ cta' = cta
          /\ pc'[v] = pc[v] /\ kv'[v] = kv[v] /\ kv_next'[v] = kv_next[v]
          /\ groups'[v] = groups[v] /\ pending'[v] = pending[v]
          /\ rQ'[v] = rQ[v] /\ rK'[v] = rK[v] /\ rV'[v] = rV[v]
      BY <1>2, <1>5, <1>16 DEF tileVars, regVars
    <2> QED
      BY <1>1, <2>1, <2>2, Others
  <1>17. PerWarp(w)'
    BY <1>10, <1>11, <1>12, <1>13, <1>14 DEF PerWarp
  <1>18. Queries'
    BY <1>2, <1>15, QueriesStay DEF tileVars, Late
  <1>19. RowsAreCausal'
    BY <1>2 DEF FlashInv, RowsAreCausal
  <1> QED
    BY <1>6, <1>7, <1>16, <1>17, <1>18, <1>19 DEF FlashInv

LEMMA WriteOStep ==
  ASSUME FlashInv, NEW w \in Warp, WriteO(w)
  PROVE  FlashInv'
  <1>1. TypeInv /\ Stretch /\ \A v \in Warp : PerWarp(v)
    BY DEF FlashInv
  <1>2. /\ pc[w] = "write O" /\ pc' = [pc EXCEPT ![w] = "sync O"]
        /\ sQ' = [i \in Row |-> IF i \in RowsOf(w) THEN [holds |-> "O", keys |-> acc[i].keys]
                                ELSE sQ[i]]
        /\ cta' = cta /\ kv' = kv /\ kv_next' = kv_next /\ groups' = groups /\ pending' = pending
        /\ smem' = smem /\ acc' = acc /\ out' = out /\ UNCHANGED regVars
    BY DEF WriteO, Goto, copyVars, rowVars
  <1>3. pc'[w] = "sync O" /\ pc' \in [Warp -> Pcs] /\ \A v \in Warp \ {w} : pc'[v] = pc[v]
    BY <1>1, <1>2, ControlTypes DEF Pcs, Barriers
  <1>4. TypeInv'
    <2>1. sQ' = [i \in Row |-> sQ'[i]]
      BY <1>2
    <2> QED
      BY <1>1, <1>2, <1>3, <2>1 DEF TypeInv, regVars
  <1>5. Stretch'
    <2>1. NumVisible' = NumVisible
      BY <1>2, SameCta
    <2> QED
      BY <1>1, <1>2, <2>1, ControlTypes DEF Stretch, Early
  <1>6. Issued(w) /\ InFlight(w) /\ Landed(w) /\ Registers(w) /\ Folded(w)
    BY <1>1 DEF PerWarp
  <1>7. Lo(w)' = Lo(w)
    BY <1>2, <1>3 DEF Lo
  <1>8. Issued(w)'
    BY <1>2, <1>3, <1>6, <1>7, SameCta DEF Issued, Early, Late, Turn
  <1>9. InFlight(w)'
    BY <1>2, <1>3, <1>6 DEF InFlight, Turn
  <1>10. Landed(w)'
    BY <1>2, <1>6, <1>7, LandedStays
  <1>11. Registers(w)'
    BY <1>2, <1>3, <1>6 DEF Registers, Turn, Early, regVars
  <1>12. Folded(w)'
    <2>1. \A i : Keys(i, kv[w])' = Keys(i, kv[w])
      BY <1>2 DEF Keys, Position
    <2>2. \A i \in RowsOf(w) : sQ'[i] = [holds |-> "O", keys |-> acc[i].keys]
      BY <1>2 DEF RowsOf
    <2> QED
      BY <1>2, <1>6, <2>1, <2>2 DEF Folded
  <1>13. ASSUME NEW v \in Warp, v # w PROVE PerWarp(v)'
    <2>1. \A i \in RowsOf(v) : sQ'[i] = sQ[i]
      BY <1>2, <1>13 DEF RowsOf
    <2>2. /\ smem' = smem /\ acc' = acc /\ cta' = cta
          /\ pc'[v] = pc[v] /\ kv'[v] = kv[v] /\ kv_next'[v] = kv_next[v]
          /\ groups'[v] = groups[v] /\ pending'[v] = pending[v]
          /\ rQ'[v] = rQ[v] /\ rK'[v] = rK[v] /\ rV'[v] = rV[v]
      BY <1>2, <1>3, <1>13 DEF regVars
    <2> QED
      BY <1>1, <2>1, <2>2, Others
  <1>14. PerWarp(w)'
    BY <1>8, <1>9, <1>10, <1>11, <1>12 DEF PerWarp
  <1>15. Queries'
    BY <1>3 DEF Queries, Late
  <1>16. RowsAreCausal'
    BY <1>2 DEF FlashInv, RowsAreCausal
  <1> QED
    BY <1>4, <1>5, <1>13, <1>14, <1>15, <1>16 DEF FlashInv

LEMMA CopyOutStep ==
  ASSUME FlashInv, NEW w \in Warp, CopyOut(w)
  PROVE  FlashInv'
  <1>1. TypeInv /\ Stretch /\ \A v \in Warp : PerWarp(v)
    BY DEF FlashInv
  <1>2. /\ pc[w] = "copy out" /\ pc' = [pc EXCEPT ![w] = "done"]
        /\ out' = [i \in Row |-> IF Copier(i) = w THEN sQ[i].keys ELSE out[i]]
        /\ cta' = cta /\ kv' = kv /\ kv_next' = kv_next /\ groups' = groups /\ pending' = pending
        /\ acc' = acc /\ UNCHANGED <<tileVars, regVars>>
    BY DEF CopyOut, Goto, copyVars
  <1>3. pc'[w] = "done" /\ pc' \in [Warp -> Pcs] /\ \A v \in Warp \ {w} : pc'[v] = pc[v]
    BY <1>1, <1>2, ControlTypes DEF Pcs
  <1>4. TypeInv'
    <2>1. out' = [i \in Row |-> out'[i]]
      BY <1>2
    <2> QED
      BY <1>1, <1>2, <1>3, <2>1 DEF TypeInv, tileVars, regVars
  <1>5. Stretch'
    <2>1. NumVisible' = NumVisible
      BY <1>2, SameCta
    <2> QED
      BY <1>1, <1>2, <2>1, ControlTypes DEF Stretch, Early
  <1>6. Issued(w) /\ InFlight(w) /\ Landed(w) /\ Registers(w) /\ Folded(w)
    BY <1>1 DEF PerWarp
  <1>7. Lo(w)' = Lo(w)
    BY <1>2, <1>3 DEF Lo
  <1>8. Issued(w)'
    BY <1>2, <1>3, <1>6, <1>7, SameCta DEF Issued, Early, Late, Turn
  <1>9. InFlight(w)'
    BY <1>2, <1>3, <1>6 DEF InFlight, Turn
  <1>10. Landed(w)'
    BY <1>2, <1>6, <1>7, LandedStays DEF tileVars
  <1>11. Registers(w)'
    BY <1>2, <1>3, <1>6 DEF Registers, Turn, Early, regVars
  <1>12. Folded(w)'
    <2>1. \A i : Keys(i, kv[w])' = Keys(i, kv[w])
      BY <1>2 DEF Keys, Position
    <2>2. pc[w] \in Late \ {"write O"}
      BY <1>2 DEF Late
    <2> QED
      BY <1>2, <1>6, <2>1, <2>2 DEF Folded, tileVars
  <1>13. ASSUME NEW v \in Warp, v # w PROVE PerWarp(v)'
    <2>1. /\ smem' = smem /\ sQ' = sQ /\ acc' = acc /\ cta' = cta
          /\ pc'[v] = pc[v] /\ kv'[v] = kv[v] /\ kv_next'[v] = kv_next[v]
          /\ groups'[v] = groups[v] /\ pending'[v] = pending[v]
          /\ rQ'[v] = rQ[v] /\ rK'[v] = rK[v] /\ rV'[v] = rV[v]
      BY <1>2, <1>3, <1>13 DEF tileVars, regVars
    <2> QED
      BY <1>1, <2>1, Others
  <1>14. PerWarp(w)'
    BY <1>8, <1>9, <1>10, <1>11, <1>12 DEF PerWarp
  <1>15. Queries'
    BY <1>3 DEF Queries, Late
  <1>16. RowsAreCausal'
    <2> SUFFICES ASSUME NEW i \in Row, out'[i] # None
                 PROVE  out'[i] = {<<k, k, k>> : k \in 0 .. cta.start + cta.tile * BlockM + i}
      BY <1>2 DEF RowsAreCausal
    <2>1. CASE Copier(i) # w
      BY <1>2, <2>1 DEF FlashInv, RowsAreCausal
    <2>2. CASE Copier(i) = w
      <3>1. out'[i] = sQ[i].keys
        BY <1>2, <2>2
      <3>2. \A v \in Warp : pc[v] \in Late \ {"write O"} /\ kv[v] = NumVisible
        BY <1>1, <1>2 DEF Stretch, Early, Late
      <3>3. PICK v \in Warp : i \in RowsOf(v)
        BY OwnerIsWarp
      <3>4. acc[i].keys = Keys(i, NumVisible) /\ sQ[i].keys = acc[i].keys
        <4>1. /\ acc[i] = [seen |-> kv[v] # 0, keys |-> Keys(i, kv[v])]
              /\ sQ[i] = [holds |-> "O", keys |-> acc[i].keys]
          BY <1>1, <3>2, <3>3 DEF PerWarp, Folded
        <4>2. kv[v] = NumVisible
          BY <3>2
        <4> QED
          BY <4>1, <4>2
      <3>5. \A k \in 0 .. Position(i) : k < NumVisible * BlockN
        <4>1. /\ Position(i) \in Nat /\ Position(i) < NumVisible * BlockN
              /\ NumVisible \in Nat /\ BlockN \in Nat
          BY <1>1, Geometry
        <4> DEFINE all == NumVisible * BlockN
        <4>2. all \in Nat
          BY <4>1
        <4> HIDE DEF all
        <4>3. \A k \in 0 .. Position(i) : k < all
          BY <4>1, <4>2 DEF all
        <4> QED
          BY <4>3 DEF all
      <3>6. {k \in 0 .. Position(i) : k < NumVisible * BlockN} = 0 .. Position(i)
        BY <3>5
      <3>7. Keys(i, NumVisible) = {<<k, k, k>> : k \in 0 .. Position(i)}
        BY <3>6 DEF Keys
      <3> QED
        BY <3>1, <3>4, <3>7 DEF Position
    <2> QED
      BY <2>1, <2>2
  <1> QED
    BY <1>4, <1>5, <1>13, <1>14, <1>15, <1>16 DEF FlashInv

-----------------------------------------------------------------------------
(* A copy lands, in the rows of its warp.                                  *)

LEMMA LandStep ==
  ASSUME FlashInv, NEW w \in Warp, Land(w)
  PROVE  FlashInv'
  <1>1. TypeInv /\ Stretch /\ \A v \in Warp : PerWarp(v)
    BY DEF FlashInv
  <1>2. PICK c \in pending[w] :
          /\ pending' = [pending EXCEPT ![w] = @ \ {c}]
          /\ \/ /\ c.to = "Q"
                /\ sQ' = [i \in Row |-> IF Copier(i) = w THEN [holds |-> "Q", keys |-> {}] ELSE sQ[i]]
                /\ UNCHANGED smem
             \/ /\ c.to \in Matrix
                /\ smem' = [smem EXCEPT ![c.to][c.stage] =
                              [j \in KeyRow |-> IF Copier(j) = w THEN c.tile * BlockN + j ELSE @[j]]]
                /\ UNCHANGED sQ
    BY DEF Land
  <1>3. /\ cta' = cta /\ pc' = pc /\ kv' = kv /\ kv_next' = kv_next /\ groups' = groups
        /\ UNCHANGED <<regVars, rowVars>>
    BY DEF Land
  <1>4. Issued(w) /\ InFlight(w) /\ Landed(w) /\ Registers(w) /\ Folded(w)
    BY <1>1 DEF PerWarp
  <1>5. /\ pending' \in [Warp -> SUBSET Copy] /\ pending'[w] = pending[w] \ {c}
        /\ \A v \in Warp \ {w} : pending'[v] = pending[v]
    BY <1>1, <1>2, ControlTypes
  <1>6. Stretch'
    <2>1. NumVisible' = NumVisible
      BY <1>3, SameCta
    <2> QED
      BY <1>1, <1>3, <2>1 DEF Stretch
  <1>7. Lo(w)' = Lo(w)
    BY <1>3 DEF Lo
  <1>8. Issued(w)'
    BY <1>3, <1>4, <1>7, SameCta DEF Issued
  <1>9. InFlight(w)'
    BY <1>3, <1>4, <1>5 DEF InFlight
  <1>10. Registers(w)'
    BY <1>3, <1>4 DEF Registers, Tile, regVars
  <1>11. RowsAreCausal'
    BY <1>3 DEF FlashInv, RowsAreCausal, rowVars
  <1>12. CASE c.to = "Q"
    <2>1. /\ sQ' = [i \in Row |-> IF Copier(i) = w THEN [holds |-> "Q", keys |-> {}] ELSE sQ[i]]
          /\ smem' = smem
      BY <1>2, <1>12 DEF Matrix
    <2>2. pc[w] = "wait Q"
      BY <1>4, <1>12 DEF InFlight, Matrix
    <2>3. \A v \in Warp : pc[v] \in Early
      BY <1>1, <2>2 DEF Stretch
    <2>4. \A v \in Warp : pc[v] \notin Late
      BY <2>3 DEF Early, Late
    <2>5. TypeInv'
      <3>1. sQ' = [i \in Row |-> sQ'[i]]
        BY <2>1
      <3> QED
        BY <1>1, <1>3, <1>5, <2>1, <3>1 DEF TypeInv, regVars, rowVars
    <2>6. Landed(w)'
      <3>1. kv_next'[w] = 0 /\ Lo(w)' = 0
        BY <1>3, <1>4, <2>2 DEF Issued, Early, Lo
      <3> QED
        BY <3>1 DEF Landed
    <2>7. Folded(w)'
      <3>1. \A i : Keys(i, kv[w])' = Keys(i, kv[w])
        BY <1>3 DEF Keys, Position
      <3> QED
        BY <1>3, <1>4, <2>4, <3>1 DEF Folded, rowVars
    <2>8. ASSUME NEW v \in Warp, v # w PROVE PerWarp(v)'
      <3>1. /\ smem' = smem /\ acc' = acc /\ cta' = cta /\ pc[v] \notin Late \ {"write O"}
            /\ pc'[v] = pc[v] /\ kv'[v] = kv[v] /\ kv_next'[v] = kv_next[v]
            /\ groups'[v] = groups[v] /\ pending'[v] = pending[v]
            /\ rQ'[v] = rQ[v] /\ rK'[v] = rK[v] /\ rV'[v] = rV[v]
        BY <1>3, <1>5, <2>1, <2>4, <2>8 DEF regVars, rowVars
      <3> QED
        BY <1>1, <3>1, Others
    <2>9. Queries'
      <3> SUFFICES ASSUME NEW v \in Warp,
                          pc[v] \notin {"load Q", "wait Q"} \/ (pc[v] = "wait Q" /\ pending'[v] = {}),
                          NEW i \in Row, Copier(i) = v
                   PROVE  sQ'[i].holds = "Q"
        BY <1>3 DEF Queries
      <3>1. CASE v = w
        BY <2>1, <3>1
      <3>2. CASE v # w
        <4>1. sQ[i].holds = "Q"
          BY <1>5, <2>4, <3>2 DEF FlashInv, Queries
        <4> QED
          BY <2>1, <3>2, <4>1
      <3> QED
        BY <3>1, <3>2
    <2>10. PerWarp(w)'
      BY <1>8, <1>9, <1>10, <2>6, <2>7 DEF PerWarp
    <2> QED
      BY <1>6, <1>11, <2>5, <2>8, <2>9, <2>10 DEF FlashInv
  <1>13. CASE c.to \in Matrix
    <2>1. /\ smem' = [smem EXCEPT ![c.to][c.stage] =
                        [j \in KeyRow |-> IF Copier(j) = w THEN c.tile * BlockN + j ELSE @[j]]]
          /\ sQ' = sQ
      BY <1>2, <1>13 DEF Matrix
    <2>2. /\ c.tile \in Nat /\ c.stage = c.tile % cta.stages /\ kv[w] <= c.tile
          /\ c.tile < kv_next[w] /\ (pc[w] \in Turn => kv[w] < c.tile)
      BY <1>1, <1>4, <1>13, Typed DEF InFlight, Matrix
    <2>3. c.stage \in 0 .. cta.stages - 1 /\ BlockN \in Nat
      BY <1>1, <2>2, Geometry, StageOf
    <2> DEFINE row(j) == c.tile * BlockN + j
               rows   == [j \in KeyRow |-> IF Copier(j) = w THEN row(j) ELSE smem[c.to][c.stage][j]]
    <2>4. smem \in [Matrix -> [0 .. cta.stages - 1 -> [KeyRow -> Nat \cup {None}]]]
      BY <1>1 DEF TypeInv
    <2>5. smem' = [smem EXCEPT ![c.to] = [smem[c.to] EXCEPT ![c.stage] = rows]]
      BY <1>13, <2>1, <2>3, <2>4
    <2>6. \A j \in KeyRow : row(j) \in Nat
      <3>1. \A j \in KeyRow : j \in Nat
        BY <2>3 DEF KeyRow
      <3>2. c.tile * BlockN \in Nat
        BY <2>2, <2>3
      <3> QED
        BY <3>1, <3>2
    <2>7. \A j \in KeyRow : rows[j] = IF Copier(j) = w THEN row(j) ELSE smem[c.to][c.stage][j]
      OBVIOUS
    <2>8. rows \in [KeyRow -> Nat \cup {None}]
      <3> HIDE DEF row
      <3>1. smem[c.to][c.stage] \in [KeyRow -> Nat \cup {None}]
        BY <1>13, <2>3, <2>4
      <3> QED
        BY <2>6, <3>1
    <2> HIDE DEF rows, row
    <2>9. /\ smem' \in [Matrix -> [0 .. cta.stages - 1 -> [KeyRow -> Nat \cup {None}]]]
          /\ smem'[c.to][c.stage] = rows
          /\ \A m \in Matrix, s \in 0 .. cta.stages - 1 :
               m # c.to \/ s # c.stage => smem'[m][s] = smem[m][s]
      BY <1>13, <2>3, <2>4, <2>5, <2>8
    <2>10. TypeInv'
      BY <1>1, <1>3, <1>5, <2>1, <2>9 DEF TypeInv, regVars, rowVars
    <2>11. Lo(w) \in Nat /\ Lo(w) <= c.tile /\ kv_next[w] \in Nat
      <3>1. kv[w] \in Nat /\ kv_next[w] \in Nat
        BY <1>1, ControlTypes
      <3>2. CASE pc[w] = "fold"
        <4>1. kv[w] < c.tile
          BY <2>2, <3>2 DEF Turn
        <4> QED
          BY <2>2, <3>1, <3>2, <4>1 DEF Lo
      <3>3. CASE pc[w] # "fold"
        BY <2>2, <3>1, <3>3 DEF Lo
      <3> QED
        BY <3>2, <3>3
    <2>12. ASSUME NEW t \in Nat, Lo(w) <= t, t < kv_next[w], t # c.tile
           PROVE  t % cta.stages # c.stage
      <3>1. /\ cta.stages \in Nat /\ cta.stages > 0
            /\ PrefetchSlots \in Nat /\ PrefetchSlots <= cta.stages
        BY <1>1, Geometry
      <3>2. kv_next[w] <= Lo(w) + PrefetchSlots
        BY <1>4 DEF Issued
      <3>3. t < c.tile + cta.stages /\ c.tile < t + cta.stages
        BY <2>2, <2>11, <2>12, <3>1, <3>2
      <3>4. CASE t < c.tile
        BY <2>2, <3>1, <3>3, <3>4, StagesApart
      <3>5. CASE c.tile < t
        BY <2>2, <3>1, <3>3, <3>5, StagesApart
      <3> QED
        BY <2>2, <2>12, <3>4, <3>5
    <2>13. Landed(w)'
      <3> SUFFICES ASSUME NEW m \in Matrix, NEW t \in Nat, Lo(w) <= t, t < kv_next[w],
                          \A d \in pending[w] \ {c} : d.to = m => d.tile # t,
                          NEW j \in KeyRow, Copier(j) = w
                   PROVE  smem'[m][t % cta.stages][j] = t * BlockN + j
        BY <1>3, <1>5, <1>7 DEF Landed
      <3>1. t % cta.stages \in 0 .. cta.stages - 1
        BY <1>1, Geometry, StageOf
      <3>2. CASE m = c.to /\ t = c.tile
        BY <2>2, <2>7, <2>9, <3>2 DEF row, rows
      <3>3. CASE m = c.to /\ t # c.tile
        <4>1. t % cta.stages # c.stage
          BY <2>12, <3>3
        <4>2. \A d \in pending[w] : d.to = m => d.tile # t
          BY <3>3
        <4>3. smem[m][t % cta.stages][j] = t * BlockN + j
          BY <1>4, <4>2 DEF Landed
        <4> QED
          BY <2>9, <3>1, <4>1, <4>3
      <3>4. CASE m # c.to
        <4>1. \A d \in pending[w] : d.to = m => d.tile # t
          BY <3>4
        <4>2. smem[m][t % cta.stages][j] = t * BlockN + j
          BY <1>4, <4>1 DEF Landed
        <4> QED
          BY <2>9, <3>1, <3>4, <4>2
      <3> QED
        BY <3>2, <3>3, <3>4
    <2>14. Folded(w)'
      <3>1. \A i : Keys(i, kv[w])' = Keys(i, kv[w])
        BY <1>3 DEF Keys, Position
      <3> QED
        BY <1>3, <1>4, <2>1, <3>1 DEF Folded, rowVars
    <2>15. ASSUME NEW v \in Warp, v # w PROVE PerWarp(v)'
      <3>1. /\ sQ' = sQ /\ acc' = acc /\ cta' = cta
            /\ pc'[v] = pc[v] /\ kv'[v] = kv[v] /\ kv_next'[v] = kv_next[v]
            /\ groups'[v] = groups[v] /\ pending'[v] = pending[v]
            /\ rQ'[v] = rQ[v] /\ rK'[v] = rK[v] /\ rV'[v] = rV[v]
        BY <1>3, <1>5, <2>1, <2>15 DEF regVars, rowVars
      <3>2. ASSUME NEW m \in Matrix, NEW s \in 0 .. cta.stages - 1, NEW j \in KeyRow, Copier(j) = v
            PROVE  smem'[m][s][j] = smem[m][s][j]
        <4>1. CASE m = c.to /\ s = c.stage
          BY <2>7, <2>9, <2>15, <3>2, <4>1
        <4>2. CASE m # c.to \/ s # c.stage
          BY <2>9, <4>2
        <4> QED
          BY <4>1, <4>2
      <3> QED
        BY <1>1, <3>1, <3>2, Others
    <2>16. pc[w] # "wait Q"
      <3>1. kv_next[w] # 0
        BY <2>2, <2>11
      <3> QED
        BY <1>4, <3>1 DEF Issued, Early
    <2>17. Queries'
      <3> SUFFICES ASSUME \A u \in Warp : pc[u] \notin Late, NEW v \in Warp,
                          pc[v] \notin {"load Q", "wait Q"} \/ (pc[v] = "wait Q" /\ pending'[v] = {}),
                          NEW i \in Row, Copier(i) = v
                   PROVE  sQ[i].holds = "Q"
        BY <1>3, <2>1 DEF Queries
      <3>1. pc[v] \notin {"load Q", "wait Q"} \/ (pc[v] = "wait Q" /\ pending[v] = {})
        BY <1>5, <2>16
      <3> QED
        BY <3>1 DEF FlashInv, Queries
    <2>18. PerWarp(w)'
      BY <1>8, <1>9, <1>10, <2>13, <2>14 DEF PerWarp
    <2> QED
      BY <1>6, <1>11, <2>10, <2>15, <2>17, <2>18 DEF FlashInv
  <1> QED
    BY <1>2, <1>12, <1>13

-----------------------------------------------------------------------------
(* The warps meet.                                                         *)

\* Of the barriers, the warps are all at one.
LEMMA Aligned ==
  ASSUME TypeInv, Stretch
  PROVE  BarrierAligned
  <1> SUFFICES ASSUME \A w \in Warp : pc[w] \in Barriers
               PROVE  \A v, w \in Warp : pc[v] = pc[w] /\ kv[v] = kv[w]
    BY DEF BarrierAligned
  <1>1. CASE \A w \in Warp : pc[w] \in Early /\ kv[w] = 0
    BY <1>1 DEF Barriers, Early
  <1>2. CASE \A w \in Warp : pc[w] \in {"read Q", "prefetch", "wait tile", "sync full"} /\ kv[w] = 0
    BY <1>2 DEF Barriers
  <1>3. ASSUME NEW n \in Nat, \A w \in Warp : pc[w] \in {"read K", "read V", "sync free"} /\ kv[w] = n
        PROVE  \A v, w \in Warp : pc[v] = pc[w] /\ kv[v] = kv[w]
    BY <1>3 DEF Barriers
  <1>4. ASSUME NEW n \in Nat,
               \A w \in Warp :
                 \/ pc[w] \in {"issue", "fold"} /\ kv[w] = n
                 \/ pc[w] \in {"wait tile", "sync full"} /\ kv[w] = n + 1 /\ n + 1 < NumVisible
                 \/ pc[w] \in {"write O", "sync O"} /\ kv[w] = n + 1 /\ n + 1 = NumVisible
        PROVE  \A v, w \in Warp : pc[v] = pc[w] /\ kv[v] = kv[w]
    <2>1. NumVisible \in Nat
      BY Geometry
    <2>2. ~(n + 1 < NumVisible /\ n + 1 = NumVisible)
      BY <2>1
    <2>3. \A w \in Warp : kv[w] = n + 1 /\ \/ pc[w] = "sync full" /\ n + 1 < NumVisible
                                           \/ pc[w] = "sync O" /\ n + 1 = NumVisible
      BY <1>4 DEF Barriers
    <2> QED
      BY <2>2, <2>3
  <1>5. ASSUME NEW n \in Nat, \A w \in Warp : pc[w] \in {"copy out", "done"} /\ kv[w] = n
        PROVE  \A v, w \in Warp : pc[v] = pc[w] /\ kv[v] = kv[w]
    BY <1>5 DEF Barriers
  <1> QED
    BY <1>1, <1>2, <1>3, <1>4, <1>5 DEF Stretch

LEMMA SyncThreadsStep ==
  ASSUME FlashInv, SyncThreads
  PROVE  FlashInv'
  <1>1. TypeInv /\ Stretch /\ (\A v \in Warp : PerWarp(v)) /\ Queries
    BY DEF FlashInv
  <1>2. /\ \A w \in Warp : pc[w] \in Barriers
        /\ pc' = [w \in Warp |-> After(pc[w])]
        /\ cta' = cta /\ kv' = kv /\ kv_next' = kv_next /\ groups' = groups /\ pending' = pending
        /\ UNCHANGED <<tileVars, regVars, rowVars>>
    BY DEF SyncThreads, copyVars
  <1>3. \A w \in Warp :
          \/ pc[w] = "sync Q" /\ pc'[w] = "read Q"
          \/ pc[w] = "sync full" /\ pc'[w] = "read K"
          \/ pc[w] = "sync free" /\ pc'[w] = "issue"
          \/ pc[w] = "sync O" /\ pc'[w] = "copy out"
    BY <1>2 DEF Barriers, After
  <1>4. TypeInv'
    <2>1. \A w \in Warp : After(pc[w]) \in Pcs
      BY <1>2 DEF After, Barriers, Pcs
    <2>2. pc' \in [Warp -> Pcs]
      BY <1>2, <2>1
    <2> QED
      BY <1>1, <1>2, <2>2, ControlTypes, QuietTypes
  <1>5. Stretch'
    <2>1. NumVisible' = NumVisible
      BY <1>2, SameCta
    <2>2. 0 \in Warp
      BY FlashAssumption DEF Warp
    <2>3. BarrierAligned
      BY <1>1, Aligned
    <2>4. \A w \in Warp : pc[w] = pc[0] /\ kv[w] = kv[0]
      BY <1>2, <2>2, <2>3 DEF BarrierAligned
    <2>5. kv[0] \in Nat
      BY <1>1, <2>2, ControlTypes
    <2>6. CASE pc[0] = "sync Q"
      <3>1. \A w \in Warp : pc'[w] = "read Q" /\ kv'[w] = 0
        <4>1. kv[0] = 0
          BY <1>1, <2>2, <2>6 DEF PerWarp, Issued, Early
        <4> QED
          BY <1>2, <1>3, <2>4, <2>6, <4>1
      <3> QED
        BY <3>1 DEF Stretch
    <2>7. CASE pc[0] = "sync full"
      <3>1. \A w \in Warp : pc'[w] = "read K" /\ kv'[w] = kv[0]
        BY <1>2, <1>3, <2>4, <2>7
      <3> QED
        BY <2>5, <3>1 DEF Stretch
    <2>8. CASE pc[0] = "sync free"
      <3>1. \A w \in Warp : pc'[w] = "issue" /\ kv'[w] = kv[0]
        BY <1>2, <1>3, <2>4, <2>8
      <3> QED
        BY <2>5, <3>1 DEF Stretch
    <2>9. CASE pc[0] = "sync O"
      <3>1. kv[0] = NumVisible
        BY <1>1, <2>2, <2>9 DEF PerWarp, Issued, Late
      <3>2. \A w \in Warp : pc'[w] = "copy out" /\ kv'[w] = kv[0]
        BY <1>2, <1>3, <2>4, <2>9
      <3> QED
        BY <2>1, <2>5, <3>1, <3>2 DEF Stretch
    <2> QED
      BY <1>3, <2>2, <2>6, <2>7, <2>8, <2>9
  <1>6. ASSUME NEW w \in Warp PROVE PerWarp(w)'
    <2>1. Issued(w) /\ InFlight(w) /\ Landed(w) /\ Registers(w) /\ Folded(w)
      BY <1>1 DEF PerWarp
    <2>2. Lo(w)' = Lo(w)
      BY <1>2, <1>3 DEF Lo
    <2>3. Issued(w)'
      <3>1. NumVisible' = NumVisible /\ PrefetchSlots' = PrefetchSlots
        BY <1>2, SameCta
      <3> QED
        BY <1>2, <1>3, <2>1, <2>2, <3>1 DEF Issued, Early, Late, Turn
    <2>4. InFlight(w)'
      BY <1>2, <1>3, <2>1 DEF InFlight, Turn
    <2>5. Landed(w)'
      BY <1>2, <2>1, <2>2, LandedStays DEF tileVars
    <2>6. Registers(w)'
      BY <1>2, <1>3, <2>1 DEF Registers, Turn, Early, Tile, regVars
    <2>7. Folded(w)'
      BY <1>2, <1>3, <2>1, FoldedStays DEF Late
    <2> QED
      BY <2>3, <2>4, <2>5, <2>6, <2>7 DEF PerWarp
  <1>7. Queries'
    <2>1. \A w \in Warp : /\ pc'[w] \notin Late => pc[w] \notin Late
                          /\ pc[w] \notin {"load Q", "wait Q"}
      BY <1>3 DEF Late
    <2> QED
      BY <1>1, <1>2, <2>1 DEF Queries, tileVars
  <1>8. RowsAreCausal'
    BY <1>2 DEF FlashInv, RowsAreCausal, rowVars
  <1> QED
    BY <1>4, <1>5, <1>6, <1>7, <1>8 DEF FlashInv

-----------------------------------------------------------------------------
(* The theorems.                                                           *)

LEMMA FlashInit ==
  ASSUME Init
  PROVE  FlashInv
  <1>1. PICK c \in [tile : 0 .. QLen \div BlockM - 1, start : Starts, stages : StageCounts] :
          Start(c, "load Q")
    BY DEF Init
  <1>2. /\ cta = c /\ pc = [w \in Warp |-> "load Q"]
        /\ kv = [w \in Warp |-> 0] /\ kv_next = [w \in Warp |-> 0]
        /\ groups = [w \in Warp |-> 0] /\ pending = [w \in Warp |-> {}]
        /\ smem = [m \in Matrix |-> [s \in 0 .. c.stages - 1 |-> [j \in KeyRow |-> None]]]
        /\ sQ = [i \in Row |-> [holds |-> "nothing", keys |-> {}]]
        /\ rQ = [w \in Warp |-> {}]
        /\ rK = [w \in Warp |-> [j \in KeyRow |-> None]] /\ rV = rK
        /\ acc = [i \in Row |-> [seen |-> FALSE, keys |-> {}]]
        /\ out = [i \in Row |-> None]
    BY <1>1 DEF Start
  <1>3. TypeInv
    BY <1>1, <1>2 DEF TypeInv, Pcs
  <1>4. Stretch
    BY <1>2 DEF Stretch, Early
  <1>5. ASSUME NEW w \in Warp PROVE PerWarp(w)
    <2>1. pc[w] = "load Q" /\ kv[w] = 0 /\ kv_next[w] = 0 /\ groups[w] = 0 /\ pending[w] = {}
      BY <1>2
    <2>2. Lo(w) = 0
      BY <2>1 DEF Lo
    <2>3. Issued(w)
      <3>1. 0 < NumVisible /\ 0 <= NumVisible /\ 0 <= 0 + PrefetchSlots
        BY <1>3, Geometry
      <3> QED
        BY <2>1, <2>2, <3>1 DEF Issued, Early, Late, Turn
    <2>4. InFlight(w)
      BY <2>1 DEF InFlight
    <2>5. Landed(w)
      <3>1. \A t \in Nat : ~(t < 0)
        OBVIOUS
      <3> QED
        BY <2>1, <2>2, <3>1 DEF Landed
    <2>6. Registers(w)
      BY <2>1 DEF Registers, Early, Turn
    <2>7. Folded(w)
      <3>1. \A i \in Row : Keys(i, 0) = {}
        <4>1. BlockN \in Nat /\ 0 * BlockN = 0 /\ \A i \in Row : Position(i) \in Nat
          BY <1>3, Geometry
        <4>2. \A i \in Row : {x \in 0 .. Position(i) : x < 0 * BlockN} = {}
          BY <4>1
        <4> QED
          BY <4>2 DEF Keys
      <3>2. \A i \in RowsOf(w) : acc[i] = [seen |-> FALSE, keys |-> {}] /\ i \in Row
        BY <1>2 DEF RowsOf
      <3>3. (kv[w] # 0) = FALSE /\ pc[w] \notin Late \ {"write O"}
        BY <2>1 DEF Late
      <3>4. \A i \in RowsOf(w) : acc[i] = [seen |-> kv[w] # 0, keys |-> Keys(i, kv[w])]
        BY <2>1, <3>1, <3>2, <3>3
      <3> QED
        BY <3>3, <3>4 DEF Folded
    <2> QED
      BY <2>3, <2>4, <2>5, <2>6, <2>7 DEF PerWarp
  <1>6. Queries
    BY <1>2 DEF Queries
  <1>7. RowsAreCausal
    BY <1>2 DEF RowsAreCausal
  <1> QED
    BY <1>3, <1>4, <1>5, <1>6, <1>7 DEF FlashInv

LEMMA FlashStep ==
  ASSUME FlashInv, [Next]_vars
  PROVE  FlashInv'
  <1>1. CASE SyncThreads
    BY <1>1, SyncThreadsStep
  <1>2. ASSUME NEW w \in Warp, Step(w) PROVE FlashInv'
    BY <1>2, LoadQStep, WaitQStep, ReadQStep, PrefetchStep, StartLoopStep, WaitTileStep,
       ReadKStep, ReadVStep, IssueNextStep, FoldStep, WriteOStep, CopyOutStep DEF Step
  <1>3. ASSUME NEW w \in Warp, Land(w) PROVE FlashInv'
    BY <1>3, LandStep
  <1>4. CASE UNCHANGED vars
    <2>1. /\ cta' = cta /\ pc' = pc /\ kv' = kv /\ kv_next' = kv_next /\ groups' = groups
          /\ pending' = pending /\ UNCHANGED <<tileVars, regVars, rowVars>>
      BY <1>4 DEF vars, copyVars
    <2>2. TypeInv /\ Stretch /\ Queries /\ RowsAreCausal /\ \A w \in Warp : PerWarp(w)
      BY DEF FlashInv
    <2>3. TypeInv'
      BY <2>1, <2>2, ControlTypes, QuietTypes
    <2>4. Stretch'
      <3>1. NumVisible' = NumVisible
        BY <2>1, SameCta
      <3> QED
        BY <2>1, <2>2, <3>1 DEF Stretch
    <2>5. ASSUME NEW w \in Warp PROVE PerWarp(w)'
      BY <2>1, <2>2, Others DEF tileVars, regVars, rowVars
    <2>6. Queries' /\ RowsAreCausal'
      BY <2>1, <2>2 DEF Queries, RowsAreCausal, tileVars, rowVars
    <2> QED
      BY <2>3, <2>4, <2>5, <2>6 DEF FlashInv
  <1> QED
    BY <1>1, <1>2, <1>3, <1>4 DEF Next

THEOREM FlashInvariant == Spec => []FlashInv
  BY FlashInit, FlashStep, PTL DEF Spec

(***************************************************************************)
(* The warps meet at the same sync_threads of the same iteration.          *)
(***************************************************************************)
THEOREM WarpsMeet == Spec => []BarrierAligned
  <1>1. FlashInv => BarrierAligned
    BY Aligned DEF FlashInv
  <1> QED
    BY <1>1, FlashInvariant, PTL

(***************************************************************************)
(* A warp reads a stage of shared memory only while no copy is in flight   *)
(* into it, and computes with all rows of Q and of tile kv of K and V.     *)
(***************************************************************************)
THEOREM TilesAreWhole == Spec => []StageIsStable
  <1>1. ASSUME FlashInv PROVE StageIsStable
    <2>1. TypeInv /\ Stretch /\ \A w \in Warp : PerWarp(w)
      BY <1>1 DEF FlashInv
    <2>2. TypeOK
      <3>1. ASSUME NEW w \in Warp, NEW c \in pending[w]
            PROVE  /\ c.to \in Matrix \cup {"Q"} /\ c.group \in 1 .. groups[w]
                   /\ c.stage \in 0 .. cta.stages - 1
        <4>1. InFlight(w) /\ Issued(w) /\ c.tile \in Nat /\ kv_next[w] \in Nat
          BY <2>1, Typed DEF PerWarp
        <4>0. 1 \in 1 .. 0 + 1
          OBVIOUS
        <4>2. CASE c.to = "Q"
          <5>1. pc[w] = "wait Q" /\ c.group = 1 /\ c.stage \in 0 .. cta.stages - 1
            BY <4>1, <4>2 DEF InFlight, Matrix
          <5>2. groups[w] = kv_next[w] + 1 /\ kv_next[w] = 0
            BY <4>1, <5>1 DEF Issued, Early
          <5>3. c.group \in 1 .. groups[w]
            BY <4>0, <5>1, <5>2
          <5> QED
            BY <4>2, <5>1, <5>3
        <4>3. CASE c.to # "Q"
          <5>1. /\ c.to \in Matrix /\ c.group = c.tile + 2 /\ c.stage = c.tile % cta.stages
                /\ c.tile < kv_next[w]
            BY <4>1, <4>3 DEF InFlight
          <5>2. kv_next[w] # 0
            BY <4>1, <5>1
          <5>3. groups[w] = kv_next[w] + 1
            BY <4>1, <5>2 DEF Issued, Early
          <5>4. c.group \in 1 .. groups[w]
            BY <4>1, <5>1, <5>3
          <5>5. c.stage \in 0 .. cta.stages - 1
            BY <2>1, <4>1, <5>1, Geometry, StageOf
          <5> QED
            BY <5>1, <5>4, <5>5
        <4> QED
          BY <4>2, <4>3
      <3> QED
        BY <2>1, <3>1 DEF TypeInv, TypeOK
    <2>3. ASSUME NEW v \in Warp, NEW w \in Warp, Reading(w),
                 NEW c \in pending[v], c.to \in Matrix
          PROVE  c.stage # ReadStage(w)
      <3>1. pc[v] \in Turn /\ kv[v] = kv[w] /\ Lo(v) = kv[v]
        BY <2>1, <2>3 DEF Stretch, Early, Turn, Reading, Lo
      <3>2. InFlight(v) /\ Issued(v)
        BY <2>1 DEF PerWarp
      <3>3. /\ kv[w] \in Nat /\ c.tile \in Nat /\ kv_next[v] \in Nat
            /\ cta.stages \in Nat /\ cta.stages > 0
            /\ PrefetchSlots \in Nat /\ PrefetchSlots <= cta.stages
        BY <2>1, ControlTypes, Typed, Geometry
      <3>4. kv[w] < c.tile /\ c.tile < kv_next[v] /\ c.stage = c.tile % cta.stages
        BY <2>3, <3>1, <3>2 DEF InFlight, Matrix
      <3>5. kv_next[v] <= kv[w] + PrefetchSlots
        BY <3>1, <3>2 DEF Issued
      <3>6. c.tile < kv[w] + cta.stages
        BY <3>3, <3>4, <3>5
      <3>7. kv[w] % cta.stages # c.tile % cta.stages
        BY <3>3, <3>4, <3>6, StagesApart
      <3> QED
        BY <3>4, <3>7 DEF ReadStage
    <2>4. ASSUME NEW w \in Warp, pc[w] \in {"issue", "fold"}
          PROVE  /\ rQ[w] = RowsOf(w)
                 /\ rK[w] = [j \in KeyRow |-> kv[w] * BlockN + j] /\ rV[w] = rK[w]
      BY <2>1, <2>4 DEF PerWarp, Registers, Turn, Early, Tile
    <2> QED
      BY <2>2, <2>3, <2>4 DEF StageIsStable, Reading
  <1> QED
    BY <1>1, FlashInvariant, PTL

(***************************************************************************)
(* A row of O that is written is the attention of its query over exactly   *)
(* the keys up to its own position, each with its own value.               *)
(***************************************************************************)
THEOREM RowsHold == Spec => []RowsAreCausal
  <1>1. FlashInv => RowsAreCausal
    BY DEF FlashInv
  <1> QED
    BY <1>1, FlashInvariant, PTL

-----------------------------------------------------------------------------
(* A launch keeps its kind and its input. *)

Launches == Launch("attention", {<<>>}) \cup Computations

LEMMA LaunchStays == LaunchSpec => [](launch \in Launches)
  <1>1. LaunchInit => launch \in Launches
    BY DEF LaunchInit, Launches
  <1>2. launch \in Launches /\ [LaunchNext]_<<vars, launch>> => (launch \in Launches)'
    BY DEF LaunchNext
  <1> QED
    BY <1>1, <1>2, PTL DEF LaunchSpec

LEMMA LaunchInputs ==
  ASSUME launch \in Launches
  PROVE  /\ launch.kind = "dequant" => launch.in \in Thread \X (0 .. 3) \X {0, 1} \X (0 .. 3)
         /\ launch.kind = "fragment" => launch.in \in Fragments
         /\ launch.kind = "routing" => launch.in \in Logits
         /\ launch.kind = "experts" => launch.in \in Batches
         /\ launch.kind = "weights" => launch.in \in Matrices
  BY DEF Launches, Computations, Launch

-----------------------------------------------------------------------------
(* The registers of an accumulator, by atoms and by rows and columns. *)

\* A multiple of m and a rest below m.
LEMMA RestUnique ==
  ASSUME NEW m \in Nat, NEW a \in Nat, NEW b \in Nat, a < m, b < m,
         NEW p \in Nat, NEW q \in Nat, a + m * p = b + m * q
  PROVE  a = b /\ p = q
  <1>1. ASSUME p < q PROVE FALSE
    <2>1. m * (p + 1) <= m * q
      BY <1>1
    <2>2. m * (p + 1) = m * p + m
      OBVIOUS
    <2>3. m * p \in Nat /\ m * q \in Nat
      OBVIOUS
    <2> QED
      BY <2>1, <2>2, <2>3
  <1>2. ASSUME q < p PROVE FALSE
    <2>1. m * (q + 1) <= m * p
      BY <1>2
    <2>2. m * (q + 1) = m * q + m
      OBVIOUS
    <2>3. m * p \in Nat /\ m * q \in Nat
      OBVIOUS
    <2> QED
      BY <2>1, <2>2, <2>3
  <1>3. p = q
    BY <1>1, <1>2
  <1>4. m * p \in Nat
    OBVIOUS
  <1> QED
    BY <1>3, <1>4

\* The modes of a register of an accumulator of m by n atoms.
Modes(m, n) == {0, 1} \X {0, 1} \X (0 .. m - 1) \X (0 .. n - 1)

Of(q, m) == Register(q[1], q[2], q[3], q[4], m)

LEMMA RegisterIs ==
  ASSUME NEW m \in Nat, NEW v0 \in Nat, NEW v1 \in Nat, NEW mm \in Nat, NEW mn \in Nat
  PROVE  Register(v0, v1, mm, mn, m) = v0 + 2 * v1 + 4 * (mm + m * mn)
  <1>1. 4 * m * mn = 4 * (m * mn) /\ m * mn \in Nat
    OBVIOUS
  <1>2. v0 + 2 * v1 + 4 * mm + 4 * (m * mn) = v0 + 2 * v1 + 4 * (mm + m * mn)
    BY <1>1
  <1> QED
    BY <1>1, <1>2 DEF Register

\* A register of some modes, with its modes as four numbers.
LEMMA ModesOf ==
  ASSUME NEW m \in Nat \ {0}, NEW n \in Nat \ {0}, NEW q \in Modes(m, n)
  PROVE  \E v0 \in {0, 1}, v1 \in {0, 1}, mm \in 0 .. m - 1, mn \in 0 .. n - 1 :
           q = <<v0, v1, mm, mn>> /\ Of(q, m) = v0 + 2 * v1 + 4 * (mm + m * mn)
  <1>1. PICK v0 \in {0, 1}, v1 \in {0, 1}, mm \in 0 .. m - 1, mn \in 0 .. n - 1 :
             q = <<v0, v1, mm, mn>>
    BY DEF Modes
  <1>2. Of(q, m) = Register(v0, v1, mm, mn, m)
    BY <1>1 DEF Of
  <1>3. v0 \in Nat /\ v1 \in Nat /\ mm \in Nat /\ mn \in Nat /\ m \in Nat
    OBVIOUS
  <1>4. Register(v0, v1, mm, mn, m) = v0 + 2 * v1 + 4 * (mm + m * mn)
    BY <1>3, RegisterIs
  <1> QED
    BY <1>1, <1>2, <1>4

LEMMA RegisterUnique ==
  ASSUME NEW m \in Nat \ {0}, NEW n \in Nat \ {0}, NEW p \in Modes(m, n), NEW q \in Modes(m, n),
         Of(p, m) = Of(q, m)
  PROVE  p = q
  <1>1. PICK v0 \in {0, 1}, v1 \in {0, 1}, mm \in 0 .. m - 1, mn \in 0 .. n - 1 :
             p = <<v0, v1, mm, mn>> /\ Of(p, m) = v0 + 2 * v1 + 4 * (mm + m * mn)
    BY ModesOf
  <1>2. PICK w0 \in {0, 1}, w1 \in {0, 1}, nm \in 0 .. m - 1, nn \in 0 .. n - 1 :
             q = <<w0, w1, nm, nn>> /\ Of(q, m) = w0 + 2 * w1 + 4 * (nm + m * nn)
    BY ModesOf
  <1>3. PICK a, b : a = mm + m * mn /\ b = nm + m * nn
    OBVIOUS
  <1>4. a \in Nat /\ b \in Nat
    <2>1. m * mn \in Nat /\ m * nn \in Nat
      OBVIOUS
    <2> QED
      BY <1>3, <2>1
  <1>5. v0 + 2 * v1 + 4 * a = w0 + 2 * w1 + 4 * b
    BY <1>1, <1>2, <1>3
  <1>6. v0 = w0 /\ v1 = w1 /\ a = b
    BY <1>4, <1>5
  <1>7. mm = nm /\ mn = nn
    <2>1. /\ mm + m * mn = nm + m * nn /\ m \in Nat /\ mm \in Nat /\ nm \in Nat
          /\ mm < m /\ nm < m /\ mn \in Nat /\ nn \in Nat
      BY <1>3, <1>6
    <2> QED
      BY <2>1, RestUnique
  <1>8. p = <<v0, v1, mm, mn>> /\ q = <<w0, w1, nm, nn>>
    BY <1>1, <1>2
  <1> QED
    BY <1>6, <1>7, <1>8

LEMMA RegisterInRange ==
  ASSUME NEW m \in Nat \ {0}, NEW n \in Nat \ {0}, NEW q \in Modes(m, n)
  PROVE  Of(q, m) \in 0 .. 4 * m * n - 1
  <1>1. PICK v0 \in {0, 1}, v1 \in {0, 1}, mm \in 0 .. m - 1, mn \in 0 .. n - 1 :
             q = <<v0, v1, mm, mn>> /\ Of(q, m) = v0 + 2 * v1 + 4 * (mm + m * mn)
    BY ModesOf
  <1>2. PICK b, c : b = m * mn /\ c = m * n
    OBVIOUS
  <1>3. b \in Nat /\ c \in Nat /\ b + m <= c
    <2>1. mn \in Nat /\ mn + 1 <= n
      OBVIOUS
    <2>2. m * (mn + 1) <= m * n
      BY <2>1
    <2>3. m * (mn + 1) = m * mn + m /\ m * mn \in Nat /\ m * n \in Nat
      BY <2>1
    <2> QED
      BY <1>2, <2>2, <2>3
  <1>4. 4 * m * n = 4 * c
    BY <1>2
  <1> QED
    BY <1>1, <1>2, <1>3, <1>4

\* Every register has modes.
LEMMA RegisterHasModes ==
  ASSUME NEW m \in Nat \ {0}, NEW n \in Nat \ {0}, NEW r \in 0 .. 4 * m * n - 1
  PROVE  \E q \in Modes(m, n) : Of(q, m) = r
  <1>1. PICK c : c = m * n
    OBVIOUS
  <1>2. c \in Nat /\ 4 * m * n = 4 * c /\ r \in Nat /\ r < 4 * c
    <2>1. c \in Nat /\ 4 * m * n = 4 * c
      BY <1>1
    <2> QED
      BY <2>1
  <1>3. PICK y, v0, v1 : y = r \div 4 /\ v0 = r % 2 /\ v1 = (r \div 2) % 2
    OBVIOUS
  <1>4. y \in Nat /\ y < c /\ r = v0 + 2 * v1 + 4 * y /\ v0 \in {0, 1} /\ v1 \in {0, 1}
    BY <1>2, <1>3
  <1>5. PICK a, b : a = y % m /\ b = y \div m
    OBVIOUS
  <1>6. a \in Nat /\ a < m /\ b \in Nat /\ y = a + m * b
    BY <1>4, <1>5
  <1>7. b < n
    <2>1. ASSUME n <= b PROVE FALSE
      <3>1. m * n <= m * b
        BY <1>6, <2>1
      <3>2. m * b \in Nat
        BY <1>6
      <3> QED
        BY <1>1, <1>2, <1>4, <1>6, <3>1, <3>2
    <2> QED
      BY <1>6, <2>1
  <1> DEFINE q == <<v0, v1, a, b>>
  <1>8. q \in Modes(m, n)
    BY <1>4, <1>6, <1>7 DEF Modes
  <1>9. Of(q, m) = Register(v0, v1, a, b, m)
    BY DEF Of
  <1>10. Register(v0, v1, a, b, m) = v0 + 2 * v1 + 4 * (a + m * b)
    <2>1. v0 \in Nat /\ v1 \in Nat /\ a \in Nat /\ b \in Nat /\ m \in Nat
      BY <1>4, <1>6
    <2> QED
      BY <2>1, RegisterIs
  <1>11. Of(q, m) = r
    BY <1>4, <1>6, <1>9, <1>10
  <1> QED
    BY <1>8, <1>11

\* Where a lane has the element of a register.
LEMMA CoordinatesOf ==
  ASSUME NEW m \in Nat \ {0}, NEW n \in Nat \ {0}, NEW lane, NEW q \in Modes(m, n)
  PROVE  Coordinates(lane, m, n)[Of(q, m)] =
           <<lane \div 4 + 8 * q[2] + 16 * q[3], 2 * (lane % 4) + q[1] + 8 * q[4]>>
  <1> DEFINE modes == Modes(m, n)
             r == Of(q, m)
             p == CHOOSE p \in modes : Of(p, m) = r
  <1>1. p \in modes /\ Of(p, m) = r
    OBVIOUS
  <1>2. p = q
    BY <1>1, RegisterUnique
  <1>3. r \in 0 .. 4 * m * n - 1
    BY RegisterInRange
  <1> HIDE DEF r, modes
  <1>4. Coordinates(lane, m, n)[r] =
          <<lane \div 4 + 8 * p[2] + 16 * p[3], 2 * (lane % 4) + p[1] + 8 * p[4]>>
    BY <1>3 DEF Coordinates, Of, modes, Modes
  <1> QED
    BY <1>2, <1>4 DEF r

LEMMA RowColIs ==
  ASSUME NEW m \in Nat \ {0}, NEW n \in Nat \ {0},
         NEW r \in 0 .. NumRows(m) - 1, NEW c \in 0 .. NumCols(n) - 1
  PROVE  /\ <<c % 2, r % 2, r \div 2, c \div 2>> \in Modes(m, n)
         /\ RowCol(r, c, m) = Of(<<c % 2, r % 2, r \div 2, c \div 2>>, m)
  <1>1. r \in Nat /\ r < 2 * m /\ c \in Nat /\ c < 2 * n
    BY DEF NumRows, NumCols
  <1>2. /\ c % 2 \in {0, 1} /\ r % 2 \in {0, 1}
        /\ r \div 2 \in 0 .. m - 1 /\ c \div 2 \in 0 .. n - 1
    BY <1>1
  <1> QED
    BY <1>2 DEF Modes, RowCol, Of

\* What the view of a lane shows at a row and a column.
Shows(lane, m, n, r, c) ==
  Coordinates(lane, m, n)[RowCol(r, c, m)] =
    <<lane \div 4 + 8 * (r % 2) + 16 * (r \div 2), 2 * (lane % 4) + (c % 2) + 8 * (c \div 2)>>

LEMMA ElementAt ==
  ASSUME NEW m \in Nat \ {0}, NEW n \in Nat \ {0}, NEW lane,
         NEW r \in 0 .. NumRows(m) - 1, NEW c \in 0 .. NumCols(n) - 1
  PROVE  Shows(lane, m, n, r, c)
  <1> DEFINE q == <<c % 2, r % 2, r \div 2, c \div 2>>
  <1>1. q \in Modes(m, n) /\ RowCol(r, c, m) = Of(q, m)
    BY RowColIs
  <1>2. q[1] = c % 2 /\ q[2] = r % 2 /\ q[3] = r \div 2 /\ q[4] = c \div 2
    OBVIOUS
  <1> HIDE DEF q
  <1>3. Coordinates(lane, m, n)[Of(q, m)] =
          <<lane \div 4 + 8 * q[2] + 16 * q[3], 2 * (lane % 4) + q[1] + 8 * q[4]>>
    BY <1>1, CoordinatesOf
  <1> QED
    BY <1>1, <1>2, <1>3 DEF Shows

\* The view by rows and columns is of every register.
View(m, n) == {RowCol(r, c, m) : r \in 0 .. NumRows(m) - 1, c \in 0 .. NumCols(n) - 1}

LEMMA ViewIsWhole ==
  ASSUME NEW m \in Nat \ {0}, NEW n \in Nat \ {0}
  PROVE  View(m, n) = 0 .. 4 * m * n - 1
  <1>1. ASSUME NEW r \in 0 .. NumRows(m) - 1, NEW c \in 0 .. NumCols(n) - 1
        PROVE  RowCol(r, c, m) \in 0 .. 4 * m * n - 1
    <2>1. PICK q \in Modes(m, n) : RowCol(r, c, m) = Of(q, m)
      BY RowColIs
    <2> QED
      BY <2>1, RegisterInRange
  <1>2. ASSUME NEW x \in 0 .. 4 * m * n - 1
        PROVE  \E r \in 0 .. NumRows(m) - 1, c \in 0 .. NumCols(n) - 1 : RowCol(r, c, m) = x
    <2>1. PICK q \in Modes(m, n) : Of(q, m) = x
      BY RegisterHasModes
    <2>2. PICK v0 \in {0, 1}, v1 \in {0, 1}, mm \in 0 .. m - 1, mn \in 0 .. n - 1 :
               q = <<v0, v1, mm, mn>>
      BY DEF Modes
    <2>3. PICK r, c : r = v1 + 2 * mm /\ c = v0 + 2 * mn
      OBVIOUS
    <2>4. r \in 0 .. NumRows(m) - 1 /\ c \in 0 .. NumCols(n) - 1
      BY <2>3 DEF NumRows, NumCols
    <2>5. c % 2 = v0 /\ r % 2 = v1 /\ r \div 2 = mm /\ c \div 2 = mn
      BY <2>3
    <2>6. RowCol(r, c, m) = x
      BY <2>1, <2>2, <2>5 DEF RowCol, Of
    <2> QED
      BY <2>4, <2>6
  <1>3. View(m, n) \subseteq 0 .. 4 * m * n - 1
    BY <1>1 DEF View
  <1>4. 0 .. 4 * m * n - 1 \subseteq View(m, n)
    BY <1>2 DEF View
  <1> QED
    BY <1>3, <1>4

\* The lane and the local row that write a row of the tile.
LEMMA OneWriter ==
  ASSUME NEW m \in Nat \ {0}, NEW n \in Nat \ {0}, NEW row \in 0 .. 16 * m - 1
  PROVE  Cardinality(Writers(row, m, n)) = 1
  <1>1. PICK lane, r : lane = 4 * (row % 8) /\ r = row \div 8
    OBVIOUS
  <1>2. lane \in Lane /\ lane % ThreadsPerRow = 0 /\ r \in 0 .. NumRows(m) - 1
    <2>1. row \in Nat /\ row % 8 \in 0 .. 7 /\ lane \in 0 .. 31 /\ lane % 4 = 0
      BY <1>1
    <2>2. r \in Nat /\ r <= 2 * m - 1
      BY <1>1
    <2> QED
      BY <2>1, <2>2 DEF Lane, ThreadsPerRow, NumRows
  <1>3. 0 \in 0 .. NumCols(n) - 1
    BY DEF NumCols
  <1>4. ASSUME NEW l \in Lane, l % ThreadsPerRow = 0, NEW s \in 0 .. NumRows(m) - 1
        PROVE  Coordinates(l, m, n)[RowCol(s, 0, m)][1] = row <=> l = lane /\ s = r
    <2>1. Coordinates(l, m, n)[RowCol(s, 0, m)] =
            <<l \div 4 + 8 * (s % 2) + 16 * (s \div 2), 2 * (l % 4) + (0 % 2) + 8 * (0 \div 2)>>
      <3>1. Shows(l, m, n, s, 0)
        BY <1>3, ElementAt
      <3> QED
        BY <3>1 DEF Shows
    <2>2. Coordinates(l, m, n)[RowCol(s, 0, m)][1] = l \div 4 + 8 * (s % 2) + 16 * (s \div 2)
      BY <2>1
    <2>3. l \in 0 .. 31 /\ l % 4 = 0 /\ s \in Nat
      BY <1>4 DEF Lane, ThreadsPerRow, NumRows
    <2>4. l \div 4 + 8 * (s % 2) + 16 * (s \div 2) = l \div 4 + 8 * s
      BY <2>3
    <2>5. row \in Nat
      OBVIOUS
    <2>6. l \div 4 + 8 * s = row <=> l \div 4 = row % 8 /\ s = row \div 8
      <3>1. l \div 4 \in 0 .. 7
        BY <2>3
      <3> QED
        BY <2>3, <2>5, <3>1
    <2>7. l \div 4 = row % 8 <=> l = 4 * (row % 8)
      BY <2>3, <2>5
    <2> QED
      BY <1>1, <2>2, <2>4, <2>6, <2>7
  <1>5. Writers(row, m, n) = {<<lane, r>>}
    <2> DEFINE W == {w \in {l \in Lane : l % ThreadsPerRow = 0} \X (0 .. NumRows(m) - 1) :
                       Coordinates(w[1], m, n)[RowCol(w[2], 0, m)][1] = row}
    <2>1. W = Writers(row, m, n)
      BY DEF Writers
    <2>2. <<lane, r>> \in W
      BY <1>2, <1>4
    <2>3. ASSUME NEW w \in W PROVE w = <<lane, r>>
      <3>1. PICK l \in Lane, s \in 0 .. NumRows(m) - 1 : w = <<l, s>> /\ l % ThreadsPerRow = 0
        OBVIOUS
      <3>2. Coordinates(l, m, n)[RowCol(s, 0, m)][1] = row
        BY <3>1
      <3> QED
        BY <1>4, <3>1, <3>2
    <2> HIDE DEF W
    <2> QED
      BY <2>1, <2>2, <2>3
  <1> QED
    BY <1>5, FS_Singleton

\* The rows and the columns of the view, in the coordinates of the tile.
LEMMA RowsAndColumns ==
  ASSUME NEW m \in Nat \ {0}, NEW n \in Nat \ {0}, NEW lane,
         NEW r \in 0 .. NumRows(m) - 1, NEW c \in 0 .. NumCols(n) - 1
  PROVE  LET at == Coordinates(lane, m, n) IN
         /\ at[RowCol(r, c, m)][1] = at[RowCol(r, 0, m)][1]
         /\ at[RowCol(r, c, m)][2] = at[RowCol(0, c, m)][2]
  <1>1. 0 \in 0 .. NumRows(m) - 1 /\ 0 \in 0 .. NumCols(n) - 1
    BY DEF NumRows, NumCols
  <1>2. Shows(lane, m, n, r, c)
    BY ElementAt
  <1>3. Shows(lane, m, n, r, 0)
    BY <1>1, ElementAt
  <1>4. Shows(lane, m, n, 0, c)
    BY <1>1, ElementAt
  <1> QED
    BY <1>2, <1>3, <1>4 DEF Shows

\* The four registers of one atom.
LEMMA OneAtom ==
  ASSUME NEW n \in Nat \ {0}, NEW lane \in Lane
  PROVE  /\ \A q \in LowerRegisters : Coordinates(lane, 1, n)[q][1] = LowerRow(lane)
         /\ \A q \in UpperRegisters : Coordinates(lane, 1, n)[q][1] = UpperRow(lane)
  <1>1. ASSUME NEW v0 \in {0, 1}, NEW v1 \in {0, 1}
        PROVE  Coordinates(lane, 1, n)[v0 + 2 * v1][1] = lane \div 4 + 8 * v1
    <2>1. <<v0, v1, 0, 0>> \in Modes(1, n)
      BY DEF Modes
    <2>2. Of(<<v0, v1, 0, 0>>, 1) = v0 + 2 * v1
      BY DEF Of, Register
    <2>3. Coordinates(lane, 1, n)[Of(<<v0, v1, 0, 0>>, 1)] =
            <<lane \div 4 + 8 * v1 + 16 * 0, 2 * (lane % 4) + v0 + 8 * 0>>
      BY <2>1, CoordinatesOf
    <2>4. lane \div 4 + 8 * v1 + 16 * 0 = lane \div 4 + 8 * v1
      BY DEF Lane
    <2> QED
      BY <2>2, <2>3, <2>4
  <1>2. \A q \in LowerRegisters : q = q + 2 * 0 /\ q \in {0, 1}
    BY DEF LowerRegisters
  <1>3. \A q \in UpperRegisters : q = (q - 2) + 2 * 1 /\ q - 2 \in {0, 1}
    BY DEF UpperRegisters
  <1>4. lane \div 4 + 8 * 0 = LowerRow(lane) /\ lane \div 4 + 8 * 1 = UpperRow(lane)
    BY DEF LowerRow, UpperRow, Lane
  <1>5. ASSUME NEW q \in LowerRegisters PROVE Coordinates(lane, 1, n)[q][1] = LowerRow(lane)
    <2>1. Coordinates(lane, 1, n)[q + 2 * 0][1] = lane \div 4 + 8 * 0
      BY <1>1, <1>2
    <2> QED
      BY <1>2, <1>4, <2>1
  <1>6. ASSUME NEW q \in UpperRegisters PROVE Coordinates(lane, 1, n)[q][1] = UpperRow(lane)
    <2>1. Coordinates(lane, 1, n)[(q - 2) + 2 * 1][1] = lane \div 4 + 8 * 1
      BY <1>1, <1>3
    <2> QED
      BY <1>3, <1>4, <2>1
  <1> QED
    BY <1>5, <1>6

\* A register as operand of the next product.
LEMMA Feeds ==
  ASSUME NEW m \in Nat \ {0}, NEW n \in Nat \ {0}, NEW lane \in Lane,
         NEW v0 \in {0, 1}, NEW v1 \in {0, 1}, NEW half \in {0, 1}, NEW mm \in 0 .. m - 1,
         NEW k \in 0 .. n \div 2 - 1
  PROVE  Coordinates(lane, m, n)[FragmentA(v0, v1, half, mm, k, m, n)]
           = OperandA(lane, v0, v1, half, mm, k)
  <1>1. PICK mn : mn = 2 * k + half
    OBVIOUS
  <1>2. k \in Nat /\ mn \in 0 .. n - 1
    BY <1>1
  <1>3. <<v0, v1, mm, mn>> \in Modes(m, n)
    BY <1>2 DEF Modes
  <1>4. FragmentA(v0, v1, half, mm, k, m, n) = Of(<<v0, v1, mm, mn>>, m)
    BY <1>1 DEF FragmentA, Of
  <1>5. Coordinates(lane, m, n)[Of(<<v0, v1, mm, mn>>, m)] =
          <<lane \div 4 + 8 * v1 + 16 * mm, 2 * (lane % 4) + v0 + 8 * mn>>
    BY <1>3, CoordinatesOf
  <1>6. 2 * (lane % 4) + v0 + 8 * mn = 2 * (lane % 4) + v0 + 8 * half + 16 * k
    BY <1>1, <1>2 DEF Lane
  <1> QED
    BY <1>4, <1>5, <1>6 DEF OperandA

LEMMA ViewsAgree ==
  ASSUME NEW atoms \in (Nat \ {0}) \X (Nat \ {0})
  PROVE  RowViewIsWhole(atoms) /\ FeedsTheNextMma(atoms)
  <1>1. PICK m \in Nat \ {0}, n \in Nat \ {0} : atoms = <<m, n>>
    OBVIOUS
  <1>2. atoms[1] = m /\ atoms[2] = n
    BY <1>1
  <1>3. RowViewIsWhole(atoms)
    <2>1. View(m, n) = 0 .. 4 * m * n - 1
      BY ViewIsWhole
    <2>2. \A lane \in Lane :
            LET at == Coordinates(lane, m, n) IN
            /\ \A r \in 0 .. NumRows(m) - 1, c \in 0 .. NumCols(n) - 1 :
                 /\ at[RowCol(r, c, m)][1] = at[RowCol(r, 0, m)][1]
                 /\ at[RowCol(r, c, m)][2] = at[RowCol(0, c, m)][2]
            /\ m = 1 => /\ \A q \in LowerRegisters : at[q][1] = LowerRow(lane)
                        /\ \A q \in UpperRegisters : at[q][1] = UpperRow(lane)
      BY RowsAndColumns, OneAtom
    <2>3. \A row \in 0 .. 16 * m - 1 : Cardinality(Writers(row, m, n)) = 1
      BY OneWriter
    <2> QED
      BY <1>2, <2>1, <2>2, <2>3 DEF RowViewIsWhole, View
  <1>4. FeedsTheNextMma(atoms)
    BY <1>2, Feeds DEF FeedsTheNextMma
  <1> QED
    BY <1>3, <1>4

LEMMA RegisterViews ==
  ASSUME launch \in Launches, launch.kind = "fragment"
  PROVE  RowViewIsWhole(launch.in) /\ FeedsTheNextMma(launch.in)
  <1>1. launch.in \in (Nat \ {0}) \X (Nat \ {0})
    BY LaunchInputs, KernelsAssumption
  <1> QED
    BY <1>1, ViewsAgree

(***************************************************************************)
(* Views.                                                                  *)
(***************************************************************************)
THEOREM ViewsOfRegisters == LaunchSpec => []RegisterViewsAgree
  <1>1. launch \in Launches => RegisterViewsAgree
    BY RegisterViews DEF RegisterViewsAgree, For
  <1> QED
    BY <1>1, LaunchStays, PTL

-----------------------------------------------------------------------------
(* The orders of the weights and of the scales that the Marlin kernel reads. *)

LEMMA Nibbles ==
  ASSUME NEW i \in {0, 1}, NEW x \in 0 .. 3
  PROVE  LET c == DequantNibble(i, x) IN
         /\ c \in 0 .. 7 /\ c % 8 = c
         /\ RowOf(Nibble(c)) = (x % 2) + 8 * (x \div 2)
         /\ Nibble(c) \div 4 = i
  BY DEF DequantNibble, RowOf, Nibble

\* Where the words, the tiles and the threads of an index are.
LEMMA IndexOf ==
  ASSUME NEW t \in Nat, NEW j \in 0 .. 3, NEW c \in 0 .. 7
  PROVE  /\ ThreadOf(32 * t + 8 * j + c) = t /\ TileOf(32 * t + 8 * j + c) = j
         /\ (32 * t + 8 * j + c) % 8 = c
  <1>1. (32 * t + 8 * j + c) \div 32 = t /\ (32 * t + 8 * j + c) % 32 = 8 * j + c
    OBVIOUS
  <1>2. (8 * j + c) \div 8 = j
    OBVIOUS
  <1>3. (32 * t + 8 * j + c) % 8 = c
    OBVIOUS
  <1> QED
    BY <1>1, <1>2, <1>3 DEF ThreadOf, TileOf

\* The permuted element that stands for operand x of a thread.
LEMMA ReadIs ==
  ASSUME NEW t \in Thread, NEW j \in 0 .. 3, NEW i \in {0, 1}, NEW x \in 0 .. 3
  PROVE  /\ WeightRead(t, j, i, x) \in 0 .. PermElems - 1
         /\ WeightPerm[WeightRead(t, j, i, x)] =
              16 * (2 * (t % 4) + (x % 2) + 8 * (x \div 2)) + t \div 4 + 8 * i + 256 * j
  <1> DEFINE c == DequantNibble(i, x)
             a == WeightRead(t, j, i, x)
  <1>1. /\ c \in 0 .. 7 /\ RowOf(Nibble(c)) = (x % 2) + 8 * (x \div 2)
        /\ Nibble(c) \div 4 = i
    BY Nibbles
  <1>2. a = 32 * t + 8 * j + c
    BY DEF WeightRead
  <1> HIDE DEF c, a
  <1>3. t \in 0 .. 31 /\ t \in Nat
    BY DEF Thread
  <1>4. a \in 0 .. PermElems - 1
    BY <1>1, <1>2, <1>3 DEF PermElems
  <1>5. ThreadOf(a) = t /\ TileOf(a) = j /\ a % 8 = c
    <2>1. c \in 0 .. 7 /\ t \in Nat /\ j \in 0 .. 3
      BY <1>1, <1>3
    <2>2. ThreadOf(32 * t + 8 * j + c) = t /\ TileOf(32 * t + 8 * j + c) = j
          /\ (32 * t + 8 * j + c) % 8 = c
      BY <2>1, IndexOf
    <2> QED
      BY <1>2, <2>2
  <1>6. WeightPerm[a] = 16 * (2 * (ThreadOf(a) % 4) + RowOf(Nibble(a % 8))) + ThreadOf(a) \div 4
                          + 8 * BlockOf(a) + 256 * TileOf(a)
    BY <1>4 DEF WeightPerm
  <1>7. BlockOf(a) = i
    BY <1>1, <1>5 DEF BlockOf
  <1>8. WeightPerm[a] = 16 * (2 * (t % 4) + ((x % 2) + 8 * (x \div 2))) + t \div 4
                          + 8 * i + 256 * j
    BY <1>1, <1>5, <1>6, <1>7
  <1>9. 2 * (t % 4) + ((x % 2) + 8 * (x \div 2)) = 2 * (t % 4) + (x % 2) + 8 * (x \div 2)
    BY <1>3
  <1> QED
    BY <1>4, <1>8, <1>9 DEF a

\* For every thread, tile, block and operand.
Reads(t, j, i, x) ==
  /\ WeightRead(t, j, i, x) \in 0 .. PermElems - 1
  /\ WeightPerm[WeightRead(t, j, i, x)] =
       16 * (2 * (t % 4) + (x % 2) + 8 * (x \div 2)) + t \div 4 + 8 * i + 256 * j

LEMMA EveryRead == \A t \in Thread, j \in 0 .. 3, i \in {0, 1}, x \in 0 .. 3 : Reads(t, j, i, x)
  BY ReadIs DEF Reads

\* The row and the column of an element of the first row of tiles.
LiesAt(row, col, j) == Element(0, 16 * row + col + 256 * j) = <<row, 16 * j + col>>

LEMMA ElementOf ==
  ASSUME NEW row \in 0 .. 15, NEW col \in 0 .. 15, NEW j \in Nat
  PROVE  LiesAt(row, col, j)
  <1> DEFINE p == 16 * row + col + 256 * j
  <1>1. p \div 16 = row + 16 * j /\ p % 16 = col
    OBVIOUS
  <1>2. (row + 16 * j) % 16 = row
    OBVIOUS
  <1>3. p \div 256 = j
    OBVIOUS
  <1> HIDE DEF p
  <1>4. Element(0, p) = <<row, 16 * j + col>>
    <2>1. Element(0, p) = <<16 * 0 + ((p \div 16) % 16), 16 * (p \div (16 * 16)) + (p % 16)>>
      BY DEF Element, TileK, TileN
    <2>2. 16 * 0 + ((p \div 16) % 16) = row
      BY <1>1, <1>2
    <2>3. 16 * (p \div (16 * 16)) + (p % 16) = 16 * j + col
      BY <1>1, <1>3
    <2> QED
      BY <2>1, <2>2, <2>3
  <1> QED
    BY <1>4 DEF p, LiesAt

LEMMA OperandMeetsItsScale ==
  ASSUME NEW t \in Thread, NEW j \in 0 .. 3, NEW i \in {0, 1}, NEW x \in 0 .. 3
  PROVE  LET at == Element(0, WeightPerm[WeightRead(t, j, i, x)])
             b  == OperandB(t, x)
         IN at = <<b[1], 16 * j + 8 * i + b[2]>> /\ ScalePerm(ScaleRead(t, j, i)) = at[2]
  <1>1. t \in 0 .. 31
    BY DEF Thread
  <1>2. PICK row : row = 2 * (t % 4) + (x % 2) + 8 * (x \div 2)
    OBVIOUS
  <1>3. PICK col : col = t \div 4 + 8 * i
    OBVIOUS
  <1>4. row \in 0 .. 15 /\ col \in 0 .. 15
    <2>1. t % 4 \in 0 .. 3 /\ x % 2 \in 0 .. 1 /\ x \div 2 \in 0 .. 1 /\ t \div 4 \in 0 .. 7
      BY <1>1
    <2> QED
      BY <1>2, <1>3, <2>1
  <1>5. WeightPerm[WeightRead(t, j, i, x)] = 16 * row + col + 256 * j
    <2>1. WeightPerm[WeightRead(t, j, i, x)] = 16 * row + t \div 4 + 8 * i + 256 * j
      <3>1. Reads(t, j, i, x)
        BY EveryRead
      <3> QED
        BY <1>2, <3>1 DEF Reads
    <2>2. 16 * row + t \div 4 + 8 * i + 256 * j = 16 * row + (t \div 4 + 8 * i) + 256 * j
      BY <1>1, <1>4
    <2> QED
      BY <1>3, <2>1, <2>2
  <1>6. Element(0, WeightPerm[WeightRead(t, j, i, x)]) = <<row, 16 * j + col>>
    <2>1. j \in Nat
      OBVIOUS
    <2>2. LiesAt(row, col, j)
      BY <1>4, <2>1, ElementOf
    <2> QED
      BY <1>5, <2>2 DEF LiesAt
  <1>7. OperandB(t, x) = <<row, t \div 4>> /\ 16 * j + 8 * i + t \div 4 = 16 * j + col
    BY <1>1, <1>2, <1>3 DEF OperandB
  <1>8. ScalePerm(ScaleRead(t, j, i)) = 16 * j + col
    <2>1. (8 * (t \div 4) + 2 * j + i) \div 8 = t \div 4
      BY <1>1
    <2>2. (8 * (t \div 4) + 2 * j + i) % 8 = 2 * j + i
      BY <1>1
    <2>3. ScalePerm(ScaleRead(t, j, i)) = t \div 4 + 8 * (2 * j + i)
      BY <2>1, <2>2 DEF ScalePerm, ScaleRead
    <2> QED
      BY <1>1, <1>3, <2>3
  <1> QED
    BY <1>6, <1>7, <1>8

(***************************************************************************)
(* Operands and scales.                                                    *)
(***************************************************************************)
THEOREM OperandsMeet == LaunchSpec => []OperandsMeetTheirScales
  <1>1. launch \in Launches => OperandsMeetTheirScales
    <2> SUFFICES ASSUME launch \in Launches, launch.kind = "dequant"
                 PROVE  LET in == launch.in IN
                        LET thread == in[1]  j == in[2]  i == in[3]
                            at     == Element(0, WeightPerm[WeightRead(thread, j, i, in[4])])
                            b      == OperandB(thread, in[4])
                        IN /\ at = <<b[1], 16 * j + 8 * i + b[2]>>
                           /\ ScalePerm(ScaleRead(thread, j, i)) = at[2]
      BY DEF OperandsMeetTheirScales, For
    <2>1. launch.in \in Thread \X (0 .. 3) \X {0, 1} \X (0 .. 3)
      BY LaunchInputs
    <2>2. /\ launch.in[1] \in Thread /\ launch.in[2] \in 0 .. 3
          /\ launch.in[3] \in {0, 1} /\ launch.in[4] \in 0 .. 3
      BY <2>1
    <2> QED
      BY <2>2, OperandMeetsItsScale
  <1> QED
    BY <1>1, LaunchStays, PTL

-----------------------------------------------------------------------------
(* A word of eight nibbles, and each of them read from it. *)

\* A word and the digit at a place of it.
LEMMA DigitAt ==
  ASSUME NEW low \in Nat, NEW p \in Nat \ {0}, low < p, NEW d \in 0 .. 15, NEW y \in Int,
         NEW word, word = low + p * (d + 16 * y)
  PROVE  /\ (word \div p) % 16 = d
         /\ low + d * p \in Nat /\ low + d * p < 16 * p
         /\ word = (low + d * p) + (16 * p) * y
  <1>1. PICK x : x = d + 16 * y
    OBVIOUS
  <1>2. x \in Int /\ x % 16 = d
    BY <1>1
  <1>3. (low + p * x) \div p = x
    BY <1>2
  <1>4. d * p \in Nat /\ d * p <= 15 * p
    OBVIOUS
  <1>5. low + d * p \in Nat /\ low + d * p < 16 * p
    BY <1>4
  <1>6. p * (d + 16 * y) = d * p + (16 * p) * y
    OBVIOUS
  <1>7. d * p \in Int /\ (16 * p) * y \in Int
    OBVIOUS
  <1>8. word = (low + d * p) + (16 * p) * y
    BY <1>6, <1>7
  <1> QED
    BY <1>1, <1>2, <1>3, <1>5, <1>8

LEMMA Powers ==
  /\ 16 ^ 0 = 1 /\ 16 ^ 1 = 16 * 16 ^ 0 /\ 16 ^ 2 = 16 * 16 ^ 1 /\ 16 ^ 3 = 16 * 16 ^ 2
  /\ 16 ^ 4 = 16 * 16 ^ 3 /\ 16 ^ 5 = 16 * 16 ^ 4 /\ 16 ^ 6 = 16 * 16 ^ 5 /\ 16 ^ 7 = 16 * 16 ^ 6
  OBVIOUS

\* A word of eight digits, the highest of which is signed.
LEMMA WordIs ==
  ASSUME NEW nibble \in [0 .. 7 -> 0 .. 15]
  PROVE  \E high \in {0, -1} :
           Word(nibble) = nibble[0] * 16 ^ 0 + nibble[1] * 16 ^ 1 + nibble[2] * 16 ^ 2
             + nibble[3] * 16 ^ 3 + nibble[4] * 16 ^ 4 + nibble[5] * 16 ^ 5 + nibble[6] * 16 ^ 6
             + (nibble[7] + 16 * high) * 16 ^ 7
  <1>1. PICK high : high = IF nibble[7] >= 8 THEN -1 ELSE 0
    OBVIOUS
  <1>2. nibble[7] \in 0 .. 15
    OBVIOUS
  <1>3. nibble[7] + 16 * high = IF nibble[7] >= 8 THEN nibble[7] - 16 ELSE nibble[7]
    BY <1>1, <1>2
  <1>4. Word(nibble) = nibble[0] * 16 ^ 0 + nibble[1] * 16 ^ 1 + nibble[2] * 16 ^ 2
           + nibble[3] * 16 ^ 3 + nibble[4] * 16 ^ 4 + nibble[5] * 16 ^ 5 + nibble[6] * 16 ^ 6
           + (nibble[7] + 16 * high) * 16 ^ 7
    BY <1>3 DEF Word, PackNibbles
  <1> QED
    BY <1>1, <1>4

\* Two neighbouring places.
LEMMA Neighbours ==
  ASSUME NEW p \in Int, NEW q \in Int, q = 16 * p, NEW d \in Int, NEW x \in Int, NEW r \in Int
  PROVE  r + d * p + x * q = r + (d + 16 * x) * p
  <1>1. d * p \in Int /\ x * q \in Int
    OBVIOUS
  <1>2. d * p + x * q = (d + 16 * x) * p
    <2>1. x * q = 16 * (x * p)
      OBVIOUS
    <2>2. (d + 16 * x) * p = d * p + 16 * (x * p)
      OBVIOUS
    <2> QED
      BY <2>1, <2>2
  <1> QED
    BY <1>1, <1>2

LEMMA DigitOfWord ==
  ASSUME NEW nibble \in [0 .. 7 -> 0 .. 15], NEW i \in 0 .. 7
  PROVE  NibbleOf(Word(nibble), i) = nibble[i]
  <1>1. PICK high \in {0, -1} :
           Word(nibble) = nibble[0] * 16 ^ 0 + nibble[1] * 16 ^ 1 + nibble[2] * 16 ^ 2
             + nibble[3] * 16 ^ 3 + nibble[4] * 16 ^ 4 + nibble[5] * 16 ^ 5 + nibble[6] * 16 ^ 6
             + (nibble[7] + 16 * high) * 16 ^ 7
    BY WordIs
  <1>2. PICK a, b, c, d, e, f, g, h, word :
           /\ a = nibble[0] /\ b = nibble[1] /\ c = nibble[2] /\ d = nibble[3]
           /\ e = nibble[4] /\ f = nibble[5] /\ g = nibble[6] /\ h = nibble[7]
           /\ word = Word(nibble)
    OBVIOUS
  <1>3. /\ a \in 0 .. 15 /\ b \in 0 .. 15 /\ c \in 0 .. 15 /\ d \in 0 .. 15
        /\ e \in 0 .. 15 /\ f \in 0 .. 15 /\ g \in 0 .. 15 /\ h \in 0 .. 15
    BY <1>2
  <1>4. PICK p0, p1, p2, p3, p4, p5, p6, p7 :
           /\ p0 = 16 ^ 0 /\ p1 = 16 ^ 1 /\ p2 = 16 ^ 2 /\ p3 = 16 ^ 3
           /\ p4 = 16 ^ 4 /\ p5 = 16 ^ 5 /\ p6 = 16 ^ 6 /\ p7 = 16 ^ 7
    OBVIOUS
  <1>5. /\ p0 = 1 /\ p1 = 16 * p0 /\ p2 = 16 * p1 /\ p3 = 16 * p2
        /\ p4 = 16 * p3 /\ p5 = 16 * p4 /\ p6 = 16 * p5 /\ p7 = 16 * p6
    BY <1>4, Powers
  <1>6. /\ p0 \in Nat \ {0} /\ p1 \in Nat \ {0} /\ p2 \in Nat \ {0} /\ p3 \in Nat \ {0}
        /\ p4 \in Nat \ {0} /\ p5 \in Nat \ {0} /\ p6 \in Nat \ {0} /\ p7 \in Nat \ {0}
    BY <1>5
  <1>7. PICK x7 : x7 = h + 16 * high
    OBVIOUS
  <1>8. PICK x6 : x6 = g + 16 * x7
    OBVIOUS
  <1>9. PICK x5 : x5 = f + 16 * x6
    OBVIOUS
  <1>10. PICK x4 : x4 = e + 16 * x5
    OBVIOUS
  <1>11. PICK x3 : x3 = d + 16 * x4
    OBVIOUS
  <1>12. PICK x2 : x2 = c + 16 * x3
    OBVIOUS
  <1>13. PICK x1 : x1 = b + 16 * x2
    OBVIOUS
  <1>14. PICK x0 : x0 = a + 16 * x1
    OBVIOUS
  <1>15. /\ x7 \in Int /\ x6 \in Int /\ x5 \in Int /\ x4 \in Int
         /\ x3 \in Int /\ x2 \in Int /\ x1 \in Int /\ x0 \in Int
    BY <1>3, <1>7, <1>8, <1>9, <1>10, <1>11, <1>12, <1>13, <1>14
  <1>16. word = a * p0 + b * p1 + c * p2 + d * p3 + e * p4 + f * p5 + g * p6 + x7 * p7
    BY <1>1, <1>2, <1>4, <1>7
  <1>17. word = a * p0 + b * p1 + c * p2 + d * p3 + e * p4 + f * p5 + x6 * p6
    <2>1. PICK r : r = a * p0 + b * p1 + c * p2 + d * p3 + e * p4 + f * p5
      OBVIOUS
    <2>2. r \in Int
      <3>1. a * p0 \in Int /\ b * p1 \in Int /\ c * p2 \in Int /\ d * p3 \in Int /\ e * p4 \in Int /\ f * p5 \in Int
        BY <1>3, <1>6
      <3> QED
        BY <2>1, <3>1
    <2>3. g \in Int /\ x7 \in Int /\ p6 \in Int /\ p7 \in Int /\ p7 = 16 * p6
      BY <1>3, <1>5, <1>6, <1>15
    <2>4. r + g * p6 + x7 * p7 = r + (g + 16 * x7) * p6
      BY <2>2, <2>3, Neighbours
    <2>5. word = r + g * p6 + x7 * p7
      BY <1>16, <2>1
    <2> QED
      BY <1>8, <2>1, <2>4, <2>5
  <1>18. word = a * p0 + b * p1 + c * p2 + d * p3 + e * p4 + x5 * p5
    <2>1. PICK r : r = a * p0 + b * p1 + c * p2 + d * p3 + e * p4
      OBVIOUS
    <2>2. r \in Int
      <3>1. a * p0 \in Int /\ b * p1 \in Int /\ c * p2 \in Int /\ d * p3 \in Int /\ e * p4 \in Int
        BY <1>3, <1>6
      <3> QED
        BY <2>1, <3>1
    <2>3. f \in Int /\ x6 \in Int /\ p5 \in Int /\ p6 \in Int /\ p6 = 16 * p5
      BY <1>3, <1>5, <1>6, <1>15
    <2>4. r + f * p5 + x6 * p6 = r + (f + 16 * x6) * p5
      BY <2>2, <2>3, Neighbours
    <2>5. word = r + f * p5 + x6 * p6
      BY <1>17, <2>1
    <2> QED
      BY <1>9, <2>1, <2>4, <2>5
  <1>19. word = a * p0 + b * p1 + c * p2 + d * p3 + x4 * p4
    <2>1. PICK r : r = a * p0 + b * p1 + c * p2 + d * p3
      OBVIOUS
    <2>2. r \in Int
      <3>1. a * p0 \in Int /\ b * p1 \in Int /\ c * p2 \in Int /\ d * p3 \in Int
        BY <1>3, <1>6
      <3> QED
        BY <2>1, <3>1
    <2>3. e \in Int /\ x5 \in Int /\ p4 \in Int /\ p5 \in Int /\ p5 = 16 * p4
      BY <1>3, <1>5, <1>6, <1>15
    <2>4. r + e * p4 + x5 * p5 = r + (e + 16 * x5) * p4
      BY <2>2, <2>3, Neighbours
    <2>5. word = r + e * p4 + x5 * p5
      BY <1>18, <2>1
    <2> QED
      BY <1>10, <2>1, <2>4, <2>5
  <1>20. word = a * p0 + b * p1 + c * p2 + x3 * p3
    <2>1. PICK r : r = a * p0 + b * p1 + c * p2
      OBVIOUS
    <2>2. r \in Int
      <3>1. a * p0 \in Int /\ b * p1 \in Int /\ c * p2 \in Int
        BY <1>3, <1>6
      <3> QED
        BY <2>1, <3>1
    <2>3. d \in Int /\ x4 \in Int /\ p3 \in Int /\ p4 \in Int /\ p4 = 16 * p3
      BY <1>3, <1>5, <1>6, <1>15
    <2>4. r + d * p3 + x4 * p4 = r + (d + 16 * x4) * p3
      BY <2>2, <2>3, Neighbours
    <2>5. word = r + d * p3 + x4 * p4
      BY <1>19, <2>1
    <2> QED
      BY <1>11, <2>1, <2>4, <2>5
  <1>21. word = a * p0 + b * p1 + x2 * p2
    <2>1. PICK r : r = a * p0 + b * p1
      OBVIOUS
    <2>2. r \in Int
      <3>1. a * p0 \in Int /\ b * p1 \in Int
        BY <1>3, <1>6
      <3> QED
        BY <2>1, <3>1
    <2>3. c \in Int /\ x3 \in Int /\ p2 \in Int /\ p3 \in Int /\ p3 = 16 * p2
      BY <1>3, <1>5, <1>6, <1>15
    <2>4. r + c * p2 + x3 * p3 = r + (c + 16 * x3) * p2
      BY <2>2, <2>3, Neighbours
    <2>5. word = r + c * p2 + x3 * p3
      BY <1>20, <2>1
    <2> QED
      BY <1>12, <2>1, <2>4, <2>5
  <1>22. word = a * p0 + x1 * p1
    <2>1. PICK r : r = a * p0
      OBVIOUS
    <2>2. r \in Int
      <3>1. a * p0 \in Int
        BY <1>3, <1>6
      <3> QED
        BY <2>1, <3>1
    <2>3. b \in Int /\ x2 \in Int /\ p1 \in Int /\ p2 \in Int /\ p2 = 16 * p1
      BY <1>3, <1>5, <1>6, <1>15
    <2>4. r + b * p1 + x2 * p2 = r + (b + 16 * x2) * p1
      BY <2>2, <2>3, Neighbours
    <2>5. word = r + b * p1 + x2 * p2
      BY <1>21, <2>1
    <2> QED
      BY <1>13, <2>1, <2>4, <2>5
  <1>23. word = 0 + x0 * p0
    <2>1. PICK r : r = 0
      OBVIOUS
    <2>2. r \in Int
      BY <2>1
    <2>3. a \in Int /\ x1 \in Int /\ p0 \in Int /\ p1 \in Int /\ p1 = 16 * p0
      BY <1>3, <1>5, <1>6, <1>15
    <2>4. r + a * p0 + x1 * p1 = r + (a + 16 * x1) * p0
      BY <2>2, <2>3, Neighbours
    <2>5. word = r + a * p0 + x1 * p1
      <3>1. a * p0 \in Int
        BY <2>3
      <3> QED
        BY <1>22, <2>1, <3>1
    <2> QED
      BY <1>14, <2>1, <2>4, <2>5
  <1>24. PICK l0, l1, l2, l3, l4, l5, l6, l7 :
           /\ l0 = 0 /\ l1 = l0 + a * p0 /\ l2 = l1 + b * p1 /\ l3 = l2 + c * p2 /\ l4 = l3 + d * p3
           /\ l5 = l4 + e * p4 /\ l6 = l5 + f * p5 /\ l7 = l6 + g * p6
    OBVIOUS
  <1>25. l0 \in Nat /\ l0 < p0 /\ word = l0 + p0 * x0
    BY <1>6, <1>15, <1>23, <1>24
  <1>26. (word \div p0) % 16 = a /\ l1 \in Nat /\ l1 < p1 /\ word = l1 + p1 * x1
    <2>1. l0 \in Nat /\ p0 \in Nat \ {0} /\ l0 < p0 /\ a \in 0 .. 15 /\ x1 \in Int
      BY <1>3, <1>6, <1>15, <1>25
    <2>2. word = l0 + p0 * (a + 16 * x1)
      BY <1>14, <1>25
    <2>3. /\ (word \div p0) % 16 = a
          /\ l0 + a * p0 \in Nat /\ l0 + a * p0 < 16 * p0
          /\ word = (l0 + a * p0) + (16 * p0) * x1
      BY <2>1, <2>2, DigitAt
    <2> QED
      BY <1>5, <1>24, <2>3
  <1>27. (word \div p1) % 16 = b /\ l2 \in Nat /\ l2 < p2 /\ word = l2 + p2 * x2
    <2>1. l1 \in Nat /\ p1 \in Nat \ {0} /\ l1 < p1 /\ b \in 0 .. 15 /\ x2 \in Int
      BY <1>3, <1>6, <1>15, <1>26
    <2>2. word = l1 + p1 * (b + 16 * x2)
      BY <1>13, <1>26
    <2>3. /\ (word \div p1) % 16 = b
          /\ l1 + b * p1 \in Nat /\ l1 + b * p1 < 16 * p1
          /\ word = (l1 + b * p1) + (16 * p1) * x2
      BY <2>1, <2>2, DigitAt
    <2> QED
      BY <1>5, <1>24, <2>3
  <1>28. (word \div p2) % 16 = c /\ l3 \in Nat /\ l3 < p3 /\ word = l3 + p3 * x3
    <2>1. l2 \in Nat /\ p2 \in Nat \ {0} /\ l2 < p2 /\ c \in 0 .. 15 /\ x3 \in Int
      BY <1>3, <1>6, <1>15, <1>27
    <2>2. word = l2 + p2 * (c + 16 * x3)
      BY <1>12, <1>27
    <2>3. /\ (word \div p2) % 16 = c
          /\ l2 + c * p2 \in Nat /\ l2 + c * p2 < 16 * p2
          /\ word = (l2 + c * p2) + (16 * p2) * x3
      BY <2>1, <2>2, DigitAt
    <2> QED
      BY <1>5, <1>24, <2>3
  <1>29. (word \div p3) % 16 = d /\ l4 \in Nat /\ l4 < p4 /\ word = l4 + p4 * x4
    <2>1. l3 \in Nat /\ p3 \in Nat \ {0} /\ l3 < p3 /\ d \in 0 .. 15 /\ x4 \in Int
      BY <1>3, <1>6, <1>15, <1>28
    <2>2. word = l3 + p3 * (d + 16 * x4)
      BY <1>11, <1>28
    <2>3. /\ (word \div p3) % 16 = d
          /\ l3 + d * p3 \in Nat /\ l3 + d * p3 < 16 * p3
          /\ word = (l3 + d * p3) + (16 * p3) * x4
      BY <2>1, <2>2, DigitAt
    <2> QED
      BY <1>5, <1>24, <2>3
  <1>30. (word \div p4) % 16 = e /\ l5 \in Nat /\ l5 < p5 /\ word = l5 + p5 * x5
    <2>1. l4 \in Nat /\ p4 \in Nat \ {0} /\ l4 < p4 /\ e \in 0 .. 15 /\ x5 \in Int
      BY <1>3, <1>6, <1>15, <1>29
    <2>2. word = l4 + p4 * (e + 16 * x5)
      BY <1>10, <1>29
    <2>3. /\ (word \div p4) % 16 = e
          /\ l4 + e * p4 \in Nat /\ l4 + e * p4 < 16 * p4
          /\ word = (l4 + e * p4) + (16 * p4) * x5
      BY <2>1, <2>2, DigitAt
    <2> QED
      BY <1>5, <1>24, <2>3
  <1>31. (word \div p5) % 16 = f /\ l6 \in Nat /\ l6 < p6 /\ word = l6 + p6 * x6
    <2>1. l5 \in Nat /\ p5 \in Nat \ {0} /\ l5 < p5 /\ f \in 0 .. 15 /\ x6 \in Int
      BY <1>3, <1>6, <1>15, <1>30
    <2>2. word = l5 + p5 * (f + 16 * x6)
      BY <1>9, <1>30
    <2>3. /\ (word \div p5) % 16 = f
          /\ l5 + f * p5 \in Nat /\ l5 + f * p5 < 16 * p5
          /\ word = (l5 + f * p5) + (16 * p5) * x6
      BY <2>1, <2>2, DigitAt
    <2> QED
      BY <1>5, <1>24, <2>3
  <1>32. (word \div p6) % 16 = g /\ l7 \in Nat /\ l7 < p7 /\ word = l7 + p7 * x7
    <2>1. l6 \in Nat /\ p6 \in Nat \ {0} /\ l6 < p6 /\ g \in 0 .. 15 /\ x7 \in Int
      BY <1>3, <1>6, <1>15, <1>31
    <2>2. word = l6 + p6 * (g + 16 * x7)
      BY <1>8, <1>31
    <2>3. /\ (word \div p6) % 16 = g
          /\ l6 + g * p6 \in Nat /\ l6 + g * p6 < 16 * p6
          /\ word = (l6 + g * p6) + (16 * p6) * x7
      BY <2>1, <2>2, DigitAt
    <2> QED
      BY <1>5, <1>24, <2>3
  <1>33. (word \div p7) % 16 = h
    <2>1. l7 \in Nat /\ p7 \in Nat \ {0} /\ l7 < p7 /\ h \in 0 .. 15 /\ high \in Int
      BY <1>3, <1>6, <1>15, <1>32
    <2>2. word = l7 + p7 * (h + 16 * high)
      BY <1>7, <1>32
    <2>3. PICK y \in Int : y = high
      BY <2>1
    <2>4. word = l7 + p7 * (h + 16 * y)
      BY <2>2, <2>3
    <2>5. /\ (word \div p7) % 16 = h
          /\ l7 + h * p7 \in Nat /\ l7 + h * p7 < 16 * p7
          /\ word = (l7 + h * p7) + (16 * p7) * y
      BY <2>1, <2>4, DigitAt
    <2> QED
      BY <2>5
  <1>34. CASE i = 0
    BY <1>2, <1>4, <1>26, <1>34 DEF NibbleOf
  <1>35. CASE i = 1
    BY <1>2, <1>4, <1>27, <1>35 DEF NibbleOf
  <1>36. CASE i = 2
    BY <1>2, <1>4, <1>28, <1>36 DEF NibbleOf
  <1>37. CASE i = 3
    BY <1>2, <1>4, <1>29, <1>37 DEF NibbleOf
  <1>38. CASE i = 4
    BY <1>2, <1>4, <1>30, <1>38 DEF NibbleOf
  <1>39. CASE i = 5
    BY <1>2, <1>4, <1>31, <1>39 DEF NibbleOf
  <1>40. CASE i = 6
    BY <1>2, <1>4, <1>32, <1>40 DEF NibbleOf
  <1>41. CASE i = 7
    BY <1>2, <1>4, <1>33, <1>41 DEF NibbleOf
  <1> QED
    BY <1>34, <1>35, <1>36, <1>37, <1>38, <1>39, <1>40, <1>41

-----------------------------------------------------------------------------
(* The tiles, their permutation and its inverse. *)

\* The elements of a block of a row of tiles: 16 by 64.
Block == 0 .. PermElems - 1

LEMMA TileSplit ==
  ASSUME NEW u \in 0 .. 63
  PROVE  u = 16 * (u \div 16) + (u % 16) /\ u % 16 \in 0 .. 15 /\ u \div 16 \in 0 .. 3
  OBVIOUS

\* The row, the column and the tile of an element of a block.
LEMMA PlaceInTiles ==
  ASSUME NEW v \in Block
  PROVE  \E row \in 0 .. 15, col \in 0 .. 15, j \in 0 .. 3 : v = 16 * row + col + 256 * j
  <1>1. v \in 0 .. 1023
    BY DEF Block, PermElems
  <1>2. PICK u \in 0 .. 63, col \in 0 .. 15 : v = 16 * u + col
    <2>1. v \div 16 \in 0 .. 63 /\ v = 16 * (v \div 16) + (v % 16) /\ v % 16 \in 0 .. 15
      BY <1>1
    <2> QED
      BY <2>1
  <1>3. PICK row \in 0 .. 15, j \in 0 .. 3 : u = 16 * j + row
    BY TileSplit
  <1>4. v = 16 * row + col + 256 * j
    BY <1>2, <1>3
  <1> QED
    BY <1>4

LEMMA RowSplit ==
  ASSUME NEW row \in 0 .. 15
  PROVE  /\ row = 2 * ((row % 8) \div 2) + (row % 2) + 8 * (row \div 8)
         /\ (row % 8) \div 2 \in 0 .. 3 /\ row % 2 \in {0, 1} /\ row \div 8 \in {0, 1}
  OBVIOUS

LEMMA ColSplit ==
  ASSUME NEW col \in 0 .. 15
  PROVE  /\ col = (col % 8) + 8 * (col \div 8)
         /\ col % 8 \in 0 .. 7 /\ col \div 8 \in {0, 1}
  OBVIOUS

LEMMA SplitBack ==
  ASSUME NEW a \in 0 .. 3, NEW b \in 0 .. 7, NEW c \in {0, 1}, NEW d \in {0, 1}
  PROVE  /\ (4 * b + a) % 4 = a /\ (4 * b + a) \div 4 = b /\ 4 * b + a \in 0 .. 31
         /\ (c + 2 * d) % 2 = c /\ (c + 2 * d) \div 2 = d /\ c + 2 * d \in 0 .. 3
  OBVIOUS

LEMMA ChosenIs ==
  ASSUME NEW f, NEW S, NEW v, NEW w \in S, f[w] = v
  PROVE  LET y == CHOOSE y \in S : f[y] = v IN y \in S /\ f[y] = v
  OBVIOUS

(***************************************************************************)
(* The permutation of 16 by 64 weights misses none, so its inverse is one. *)
(***************************************************************************)
LEMMA PermHasInverse ==
  ASSUME NEW v \in Block
  PROVE  WeightInvPerm[v] \in Block /\ WeightPerm[WeightInvPerm[v]] = v
  <1>1. PICK row \in 0 .. 15, col \in 0 .. 15, j \in 0 .. 3 : v = 16 * row + col + 256 * j
    BY PlaceInTiles
  <1>2. row \in 0 .. 15 /\ col \in 0 .. 15 /\ j \in 0 .. 3 /\ v = 16 * row + col + 256 * j
    BY <1>1
  <1>3. PICK a \in 0 .. 3, c \in {0, 1}, d \in {0, 1} : row = 2 * a + c + 8 * d
    BY <1>2, RowSplit
  <1>4. PICK b \in 0 .. 7, i \in {0, 1} : col = b + 8 * i
    BY <1>2, ColSplit
  <1>5. PICK t \in 0 .. 31, x \in 0 .. 3 : t % 4 = a /\ t \div 4 = b /\ x % 2 = c /\ x \div 2 = d
    BY SplitBack
  <1>6. t \in Thread
    BY DEF Thread
  <1>7. PICK w : w = WeightRead(t, j, i, x)
    OBVIOUS
  <1>8. w \in Block /\ WeightPerm[w] = 16 * (2 * a + c + 8 * d) + b + 8 * i + 256 * j
    <2>1. t \in Thread /\ j \in 0 .. 3 /\ i \in {0, 1} /\ x \in 0 .. 3
      BY <1>2, <1>6
    <2>2. Reads(t, j, i, x)
      BY <2>1, EveryRead
    <2> QED
      BY <1>5, <1>7, <2>2 DEF Reads, Block
  <1>9. WeightPerm[w] = v
    BY <1>2, <1>3, <1>4, <1>8
  <1>10. DOMAIN WeightPerm = Block
    BY DEF WeightPerm, Block
  <1>11. WeightInvPerm[v] = CHOOSE y \in DOMAIN WeightPerm : WeightPerm[y] = v
    BY DEF WeightInvPerm, Block
  <1>12. w \in DOMAIN WeightPerm
    BY <1>8, <1>10
  <1>13. WeightInvPerm[v] \in DOMAIN WeightPerm /\ WeightPerm[WeightInvPerm[v]] = v
    BY <1>9, <1>11, <1>12, ChosenIs
  <1> QED
    BY <1>10, <1>13

LEMMA PermStays ==
  ASSUME NEW w \in Block
  PROVE  WeightPerm[w] \in Block
  <1>1. PICK a, b, c, d, e : /\ a = ThreadOf(w) % 4 /\ b = ThreadOf(w) \div 4
                             /\ c = BlockOf(w) /\ d = TileOf(w) /\ e = RowOf(Nibble(w % 8))
    OBVIOUS
  <1>2. WeightPerm[w] = 16 * (2 * a + e) + b + 8 * c + 256 * d
    BY <1>1 DEF WeightPerm, Block
  <1>3. a \in 0 .. 3 /\ b \in 0 .. 7 /\ d \in 0 .. 3
    BY <1>1 DEF ThreadOf, TileOf, Block, PermElems
  <1>4. w % 8 \in 0 .. 7
    BY DEF Block, PermElems
  <1>5. Nibble(w % 8) \in 0 .. 7
    BY <1>4 DEF Nibble
  <1>6. c \in 0 .. 1
    BY <1>1, <1>5 DEF BlockOf
  <1>7. e \in 0 .. 9
    BY <1>1 DEF RowOf
  <1> QED
    BY <1>2, <1>3, <1>6, <1>7 DEF Block, PermElems

\* The index of a weight in its row of tiles, and back.
LEMMA PlaceOf ==
  ASSUME NEW k \in Nat, NEW n \in Nat, NEW len \in Nat, n < 64 * len
  PROVE  LET p == TileK * TileN * (n \div TileN) + TileN * (k % TileK) + (n % TileN) IN
         /\ p \in Nat /\ p < 1024 * len
         /\ Element(k \div TileK, p) = <<k, n>>
  <1>1. PICK a, b, c, d : a = n \div 16 /\ b = k % 16 /\ c = n % 16 /\ d = k \div 16
    OBVIOUS
  <1>2. /\ a \in Nat /\ b \in 0 .. 15 /\ c \in 0 .. 15 /\ d \in Nat
        /\ n = 16 * a + c /\ k = 16 * d + b
    BY <1>1
  <1>3. PICK p : p = 256 * a + 16 * b + c
    OBVIOUS
  <1>4. p \in Nat /\ a < 4 * len
    BY <1>2, <1>3
  <1>5. p < 1024 * len
    BY <1>2, <1>3, <1>4
  <1>6. p \div 16 = 16 * a + b /\ p % 16 = c
    BY <1>2, <1>3
  <1>7. (16 * a + b) % 16 = b
    BY <1>2
  <1>8. p \div 256 = a
    BY <1>2, <1>3
  <1>9. Element(d, p) = <<16 * d + ((p \div 16) % 16), 16 * (p \div 256) + (p % 16)>>
    BY DEF Element, TileK, TileN
  <1>10. Element(d, p) = <<k, n>>
    BY <1>2, <1>6, <1>7, <1>8, <1>9
  <1>11. TileK * TileN * (n \div TileN) + TileN * (k % TileK) + (n % TileN) = p
    BY <1>1, <1>3 DEF TileK, TileN
  <1>12. k \div TileK = d
    BY <1>1 DEF TileK
  <1> QED
    BY <1>4, <1>5, <1>10, <1>11, <1>12

\* The permutation of a block of a row, and its inverse.
LEMMA BlockPermuted ==
  \A v \in Block : /\ WeightPerm[v] \in Block
                   /\ WeightInvPerm[v] \in Block /\ WeightPerm[WeightInvPerm[v]] = v
  BY PermStays, PermHasInverse

\* An index of a row of len blocks.
InRow(p, len) == p \in Nat /\ p < 1024 * len

\* An element of a matrix.
Within(rows, len, kt, p) == Element(kt, p) \in (0 .. 16 * rows - 1) \X (0 .. 64 * len - 1)

\* A row of tiles stays within the matrix.
LEMMA ElementStays ==
  ASSUME NEW kt \in Nat, NEW p \in Nat, NEW rows \in Nat, NEW len \in Nat, kt < rows, p < 1024 * len
  PROVE  Within(rows, len, kt, p)
  <1>1. PICK a, b : a = (p \div 16) % 16 /\ b = p \div 256
    OBVIOUS
  <1>2. a \in 0 .. 15 /\ b \in Nat /\ b < 4 * len /\ p % 16 \in 0 .. 15
    BY <1>1
  <1>3. Element(kt, p) = <<16 * kt + a, 16 * b + (p % 16)>>
    BY <1>1 DEF Element, TileK, TileN
  <1>4. 16 * kt + a \in 0 .. 16 * rows - 1
    BY <1>2
  <1>5. 16 * b + (p % 16) \in 0 .. 64 * len - 1
    BY <1>2
  <1> QED
    BY <1>3, <1>4, <1>5 DEF Within

\* The element at place v of the block of p.
Shifted(p, v) == PermElems * (p \div PermElems) + v

LEMMA ShiftedInRow ==
  ASSUME NEW len \in Nat, NEW p, InRow(p, len), NEW v \in Block
  PROVE  InRow(Shifted(p, v), len) /\ Shifted(p, v) % PermElems = v
         /\ \A z : Shifted(Shifted(p, v), z) = Shifted(p, z)
  <1>1. PICK a : a = p \div 1024
    OBVIOUS
  <1>2. p \in Nat /\ p < 1024 * len /\ v \in 0 .. 1023
    BY DEF InRow, Block, PermElems
  <1>3. a \in Nat /\ a < len
    BY <1>1, <1>2
  <1>4. PICK u : u = 1024 * a + v
    OBVIOUS
  <1>5. u \in Nat /\ u < 1024 * len /\ u \div 1024 = a /\ u % 1024 = v
    BY <1>2, <1>3, <1>4
  <1>6. Shifted(p, v) = u
    BY <1>1, <1>4 DEF Shifted, PermElems
  <1>7. \A z : Shifted(u, z) = Shifted(p, z)
    BY <1>1, <1>5 DEF Shifted, PermElems
  <1> QED
    BY <1>5, <1>6, <1>7 DEF InRow, PermElems

LEMMA BlockStays ==
  \A len \in Nat : \A p, v : InRow(p, len) /\ v \in Block =>
    /\ InRow(Shifted(p, v), len)
    /\ Shifted(p, v) % PermElems = v
    /\ \A z : Shifted(Shifted(p, v), z) = Shifted(p, z)
  BY ShiftedInRow

LEMMA InItsBlock ==
  ASSUME NEW len \in Nat, NEW p, InRow(p, len)
  PROVE  p % PermElems \in Block /\ Shifted(p, p % PermElems) = p
  <1>1. p \in Nat
    BY DEF InRow
  <1>2. p % 1024 \in 0 .. 1023 /\ 1024 * (p \div 1024) + (p % 1024) = p
    BY <1>1
  <1> QED
    BY <1>2 DEF Shifted, Block, PermElems

LEMMA WordsOf ==
  ASSUME NEW p \in Nat, NEW len \in Nat, p < 1024 * len
  PROVE  /\ p \div 8 \in 0 .. 128 * len - 1 /\ p % 8 \in 0 .. 7 /\ (p \div 8) * 8 + (p % 8) = p
         /\ \A i \in 0 .. 7 : (p \div 8) * 8 + i \in Nat /\ (p \div 8) * 8 + i < 1024 * len
  <1>1. PICK a : a = p \div 8
    OBVIOUS
  <1>2. a \in Nat /\ a < 128 * len /\ p % 8 \in 0 .. 7 /\ a * 8 + (p % 8) = p
    BY <1>1
  <1> QED
    BY <1>1, <1>2
\* What a packed word holds of a place of its row.
LEMMA PackedNibble ==
  ASSUME NEW rows \in Nat, NEW len \in Nat,
         NEW q \in [(0 .. 16 * rows - 1) \X (0 .. 64 * len - 1) -> 0 .. 15],
         NEW kt \in 0 .. rows - 1, NEW p, InRow(p, len)
  PROVE  NibbleOf(PackW4A16(q, 16 * rows, 64 * len)[<<kt, p \div PackNibbles>>], p % PackNibbles)
           = q[Element(kt, Shifted(p, WeightPerm[p % PermElems]))]
  <1> DEFINE permuted(t, w) == q[Element(t, Shifted(w, WeightPerm[w % PermElems]))]
             nibbles == [i \in 0 .. 7 |-> permuted(kt, (p \div 8) * 8 + i)]
  <1>1. \A w : InRow(w, len) => permuted(kt, w) \in 0 .. 15
    <2> SUFFICES ASSUME NEW w, InRow(w, len)
                 PROVE  permuted(kt, w) \in 0 .. 15
      OBVIOUS
    <2>1. w % PermElems \in Block
      BY InItsBlock
    <2>2. WeightPerm[w % PermElems] \in Block
      BY <2>1, BlockPermuted
    <2>3. PICK u : u = Shifted(w, WeightPerm[w % PermElems])
      OBVIOUS
    <2>4. InRow(u, len)
      BY <2>2, <2>3, BlockStays
    <2>5. kt \in Nat /\ kt < rows
      OBVIOUS
    <2>6. Element(kt, u) \in (0 .. 16 * rows - 1) \X (0 .. 64 * len - 1)
      <3>1. u \in Nat /\ u < 1024 * len
        BY <2>4 DEF InRow
      <3>2. Within(rows, len, kt, u)
        BY <2>5, <3>1, ElementStays
      <3> QED
        BY <3>2 DEF Within
    <2>7. q[Element(kt, u)] \in 0 .. 15
      BY <2>6
    <2> QED
      BY <2>3, <2>7
  <1>2. /\ p \div 8 \in 0 .. 128 * len - 1 /\ p % 8 \in 0 .. 7 /\ (p \div 8) * 8 + (p % 8) = p
        /\ \A i \in 0 .. 7 : InRow((p \div 8) * 8 + i, len)
    <2>1. p \in Nat /\ p < 1024 * len
      BY DEF InRow
    <2> QED
      BY <2>1, WordsOf DEF InRow
  <1>3. nibbles \in [0 .. 7 -> 0 .. 15]
    <2> HIDE DEF permuted
    <2> QED
      BY <1>1, <1>2
  <1>4. (16 * rows) \div 16 = rows /\ ((64 * len) * 16) \div 8 = 128 * len
    OBVIOUS
  <1>5. PackW4A16(q, 16 * rows, 64 * len) =
          [at \in (0 .. rows - 1) \X (0 .. 128 * len - 1) |->
             Word([i \in 0 .. 7 |-> permuted(at[1], at[2] * 8 + i)])]
    <2> HIDE DEF permuted
    <2>1. PackW4A16(q, 16 * rows, 64 * len) =
            [at \in (0 .. (16 * rows) \div 16 - 1) \X (0 .. ((64 * len) * 16) \div 8 - 1) |->
               Word([i \in 0 .. 8 - 1 |-> permuted(at[1], at[2] * 8 + i)])]
      BY DEF PackW4A16, permuted, Shifted, TileK, PackNibbles
    <2>2. 0 .. 8 - 1 = 0 .. 7
      OBVIOUS
    <2> QED
      BY <1>4, <2>1, <2>2
  <1>6. PackW4A16(q, 16 * rows, 64 * len)[<<kt, p \div 8>>] = Word(nibbles)
    <2> HIDE DEF permuted
    <2> QED
      BY <1>2, <1>5
  <1>7. NibbleOf(Word(nibbles), p % 8) = nibbles[p % 8]
    <2> HIDE DEF nibbles
    <2> QED
      BY <1>2, <1>3, DigitOfWord
  <1>8. nibbles[p % 8] = permuted(kt, p)
    <2> HIDE DEF permuted
    <2> QED
      BY <1>2
  <1> QED
    BY <1>6, <1>7, <1>8 DEF PackNibbles

Packed(q, rows, len, kt, p) ==
  NibbleOf(PackW4A16(q, 16 * rows, 64 * len)[<<kt, p \div PackNibbles>>], p % PackNibbles)
    = q[Element(kt, Shifted(p, WeightPerm[p % PermElems]))]

LEMMA EveryNibble ==
  ASSUME NEW rows \in Nat, NEW len \in Nat,
         NEW q \in [(0 .. 16 * rows - 1) \X (0 .. 64 * len - 1) -> 0 .. 15]
  PROVE  \A kt \in 0 .. rows - 1 : \A p : InRow(p, len) => Packed(q, rows, len, kt, p)
  BY PackedNibble DEF Packed

(***************************************************************************)
(* Nothing is lost in the tiles, the permutation and the words.            *)
(***************************************************************************)
LEMMA RoundTrip ==
  ASSUME NEW rows \in Nat, NEW len \in Nat,
         NEW q \in [(0 .. 16 * rows - 1) \X (0 .. 64 * len - 1) -> 0 .. 15]
  PROVE  UnpackW4A16(PackW4A16(q, 16 * rows, 64 * len), 16 * rows, 64 * len) = q
  <1> DEFINE words == PackW4A16(q, 16 * rows, 64 * len)
             place(k, n) == TileK * TileN * (n \div TileN) + TileN * (k % TileK) + (n % TileN)
             inverse(p) == PermElems * (p \div PermElems) + WeightInvPerm[p % PermElems]
             found(k, n) == NibbleOf(words[<<k \div TileK, inverse(place(k, n)) \div PackNibbles>>],
                                     inverse(place(k, n)) % PackNibbles)
  <1>1. \A k \in 0 .. 16 * rows - 1, n \in 0 .. 64 * len - 1 : found(k, n) = q[<<k, n>>]
    <2> SUFFICES ASSUME NEW k \in 0 .. 16 * rows - 1, NEW n \in 0 .. 64 * len - 1
                 PROVE  found(k, n) = q[<<k, n>>]
      OBVIOUS
    <2>1. PICK p : p = place(k, n)
      OBVIOUS
    <2>2. InRow(p, len) /\ Element(k \div TileK, p) = <<k, n>>
      <3>1. k \in Nat /\ n \in Nat /\ n < 64 * len
        OBVIOUS
      <3> QED
        BY <2>1, <3>1, PlaceOf DEF InRow
    <2>3. PICK v : v = WeightInvPerm[p % PermElems]
      OBVIOUS
    <2>4. PICK w : w = inverse(p)
      OBVIOUS
    <2>5. w = Shifted(p, v)
      BY <2>3, <2>4 DEF Shifted
    <2>6. PICK kt : kt = k \div TileK
      OBVIOUS
    <2>7. kt \in 0 .. rows - 1
      BY <2>6 DEF TileK
    <2>8. found(k, n) = NibbleOf(words[<<kt, w \div PackNibbles>>], w % PackNibbles)
      BY <2>1, <2>4, <2>6
    <2> HIDE DEF place, inverse, found
    <2>9. p % PermElems \in Block /\ Shifted(p, p % PermElems) = p
      BY <2>2, InItsBlock
    <2>10. v \in Block /\ WeightPerm[v] = p % PermElems
      BY <2>3, <2>9, BlockPermuted
    <2>11. InRow(w, len) /\ w % PermElems = v /\ Shifted(w, WeightPerm[v]) = p
      BY <2>2, <2>5, <2>9, <2>10, BlockStays
    <2>12. Packed(q, rows, len, kt, w)
      BY <2>7, <2>11, EveryNibble
    <2>13. NibbleOf(words[<<kt, w \div PackNibbles>>], w % PackNibbles) = q[Element(kt, p)]
      BY <2>11, <2>12 DEF Packed
    <2> QED
      BY <2>2, <2>6, <2>8, <2>13
  <1>2. UnpackW4A16(words, 16 * rows, 64 * len) =
          [at \in (0 .. 16 * rows - 1) \X (0 .. 64 * len - 1) |-> found(at[1], at[2])]
    BY DEF UnpackW4A16
  <1> HIDE DEF found
  <1>3. \A at \in (0 .. 16 * rows - 1) \X (0 .. 64 * len - 1) : found(at[1], at[2]) = q[at]
    BY <1>1
  <1> QED
    BY <1>2, <1>3

-----------------------------------------------------------------------------
(* The scale of a group, and the level nearest to a weight. *)

\* Induction, for a set.
LEMMA SetInduction ==
  ASSUME NEW P, 0 \in P, \A m \in Nat : m \in P => m + 1 \in P
  PROVE  Nat \subseteq P
  <1> SUFFICES ASSUME Nat \ P # {}
               PROVE  FALSE
    OBVIOUS
  <1>1. IsWellFoundedOn(OpToRel(<, Nat), Nat)
    BY NatLessThanWellFounded
  <1>2. Nat \ P \subseteq Nat
    OBVIOUS
  <1>3. PICK x \in Nat \ P : \A y \in Nat \ P : ~(<<y, x>> \in OpToRel(<, Nat))
    BY <1>1, <1>2, WFMin
  <1>4. x - 1 \in Nat /\ x - 1 < x
    OBVIOUS
  <1>5. <<x - 1, x>> \in OpToRel(<, Nat)
    BY <1>3, <1>4 DEF OpToRel
  <1>6. x - 1 \in P
    BY <1>3, <1>4, <1>5
  <1> QED
    BY <1>4, <1>6

LEMMA Nearer ==
  ASSUME NEW s \in Int, NEW r \in Int, NEW b \in Nat, s < r
  PROVE  s * b \in Int /\ r * b \in Int /\ s * b + b <= r * b
  <1>1. (r - 1 - s) \in Nat
    OBVIOUS
  <1>2. (r - 1 - s) * b \in Nat
    BY <1>1
  <1>3. (r - 1 - s) * b = r * b - b - s * b
    OBVIOUS
  <1>4. s * b \in Int /\ r * b \in Int
    OBVIOUS
  <1> QED
    BY <1>2, <1>3, <1>4

\* torch.round is off by no more than half.
LEMMA RoundedIsNear ==
  ASSUME NEW a \in Int, NEW b \in Nat \ {0}
  PROVE  LET r == RoundHalfEven(a, b) IN
         r \in Int /\ 2 * a <= 2 * (r * b) + b /\ 2 * (r * b) <= 2 * a + b
  <1>1. PICK d \in Int, c \in Int : d = a \div b /\ c = a % b
    OBVIOUS
  <1>2. a = b * d + c /\ 0 <= c /\ c < b
    BY <1>1
  <1>3. PICK p : p = d * b
    OBVIOUS
  <1>4. p \in Int /\ b * d = p /\ (d + 1) * b = p + b
    BY <1>3
  <1>5. CASE 2 * c < b \/ (2 * c = b /\ d % 2 = 0)
    <2>1. RoundHalfEven(a, b) = d
      BY <1>1, <1>5 DEF RoundHalfEven
    <2>2. 2 * a <= 2 * p + b /\ 2 * p <= 2 * a + b
      BY <1>2, <1>4, <1>5
    <2> QED
      BY <1>3, <2>1, <2>2
  <1>6. CASE ~(2 * c < b \/ (2 * c = b /\ d % 2 = 0))
    <2>1. RoundHalfEven(a, b) = d + 1
      BY <1>1, <1>6 DEF RoundHalfEven
    <2>2. 2 * a <= 2 * (p + b) + b /\ 2 * (p + b) <= 2 * a + b
      BY <1>2, <1>4, <1>6
    <2> QED
      BY <1>4, <2>1, <2>2
  <1> QED
    BY <1>5, <1>6

\* The level of a weight is the nearest to it, b being eight times the scale.
Nearest(weight, b) ==
  LET level == Quantized(weight, b) IN
  /\ level \in 0 .. 15
  /\ \A l \in 0 .. 15 : Abs(8 * weight - (level - 8) * b) <= Abs(8 * weight - (l - 8) * b)

(***************************************************************************)
(* Rounding and clamping find the nearest of the sixteen levels.           *)
(***************************************************************************)
LEMMA QuantizedIsNearest ==
  ASSUME NEW weight \in Int, NEW b \in Nat \ {0}, Abs(weight) <= b
  PROVE  Nearest(weight, b)
  <1> USE DEF Nearest
  <1>1. PICK a : a = 8 * weight
    OBVIOUS
  <1>2. a \in Int /\ a <= 8 * b /\ -(8 * b) <= a
    BY <1>1 DEF Abs
  <1>3. PICK r : r = RoundHalfEven(a, b)
    OBVIOUS
  <1>4. r \in Int /\ 2 * a <= 2 * (r * b) + b /\ 2 * (r * b) <= 2 * a + b
    BY <1>2, <1>3, RoundedIsNear
  <1>5. r * b \in Int
    BY <1>4
  <1>6. r <= 8
    <2> SUFFICES ASSUME 8 < r
                 PROVE  FALSE
      BY <1>4
    <2>1. 8 * b + b <= r * b
      BY <1>4, Nearer
    <2> QED
      BY <1>2, <1>4, <1>5, <2>1
  <1>7. -8 <= r
    <2> SUFFICES ASSUME r < -8
                 PROVE  FALSE
      BY <1>4
    <2>1. r * b + b <= (-8) * b
      BY <1>4, Nearer
    <2> QED
      BY <1>2, <1>4, <1>5, <2>1
  <1>8. Quantized(weight, b) = IF r = 8 THEN 15 ELSE r + 8
    BY <1>1, <1>3, <1>4, <1>6, <1>7 DEF Quantized, Clamp, ZeroPoint, MaxQ
  <1>9. CASE r = 8
    <2>1. Quantized(weight, b) = 15
      BY <1>8, <1>9
    <2>2. SUFFICES ASSUME NEW l \in 0 .. 15
                   PROVE  Abs(a - 7 * b) <= Abs(a - (l - 8) * b)
      BY <1>1, <2>1
    <2>3. (l - 8) * b \in Int /\ (l - 8) * b <= 7 * b
      <3>1. PICK s \in Int : s = l - 8
        OBVIOUS
      <3>2. CASE s = 7
        BY <3>1, <3>2
      <3>3. CASE s < 7
        <4>1. s * b \in Int /\ s * b + b <= 7 * b
          BY <3>3, Nearer
        <4> QED
          BY <3>1, <4>1
      <3> QED
        BY <3>1, <3>2, <3>3
    <2>4. 7 * b <= a
      BY <1>2, <1>4, <1>9
    <2> QED
      BY <1>2, <2>3, <2>4 DEF Abs
  <1>10. CASE r # 8
    <2>1. Quantized(weight, b) = r + 8 /\ r + 8 \in 0 .. 15 /\ (r + 8) - 8 = r
      BY <1>4, <1>6, <1>7, <1>8, <1>10
    <2>2. SUFFICES ASSUME NEW l \in 0 .. 15
                   PROVE  Abs(a - r * b) <= Abs(a - (l - 8) * b)
      BY <1>1, <2>1
    <2>3. PICK s \in Int : s = l - 8
      OBVIOUS
    <2>4. CASE s = r
      BY <1>2, <1>5, <2>3, <2>4 DEF Abs
    <2>5. CASE s < r
      <3>1. s * b \in Int /\ s * b + b <= r * b
        BY <1>4, <2>5, Nearer
      <3>2. Abs(a - r * b) <= Abs(a - s * b)
        BY <1>2, <1>4, <1>5, <3>1 DEF Abs
      <3> QED
        BY <2>3, <3>2
    <2>6. CASE r < s
      <3>1. s * b \in Int /\ r * b + b <= s * b
        BY <1>4, <2>6, Nearer
      <3>2. Abs(a - r * b) <= Abs(a - s * b)
        BY <1>2, <1>4, <1>5, <3>1 DEF Abs
      <3> QED
        BY <2>3, <3>2
    <2> QED
      BY <1>4, <2>4, <2>5, <2>6
  <1> QED
    BY <1>9, <1>10

\* The largest of the first g values of a group, and of 1.
Seen(f, first, g) == {1} \cup {f[i] : i \in first .. first + g - 1}

LEMMA LargestSeen ==
  ASSUME NEW f, NEW first \in Nat, NEW len \in Nat, \A i \in first .. first + len - 1 : f[i] \in Nat
  PROVE  \E m \in Seen(f, first, len) : m \in Nat \ {0} /\ \A y \in Seen(f, first, len) : m >= y
  <1> DEFINE Largest(g) == \E m \in Seen(f, first, g) : m \in Nat \ {0} /\ \A y \in Seen(f, first, g) : m >= y
             P == {g \in Nat : g <= len => Largest(g)}
  <1>1. 0 \in P
    <2>1. first .. first + 0 - 1 = {}
      OBVIOUS
    <2>2. Seen(f, first, 0) = {1}
      BY <2>1 DEF Seen
    <2> QED
      BY <2>2
  <1>2. ASSUME NEW g \in Nat, g \in P
        PROVE  g + 1 \in P
    <2> SUFFICES ASSUME g + 1 <= len
                 PROVE  Largest(g + 1)
      OBVIOUS
    <2>1. PICK m \in Seen(f, first, g) : m \in Nat \ {0} /\ \A y \in Seen(f, first, g) : m >= y
      BY <1>2
    <2>2. PICK new : new = f[first + g]
      OBVIOUS
    <2>3. new \in Nat
      BY <2>2
    <2>4. first .. first + (g + 1) - 1 = (first .. first + g - 1) \cup {first + g}
      BY <1>2
    <2>5. Seen(f, first, g + 1) = Seen(f, first, g) \cup {new}
      BY <2>2, <2>4 DEF Seen
    <2>6. \A y \in Seen(f, first, g) : y \in Nat
      BY DEF Seen
    <2>7. CASE new <= m
      BY <2>1, <2>3, <2>5, <2>7
    <2>8. CASE m < new
      BY <2>1, <2>3, <2>5, <2>6, <2>8
    <2> QED
      BY <2>1, <2>3, <2>7, <2>8
  <1>3. Nat \subseteq P
    <2> HIDE DEF P
    <2> QED
      BY <1>1, <1>2, SetInduction
  <1> QED
    BY <1>3

LEMMA MaxIs ==
  ASSUME NEW S, NEW m \in S, \A y \in S : m >= y
  PROVE  Max(S) \in S /\ \A y \in S : Max(S) >= y
  BY DEF Max

\* The group of a weight, and its scale.
LEMMA GroupOf ==
  ASSUME NEW k \in Nat, NEW group_size \in Nat \ {0}
  PROVE  /\ k \div group_size \in Nat
         /\ group_size * (k \div group_size) \in Nat
         /\ k \in group_size * (k \div group_size) .. group_size * (k \div group_size) + group_size - 1
         /\ ((k \div group_size) * group_size) \div group_size = k \div group_size
  <1>1. PICK d \in Int, c \in Int : d = k \div group_size /\ c = k % group_size
    OBVIOUS
  <1>2. k = group_size * d + c /\ 0 <= c /\ c < group_size
    BY <1>1
  <1>3. d \in Nat
    BY <1>1
  <1>4. group_size * d \in Nat
    BY <1>3
  <1>5. (d * group_size) \div group_size = d
    BY <1>3
  <1> QED
    BY <1>1, <1>2, <1>3, <1>4, <1>5

LEMMA GroupsFit ==
  ASSUME NEW len \in Nat, NEW group_size \in Nat \ {0}, len % group_size = 0, NEW k \in 0 .. len - 1
  PROVE  /\ k \div group_size \in 0 .. len \div group_size - 1
         /\ group_size * (k \div group_size) + group_size <= len
  <1>1. PICK blocks \in Int : blocks = len \div group_size
    OBVIOUS
  <1>2. len = group_size * blocks
    BY <1>1
  <1>3. PICK d \in Int : d = k \div group_size
    OBVIOUS
  <1>4. d \in Nat /\ group_size * d <= k /\ blocks \in Nat
    BY <1>1, <1>3
  <1>5. d < blocks
    <2> SUFFICES ASSUME blocks <= d
                 PROVE  FALSE
      BY <1>4
    <2>1. group_size * blocks <= group_size * d
      BY <1>4
    <2> QED
      BY <1>2, <1>4, <2>1
  <1>6. group_size * d + group_size <= group_size * blocks
    <2>1. PICK e \in Nat : blocks = d + 1 + e
      <3>1. blocks - d - 1 \in Nat
        BY <1>4, <1>5
      <3> QED
        BY <3>1, <1>4
    <2>2. group_size * e \in Nat
      OBVIOUS
    <2>3. group_size * (d + 1 + e) = group_size * d + group_size + group_size * e
      BY <1>4
    <2> QED
      BY <1>4, <2>1, <2>2, <2>3
  <1> QED
    BY <1>1, <1>2, <1>3, <1>4, <1>5, <1>6

AmaxFits(w, group_size, k, n) ==
  /\ Amax(w, group_size, k, n) \in Nat \ {0}
  /\ Abs(w[<<k, n>>]) <= Amax(w, group_size, k, n)
  /\ Amax(w, group_size, (k \div group_size) * group_size, n) = Amax(w, group_size, k, n)

LEMMA AmaxBounds ==
  ASSUME NEW k_len \in Nat, NEW n_len \in Nat, NEW w \in [(0 .. k_len - 1) \X (0 .. n_len - 1) -> Int],
         NEW group_size \in Nat \ {0}, k_len % group_size = 0,
         NEW k \in 0 .. k_len - 1, NEW n \in 0 .. n_len - 1
  PROVE  AmaxFits(w, group_size, k, n)
  <1>1. PICK first : first = group_size * (k \div group_size)
    OBVIOUS
  <1>2. first \in Nat /\ k \in first .. first + group_size - 1
    <2>1. k \in Nat
      OBVIOUS
    <2> QED
      BY <1>1, <2>1, GroupOf
  <1>3. first + group_size <= k_len
    BY <1>1, GroupsFit
  <1>4. PICK f : f = [i \in 0 .. k_len - 1 |-> Abs(w[<<i, n>>])]
    OBVIOUS
  <1>5. \A i \in first .. first + group_size - 1 : i \in 0 .. k_len - 1
    BY <1>2, <1>3
  <1>6. \A i \in 0 .. k_len - 1 : f[i] = Abs(w[<<i, n>>]) /\ f[i] \in Nat
    <2> SUFFICES ASSUME NEW i \in 0 .. k_len - 1
                 PROVE  f[i] = Abs(w[<<i, n>>]) /\ f[i] \in Nat
      OBVIOUS
    <2>1. f[i] = Abs(w[<<i, n>>]) /\ w[<<i, n>>] \in Int
      BY <1>4
    <2> QED
      BY <2>1 DEF Abs
  <1>7. PICK S : S = Seen(f, first, group_size)
    OBVIOUS
  <1>8. S = {1} \cup {Abs(w[<<i, n>>]) : i \in first .. first + group_size - 1}
    BY <1>5, <1>6, <1>7 DEF Seen
  <1>9. Amax(w, group_size, k, n) = Max(S)
    BY <1>1, <1>8 DEF Amax
  <1>10. Max(S) \in S /\ \A y \in S : Max(S) >= y
    <2>1. \E m \in S : m \in Nat \ {0} /\ \A y \in S : m >= y
      <3>1. \A i \in first .. first + group_size - 1 : f[i] \in Nat
        BY <1>5, <1>6
      <3>2. group_size \in Nat
        OBVIOUS
      <3> QED
        BY <1>2, <1>7, <3>1, <3>2, LargestSeen
    <2> QED
      BY <2>1, MaxIs
  <1>11. 1 \in S /\ f[k] \in S /\ \A y \in S : y \in Nat
    <2>1. \A i \in first .. first + group_size - 1 : f[i] \in Nat
      BY <1>5, <1>6
    <2>2. S = {1} \cup {f[i] : i \in first .. first + group_size - 1}
      BY <1>7 DEF Seen
    <2>3. \A y \in S : y \in Nat
      BY <2>1, <2>2
    <2> QED
      BY <1>2, <2>2, <2>3
  <1>12. Amax(w, group_size, (k \div group_size) * group_size, n) = Max(S)
    <2>1. ((k \div group_size) * group_size) \div group_size = k \div group_size
      <3>1. k \in Nat
        OBVIOUS
      <3> QED
        BY <3>1, GroupOf
    <2> QED
      BY <1>1, <1>8, <2>1 DEF Amax
  <1>13. Max(S) \in Nat \ {0} /\ f[k] <= Max(S)
    BY <1>10, <1>11
  <1> QED
    BY <1>6, <1>9, <1>12, <1>13 DEF AmaxFits

LEMMA EveryAmaxFits ==
  ASSUME NEW k_len \in Nat, NEW n_len \in Nat, NEW w \in [(0 .. k_len - 1) \X (0 .. n_len - 1) -> Int],
         NEW group_size \in Nat \ {0}, k_len % group_size = 0
  PROVE  \A k \in 0 .. k_len - 1, n \in 0 .. n_len - 1 : AmaxFits(w, group_size, k, n)
  BY AmaxBounds

QuantizesByGroup(w, k_len, n_len, group_size) ==
  Quantize(w, k_len, n_len, group_size) =
    [at \in (0 .. k_len - 1) \X (0 .. n_len - 1) |-> Quantized(w[at], Amax(w, group_size, at[1], at[2]))]

(***************************************************************************)
(* Every weight is quantized to the scale of its own group.                *)
(***************************************************************************)
LEMMA QuantizeIs ==
  ASSUME NEW k_len \in Nat, NEW n_len \in Nat, NEW w \in [(0 .. k_len - 1) \X (0 .. n_len - 1) -> Int],
         NEW group_size \in Nat \ {0}, k_len % group_size = 0
  PROVE  QuantizesByGroup(w, k_len, n_len, group_size)
  <1> DEFINE amax == [of \in (0 .. k_len \div group_size - 1) \X (0 .. n_len - 1) |->
                        Amax(w, group_size, of[1] * group_size, of[2])]
  <1>1. Quantize(w, k_len, n_len, group_size) =
          [at \in (0 .. k_len - 1) \X (0 .. n_len - 1) |-> Quantized(w[at], amax[<<at[1] \div group_size, at[2]>>])]
    BY DEF Quantize
  <1>2. \A k \in 0 .. k_len - 1, n \in 0 .. n_len - 1 : amax[<<k \div group_size, n>>] = Amax(w, group_size, k, n)
    <2> SUFFICES ASSUME NEW k \in 0 .. k_len - 1, NEW n \in 0 .. n_len - 1
                 PROVE  amax[<<k \div group_size, n>>] = Amax(w, group_size, k, n)
      OBVIOUS
    <2>1. PICK group : group = k \div group_size
      OBVIOUS
    <2>2. group \in 0 .. k_len \div group_size - 1
      BY <2>1, GroupsFit
    <2>3. amax[<<group, n>>] = Amax(w, group_size, group * group_size, n)
      BY <2>2
    <2>4. Amax(w, group_size, group * group_size, n) = Amax(w, group_size, k, n)
      <3>1. AmaxFits(w, group_size, k, n)
        BY EveryAmaxFits
      <3> QED
        BY <2>1, <3>1 DEF AmaxFits
    <2> QED
      BY <2>1, <2>3, <2>4
  <1> HIDE DEF amax
  <1> QED
    BY <1>1, <1>2 DEF QuantizesByGroup

LEMMA NearestOf ==
  ASSUME NEW k_len \in Nat, NEW n_len \in Nat, NEW w \in [(0 .. k_len - 1) \X (0 .. n_len - 1) -> Int],
         NEW group_size \in Nat \ {0}, k_len % group_size = 0,
         NEW k \in 0 .. k_len - 1, NEW n \in 0 .. n_len - 1
  PROVE  LET amax  == Amax(w, group_size, k, n)
             level == Quantize(w, k_len, n_len, group_size)[<<k, n>>]
         IN /\ level \in 0 .. 15
            /\ \A l \in 0 .. 15 : Abs(8 * w[<<k, n>>] - (level - 8) * amax)
                                    <= Abs(8 * w[<<k, n>>] - (l - 8) * amax)
  <1>1. AmaxFits(w, group_size, k, n)
    BY EveryAmaxFits
  <1>2. PICK amax \in Nat \ {0} : amax = Amax(w, group_size, k, n)
    BY <1>1 DEF AmaxFits
  <1>3. PICK weight \in Int : weight = w[<<k, n>>]
    OBVIOUS
  <1>4. Abs(weight) <= amax
    BY <1>1, <1>2, <1>3 DEF AmaxFits
  <1>5. Quantize(w, k_len, n_len, group_size)[<<k, n>>] = Quantized(weight, amax)
    <2>1. QuantizesByGroup(w, k_len, n_len, group_size)
      BY QuantizeIs
    <2> QED
      BY <1>2, <1>3, <2>1 DEF QuantizesByGroup
  <1>6. Nearest(weight, amax)
    BY <1>4, QuantizedIsNearest
  <1> QED
    BY <1>2, <1>3, <1>5, <1>6 DEF Nearest

\* A level is the nearest to a weight, in the model's words.
NearestLevel(q, w, group_size, at) ==
  LET amax     == Amax(w, group_size, at[1], at[2])
      level    == q[at]
      error(l) == Abs(ZeroPoint * w[at] - (l - ZeroPoint) * amax)
  IN level \in 0 .. MaxQ /\ \A l \in 0 .. MaxQ : error(level) <= error(l)

NearestLevels(w, k_len, n_len, group_size) ==
  LET q == Quantize(w, k_len, n_len, group_size) IN
    /\ UnpackW4A16(PackW4A16(q, k_len, n_len), k_len, n_len) = q
    /\ \A at \in DOMAIN w : NearestLevel(q, w, group_size, at)

NearestAt(w, k_len, n_len, group_size, k, n) ==
  LET amax  == Amax(w, group_size, k, n)
      level == Quantize(w, k_len, n_len, group_size)[<<k, n>>]
  IN /\ level \in 0 .. 15
     /\ \A l \in 0 .. 15 : Abs(8 * w[<<k, n>>] - (level - 8) * amax)
                             <= Abs(8 * w[<<k, n>>] - (l - 8) * amax)

(***************************************************************************)
(* What is unpacked is what was quantized, and the nearest level.          *)
(***************************************************************************)
LEMMA UnpackedIs ==
  ASSUME NEW k_len \in Nat \ {0}, NEW n_len \in Nat \ {0}, k_len % TileK = 0, n_len % PermN = 0,
         NEW w \in [(0 .. k_len - 1) \X (0 .. n_len - 1) -> Int],
         NEW group_size \in Nat \ {0}, k_len % group_size = 0
  PROVE  NearestLevels(w, k_len, n_len, group_size)
  <1>1. PICK rows \in Nat, len \in Nat : k_len = 16 * rows /\ n_len = 64 * len
    <2>1. k_len \div 16 \in Nat /\ k_len = 16 * (k_len \div 16)
      BY DEF TileK
    <2>2. n_len \div 64 \in Nat /\ n_len = 64 * (n_len \div 64)
      BY DEF PermN
    <2> QED
      BY <2>1, <2>2
  <1>2. PICK q : q = Quantize(w, k_len, n_len, group_size)
    OBVIOUS
  <1>3. \A k \in 0 .. k_len - 1, n \in 0 .. n_len - 1 : NearestAt(w, k_len, n_len, group_size, k, n)
    <2>1. k_len \in Nat /\ n_len \in Nat
      OBVIOUS
    <2> QED
      BY <2>1, NearestOf DEF NearestAt
  <1>4. q = [at \in (0 .. k_len - 1) \X (0 .. n_len - 1) |-> Quantized(w[at], Amax(w, group_size, at[1], at[2]))]
    <2>1. k_len \in Nat /\ n_len \in Nat
      OBVIOUS
    <2> QED
      <3>1. QuantizesByGroup(w, k_len, n_len, group_size)
        BY <2>1, QuantizeIs
      <3> QED
        BY <1>2, <3>1 DEF QuantizesByGroup
  <1>5. q \in [(0 .. k_len - 1) \X (0 .. n_len - 1) -> 0 .. 15]
    <2>1. \A k \in 0 .. k_len - 1, n \in 0 .. n_len - 1 : q[<<k, n>>] \in 0 .. 15
      BY <1>2, <1>3 DEF NearestAt
    <2>2. \A at \in (0 .. k_len - 1) \X (0 .. n_len - 1) : q[at] \in 0 .. 15
      BY <2>1
    <2>3. DOMAIN q = (0 .. k_len - 1) \X (0 .. n_len - 1) /\ q = [at \in DOMAIN q |-> q[at]]
      BY <1>4
    <2> QED
      BY <2>2, <2>3
  <1>6. UnpackW4A16(PackW4A16(q, k_len, n_len), k_len, n_len) = q
    <2>1. q \in [(0 .. 16 * rows - 1) \X (0 .. 64 * len - 1) -> 0 .. 15]
      BY <1>1, <1>5
    <2>2. UnpackW4A16(PackW4A16(q, 16 * rows, 64 * len), 16 * rows, 64 * len) = q
      BY <2>1, RoundTrip
    <2> QED
      BY <1>1, <2>2
  <1>7. \A at \in DOMAIN w : NearestLevel(q, w, group_size, at)
    <2> SUFFICES ASSUME NEW at \in (0 .. k_len - 1) \X (0 .. n_len - 1)
                 PROVE  NearestLevel(q, w, group_size, at)
      OBVIOUS
    <2>1. PICK k \in 0 .. k_len - 1, n \in 0 .. n_len - 1 : at = <<k, n>>
      OBVIOUS
    <2>2. NearestAt(w, k_len, n_len, group_size, k, n)
      BY <1>3
    <2>3. at[1] = k /\ at[2] = n
      BY <2>1
    <2> QED
      BY <1>2, <2>1, <2>2, <2>3 DEF NearestAt, NearestLevel, ZeroPoint, MaxQ
  <1> QED
    BY <1>2, <1>6, <1>7 DEF NearestLevels

THEOREM UnpackedNearest == LaunchSpec => []UnpackedIsNearest
  <1>1. launch \in Launches => UnpackedIsNearest
    <2> SUFFICES ASSUME launch \in Launches, launch.kind = "weights"
                 PROVE  NearestLevels(launch.in.w, launch.in.k, launch.in.n, launch.in.group_size)
      BY DEF UnpackedIsNearest, For, NearestLevels, NearestLevel
    <2>1. PICK b \in Matrices : b = launch.in
      BY LaunchInputs
    <2>2. /\ b.k \in Nat \ {0} /\ b.n \in Nat \ {0} /\ b.group_size \in Nat \ {0}
          /\ b.k % TileK = 0 /\ b.n % PermN = 0 /\ b.k % b.group_size = 0
          /\ b.w \in [(0 .. b.k - 1) \X (0 .. b.n - 1) -> Int]
      BY KernelsAssumption
    <2>3. PICK k_len, n_len, group_size, w :
             k_len = b.k /\ n_len = b.n /\ group_size = b.group_size /\ w = b.w
      OBVIOUS
    <2>4. /\ k_len \in Nat \ {0} /\ n_len \in Nat \ {0} /\ group_size \in Nat \ {0}
          /\ k_len % TileK = 0 /\ n_len % PermN = 0 /\ k_len % group_size = 0
          /\ w \in [(0 .. k_len - 1) \X (0 .. n_len - 1) -> Int]
      BY <2>2, <2>3
    <2>5. NearestLevels(w, k_len, n_len, group_size)
      BY <2>4, UnpackedIs
    <2> QED
      BY <2>1, <2>3, <2>5
  <1> QED
    BY <1>1, LaunchStays, PTL

-----------------------------------------------------------------------------
(* Sums. *)

\* Sums of the values before an index.
SumsBefore(values, n, f) == f = [e \in 0 .. n |-> IF e = 0 THEN 0 ELSE f[e - 1] + values[e - 1]]

LEMMA SumsBeforeExist ==
  ASSUME NEW values, NEW n \in Nat
  PROVE  \E f : SumsBefore(values, n, f)
  <1> DEFINE P == {m \in Nat : \E f : SumsBefore(values, m, f)}
  <1>1. 0 \in P
    <2> DEFINE f == [e \in 0 .. 0 |-> 0]
    <2>1. f = [e \in 0 .. 0 |-> IF e = 0 THEN 0 ELSE f[e - 1] + values[e - 1]]
      OBVIOUS
    <2> QED
      BY <2>1 DEF SumsBefore
  <1>2. ASSUME NEW m \in Nat, m \in P
        PROVE  m + 1 \in P
    <2>1. PICK f : SumsBefore(values, m, f)
      BY <1>2
    <2> DEFINE longer == [e \in 0 .. m + 1 |-> IF e = m + 1 THEN f[m] + values[m] ELSE f[e]]
    <2>2. \A e \in 0 .. m : f[e] = IF e = 0 THEN 0 ELSE f[e - 1] + values[e - 1]
      BY <2>1 DEF SumsBefore
    <2>3. \A e \in 0 .. m + 1 : longer[e] = IF e = 0 THEN 0 ELSE longer[e - 1] + values[e - 1]
      BY <2>2
    <2>4. longer = [e \in 0 .. m + 1 |-> longer[e]]
      OBVIOUS
    <2> HIDE DEF longer
    <2>5. longer = [e \in 0 .. m + 1 |-> IF e = 0 THEN 0 ELSE longer[e - 1] + values[e - 1]]
      BY <2>3, <2>4
    <2> QED
      BY <2>5 DEF SumsBefore
  <1>3. Nat \subseteq P
    <2> HIDE DEF P
    <2> QED
      BY <1>1, <1>2, SetInduction
  <1> QED
    BY <1>3

\* The sums grow by the values.
Cumulative(values, n) ==
  LET f == Before(values, n) IN
  /\ f \in [0 .. n -> Nat] /\ f[0] = 0
  /\ \A e \in 0 .. n - 1 : f[e + 1] = f[e] + values[e]
  /\ \A e, g \in 0 .. n : e <= g => f[e] <= f[g]

LEMMA BeforeIs ==
  ASSUME NEW n \in Nat, NEW values \in [0 .. n - 1 -> Nat]
  PROVE  Cumulative(values, n)
  <1>1. PICK f : f = Before(values, n)
    OBVIOUS
  <1>2. f = CHOOSE g : SumsBefore(values, n, g)
    BY <1>1 DEF Before, SumsBefore
  <1>3. f = [e \in 0 .. n |-> IF e = 0 THEN 0 ELSE f[e - 1] + values[e - 1]]
    BY <1>2, SumsBeforeExist DEF SumsBefore
  <1>4. DOMAIN f = 0 .. n /\ f = [e \in 0 .. n |-> f[e]]
    BY <1>3
  <1>5. \A e \in 0 .. n : f[e] = IF e = 0 THEN 0 ELSE f[e - 1] + values[e - 1]
    BY <1>3
  <1>6. f[0] = 0
    BY <1>5
  <1>7. ASSUME NEW e \in 0 .. n - 1 PROVE f[e + 1] = f[e] + values[e] /\ values[e] \in Nat
    <2>1. e + 1 \in 0 .. n /\ e + 1 # 0 /\ (e + 1) - 1 = e
      OBVIOUS
    <2>2. f[e + 1] = IF e + 1 = 0 THEN 0 ELSE f[(e + 1) - 1] + values[(e + 1) - 1]
      BY <1>5, <2>1
    <2> QED
      BY <2>1, <2>2
  <1> DEFINE P == {m \in Nat : m <= n => f[m] \in Nat /\ \A e \in 0 .. m : f[e] \in Nat /\ f[e] <= f[m]}
  <1>8. 0 \in P
    BY <1>6
  <1>9. ASSUME NEW m \in Nat, m \in P
        PROVE  m + 1 \in P
    <2> SUFFICES ASSUME m + 1 <= n
                 PROVE  f[m + 1] \in Nat /\ \A e \in 0 .. m + 1 : f[e] \in Nat /\ f[e] <= f[m + 1]
      OBVIOUS
    <2>1. f[m] \in Nat /\ \A e \in 0 .. m : f[e] \in Nat /\ f[e] <= f[m]
      BY <1>9
    <2>2. f[m + 1] = f[m] + values[m] /\ values[m] \in Nat
      <3>1. m \in 0 .. n - 1
        OBVIOUS
      <3> QED
        BY <1>7, <3>1
    <2>3. f[m + 1] \in Nat /\ f[m] <= f[m + 1]
      BY <2>1, <2>2
    <2>4. \A e \in 0 .. m + 1 : e \in 0 .. m \/ e = m + 1
      OBVIOUS
    <2> QED
      BY <2>1, <2>3, <2>4
  <1>10. Nat \subseteq P
    <2> HIDE DEF P
    <2> QED
      BY <1>8, <1>9, SetInduction
  <1>11. \A m \in 0 .. n : f[m] \in Nat /\ \A e \in 0 .. m : f[e] <= f[m]
    BY <1>10
  <1>12. f \in [0 .. n -> Nat]
    BY <1>4, <1>11
  <1>13. \A e, g \in 0 .. n : e <= g => f[e] <= f[g]
    <2>1. \A e, g \in 0 .. n : e <= g => e \in 0 .. g
      OBVIOUS
    <2> QED
      BY <1>11, <2>1
  <1> QED
    BY <1>1, <1>6, <1>7, <1>12, <1>13 DEF Cumulative

-----------------------------------------------------------------------------
(* The rounds of the routing, and the ranks of the reference. *)

\* What a step makes of a value, again and again.
Iterated(S, a, step, n, f) ==
  /\ f \in [0 .. n -> S]
  /\ f = [i \in 0 .. n |-> IF i = 0 THEN a ELSE step[f[i - 1]]]

LEMMA Iterates ==
  ASSUME NEW S, NEW a \in S, NEW step \in [S -> S], NEW n \in Nat
  PROVE  \E f : Iterated(S, a, step, n, f)
  <1> DEFINE P == {m \in Nat : \E f : Iterated(S, a, step, m, f)}
  <1>1. 0 \in P
    <2> DEFINE f == [i \in 0 .. 0 |-> a]
    <2>1. f = [i \in 0 .. 0 |-> IF i = 0 THEN a ELSE step[f[i - 1]]]
      OBVIOUS
    <2> QED
      BY <2>1 DEF Iterated
  <1>2. ASSUME NEW m \in Nat, m \in P
        PROVE  m + 1 \in P
    <2>1. PICK f : Iterated(S, a, step, m, f)
      BY <1>2
    <2> DEFINE longer == [i \in 0 .. m + 1 |-> IF i = m + 1 THEN step[f[m]] ELSE f[i]]
    <2>2. /\ f \in [0 .. m -> S]
          /\ \A i \in 0 .. m : f[i] = IF i = 0 THEN a ELSE step[f[i - 1]]
      BY <2>1 DEF Iterated
    <2>3. \A i \in 0 .. m + 1 : longer[i] = IF i = 0 THEN a ELSE step[longer[i - 1]]
      BY <2>2
    <2>4. longer \in [0 .. m + 1 -> S]
      BY <2>2
    <2> HIDE DEF longer
    <2>5. longer = [i \in 0 .. m + 1 |-> IF i = 0 THEN a ELSE step[longer[i - 1]]]
      BY <2>3, <2>4
    <2> QED
      BY <2>4, <2>5 DEF Iterated
  <1>3. Nat \subseteq P
    <2> HIDE DEF P
    <2> QED
      BY <1>1, <1>2, SetInduction
  <1> QED
    BY <1>3

LEMMA PowerCovers ==
  ASSUME NEW n \in Nat
  PROVE  PowerOfTwo(n) \in Nat /\ PowerOfTwo(n) >= n
  <1> DEFINE step == [x \in Nat |-> IF x >= n THEN x ELSE 2 * x]
             Power(f) == f = [i \in 0 .. n |-> IF i = 0 THEN 1 ELSE
                                               IF f[i - 1] >= n THEN f[i - 1] ELSE 2 * f[i - 1]]
  <1>1. PICK g : Iterated(Nat, 1, step, n, g)
    <2>1. step \in [Nat -> Nat]
      OBVIOUS
    <2> HIDE DEF step
    <2> QED
      BY <2>1, Iterates
  <1>2. Power(g)
    <2>1. g \in [0 .. n -> Nat] /\ g = [i \in 0 .. n |-> IF i = 0 THEN 1 ELSE step[g[i - 1]]]
      BY <1>1 DEF Iterated
    <2>2. \A i \in 0 .. n : i # 0 => i - 1 \in 0 .. n
      OBVIOUS
    <2>3. \A i \in 0 .. n : g[i] = IF i = 0 THEN 1 ELSE
                                   IF g[i - 1] >= n THEN g[i - 1] ELSE 2 * g[i - 1]
      BY <2>1, <2>2
    <2> QED
      BY <2>1, <2>3
  <1>3. PICK f : f = CHOOSE w : Power(w)
    OBVIOUS
  <1>4. Power(f)
    BY <1>2, <1>3
  <1>5. PowerOfTwo(n) = f[n]
    BY <1>3 DEF PowerOfTwo
  <1>6. \A i \in 0 .. n : f[i] = IF i = 0 THEN 1 ELSE
                                 IF f[i - 1] >= n THEN f[i - 1] ELSE 2 * f[i - 1]
    BY <1>4
  <1> HIDE DEF Power
  <1> DEFINE P == {m \in Nat : m <= n => f[m] \in Nat /\ (f[m] >= n \/ f[m] > m)}
  <1>7. 0 \in P
    BY <1>6
  <1>8. ASSUME NEW m \in Nat, m \in P
        PROVE  m + 1 \in P
    <2> SUFFICES ASSUME m + 1 <= n
                 PROVE  f[m + 1] \in Nat /\ (f[m + 1] >= n \/ f[m + 1] > m + 1)
      OBVIOUS
    <2>1. f[m] \in Nat /\ (f[m] >= n \/ f[m] > m)
      BY <1>8
    <2>2. f[m + 1] = IF f[m] >= n THEN f[m] ELSE 2 * f[m]
      <3>1. m + 1 \in 0 .. n /\ m + 1 # 0 /\ (m + 1) - 1 = m
        OBVIOUS
      <3>2. f[m + 1] = IF m + 1 = 0 THEN 1 ELSE
                       IF f[(m + 1) - 1] >= n THEN f[(m + 1) - 1] ELSE 2 * f[(m + 1) - 1]
        BY <1>6, <3>1
      <3> QED
        BY <3>1, <3>2
    <2> QED
      BY <2>1, <2>2
  <1>9. Nat \subseteq P
    <2> HIDE DEF P
    <2> QED
      BY <1>7, <1>8, SetInduction
  <1> QED
    BY <1>5, <1>9

\* The experts that come before e: of a greater value, or an equal one and first.
Precedes(v, f, e) == v[f] > v[e] \/ (v[f] = v[e] /\ f < e)
Ahead(v, n, e) == {f \in 0 .. n - 1 : Precedes(v, f, e)}
Rank(v, n, e) == Cardinality(Ahead(v, n, e))

\* The value of an expert is that of a lane.
Values(v, n, lanes) == n \in Nat /\ lanes \in Nat /\ n <= lanes /\ v \in [0 .. lanes - 1 -> Int]

LEMMA RankType ==
  ASSUME NEW v, NEW n \in Nat, NEW e
  PROVE  Rank(v, n, e) \in Nat /\ IsFiniteSet(Ahead(v, n, e))
  <1>1. IsFiniteSet(0 .. n - 1)
    BY FS_Interval
  <1>2. Ahead(v, n, e) \in SUBSET (0 .. n - 1)
    BY DEF Ahead
  <1> QED
    BY <1>1, <1>2, FS_Subset, FS_CardinalityType DEF Rank

LEMMA RankOrder ==
  ASSUME NEW v, NEW n, NEW lanes, Values(v, n, lanes), NEW e \in 0 .. n - 1, NEW f \in 0 .. n - 1,
         Precedes(v, f, e)
  PROVE  Rank(v, n, f) < Rank(v, n, e)
  <1>1. n \in Nat /\ \A g \in 0 .. n - 1 : v[g] \in Int
    BY DEF Values
  <1>2. Ahead(v, n, f) \subseteq Ahead(v, n, e)
    BY <1>1 DEF Ahead, Precedes
  <1>3. f \in Ahead(v, n, e) /\ f \notin Ahead(v, n, f)
    BY <1>1 DEF Ahead, Precedes
  <1>4. IsFiniteSet(Ahead(v, n, e)) /\ Rank(v, n, e) \in Nat /\ Rank(v, n, f) \in Nat
    BY <1>1, RankType
  <1>5. /\ Cardinality(Ahead(v, n, f)) <= Cardinality(Ahead(v, n, e))
        /\ Cardinality(Ahead(v, n, e)) # Cardinality(Ahead(v, n, f))
    <2>1. Ahead(v, n, e) # Ahead(v, n, f)
      BY <1>3
    <2> QED
      BY <1>2, <1>4, <2>1, FS_Subset
  <1> QED
    BY <1>4, <1>5 DEF Rank

LEMMA RankInjective ==
  ASSUME NEW v, NEW n, NEW lanes, Values(v, n, lanes), NEW e \in 0 .. n - 1, NEW f \in 0 .. n - 1
  PROVE  /\ f # e => Rank(v, n, f) # Rank(v, n, e)
         /\ Rank(v, n, f) < Rank(v, n, e) => Precedes(v, f, e)
  <1>1. n \in Nat /\ v[e] \in Int /\ v[f] \in Int
    BY DEF Values
  <1>2. f # e => Precedes(v, f, e) \/ Precedes(v, e, f)
    BY <1>1 DEF Precedes
  <1>3. Rank(v, n, f) \in Nat /\ Rank(v, n, e) \in Nat
    BY <1>1, RankType
  <1> QED
    BY <1>2, <1>3, RankOrder

\* The experts of the first i ranks are i.
Chosen(v, n, i) == {e \in 0 .. n - 1 : Rank(v, n, e) < i}

\* There is an expert of rank i, those of a lower rank are the ones before it.
LEMMA NextChosen ==
  ASSUME NEW v, NEW n, NEW lanes, Values(v, n, lanes), NEW i \in Nat, i < n,
         Cardinality(Chosen(v, n, i)) = i
  PROVE  \E e \in 0 .. n - 1 : Rank(v, n, e) = i
  <1> DEFINE Rest == (0 .. n - 1) \ Chosen(v, n, i)
  <1>1. n \in Nat /\ IsFiniteSet(0 .. n - 1) /\ Cardinality(0 .. n - 1) = n
    <2>1. n \in Nat /\ 0 \in Int /\ n - 1 \in Int
      BY DEF Values
    <2>2. IsFiniteSet(0 .. n - 1) /\ Cardinality(0 .. n - 1) = IF 0 > n - 1 THEN 0 ELSE n - 1 - 0 + 1
      BY <2>1, FS_Interval
    <2> QED
      BY <2>1, <2>2
  <1>2. Rest # {}
    <2>1. Chosen(v, n, i) # 0 .. n - 1
      BY <1>1
    <2> QED
      BY <2>1 DEF Chosen
  <1>3. \A e \in 0 .. n - 1 : Rank(v, n, e) \in Nat
    BY <1>1, RankType
  <1>4. PICK e \in Rest : \A f \in Rest : ~(Rank(v, n, f) < Rank(v, n, e))
    <2> DEFINE Ranks == {Rank(v, n, f) : f \in Rest}
    <2>1. Ranks \subseteq Nat /\ Ranks # {}
      BY <1>2, <1>3
    <2>2. PICK r \in Ranks : \A s \in Ranks : ~(<<s, r>> \in OpToRel(<, Nat))
      <3>1. IsWellFoundedOn(OpToRel(<, Nat), Nat)
        BY NatLessThanWellFounded
      <3> HIDE DEF Ranks
      <3> QED
        BY <2>1, <3>1, WFMin, Zenon
    <2>3. \A s \in Ranks : ~(s < r)
      BY <2>1, <2>2 DEF OpToRel
    <2>4. PICK e \in Rest : r = Rank(v, n, e)
      BY <2>2
    <2>5. \A f \in Rest : Rank(v, n, f) \in Ranks
      OBVIOUS
    <2> HIDE DEF Ranks, Rest
    <2> QED
      BY <2>3, <2>4, <2>5
  <1>5. e \in 0 .. n - 1 /\ ~(Rank(v, n, e) < i)
    BY DEF Chosen
  <1>6. Ahead(v, n, e) = Chosen(v, n, i)
    <2>1. ASSUME NEW f \in 0 .. n - 1, Precedes(v, f, e)
          PROVE  Rank(v, n, f) < i
      <3>1. Rank(v, n, f) < Rank(v, n, e)
        BY <1>5, <2>1, RankOrder
      <3>2. f \notin Rest
        BY <1>4, <3>1
      <3> QED
        BY <3>2 DEF Chosen
    <2>2. ASSUME NEW f \in 0 .. n - 1, Rank(v, n, f) < i
          PROVE  Precedes(v, f, e)
      <3>1. Rank(v, n, f) < Rank(v, n, e)
        BY <1>3, <1>5, <2>2
      <3> QED
        BY <1>5, <3>1, RankInjective
    <2> QED
      BY <2>1, <2>2 DEF Ahead, Chosen
  <1> QED
    BY <1>5, <1>6 DEF Rank

LEMMA ChosenCount ==
  ASSUME NEW v, NEW n, NEW lanes, Values(v, n, lanes), NEW i \in 0 .. n
  PROVE  Cardinality(Chosen(v, n, i)) = i
  <1>1. n \in Nat /\ \A e \in 0 .. n - 1 : Rank(v, n, e) \in Nat
    BY RankType DEF Values
  <1> DEFINE P == {m \in Nat : m <= n => Cardinality(Chosen(v, n, m)) = m}
  <1>2. 0 \in P
    <2>1. Chosen(v, n, 0) = {}
      BY <1>1 DEF Chosen
    <2> QED
      BY <2>1, FS_EmptySet
  <1>3. ASSUME NEW m \in Nat, m \in P
        PROVE  m + 1 \in P
    <2> SUFFICES ASSUME m + 1 <= n
                 PROVE  Cardinality(Chosen(v, n, m + 1)) = m + 1
      OBVIOUS
    <2>1. Cardinality(Chosen(v, n, m)) = m /\ m < n
      BY <1>1, <1>3
    <2>2. PICK e \in 0 .. n - 1 : Rank(v, n, e) = m
      BY <2>1, NextChosen
    <2>3. \A f \in 0 .. n - 1 : Rank(v, n, f) = m => f = e
      BY <2>2, RankInjective
    <2>4. \A f \in 0 .. n - 1 : Rank(v, n, f) < m + 1 <=> Rank(v, n, f) < m \/ f = e
      BY <1>1, <2>2, <2>3
    <2>5. Chosen(v, n, m + 1) = Chosen(v, n, m) \cup {e} /\ e \notin Chosen(v, n, m)
      BY <1>1, <2>2, <2>4 DEF Chosen
    <2>6. IsFiniteSet(Chosen(v, n, m))
      <3>1. IsFiniteSet(0 .. n - 1) /\ Chosen(v, n, m) \in SUBSET (0 .. n - 1)
        BY <1>1, FS_Interval DEF Chosen
      <3> QED
        BY <3>1, FS_Subset
    <2> QED
      BY <2>1, <2>5, <2>6, FS_AddElement
  <1>4. Nat \subseteq P
    <2> HIDE DEF P
    <2> QED
      BY <1>2, <1>3, SetInduction
  <1> QED
    BY <1>1, <1>4

\* There is one expert of each rank.
LEMMA OneOfEachRank ==
  ASSUME NEW v, NEW n, NEW lanes, Values(v, n, lanes), NEW i \in Nat, i < n
  PROVE  \E e \in 0 .. n - 1 : /\ Rank(v, n, e) = i
                               /\ \A f \in 0 .. n - 1 : Rank(v, n, f) = i => f = e
                               /\ \A f \in 0 .. n - 1 : Rank(v, n, f) > i => Precedes(v, e, f)
  <1>1. n \in Nat /\ i \in 0 .. n
    BY DEF Values
  <1>2. Cardinality(Chosen(v, n, i)) = i
    BY <1>1, ChosenCount
  <1>3. PICK e \in 0 .. n - 1 : Rank(v, n, e) = i
    BY <1>2, NextChosen
  <1> QED
    BY <1>3, RankInjective

\* The values after i rounds.
Masked(v, n, lanes, i) ==
  [e \in 0 .. lanes - 1 |-> IF e \in 0 .. n - 1 /\ Rank(v, n, e) < i THEN MinusInf ELSE v[e]]

\* A lane past the last expert is never better than an expert.
PaddingLast(v, n, lanes) ==
  \A e \in 0 .. n - 1 : v[e] > MinusInf /\ \A p \in n .. lanes - 1 : v[p] <= v[e]

LEMMA RoundTakes ==
  ASSUME NEW v, NEW n, NEW lanes, Values(v, n, lanes), PaddingLast(v, n, lanes),
         NEW i \in Nat, i < n, NEW e \in 0 .. n - 1, Rank(v, n, e) = i
  PROVE  ArgMax(Masked(v, n, lanes, i)) = e
  <1>1. /\ n \in Nat /\ lanes \in Nat /\ n <= lanes
        /\ \A f \in 0 .. lanes - 1 : v[f] \in Int
        /\ \A f \in 0 .. n - 1 : Rank(v, n, f) \in Nat
    BY RankType DEF Values
  <1>2. PICK w : w = Masked(v, n, lanes, i)
    OBVIOUS
  <1>3. /\ DOMAIN w = 0 .. lanes - 1
        /\ \A f \in 0 .. lanes - 1 :
             w[f] = IF f \in 0 .. n - 1 /\ Rank(v, n, f) < i THEN MinusInf ELSE v[f]
    BY <1>2 DEF Masked
  <1>4. e \in DOMAIN w /\ w[e] = v[e] /\ v[e] \in Int /\ v[e] > MinusInf /\ MinusInf \in Int
    <2>1. e \in 0 .. lanes - 1 /\ ~(Rank(v, n, e) < i)
      BY <1>1
    <2> QED
      BY <1>1, <1>3, <2>1 DEF PaddingLast, MinusInf
  <1>5. ASSUME NEW f \in DOMAIN w
        PROVE  w[f] \in Int /\ (w[f] < w[e] \/ (w[f] = w[e] /\ e <= f))
    <2>1. CASE f \in 0 .. n - 1 /\ Rank(v, n, f) < i
      BY <1>3, <1>4, <2>1
    <2>2. CASE f \in 0 .. n - 1 /\ Rank(v, n, f) >= i
      <3>1. w[f] = v[f] /\ v[f] \in Int
        BY <1>1, <1>3, <2>2
      <3>2. f = e \/ Precedes(v, e, f)
        <4>1. CASE f = e
          BY <4>1
        <4>2. CASE f # e
          <5>1. Rank(v, n, e) < Rank(v, n, f)
            BY <1>1, <2>2, <4>2, RankInjective
          <5> QED
            BY <2>2, <5>1, RankInjective
        <4> QED
          BY <4>1, <4>2
      <3> QED
        BY <1>4, <2>2, <3>1, <3>2 DEF Precedes
    <2>3. CASE f \notin 0 .. n - 1
      <3>1. f \in n .. lanes - 1 /\ f \in 0 .. lanes - 1
        BY <1>1, <1>3, <2>3
      <3>2. w[f] = v[f] /\ v[f] \in Int /\ v[f] <= v[e]
        BY <1>1, <1>3, <2>3, <3>1 DEF PaddingLast
      <3> QED
        BY <1>1, <1>4, <3>1, <3>2
    <2> QED
      BY <1>1, <2>1, <2>2, <2>3
  <1>6. ASSUME NEW f \in DOMAIN w, \A g \in DOMAIN w : w[g] < w[f] \/ (w[g] = w[f] /\ f <= g)
        PROVE  f = e
    <2>1. w[e] < w[f] \/ (w[e] = w[f] /\ f <= e)
      BY <1>4, <1>6
    <2>2. w[f] \in Int /\ (w[f] < w[e] \/ (w[f] = w[e] /\ e <= f))
      BY <1>5
    <2>3. w[e] \in Int /\ e \in Int /\ f \in Int
      BY <1>1, <1>3, <1>4
    <2> QED
      BY <2>1, <2>2, <2>3
  <1>7. ArgMax(w) = e
    BY <1>4, <1>5, <1>6, Zenon DEF ArgMax
  <1> QED
    BY <1>2, <1>7

\* A round of the selection.
SelectionRound(w) == [w EXCEPT ![ArgMax(w)] = MinusInf]

LEMMA RoundMasks ==
  ASSUME NEW v, NEW n, NEW lanes, Values(v, n, lanes), PaddingLast(v, n, lanes), NEW i \in Nat, i < n
  PROVE  SelectionRound(Masked(v, n, lanes, i)) = Masked(v, n, lanes, i + 1)
  <1>1. PICK e \in 0 .. n - 1 : /\ Rank(v, n, e) = i
                                /\ \A f \in 0 .. n - 1 : Rank(v, n, f) = i => f = e
    BY OneOfEachRank
  <1>2. ArgMax(Masked(v, n, lanes, i)) = e
    BY <1>1, RoundTakes
  <1>3. \A f \in 0 .. n - 1 : Rank(v, n, f) \in Nat
    BY RankType DEF Values
  <1>4. \A f \in 0 .. n - 1 : Rank(v, n, f) < i + 1 <=> Rank(v, n, f) < i \/ f = e
    BY <1>1, <1>3
  <1>5. [Masked(v, n, lanes, i) EXCEPT ![e] = MinusInf] = Masked(v, n, lanes, i + 1)
    <2>1. ASSUME NEW f \in 0 .. lanes - 1
          PROVE  [Masked(v, n, lanes, i) EXCEPT ![e] = MinusInf][f] = Masked(v, n, lanes, i + 1)[f]
      BY <1>1, <1>4 DEF Masked
    <2> QED
      BY <2>1 DEF Masked
  <1> QED
    BY <1>2, <1>5 DEF SelectionRound

\* The rounds of TopK from the values v on.
SelectionRounds(v, k, vals) ==
  vals = [i \in 0 .. k |-> IF i = 0 THEN v ELSE SelectionRound(vals[i - 1])]

LEMMA RoundsAre ==
  ASSUME NEW v, NEW n, NEW lanes, Values(v, n, lanes), PaddingLast(v, n, lanes), NEW k \in 0 .. n
  PROVE  /\ \E vals : SelectionRounds(v, k, vals)
         /\ \A vals : SelectionRounds(v, k, vals) => \A i \in 0 .. k : vals[i] = Masked(v, n, lanes, i)
  <1>1. n \in Nat /\ k \in Nat /\ k <= n /\ v = [e \in 0 .. lanes - 1 |-> v[e]]
        /\ \A f \in 0 .. n - 1 : Rank(v, n, f) \in Nat
    BY RankType DEF Values
  <1>2. Masked(v, n, lanes, 0) = v
    BY <1>1 DEF Masked
  <1>3. \A i \in Nat : i < n => SelectionRound(Masked(v, n, lanes, i)) = Masked(v, n, lanes, i + 1)
    BY RoundMasks
  <1>4. \E vals : SelectionRounds(v, k, vals)
    <2> DEFINE vals == [i \in 0 .. k |-> Masked(v, n, lanes, i)]
    <2>1. ASSUME NEW i \in 0 .. k
          PROVE  vals[i] = IF i = 0 THEN v ELSE SelectionRound(vals[i - 1])
      <3>1. CASE i = 0
        BY <1>2, <3>1
      <3>2. CASE i # 0
        <4>1. i - 1 \in Nat /\ i - 1 < n /\ (i - 1) + 1 = i /\ i - 1 \in 0 .. k
          BY <1>1, <3>2
        <4>2. vals[i - 1] = Masked(v, n, lanes, i - 1) /\ vals[i] = Masked(v, n, lanes, i)
          BY <4>1
        <4>3. SelectionRound(Masked(v, n, lanes, i - 1)) = Masked(v, n, lanes, (i - 1) + 1)
          BY <1>3, <4>1
        <4> HIDE DEF vals
        <4> QED
          BY <3>2, <4>1, <4>2, <4>3
      <3> QED
        BY <3>1, <3>2
    <2>2. vals = [i \in 0 .. k |-> vals[i]]
      OBVIOUS
    <2> HIDE DEF vals
    <2> QED
      BY <2>1, <2>2 DEF SelectionRounds
  <1>5. ASSUME NEW vals, SelectionRounds(v, k, vals)
        PROVE  \A i \in 0 .. k : vals[i] = Masked(v, n, lanes, i)
    <2> DEFINE P == {m \in Nat : m <= k => vals[m] = Masked(v, n, lanes, m)}
    <2>1. \A i \in 0 .. k :
            vals[i] = IF i = 0 THEN v ELSE SelectionRound(vals[i - 1])
      BY <1>5 DEF SelectionRounds
    <2>2. 0 \in P
      BY <1>1, <1>2, <2>1
    <2>3. ASSUME NEW m \in Nat, m \in P
          PROVE  m + 1 \in P
      <3> SUFFICES ASSUME m + 1 <= k
                   PROVE  vals[m + 1] = Masked(v, n, lanes, m + 1)
        OBVIOUS
      <3>1. vals[m] = Masked(v, n, lanes, m) /\ m < n /\ m + 1 \in 0 .. k /\ m + 1 # 0 /\ (m + 1) - 1 = m
        BY <1>1, <2>3
      <3>2. vals[m + 1] = SelectionRound(vals[(m + 1) - 1])
        BY <2>1, <3>1
      <3> QED
        BY <1>3, <3>1, <3>2
    <2>4. Nat \subseteq P
      <3> HIDE DEF P
      <3> QED
        BY <2>2, <2>3, SetInduction
    <2> QED
      BY <1>1, <2>4
  <1> QED
    BY <1>4, <1>5

\* The values and the scores the rounds start from.
Lanes(scores) == PowerOfTwo(Cardinality(DOMAIN scores))
LaneScore(scores) == [e \in 0 .. Lanes(scores) - 1 |-> IF e \in DOMAIN scores THEN scores[e] ELSE 0]
FirstValues(scores, bias) ==
  [e \in 0 .. Lanes(scores) - 1 |-> IF bias = <<>> THEN LaneScore(scores)[e]
                                                   ELSE LaneScore(scores)[e] + PaddedBias(bias, e)]

\* The experts the kernel takes, and what it returns.
RoundsOf(scores, bias, k) == CHOOSE vals : SelectionRounds(FirstValues(scores, bias), k, vals)
Taken(scores, bias, k) ==
  [slot \in 0 .. PowerOfTwo(k) - 1 |-> IF slot < k THEN ArgMax(RoundsOf(scores, bias, k)[slot]) ELSE 0]
TakenWeights(scores, bias, k) ==
  [slot \in 0 .. PowerOfTwo(k) - 1 |->
     IF slot < k THEN LaneScore(scores)[Taken(scores, bias, k)[slot]] ELSE 0]

LEMMA TopKIs ==
  ASSUME NEW scores, NEW bias, NEW k, NEW renorm
  PROVE  TopK(scores, bias, k, renorm)
           = [ids     |-> Stored(Taken(scores, bias, k), k),
              weights |-> Stored(Fractions(TakenWeights(scores, bias, k), PowerOfTwo(k), renorm), k)]
  BY Zenon DEF TopK, SelectionRounds, SelectionRound, FirstValues, LaneScore, Lanes, RoundsOf, Taken,
               TakenWeights

\* A vector of k weights, and the same with slots of zeros after them.
PaddedWith(w, k, padded, size) ==
  /\ k \in Nat /\ size \in Nat /\ k <= size
  /\ w \in [0 .. k - 1 -> Nat] /\ padded \in [0 .. size - 1 -> Nat]
  /\ \A slot \in 0 .. size - 1 : padded[slot] = IF slot < k THEN w[slot] ELSE 0

\* The slots of zeros change no fraction.
LEMMA ZeroSlots ==
  ASSUME NEW w, NEW k, NEW padded, NEW size, PaddedWith(w, k, padded, size), NEW renorm
  PROVE  Stored(Fractions(padded, size, renorm), k) = Fractions(w, k, renorm)
  <1> USE DEF PaddedWith
  <1>1. PICK f, g : f = Before(padded, size) /\ g = Before(w, k)
    OBVIOUS
  <1>2. /\ f \in [0 .. size -> Nat] /\ f[0] = 0
        /\ \A e \in 0 .. size - 1 : f[e + 1] = f[e] + padded[e]
    BY <1>1, BeforeIs DEF Cumulative
  <1>3. /\ g \in [0 .. k -> Nat] /\ g[0] = 0
        /\ \A e \in 0 .. k - 1 : g[e + 1] = g[e] + w[e]
    BY <1>1, BeforeIs DEF Cumulative
  <1> DEFINE P == {m \in Nat : /\ m <= k => f[m] = g[m]
                               /\ m > k /\ m <= size => f[m] = g[k]}
  <1>4. 0 \in P
    BY <1>2, <1>3
  <1>5. ASSUME NEW m \in Nat, m \in P
        PROVE  m + 1 \in P
    <2>1. CASE m < k
      <3>1. m \in 0 .. k - 1 /\ m \in 0 .. size - 1 /\ f[m] = g[m] /\ padded[m] = w[m]
        BY <1>5, <2>1
      <3>2. f[m + 1] = f[m] + padded[m] /\ g[m + 1] = g[m] + w[m]
        BY <1>2, <1>3, <3>1
      <3> QED
        BY <2>1, <3>1, <3>2
    <2>2. CASE ~(m < k) /\ m < size
      <3>1. m \in 0 .. size - 1 /\ padded[m] = 0 /\ f[m] = g[k]
        BY <1>5, <2>2
      <3>2. f[m + 1] = f[m] + padded[m] /\ f[m] \in Nat
        BY <1>2, <3>1
      <3> QED
        BY <2>2, <3>1, <3>2
    <2>3. CASE ~(m < k) /\ ~(m < size)
      BY <2>3
    <2> QED
      BY <2>1, <2>2, <2>3
  <1>6. Nat \subseteq P
    <2> HIDE DEF P
    <2> QED
      BY <1>4, <1>5, SetInduction
  <1>7. f[size] = g[k]
    <2>1. size \in P
      BY <1>6
    <2> QED
      BY <2>1
  <1>8. {slot \in 0 .. size - 1 : slot < k} = 0 .. k - 1
    OBVIOUS
  <1>9. Fractions(padded, size, renorm)
          = [slot \in 0 .. size - 1 |-> <<padded[slot], IF renorm THEN f[size] ELSE 1>>]
    BY <1>1 DEF Fractions
  <1>10. Fractions(w, k, renorm) = [slot \in 0 .. k - 1 |-> <<w[slot], IF renorm THEN g[k] ELSE 1>>]
    BY <1>1 DEF Fractions
  <1>11. Stored(Fractions(padded, size, renorm), k)
           = [slot \in 0 .. k - 1 |-> <<padded[slot], IF renorm THEN f[size] ELSE 1>>]
    BY <1>8, <1>9 DEF Stored
  <1>12. \A slot \in 0 .. k - 1 : padded[slot] = w[slot]
    OBVIOUS
  <1> QED
    BY <1>7, <1>10, <1>11, <1>12

\* The expert of the reference with i ahead of it.
Ith(v, n, i) == CHOOSE e \in 0 .. n - 1 : Cardinality(Ahead(v, n, e)) = i

\* Scores and bias of n experts, and how many to take.
ToRoute(scores, bias, k, n) ==
  /\ n \in Nat /\ n = Cardinality(DOMAIN scores)
  /\ scores \in [0 .. n - 1 -> Nat] /\ k \in 0 .. n
  /\ bias # <<>> => /\ bias \in [0 .. n - 1 -> Int]
                    /\ \A e \in 0 .. n - 1 : scores[e] + bias[e] > MinusInf

LEMMA Routed ==
  ASSUME NEW scores, NEW bias, NEW k, NEW n, ToRoute(scores, bias, k, n), NEW renorm
  PROVE  TopK(scores, bias, k, renorm) = TopKReference(scores, bias, k, renorm)
  <1> USE DEF ToRoute
  <1>1. PICK lanes : lanes = Lanes(scores)
    OBVIOUS
  <1>2. PICK v : v = FirstValues(scores, bias)
    OBVIOUS
  <1>3. lanes \in Nat /\ n <= lanes /\ DOMAIN scores = 0 .. n - 1 /\ k \in Nat /\ k <= n
    <2>1. PowerOfTwo(n) \in Nat /\ PowerOfTwo(n) >= n
      BY PowerCovers
    <2> QED
      BY <1>1, <2>1 DEF Lanes
  <1>4. \A e \in 0 .. lanes - 1 :
          LaneScore(scores)[e] = IF e \in 0 .. n - 1 THEN scores[e] ELSE 0
    BY <1>1, <1>3 DEF LaneScore
  <1>5. /\ v = [e \in 0 .. lanes - 1 |-> v[e]]
        /\ \A e \in 0 .. lanes - 1 : v[e] = IF bias = <<>> THEN LaneScore(scores)[e]
                                            ELSE LaneScore(scores)[e] + PaddedBias(bias, e)
    BY <1>1, <1>2 DEF FirstValues
  <1> DEFINE biased(e) == scores[e] + IF bias = <<>> THEN 0 ELSE bias[e]
  <1>13. \A e \in 0 .. n - 1 : e \in 0 .. lanes - 1 /\ scores[e] \in Nat
    BY <1>3
  <1>14. \A p \in n .. lanes - 1 : p \in 0 .. lanes - 1 /\ p \notin 0 .. n - 1
    BY <1>3
  <1>15. ASSUME NEW e \in 0 .. n - 1
         PROVE  v[e] = biased(e) /\ v[e] \in Int /\ v[e] > MinusInf /\ (bias = <<>> => v[e] >= 0)
    <2>1. LaneScore(scores)[e] = scores[e] /\ scores[e] \in Nat
      BY <1>4, <1>13
    <2>2. CASE bias = <<>>
      <3>1. v[e] = scores[e]
        BY <1>5, <1>13, <2>1, <2>2
      <3> QED
        BY <2>1, <2>2, <3>1 DEF MinusInf
    <2>3. CASE bias # <<>>
      <3>1. bias[e] \in Int /\ PaddedBias(bias, e) = bias[e]
        BY <2>3 DEF PaddedBias
      <3>2. v[e] = scores[e] + bias[e]
        BY <1>5, <1>13, <2>1, <2>3, <3>1
      <3>3. scores[e] + bias[e] > MinusInf
        BY <2>3
      <3> QED
        BY <2>1, <2>3, <3>1, <3>2, <3>3
    <2> QED
      BY <2>2, <2>3
  <1>16. ASSUME NEW p \in n .. lanes - 1
         PROVE  v[p] = (IF bias = <<>> THEN 0 ELSE MinusInf) /\ v[p] \in Int
    <2>1. LaneScore(scores)[p] = 0
      BY <1>4, <1>14
    <2>2. CASE bias = <<>>
      BY <1>5, <1>14, <2>1, <2>2
    <2>3. CASE bias # <<>>
      <3>1. p \notin DOMAIN bias
        BY <1>14, <2>3
      <3>2. v[p] = 0 + MinusInf
        BY <1>5, <1>14, <2>1, <2>3, <3>1 DEF PaddedBias
      <3> QED
        BY <2>3, <3>2 DEF MinusInf
    <2> QED
      BY <2>2, <2>3
  <1>6. Values(v, n, lanes)
    <2>1. \A e \in 0 .. lanes - 1 : e \in 0 .. n - 1 \/ e \in n .. lanes - 1
      BY <1>3
    <2>2. \A e \in 0 .. lanes - 1 : v[e] \in Int
      BY <1>15, <1>16, <2>1
    <2> QED
      BY <1>3, <1>5, <2>2 DEF Values
  <1>7. PaddingLast(v, n, lanes)
    <2>1. ASSUME NEW e \in 0 .. n - 1, NEW p \in n .. lanes - 1
          PROVE  v[p] <= v[e]
      <3>1. v[e] \in Int /\ v[e] > MinusInf /\ (bias = <<>> => v[e] >= 0) /\ MinusInf \in Int
        BY <1>15 DEF MinusInf
      <3>2. v[p] = IF bias = <<>> THEN 0 ELSE MinusInf
        BY <1>16
      <3> QED
        BY <3>1, <3>2
    <2> QED
      BY <1>15, <2>1 DEF PaddingLast
  <1>8. PICK vals : vals = RoundsOf(scores, bias, k)
    OBVIOUS
  <1>9. \A i \in 0 .. k : vals[i] = Masked(v, n, lanes, i)
    <2>1. SelectionRounds(v, k, vals)
      <3>1. \E w : SelectionRounds(v, k, w)
        BY <1>6, <1>7, RoundsAre
      <3>2. \E w : SelectionRounds(FirstValues(scores, bias), k, w)
        BY <1>2, <3>1
      <3>3. SelectionRounds(FirstValues(scores, bias), k, vals)
        BY <1>8, <3>2 DEF RoundsOf
      <3> QED
        BY <1>2, <3>3
    <2> QED
      BY <1>6, <1>7, <2>1, RoundsAre
  <1>10. ASSUME NEW i \in 0 .. k - 1
         PROVE  /\ ArgMax(vals[i]) = Ith(v, n, i)
                /\ Ith(v, n, i) \in 0 .. n - 1
    <2>1. i \in Nat /\ i < n /\ i \in 0 .. k
      BY <1>3
    <2>2. PICK e \in 0 .. n - 1 : /\ Rank(v, n, e) = i
                                  /\ \A f \in 0 .. n - 1 : Rank(v, n, f) = i => f = e
      BY <1>6, <2>1, OneOfEachRank
    <2>3. ArgMax(Masked(v, n, lanes, i)) = e
      BY <1>6, <1>7, <2>1, <2>2, RoundTakes
    <2>4. Ith(v, n, i) = e
      BY <2>2 DEF Ith, Rank
    <2> QED
      BY <1>9, <2>1, <2>3, <2>4
  <1> DEFINE ids == [i \in 0 .. k - 1 |-> Ith(v, n, i)]
             weights == [i \in 0 .. k - 1 |-> scores[ids[i]]]
  <1>17. \A i \in 0 .. k - 1 : /\ ids[i] \in 0 .. n - 1 /\ ids[i] \in 0 .. lanes - 1
                               /\ weights[i] = scores[ids[i]] /\ weights[i] \in Nat
    BY <1>10, <1>13
  <1>11. TopK(scores, bias, k, renorm) = [ids |-> ids, weights |-> Fractions(weights, k, renorm)]
    <2>1. PICK size : size = PowerOfTwo(k)
      OBVIOUS
    <2>2. size \in Nat /\ k <= size /\ {slot \in 0 .. size - 1 : slot < k} = 0 .. k - 1
      <3>1. size \in Nat /\ k <= size
        BY <1>3, <2>1, PowerCovers
      <3> QED
        BY <1>3, <3>1
    <2>3. PICK taken : taken = Taken(scores, bias, k)
      OBVIOUS
    <2>4. taken = [slot \in 0 .. size - 1 |-> IF slot < k THEN ArgMax(vals[slot]) ELSE 0]
      BY <1>8, <2>1, <2>3, Zenon DEF Taken
    <2>5. \A slot \in 0 .. k - 1 : slot \in 0 .. size - 1 /\ slot < k
      BY <1>3, <2>2
    <2>6. \A slot \in 0 .. k - 1 : taken[slot] = ids[slot]
      BY <1>10, <2>4, <2>5
    <2>7. Stored(taken, k) = ids
      BY <2>2, <2>4, <2>6 DEF Stored
    <2>8. PICK padded : padded = TakenWeights(scores, bias, k)
      OBVIOUS
    <2>9. padded = [slot \in 0 .. size - 1 |-> IF slot < k THEN LaneScore(scores)[taken[slot]] ELSE 0]
      BY <2>1, <2>3, <2>8, Zenon DEF TakenWeights
    <2>10. \A slot \in 0 .. size - 1 : slot < k => slot \in 0 .. k - 1
      BY <1>3, <2>2
    <2> HIDE DEF ids, weights
    <2>11. \A slot \in 0 .. k - 1 : LaneScore(scores)[taken[slot]] = weights[slot] /\ weights[slot] \in Nat
      BY <1>4, <1>17, <2>6
    <2>12. \A slot \in 0 .. size - 1 :
             /\ padded[slot] = IF slot < k THEN weights[slot] ELSE 0
             /\ padded[slot] \in Nat
      BY <2>9, <2>10, <2>11
    <2>13. padded \in [0 .. size - 1 -> Nat]
      BY <2>9, <2>12
    <2>14. weights \in [0 .. k - 1 -> Nat]
      BY <1>17 DEF weights
    <2>15. PaddedWith(weights, k, padded, size)
      BY <1>3, <2>2, <2>12, <2>13, <2>14 DEF PaddedWith
    <2>16. Stored(Fractions(padded, size, renorm), k) = Fractions(weights, k, renorm)
      BY <2>15, ZeroSlots
    <2> QED
      BY <2>1, <2>3, <2>7, <2>8, <2>16, TopKIs, Zenon
  <1>12. TopKReference(scores, bias, k, renorm) = [ids |-> ids, weights |-> Fractions(weights, k, renorm)]
    <2> DEFINE before(e) == {f \in DOMAIN scores : biased(f) > biased(e) \/ (biased(f) = biased(e) /\ f < e)}
               refs == [i \in 0 .. k - 1 |-> CHOOSE e \in DOMAIN scores : Cardinality(before(e)) = i]
    <2>1. TopKReference(scores, bias, k, renorm)
            = [ids |-> refs, weights |-> Fractions([i \in 0 .. k - 1 |-> scores[refs[i]]], k, renorm)]
      BY DEF TopKReference
    <2>2. \A e \in 0 .. n - 1 : biased(e) = v[e]
      BY <1>15
    <2>3. ASSUME NEW e \in 0 .. n - 1
          PROVE  before(e) = Ahead(v, n, e)
      BY <1>3, <2>2 DEF Ahead, Precedes
    <2>4. ASSUME NEW i \in 0 .. k - 1
          PROVE  (CHOOSE e \in DOMAIN scores : Cardinality(before(e)) = i) = Ith(v, n, i)
      <3> HIDE DEF before
      <3>1. DOMAIN scores = 0 .. n - 1
        BY <1>3
      <3>2. \A e : (e \in DOMAIN scores /\ Cardinality(before(e)) = i)
                     <=> (e \in 0 .. n - 1 /\ Cardinality(Ahead(v, n, e)) = i)
        BY <2>3, <3>1
      <3> QED
        BY <3>2 DEF Ith
    <2>5. refs = ids
      BY <2>4, Zenon
    <2> HIDE DEF refs, ids
    <2> QED
      BY <2>1, <2>5
  <1> QED
    BY <1>11, <1>12, Zenon

(***************************************************************************)
(* The rounds of argmax of moe_topk_softmax_kernel select the experts of   *)
(* torch.topk, in its order and each once, with their unbiased scores,     *)
(* renormalised or not.                                                    *)
(***************************************************************************)
THEOREM Routing == LaunchSpec => []RoutingIsTopK
  <1>1. launch \in Launches => RoutingIsTopK
    <2> SUFFICES ASSUME launch \in Launches, launch.kind = "routing"
                 PROVE  TopK(launch.in.scores, launch.in.bias, launch.in.k, launch.in.renorm)
                          = TopKReference(launch.in.scores, launch.in.bias, launch.in.k, launch.in.renorm)
      BY DEF RoutingIsTopK, For
    <2>1. launch.in \in Logits
      BY LaunchInputs
    <2>2. PICK scores, bias, k, renorm, n :
            /\ scores = launch.in.scores /\ bias = launch.in.bias /\ k = launch.in.k
            /\ renorm = launch.in.renorm
            /\ n = Cardinality(DOMAIN launch.in.scores)
      OBVIOUS
    <2>3. ToRoute(scores, bias, k, n)
      BY <2>1, <2>2, KernelsAssumption DEF ToRoute
    <2>4. TopK(scores, bias, k, renorm) = TopKReference(scores, bias, k, renorm)
      BY <2>3, Routed
    <2> QED
      BY <2>2, <2>4
  <1> QED
    BY <1>1, LaunchStays, PTL

-----------------------------------------------------------------------------
(* The alignment of the pairs by expert, in blocks: the order of the pairs *)
(* by expert.                                                              *)

PairsTo(flat, N, n) == N \in Nat /\ n \in Nat /\ flat \in [0 .. N - 1 -> 0 .. n - 1]

Lower(flat, N, e) == {q \in 0 .. N - 1 : flat[q] < e}
OfExpert(flat, N, e) == {q \in 0 .. N - 1 : flat[q] = e}
Earlier(flat, N, p) == {q \in 0 .. N - 1 : flat[q] = flat[p] /\ q < p}
TurnOfPair(flat, N, p) == Cardinality(Earlier(flat, N, p))

LEMMA DisjointUnion ==
  ASSUME NEW S, NEW T, IsFiniteSet(S), IsFiniteSet(T), S \cap T = {}
  PROVE  Cardinality(S \cup T) = Cardinality(S) + Cardinality(T)
  <1>1. Cardinality(S \cup T) = Cardinality(S) + Cardinality(T) - Cardinality(S \cap T)
    BY FS_Union
  <1>2. Cardinality(S \cap T) = 0 /\ Cardinality(S) \in Nat /\ Cardinality(T) \in Nat
    BY FS_EmptySet, FS_CardinalityType
  <1> QED
    BY <1>1, <1>2

LEMMA PairSets ==
  ASSUME NEW flat, NEW N, NEW n, PairsTo(flat, N, n), NEW e
  PROVE  /\ IsFiniteSet(Lower(flat, N, e)) /\ Cardinality(Lower(flat, N, e)) \in Nat
         /\ IsFiniteSet(OfExpert(flat, N, e)) /\ Cardinality(OfExpert(flat, N, e)) \in Nat
         /\ IsFiniteSet(Earlier(flat, N, e)) /\ TurnOfPair(flat, N, e) \in Nat
  <1>1. IsFiniteSet(0 .. N - 1)
    BY FS_Interval DEF PairsTo
  <1>2. Lower(flat, N, e) \in SUBSET (0 .. N - 1) /\ OfExpert(flat, N, e) \in SUBSET (0 .. N - 1)
        /\ Earlier(flat, N, e) \in SUBSET (0 .. N - 1)
    BY DEF Lower, OfExpert, Earlier
  <1>3. IsFiniteSet(Lower(flat, N, e)) /\ IsFiniteSet(OfExpert(flat, N, e)) /\ IsFiniteSet(Earlier(flat, N, e))
    BY <1>1, <1>2, FS_Subset
  <1> QED
    BY <1>3, FS_CardinalityType DEF TurnOfPair

LEMMA CountsAre ==
  ASSUME NEW flat, NEW N, NEW n, PairsTo(flat, N, n)
  PROVE  /\ Counts(flat, n) \in [0 .. n - 1 -> Nat]
         /\ \A e \in 0 .. n - 1 : Counts(flat, n)[e] = Cardinality(OfExpert(flat, N, e))
  <1>1. DOMAIN flat = 0 .. N - 1
    BY DEF PairsTo
  <1>2. Counts(flat, n) = [e \in 0 .. n - 1 |-> Cardinality(OfExpert(flat, N, e))]
    BY <1>1 DEF Counts, Experts, OfExpert
  <1> QED
    BY <1>2, PairSets

LEMMA LowerCount ==
  ASSUME NEW flat, NEW N, NEW n, PairsTo(flat, N, n), NEW e \in 0 .. n
  PROVE  Cardinality(Lower(flat, N, e)) = Before(Counts(flat, n), n)[e]
  <1>1. PICK b : b = Before(Counts(flat, n), n)
    OBVIOUS
  <1>2. n \in Nat /\ b[0] = 0 /\ \A g \in 0 .. n - 1 : b[g + 1] = b[g] + Cardinality(OfExpert(flat, N, g))
    <2>1. n \in Nat
      BY DEF PairsTo
    <2>2. Cumulative(Counts(flat, n), n)
      BY <2>1, CountsAre, BeforeIs
    <2> QED
      BY <1>1, <2>1, <2>2, CountsAre DEF Cumulative
  <1> DEFINE P == {m \in Nat : m <= n => Cardinality(Lower(flat, N, m)) = b[m]}
  <1>3. 0 \in P
    <2>1. Lower(flat, N, 0) = {}
      BY DEF Lower, PairsTo
    <2> QED
      BY <1>2, <2>1, FS_EmptySet
  <1>4. ASSUME NEW m \in Nat, m \in P
        PROVE  m + 1 \in P
    <2> SUFFICES ASSUME m + 1 <= n
                 PROVE  Cardinality(Lower(flat, N, m + 1)) = b[m + 1]
      OBVIOUS
    <2>1. Cardinality(Lower(flat, N, m)) = b[m] /\ m \in 0 .. n - 1
      BY <1>2, <1>4
    <2>2. \A q \in 0 .. N - 1 : flat[q] < m + 1 <=> flat[q] < m \/ flat[q] = m
      BY <1>2 DEF PairsTo
    <2>3. Lower(flat, N, m + 1) = Lower(flat, N, m) \cup OfExpert(flat, N, m)
      BY <2>2 DEF Lower, OfExpert
    <2>4. Lower(flat, N, m) \cap OfExpert(flat, N, m) = {}
      BY DEF Lower, OfExpert, PairsTo
    <2>5. Cardinality(Lower(flat, N, m) \cup OfExpert(flat, N, m))
            = Cardinality(Lower(flat, N, m)) + Cardinality(OfExpert(flat, N, m))
      BY <2>4, PairSets, DisjointUnion
    <2> QED
      BY <1>2, <2>1, <2>3, <2>5
  <1>5. Nat \subseteq P
    <2> HIDE DEF P
    <2> QED
      BY <1>3, <1>4, SetInduction
  <1> QED
    BY <1>1, <1>2, <1>5

LEMMA PlaceIs ==
  ASSUME NEW flat, NEW N, NEW n, PairsTo(flat, N, n), NEW p \in 0 .. N - 1
  PROVE  /\ Place(flat, p) = Before(Counts(flat, n), n)[flat[p]] + TurnOfPair(flat, N, p)
         /\ TurnOfPair(flat, N, p) \in Nat /\ TurnOfPair(flat, N, p) < Counts(flat, n)[flat[p]]
  <1>1. flat[p] \in 0 .. n - 1 /\ flat[p] \in 0 .. n /\ n \in Nat /\ DOMAIN flat = 0 .. N - 1
    BY DEF PairsTo
  <1>2. {q \in DOMAIN flat : flat[q] < flat[p] \/ (flat[q] = flat[p] /\ q < p)}
          = Lower(flat, N, flat[p]) \cup Earlier(flat, N, p)
    BY <1>1 DEF Lower, Earlier
  <1>3. Lower(flat, N, flat[p]) \cap Earlier(flat, N, p) = {}
    BY <1>1 DEF Lower, Earlier
  <1>4. Cardinality(Lower(flat, N, flat[p]) \cup Earlier(flat, N, p))
          = Cardinality(Lower(flat, N, flat[p])) + TurnOfPair(flat, N, p)
    BY <1>3, PairSets, DisjointUnion DEF TurnOfPair
  <1>5. Cardinality(Lower(flat, N, flat[p])) = Before(Counts(flat, n), n)[flat[p]]
    BY <1>1, LowerCount
  <1>6. Place(flat, p) = Before(Counts(flat, n), n)[flat[p]] + TurnOfPair(flat, N, p)
    BY <1>2, <1>4, <1>5 DEF Place
  <1>7. TurnOfPair(flat, N, p) < Cardinality(OfExpert(flat, N, flat[p]))
    <2>1. Earlier(flat, N, p) \in SUBSET OfExpert(flat, N, flat[p])
      BY DEF Earlier, OfExpert
    <2>2. p \in OfExpert(flat, N, flat[p]) /\ p \notin Earlier(flat, N, p)
      BY DEF Earlier, OfExpert, PairsTo
    <2>3. Earlier(flat, N, p) # OfExpert(flat, N, flat[p])
      BY <2>2
    <2>4. IsFiniteSet(OfExpert(flat, N, flat[p])) /\ Cardinality(OfExpert(flat, N, flat[p])) \in Nat
          /\ TurnOfPair(flat, N, p) \in Nat
      BY PairSets
    <2>5. Cardinality(Earlier(flat, N, p)) <= Cardinality(OfExpert(flat, N, flat[p]))
          /\ Cardinality(OfExpert(flat, N, flat[p])) # Cardinality(Earlier(flat, N, p))
      BY <2>1, <2>3, <2>4, FS_Subset
    <2> QED
      BY <2>4, <2>5 DEF TurnOfPair
  <1> QED
    BY <1>1, <1>6, <1>7, CountsAre, PairSets

\* Pairs of one expert keep their order.
LEMMA TurnsDiffer ==
  ASSUME NEW flat, NEW N, NEW n, PairsTo(flat, N, n), NEW p \in 0 .. N - 1, NEW q \in 0 .. N - 1,
         flat[p] = flat[q], p # q
  PROVE  TurnOfPair(flat, N, p) # TurnOfPair(flat, N, q)
  <1>1. ASSUME NEW a \in 0 .. N - 1, NEW c \in 0 .. N - 1, flat[a] = flat[c], a < c
        PROVE  TurnOfPair(flat, N, a) # TurnOfPair(flat, N, c)
    <2>1. Earlier(flat, N, a) \in SUBSET Earlier(flat, N, c)
      BY <1>1 DEF Earlier, PairsTo
    <2>2. a \in Earlier(flat, N, c) /\ a \notin Earlier(flat, N, a)
      BY <1>1 DEF Earlier, PairsTo
    <2>3. Earlier(flat, N, c) # Earlier(flat, N, a)
      BY <2>2
    <2>4. IsFiniteSet(Earlier(flat, N, c))
      BY PairSets
    <2> QED
      BY <2>1, <2>3, <2>4, FS_Subset DEF TurnOfPair
  <1>2. p < q \/ q < p
    BY DEF PairsTo
  <1> QED
    BY <1>1, <1>2

\* The quotient of a sum.
LEMMA QuotientIs ==
  ASSUME NEW b \in Nat \ {0}, NEW q \in Nat, NEW r \in Nat, r < b
  PROVE  (b * q + r) \div b = q
  <1>1. PICK x : x = b * q + r
    OBVIOUS
  <1>2. x \in Nat /\ b * q <= x /\ x < b * q + b
    BY <1>1
  <1>3. PICK d \in Nat : d = x \div b /\ b * d <= x /\ x < b * d + b
    BY <1>2
  <1>4. \A a, c \in Nat : a < c => b * a + b <= b * c
    <2> SUFFICES ASSUME NEW a \in Nat, NEW c \in Nat, a < c PROVE b * a + b <= b * c
      OBVIOUS
    <2>1. b * a + b = b * (a + 1) /\ a + 1 <= c
      OBVIOUS
    <2> QED
      BY <2>1
  <1>5. b * q \in Nat /\ b * d \in Nat
    OBVIOUS
  <1>6. ~(d < q)
    <2>1. d < q => b * d + b <= b * q
      BY <1>4
    <2> QED
      BY <1>2, <1>3, <1>5, <2>1
  <1>7. ~(q < d)
    <2>1. q < d => b * q + b <= b * d
      BY <1>4
    <2> QED
      BY <1>2, <1>3, <1>5, <2>1
  <1> QED
    BY <1>1, <1>3, <1>6, <1>7

\* A count rounded up to blocks.
LEMMA RoundedUp ==
  ASSUME NEW c \in Nat, NEW b \in Nat \ {0}
  PROVE  /\ CeilDiv(c, b) \in Nat
         /\ PaddedTo(c, b) \in Nat /\ PaddedTo(c, b) = b * CeilDiv(c, b)
         /\ PaddedTo(c, b) \div b = CeilDiv(c, b)
         /\ c <= PaddedTo(c, b) /\ PaddedTo(c, b) <= c + (b - 1)
  <1>1. c + b - 1 \in Nat
    OBVIOUS
  <1>2. PICK q \in Nat : q = (c + b - 1) \div b /\ b * q <= c + b - 1 /\ c + b - 1 < b * q + b
    BY <1>1
  <1>3. CeilDiv(c, b) = q
    BY <1>2 DEF CeilDiv
  <1>4. PaddedTo(c, b) = b * q
    <2>1. q * b = b * q
      OBVIOUS
    <2> QED
      BY <1>3, <2>1 DEF PaddedTo
  <1>5. b * q \in Nat
    OBVIOUS
  <1>6. (b * q) \div b = q
    <2>1. (b * q + 0) \div b = q
      BY QuotientIs
    <2> QED
      BY <1>5, <2>1
  <1> QED
    BY <1>2, <1>3, <1>4, <1>5, <1>6

\* The runs of the experts, in rows and in blocks.
Padded(flat, n, b) == [e \in Experts(n) |-> PaddedTo(Counts(flat, n)[e], b)]
Blocks(flat, n, b) == [e \in Experts(n) |-> Padded(flat, n, b)[e] \div b]

\* Where the runs begin, and how long they are.
Runs(flat, N, n, b) ==
  LET counts == Counts(flat, n)
      rows   == Before(Padded(flat, n, b), n)
      blocks == Before(Blocks(flat, n, b), n)
  IN /\ rows \in [0 .. n -> Nat] /\ blocks \in [0 .. n -> Nat]
     /\ blocks[0] = 0
     /\ \A e \in 0 .. n : rows[e] = b * blocks[e]
     /\ \A e, g \in 0 .. n : e <= g => rows[e] <= rows[g] /\ blocks[e] <= blocks[g]
     /\ \A e \in 0 .. n - 1 : /\ rows[e] + counts[e] <= rows[e + 1]
                              /\ counts[e] \in Nat
     /\ rows[n] <= N + n * (b - 1)

LEMMA RunsAre ==
  ASSUME NEW flat, NEW N, NEW n, PairsTo(flat, N, n), NEW b \in Nat \ {0}
  PROVE  Runs(flat, N, n, b)
  <1>1. PICK counts, rows, blocks, before :
          /\ counts = Counts(flat, n) /\ rows = Before(Padded(flat, n, b), n)
          /\ blocks = Before(Blocks(flat, n, b), n) /\ before = Before(Counts(flat, n), n)
    OBVIOUS
  <1>2. n \in Nat /\ N \in Nat /\ counts \in [0 .. n - 1 -> Nat]
    BY <1>1, CountsAre DEF PairsTo
  <1>3. ASSUME NEW e \in 0 .. n - 1
        PROVE  /\ Padded(flat, n, b)[e] \in Nat /\ Blocks(flat, n, b)[e] \in Nat
               /\ Padded(flat, n, b)[e] = b * Blocks(flat, n, b)[e]
               /\ counts[e] <= Padded(flat, n, b)[e] /\ Padded(flat, n, b)[e] <= counts[e] + (b - 1)
    <2>1. Padded(flat, n, b)[e] = PaddedTo(counts[e], b)
      BY <1>1 DEF Padded, Experts
    <2>2. Blocks(flat, n, b)[e] = PaddedTo(counts[e], b) \div b
      BY <2>1 DEF Blocks, Experts
    <2>3. counts[e] \in Nat
      BY <1>2
    <2> QED
      BY <2>1, <2>2, <2>3, RoundedUp
  <1>4. Padded(flat, n, b) \in [0 .. n - 1 -> Nat] /\ Blocks(flat, n, b) \in [0 .. n - 1 -> Nat]
    <2>1. Padded(flat, n, b) = [e \in 0 .. n - 1 |-> Padded(flat, n, b)[e]]
          /\ Blocks(flat, n, b) = [e \in 0 .. n - 1 |-> Blocks(flat, n, b)[e]]
      BY DEF Padded, Blocks, Experts
    <2> QED
      BY <1>3, <2>1
  <1>5. /\ rows \in [0 .. n -> Nat] /\ rows[0] = 0
        /\ \A e \in 0 .. n - 1 : rows[e + 1] = rows[e] + Padded(flat, n, b)[e]
        /\ \A e, g \in 0 .. n : e <= g => rows[e] <= rows[g]
    <2>1. Cumulative(Padded(flat, n, b), n)
      BY <1>2, <1>4, BeforeIs
    <2> QED
      BY <1>1, <2>1 DEF Cumulative
  <1>6. /\ blocks \in [0 .. n -> Nat] /\ blocks[0] = 0
        /\ \A e \in 0 .. n - 1 : blocks[e + 1] = blocks[e] + Blocks(flat, n, b)[e]
        /\ \A e, g \in 0 .. n : e <= g => blocks[e] <= blocks[g]
    <2>1. Cumulative(Blocks(flat, n, b), n)
      BY <1>2, <1>4, BeforeIs
    <2> QED
      BY <1>1, <2>1 DEF Cumulative
  <1>7. /\ before \in [0 .. n -> Nat] /\ before[0] = 0
        /\ \A e \in 0 .. n - 1 : before[e + 1] = before[e] + counts[e]
    <2>1. Cumulative(Counts(flat, n), n)
      BY <1>1, <1>2, BeforeIs
    <2> QED
      BY <1>1, <2>1 DEF Cumulative
  <1>8. before[n] = N
    <2>1. Cardinality(Lower(flat, N, n)) = before[n]
      BY <1>1, <1>2, LowerCount
    <2>2. Lower(flat, N, n) = 0 .. N - 1
      BY DEF Lower, PairsTo
    <2>3. Cardinality(0 .. N - 1) = IF 0 > N - 1 THEN 0 ELSE N - 1 - 0 + 1
      BY <1>2, FS_Interval
    <2> QED
      BY <1>2, <2>1, <2>2, <2>3
  <1> DEFINE P == {m \in Nat : m <= n => rows[m] = b * blocks[m] /\ rows[m] <= before[m] + m * (b - 1)}
  <1>9. 0 \in P
    BY <1>5, <1>6, <1>7
  <1>10. ASSUME NEW m \in Nat, m \in P
         PROVE  m + 1 \in P
    <2> SUFFICES ASSUME m + 1 <= n
                 PROVE  /\ rows[m + 1] = b * blocks[m + 1]
                        /\ rows[m + 1] <= before[m + 1] + (m + 1) * (b - 1)
      OBVIOUS
    <2>1. m \in 0 .. n - 1 /\ m \in 0 .. n /\ rows[m] = b * blocks[m] /\ rows[m] <= before[m] + m * (b - 1)
      BY <1>2, <1>10
    <2>2. PICK u, v, w \in Nat : u = Padded(flat, n, b)[m] /\ v = Blocks(flat, n, b)[m] /\ w = counts[m]
      BY <1>2, <1>3, <2>1
    <2>3. u = b * v /\ u <= w + (b - 1)
      BY <1>3, <2>1, <2>2
    <2>4. rows[m + 1] = rows[m] + u /\ blocks[m + 1] = blocks[m] + v /\ before[m + 1] = before[m] + w
      BY <1>5, <1>6, <1>7, <2>1, <2>2
    <2>5. PICK x, y, z \in Nat : x = rows[m] /\ y = blocks[m] /\ z = before[m]
      BY <1>5, <1>6, <1>7, <2>1
    <2>6. b * (y + v) = b * y + b * v /\ (m + 1) * (b - 1) = m * (b - 1) + (b - 1)
          /\ m * (b - 1) \in Nat /\ b * y \in Nat /\ b * v \in Nat
      OBVIOUS
    <2>7. x + u = b * (y + v)
      BY <2>1, <2>3, <2>5, <2>6
    <2>8. x + u <= (z + w) + (m + 1) * (b - 1)
      BY <2>1, <2>3, <2>5, <2>6
    <2> QED
      BY <2>4, <2>5, <2>7, <2>8
  <1>11. Nat \subseteq P
    <2> HIDE DEF P
    <2> QED
      BY <1>9, <1>10, SetInduction
  <1>12. /\ \A e \in 0 .. n : rows[e] = b * blocks[e]
         /\ rows[n] <= N + n * (b - 1)
    BY <1>2, <1>8, <1>11
  <1>13. ASSUME NEW e \in 0 .. n - 1
         PROVE  rows[e] + counts[e] <= rows[e + 1] /\ counts[e] \in Nat
    <2>1. e \in 0 .. n /\ rows[e] \in Nat /\ counts[e] \in Nat
      BY <1>2, <1>5
    <2> QED
      BY <1>3, <1>5, <2>1
  <1> QED
    BY <1>1, <1>5, <1>6, <1>12, <1>13 DEF Runs

\* The row of a pair: the run of its expert, and its turn there.
Rows(flat, n, b) == Before(Padded(flat, n, b), n)
RowOfPair(flat, N, n, b, p) == Rows(flat, n, b)[flat[p]] + TurnOfPair(flat, N, p)

\* The bounds of the runs, one by one.
RunBounds(flat, N, n, b, rows, counts) ==
  /\ rows \in [0 .. n -> Nat]
  /\ \A e, g \in 0 .. n : e <= g => rows[e] <= rows[g]
  /\ \A e \in 0 .. n - 1 : rows[e] + counts[e] <= rows[e + 1] /\ counts[e] \in Nat
  /\ rows[n] <= N + n * (b - 1)

LEMMA RunBoundsAre ==
  ASSUME NEW flat, NEW N, NEW n, PairsTo(flat, N, n), NEW b \in Nat \ {0}
  PROVE  RunBounds(flat, N, n, b, Rows(flat, n, b), Counts(flat, n))
  <1>1. Runs(flat, N, n, b)
    BY RunsAre
  <1>2. Rows(flat, n, b) = Before(Padded(flat, n, b), n)
    BY DEF Rows
  <1> QED
    BY <1>1, <1>2, Zenon DEF Runs, RunBounds

LEMMA SumsFit ==
  ASSUME NEW x \in Nat, NEW y \in Nat, NEW z \in Nat, NEW c \in Nat, NEW t \in Nat,
         x + c <= y, y <= z, t < c
  PROVE  x + t \in Nat /\ x <= x + t /\ x + t < y /\ x + t < z
  OBVIOUS

LEMMA RowFits ==
  ASSUME NEW flat, NEW N, NEW n, PairsTo(flat, N, n), NEW b \in Nat \ {0}, NEW p \in 0 .. N - 1
  PROVE  LET rows == Rows(flat, n, b)
             row  == RowOfPair(flat, N, n, b, p)
         IN /\ row \in Nat /\ flat[p] \in 0 .. n - 1
            /\ rows[flat[p]] <= row /\ row < rows[flat[p] + 1]
            /\ rows[flat[p] + 1] <= rows[n] /\ row < rows[n]
  <1>1. PICK rows, counts, e, t : rows = Rows(flat, n, b) /\ counts = Counts(flat, n)
                                  /\ e = flat[p] /\ t = TurnOfPair(flat, N, p)
    OBVIOUS
  <1>2. n \in Nat /\ e \in 0 .. n - 1 /\ e + 1 \in 0 .. n /\ e \in 0 .. n /\ n \in 0 .. n /\ e + 1 <= n
    BY <1>1 DEF PairsTo
  <1>3. RunBounds(flat, N, n, b, rows, counts)
    BY <1>1, RunBoundsAre
  <1>4. /\ rows[e] \in Nat /\ rows[e + 1] \in Nat /\ rows[n] \in Nat
        /\ rows[e + 1] <= rows[n]
    BY <1>2, <1>3 DEF RunBounds
  <1>5. rows[e] + counts[e] <= rows[e + 1] /\ counts[e] \in Nat
    BY <1>2, <1>3 DEF RunBounds
  <1>6. t \in Nat /\ t < counts[e]
    BY <1>1, PlaceIs
  <1>7. /\ rows[e] + t \in Nat /\ rows[e] <= rows[e] + t
        /\ rows[e] + t < rows[e + 1] /\ rows[e] + t < rows[n]
    BY <1>4, <1>5, <1>6, SumsFit
  <1>8. RowOfPair(flat, N, n, b, p) = rows[e] + t
    BY <1>1 DEF RowOfPair
  <1> QED
    BY <1>1, <1>2, <1>4, <1>7, <1>8

LEMMA RowsDiffer ==
  ASSUME NEW flat, NEW N, NEW n, PairsTo(flat, N, n), NEW b \in Nat \ {0},
         NEW p \in 0 .. N - 1, NEW q \in 0 .. N - 1, p # q
  PROVE  RowOfPair(flat, N, n, b, p) # RowOfPair(flat, N, n, b, q)
  <1>1. PICK rows : rows = Rows(flat, n, b)
    OBVIOUS
  <1>2. n \in Nat /\ flat[p] \in 0 .. n - 1 /\ flat[q] \in 0 .. n - 1
    BY DEF PairsTo
  <1>3. rows \in [0 .. n -> Nat] /\ \A e, g \in 0 .. n : e <= g => rows[e] <= rows[g]
    <2>1. Runs(flat, N, n, b)
      BY RunsAre
    <2> QED
      BY <1>1, <2>1 DEF Runs, Rows
  <1>4. ASSUME NEW u \in 0 .. N - 1, NEW v \in 0 .. N - 1, flat[u] < flat[v],
               flat[u] \in 0 .. n - 1, flat[v] \in 0 .. n - 1
        PROVE  RowOfPair(flat, N, n, b, u) < RowOfPair(flat, N, n, b, v)
    <2>1. /\ RowOfPair(flat, N, n, b, u) \in Nat /\ RowOfPair(flat, N, n, b, u) < rows[flat[u] + 1]
          /\ RowOfPair(flat, N, n, b, v) \in Nat /\ rows[flat[v]] <= RowOfPair(flat, N, n, b, v)
      BY <1>1, RowFits
    <2>2. flat[u] + 1 \in 0 .. n /\ flat[v] \in 0 .. n /\ flat[u] + 1 <= flat[v]
      BY <1>2, <1>4
    <2>3. rows[flat[u] + 1] <= rows[flat[v]] /\ rows[flat[u] + 1] \in Nat /\ rows[flat[v]] \in Nat
      BY <1>3, <2>2
    <2> QED
      BY <2>1, <2>3
  <1>5. CASE flat[p] = flat[q]
    <2>1. /\ TurnOfPair(flat, N, p) # TurnOfPair(flat, N, q)
          /\ TurnOfPair(flat, N, p) \in Nat /\ TurnOfPair(flat, N, q) \in Nat
      BY <1>5, TurnsDiffer, PairSets
    <2>2. flat[p] \in 0 .. n /\ rows[flat[p]] \in Nat
      BY <1>2, <1>3
    <2>3. /\ RowOfPair(flat, N, n, b, p) = rows[flat[p]] + TurnOfPair(flat, N, p)
          /\ RowOfPair(flat, N, n, b, q) = rows[flat[p]] + TurnOfPair(flat, N, q)
      BY <1>1, <1>5 DEF RowOfPair
    <2> QED
      BY <2>1, <2>2, <2>3
  <1>6. CASE flat[p] # flat[q]
    <2>1. flat[p] < flat[q] \/ flat[q] < flat[p]
      BY <1>2, <1>6
    <2>2. RowOfPair(flat, N, n, b, p) \in Nat /\ RowOfPair(flat, N, n, b, q) \in Nat
      BY RowFits
    <2> QED
      BY <1>2, <1>4, <2>1, <2>2
  <1> QED
    BY <1>5, <1>6

\* The block of a row is one of the blocks of its expert.
LEMMA BlockOfRow ==
  ASSUME NEW flat, NEW N, NEW n, PairsTo(flat, N, n), NEW b \in Nat \ {0}, NEW p \in 0 .. N - 1
  PROVE  LET d == RowOfPair(flat, N, n, b, p) \div b IN
         /\ d \in Nat
         /\ Repeated(Blocks(flat, n, b), n)[d] = flat[p]
  <1>1. PICK rows, blocks, e, row, d :
          /\ rows = Rows(flat, n, b) /\ blocks = Before(Blocks(flat, n, b), n)
          /\ e = flat[p] /\ row = RowOfPair(flat, N, n, b, p) /\ d = row \div b
    OBVIOUS
  <1>2. n \in Nat /\ e \in 0 .. n - 1 /\ e + 1 \in 0 .. n /\ e \in 0 .. n /\ n \in 0 .. n
    BY <1>1 DEF PairsTo
  <1>3. /\ blocks \in [0 .. n -> Nat]
        /\ \A g \in 0 .. n : rows[g] = b * blocks[g]
        /\ \A g, h \in 0 .. n : g <= h => blocks[g] <= blocks[h]
    <2>1. Runs(flat, N, n, b)
      BY RunsAre
    <2> QED
      BY <1>1, <2>1 DEF Runs, Rows
  <1>4. PICK x, y \in Nat : x = blocks[e] /\ y = blocks[e + 1]
    BY <1>2, <1>3
  <1>5. row \in Nat /\ b * x <= row /\ row < b * y
    <2>1. row \in Nat /\ rows[e] <= row /\ row < rows[e + 1]
      BY <1>1, RowFits
    <2>2. rows[e] = b * blocks[e] /\ rows[e + 1] = b * blocks[e + 1]
      BY <1>2, <1>3
    <2> QED
      BY <1>4, <2>1, <2>2
  <1>6. d \in Nat /\ b * d <= row /\ row < b * d + b
    BY <1>1, <1>5, Division
  <1>7. \A g, h \in Nat : g < h => b * g + b <= b * h
    <2> SUFFICES ASSUME NEW g \in Nat, NEW h \in Nat, g < h PROVE b * g + b <= b * h
      OBVIOUS
    <2>1. b * g + b = b * (g + 1) /\ g + 1 <= h
      OBVIOUS
    <2> QED
      BY <2>1
  <1>8. x <= d
    <2>1. d < x => b * d + b <= b * x
      BY <1>6, <1>7
    <2>2. b * d \in Nat /\ b * x \in Nat
      BY <1>6
    <2> QED
      BY <1>5, <1>6, <2>1, <2>2
  <1>9. d < y
    <2>1. y <= d => b * y <= b * d
      BY <1>6
    <2>2. b * d \in Nat /\ b * y \in Nat
      BY <1>6
    <2> QED
      BY <1>5, <1>6, <2>1, <2>2
  <1>10. d \in 0 .. blocks[n] - 1
    <2>1. y <= blocks[n] /\ blocks[n] \in Nat
      BY <1>2, <1>3, <1>4
    <2> QED
      BY <1>6, <1>9, <2>1
  <1>11. ASSUME NEW g \in 0 .. n - 1, blocks[g] <= d, d < blocks[g + 1]
         PROVE  g = e
    <2>1. g \in 0 .. n /\ g + 1 \in 0 .. n /\ blocks[g] \in Nat /\ blocks[g + 1] \in Nat
      BY <1>2, <1>3
    <2>2. ~(g < e)
      <3>1. g < e => blocks[g + 1] <= blocks[e]
        BY <1>2, <1>3, <2>1
      <3> QED
        BY <1>4, <1>6, <1>8, <1>11, <2>1, <3>1
    <2>3. ~(e < g)
      <3>1. e < g => blocks[e + 1] <= blocks[g]
        BY <1>2, <1>3, <2>1
      <3> QED
        BY <1>4, <1>6, <1>9, <1>11, <2>1, <3>1
    <2> QED
      BY <1>2, <2>2, <2>3
  <1>12. (CHOOSE g \in Experts(n) : blocks[g] <= d /\ d < blocks[g + 1]) = e
    BY <1>2, <1>4, <1>8, <1>9, <1>11 DEF Experts
  <1>13. Repeated(Blocks(flat, n, b), n)
           = [c \in 0 .. blocks[n] - 1 |-> CHOOSE g \in Experts(n) : blocks[g] <= c /\ c < blocks[g + 1]]
    BY <1>1 DEF Repeated
  <1>14. Repeated(Blocks(flat, n, b), n)[d] = e
    BY <1>10, <1>12, <1>13
  <1> QED
    BY <1>1, <1>6, <1>14

\* The pairs of a batch: T tokens of k slots.
Routes(routes, T, k, n) ==
  /\ T \in Nat \ {0} /\ k \in Nat \ {0} /\ n \in Nat \ {0}
  /\ T = Len(routes) /\ k = Len(routes[1])
  /\ routes \in [1 .. T -> [1 .. k -> Experts(n)]]

LEMMA FlatIs ==
  ASSUME NEW routes, NEW T, NEW k, NEW n, Routes(routes, T, k, n)
  PROVE  /\ PairsTo(Flat(routes), T * k, n)
         /\ \A p \in 0 .. T * k - 1 : p \in Nat /\ p \div k \in 0 .. T - 1
  <1>1. T \in Nat /\ k \in Nat /\ k > 0 /\ n \in Nat /\ T * k \in Nat /\ T * k = k * T
    BY DEF Routes
  <1>2. ASSUME NEW p \in 0 .. T * k - 1
        PROVE  p \in Nat /\ p \div k \in 0 .. T - 1 /\ p % k \in 0 .. k - 1
    <2>1. p \in Nat /\ p < k * T
      BY <1>1
    <2>2. p \div k \in Nat /\ p \div k < T
      BY <1>1, <2>1, QuotientBound
    <2>3. p % k \in Nat /\ p % k < k
      BY <1>1, <2>1, Division
    <2> QED
      BY <1>1, <2>1, <2>2, <2>3
  <1>3. ASSUME NEW p \in 0 .. T * k - 1
        PROVE  routes[p \div k + 1][(p % k) + 1] \in 0 .. n - 1
    <2>1. p \div k + 1 \in 1 .. T /\ (p % k) + 1 \in 1 .. k
      BY <1>1, <1>2
    <2>2. routes \in [1 .. T -> [1 .. k -> 0 .. n - 1]]
      BY DEF Routes, Experts
    <2> QED
      BY <2>1, <2>2
  <1>4. Flat(routes) = [p \in 0 .. T * k - 1 |-> routes[p \div k + 1][(p % k) + 1]]
    BY DEF Flat, Routes
  <1>5. Flat(routes) \in [0 .. T * k - 1 -> 0 .. n - 1]
    BY <1>3, <1>4
  <1> QED
    BY <1>1, <1>2, <1>5 DEF PairsTo

(* What the alignment promises: each pair has a row, of a block of its       *)
(* expert, each row a pair or the sentinel, and the grid covers the rows.    *)
AlignedTo(aligned, flat, N, n, b, row) ==
  /\ row \in [0 .. N - 1 -> Nat]
  /\ aligned.post_padded \in Nat /\ DOMAIN aligned.sorted_ids = 0 .. aligned.post_padded - 1
  /\ \A p \in 0 .. N - 1 : /\ row[p] < aligned.post_padded
                           /\ aligned.sorted_ids[row[p]] = p
                           /\ aligned.expert_ids[row[p] \div b] = flat[p]
  /\ \A r \in 0 .. aligned.post_padded - 1 :
       aligned.sorted_ids[r] # -1 => /\ aligned.sorted_ids[r] \in 0 .. N - 1
                                     /\ r = row[aligned.sorted_ids[r]]
  /\ aligned.post_padded <= GridM(N, b, n) * b

PairRows(flat, N, n, b) == [p \in 0 .. N - 1 |-> RowOfPair(flat, N, n, b, p)]

\* The row the code computes for a pair, from its place.
PosIs(flat, N, n, b, p) ==
  Before(Padded(flat, n, b), n)[flat[p]] + (Place(flat, p) - Before(Counts(flat, n), n)[flat[p]])

LEMMA PosIsRow ==
  ASSUME NEW flat, NEW N, NEW n, PairsTo(flat, N, n), NEW b \in Nat \ {0}, NEW p \in 0 .. N - 1
  PROVE  PosIs(flat, N, n, b, p) = RowOfPair(flat, N, n, b, p)
  <1>1. PICK before, c, t : before = Before(Counts(flat, n), n) /\ c = before[flat[p]] /\ t = TurnOfPair(flat, N, p)
    OBVIOUS
  <1>2. Place(flat, p) = c + t /\ t \in Nat
    BY <1>1, PlaceIs
  <1>3. c \in Nat
    <2>1. Cumulative(Counts(flat, n), n)
      BY CountsAre, BeforeIs DEF PairsTo
    <2>2. before \in [0 .. n -> Nat]
      BY <1>1, <2>1 DEF Cumulative
    <2> QED
      BY <1>1, <2>2 DEF PairsTo
  <1>4. (c + t) - c = t
    BY <1>2, <1>3
  <1> QED
    BY <1>1, <1>2, <1>4 DEF PosIs, RowOfPair, Rows

\* The record moe_align_block_size returns, over the named parts.
SortedIds(flat, N, n, b) ==
  [r \in 0 .. Rows(flat, n, b)[n] - 1 |->
     IF \E p \in 0 .. N - 1 : RowOfPair(flat, N, n, b, p) = r
       THEN CHOOSE p \in 0 .. N - 1 : RowOfPair(flat, N, n, b, p) = r ELSE -1]

LEMMA AlignIs ==
  ASSUME NEW routes, NEW T, NEW k, NEW n, Routes(routes, T, k, n), NEW b \in Nat \ {0}
  PROVE  LET flat == Flat(routes) IN
         Align(routes, b, n) = [sorted_ids  |-> SortedIds(flat, T * k, n, b),
                                expert_ids  |-> Repeated(Blocks(flat, n, b), n),
                                post_padded |-> Rows(flat, n, b)[n]]
  <1> DEFINE flat == Flat(routes)
             pos  == [p \in DOMAIN flat |-> PosIs(flat, T * k, n, b, p)]
  <1>1. PairsTo(flat, T * k, n) /\ DOMAIN flat = 0 .. T * k - 1
    BY FlatIs DEF PairsTo
  <1>2. Align(routes, b, n) =
          [sorted_ids  |-> [r \in 0 .. Rows(flat, n, b)[n] - 1 |->
                              IF \E p \in DOMAIN flat : pos[p] = r
                                THEN CHOOSE p \in DOMAIN flat : pos[p] = r ELSE -1],
           expert_ids  |-> Repeated(Blocks(flat, n, b), n),
           post_padded |-> Rows(flat, n, b)[n]]
    BY Zenon DEF Align, PosIs, Padded, Blocks, Rows
  <1> HIDE DEF flat
  <1>3. \A p \in DOMAIN flat : pos[p] = RowOfPair(flat, T * k, n, b, p)
    BY <1>1, PosIsRow
  <1> HIDE DEF pos
  <1>4. \A r : \A p : (p \in DOMAIN flat /\ pos[p] = r)
                        <=> (p \in 0 .. T * k - 1 /\ RowOfPair(flat, T * k, n, b, p) = r)
    BY <1>1, <1>3
  <1>5. \A r : /\ (\E p \in DOMAIN flat : pos[p] = r)
                    <=> (\E p \in 0 .. T * k - 1 : RowOfPair(flat, T * k, n, b, p) = r)
               /\ (CHOOSE p \in DOMAIN flat : pos[p] = r)
                    = CHOOSE p \in 0 .. T * k - 1 : RowOfPair(flat, T * k, n, b, p) = r
    BY <1>4
  <1>6. SortedIds(flat, T * k, n, b) =
          [r \in 0 .. Rows(flat, n, b)[n] - 1 |->
             IF \E p \in DOMAIN flat : pos[p] = r
               THEN CHOOSE p \in DOMAIN flat : pos[p] = r ELSE -1]
    BY <1>5 DEF SortedIds
  <1> QED
    BY <1>2, <1>6 DEF flat

\* The rows are no more than the grid has.
LEMMA GridCovers ==
  ASSUME NEW N \in Nat, NEW n \in Nat, NEW b \in Nat \ {0}, NEW r \in Nat, r <= N + n * (b - 1)
  PROVE  r <= GridM(N, b, n) * b
  <1>1. PICK c \in Nat : c = CeilDiv(N, b) /\ N <= c * b
    <2>1. PaddedTo(N, b) = CeilDiv(N, b) * b
      BY DEF PaddedTo
    <2> QED
      BY <2>1, RoundedUp
  <1>2. (c + n) * b = c * b + n * b /\ n * (b - 1) = n * b - n
    OBVIOUS
  <1>3. c * b \in Nat /\ n * b \in Nat
    OBVIOUS
  <1> QED
    BY <1>1, <1>2, <1>3 DEF GridM

LEMMA Alignment ==
  ASSUME NEW routes, NEW T, NEW k, NEW n, Routes(routes, T, k, n), NEW b \in Nat \ {0}
  PROVE  AlignedTo(Align(routes, b, n), Flat(routes), T * k, n, b, PairRows(Flat(routes), T * k, n, b))
  <1>1. PICK flat, N, row, aligned, top :
          /\ flat = Flat(routes) /\ N = T * k /\ row = PairRows(flat, N, n, b)
          /\ aligned = Align(routes, b, n) /\ top = Rows(flat, n, b)[n]
    OBVIOUS
  <1>2. PairsTo(flat, N, n)
    BY <1>1, FlatIs
  <1>3. /\ aligned.sorted_ids = SortedIds(flat, N, n, b)
        /\ aligned.expert_ids = Repeated(Blocks(flat, n, b), n)
        /\ aligned.post_padded = top
    BY <1>1, AlignIs
  <1>4. N \in Nat /\ n \in Nat /\ top \in Nat /\ top <= N + n * (b - 1)
    <2>1. RunBounds(flat, N, n, b, Rows(flat, n, b), Counts(flat, n))
      BY <1>2, RunBoundsAre
    <2>2. N \in Nat /\ n \in Nat /\ n \in 0 .. n
      BY <1>2 DEF PairsTo
    <2>3. Rows(flat, n, b)[n] \in Nat
      BY <2>1, <2>2 DEF RunBounds
    <2>4. Rows(flat, n, b)[n] <= N + n * (b - 1)
      BY <2>1 DEF RunBounds
    <2> QED
      BY <1>1, <2>2, <2>3, <2>4
  <1>5. ASSUME NEW p \in 0 .. N - 1
        PROVE  /\ row[p] = RowOfPair(flat, N, n, b, p) /\ row[p] \in Nat /\ row[p] < top
               /\ row[p] \in 0 .. top - 1
    <2>1. row[p] = RowOfPair(flat, N, n, b, p)
      BY <1>1 DEF PairRows
    <2>2. row[p] \in Nat /\ row[p] < top
      BY <1>1, <1>2, <2>1, RowFits
    <2> QED
      BY <1>4, <2>1, <2>2
  <1>6. row \in [0 .. N - 1 -> Nat]
    <2>1. row = [p \in 0 .. N - 1 |-> row[p]]
      BY <1>1 DEF PairRows
    <2> QED
      BY <1>5, <2>1
  <1>7. /\ DOMAIN aligned.sorted_ids = 0 .. top - 1
        /\ \A r \in 0 .. top - 1 :
             aligned.sorted_ids[r] = IF \E p \in 0 .. N - 1 : row[p] = r
                                       THEN CHOOSE p \in 0 .. N - 1 : row[p] = r ELSE -1
    <2>1. \A r : \A p : (p \in 0 .. N - 1 /\ row[p] = r)
                          <=> (p \in 0 .. N - 1 /\ RowOfPair(flat, N, n, b, p) = r)
      BY <1>5
    <2>2. \A r : /\ (\E p \in 0 .. N - 1 : row[p] = r)
                      <=> (\E p \in 0 .. N - 1 : RowOfPair(flat, N, n, b, p) = r)
                 /\ (CHOOSE p \in 0 .. N - 1 : row[p] = r)
                      = CHOOSE p \in 0 .. N - 1 : RowOfPair(flat, N, n, b, p) = r
      BY <2>1
    <2>3. aligned.sorted_ids = [r \in 0 .. top - 1 |->
             IF \E p \in 0 .. N - 1 : RowOfPair(flat, N, n, b, p) = r
               THEN CHOOSE p \in 0 .. N - 1 : RowOfPair(flat, N, n, b, p) = r ELSE -1]
      BY <1>1, <1>3, Zenon DEF SortedIds
    <2>4. ASSUME NEW r \in 0 .. top - 1
          PROVE  aligned.sorted_ids[r] = IF \E p \in 0 .. N - 1 : row[p] = r
                                           THEN CHOOSE p \in 0 .. N - 1 : row[p] = r ELSE -1
      <3>1. aligned.sorted_ids[r] =
              IF \E p \in 0 .. N - 1 : RowOfPair(flat, N, n, b, p) = r
                THEN CHOOSE p \in 0 .. N - 1 : RowOfPair(flat, N, n, b, p) = r ELSE -1
        BY <2>3, Zenon
      <3>2. CASE \E p \in 0 .. N - 1 : row[p] = r
        BY <2>2, <3>1, <3>2, Zenon
      <3>3. CASE ~ \E p \in 0 .. N - 1 : row[p] = r
        BY <2>2, <3>1, <3>3, Zenon
      <3> QED
        BY <3>2, <3>3
    <2>5. DOMAIN aligned.sorted_ids = 0 .. top - 1
      BY <2>3, Zenon
    <2> QED
      BY <2>4, <2>5, Zenon
  <1>8. ASSUME NEW p \in 0 .. N - 1
        PROVE  aligned.sorted_ids[row[p]] = p /\ aligned.expert_ids[row[p] \div b] = flat[p]
    <2>1. (CHOOSE q \in 0 .. N - 1 : row[q] = row[p]) = p
      <3>1. \A q \in 0 .. N - 1 : row[q] = row[p] => q = p
        BY <1>2, <1>5, RowsDiffer
      <3> QED
        BY <3>1
    <2>2. Repeated(Blocks(flat, n, b), n)[row[p] \div b] = flat[p]
      BY <1>2, <1>5, BlockOfRow
    <2> QED
      BY <1>3, <1>5, <1>7, <2>1, <2>2
  <1>9. ASSUME NEW r \in 0 .. top - 1, aligned.sorted_ids[r] # -1
        PROVE  aligned.sorted_ids[r] \in 0 .. N - 1 /\ r = row[aligned.sorted_ids[r]]
    <2>1. PICK p \in 0 .. N - 1 : row[p] = r
      BY <1>7, <1>9
    <2> QED
      BY <1>8, <2>1
  <1>10. top <= GridM(N, b, n) * b
    BY <1>4, GridCovers
  <1>11. AlignedTo(aligned, flat, N, n, b, row)
    BY <1>3, <1>4, <1>5, <1>6, <1>7, <1>8, <1>9, <1>10 DEF AlignedTo
  <1> QED
    BY <1>1, <1>11

-----------------------------------------------------------------------------
(* The two grouped GEMMs and the combine. *)

\* The blocks of columns, masked, are the columns.
LEMMA ColumnsAre ==
  ASSUME NEW dim \in Nat, ColumnBlock \in Nat \ {0}
  PROVE  Columns(dim) = 0 .. dim - 1
  <1>1. PICK w \in Nat : w = CeilDiv(dim, ColumnBlock) * ColumnBlock /\ dim <= w
    <2>1. PaddedTo(dim, ColumnBlock) = CeilDiv(dim, ColumnBlock) * ColumnBlock
      BY DEF PaddedTo
    <2> QED
      BY <2>1, RoundedUp
  <1>2. Columns(dim) = {c \in 0 .. w - 1 : c < dim}
    BY <1>1 DEF Columns
  <1> QED
    BY <1>1, <1>2

\* What a program of the grouped GEMM sums for a pair.
Dot(A, B, at, e, col, h_dim) == {<<A[<<at, h>>], <<B, e, col, h>>>> : h \in 0 .. h_dim - 1}

\* The row of a pair is in the grid, started and not a sentinel.
RowRuns(aligned, flat, N, n, b, row, p) ==
  /\ row[p] \in 0 .. GridM(N, b, n) * b - 1
  /\ aligned.post_padded > (row[p] \div b) * b
  /\ aligned.sorted_ids[row[p]] = p /\ p # -1
  /\ aligned.expert_ids[row[p] \div b] = flat[p]

LEMMA PairRow ==
  ASSUME NEW aligned, NEW flat, NEW N \in Nat, NEW n \in Nat, NEW b \in Nat \ {0}, NEW row,
         AlignedTo(aligned, flat, N, n, b, row), NEW p \in 0 .. N - 1
  PROVE  RowRuns(aligned, flat, N, n, b, row, p)
  <1>1. /\ row[p] \in Nat /\ row[p] < aligned.post_padded /\ aligned.post_padded \in Nat
        /\ aligned.sorted_ids[row[p]] = p
        /\ aligned.expert_ids[row[p] \div b] = flat[p]
        /\ aligned.post_padded <= GridM(N, b, n) * b
    BY DEF AlignedTo
  <1>2. PICK r, u \in Nat : r = row[p] /\ u = aligned.post_padded
    BY <1>1
  <1>3. PICK d \in Nat : d = r \div b /\ b * d <= r
    BY <1>2, Division
  <1>4. d * b = b * d /\ b * d \in Nat
    BY <1>3
  <1>5. GridM(N, b, n) * b \in Nat
    <2>1. CeilDiv(N, b) \in Nat
      BY RoundedUp
    <2>2. GridM(N, b, n) \in Nat
      BY <2>1 DEF GridM
    <2> QED
      BY <2>2
  <1>6. r \in 0 .. GridM(N, b, n) * b - 1
    BY <1>1, <1>2, <1>5
  <1>7. u > (r \div b) * b
    BY <1>1, <1>2, <1>3, <1>4
  <1> QED
    BY <1>1, <1>2, <1>6, <1>7 DEF RowRuns

\* The entry of a pair.
EntryIs(aligned, flat, N, n, b, row, p, A, B, k, h_dim, n_dim, gather, weigh, col) ==
  LET C   == GroupedGemm(A, B, aligned, k, GridM(N, b, n), b, h_dim, n_dim, gather, weigh)
      dot == Dot(A, B, IF gather THEN p \div k ELSE row[p], flat[p], col, h_dim)
  IN C[<<row[p], col>>] = IF weigh THEN <<dot, "times weight of", p>> ELSE dot

LEMMA GemmAt ==
  ASSUME NEW aligned, NEW flat, NEW N \in Nat, NEW n \in Nat, NEW b \in Nat \ {0}, NEW row,
         AlignedTo(aligned, flat, N, n, b, row), NEW p \in 0 .. N - 1,
         NEW A, NEW B, NEW k, NEW h_dim \in Nat, NEW n_dim \in Nat, NEW gather, NEW weigh,
         NEW col \in 0 .. n_dim - 1, ColumnBlock \in Nat \ {0}
  PROVE  EntryIs(aligned, flat, N, n, b, row, p, A, B, k, h_dim, n_dim, gather, weigh, col)
  <1>1. /\ row[p] \in 0 .. GridM(N, b, n) * b - 1
        /\ aligned.post_padded > (row[p] \div b) * b
        /\ aligned.sorted_ids[row[p]] = p /\ p # -1
        /\ aligned.expert_ids[row[p] \div b] = flat[p]
    <2>1. RowRuns(aligned, flat, N, n, b, row, p)
      BY PairRow
    <2> QED
      BY <2>1 DEF RowRuns
  <1>2. Columns(n_dim) = 0 .. n_dim - 1 /\ Columns(h_dim) = 0 .. h_dim - 1
    BY ColumnsAre
  <1>3. PICK r, x, o, grid : r = row[p] /\ x = row[p] \div b /\ o = (row[p] \div b) * b /\ grid = GridM(N, b, n)
    OBVIOUS
  <1> DEFINE started(s) == aligned.post_padded > (s \div b) * b
             pair(s)    == aligned.sorted_ids[s]
             expert(s)  == aligned.expert_ids[s \div b]
             a_row(s)   == IF gather THEN pair(s) \div k ELSE s
             dots(s, c) == {<<A[<<a_row(s), h>>], <<B, expert(s), c, h>>>> : h \in Columns(h_dim)}
             value(at)  == IF ~started(at[1]) \/ pair(at[1]) = -1 \/ at[2] \notin Columns(n_dim) THEN <<>>
                           ELSE IF weigh THEN <<dots(at[1], at[2]), "times weight of", pair(at[1])>>
                           ELSE dots(at[1], at[2])
  <1>4. GroupedGemm(A, B, aligned, k, grid, b, h_dim, n_dim, gather, weigh)
          = [at \in (0 .. grid * b - 1) \X (0 .. n_dim - 1) |-> value(at)]
    BY Zenon DEF GroupedGemm
  <1>5. <<r, col>> \in (0 .. grid * b - 1) \X (0 .. n_dim - 1) /\ <<r, col>>[1] = r /\ <<r, col>>[2] = col
    BY <1>1, <1>3
  <1>6. started(r) /\ pair(r) = p /\ expert(r) = flat[p] /\ pair(r) # -1 /\ col \in Columns(n_dim)
    BY <1>1, <1>2, <1>3
  <1>7. a_row(r) = IF gather THEN p \div k ELSE r
    BY <1>6
  <1>8. dots(r, col) = Dot(A, B, IF gather THEN p \div k ELSE r, flat[p], col, h_dim)
    BY <1>2, <1>6, <1>7, Zenon DEF Dot
  <1> HIDE DEF started, pair, expert, a_row, dots
  <1>9. value(<<r, col>>) = IF weigh THEN <<dots(r, col), "times weight of", p>> ELSE dots(r, col)
    BY <1>5, <1>6, Zenon
  <1> HIDE DEF value
  <1>10. GroupedGemm(A, B, aligned, k, grid, b, h_dim, n_dim, gather, weigh)[<<r, col>>] = value(<<r, col>>)
    BY <1>4, <1>5, Zenon
  <1> QED
    BY <1>3, <1>8, <1>9, <1>10, Zenon DEF EntryIs

\* Where the values added are different, each is added once.
LEMMA AddedOnce ==
  ASSUME NEW f, \A x, y \in DOMAIN f : f[x] = f[y] => x = y
  PROVE  Added(f) = [v \in {f[x] : x \in DOMAIN f} |-> 1]
  <1>1. ASSUME NEW v \in {f[x] : x \in DOMAIN f}
        PROVE  Cardinality({x \in DOMAIN f : f[x] = v}) = 1
    <2>1. PICK y \in DOMAIN f : v = f[y]
      BY <1>1
    <2>2. {x \in DOMAIN f : f[x] = v} = {y}
      BY <2>1
    <2> QED
      BY <2>2, FS_Singleton
  <1> QED
    BY <1>1 DEF Added

\* What the reference sums for a pair, its hidden row first.
Activated(t, e, row) == {<<<<"hidden", <<t, x>>>>, <<"w13", e, row, x>>>> : x \in 0 .. HDim - 1}
Output(t, e, col) ==
  {<<<<Activated(t, e, i), Activated(t, e, i + IDim)>>, <<"w2", e, col, i>>>> : i \in 0 .. IDim - 1}
Weighed(t, e, col, p) == <<Output(t, e, col), "times weight of", p>>

PairsOf(N, k, t) == {p \in 0 .. N - 1 : p \div k = t}

\* The two grouped GEMMs of a batch.
FirstGemm(routes, T, k, n, b) ==
  GroupedGemm(Hidden(T), "w13", Align(routes, b, n), k, GridM(T * k, b, n), b, HDim, 2 * IDim, TRUE, FALSE)
SecondGemm(routes, T, k, n, b) ==
  GroupedGemm(SiluAndMul(FirstGemm(routes, T, k, n, b)), "w2", Align(routes, b, n), k,
              GridM(T * k, b, n), b, IDim, HDim, FALSE, TRUE)

FirstDomainIs(routes, T, k, n, b) ==
  DOMAIN FirstGemm(routes, T, k, n, b) = (0 .. GridM(T * k, b, n) * b - 1) \X (0 .. 2 * IDim - 1)

LEMMA FirstDomain ==
  ASSUME NEW routes, NEW T, NEW k, NEW n, NEW b
  PROVE  FirstDomainIs(routes, T, k, n, b)
  <1>1. PICK grid, dim : grid = GridM(T * k, b, n) /\ dim = 2 * IDim
    OBVIOUS
  <1>2. DOMAIN GroupedGemm(Hidden(T), "w13", Align(routes, b, n), k, grid, b, HDim, dim, TRUE, FALSE)
          = (0 .. grid * b - 1) \X (0 .. dim - 1)
    BY Zenon DEF GroupedGemm
  <1> QED
    BY <1>1, <1>2, Zenon DEF FirstGemm, FirstDomainIs

LEMMA FirstAt ==
  ASSUME NEW routes, NEW T, NEW k, NEW n, Routes(routes, T, k, n), NEW b \in Nat \ {0},
         NEW p \in 0 .. T * k - 1, HDim \in Nat, IDim \in Nat, ColumnBlock \in Nat \ {0},
         NEW col \in 0 .. 2 * IDim - 1
  PROVE  FirstGemm(routes, T, k, n, b)[<<PairRows(Flat(routes), T * k, n, b)[p], col>>]
           = Activated(p \div k, Flat(routes)[p], col)
  <1>1. PICK flat, N, row, aligned, dim :
          /\ flat = Flat(routes) /\ N = T * k /\ row = PairRows(flat, N, n, b)
          /\ aligned = Align(routes, b, n) /\ dim = 2 * IDim
    OBVIOUS
  <1>2. N \in Nat /\ n \in Nat /\ dim \in Nat /\ col \in 0 .. dim - 1 /\ p \in 0 .. N - 1
    BY <1>1 DEF Routes
  <1>3. AlignedTo(aligned, flat, N, n, b, row)
    BY <1>1, Alignment
  <1>4. GroupedGemm(Hidden(T), "w13", aligned, k, GridM(N, b, n), b, HDim, dim, TRUE, FALSE)[<<row[p], col>>]
          = Dot(Hidden(T), "w13", p \div k, flat[p], col, HDim)
    <2>1. EntryIs(aligned, flat, N, n, b, row, p, Hidden(T), "w13", k, HDim, dim, TRUE, FALSE, col)
      BY <1>2, <1>3, GemmAt
    <2> QED
      BY <2>1, Zenon DEF EntryIs
  <1>5. \A h \in 0 .. HDim - 1 : Hidden(T)[<<p \div k, h>>] = <<"hidden", <<p \div k, h>>>>
    <2>1. p \div k \in 0 .. T - 1
      BY FlatIs
    <2> QED
      BY <2>1 DEF Hidden
  <1>6. Dot(Hidden(T), "w13", p \div k, flat[p], col, HDim) = Activated(p \div k, flat[p], col)
    BY <1>5, Zenon DEF Dot, Activated
  <1> QED
    BY <1>1, <1>4, <1>6, Zenon DEF FirstGemm

LEMMA SecondAt ==
  ASSUME NEW routes, NEW T, NEW k, NEW n, Routes(routes, T, k, n), NEW b \in Nat \ {0},
         NEW p \in 0 .. T * k - 1, HDim \in Nat, IDim \in Nat, ColumnBlock \in Nat \ {0},
         NEW col \in 0 .. HDim - 1
  PROVE  SecondGemm(routes, T, k, n, b)[<<PairRows(Flat(routes), T * k, n, b)[p], col>>]
           = Weighed(p \div k, Flat(routes)[p], col, p)
  <1>1. PICK flat, N, row, aligned, c1, act :
          /\ flat = Flat(routes) /\ N = T * k /\ row = PairRows(flat, N, n, b)
          /\ aligned = Align(routes, b, n) /\ c1 = FirstGemm(routes, T, k, n, b) /\ act = SiluAndMul(c1)
    OBVIOUS
  <1>2. N \in Nat /\ n \in Nat /\ p \in 0 .. N - 1
    BY <1>1 DEF Routes
  <1>3. AlignedTo(aligned, flat, N, n, b, row)
    BY <1>1, Alignment
  <1>4. GroupedGemm(act, "w2", aligned, k, GridM(N, b, n), b, IDim, HDim, FALSE, TRUE)[<<row[p], col>>]
          = <<Dot(act, "w2", row[p], flat[p], col, IDim), "times weight of", p>>
    <2>1. EntryIs(aligned, flat, N, n, b, row, p, act, "w2", k, IDim, HDim, FALSE, TRUE, col)
      BY <1>2, <1>3, GemmAt
    <2> QED
      BY <2>1, Zenon DEF EntryIs
  <1>5. ASSUME NEW i \in 0 .. IDim - 1
        PROVE  act[<<row[p], i>>] = <<Activated(p \div k, flat[p], i), Activated(p \div k, flat[p], i + IDim)>>
    <2>1. i \in 0 .. 2 * IDim - 1 /\ i + IDim \in 0 .. 2 * IDim - 1 /\ i < IDim
      OBVIOUS
    <2>2. row[p] \in 0 .. GridM(N, b, n) * b - 1
      <3>1. RowRuns(aligned, flat, N, n, b, row, p)
        BY <1>2, <1>3, PairRow
      <3> QED
        BY <3>1 DEF RowRuns
    <2>3. <<row[p], i>> \in DOMAIN c1
      <3>1. DOMAIN c1 = (0 .. GridM(N, b, n) * b - 1) \X (0 .. 2 * IDim - 1)
        <4>1. DOMAIN FirstGemm(routes, T, k, n, b) = (0 .. GridM(T * k, b, n) * b - 1) \X (0 .. 2 * IDim - 1)
          <5>1. FirstDomainIs(routes, T, k, n, b)
            BY FirstDomain, Zenon
          <5> QED
            BY <5>1, Zenon DEF FirstDomainIs
        <4>2. c1 = FirstGemm(routes, T, k, n, b) /\ T * k = N
          BY <1>1
        <4> QED
          BY <4>1, <4>2, Zenon
      <3> QED
        BY <2>1, <2>2, <3>1
    <2>4. act[<<row[p], i>>] = <<c1[<<row[p], i>>], c1[<<row[p], i + IDim>>]>>
      BY <1>1, <2>1, <2>3 DEF SiluAndMul
    <2>5. /\ c1[<<row[p], i>>] = Activated(p \div k, flat[p], i)
          /\ c1[<<row[p], i + IDim>>] = Activated(p \div k, flat[p], i + IDim)
      BY <1>1, <2>1, FirstAt
    <2> QED
      BY <2>4, <2>5
  <1>6. Dot(act, "w2", row[p], flat[p], col, IDim) = Output(p \div k, flat[p], col)
    BY <1>5, Zenon DEF Dot, Output
  <1> QED
    BY <1>1, <1>4, <1>6, Zenon DEF SecondGemm, Weighed

\* The combine of a token adds its pairs, each once.
PairsAdded(routes, T, k, t, col) ==
  [v \in {Weighed(t, Flat(routes)[p], col, p) : p \in PairsOf(T * k, k, t)} |-> 1]
CombinesPairs(routes, T, k, n, b, t, col) ==
  Combine(SecondGemm(routes, T, k, n, b), Align(routes, b, n), k, t, col) = PairsAdded(routes, T, k, t, col)

LEMMA Combined ==
  ASSUME NEW routes, NEW T, NEW k, NEW n, Routes(routes, T, k, n), NEW b \in Nat \ {0},
         HDim \in Nat, IDim \in Nat, ColumnBlock \in Nat \ {0}, NEW t, NEW col \in 0 .. HDim - 1
  PROVE  CombinesPairs(routes, T, k, n, b, t, col)
  <1>1. PICK flat, N, row, aligned, c2 :
          /\ flat = Flat(routes) /\ N = T * k /\ row = PairRows(flat, N, n, b)
          /\ aligned = Align(routes, b, n) /\ c2 = SecondGemm(routes, T, k, n, b)
    OBVIOUS
  <1>2. AlignedTo(aligned, flat, N, n, b, row)
    BY <1>1, Alignment
  <1> DEFINE rows == {r \in DOMAIN aligned.sorted_ids :
                        aligned.sorted_ids[r] >= 0 /\ aligned.sorted_ids[r] \div k = t}
             f    == [r \in rows |-> c2[<<r, col>>]]
  <1>3. ASSUME NEW r \in rows
        PROVE  /\ aligned.sorted_ids[r] \in PairsOf(N, k, t) /\ r = row[aligned.sorted_ids[r]]
    <2>1. r \in 0 .. aligned.post_padded - 1
      BY <1>2 DEF AlignedTo
    <2>2. aligned.sorted_ids[r] # -1
      OBVIOUS
    <2>3. aligned.sorted_ids[r] \in 0 .. N - 1 /\ r = row[aligned.sorted_ids[r]]
      BY <1>2, <2>1, <2>2 DEF AlignedTo
    <2> QED
      BY <2>3 DEF PairsOf
  <1>4. ASSUME NEW p \in PairsOf(N, k, t)
        PROVE  row[p] \in rows /\ aligned.sorted_ids[row[p]] = p /\ p \in 0 .. N - 1 /\ p \div k = t
    <2>1. p \in 0 .. N - 1 /\ p \div k = t
      BY DEF PairsOf
    <2>2. /\ row[p] \in Nat /\ row[p] < aligned.post_padded /\ aligned.post_padded \in Nat
          /\ DOMAIN aligned.sorted_ids = 0 .. aligned.post_padded - 1
          /\ aligned.sorted_ids[row[p]] = p
      BY <1>2, <2>1 DEF AlignedTo
    <2>3. row[p] \in DOMAIN aligned.sorted_ids
      BY <2>2
    <2>4. p >= 0
      BY <2>1
    <2> QED
      BY <2>1, <2>2, <2>3, <2>4
  <1>5. ASSUME NEW p \in PairsOf(N, k, t)
        PROVE  f[row[p]] = Weighed(t, flat[p], col, p)
    <2>1. c2[<<row[p], col>>] = Weighed(p \div k, flat[p], col, p)
      BY <1>1, <1>4, SecondAt
    <2> QED
      BY <1>4, <2>1
  <1> HIDE DEF rows
  <1>6. DOMAIN f = rows
    OBVIOUS
  <1> HIDE DEF f
  <1>7. ASSUME NEW r \in rows, NEW s \in rows, f[r] = f[s]
        PROVE  r = s
    <2>1. PICK p, q \in PairsOf(N, k, t) : r = row[p] /\ s = row[q]
      BY <1>3
    <2>2. Weighed(t, flat[p], col, p) = Weighed(t, flat[q], col, q)
      BY <1>5, <1>7, <2>1
    <2>3. p = q
      BY <2>2 DEF Weighed
    <2> QED
      BY <2>1, <2>3
  <1>8. Added(f) = [v \in {f[x] : x \in DOMAIN f} |-> 1]
    BY <1>6, <1>7, AddedOnce
  <1>9. {f[x] : x \in DOMAIN f} = {Weighed(t, flat[p], col, p) : p \in PairsOf(N, k, t)}
    <2>1. \A x \in rows : f[x] \in {Weighed(t, flat[p], col, p) : p \in PairsOf(N, k, t)}
      <3> SUFFICES ASSUME NEW x \in rows
                   PROVE  \E p \in PairsOf(N, k, t) : f[x] = Weighed(t, flat[p], col, p)
        OBVIOUS
      <3>1. PICK p \in PairsOf(N, k, t) : x = row[p]
        BY <1>3
      <3> QED
        BY <1>5, <3>1
    <2>2. \A p \in PairsOf(N, k, t) : \E x \in rows : f[x] = Weighed(t, flat[p], col, p)
      BY <1>4, <1>5
    <2> QED
      BY <1>6, <2>1, <2>2
  <1>10. Combine(c2, aligned, k, t, col) = Added(f)
    BY Zenon DEF Combine, f, rows
  <1> QED
    BY <1>1, <1>8, <1>9, <1>10, Zenon DEF CombinesPairs, PairsAdded

\* So does the reference.
Selected(flat, n, k, t) == {s \in Experts(n) \X DOMAIN flat : flat[s[2]] = s[1] /\ s[2] \div k = t}

AddsPairs(flat, N, n, k, t, col) ==
  Added([s \in Selected(flat, n, k, t) |-> Weighed(t, s[1], col, s[2])])
    = [v \in {Weighed(t, flat[p], col, p) : p \in PairsOf(N, k, t)} |-> 1]

LEMMA Referred ==
  ASSUME NEW flat, NEW N, NEW n, PairsTo(flat, N, n), NEW k, NEW t, NEW col
  PROVE  AddsPairs(flat, N, n, k, t, col)
  <1> DEFINE sel == Selected(flat, n, k, t)
             f   == [s \in sel |-> Weighed(t, s[1], col, s[2])]
  <1>1. DOMAIN flat = 0 .. N - 1 /\ \A p \in 0 .. N - 1 : flat[p] \in Experts(n)
    BY DEF PairsTo, Experts
  <1>2. ASSUME NEW s \in sel
        PROVE  s = <<flat[s[2]], s[2]>> /\ s[2] \in PairsOf(N, k, t) /\ s[1] = flat[s[2]]
    BY <1>1 DEF Selected, PairsOf
  <1>3. ASSUME NEW p \in PairsOf(N, k, t)
        PROVE  <<flat[p], p>> \in sel
    BY <1>1 DEF Selected, PairsOf
  <1> HIDE DEF sel
  <1>4. DOMAIN f = sel /\ \A s \in sel : f[s] = Weighed(t, flat[s[2]], col, s[2])
    BY <1>2
  <1>5. \A p \in PairsOf(N, k, t) : f[<<flat[p], p>>] = Weighed(t, flat[p], col, p)
    BY <1>3
  <1> HIDE DEF f
  <1>6. ASSUME NEW r \in sel, NEW s \in sel, f[r] = f[s]
        PROVE  r = s
    <2>1. Weighed(t, flat[r[2]], col, r[2]) = Weighed(t, flat[s[2]], col, s[2])
      BY <1>4, <1>6
    <2>2. r[2] = s[2]
      BY <2>1 DEF Weighed
    <2> QED
      BY <1>2, <2>2
  <1>7. Added(f) = [v \in {f[x] : x \in DOMAIN f} |-> 1]
    <2>1. \A x, y \in DOMAIN f : f[x] = f[y] => x = y
      BY <1>4, <1>6
    <2> QED
      BY <2>1, AddedOnce, Zenon
  <1>8. {f[x] : x \in DOMAIN f} = {Weighed(t, flat[p], col, p) : p \in PairsOf(N, k, t)}
    <2>1. \A x \in sel : \E p \in PairsOf(N, k, t) : f[x] = Weighed(t, flat[p], col, p)
      BY <1>2, <1>4
    <2>2. \A p \in PairsOf(N, k, t) : \E x \in sel : f[x] = Weighed(t, flat[p], col, p)
      BY <1>3, <1>5
    <2> QED
      BY <1>4, <2>1, <2>2
  <1> QED
    BY <1>7, <1>8, Zenon DEF f, sel, AddsPairs

LEMMA MlpIs ==
  ASSUME NEW routes, NEW T, NEW k, NEW n, Routes(routes, T, k, n), NEW b \in Nat \ {0},
         HDim \in Nat, IDim \in Nat, ColumnBlock \in Nat \ {0}
  PROVE  ExpertMlp(routes, b, n) = ExpertMlpReference(routes, n)
  <1>1. T = Len(routes) /\ k = Len(routes[1]) /\ PairsTo(Flat(routes), T * k, n)
    BY FlatIs DEF Routes
  <1>2. ExpertMlp(routes, b, n)
          = [at \in (0 .. T - 1) \X (0 .. HDim - 1) |->
               Combine(SecondGemm(routes, T, k, n, b), Align(routes, b, n), k, at[1], at[2])]
    BY <1>1, Zenon DEF ExpertMlp, SecondGemm, FirstGemm
  <1>3. ExpertMlpReference(routes, n)
          = [at \in (0 .. T - 1) \X (0 .. HDim - 1) |->
               Added([s \in Selected(Flat(routes), n, k, at[1]) |-> Weighed(at[1], s[1], at[2], s[2])])]
    BY <1>1, Zenon DEF ExpertMlpReference, Selected, Weighed, Output, Activated
  <1>4. ASSUME NEW at \in (0 .. T - 1) \X (0 .. HDim - 1)
        PROVE  Combine(SecondGemm(routes, T, k, n, b), Align(routes, b, n), k, at[1], at[2])
                 = Added([s \in Selected(Flat(routes), n, k, at[1]) |-> Weighed(at[1], s[1], at[2], s[2])])
    <2>1. PICK t, col : t = at[1] /\ col = at[2] /\ col \in 0 .. HDim - 1
      OBVIOUS
    <2>2. Combine(SecondGemm(routes, T, k, n, b), Align(routes, b, n), k, t, col)
            = PairsAdded(routes, T, k, t, col)
      <3>1. CombinesPairs(routes, T, k, n, b, t, col)
        BY <2>1, Combined
      <3> QED
        BY <3>1 DEF CombinesPairs
    <2>3. Added([s \in Selected(Flat(routes), n, k, t) |-> Weighed(t, s[1], col, s[2])])
            = PairsAdded(routes, T, k, t, col)
      <3>1. AddsPairs(Flat(routes), T * k, n, k, t, col)
        BY <1>1, Referred
      <3> QED
        BY <3>1, Zenon DEF AddsPairs, PairsAdded
    <2> QED
      BY <2>1, <2>2, <2>3, Zenon
  <1> QED
    BY <1>2, <1>3, <1>4, Zenon

(***************************************************************************)
(* moe_expert_mlp_triton adds to each token what the reference adds: every *)
(* (token, slot) pair once, through its own expert, and nothing of a       *)
(* sentinel row or of a block past num_tokens_post_padded.                 *)
(***************************************************************************)
THEOREM ExpertsApplied == LaunchSpec => []ExpertsAreApplied
  <1>1. launch \in Launches => ExpertsAreApplied
    <2> SUFFICES ASSUME launch \in Launches, launch.kind = "experts"
                 PROVE  ExpertMlp(launch.in.routes, launch.in.block_m, launch.in.experts)
                          = ExpertMlpReference(launch.in.routes, launch.in.experts)
      BY DEF ExpertsAreApplied, For
    <2>1. launch.in \in Batches
      BY LaunchInputs
    <2>2. PICK routes, b, n, T, k :
            /\ routes = launch.in.routes /\ b = launch.in.block_m /\ n = launch.in.experts
            /\ T = Len(routes) /\ k = Len(routes[1])
      OBVIOUS
    <2>3. /\ b \in Nat \ {0} /\ n \in Nat \ {0} /\ T \in Nat \ {0} /\ k \in Nat \ {0}
          /\ routes \in [1 .. T -> [1 .. k -> Experts(n)]]
          /\ HDim \in Nat /\ IDim \in Nat /\ ColumnBlock \in Nat \ {0}
      BY <2>1, <2>2, KernelsAssumption
    <2>4. Routes(routes, T, k, n)
      BY <2>2, <2>3 DEF Routes
    <2>5. ExpertMlp(routes, b, n) = ExpertMlpReference(routes, n)
      BY <2>3, <2>4, MlpIs
    <2> QED
      BY <2>2, <2>5
  <1> QED
    BY <1>1, LaunchStays, PTL
=============================================================================
