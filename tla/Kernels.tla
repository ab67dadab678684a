------------------------------- MODULE Kernels -------------------------------
(***************************************************************************)
(* The kernels, one launch at a time: a CTA of the attention kernel, which *)
(* runs (FlashAttention), or one of the computations of OnlineSoftmax, MoE *)
(* and W4A16 on one input.  The properties of a computation compare what   *)
(* the code does with what it is a faster way to do.                       *)
(***************************************************************************)
EXTENDS FlashAttention, OnlineSoftmax, MoE, W4A16

CONSTANTS
  ScoreRows,   \* rows of scores, tile by tile: tiles[t][lane][column]
  Fragments,   \* <<m, n>>: the atoms of an accumulator (mma_m, mma_n)
  Logits,      \* [scores, bias, k, renorm]: the routing of a token
  Batches,     \* [routes, block_m, experts]: the experts of each token
  Matrices     \* [w, k, n, group_size]: weights [K, N]

\* An accumulator has atoms; a token goes to at most as many experts as there
\* are; weights have the shapes _require_pack_shapes lets pass.
ASSUME KernelsAssumption ==
  /\ Fragments \subseteq (Nat \ {0}) \X (Nat \ {0})
  /\ \A t \in Logits :
       LET n == Cardinality(DOMAIN t.scores) IN
       /\ n \in Nat /\ t.scores \in [0 .. n - 1 -> Nat] /\ t.k \in 0 .. n
       /\ t.bias # <<>> => /\ t.bias \in [0 .. n - 1 -> Int]
                          /\ \A e \in 0 .. n - 1 : t.scores[e] + t.bias[e] > MinusInf
  /\ \A b \in Batches :
       /\ b.block_m \in Nat \ {0} /\ b.experts \in Nat \ {0}
       /\ Len(b.routes) \in Nat \ {0} /\ Len(b.routes[1]) \in Nat \ {0}
       /\ b.routes \in [1 .. Len(b.routes) -> [1 .. Len(b.routes[1]) -> Experts(b.experts)]]
  /\ HDim \in Nat /\ IDim \in Nat /\ ColumnBlock \in Nat \ {0}
  /\ \A b \in Matrices :
       /\ b.k \in Nat \ {0} /\ b.n \in Nat \ {0} /\ b.group_size \in Nat \ {0}
       /\ b.k % TileK = 0 /\ b.n % PermN = 0
       /\ b.group_size % TileK = 0 /\ b.k % b.group_size = 0
       /\ b.w \in [(0 .. b.k - 1) \X (0 .. b.n - 1) -> Int]

VARIABLES
  launch    \* [kind, in]: what the GPU was given to do

Launch(kind, inputs) == {[kind |-> kind, in |-> in] : in \in inputs}

Computations ==
  Launch("softmax", ScoreRows) \cup Launch("fragment", Fragments) \cup Launch("routing", Logits)
  \cup Launch("experts", Batches) \cup Launch("weights", Matrices)
  \cup Launch("dequant", Thread \X (0 .. 3) \X {0, 1} \X (0 .. 3))

LaunchInit ==
  \/ Init /\ launch \in Launch("attention", {<<>>})
  \/ Start([tile |-> 0, start |-> 0, stages |-> 1], "done") /\ launch \in Computations

LaunchNext == Next /\ UNCHANGED launch

LaunchSpec == LaunchInit /\ [][LaunchNext]_<<vars, launch>> /\ Fairness

For(kind, P(_)) == launch.kind = kind => P(launch.in)

-----------------------------------------------------------------------------
(***************************************************************************)
(* Every lane of a group ends with the softmax of the whole row: its       *)
(* maximum, its sum and the weight of each key, the keys of other lanes    *)
(* and of earlier tiles included, and also when whole tiles are masked     *)
(* with NEG_INF, which is finite, before the first live score arrives.     *)
(***************************************************************************)
SoftmaxIsDirect ==
  For("softmax", LAMBDA tiles :
    LET row     == OnlineSoftmax(tiles)
        weights == DirectWeights(tiles)
    IN \A lane \in DOMAIN tiles[1] :
         /\ row.m[lane] = DirectMax(tiles)
         /\ row.l[lane] = FoldFunction(+, 0, weights)
         /\ row.O[lane] = weights)

(***************************************************************************)
(* The row-by-column view of the accumulator: a local row of a lane is one *)
(* row of the tile and a local column one column, no register is viewed    *)
(* twice, and when the first of threads_per_row lanes writes its rows of m *)
(* and l every row is written exactly once.  The one-atom kernel, which    *)
(* names its registers, means the same rows.                               *)
(***************************************************************************)
RowViewIsWhole(atoms) ==
  LET m    == atoms[1]
      rows == 0 .. NumRows(m) - 1
      cols == 0 .. NumCols(atoms[2]) - 1
  IN /\ {RowCol(r, c, m) : r \in rows, c \in cols} = 0 .. 4 * m * atoms[2] - 1
     /\ \A lane \in Lane :
          LET at == Coordinates(lane, m, atoms[2]) IN
          /\ \A r \in rows, c \in cols :
               /\ at[RowCol(r, c, m)][1] = at[RowCol(r, 0, m)][1]
               /\ at[RowCol(r, c, m)][2] = at[RowCol(0, c, m)][2]
          /\ m = 1 => /\ \A q \in LowerRegisters : at[q][1] = LowerRow(lane)
                      /\ \A q \in UpperRegisters : at[q][1] = UpperRow(lane)
     /\ \A row \in 0 .. 16 * m - 1 : Cardinality(Writers(row, m, atoms[2])) = 1

\* The registers that hold the probabilities of a lane, as the A operand.
FeedsTheNextMma(atoms) ==
  \A lane \in Lane, v0, v1, half \in {0, 1}, mm \in 0 .. atoms[1] - 1 :
    \A k \in 0 .. atoms[2] \div 2 - 1 :
      Coordinates(lane, atoms[1], atoms[2])[FragmentA(v0, v1, half, mm, k, atoms[1], atoms[2])]
        = OperandA(lane, v0, v1, half, mm, k)

(***************************************************************************)
(* The views of an accumulator move no data between lanes: each is of the  *)
(* lane's own elements, by rows for the softmax and as the operand of the  *)
(* product with V.                                                         *)
(***************************************************************************)
RegisterViewsAgree ==
  For("fragment", LAMBDA atoms : RowViewIsWhole(atoms) /\ FeedsTheNextMma(atoms))

(***************************************************************************)
(* The rounds of argmax select the experts of the reference, in its order, *)
(* with the unbiased score as weight: no lane past the last expert, and no *)
(* expert twice, whatever the sign of the bias and the ties; the slots     *)
(* past the k-th add nothing to the sum that renormalises the weights.     *)
(***************************************************************************)
RoutingIsTopK ==
  For("routing", LAMBDA t : TopK(t.scores, t.bias, t.k, t.renorm)
                              = TopKReference(t.scores, t.bias, t.k, t.renorm))

(***************************************************************************)
(* The aligned, padded and over-provisioned grid computes the expert MLP   *)
(* of the reference: every (token, slot) pair through its own expert with  *)
(* its own weight, experts without tokens, sentinel rows and rows past     *)
(* num_tokens_post_padded never reaching the output.                       *)
(***************************************************************************)
ExpertsAreApplied ==
  For("experts", LAMBDA b :
    ExpertMlp(b.routes, b.block_m, b.experts) = ExpertMlpReference(b.routes, b.experts))

(***************************************************************************)
(* What unpacking finds for a weight is the nearest of the sixteen levels, *)
(* with the scale of its own group: nothing is lost in the tiles, in the   *)
(* permutation and in the sign of the int32 word, and the largest positive *)
(* weight of a group saturates.                                            *)
(***************************************************************************)
UnpackedIsNearest ==
  For("weights", LAMBDA b :
    LET q == Quantize(b.w, b.k, b.n, b.group_size) IN
    /\ UnpackW4A16(PackW4A16(q, b.k, b.n), b.k, b.n) = q
    /\ \A at \in DOMAIN b.w :
         LET amax     == Amax(b.w, b.group_size, at[1], at[2])
             level    == q[at]
             error(l) == Abs(ZeroPoint * b.w[at] - (l - ZeroPoint) * amax)
         IN level \in 0 .. MaxQ /\ \A l \in 0 .. MaxQ : error(level) <= error(l))

(***************************************************************************)
(* What the Marlin kernel dequantizes for an operand of its MMA is the     *)
(* weight of that row and column, and what it scales it with the scale of  *)
(* that column: the orders of the words, of their nibbles and of the       *)
(* scales are three permutations that only fit together.                   *)
(***************************************************************************)
OperandsMeetTheirScales ==
  For("dequant", LAMBDA in :
    LET thread == in[1]  j == in[2]  i == in[3]
        at     == Element(0, WeightPerm[WeightRead(thread, j, i, in[4])])
        b      == OperandB(thread, in[4])
    IN at = <<b[1], 16 * j + 8 * i + b[2]>> /\ ScalePerm(ScaleRead(thread, j, i)) = at[2])

(***************************************************************************)
(* A launched attention kernel writes every row of its tile.               *)
(***************************************************************************)
LaunchedRowsAreWritten == launch.kind = "attention" => EveryRowIsWritten
=============================================================================
