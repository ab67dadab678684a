--------------------------------- MODULE MoE ---------------------------------
(***************************************************************************)
(* The mixture of experts on Triton: routing (moe_topk_softmax_kernel of   *)
(* triton_ops.py), the alignment of (token, slot) pairs by expert, the two *)
(* grouped GEMMs and the combine (triton_moe.py), with their references.   *)
(*                                                                         *)
(* Matrices are symbolic: an entry is the set of the products it sums, so  *)
(* a row of the wrong token, a weight of the wrong expert or a column      *)
(* counted out of range shows.  Uninitialized memory is <<>>.              *)
(***************************************************************************)
EXTENDS Integers, Sequences, FiniteSets

CONSTANTS
  HDim, IDim,       \* columns of hidden and of the activation
  ColumnBlock       \* block_n and block_h

Experts(n)   == 0 .. n - 1
CeilDiv(a, b) == (a + b - 1) \div b

\* What comes before each expert, and in all: cumsum, exclusive.
Before(values, n) ==
  LET sum[e \in 0 .. n] == IF e = 0 THEN 0 ELSE sum[e - 1] + values[e - 1] IN sum

-----------------------------------------------------------------------------
(***************************************************************************)
(* Routing of one token.  Scores (after softmax) and bias are integers,    *)
(* scores are not negative; lanes are 0 .. block_e - 1.                    *)
(***************************************************************************)
MinusInf == -1000

\* triton.next_power_of_2.
PowerOfTwo(n) ==
  LET power[i \in 0 .. n] ==
        IF i = 0 THEN 1 ELSE IF power[i - 1] >= n THEN power[i - 1] ELSE 2 * power[i - 1]
  IN power[n]

\* Mutant: lanes past the last expert are loaded with a bias of zero.
PaddedBiasZero(bias, lane) == IF lane \in DOMAIN bias THEN bias[lane] ELSE 0

PaddedBias(bias, lane) == IF lane \in DOMAIN bias THEN bias[lane] ELSE MinusInf

\* tl.argmax: of equal values the first.
ArgMax(vals) ==
  CHOOSE e \in DOMAIN vals :
    \A f \in DOMAIN vals : vals[f] < vals[e] \/ (vals[f] = vals[e] /\ e <= f)

\* Weights as fractions, of their sum when they are renormalised.  (The factor
\* `scaling`, the same for all, is left out, of the reference too.)
Fractions(weights, n, renorm) ==
  [slot \in DOMAIN weights |-> <<weights[slot], IF renorm THEN Before(weights, n)[n] ELSE 1>>]

\* The mask of the stores: slots past the k-th do not reach memory.
Stored(vec, k) == [slot \in {slot \in DOMAIN vec : slot < k} |-> vec[slot]]

\* moe_topk_softmax_kernel: the rounds of the selection (<<>> is no bias) fill the
\* first slots of two vectors of zeros, which are as long as a power of two.
TopK(scores, bias, k, renorm) ==
  LET lanes == 0 .. PowerOfTwo(Cardinality(DOMAIN scores)) - 1
      score == [e \in lanes |-> IF e \in DOMAIN scores THEN scores[e] ELSE 0]
      vals[i \in 0 .. k] ==
        IF i = 0 THEN [e \in lanes |-> IF bias = <<>> THEN score[e] ELSE score[e] + PaddedBias(bias, e)]
                 ELSE [vals[i - 1] EXCEPT ![ArgMax(vals[i - 1])] = MinusInf]
      slots   == 0 .. PowerOfTwo(k) - 1
      ids     == [slot \in slots |-> IF slot < k THEN ArgMax(vals[slot]) ELSE 0]
      weights == [slot \in slots |-> IF slot < k THEN score[ids[slot]] ELSE 0]
  IN [ids     |-> Stored(ids, k),
      weights |-> Stored(Fractions(weights, PowerOfTwo(k), renorm), k)]

\* moe_topk_softmax_reference: torch.topk of the biased scores, gathered.  What
\* comes in slot i has i experts before it.
TopKReference(scores, bias, k, renorm) ==
  LET biased(e) == scores[e] + IF bias = <<>> THEN 0 ELSE bias[e]
      before(e) == {f \in DOMAIN scores : biased(f) > biased(e) \/ (biased(f) = biased(e) /\ f < e)}
      ids == [i \in 0 .. k - 1 |-> CHOOSE e \in DOMAIN scores : Cardinality(before(e)) = i]
  IN [ids |-> ids, weights |-> Fractions([i \in 0 .. k - 1 |-> scores[ids[i]]], k, renorm)]

-----------------------------------------------------------------------------
(***************************************************************************)
(* moe_align_block_size.  A pair is t * k + slot; `flat` gives its expert. *)
(***************************************************************************)
Flat(routes) ==
  LET k == Len(routes[1])
  IN [p \in 0 .. Len(routes) * k - 1 |-> routes[p \div k + 1][(p % k) + 1]]

Counts(flat, n) == [e \in Experts(n) |-> Cardinality({p \in DOMAIN flat : flat[p] = e})]
PaddedTo(count, block_m) == CeilDiv(count, block_m) * block_m

\* repeat_interleave of the experts.
Repeated(times, n) ==
  LET before == Before(times, n)
  IN [b \in 0 .. before[n] - 1 |-> CHOOSE e \in Experts(n) : before[e] <= b /\ b < before[e + 1]]

\* Mutant: the rank among all pairs, not in the order of the experts.
PlaceOfPair(flat, p) == p

\* argsort(flat, stable=True): where pair p goes.
Place(flat, p) ==
  Cardinality({q \in DOMAIN flat : flat[q] < flat[p] \/ (flat[q] = flat[p] /\ q < p)})

Align(routes, block_m, n) ==
  LET flat   == Flat(routes)
      counts == Counts(flat, n)
      padded == [e \in Experts(n) |-> PaddedTo(counts[e], block_m)]
      pos    == [p \in DOMAIN flat |->
                   Before(padded, n)[flat[p]] + (Place(flat, p) - Before(counts, n)[flat[p]])]
      post_padded == Before(padded, n)[n]
  IN [sorted_ids  |-> [r \in 0 .. post_padded - 1 |->
                         IF \E p \in DOMAIN flat : pos[p] = r
                           THEN CHOOSE p \in DOMAIN flat : pos[p] = r ELSE -1],
      expert_ids  |-> Repeated([e \in Experts(n) |-> padded[e] \div block_m], n),
      post_padded |-> post_padded]

GridM(pairs, block_m, n) == CeilDiv(pairs, block_m) + n

-----------------------------------------------------------------------------
(***************************************************************************)
(* The kernels.  A matrix is a function of row and column, rows and        *)
(* columns from 0.  Blocks of columns are masked at the end.               *)
(***************************************************************************)
Columns(dim) == {c \in 0 .. CeilDiv(dim, ColumnBlock) * ColumnBlock - 1 : c < dim}

\* moe_grouped_gemm_kernel: A with the weights B ("w13" or "w2") of the block's
\* expert, for the programs that do not return early; sentinel rows are not
\* stored.
GroupedGemm(A, B, aligned, k, grid_m, block_m, h_dim, n_dim, gather, weigh) ==
  LET started(row) == aligned.post_padded > (row \div block_m) * block_m
      pair(row)    == aligned.sorted_ids[row]
      expert(row)  == aligned.expert_ids[row \div block_m]
      a_row(row)   == IF gather THEN pair(row) \div k ELSE row
      dot(row, col) == {<<A[<<a_row(row), h>>], <<B, expert(row), col, h>>>> : h \in Columns(h_dim)}
  IN [at \in (0 .. grid_m * block_m - 1) \X (0 .. n_dim - 1) |->
        IF ~started(at[1]) \/ pair(at[1]) = -1 \/ at[2] \notin Columns(n_dim) THEN <<>>
        ELSE IF weigh THEN <<dot(at[1], at[2]), "times weight of", pair(at[1])>>
        ELSE dot(at[1], at[2])]

Hidden(tokens) == [at \in (0 .. tokens - 1) \X (0 .. HDim - 1) |-> <<"hidden", at>>]

\* silu_and_mul_kernel, over every row, the uninitialized ones too.
SiluAndMul(c) ==
  [at \in {a \in DOMAIN c : a[2] < IDim} |-> <<c[at], c[<<at[1], at[2] + IDim>>]>>]

\* index_add_ to one place: which values are added, each how often; the order
\* of a sum on the device is open.
Added(f) == [v \in {f[x] : x \in DOMAIN f} |-> Cardinality({x \in DOMAIN f : f[x] = v})]

\* moe_combine, for a column of a token.
Combine(c, aligned, k, t, col) ==
  LET rows == {r \in DOMAIN aligned.sorted_ids :
                 aligned.sorted_ids[r] >= 0 /\ aligned.sorted_ids[r] \div k = t}
  IN Added([r \in rows |-> c[<<r, col>>]])

\* moe_expert_mlp_triton: what is summed in each column of each token.
ExpertMlp(routes, block_m, n) ==
  LET tokens  == Len(routes)
      k       == Len(routes[1])
      grid_m  == GridM(tokens * k, block_m, n)
      aligned == Align(routes, block_m, n)
      c1  == GroupedGemm(Hidden(tokens), "w13", aligned, k, grid_m, block_m, HDim, 2 * IDim, TRUE, FALSE)
      c2  == GroupedGemm(SiluAndMul(c1), "w2", aligned, k, grid_m, block_m, IDim, HDim, FALSE, TRUE)
  IN [at \in (0 .. tokens - 1) \X (0 .. HDim - 1) |-> Combine(c2, aligned, k, at[1], at[2])]

\* moe_expert_mlp_reference: each expert with the pairs that selected it.
ExpertMlpReference(routes, n) ==
  LET flat == Flat(routes)
      k    == Len(routes[1])
      h(t, e, row) == {<<<<"hidden", <<t, x>>>>, <<"w13", e, row, x>>>> : x \in 0 .. HDim - 1}
      y(t, e, col) == {<<<<h(t, e, i), h(t, e, i + IDim)>>, <<"w2", e, col, i>>>> : i \in 0 .. IDim - 1}
      sel(t) == {s \in Experts(n) \X DOMAIN flat : flat[s[2]] = s[1] /\ s[2] \div k = t}
  IN [at \in (0 .. Len(routes) - 1) \X (0 .. HDim - 1) |->
        Added([s \in sel(at[1]) |-> <<y(at[1], s[1], at[2]), "times weight of", s[2]>>])]
=============================================================================
