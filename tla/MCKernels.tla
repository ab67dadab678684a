------------------------------ MODULE MCKernels ------------------------------
(* Small inputs for Kernels: see README.md, run kernels. *)
EXTENDS Kernels

MCNegInf == -50

\* Two tiles of one column in four lanes, and of two columns in two; three
\* tiles of one column in two lanes.
MCScoreRows ==
  LET Tile(lanes, columns, scores) == [0 .. lanes - 1 -> [1 .. columns -> scores]]
  IN {<<a, b>> : a \in Tile(4, 1, {NEG_INF, 0}), b \in Tile(4, 1, {NEG_INF, 0, 2})}
       \cup {<<a, b>> : a \in Tile(2, 2, {NEG_INF, 0, 2}), b \in Tile(2, 2, {NEG_INF, 0})}
       \cup {<<a, b, a>> : a, b \in Tile(2, 1, {NEG_INF, 0, 1, 2})}

MCFragments == {1, 2} \X {2, 4, 8}

MCLogits ==
  UNION {[scores : [0 .. n - 1 -> 0 .. 2], bias : {<<>>} \cup [0 .. n - 1 -> {-3, 0, 1}],
          k : 1 .. n, renorm : BOOLEAN] : n \in {2, 3}}

\* Three tokens of two of three experts, and two of one of four.
MCBatches ==
  [routes : [1 .. 3 -> {r \in [1 .. 2 -> 0 .. 2] : r[1] # r[2]}], block_m : {2, 4}, experts : {3}]
    \cup [routes : [1 .. 2 -> [1 .. 1 -> 0 .. 3]], block_m : {1, 2}, experts : {4}]

Weight(seed, k_len, n_len) ==
  [at \in (0 .. k_len - 1) \X (0 .. n_len - 1) |->
     ((seed * at[1] + (seed + 4) * at[2] + at[1] * at[2]) % 31) - 15]

MCMatrices ==
  {[w |-> Weight(seed, shape[1], shape[2]), k |-> shape[1], n |-> shape[2], group_size |-> shape[3]] :
     seed \in {3}, shape \in {<<32, 64, 16>>, <<32, 64, 32>>, <<16, 128, 16>>}}
=============================================================================
