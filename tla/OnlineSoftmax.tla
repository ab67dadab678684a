---------------------------- MODULE OnlineSoftmax ----------------------------
(***************************************************************************)
(* The online softmax of the attention kernels (dsl/online_softmax.py,     *)
(* dsl/online_softmax_layout.py, dsl/flash_attention_single_tile.py): a    *)
(* row of scores arrives tile by tile, spread over the lanes of a group,   *)
(* and each lane keeps the maximum m, the sum l and the accumulator O of   *)
(* what has arrived.  Then the layouts: which score a register of a lane   *)
(* holds, as accumulator of Q @ K and as operand of P @ V.                 *)
(*                                                                         *)
(* Scores are small integers and exp is 2^x in fixed point with Digits     *)
(* binary digits, in which every product below is exact; O is kept for     *)
(* each key (the weight its value has in the sum).                         *)
(***************************************************************************)
EXTENDS Integers, Sequences, FiniteSets, SequencesExt

CONSTANTS
  Digits,    \* the live scores of a row differ by at most Digits
  NEG_INF    \* -1.0e30: far below every score, but finite

One == 2 ^ Digits

Exp(x)      == IF x < -Digits THEN 0 ELSE 2 ^ (Digits + x)
Times(a, b) == (a * b) \div One

\* shuffle_sync_bfly: the lane whose number differs in one bit.
Across(lane, bit) == IF (lane \div bit) % 2 = 0 THEN lane + bit ELSE lane - bit

\* Mutant: the last exchange of a group is missing.
OffsetsTooFew(lanes) == SelectSeq(<<1, 2, 4, 8, 16>>, LAMBDA bit : 2 * bit < lanes)

Offsets(lanes) == SelectSeq(<<1, 2, 4, 8, 16>>, LAMBDA bit : bit < lanes)

Larger(a, b) == IF a < b THEN b ELSE a

\* The maximum and the sum over the lanes of a group, in every lane.
GroupMax(value, lanes) ==
  FoldLeft(LAMBDA v, bit : [lane \in DOMAIN v |-> Larger(v[lane], v[Across(lane, bit)])],
           value, Offsets(lanes))

GroupSum(value, lanes) ==
  FoldLeft(LAMBDA v, bit : [lane \in DOMAIN v |-> v[lane] + v[Across(lane, bit)]],
           value, Offsets(lanes))

\* A tile of a row: the scores of each lane, in the order of its columns.
RowMax(scores) == FoldLeft(Larger, NEG_INF, scores)

-----------------------------------------------------------------------------
Rescaled(weight, alpha) == Times(weight, alpha)

(***************************************************************************)
(* _online_softmax_update and the accumulator of P @ V, in every lane.  A  *)
(* key is <<tile, lane, column>>, and t is the tile.                       *)
(***************************************************************************)
OnlineSoftmaxUpdate(row, tile, t) ==
  LET lanes  == Cardinality(DOMAIN tile)
      m_tile == GroupMax([lane \in DOMAIN tile |-> RowMax(tile[lane])], lanes)
      m_new  == [lane \in DOMAIN tile |-> Larger(m_tile[lane], row.m[lane])]
      alpha  == [lane \in DOMAIN tile |-> Exp(row.m[lane] - m_new[lane])]
      P      == [lane \in DOMAIN tile |->
                   [c \in DOMAIN tile[lane] |-> Exp(tile[lane][c] - m_new[lane])]]
      l_tile == GroupSum([lane \in DOMAIN tile |-> FoldLeft(+, 0, P[lane])], lanes)
  IN [m |-> m_new,
      l |-> [lane \in DOMAIN tile |-> Times(row.l[lane], alpha[lane]) + l_tile[lane]],
      O |-> [lane \in DOMAIN tile |->
               [key \in DOMAIN row.O[lane] |->
                  Rescaled(row.O[lane][key], alpha[lane])
                    + IF key[1] = t THEN P[key[2]][key[3]] ELSE 0]]]

KeysOf(tiles) == {<<t, lane, c>> : t \in DOMAIN tiles, lane \in DOMAIN tiles[1],
                                   c \in DOMAIN tiles[1][0]}

OnlineSoftmax(tiles) ==
  LET lanes == DOMAIN tiles[1]
      start == [m |-> [lane \in lanes |-> NEG_INF], l |-> [lane \in lanes |-> 0],
                O |-> [lane \in lanes |-> [key \in KeysOf(tiles) |-> 0]]]
  IN FoldLeft(LAMBDA row, t : OnlineSoftmaxUpdate(row, tiles[t], t),
              start, [t \in DOMAIN tiles |-> t])

\* The softmax of the whole row: its maximum, its sum and a key's weight.
Scores(tiles) == [key \in KeysOf(tiles) |-> tiles[key[1]][key[2]][key[3]]]

DirectMax(tiles) ==
  CHOOSE m \in Range(Scores(tiles)) : \A s \in Range(Scores(tiles)) : s <= m

DirectWeights(tiles) == [key \in KeysOf(tiles) |-> Exp(Scores(tiles)[key] - DirectMax(tiles))]

-----------------------------------------------------------------------------
(***************************************************************************)
(* The registers of a lane for mma.m16n8k16: an accumulator of mma_m by    *)
(* mma_n atoms has layout ((2,2),mma_m,mma_n):((1,2),4,4*mma_m).           *)
(***************************************************************************)
Lane == 0 .. 31

Register(v0, v1, mm, mn, mma_m) == v0 + 2 * v1 + 4 * mm + 4 * mma_m * mn

\* The coordinates of a register (tv_layout_C of the atom).
Coordinates(lane, mma_m, mma_n) ==
  LET modes == {0, 1} \X {0, 1} \X (0 .. mma_m - 1) \X (0 .. mma_n - 1)
      of(r) == CHOOSE q \in modes : Register(q[1], q[2], q[3], q[4], mma_m) = r
  IN [r \in 0 .. 4 * mma_m * mma_n - 1 |->
        <<lane \div 4 + 8 * of(r)[2] + 16 * of(r)[3],
          2 * (lane % 4) + of(r)[1] + 8 * of(r)[4]>>]

(***************************************************************************)
(* _sm80_m16n8_acc_rowcol_policy: the same registers, seen by local row    *)
(* (V1, MMA_M) and local column (V0, MMA_N); four threads share a row.     *)
(***************************************************************************)
RowCol(r, c, mma_m) == Register(c % 2, r % 2, r \div 2, c \div 2, mma_m)

ThreadsPerRow == 4

NumRows(mma_m) == 2 * mma_m
NumCols(mma_n) == 2 * mma_n

\* The lanes and registers that write a row of m and l (tidx % threads_per_row = 0).
Writers(row, mma_m, mma_n) ==
  {w \in {lane \in Lane : lane % ThreadsPerRow = 0} \X (0 .. NumRows(mma_m) - 1) :
     Coordinates(w[1], mma_m, mma_n)[RowCol(w[2], 0, mma_m)][1] = row}

\* online_softmax.py names the four registers of one atom itself.
LowerRegisters == {0, 1}
UpperRegisters == {2, 3}
LowerRow(lane) == lane \div 4
UpperRow(lane) == lane \div 4 + 8

(***************************************************************************)
(* _sm80_accumulator_to_fragment_a: the registers as the A operand of the  *)
(* second product, which contracts 16 columns (two atoms) at a time.       *)
(***************************************************************************)
\* Mutant: the atoms of a contraction are half the tile apart.
FragmentAFarApart(v0, v1, half, mm, k, mma_m, mma_n) ==
  Register(v0, v1, mm, k + half * (mma_n \div 2), mma_m)

FragmentA(v0, v1, half, mm, k, mma_m, mma_n) == Register(v0, v1, mm, 2 * k + half, mma_m)

\* What the atom takes from there (tv_layout_A of the atom).
OperandA(lane, v0, v1, half, mm, k) ==
  <<lane \div 4 + 8 * v1 + 16 * mm, 2 * (lane % 4) + v0 + 8 * half + 16 * k>>
=============================================================================
