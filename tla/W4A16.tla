-------------------------------- MODULE W4A16 --------------------------------
(***************************************************************************)
(* The 4-bit weight format (dsl/w4a16_pack.py): a weight is quantized to   *)
(* the scale of its group, 16 by 64 weights are brought into the order of  *)
(* the Marlin kernel, and eight of them become an int32 word; and back.    *)
(* Weights are integers; a scale is a rational, amax/8, and stays one.     *)
(* Everything counts from 0.                                               *)
(***************************************************************************)
EXTENDS Integers, FiniteSetsExt

TileK == 16
TileN == 16
PermN == 64
PermElems == 1024
PackNibbles == 8
MaxQ == 15
ZeroPoint == 8

-----------------------------------------------------------------------------
(***************************************************************************)
(* _marlin_weight_perm: for thread, tile and x the weight a thread of the  *)
(* MMA needs, then the order of the eight nibbles of a word.               *)
(***************************************************************************)
RowOf(x)    == CASE x % 4 = 0 -> 0 [] x % 4 = 1 -> 1 [] x % 4 = 2 -> 8 [] OTHER -> 9
Nibble(i)   == IF i < 4 THEN 2 * i ELSE 2 * (i - 4) + 1    \* 0, 2, 4, 6, 1, 3, 5, 7

ThreadOf(i) == i \div 32
TileOf(i)   == (i % 32) \div 8
BlockOf(i)  == Nibble(i % 8) \div 4

WeightPerm ==
  [i \in 0 .. PermElems - 1 |->
     LET tid == ThreadOf(i) % 4
         row == 2 * tid + RowOf(Nibble(i % 8))
     IN 16 * row + ThreadOf(i) \div 4 + 8 * BlockOf(i) + 256 * TileOf(i)]

\* Mutant: unpacked with the permutation, not with its inverse.
WeightInvPermGiven == WeightPerm

WeightInvPerm == [v \in 0 .. PermElems - 1 |-> CHOOSE i \in DOMAIN WeightPerm : WeightPerm[i] = v]

\* Mutant: the columns of a row of scales stay as they are.
ScalePermOfColumns(c) == c

\* _marlin_scale_perm: where column c of a stored row of scales comes from.
ScalePerm(c) == (c \div 8) + 8 * (c % 8)

-----------------------------------------------------------------------------

\* torch.round: to the nearest integer, a half to the even one (b > 0).
RoundHalfEven(a, b) ==
  LET down == a \div b
      rest == 2 * (a % b)
  IN IF rest < b \/ (rest = b /\ down % 2 = 0) THEN down ELSE down + 1

Clamp(q) == IF q < 0 THEN 0 ELSE IF q > MaxQ THEN MaxQ ELSE q

Abs(w) == IF w < 0 THEN -w ELSE w

\* compute_w4a16_scales: amax of the group of w[k, n], clamped above
\* zero (for integers: at 1).  The scale is amax / 8: its rounding to the type of
\* the weights is left out, and so are scales that the caller of pack supplies.
Amax(w, group_size, k, n) ==
  LET first == group_size * (k \div group_size)
  IN Max({1} \cup {Abs(w[<<i, n>>]) : i \in first .. first + group_size - 1})

\* One weight: round(w / scale) + 8, clamped.
Quantized(weight, amax) == Clamp(RoundHalfEven(ZeroPoint * weight, amax) + ZeroPoint)

Quantize(w, k_len, n_len, group_size) ==
  LET amax == [of \in (0 .. k_len \div group_size - 1) \X (0 .. n_len - 1) |->
                 Amax(w, group_size, of[1] * group_size, of[2])]
  IN [at \in DOMAIN w |-> Quantized(w[at], amax[<<at[1] \div group_size, at[2]>>])]

-----------------------------------------------------------------------------
\* A word: nibbles from the lowest; the highest makes it negative (int32).
Word(nibble) ==
  LET part(i) == IF i = PackNibbles - 1 /\ nibble[i] >= 8 THEN (nibble[i] - 16) * 16 ^ i
                                                          ELSE nibble[i] * 16 ^ i
  IN part(0) + part(1) + part(2) + part(3) + part(4) + part(5) + part(6) + part(7)

\* (word >> 4 * i) & 15
NibbleOf(word, i) == (word \div 16 ^ i) % 16

\* The place of an element in the concatenation (n_tile, k_inner, n_inner) of a row of tiles.
Element(kt, p) == <<TileK * kt + ((p \div TileN) % TileK), TileN * (p \div (TileK * TileN)) + (p % TileN)>>

PackW4A16(q, k_len, n_len) ==
  LET permuted(kt, p) == q[Element(kt, PermElems * (p \div PermElems) + WeightPerm[p % PermElems])]
  IN [at \in (0 .. k_len \div TileK - 1) \X (0 .. (n_len * TileK) \div PackNibbles - 1) |->
        Word([i \in 0 .. PackNibbles - 1 |-> permuted(at[1], at[2] * PackNibbles + i)])]

UnpackW4A16(words, k_len, n_len) ==
  LET nibble(kt, p) == NibbleOf(words[<<kt, p \div PackNibbles>>], p % PackNibbles)
      place(k, n) == TileK * TileN * (n \div TileN) + TileN * (k % TileK) + (n % TileN)
  IN [at \in (0 .. k_len - 1) \X (0 .. n_len - 1) |->
        LET p == place(at[1], at[2])
        IN nibble(at[1] \div TileK, PermElems * (p \div PermElems) + WeightInvPerm[p % PermElems])]

-----------------------------------------------------------------------------
(***************************************************************************)
(* The reader: the Marlin kernel takes four words and eight scales a       *)
(* thread, for 16 by 64 weights.  Operand x of the product with the        *)
(* columns of block i of tile j comes from nibble DequantNibble(i, x) of   *)
(* word j and is scaled with half 2 * j + i of the thread's scales.        *)
(***************************************************************************)
Thread == 0 .. 31

DequantNibble(i, x) == 2 * i + x \div 2 + 4 * (x % 2)

WeightRead(thread, j, i, x) == 32 * thread + 8 * j + DequantNibble(i, x)

\* With scales by group: einf always passes a group size, and the column-wise layout
\* (group_blocks = -1) is left out.
ScaleRead(thread, j, i) == 8 * (thread \div 4) + 2 * j + i

\* Where operand x of a thread lies in B: row of K, and column of the block.
OperandB(thread, x) == <<2 * (thread % 4) + (x % 2) + 8 * (x \div 2), thread \div 4>>
=============================================================================
