---------------------------- MODULE FlashAttention ---------------------------
(***************************************************************************)
(* One CTA of the CuTe FlashAttention kernel (dsl/flash_attention.py): its *)
(* warps share the stages of K/V tiles in shared memory and fill them with *)
(* asynchronous copies, each warp copying some rows of every tile.  A copy *)
(* lands at any time after it was issued; cp.async.wait_group orders a     *)
(* warp after its own copies, sync_threads orders it after those of the    *)
(* other warps.                                                            *)
(*                                                                         *)
(* Data is abstracted to positions: a row of K or V is the position of its *)
(* key, and an accumulator the set of keys that count in it.               *)
(***************************************************************************)
EXTENDS Naturals, FiniteSets, FiniteSetsExt

CONSTANTS
  NumWarps, BlockM, BlockN,   \* num_warps, block_m, block_n
  CopyRows,                   \* rows of a tile that one warp copies at a time
  QLen,                       \* q_len
  Starts,                     \* the values of start_pos
  StageCounts,                \* the values of stages
  None                        \* uninitialized memory

\* What _flash_attention_launch asserts and cute_flash_attention requires.
ASSUME FlashAssumption ==
  /\ NumWarps \in Nat \ {0} /\ BlockM \in Nat \ {0} /\ BlockN \in Nat \ {0}
  /\ CopyRows \in Nat \ {0}
  /\ BlockM % NumWarps = 0 /\ QLen \in Nat \ {0} /\ QLen % BlockM = 0
  /\ BlockM % (CopyRows * NumWarps) = 0 /\ BlockN % (CopyRows * NumWarps) = 0
  /\ Starts \subseteq Nat /\ \A s \in Starts : (s + QLen) % BlockN = 0
  /\ StageCounts \subseteq Nat \ {0}
  /\ None \notin Nat

VARIABLES
  cta,        \* [tile, start, stages]: q_tile, start_pos, stages
  pc, kv,     \* of each warp: where it is, and the loop variable kv
  kv_next,    \* of each warp
  groups,     \* of each warp: the copy groups it has committed
  pending,    \* of each warp: the copies it has issued that have not landed
  smem,       \* sK_tensor and sV_tensor
  sQ,         \* sQ_tensor: first Q, then O
  rQ, rK, rV, \* the registers of each warp: tCrQ, tCrK, tCrV
  acc,        \* ms, ls and tCrO of each row of the tile
  out         \* the rows of gO_tile

copyVars == <<kv_next, groups, pending>>
tileVars == <<smem, sQ>>
regVars  == <<rQ, rK, rV>>
rowVars  == <<acc, out>>
vars     == <<cta, pc, kv, copyVars, tileVars, regVars, rowVars>>

-----------------------------------------------------------------------------
Warp   == 0 .. NumWarps - 1
Row    == 0 .. BlockM - 1
KeyRow == 0 .. BlockN - 1
Matrix == {"K", "V"}

\* m_per_warp rows of Q belong to a warp.
RowsOf(w) == {i \in Row : i \div (BlockM \div NumWarps) = w}

\* copy_thr_layout: the warp that copies row i of a tile of Q, K or V, for
\* 1, 2 or 4 warps (for 8 see README.md, section 4).
Copier(i) == (i % (CopyRows * NumWarps)) \div CopyRows

\* Mutant: the tiles up to the first query of the CTA.
NumVisibleOfFirst ==
  (Min({cta.start + QLen, cta.start + cta.tile * BlockM + 1}) + BlockN - 1) \div BlockN

\* cal_num_visible_tiles, with kv_len = start_pos + q_len.
NumVisible ==
  (Min({cta.start + QLen, cta.start + cta.tile * BlockM + BlockM}) + BlockN - 1) \div BlockN

PrefetchSlots == IF cta.stages = 1 THEN 1 ELSE cta.stages - 1

\* Mutant: one group more may be in flight.
SteadyWaitOneLess == IF cta.stages = 1 THEN 0 ELSE cta.stages - 1

SteadyWaitGroups == IF cta.stages = 1 THEN 0 ELSE cta.stages - 2

HasNext(w)    == kv_next[w] < NumVisible

WriteStage(w) == kv_next[w] % cta.stages
ReadStage(w)  == kv[w] % cta.stages

Goto(w, p) == pc' = [pc EXCEPT ![w] = p]

-----------------------------------------------------------------------------
(***************************************************************************)
(* The asynchronous copies of a warp, and the two ways to wait.            *)
(***************************************************************************)
\* cp.async of some tiles and cp.async.commit_group.
Commit(w, copies) ==
  /\ groups'  = [groups EXCEPT ![w] = @ + 1]
  /\ pending' = [pending EXCEPT ![w] = @ \cup
                   {[group |-> groups[w] + 1, to |-> c, tile |-> kv_next[w],
                     stage |-> WriteStage(w)] : c \in copies}]

\* The K and the V tile of kv_next, into the stage that is written next.
IssueTile(w) ==
  /\ Commit(w, Matrix)
  /\ kv_next' = [kv_next EXCEPT ![w] = @ + 1]

\* cp.async.wait_group(n): at most the last n groups are still in flight.
WaitGroup(w, n) == \A c \in pending[w] : c.group > groups[w] - n

Land(w) == \E c \in pending[w] :
  /\ pending' = [pending EXCEPT ![w] = @ \ {c}]
  /\ \/ /\ c.to = "Q"
        /\ sQ' = [i \in Row |-> IF Copier(i) = w THEN [holds |-> "Q", keys |-> {}] ELSE sQ[i]]
        /\ UNCHANGED smem
     \/ /\ c.to \in Matrix
        /\ smem' = [smem EXCEPT ![c.to][c.stage] =
                      [j \in KeyRow |-> IF Copier(j) = w THEN c.tile * BlockN + j ELSE @[j]]]
        /\ UNCHANGED sQ
  /\ UNCHANGED <<cta, pc, kv, kv_next, groups, regVars, rowVars>>

Barriers == {"sync Q", "sync full", "sync free", "sync O"}

After(barrier) ==
  CASE barrier = "sync Q"    -> "read Q"
    [] barrier = "sync full" -> "read K"
    [] barrier = "sync free" -> "issue"
    [] barrier = "sync O"    -> "copy out"

\* sync_threads counts the warps that arrive, wherever they do.
SyncThreads ==
  /\ \A w \in Warp : pc[w] \in Barriers
  /\ pc' = [w \in Warp |-> After(pc[w])]
  /\ UNCHANGED <<cta, kv, copyVars, tileVars, regVars, rowVars>>

-----------------------------------------------------------------------------
\* The CTA, with its warps at p: nothing copied, nothing computed.
Start(c, p) ==
  /\ cta = c
  /\ pc = [w \in Warp |-> p]
  /\ kv = [w \in Warp |-> 0] /\ kv_next = [w \in Warp |-> 0]
  /\ groups = [w \in Warp |-> 0] /\ pending = [w \in Warp |-> {}]
  /\ smem = [m \in Matrix |-> [s \in 0 .. c.stages - 1 |-> [j \in KeyRow |-> None]]]
  /\ sQ = [i \in Row |-> [holds |-> "nothing", keys |-> {}]]
  /\ rQ = [w \in Warp |-> {}]
  /\ rK = [w \in Warp |-> [j \in KeyRow |-> None]] /\ rV = rK
  /\ acc = [i \in Row |-> [seen |-> FALSE, keys |-> {}]]
  /\ out = [i \in Row |-> None]

Init ==
  \E c \in [tile : 0 .. QLen \div BlockM - 1, start : Starts, stages : StageCounts] :
    Start(c, "load Q")

LoadQ(w) ==
  /\ pc[w] = "load Q" /\ Goto(w, "wait Q")
  /\ Commit(w, {"Q"})
  /\ UNCHANGED <<cta, kv, kv_next, tileVars, regVars, rowVars>>

WaitQ(w) ==
  /\ pc[w] = "wait Q" /\ WaitGroup(w, 0) /\ Goto(w, "sync Q")
  /\ UNCHANGED <<cta, kv, copyVars, tileVars, regVars, rowVars>>

ReadQ(w) ==
  /\ pc[w] = "read Q" /\ Goto(w, "prefetch")
  /\ rQ' = [rQ EXCEPT ![w] = {i \in RowsOf(w) : sQ[i].holds = "Q"}]
  /\ UNCHANGED <<cta, kv, copyVars, tileVars, rK, rV, rowVars>>

\* The prefetch loop, one tile a time.
Prefetch(w) ==
  /\ pc[w] = "prefetch" /\ kv_next[w] < Min({NumVisible, PrefetchSlots})
  /\ IssueTile(w)
  /\ UNCHANGED <<cta, pc, kv, tileVars, regVars, rowVars>>

\* Mutant: a warp leaves the loop when the next tile is after all its rows.
LoopOnOfWarp(w, n) ==
  IF n < NumVisible /\ \E i \in RowsOf(w) : n * BlockN <= cta.start + cta.tile * BlockM + i
    THEN "wait tile" ELSE "write O"

\* Mutant: such a warp returns.
LoopOnReturns(w, n) ==
  IF LoopOnOfWarp(w, n) = "write O" /\ n < NumVisible THEN "done" ELSE LoopOnOfWarp(w, n)

LoopOn(w, n) == IF n < NumVisible THEN "wait tile" ELSE "write O"

StartLoop(w) ==
  /\ pc[w] = "prefetch" /\ ~(kv_next[w] < Min({NumVisible, PrefetchSlots}))
  /\ Goto(w, LoopOn(w, 0))
  /\ UNCHANGED <<cta, kv, copyVars, tileVars, regVars, rowVars>>

WaitTile(w) ==
  /\ pc[w] = "wait tile"
  /\ WaitGroup(w, IF HasNext(w) THEN SteadyWaitGroups ELSE 0)
  /\ Goto(w, "sync full")
  /\ UNCHANGED <<cta, kv, copyVars, tileVars, regVars, rowVars>>

ReadK(w) ==
  /\ pc[w] = "read K" /\ Goto(w, "read V")
  /\ rK' = [rK EXCEPT ![w] = smem["K"][ReadStage(w)]]
  /\ UNCHANGED <<cta, kv, copyVars, tileVars, rQ, rV, rowVars>>

ReadV(w) ==
  /\ pc[w] = "read V" /\ Goto(w, "sync free")
  /\ rV' = [rV EXCEPT ![w] = smem["V"][ReadStage(w)]]
  /\ UNCHANGED <<cta, kv, copyVars, tileVars, rQ, rK, rowVars>>

IssueNext(w) ==
  /\ pc[w] = "issue" /\ Goto(w, "fold")
  /\ IF HasNext(w) THEN IssueTile(w) ELSE UNCHANGED copyVars
  /\ UNCHANGED <<cta, kv, tileVars, regVars, rowVars>>

\* k_global > start_pos + q_global
Future(i, k) == k > cta.start + cta.tile * BlockM + i

(***************************************************************************)
(* A tile folded into a row.  A masked score is NEG_INF, which is finite:  *)
(* as long as the row has seen no key, m is NEG_INF too and exp(score - m) *)
(* is 1; the first key the row sees makes alpha = exp(NEG_INF - m) zero    *)
(* and drops what was folded before.                                       *)
(***************************************************************************)
FoldedRow(w, i) ==
  LET key(j) == kv[w] * BlockN + j
      live   == {j \in KeyRow : ~Future(i, key(j))}
      seen   == acc[i].seen \/ live # {}
  IN [seen |-> seen,
      keys |-> {<<key(j), rK[w][j], rV[w][j]>> : j \in IF seen THEN live ELSE KeyRow}
               \cup IF seen /\ ~acc[i].seen THEN {} ELSE acc[i].keys]

Fold(w) ==
  /\ pc[w] = "fold" /\ Goto(w, LoopOn(w, kv[w] + 1))
  /\ kv' = [kv EXCEPT ![w] = @ + 1]
  /\ acc' = [i \in Row |-> IF i \in RowsOf(w) THEN FoldedRow(w, i) ELSE acc[i]]
  /\ UNCHANGED <<cta, copyVars, tileVars, regVars, out>>

\* O takes the place of Q in shared memory ...
WriteO(w) ==
  /\ pc[w] = "write O" /\ Goto(w, "sync O")
  /\ sQ' = [i \in Row |-> IF i \in RowsOf(w) THEN [holds |-> "O", keys |-> acc[i].keys] ELSE sQ[i]]
  /\ UNCHANGED <<cta, kv, copyVars, smem, regVars, rowVars>>

\* ... where each warp takes the rows it copies out.
CopyOut(w) ==
  /\ pc[w] = "copy out" /\ Goto(w, "done")
  /\ out' = [i \in Row |-> IF Copier(i) = w THEN sQ[i].keys ELSE out[i]]
  /\ UNCHANGED <<cta, kv, copyVars, tileVars, regVars, acc>>

Step(w) ==
  \/ LoadQ(w) \/ WaitQ(w) \/ ReadQ(w) \/ Prefetch(w) \/ StartLoop(w)
  \/ WaitTile(w) \/ ReadK(w) \/ ReadV(w) \/ IssueNext(w) \/ Fold(w)
  \/ WriteO(w) \/ CopyOut(w)

Next == SyncThreads \/ \E w \in Warp : Step(w) \/ Land(w)

\* The SM runs every warp that can run, and every copy lands.
Fairness == WF_vars(SyncThreads) /\ \A w \in Warp : WF_vars(Step(w)) /\ WF_vars(Land(w))

Spec == Init /\ [][Next]_vars /\ Fairness

-----------------------------------------------------------------------------
Pcs == Barriers \cup {"load Q", "wait Q", "read Q", "prefetch", "wait tile", "read K", "read V",
                      "issue", "fold", "write O", "copy out", "done"}

(***************************************************************************)
(* The type of every variable that the steps compute with.                 *)
(***************************************************************************)
TypeOK ==
  /\ pc \in [Warp -> Pcs] /\ kv \in [Warp -> Nat] /\ kv_next \in [Warp -> Nat]
  /\ groups \in [Warp -> Nat]
  /\ \A w \in Warp : \A c \in pending[w] :
        c.to \in Matrix \cup {"Q"} /\ c.group \in 1 .. groups[w] /\ c.stage \in 0 .. cta.stages - 1

(***************************************************************************)
(* When the warps meet, they meet at the same sync_threads of the same     *)
(* iteration: the loop bound is the CTA's, not the warp's, even where the  *)
(* rows of one warp see nothing of the last tiles.                         *)
(***************************************************************************)
BarrierAligned ==
  (\A w \in Warp : pc[w] \in Barriers) => \A v, w \in Warp : pc[v] = pc[w] /\ kv[v] = kv[w]

(***************************************************************************)
(* No copy is in flight into a stage that a warp is about to read, or is   *)
(* reading: the wait for all groups but the steady_wait_groups last ones   *)
(* leaves the copies of this stage done, and the second sync_threads of an *)
(* iteration keeps the next ones from being issued.  So a warp computes    *)
(* with all its rows of Q and with all rows of tile kv of K and V, those   *)
(* that other warps copied included.                                       *)
(***************************************************************************)
StageIsStable ==
  /\ TypeOK
  /\ \A v, w \in Warp : pc[w] \in {"read K", "read V"} =>
        \A c \in pending[v] : c.to \in Matrix => c.stage # ReadStage(w)
  /\ \A w \in Warp : pc[w] \in {"issue", "fold"} =>
        /\ rQ[w] = RowsOf(w)
        /\ rK[w] = [j \in KeyRow |-> kv[w] * BlockN + j] /\ rV[w] = rK[w]

(***************************************************************************)
(* A row of O that is written is the attention of its query over the keys  *)
(* up to its own position, each with its own value: neither the tile bound *)
(* nor the mask loses or adds a key, and the scratch in the memory of Q    *)
(* holds the row when another warp copies it out.                          *)
(***************************************************************************)
RowsAreCausal ==
  \A i \in Row : out[i] # None =>
    out[i] = {<<k, k, k>> : k \in 0 .. cta.start + cta.tile * BlockM + i}

(***************************************************************************)
(* Every row of the tile is written: no warp waits at a barrier for one    *)
(* that has left the loop, or for a group that is never committed.         *)
(***************************************************************************)
EveryRowIsWritten == <>(\A i \in Row : out[i] # None)
=============================================================================
