------------------------------ MODULE BlockPool ------------------------------
(***************************************************************************)
(* The pool of physical KV blocks: crates/einf-control/src/block_pool.rs.  *)
(*                                                                         *)
(* A pool is a value (the Rust struct BlockPool, owned by KvCacheManager), *)
(* so every operation is an operator from a pool to a pool.  The loops of  *)
(* reserve, retain_shared and release_blocks visit pairwise different      *)
(* blocks (invariant TableInjective of KvCache), so each is written as one *)
(* simultaneous change of the blocks it visits.                            *)
(***************************************************************************)
EXTENDS Integers, FiniteSets, Sequences, Functions

CONSTANTS
  NumBlocks,   \* capacity of the pool
  Request,     \* request ids
  Token,       \* token ids
  None         \* no writer

ASSUME NumBlocksAssumption == NumBlocks \in Nat
ASSUME RequestAssumption   == IsFiniteSet(Request) /\ None \notin Request

BlockId == 0 .. NumBlocks - 1

(***************************************************************************)
(* hash_tokens chains SHA-256 over the chunks of a prefix: two prefixes    *)
(* have the same hash exactly when they are the same tokens (collisions    *)
(* are left out), so the hash of a prefix is modelled by the prefix.       *)
(***************************************************************************)
Hash == Seq(Token)

Writable(writer) == [kind |-> "writable", writer |-> writer]
Sealed(hash)     == [kind |-> "sealed", hash |-> hash]

BlockState ==
  [kind : {"writable"}, writer : Request \cup {None}] \cup
  [kind : {"sealed"}, hash : Hash]

Pool ==
  [free      : SUBSET BlockId,
   allocated : SUBSET BlockId,
   ref_cnt   : [BlockId -> Nat],
   state     : [BlockId -> BlockState],
   sealed    : SUBSET (Hash \X BlockId)]   \* the entries of the map `sealed`

NewPool ==
  [free      |-> BlockId,
   allocated |-> {},
   ref_cnt   |-> [b \in BlockId |-> 0],
   state     |-> [b \in BlockId |-> Writable(None)],
   sealed    |-> {}]

IsSealed(p, b) == p.state[b].kind = "sealed"

CanReserve(p, count) == count <= Cardinality(p.free)

(***************************************************************************)
(* The ids `free.iter().take(count)` yields: the `count` lowest free       *)
(* blocks, ascending.  The set has one element when CanReserve(p, count)   *)
(* and none otherwise (the InsufficientBlocks error).                      *)
(***************************************************************************)
LowestFree(p, count) ==
  {ids \in [1 .. count -> p.free] :
     /\ \A i, j \in 1 .. count : i < j => ids[i] < ids[j]
     /\ \A b \in p.free \ Range(ids) : \A i \in 1 .. count : ids[i] < b}

\* Mutant: the reserved blocks stay in the free set.
ReserveKeepsFree(p, ids, writer) ==
  [free      |-> p.free,
   allocated |-> p.allocated \cup Range(ids),
   ref_cnt   |-> [b \in BlockId |-> p.ref_cnt[b] + IF b \in Range(ids) THEN 1 ELSE 0],
   state     |-> [b \in BlockId |-> IF b \in Range(ids) THEN Writable(writer) ELSE p.state[b]],
   sealed    |-> p.sealed]

Reserve(p, ids, writer) ==
  LET taken == Range(ids) IN
  [free      |-> p.free \ taken,
   allocated |-> p.allocated \cup taken,
   ref_cnt   |-> [b \in BlockId |-> p.ref_cnt[b] + IF b \in taken THEN 1 ELSE 0],
   state     |-> [b \in BlockId |-> IF b \in taken THEN Writable(writer) ELSE p.state[b]],
   sealed    |-> p.sealed]

(***************************************************************************)
(* retain_shared refuses the whole call when a block is not sealed.        *)
(***************************************************************************)
CanRetain(p, ids) == \A b \in ids : IsSealed(p, b)

\* Mutant: sharing a block does not count.
RetainSharedUncounted(p, ids) ==
  [p EXCEPT !.free = @ \ ids, !.allocated = @ \cup ids]

RetainShared(p, ids) ==
  [free      |-> p.free \ ids,
   allocated |-> p.allocated \cup (ids \cap p.free),
   ref_cnt   |-> [b \in BlockId |-> p.ref_cnt[b] + IF b \in ids THEN 1 ELSE 0],
   state     |-> p.state,
   sealed    |-> p.sealed]

(***************************************************************************)
(* reuse_and_reserve: the private blocks are taken from the free set       *)
(* before the shared ones are retained.                                    *)
(***************************************************************************)
ReuseAndReserve(p, reused, ids, writer) ==
  RetainShared(Reserve(p, ids, writer), Range(reused))

\* Mutant: a block is freed at the first release, shared or not.
ReleaseBlocksEarly(p, ids) ==
  [free      |-> p.free \cup ids,
   allocated |-> p.allocated \ ids,
   ref_cnt   |-> [b \in BlockId |-> p.ref_cnt[b] - IF b \in ids THEN 1 ELSE 0],
   state     |-> [b \in BlockId |-> IF b \in ids THEN Writable(None) ELSE p.state[b]],
   sealed    |-> {e \in p.sealed : e[2] \notin ids}]

\* Mutant: a freed block stays in the map.
ReleaseBlocksKeepsMap(p, ids) ==
  LET freed == {b \in ids : p.ref_cnt[b] = 1} IN
  [free      |-> p.free \cup freed,
   allocated |-> p.allocated \ freed,
   ref_cnt   |-> [b \in BlockId |-> p.ref_cnt[b] - IF b \in ids THEN 1 ELSE 0],
   state     |-> [b \in BlockId |-> IF b \in freed THEN Writable(None) ELSE p.state[b]],
   sealed    |-> p.sealed]

(***************************************************************************)
(* release_blocks: a block whose last reference goes is reset, leaves the  *)
(* map and returns to free.  (The BlockNotInUse error needs a table with a *)
(* block that is not allocated; Partition and RefCounts of KvCache exclude *)
(* it.)                                                                    *)
(***************************************************************************)
ReleaseBlocks(p, ids) ==
  LET freed == {b \in ids : p.ref_cnt[b] = 1} IN
  [free      |-> p.free \cup freed,
   allocated |-> p.allocated \ freed,
   ref_cnt   |-> [b \in BlockId |-> p.ref_cnt[b] - IF b \in ids THEN 1 ELSE 0],
   state     |-> [b \in BlockId |-> IF b \in freed THEN Writable(None) ELSE p.state[b]],
   sealed    |-> {e \in p.sealed : \A b \in freed : IsSealed(p, b) => e[1] # p.state[b].hash}]

(***************************************************************************)
(* sealed_block: the lookup in the map by hash.                            *)
(***************************************************************************)
HasSealed(p, hash)   == \E b \in BlockId : <<hash, b>> \in p.sealed
SealedBlock(p, hash) == CHOOSE b \in BlockId : <<hash, b>> \in p.sealed

(***************************************************************************)
(* seal_block for hashes that have no entry yet (SealResult::Published):   *)
(* hashes[b] becomes the hash of each block b in the domain of hashes.     *)
(***************************************************************************)
Publish(p, hashes) ==
  [free      |-> p.free,
   allocated |-> p.allocated,
   ref_cnt   |-> p.ref_cnt,
   state     |-> [b \in BlockId |-> IF b \in DOMAIN hashes THEN Sealed(hashes[b])
                                                         ELSE p.state[b]],
   sealed    |-> p.sealed \cup {<<hashes[b], b>> : b \in DOMAIN hashes}]
=============================================================================
