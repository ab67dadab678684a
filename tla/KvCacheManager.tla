--------------------------- MODULE KvCacheManager ---------------------------
(***************************************************************************)
(* The KV cache manager: crates/einf-control/src/kv_cache.rs.  Its two     *)
(* fields are the pool and the block tables; each operation is an action   *)
(* on them, which the modules that own a manager (KvCache, Scheduler)      *)
(* conjoin with what they do to their own variables.                       *)
(***************************************************************************)
EXTENDS BlockPool

CONSTANTS
  BlockLen   \* tokens per block

ASSUME BlockLenAssumption == BlockLen \in Nat \ {0}

VARIABLES
  pool,          \* BlockPool
  allocations    \* the block table of each request, <<>> when it has none

-----------------------------------------------------------------------------
FullBlocks(tokens)     == tokens \div BlockLen
RequiredBlocks(tokens) == (tokens + BlockLen - 1) \div BlockLen

PrefixHash(text, blocks) == SubSeq(text, 1, blocks * BlockLen)

(***************************************************************************)
(* plan_reuse: follow the hash chain of the prompt through the map until   *)
(* the first miss, and leave at least one token of the prompt to compute.  *)
(* IsReuse(p, prompt, k) says that the plan has k blocks; ReusePlan is the *)
(* plan's block list (<<>> stands for None).                               *)
(***************************************************************************)
MaxReusableBlocks(prompt) == FullBlocks(Len(prompt) - 1)

IsReuse(p, prompt, k) ==
  /\ k <= MaxReusableBlocks(prompt)
  /\ \A j \in 1 .. k : HasSealed(p, PrefixHash(prompt, j))
  /\ k < MaxReusableBlocks(prompt) => ~HasSealed(p, PrefixHash(prompt, k + 1))

ReusePlan(p, prompt, k) == [j \in 1 .. k |-> SealedBlock(p, PrefixHash(prompt, j))]

(***************************************************************************)
(* reserve_to(r, plan, tokens).  Disabled when the pool has too few free   *)
(* blocks (InsufficientBlocks, which changes nothing) or when a block of   *)
(* the plan is not sealed after the private ones were reserved, which      *)
(* PlansCanBeRetained of KvCache excludes.                                 *)
(***************************************************************************)
\* Mutant: the blocks of the plan are reserved as well.
MissingBlocksIgnoresPlan(r, plan, tokens) ==
  RequiredBlocks(tokens) - Len(allocations[r])

MissingBlocks(r, plan, tokens) ==
  RequiredBlocks(tokens - Len(plan) * BlockLen) - Len(allocations[r])

ReserveTo(r, plan, tokens) ==
  LET missing == MissingBlocks(r, plan, tokens) IN
  /\ plan # <<>> => allocations[r] = <<>>
  /\ \/ /\ missing > 0
        /\ CanReserve(pool, missing)
        /\ \E ids \in LowestFree(pool, missing) :
             /\ CanRetain(Reserve(pool, ids, r), Range(plan))
             /\ pool' = ReuseAndReserve(pool, plan, ids, r)
             /\ allocations' = [allocations EXCEPT ![r] = @ \o plan \o ids]
     \/ /\ missing <= 0
        /\ UNCHANGED <<pool, allocations>>

(***************************************************************************)
(* seal_blocks(r, text[from * BlockLen + 1 ..], from * BlockLen): the      *)
(* chain starts from the hash of the last block sealed before.  A chunk    *)
(* whose hash is in the map already gives its block up for the existing    *)
(* one; the others are published.  The chunks of one call have pairwise    *)
(* different hashes and blocks, so the loop is one simultaneous change.    *)
(***************************************************************************)
\* Mutant: a block is hashed without what comes before it.
ChunkHashUnchained(r, text, from, j) ==
  SubSeq(text, (j - 1) * BlockLen + 1, j * BlockLen)

ChunkHash(r, text, from, j) ==
  (IF from = 0 THEN <<>> ELSE pool.state[allocations[r][from]].hash)
    \o SubSeq(text, from * BlockLen + 1, j * BlockLen)

IndexOf(table, b) == CHOOSE i \in DOMAIN table : table[i] = b

SealBlocks(r, text, from) ==
  LET table  == allocations[r]
      chunks == from + 1 .. FullBlocks(Len(text))
      hash   == [j \in chunks |-> ChunkHash(r, text, from, j)]
      dups   == {j \in chunks : HasSealed(pool, hash[j])}
      own    == {table[j] : j \in dups}
      shared == {SealedBlock(pool, hash[j]) : j \in dups}
      fresh  == {table[j] : j \in chunks \ dups}
      hashes == [b \in fresh |-> hash[IndexOf(table, b)]]
  IN /\ pool' = ReleaseBlocks(RetainShared(Publish(pool, hashes), shared), own)
     /\ allocations' =
          [allocations EXCEPT ![r] =
             [i \in DOMAIN table |-> IF i \in dups THEN SealedBlock(pool, hash[i])
                                                   ELSE table[i]]]

\* Mutant: the blocks are returned but the table stays.
ReleaseAllocationKeepsTable(r) ==
  /\ pool' = ReleaseBlocks(pool, Range(allocations[r]))
  /\ UNCHANGED allocations

\* Mutant: the table goes but its blocks are never returned.
ReleaseAllocationLeaks(r) ==
  /\ allocations' = [allocations EXCEPT ![r] = <<>>]
  /\ UNCHANGED pool

(***************************************************************************)
(* release(r): a request without an allocation is left alone.              *)
(***************************************************************************)
ReleaseAllocation(r) ==
  /\ pool' = ReleaseBlocks(pool, Range(allocations[r]))
  /\ allocations' = [allocations EXCEPT ![r] = <<>>]

ManagerInit ==
  /\ pool = NewPool
  /\ allocations = [r \in Request |-> <<>>]
=============================================================================
