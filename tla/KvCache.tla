------------------------------- MODULE KvCache -------------------------------
(***************************************************************************)
(* The KV cache manager driven by any client that respects the order in    *)
(* which the scheduler calls it: blocks are reserved for a request before  *)
(* tokens are computed into them, and sealed once those tokens are         *)
(* computed.  This is what the scheduler relies on (module Scheduler       *)
(* implements this specification) and what the proofs are about.           *)
(*                                                                         *)
(* `written` and `inflight` are the client's: the tokens of each request   *)
(* whose KV is in the cache, and the tokens of the batch in progress that  *)
(* the reservation was made for.                                           *)
(***************************************************************************)
EXTENDS KvCacheManager

CONSTANT
  Texts   \* the token sequences a request may hold (bounds a model)

ASSUME TextsAssumption == Texts \subseteq Seq(Token)

VARIABLES
  written,       \* tokens of each request whose KV is in its blocks
  inflight       \* tokens of each request that a batch is computing

vars == <<pool, allocations, written, inflight>>

-----------------------------------------------------------------------------
Init ==
  /\ ManagerInit
  /\ written  = [r \in Request |-> <<>>]
  /\ inflight = [r \in Request |-> <<>>]

(***************************************************************************)
(* The first chunk of an admitted request: the reuse plan of its prompt    *)
(* followed by freshly computed tokens.                                    *)
(***************************************************************************)
Admit(r, prompt, text) ==
  /\ allocations[r] = <<>>
  /\ prompt # <<>>
  /\ \E k \in 0 .. Len(prompt) :
       /\ IsReuse(pool, prompt, k)
       /\ Len(text) > k * BlockLen
       /\ SubSeq(text, 1, k * BlockLen) = SubSeq(prompt, 1, k * BlockLen)
       /\ ReserveTo(r, ReusePlan(pool, prompt, k), Len(text))
       /\ written'  = [written EXCEPT ![r] = SubSeq(prompt, 1, k * BlockLen)]
       /\ inflight' = [inflight EXCEPT ![r] = SubSeq(text, k * BlockLen + 1, Len(text))]

(***************************************************************************)
(* A later chunk, or a decode token.                                       *)
(***************************************************************************)
Grow(r, text) ==
  /\ allocations[r] # <<>>
  /\ inflight[r] = <<>>
  /\ Len(text) > Len(written[r])
  /\ SubSeq(text, 1, Len(written[r])) = written[r]
  /\ ReserveTo(r, <<>>, Len(text))
  /\ inflight' = [inflight EXCEPT ![r] = SubSeq(text, Len(written[r]) + 1, Len(text))]
  /\ UNCHANGED written

(***************************************************************************)
(* The batch was computed: its tokens count as cached and every block they *)
(* complete is sealed.                                                     *)
(***************************************************************************)
Commit(r) ==
  /\ inflight[r] # <<>>
  /\ SealBlocks(r, written[r] \o inflight[r], FullBlocks(Len(written[r])))
  /\ written'  = [written EXCEPT ![r] = @ \o inflight[r]]
  /\ inflight' = [inflight EXCEPT ![r] = <<>>]

(***************************************************************************)
(* Completion, failure, cancellation or preemption of the request.         *)
(***************************************************************************)
Release(r) ==
  /\ allocations[r] # <<>>
  /\ ReleaseAllocation(r)
  /\ written'  = [written EXCEPT ![r] = <<>>]
  /\ inflight' = [inflight EXCEPT ![r] = <<>>]

Next ==
  \E r \in Request :
    \/ \E prompt, text \in Texts : Admit(r, prompt, text)
    \/ \E text \in Texts : Grow(r, text)
    \/ Commit(r)
    \/ Release(r)

Spec == Init /\ [][Next]_vars

-----------------------------------------------------------------------------
(***************************************************************************)
(* Type invariant.  A table never holds a value outside the pool and no    *)
(* reference count goes below zero.                                        *)
(***************************************************************************)
TypeOK ==
  /\ pool \in Pool
  /\ allocations \in [Request -> Seq(BlockId)]
  /\ written  \in [Request -> Seq(Token)]
  /\ inflight \in [Request -> Seq(Token)]

Holders(b) == {r \in Request : b \in Range(allocations[r])}

(***************************************************************************)
(* Every block is either free or allocated, and it is free exactly when    *)
(* its reference count is zero.                                            *)
(***************************************************************************)
Partition ==
  /\ pool.free \cap pool.allocated = {}
  /\ pool.free \cup pool.allocated = BlockId
  /\ \A b \in BlockId : b \in pool.free <=> pool.ref_cnt[b] = 0

(***************************************************************************)
(* The reference count of a block is the number of requests whose table    *)
(* holds it: no block leaks when a request ends, and none is freed while a *)
(* request still reads it (reserve, retain_shared and release_blocks       *)
(* balance over every order of admissions, seals and releases).            *)
(***************************************************************************)
RefCounts == \A b \in BlockId : pool.ref_cnt[b] = Cardinality(Holders(b))

(***************************************************************************)
(* The map from hashes to blocks and the states of the blocks agree, and   *)
(* no free block is reachable through the map.                             *)
(***************************************************************************)
SealedIndex ==
  /\ \A e \in pool.sealed : pool.state[e[2]] = Sealed(e[1])
  /\ \A b \in BlockId : IsSealed(pool, b) => <<pool.state[b].hash, b>> \in pool.sealed
  /\ \A e, f \in pool.sealed : e[1] = f[1] => e[2] = f[2]
  /\ \A b \in pool.free : pool.state[b] = Writable(None)

(***************************************************************************)
(* reuse_and_reserve takes the private blocks before it retains those of   *)
(* the plan: whatever it takes, the plan's blocks are still sealed, so     *)
(* that no call fails half-way, with blocks reserved that no table holds.  *)
(***************************************************************************)
PlansCanBeRetained ==
  \A r \in Request, prompt \in Texts, count \in 0 .. NumBlocks :
    \A k \in 0 .. Len(prompt) : \A ids \in LowestFree(pool, count) :
      IsReuse(pool, prompt, k) =>
        CanRetain(Reserve(pool, ids, r), Range(ReusePlan(pool, prompt, k)))

(***************************************************************************)
(* No table holds a block twice.                                           *)
(***************************************************************************)
TableInjective == \A r \in Request : IsInjective(allocations[r])

(***************************************************************************)
(* A table covers the cached and in-flight tokens of its request with no   *)
(* block to spare, and a request with no tokens holds no block.            *)
(***************************************************************************)
TableCoversTokens ==
  \A r \in Request :
    Len(allocations[r]) = RequiredBlocks(Len(written[r]) + Len(inflight[r]))

(***************************************************************************)
(* A full block of a request is sealed under the hash of the request's own *)
(* prefix, and a partial one is writable and belongs to that request: a    *)
(* shared block holds what every request that shares it computed, and no   *)
(* request writes into a block another one reads                           *)
(* (docs/rust-control-plane.md:83, "must never write into an immutable     *)
(* cached block").                                                         *)
(***************************************************************************)
TableContents ==
  \A r \in Request : \A i \in DOMAIN allocations[r] :
    pool.state[allocations[r][i]] =
      IF i * BlockLen <= Len(written[r])
      THEN Sealed(PrefixHash(written[r], i))
      ELSE Writable(r)

CacheInv ==
  /\ TypeOK
  /\ Partition
  /\ RefCounts
  /\ SealedIndex
  /\ TableInjective
  /\ TableCoversTokens
  /\ TableContents
=============================================================================
