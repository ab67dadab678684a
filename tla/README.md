# TLA+ specifications of einf

einf is a small LLM inference engine: a Rust control plane decides which tokens of which
requests are computed in a step and which blocks of the KV cache hold them; a Python/CUDA
data plane computes them, and two speculative engines decode a single request with the
help of a draft model. Attention, the mixture of experts and the 4-bit weights have
kernels of their own. This directory specifies the parts whose correctness depends on the
order of events or on index arithmetic, checks them with TLC, and proves the invariants of
the KV cache, the scheduler, the server, the speculative engines, the staging buffers and
the attention pipeline with TLAPS.

    tlc -config MCServer.cfg MCServer.tla
    tlapm KvCacheProofs.tla
    tlapm ServerProofs.tla
    tlapm KernelsProofs.tla
    tlapm ExecutorStagingProofs.tla
    tlapm EngineStagingProofs.tla
    tlapm SpecChainProofs.tla
    tlapm SpecTreeProofs.tla

## 1. The system

| Component | Source | State | Operations |
|---|---|---|---|
| Block pool | `crates/einf-control/src/block_pool.rs` | free and allocated sets, per block a reference count and `Writable{writer}` or `Sealed{hash}`, the map from hashes to sealed blocks | `reserve`, `retain_shared`, `reuse_and_reserve`, `release_blocks`, `seal_block`, `sealed_block` |
| KV cache manager | `kv_cache.rs` | the pool, a block table per request | `plan_reuse`, `reserve_to`, `seal_blocks`, `release` |
| Request | `request.rs` | state, generated tokens, `cached_len`, arrival index | `admit`, `advance`, `preempt`, `fail`, `cancel` |
| Scheduler and policies | `scheduler.rs`, `policy.rs`, `execution_plan.rs` | the requests, `waiting`, `running`, `outstanding`, `next_arrival` | `submit`, `cancel`, `schedule`, `apply_result`, `fail_batch` |
| LLMServer | `src/einf/lib.py` | none | `run_once`, `run_until_idle` |
| Torch executor | `executors/torch/executor.py`, `cache/storage.py` | the KV storage (slots), pinned and device staging buffers | `execute`, `write_slots`, `gather_context` |
| Batch metadata | `executors/torch/input.py`, `flashinfer_attn.py`, `decode_graph.py` | arrays that outlive a batch | `from_plan`, `ModelInputPool.build`, `build_paged_kv_csr`, `_fill_from_plan`, `_fill` |
| Decode graph | `executors/torch/decode_graph.py` | captured graphs by bucket, static buffers | `try_replay_plan`, `try_replay` |
| Attention planning | `executors/torch/flashinfer_attn.py` | wrapper and CSR buffers | `plan`, `plan_decode_bucket` |
| Chain engine | `spec_runner.py`, `speculative.py` | per model a KV cache, `context_len`, `pending_token`, draft logits; pinned CSR staging and its fence | `prefill`, `step`, `generate` |
| Tree engine | `spec_tree.py` | the same, and the tree of a step | `prefill`, `_expand_draft`, `step`, `generate` |
| Bindings | `crates/einf-control-py/src/lib.rs` | the wrapped scheduler | conversions |
| Attention kernels | `dsl/flash_attention.py`, `flash_attention_single_tile.py`, `online_softmax.py`, `online_softmax_layout.py` | per CTA the stages of K/V tiles in shared memory, per warp registers and copy groups | prefetch, wait, compute and refill a stage; the online softmax update |
| Mixture of experts | `triton_moe.py`, `triton_ops.py` | none | routing, `moe_align_block_size`, two grouped GEMMs, `silu_and_mul`, combine |
| W4A16 weights | `dsl/w4a16_pack.py`, `ops/csrc/marlin/` (vendored) | packed words and scales | quantize, pack, unpack, dequantize |
| Model runners, sampler | `qwen.py`, `model_runner.py`, `sampler.py` | weights | floating-point computation |

**How they interact.** A client submits requests. `LLMServer.run_once` calls `schedule`,
which reserves blocks and returns a `BatchPlan` (a copy: ids, tokens, start positions,
block tables); the scheduler remembers it as `outstanding`. The executor computes the plan
on the KV storage. `apply_result` advances the requests of the batch, seals the blocks
they completed and releases those that ended; if the executor raised, `fail_batch` fails
them. Between `schedule` and the answer the client may submit and cancel. Every method of
the scheduler takes `&mut self`: calls do not overlap. The executor and the engines
enqueue copies and kernels on one CUDA stream, which runs behind the host. The engines do
not use the scheduler: each runs one request on KV caches of its own. A kernel is launched
by a model runner; the warps of one CTA share its shared memory and meet at
`sync_threads`.

**What is hard.** Blocks are shared between requests by the hash of the prefix they hold,
and two requests may compute the same block at once. Under pressure `schedule` preempts
running requests while it walks over a snapshot of them, and may admit them again in the
same call. A preempted request keeps its generated tokens but loses its cache, and
computes both again in chunks. The executor reads a plan that was made before
cancellations. A step can fail after it wrote part of its KV. Graph replays write padding
rows into a block of the storage. Pinned buffers are refilled while copies from them may
still be in the stream. A speculative step leaves rejected KV in two caches, and must
leave them so that what follows reads committed text only. The attention kernel overlaps
copies into one stage of shared memory with the use of another, and each warp uses rows
that other warps copied. Three layouts of a fragment, two permutations of packed weights
and the padded rows of the expert grid have to fit each other without a check at run time.
The list with source lines is `hazards` in `PROJECT.json`.

**What makes each component correct.**

- Pool and manager: reference counts equal the number of holders; free, allocated and the
  hash map agree; a table is never shared where it is written; a full block holds the
  tokens of every request that shares it.
- Scheduler: a request is in the queue of its state; a plan stays true until it is
  answered; FCFS order survives preemption; the first request of a policy is not dropped;
  every request ends; output is never taken back.
- Server and executor: the KV a request reads is that of its own context.
- Metadata and decode graph: however it is built, the attention of a request reads the
  slots of its own context; padding does not touch blocks of requests.
- Staging: a kernel reads the inputs of its own call, an answer has its own tokens.
- Speculative engines: the output is that of the target alone, whatever the draft
  proposes; both caches hold the committed text between steps; the draft logits that
  acceptance uses are those the proposals were drawn from; `generate` ends.
- Attention: warps meet at the same barrier; no stage changes under a reader; a row of the
  output is the softmax over the keys up to its position, and every row is written.
- Experts and weights: the fast computation is its reference.

## 2. Modules

| Module | Models | |
|---|---|---|
| `BlockPool` | `block_pool.rs` | operators from a pool to a pool |
| `KvCacheManager` | `kv_cache.rs` | actions on `pool` and `allocations` |
| `KvCache` | the manager with any client that calls it in the scheduler's order | the abstract specification: `Admit`, `Grow`, `Commit`, `Release` |
| `KvCacheProofs` | | theorems about `KvCache` |
| `Scheduler` | `scheduler.rs`, `request.rs`, `policy.rs` | uses `KvCacheManager`; implements `KvCache` |
| `ModelInput` | the metadata of `input.py`, `flashinfer_attn.py`, `decode_graph.py` | operators from a plan to arrays; `Input` in `Server` |
| `Server` | `lib.py`, `executor.py`, `storage.py`, `decode_graph.py` | extends `Scheduler` with the KV storage |
| `ServerProofs` | | theorems about `Scheduler` and then about `Server`; instantiates `KvCacheProofs` |
| `GpuStream` | a CUDA stream, external | operations in order, at any time after the host enqueued them |
| `ExecutorStaging` | `executor.py`, `input.py`, `decode_graph.py`, `flashinfer_attn.py` | extends `GpuStream` with the staging of `execute` |
| `EngineStaging` | the CSR staging and fence of `spec_runner.py`, `spec_tree.py` | extends `GpuStream` |
| `ExecutorStagingProofs`, `EngineStagingProofs` | | theorems about `ExecutorStaging` and `EngineStaging` |
| `Decoding` | what speculative decoding promises | abstract: the target decodes token by token |
| `SpecEngine` | what both engines share: tracks, forward pass, `prefill`, `generate` | implements `Decoding` through `Output` |
| `SpecChain` | `step` of `spec_runner.py`, `speculative.py` | extends `SpecEngine` |
| `SpecTree` | `_expand_draft` and `step` of `spec_tree.py` | extends `SpecEngine` |
| `SpecEngineProofs` | | lemmas about what both engines share |
| `SpecChainProofs`, `SpecTreeProofs` | | theorems about `SpecChain` and `SpecTree`; extend `SpecEngineProofs` |
| `FlashAttention` | one CTA of `flash_attention.py` | warps, asynchronous copies, barriers |
| `KernelsProofs` | | theorems about `Kernels` and what it extends |
| `OnlineSoftmax` | the update of m, l and O over lanes and tiles, and the register layouts | operators, with the direct softmax |
| `MoE` | `triton_moe.py`, the routing and `silu_and_mul` of `triton_ops.py` | operators, with the references of the same files |
| `W4A16` | `w4a16_pack.py`, and how the Marlin kernel reads the format | operators |
| `Kernels` | a launch | composes the four: the CTA runs, or one computation has one input |
| `MCKvCache`, `MCScheduler`, `MCServer`, `MCExecutorStaging`, `MCEngineStaging`, `MCSpecChain`, `MCSpecTree`, `MCKernels` | | instances for TLC |

### State

A pool is a record with the fields of the Rust struct; `ref_cnt` and `state` are functions
on block ids. `allocations` maps a request to its table, `<<>>` for none. The fields of a
request are functions on request ids. `waiting` is a sequence; `running` is a set, because
every reader of the Rust vector sorts it (`ordered_running_ids`) or looks one id up.
`batch` is the list of selected items while `schedule` runs (its ids are `protected`),
`outstanding` when no call is in progress, and the items still to visit while
`apply_result` or `fail_batch` run.

In the engines the page tables are the identity, so a slot is a position. `kv` maps a
track to its cache and a slot to the text its KV was computed from. A row of a forward
pass has a token, a slot, a RoPE position and the set of slots its mask shows; `RowText`
says of which text its KV and logits are, and that is `<<>>` unless mask, positions and
cached slots agree. A node of the tree is its position in `tree`, from 1; its mask is a
set of nodes. In the staging modules a buffer holds the number of the call whose values it
holds.

In `FlashAttention` each warp has a program counter, the loop variable `kv`, the next tile
it copies (`kv_next`), the number of copy groups it committed and the copies that have not
landed. A row of K or V in shared memory or in registers is the position of its key; a row
of the accumulator is the set of `<<key, K row, V row>>` that count in it, so a tile that
was overwritten, half copied or folded twice shows.

### Steps

Calls do not overlap, so `phase` says where the call in progress is. One step is one turn
of a loop: `ScheduleRunning`, `Preempt`, `FailRunning` and `SkipRunning` for the running
loop of `schedule`; `AdmitWaiting` for the waiting loop; `ApplyItem` and `ReleaseFinished`
for `apply_result`; `FailItem` for `fail_batch`. `Submit` and `Cancel` are one step each
and happen in `"idle"` only. Properties hold in the middle of a call too unless they say
otherwise.

In the engines a step is one forward pass and what is done with its logits:
`PrefillTarget`, `PrefillDraft`; `DraftPropose`, `DraftLastPass`, `Verify` of the chain;
`ExpandRoot`, `ExpandLevel`, `Verify`, `Accept` of the tree; `AppendToken`, `Return` of
`generate`. In the staging modules the steps of the host interleave with `StreamRuns`,
which runs the operation at the head of the stream.

`Server` adds the steps of `run_once`: `ExecuteEager`, `ExecuteGraph` or `ExecuteRaises`,
then `Answer`, or `RejectResult` for a result that `apply_result` refuses. That exception
leaves `run_once` with the batch still outstanding, and `schedule` raises from then on
(`RunOnceRaises`).

A step of a warp in `FlashAttention` is what it does between two points where another warp
or a copy can interfere: issuing a tile (`Prefetch`, `IssueNext`), a wait for its own copy
groups (`WaitQ`, `WaitTile`), a read of a tile into registers (`ReadK`, `ReadV`), `Fold`,
and the way of O through shared memory (`WriteO`, `CopyOut`). `Land` is one copy that
arrives, in any order and at any time; `SyncThreads` lets all warps pass when each is at
some barrier, whichever.

A block's loop (`reserve`, `retain_shared`, `release_blocks`, `seal_blocks`) visits
pairwise different blocks, so it is one simultaneous change of them. `TableInjective` is
what makes that right, and it is proved.

### Abstractions

- *Hashes.* `hash_tokens` chains SHA-256 over the prefix. A hash is modelled by the prefix
  it is computed from, so collisions do not exist.
- *Rejected calls* (unknown id, wrong state, stale or malformed result) change nothing and
  are not steps of `Scheduler`. `schedule` errors other than `InsufficientBlocks` are
  unreachable from the states of the model.
- *Left out:* completion reason, error text, sampling parameters, sample index (the number
  of generated tokens) and step ids.
- *Model and sampler:* any token of `OutToken` may be sampled, and any item may be
  answered with `is_eos`; a result lists the items in any order.
- *KV contents:* the KV of a position depends on all tokens up to it, so a slot holds the
  token prefix it was computed from, or `<<>>` for anything else (unwritten, written by a
  step that raised, written by a padding row). A forward pass that reads an incoherent
  prefix writes `<<>>`.
- *Draft model:* nothing is assumed of it; any token may be proposed. The target is a
  function of the text for greedy decoding and a free choice for sampling. Sampling may
  stop at any draft and return any token in its place, the rejected one too, since
  `accept_reject_sampling` falls back on the target's distribution where the residual is
  zero everywhere; with what probability a token is accepted is left out.
- *Staging:* one bucket of the decode graph stands for all of them, which share their
  staging. Growing a buffer replaces it and is left out.
- *Attention:* a finite `NEG_INF` is kept, because a fully masked tile is folded with
  weight one until a live key arrives; the rest of the arithmetic of a row is
  `OnlineSoftmax`, where scores are small integers and `exp` is 2^x in a fixed point that
  loses nothing. Swizzles, `ldmatrix` and bfloat16 are left out.
- *Matrices:* an entry of a matrix in `MoE` is the set of products it sums, with who they
  are of, and what `index_add_` adds to a place is a bag: the order of a sum is left out.
  Routing weights are fractions, and the factor `scaling`, which all have, is left out. In
  `W4A16` weights are integers and a scale stays the rational `amax/8`: it is not rounded to
  the type of the weights, nor supplied by the caller, and every matrix has groups, as
  einf's have (`group_blocks = -1` of the Marlin kernel is left out).
- *Integers:* lengths are far below 2^63; `checked_add` never fails.

## 3. Runs

| Run | Instance | Checks | States |
|---|---|---|---|
| `kv_cache` | 3 requests, 4 blocks of 2 tokens, texts that share one block and part in the second | type, `RefCounts`, `SealedIndex`, `PlansCanBeRetained`, `TableInjective`, `TableCoversTokens`, `TableContents` | 18,258 |
| `scheduler_decode_first` | 3 requests, 2 blocks, fair | `FirstKeepsRunning`, `EveryRequestEnds`, `RefinesKvCache` | 28,690 |
| `server` | 3 requests, 3 pool blocks, 4 storage blocks, bucket 2, budget 4, chunk 2, FCFS | `Queues` (with the scheduler's type), `BatchIsCurrent`, `WritesArePrivate`, `ArrivalOrder`, `CacheHoldsContext`, `MetadataAgrees`, `NoIdleStall`, `OutputIsStable` | 169,356 |
| `spec_chain` | K = 2, 4 tokens to generate, 5 blocks of 2 tokens, 3 tokens one of which is `Eos`, 4 prompts, fair | `TargetHoldsText`, `DraftHoldsText`, `LogitsMatchProposals`, `ImplementsDecoding`, `GenerateEnds` | 16,493 |
| `spec_tree` | budget 4, branch 2, depth 3, 6 blocks of 2 tokens, 2 tokens one of which is `Eos`, 6 prompts, fair | `TargetHoldsText`, `ScratchInBounds`, `ImplementsDecoding`, `GenerateEnds` | 5,920 |
| `staging` | 4 calls of `execute` | `InputsOfTheCall`, `AnswerOfTheCall` | 100,073 |
| `engine_staging` | 5 forward passes | `PassReadsItsCall` | 532 |
| `kernels` | 2 warps, tiles of 4 queries and 2 keys, 8 queries after 0 or 2 cached keys, 1 to 3 stages, fair; and the inputs of `MCKernels` | `BarrierAligned`, `StageIsStable` (with the type), `RowsAreCausal`, `LaunchedRowsAreWritten`; `SoftmaxIsDirect`, `RegisterViewsAgree`, `RoutingIsTopK`, `ExpertsAreApplied`, `UnpackedIsNearest`, `OperandsMeetTheirScales` | 29,613 |
| `final_chunk` | 3 requests, 3 blocks, budget 4, chunk 2 | `SamplesOnTheFinalChunk` is violated | |
| `capacity` | 1 block, fair | `BeyondCapacityFails` is violated | |
| `dummy_block` | 3 requests, 3 pool blocks and 3 storage blocks | `GraphAvoidsDummy` is violated | |
| `draft_leaf` | as `spec_tree` | `DraftHoldsText` is violated | |

**Why the bounds are enough.** Blocks of two tokens are the smallest with partial blocks.
Three requests let one be preempted, one be protected and one wait. In `kv_cache` two
texts share a full block and part inside the second, and four blocks are fewer than three
requests can ask for, so reuse, duplicates, divergence and exhaustion all occur. In
`server` the prompts share a first block, one needs two chunks, and three blocks do not
hold all; one sampled token is enough for generated blocks to be shared too. Its bucket
list is scaled down from 1..64 to {2}, so that a batch of one is padded. In
`scheduler_decode_first` two blocks make a decode token preempt a prefill that arrived
earlier, and one request outgrows the pool when it generates all four tokens. Symmetry is
used for `kv_cache` only, where requests are interchangeable.

With K = 2 zero, one or all drafts are accepted; four tokens need up to three steps of
every length and overrun `MaxNewLen` inside a step. The prompts leave both caches just
room for the output, or the draft's one token less, or only the target's room for the
prompt, or neither, so that prefill raises for either cache and a step for the draft's;
`Eos` comes from prefill, inside a step and at its end. The target's next token is a
function of all tokens before it, so a wrong text would show. In `spec_tree` three levels
with a budget of four have siblings, cousins, chains of three and a level that the budget
cuts short; the prompts fit both caches, or the target's only, or neither; `Eos` comes
from prefill, inside an accepted path and after one. Four calls of `execute` are enough
for a refill to meet the copies of two calls before it, and for a graph that fails in
between.

In `kernels` the second tile of queries sees up to five tiles of keys, more than the
stages, so each stage is used again; the rows of one warp see nothing of the last tile;
and each warp copies half of every tile the other reads. With one stage the copies are
waited for at once, with two nothing may stay in flight, with three one tile may. The
proofs remove these bounds. About nine thousand inputs cover: rows of two or three tiles
in four or two lanes, whole tiles masked first; accumulators of one or two by two, four
and eight atoms; two or three experts (one lane of padding) with ties and biases of both
signs, every `top_k` (three leaves one slot of padding), weights renormalised or not;
every choice of experts of three tokens out of three and two tokens out of four, with more
and fewer pairs than a block; weights whose largest entry rounds past 7; every nibble a
thread of the Marlin kernel reads.

Deadlock is checked in the passing runs of the scheduler, the cache and the server. In the
others the system stops: `generate` returns or raises, the calls of the staging runs are
bounded by `MaxCalls`, and a CTA ends.

**What `staging` assumes.** Its batches are mixed with and without sampling, and
decode-only with sampling. A decode-only batch that samples nothing is a prefill chunk of
one token alone, which needs a budget or chunk of one token; the graph's staging has no
event and would not be safe then. Sampling does not raise.

**Fairness.** `FairSpec` assumes that a call that started returns, that `schedule` is
called again while no batch is outstanding and that a batch is answered (`run_until_idle`
and the serving loops do both). Nothing is assumed of clients: no weak fairness on
`Submit`, `Cancel` or `FailBatch`. The engines have weak fairness on their next step:
`generate` is a loop of one thread, and each forward pass returns. In `FlashAttention`
each warp that can take a step does, warps that all wait at a barrier pass it, and a copy
that was issued lands: the hardware schedules resident warps and completes `cp.async`. The
staging modules need none.

## 4. What the violated runs show, and what the models take over

1. `final_chunk`. `Request::work_is_decode` compares `cached_len` with the prompt length.
   A request that generated tokens and was preempted recomputes prompt and generated
   tokens in chunks; once the prompt is cached again it counts as decode work, so each
   further recomputed token is scheduled as if it were the newest and is sampled from
   (`scheduler.rs:213-226`, `need_sample = scheduled_len == pending`). The README says
   "chunked prefill with sampling only on the final chunk".
2. `capacity`. In the waiting loop `InsufficientBlocks` breaks the loop even when nothing
   is running. A request whose first chunk is larger than the pool is never failed, and
   those behind it never run. With a chunk that fits, a request too large for the pool
   fails as a running request, as the test
   `test_single_request_cache_requirement_beyond_capacity_fails` says.
3. `dummy_block`. `ModelInput.is_decode_only` is documented as "every query is a single
   token AND no block table touches the graph's dummy page", but the input pool sets it
   from the token counts alone. If the pool has as many blocks as the storage, a plan that
   uses the last block is declined by `try_replay_plan` and then replayed by `try_replay`,
   with padding rows that write the same block. `server` shows that the cache is right
   when the storage has one block more than the pool.
4. `draft_leaf`. The nodes of the last level are never forwarded on the draft, but the
   gather commit copies their slots into the draft's live context, whose KV is not that of
   the committed text from there on. The output is not affected; the draft's later
   proposals are.

More observations, met while modelling, have no run of their own. The first three are
built into the models.

- `generate` compares the tokens of a step with `eos_token_id`, but not the token of
  `prefill` (`spec_runner.py:402`): an output that starts with the end-of-sequence token
  goes on. `Decoding` allows it, so that `ImplementsDecoding` is about everything else.
- `ModelInputPool` records its event when `build` has enqueued its own copies; `plan`
  copies the pinned lists `qo_indptr`, `kv_indptr` and `last_page_len` later. After a
  batch that samples nothing nothing waits for those, and the next `build` refills the
  lists. `spec_runner.py:71-76` calls this "the hazard the pool fences as
  _wait_for_previous_copies"; the fence of the engines, recorded after the forward pass,
  does cover it (`engine_staging`). Whether FlashInfer's `plan` copies asynchronously is
  decided outside the repository, so `InputsOfTheCall` leaves these lists out; with them
  it is violated in two calls.
- *A rejected result.* `run_once` catches what `execute` raises, not what `apply_result`
  raises (`lib.py:16-22`). A malformed result leaves the batch outstanding, so every later
  `schedule` raises, and nothing fails the batch or asks for another result. In `Server`
  only `Submit` and `Cancel` follow `RejectResult`; `BatchIsCurrent` still holds, but no
  request of the batch ends. Nothing in the repository says what should happen, so there is
  no claim for a run to check.
- *Eight warps.* `copy_thr_layout` of `flash_attention.py:144` has stride 32 between its
  rows for 8 warps (8 in the other cases), so it names threads up to 999 in a CTA of 256,
  although the launch assertion (line 585) accepts 8 and `benchmarks/README.md:136`
  proposes it. No test launches 8. `Copier` is the layout for 1, 2 and 4 warps.
- The launch assertions (lines 607 and 612) accept `head_dim = 96` with one warp, which
  the copy tile does not divide.
- `w4a16_pack.py:121` says that the rounded weight "fits signed INT4 [-8,7]"; the largest
  positive weight of a group rounds to 8 and saturates. `UnpackedIsNearest` holds because
  the clamp is modelled.
- `load_state_dict` calls `pack_gate_up` on every layer's MLP (`qwen.py:734`), which the
  MoE layer does not have; the cache `_packed` (`qwen.py:252`) is not dropped when the
  weights are loaded again; `quantize_runner_w4a16` takes a `group_size` while
  `marlin_linear` passes a fixed one (`w4a16.py:72`).
- A second `generate` of one engine starts at the old `context_len`
  (`spec_runner.py:400`); the budget test of the tree counts the nodes of a level twice
  (`spec_tree.py:542`).

## 5. Proofs

`KvCacheProofs` proves, for every finite set of requests, every number of blocks, block
length and set of texts:

- `TypeCorrect`: `Spec => []TypeOK`;
- `NoLeak`: `Spec => [](Partition /\ RefCounts)`;
- `MapIsCurrent`: `Spec => []SealedIndex`;
- `PlansRetained`: `Spec => []PlansCanBeRetained`;
- `BlocksAreDistinct`: `Spec => []TableInjective`;
- `NoBlockToSpare`: `Spec => []TableCoversTokens`;
- `SharingIsInvisible`: `Spec => []TableContents`.

All follow from `CacheInvariant`, `Spec => []CacheInv`. `CacheInv` conjoins `Partition`
and the invariants of run `kv_cache` but `PlansCanBeRetained`, which follows: what a plan
names is sealed, so it is not free and not among the blocks reserved. No conjunct is
inductive alone. Counts go down by one in `ReleaseBlocks`, which is right only if the
holders of a block lose exactly one member: that needs `TableInjective` and `RefCounts`. A
reused block is found through the map, so it is sealed and not free only by `SealedIndex`
and `Partition`. Two tables that share a block agree on the tokens before it only by
`TableContents`, and that is also why the chunks of one `seal_blocks` call cannot collide
with blocks already in the table. `TableCoversTokens` says that every block to be sealed
exists and is the caller's own.

The proof has one lemma per operation of the pool (`Reserve`, `RetainShared`, `Publish`,
`ReleaseBlocks`) or of the manager, one step lemma per action and one step per conjunct.
The assumptions are those of the modules: `Request` is finite and does not contain `None`,
`NumBlocks` is a natural number, `BlockLen` is positive, `Texts` are sequences of tokens.

`ServerProofs` first proves of `Scheduler`, for every pool, block length, finite set of
requests, prompts, budget, chunk and either policy:

- `QueuesAgree`, `BatchStaysCurrent` and `BatchWritesArePrivate`: the invariants `Queues`,
  `BatchIsCurrent` and `WritesArePrivate`;
- `ReservationsHold`: a running request holds the blocks of what is cached and in flight of
  it and no more (no run checks this; it is `TableCoversTokens` seen by the scheduler);
- `SchedulerImplementsKvCache`: `Spec => RefinesKvCache`. Every call of the scheduler on
  its cache manager is one that `KvCache` allows, so the theorems above hold of the
  scheduler's cache;
- `OutputStaysStable`: the action property `OutputIsStable`;
- `ArrivalOrderHolds`: `ArrivalOrder`, assuming `Policy = "Fcfs"`;
- `FirstIsKept`: the action property `FirstKeepsRunning`, under either policy;
- `NobodyIsLeft`: the action property `NoIdleStall`, assuming `FirstChunksFit`.

The inductive invariant `SchedInv` (`SchedulerInvariant`) conjoins `Queues`,
`BatchIsCurrent` and the cache invariant with four facts that the properties do not say.
`Lengths`: a running request has something left to compute, so a chunk is never empty and
a text never outgrows prompt and output. `ItemsFit`: an item that does not sample leaves
context to compute, so a request that is not finished is not complete either. `Held`: a
running request has something cached or in flight, hence blocks for `release`. `Loop`: the
snapshot that a loop walks over visits each request once and none that is in the batch
already; without it one request could be scheduled twice in a call. The refinement adds no
mapping of its own: `written` and `inflight` of `KvCache` are the context that is cached
and the items in flight. `ArrivalOrder` needs `ArrivedInv`, which says how far the running
loop is in the order (`LoopOrder`): preemption takes the last of what the loop has not
passed, so what is put back at the head of `waiting` arrived before what is there and
after what runs.

The last two rest on `TurnInv` (`TurnInvariant`): while the running loop runs, whatever has
had its turn comes before what has not in the order of the policy (`TurnOrder`), although
under `DecodeFirst` that order depends on cached lengths, which preemption resets; and a
call with an empty batch has its whole budget left and, after the running loop, nothing
running (`NothingYet`). A request that is first of the policy can then not be a victim of
another, and it is its own victim only when nothing else runs. With at most one table in
use all other blocks are free (`FreeBlocks`, from `Partition` and `RefCounts`), so what it
lacks the pool does not have. For the same reason the head of `waiting` is admitted after
a running loop that scheduled nothing (`HeadFits`), if its first chunk fits the pool.
`FirstChunksFit` asks this of the chunk of any request at its longest, since a preempted
one computes its generated tokens again; run `capacity` shows what happens otherwise.

`ServerProofs` then proves of `Server`, for the same constants and every storage and set
of buckets:

- `ServerImplementsScheduler`: `ServerSpec => Spec`. Execution, failure and rejected
  results are stutters or steps of `Scheduler`, so its safety theorems hold of the server;
- `CacheHolds`: `ServerSpec => []CacheHoldsContext`, assuming
  `Buckets # {} => CacheBlocks > NumBlocks`. This is the hypothesis that run `dummy_block`
  shows to be needed: the last block of the storage must not be one of the pool;
- `MetadataIsOne`: `ServerSpec => []MetadataAgrees`.

`CacheHoldsContext` is not inductive: it speaks of running requests, and a block can be
shared with a request that comes later. The invariant `StorageInv` speaks of blocks
instead. `SealedHold`: a sealed block holds the KV of the prefix it is sealed under, by
whichever request it was computed and whether or not any still holds it. `TailsHold`: past
its sealed blocks a running request holds its own KV, up to the token that is counted as
cached or that a finished forward pass has computed (`Valid`). `ExecInv` ties the
executor's progress to the call it is in. A batch writes only writable blocks
(`WritesArePrivate`), so execution keeps `SealedHold`; no other request holds those blocks,
so it keeps the other tails; and a request that reads its own context computes its own KV
(`ComputedValue`), where `TableContents` says that a full block of its table is sealed
under its own prefix. Sealing turns a full tail into a sealed block, or drops it for a
sealed one with the same content. A step that fails leaves `Valid` at what was cached
before, so slots that were written in part are never counted.

`MetadataAgrees` compares five ways of building the same arrays. The plan joins a list for
each request, the pool writes the lists one after the other into arrays in which an
earlier batch left longer ones, the device compacts padded tables, and a decode graph is
filled with extra rows. All are related to one list of parts: an array is `Laid` when it
has the parts where the index pointers say, which determines it (`LaidUnique`). The pool's
loop is followed by `PartLaid`: the first `m` parts are in place and the array is still
long enough (`PutLaid`, `FillRequestStep`). For a graph, `PadRowIs` and `RowsPlanned` turn
the padding rows into items of one token on the dummy page, so that packing the rows
(`PackedGraph`) and padding and filling the tensors (`FilledGraph`) are again two ways to
build the metadata of a batch. `CsrReads` and `PassWrites` then read the slots back page
by page. What a batch of the scheduler contributes is in `BatchPlanned`: its tables cover
its tokens and no more (`TableCoversTokens`), and name a block once, so they fit the width
of the graph's table (`TableFitsCache`). The loops and pointers are recursive functions
over a range of numbers; facts about them are proved by induction on a set of numbers
(`SetInduction`, from `NatLessThanWellFounded`).

`KernelsProofs` proves of a CTA, for every number of warps and stages, tile size,
query length and cached prefix that `FlashAssumption` admits:

- `WarpsMeet`: `Spec => []BarrierAligned`;
- `TilesAreWhole`: `Spec => []StageIsStable`;
- `RowsHold`: `Spec => []RowsAreCausal`.

The invariant `FlashInv` has one conjunct that relates warps, `Stretch`: between two
barriers all warps are in the same stretch of the program and in the same iteration. The
rest is about one warp. `Issued` gives the numbers of its copy groups and of the next
tile. `InFlight` says which tiles its copies can still be for, `Landed` that what it
copied of the other tiles in the window is in its stage, `Registers` what it has read,
`Folded` what its rows have seen. Three arguments carry the proof. The wait leaves only
the `SteadyWaitGroups` last groups in flight, and those are of later tiles; with the
barrier after it this holds of all warps' copies. Tiles in flight and the tile that is
read lie in a window no longer than the number of stages, so they never share one
(`StagesApart`). Each row has one copier and one owner, and `NumVisible` reaches the last
key of the last row, while the first tile has a live key for each, so the weight-one
prologue of a masked tile never occurs in a row that is written.

It also proves five of the computations, for every input that `KernelsAssumption` admits:

- `ViewsOfRegisters`: `LaunchSpec => []RegisterViewsAgree`;
- `OperandsMeet`: `LaunchSpec => []OperandsMeetTheirScales`;
- `UnpackedNearest`: `LaunchSpec => []UnpackedIsNearest`;
- `Routing`: `LaunchSpec => []RoutingIsTopK`;
- `ExpertsApplied`: `LaunchSpec => []ExpertsAreApplied`.

A launch keeps its input (`LaunchStays`), so each is a fact about one input. A register
number is a number in a mixed base, and its modes are the digits (`RegisterUnique`,
`RegisterHasModes`); `OneWriter` counts the lanes of a row. `ReadIs` computes which weight
the permuted index of an operand names. It also shows that no weight is missed, so the
inverse that `pack` scatters is one (`PermHasInverse`). `DigitOfWord` reads each nibble
back from a word whose highest digit may be negative. `RoundTrip` follows the index of a
weight through tile, permutation and word. The scale needs the maximum of a group to exist
(`LargestSeen`, by induction on how much of the group was seen), and `QuantizedIsNearest`
compares the chosen level with each other one, the clamped +8 included.

For the routing, an expert's rank is how many come before it. There is one expert of each
rank below the number of experts (`OneOfEachRank`); after `i` rounds exactly the experts of
a lower rank are masked (`RoundsAre`), and no lane past the last expert is ahead of one
that is not (`PaddingLast`), so the next argmax is the expert of rank `i` (`RoundTakes`).
With a bias this needs a biased score above the mask value, without one a score that is
not negative; with `top_k` at most the number of experts no round meets only masked lanes.
The slots past `top_k` are zero and add nothing to the sum that renormalises (`ZeroSlots`).

For the experts, the place of a pair in the stable sort is the number of pairs of lower
experts plus its turn among its own (`PlaceIs`), the runs of the experts are whole blocks
that do not overlap (`RunsAre`), so the rows of two pairs differ (`RowsDiffer`), the block
of a row is one of its expert (`BlockOfRow`), and every row is inside the grid, which has
one block more for each expert (`GridCovers`). `Alignment` collects this. With it an entry
of either GEMM at the row of a pair is the dot product of the reference (`GemmAt`,
`SecondAt`), and the combine adds each pair of a token once, as the reference does
(`Combined`, `Referred`); what the sentinel rows and the rows past the end hold is added
nowhere.

`KernelsAssumption` asks of a matrix what `_require_pack_shapes` checks, of an
accumulator that it has atoms (that `mma_n` is even is not needed), of a token that
`top_k` is at most the number of experts, which `moe_topk_softmax_triton` checks, and that
its scores are not negative and a biased score is above the mask value, which is infinite
in the code, and of a batch that it has a token and a slot and names existing experts.

`ExecutorStagingProofs` proves of `ExecutorStaging`, for every set of batches and number
of calls:

- `InputsAreOfTheirCall`: `SampledReplays => (Spec => []InputsOfTheCall)`;
- `AnswersAreOfTheirCall`: `Spec => []AnswerOfTheCall`;

and `EngineStagingProofs` of `EngineStaging` `PassesReadTheirCall`:
`Spec => []PassReadsItsCall`, for any number of forward passes.

`InputsOfTheCall` speaks of the head of the stream and is far from inductive: the stream
may hold the work of several calls, since a batch that samples nothing does not wait. The
invariant `InputsInv` gives each kernel in the stream where the values it will read come
from (`Fed`): from the staging, if a copy of the buffer comes before it in the stream, else
from the device, and there they must be its own call's. A step that enqueues must show
that no kernel behind an unfinished copy is robbed of its values by the refill
(`KernelsKept`, from `Spared`), and that its own kernel is fed; a step of the stream moves
every position down by one (`KernelsFedShifted`). What makes a refill harmless is which
operations may be left in the stream: none of the pool's copies once its event is reached
(`EventBehind`), and no replay, sampler or copy for one outside the call that waits for it
(`ReplaysWait`, `FillsWait`, `SamplersWait`). A bucket that failed is the exception in
`FillsWait`: the copies it leaves behind are harmless because no replay follows.

`SampledReplays`, that a batch for the decode graph samples, is the hypothesis that run
`staging` makes by its choice of batches (section 3); it is false only of a prefill chunk
of one token alone, and `ReplaysWait` fails then. `AnswersAreOfTheirCall` needs no
hypothesis.

For the engines, `PassInv` says that the stream is always what is left of the operations
of one pass (`Shape`), and what of that pass is on the device already (`Written`). Making
an input needs the event to be reached; the event is the last operation of a pass, so the
stream is empty then, and the pinned lists can be refilled.

`SpecChainProofs` proves of the chain engine, for every vocabulary, target, set of
prompts, number of proposals, block length and size of both caches:

- `TargetCacheHoldsText`: `Spec => []TargetHoldsText`;
- `DraftCacheHoldsText`: `Spec => []DraftHoldsText`;
- `LogitsMatch`: `Spec => []LogitsMatchProposals`;
- `ChainImplementsDecoding`: `Spec => ImplementsDecoding`.

`SpecTreeProofs` proves of the tree engine, for every finite vocabulary, budget, depth and
size of the caches:

- `NodesSeeTheirPath`: `Spec => []PathsSeen`, what the masks and depths of nodes mean;
- `ScratchStaysInBounds`: `Spec => []ScratchInBounds`;
- `TargetCacheHoldsText`: `Spec => []TargetHoldsText`;
- `TreeImplementsDecoding`: `Spec => ImplementsDecoding`.

`DraftHoldsText` is not among the theorems of the tree engine: run `draft_leaf` shows that
it is false there.

The invariants of the runs speak of the caches between steps; `ChainInv` and `SpecTreeInv`
follow them through a step. `EngineInv`, which both share, says which text a track's cache
holds in each phase. `DraftInv` adds that the draft's cache holds the text and the
proposals but the last, one position per pass, and `LogitsInv` that the rows of logits
kept so far are of the texts before each proposal. The verify pass is then one forward
pass over a cache that holds the text: `AppendedRows` shows what rows in order after it
leave. The accepted drafts are a prefix of the proposals, so advancing to them is right
for the target, and the draft's extra pass has written the position that `Retract` needs
when all are accepted.

A tree grows by nodes that have no child yet. That is why its invariant needs no induction
over paths: a path of the grown tree is a path of the old one, or such a path and a new
node at its end. `PathsSeen` says of every path that the mask of each of its nodes is the
part of the path up to it, and the depth its place on it; it is what makes the rows of a
path, taken alone, look to `RowComputes` like rows in order. `VerifiedInv` says that after
the verify pass the slot of a path's leaf holds the text followed by the path's tokens,
for all paths at once, so that the walk may choose any of them. A path goes down, so its
nodes' slots increase and none lies before its destination: `Gather`, which reads all
sources first, leaves the path's KV in order. `ScratchInBounds` follows from the bound on
the tree, which the count of a level keeps although it counts nodes twice, and from
`ScratchInv`: a tree is grown only where its whole budget fits behind the live text.

Both refinements map `Output` to the committed tokens that `generate` has appended, and
prove one step per action: a commit is a stutter, and appending one token is a step of
`Decoding` since the target picked each committed token after the text before it
(`EngineInv` says so of all that is committed and not yet appended).

The assumptions are the named `ASSUME`s of the modules, the policy in `ArrivalOrderHolds`,
`FirstChunksFit` in `NobodyIsLeft`, the size of the storage in `CacheHolds` and
`SampledReplays` in `InputsAreOfTheirCall`, and nothing else.

**Only model-checked:** `SoftmaxIsDirect` of `Kernels`, and liveness (`EveryRequestEnds`,
`GenerateEnds`, `LaunchedRowsAreWritten`). TLAPS does not prove liveness under fairness or
`ENABLED`. Induction over numbers is available for a set, as above, and so for a recursive
function, but the folds of the library (`FoldLeft`, `FoldFunction`), from which
`SoftmaxIsDirect` is built, take operators that the provers cannot instantiate. It
moreover holds as an equation only of inputs whose fixed-point products are exact, which
the run chooses; real rescaling is only close.

## 6. Not modelled

Model runners and samplers are floating-point code without state between passes.
`w4a16_gemm` raises `NotImplementedError`, `_derive_acc_rowcol_policy` has no caller, and
the pipeline of the Marlin kernel is vendored. The bindings convert values, and the loader
of the CUDA extension compiles. `FakeExecutor` is covered by the free choice of tokens.
`rollback_advance` and the undo log of `apply_result` matter only when a validated result
still fails, which no state of the model reaches. Graph capture is set-up code. Swizzles,
`ldmatrix` and bfloat16, the probabilities of rejection sampling and the statistics of the
engines are left out. An engine generates once, as every caller in the tree does.
Benchmarks and scripts drive the system and are not modelled.

## 7. Plan

1. Done: `BlockPool`, `KvCacheManager`, `KvCache`, `Scheduler`, `Server`; `KvCacheProofs`
   and the theorems about the scheduler (`ServerProofs`) with the refinement.
2. Done: speculative decoding (`Decoding`, `SpecEngine`, `SpecChain`, `SpecTree`).
3. Done: staging (`GpuStream`, `ExecutorStaging`, `EngineStaging`),
   `ExecutorStagingProofs` and `EngineStagingProofs`.
4. Done: results that `apply_result` rejects (`Server`); metadata (`ModelInput`);
   `ServerProofs`: `ServerSpec => Spec`, `CacheHoldsContext` and `MetadataAgrees`.
5. Done: the kernels (`FlashAttention`, `OnlineSoftmax`, `MoE`, `W4A16`) and
   `KernelsProofs`.
6. Done: the invariants of the engines and their refinement of `Decoding` as theorems
   (`SpecEngineProofs`, `SpecChainProofs`, `SpecTreeProofs`).
7. Left: the acceptance probabilities of `speculative.py`, over a small set of rational
   distributions: the law of the output is that of the target.
