------------------------------- MODULE Server --------------------------------
(***************************************************************************)
(* LLMServer.run_once (src/einf/lib.py) with the TorchExecutor             *)
(* (src/einf/executors/torch/executor.py): the scheduler's batches are     *)
(* executed on the paged KV storage, and the outcome is applied or the     *)
(* batch failed.                                                           *)
(*                                                                         *)
(* The KV of a position depends on every token up to it, so the content of *)
(* a slot is the sequence of tokens it was computed from; <<>> is anything *)
(* else (never written, or written by a failed step or a padding row).     *)
(* Layers, logits and the sampler are left out: any token may be sampled.  *)
(***************************************************************************)
EXTENDS Scheduler

CONSTANTS
  CacheBlocks,   \* KVCacheGeometry.num_blocks, chosen apart from NumBlocks
  Buckets        \* DECODE_GRAPH_BUCKETS; {} when there is no decode graph

ASSUME CacheAssumption == /\ CacheBlocks \in Nat /\ CacheBlocks >= NumBlocks
                          /\ Buckets \subseteq Nat \ {0}
                          /\ Buckets # {} => CacheBlocks >= 2

VARIABLES
  slots,   \* the KV storage, by physical slot
  exec     \* the execution of the outstanding batch

serverVars == <<schedVars, slots, exec>>

-----------------------------------------------------------------------------
\* The metadata that the execution of a batch is given.
Input == INSTANCE ModelInput

SlotId == 0 .. CacheBlocks * BlockLen - 1

Slot(table, position) ==
  table[position \div BlockLen + 1] * BlockLen + (position % BlockLen)

\* Mutant: every chunk is written at the start of the table.
PositionsFromZero(item) == 0 .. Len(item.input) - 1

Positions(item) == item.start .. item.start + Len(item.input) - 1

(***************************************************************************)
(* What the forward pass of an item leaves in its slots: its attention     *)
(* reads the positions before `start` through the block table, and the KV  *)
(* it writes continues what those hold.                                    *)
(***************************************************************************)
Reads(item) == [p \in 1 .. item.start |-> slots[Slot(item.block_table, p - 1)]]

Coherent(item) ==
  \A p \in 1 .. item.start :
    /\ Len(Reads(item)[p]) = p
    /\ IsPrefix(Reads(item)[p], Reads(item)[item.start])

Prefix(item) == IF item.start = 0 THEN <<>> ELSE Reads(item)[item.start]

Computed(item) ==
  [s \in {Slot(item.block_table, p) : p \in Positions(item)} |->
     LET p == CHOOSE p \in Positions(item) : Slot(item.block_table, p) = s IN
     IF Coherent(item) THEN Prefix(item) \o SubSeq(item.input, 1, p - item.start + 1)
                       ELSE <<>>]

RowSlots == UNION {DOMAIN Computed(batch[i]) : i \in DOMAIN batch}

Rows ==
  [s \in RowSlots |->
     LET i == CHOOSE i \in DOMAIN batch : s \in DOMAIN Computed(batch[i])
     IN Computed(batch[i])[s]]

(***************************************************************************)
(* The decode graph.  A batch of single tokens is padded to a bucket with  *)
(* rows that write the first slot of the last block of the storage.        *)
(* try_replay_plan declines a plan that touches that block; the executor   *)
(* then builds the input and calls try_replay, which does not look again   *)
(* (is_decode_only comes from is_decode_only_plan): both lead to a replay. *)
(***************************************************************************)
DummyBlock   == CacheBlocks - 1
IsDecodeOnly == \A i \in DOMAIN batch : Len(batch[i].input) = 1

Bucket(size) == {b \in Buckets : b >= size /\ \A c \in Buckets : c >= size => b <= c}

CanReplay == IsDecodeOnly /\ Bucket(Len(batch)) # {}

Padding ==
  [s \in IF Len(batch) \in Bucket(Len(batch)) THEN {} ELSE {DummyBlock * BlockLen} |-> <<>>]

\* What a replay that raised may have written beside the rows of the batch: its
\* padding rows, or nothing (also when there was no replay).
Tried == {<<>>} \cup (IF CanReplay THEN {Padding} ELSE {})

\* What two writes leave when `last` is the later one.
Over(last, first) ==
  [s \in DOMAIN last \cup DOMAIN first |-> IF s \in DOMAIN last THEN last[s] ELSE first[s]]

-----------------------------------------------------------------------------
ServerInit ==
  /\ Init
  /\ slots = [s \in SlotId |-> <<>>]
  /\ exec = "none"

Outstanding == phase = "idle" /\ batch # <<>> /\ exec = "none"

Store(writes) == slots' = [s \in SlotId |-> IF s \in DOMAIN writes THEN writes[s] ELSE slots[s]]

(***************************************************************************)
(* The eager forward pass (also after a replay that raised: the bucket is  *)
(* not tried again, and its rows are computed once more).                  *)
(***************************************************************************)
ExecuteEager ==
  /\ Outstanding
  /\ \E tried \in Tried : Store(Over(Rows, tried))
  /\ exec' = "eager"
  /\ UNCHANGED schedVars

(***************************************************************************)
(* A replay.  When a padding row and a request's row name the same slot,   *)
(* either may be the last to write it.                                     *)
(***************************************************************************)
ExecuteGraph ==
  /\ Outstanding
  /\ CanReplay
  /\ Store(Over(Rows, Padding)) \/ Store(Over(Padding, Rows))
  /\ exec' = "replayed"
  /\ UNCHANGED schedVars

(***************************************************************************)
(* execute raises: some items' slots may have been written in part, and    *)
(* the padding rows of a replay that raised before the eager pass did.     *)
(***************************************************************************)
ExecuteRaises ==
  /\ Outstanding
  /\ \E items \in SUBSET DOMAIN batch, tried \in Tried :
       Store(Over([s \in UNION {DOMAIN Computed(batch[i]) : i \in items} |-> <<>>], tried))
  /\ exec' = "raised"
  /\ UNCHANGED schedVars

(***************************************************************************)
(* The outcome is applied, or the batch failed.  A result that             *)
(* apply_result rejects leaves everything as it was, the batch outstanding *)
(* too, and the exception leaves run_once; from then on schedule raises.   *)
(***************************************************************************)
Answer ==
  /\ \/ exec \in {"eager", "replayed"} /\ ApplyResult
     \/ exec = "raised" /\ FailBatch
  /\ exec' = "none"
  /\ UNCHANGED slots

RejectResult ==
  /\ phase = "idle" /\ exec \in {"eager", "replayed"}
  /\ exec' = "rejected"
  /\ UNCHANGED <<schedVars, slots>>

RunOnceRaises == exec = "rejected" /\ phase = "idle" /\ UNCHANGED serverVars

ServerNext ==
  \/ ExecuteEager \/ ExecuteGraph \/ ExecuteRaises
  \/ Answer \/ RejectResult \/ RunOnceRaises
  \/ /\ \/ \E r \in Request : Submit(r) \/ Cancel(r)
        \/ Schedule
        \/ Within
     /\ UNCHANGED <<slots, exec>>

ServerSpec == ServerInit /\ [][ServerNext]_serverVars

-----------------------------------------------------------------------------
(***************************************************************************)
(* The positions of a running request that count as cached hold the KV of  *)
(* its own context, and so do those a finished forward pass computed: over *)
(* every reuse of a shared prefix, every block given up for a duplicate,   *)
(* every preemption, failed step and reused block, whatever runs in the    *)
(* batch beside it or stays out of it.                                     *)
(***************************************************************************)
Computing(r) == exec \in {"eager", "replayed", "rejected"} /\ Scheduled(r)

CacheHoldsContext ==
  \A r \in running :
    \A p \in 1 .. cached_len[r] + IF Computing(r) THEN Len(InFlight(r)) ELSE 0 :
      slots[Slot(allocations[r], p - 1)] = SubSeq(Context(r), 1, p)

\* Eager execution: the arrays of from_plan, those the pool refills, the CSR
\* lists built on the host and on the device, and gather_context.
InputsAgree ==
  Outstanding =>
    LET in    == Input!FromPlan(batch)
        built == Input!PoolBuild(batch)
    IN /\ built.input = in
       /\ built.csr = Input!BuildCsr(in.block_tables, in.context_lens)
       /\ \A i \in DOMAIN batch :
            LET context == Input!ContextSlots(batch[i]) IN
            /\ Input!CsrSlots(built.csr, i) = context
            /\ SubSeq(in.slot_mapping, in.query_start_loc[i] + 1, in.query_start_loc[i + 1])
                 = SubSeq(context, batch[i].start + 1, Len(context))

\* A replay, packed from the plan or filled from a ModelInput: padding rows
\* read nothing but the slot they write.
ReplayRowsAgree ==
  Outstanding /\ CanReplay =>
    LET size  == CHOOSE b \in Bucket(Len(batch)) : TRUE
        packed == Input!PackPlan(batch, size, CacheBlocks, DummyBlock)
    IN /\ packed = Input!FillGraph(Input!FromPlan(batch), Input!PoolBuild(batch).csr,
                                   size, CacheBlocks, DummyBlock)
       /\ \A i \in 1 .. size :
            Input!CsrSlots(packed.csr, i) = IF i <= Len(batch) THEN Input!ContextSlots(batch[i])
                                            ELSE <<DummyBlock * BlockLen>>

(***************************************************************************)
(* However the metadata of a batch is built, for eager execution or for a  *)
(* replay, the attention of a request reads the slots of its whole context *)
(* in order, and the pass writes the last ones of them.                    *)
(***************************************************************************)
MetadataAgrees == InputsAgree /\ ReplayRowsAgree

(***************************************************************************)
(* "Builder-asserted decode-graph eligibility: every query is a single     *)
(* token AND no block table touches the graph's dummy page"                *)
(* (src/einf/executors/torch/input.py:41).                                 *)
(***************************************************************************)
GraphAvoidsDummy ==
  exec = "replayed" => \A i \in DOMAIN batch : DummyBlock \notin Range(batch[i].block_table)
=============================================================================
