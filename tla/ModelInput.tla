----------------------------- MODULE ModelInput ------------------------------
(***************************************************************************)
(* The metadata of a forward pass, which is built from a batch plan in     *)
(* several ways: ModelInput.from_plan, ModelInputPool (input.py), the      *)
(* device-side build_paged_kv_csr (flashinfer_attn.py) and the two ways to *)
(* fill a decode graph (decode_graph.py).  An item of a batch is           *)
(* [input, start, block_table]; arrays are sequences, their contents       *)
(* count from zero as in the code.                                         *)
(***************************************************************************)
EXTENDS Integers, SequencesExt

CONSTANTS BlockLen

ContextLen(item) == item.start + Len(item.input)
Pages(n)         == (n + BlockLen - 1) \div BlockLen

\* Mutant: a full last page counts as empty.
LastPageLenOfRest(n) == n % BlockLen

LastPageLen(n) == IF n % BlockLen = 0 THEN BlockLen ELSE n % BlockLen

SlotOf(table, p) == table[p \div BlockLen + 1] * BlockLen + (p % BlockLen)

\* cumsum with a leading zero.
Indptr(lens) ==
  LET sums[i \in 1 .. Len(lens) + 1] == IF i = 1 THEN 0 ELSE sums[i - 1] + lens[i - 1] IN sums

\* The sums of the loops that count tokens and pages.
Total(lens) == Indptr(lens)[Len(lens) + 1]

PaddedTo(table, width, fill) ==
  [j \in 1 .. width |-> IF j <= Len(table) THEN table[j] ELSE fill]

Widest(items) == Max({Len(items[i].block_table) : i \in DOMAIN items})

-----------------------------------------------------------------------------
(***************************************************************************)
(* ModelInput.from_plan.                                                   *)
(***************************************************************************)
QueryPositions(item) == [t \in DOMAIN item.input |-> item.start + t - 1]

FromPlan(items) ==
  [tokens          |-> FlattenSeq([i \in DOMAIN items |-> items[i].input]),
   position        |-> FlattenSeq([i \in DOMAIN items |-> QueryPositions(items[i])]),
   slot_mapping    |-> FlattenSeq([i \in DOMAIN items |->
                         [t \in DOMAIN items[i].input |->
                            SlotOf(items[i].block_table, QueryPositions(items[i])[t])]]),
   query_start_loc |-> Indptr([i \in DOMAIN items |-> Len(items[i].input)]),
   context_lens    |-> [i \in DOMAIN items |-> ContextLen(items[i])],
   block_tables    |-> [i \in DOMAIN items |-> PaddedTo(items[i].block_table, Widest(items), -1)]]

(***************************************************************************)
(* build_paged_kv_csr: the valid entries of the padded tables, compacted.  *)
(***************************************************************************)
BuildCsr(tables, context_lens) ==
  [indptr    |-> Indptr([i \in DOMAIN context_lens |-> Pages(context_lens[i])]),
   indices   |-> FlattenSeq([i \in DOMAIN tables |-> SubSeq(tables[i], 1, Pages(context_lens[i]))]),
   last_page |-> [i \in DOMAIN context_lens |-> LastPageLen(context_lens[i])]]

-----------------------------------------------------------------------------
(***************************************************************************)
(* ModelInputPool: build and _fill write into arrays that are longer than  *)
(* needed and hold what an earlier batch left there, and hand out slices.  *)
(* -2 stands for what was left.                                            *)
(***************************************************************************)
Left(n) == [k \in 1 .. n |-> -2]

\* array[offset : offset + Len(values)] = values
Put(array, offset, values) ==
  [k \in DOMAIN array |-> IF k - offset \in DOMAIN values THEN values[k - offset] ELSE array[k]]

FillRequest(filled, item) ==
  LET n == Len(item.input) IN
  [tokens       |-> Put(filled.tokens, filled.offset, item.input),
   position     |-> Put(filled.position, filled.offset, QueryPositions(item)),
   slot_mapping |-> Put(filled.slot_mapping, filled.offset,
                      [t \in 1 .. n |-> SlotOf(item.block_table, item.start + t - 1)]),
   kv_indices   |-> Put(filled.kv_indices, filled.nnz,
                      SubSeq(item.block_table, 1, Pages(ContextLen(item)))),
   query_start_loc |-> Append(filled.query_start_loc, Last(filled.query_start_loc) + n),
   kv_indptr    |-> Append(filled.kv_indptr, filled.nnz + Pages(ContextLen(item))),
   offset       |-> filled.offset + n,
   nnz          |-> filled.nnz + Pages(ContextLen(item))]

PoolBuild(items) ==
  LET tokens == Total([i \in DOMAIN items |-> Len(items[i].input)])
      nnz    == Total([i \in DOMAIN items |-> Pages(ContextLen(items[i]))])
      after[i \in 0 .. Len(items)] ==
        IF i = 0 THEN [tokens |-> Left(tokens + 1), position |-> Left(tokens + 1),
                       slot_mapping |-> Left(tokens + 1), kv_indices |-> Left(nnz + 1),
                       query_start_loc |-> <<0>>, kv_indptr |-> <<0>>, offset |-> 0, nnz |-> 0]
                 ELSE FillRequest(after[i - 1], items[i])
      filled == after[Len(items)]
  IN [input |-> [tokens          |-> SubSeq(filled.tokens, 1, tokens),
                 position        |-> SubSeq(filled.position, 1, tokens),
                 slot_mapping    |-> SubSeq(filled.slot_mapping, 1, tokens),
                 query_start_loc |-> filled.query_start_loc,
                 context_lens    |-> [i \in DOMAIN items |-> ContextLen(items[i])],
                 block_tables    |-> [i \in DOMAIN items |->
                                        PaddedTo(items[i].block_table, Widest(items), -1)]],
      csr   |-> [indptr    |-> filled.kv_indptr,
                 indices   |-> SubSeq(filled.kv_indices, 1, nnz),
                 last_page |-> [i \in DOMAIN items |-> LastPageLen(ContextLen(items[i]))]]]

-----------------------------------------------------------------------------
(***************************************************************************)
(* The rows of a decode graph of `bucket` rows, `width` pages wide: those  *)
(* of the batch (one token each) and padding rows.                         *)
(***************************************************************************)
\* _fill_from_plan, which also packs the CSR lists.
PackPlan(items, bucket, width, dummy) ==
  LET row(i)   == i <= Len(items)
      pages(i) == IF row(i) THEN SubSeq(items[i].block_table, 1, Pages(items[i].start + 1))
                            ELSE <<dummy>>
  IN [tokens       |-> [i \in 1 .. bucket |-> IF row(i) THEN items[i].input[1] ELSE 0],
      position     |-> [i \in 1 .. bucket |-> IF row(i) THEN items[i].start ELSE 0],
      slot_mapping |-> [i \in 1 .. bucket |-> IF row(i) THEN SlotOf(items[i].block_table, items[i].start)
                                                        ELSE dummy * BlockLen],
      context_lens |-> [i \in 1 .. bucket |-> IF row(i) THEN items[i].start + 1 ELSE 1],
      block_tables |-> [i \in 1 .. bucket |->
                          PaddedTo(IF row(i) THEN items[i].block_table ELSE <<dummy>>, width, -1)],
      csr          |-> [indptr    |-> Indptr([i \in 1 .. bucket |-> Len(pages(i))]),
                        indices   |-> FlattenSeq([i \in 1 .. bucket |-> pages(i)]),
                        last_page |-> [i \in 1 .. bucket |->
                                         IF row(i) THEN LastPageLen(items[i].start + 1) ELSE 1]]]

(***************************************************************************)
(* _fill from a ModelInput; plan_decode_bucket derives the CSR lists from  *)
(* what the rows then hold, unless there is no padding row and the input   *)
(* brings its own.                                                         *)
(***************************************************************************)
Padded(values, bucket, fill) == values \o [i \in 1 .. bucket - Len(values) |-> fill]

GraphCsr(given, batch, bucket, tables, context) ==
  IF batch = bucket THEN given ELSE BuildCsr(tables, context)

FillGraph(in, csr, bucket, width, dummy) ==
  LET batch   == Len(in.context_lens)
      context == Padded(in.context_lens, bucket, 1)
      tables  == Padded([i \in 1 .. batch |-> PaddedTo(in.block_tables[i], width, -1)],
                        bucket, PaddedTo(<<dummy>>, width, -1))
  IN [tokens       |-> Padded(in.tokens, bucket, 0),
      position     |-> Padded(in.position, bucket, 0),
      slot_mapping |-> Padded(in.slot_mapping, bucket, dummy * BlockLen),
      context_lens |-> context,
      block_tables |-> tables,
      csr          |-> GraphCsr(csr, batch, bucket, tables, context)]

-----------------------------------------------------------------------------
\* The slots that FlashInfer's attention reads for request i of CSR lists.
CsrSlots(csr, i) ==
  LET pages == SubSeq(csr.indices, csr.indptr[i] + 1, csr.indptr[i + 1])
  IN [p \in 1 .. (Len(pages) - 1) * BlockLen + csr.last_page[i] |-> SlotOf(pages, p - 1)]

\* gather_context: the slots of the whole context.
ContextSlots(item) == [p \in 1 .. ContextLen(item) |-> SlotOf(item.block_table, p - 1)]
=============================================================================
