----------------------------- MODULE SpecEngine ------------------------------
(***************************************************************************)
(* What the two speculative engines share: the tracks of the target and    *)
(* the draft model, a forward pass on a track, prefill and the loop of     *)
(* generate (src/einf/executors/torch/spec_runner.py).  Modules SpecChain  *)
(* and SpecTree add their `step`.                                          *)
(*                                                                         *)
(* Each model has a KV cache of its own with an identity page table, so    *)
(* the slot of a logical position is that position.  A slot holds the text *)
(* its KV was computed from; <<>> is KV that is not that of any text.  One *)
(* step is one forward pass and what the engine does with its logits.      *)
(***************************************************************************)
EXTENDS Integers, FiniteSets, SequencesExt

CONSTANTS
  Token,
  TargetNext(_),   \* argmax of the target's logits after a text
  Eos, MaxNewLen, Prompts,
  BlockLen, NumBlocks

ASSUME EngineAssumption ==
  /\ MaxNewLen \in Nat \ {0} /\ BlockLen \in Nat \ {0} /\ NumBlocks \in Nat \ {0}
  /\ Prompts \subseteq Seq(Token) \ {<<>>}

VARIABLES
  prompt, greedy,   \* the arguments of generate
  generated,        \* the list generate returns (cut to MaxNewLen)
  committed,        \* tokens of a step generate has not appended yet
  kv,               \* the KV cache of each track
  context_len,      \* _Track.context_len
  pending_token,    \* _Track.pending_token
  phase

engineVars == <<prompt, greedy, generated, committed, kv, context_len, pending_token, phase>>

-----------------------------------------------------------------------------
Track == {"target", "draft"}

\* The draft leaves its last page to the decode graph.
Capacity(track) == (IF track = "target" THEN NumBlocks ELSE NumBlocks - 1) * BlockLen

Position == 0 .. NumBlocks * BlockLen - 1

(***************************************************************************)
(* A row of a forward pass: a token, the slot its KV goes to, its RoPE     *)
(* position and the slots its attention sees besides its own.  What it     *)
(* sees is the live KV of `old` slots and the rows of the same pass in     *)
(* `chain`.  Its KV is that of a text only if the old slots hold the KV of *)
(* all the prefixes of a text, every row of the chain sees exactly what    *)
(* comes before it, and their positions are their places in the text.      *)
(***************************************************************************)
RowText(cache, rows, row) ==
  LET old   == row.visible \ {rows[i].slot : i \in DOMAIN rows}
      text  == IF old = {} THEN <<>> ELSE cache[Max(old)]
      chain == {q \in Range(rows) : q.slot \in row.visible \cup {row.slot}}
      place == 1 .. Cardinality(chain)
      At(k) == CHOOSE q \in chain : q.rope = Len(text) + k - 1
  IN IF /\ {cache[p] : p \in old} = Prefixes(text) \ {<<>>}
        /\ Cardinality(old) = Len(text)
        /\ {q.rope : q \in chain} = {Len(text) + k - 1 : k \in place}
        /\ \A q \in chain : q.visible = old \cup {m.slot : m \in {m \in chain : m.rope < q.rope}}
     THEN text \o [k \in place |-> At(k).token]
     ELSE <<>>

(***************************************************************************)
(* The cache after a forward pass.  The logits of a row are those of the   *)
(* text in its slot.                                                       *)
(***************************************************************************)
Forward(cache, rows) ==
  LET texts == [i \in DOMAIN rows |-> RowText(cache, rows, rows[i])]
  IN [p \in DOMAIN cache |->
        IF \E i \in DOMAIN rows : rows[i].slot = p
        THEN texts[CHOOSE i \in DOMAIN rows : rows[i].slot = p]
        ELSE cache[p]]

(***************************************************************************)
(* _make_input: tokens appended at the end of the live context; it raises  *)
(* when they do not fit.                                                   *)
(***************************************************************************)
Fits(track, n) == context_len[track] + n <= Capacity(track)

Rows(track, tokens) ==
  [i \in 1 .. Len(tokens) |->
     LET p == context_len[track] + i - 1
     IN [token |-> tokens[i], slot |-> p, rope |-> p, visible |-> 0 .. p - 1]]

(***************************************************************************)
(* _pick on the target's logits after `text`.                              *)
(***************************************************************************)
TargetPicks(text) == {t \in Token : greedy /\ text # <<>> => t = TargetNext(text)}

-----------------------------------------------------------------------------
EngineInit ==
  /\ prompt \in Prompts
  /\ greedy \in BOOLEAN
  /\ generated = <<>> /\ committed = <<>>
  /\ kv = [track \in Track |-> [p \in Position |-> <<>>]]
  /\ context_len = [track \in Track |-> 0]
  /\ pending_token = [track \in Track |-> -1]
  /\ phase = "prefill"

(***************************************************************************)
(* prefill primes the target's cache with the prompt and then the draft's; *)
(* the first token comes from the target.  It raises where the prompt does *)
(* not fit.                                                                *)
(***************************************************************************)
Prime(track, first) ==
  /\ kv' = [kv EXCEPT ![track] = Forward(@, Rows(track, prompt))]
  /\ context_len' = [context_len EXCEPT ![track] = Len(prompt)]
  /\ pending_token' = [pending_token EXCEPT ![track] = first]

PrefillTarget ==
  /\ phase = "prefill" /\ Fits("target", Len(prompt))
  /\ \E first \in TargetPicks(Forward(kv["target"], Rows("target", prompt))[Len(prompt) - 1]) :
       Prime("target", first)
  /\ phase' = "prime"
  /\ UNCHANGED <<prompt, greedy, generated, committed>>

PrefillDraft ==
  /\ phase = "prime" /\ Fits("draft", Len(prompt))
  /\ Prime("draft", pending_token["target"])
  /\ generated' = <<pending_token["target"]>>
  /\ phase' = "loop"
  /\ UNCHANGED <<prompt, greedy, committed>>

PrefillRaises ==
  /\ \/ phase = "prefill" /\ ~Fits("target", Len(prompt))
     \/ phase = "prime" /\ ~Fits("draft", Len(prompt))
  /\ phase' = "raised"
  /\ UNCHANGED <<prompt, greedy, generated, committed, kv, context_len, pending_token>>

(***************************************************************************)
(* The loop of generate: a step while the output is too short, then one    *)
(* turn for each committed token.                                          *)
(***************************************************************************)
\* Mutant: the loop misses a length it steps over.
TooShortInexact == Len(generated) # MaxNewLen

TooShort == Len(generated) < MaxNewLen

Return ==
  /\ phase = "loop"
  /\ ~TooShort
  /\ phase' = "returned"
  /\ UNCHANGED <<prompt, greedy, generated, committed, kv, context_len, pending_token>>

BeginStep ==
  /\ phase = "loop"
  /\ TooShort
  /\ phase' = "step"

AppendToken ==
  /\ phase = "append"
  /\ generated' = Append(generated, Head(committed))
  /\ committed' = Tail(committed)
  /\ phase' = IF Head(committed) = Eos THEN "returned"
              ELSE IF committed' = <<>> THEN "loop"
              ELSE "append"
  /\ UNCHANGED <<prompt, greedy, kv, context_len, pending_token>>

(***************************************************************************)
(* The end of a step with `accepted` drafts: what every engine sets on     *)
(* both tracks, given the new context lengths.                             *)
(***************************************************************************)
Commit(tokens, lengths) ==
  /\ committed' = tokens
  /\ context_len' = lengths
  /\ pending_token' = [track \in Track |-> Last(tokens)]
  /\ phase' = "append"
  /\ UNCHANGED <<prompt, greedy, generated>>

-----------------------------------------------------------------------------
(***************************************************************************)
(* The output of generate, seen as the specification Decoding.             *)
(***************************************************************************)
Output == SubSeq(generated, 1, Min({Len(generated), MaxNewLen}))

Finished == \/ Len(Output) = MaxNewLen
            \/ Len(Output) > 1 /\ Last(Output) = Eos

Target == INSTANCE Decoding WITH output <- Output, finished <- Finished

(***************************************************************************)
(* Speculation cannot be seen in the output: token by token it is what the *)
(* target alone decodes, whatever the draft proposes, and it ends where    *)
(* the target alone would end.                                             *)
(***************************************************************************)
ImplementsDecoding == Target!Spec

(***************************************************************************)
(* Between steps the slots below context_len hold the KV of the prompt and *)
(* of every committed token but the last, and the last is pending: what    *)
(* rejected drafts wrote is outside or overwritten.                        *)
(***************************************************************************)
Text == prompt \o generated \o committed

HoldsText(track) ==
  phase \in {"loop", "append"} =>
    /\ context_len[track] = Len(Text) - 1
    /\ pending_token[track] = Last(Text)
    /\ \A p \in 0 .. context_len[track] - 1 : kv[track][p] = SubSeq(Text, 1, p + 1)

TargetHoldsText == HoldsText("target")
DraftHoldsText  == HoldsText("draft")
=============================================================================
