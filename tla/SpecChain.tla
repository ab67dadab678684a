------------------------------ MODULE SpecChain ------------------------------
(***************************************************************************)
(* The chain engine: SpeculativeEngine.step of spec_runner.py with the     *)
(* accept/reject of speculative.py.  The draft's choices are free: nothing *)
(* is assumed of its logits.                                               *)
(***************************************************************************)
EXTENDS SpecEngine

CONSTANT K   \* num_spec_tokens
ASSUME KAssumption == K \in Nat \ {0}

VARIABLES
  proposals,         \* the draft's proposals of this step
  proposal_logits    \* _Track.proposal_logits: the text each row of logits is of

vars == <<engineVars, proposals, proposal_logits>>

-----------------------------------------------------------------------------
Init == EngineInit /\ proposals = <<>> /\ proposal_logits = <<>>

Step ==
  /\ BeginStep
  /\ proposals' = <<>> /\ proposal_logits' = <<>>
  /\ UNCHANGED <<prompt, greedy, generated, committed, kv, context_len, pending_token>>

(***************************************************************************)
(* One pass of the draft loop.  A replayed graph returns views of a static *)
(* buffer that the next replay overwrites; the engine clones them.         *)
(***************************************************************************)
\* Mutant: the views are kept.
KeepLogitsAsViews(kept, row) == [i \in 1 .. Len(kept) + 1 |-> row]

KeepLogits(kept, row) == Append(kept, row)

DraftToken == IF proposals = <<>> THEN pending_token["draft"] ELSE Last(proposals)

DraftForward ==
  /\ phase = "step"
  /\ Fits("draft", 1)
  /\ kv' = [kv EXCEPT !["draft"] = Forward(@, Rows("draft", <<DraftToken>>))]
  /\ context_len' = [context_len EXCEPT !["draft"] = @ + 1]

DraftPropose(t) ==
  /\ DraftForward
  /\ Len(proposals) < K
  /\ proposals' = Append(proposals, t)
  /\ proposal_logits' = KeepLogits(proposal_logits, kv'["draft"][context_len["draft"]])
  /\ UNCHANGED <<prompt, greedy, generated, committed, pending_token, phase>>

DraftLastPass ==   \* writes the KV of the last proposal
  /\ DraftForward
  /\ Len(proposals) = K
  /\ phase' = "verify"
  /\ UNCHANGED <<prompt, greedy, generated, committed, pending_token, proposals, proposal_logits>>

(***************************************************************************)
(* accept_reject_greedy: the drafts accepted are those before the first    *)
(* that is not the target's pick; the target's pick follows them.          *)
(***************************************************************************)
\* Mutant: every match counts, also after a mismatch.
AcceptedGreedyAnywhere(drafts, picks) == Cardinality({i \in 1 .. K : drafts[i] = picks[i]})

AcceptedGreedy(drafts, picks) ==
  Cardinality({i \in 1 .. K : \A j \in 1 .. i : drafts[j] = picks[j]})

(***************************************************************************)
(* The tokens accept_reject_greedy or accept_reject_sampling may return.   *)
(* Sampling may stop at any draft.  The token drawn then is another one    *)
(* (the rejected one weighs nothing in the residual distribution), or any  *)
(* one where the residual is zero everywhere and the target's distribution *)
(* takes its place.                                                        *)
(***************************************************************************)
Returned(drafts, texts) ==
  IF greedy
  THEN {SubSeq(picks, 1, AcceptedGreedy(drafts, picks) + 1) :
          picks \in {f \in [1 .. K + 1 -> Token] :
                       \A i \in 1 .. K + 1 : f[i] \in TargetPicks(texts[i])}}
  ELSE {Append(SubSeq(drafts, 1, n), t) : n \in 0 .. K, t \in Token}

\* Mutant: the draft keeps its last, unverified proposal.
RetractOneLess(accepted) == context_len["draft"] - Max({K - accepted - 1, 0})

Retract(accepted) == context_len["draft"] - (K - accepted)

\* Mutant: the correction counts as cached as well.
AdvanceOneMore(live, tokens) == live + Len(tokens) + 1

Advance(live, tokens) == live + Len(tokens)

Verify ==
  LET live == context_len["target"] IN
  /\ phase = "verify"
  /\ Fits("target", K + 1)
  /\ kv' = [kv EXCEPT !["target"] =
              Forward(@, Rows("target", <<pending_token["target"]>> \o proposals))]
  /\ \E tokens \in Returned(proposals, [i \in 1 .. K + 1 |-> kv'["target"][live + i - 1]]) :
       Commit(tokens, [target |-> Advance(live, tokens), draft |-> Retract(Len(tokens) - 1)])
  /\ UNCHANGED <<proposals, proposal_logits>>

(***************************************************************************)
(* A forward pass that does not fit raises out of generate.                *)
(***************************************************************************)
StepRaises ==
  /\ \/ phase = "step" /\ ~Fits("draft", 1)
     \/ phase = "verify" /\ ~Fits("target", K + 1)
  /\ phase' = "raised"
  /\ UNCHANGED <<prompt, greedy, generated, committed, kv, context_len, pending_token,
                 proposals, proposal_logits>>

Next ==
  \/ /\ PrefillTarget \/ PrefillDraft \/ PrefillRaises \/ Return \/ AppendToken
     /\ UNCHANGED <<proposals, proposal_logits>>
  \/ Step
  \/ \E t \in Token : DraftPropose(t)
  \/ DraftLastPass \/ Verify \/ StepRaises

(***************************************************************************)
(* generate is a loop of one thread: it goes on while it can.              *)
(***************************************************************************)
Spec == Init /\ [][Next]_vars /\ WF_vars(Next)

-----------------------------------------------------------------------------
(***************************************************************************)
(* When the drafts are judged, the i-th row of draft logits is the one the *)
(* i-th proposal was drawn from, that of the text before it: rejection     *)
(* sampling follows the target only with the right draft distribution.     *)
(***************************************************************************)
LogitsMatchProposals ==
  phase = "verify" =>
    proposal_logits = [i \in 1 .. K |-> Text \o SubSeq(proposals, 1, i - 1)]

(***************************************************************************)
(* generate ends with a whole output if the draft's cache has room for     *)
(* prompt, output and a last round of drafts.                              *)
(***************************************************************************)
Room == Len(prompt) + MaxNewLen - 1 + K <= Capacity("draft")

GenerateEnds ==
  <>(\/ phase = "raised" /\ ~Room
     \/ phase = "returned" /\ Finished)
=============================================================================
