------------------------------ MODULE Decoding -------------------------------
(***************************************************************************)
(* What speculative decoding promises: the output of the target model on   *)
(* its own, one token after the other, until an end-of-sequence token or   *)
(* the length limit (docs/ROADMAP.md:273, "output equality against         *)
(* non-speculative greedy decoding").                                      *)
(***************************************************************************)
EXTENDS Naturals, Sequences

CONSTANTS
  Token,
  TargetNext(_),   \* argmax of the target's logits after a text
  Eos,             \* eos_token_id; no token when there is none
  MaxNewLen,       \* max_new_len
  Prompts          \* prompts a caller may pass

VARIABLES
  prompt, greedy,   \* the arguments of generate
  output, finished

decodingVars == <<prompt, greedy, output, finished>>

Init ==
  /\ prompt \in Prompts
  /\ greedy \in BOOLEAN
  /\ output = <<>>
  /\ finished = FALSE

(***************************************************************************)
(* With sampling the target may yield any token.  The first token, that of *)
(* prefill, is not compared with Eos (README, section 4).                  *)
(***************************************************************************)
Decode(t) ==
  /\ ~finished
  /\ greedy => t = TargetNext(prompt \o output)
  /\ output' = Append(output, t)
  /\ finished' = ((output # <<>> /\ t = Eos) \/ Len(output') = MaxNewLen)
  /\ UNCHANGED <<prompt, greedy>>

Spec == Init /\ [][\E t \in Token : Decode(t)]_decodingVars
=============================================================================
