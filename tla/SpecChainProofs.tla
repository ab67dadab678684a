--------------------------- MODULE SpecChainProofs ---------------------------
(***************************************************************************)
(* The chain engine: the caches of both models hold the text generated so  *)
(* far, and speculation cannot be seen in the output, proved for every     *)
(* target, draft, prompt, number of drafts and size of the caches.         *)
(***************************************************************************)
EXTENDS SpecChain, SpecEngineProofs

-----------------------------------------------------------------------------
(* The invariant.                                                          *)

\* The text with the drafts of the step under way.
Drafted == Text \o proposals

\* Row i of the logits is that of the text the i-th proposal was drawn after.
LogitsInv == proposal_logits = [i \in 1 .. Len(proposals) |-> Text \o SubSeq(proposals, 1, i - 1)]

\* Where the draft's cache is: behind the target's between steps, ahead of the text
\* by the drafts during one.
DraftInv ==
  /\ phase \in {"loop", "append"} =>
       context_len["draft"] = Len(Text) - 1 /\ Holds(kv["draft"], Front(Text))
  /\ phase = "step" =>
       /\ context_len["draft"] = Len(Drafted) - 1
       /\ Holds(kv["draft"], Front(Drafted))
       /\ LogitsInv
  /\ phase = "verify" =>
       /\ Len(proposals) = K /\ context_len["draft"] = Len(Drafted)
       /\ Holds(kv["draft"], Drafted)
       /\ LogitsInv

ChainInv == EngineInv /\ proposals \in Seq(Token) /\ Len(proposals) <= K /\ DraftInv

-----------------------------------------------------------------------------
LEMMA DraftedType ==
  ASSUME EngineType, proposals \in Seq(Token)
  PROVE  /\ Drafted \in Seq(Token) /\ Len(Drafted) = Len(Text) + Len(proposals)
         /\ Len(Drafted) \in Nat /\ Len(Drafted) > 0 /\ Len(proposals) \in Nat
         /\ Front(Drafted) \in Seq(Token) /\ Len(Front(Drafted)) = Len(Drafted) - 1
         /\ Drafted = Front(Drafted) \o <<Last(Drafted)>> /\ Last(Drafted) \in Token
         /\ proposals = <<>> => Drafted = Text
         /\ proposals # <<>> => Last(Drafted) = Last(proposals)
  <1>1. Text \in Seq(Token) /\ Len(Text) \in Nat /\ Len(Text) > 0
    BY TextType
  <1>2. /\ Drafted \in Seq(Token) /\ Len(Drafted) = Len(Text) + Len(proposals)
        /\ Len(proposals) \in Nat
    BY <1>1 DEF Drafted
  <1>3. Len(Drafted) \in Nat /\ Len(Drafted) > 0
    BY <1>1, <1>2
  <1>4. proposals = <<>> => Drafted = Text
    BY <1>1 DEF Drafted
  <1>5. proposals # <<>> => Last(Drafted) = Last(proposals)
    BY <1>1 DEF Drafted, Last
  <1> HIDE DEF Drafted
  <1>6. /\ Front(Drafted) \in Seq(Token) /\ Len(Front(Drafted)) = Len(Drafted) - 1
        /\ Drafted = Front(Drafted) \o <<Last(Drafted)>> /\ Last(Drafted) \in Token
    BY <1>2, <1>3 DEF Front, Last
  <1> QED
    BY <1>2, <1>3, <1>4, <1>5, <1>6

\* The set of drafts before the first mismatch is an initial segment.
LEMMA AcceptedPrefix ==
  ASSUME NEW drafts, NEW picks
  PROVE  /\ AcceptedGreedy(drafts, picks) \in 0 .. K
         /\ \A i \in 1 .. AcceptedGreedy(drafts, picks) : drafts[i] = picks[i]
  <1> DEFINE S == {i \in 1 .. K : \A j \in 1 .. i : drafts[j] = picks[j]}
             n == Cardinality(S)
  <1>1. K \in Nat /\ IsFiniteSet(1 .. K) /\ Cardinality(1 .. K) = K
    BY KAssumption, FS_Interval
  <1>2. IsFiniteSet(S) /\ n \in Nat /\ n <= K
    BY <1>1, FS_Subset, FS_CardinalityType
  <1>3. ASSUME NEW i \in 1 .. n, i \notin S PROVE FALSE
    <2>1. S \subseteq 1 .. i - 1
      BY <1>1, <1>2, <1>3
    <2>2. IsFiniteSet(1 .. i - 1) /\ Cardinality(1 .. i - 1) = i - 1
      <3>1. i \in Nat /\ i - 1 \in Int /\ 1 \in Int
        BY <1>2
      <3>2. /\ IsFiniteSet(1 .. i - 1)
            /\ Cardinality(1 .. i - 1) = IF 1 > i - 1 THEN 0 ELSE i - 1 - 1 + 1
        BY <3>1, FS_Interval
      <3> QED
        BY <3>1, <3>2
    <2> HIDE DEF S
    <2>3. n <= i - 1
      BY <2>1, <2>2, FS_Subset
    <2> QED
      BY <2>3, <1>2
  <1>4. \A i \in 1 .. n : drafts[i] = picks[i]
    <2>1. \A i \in S : drafts[i] = picks[i]
      OBVIOUS
    <2> HIDE DEF S
    <2> QED
      BY <1>3, <2>1
  <1> QED
    BY <1>1, <1>2, <1>4 DEF AcceptedGreedy

\* What accept_reject returns: some of the drafts and a token after them, all of
\* them tokens the target picks after what is before.
LEMMA ReturnedTokens ==
  ASSUME Text \in Seq(Token), Text # <<>>, NEW drafts \in Seq(Token), Len(drafts) = K,
         NEW texts, \A i \in 1 .. K + 1 : texts[i] = Text \o SubSeq(drafts, 1, i - 1),
         NEW tokens \in Returned(drafts, texts)
  PROVE  \E n \in 0 .. K, t \in Token :
           /\ tokens = SubSeq(drafts, 1, n) \o <<t>>
           /\ \A i \in 1 .. n + 1 : tokens[i] \in TargetPicks(Text \o SubSeq(drafts, 1, i - 1))
  <1>0. K \in Nat
    BY KAssumption
  <1>1. CASE greedy
    <2>1. PICK picks \in [1 .. K + 1 -> Token] :
                 /\ \A i \in 1 .. K + 1 : picks[i] \in TargetPicks(texts[i])
                 /\ tokens = SubSeq(picks, 1, AcceptedGreedy(drafts, picks) + 1)
      BY <1>1 DEF Returned
    <2> DEFINE n == AcceptedGreedy(drafts, picks)
    <2>2. n \in 0 .. K /\ \A i \in 1 .. n : drafts[i] = picks[i]
      BY AcceptedPrefix
    <2>3. tokens = SubSeq(picks, 1, n + 1)
      BY <2>1
    <2> HIDE DEF n
    <2>4. picks \in Seq(Token) /\ Len(picks) = K + 1 /\ picks[n + 1] \in Token
      BY <1>0, <2>2
    <2>5. /\ tokens \in Seq(Token) /\ Len(tokens) = n + 1
          /\ \A i \in 1 .. n + 1 : tokens[i] = picks[i]
      BY <1>0, <2>2, <2>3, <2>4
    <2>6. tokens = SubSeq(drafts, 1, n) \o <<picks[n + 1]>>
      <3> DEFINE r == SubSeq(drafts, 1, n) \o <<picks[n + 1]>>
      <3>1. r \in Seq(Token) /\ Len(r) = n + 1
        BY <1>0, <2>2, <2>4
      <3>2. \A i \in 1 .. n + 1 : r[i] = picks[i]
        BY <1>0, <2>2, <2>4
      <3> HIDE DEF r
      <3>3. tokens = r
        BY <2>5, <3>1, <3>2
      <3> QED
        BY <3>3 DEF r
    <2>7. \A i \in 1 .. n + 1 : tokens[i] \in TargetPicks(Text \o SubSeq(drafts, 1, i - 1))
      <3>1. \A i \in 1 .. n + 1 : i \in 1 .. K + 1
        BY <1>0, <2>2
      <3> QED
        BY <2>1, <2>5, <3>1
    <2> QED
      BY <2>2, <2>4, <2>6, <2>7
  <1>2. CASE ~greedy
    <2>1. PICK n \in 0 .. K, t \in Token : tokens = Append(SubSeq(drafts, 1, n), t)
      BY <1>2 DEF Returned
    <2>2. tokens = SubSeq(drafts, 1, n) \o <<t>>
      BY <1>0, <2>1
    <2>3. tokens \in Seq(Token) /\ Len(tokens) = n + 1
      BY <1>0, <2>1
    <2>4. \A text : TargetPicks(text) = Token
      BY <1>2 DEF TargetPicks
    <2>5. \A i \in 1 .. n + 1 : tokens[i] \in Token
      BY <2>3
    <2> QED
      BY <2>2, <2>4, <2>5
  <1> QED
    BY <1>1, <1>2

-----------------------------------------------------------------------------
(* The steps.                                                              *)

LEMMA ChainStarts == Init => ChainInv
  <1> SUFFICES ASSUME Init PROVE ChainInv
    OBVIOUS
  <1>1. EngineInv
    BY EngineStarts DEF Init
  <1>2. phase = "prefill" /\ proposals = <<>>
    BY DEF Init, EngineInit
  <1>3. DraftInv
    BY <1>2 DEF DraftInv
  <1>4. proposals \in Seq(Token) /\ Len(proposals) <= K
    BY <1>2, KAssumption
  <1> QED
    BY <1>1, <1>3, <1>4 DEF ChainInv

\* A step that leaves the loop, or the draft's cache and the text alone.
LEMMA SharedStep ==
  ASSUME ChainInv, EngineInv', UNCHANGED <<proposals, proposal_logits>>,
         phase' \in {"loop", "append"} =>
           /\ context_len'["draft"] = Len(Text') - 1
           /\ Holds(kv'["draft"], Front(Text')),
         phase' \notin {"step", "verify"}
  PROVE  ChainInv'
  <1>1. Holds(kv["draft"], Front(Text))' = Holds(kv'["draft"], Front(Text'))
    BY DEF Holds, Front
  <1>2. DraftInv'
    BY <1>1 DEF DraftInv
  <1> QED
    BY <1>2 DEF ChainInv

LEMMA StepBegins ==
  ASSUME ChainInv, Step
  PROVE  ChainInv'
  <1>1. /\ phase = "loop" /\ phase' = "step" /\ proposals' = <<>> /\ proposal_logits' = <<>>
        /\ UNCHANGED <<prompt, greedy, generated, committed, kv, context_len, pending_token>>
    BY DEF Step, BeginStep
  <1>2. EngineInv /\ EngineType
    BY DEF ChainInv, EngineInv
  <1>3. EngineType'
    BY <1>1, <1>2 DEF EngineType
  <1>4. EngineInv' /\ Text' = Text
    BY <1>1, <1>2, <1>3, QuietStep DEF InLoop
  <1>5. context_len["draft"] = Len(Text) - 1 /\ Holds(kv["draft"], Front(Text))
    BY <1>1 DEF ChainInv, DraftInv
  <1>6. Drafted' = Text
    BY <1>1, <1>2, <1>4, TextType DEF Drafted
  <1>7. Holds(kv["draft"], Front(Drafted))' = Holds(kv'["draft"], Front(Drafted'))
    BY DEF Holds, Front
  <1>8. LogitsInv'
    <2>1. Len(proposals') = 0
      BY <1>1
    <2>2. proposal_logits' = [i \in 1 .. Len(proposals') |-> Text' \o SubSeq(proposals', 1, i - 1)]
      BY <1>1, <2>1
    <2> QED
      BY <2>2 DEF LogitsInv
  <1>9. DraftInv'
    BY <1>1, <1>5, <1>6, <1>7, <1>8 DEF DraftInv
  <1>10. proposals' \in Seq(Token) /\ Len(proposals') <= K
    BY <1>1, KAssumption
  <1> QED
    BY <1>4, <1>9, <1>10 DEF ChainInv

\* A pass of the draft adds the KV of its last token; the logits are those of the
\* whole text.
LEMMA DraftPass ==
  ASSUME ChainInv, DraftForward
  PROVE  /\ DOMAIN kv'["draft"] = Position
         /\ kv' = [kv EXCEPT !["draft"] = kv'["draft"]]
         /\ Holds(kv'["draft"], Drafted)
         /\ kv'["draft"][context_len["draft"]] = Drafted
         /\ context_len' = [context_len EXCEPT !["draft"] = Len(Drafted)]
  <1> DEFINE new == Forward(kv["draft"], Rows("draft", <<DraftToken>>))
  <1>1. /\ phase = "step" /\ Fits("draft", 1)
        /\ kv' = [kv EXCEPT !["draft"] = new]
        /\ context_len' = [context_len EXCEPT !["draft"] = @ + 1]
        /\ "draft" \in Track
    BY DEF DraftForward, Track
  <1>2. EngineType /\ TextInv /\ InLoop /\ proposals \in Seq(Token)
    BY <1>1 DEF ChainInv, EngineInv, InLoop
  <1>3. /\ context_len["draft"] = Len(Drafted) - 1 /\ Holds(kv["draft"], Front(Drafted))
    BY <1>1 DEF ChainInv, DraftInv
  <1>4. /\ Drafted \in Seq(Token) /\ Len(Drafted) \in Nat /\ Len(Drafted) > 0
        /\ Front(Drafted) \in Seq(Token) /\ Len(Front(Drafted)) = Len(Drafted) - 1
        /\ Drafted = Front(Drafted) \o <<Last(Drafted)>> /\ Last(Drafted) \in Token
        /\ proposals = <<>> => Drafted = Text
        /\ proposals # <<>> => Last(Drafted) = Last(proposals)
    BY <1>2, DraftedType
  <1>5. DraftToken = Last(Drafted)
    <2>1. pending_token["draft"] = Last(Text)
      BY <1>1, <1>2 DEF TextInv
    <2> QED
      BY <1>4, <2>1 DEF DraftToken
  <1>6. Len(Front(Drafted)) + Len(<<DraftToken>>) <= NumBlocks * BlockLen
    <2>1. Len(Drafted) <= Capacity("draft")
      BY <1>1, <1>3, <1>4 DEF Fits
    <2>2. Capacity("draft") <= NumBlocks * BlockLen /\ Capacity("draft") \in Nat
      BY EngineAssumption DEF Capacity
    <2>3. Len(<<DraftToken>>) = 1
      OBVIOUS
    <2> QED
      BY <1>4, <2>1, <2>2, <2>3, EngineAssumption
  <1>7. DOMAIN new = Position /\ Holds(new, Drafted)
    <2>1. DOMAIN kv["draft"] = Position /\ <<DraftToken>> \in Seq(Token)
      BY <1>1, <1>2, <1>4, <1>5 DEF EngineType
    <2>2. /\ DOMAIN new = Position
          /\ Holds(new, Front(Drafted) \o <<DraftToken>>)
      BY <1>3, <1>4, <1>6, <2>1, AppendedRows
    <2> QED
      BY <1>4, <1>5, <2>2
  <1> HIDE DEF new
  <1>8. kv'["draft"] = new
    BY <1>1, <1>2 DEF EngineType
  <1>9. new[Len(Drafted) - 1] = Drafted
    <2>1. new[Len(Drafted) - 1] = SubSeq(Drafted, 1, Len(Drafted))
      BY <1>4, <1>7 DEF Holds
    <2> QED
      BY <1>4, <2>1
  <1>10. context_len' = [context_len EXCEPT !["draft"] = Len(Drafted)]
    BY <1>1, <1>2, <1>3, <1>4 DEF EngineType
  <1> QED
    BY <1>1, <1>3, <1>7, <1>8, <1>9, <1>10

\* Such a pass leaves everything of the target alone.
LEMMA DraftPassQuiet ==
  ASSUME ChainInv, DraftForward, phase' \in {"step", "verify"},
         UNCHANGED <<prompt, greedy, generated, committed, pending_token>>
  PROVE  EngineInv' /\ Text' = Text
  <1>1. phase = "step" /\ EngineInv /\ EngineType
    BY DEF ChainInv, EngineInv, DraftForward
  <1>2. /\ DOMAIN kv'["draft"] = Position
        /\ kv' = [kv EXCEPT !["draft"] = kv'["draft"]]
        /\ context_len' = [context_len EXCEPT !["draft"] = Len(Drafted)]
    BY DraftPass
  <1>3. Len(Drafted) \in Nat /\ "draft" \in Track /\ "target" \in Track
    BY <1>1, DraftedType DEF ChainInv, Track
  <1>4. EngineType'
    <2> DEFINE d == kv'["draft"]
    <2>1. DOMAIN d = Position /\ kv' = [kv EXCEPT !["draft"] = d]
      BY <1>2
    <2> HIDE DEF d
    <2>2. DOMAIN kv' = Track /\ \A track \in Track : DOMAIN kv'[track] = Position
      BY <1>1, <2>1 DEF EngineType
    <2>3. context_len' \in [Track -> Nat]
      BY <1>1, <1>2, <1>3 DEF EngineType
    <2> QED
      BY <1>1, <2>2, <2>3 DEF EngineType
  <1>5. context_len'["target"] = context_len["target"] /\ kv'["target"] = kv["target"]
    <2> DEFINE d == kv'["draft"]
    <2>1. kv' = [kv EXCEPT !["draft"] = d]
      BY <1>2
    <2> HIDE DEF d
    <2> QED
      BY <1>1, <1>2, <1>3, <2>1 DEF EngineType
  <1> QED
    BY <1>1, <1>4, <1>5, QuietStep DEF InLoop

LEMMA DraftProposes ==
  ASSUME ChainInv, NEW t \in Token, DraftPropose(t)
  PROVE  ChainInv'
  <1>1. /\ DraftForward /\ Len(proposals) < K /\ phase = "step" /\ phase' = "step"
        /\ proposals' = Append(proposals, t)
        /\ proposal_logits' = Append(proposal_logits, kv'["draft"][context_len["draft"]])
        /\ UNCHANGED <<prompt, greedy, generated, committed, pending_token>>
    BY DEF DraftPropose, DraftForward, KeepLogits
  <1>2. EngineInv' /\ Text' = Text
    BY <1>1, DraftPassQuiet
  <1>3. EngineType /\ proposals \in Seq(Token) /\ LogitsInv
    BY <1>1 DEF ChainInv, EngineInv, DraftInv
  <1>4. /\ Holds(kv'["draft"], Drafted) /\ kv'["draft"][context_len["draft"]] = Drafted
        /\ context_len' = [context_len EXCEPT !["draft"] = Len(Drafted)]
    BY <1>1, DraftPass
  <1>5. /\ Text \in Seq(Token) /\ Drafted \in Seq(Token) /\ Len(Drafted) \in Nat
        /\ Len(proposals) \in Nat
    BY <1>3, TextType, DraftedType
  <1>6. Drafted' = Drafted \o <<t>>
    <2>1. Drafted' = Text \o Append(proposals, t)
      BY <1>1, <1>2 DEF Drafted
    <2> QED
      BY <1>3, <1>5, <2>1 DEF Drafted
  <1>7. Len(Drafted') - 1 = Len(Drafted) /\ Front(Drafted') = Drafted
    <2> DEFINE d == Drafted
    <2>1. d \in Seq(Token) /\ Len(d) \in Nat
      BY <1>5
    <2> HIDE DEF d
    <2>2. Len(d \o <<t>>) - 1 = Len(d) /\ Front(d \o <<t>>) = d
      BY <2>1 DEF Front
    <2> QED
      BY <1>6, <2>2 DEF d
  <1>8. context_len'["draft"] = Len(Drafted)
    BY <1>3, <1>4 DEF EngineType, Track
  <1>9. Holds(kv["draft"], Front(Drafted))' = Holds(kv'["draft"], Front(Drafted'))
    BY DEF Holds, Front
  <1>10. LogitsInv'
    <2> DEFINE n == Len(proposals)
               Row(s, i) == Text \o SubSeq(s, 1, i - 1)
    <2>1. /\ proposal_logits = [i \in 1 .. n |-> Row(proposals, i)]
          /\ proposal_logits' = Append(proposal_logits, Drafted)
          /\ n \in Nat /\ Len(proposals') = n + 1
      BY <1>1, <1>3, <1>4, <1>5 DEF LogitsInv
    <2>2. \A i \in 1 .. n : Row(proposals', i) = Row(proposals, i)
      <3>1. \A i \in 1 .. n : SubSeq(Append(proposals, t), 1, i - 1) = SubSeq(proposals, 1, i - 1)
        BY <1>3
      <3> QED
        BY <3>1, <1>1
    <2>3. Row(proposals', n + 1) = Drafted
      <3>1. SubSeq(Append(proposals, t), 1, n) = proposals
        BY <1>3
      <3> QED
        BY <3>1, <1>1, <1>5 DEF Drafted
    <2> HIDE DEF n, Row
    <2>4. proposal_logits' = [i \in 1 .. n + 1 |-> Row(proposals', i)]
      BY <2>1, <2>2, <2>3
    <2>5. proposal_logits' = [i \in 1 .. Len(proposals') |-> Text' \o SubSeq(proposals', 1, i - 1)]
      BY <1>2, <2>1, <2>4 DEF Row
    <2> QED
      BY <2>5 DEF LogitsInv
  <1>11. DraftInv'
    BY <1>1, <1>4, <1>7, <1>8, <1>9, <1>10 DEF DraftInv
  <1>12. proposals' \in Seq(Token) /\ Len(proposals') <= K
    BY <1>1, <1>3, <1>5, KAssumption
  <1> QED
    BY <1>2, <1>11, <1>12 DEF ChainInv

LEMMA DraftEnds ==
  ASSUME ChainInv, DraftLastPass
  PROVE  ChainInv'
  <1>1. /\ DraftForward /\ Len(proposals) = K /\ phase = "step" /\ phase' = "verify"
        /\ UNCHANGED <<prompt, greedy, generated, committed, pending_token, proposals,
                       proposal_logits>>
    BY DEF DraftLastPass, DraftForward
  <1>2. EngineInv' /\ Text' = Text
    BY <1>1, DraftPassQuiet
  <1>3. EngineType /\ LogitsInv
    BY <1>1 DEF ChainInv, EngineInv, DraftInv
  <1>4. /\ Holds(kv'["draft"], Drafted)
        /\ context_len' = [context_len EXCEPT !["draft"] = Len(Drafted)]
    BY <1>1, DraftPass
  <1>5. Drafted' = Drafted
    BY <1>1, <1>2 DEF Drafted
  <1>6. context_len'["draft"] = Len(Drafted)
    BY <1>3, <1>4 DEF EngineType, Track
  <1>7. Holds(kv["draft"], Drafted)' = Holds(kv'["draft"], Drafted')
    BY DEF Holds
  <1>8. LogitsInv'
    BY <1>1, <1>2, <1>3 DEF LogitsInv
  <1>9. DraftInv'
    BY <1>1, <1>4, <1>5, <1>6, <1>7, <1>8 DEF DraftInv
  <1> QED
    BY <1>1, <1>2, <1>9 DEF ChainInv

\* The target's pass over the pending token and the drafts: its cache holds the KV
\* of the drafted text, and row i is the text before the i-th draft.
LEMMA VerifyPass ==
  ASSUME ChainInv, phase = "verify", Fits("target", K + 1),
         NEW new, new = Forward(kv["target"], Rows("target", <<pending_token["target"]>> \o proposals))
  PROVE  /\ DOMAIN new = Position /\ Holds(new, Drafted)
         /\ \A i \in 1 .. K + 1 :
              new[context_len["target"] + i - 1] = Text \o SubSeq(proposals, 1, i - 1)
  <1> DEFINE row == <<pending_token["target"]>> \o proposals
             live == Len(Text) - 1
  <1>1. /\ EngineType /\ TextInv /\ InLoop /\ proposals \in Seq(Token) /\ Len(proposals) = K
        /\ K \in Nat /\ "target" \in Track
    BY KAssumption DEF ChainInv, DraftInv, EngineInv, InLoop, Track
  <1>2. /\ context_len["target"] = live /\ pending_token["target"] = Last(Text)
        /\ Holds(kv["target"], Front(Text)) /\ DOMAIN kv["target"] = Position
    BY <1>1 DEF TextInv, EngineType
  <1>3. /\ Text \in Seq(Token) /\ Len(Text) \in Nat /\ Len(Text) > 0
        /\ Front(Text) \in Seq(Token) /\ Len(Front(Text)) = Len(Text) - 1 /\ Last(Text) \in Token
    BY <1>1, TextType
  <1>4. row = <<Last(Text)>> \o proposals /\ row \in Seq(Token) /\ Len(row) = K + 1
    BY <1>1, <1>2, <1>3
  <1>5. live + (K + 1) <= NumBlocks * BlockLen
    BY <1>2 DEF Fits, Capacity
  <1>6. Front(Text) \o row = Drafted
    BY <1>1, <1>3, <1>4, PendingFirst DEF Drafted
  <1> HIDE DEF row
  <1>7. DOMAIN new = Position /\ Holds(new, Drafted)
    <2>1. /\ context_len["target"] = Len(Front(Text))
          /\ Len(Front(Text)) + Len(row) <= NumBlocks * BlockLen
      BY <1>2, <1>3, <1>4, <1>5
    <2>2. new = Forward(kv["target"], Rows("target", row))
      BY DEF row
    <2>3. /\ DOMAIN Forward(kv["target"], Rows("target", row)) = Position
          /\ Holds(Forward(kv["target"], Rows("target", row)), Front(Text) \o row)
      <3>1. /\ Front(Text) \in Seq(Token) /\ row \in Seq(Token)
            /\ Holds(kv["target"], Front(Text)) /\ DOMAIN kv["target"] = Position
        BY <1>2, <1>3, <1>4
      <3> QED
        BY <2>1, <3>1, AppendedRows
    <2> QED
      BY <1>6, <2>2, <2>3
  <1>8. ASSUME NEW i \in 1 .. K + 1
        PROVE  new[live + i - 1] = Text \o SubSeq(proposals, 1, i - 1)
    <2>1. Len(Drafted) = live + 1 + K
      BY <1>1, <1>3, DraftedType
    <2>2. live + i - 1 \in 0 .. Len(Drafted) - 1
      BY <1>1, <1>3, <2>1
    <2>3. new[live + i - 1] = SubSeq(Drafted, 1, live + i - 1 + 1)
      BY <1>7, <2>2 DEF Holds
    <2>4. SubSeq(Text \o proposals, 1, Len(Text) + i - 1) = Text \o SubSeq(proposals, 1, i - 1)
      BY <1>1, <1>3
    <2>5. live + i - 1 + 1 = Len(Text) + i - 1
      BY <1>1, <1>3
    <2> QED
      BY <2>3, <2>4, <2>5 DEF Drafted
  <1> QED
    BY <1>2, <1>7, <1>8

\* The tokens of a step: n of the drafts, and one after them.
Accepts(tokens, drafts, n) ==
  /\ tokens \in Seq(Token) /\ tokens # <<>> /\ Len(tokens) = n + 1
  /\ Front(tokens) = SubSeq(drafts, 1, n)
  /\ \A i \in 1 .. n + 1 : SubSeq(tokens, 1, i - 1) = SubSeq(drafts, 1, i - 1)
  /\ SubSeq(drafts, 1, n) \in Seq(Token)
  /\ SubSeq(drafts, n + 1, Len(drafts)) \in Seq(Token)
  /\ drafts = SubSeq(drafts, 1, n) \o SubSeq(drafts, n + 1, Len(drafts))

LEMMA AcceptedTokens ==
  ASSUME NEW drafts \in Seq(Token), NEW n \in 0 .. Len(drafts), NEW t \in Token
  PROVE  Accepts(SubSeq(drafts, 1, n) \o <<t>>, drafts, n)
  <1> DEFINE tokens == SubSeq(drafts, 1, n) \o <<t>>
  <1>1. tokens \in Seq(Token) /\ Len(tokens) = n + 1 /\ n \in Nat
    OBVIOUS
  <1>2. tokens # <<>>
    BY <1>1
  <1>3. Front(tokens) = SubSeq(drafts, 1, n)
    BY DEF Front
  <1>4. \A i \in 1 .. n + 1 : SubSeq(tokens, 1, i - 1) = SubSeq(drafts, 1, i - 1)
    OBVIOUS
  <1>5. drafts = SubSeq(drafts, 1, n) \o SubSeq(drafts, n + 1, Len(drafts))
    <2>1. Len(drafts) \in Nat /\ n \in 0 .. Len(drafts)
      OBVIOUS
    <2>2. /\ 1 \in 1 .. Len(drafts) + 1 /\ n \in 1 - 1 .. Len(drafts)
          /\ Len(drafts) \in n .. Len(drafts)
      BY <2>1
    <2>3. SubSeq(drafts, 1, n) \o SubSeq(drafts, n + 1, Len(drafts)) = SubSeq(drafts, 1, Len(drafts))
      BY <2>2, ConcatAdjacentSubSeq
    <2> QED
      BY <2>3, SubSeqFull
  <1>6. SubSeq(drafts, 1, n) \in Seq(Token) /\ SubSeq(drafts, n + 1, Len(drafts)) \in Seq(Token)
    OBVIOUS
  <1> QED
    BY <1>1, <1>2, <1>3, <1>4, <1>5, <1>6 DEF Accepts

LEMMA VerifyStep ==
  ASSUME ChainInv, Verify
  PROVE  ChainInv'
  <1> DEFINE live == context_len["target"]
             new  == kv'["target"]
             texts == [i \in 1 .. K + 1 |-> new[live + i - 1]]
  <1>1. /\ phase = "verify" /\ Fits("target", K + 1)
        /\ kv' = [kv EXCEPT !["target"] =
                    Forward(@, Rows("target", <<pending_token["target"]>> \o proposals))]
        /\ UNCHANGED <<proposals, proposal_logits>>
    BY DEF Verify
  <1>2. PICK tokens \in Returned(proposals, texts) :
               Commit(tokens, [target |-> Advance(live, tokens),
                               draft |-> Retract(Len(tokens) - 1)])
    BY DEF Verify
  <1>3. /\ EngineInv /\ EngineType /\ TextInv /\ InLoop
        /\ proposals \in Seq(Token) /\ Len(proposals) = K /\ K \in Nat
        /\ "target" \in Track /\ "draft" \in Track
        /\ context_len["draft"] = Len(Drafted) /\ Holds(kv["draft"], Drafted)
    BY <1>1, KAssumption DEF ChainInv, DraftInv, EngineInv, InLoop, Track
  <1>4. /\ DOMAIN kv' = Track /\ kv'["draft"] = kv["draft"]
        /\ new = Forward(kv["target"], Rows("target", <<pending_token["target"]>> \o proposals))
    BY <1>1, <1>3 DEF EngineType
  <1> HIDE DEF new
  <1>5. /\ DOMAIN new = Position /\ Holds(new, Drafted)
        /\ \A i \in 1 .. K + 1 : new[live + i - 1] = Text \o SubSeq(proposals, 1, i - 1)
    BY <1>1, <1>4, VerifyPass
  <1>6. /\ Text \in Seq(Token) /\ Text # <<>> /\ Len(Text) \in Nat /\ Len(Text) > 0
        /\ Len(Drafted) = Len(Text) + K
    BY <1>3, TextType, DraftedType
  <1>7. PICK n \in 0 .. K, t \in Token :
               /\ tokens = SubSeq(proposals, 1, n) \o <<t>>
               /\ \A i \in 1 .. n + 1 :
                    tokens[i] \in TargetPicks(Text \o SubSeq(proposals, 1, i - 1))
    <2>1. \A i \in 1 .. K + 1 : texts[i] = Text \o SubSeq(proposals, 1, i - 1)
      BY <1>5
    <2> HIDE DEF texts
    <2> QED
      BY <1>2, <1>3, <1>6, <2>1, ReturnedTokens
  <1>8. /\ tokens \in Seq(Token) /\ tokens # <<>> /\ Len(tokens) = n + 1
        /\ Front(tokens) = SubSeq(proposals, 1, n)
        /\ \A i \in 1 .. n + 1 : SubSeq(tokens, 1, i - 1) = SubSeq(proposals, 1, i - 1)
        /\ SubSeq(proposals, 1, n) \in Seq(Token)
        /\ SubSeq(proposals, n + 1, Len(proposals)) \in Seq(Token)
        /\ proposals = SubSeq(proposals, 1, n) \o SubSeq(proposals, n + 1, Len(proposals))
    <2>1. /\ proposals \in Seq(Token) /\ n \in 0 .. Len(proposals) /\ t \in Token
          /\ tokens = SubSeq(proposals, 1, n) \o <<t>>
      BY <1>3, <1>7
    <2>2. Accepts(tokens, proposals, n)
      BY <2>1, AcceptedTokens
    <2> QED
      BY <2>2 DEF Accepts
  <1>9. \A cache : Holds(cache, Drafted) => Holds(cache, Text \o Front(tokens))
    <2> DEFINE a == SubSeq(proposals, 1, n)
               b == SubSeq(proposals, n + 1, Len(proposals))
    <2>1. a \in Seq(Token) /\ b \in Seq(Token) /\ proposals = a \o b /\ Front(tokens) = a
      BY <1>3, <1>8
    <2> HIDE DEF a, b
    <2>2. Drafted = (Text \o a) \o b /\ Text \o a \in Seq(Token)
      BY <1>6, <2>1 DEF Drafted
    <2> QED
      BY <2>1, <2>2, HoldsPrefix
  <1> DEFINE lengths == [target |-> Advance(live, tokens), draft |-> Retract(Len(tokens) - 1)]
  <1>10. /\ lengths \in [Track -> Nat] /\ lengths["target"] = Len(Text) + Len(tokens) - 1
         /\ lengths["draft"] = Len(Text) + Len(tokens) - 1
    <2>1. live = Len(Text) - 1
      BY <1>3 DEF TextInv
    <2>2. Advance(live, tokens) = Len(Text) + n /\ Retract(Len(tokens) - 1) = Len(Text) + n
      BY <1>3, <1>6, <1>8, <2>1 DEF Advance, Retract
    <2>3. lengths = [target |-> Len(Text) + n, draft |-> Len(Text) + n]
      BY <2>2
    <2>4. Len(Text) + n \in Nat /\ Len(Text) + Len(tokens) - 1 = Len(Text) + n
      BY <1>6, <1>8
    <2> HIDE DEF lengths
    <2> QED
      BY <2>3, <2>4 DEF Track
  <1>11. Commit(tokens, lengths)
    BY <1>2
  <1> HIDE DEF lengths
  <1>12. EngineInv' /\ Text' = Text \o tokens /\ Front(Text') = Text \o Front(tokens)
    <2>1. \A track \in Track : DOMAIN kv'[track] = Position
      BY <1>3, <1>4, <1>5 DEF EngineType, Track, new
    <2>2. Holds(kv'["target"], Text \o Front(tokens))
      BY <1>5, <1>9 DEF new
    <2>3. \A i \in 1 .. Len(tokens) : tokens[i] \in TargetPicks(Text \o SubSeq(tokens, 1, i - 1))
      BY <1>7, <1>8
    <2> QED
      BY <1>1, <1>3, <1>4, <1>8, <1>10, <1>11, <2>1, <2>2, <2>3, CommitStep
  <1>13. context_len'["draft"] = Len(Text') - 1
    <2>1. context_len' = lengths
      BY <1>11 DEF Commit
    <2>2. Len(Text') = Len(Text) + Len(tokens)
      BY <1>6, <1>8, <1>12, ConcatProperties
    <2> QED
      BY <1>6, <1>8, <1>10, <2>1, <2>2
  <1>14. Holds(kv'["draft"], Front(Text'))
    BY <1>3, <1>4, <1>9, <1>12
  <1>15. phase' = "append"
    BY <1>11 DEF Commit
  <1> QED
    BY <1>1, <1>12, <1>13, <1>14, <1>15, SharedStep

\* The steps of prefill and generate.
LEMMA GenerateStep ==
  ASSUME ChainInv, UNCHANGED <<proposals, proposal_logits>>,
         PrefillTarget \/ PrefillDraft \/ PrefillRaises \/ Return \/ AppendToken
  PROVE  ChainInv'
  <1>0. EngineInv /\ EngineType
    BY DEF ChainInv, EngineInv
  <1>1. CASE PrefillTarget
    <2>1. EngineInv' /\ phase' = "prime"
      BY <1>0, <1>1, PrefillTargetStep DEF PrefillTarget
    <2> QED
      BY <2>1, SharedStep
  <1>2. CASE PrefillDraft
    <2>1. phase' = "loop"
      BY <1>2 DEF PrefillDraft
    <2>2. EngineInv' /\ context_len'["draft"] = Len(Text') - 1 /\ Holds(kv'["draft"], Front(Text'))
      BY <1>0, <1>2, PrefillDraftStep
    <2> QED
      BY <2>1, <2>2, SharedStep
  <1>3. CASE PrefillRaises \/ Return
    <2>1. /\ phase' \in {"raised", "returned"}
          /\ UNCHANGED <<prompt, greedy, generated, committed, kv, context_len, pending_token>>
      BY <1>3 DEF PrefillRaises, Return
    <2>2. EngineType'
      BY <1>0, <2>1 DEF EngineType
    <2>3. EngineInv'
      BY <1>0, <2>1, <2>2, QuietStep DEF InLoop
    <2> QED
      BY <2>1, <2>3, SharedStep
  <1>4. CASE AppendToken
    <2>1. EngineInv' /\ Text' = Text
      BY <1>0, <1>4, AppendStep
    <2>2. /\ phase = "append" /\ phase' \in {"returned", "loop", "append"}
          /\ UNCHANGED <<kv, context_len>>
      BY <1>4 DEF AppendToken
    <2>3. context_len["draft"] = Len(Text) - 1 /\ Holds(kv["draft"], Front(Text))
      BY <2>2 DEF ChainInv, DraftInv
    <2> QED
      BY <2>1, <2>2, <2>3, SharedStep
  <1> QED
    BY <1>1, <1>2, <1>3, <1>4

LEMMA RaisesStep ==
  ASSUME ChainInv, StepRaises
  PROVE  ChainInv'
  <1>1. /\ phase' = "raised"
        /\ UNCHANGED <<prompt, greedy, generated, committed, kv, context_len, pending_token,
                       proposals, proposal_logits>>
    BY DEF StepRaises
  <1>2. EngineInv /\ EngineType
    BY DEF ChainInv, EngineInv
  <1>3. EngineType'
    BY <1>1, <1>2 DEF EngineType
  <1>4. EngineInv'
    BY <1>1, <1>2, <1>3, QuietStep DEF InLoop
  <1> QED
    BY <1>1, <1>4, SharedStep

LEMMA ChainKeeps ==
  ASSUME ChainInv, [Next]_vars
  PROVE  ChainInv'
  <1>1. CASE UNCHANGED vars
    <2>1. UNCHANGED <<prompt, greedy, generated, committed, kv, context_len, pending_token,
                      phase, proposals, proposal_logits>>
      BY <1>1 DEF vars, engineVars
    <2> QED
      BY <2>1 DEF ChainInv, EngineInv, EngineType, PrefillInv, TextInv, PicksInv, EosInv, InLoop,
                  Picked, TargetPicks, Text, Holds, DraftInv, Drafted, LogitsInv, Front
  <1>2. CASE Next
    <2>1. CASE /\ PrefillTarget \/ PrefillDraft \/ PrefillRaises \/ Return \/ AppendToken
               /\ UNCHANGED <<proposals, proposal_logits>>
      BY <2>1, GenerateStep
    <2>2. CASE Step
      BY <2>2, StepBegins
    <2>3. CASE \E t \in Token : DraftPropose(t)
      BY <2>3, DraftProposes
    <2>4. CASE DraftLastPass
      BY <2>4, DraftEnds
    <2>5. CASE Verify
      BY <2>5, VerifyStep
    <2>6. CASE StepRaises
      BY <2>6, RaisesStep
    <2> QED
      BY <1>2, <2>1, <2>2, <2>3, <2>4, <2>5, <2>6 DEF Next
  <1> QED
    BY <1>1, <1>2

-----------------------------------------------------------------------------
(* The theorems.                                                           *)

(***************************************************************************)
(* What every step of SpeculativeEngine.generate keeps: the text of both   *)
(* caches, before, during and after a round of drafts.                     *)
(***************************************************************************)
THEOREM ChainInvariant == Spec => []ChainInv
  BY ChainStarts, ChainKeeps, PTL DEF Spec

(***************************************************************************)
(* Between steps the target's cache holds the KV of the prompt and of all  *)
(* committed tokens but the pending one: advancing context_len by the      *)
(* accepted tokens drops what rejected drafts wrote, and no more.          *)
(***************************************************************************)
THEOREM TargetCacheHoldsText == Spec => []TargetHoldsText
  <1>1. ChainInv => TargetHoldsText
    BY EngineHoldsText DEF ChainInv
  <1> QED
    BY <1>1, ChainInvariant, PTL

(***************************************************************************)
(* So does the draft's: its extra pass has written the KV of the last      *)
(* proposal, and the retract leaves what was accepted.                     *)
(***************************************************************************)
THEOREM DraftCacheHoldsText == Spec => []DraftHoldsText
  <1>1. ASSUME ChainInv PROVE DraftHoldsText
    <2> SUFFICES ASSUME phase \in {"loop", "append"}
                 PROVE  /\ context_len["draft"] = Len(Text) - 1
                        /\ pending_token["draft"] = Last(Text)
                        /\ \A p \in 0 .. context_len["draft"] - 1 :
                             kv["draft"][p] = SubSeq(Text, 1, p + 1)
      BY DEF DraftHoldsText, HoldsText
    <2>1. EngineType /\ TextInv /\ InLoop
      BY <1>1 DEF ChainInv, EngineInv, InLoop
    <2>2. /\ context_len["draft"] = Len(Text) - 1 /\ Holds(kv["draft"], Front(Text))
          /\ pending_token["draft"] = Last(Text)
      BY <1>1, <2>1 DEF ChainInv, DraftInv, TextInv, Track
    <2> QED
      BY <2>1, <2>2, HeldText
  <1> QED
    BY <1>1, ChainInvariant, PTL

(***************************************************************************)
(* When the target judges the drafts, row i of the logits that              *)
(* accept_reject_sampling compares is the one proposal i was drawn from.   *)
(***************************************************************************)
THEOREM LogitsMatch == Spec => []LogitsMatchProposals
  <1>1. ChainInv => LogitsMatchProposals
    BY DEF ChainInv, DraftInv, LogitsInv, LogitsMatchProposals
  <1> QED
    BY <1>1, ChainInvariant, PTL

(***************************************************************************)
(* Speculation cannot be seen: whatever the draft proposes, the output of  *)
(* generate grows as the target's own decoding would, token by token, and  *)
(* stops where it would.                                                   *)
(***************************************************************************)
THEOREM ChainImplementsDecoding == Spec => ImplementsDecoding
  <1>1. Init => Target!Init
    BY DecodingStarts DEF Init
  <1>2. ASSUME ChainInv, [Next]_vars
        PROVE  [\E t \in Token : Target!Decode(t)]_Target!decodingVars
    <2>0. EngineInv
      BY <1>2 DEF ChainInv
    <2>1. CASE PrefillDraft
      BY <2>0, <2>1, DecodingFirst
    <2>2. CASE AppendToken
      BY <2>0, <2>2, DecodingNext
    <2>3. CASE UNCHANGED <<prompt, greedy, generated>>
      BY <2>3, DecodingStutters
    <2>4. PrefillDraft \/ AppendToken \/ UNCHANGED <<prompt, greedy, generated>>
      BY <1>2 DEF Next, vars, engineVars, PrefillTarget, PrefillRaises, Return, Step,
                  DraftPropose, DraftLastPass, Verify, Commit, StepRaises
    <2> QED
      BY <2>1, <2>2, <2>3, <2>4
  <1> QED
    BY <1>1, <1>2, ChainInvariant, PTL DEF Spec, ImplementsDecoding, Target!Spec
=============================================================================
