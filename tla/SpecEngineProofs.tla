--------------------------- MODULE SpecEngineProofs --------------------------
(***************************************************************************)
(* What both speculative engines rest on: the KV a forward pass computes,  *)
(* and the steps of prefill and generate, which they share.                *)
(***************************************************************************)
EXTENDS SpecEngine, FiniteSetTheorems, SequenceTheorems, TLAPS

-----------------------------------------------------------------------------
(* Forward passes.                                                         *)

\* The first slots of a cache hold the KV of a text.
Holds(cache, text) == \A p \in 0 .. Len(text) - 1 : cache[p] = SubSeq(text, 1, p + 1)

\* The rows that `row` sees, itself included.
Seen(rows, row) == {q \in Range(rows) : q.slot \in row.visible \cup {row.slot}}

\* After l old slots the row sees the n rows `at`, each at its place and seeing
\* what is before it.
Chained(l, rows, row, n, at) ==
  /\ row.visible \ {rows[i].slot : i \in DOMAIN rows} = 0 .. l - 1
  /\ Seen(rows, row) = {at[k] : k \in 1 .. n}
  /\ \A k \in 1 .. n : at[k].rope = l + k - 1
  /\ \A k \in 1 .. n : at[k].visible = 0 .. l - 1 \cup {at[m].slot : m \in 1 .. k - 1}

\* Such a row computes the KV of the text the old slots hold and of its tokens.
LEMMA RowComputes ==
  ASSUME NEW T \in Seq(Token), NEW cache, Holds(cache, T),
         NEW rows, NEW row, NEW n \in Nat, NEW at, Chained(Len(T), rows, row, n, at)
  PROVE  RowText(cache, rows, row) = T \o [k \in 1 .. n |-> at[k].token]
  <1> DEFINE old   == row.visible \ {rows[i].slot : i \in DOMAIN rows}
             text  == IF old = {} THEN <<>> ELSE cache[Max(old)]
             chain == {q \in Range(rows) : q.slot \in row.visible \cup {row.slot}}
             place == 1 .. Cardinality(chain)
             At(k) == CHOOSE q \in chain : q.rope = Len(text) + k - 1
  <1>0. /\ row.visible \ {rows[i].slot : i \in DOMAIN rows} = 0 .. Len(T) - 1
        /\ Seen(rows, row) = {at[k] : k \in 1 .. n}
        /\ \A k \in 1 .. n : at[k].rope = Len(T) + k - 1
        /\ \A k \in 1 .. n : at[k].visible = 0 .. Len(T) - 1 \cup {at[m].slot : m \in 1 .. k - 1}
    BY DEF Chained
  <1>1. old = 0 .. Len(T) - 1 /\ Len(T) \in Nat
    BY <1>0
  <1>2. text = T
    <2>1. CASE Len(T) = 0
      BY <2>1, <1>1, EmptySeq
    <2>2. CASE Len(T) > 0
      <3>1. Max(0 .. Len(T) - 1) = Len(T) - 1
        BY <2>2, <1>1 DEF Max
      <3>2. cache[Len(T) - 1] = SubSeq(T, 1, Len(T))
        BY <2>2, <1>1 DEF Holds
      <3>3. SubSeq(T, 1, Len(T)) = T
        OBVIOUS
      <3>4. old # {}
        <4>1. 0 \in 0 .. Len(T) - 1
          BY <1>1, <2>2
        <4> HIDE DEF old
        <4> QED
          BY <4>1, <1>1
      <3> QED
        BY <3>1, <3>2, <3>3, <3>4, <1>1
    <2> QED
      BY <1>1, <2>1, <2>2
  <1>3. chain = {at[k] : k \in 1 .. n}
    BY <1>0 DEF Seen
  <1>4. IsFiniteSet(chain) /\ Cardinality(chain) = n
    <2> DEFINE f == [k \in 1 .. n |-> at[k]]
    <2>1. f \in Bijection(1 .. n, chain)
      <3>1. \A k, m \in 1 .. n : at[k] = at[m] => k = m
        BY <1>0
      <3> HIDE DEF chain
      <3>2. f \in [1 .. n -> chain]
        BY <1>3
      <3>3. \A q \in chain : \E k \in 1 .. n : f[k] = q
        BY <1>3
      <3>4. \A k, m \in 1 .. n : f[k] = f[m] => k = m
        BY <3>1
      <3> QED
        BY <3>2, <3>3, <3>4 DEF Bijection, Injection, Surjection, IsInjective
    <2>2. IsFiniteSet(1 .. n) /\ Cardinality(1 .. n) = n
      BY FS_Interval
    <2> QED
      BY <2>1, <2>2, FS_Bijection DEF ExistsBijection
  <1> HIDE DEF chain, old, text
  <1>5. \A k \in 1 .. n : At(k) = at[k]
    <2> SUFFICES ASSUME NEW k \in 1 .. n PROVE At(k) = at[k]
      OBVIOUS
    <2>1. at[k] \in chain /\ at[k].rope = Len(text) + k - 1
      BY <1>0, <1>2, <1>3
    <2>2. \A q \in chain : q.rope = Len(text) + k - 1 => q = at[k]
      BY <1>0, <1>2, <1>3
    <2> QED
      BY <2>1, <2>2
  <1>6. {cache[p] : p \in old} = Prefixes(text) \ {<<>>}
    <2>1. \A p \in 0 .. Len(T) - 1 : cache[p] = SubSeq(T, 1, p + 1) /\ cache[p] # <<>>
      BY DEF Holds
    <2>2. \A l \in 0 .. Len(T) : SubSeq(T, 1, l) # <<>> => l - 1 \in 0 .. Len(T) - 1
      OBVIOUS
    <2>3. Prefixes(text) = {SubSeq(T, 1, l) : l \in 0 .. Len(T)}
      BY <1>2 DEF Prefixes
    <2>4. \A p \in old : cache[p] \in Prefixes(text) \ {<<>>}
      BY <1>1, <2>1, <2>3
    <2>5. ASSUME NEW s \in Prefixes(text) \ {<<>>} PROVE \E p \in old : cache[p] = s
      <3>1. PICK l \in 0 .. Len(T) : s = SubSeq(T, 1, l)
        BY <2>3
      <3>2. l - 1 \in 0 .. Len(T) - 1 /\ cache[l - 1] = SubSeq(T, 1, l)
        BY <3>1, <2>1, <2>2
      <3> QED
        BY <3>1, <3>2, <1>1
    <2> QED
      BY <2>4, <2>5
  <1>7. Cardinality(old) = Len(text)
    <2>1. Cardinality(0 .. Len(T) - 1) = Len(T)
      <3>1. 0 \in Int /\ Len(T) - 1 \in Int /\ Len(T) \in Nat
        BY <1>1
      <3>2. Cardinality(0 .. Len(T) - 1) = IF 0 > Len(T) - 1 THEN 0 ELSE Len(T) - 1 - 0 + 1
        BY <3>1, FS_Interval
      <3> QED
        BY <3>1, <3>2
    <2> QED
      BY <1>1, <1>2, <2>1
  <1>8. {q.rope : q \in chain} = {Len(text) + k - 1 : k \in 1 .. n}
    <2> DEFINE Place(k) == Len(text) + k - 1
    <2>1. \A k \in 1 .. n : at[k] \in chain /\ at[k].rope = Place(k)
      BY <1>0, <1>2, <1>3
    <2> HIDE DEF Place
    <2>2. \A q \in chain : \E k \in 1 .. n : q.rope = Place(k)
      BY <1>3, <2>1
    <2>3. {q.rope : q \in chain} = {Place(k) : k \in 1 .. n}
      BY <2>1, <2>2
    <2> QED
      BY <2>3 DEF Place
  <1>9. ASSUME NEW q \in chain
        PROVE  q.visible = old \cup {m.slot : m \in {m \in chain : m.rope < q.rope}}
    <2>1. PICK k \in 1 .. n : q = at[k]
      BY <1>3
    <2>2. {m \in chain : m.rope < q.rope} = {at[m] : m \in 1 .. k - 1}
      BY <1>0, <1>3, <2>1
    <2>3. {m.slot : m \in {at[m] : m \in 1 .. k - 1}} = {at[m].slot : m \in 1 .. k - 1}
      OBVIOUS
    <2> QED
      BY <1>0, <1>1, <2>1, <2>2, <2>3
  <1>10. [k \in place |-> At(k).token] = [k \in 1 .. n |-> at[k].token]
    <2> HIDE DEF At
    <2>1. place = 1 .. n
      BY <1>4
    <2> HIDE DEF place
    <2> QED
      BY <2>1, <1>5
  <1>11. RowText(cache, rows, row) = text \o [k \in place |-> At(k).token]
    <2>1. /\ {cache[p] : p \in old} = Prefixes(text) \ {<<>>}
          /\ Cardinality(old) = Len(text)
          /\ {q.rope : q \in chain} = {Len(text) + k - 1 : k \in place}
          /\ \A q \in chain :
               q.visible = old \cup {m.slot : m \in {m \in chain : m.rope < q.rope}}
      BY <1>4, <1>6, <1>7, <1>8, <1>9
    <2> QED
      BY <2>1 DEF RowText, old, chain, text
  <1> QED
    BY <1>2, <1>10, <1>11

\* A pass writes the slots of its rows and leaves the others.
LEMMA ForwardWrites ==
  ASSUME NEW cache, NEW rows,
         \A i, j \in DOMAIN rows : rows[i].slot = rows[j].slot => i = j
  PROVE  /\ DOMAIN Forward(cache, rows) = DOMAIN cache
         /\ \A i \in DOMAIN rows : rows[i].slot \in DOMAIN cache =>
              Forward(cache, rows)[rows[i].slot] = RowText(cache, rows, rows[i])
         /\ \A p \in DOMAIN cache :
              (\A i \in DOMAIN rows : rows[i].slot # p) => Forward(cache, rows)[p] = cache[p]
  <1> DEFINE texts == [i \in DOMAIN rows |-> RowText(cache, rows, rows[i])]
             Value(p) == IF \E i \in DOMAIN rows : rows[i].slot = p
                         THEN texts[CHOOSE i \in DOMAIN rows : rows[i].slot = p]
                         ELSE cache[p]
  <1>1. Forward(cache, rows) = [p \in DOMAIN cache |-> Value(p)]
    BY DEF Forward
  <1>2. \A i \in DOMAIN rows : Value(rows[i].slot) = RowText(cache, rows, rows[i])
    <2> SUFFICES ASSUME NEW i \in DOMAIN rows
                 PROVE  Value(rows[i].slot) = RowText(cache, rows, rows[i])
      OBVIOUS
    <2> DEFINE j == CHOOSE j \in DOMAIN rows : rows[j].slot = rows[i].slot
    <2>1. j \in DOMAIN rows /\ rows[j].slot = rows[i].slot
      OBVIOUS
    <2>2. j = i
      BY <2>1
    <2>3. Value(rows[i].slot) = texts[j]
      OBVIOUS
    <2> HIDE DEF j
    <2> QED
      BY <2>2, <2>3
  <1>3. \A p \in DOMAIN cache : (\A i \in DOMAIN rows : rows[i].slot # p) => Value(p) = cache[p]
    OBVIOUS
  <1> HIDE DEF Value
  <1> QED
    BY <1>1, <1>2, <1>3

\* Rows appended to a live text compute the KV of the longer text.
LEMMA AppendedRows ==
  ASSUME NEW T \in Seq(Token), NEW cache, Holds(cache, T), DOMAIN cache = Position,
         NEW track, context_len[track] = Len(T), NEW tokens \in Seq(Token),
         Len(T) + Len(tokens) <= NumBlocks * BlockLen
  PROVE  /\ DOMAIN Forward(cache, Rows(track, tokens)) = Position
         /\ Holds(Forward(cache, Rows(track, tokens)), T \o tokens)
  <1> DEFINE rows == Rows(track, tokens)
             l    == Len(T)
             n    == Len(tokens)
             new  == Forward(cache, rows)
  <1>1. l \in Nat /\ n \in Nat /\ NumBlocks * BlockLen \in Nat
    BY EngineAssumption
  <1>2. /\ DOMAIN rows = 1 .. n
        /\ \A i \in 1 .. n : /\ rows[i].token = tokens[i]
                             /\ rows[i].slot = l + i - 1
                             /\ rows[i].rope = l + i - 1
                             /\ rows[i].visible = 0 .. l + i - 2
    BY DEF Rows
  <1> HIDE DEF rows, l, n
  <1>3. /\ DOMAIN new = Position
        /\ \A i \in 1 .. n : new[l + i - 1] = RowText(cache, rows, rows[i])
        /\ \A p \in 0 .. l - 1 : new[p] = cache[p]
    <2>1. \A i, j \in DOMAIN rows : rows[i].slot = rows[j].slot => i = j
      BY <1>1, <1>2
    <2>2. \A i \in 1 .. n : l + i - 1 \in Position
      BY <1>1 DEF Position, l, n
    <2>3. \A p \in 0 .. l - 1 : p \in Position /\ \A i \in DOMAIN rows : rows[i].slot # p
      BY <1>1, <1>2 DEF Position, l, n
    <2>4. /\ DOMAIN new = DOMAIN cache
          /\ \A i \in DOMAIN rows : rows[i].slot \in DOMAIN cache =>
               new[rows[i].slot] = RowText(cache, rows, rows[i])
          /\ \A p \in DOMAIN cache :
               (\A i \in DOMAIN rows : rows[i].slot # p) => new[p] = cache[p]
      BY <2>1, ForwardWrites
    <2> HIDE DEF new
    <2> QED
      BY <1>2, <2>2, <2>3, <2>4
  <1> HIDE DEF new
  <1>4. ASSUME NEW i \in 1 .. n
        PROVE  RowText(cache, rows, rows[i]) = T \o SubSeq(tokens, 1, i)
    <2> DEFINE at == [k \in 1 .. i |-> rows[k]]
    <2>1. i \in Nat /\ \A k \in 1 .. i : k \in 1 .. n
      BY <1>1
    <2>2. {rows[k].slot : k \in DOMAIN rows} = l .. l + n - 1
      <3>1. \A s \in l .. l + n - 1 : s - l + 1 \in 1 .. n /\ s = l + (s - l + 1) - 1
        BY <1>1
      <3>2. \A k \in 1 .. n : l + k - 1 \in l .. l + n - 1
        BY <1>1
      <3>3. {rows[k].slot : k \in DOMAIN rows} = {l + k - 1 : k \in 1 .. n}
        BY <1>2
      <3> QED
        BY <3>1, <3>2, <3>3
    <2>3. rows[i].visible \ {rows[k].slot : k \in DOMAIN rows} = 0 .. l - 1
      <3>1. rows[i].visible = 0 .. l + i - 2
        BY <1>2
      <3> QED
        BY <1>1, <2>1, <2>2, <3>1
    <2>4. Seen(rows, rows[i]) = {at[k] : k \in 1 .. i}
      <3>1. rows[i].visible \cup {rows[i].slot} = 0 .. l + i - 1
        <4>1. rows[i].visible = 0 .. l + i - 2 /\ rows[i].slot = l + i - 1
          BY <1>2
        <4>2. 0 .. l + i - 2 \cup {l + i - 1} = 0 .. l + i - 1
          BY <1>1, <2>1
        <4> QED
          BY <4>1, <4>2
      <3>2. \A k \in 1 .. n : rows[k].slot \in 0 .. l + i - 1 <=> k \in 1 .. i
        BY <1>1, <1>2, <2>1
      <3>3. Seen(rows, rows[i]) = {rows[k] : k \in {k \in 1 .. n : rows[k].slot \in 0 .. l + i - 1}}
        BY <1>2, <3>1 DEF Seen, Range
      <3>4. {k \in 1 .. n : rows[k].slot \in 0 .. l + i - 1} = 1 .. i
        BY <2>1, <3>2
      <3>5. {at[k] : k \in 1 .. i} = {rows[k] : k \in 1 .. i}
        OBVIOUS
      <3> QED
        BY <3>3, <3>4, <3>5
    <2>5. \A k \in 1 .. i : at[k].rope = l + k - 1
      BY <1>2, <2>1
    <2>6. ASSUME NEW k \in 1 .. i
          PROVE  at[k].visible = 0 .. l - 1 \cup {at[m].slot : m \in 1 .. k - 1}
      <3>1. at[k].visible = 0 .. l + k - 2
        BY <1>2, <2>1
      <3>2. {at[m].slot : m \in 1 .. k - 1} = {l + m - 1 : m \in 1 .. k - 1}
        <4>1. \A m \in 1 .. k - 1 : at[m].slot = l + m - 1
          BY <1>2, <2>1
        <4> HIDE DEF at
        <4> QED
          BY <4>1
      <3>3. {l + m - 1 : m \in 1 .. k - 1} = l .. l + k - 2
        <4>1. \A s \in l .. l + k - 2 : s - l + 1 \in 1 .. k - 1 /\ s = l + (s - l + 1) - 1
          BY <1>1, <2>1
        <4>2. \A m \in 1 .. k - 1 : l + m - 1 \in l .. l + k - 2
          BY <1>1, <2>1
        <4> QED
          BY <4>1, <4>2
      <3>4. 0 .. l - 1 \cup l .. l + k - 2 = 0 .. l + k - 2
        BY <1>1, <2>1
      <3> QED
        BY <3>1, <3>2, <3>3, <3>4
    <2> HIDE DEF at
    <2>7. RowText(cache, rows, rows[i]) = T \o [k \in 1 .. i |-> at[k].token]
      <3>1. i \in Nat /\ Chained(Len(T), rows, rows[i], i, at)
        BY <2>1, <2>3, <2>4, <2>5, <2>6 DEF l, Chained
      <3> QED
        BY <3>1, RowComputes
    <2>8. [k \in 1 .. i |-> at[k].token] = SubSeq(tokens, 1, i)
      <3>1. \A k \in 1 .. i : at[k].token = tokens[k]
        BY <1>2, <2>1 DEF at
      <3>2. SubSeq(tokens, 1, i) = [k \in 1 .. i |-> tokens[k]]
        BY <2>1 DEF n
      <3> QED
        BY <3>1, <3>2
    <2> QED
      BY <2>7, <2>8
  <1>5. ASSUME NEW p \in 0 .. Len(T \o tokens) - 1
        PROVE  new[p] = SubSeq(T \o tokens, 1, p + 1)
    <2>1. p \in 0 .. l + n - 1
      BY DEF l, n
    <2>2. CASE p \in 0 .. l - 1
      <3>1. new[p] = SubSeq(T, 1, p + 1)
        BY <1>3, <2>2 DEF Holds, l
      <3>2. SubSeq(T, 1, p + 1) = SubSeq(T \o tokens, 1, p + 1)
        BY <2>2 DEF l
      <3> QED
        BY <3>1, <3>2
    <2>3. CASE p \in l .. l + n - 1
      <3> DEFINE i == p - l + 1
      <3>1. i \in 1 .. n /\ p = l + i - 1
        BY <1>1, <2>3
      <3>2. new[p] = T \o SubSeq(tokens, 1, i)
        BY <1>3, <1>4, <3>1
      <3>3. T \o SubSeq(tokens, 1, i) = SubSeq(T \o tokens, 1, l + i)
        BY <3>1, <1>1 DEF l, n
      <3> QED
        BY <3>1, <3>2, <3>3, <1>1
    <2> QED
      BY <1>1, <2>1, <2>2, <2>3
  <1> QED
    BY <1>3, <1>5 DEF Holds, new, rows

-----------------------------------------------------------------------------
(* The invariant of prefill and generate.                                  *)

EngineType ==
  /\ prompt \in Prompts /\ greedy \in BOOLEAN
  /\ generated \in Seq(Token) /\ committed \in Seq(Token)
  /\ DOMAIN kv = Track /\ \A track \in Track : DOMAIN kv[track] = Position
  /\ context_len \in [Track -> Nat]
  /\ pending_token \in [Track -> Token \cup {-1}]

\* prefill: the target is primed first.
PrefillInv ==
  /\ phase \in {"prefill", "prime"} =>
       generated = <<>> /\ committed = <<>> /\ context_len["draft"] = 0
  /\ phase = "prefill" => context_len["target"] = 0
  /\ phase = "prime" => /\ context_len["target"] = Len(prompt)
                        /\ Holds(kv["target"], prompt)
                        /\ pending_token["target"] \in TargetPicks(prompt)

InLoop == phase \in {"loop", "step", "verify", "accept", "append"}

\* From then on the target's cache holds the text but for its last token, also
\* while a step is under way.
TextInv ==
  InLoop =>
    /\ generated # <<>>
    /\ phase = "append" <=> committed # <<>>
    /\ context_len["target"] = Len(Text) - 1
    /\ \A track \in Track : pending_token[track] = Last(Text)
    /\ Holds(kv["target"], Front(Text))

\* The committed tokens are what the target would have decoded.
Picked(i) == committed[i] \in TargetPicks(prompt \o generated \o SubSeq(committed, 1, i - 1))

PicksInv == InLoop => \A i \in 1 .. Len(committed) : Picked(i)

\* generate has not met the end-of-sequence token yet.
EosInv == InLoop => (Len(generated) > 1 => Last(generated) # Eos)

EngineInv == EngineType /\ PrefillInv /\ TextInv /\ PicksInv /\ EosInv

-----------------------------------------------------------------------------
LEMMA FrontLast ==
  ASSUME NEW s \in Seq(Token), Len(s) > 0
  PROVE  s = Front(s) \o <<Last(s)>> /\ Front(s) \in Seq(Token) /\ Last(s) \in Token
  BY DEF Front, Last

\* A prefix of a text and more is the text and a prefix of what follows.
LEMMA ConcatPrefix ==
  ASSUME NEW a \in Seq(Token), NEW b \in Seq(Token), NEW e \in 0 .. Len(b)
  PROVE  SubSeq(a \o b, 1, Len(a) + e) = a \o SubSeq(b, 1, e)
  OBVIOUS

\* A text without its last token, that token and what follows are the longer text.
LEMMA PendingFirst ==
  ASSUME NEW s \in Seq(Token), Len(s) > 0, NEW u \in Seq(Token)
  PROVE  Front(s) \o (<<Last(s)>> \o u) = s \o u
  <1> DEFINE a == Front(s)
             b == <<Last(s)>>
  <1>1. s = a \o b /\ a \in Seq(Token) /\ b \in Seq(Token)
    BY FrontLast
  <1> HIDE DEF a, b
  <1>2. (a \o b) \o u = a \o (b \o u)
    BY <1>1, ConcatAssociative, SMTT(30)
  <1>3. a \o (b \o u) = s \o u
    BY <1>1, <1>2
  <1> QED
    BY <1>3 DEF a, b

\* The end of a text is that of what was appended.
LEMMA ConcatLast ==
  ASSUME NEW a \in Seq(Token), NEW b \in Seq(Token), Len(b) > 0
  PROVE  Last(a \o b) = Last(b) /\ Front(a \o b) = a \o Front(b)
  <1> DEFINE n == Len(b)
             c == a \o b
  <1>1. n \in Nat /\ n > 0 /\ Len(a) \in Nat /\ Len(c) = Len(a) + n
    OBVIOUS
  <1>2. Last(c) = b[n]
    BY <1>1 DEF Last
  <1>3. n - 1 \in 0 .. Len(b) /\ Len(a) + (n - 1) = Len(c) - 1
    BY <1>1
  <1>4. SubSeq(c, 1, Len(a) + (n - 1)) = a \o SubSeq(b, 1, n - 1)
    BY <1>3, ConcatPrefix
  <1>5. Front(c) = a \o Front(b)
    BY <1>3, <1>4 DEF Front
  <1> QED
    BY <1>2, <1>5 DEF Last

\* The prompt and the text are sequences of tokens that are not empty.
LEMMA TextType ==
  ASSUME EngineType
  PROVE  /\ prompt \in Seq(Token) /\ prompt # <<>> /\ Len(prompt) \in Nat /\ Len(prompt) > 0
         /\ Text \in Seq(Token) /\ Text # <<>> /\ Len(Text) \in Nat /\ Len(Text) > 0
         /\ Len(Text) = Len(prompt) + Len(generated) + Len(committed)
         /\ Front(Text) \in Seq(Token) /\ Len(Front(Text)) = Len(Text) - 1
         /\ Last(Text) \in Token
  <1>1. prompt \in Seq(Token) /\ prompt # <<>>
    BY EngineAssumption DEF EngineType
  <1>2. Len(prompt) \in Nat /\ Len(prompt) > 0
    BY <1>1
  <1>3. generated \in Seq(Token) /\ committed \in Seq(Token)
    BY DEF EngineType
  <1>4. Text \in Seq(Token) /\ Len(Text) = Len(prompt) + Len(generated) + Len(committed)
    BY <1>1, <1>3 DEF Text
  <1>5. Len(Text) \in Nat /\ Len(Text) > 0
    BY <1>2, <1>3, <1>4
  <1>6. Text # <<>>
    BY <1>5
  <1> HIDE DEF Text
  <1> QED
    BY <1>1, <1>2, <1>4, <1>5, <1>6 DEF Front, Last

\* A prompt that fits is within the cache.
LEMMA PromptRows ==
  ASSUME EngineType, NEW track \in Track, context_len[track] = 0, Fits(track, Len(prompt))
  PROVE  /\ DOMAIN Forward(kv[track], Rows(track, prompt)) = Position
         /\ Holds(Forward(kv[track], Rows(track, prompt)), prompt)
  <1>1. prompt \in Seq(Token) /\ Len(prompt) \in Nat
    BY TextType
  <1>2. Len(prompt) <= NumBlocks * BlockLen
    <2>1. Len(prompt) <= Capacity(track)
      BY <1>1 DEF Fits
    <2>2. Capacity(track) <= NumBlocks * BlockLen /\ Capacity(track) \in Nat
      BY EngineAssumption DEF Capacity
    <2> QED
      BY <1>1, <2>1, <2>2, EngineAssumption
  <1>3. Holds(kv[track], <<>>) /\ <<>> \in Seq(Token) /\ Len(<<>>) = 0
    BY DEF Holds
  <1>4. <<>> \o prompt = prompt /\ DOMAIN kv[track] = Position
    BY <1>1 DEF EngineType
  <1>5. Len(<<>>) + Len(prompt) <= NumBlocks * BlockLen
    BY <1>1, <1>2, <1>3
  <1> QED
    BY <1>1, <1>3, <1>4, <1>5, AppendedRows

LEMMA EngineStarts == EngineInit => EngineInv
  <1> SUFFICES ASSUME EngineInit PROVE EngineInv
    OBVIOUS
  <1>1. EngineType
    BY DEF EngineInit, EngineType
  <1>2. PrefillInv
    BY DEF EngineInit, PrefillInv, Track
  <1>3. ~InLoop
    BY DEF EngineInit, InLoop
  <1> QED
    BY <1>1, <1>2, <1>3 DEF EngineInv, TextInv, PicksInv, EosInv

LEMMA PrefillTargetStep ==
  ASSUME EngineInv, PrefillTarget
  PROVE  EngineInv'
  <1> DEFINE new == Forward(kv["target"], Rows("target", prompt))
  <1>1. /\ phase = "prefill" /\ Fits("target", Len(prompt)) /\ phase' = "prime"
        /\ UNCHANGED <<prompt, greedy, generated, committed>>
        /\ "target" \in Track /\ "draft" \in Track
    BY DEF PrefillTarget, Track
  <1>2. PICK first \in TargetPicks(new[Len(prompt) - 1]) : Prime("target", first)
    BY DEF PrefillTarget
  <1>3. EngineType /\ context_len["target"] = 0 /\ context_len["draft"] = 0
    BY <1>1 DEF EngineInv, PrefillInv
  <1>4. DOMAIN new = Position /\ Holds(new, prompt)
    BY <1>1, <1>3, PromptRows
  <1> HIDE DEF new
  <1>5. new[Len(prompt) - 1] = prompt
    <2>1. Len(prompt) \in Nat /\ Len(prompt) > 0 /\ prompt \in Seq(Token)
      BY <1>3, TextType
    <2>2. new[Len(prompt) - 1] = SubSeq(prompt, 1, Len(prompt))
      BY <1>4, <2>1 DEF Holds
    <2> QED
      BY <2>1, <2>2
  <1>6. kv' = [kv EXCEPT !["target"] = new]
    BY <1>2 DEF Prime, new
  <1>7. /\ context_len' = [context_len EXCEPT !["target"] = Len(prompt)]
        /\ pending_token' = [pending_token EXCEPT !["target"] = first]
    BY <1>2 DEF Prime
  <1>8. first \in Token
    BY <1>2 DEF TargetPicks
  <1>9. EngineType'
    <2>1. DOMAIN kv' = Track /\ \A track \in Track : DOMAIN kv'[track] = Position
      BY <1>1, <1>3, <1>4, <1>6 DEF EngineType
    <2>2. context_len' \in [Track -> Nat] /\ pending_token' \in [Track -> Token \cup {-1}]
      BY <1>1, <1>3, <1>7, <1>8, TextType DEF EngineType
    <2> QED
      BY <1>1, <1>3, <2>1, <2>2 DEF EngineType
  <1>10. PrefillInv'
    <2>1. context_len'["target"] = Len(prompt) /\ context_len'["draft"] = 0
      BY <1>1, <1>3, <1>7 DEF EngineType
    <2>2. Holds(kv'["target"], prompt)
      BY <1>1, <1>3, <1>4, <1>6 DEF EngineType
    <2>3. pending_token'["target"] \in TargetPicks(prompt)
      BY <1>1, <1>2, <1>3, <1>5, <1>7 DEF EngineType
    <2>4. TargetPicks(prompt)' = TargetPicks(prompt)
      BY <1>1 DEF TargetPicks
    <2>5. Holds(kv["target"], prompt)' = Holds(kv'["target"], prompt)
      BY <1>1 DEF Holds
    <2>6. generated' = <<>> /\ committed' = <<>>
      BY <1>1 DEF EngineInv, PrefillInv
    <2> QED
      BY <1>1, <2>1, <2>2, <2>3, <2>4, <2>5, <2>6 DEF PrefillInv
  <1>11. ~InLoop'
    BY <1>1 DEF InLoop
  <1> QED
    BY <1>9, <1>10, <1>11 DEF EngineInv, TextInv, PicksInv, EosInv

LEMMA PrefillDraftStep ==
  ASSUME EngineInv, PrefillDraft
  PROVE  /\ EngineInv'
         /\ context_len'["draft"] = Len(Text') - 1
         /\ Holds(kv'["draft"], Front(Text'))
  <1> DEFINE new   == Forward(kv["draft"], Rows("draft", prompt))
             first == pending_token["target"]
  <1>1. /\ phase = "prime" /\ Fits("draft", Len(prompt)) /\ phase' = "loop"
        /\ UNCHANGED <<prompt, greedy, committed>> /\ generated' = <<first>>
        /\ "target" \in Track /\ "draft" \in Track
    BY DEF PrefillDraft, Track
  <1>2. /\ kv' = [kv EXCEPT !["draft"] = new]
        /\ context_len' = [context_len EXCEPT !["draft"] = Len(prompt)]
        /\ pending_token' = [pending_token EXCEPT !["draft"] = first]
    BY DEF PrefillDraft, Prime
  <1>3. /\ EngineType /\ context_len["draft"] = 0 /\ committed = <<>>
        /\ context_len["target"] = Len(prompt) /\ Holds(kv["target"], prompt)
        /\ first \in TargetPicks(prompt)
    BY <1>1 DEF EngineInv, PrefillInv
  <1>4. DOMAIN new = Position /\ Holds(new, prompt)
    BY <1>1, <1>3, PromptRows
  <1>5. first \in Token
    BY <1>3 DEF TargetPicks
  <1> HIDE DEF new, first
  <1>6. prompt \in Seq(Token) /\ Len(prompt) \in Nat /\ Len(prompt) > 0
    BY <1>3, TextType
  <1>7. EngineType'
    <2>1. DOMAIN kv' = Track /\ \A track \in Track : DOMAIN kv'[track] = Position
      BY <1>1, <1>2, <1>3, <1>4 DEF EngineType
    <2>2. context_len' \in [Track -> Nat] /\ pending_token' \in [Track -> Token \cup {-1}]
      BY <1>1, <1>2, <1>3, <1>5, <1>6 DEF EngineType
    <2>3. generated' \in Seq(Token)
      BY <1>1, <1>5
    <2> QED
      BY <1>1, <1>3, <2>1, <2>2, <2>3 DEF EngineType
  <1>8. Text' = prompt \o <<first>>
    BY <1>1, <1>3, <1>5, <1>6 DEF Text
  <1>9. Len(Text') = Len(prompt) + 1 /\ Last(Text') = first /\ Front(Text') = prompt
    BY <1>5, <1>6, <1>8 DEF Last, Front
  <1>10. /\ context_len'["draft"] = Len(prompt) /\ context_len'["target"] = Len(prompt)
         /\ kv'["draft"] = new /\ kv'["target"] = kv["target"]
         /\ pending_token'["draft"] = first /\ pending_token'["target"] = first
    BY <1>1, <1>2, <1>3 DEF EngineType, first
  <1>11. TextInv'
    <2>1. \A track \in Track : pending_token'[track] = first
      BY <1>10 DEF Track
    <2>2. Holds(kv'["target"], Front(Text'))
      BY <1>3, <1>9, <1>10
    <2>3. context_len'["target"] = Len(Text') - 1
      BY <1>6, <1>9, <1>10
    <2>4. generated' # <<>> /\ committed' = <<>> /\ phase' = "loop"
      BY <1>1, <1>3
    <2>5. Holds(kv["target"], Front(Text))' = Holds(kv'["target"], Front(Text'))
      BY DEF Holds, Front
    <2> QED
      BY <1>9, <2>1, <2>2, <2>3, <2>4, <2>5 DEF TextInv
  <1>12. PicksInv'
    <2>1. Len(committed') = 0
      BY <1>1, <1>3
    <2> QED
      BY <2>1 DEF PicksInv
  <1>13. EosInv'
    <2>1. Len(generated') = 1
      BY <1>1
    <2> QED
      BY <2>1 DEF EosInv
  <1>14. PrefillInv'
    BY <1>1 DEF PrefillInv
  <1> QED
    BY <1>4, <1>6, <1>7, <1>9, <1>10, <1>11, <1>12, <1>13, <1>14 DEF EngineInv

\* The first element of a sequence may be counted to the sequence before.
LEMMA MoveHead ==
  ASSUME NEW a \in Seq(Token), NEW b \in Seq(Token), NEW c \in Token, NEW d \in Seq(Token)
  PROVE  (a \o b) \o (<<c>> \o d) = (a \o Append(b, c)) \o d
  <1>1. Append(b, c) = b \o <<c>>
    OBVIOUS
  <1>2. <<c>> \in Seq(Token) /\ b \o <<c>> \in Seq(Token)
    OBVIOUS
  <1>3. (a \o b) \o (<<c>> \o d) = (a \o (b \o <<c>>)) \o d
    <2> DEFINE l == (a \o b) \o (<<c>> \o d)
               r == (a \o (b \o <<c>>)) \o d
    <2>1. l \in Seq(Token) /\ r \in Seq(Token)
      BY <1>2
    <2>2. Len(l) = Len(r) /\ Len(l) \in Nat
      BY <1>2
    <2>3. \A i \in 1 .. Len(l) : l[i] = r[i]
      BY <1>2
    <2> HIDE DEF l, r
    <2>4. l = r
      BY <2>1, <2>2, <2>3
    <2> QED
      BY <2>4 DEF l, r
  <1> QED
    BY <1>1, <1>3

\* A step of generate that only moves committed tokens to the output.
LEMMA AppendStep ==
  ASSUME EngineInv, AppendToken
  PROVE  EngineInv' /\ Text' = Text
  <1> DEFINE t == Head(committed)
  <1>1. /\ phase = "append" /\ phase' \in {"returned", "loop", "append"}
        /\ generated' = Append(generated, t) /\ committed' = Tail(committed)
        /\ phase' = IF t = Eos THEN "returned" ELSE IF committed' = <<>> THEN "loop" ELSE "append"
        /\ UNCHANGED <<prompt, greedy, kv, context_len, pending_token>>
    BY DEF AppendToken
  <1>2. EngineType /\ TextInv /\ PicksInv /\ InLoop
    BY <1>1 DEF EngineInv, InLoop
  <1>3. /\ committed # <<>> /\ committed \in Seq(Token) /\ generated \in Seq(Token)
        /\ prompt \in Seq(Token)
    BY <1>1, <1>2, TextType DEF TextInv, EngineType
  <1>4. /\ t \in Token /\ Tail(committed) \in Seq(Token) /\ committed = <<t>> \o Tail(committed)
        /\ Len(Tail(committed)) = Len(committed) - 1 /\ Len(committed) \in Nat
        /\ \A i \in 1 .. Len(committed) - 1 : Tail(committed)[i] = committed[i + 1]
    BY <1>3
  <1> HIDE DEF t
  <1>5. Text' = Text
    <2>1. Text' = prompt \o Append(generated, t) \o Tail(committed)
      BY <1>1 DEF Text
    <2>2. (prompt \o generated) \o (<<t>> \o Tail(committed))
            = (prompt \o Append(generated, t)) \o Tail(committed)
      BY <1>3, <1>4, MoveHead
    <2> QED
      BY <1>4, <2>1, <2>2 DEF Text
  <1>6. EngineType'
    <2>1. generated' \in Seq(Token) /\ committed' \in Seq(Token)
      BY <1>1, <1>3, <1>4
    <2> QED
      BY <1>1, <1>2, <2>1 DEF EngineType
  <1>7. TextInv'
    <2> SUFFICES ASSUME InLoop' PROVE TextInv'
      BY DEF TextInv
    <2>1. generated' # <<>>
      BY <1>1, <1>3, <1>4
    <2>2. phase' = "append" <=> committed' # <<>>
      BY <1>1 DEF InLoop
    <2>3. Holds(kv'["target"], Front(Text')) = Holds(kv["target"], Front(Text))
      BY <1>1, <1>5
    <2>4. Holds(kv["target"], Front(Text))' = Holds(kv'["target"], Front(Text'))
      BY DEF Holds, Front
    <2>5. /\ context_len'["target"] = Len(Text') - 1
          /\ \A track \in Track : pending_token'[track] = Last(Text')
      BY <1>1, <1>2, <1>5 DEF TextInv
    <2> QED
      BY <1>2, <2>1, <2>2, <2>3, <2>4, <2>5 DEF TextInv
  <1>8. PicksInv'
    <2> SUFFICES ASSUME NEW i \in 1 .. Len(committed')
                 PROVE  Picked(i)'
      BY DEF PicksInv
    <2>1. i + 1 \in 1 .. Len(committed) /\ committed'[i] = committed[i + 1] /\ i \in Nat
      BY <1>1, <1>4
    <2>2. committed[i + 1] \in TargetPicks(prompt \o generated \o SubSeq(committed, 1, i))
      <3>1. committed[i + 1] \in TargetPicks(prompt \o generated \o SubSeq(committed, 1, (i + 1) - 1))
        BY <1>2, <2>1, Zenon DEF PicksInv, Picked
      <3> QED
        BY <2>1, <3>1
    <2>3. SubSeq(committed, 1, i) = <<t>> \o SubSeq(Tail(committed), 1, i - 1)
      BY <1>3, <1>4, <2>1
    <2>4. prompt \o generated \o SubSeq(committed, 1, i)
            = prompt' \o generated' \o SubSeq(committed', 1, i - 1)
      <3>1. SubSeq(Tail(committed), 1, i - 1) \in Seq(Token)
        BY <1>4, <2>1
      <3>2. (prompt \o generated) \o (<<t>> \o SubSeq(Tail(committed), 1, i - 1))
              = (prompt \o Append(generated, t)) \o SubSeq(Tail(committed), 1, i - 1)
        <4> DEFINE rest == SubSeq(Tail(committed), 1, i - 1)
        <4>1. /\ rest \in Seq(Token) /\ t \in Token
              /\ prompt \in Seq(Token) /\ generated \in Seq(Token)
          BY <1>3, <1>4, <3>1
        <4> HIDE DEF rest
        <4>2. (prompt \o generated) \o (<<t>> \o rest) = (prompt \o Append(generated, t)) \o rest
          BY <4>1, MoveHead
        <4> QED
          BY <4>2 DEF rest
      <3> QED
        BY <1>1, <2>3, <3>2
    <2> QED
      BY <1>1, <2>1, <2>2, <2>4 DEF TargetPicks, Picked
  <1>9. EosInv'
    <2>1. Last(generated') = t
      BY <1>1, <1>3, <1>4 DEF Last
    <2> QED
      BY <1>1, <2>1 DEF EosInv, InLoop
  <1>10. PrefillInv'
    BY <1>1 DEF PrefillInv
  <1> QED
    BY <1>5, <1>6, <1>7, <1>8, <1>9, <1>10 DEF EngineInv

\* A step that leaves the text alone, and the target's KV of it.
LEMMA QuietStep ==
  ASSUME EngineInv, UNCHANGED <<prompt, greedy, generated, committed, pending_token>>,
         EngineType', phase' \notin {"prefill", "prime"},
         InLoop' => InLoop /\ (phase' = "append" <=> phase = "append"),
         InLoop' => context_len'["target"] = context_len["target"],
         InLoop' => \A p \in 0 .. Len(Text) - 2 : kv'["target"][p] = kv["target"][p]
  PROVE  EngineInv' /\ Text' = Text
  <1>1. Text' = Text
    BY DEF Text
  <1>2. PrefillInv'
    BY DEF PrefillInv
  <1>3. TextInv'
    <2> SUFFICES ASSUME InLoop' PROVE TextInv'
      BY DEF TextInv
    <2>1. TextInv /\ InLoop /\ EngineType
      BY DEF EngineInv
    <2>2. Len(Front(Text)) = Len(Text) - 1 /\ Len(Text) \in Nat
      BY <2>1, TextType
    <2>3. Holds(kv'["target"], Front(Text))
      <3> SUFFICES ASSUME NEW p \in 0 .. Len(Text) - 2
                   PROVE  kv'["target"][p] = SubSeq(Front(Text), 1, p + 1)
        BY <2>2 DEF Holds
      <3>1. kv["target"][p] = SubSeq(Front(Text), 1, p + 1)
        BY <2>1, <2>2 DEF TextInv, Holds
      <3> QED
        BY <3>1
    <2>4. Holds(kv["target"], Front(Text))' = Holds(kv'["target"], Front(Text'))
      BY DEF Holds, Front
    <2> QED
      BY <1>1, <2>1, <2>3, <2>4 DEF TextInv
  <1>4. PicksInv'
    BY DEF EngineInv, PicksInv, Picked, TargetPicks
  <1>5. EosInv'
    BY DEF EngineInv, EosInv
  <1> QED
    BY <1>1, <1>2, <1>3, <1>4, <1>5 DEF EngineInv

\* What a prefix of a text holds for, it holds for a shorter one.
LEMMA HoldsPrefix ==
  ASSUME NEW T \in Seq(Token), NEW U \in Seq(Token), NEW cache, Holds(cache, T \o U)
  PROVE  Holds(cache, T)
  <1> SUFFICES ASSUME NEW p \in 0 .. Len(T) - 1 PROVE cache[p] = SubSeq(T, 1, p + 1)
    BY DEF Holds
  <1>1. p \in 0 .. Len(T \o U) - 1
    OBVIOUS
  <1>2. cache[p] = SubSeq(T \o U, 1, p + 1)
    BY <1>1 DEF Holds
  <1>3. SubSeq(T \o U, 1, p + 1) = SubSeq(T, 1, p + 1)
    OBVIOUS
  <1> QED
    BY <1>2, <1>3

\* The end of a step, whichever engine made it: the target has computed the KV of
\* the tokens but the last, and it would have picked them all.
LEMMA CommitStep ==
  ASSUME EngineInv, phase \in {"verify", "accept"},
         NEW tokens \in Seq(Token), tokens # <<>>, NEW lengths \in [Track -> Nat],
         lengths["target"] = Len(Text) + Len(tokens) - 1,
         Commit(tokens, lengths),
         DOMAIN kv' = Track, \A track \in Track : DOMAIN kv'[track] = Position,
         Holds(kv'["target"], Text \o Front(tokens)),
         \A i \in 1 .. Len(tokens) : tokens[i] \in TargetPicks(Text \o SubSeq(tokens, 1, i - 1))
  PROVE  EngineInv' /\ Text' = Text \o tokens /\ Front(Text') = Text \o Front(tokens)
  <1>1. /\ committed' = tokens /\ context_len' = lengths /\ phase' = "append"
        /\ pending_token' = [track \in Track |-> Last(tokens)]
        /\ UNCHANGED <<prompt, greedy, generated>>
    BY DEF Commit
  <1>2. EngineType /\ TextInv /\ InLoop /\ EosInv
    BY DEF EngineInv, InLoop
  <1>3. committed = <<>> /\ generated # <<>>
    BY <1>2 DEF TextInv
  <1>4. /\ Text \in Seq(Token) /\ Len(Text) \in Nat /\ prompt \in Seq(Token)
        /\ generated \in Seq(Token)
    BY <1>2, TextType DEF EngineType
  <1>5. Text = prompt \o generated
    BY <1>3, <1>4 DEF Text
  <1>6. Text' = Text \o tokens
    BY <1>1, <1>5 DEF Text
  <1>7. Len(tokens) \in Nat /\ Len(tokens) > 0 /\ tokens[Len(tokens)] \in Token
    OBVIOUS
  <1>8. /\ Len(Text') = Len(Text) + Len(tokens)
        /\ Last(Text') = Last(tokens)
        /\ Front(Text') = Text \o Front(tokens)
    BY <1>4, <1>6, <1>7, ConcatLast, ConcatProperties
  <1>9. EngineType'
    <2>1. pending_token' \in [Track -> Token \cup {-1}]
      BY <1>1, <1>7 DEF Last
    <2> QED
      BY <1>1, <1>2, <2>1 DEF EngineType
  <1>10. TextInv'
    <2>1. Holds(kv["target"], Front(Text))' = Holds(kv'["target"], Front(Text'))
      BY DEF Holds, Front
    <2>2. /\ context_len'["target"] = Len(Text') - 1
          /\ \A track \in Track : pending_token'[track] = Last(Text')
      BY <1>1, <1>4, <1>7, <1>8
    <2> QED
      BY <1>1, <1>3, <1>8, <2>1, <2>2 DEF TextInv
  <1>11. PicksInv'
    <2> SUFFICES ASSUME NEW i \in 1 .. Len(committed')
                 PROVE  Picked(i)'
      BY DEF PicksInv
    <2>1. tokens[i] \in TargetPicks(Text \o SubSeq(tokens, 1, i - 1))
      BY <1>1
    <2> QED
      BY <1>1, <1>5, <2>1 DEF TargetPicks, Picked
  <1>12. PrefillInv' /\ EosInv'
    BY <1>1, <1>2 DEF PrefillInv, EosInv, InLoop
  <1> QED
    BY <1>6, <1>8, <1>9, <1>10, <1>11, <1>12 DEF EngineInv

\* A cache that holds a text but for its last token holds the prefixes of the text.
LEMMA HeldText ==
  ASSUME EngineType, NEW cache, Holds(cache, Front(Text)), NEW l, l = Len(Text) - 1
  PROVE  \A p \in 0 .. l - 1 : cache[p] = SubSeq(Text, 1, p + 1)
  <1>1. /\ Text \in Seq(Token) /\ Len(Text) \in Nat /\ Len(Text) > 0
        /\ Len(Front(Text)) = Len(Text) - 1
    BY TextType
  <1>2. ASSUME NEW p \in 0 .. Len(Text) - 2 PROVE cache[p] = SubSeq(Text, 1, p + 1)
    <2>1. cache[p] = SubSeq(Front(Text), 1, p + 1)
      BY <1>1 DEF Holds
    <2>2. SubSeq(SubSeq(Text, 1, Len(Text) - 1), 1, p + 1) = SubSeq(Text, 1, p + 1)
      BY <1>1
    <2> QED
      BY <2>1, <2>2 DEF Front
  <1> QED
    BY <1>1, <1>2

\* What the runs check of the target's cache.
LEMMA EngineHoldsText ==
  ASSUME EngineInv
  PROVE  TargetHoldsText
  <1> SUFFICES ASSUME phase \in {"loop", "append"}
               PROVE  /\ context_len["target"] = Len(Text) - 1
                      /\ pending_token["target"] = Last(Text)
                      /\ \A p \in 0 .. context_len["target"] - 1 :
                           kv["target"][p] = SubSeq(Text, 1, p + 1)
    BY DEF TargetHoldsText, HoldsText
  <1>1. EngineType /\ TextInv /\ InLoop
    BY DEF EngineInv, InLoop
  <1>2. /\ context_len["target"] = Len(Text) - 1 /\ pending_token["target"] = Last(Text)
        /\ Holds(kv["target"], Front(Text))
    BY <1>1 DEF TextInv, Track
  <1> QED
    BY <1>1, <1>2, HeldText

-----------------------------------------------------------------------------
(* The refinement of Decoding.                                             *)

Cut(s) == SubSeq(s, 1, Min({Len(s), MaxNewLen}))

LEMMA CutIs ==
  ASSUME NEW s \in Seq(Token)
  PROVE  /\ Len(s) <= MaxNewLen => Cut(s) = s
         /\ Len(s) >= MaxNewLen => Len(Cut(s)) = MaxNewLen
         /\ Cut(s) \in Seq(Token)
  <1> DEFINE n == Len(s)
             m == Min({n, MaxNewLen})
  <1>1. n \in Nat /\ MaxNewLen \in Nat /\ MaxNewLen > 0
    BY EngineAssumption
  <1>2. (n <= MaxNewLen => m = n) /\ (n >= MaxNewLen => m = MaxNewLen)
    BY <1>1 DEF Min
  <1>3. Cut(s) = SubSeq(s, 1, m)
    BY DEF Cut
  <1> HIDE DEF m
  <1>4. CASE n <= MaxNewLen
    <2>1. Cut(s) = s
      BY <1>2, <1>3, <1>4
    <2>2. n >= MaxNewLen => n = MaxNewLen
      BY <1>1, <1>4
    <2> QED
      BY <2>1, <2>2
  <1>5. CASE n > MaxNewLen
    <2>1. m = MaxNewLen
      BY <1>1, <1>2, <1>5
    <2>2. MaxNewLen \in 1 .. n
      BY <1>1, <1>5
    <2>3. Cut(s) \in Seq(Token) /\ Len(Cut(s)) = MaxNewLen
      BY <1>3, <2>1, <2>2
    <2> QED
      BY <2>3, <1>1, <1>5
  <1> QED
    BY <1>1, <1>4, <1>5

LEMMA DecodingStarts == EngineInit => Target!Init
  <1> SUFFICES ASSUME EngineInit PROVE Target!Init
    OBVIOUS
  <1>1. prompt \in Prompts /\ greedy \in BOOLEAN /\ generated = <<>>
    BY DEF EngineInit
  <1>2. generated \in Seq(Token) /\ Len(generated) = 0 /\ MaxNewLen \in Nat /\ MaxNewLen > 0
    BY <1>1, EngineAssumption
  <1>3. Output = <<>>
    BY <1>1, <1>2, CutIs DEF Cut, Output
  <1>4. ~Finished
    BY <1>2, <1>3 DEF Finished
  <1> QED
    BY <1>1, <1>3, <1>4 DEF Target!Init

LEMMA DecodingStutters ==
  ASSUME UNCHANGED <<prompt, greedy, generated>>
  PROVE  UNCHANGED Target!decodingVars
  BY DEF Target!decodingVars, Output, Finished

\* One more token of the output, which the target picked.
LEMMA DecodingMoves ==
  ASSUME generated \in Seq(Token), NEW t \in Token, generated' = Append(generated, t),
         UNCHANGED <<prompt, greedy>>, prompt \in Seq(Token),
         prompt # <<>>, t \in TargetPicks(prompt \o generated),
         Len(generated) > 1 => Last(generated) # Eos
  PROVE  [\E u \in Token : Target!Decode(u)]_Target!decodingVars
  <1>1. /\ Len(generated) \in Nat /\ MaxNewLen \in Nat /\ MaxNewLen > 0
        /\ generated' \in Seq(Token) /\ Len(generated') = Len(generated) + 1
        /\ Last(generated') = t
    BY EngineAssumption DEF Last
  <1>2. /\ Len(generated) <= MaxNewLen => Output = generated
        /\ Len(generated) >= MaxNewLen => Len(Output) = MaxNewLen
    BY CutIs DEF Cut, Output
  <1>3. /\ Len(generated') <= MaxNewLen => Output' = generated'
        /\ Len(generated') >= MaxNewLen => Len(Output') = MaxNewLen
    BY <1>1, CutIs DEF Cut, Output
  <1>4. CASE Len(generated) >= MaxNewLen
    <2>1. Output' = Output
      <3> DEFINE n == Len(generated)
      <3>1. Min({n, MaxNewLen}) = MaxNewLen /\ Min({n + 1, MaxNewLen}) = MaxNewLen
        BY <1>1, <1>4 DEF Min
      <3>2. Output = SubSeq(generated, 1, MaxNewLen) /\ Output' = SubSeq(generated', 1, MaxNewLen)
        BY <3>1, <1>1 DEF Output
      <3>3. SubSeq(Append(generated, t), 1, MaxNewLen) = SubSeq(generated, 1, MaxNewLen)
        BY <1>1, <1>4
      <3> QED
        BY <3>2, <3>3
    <2> QED
      BY <2>1 DEF Target!decodingVars, Finished
  <1>5. CASE Len(generated) < MaxNewLen
    <2>1. Output = generated /\ Output' = Append(generated, t)
      BY <1>1, <1>2, <1>3, <1>5
    <2>2. ~Finished
      BY <1>1, <1>5, <2>1 DEF Finished
    <2>3. greedy => t = TargetNext(prompt \o Output)
      <3>1. prompt \o generated # <<>>
        OBVIOUS
      <3> QED
        BY <2>1, <3>1 DEF TargetPicks
    <2>4. Len(Output') = Len(generated) + 1 /\ Last(Output') = t
      BY <1>1, <2>1
    <2>5. Len(Output') > 1 <=> Output # <<>>
      BY <1>1, <2>1, <2>4
    <2>6. Finished' = ((Output # <<>> /\ t = Eos) \/ Len(Output') = MaxNewLen)
      BY <2>4, <2>5 DEF Finished
    <2>7. Target!Decode(t)
      BY <2>1, <2>2, <2>3, <2>6 DEF Target!Decode
    <2> QED
      BY <2>7
  <1> QED
    BY <1>1, <1>4, <1>5

\* The first token is the target's pick after the prompt.
LEMMA DecodingFirst ==
  ASSUME EngineInv, PrefillDraft
  PROVE  [\E u \in Token : Target!Decode(u)]_Target!decodingVars
  <1>1. /\ phase = "prime" /\ generated' = <<pending_token["target"]>>
        /\ UNCHANGED <<prompt, greedy>>
    BY DEF PrefillDraft
  <1>2. EngineType /\ generated = <<>> /\ pending_token["target"] \in TargetPicks(prompt)
    BY <1>1 DEF EngineInv, PrefillInv
  <1>3. prompt \in Seq(Token) /\ prompt # <<>> /\ pending_token["target"] \in Token
    BY <1>2, TextType DEF TargetPicks
  <1>4. /\ generated \in Seq(Token) /\ Len(generated) = 0 /\ prompt \o generated = prompt
        /\ generated' = Append(generated, pending_token["target"])
    BY <1>1, <1>2, <1>3
  <1> QED
    BY <1>1, <1>2, <1>3, <1>4, DecodingMoves

\* The others are those committed, one at a time.
LEMMA DecodingNext ==
  ASSUME EngineInv, AppendToken
  PROVE  [\E u \in Token : Target!Decode(u)]_Target!decodingVars
  <1>1. /\ phase = "append" /\ generated' = Append(generated, Head(committed))
        /\ UNCHANGED <<prompt, greedy>>
    BY DEF AppendToken
  <1>2. EngineType /\ InLoop /\ TextInv /\ PicksInv /\ EosInv
    BY <1>1 DEF EngineInv, InLoop
  <1>3. /\ committed \in Seq(Token) /\ committed # <<>> /\ generated \in Seq(Token)
        /\ prompt \in Seq(Token) /\ prompt # <<>>
    BY <1>1, <1>2, TextType DEF TextInv, EngineType
  <1>4. Head(committed) \in Token /\ Head(committed) = committed[1] /\ 1 \in 1 .. Len(committed)
    BY <1>3
  <1>5. SubSeq(committed, 1, 1 - 1) = <<>> /\ prompt \o generated \in Seq(Token)
    BY <1>3
  <1>6. (prompt \o generated) \o <<>> = prompt \o generated
    BY <1>5
  <1>7. Head(committed) \in TargetPicks(prompt \o generated)
    <2>1. Picked(1)
      BY <1>2, <1>4 DEF PicksInv
    <2> QED
      BY <2>1, <1>4, <1>5, <1>6 DEF Picked
  <1> QED
    BY <1>1, <1>2, <1>3, <1>4, <1>7, DecodingMoves DEF EosInv
=============================================================================
