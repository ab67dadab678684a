---------------------------- MODULE SpecTreeProofs ----------------------------
(***************************************************************************)
(* The tree engine: the nodes of a tree see exactly their path, the scratch *)
(* slots stay within both caches, the target's cache holds the text after  *)
(* the accepted path was moved, and speculation cannot be seen in the      *)
(* output, for every target, draft, prompt, tree shape and cache size.     *)
(***************************************************************************)
EXTENDS SpecTree, SpecEngineProofs

-----------------------------------------------------------------------------
(* The invariant.                                                          *)

NodeRecord == [parent : Nat, token : Token, depth : Nat, mask : SUBSET Nat]

TreeType ==
  /\ tree \in Seq(NodeRecord) /\ Len(tree) <= Budget
  /\ level \subseteq Node /\ depth \in Nat \ {0}

\* A node comes after its parent, and is no deeper than there are nodes before it.
Grown == \A j \in Node : tree[j].parent \in 0 .. j - 1 /\ tree[j].depth <= j

\* What a node sees of the tree is its path, and its depth is its place in it.
PathsSeen ==
  \A path \in Paths : \A d \in DOMAIN path :
    /\ tree[path[d]].depth = d
    /\ tree[path[d]].mask = {0} \cup {path[m] : m \in 1 .. d}

TreeInv == TreeType /\ Grown /\ PathsSeen

\* Both tracks are as long as the text, and a tree is only grown where it fits.
ScratchInv ==
  /\ phase \in {"loop", "step", "accept", "append"} => context_len["draft"] = Len(Text) - 1
  /\ (phase = "step" /\ depth > 1) \/ phase = "accept" => \A track \in Track : ScratchFits(track)

\* The tokens of a path.
Labels(path) == [d \in DOMAIN path |-> tree[path[d]].token]

\* After the target's pass the slot of a node holds the text down to it.
VerifiedInv ==
  phase = "accept" => \A path \in Paths : kv["target"][Live + Leaf(path)] = Text \o Labels(path)

SpecTreeInv == EngineInv /\ phase # "verify" /\ TreeInv /\ ScratchInv /\ VerifiedInv

-----------------------------------------------------------------------------
(* Paths.                                                                  *)

LEMMA NodeType ==
  ASSUME TreeType
  PROVE  /\ Len(tree) \in Nat /\ Node = 1 .. Len(tree)
         /\ \A j \in Node : /\ tree[j].parent \in Nat /\ tree[j].token \in Token
                            /\ tree[j].depth \in Nat /\ tree[j].mask \subseteq Nat
  <1>1. Len(tree) \in Nat /\ Node = 1 .. Len(tree)
    BY DEF TreeType, Node
  <1>2. \A j \in Node : tree[j] \in NodeRecord
    BY DEF TreeType, Node
  <1> QED
    BY <1>1, <1>2 DEF NodeRecord

\* A path as a sequence of nodes.
LEMMA PathType ==
  ASSUME NEW path \in Paths
  PROVE  /\ path \in Seq(Node) /\ Len(path) \in Nat /\ Len(path) <= MaxDepth
         /\ DOMAIN path = 1 .. Len(path)
         /\ \A d \in 1 .. Len(path) : /\ path[d] \in Node
                                      /\ tree[path[d]].parent = Parent(path, d)
  <1>1. path \in BoundedSeq(Node, MaxDepth) /\ \A d \in DOMAIN path : tree[path[d]].parent = Parent(path, d)
    BY DEF Paths
  <1>2. PICK m \in 0 .. MaxDepth : path \in [1 .. m -> Node]
    BY <1>1 DEF BoundedSeq, SeqOf
  <1>3. path \in Seq(Node) /\ Len(path) = m /\ m \in Nat /\ m <= MaxDepth
    BY <1>2, TreeAssumption
  <1> QED
    BY <1>1, <1>2, <1>3

\* The beginning of a path is a path.
LEMMA PathPrefix ==
  ASSUME NEW path \in Paths, NEW l \in 0 .. Len(path)
  PROVE  /\ SubSeq(path, 1, l) \in Paths /\ Len(SubSeq(path, 1, l)) = l
         /\ Leaf(SubSeq(path, 1, l)) = Parent(path, l + 1)
  <1> DEFINE p == SubSeq(path, 1, l)
  <1>1. /\ path \in Seq(Node) /\ Len(path) \in Nat /\ Len(path) <= MaxDepth
        /\ \A d \in 1 .. Len(path) : /\ path[d] \in Node
                                     /\ tree[path[d]].parent = Parent(path, d)
    BY PathType
  <1>2. l \in Nat /\ l <= MaxDepth /\ l <= Len(path) /\ l \in 0 .. MaxDepth
    BY <1>1, TreeAssumption
  <1>3. p \in Seq(Node) /\ Len(p) = l
    BY <1>1, <1>2
  <1>4. p \in [1 .. l -> Node] /\ \A d \in 1 .. l : p[d] = path[d]
    <2>1. \A d \in 1 .. l : p[d] = path[d]
      BY <1>1, <1>2
    <2> HIDE DEF p
    <2> QED
      BY <1>3, <2>1
  <1> HIDE DEF p
  <1>5. p \in BoundedSeq(Node, MaxDepth)
    BY <1>2, <1>4 DEF BoundedSeq, SeqOf
  <1>6. \A d \in 1 .. l : Parent(p, d) = Parent(path, d)
    BY <1>2, <1>4 DEF Parent
  <1>7. p \in Paths
    BY <1>1, <1>2, <1>4, <1>5, <1>6 DEF Paths
  <1>8. Leaf(p) = Parent(path, l + 1)
    <2>1. Leaf(p) = IF l + 1 = 1 THEN 0 ELSE p[l + 1 - 1]
      BY <1>3 DEF Leaf, Parent
    <2>2. Parent(path, l + 1) = IF l + 1 = 1 THEN 0 ELSE path[l + 1 - 1]
      BY DEF Parent
    <2>3. l # 0 => l + 1 - 1 \in 1 .. l
      BY <1>2
    <2> QED
      BY <1>2, <1>4, <2>1, <2>2, <2>3
  <1> QED
    BY <1>3, <1>7, <1>8 DEF p

-----------------------------------------------------------------------------
(* The target's pass over the tree.                                        *)

\* The rows of the pass: the pending token, then the nodes.
LEMMA VerifyRowsAre ==
  ASSUME TreeInv, Live \in Nat
  PROVE  /\ DOMAIN VerifyRows = 1 .. Len(tree) + 1
         /\ VerifyRows[1] = [token |-> pending_token["target"], slot |-> Live, rope |-> Live,
                             visible |-> 0 .. Live - 1]
         /\ \A j \in Node : j + 1 \in 1 .. Len(tree) + 1 /\ VerifyRows[j + 1] = NodeRow(j)
         /\ \A i \in 1 .. Len(tree) + 1 : VerifyRows[i].slot = Live + i - 1
  <1> DEFINE first == [token |-> pending_token["target"], slot |-> Live, rope |-> Live,
                       visible |-> 0 .. Live - 1]
             nodes == [j \in Node |-> NodeRow(j)]
             l == Len(tree)
             S == {first} \cup {NodeRow(j) : j \in Node}
  <1>1. l \in Nat /\ Node = 1 .. l
    BY NodeType DEF TreeInv
  <1>2. first \in S /\ \A j \in Node : NodeRow(j) \in S
    OBVIOUS
  <1>3. first.slot = Live /\ \A j \in Node : NodeRow(j).slot = Live + j
    BY DEF NodeRow
  <1>4. VerifyRows = <<first>> \o nodes
    BY DEF VerifyRows
  <1> HIDE DEF first, S, l
  <1>5. nodes \in Seq(S) /\ Len(nodes) = l /\ \A j \in 1 .. l : nodes[j] = NodeRow(j)
    BY <1>1, <1>2
  <1>6. <<first>> \in Seq(S) /\ Len(<<first>>) = 1 /\ <<first>>[1] = first
    BY <1>2
  <1> HIDE DEF nodes
  <1>7. /\ <<first>> \o nodes \in Seq(S) /\ Len(<<first>> \o nodes) = l + 1
        /\ \A i \in 1 .. 1 + l : (<<first>> \o nodes)[i] =
                                   IF i <= 1 THEN <<first>>[i] ELSE nodes[i - 1]
    BY <1>1, <1>5, <1>6, ConcatProperties
  <1>8. DOMAIN VerifyRows = 1 .. l + 1
    BY <1>4, <1>7
  <1>9. VerifyRows[1] = first
    BY <1>1, <1>4, <1>6, <1>7
  <1>10. \A j \in Node : j + 1 \in 1 .. l + 1 /\ VerifyRows[j + 1] = NodeRow(j)
    BY <1>1, <1>4, <1>5, <1>7
  <1>11. ASSUME NEW i \in 1 .. l + 1 PROVE VerifyRows[i].slot = Live + i - 1
    <2>1. CASE i = 1
      BY <1>3, <1>9, <2>1
    <2>2. CASE i > 1
      <3>1. i - 1 \in Node /\ (i - 1) + 1 = i
        BY <1>1, <2>2
      <3>2. VerifyRows[i] = NodeRow(i - 1)
        BY <1>10, <3>1
      <3> QED
        BY <1>1, <1>3, <3>1, <3>2
    <2> QED
      BY <1>1, <2>1, <2>2
  <1> QED
    BY <1>8, <1>9, <1>10, <1>11 DEF first, l

\* The row of a path's last node sees the rows of the path, each at its place.
LEMMA PathChained ==
  ASSUME TreeInv, Live \in Nat, NEW path \in Paths
  PROVE  Chained(Live, VerifyRows, VerifyRows[Leaf(path) + 1], Len(path) + 1,
                 [k \in 1 .. Len(path) + 1 |-> VerifyRows[Parent(path, k) + 1]])
  <1> DEFINE rows == VerifyRows
             row  == rows[Leaf(path) + 1]
             n    == Len(path)
             at   == [k \in 1 .. n + 1 |-> rows[Parent(path, k) + 1]]
             l    == Len(tree)
             h    == Live
  <1>1. /\ l \in Nat /\ Node = 1 .. l /\ h \in Nat
        /\ path \in Seq(Node) /\ n \in Nat
        /\ \A d \in 1 .. n : path[d] \in 1 .. l
    BY NodeType, PathType DEF TreeInv
  <1>2. /\ DOMAIN rows = 1 .. l + 1
        /\ \A i \in 1 .. l + 1 : rows[i].slot = h + i - 1
    BY VerifyRowsAre
  <1>3. /\ rows[1].rope = h /\ rows[1].visible = 0 .. h - 1
    BY VerifyRowsAre
  <1>4. ASSUME NEW d \in 1 .. n
        PROVE  /\ rows[path[d] + 1].rope = h + d
               /\ rows[path[d] + 1].visible =
                    0 .. h \cup {h + b : b \in ({0} \cup {path[m] : m \in 1 .. d}) \ {path[d]}}
    <2>1. rows[path[d] + 1] = NodeRow(path[d])
      BY <1>1, VerifyRowsAre
    <2>2. tree[path[d]].depth = d /\ tree[path[d]].mask = {0} \cup {path[m] : m \in 1 .. d}
      BY <1>1 DEF TreeInv, PathsSeen
    <2> QED
      BY <2>1, <2>2 DEF NodeRow, RopePos
  <1>5. \A d \in 1 .. n : \A m \in 1 .. d - 1 : path[m] # path[d]
    <2> SUFFICES ASSUME NEW d \in 1 .. n, NEW m \in 1 .. d - 1 PROVE path[m] # path[d]
      OBVIOUS
    <2>1. m \in 1 .. n /\ m # d
      BY <1>1
    <2>2. tree[path[d]].depth = d /\ tree[path[m]].depth = m
      BY <1>1, <2>1 DEF TreeInv, PathsSeen
    <2> QED
      BY <2>1, <2>2
  <1>6. \A k \in 1 .. n + 1 : /\ Parent(path, k) \in 0 .. l
                              /\ k = 1 => Parent(path, k) = 0
                              /\ k > 1 => k - 1 \in 1 .. n /\ Parent(path, k) = path[k - 1]
    BY <1>1 DEF Parent
  <1>7. Leaf(path) = Parent(path, n + 1)
    BY DEF Leaf
  <1> HIDE DEF rows, n, l, h
  <1>8. \A k \in 1 .. n + 1 : at[k] = rows[Parent(path, k) + 1] /\ at[k].slot = h + Parent(path, k)
    BY <1>1, <1>2, <1>6
  <1> HIDE DEF at
  <1>9. \A k \in 1 .. n + 1 : at[k].rope = h + k - 1
    <2> SUFFICES ASSUME NEW k \in 1 .. n + 1 PROVE at[k].rope = h + k - 1
      OBVIOUS
    <2>1. CASE k = 1
      BY <1>1, <1>3, <1>6, <1>8, <2>1
    <2>2. CASE k > 1
      <3>1. k - 1 \in 1 .. n /\ at[k] = rows[path[k - 1] + 1]
        BY <1>6, <1>8, <2>2
      <3> QED
        BY <1>1, <1>4, <3>1
    <2> QED
      BY <1>1, <2>1, <2>2
  <1>10. \A k \in 1 .. n + 1 : at[k].visible = 0 .. h - 1 \cup {at[m].slot : m \in 1 .. k - 1}
    <2> SUFFICES ASSUME NEW k \in 1 .. n + 1
                 PROVE  at[k].visible = 0 .. h - 1 \cup {at[m].slot : m \in 1 .. k - 1}
      OBVIOUS
    <2>0. {at[m].slot : m \in 1 .. k - 1} = {h + Parent(path, m) : m \in 1 .. k - 1}
      <3>1. \A m \in 1 .. k - 1 : at[m].slot = h + Parent(path, m)
        BY <1>1, <1>8
      <3> QED
        BY <3>1
    <2>1. CASE k = 1
      <3>1. at[k] = rows[0 + 1] /\ 0 + 1 = 1
        BY <1>6, <1>8, <2>1
      <3>2. 1 .. k - 1 = {}
        BY <2>1
      <3> QED
        BY <1>3, <3>1, <3>2
    <2>2. CASE k > 1
      <3> DEFINE d == k - 1
                 B == ({0} \cup {path[m] : m \in 1 .. d}) \ {path[d]}
      <3>1. d \in 1 .. n /\ at[k] = rows[path[d] + 1]
        BY <1>6, <1>8, <2>2
      <3>2. at[k].visible = 0 .. h \cup {h + b : b \in B}
        BY <1>4, <3>1
      <3>3. B = {0} \cup {path[m] : m \in 1 .. d - 1}
        <4>1. \A m \in 1 .. d : m = d \/ m \in 1 .. d - 1
          BY <1>1, <3>1
        <4>2. \A m \in 1 .. d - 1 : m \in 1 .. d /\ path[m] # path[d]
          BY <1>1, <1>5, <3>1
        <4>3. path[d] # 0
          BY <1>1, <3>1
        <4> HIDE DEF d
        <4> QED
          BY <4>1, <4>2, <4>3
      <3>4. {h + Parent(path, m) : m \in 1 .. k - 1} = {h + b : b \in B}
        <4>1. \A m \in 1 .. k - 1 : Parent(path, m) \in B
          <5> SUFFICES ASSUME NEW m \in 1 .. k - 1 PROVE Parent(path, m) \in B
            OBVIOUS
          <5>1. CASE m = 1
            BY <1>1, <1>6, <3>3, <5>1
          <5>2. CASE m > 1
            <6>1. m - 1 \in 1 .. d - 1 /\ m \in 1 .. n + 1
              BY <1>1, <3>1, <5>2
            <6>2. Parent(path, m) = path[m - 1]
              BY <1>6, <5>2, <6>1
            <6> HIDE DEF B, d
            <6> QED
              BY <3>3, <6>1, <6>2
          <5> QED
            BY <1>1, <5>1, <5>2
        <4>2. ASSUME NEW b \in B PROVE \E m \in 1 .. k - 1 : b = Parent(path, m)
          <5> HIDE DEF B
          <5>1. CASE b = 0
            <6>1. 1 \in 1 .. k - 1 /\ 1 \in 1 .. n + 1
              BY <1>1, <2>2
            <6>2. Parent(path, 1) = 0
              BY <1>6, <6>1
            <6> QED
              BY <5>1, <6>1, <6>2
          <5>2. CASE b # 0
            <6>1. PICK m \in 1 .. d - 1 : b = path[m]
              BY <3>3, <5>2
            <6>2. m + 1 \in 1 .. k - 1 /\ m + 1 \in 1 .. n + 1 /\ m + 1 > 1 /\ m + 1 - 1 = m
              BY <1>1, <3>1
            <6>3. Parent(path, m + 1) = path[m]
              BY <1>6, <6>2
            <6> QED
              BY <6>1, <6>2, <6>3
          <5> QED
            BY <5>1, <5>2
        <4> HIDE DEF B
        <4> QED
          BY <4>1, <4>2
      <3>5. 0 .. h \cup {h + b : b \in B} = 0 .. h - 1 \cup {h + b : b \in B}
        <4>1. 0 \in B
          BY <3>3
        <4>2. 0 .. h = 0 .. h - 1 \cup {h + 0}
          BY <1>1
        <4> HIDE DEF B
        <4> QED
          BY <4>1, <4>2
      <3> QED
        BY <2>0, <3>2, <3>4, <3>5
    <2> QED
      BY <1>1, <2>1, <2>2
  <1>11. PICK last \in 1 .. n + 1 : last = n + 1
    BY <1>1
  <1>12. /\ row = at[last] /\ row.slot = h + Parent(path, last)
         /\ row.visible = 0 .. h - 1 \cup {at[m].slot : m \in 1 .. last - 1}
    BY <1>7, <1>8, <1>10, <1>11
  <1>13. row.visible = 0 .. h - 1 \cup {at[m].slot : m \in 1 .. n}
    <2>1. last - 1 = n
      BY <1>1, <1>11
    <2> QED
      BY <1>12, <2>1
  <1>14. row.visible \cup {row.slot} = 0 .. h - 1 \cup {h + Parent(path, m) : m \in 1 .. n + 1}
    <2>1. \A m \in 1 .. n : m \in 1 .. n + 1 /\ at[m].slot = h + Parent(path, m)
      BY <1>1, <1>8
    <2>2. \A m \in 1 .. n + 1 : m = last \/ m \in 1 .. n
      BY <1>1, <1>11
    <2> HIDE DEF row
    <2> QED
      BY <1>11, <1>12, <1>13, <2>1, <2>2
  <1>15. row.visible \ {rows[i].slot : i \in DOMAIN rows} = 0 .. h - 1
    <2>1. {rows[i].slot : i \in DOMAIN rows} = h .. h + l
      <3>1. \A s \in h .. h + l : s - h + 1 \in 1 .. l + 1 /\ s = h + (s - h + 1) - 1
        BY <1>1
      <3>2. \A i \in 1 .. l + 1 : h + i - 1 \in h .. h + l
        BY <1>1
      <3>3. {rows[i].slot : i \in DOMAIN rows} = {h + i - 1 : i \in 1 .. l + 1}
        BY <1>2
      <3> QED
        BY <3>1, <3>2, <3>3
    <2>2. \A m \in 1 .. n : at[m].slot \in h .. h + l
      BY <1>1, <1>6, <1>8
    <2>3. \A s \in 0 .. h - 1 : s \notin h .. h + l
      BY <1>1
    <2> HIDE DEF row
    <2> QED
      BY <1>13, <2>1, <2>2, <2>3
  <1>16. Seen(rows, row) = {at[k] : k \in 1 .. n + 1}
    <2> DEFINE V == 0 .. h - 1 \cup {h + Parent(path, m) : m \in 1 .. n + 1}
    <2>1. \A i \in 1 .. l + 1 : rows[i].slot \in V <=> \E m \in 1 .. n + 1 : i = Parent(path, m) + 1
      <3> SUFFICES ASSUME NEW i \in 1 .. l + 1
                   PROVE  h + i - 1 \in V <=> \E m \in 1 .. n + 1 : i = Parent(path, m) + 1
        BY <1>2
      <3>1. h + i - 1 \notin 0 .. h - 1
        BY <1>1
      <3>2. \A m \in 1 .. n + 1 : h + i - 1 = h + Parent(path, m) <=> i = Parent(path, m) + 1
        <4>1. \A a \in 0 .. l : h + i - 1 = h + a <=> i = a + 1
          BY <1>1
        <4> QED
          BY <1>6, <4>1
      <3> QED
        BY <3>1, <3>2
    <2>2. Seen(rows, row) = {rows[i] : i \in {i \in 1 .. l + 1 : rows[i].slot \in V}}
      BY <1>2, <1>14 DEF Seen, Range
    <2>3. \A m \in 1 .. n + 1 : Parent(path, m) + 1 \in 1 .. l + 1
      BY <1>1, <1>6
    <2> HIDE DEF V
    <2>4. Seen(rows, row) = {rows[Parent(path, m) + 1] : m \in 1 .. n + 1}
      BY <2>1, <2>2, <2>3
    <2> QED
      BY <1>8, <2>4
  <1> HIDE DEF row
  <1>17. /\ \A k \in 1 .. n + 1 : at[k].rope = h + k - 1
         /\ \A k \in 1 .. n + 1 : at[k].visible = 0 .. h - 1 \cup {at[m].slot : m \in 1 .. k - 1}
    BY <1>9, <1>10
  <1>18. Chained(h, rows, row, n + 1, at)
    BY <1>15, <1>16, <1>17 DEF Chained
  <1> QED
    BY <1>18 DEF rows, row, at, n, h

\* So it computes the KV of the text with the tokens of the path.
LEMMA PathComputes ==
  ASSUME TreeInv, EngineType, Live = Len(Text) - 1, NEW cache, Holds(cache, Front(Text)),
         pending_token["target"] = Last(Text), NEW path \in Paths
  PROVE  RowText(cache, VerifyRows, VerifyRows[Leaf(path) + 1]) = Text \o Labels(path)
  <1> DEFINE n  == Len(path)
             at == [k \in 1 .. n + 1 |-> VerifyRows[Parent(path, k) + 1]]
             s  == Text
             S  == [k \in 1 .. n + 1 |-> at[k].token]
  <1>1. /\ s \in Seq(Token) /\ Len(s) \in Nat /\ Len(s) > 0
        /\ Front(s) \in Seq(Token) /\ Len(Front(s)) = Len(s) - 1 /\ Last(s) \in Token
    BY TextType
  <1>2. Live \in Nat /\ Live = Len(Front(s))
    BY <1>1
  <1>3. /\ n \in Nat /\ \A d \in 1 .. n : path[d] \in Node
        /\ DOMAIN path = 1 .. n
    BY PathType
  <1>4. RowText(cache, VerifyRows, VerifyRows[Leaf(path) + 1]) = Front(s) \o S
    <2>1. Chained(Len(Front(s)), VerifyRows, VerifyRows[Leaf(path) + 1], n + 1, at)
      BY <1>2, PathChained
    <2>2. n + 1 \in Nat
      BY <1>3
    <2> HIDE DEF at, n, s
    <2> QED
      BY <1>1, <2>1, <2>2, RowComputes DEF s
  <1>5. \A k \in 1 .. n + 1 : S[k] = VerifyRows[Parent(path, k) + 1].token
    OBVIOUS
  <1>6. VerifyRows[1].token = Last(s)
    BY <1>2, VerifyRowsAre
  <1>7. \A j \in Node : VerifyRows[j + 1].token = tree[j].token /\ tree[j].token \in Token
    <2>1. \A j \in Node : VerifyRows[j + 1] = NodeRow(j)
      BY <1>2, VerifyRowsAre
    <2>2. \A j \in Node : NodeRow(j).token = tree[j].token
      BY DEF NodeRow
    <2>3. \A j \in Node : tree[j].token \in Token
      BY NodeType DEF TreeInv
    <2> QED
      BY <2>1, <2>2, <2>3
  <1>8. Labels(path) \in Seq(Token) /\ Len(Labels(path)) = n
        /\ \A d \in 1 .. n : Labels(path)[d] = tree[path[d]].token
    <2>1. \A d \in 1 .. n : tree[path[d]].token \in Token
      BY <1>3, <1>7
    <2>2. Labels(path) = [d \in 1 .. n |-> tree[path[d]].token]
      BY <1>3 DEF Labels
    <2> HIDE DEF n
    <2> QED
      BY <1>3, <2>1, <2>2
  <1> HIDE DEF n, at
  <1>9. S = <<Last(s)>> \o Labels(path)
    <2> DEFINE L == Labels(path)
               r == <<Last(s)>> \o L
    <2>1. L \in Seq(Token) /\ Len(L) = n /\ \A d \in 1 .. n : L[d] = tree[path[d]].token
      BY <1>8
    <2> HIDE DEF L, s
    <2>2. r \in Seq(Token) /\ Len(r) = n + 1 /\ r[1] = Last(s) /\ \A d \in 1 .. n : r[d + 1] = L[d]
      BY <1>1, <1>3, <2>1
    <2>3. ASSUME NEW k \in 1 .. n + 1 PROVE S[k] = r[k]
      <3>1. CASE k = 1
        <4>1. Parent(path, k) + 1 = 1
          BY <3>1 DEF Parent
        <4>2. S[k] = VerifyRows[Parent(path, k) + 1].token
          BY <1>5
        <4> HIDE DEF S, r
        <4> QED
          BY <1>6, <2>2, <3>1, <4>1, <4>2
      <3>2. CASE k > 1
        <4>1. k - 1 \in 1 .. n /\ Parent(path, k) = path[k - 1] /\ (k - 1) + 1 = k
          BY <1>3, <3>2 DEF Parent
        <4>2. path[k - 1] \in Node
          BY <1>3, <4>1
        <4>3. S[k] = tree[path[k - 1]].token
          BY <1>5, <1>7, <4>1, <4>2
        <4>4. r[k] = L[k - 1]
          BY <2>2, <4>1
        <4> QED
          BY <2>1, <4>1, <4>3, <4>4
      <3> HIDE DEF S, r
      <3> QED
        BY <1>3, <3>1, <3>2
    <2>4. S = [k \in 1 .. n + 1 |-> S[k]]
      OBVIOUS
    <2> HIDE DEF r, S
    <2>5. r = [k \in 1 .. n + 1 |-> r[k]]
      BY <1>3, <2>2
    <2>6. S = r
      BY <2>3, <2>4, <2>5
    <2> QED
      BY <2>6 DEF r, L
  <1>10. Front(s) \o (<<Last(s)>> \o Labels(path)) = s \o Labels(path)
    BY <1>1, <1>8, PendingFirst
  <1> QED
    BY <1>4, <1>9, <1>10

-----------------------------------------------------------------------------
(* The growth of the tree.                                                 *)

LEMMA MinMaxOfTwo ==
  ASSUME NEW a \in Int, NEW b \in Int
  PROVE  /\ Min({a, b}) \in {a, b} /\ Min({a, b}) <= a /\ Min({a, b}) <= b
         /\ Max({a, b}) \in {a, b} /\ Max({a, b}) >= a /\ Max({a, b}) >= b
  <1>1. \E x \in {a, b} : \A y \in {a, b} : x <= y
    OBVIOUS
  <1>2. \E x \in {a, b} : \A y \in {a, b} : x >= y
    OBVIOUS
  <1>3. Min({a, b}) \in {a, b} /\ \A y \in {a, b} : Min({a, b}) <= y
    BY <1>1 DEF Min
  <1>4. Max({a, b}) \in {a, b} /\ \A y \in {a, b} : Max({a, b}) >= y
    BY <1>2 DEF Max
  <1> QED
    BY <1>3, <1>4

\* A level does not take the tree over its budget.
LEMMA LevelFits ==
  ASSUME TreeType, NEW parents, IsFiniteSet(parents)
  PROVE  LevelLen(parents) \in Nat /\ Len(tree) + LevelLen(parents) <= Budget
  <1> DEFINE a == Cardinality(parents) * Min({Branch, Cardinality(Token)})
             l == Len(tree)
             h == (Budget - l + 1) \div 2
             b == Max({0, h})
  <1>1. l \in Nat /\ l <= Budget /\ Budget \in Nat
    BY TreeAssumption, NodeType DEF TreeType
  <1>2. a \in Nat
    <2>1. Branch \in Nat /\ Cardinality(Token) \in Nat /\ Cardinality(parents) \in Nat
      BY TreeAssumption, FS_CardinalityType
    <2>2. Branch \in Int /\ Cardinality(Token) \in Int
      BY <2>1
    <2>3. Min({Branch, Cardinality(Token)}) \in {Branch, Cardinality(Token)}
      BY <2>2, MinMaxOfTwo, Zenon
    <2> QED
      BY <2>1, <2>3
  <1> HIDE DEF a, l
  <1>3. h \in Int /\ h <= Budget - l
    BY <1>1
  <1> HIDE DEF h
  <1>4. b \in Nat /\ l + b <= Budget
    <2>1. 0 \in Int /\ h \in Int
      BY <1>3
    <2>2. b \in {0, h} /\ b >= 0
      BY <2>1, MinMaxOfTwo, Zenon
    <2> HIDE DEF b
    <2> QED
      BY <1>1, <1>3, <2>2
  <1> HIDE DEF b
  <1>5. Min({a, b}) \in Nat /\ Min({a, b}) <= b
    BY <1>2, <1>4, MinMaxOfTwo
  <1>6. LevelLen(parents) = Min({a, b})
    BY DEF LevelLen, a, b, h, l
  <1>7. LevelLen(parents) \in Nat /\ l + LevelLen(parents) <= Budget
    BY <1>1, <1>4, <1>5, <1>6
  <1> QED
    BY <1>7 DEF l

\* The tree with a level appended: the nodes it had, and new ones under parents it had.
LEMMA GrownTree ==
  ASSUME TreeInv, NEW parents, IsFiniteSet(parents), parents \subseteq {0} \cup Node, Grow(parents)
  PROVE  \E n \in Nat : \E c \in [1 .. n -> parents \X Token] :
           /\ Len(tree) + n <= Budget
           /\ tree' \in Seq(NodeRecord) /\ Len(tree') = Len(tree) + n
           /\ DOMAIN tree' = 1 .. Len(tree) + n
           /\ \A j \in Node : tree'[j] = tree[j]
           /\ \A i \in 1 .. n : tree'[Len(tree) + i] = NewNode(c[i][1], c[i][2], Len(tree) + i)
           /\ level' = {Len(tree) + i : i \in 1 .. n}
  <1> DEFINE n == LevelLen(parents)
             l == Len(tree)
  <1>1. n \in Nat /\ l + n <= Budget
    BY LevelFits DEF TreeInv
  <1>2. PICK c \in Levels(parents) :
               /\ tree' = tree \o [i \in DOMAIN c |-> NewNode(c[i][1], c[i][2], Len(tree) + i)]
               /\ level' = {Len(tree) + i : i \in DOMAIN c}
    BY DEF Grow
  <1>3. c \in [1 .. n -> parents \X Token]
    BY <1>2 DEF Levels
  <1> DEFINE new == [i \in 1 .. n |-> NewNode(c[i][1], c[i][2], l + i)]
  <1>4. tree' = tree \o new /\ level' = {l + i : i \in 1 .. n}
    BY <1>2, <1>3
  <1>5. l \in Nat /\ Node = 1 .. l /\ tree \in Seq(NodeRecord)
    BY NodeType DEF TreeInv, TreeType
  <1>6. \A i \in 1 .. n : c[i][1] \in parents /\ c[i][2] \in Token
    BY <1>3
  <1>7. ASSUME NEW parent \in {0} \cup Node, NEW token \in Token, NEW j \in Nat
        PROVE  NewNode(parent, token, j) \in NodeRecord
    <2>1. parent # 0 => tree[parent].depth \in Nat /\ tree[parent].mask \subseteq Nat
      BY NodeType DEF TreeInv
    <2>2. NodeMask(parent, j) \in SUBSET Nat
      BY <2>1 DEF NodeMask
    <2>3. parent \in Nat
      BY <1>5
    <2> QED
      BY <2>1, <2>2, <2>3 DEF NewNode, NodeRecord
  <1> HIDE DEF n, l
  <1>8. \A i \in 1 .. n : new[i] = NewNode(c[i][1], c[i][2], l + i) /\ new[i] \in NodeRecord
    <2>1. \A i \in 1 .. n : l + i \in Nat
      BY <1>1, <1>5
    <2> QED
      BY <1>6, <1>7, <2>1
  <1>9. new \in Seq(NodeRecord) /\ Len(new) = n
    <2>1. new = [i \in 1 .. n |-> new[i]]
      OBVIOUS
    <2> HIDE DEF new
    <2> QED
      BY <1>1, <1>8, <2>1
  <1> HIDE DEF new
  <1>10. /\ tree' \in Seq(NodeRecord) /\ Len(tree') = l + n
         /\ \A k \in 1 .. l + n : tree'[k] = IF k <= l THEN tree[k] ELSE new[k - l]
    BY <1>4, <1>5, <1>9, ConcatProperties DEF l
  <1>11. DOMAIN tree' = 1 .. l + n
    BY <1>1, <1>5, <1>10
  <1>12. \A j \in Node : tree'[j] = tree[j]
    BY <1>1, <1>5, <1>10
  <1>13. ASSUME NEW i \in 1 .. n PROVE tree'[l + i] = NewNode(c[i][1], c[i][2], l + i)
    <2> DEFINE k == l + i
    <2>1. k \in 1 .. l + n /\ ~(k <= l) /\ k - l = i
      BY <1>1, <1>5
    <2> HIDE DEF k
    <2>2. tree'[k] = new[k - l]
      BY <1>10, <2>1
    <2> QED
      BY <1>8, <2>1, <2>2 DEF k
  <1> QED
    BY <1>1, <1>3, <1>4, <1>10, <1>11, <1>12, <1>13 DEF l

\* Growth keeps what is known of the nodes: a new node has no child, so it can only
\* be the last of a path.
LEMMA GrowKeeps ==
  ASSUME TreeInv, NEW parents, IsFiniteSet(parents), parents \subseteq {0} \cup Node, Grow(parents)
  PROVE  /\ tree' \in Seq(NodeRecord) /\ Len(tree') <= Budget /\ level' \subseteq DOMAIN tree'
         /\ Grown' /\ PathsSeen'
  <1> DEFINE l == Len(tree)
  <1>1. PICK n \in Nat : \E c \in [1 .. n -> parents \X Token] :
             /\ l + n <= Budget
             /\ tree' \in Seq(NodeRecord) /\ Len(tree') = l + n
             /\ DOMAIN tree' = 1 .. l + n
             /\ \A j \in Node : tree'[j] = tree[j]
             /\ \A i \in 1 .. n : tree'[l + i] = NewNode(c[i][1], c[i][2], l + i)
             /\ level' = {l + i : i \in 1 .. n}
    BY GrownTree
  <1>2. PICK c \in [1 .. n -> parents \X Token] :
             /\ l + n <= Budget
             /\ tree' \in Seq(NodeRecord) /\ Len(tree') = l + n
             /\ DOMAIN tree' = 1 .. l + n
             /\ \A j \in Node : tree'[j] = tree[j]
             /\ \A i \in 1 .. n : tree'[l + i] = NewNode(c[i][1], c[i][2], l + i)
             /\ level' = {l + i : i \in 1 .. n}
    BY <1>1
  <1>3. l \in Nat /\ Node = 1 .. l /\ n \in Nat /\ \A i \in 1 .. n : c[i][1] \in {0} \cup Node
    BY NodeType DEF TreeInv
  <1> HIDE DEF l
  <1>4. Len(tree') <= Budget /\ level' \subseteq DOMAIN tree'
    BY <1>2, <1>3
  <1>5. ASSUME NEW j \in 1 .. l + n, j \notin Node
        PROVE  \E i \in 1 .. n : j = l + i
    <2>1. j - l \in 1 .. n /\ j = l + (j - l)
      BY <1>3, <1>5
    <2> QED
      BY <2>1
  \* A new node and its parent.
  <1>6. ASSUME NEW i \in 1 .. n
        PROVE  LET j == l + i
                   p == tree'[j].parent
               IN /\ p \in {0} \cup Node
                  /\ tree'[j].depth = IF p = 0 THEN 1 ELSE tree[p].depth + 1
                  /\ tree'[j].mask = (IF p = 0 THEN {0} ELSE tree[p].mask) \cup {j}
    <2>1. \A p, t, j : /\ NewNode(p, t, j).parent = p
                       /\ NewNode(p, t, j).depth = IF p = 0 THEN 1 ELSE tree[p].depth + 1
                       /\ NewNode(p, t, j).mask = (IF p = 0 THEN {0} ELSE tree[p].mask) \cup {j}
      BY DEF NewNode, NodeMask
    <2>2. tree'[l + i] = NewNode(c[i][1], c[i][2], l + i) /\ c[i][1] \in {0} \cup Node
      BY <1>2, <1>3
    <2>3. /\ tree'[l + i].parent = c[i][1]
          /\ tree'[l + i].depth = IF c[i][1] = 0 THEN 1 ELSE tree[c[i][1]].depth + 1
          /\ tree'[l + i].mask = (IF c[i][1] = 0 THEN {0} ELSE tree[c[i][1]].mask) \cup {l + i}
      BY <2>1, <2>2
    <2> QED
      BY <2>2, <2>3
  <1>7. \A j \in 1 .. l : /\ tree[j].parent \in 0 .. j - 1 /\ tree[j].depth <= j
                          /\ tree[j].depth \in Nat
    BY <1>3, NodeType DEF TreeInv, Grown
  <1>8. \A j \in 1 .. l + n : tree'[j].parent \in {0} \cup Node
    <2> SUFFICES ASSUME NEW j \in 1 .. l + n PROVE tree'[j].parent \in {0} \cup Node
      OBVIOUS
    <2>1. CASE j \in Node
      <3>1. tree'[j] = tree[j] /\ j \in 1 .. l /\ tree[j].parent \in 0 .. j - 1
        BY <1>2, <1>3, <1>7, <2>1
      <3>2. \A k \in 0 .. j - 1 : k \in {0} \cup 1 .. l
        BY <1>3, <3>1
      <3> QED
        BY <1>3, <3>1, <3>2
    <2>2. CASE j \notin Node
      <3>1. PICK i \in 1 .. n : j = l + i
        BY <1>5, <2>2
      <3> QED
        BY <1>6, <3>1
    <2> QED
      BY <2>1, <2>2
  <1>9. Grown'
    <2> SUFFICES ASSUME NEW j \in 1 .. l + n
                 PROVE  tree'[j].parent \in 0 .. j - 1 /\ tree'[j].depth <= j
      BY <1>2 DEF Grown, Node
    <2>1. CASE j \in Node
      BY <1>2, <1>3, <1>7, <2>1
    <2>2. CASE j \notin Node
      <3>1. PICK i \in 1 .. n : j = l + i
        BY <1>5, <2>2
      <3> DEFINE p == tree'[j].parent
      <3>2. p \in {0} \cup Node /\ tree'[j].depth = IF p = 0 THEN 1 ELSE tree[p].depth + 1
        BY <1>6, <3>1
      <3> HIDE DEF p
      <3>3. p \in 0 .. l /\ j > l
        BY <1>3, <3>1, <3>2
      <3>4. p # 0 => tree[p].depth <= p /\ tree[p].depth \in Nat
        BY <1>3, <1>7, <3>3
      <3>5. tree'[j].depth <= j
        BY <1>3, <3>2, <3>3, <3>4
      <3>6. p \in 0 .. j - 1
        BY <1>3, <3>3
      <3> QED
        BY <3>5, <3>6 DEF p
    <2> QED
      BY <2>1, <2>2
  <1>10. ASSUME NEW path \in Paths'
         PROVE  \A d \in DOMAIN path :
                  /\ tree'[path[d]].depth = d
                  /\ tree'[path[d]].mask = {0} \cup {path[k] : k \in 1 .. d}
    <2>1. /\ path \in BoundedSeq(1 .. l + n, MaxDepth)
          /\ \A d \in DOMAIN path : tree'[path[d]].parent = Parent(path, d)
      BY <1>2 DEF Paths, Node
    <2>2. PICK m \in 0 .. MaxDepth : path \in [1 .. m -> 1 .. l + n]
      BY <2>1 DEF BoundedSeq, SeqOf
    <2>3. m \in Nat /\ m <= MaxDepth /\ MaxDepth \in Nat /\ DOMAIN path = 1 .. m
      BY <2>2, TreeAssumption
    <2>4. \A d \in 1 .. m - 1 : path[d] \in Node
      <3> SUFFICES ASSUME NEW d \in 1 .. m - 1 PROVE path[d] \in Node
        OBVIOUS
      <3>1. d + 1 \in 1 .. m /\ d + 1 # 1 /\ d + 1 - 1 = d /\ d \in 1 .. m
        BY <2>3
      <3>2. tree'[path[d + 1]].parent = path[d]
        BY <2>1, <2>3, <3>1 DEF Parent
      <3>3. path[d] \in 1 .. l + n /\ path[d + 1] \in 1 .. l + n
        BY <2>2, <3>1
      <3>4. path[d] \in {0} \cup Node
        BY <1>8, <3>2, <3>3
      <3> QED
        BY <3>3, <3>4
    \* What holds of the nodes of a path the tree had.
    <2>5. ASSUME NEW e \in 0 .. m, \A d \in 1 .. e : path[d] \in Node
          PROVE  \A d \in 1 .. e : /\ tree'[path[d]].depth = d
                                   /\ tree'[path[d]].mask = {0} \cup {path[k] : k \in 1 .. d}
      <3> DEFINE q == [d \in 1 .. e |-> path[d]]
      <3>1. e \in 0 .. MaxDepth /\ \A d \in 1 .. e : d \in 1 .. m
        BY <2>3
      <3>2. q \in [1 .. e -> Node] /\ DOMAIN q = 1 .. e
        BY <2>5
      <3>3. q \in BoundedSeq(Node, MaxDepth)
        BY <3>1, <3>2 DEF BoundedSeq, SeqOf
      <3>4. \A d \in 1 .. e : tree[q[d]].parent = Parent(q, d)
        <4> SUFFICES ASSUME NEW d \in 1 .. e PROVE tree[path[d]].parent = Parent(q, d)
          OBVIOUS
        <4>1. tree[path[d]].parent = Parent(path, d)
          BY <1>2, <2>1, <2>3, <2>5, <3>1
        <4>2. d # 1 => d - 1 \in 1 .. e
          BY <3>1
        <4>3. Parent(q, d) = Parent(path, d)
          BY <4>2 DEF Parent
        <4> QED
          BY <4>1, <4>3
      <3>5. q \in Paths
        BY <3>2, <3>3, <3>4 DEF Paths
      <3>6. \A d \in 1 .. e : /\ tree[q[d]].depth = d
                              /\ tree[q[d]].mask = {0} \cup {q[k] : k \in 1 .. d}
        BY <3>2, <3>5 DEF TreeInv, PathsSeen
      <3> SUFFICES ASSUME NEW d \in 1 .. e
                   PROVE  /\ tree'[path[d]].depth = d
                          /\ tree'[path[d]].mask = {0} \cup {path[k] : k \in 1 .. d}
        OBVIOUS
      <3>7. tree'[path[d]] = tree[q[d]]
        BY <1>2, <2>5
      <3>8. {q[k] : k \in 1 .. d} = {path[k] : k \in 1 .. d}
        <4>1. \A k \in 1 .. d : q[k] = path[k]
          BY <3>1
        <4> HIDE DEF q
        <4> QED
          BY <4>1
      <3> QED
        BY <3>6, <3>7, <3>8
    <2>6. CASE \A d \in 1 .. m : path[d] \in Node
      <3>1. m \in 0 .. m
        BY <2>3
      <3> QED
        BY <2>3, <2>5, <2>6, <3>1
    <2>7. CASE \E d \in 1 .. m : path[d] \notin Node
      <3>1. m \in 1 .. m /\ path[m] \notin Node /\ path[m] \in 1 .. l + n
        <4>1. \A d \in 1 .. m : d = m \/ d \in 1 .. m - 1
          BY <2>3
        <4> QED
          BY <2>2, <2>3, <2>4, <2>7, <4>1
      <3>2. \A d \in 1 .. m - 1 : /\ tree'[path[d]].depth = d
                                  /\ tree'[path[d]].mask = {0} \cup {path[k] : k \in 1 .. d}
        <4>1. m - 1 \in 0 .. m
          BY <2>3, <3>1
        <4> QED
          BY <2>4, <2>5, <4>1
      <3>3. PICK i \in 1 .. n : path[m] = l + i
        BY <1>5, <3>1
      <3> DEFINE p == tree'[path[m]].parent
      <3>4. /\ p \in {0} \cup Node /\ p = Parent(path, m)
            /\ tree'[path[m]].depth = IF p = 0 THEN 1 ELSE tree[p].depth + 1
            /\ tree'[path[m]].mask = (IF p = 0 THEN {0} ELSE tree[p].mask) \cup {path[m]}
        BY <1>6, <2>1, <2>3, <3>1, <3>3
      <3> HIDE DEF p
      <3>5. /\ tree'[path[m]].depth = m
            /\ tree'[path[m]].mask = {0} \cup {path[k] : k \in 1 .. m}
        <4>1. CASE m = 1
          <5>1. p = 0
            BY <3>4, <4>1 DEF Parent
          <5>2. {path[k] : k \in 1 .. m} = {path[m]}
            BY <4>1
          <5> QED
            BY <3>4, <4>1, <5>1, <5>2
        <4>2. CASE m > 1
          <5>1. m - 1 \in 1 .. m - 1 /\ m # 1
            BY <2>3, <4>2
          <5>2. p = path[m - 1] /\ path[m - 1] \in Node
            BY <2>4, <3>4, <5>1 DEF Parent
          <5>3. p # 0 /\ tree'[p] = tree[p]
            BY <1>2, <1>3, <5>2
          <5>4. /\ tree[p].depth = m - 1
                /\ tree[p].mask = {0} \cup {path[k] : k \in 1 .. m - 1}
            BY <3>2, <5>1, <5>2, <5>3
          <5>5. tree'[path[m]].depth = m
            BY <2>3, <3>4, <5>3, <5>4
          <5>6. \A k \in 1 .. m : k = m \/ k \in 1 .. m - 1
            BY <2>3
          <5>7. \A k \in 1 .. m - 1 : k \in 1 .. m
            BY <2>3
          <5>8. {path[k] : k \in 1 .. m} = {path[k] : k \in 1 .. m - 1} \cup {path[m]}
            BY <3>1, <5>6, <5>7
          <5> QED
            BY <3>4, <5>3, <5>4, <5>5, <5>8
        <4> QED
          BY <3>1, <4>1, <4>2
      <3>6. \A d \in 1 .. m : d = m \/ d \in 1 .. m - 1
        BY <2>3
      <3> QED
        BY <2>3, <3>2, <3>5, <3>6
    <2> QED
      BY <2>6, <2>7
  <1>11. PathsSeen'
    BY <1>10 DEF PathsSeen
  <1> QED
    BY <1>2, <1>4, <1>9, <1>11

-----------------------------------------------------------------------------
(* The steps.                                                              *)

LEMMA TreeStarts == Init => SpecTreeInv
  <1> SUFFICES ASSUME Init PROVE SpecTreeInv
    OBVIOUS
  <1>1. EngineInv
    BY EngineStarts DEF Init
  <1>2. phase = "prefill" /\ tree = <<>> /\ level = {} /\ depth = 1
    BY DEF Init, EngineInit
  <1>3. Node = {}
    BY <1>2 DEF Node
  <1>4. TreeType /\ Grown
    BY <1>2, <1>3, TreeAssumption DEF TreeType, Grown
  <1>5. PathsSeen
    <2> SUFFICES ASSUME NEW path \in Paths, NEW d \in DOMAIN path PROVE FALSE
      BY DEF PathsSeen
    <2>1. path[d] \in Node
      BY PathType
    <2> QED
      BY <1>3, <2>1
  <1>6. ScratchInv /\ VerifiedInv
    BY <1>2 DEF ScratchInv, VerifiedInv
  <1> QED
    BY <1>1, <1>2, <1>4, <1>5, <1>6 DEF SpecTreeInv, TreeInv

\* A step that leaves with no tree.
LEMMA TreeDropped ==
  ASSUME tree' = <<>>, level' = {}, depth' = 1
  PROVE  TreeInv'
  <1>1. Node' = {}
    BY DEF Node
  <1>2. TreeType' /\ Grown'
    BY <1>1, TreeAssumption DEF TreeType, Grown
  <1>3. PathsSeen'
    <2> SUFFICES ASSUME NEW path \in Paths', NEW d \in DOMAIN path PROVE FALSE
      BY DEF PathsSeen
    <2>1. path \in BoundedSeq({}, MaxDepth)
      BY <1>1 DEF Paths
    <2>2. PICK m \in 0 .. MaxDepth : path \in [1 .. m -> {}]
      BY <2>1 DEF BoundedSeq, SeqOf
    <2> QED
      BY <2>2
  <1> QED
    BY <1>2, <1>3 DEF TreeInv

LEMMA TreeKept ==
  ASSUME TreeInv, UNCHANGED <<tree, level, depth>>
  PROVE  TreeInv' /\ Paths' = Paths /\ Node' = Node
  BY DEF TreeInv, TreeType, Grown, PathsSeen, Paths, Node

\* The steps of prefill and generate do not touch the tree.
LEMMA SharedStep ==
  ASSUME SpecTreeInv, EngineInv', UNCHANGED <<tree, level, depth>>,
         phase' \in {"loop", "append"} => context_len'["draft"] = Len(Text') - 1,
         phase' \notin {"step", "verify", "accept"}
  PROVE  SpecTreeInv'
  <1>1. TreeInv'
    BY TreeKept DEF SpecTreeInv
  <1>2. ScratchInv' /\ VerifiedInv'
    BY DEF ScratchInv, VerifiedInv
  <1> QED
    BY <1>1, <1>2 DEF SpecTreeInv

LEMMA GenerateStep ==
  ASSUME SpecTreeInv, UNCHANGED <<tree, level, depth>>,
         PrefillTarget \/ PrefillDraft \/ PrefillRaises \/ Return \/ AppendToken
  PROVE  SpecTreeInv'
  <1>0. EngineInv /\ EngineType
    BY DEF SpecTreeInv, EngineInv
  <1>1. CASE PrefillTarget
    <2>1. EngineInv' /\ phase' = "prime"
      BY <1>0, <1>1, PrefillTargetStep DEF PrefillTarget
    <2> QED
      BY <2>1, SharedStep
  <1>2. CASE PrefillDraft
    <2>1. phase' = "loop"
      BY <1>2 DEF PrefillDraft
    <2>2. EngineInv' /\ context_len'["draft"] = Len(Text') - 1
      BY <1>0, <1>2, PrefillDraftStep
    <2> QED
      BY <2>1, <2>2, SharedStep
  <1>3. CASE PrefillRaises \/ Return
    <2>1. /\ phase' \in {"raised", "returned"}
          /\ UNCHANGED <<prompt, greedy, generated, committed, kv, context_len, pending_token>>
      BY <1>3 DEF PrefillRaises, Return
    <2>2. EngineType'
      BY <1>0, <2>1 DEF EngineType
    <2>3. EngineInv'
      BY <1>0, <2>1, <2>2, QuietStep DEF InLoop
    <2> QED
      BY <2>1, <2>3, SharedStep
  <1>4. CASE AppendToken
    <2>1. EngineInv' /\ Text' = Text
      BY <1>0, <1>4, AppendStep
    <2>2. /\ phase = "append" /\ phase' \in {"returned", "loop", "append"}
          /\ UNCHANGED <<kv, context_len>>
      BY <1>4 DEF AppendToken
    <2>3. context_len["draft"] = Len(Text) - 1
      BY <2>2 DEF SpecTreeInv, ScratchInv
    <2> QED
      BY <2>1, <2>2, <2>3, SharedStep
  <1> QED
    BY <1>1, <1>2, <1>3, <1>4

LEMMA StepBegins ==
  ASSUME SpecTreeInv, Step
  PROVE  SpecTreeInv'
  <1>1. /\ phase = "loop" /\ phase' = "step" /\ tree' = <<>> /\ level' = {} /\ depth' = 1
        /\ UNCHANGED <<prompt, greedy, generated, committed, kv, context_len, pending_token>>
    BY DEF Step, BeginStep
  <1>2. EngineInv /\ EngineType
    BY DEF SpecTreeInv, EngineInv
  <1>3. EngineType'
    BY <1>1, <1>2 DEF EngineType
  <1>4. EngineInv' /\ Text' = Text
    BY <1>1, <1>2, <1>3, QuietStep DEF InLoop
  <1>5. TreeInv'
    BY <1>1, TreeDropped
  <1>6. ScratchInv' /\ VerifiedInv'
    BY <1>1, <1>4 DEF SpecTreeInv, ScratchInv, VerifiedInv
  <1> QED
    BY <1>1, <1>4, <1>5, <1>6 DEF SpecTreeInv

\* A pass of the draft grows the tree and leaves everything of the target alone.
LEMMA ExpandStep ==
  ASSUME SpecTreeInv, phase = "step", phase' = "step", depth' \in Nat, depth' > 1,
         UNCHANGED <<prompt, greedy, generated, committed, context_len, pending_token>>,
         NEW rows, kv' = [kv EXCEPT !["draft"] = Forward(@, rows)],
         NEW parents, IsFiniteSet(parents), parents \subseteq {0} \cup Node, Grow(parents),
         \A track \in Track : ScratchFits(track)
  PROVE  SpecTreeInv'
  <1>1. EngineInv /\ EngineType /\ "draft" \in Track /\ "target" \in Track
    BY DEF SpecTreeInv, EngineInv, Track
  <1>2. kv'["target"] = kv["target"] /\ DOMAIN kv'["draft"] = Position
    BY <1>1 DEF EngineType, Forward
  <1>3. EngineType'
    <2>1. DOMAIN kv' = Track
      BY <1>1 DEF EngineType
    <2>2. \A track \in Track : DOMAIN kv'[track] = Position
      BY <1>1, <1>2 DEF EngineType, Track
    <2> QED
      BY <1>1, <2>1, <2>2 DEF EngineType
  <1>4. EngineInv' /\ Text' = Text
    BY <1>1, <1>2, <1>3, QuietStep DEF InLoop
  <1>5. TreeInv'
    <2>1. /\ tree' \in Seq(NodeRecord) /\ Len(tree') <= Budget /\ level' \subseteq DOMAIN tree'
          /\ Grown' /\ PathsSeen'
      BY GrowKeeps DEF SpecTreeInv
    <2>2. depth' \in Nat \ {0}
      OBVIOUS
    <2> QED
      BY <2>1, <2>2 DEF TreeInv, TreeType, Node
  <1>6. ScratchInv'
    <2>1. context_len["draft"] = Len(Text) - 1
      BY DEF SpecTreeInv, ScratchInv
    <2>2. \A track \in Track : ScratchFits(track)'
      BY DEF ScratchFits, Live, Capacity
    <2> QED
      BY <1>4, <2>1, <2>2 DEF ScratchInv
  <1>7. VerifiedInv'
    BY DEF VerifiedInv
  <1> QED
    BY <1>4, <1>5, <1>6, <1>7 DEF SpecTreeInv

LEMMA ExpandRootStep ==
  ASSUME SpecTreeInv, ExpandRoot
  PROVE  SpecTreeInv'
  <1>1. /\ phase = "step" /\ phase' = "step" /\ depth' = 2
        /\ UNCHANGED <<prompt, greedy, generated, committed, context_len, pending_token>>
        /\ kv' = [kv EXCEPT !["draft"] = Forward(@, Rows("draft", <<pending_token["draft"]>>))]
        /\ Grow({0}) /\ \A track \in Track : ScratchFits(track)
    BY DEF ExpandRoot
  <1>2. IsFiniteSet({0}) /\ {0} \subseteq {0} \cup Node
    BY FS_Singleton
  <1>3. depth' \in Nat /\ depth' > 1
    BY <1>1
  <1> QED
    BY <1>1, <1>2, <1>3, ExpandStep

LEMMA ExpandLevelStep ==
  ASSUME SpecTreeInv, ExpandLevel
  PROVE  SpecTreeInv'
  <1> DEFINE rows == [i \in 1 .. Cardinality(level) |-> NodeRow(SetToSortSeq(level, <)[i])]
  <1>1. /\ phase = "step" /\ phase' = "step" /\ depth \in 2 .. MaxDepth /\ depth' = depth + 1
        /\ UNCHANGED <<prompt, greedy, generated, committed, context_len, pending_token>>
        /\ kv' = [kv EXCEPT !["draft"] = Forward(@, rows)]
        /\ Grow(level)
    BY DEF ExpandLevel
  <1> HIDE DEF rows
  <1>2. IsFiniteSet(level) /\ level \subseteq {0} \cup Node
    <2>1. level \subseteq 1 .. Len(tree) /\ Len(tree) \in Nat /\ Node = 1 .. Len(tree)
      BY NodeType DEF SpecTreeInv, TreeInv, TreeType
    <2>2. IsFiniteSet(1 .. Len(tree))
      BY <2>1, FS_Interval
    <2> QED
      BY <2>1, <2>2, FS_Subset
  <1>3. \A track \in Track : ScratchFits(track)
    <2>1. depth > 1
      BY <1>1, TreeAssumption
    <2> QED
      BY <1>1, <2>1 DEF SpecTreeInv, ScratchInv
  <1>4. depth' \in Nat /\ depth' > 1
    BY <1>1, TreeAssumption
  <1> QED
    BY <1>1, <1>2, <1>3, <1>4, ExpandStep

LEMMA RaisesStep ==
  ASSUME SpecTreeInv, StepRaises
  PROVE  SpecTreeInv'
  <1>1. /\ phase' = "raised"
        /\ UNCHANGED <<prompt, greedy, generated, committed, kv, context_len, pending_token,
                       tree, level, depth>>
    BY DEF StepRaises
  <1>2. EngineInv /\ EngineType
    BY DEF SpecTreeInv, EngineInv
  <1>3. EngineType'
    BY <1>1, <1>2 DEF EngineType
  <1>4. EngineInv'
    BY <1>1, <1>2, <1>3, QuietStep DEF InLoop
  <1> QED
    BY <1>1, <1>4, SharedStep

\* Where the scratch region fits, so do the slots of the nodes.
LEMMA ScratchSlots ==
  ASSUME TreeInv, Live \in Nat, \A track \in Track : ScratchFits(track)
  PROVE  /\ \A track \in Track : Live + Len(tree) < Capacity(track)
         /\ \A j \in 0 .. Len(tree) : Live + j \in Position
  <1> DEFINE l == Len(tree)
             h == Live
  <1>1. l \in Nat /\ l <= Budget /\ Budget \in Nat /\ h \in Nat
    BY TreeAssumption, NodeType DEF TreeInv, TreeType
  <1>2. /\ NumBlocks * BlockLen \in Nat
        /\ \A track \in Track : Capacity(track) \in Int
        /\ Capacity("target") = NumBlocks * BlockLen /\ "target" \in Track
    BY EngineAssumption DEF Capacity, Track
  <1>3. \A track \in Track : h + 1 + Budget < Capacity(track)
    BY DEF ScratchFits
  <1> HIDE DEF l, h
  <1>4. \A track \in Track : h + l < Capacity(track)
    <2> SUFFICES ASSUME NEW track \in Track PROVE h + l < Capacity(track)
      OBVIOUS
    <2> DEFINE c == Capacity(track)
    <2>1. c \in Int /\ h + 1 + Budget < c
      BY <1>2, <1>3
    <2> HIDE DEF c
    <2>2. h + l < c
      BY <1>1, <2>1
    <2> QED
      BY <2>2 DEF c
  <1> DEFINE N == NumBlocks * BlockLen
  <1>5. h + l < N /\ N \in Nat
    BY <1>2, <1>4
  <1> HIDE DEF N
  <1>6. \A j \in 0 .. l : h + j \in 0 .. N - 1
    BY <1>1, <1>5
  <1> QED
    BY <1>4, <1>6 DEF Position, N, l, h

LEMMA VerifyStep ==
  ASSUME SpecTreeInv, Verify
  PROVE  SpecTreeInv'
  <1> DEFINE old == kv["target"]
             new == Forward(old, VerifyRows)
             h   == Live
             l   == Len(tree)
  <1>1. /\ phase = "step" /\ phase' = "accept" /\ depth > 1
        /\ kv' = [kv EXCEPT !["target"] = new]
        /\ UNCHANGED <<prompt, greedy, generated, committed, context_len, pending_token,
                       tree, level, depth>>
        /\ "target" \in Track /\ "draft" \in Track
    BY DEF Verify, Track
  <1>2. /\ EngineInv /\ EngineType /\ TextInv /\ InLoop /\ TreeInv
        /\ context_len["draft"] = Len(Text) - 1
        /\ \A track \in Track : ScratchFits(track)
    BY <1>1 DEF SpecTreeInv, EngineInv, InLoop, ScratchInv
  <1>3. /\ pending_token["target"] = Last(Text) /\ Holds(old, Front(Text))
        /\ DOMAIN old = Position
    BY <1>1, <1>2 DEF TextInv, EngineType
  <1>4. Len(Text) \in Nat /\ Len(Text) > 0 /\ h = Len(Text) - 1 /\ h \in Nat
    BY <1>2, TextType DEF Live
  <1>5. /\ DOMAIN VerifyRows = 1 .. l + 1
        /\ \A i \in 1 .. l + 1 : VerifyRows[i].slot = h + i - 1
    BY <1>2, <1>4, VerifyRowsAre
  <1>6. l \in Nat /\ Node = 1 .. l
    BY <1>2, NodeType DEF TreeInv
  <1>7. \A j \in 0 .. l : h + j \in Position
    BY <1>2, <1>4, ScratchSlots
  <1> HIDE DEF h, l, old
  <1>8. /\ DOMAIN new = Position
        /\ \A i \in 1 .. l + 1 : new[h + i - 1] = RowText(old, VerifyRows, VerifyRows[i])
        /\ \A p \in Position : p < h => new[p] = old[p]
    <2>1. \A i, j \in DOMAIN VerifyRows : VerifyRows[i].slot = VerifyRows[j].slot => i = j
      BY <1>4, <1>5, <1>6
    <2>2. /\ DOMAIN new = DOMAIN old
          /\ \A i \in DOMAIN VerifyRows : VerifyRows[i].slot \in DOMAIN old =>
               new[VerifyRows[i].slot] = RowText(old, VerifyRows, VerifyRows[i])
          /\ \A p \in DOMAIN old :
               (\A i \in DOMAIN VerifyRows : VerifyRows[i].slot # p) => new[p] = old[p]
      BY <2>1, ForwardWrites
    <2>3. \A i \in 1 .. l + 1 : i - 1 \in 0 .. l /\ h + i - 1 = h + (i - 1)
      BY <1>4, <1>6
    <2>4. \A i \in 1 .. l + 1 : h + i - 1 \in Position
      BY <1>7, <2>3
    <2>5. \A p \in Position : p < h => \A i \in 1 .. l + 1 : h + i - 1 # p
      BY <1>4, <1>6 DEF Position
    <2> HIDE DEF new
    <2> QED
      BY <1>3, <1>5, <2>2, <2>4, <2>5
  <1> HIDE DEF new
  <1>9. kv'["target"] = new /\ kv'["draft"] = kv["draft"]
    BY <1>1, <1>2 DEF EngineType
  <1>10. EngineType'
    <2>1. DOMAIN kv' = Track
      BY <1>1, <1>2 DEF EngineType
    <2>2. \A track \in Track : DOMAIN kv'[track] = Position
      BY <1>2, <1>8, <1>9 DEF EngineType, Track
    <2> QED
      BY <1>1, <1>2, <2>1, <2>2 DEF EngineType
  <1>11. EngineInv' /\ Text' = Text
    <2>1. \A p \in 0 .. Len(Text) - 2 : kv'["target"][p] = kv["target"][p]
      <3>1. \A p \in 0 .. Len(Text) - 2 : p < h /\ p = p + 0 /\ p \in Nat
        BY <1>4
      <3>2. h + 0 \in Position /\ 0 \in 0 .. l
        BY <1>6, <1>7
      <3>3. \A p \in 0 .. Len(Text) - 2 : p \in Position
        BY <1>4, <3>1, <3>2, EngineAssumption DEF Position
      <3> QED
        BY <1>8, <1>9, <3>1, <3>3 DEF old
    <2> QED
      BY <1>1, <1>2, <1>10, <2>1, QuietStep DEF InLoop
  <1>12. TreeInv' /\ Paths' = Paths
    BY <1>1, <1>2, TreeKept
  <1>13. ScratchInv'
    BY <1>1, <1>2, <1>11 DEF ScratchInv, ScratchFits, Live
  <1>14. VerifiedInv'
    <2>1. ASSUME NEW path \in Paths PROVE new[h + Leaf(path)] = Text \o Labels(path)
      <3>1. RowText(old, VerifyRows, VerifyRows[Leaf(path) + 1]) = Text \o Labels(path)
        BY <1>2, <1>3, <1>4, PathComputes DEF h
      <3>2. Leaf(path) \in 0 .. l
        BY <1>6, PathType DEF Leaf, Parent
      <3> DEFINE i == Leaf(path) + 1
      <3>3. i \in 1 .. l + 1 /\ h + i - 1 = h + Leaf(path)
        BY <1>4, <1>6, <3>2
      <3> HIDE DEF i
      <3>4. new[h + i - 1] = RowText(old, VerifyRows, VerifyRows[i])
        BY <1>8, <3>3
      <3> QED
        BY <3>1, <3>3, <3>4 DEF i
    <2>2. \A path \in Paths : kv'["target"][Live' + Leaf(path)] = Text' \o Labels(path)'
      <3>1. Live' = h /\ \A path : Labels(path)' = Labels(path)
        BY <1>1 DEF Live, h, Labels
      <3> QED
        BY <1>9, <1>11, <2>1, <3>1
    <2> QED
      BY <1>12, <2>2 DEF VerifiedInv
  <1> QED
    BY <1>1, <1>11, <1>12, <1>13, <1>14 DEF SpecTreeInv

\* The tokens of the beginning of a path are the first of its tokens.
LEMMA LabelsType ==
  ASSUME TreeInv, NEW path \in Paths
  PROVE  /\ Labels(path) \in Seq(Token) /\ Len(Labels(path)) = Len(path)
         /\ \A e \in 0 .. Len(path) : Labels(SubSeq(path, 1, e)) = SubSeq(Labels(path), 1, e)
  <1> DEFINE n == Len(path)
  <1>1. /\ path \in Seq(Node) /\ n \in Nat /\ DOMAIN path = 1 .. n
        /\ \A d \in 1 .. n : path[d] \in Node /\ tree[path[d]].token \in Token
    BY PathType, NodeType DEF TreeInv
  <1> HIDE DEF n
  <1>2. Labels(path) = [d \in 1 .. n |-> tree[path[d]].token]
    BY <1>1 DEF Labels
  <1>3. Labels(path) \in Seq(Token) /\ Len(Labels(path)) = n
    BY <1>1, <1>2
  <1>4. ASSUME NEW e \in 0 .. n
        PROVE  Labels(SubSeq(path, 1, e)) = SubSeq(Labels(path), 1, e)
    <2> DEFINE p == SubSeq(path, 1, e)
               a == Labels(p)
               b == SubSeq(Labels(path), 1, e)
    <2>1. e \in Nat /\ \A d \in 1 .. e : d \in 1 .. n
      BY <1>1
    <2>2. p = [d \in 1 .. e |-> path[d]]
      BY <1>1, <2>1 DEF n
    <2>3. a = [d \in 1 .. e |-> tree[path[d]].token]
      BY <2>2 DEF Labels
    <2>4. b = [d \in 1 .. e |-> Labels(path)[d]]
      BY <1>3, <2>1
    <2>5. \A d \in 1 .. e : Labels(path)[d] = tree[path[d]].token
      BY <1>2, <2>1
    <2> HIDE DEF a, b
    <2>6. a = b
      BY <2>3, <2>4, <2>5
    <2> QED
      BY <2>6 DEF a, b
  <1> QED
    BY <1>3, <1>4 DEF n

\* The slots the path is gathered to hold the text down to each of its nodes.
LEMMA GatheredHolds ==
  ASSUME SpecTreeInv, phase = "accept", NEW path \in Paths
  PROVE  /\ DOMAIN Gather(kv["target"], path) = Position
         /\ Holds(Gather(kv["target"], path), Text \o Labels(path))
  <1> DEFINE cache == kv["target"]
             new   == Gather(cache, path)
             n     == Len(path)
             h     == Live
             s     == Text
             L     == Labels(path)
             l     == Len(tree)
  <1>1. /\ EngineType /\ TextInv /\ TreeInv /\ context_len["draft"] = Len(s) - 1
        /\ \A track \in Track : ScratchFits(track)
        /\ \A p \in Paths : cache[h + Leaf(p)] = s \o Labels(p)
    BY DEF SpecTreeInv, EngineInv, InLoop, ScratchInv, VerifiedInv
  <1>2. DOMAIN cache = Position /\ Holds(cache, Front(s))
    BY <1>1 DEF EngineType, TextInv, InLoop, Track
  <1>3. /\ s \in Seq(Token) /\ Len(s) \in Nat /\ Len(s) > 0 /\ Len(Front(s)) = Len(s) - 1
        /\ h = Len(s) - 1 /\ h \in Nat
    BY <1>1, TextType DEF Live
  <1>4. /\ L \in Seq(Token) /\ Len(L) = n /\ n \in Nat /\ DOMAIN path = 1 .. n
        /\ \A e \in 0 .. n : Labels(SubSeq(path, 1, e)) = SubSeq(L, 1, e)
    BY <1>1, LabelsType, PathType
  <1>5. \A e \in 1 .. n : path[e] \in 1 .. l /\ e <= path[e]
    <2>1. \A e \in 1 .. n : path[e] \in Node /\ tree[path[e]].depth = e
      BY <1>1, <1>4, PathType DEF TreeInv, PathsSeen
    <2>2. Node = 1 .. l /\ \A j \in Node : tree[j].depth <= j
      BY <1>1, NodeType DEF TreeInv, Grown
    <2> QED
      BY <2>1, <2>2
  <1>6. /\ l \in Nat /\ \A j \in 0 .. l : h + j \in Position
    BY <1>1, <1>3, ScratchSlots, NodeType DEF TreeInv
  <1>7. \A e \in 0 .. n : cache[h + Parent(path, e + 1)] = s \o SubSeq(L, 1, e)
    <2> SUFFICES ASSUME NEW e \in 0 .. n
                 PROVE  cache[h + Parent(path, e + 1)] = s \o SubSeq(L, 1, e)
      OBVIOUS
    <2>1. SubSeq(path, 1, e) \in Paths /\ Leaf(SubSeq(path, 1, e)) = Parent(path, e + 1)
      BY PathPrefix
    <2> QED
      BY <1>1, <1>4, <2>1
  <1>8. new = [p \in Position |-> IF p - h \in 1 .. n THEN cache[h + path[p - h]] ELSE cache[p]]
    BY <1>2, <1>4 DEF Gather
  <1> HIDE DEF cache, new, n, h, s, L, l
  <1>9. ASSUME NEW e \in 1 .. n PROVE h + e \in Position /\ new[h + e] = cache[h + path[e]]
    <2>1. e \in 0 .. l /\ (h + e) - h = e
      BY <1>3, <1>4, <1>5, <1>6
    <2>2. h + e \in Position
      BY <1>6, <2>1
    <2> DEFINE p == h + e
    <2>3. p \in Position /\ p - h = e /\ p - h \in 1 .. n
      BY <2>1, <2>2
    <2> HIDE DEF p
    <2>4. new[p] = cache[h + path[p - h]]
      BY <1>8, <2>3
    <2> QED
      BY <2>2, <2>3, <2>4 DEF p
  <1>10. h \in Position /\ new[h] = s
    <2>1. 0 \in 0 .. l /\ h + 0 = h /\ h - h = 0 /\ 0 \notin 1 .. n
      BY <1>3, <1>4, <1>6
    <2>2. h \in Position
      BY <1>6, <2>1
    <2>3. new[h] = cache[h]
      BY <1>8, <2>1, <2>2
    <2>4. 0 \in 0 .. n /\ Parent(path, 0 + 1) = 0 /\ SubSeq(L, 1, 0) = <<>>
      BY <1>4 DEF Parent
    <2>5. cache[h + 0] = s \o <<>>
      BY <1>7, <2>4
    <2>6. s \o <<>> = s
      BY <1>3
    <2> QED
      BY <2>1, <2>2, <2>3, <2>5, <2>6
  <1>11. ASSUME NEW p \in 0 .. h - 1 PROVE new[p] = SubSeq(s, 1, p + 1)
    <2>1. p \in Position /\ p - h \notin 1 .. n
      <3> DEFINE N == NumBlocks * BlockLen
      <3>1. N \in Int /\ h \in 0 .. N - 1
        BY <1>10, EngineAssumption DEF Position
      <3> HIDE DEF N
      <3>2. p \in 0 .. N - 1 /\ p - h \notin 1 .. n
        BY <1>3, <1>4, <3>1
      <3> QED
        BY <3>2 DEF N, Position
    <2>2. new[p] = cache[p]
      BY <1>8, <2>1
    <2>3. cache[p] = SubSeq(Front(s), 1, p + 1)
      BY <1>2, <1>3 DEF Holds
    <2>4. SubSeq(SubSeq(s, 1, Len(s) - 1), 1, p + 1) = SubSeq(s, 1, p + 1)
      BY <1>3
    <2> QED
      BY <2>2, <2>3, <2>4 DEF Front
  <1>12. ASSUME NEW p \in 0 .. Len(s \o L) - 1
         PROVE  new[p] = SubSeq(s \o L, 1, p + 1)
    <2>1. p \in 0 .. h + n
      BY <1>3, <1>4
    <2>2. CASE p \in 0 .. h - 1
      <3>1. SubSeq(s \o L, 1, p + 1) = SubSeq(s, 1, p + 1)
        BY <1>3, <1>4, <2>2
      <3> QED
        BY <1>11, <2>2, <3>1
    <2>3. CASE p = h
      <3>1. SubSeq(s \o L, 1, Len(s)) = s
        BY <1>3, <1>4
      <3>2. p + 1 = Len(s)
        BY <1>3, <2>3
      <3> QED
        BY <1>10, <2>3, <3>1, <3>2
    <2>4. CASE p > h
      <3> DEFINE e == p - h
      <3>1. e \in 1 .. n /\ e \in 0 .. n /\ h + e = p /\ p + 1 = Len(s) + e
        <4>1. h \in Nat /\ n \in Nat /\ Len(s) = h + 1
          BY <1>3, <1>4
        <4>2. p \in Int /\ p <= h + n
          BY <2>1, <4>1
        <4> QED
          BY <2>4, <4>1, <4>2
      <3> HIDE DEF e
      <3>2. Parent(path, e + 1) = path[e]
        BY <3>1 DEF Parent
      <3>3. new[p] = s \o SubSeq(L, 1, e)
        <4>1. new[h + e] = cache[h + path[e]]
          BY <1>9, <3>1
        <4>2. cache[h + Parent(path, e + 1)] = s \o SubSeq(L, 1, e)
          BY <1>7, <3>1
        <4> QED
          BY <3>1, <3>2, <4>1, <4>2
      <3>4. SubSeq(s \o L, 1, Len(s) + e) = s \o SubSeq(L, 1, e)
        BY <1>3, <1>4, <3>1, ConcatPrefix
      <3> QED
        BY <3>1, <3>3, <3>4
    <2>5. p \in 0 .. h - 1 \/ p = h \/ p > h
      BY <1>3, <1>4, <2>1
    <2> QED
      BY <2>2, <2>3, <2>4, <2>5
  <1>13. DOMAIN new = Position
    BY <1>8
  <1>14. DOMAIN new = Position /\ Holds(new, s \o L)
    BY <1>12, <1>13 DEF Holds
  <1> QED
    BY <1>14 DEF new, cache, s, L

LEMMA AcceptStep ==
  ASSUME SpecTreeInv, Accept
  PROVE  SpecTreeInv'
  <1> DEFINE texts == [j \in {0} \cup Node |-> kv["target"][Live + j]]
  <1>1. phase = "accept" /\ tree' = <<>> /\ level' = {} /\ depth' = 1
    BY DEF Accept
  <1>2. PICK w \in Walks(texts) :
               /\ kv' = [track \in Track |-> Gather(kv[track], w[1])]
               /\ Commit([d \in DOMAIN w[1] |-> tree[w[1][d]].token] \o <<w[2]>>,
                         [track \in Track |-> Live + 1 + Len(w[1])])
    BY DEF Accept
  <1> DEFINE path    == w[1]
             t       == w[2]
             n       == Len(path)
             L       == Labels(path)
             tokens  == L \o <<t>>
             lengths == [track \in Track |-> Live + 1 + n]
  <1>3. /\ path \in Paths /\ t \in Token
        /\ \A d \in DOMAIN path : tree[path[d]].token \in TargetPicks(texts[Parent(path, d)])
        /\ t \in TargetPicks(texts[Leaf(path)])
    BY <1>2 DEF Walks
  <1>4. /\ kv' = [track \in Track |-> Gather(kv[track], path)]
        /\ Commit(tokens, lengths)
    BY <1>2 DEF Labels
  <1>5. /\ EngineInv /\ EngineType /\ TreeInv /\ context_len["draft"] = Len(Text) - 1
        /\ \A p \in Paths : kv["target"][Live + Leaf(p)] = Text \o Labels(p)
        /\ "target" \in Track /\ "draft" \in Track
    BY <1>1 DEF SpecTreeInv, EngineInv, ScratchInv, VerifiedInv, Track
  <1> HIDE DEF path, t, lengths
  <1>6. /\ n \in Nat /\ DOMAIN path = 1 .. n /\ \A d \in 1 .. n : path[d] \in Node
        /\ L \in Seq(Token) /\ Len(L) = n
        /\ \A e \in 0 .. n : Labels(SubSeq(path, 1, e)) = SubSeq(L, 1, e)
    BY <1>3, <1>5, PathType, LabelsType
  <1>7. /\ Text \in Seq(Token) /\ Len(Text) \in Nat /\ Len(Text) > 0 /\ Live = Len(Text) - 1
    BY <1>5, TextType DEF Live
  <1>8. \A e \in 0 .. n : texts[Parent(path, e + 1)] = Text \o SubSeq(L, 1, e)
    <2> SUFFICES ASSUME NEW e \in 0 .. n
                 PROVE  texts[Parent(path, e + 1)] = Text \o SubSeq(L, 1, e)
      OBVIOUS
    <2>1. SubSeq(path, 1, e) \in Paths /\ Leaf(SubSeq(path, 1, e)) = Parent(path, e + 1)
      BY <1>3, PathPrefix
    <2>2. Parent(path, e + 1) \in {0} \cup Node
      BY <1>6 DEF Parent
    <2>3. texts[Parent(path, e + 1)] = kv["target"][Live + Parent(path, e + 1)]
      BY <2>2
    <2> HIDE DEF texts
    <2> QED
      BY <1>5, <1>6, <2>1, <2>3
  <1> HIDE DEF texts, n
  <1>9. /\ tokens \in Seq(Token) /\ Len(tokens) = n + 1 /\ tokens # <<>> /\ Front(tokens) = L
        /\ \A i \in 1 .. n + 1 : SubSeq(tokens, 1, i - 1) = SubSeq(L, 1, i - 1)
        /\ \A i \in 1 .. n : tokens[i] = L[i]
        /\ tokens[n + 1] = t
    <2> HIDE DEF L
    <2>1. tokens \in Seq(Token) /\ Len(tokens) = n + 1
      BY <1>3, <1>6
    <2>2. tokens # <<>>
      BY <1>6, <2>1
    <2>3. /\ \A i \in 1 .. n : tokens[i] = L[i]
          /\ tokens[n + 1] = t
      BY <1>3, <1>6
    <2>4. Front(tokens) = L
      BY <1>3, <1>6 DEF Front
    <2>5. \A i \in 1 .. n + 1 : SubSeq(tokens, 1, i - 1) = SubSeq(L, 1, i - 1)
      BY <1>3, <1>6
    <2> QED
      BY <2>1, <2>2, <2>3, <2>4, <2>5
  <1>10. \A i \in 1 .. n + 1 : tokens[i] \in TargetPicks(Text \o SubSeq(tokens, 1, i - 1))
    <2> SUFFICES ASSUME NEW i \in 1 .. n + 1
                 PROVE  tokens[i] \in TargetPicks(Text \o SubSeq(L, 1, i - 1))
      BY <1>9
    <2> DEFINE e == i - 1
    <2>1. e \in 0 .. n /\ e + 1 = i
      BY <1>6
    <2> HIDE DEF e
    <2>2. texts[Parent(path, i)] = Text \o SubSeq(L, 1, e)
      BY <1>8, <2>1
    <2>3. tokens[i] \in TargetPicks(texts[Parent(path, i)])
      <3>1. CASE i = n + 1
        BY <1>3, <1>9, <3>1 DEF Leaf, n
      <3>2. CASE i # n + 1
        <4>1. i \in 1 .. n
          BY <1>6, <3>2
        <4>2. L[i] = tree[path[i]].token
          BY <1>6, <4>1 DEF Labels
        <4> HIDE DEF L, tokens
        <4> QED
          BY <1>3, <1>6, <1>9, <4>1, <4>2
      <3> QED
        BY <3>1, <3>2
    <2> QED
      BY <2>2, <2>3 DEF e
  <1> HIDE DEF tokens, L
  <1>11. /\ lengths \in [Track -> Nat]
         /\ \A track \in Track : lengths[track] = Len(Text) + Len(tokens) - 1
    <2>1. Live + 1 + n = Len(Text) + Len(tokens) - 1 /\ Live + 1 + n \in Nat
      BY <1>6, <1>7, <1>9
    <2> QED
      BY <2>1 DEF lengths, n
  <1>12. EngineInv' /\ Text' = Text \o tokens
    <2>1. DOMAIN kv' = Track /\ kv'["target"] = Gather(kv["target"], path)
      BY <1>4, <1>5
    <2>2. \A track \in Track : DOMAIN kv'[track] = Position
      BY <1>4, <1>5 DEF Gather, EngineType
    <2>3. Holds(kv'["target"], Text \o Front(tokens))
      BY <1>1, <1>3, <1>9, <2>1, GatheredHolds DEF L
    <2>4. \A i \in 1 .. Len(tokens) : tokens[i] \in TargetPicks(Text \o SubSeq(tokens, 1, i - 1))
      BY <1>9, <1>10
    <2> QED
      BY <1>1, <1>4, <1>5, <1>9, <1>11, <2>1, <2>2, <2>3, <2>4, CommitStep
  <1>13. phase' = "append" /\ context_len' = lengths
    BY <1>4 DEF Commit
  <1>14. context_len'["draft"] = Len(Text') - 1
    <2>1. Len(Text') = Len(Text) + Len(tokens)
      BY <1>7, <1>9, <1>12, ConcatProperties
    <2> QED
      BY <1>5, <1>11, <1>13, <2>1
  <1>15. ScratchInv' /\ VerifiedInv'
    BY <1>13, <1>14 DEF ScratchInv, VerifiedInv
  <1>16. TreeInv'
    BY <1>1, TreeDropped
  <1> QED
    BY <1>12, <1>13, <1>15, <1>16 DEF SpecTreeInv

LEMMA TreeKeeps ==
  ASSUME SpecTreeInv, [Next]_vars
  PROVE  SpecTreeInv'
  <1>1. CASE UNCHANGED vars
    <2>1. UNCHANGED <<prompt, greedy, generated, committed, kv, context_len, pending_token,
                      phase, tree, level, depth>>
      BY <1>1 DEF vars, engineVars
    <2>2. TreeInv' /\ Paths' = Paths
      BY <2>1, TreeKept DEF SpecTreeInv
    <2>3. EngineInv' /\ Text' = Text
      BY <2>1 DEF SpecTreeInv, EngineInv, EngineType, PrefillInv, TextInv, PicksInv, EosInv, InLoop,
                  Picked, TargetPicks, Text, Holds, Front
    <2>4. ScratchInv'
      BY <2>1, <2>3 DEF SpecTreeInv, ScratchInv, ScratchFits, Live
    <2>5. VerifiedInv'
      BY <2>1, <2>2, <2>3 DEF SpecTreeInv, VerifiedInv, Live, Labels
    <2> QED
      BY <2>1, <2>2, <2>3, <2>4, <2>5 DEF SpecTreeInv
  <1>2. CASE Next
    <2>1. CASE /\ PrefillTarget \/ PrefillDraft \/ PrefillRaises \/ Return \/ AppendToken
               /\ UNCHANGED <<tree, level, depth>>
      BY <2>1, GenerateStep
    <2>2. CASE Step
      BY <2>2, StepBegins
    <2>3. CASE ExpandRoot
      BY <2>3, ExpandRootStep
    <2>4. CASE ExpandLevel
      BY <2>4, ExpandLevelStep
    <2>5. CASE StepRaises
      BY <2>5, RaisesStep
    <2>6. CASE Verify
      BY <2>6, VerifyStep
    <2>7. CASE Accept
      BY <2>7, AcceptStep
    <2> QED
      BY <1>2, <2>1, <2>2, <2>3, <2>4, <2>5, <2>6, <2>7 DEF Next
  <1> QED
    BY <1>1, <1>2

-----------------------------------------------------------------------------
(* The theorems.                                                           *)

(***************************************************************************)
(* What every step of TreeSpeculativeEngine keeps: what each node sees,    *)
(* where its slot is, and the texts in the target's cache.                 *)
(***************************************************************************)
THEOREM TreeInvariant == Spec => []SpecTreeInv
  BY TreeStarts, TreeKeeps, PTL DEF Spec

(***************************************************************************)
(* Every node mask that _expand_draft builds, bit by bit from that of the  *)
(* parent, is the path from the pending token to the node, and the depth   *)
(* that becomes its RoPE position is its place on that path: the target    *)
(* verifies each branch of the tree as if it were alone.                   *)
(***************************************************************************)
THEOREM NodesSeeTheirPath == Spec => []PathsSeen
  <1>1. SpecTreeInv => PathsSeen
    BY DEF SpecTreeInv, TreeInv
  <1> QED
    BY <1>1, TreeInvariant, PTL

(***************************************************************************)
(* The tree keeps to its budget, although a level's nodes are counted      *)
(* twice, and its slots to the pages of both tracks.                       *)
(***************************************************************************)
THEOREM ScratchStaysInBounds == Spec => []ScratchInBounds
  <1>1. ASSUME SpecTreeInv PROVE ScratchInBounds
    <2> SUFFICES ASSUME phase = "step", depth > 1
                 PROVE  /\ Len(tree) <= Budget
                        /\ \A track \in Track : Live + Len(tree) < Capacity(track)
      BY DEF ScratchInBounds
    <2>1. /\ TreeInv /\ EngineType /\ context_len["draft"] = Len(Text) - 1
          /\ \A track \in Track : ScratchFits(track)
      BY <1>1 DEF SpecTreeInv, EngineInv, ScratchInv
    <2>2. Live \in Nat
      BY <2>1, TextType DEF Live
    <2> QED
      BY <2>1, <2>2, ScratchSlots DEF TreeInv, TreeType
  <1> QED
    BY <1>1, TreeInvariant, PTL

(***************************************************************************)
(* Moving the accepted path leaves the target's cache with the KV of the   *)
(* prompt and of all committed tokens but the pending one.                 *)
(***************************************************************************)
THEOREM TargetCacheHoldsText == Spec => []TargetHoldsText
  <1>1. SpecTreeInv => TargetHoldsText
    BY EngineHoldsText DEF SpecTreeInv
  <1> QED
    BY <1>1, TreeInvariant, PTL

(***************************************************************************)
(* Speculation cannot be seen: whatever tree the draft grows, the output   *)
(* of generate grows as the target's own decoding would, token by token,   *)
(* and stops where it would.                                               *)
(***************************************************************************)
THEOREM TreeImplementsDecoding == Spec => ImplementsDecoding
  <1>1. Init => Target!Init
    BY DecodingStarts DEF Init
  <1>2. ASSUME SpecTreeInv, [Next]_vars
        PROVE  [\E t \in Token : Target!Decode(t)]_Target!decodingVars
    <2>0. EngineInv
      BY <1>2 DEF SpecTreeInv
    <2>1. CASE PrefillDraft
      BY <2>0, <2>1, DecodingFirst
    <2>2. CASE AppendToken
      BY <2>0, <2>2, DecodingNext
    <2>3. CASE UNCHANGED <<prompt, greedy, generated>>
      BY <2>3, DecodingStutters
    <2>4. PrefillDraft \/ AppendToken \/ UNCHANGED <<prompt, greedy, generated>>
      BY <1>2 DEF Next, vars, engineVars, PrefillTarget, PrefillRaises, Return, Step,
                  ExpandRoot, ExpandLevel, StepRaises, Verify, Accept, Commit
    <2> QED
      BY <2>1, <2>2, <2>3, <2>4
  <1> QED
    BY <1>1, <1>2, TreeInvariant, PTL DEF Spec, ImplementsDecoding, Target!Spec
=============================================================================
