------------------------------- MODULE SpecTree ------------------------------
(***************************************************************************)
(* The tree engine: TreeSpeculativeEngine (spec_tree.py).  A step grows a  *)
(* tree of proposals level by level on the draft, verifies all of it in    *)
(* one pass of the target, and moves the KV of the accepted path from its  *)
(* scratch slots to the slots after the live text.                         *)
(*                                                                         *)
(* Nodes are numbered from 1 in the order they are appended, and 0 is the  *)
(* pending token: the node j of the code is j + 1 here, and its bit in a   *)
(* node mask is the member j + 1 of a set.                                 *)
(***************************************************************************)
EXTENDS SpecEngine

CONSTANTS Budget, Branch, MaxDepth   \* tree_budget, branch_factor, max_depth

ASSUME TreeAssumption ==
  /\ Budget \in 1 .. 63 /\ IsFiniteSet(Token)
  /\ Branch \in Nat \ {0} /\ MaxDepth \in Nat \ {0}

VARIABLES
  tree,    \* TreeSpec: a record for each node
  level,   \* the nodes appended last
  depth    \* the level that comes next

vars == <<engineVars, tree, level, depth>>

-----------------------------------------------------------------------------
Node == DOMAIN tree
Live == context_len["draft"]   \* num_history

\* Mutant: a node sees its parent, but not what is above it.
NodeMaskOneUp(parent, j) == {0, parent, j}

NodeMask(parent, j) == (IF parent = 0 THEN {0} ELSE tree[parent].mask) \cup {j}

NewNode(parent, token, j) ==
  [parent |-> parent,
   token  |-> token,
   depth  |-> IF parent = 0 THEN 1 ELSE tree[parent].depth + 1,
   mask   |-> NodeMask(parent, j)]

(***************************************************************************)
(* The candidates appended to the tree: the `Branch` likeliest tokens of   *)
(* each parent, in any order (by confidence, or by parent when the tree is *)
(* static), until the budget is reached.  The test counts the nodes of the *)
(* level twice, once in spec.tokens and once in new_level.                 *)
(***************************************************************************)
LevelLen(parents) ==
  Min({Cardinality(parents) * Min({Branch, Cardinality(Token)}),
       Max({0, (Budget - Len(tree) + 1) \div 2})})

Levels(parents) ==
  {c \in [1 .. LevelLen(parents) -> parents \X Token] :
     /\ IsInjective(c)
     /\ \A p \in parents : Cardinality({i \in DOMAIN c : c[i][1] = p}) <= Branch}

Grow(parents) ==
  \E c \in Levels(parents) :
    /\ tree'  = tree \o [i \in DOMAIN c |-> NewNode(c[i][1], c[i][2], Len(tree) + i)]
    /\ level' = {Len(tree) + i : i \in DOMAIN c}

RopePos(j) == Live + tree[j].depth

(***************************************************************************)
(* The row of a node, with the visibility of build_level_mask and          *)
(* build_tree_mask: the history, the pending token and what its mask says. *)
(***************************************************************************)
NodeRow(j) ==
  [token   |-> tree[j].token,
   slot    |-> Live + j,
   rope    |-> RopePos(j),
   visible |-> 0 .. Live \cup {Live + b : b \in tree[j].mask \ {j}}]

-----------------------------------------------------------------------------
Init == EngineInit /\ tree = <<>> /\ level = {} /\ depth = 1

(***************************************************************************)
(* _expand_draft: the check of the scratch region, then the levels.        *)
(***************************************************************************)
\* Mutant: only the pending token is counted.
ScratchFitsPending(track) == Live + 1 < Capacity(track)

ScratchFits(track) == Live + 1 + Budget < Capacity(track)

Step ==
  /\ BeginStep
  /\ tree' = <<>> /\ level' = {} /\ depth' = 1
  /\ UNCHANGED <<prompt, greedy, generated, committed, kv, context_len, pending_token>>

ExpandRoot ==
  /\ phase = "step" /\ depth = 1
  /\ \A track \in Track : ScratchFits(track)
  /\ kv' = [kv EXCEPT !["draft"] = Forward(@, Rows("draft", <<pending_token["draft"]>>))]
  /\ Grow({0})
  /\ depth' = 2
  /\ UNCHANGED <<prompt, greedy, generated, committed, context_len, pending_token, phase>>

ExpandLevel ==
  /\ phase = "step" /\ depth \in 2 .. MaxDepth
  /\ level # {}
  /\ kv' = [kv EXCEPT !["draft"] = Forward(@, [i \in 1 .. Cardinality(level) |->
                                                NodeRow(SetToSortSeq(level, <)[i])])]
  /\ Grow(level)
  /\ depth' = depth + 1
  /\ UNCHANGED <<prompt, greedy, generated, committed, context_len, pending_token, phase>>

StepRaises ==
  /\ phase = "step" /\ depth = 1
  /\ \E track \in Track : ~ScratchFits(track)
  /\ phase' = "raised"
  /\ UNCHANGED <<prompt, greedy, generated, committed, kv, context_len, pending_token,
                 tree, level, depth>>

(***************************************************************************)
(* find_greedy_path and tree_verify_sampling: from the pending token, the  *)
(* target's pick names a child to go on to, or it is the correction.       *)
(* Paths are the ways down from the pending token; Walks are the pairs of  *)
(* a path and the correction (or bonus) that the target's rows allow.      *)
(***************************************************************************)
Parent(path, d) == IF d = 1 THEN 0 ELSE path[d - 1]

Paths == {path \in BoundedSeq(Node, MaxDepth) :
            \A d \in DOMAIN path : tree[path[d]].parent = Parent(path, d)}

Leaf(path) == Parent(path, Len(path) + 1)

Walks(texts) ==
  {w \in Paths \X Token :
     /\ \A d \in DOMAIN w[1] : tree[w[1][d]].token \in TargetPicks(texts[Parent(w[1], d)])
     /\ w[2] \in TargetPicks(texts[Leaf(w[1])])
     /\ ~\E j \in Node : tree[j].parent = Leaf(w[1]) /\ tree[j].token = w[2]}

(***************************************************************************)
(* gather_commit_kv: the slot of the d-th token of the path moves to the   *)
(* d-th slot after the pending token; all sources are read first.          *)
(***************************************************************************)
\* Mutant: the first slot of the path is that of the pending token.
GatherOneDown(cache, path) ==
  [p \in DOMAIN cache |-> IF p - Live + 1 \in DOMAIN path THEN cache[Live + path[p - Live + 1]]
                                                           ELSE cache[p]]

Gather(cache, path) ==
  [p \in DOMAIN cache |-> IF p - Live \in DOMAIN path THEN cache[Live + path[p - Live]]
                                                       ELSE cache[p]]

VerifyRows ==
  <<[token |-> pending_token["target"], slot |-> Live, rope |-> Live, visible |-> 0 .. Live - 1]>>
    \o [j \in Node |-> NodeRow(j)]

Verify ==
  /\ phase = "step" /\ depth > 1
  /\ depth > MaxDepth \/ level = {}
  /\ kv' = [kv EXCEPT !["target"] = Forward(@, VerifyRows)]
  /\ phase' = "accept"
  /\ UNCHANGED <<prompt, greedy, generated, committed, context_len, pending_token,
                 tree, level, depth>>

Accept ==
  /\ phase = "accept"
  /\ \E w \in Walks([j \in {0} \cup Node |-> kv["target"][Live + j]]) :
       LET path == w[1] IN
       /\ kv' = [track \in Track |-> Gather(kv[track], path)]
       /\ Commit([d \in DOMAIN path |-> tree[path[d]].token] \o <<w[2]>>,
                 [track \in Track |-> Live + 1 + Len(path)])
  /\ tree' = <<>> /\ level' = {} /\ depth' = 1

Next ==
  \/ /\ PrefillTarget \/ PrefillDraft \/ PrefillRaises \/ Return \/ AppendToken
     /\ UNCHANGED <<tree, level, depth>>
  \/ Step \/ ExpandRoot \/ ExpandLevel \/ StepRaises \/ Verify \/ Accept

(***************************************************************************)
(* generate is a loop of one thread: it goes on while it can.              *)
(***************************************************************************)
Spec == Init /\ [][Next]_vars /\ WF_vars(Next)

-----------------------------------------------------------------------------
(***************************************************************************)
(* The tree stays within its budget and the scratch slots of pending token *)
(* and nodes within the pages of both tracks, through every growth of the  *)
(* live text (a write outside would go to the page kept for the decode     *)
(* graph, or past the cache).                                              *)
(***************************************************************************)
ScratchInBounds ==
  phase = "step" /\ depth > 1 =>
    /\ Len(tree) <= Budget
    /\ \A track \in Track : Live + Len(tree) < Capacity(track)

(***************************************************************************)
(* generate ends with a whole output if the draft's cache has room for     *)
(* prompt, output and scratch region.                                      *)
(***************************************************************************)
Room == Len(prompt) + MaxNewLen - 1 + Budget < Capacity("draft")

GenerateEnds ==
  <>(\/ phase = "raised" /\ ~Room
     \/ phase = "returned" /\ Finished)
=============================================================================
