------------------------------ MODULE MCSpecTree -----------------------------
(* Small instances of SpecTree: see README.md, runs spec_tree and draft_leaf. *)
EXTENDS SpecTree

\* A target whose next token depends on the whole text before it.
MCTargetNext(text) ==
  FoldLeft(LAMBDA sum, t : (sum * sum + 2 * t + 2) % 11, Len(text), text) % 2

\* Up to its end token the target continues with 1 1, 1 0 0 0 1, 0 1 and 0 0 1
\* (the first token is not compared).  The long prompts fit the target's cache only, and
\* neither cache.
MCPrompts == {<<0>>, <<1>>, <<0, 0, 0>>, <<0, 0, 1>>, [i \in 1 .. 11 |-> 0], [i \in 1 .. 13 |-> 0]}
=============================================================================
