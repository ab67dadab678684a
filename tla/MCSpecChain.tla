----------------------------- MODULE MCSpecChain -----------------------------
(* Small instances of SpecChain: see README.md, run spec_chain. *)
EXTENDS SpecChain

\* A target whose next token depends on the whole text before it.
MCTargetNext(text) ==
  FoldLeft(LAMBDA sum, t : (sum * sum + 3 * t + 1) % 7, Len(text), text) % 3

\* The target continues with 2 1 0 and 1 1 1 2.  The long prompts fit the
\* target's cache only, and neither cache.
MCPrompts == {<<0, 1, 1>>, <<2, 2, 2, 2>>, [i \in 1 .. 9 |-> 1], [i \in 1 .. 11 |-> 1]}
=============================================================================
