------------------------------ MODULE MCKvCache ------------------------------
(* Small instance of KvCache: see README.md, run kv_cache. *)
EXTENDS KvCache, SequencesExt

CONSTANTS r1, r2, r3

MCRequest  == {r1, r2, r3}
MCSymmetry == Permutations(MCRequest)

\* Two texts that share a full block and part in the middle of the second.
MCTexts == (Prefixes(<<1, 1, 1, 1, 1>>) \cup Prefixes(<<1, 1, 1, 2>>)) \ {<<>>}
=============================================================================
