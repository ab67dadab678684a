------------------------------- MODULE MCServer ------------------------------
(* Small instances of Server: see README.md, runs server and dummy_block. *)
EXTENDS Server

CONSTANTS r1, r2, r3

\* Two requests with the same first block and one that shares nothing.
ServerPrompt    == r1 :> <<1, 1, 2>> @@ r2 :> <<1, 1>> @@ r3 :> <<2>>
ServerMaxNewLen == r1 :> 1 @@ r2 :> 3 @@ r3 :> 2

\* Three prompts that share a first block, one of them two chunks long.  One
\* token is sampled, so generated blocks are shared and recomputed as well.
Prompt3    == r1 :> <<1, 1, 1, 1>> @@ r2 :> <<1, 1>> @@ r3 :> <<1, 1, 2>>
MaxNewLen3 == r1 :> 2 @@ r2 :> 3 @@ r3 :> 2
=============================================================================
