----------------------------- MODULE MCScheduler -----------------------------
(* Small instances of Scheduler: see README.md, runs scheduler_*. *)
EXTENDS Scheduler

CONSTANTS r1, r2, r3

\* Three prompts that share a first block, one of them two chunks long.  One
\* token is sampled, so generated blocks are shared and recomputed as well.
Prompt3    == r1 :> <<1, 1, 1, 1>> @@ r2 :> <<1, 1>> @@ r3 :> <<1, 1, 2>>
MaxNewLen3 == r1 :> 2 @@ r2 :> 3 @@ r3 :> 2

\* A long prefill that shares nothing, and two short requests that do: with two
\* blocks a decode token preempts the prefill, which came first.
Prompt2    == r1 :> <<2, 2, 2, 2>> @@ r2 :> <<1, 1>> @@ r3 :> <<1, 1, 2>>
MaxNewLen2 == r1 :> 1 @@ r2 :> 4 @@ r3 :> 1
=============================================================================
