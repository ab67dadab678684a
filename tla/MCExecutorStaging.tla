--------------------------- MODULE MCExecutorStaging -------------------------
(* Instances of ExecutorStaging: see README.md, run staging. *)
EXTENDS ExecutorStaging

\* Batches of the decode graph sample from every request.
MCPlans == {[kind |-> "mixed", samples |-> FALSE]}
             \cup [kind : {"mixed", "graph", "declined"}, samples : {TRUE}]
=============================================================================
