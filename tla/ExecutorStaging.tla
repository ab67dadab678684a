--------------------------- MODULE ExecutorStaging ---------------------------
(***************************************************************************)
(* The pinned staging buffers of TorchExecutor.execute (executor.py): those *)
(* of ModelInputPool (input.py), of DecodeCudaGraph (decode_graph.py) and  *)
(* of the sampling parameters.  The host refills them at each call, while  *)
(* copies of an earlier call may still be in the stream.                   *)
(*                                                                         *)
(* The attention backend is FlashInfer: its plan() copies the CSR lists    *)
(* from the pinned buffers it is given.  The buckets of the decode graph   *)
(* share their staging; one bucket stands for all.  Growing the pool       *)
(* replaces the buffers, which only removes conflicts, and is left out.    *)
(***************************************************************************)
EXTENDS GpuStream

CONSTANTS
  Plans,      \* what the executor tells batches apart by
  MaxCalls    \* bound on the calls of execute

ASSUME StagingAssumption ==
  /\ Plans \subseteq [kind : {"mixed", "graph", "declined"}, samples : BOOLEAN]
  /\ MaxCalls \in Nat

HostBuffer   == {"fields", "csr", "graph fields", "graph csr", "params", "tokens"}
DeviceBuffer == {"fields", "csr", "graph input", "decode csr", "params", "tokens"}

VARIABLES
  call,     \* number of the call in progress
  plan,     \* its batch
  failed,   \* DecodeCudaGraph._failed
  pc

vars == <<streamVars, call, plan, failed, pc>>

-----------------------------------------------------------------------------
Init ==
  /\ StreamInit(HostBuffer, DeviceBuffer)
  /\ call = 0 /\ plan \in Plans
  /\ failed = FALSE
  /\ pc = "idle"

Execute(p) ==
  /\ pc = "idle" /\ call < MaxCalls
  /\ call' = call + 1
  /\ plan' = p
  /\ pc' = IF p.kind # "mixed" /\ ~failed THEN "pack" ELSE "build"
  /\ UNCHANGED <<streamVars, failed>>

(***************************************************************************)
(* pack_plan: nothing waits for the copies of the call before.             *)
(***************************************************************************)
PackPlan ==
  /\ pc = "pack" /\ plan.kind = "graph"
  /\ host' = [host EXCEPT !["graph fields"] = call, !["graph csr"] = call]
  /\ Enqueue(<<CopyIn("graph fields", "graph input")>>)
  /\ pc' = "replay"
  /\ UNCHANGED <<device, call, plan, failed>>

\* A block table with the dummy block is found while the staging is filled.
PackPlanDeclines ==
  /\ pc = "pack" /\ plan.kind = "declined"
  /\ host' = [host EXCEPT !["graph fields"] = call, !["graph csr"] = call]
  /\ pc' = "build"
  /\ UNCHANGED <<device, stream, call, plan, failed>>

ReplayPlan ==
  /\ pc = "replay"
  /\ Enqueue(<<CopyIn("graph csr", "decode csr"), Kernel(call, {"graph input", "decode csr"})>>)
  /\ pc' = "sample"
  /\ UNCHANGED <<host, device, call, plan, failed>>

\* An exception in plan or replay: the bucket is not used again.
ReplayFails ==
  /\ pc = "replay"
  /\ \E ops \in {<<>>, <<CopyIn("graph csr", "decode csr")>>} : Enqueue(ops)
  /\ failed' = TRUE
  /\ pc' = "build"
  /\ UNCHANGED <<host, device, call, plan>>

(***************************************************************************)
(* ModelInputPool.build.                                                   *)
(***************************************************************************)
\* Mutant: the pool does not wait.
WaitForPreviousCopiesNot == TRUE

WaitForPreviousCopies == EventReached

Build ==
  /\ pc = "build"
  /\ WaitForPreviousCopies
  /\ host' = [host EXCEPT !["fields"] = call, !["csr"] = call]
  /\ Enqueue(<<CopyIn("fields", "fields"), Event>>)
  /\ pc' = "forward"
  /\ UNCHANGED <<device, call, plan, failed>>

(***************************************************************************)
(* forward on the input of the pool: plan, then the layers.                *)
(***************************************************************************)
Forward ==
  /\ pc = "forward" /\ (plan.kind = "declined" => failed)
  /\ Enqueue(<<CopyIn("csr", "csr"), Kernel(call, {"fields", "csr"})>>)
  /\ pc' = "sample"
  /\ UNCHANGED <<host, device, call, plan, failed>>

(***************************************************************************)
(* try_replay on the input of the pool, for a decode-only batch that       *)
(* try_replay_plan declined; no padding rows, so plan is given the lists   *)
(* of the pool.  (With padding rows the lists are computed on the device,  *)
(* which waits for the stream.)                                            *)
(***************************************************************************)
ReplayInput ==
  /\ pc = "forward" /\ plan.kind = "declined" /\ ~failed
  /\ Enqueue(<<Move("fields", "graph input"), CopyIn("csr", "decode csr"),
               Kernel(call, {"graph input", "decode csr"})>>)
  /\ pc' = "sample"
  /\ UNCHANGED <<host, device, call, plan, failed>>

ReplayInputFails ==
  /\ pc = "forward" /\ plan.kind = "declined" /\ ~failed
  /\ \E ops \in {<<Move("fields", "graph input")>>,
                 <<Move("fields", "graph input"), CopyIn("csr", "decode csr")>>} : Enqueue(ops)
  /\ failed' = TRUE
  /\ UNCHANGED <<host, device, call, plan, pc>>

\* Out of memory, say: the exception leaves execute, what is enqueued stays.
ForwardRaises ==
  /\ pc = "forward"
  /\ \E ops \in {<<>>, <<CopyIn("csr", "csr")>>} : Enqueue(ops)
  /\ pc' = "idle"
  /\ UNCHANGED <<host, device, call, plan, failed>>

(***************************************************************************)
(* Sampling copies the tokens back, and the host waits for the stream      *)
(* before it looks at them; with temperatures above zero it reads the      *)
(* parameters on the device first.  A batch that samples nothing ends      *)
(* without waiting.                                                        *)
(***************************************************************************)
SampleGreedy ==
  /\ pc = "sample" /\ plan.samples
  /\ Enqueue(<<Fill(call, "tokens"), CopyOut("tokens", "tokens")>>)
  /\ pc' = "synchronize"
  /\ UNCHANGED <<host, device, call, plan, failed>>

SampleWithParams ==
  /\ pc = "sample" /\ plan.samples
  /\ host' = [host EXCEPT !["params"] = call]
  /\ Enqueue(<<CopyIn("params", "params"), Kernel(call, {"params"}), Fill(call, "tokens"),
               CopyOut("tokens", "tokens")>>)
  /\ pc' = "synchronize"
  /\ UNCHANGED <<device, call, plan, failed>>

SampleNothing ==
  /\ pc = "sample" /\ ~plan.samples
  /\ pc' = "idle"
  /\ UNCHANGED <<streamVars, call, plan, failed>>

\* Mutant: the host does not wait for the tokens.
SynchronizedNot == TRUE

Synchronized == StreamIdle

Synchronize ==
  /\ pc = "synchronize"
  /\ Synchronized
  /\ pc' = "answer"
  /\ UNCHANGED <<streamVars, call, plan, failed>>

Answer ==
  /\ pc = "answer"
  /\ pc' = "idle"
  /\ UNCHANGED <<streamVars, call, plan, failed>>

Next ==
  \/ \E p \in Plans : Execute(p)
  \/ PackPlan \/ PackPlanDeclines \/ ReplayPlan \/ ReplayFails
  \/ Build \/ Forward \/ ReplayInput \/ ReplayInputFails \/ ForwardRaises
  \/ SampleGreedy \/ SampleWithParams \/ SampleNothing \/ Synchronize \/ Answer
  \/ StreamRuns /\ UNCHANGED <<call, plan, failed, pc>>

Spec == Init /\ [][Next]_vars

-----------------------------------------------------------------------------
(***************************************************************************)
(* Every kernel finds its own call's tokens, positions, slots, tables,     *)
(* graph inputs and sampling parameters, although the staging they come    *)
(* from is refilled while the stream runs behind (_wait_for_previous_copies *)
(* and the synchronisation after sampling).  It does not hold of the CSR   *)
(* lists of the pool, which plan copies after the event (README, section   *)
(* 4).                                                                     *)
(***************************************************************************)
InputsOfTheCall == ReadsItsCall(DeviceBuffer \ {"csr"})

(***************************************************************************)
(* The tokens execute answers with were sampled in this call.              *)
(***************************************************************************)
AnswerOfTheCall == pc = "answer" => host["tokens"] = call
=============================================================================
