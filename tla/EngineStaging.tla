---------------------------- MODULE EngineStaging ----------------------------
(***************************************************************************)
(* The pinned CSR staging of the speculative engines: _make_input,         *)
(* _make_tree_input and _fence_csr of spec_runner.py and spec_tree.py.     *)
(* Each track has staging of its own, and one event guards both.  The      *)
(* engines order their forward passes in several ways, and read a result   *)
(* back after most of them but not after the draft's prefill or its last   *)
(* pass: here any order is allowed, and any pass may be left unread.       *)
(***************************************************************************)
EXTENDS GpuStream

CONSTANT MaxCalls   \* bound on the forward passes

ASSUME EngineStagingAssumption == MaxCalls \in Nat

Track        == {"target", "draft"}
HostBuffer   == {"csr"} \X Track
DeviceBuffer == {"csr", "fields"} \X Track

VARIABLES
  call,    \* number of the forward pass
  track,   \* its track
  pc

vars == <<streamVars, call, track, pc>>

-----------------------------------------------------------------------------
Init == StreamInit(HostBuffer, DeviceBuffer) /\ call = 0 /\ track = "target" /\ pc = "idle"

(***************************************************************************)
(* _make_input: wait for the fence, refill the lists, write the other      *)
(* fields on the device.                                                   *)
(***************************************************************************)
MakeInput(t) ==
  /\ pc = "idle" /\ call < MaxCalls
  /\ EventReached
  /\ call' = call + 1
  /\ track' = t
  /\ host' = [host EXCEPT ![<<"csr", t>>] = call']
  /\ Enqueue(<<Fill(call', <<"fields", t>>)>>)
  /\ pc' = "forward"
  /\ UNCHANGED device

(***************************************************************************)
(* plan, the layers, and the fence after them.  A replay of the draft's    *)
(* decode graph that fails after its plan is followed by an eager pass;    *)
(* one that succeeds moves the fields to the graph's inputs on the stream, *)
(* which is part of Pass here.                                             *)
(***************************************************************************)
Plan == CopyIn(<<"csr", track>>, <<"csr", track>>)

Pass == Kernel(call, {"csr", "fields"} \X {track})

\* Mutant: the fence is recorded before plan, like the event of ModelInputPool.
FencedEarly == <<Event, Plan, Pass>>

Fenced == <<Plan, Pass, Event>>

ReplayFails ==
  /\ pc = "forward" /\ track = "draft"
  /\ Enqueue(<<Plan>>)
  /\ pc' = "eager"
  /\ UNCHANGED <<host, device, call, track>>

Forward ==
  /\ pc \in {"forward", "eager"}
  /\ Enqueue(Fenced)
  /\ pc' = "read"
  /\ UNCHANGED <<host, device, call, track>>

\* _pick, item and tolist wait for the stream.
ReadBack ==
  /\ pc = "read"
  /\ StreamIdle
  /\ pc' = "idle"
  /\ UNCHANGED <<streamVars, call, track>>

LeaveUnread ==
  /\ pc = "read" /\ track = "draft"
  /\ pc' = "idle"
  /\ UNCHANGED <<streamVars, call, track>>

Next ==
  \/ \E t \in Track : MakeInput(t)
  \/ ReplayFails \/ Forward \/ ReadBack \/ LeaveUnread
  \/ StreamRuns /\ UNCHANGED <<call, track, pc>>

Spec == Init /\ [][Next]_vars

-----------------------------------------------------------------------------
(***************************************************************************)
(* Every pass finds the lists and fields of its own call: _csr_fence is    *)
(* enough, also where nothing is read back in between.                     *)
(***************************************************************************)
PassReadsItsCall == ReadsItsCall(DeviceBuffer)
=============================================================================
