------------------------------ MODULE GpuStream ------------------------------
(***************************************************************************)
(* The CUDA stream the host enqueues its work on, as executor.py, input.py *)
(* and spec_runner.py rely on it: operations run one after the other, at   *)
(* any time after they were enqueued, and an asynchronous copy from pinned *)
(* host memory reads that memory when it runs.  A buffer holds the number  *)
(* of the call whose values it holds.                                      *)
(***************************************************************************)
EXTENDS Naturals, Sequences

VARIABLES host, device, stream

streamVars == <<host, device, stream>>

-----------------------------------------------------------------------------
\* The operations of a stream.
CopyIn(from, to)      == [op |-> "copy in", from |-> from, to |-> to]
CopyOut(from, to)     == [op |-> "copy out", from |-> from, to |-> to]
Move(from, to)        == [op |-> "move", from |-> from, to |-> to]
Fill(value, to)       == [op |-> "fill", value |-> value, to |-> to]
Kernel(call, reads)   == [op |-> "kernel", call |-> call, reads |-> reads]
Event                 == [op |-> "event"]

StreamInit(hostBuffers, deviceBuffers) ==
  /\ host   = [b \in hostBuffers |-> 0]
  /\ device = [b \in deviceBuffers |-> 0]
  /\ stream = <<>>

StreamRuns ==
  LET next == Head(stream) IN
  /\ stream # <<>>
  /\ stream' = Tail(stream)
  /\ device' = CASE next.op = "copy in" -> [device EXCEPT ![next.to] = host[next.from]]
                 [] next.op = "move"    -> [device EXCEPT ![next.to] = device[next.from]]
                 [] next.op = "fill"    -> [device EXCEPT ![next.to] = next.value]
                 [] OTHER               -> device
  /\ host' = IF next.op = "copy out" THEN [host EXCEPT ![next.to] = device[next.from]] ELSE host

Enqueue(ops) == stream' = stream \o ops

\* Event.query() and Event.synchronize(); stream.synchronize().
EventReached == \A i \in DOMAIN stream : stream[i].op # "event"
StreamIdle   == stream = <<>>

(***************************************************************************)
(* The kernel that runs next finds the values of its own call in the       *)
(* buffers it reads.                                                       *)
(***************************************************************************)
ReadsItsCall(buffers) ==
  stream # <<>> /\ Head(stream).op = "kernel" =>
    \A b \in Head(stream).reads \cap buffers : device[b] = Head(stream).call
=============================================================================
