------------------------ MODULE ExecutorStagingProofs ------------------------
(***************************************************************************)
(* The properties of ExecutorStaging for any number of calls.              *)
(*                                                                         *)
(* The stream may hold the work of several calls, since a batch that       *)
(* samples nothing does not wait.  The invariant says of each kernel in   *)
(* the stream where the values it reads will come from: if a copy of its   *)
(* buffer is before it, from the staging, and otherwise from the device,   *)
(* and there they must be its own call's (KernelsFed).  What makes a      *)
(* refill harmless is which kernels may still be in the stream then: the   *)
(* event of the pool is behind its copies (EventBehind), replays and the   *)
(* sampler's parameters are only in the stream of a call that waits for it *)
(* (ReplaysWait, FillsWait, SamplersWait).                                 *)
(***************************************************************************)
EXTENDS ExecutorStaging, SequenceTheorems, TLAPS

-----------------------------------------------------------------------------
(* The operations that execute enqueues.                                   *)

FieldsIn  == CopyIn("fields", "fields")
CsrIn     == CopyIn("csr", "csr")
PoolCsr   == CopyIn("csr", "decode csr")
GraphIn   == CopyIn("graph fields", "graph input")
GraphCsr  == CopyIn("graph csr", "decode csr")
ParamsIn  == CopyIn("params", "params")
MoveIn    == Move("fields", "graph input")
TokensOut == CopyOut("tokens", "tokens")
Sampled(c) == Fill(c, "tokens")
Layers(c)  == Kernel(c, {"fields", "csr"})
Replay(c)  == Kernel(c, {"graph input", "decode csr"})
Sampler(c) == Kernel(c, {"params"})

Op == {FieldsIn, CsrIn, PoolCsr, GraphIn, GraphCsr, ParamsIn, MoveIn, TokensOut, Event}
        \cup UNION {{Sampled(c), Layers(c), Replay(c), Sampler(c)} : c \in Nat}

\* The fields of the operations; those of a sampler's fill and of the kernels hold for every call.
LEMMA CopyFields ==
  /\ FieldsIn.op = "copy in" /\ FieldsIn.from = "fields"       /\ FieldsIn.to = "fields"
  /\ CsrIn.op    = "copy in" /\ CsrIn.from    = "csr"          /\ CsrIn.to    = "csr"
  /\ PoolCsr.op  = "copy in" /\ PoolCsr.from  = "csr"          /\ PoolCsr.to  = "decode csr"
  /\ GraphIn.op  = "copy in" /\ GraphIn.from  = "graph fields" /\ GraphIn.to  = "graph input"
  /\ GraphCsr.op = "copy in" /\ GraphCsr.from = "graph csr"    /\ GraphCsr.to = "decode csr"
  /\ ParamsIn.op = "copy in" /\ ParamsIn.from = "params"       /\ ParamsIn.to = "params"
  /\ MoveIn.op   = "move"    /\ MoveIn.from   = "fields"       /\ MoveIn.to   = "graph input"
  /\ TokensOut.op = "copy out" /\ TokensOut.from = "tokens" /\ TokensOut.to = "tokens"
  /\ Event.op = "event"
  BY DEF FieldsIn, CsrIn, PoolCsr, GraphIn, GraphCsr, ParamsIn, MoveIn, TokensOut, Event,
         CopyIn, Move, CopyOut

LEMMA SampledFields ==
  ASSUME NEW c
  PROVE  Sampled(c).op = "fill" /\ Sampled(c).to = "tokens" /\ Sampled(c).value = c
  BY DEF Sampled, Fill

LEMMA LayersFields ==
  ASSUME NEW c
  PROVE  Layers(c).op = "kernel" /\ Layers(c).call = c /\ Layers(c).reads = {"fields", "csr"}
  BY DEF Layers, Kernel

LEMMA ReplayFields ==
  ASSUME NEW c
  PROVE  /\ Replay(c).op = "kernel" /\ Replay(c).call = c
         /\ Replay(c).reads = {"graph input", "decode csr"}
  BY DEF Replay, Kernel

LEMMA SamplerFields ==
  ASSUME NEW c
  PROVE  Sampler(c).op = "kernel" /\ Sampler(c).call = c /\ Sampler(c).reads = {"params"}
  BY DEF Sampler, Kernel

\* What kind of operation each is.
LEMMA OpKinds ==
  /\ \A o \in {FieldsIn, CsrIn, PoolCsr, GraphIn, GraphCsr, ParamsIn} : o.op = "copy in"
  /\ MoveIn.op = "move" /\ TokensOut.op = "copy out" /\ Event.op = "event"
  /\ \A c : Sampled(c).op = "fill"
  /\ \A c : Layers(c).op = "kernel" /\ Replay(c).op = "kernel" /\ Sampler(c).op = "kernel"
  <1>1. /\ \A o \in {FieldsIn, CsrIn, PoolCsr, GraphIn, GraphCsr, ParamsIn} : o.op = "copy in"
        /\ MoveIn.op = "move" /\ TokensOut.op = "copy out" /\ Event.op = "event"
    BY CopyFields
  <1>2. \A c : Sampled(c).op = "fill"
    BY SampledFields
  <1>3. \A c : Layers(c).op = "kernel" /\ Replay(c).op = "kernel" /\ Sampler(c).op = "kernel"
    BY LayersFields, ReplayFields, SamplerFields
  <1> QED
    BY <1>1, <1>2, <1>3

\* Kernels differ by what they read.
LEMMA KernelsDiffer ==
  ASSUME NEW c, NEW d
  PROVE  /\ Layers(c) # Replay(d) /\ Layers(c) # Sampler(d) /\ Replay(c) # Sampler(d)
         /\ Layers(c) = Layers(d) => c = d
         /\ Replay(c) = Replay(d) => c = d
         /\ Sampler(c) = Sampler(d) => c = d
  <1>1. {"fields", "csr"} # {"graph input", "decode csr"} /\ {"fields", "csr"} # {"params"}
        /\ {"graph input", "decode csr"} # {"params"}
    OBVIOUS
  <1>2. Layers(c).call = c /\ Layers(c).reads = {"fields", "csr"} /\ Layers(d).call = d
    BY LayersFields
  <1>3. /\ Replay(c).call = c /\ Replay(c).reads = {"graph input", "decode csr"}
        /\ Replay(d).call = d /\ Replay(d).reads = {"graph input", "decode csr"}
    BY ReplayFields
  <1>4. Sampler(c).call = c /\ Sampler(d).call = d /\ Sampler(d).reads = {"params"}
    BY SamplerFields
  <1>5. Layers(c) # Replay(d) /\ Layers(c) # Sampler(d) /\ Replay(c) # Sampler(d)
    BY <1>1, <1>2, <1>3, <1>4
  <1>6. /\ Layers(c) = Layers(d) => c = d
        /\ Replay(c) = Replay(d) => c = d
        /\ Sampler(c) = Sampler(d) => c = d
    BY <1>2, <1>3, <1>4
  <1> QED
    BY <1>5, <1>6

\* Every operation is one of these.
LEMMA OpCases ==
  ASSUME NEW o \in Op
  PROVE  \/ o \in {FieldsIn, CsrIn, PoolCsr, GraphIn, GraphCsr, ParamsIn, MoveIn, TokensOut, Event}
         \/ o.op = "fill" /\ \E c \in Nat : o = Sampled(c)
         \/ o.op = "kernel" /\ \E c \in Nat : o \in {Layers(c), Replay(c), Sampler(c)}
  <1>1. \/ o \in {FieldsIn, CsrIn, PoolCsr, GraphIn, GraphCsr, ParamsIn, MoveIn, TokensOut, Event}
        \/ \E c \in Nat : o \in {Sampled(c), Layers(c), Replay(c), Sampler(c)}
    BY DEF Op
  <1>2. \A c : /\ Sampled(c).op = "fill" /\ Layers(c).op = "kernel"
              /\ Replay(c).op = "kernel" /\ Sampler(c).op = "kernel"
    BY OpKinds
  <1> QED
    BY <1>1, <1>2

-----------------------------------------------------------------------------
(* The invariant.                                                          *)

\* Operation o comes before position k of the stream.
Comes(o, k) == \E m \in 1 .. k - 1 : stream[m] = o

\* Operation o is still to run.
Waiting(o) == \E m \in DOMAIN stream : stream[m] = o

\* A kernel at position k of the stream will find the values of call c in ...
FieldsAt(k, c) == IF Comes(FieldsIn, k) THEN host["fields"] = c ELSE device["fields"] = c

ParamsAt(k, c) == IF Comes(ParamsIn, k) THEN host["params"] = c ELSE device["params"] = c

GraphInputAt(k, c) ==
  /\ Comes(GraphIn, k) => host["graph fields"] = c
  /\ \A m \in 1 .. k - 1 : stream[m] = MoveIn => FieldsAt(m, c)
  /\ Comes(GraphIn, k) \/ Comes(MoveIn, k) \/ device["graph input"] = c

DecodeCsrAt(k, c) ==
  /\ Comes(PoolCsr, k) => host["csr"] = c
  /\ Comes(GraphCsr, k) => host["graph csr"] = c
  /\ Comes(PoolCsr, k) \/ Comes(GraphCsr, k) \/ device["decode csr"] = c

Fed(o, k, c) ==
  /\ o = Layers(c) => FieldsAt(k, c)
  /\ o = Replay(c) => GraphInputAt(k, c) /\ DecodeCsrAt(k, c)
  /\ o = Sampler(c) => ParamsAt(k, c)

KernelsFed == \A k \in DOMAIN stream : \A c \in Nat : Fed(stream[k], k, c)

TypeInv ==
  /\ host \in [HostBuffer -> Nat] /\ device \in [DeviceBuffer -> Nat]
  /\ stream \in Seq(Op)
  /\ call \in Nat /\ plan \in Plans /\ failed \in BOOLEAN
  /\ pc \in {"idle", "pack", "replay", "build", "forward", "sample", "synchronize", "answer"}

\* The event of the pool is behind its copies.
EventBehind ==
  \A k \in DOMAIN stream :
    stream[k] = FieldsIn => \E j \in DOMAIN stream : j > k /\ stream[j] = Event

\* A batch that samples waits for the stream.
Waits == pc \in {"sample", "synchronize"} /\ plan.samples

\* Replays and what fills their buffers are of the call in progress; after a
\* failure what was enqueued for one may be left, but no other follows.
ReplaysWait == \A c \in Nat : Waiting(Replay(c)) => Waits

FillsReplay == {GraphIn, MoveIn, PoolCsr, GraphCsr}

FillsWait == ~failed => \A o \in FillsReplay : Waiting(o) => pc = "replay" \/ Waits

SamplersWait == \A c \in Nat : Waiting(Sampler(c)) => pc = "synchronize"

\* What the host has done of the call in progress.
Progress ==
  LET next == Len(stream) + 1 IN
  /\ pc \in {"pack", "replay"} => ~failed /\ plan.kind # "mixed"
  /\ pc = "replay" => /\ host["graph csr"] = call /\ GraphInputAt(next, call)
                      /\ ~Waiting(PoolCsr) /\ ~Waiting(GraphCsr)
  /\ pc = "forward" => host["csr"] = call /\ FieldsAt(next, call)
  /\ pc = "answer" => stream = <<>>

InputsInv ==
  /\ TypeInv /\ EventBehind /\ KernelsFed
  /\ ReplaysWait /\ FillsWait /\ SamplersWait /\ Progress

\* The tokens of the call are the last thing that is copied back.
TokensInv ==
  /\ pc = "synchronize" =>
       IF stream = <<>> THEN host["tokens"] = call
       ELSE /\ stream[Len(stream)] = TokensOut
            /\ IF Len(stream) = 1 THEN device["tokens"] = call
               ELSE stream[Len(stream) - 1] = Sampled(call)
  /\ pc = "answer" => stream = <<>> /\ host["tokens"] = call

\* A batch for the decode graph samples (README, section 3).
SampledReplays == \A p \in Plans : p.kind # "mixed" => p.samples
-----------------------------------------------------------------------------
(* The stream: what is appended, and what the head does.                   *)

LEMMA Appended ==
  ASSUME stream \in Seq(Op), NEW ops \in Seq(Op), Enqueue(ops)
  PROVE  /\ stream' \in Seq(Op) /\ Len(stream) \in Nat /\ Len(ops) \in Nat
         /\ Len(stream') = Len(stream) + Len(ops)
         /\ \A k \in 1 .. Len(stream) : stream'[k] = stream[k]
         /\ \A k \in 1 .. Len(ops) : stream'[Len(stream) + k] = ops[k]
  BY DEF Enqueue

LEMMA ComesKept ==
  ASSUME stream \in Seq(Op), NEW ops \in Seq(Op), Enqueue(ops),
         NEW k \in 1 .. Len(stream) + 1, NEW o
  PROVE  Comes(o, k)' <=> Comes(o, k)
  <1>1. \A m \in 1 .. k - 1 : m \in 1 .. Len(stream) /\ stream'[m] = stream[m]
    BY Appended
  <1> QED
    BY <1>1 DEF Comes

\* What the stream's head does to the buffers.
LEMMA HeadRuns ==
  ASSUME TypeInv, StreamRuns
  PROVE  /\ Head(stream) \in Op
         /\ \A b \in HostBuffer \ {"tokens"} : host'[b] = host[b]
         /\ host'["tokens"] = IF Head(stream) = TokensOut THEN device["tokens"] ELSE host["tokens"]
         /\ device'["fields"] = IF Head(stream) = FieldsIn THEN host["fields"] ELSE device["fields"]
         /\ device'["params"] = IF Head(stream) = ParamsIn THEN host["params"] ELSE device["params"]
         /\ device'["graph input"] = IF Head(stream) = GraphIn THEN host["graph fields"]
                                     ELSE IF Head(stream) = MoveIn THEN device["fields"]
                                     ELSE device["graph input"]
         /\ device'["decode csr"] = IF Head(stream) = PoolCsr THEN host["csr"]
                                    ELSE IF Head(stream) = GraphCsr THEN host["graph csr"]
                                    ELSE device["decode csr"]
         /\ \A c \in Nat : Head(stream) = Sampled(c) => device'["tokens"] = c
         /\ host' \in [HostBuffer -> Nat] /\ device' \in [DeviceBuffer -> Nat]
  <1> DEFINE o == Head(stream)
  <1>1. o \in Op /\ host \in [HostBuffer -> Nat] /\ device \in [DeviceBuffer -> Nat]
    <2>1. stream # <<>> /\ stream \in Seq(Op)
      BY DEF TypeInv, StreamRuns
    <2> QED
      BY <2>1 DEF TypeInv
  <1>2. /\ device' = CASE o.op = "copy in" -> [device EXCEPT ![o.to] = host[o.from]]
                       [] o.op = "move"    -> [device EXCEPT ![o.to] = device[o.from]]
                       [] o.op = "fill"    -> [device EXCEPT ![o.to] = o.value]
                       [] OTHER            -> device
        /\ host' = IF o.op = "copy out" THEN [host EXCEPT ![o.to] = device[o.from]] ELSE host
    BY DEF StreamRuns
  <1> HIDE DEF o
  <1>3. CASE o = FieldsIn
    <2>1. o.op = "copy in" /\ o.from = "fields" /\ o.to = "fields"
      BY <1>3, CopyFields
    <2>2. device' = [device EXCEPT !["fields"] = host["fields"]] /\ host' = host
      BY <1>2, <2>1
    <2>3. o \notin {ParamsIn, GraphIn, MoveIn, PoolCsr, GraphCsr, TokensOut}
      BY <2>1, CopyFields
    <2>4. \A c \in Nat : o # Sampled(c)
      BY <2>1, SampledFields
    <2> QED
      BY <1>1, <1>3, <2>2, <2>3, <2>4 DEF o, HostBuffer, DeviceBuffer
  <1>4. CASE o = CsrIn
    <2>1. o.op = "copy in" /\ o.from = "csr" /\ o.to = "csr"
      BY <1>4, CopyFields
    <2>2. device' = [device EXCEPT !["csr"] = host["csr"]] /\ host' = host
      BY <1>2, <2>1
    <2>3. o \notin {FieldsIn, ParamsIn, GraphIn, MoveIn, PoolCsr, GraphCsr, TokensOut}
      BY <2>1, CopyFields
    <2>4. \A c \in Nat : o # Sampled(c)
      BY <2>1, SampledFields
    <2> QED
      BY <1>1, <1>4, <2>2, <2>3, <2>4 DEF o, HostBuffer, DeviceBuffer
  <1>5. CASE o = PoolCsr
    <2>1. o.op = "copy in" /\ o.from = "csr" /\ o.to = "decode csr"
      BY <1>5, CopyFields
    <2>2. device' = [device EXCEPT !["decode csr"] = host["csr"]] /\ host' = host
      BY <1>2, <2>1
    <2>3. o \notin {FieldsIn, ParamsIn, GraphIn, MoveIn, GraphCsr, TokensOut}
      BY <2>1, CopyFields
    <2>4. \A c \in Nat : o # Sampled(c)
      BY <2>1, SampledFields
    <2> QED
      BY <1>1, <1>5, <2>2, <2>3, <2>4 DEF o, HostBuffer, DeviceBuffer
  <1>6. CASE o = GraphIn
    <2>1. o.op = "copy in" /\ o.from = "graph fields" /\ o.to = "graph input"
      BY <1>6, CopyFields
    <2>2. device' = [device EXCEPT !["graph input"] = host["graph fields"]] /\ host' = host
      BY <1>2, <2>1
    <2>3. o \notin {FieldsIn, ParamsIn, MoveIn, PoolCsr, GraphCsr, TokensOut}
      BY <2>1, CopyFields
    <2>4. \A c \in Nat : o # Sampled(c)
      BY <2>1, SampledFields
    <2> QED
      BY <1>1, <1>6, <2>2, <2>3, <2>4 DEF o, HostBuffer, DeviceBuffer
  <1>7. CASE o = GraphCsr
    <2>1. o.op = "copy in" /\ o.from = "graph csr" /\ o.to = "decode csr"
      BY <1>7, CopyFields
    <2>2. device' = [device EXCEPT !["decode csr"] = host["graph csr"]] /\ host' = host
      BY <1>2, <2>1
    <2>3. o \notin {FieldsIn, ParamsIn, GraphIn, MoveIn, PoolCsr, TokensOut}
      BY <2>1, CopyFields
    <2>4. \A c \in Nat : o # Sampled(c)
      BY <2>1, SampledFields
    <2> QED
      BY <1>1, <1>7, <2>2, <2>3, <2>4 DEF o, HostBuffer, DeviceBuffer
  <1>8. CASE o = ParamsIn
    <2>1. o.op = "copy in" /\ o.from = "params" /\ o.to = "params"
      BY <1>8, CopyFields
    <2>2. device' = [device EXCEPT !["params"] = host["params"]] /\ host' = host
      BY <1>2, <2>1
    <2>3. o \notin {FieldsIn, GraphIn, MoveIn, PoolCsr, GraphCsr, TokensOut}
      BY <2>1, CopyFields
    <2>4. \A c \in Nat : o # Sampled(c)
      BY <2>1, SampledFields
    <2> QED
      BY <1>1, <1>8, <2>2, <2>3, <2>4 DEF o, HostBuffer, DeviceBuffer
  <1>9. CASE o = MoveIn
    <2>1. o.op = "move" /\ o.from = "fields" /\ o.to = "graph input"
      BY <1>9, CopyFields
    <2>2. device' = [device EXCEPT !["graph input"] = device["fields"]] /\ host' = host
      BY <1>2, <2>1
    <2>3. o \notin {FieldsIn, ParamsIn, GraphIn, PoolCsr, GraphCsr, TokensOut}
      BY <2>1, CopyFields
    <2>4. \A c \in Nat : o # Sampled(c)
      BY <2>1, SampledFields
    <2> QED
      BY <1>1, <1>9, <2>2, <2>3, <2>4 DEF o, HostBuffer, DeviceBuffer
  <1>10. CASE o = TokensOut
    <2>1. o.op = "copy out" /\ o.from = "tokens" /\ o.to = "tokens"
      BY <1>10, CopyFields
    <2>2. host' = [host EXCEPT !["tokens"] = device["tokens"]] /\ device' = device
      BY <1>2, <2>1
    <2>3. o \notin {FieldsIn, ParamsIn, GraphIn, MoveIn, PoolCsr, GraphCsr}
      BY <2>1, CopyFields
    <2>4. \A c \in Nat : o # Sampled(c)
      BY <2>1, SampledFields
    <2> QED
      BY <1>1, <1>10, <2>2, <2>3, <2>4 DEF o, HostBuffer, DeviceBuffer
  <1>11. CASE o = Event
    <2>1. o.op = "event"
      BY <1>11, CopyFields
    <2>2. device' = device /\ host' = host
      BY <1>2, <2>1
    <2>3. o \notin {FieldsIn, ParamsIn, GraphIn, MoveIn, PoolCsr, GraphCsr, TokensOut}
      BY <2>1, CopyFields
    <2>4. \A c \in Nat : o # Sampled(c)
      BY <2>1, SampledFields
    <2> QED
      BY <1>1, <2>2, <2>3, <2>4 DEF o, HostBuffer, DeviceBuffer
  <1>12. ASSUME NEW c \in Nat, o = Sampled(c)
         PROVE  /\ device' = [device EXCEPT !["tokens"] = c] /\ host' = host
    <2>1. o.op = "fill" /\ o.to = "tokens" /\ o.value = c
      BY <1>12, SampledFields
    <2>2. device' = [device EXCEPT ![o.to] = o.value]
      BY <1>2, <2>1
    <2>3. host' = host
      BY <1>2, <2>1
    <2> QED
      BY <2>1, <2>2, <2>3
  <1>14. CASE o.op = "kernel"
    <2>1. o.op = "kernel"
      BY <1>14, CopyFields
    <2>2. device' = device /\ host' = host
      BY <1>2, <2>1
    <2>3. o \notin {FieldsIn, ParamsIn, GraphIn, MoveIn, PoolCsr, GraphCsr, TokensOut}
      BY <2>1, CopyFields
    <2>4. \A c \in Nat : o # Sampled(c)
      BY <2>1, SampledFields
    <2> QED
      BY <1>1, <2>2, <2>3, <2>4 DEF o, HostBuffer, DeviceBuffer
  <1>15. CASE o.op = "fill"
    <2>1. PICK c \in Nat : o = Sampled(c)
      BY <1>1, <1>15, OpCases, OpKinds
    <2>2. ASSUME NEW d \in Nat, o = Sampled(d) PROVE d = c
      <3>1. Sampled(d).value = d /\ Sampled(c).value = c
        BY SampledFields
      <3> QED
        BY <2>1, <2>2, <3>1
    <2>3. device' = [device EXCEPT !["tokens"] = c] /\ host' = host
      BY <1>12, <2>1
    <2>4. o \notin {FieldsIn, ParamsIn, GraphIn, MoveIn, PoolCsr, GraphCsr, TokensOut}
      BY <1>15, OpKinds
    <2> QED
      BY <1>1, <2>2, <2>3, <2>4 DEF o, HostBuffer, DeviceBuffer
  <1>16. \/ o \in {FieldsIn, CsrIn, PoolCsr, GraphIn, GraphCsr, ParamsIn, MoveIn, TokensOut, Event}
         \/ o.op = "kernel" \/ o.op = "fill"
    BY <1>1, OpCases
  <1> QED
    BY <1>3, <1>4, <1>5, <1>6, <1>7, <1>8, <1>9, <1>10, <1>11, <1>14, <1>15, <1>16

LEMMA Shifted ==
  ASSUME stream \in Seq(Op), StreamRuns
  PROVE  /\ stream' \in Seq(Op) /\ Len(stream) \in Nat /\ Len(stream) > 0
         /\ Len(stream') = Len(stream) - 1 /\ stream[1] = Head(stream)
         /\ \A k \in 1 .. Len(stream') : k + 1 \in 1 .. Len(stream) /\ stream'[k] = stream[k + 1]
  <1>1. stream # <<>> /\ stream' = Tail(stream)
    BY DEF StreamRuns
  <1> QED
    BY <1>1

LEMMA ComesShifted ==
  ASSUME stream \in Seq(Op), StreamRuns, NEW k \in 1 .. Len(stream), NEW o
  PROVE  /\ Comes(o, k + 1) <=> Comes(o, k)' \/ Head(stream) = o
         /\ ~Comes(o, 1)
  <1>1. ASSUME Comes(o, k + 1) PROVE Comes(o, k)' \/ Head(stream) = o
    <2>1. PICK m \in 1 .. k : stream[m] = o
      BY <1>1 DEF Comes
    <2>2. CASE m = 1
      BY <2>1, <2>2, Shifted
    <2>3. CASE m # 1
      <3>1. m - 1 \in 1 .. k - 1 /\ stream'[m - 1] = o
        BY <2>1, <2>3, Shifted
      <3> QED
        BY <3>1 DEF Comes
    <2> QED
      BY <2>2, <2>3
  <1>2. ASSUME Comes(o, k)' PROVE Comes(o, k + 1)
    <2>1. PICK m \in 1 .. k - 1 : stream'[m] = o
      BY <1>2 DEF Comes
    <2>2. m + 1 \in 1 .. k /\ stream[m + 1] = o
      BY <2>1, Shifted
    <2> QED
      BY <2>2 DEF Comes
  <1>3. Head(stream) = o => Comes(o, k + 1)
    BY Shifted DEF Comes
  <1>4. ~Comes(o, 1)
    BY DEF Comes
  <1> QED
    BY <1>1, <1>2, <1>3, <1>4

-----------------------------------------------------------------------------
(* A kernel is fed whatever is enqueued behind it, and while the stream    *)
(* moves on.                                                               *)

LEMMA FieldsShifted ==
  ASSUME TypeInv, StreamRuns, NEW k \in 1 .. Len(stream), NEW c, FieldsAt(k + 1, c)
  PROVE  FieldsAt(k, c)'
  <1>1. /\ host'["fields"] = host["fields"]
        /\ device'["fields"] = IF Head(stream) = FieldsIn THEN host["fields"] ELSE device["fields"]
    BY HeadRuns DEF HostBuffer
  <1>2. Comes(FieldsIn, k + 1) <=> Comes(FieldsIn, k)' \/ Head(stream) = FieldsIn
    BY ComesShifted DEF TypeInv
  <1> QED
    BY <1>1, <1>2 DEF FieldsAt

LEMMA ParamsShifted ==
  ASSUME TypeInv, StreamRuns, NEW k \in 1 .. Len(stream), NEW c, ParamsAt(k + 1, c)
  PROVE  ParamsAt(k, c)'
  <1>1. /\ host'["params"] = host["params"]
        /\ device'["params"] = IF Head(stream) = ParamsIn THEN host["params"] ELSE device["params"]
    BY HeadRuns DEF HostBuffer
  <1>2. Comes(ParamsIn, k + 1) <=> Comes(ParamsIn, k)' \/ Head(stream) = ParamsIn
    BY ComesShifted DEF TypeInv
  <1> QED
    BY <1>1, <1>2 DEF ParamsAt

LEMMA DecodeCsrShifted ==
  ASSUME TypeInv, StreamRuns, NEW k \in 1 .. Len(stream), NEW c, DecodeCsrAt(k + 1, c)
  PROVE  DecodeCsrAt(k, c)'
  <1>1. /\ host'["csr"] = host["csr"] /\ host'["graph csr"] = host["graph csr"]
        /\ device'["decode csr"] = IF Head(stream) = PoolCsr THEN host["csr"]
                                   ELSE IF Head(stream) = GraphCsr THEN host["graph csr"]
                                   ELSE device["decode csr"]
    BY HeadRuns DEF HostBuffer
  <1>2. /\ Comes(PoolCsr, k + 1) <=> Comes(PoolCsr, k)' \/ Head(stream) = PoolCsr
        /\ Comes(GraphCsr, k + 1) <=> Comes(GraphCsr, k)' \/ Head(stream) = GraphCsr
    BY ComesShifted DEF TypeInv
  <1> QED
    BY <1>1, <1>2 DEF DecodeCsrAt

LEMMA GraphInputShifted ==
  ASSUME TypeInv, StreamRuns, NEW k \in 1 .. Len(stream), NEW c, GraphInputAt(k + 1, c)
  PROVE  GraphInputAt(k, c)'
  <1>1. /\ host'["graph fields"] = host["graph fields"]
        /\ device'["graph input"] = IF Head(stream) = GraphIn THEN host["graph fields"]
                                    ELSE IF Head(stream) = MoveIn THEN device["fields"]
                                    ELSE device["graph input"]
    BY HeadRuns DEF HostBuffer
  <1>2. /\ Comes(GraphIn, k + 1) <=> Comes(GraphIn, k)' \/ Head(stream) = GraphIn
        /\ Comes(MoveIn, k + 1) <=> Comes(MoveIn, k)' \/ Head(stream) = MoveIn
    BY ComesShifted DEF TypeInv
  <1>3. ASSUME NEW m \in 1 .. k - 1, stream'[m] = MoveIn PROVE FieldsAt(m, c)'
    <2>1. m + 1 \in 1 .. (k + 1) - 1 /\ stream[m + 1] = MoveIn /\ m \in 1 .. Len(stream)
      BY <1>3, Shifted DEF TypeInv
    <2>2. FieldsAt(m + 1, c)
      BY <2>1 DEF GraphInputAt
    <2> QED
      BY <2>1, <2>2, FieldsShifted
  <1>4. Head(stream) = MoveIn => device["fields"] = c
    <2>1. ASSUME Head(stream) = MoveIn PROVE device["fields"] = c
      <3>1. 1 \in 1 .. (k + 1) - 1 /\ stream[1] = MoveIn
        BY <2>1, Shifted DEF TypeInv
      <3>2. FieldsAt(1, c)
        BY <3>1 DEF GraphInputAt
      <3>3. ~Comes(FieldsIn, 1)
        BY DEF Comes
      <3> QED
        BY <3>2, <3>3 DEF FieldsAt
    <2> QED
      BY <2>1
  <1>5. /\ Comes(GraphIn, k + 1) => host["graph fields"] = c
        /\ Comes(GraphIn, k + 1) \/ Comes(MoveIn, k + 1) \/ device["graph input"] = c
    BY DEF GraphInputAt
  <1>6. Comes(GraphIn, k)' => host'["graph fields"] = c
    BY <1>1, <1>2, <1>5
  <1>7. Comes(GraphIn, k)' \/ Comes(MoveIn, k)' \/ device'["graph input"] = c
    <2>1. CASE Head(stream) = GraphIn
      BY <1>1, <1>2, <1>5, <2>1
    <2>2. CASE Head(stream) = MoveIn
      BY <1>1, <1>4, <2>2, OpKinds
    <2>3. CASE Head(stream) # GraphIn /\ Head(stream) # MoveIn
      BY <1>1, <1>2, <1>5, <2>3
    <2> QED
      BY <2>1, <2>2, <2>3
  <1> QED
    BY <1>3, <1>6, <1>7 DEF GraphInputAt

LEMMA FedShifted ==
  ASSUME TypeInv, StreamRuns, NEW k \in 1 .. Len(stream), NEW c, NEW o, Fed(o, k + 1, c)
  PROVE  Fed(o, k, c)'
  BY FieldsShifted, ParamsShifted, DecodeCsrShifted, GraphInputShifted DEF Fed

LEMMA KernelsFedShifted ==
  ASSUME TypeInv, StreamRuns, KernelsFed
  PROVE  KernelsFed'
  <1> SUFFICES ASSUME NEW k \in DOMAIN stream', NEW c \in Nat PROVE Fed(stream[k], k, c)'
    BY DEF KernelsFed
  <1>1. /\ k \in 1 .. Len(stream) /\ k + 1 \in DOMAIN stream
        /\ stream'[k] = stream[k + 1]
    BY Shifted DEF TypeInv
  <1>2. Fed(stream[k + 1], k + 1, c)
    BY <1>1 DEF KernelsFed
  <1>3. PICK o : o = stream[k + 1]
    OBVIOUS
  <1>4. Fed(o, k + 1, c)
    BY <1>2, <1>3
  <1>5. Fed(o, k, c)'
    BY <1>1, <1>4, FedShifted
  <1> QED
    BY <1>1, <1>3, <1>5 DEF Fed

-----------------------------------------------------------------------------
(* What is appended to the stream.                                         *)

LEMMA WaitingAppended ==
  ASSUME stream \in Seq(Op), NEW ops \in Seq(Op), Enqueue(ops), NEW o
  PROVE  Waiting(o)' <=> Waiting(o) \/ \E k \in 1 .. Len(ops) : ops[k] = o
  <1>1. ASSUME Waiting(o)' PROVE Waiting(o) \/ \E k \in 1 .. Len(ops) : ops[k] = o
    <2>1. PICK m \in 1 .. Len(stream') : stream'[m] = o
      BY <1>1, Appended DEF Waiting
    <2>2. CASE m \in 1 .. Len(stream)
      BY <2>1, <2>2, Appended DEF Waiting
    <2>3. CASE m \notin 1 .. Len(stream)
      <3>1. m - Len(stream) \in 1 .. Len(ops)
        BY <2>1, <2>3, Appended
      <3>2. stream'[Len(stream) + (m - Len(stream))] = ops[m - Len(stream)]
        BY <3>1, Appended
      <3>3. Len(stream) + (m - Len(stream)) = m
        BY <2>1, Appended
      <3> QED
        BY <2>1, <3>1, <3>2, <3>3
    <2> QED
      BY <2>2, <2>3
  <1>2. ASSUME Waiting(o) PROVE Waiting(o)'
    <2>1. PICK m \in 1 .. Len(stream) : stream[m] = o
      BY <1>2 DEF Waiting
    <2>2. m \in DOMAIN stream' /\ stream'[m] = o
      BY <2>1, Appended
    <2> QED
      BY <2>2 DEF Waiting
  <1>3. ASSUME NEW k \in 1 .. Len(ops), ops[k] = o PROVE Waiting(o)'
    <2>1. Len(stream) + k \in DOMAIN stream' /\ stream'[Len(stream) + k] = o
      BY <1>3, Appended
    <2> QED
      BY <2>1 DEF Waiting
  <1> QED
    BY <1>1, <1>2, <1>3

LEMMA WaitingShifted ==
  ASSUME stream \in Seq(Op), StreamRuns, NEW o, Waiting(o)'
  PROVE  Waiting(o)
  BY Shifted DEF Waiting

LEMMA WaitingComes ==
  ASSUME stream \in Seq(Op), NEW o
  PROVE  Comes(o, Len(stream) + 1) <=> Waiting(o)
  BY DEF Comes, Waiting

LEMMA ComesEarlier ==
  ASSUME stream \in Seq(Op), NEW o, NEW k \in 1 .. Len(stream) + 1, Comes(o, k)
  PROVE  Waiting(o)
  BY DEF Comes, Waiting

LEMMA ComesNext ==
  ASSUME NEW k \in Nat \ {0}, NEW o
  PROVE  Comes(o, k + 1)' <=> Comes(o, k)' \/ stream'[k] = o
  BY DEF Comes

LEMMA FieldsKept ==
  ASSUME stream \in Seq(Op), NEW ops \in Seq(Op), Enqueue(ops), device' = device,
         NEW k \in 1 .. Len(stream) + 1, NEW c,
         host'["fields"] = host["fields"] \/ ~Waiting(FieldsIn)
  PROVE  FieldsAt(k, c)' <=> FieldsAt(k, c)
  BY ComesKept, ComesEarlier DEF FieldsAt

LEMMA ParamsKept ==
  ASSUME stream \in Seq(Op), NEW ops \in Seq(Op), Enqueue(ops), device' = device,
         NEW k \in 1 .. Len(stream) + 1, NEW c,
         host'["params"] = host["params"]
  PROVE  ParamsAt(k, c)' <=> ParamsAt(k, c)
  BY ComesKept DEF ParamsAt

LEMMA DecodeCsrKept ==
  ASSUME stream \in Seq(Op), NEW ops \in Seq(Op), Enqueue(ops), device' = device,
         NEW k \in 1 .. Len(stream) + 1, NEW c,
         host'["csr"] = host["csr"], host'["graph csr"] = host["graph csr"]
  PROVE  DecodeCsrAt(k, c)' <=> DecodeCsrAt(k, c)
  BY ComesKept DEF DecodeCsrAt

LEMMA EarlierInStream ==
  ASSUME stream \in Seq(Op), NEW k \in 1 .. Len(stream) + 1, NEW m \in 1 .. k - 1
  PROVE  m \in 1 .. Len(stream) /\ m \in 1 .. Len(stream) + 1
  OBVIOUS

LEMMA GraphInputKept ==
  ASSUME stream \in Seq(Op), NEW ops \in Seq(Op), Enqueue(ops), device' = device,
         NEW k \in 1 .. Len(stream) + 1, NEW c,
         host'["fields"] = host["fields"], host'["graph fields"] = host["graph fields"]
  PROVE  GraphInputAt(k, c)' <=> GraphInputAt(k, c)
  <1>1. ASSUME NEW m \in 1 .. k - 1
        PROVE  stream'[m] = stream[m] /\ (FieldsAt(m, c)' <=> FieldsAt(m, c))
    <2>1. m \in 1 .. Len(stream) /\ m \in 1 .. Len(stream) + 1
      BY EarlierInStream
    <2> QED
      BY <2>1, Appended, FieldsKept
  <1>2. /\ Comes(GraphIn, k)' <=> Comes(GraphIn, k)
        /\ Comes(MoveIn, k)' <=> Comes(MoveIn, k)
    BY ComesKept
  <1> QED
    BY <1>1, <1>2 DEF GraphInputAt

LEMMA FieldsNext ==
  ASSUME NEW k \in Nat \ {0}, NEW j, j = k + 1, NEW c,
         stream'[k] # FieldsIn, FieldsAt(k, c)'
  PROVE  FieldsAt(j, c)'
  BY ComesNext DEF FieldsAt

LEMMA GraphInputNext ==
  ASSUME NEW k \in Nat \ {0}, NEW j, j = k + 1, NEW c,
         stream'[k] # GraphIn, stream'[k] # MoveIn, GraphInputAt(k, c)'
  PROVE  GraphInputAt(j, c)'
  <1>1. ASSUME NEW m \in 1 .. j - 1, stream'[m] = MoveIn PROVE FieldsAt(m, c)'
    <2>1. m \in 1 .. k - 1
      BY <1>1
    <2> QED
      BY <1>1, <2>1 DEF GraphInputAt
  <1>2. Comes(GraphIn, j)' <=> Comes(GraphIn, k)'
    BY ComesNext
  <1>3. Comes(MoveIn, j)' <=> Comes(MoveIn, k)'
    BY ComesNext
  <1>4. Comes(GraphIn, j)' => host'["graph fields"] = c
    BY <1>2 DEF GraphInputAt
  <1>5. Comes(GraphIn, j)' \/ Comes(MoveIn, j)' \/ device'["graph input"] = c
    BY <1>2, <1>3 DEF GraphInputAt
  <1> QED
    BY <1>1, <1>4, <1>5 DEF GraphInputAt

LEMMA ComesEarlierNext ==
  ASSUME NEW o, NEW k, stream' \in Seq(Op), k <= Len(stream') + 1, k \in Nat, ~Waiting(o)'
  PROVE  ~Comes(o, k)'
  <1>1. \A m \in 1 .. k - 1 : m \in 1 .. Len(stream')
    OBVIOUS
  <1> QED
    BY <1>1 DEF Comes, Waiting

\* What may change of the host's staging while these kernels are in the stream.
Spared ==
  /\ host'["fields"] = host["fields"] \/ ~Waiting(FieldsIn)
  /\ \/ \A b \in {"fields", "csr", "graph fields", "graph csr"} : host'[b] = host[b]
     \/ \A c \in Nat : ~Waiting(Replay(c))
  /\ host'["params"] = host["params"] \/ \A c \in Nat : ~Waiting(Sampler(c))

LEMMA KernelsKept ==
  ASSUME stream \in Seq(Op), NEW ops \in Seq(Op), Enqueue(ops), device' = device,
         KernelsFed, Spared,
         NEW n, n = Len(stream),
         \A k \in 1 .. Len(ops) : \A c \in Nat : \A y : y = n + k => Fed(ops[k], y, c)'
  PROVE  KernelsFed'
  <1> SUFFICES ASSUME NEW k \in DOMAIN stream', NEW c \in Nat PROVE Fed(stream[k], k, c)'
    BY DEF KernelsFed
  <1>1. CASE k \in 1 .. Len(stream)
    <2>1. stream'[k] = stream[k] /\ k \in 1 .. Len(stream) + 1 /\ Fed(stream[k], k, c)
      BY <1>1, Appended DEF KernelsFed
    <2>2. Waiting(stream[k])
      BY <1>1 DEF Waiting
    <2>3. stream[k] = Layers(c) => FieldsAt(k, c)'
      BY <2>1, FieldsKept DEF Fed, Spared
    <2>4. stream[k] = Replay(c) => GraphInputAt(k, c)' /\ DecodeCsrAt(k, c)'
      <3>1. ASSUME stream[k] = Replay(c) PROVE GraphInputAt(k, c)' /\ DecodeCsrAt(k, c)'
        <4>1. \A b \in {"fields", "csr", "graph fields", "graph csr"} : host'[b] = host[b]
          BY <2>2, <3>1 DEF Spared
        <4>2. GraphInputAt(k, c) /\ DecodeCsrAt(k, c)
          BY <2>1, <3>1 DEF Fed
        <4> QED
          BY <2>1, <4>1, <4>2, GraphInputKept, DecodeCsrKept
      <3> QED
        BY <3>1
    <2>5. stream[k] = Sampler(c) => ParamsAt(k, c)'
      <3>1. ASSUME stream[k] = Sampler(c) PROVE ParamsAt(k, c)'
        <4>1. host'["params"] = host["params"] /\ ParamsAt(k, c)
          BY <2>1, <2>2, <3>1 DEF Spared, Fed
        <4> QED
          BY <2>1, <4>1, ParamsKept
      <3> QED
        BY <3>1
    <2> QED
      BY <2>1, <2>3, <2>4, <2>5 DEF Fed
  <1>2. CASE k \notin 1 .. Len(stream)
    <2>1. PICK j : j = k - n
      OBVIOUS
    <2>2. j \in 1 .. Len(ops) /\ k = n + j
      BY <1>2, <2>1, Appended
    <2>3. stream'[k] = ops[j]
      BY <2>2, Appended
    <2>4. Fed(ops[j], k, c)'
      BY <2>2
    <2> QED
      BY <2>3, <2>4 DEF Fed
  <1> QED
    BY <1>1, <1>2

LEMMA NoKernel == ASSUME NEW o, o.op # "kernel", NEW k, NEW c PROVE Fed(o, k, c)'
  <1>1. Layers(c).op = "kernel" /\ Replay(c).op = "kernel" /\ Sampler(c).op = "kernel"
    BY OpKinds
  <1> QED
    BY <1>1 DEF Fed

LEMMA LayersFed == ASSUME NEW k, NEW c, NEW d, FieldsAt(k, d)' PROVE Fed(Layers(d), k, c)'
  BY KernelsDiffer DEF Fed

LEMMA ReplayFed ==
  ASSUME NEW k, NEW c, NEW d, GraphInputAt(k, d)', DecodeCsrAt(k, d)'
  PROVE  Fed(Replay(d), k, c)'
  BY KernelsDiffer DEF Fed

LEMMA SamplerFed == ASSUME NEW k, NEW c, NEW d, ParamsAt(k, d)' PROVE Fed(Sampler(d), k, c)'
  BY KernelsDiffer DEF Fed

\* The event stays behind the copies of the pool.
LEMMA EventKept ==
  ASSUME stream \in Seq(Op), NEW ops \in Seq(Op), Enqueue(ops), EventBehind,
         \A k \in 1 .. Len(ops) : ops[k] # FieldsIn
  PROVE  EventBehind'
  <1> SUFFICES ASSUME NEW k \in DOMAIN stream', stream'[k] = FieldsIn
               PROVE  \E j \in DOMAIN stream' : j > k /\ stream'[j] = Event
    BY DEF EventBehind
  <1>1. k \in 1 .. Len(stream)
    <2>1. ASSUME k \notin 1 .. Len(stream) PROVE FALSE
      <3>1. PICK j : j = k - Len(stream)
        OBVIOUS
      <3>2. j \in 1 .. Len(ops) /\ k = Len(stream) + j
        BY <2>1, <3>1, Appended
      <3> QED
        BY <3>2, Appended
    <2> QED
      BY <2>1
  <1>2. PICK j \in 1 .. Len(stream) : j > k /\ stream[j] = Event
    BY <1>1, Appended DEF EventBehind
  <1> QED
    BY <1>2, Appended

LEMMA EventShifted ==
  ASSUME stream \in Seq(Op), StreamRuns, EventBehind
  PROVE  EventBehind'
  <1> SUFFICES ASSUME NEW k \in DOMAIN stream', stream'[k] = FieldsIn
               PROVE  \E j \in DOMAIN stream' : j > k /\ stream'[j] = Event
    BY DEF EventBehind
  <1>1. k \in 1 .. Len(stream') /\ k + 1 \in 1 .. Len(stream) /\ stream[k + 1] = FieldsIn
    BY Shifted
  <1>2. PICK j \in 1 .. Len(stream) : j > k + 1 /\ stream[j] = Event
    BY <1>1 DEF EventBehind
  <1>3. j - 1 \in 1 .. Len(stream') /\ j - 1 > k /\ stream'[j - 1] = Event
    BY <1>1, <1>2, Shifted
  <1> QED
    BY <1>3, Shifted

LEMMA NoCopiesLeft ==
  ASSUME EventBehind, EventReached
  PROVE  ~Waiting(FieldsIn)
  <1> SUFFICES ASSUME NEW k \in DOMAIN stream, stream[k] = FieldsIn PROVE FALSE
    BY DEF Waiting
  <1>1. PICK j \in DOMAIN stream : stream[j] = Event
    BY DEF EventBehind
  <1>2. stream[j].op = "event"
    BY <1>1, OpKinds
  <1> QED
    BY <1>2 DEF EventReached

LEMMA OpsAre ==
  /\ {FieldsIn, CsrIn, PoolCsr, GraphIn, GraphCsr, ParamsIn, MoveIn, TokensOut, Event} \subseteq Op
  /\ \A c \in Nat : {Sampled(c), Layers(c), Replay(c), Sampler(c)} \subseteq Op
  BY DEF Op

\* Which operations a test of what is in the stream tells apart.
LEMMA OpsDiffer ==
  /\ FieldsIn \notin FillsReplay /\ CsrIn \notin FillsReplay /\ ParamsIn \notin FillsReplay
  /\ TokensOut \notin FillsReplay /\ Event \notin FillsReplay
  /\ \A c : /\ Sampled(c) \notin FillsReplay /\ Layers(c) \notin FillsReplay
            /\ Replay(c) \notin FillsReplay /\ Sampler(c) \notin FillsReplay
  /\ FieldsIn \notin {CsrIn, PoolCsr, GraphIn, GraphCsr, ParamsIn, MoveIn, TokensOut, Event}
  /\ \A c : FieldsIn \notin {Sampled(c), Layers(c), Replay(c), Sampler(c)}
  /\ MoveIn \notin {GraphIn, GraphCsr, PoolCsr}
  /\ GraphIn \notin {GraphCsr, PoolCsr} /\ GraphCsr # PoolCsr
  <1> DEFINE Apart(c) == /\ Sampled(c) \notin FillsReplay /\ Layers(c) \notin FillsReplay
                         /\ Replay(c) \notin FillsReplay /\ Sampler(c) \notin FillsReplay
                         /\ FieldsIn \notin {Sampled(c), Layers(c), Replay(c), Sampler(c)}
  <1>1. ASSUME NEW c PROVE Apart(c)
    <2>1. /\ Sampled(c).op = "fill" /\ Layers(c).op = "kernel"
          /\ Replay(c).op = "kernel" /\ Sampler(c).op = "kernel"
      BY OpKinds
    <2> QED
      BY <2>1, CopyFields DEF FillsReplay
  <1> QED
    BY <1>1, CopyFields DEF FillsReplay

\* No kernel of these kinds is behind another operation.
LEMMA KernelsApart ==
  ASSUME NEW c, NEW d
  PROVE  /\ Replay(c) \notin {FieldsIn, CsrIn, PoolCsr, GraphIn, GraphCsr, ParamsIn, MoveIn,
                              TokensOut, Event, Sampled(d), Layers(d), Sampler(d)}
         /\ Sampler(c) \notin {FieldsIn, CsrIn, PoolCsr, GraphIn, GraphCsr, ParamsIn, MoveIn,
                               TokensOut, Event, Sampled(d), Layers(d), Replay(d)}
  <1>1. Replay(c).op = "kernel" /\ Sampler(c).op = "kernel" /\ Sampled(d).op = "fill"
    BY OpKinds
  <1>2. /\ Layers(d) # Replay(c) /\ Layers(d) # Sampler(c)
        /\ Replay(c) # Sampler(d) /\ Replay(d) # Sampler(c)
    BY KernelsDiffer
  <1> QED
    BY <1>1, <1>2, OpKinds

\* A change of the host's program counter only.
LEMMA StreamQuiet ==
  ASSUME UNCHANGED streamVars
  PROVE  /\ KernelsFed' <=> KernelsFed
         /\ EventBehind' <=> EventBehind
         /\ \A o : Waiting(o)' <=> Waiting(o)
         /\ \A k, c : FieldsAt(k, c)' <=> FieldsAt(k, c)
         /\ \A k, c : GraphInputAt(k, c)' <=> GraphInputAt(k, c)
  <1>1. \A o, k : Comes(o, k)' <=> Comes(o, k)
    BY DEF streamVars, Comes
  <1>2. \A k, c : FieldsAt(k, c)' <=> FieldsAt(k, c)
    BY <1>1 DEF streamVars, FieldsAt
  <1>3. \A k, c : GraphInputAt(k, c)' <=> GraphInputAt(k, c)
    BY <1>1, <1>2 DEF streamVars, GraphInputAt
  <1>4. \A k, c : DecodeCsrAt(k, c)' <=> DecodeCsrAt(k, c)
    BY <1>1 DEF streamVars, DecodeCsrAt
  <1>5. \A k, c : ParamsAt(k, c)' <=> ParamsAt(k, c)
    BY <1>1 DEF streamVars, ParamsAt
  <1>6. \A o, k, c : Fed(o, k, c)' <=> Fed(o, k, c)
    BY <1>2, <1>3, <1>4, <1>5 DEF Fed
  <1>7. KernelsFed' <=> KernelsFed
    BY <1>6 DEF streamVars, KernelsFed
  <1>8. EventBehind' <=> EventBehind
    BY DEF streamVars, EventBehind
  <1>9. \A o : Waiting(o)' <=> Waiting(o)
    BY DEF streamVars, Waiting
  <1> QED
    BY <1>2, <1>3, <1>7, <1>8, <1>9

\* The steps that leave the stream alone.
LEMMA QuietSteps ==
  ASSUME InputsInv,
         \/ \E p \in Plans : Execute(p)
         \/ SampleNothing \/ Synchronize \/ Answer
         \/ UNCHANGED vars
  PROVE  InputsInv'
  <1>1. UNCHANGED streamVars
    BY DEF Execute, SampleNothing, Synchronize, Answer, vars
  <1>2. /\ KernelsFed' /\ EventBehind'
        /\ \A o : Waiting(o)' <=> Waiting(o)
        /\ \A k, c : FieldsAt(k, c)' <=> FieldsAt(k, c)
        /\ \A k, c : GraphInputAt(k, c)' <=> GraphInputAt(k, c)
    BY <1>1, StreamQuiet DEF InputsInv
  <1>3. host' = host /\ device' = device /\ stream' = stream
    BY <1>1 DEF streamVars
  <1>4. CASE \E p \in Plans : Execute(p)
    <2>1. PICK p \in Plans : Execute(p)
      BY <1>4
    <2>2. TypeInv'
      BY <1>3, <2>1 DEF InputsInv, TypeInv, Execute
    <2>3. ~Waits
      BY <2>1 DEF Execute, Waits
    <2>4. ReplaysWait' /\ FillsWait' /\ SamplersWait'
      BY <1>2, <2>1, <2>3 DEF InputsInv, ReplaysWait, FillsWait, SamplersWait, Execute
    <2>5. Progress'
      BY <2>1 DEF Progress, Execute
    <2> QED
      BY <1>2, <2>2, <2>4, <2>5 DEF InputsInv
  <1>5. CASE SampleNothing
    <2>1. TypeInv'
      BY <1>3, <1>5 DEF InputsInv, TypeInv, SampleNothing
    <2>2. ~Waits
      BY <1>5 DEF SampleNothing, Waits
    <2>3. ReplaysWait' /\ FillsWait' /\ SamplersWait'
      BY <1>2, <1>5, <2>2 DEF InputsInv, ReplaysWait, FillsWait, SamplersWait, SampleNothing
    <2>4. Progress'
      BY <1>5 DEF Progress, SampleNothing
    <2> QED
      BY <1>2, <2>1, <2>3, <2>4 DEF InputsInv
  <1>6. CASE Synchronize \/ Answer
    <2>1. TypeInv'
      BY <1>3, <1>6 DEF InputsInv, TypeInv, Synchronize, Answer
    <2>2. stream = <<>> /\ pc' \in {"answer", "idle"}
      BY <1>6 DEF InputsInv, Progress, Synchronize, Answer, Synchronized, StreamIdle
    <2>3. \A o : ~Waiting(o)
      BY <2>2 DEF Waiting
    <2>4. ReplaysWait' /\ FillsWait' /\ SamplersWait'
      BY <1>2, <2>3 DEF ReplaysWait, FillsWait, SamplersWait
    <2>5. Progress'
      BY <1>3, <2>2 DEF Progress
    <2> QED
      BY <1>2, <2>1, <2>4, <2>5 DEF InputsInv
  <1>7. CASE UNCHANGED vars
    <2>1. TypeInv' /\ (Waits' <=> Waits)
      BY <1>3, <1>7 DEF InputsInv, TypeInv, Waits, vars
    <2>2. ReplaysWait' /\ FillsWait' /\ SamplersWait'
      BY <1>2, <1>7, <2>1 DEF InputsInv, ReplaysWait, FillsWait, SamplersWait, vars
    <2>3. Progress'
      BY <1>2, <1>3, <1>7 DEF InputsInv, Progress, vars
    <2> QED
      BY <1>2, <2>1, <2>2, <2>3 DEF InputsInv
  <1> QED
    BY <1>4, <1>5, <1>6, <1>7

LEMMA StreamStep ==
  ASSUME InputsInv, StreamRuns, UNCHANGED <<call, plan, failed, pc>>
  PROVE  InputsInv'
  <1>1. TypeInv'
    BY HeadRuns, Shifted DEF InputsInv, TypeInv
  <1>2. KernelsFed' /\ EventBehind'
    BY KernelsFedShifted, EventShifted DEF InputsInv, TypeInv
  <1>3. \A o : Waiting(o)' => Waiting(o)
    BY WaitingShifted DEF InputsInv, TypeInv
  <1>4. ReplaysWait' /\ FillsWait' /\ SamplersWait'
    BY <1>3 DEF InputsInv, ReplaysWait, FillsWait, SamplersWait, Waits
  <1>5. PICK n : n = Len(stream)
    OBVIOUS
  <1>6. n \in 1 .. Len(stream) /\ n = Len(stream') + 1
    BY <1>5, Shifted DEF InputsInv, TypeInv
  <1>7. PICK d : d = call
    OBVIOUS
  <1>8. ASSUME pc = "replay" PROVE GraphInputAt(n, d)'
    <2>1. GraphInputAt(n + 1, d)
      BY <1>5, <1>7, <1>8 DEF InputsInv, Progress
    <2> QED
      BY <1>6, <2>1, GraphInputShifted DEF InputsInv
  <1>9. ASSUME pc = "forward" PROVE FieldsAt(n, d)'
    <2>1. FieldsAt(n + 1, d)
      BY <1>5, <1>7, <1>9 DEF InputsInv, Progress
    <2> QED
      BY <1>6, <2>1, FieldsShifted DEF InputsInv
  <1>10. host'["csr"] = host["csr"] /\ host'["graph csr"] = host["graph csr"]
    BY HeadRuns DEF InputsInv, HostBuffer
  <1>11. stream # <<>>
    BY DEF StreamRuns
  <1>12. Progress'
    BY <1>3, <1>6, <1>7, <1>8, <1>9, <1>10, <1>11 DEF InputsInv, Progress
  <1> QED
    BY <1>1, <1>2, <1>4, <1>12 DEF InputsInv

LEMMA AppendOne ==
  ASSUME TypeInv, KernelsFed, EventBehind, Spared, device' = device,
         NEW n, n = Len(stream), NEW a \in Op, Enqueue(<<a>>),
         NEW i, i = n + 1, NEW next, next = n + 2
  PROVE  /\ stream' \in Seq(Op) /\ n \in Nat /\ Len(stream') + 1 = next /\ next \in Nat \ {0}
         /\ i \in 1 .. Len(stream) + 1 /\ i \in Nat \ {0}
         /\ stream'[i] = a
         /\ \A o : Waiting(o)' <=> Waiting(o) \/ o \in {a}
         /\ FieldsIn \notin {a} => EventBehind'
         /\ (\A e \in Nat : Fed(a, i, e)') => KernelsFed'
  <1> DEFINE ops == <<a>>
  <1>1. ops \in Seq(Op) /\ Len(ops) = 1 /\ ops[1] = a
    OBVIOUS
  <1>2. Enqueue(ops) /\ stream \in Seq(Op)
    BY DEF TypeInv
  <1> HIDE DEF ops
  <1>3. /\ stream' \in Seq(Op) /\ n \in Nat /\ Len(stream') + 1 = next /\ next \in Nat \ {0}
        /\ i \in 1 .. Len(stream) + 1 /\ i \in Nat \ {0}
    <2>1. stream' \in Seq(Op) /\ Len(stream) \in Nat /\ Len(stream') = Len(stream) + Len(ops)
      BY <1>1, <1>2, Appended
    <2>2. n \in Nat /\ Len(stream') = n + 1
      BY <1>1, <2>1
    <2>3. Len(stream') + 1 = next /\ next \in Nat \ {0} /\ i \in 1 .. n + 1
      BY <2>2
    <2>4. i \in Nat \ {0}
      BY <2>2
    <2> QED
      BY <2>1, <2>2, <2>3, <2>4
  <1>4. stream'[i] = a
    <2>1. \A x \in 1 .. Len(ops) : stream'[Len(stream) + x] = ops[x]
      BY <1>1, <1>2, Appended
    <2>2. \A x \in 1 .. 1 : stream'[n + x] = ops[x]
      BY <1>1, <2>1
    <2>3. stream'[n + 1] = a
      BY <1>1, <2>2
    <2> QED
      BY <2>3
  <1>5. 1 .. Len(ops) = {1}
    BY <1>1
  <1>6. ASSUME NEW o PROVE Waiting(o)' <=> Waiting(o) \/ o \in {a}
    <2>1. Waiting(o)' <=> Waiting(o) \/ \E x \in 1 .. Len(ops) : ops[x] = o
      BY <1>1, <1>2, WaitingAppended
    <2> QED
      BY <1>1, <1>5, <2>1
  <1>7. ASSUME FieldsIn \notin {a} PROVE EventBehind'
    <2>1. \A x \in 1 .. Len(ops) : ops[x] # FieldsIn
      BY <1>1, <1>5, <1>7
    <2> QED
      BY <1>1, <1>2, <2>1, EventKept
  <1>8. ASSUME \A e \in Nat : Fed(a, i, e)'
        PROVE  KernelsFed'
    <2>1. ASSUME NEW x \in 1 .. Len(ops), NEW e \in Nat, NEW y, y = n + x
          PROVE  Fed(ops[x], y, e)'
      BY <1>1, <1>5, <1>8, <2>1
    <2> QED
      BY <1>1, <1>2, <2>1, KernelsKept
  <1> QED
    BY <1>3, <1>4, <1>6, <1>7, <1>8

LEMMA AppendTwo ==
  ASSUME TypeInv, KernelsFed, EventBehind, Spared, device' = device,
         NEW n, n = Len(stream), NEW a \in Op, NEW b \in Op, Enqueue(<<a, b>>),
         NEW i, i = n + 1, NEW j, j = n + 2, NEW next, next = n + 3
  PROVE  /\ stream' \in Seq(Op) /\ n \in Nat /\ Len(stream') + 1 = next /\ next \in Nat \ {0}
         /\ i \in 1 .. Len(stream) + 1 /\ i \in Nat \ {0} /\ j \in Nat \ {0}
         /\ stream'[i] = a /\ stream'[j] = b
         /\ \A o : Waiting(o)' <=> Waiting(o) \/ o \in {a, b}
         /\ FieldsIn \notin {a, b} => EventBehind'
         /\ (\A e \in Nat : Fed(a, i, e)' /\ Fed(b, j, e)') => KernelsFed'
  <1> DEFINE ops == <<a, b>>
  <1>1. ops \in Seq(Op) /\ Len(ops) = 2 /\ ops[1] = a /\ ops[2] = b
    OBVIOUS
  <1>2. Enqueue(ops) /\ stream \in Seq(Op)
    BY DEF TypeInv
  <1> HIDE DEF ops
  <1>3. /\ stream' \in Seq(Op) /\ n \in Nat /\ Len(stream') + 1 = next /\ next \in Nat \ {0}
        /\ i \in 1 .. Len(stream) + 1 /\ i \in Nat \ {0} /\ j \in Nat \ {0}
    <2>1. stream' \in Seq(Op) /\ Len(stream) \in Nat /\ Len(stream') = Len(stream) + Len(ops)
      BY <1>1, <1>2, Appended
    <2>2. n \in Nat /\ Len(stream') = n + 2
      BY <1>1, <2>1
    <2>3. Len(stream') + 1 = next /\ next \in Nat \ {0} /\ i \in 1 .. n + 1
      BY <2>2
    <2>4. i \in Nat \ {0} /\ j \in Nat \ {0}
      BY <2>2
    <2> QED
      BY <2>1, <2>2, <2>3, <2>4
  <1>4. stream'[i] = a /\ stream'[j] = b
    <2>1. \A x \in 1 .. Len(ops) : stream'[Len(stream) + x] = ops[x]
      BY <1>1, <1>2, Appended
    <2>2. \A x \in 1 .. 2 : stream'[n + x] = ops[x]
      BY <1>1, <2>1
    <2>3. stream'[n + 1] = a /\ stream'[n + 2] = b
      BY <1>1, <2>2
    <2> QED
      BY <2>3
  <1>5. 1 .. Len(ops) = {1, 2}
    BY <1>1
  <1>6. ASSUME NEW o PROVE Waiting(o)' <=> Waiting(o) \/ o \in {a, b}
    <2>1. Waiting(o)' <=> Waiting(o) \/ \E x \in 1 .. Len(ops) : ops[x] = o
      BY <1>1, <1>2, WaitingAppended
    <2> QED
      BY <1>1, <1>5, <2>1
  <1>7. ASSUME FieldsIn \notin {a, b} PROVE EventBehind'
    <2>1. \A x \in 1 .. Len(ops) : ops[x] # FieldsIn
      BY <1>1, <1>5, <1>7
    <2> QED
      BY <1>1, <1>2, <2>1, EventKept
  <1>8. ASSUME \A e \in Nat : Fed(a, i, e)' /\ Fed(b, j, e)'
        PROVE  KernelsFed'
    <2>1. ASSUME NEW x \in 1 .. Len(ops), NEW e \in Nat, NEW y, y = n + x
          PROVE  Fed(ops[x], y, e)'
      BY <1>1, <1>5, <1>8, <2>1
    <2> QED
      BY <1>1, <1>2, <2>1, KernelsKept
  <1> QED
    BY <1>3, <1>4, <1>6, <1>7, <1>8

\* What holds once a, b and c are appended behind position n.
AppendedThree(n, a, b, c, i, j, k, next) ==
  /\ stream' \in Seq(Op) /\ n \in Nat /\ Len(stream') + 1 = next /\ next \in Nat \ {0}
  /\ i \in 1 .. Len(stream) + 1 /\ i \in Nat \ {0} /\ j \in Nat \ {0} /\ k \in Nat \ {0}
  /\ stream'[i] = a /\ stream'[j] = b /\ stream'[k] = c
  /\ \A o : Waiting(o)' <=> Waiting(o) \/ o \in {a, b, c}
  /\ FieldsIn \notin {a, b, c} => EventBehind'
  /\ (\A e \in Nat : Fed(a, i, e)' /\ Fed(b, j, e)' /\ Fed(c, k, e)') => KernelsFed'

LEMMA AppendThree ==
  ASSUME TypeInv, KernelsFed, EventBehind, Spared, device' = device,
         NEW n, n = Len(stream), NEW a \in Op, NEW b \in Op, NEW c \in Op, Enqueue(<<a, b, c>>),
         NEW i, i = n + 1, NEW j, j = n + 2, NEW k, k = n + 3, NEW next, next = n + 4
  PROVE  AppendedThree(n, a, b, c, i, j, k, next)
  <1> DEFINE ops == <<a, b, c>>
  <1>1. ops \in Seq(Op) /\ Len(ops) = 3 /\ ops[1] = a /\ ops[2] = b /\ ops[3] = c
    OBVIOUS
  <1>2. Enqueue(ops) /\ stream \in Seq(Op)
    BY DEF TypeInv
  <1> HIDE DEF ops
  <1>3. /\ stream' \in Seq(Op) /\ n \in Nat /\ Len(stream') + 1 = next /\ next \in Nat \ {0}
        /\ i \in 1 .. Len(stream) + 1 /\ i \in Nat \ {0} /\ j \in Nat \ {0} /\ k \in Nat \ {0}
    <2>1. stream' \in Seq(Op) /\ Len(stream) \in Nat /\ Len(stream') = Len(stream) + Len(ops)
      BY <1>1, <1>2, Appended
    <2>2. n \in Nat /\ Len(stream') = n + 3
      BY <1>1, <2>1
    <2>3. Len(stream') + 1 = next /\ next \in Nat \ {0} /\ i \in 1 .. n + 1
      BY <2>2
    <2>4. i \in Nat \ {0} /\ j \in Nat \ {0} /\ k \in Nat \ {0}
      BY <2>2
    <2> QED
      BY <2>1, <2>2, <2>3, <2>4
  <1>4. stream'[i] = a /\ stream'[j] = b /\ stream'[k] = c
    <2>1. \A x \in 1 .. Len(ops) : stream'[Len(stream) + x] = ops[x]
      BY <1>1, <1>2, Appended
    <2>2. \A x \in 1 .. 3 : stream'[n + x] = ops[x]
      BY <1>1, <2>1
    <2>3. stream'[n + 1] = a /\ stream'[n + 2] = b /\ stream'[n + 3] = c
      BY <1>1, <2>2
    <2> QED
      BY <2>3
  <1>5. 1 .. Len(ops) = {1, 2, 3}
    BY <1>1
  <1>6. ASSUME NEW o PROVE Waiting(o)' <=> Waiting(o) \/ o \in {a, b, c}
    <2>1. Waiting(o)' <=> Waiting(o) \/ \E x \in 1 .. Len(ops) : ops[x] = o
      BY <1>1, <1>2, WaitingAppended
    <2> QED
      BY <1>1, <1>5, <2>1
  <1>7. ASSUME FieldsIn \notin {a, b, c} PROVE EventBehind'
    <2>1. \A x \in 1 .. Len(ops) : ops[x] # FieldsIn
      BY <1>1, <1>5, <1>7
    <2> QED
      BY <1>1, <1>2, <2>1, EventKept
  <1>8. ASSUME \A e \in Nat : Fed(a, i, e)' /\ Fed(b, j, e)' /\ Fed(c, k, e)'
        PROVE  KernelsFed'
    <2>1. ASSUME NEW x \in 1 .. Len(ops), NEW e \in Nat, NEW y, y = n + x
          PROVE  Fed(ops[x], y, e)'
      BY <1>1, <1>5, <1>8, <2>1
    <2> QED
      BY <1>1, <1>2, <2>1, KernelsKept
  <1> QED
    BY <1>3, <1>4, <1>6, <1>7, <1>8 DEF AppendedThree

\* What holds once a, b, c and d are appended behind position n.
AppendedFour(n, a, b, c, d, i, j, k, l, next) ==
  /\ stream' \in Seq(Op) /\ n \in Nat /\ Len(stream') + 1 = next /\ next \in Nat \ {0}
  /\ i \in 1 .. Len(stream) + 1
  /\ i \in Nat \ {0} /\ j \in Nat \ {0} /\ k \in Nat \ {0} /\ l \in Nat \ {0}
  /\ stream'[i] = a /\ stream'[j] = b /\ stream'[k] = c /\ stream'[l] = d
  /\ \A o : Waiting(o)' <=> Waiting(o) \/ o \in {a, b, c, d}
  /\ FieldsIn \notin {a, b, c, d} => EventBehind'
  /\ (\A e \in Nat : Fed(a, i, e)' /\ Fed(b, j, e)' /\ Fed(c, k, e)' /\ Fed(d, l, e)')
       => KernelsFed'

LEMMA AppendFour ==
  ASSUME TypeInv, KernelsFed, EventBehind, Spared, device' = device,
         NEW n, n = Len(stream),
         NEW a \in Op, NEW b \in Op, NEW c \in Op, NEW d \in Op, Enqueue(<<a, b, c, d>>),
         NEW i, i = n + 1, NEW j, j = n + 2, NEW k, k = n + 3, NEW l, l = n + 4,
         NEW next, next = n + 5
  PROVE  AppendedFour(n, a, b, c, d, i, j, k, l, next)
  <1> DEFINE ops == <<a, b, c, d>>
  <1>1. ops \in Seq(Op) /\ Len(ops) = 4 /\ ops[1] = a /\ ops[2] = b /\ ops[3] = c /\ ops[4] = d
    OBVIOUS
  <1>2. Enqueue(ops) /\ stream \in Seq(Op)
    BY DEF TypeInv
  <1> HIDE DEF ops
  <1>3. /\ stream' \in Seq(Op) /\ n \in Nat /\ Len(stream') + 1 = next /\ next \in Nat \ {0}
        /\ i \in 1 .. Len(stream) + 1
        /\ i \in Nat \ {0} /\ j \in Nat \ {0} /\ k \in Nat \ {0} /\ l \in Nat \ {0}
    <2>1. stream' \in Seq(Op) /\ Len(stream) \in Nat /\ Len(stream') = Len(stream) + Len(ops)
      BY <1>1, <1>2, Appended
    <2>2. n \in Nat /\ Len(stream') = n + 4
      BY <1>1, <2>1
    <2>3. Len(stream') + 1 = next /\ next \in Nat \ {0} /\ i \in 1 .. n + 1
      BY <2>2
    <2>4. i \in Nat \ {0} /\ j \in Nat \ {0} /\ k \in Nat \ {0} /\ l \in Nat \ {0}
      BY <2>2
    <2> QED
      BY <2>1, <2>2, <2>3, <2>4
  <1>4. stream'[i] = a /\ stream'[j] = b /\ stream'[k] = c /\ stream'[l] = d
    <2>1. \A x \in 1 .. Len(ops) : stream'[Len(stream) + x] = ops[x]
      BY <1>1, <1>2, Appended
    <2>2. \A x \in 1 .. 4 : stream'[n + x] = ops[x]
      BY <1>1, <2>1
    <2>3. stream'[n + 1] = a /\ stream'[n + 2] = b /\ stream'[n + 3] = c /\ stream'[n + 4] = d
      BY <1>1, <2>2
    <2> QED
      BY <2>3
  <1>5. 1 .. Len(ops) = {1, 2, 3, 4}
    BY <1>1
  <1>6. ASSUME NEW o PROVE Waiting(o)' <=> Waiting(o) \/ o \in {a, b, c, d}
    <2>1. Waiting(o)' <=> Waiting(o) \/ \E x \in 1 .. Len(ops) : ops[x] = o
      BY <1>1, <1>2, WaitingAppended
    <2> QED
      BY <1>1, <1>5, <2>1
  <1>7. ASSUME FieldsIn \notin {a, b, c, d} PROVE EventBehind'
    <2>1. \A x \in 1 .. Len(ops) : ops[x] # FieldsIn
      BY <1>1, <1>5, <1>7
    <2> QED
      BY <1>1, <1>2, <2>1, EventKept
  <1>8. ASSUME \A e \in Nat : Fed(a, i, e)' /\ Fed(b, j, e)' /\ Fed(c, k, e)' /\ Fed(d, l, e)'
        PROVE  KernelsFed'
    <2>1. ASSUME NEW x \in 1 .. Len(ops), NEW e \in Nat, NEW y, y = n + x
          PROVE  Fed(ops[x], y, e)'
      BY <1>1, <1>5, <1>8, <2>1
    <2> QED
      BY <1>1, <1>2, <2>1, KernelsKept
  <1> QED
    BY <1>3, <1>4, <1>6, <1>7, <1>8 DEF AppendedFour

-----------------------------------------------------------------------------
(* The steps that enqueue.                                                 *)

\* try_replay_plan.
LEMMA PackPlanStep ==
  ASSUME InputsInv, PackPlan
  PROVE  InputsInv'
  <1>1. PICK n : n = Len(stream)
    OBVIOUS
  <1>2. PICK d : d = call
    OBVIOUS
  <1>3. PICK i, next : i = n + 1 /\ next = n + 2
    OBVIOUS
  <1>4. TypeInv /\ KernelsFed /\ EventBehind /\ d \in Nat
    BY <1>2 DEF InputsInv, TypeInv
  <1>5. /\ Enqueue(<<GraphIn>>) /\ device' = device
        /\ UNCHANGED <<call, plan, failed>> /\ pc' = "replay"
    BY <1>2 DEF PackPlan, GraphIn
  <1>6. /\ host'["fields"] = host["fields"] /\ host'["params"] = host["params"]
        /\ host'["graph fields"] = d /\ host'["graph csr"] = d
        /\ host' \in [HostBuffer -> Nat]
    BY <1>2 DEF PackPlan, InputsInv, TypeInv, HostBuffer
  <1>9. ~failed /\ pc = "pack" /\ plan.kind # "mixed" /\ ~Waits
    BY DEF PackPlan, InputsInv, Progress, Waits
  <1>10. \A c \in Nat : ~Waiting(Replay(c)) /\ ~Waiting(Sampler(c))
    BY <1>9 DEF InputsInv, ReplaysWait, SamplersWait
  <1>11. \A o \in FillsReplay : ~Waiting(o)
    BY <1>9 DEF InputsInv, FillsWait
  <1>12. Spared
    BY <1>6, <1>10 DEF Spared
  <1>7. GraphIn \in Op
        /\ FieldsIn \notin {GraphIn}
    BY <1>4, OpsAre, OpsDiffer
  <1>8. /\ stream' \in Seq(Op) /\ n \in Nat /\ Len(stream') + 1 = next /\ next \in Nat \ {0}
        /\ i \in 1 .. Len(stream) + 1 /\ i \in Nat \ {0}
        /\ stream'[i] = GraphIn
        /\ \A o : Waiting(o)' <=> Waiting(o) \/ o \in {GraphIn}
        /\ EventBehind'
        /\ (\A e \in Nat :
              /\ Fed(GraphIn, i, e)') => KernelsFed'
    BY <1>1, <1>3, <1>4, <1>5, <1>7, <1>12, AppendOne
  <1>13. KernelsFed'
    BY <1>8, OpKinds, NoKernel
  <1>14. TypeInv'
    BY <1>4, <1>5, <1>6, <1>8 DEF TypeInv
  <1>15. ReplaysWait' /\ SamplersWait'
    BY <1>8, <1>10, KernelsApart DEF ReplaysWait, SamplersWait
  <1>16. FillsWait'
    BY <1>5 DEF FillsWait
  <1>17. GraphInputAt(next, d)'
    <2>1. Comes(GraphIn, next)'
      <3>1. Comes(GraphIn, i + 1)'
        BY <1>8, ComesNext
      <3>2. i + 1 = next
        BY <1>3, <1>8
      <3> QED
        BY <3>1, <3>2
    <2>2. ~Waiting(MoveIn)'
      BY <1>8, <1>11, OpsDiffer DEF FillsReplay
    <2>3. ASSUME NEW m \in 1 .. next - 1 PROVE stream'[m] # MoveIn
      <3>1. m \in DOMAIN stream'
        BY <1>8
      <3> QED
        BY <2>2, <3>1 DEF Waiting
    <2> QED
      BY <1>6, <2>1, <2>3 DEF GraphInputAt
  <1>18. ~Waiting(PoolCsr)' /\ ~Waiting(GraphCsr)'
    BY <1>8, <1>11, OpsDiffer DEF FillsReplay
  <1>19. Progress'
    BY <1>2, <1>5, <1>6, <1>8, <1>9, <1>17, <1>18 DEF Progress
  <1> QED
    BY <1>8, <1>13, <1>14, <1>15, <1>16, <1>19 DEF InputsInv

LEMMA PackPlanDeclinesStep ==
  ASSUME InputsInv, PackPlanDeclines
  PROVE  InputsInv'
  <1>1. PICK ops : ops = <<>>
    OBVIOUS
  <1>2. PICK n : n = Len(stream)
    OBVIOUS
  <1>4. stream \in Seq(Op) /\ n \in Nat
    BY <1>2 DEF InputsInv, TypeInv
  <1>5. ops \in Seq(Op) /\ Len(ops) = 0
    BY <1>1
  <1>6. /\ Enqueue(ops) /\ device' = device
        /\ UNCHANGED <<stream, call, plan, failed>> /\ pc' = "build"
    <2>1. stream' = stream
      BY DEF PackPlanDeclines
    <2>2. stream \o <<>> = stream
      BY <1>4, ConcatEmptySeq
    <2> QED
      BY <1>1, <2>1, <2>2 DEF PackPlanDeclines, Enqueue
  <1>7. /\ host'["fields"] = host["fields"] /\ host'["params"] = host["params"]
        /\ host' \in [HostBuffer -> Nat]
    BY DEF PackPlanDeclines, InputsInv, TypeInv, HostBuffer
  <1>8. ~failed /\ pc = "pack" /\ ~Waits
    BY DEF PackPlanDeclines, InputsInv, Progress, Waits
  <1>9. \A c \in Nat : ~Waiting(Replay(c)) /\ ~Waiting(Sampler(c))
    BY <1>8 DEF InputsInv, ReplaysWait, SamplersWait
  <1>10. \A o \in FillsReplay : ~Waiting(o)
    BY <1>8 DEF InputsInv, FillsWait
  <1>11. \A o : Waiting(o)' <=> Waiting(o)
    BY <1>6 DEF Waiting
  <1>12. KernelsFed'
    <2>1. Spared
      BY <1>7, <1>9 DEF Spared
    <2>2. 1 .. Len(ops) = {}
      BY <1>5
    <2>3. \A x \in 1 .. Len(ops) : \A e \in Nat : \A y : y = n + x => Fed(ops[x], y, e)'
      BY <2>2
    <2> QED
      BY <1>2, <1>4, <1>5, <1>6, <2>1, <2>3, KernelsKept DEF InputsInv
  <1>13. EventBehind'
    BY <1>6 DEF InputsInv, EventBehind
  <1>14. ReplaysWait' /\ SamplersWait' /\ FillsWait'
    BY <1>9, <1>10, <1>11 DEF ReplaysWait, SamplersWait, FillsWait
  <1>16. TypeInv'
    BY <1>6, <1>7 DEF InputsInv, TypeInv
  <1>18. Progress'
    BY <1>6 DEF Progress
  <1> QED
    BY <1>12, <1>13, <1>14, <1>16, <1>18 DEF InputsInv

\* The lists of the graph and the replay go behind its input.
LEMMA ReplayPlanStep ==
  ASSUME InputsInv, ReplayPlan, SampledReplays
  PROVE  InputsInv'
  <1>1. PICK n : n = Len(stream)
    OBVIOUS
  <1>2. PICK d : d = call
    OBVIOUS
  <1>3. PICK i, j, next : i = n + 1 /\ j = n + 2 /\ next = n + 3
    OBVIOUS
  <1>4. TypeInv /\ KernelsFed /\ EventBehind /\ d \in Nat
    BY <1>2 DEF InputsInv, TypeInv
  <1>5. /\ Enqueue(<<GraphCsr, Replay(d)>>) /\ device' = device
        /\ host' = host /\ UNCHANGED <<call, plan, failed>>
        /\ pc = "replay" /\ pc' = "sample"
    BY <1>2 DEF ReplayPlan, GraphCsr, Replay
  <1>6. Spared /\ plan.samples
    BY <1>4, <1>5 DEF InputsInv, Progress, TypeInv, SampledReplays, Spared
  <1>7. GraphCsr \in Op /\ Replay(d) \in Op
        /\ FieldsIn \notin {GraphCsr, Replay(d)}
    BY <1>4, OpsAre, OpsDiffer
  <1>8. /\ stream' \in Seq(Op) /\ n \in Nat /\ Len(stream') + 1 = next /\ next \in Nat \ {0}
        /\ i \in 1 .. Len(stream) + 1 /\ i \in Nat \ {0} /\ j \in Nat \ {0}
        /\ stream'[i] = GraphCsr /\ stream'[j] = Replay(d)
        /\ \A o : Waiting(o)' <=> Waiting(o) \/ o \in {GraphCsr, Replay(d)}
        /\ EventBehind'
        /\ (\A e \in Nat :
              /\ Fed(GraphCsr, i, e)'
              /\ Fed(Replay(d), j, e)') => KernelsFed'
    BY <1>1, <1>3, <1>4, <1>5, <1>7, <1>6, AppendTwo
  <1>9. /\ host["graph csr"] = d /\ GraphInputAt(i, d)
        /\ ~Waiting(PoolCsr) /\ ~Waiting(GraphCsr)
    BY <1>1, <1>2, <1>3, <1>5 DEF InputsInv, Progress
  <1>10. <<GraphCsr, Replay(d)>> \in Seq(Op) /\ stream \in Seq(Op) /\ j = i + 1
    BY <1>3, <1>4, <1>7, <1>8 DEF TypeInv
  <1>11. GraphInputAt(j, d)'
    <2>1. GraphInputAt(i, d)'
      BY <1>5, <1>8, <1>9, <1>10, GraphInputKept
    <2>2. stream'[i] # GraphIn /\ stream'[i] # MoveIn
      BY <1>8, OpsDiffer
    <2> QED
      BY <1>8, <1>10, <2>1, <2>2, GraphInputNext
  <1>12. DecodeCsrAt(j, d)'
    <2>1. Comes(GraphCsr, j)'
      BY <1>8, <1>10, ComesNext
    <2>2. ~Waiting(PoolCsr)'
      BY <1>8, <1>9, OpsDiffer, KernelsApart
    <2>3. j <= Len(stream') + 1 /\ j \in Nat
      BY <1>3, <1>8
    <2>4. ~Comes(PoolCsr, j)'
      BY <1>8, <2>2, <2>3, ComesEarlierNext
    <2> QED
      BY <1>5, <1>9, <2>1, <2>4 DEF DecodeCsrAt
  <1>13. KernelsFed'
    BY <1>8, <1>11, <1>12, OpKinds, NoKernel, ReplayFed
  <1>14. TypeInv'
    BY <1>4, <1>5, <1>8 DEF TypeInv
  <1>15. ReplaysWait' /\ FillsWait'
    BY <1>5, <1>6 DEF ReplaysWait, FillsWait, Waits
  <1>16. SamplersWait'
    <2>1. \A c \in Nat : ~Waiting(Sampler(c))
      BY <1>5 DEF InputsInv, SamplersWait
    <2> QED
      BY <1>8, <2>1, KernelsApart DEF SamplersWait
  <1>17. Progress'
    BY <1>5 DEF Progress
  <1> QED
    BY <1>8, <1>13, <1>14, <1>15, <1>16, <1>17 DEF InputsInv

\* An exception: what was enqueued stays.
LEMMA HostLeaves ==
  ASSUME InputsInv, pc \in {"replay", "forward"}, pc' \in {"build", "idle"},
         UNCHANGED <<host, device, call, plan>>, failed' \in BOOLEAN,
         NEW a \in {GraphCsr, CsrIn}, Enqueue(<<>>) \/ Enqueue(<<a>>),
         ~failed' => ~failed /\ pc = "forward" /\ a = CsrIn
  PROVE  InputsInv'
  <1>1. TypeInv /\ KernelsFed /\ EventBehind /\ a \in Op
    BY OpsAre DEF InputsInv
  <1>2. /\ \A c \in Nat : ~Waiting(Replay(c)) /\ ~Waiting(Sampler(c))
        /\ ~failed' => \A o \in FillsReplay : ~Waiting(o)
    BY DEF InputsInv, ReplaysWait, SamplersWait, FillsWait, Waits
  <1>3. /\ stream' \in Seq(Op) /\ KernelsFed' /\ EventBehind'
        /\ \A o : Waiting(o)' => Waiting(o) \/ o = a
    <2>1. CASE Enqueue(<<>>)
      <3>1. stream' = stream
        BY <1>1, <2>1, ConcatEmptySeq DEF TypeInv, Enqueue
      <3> QED
        BY <1>1, <3>1, StreamQuiet DEF streamVars, TypeInv
    <2>2. CASE Enqueue(<<a>>)
      <3>1. PICK n : n = Len(stream)
        OBVIOUS
      <3>2. PICK i, next : i = n + 1 /\ next = n + 2
        OBVIOUS
      <3>3. Spared
        BY DEF Spared
      <3>4. FieldsIn \notin {a} /\ a.op # "kernel"
        BY OpKinds, OpsDiffer
      <3>5. /\ stream' \in Seq(Op) /\ EventBehind'
            /\ \A o : Waiting(o)' <=> Waiting(o) \/ o \in {a}
            /\ (\A e \in Nat : Fed(a, i, e)') => KernelsFed'
        BY <1>1, <2>2, <3>1, <3>2, <3>3, <3>4, AppendOne
      <3>6. \A e \in Nat : Fed(a, i, e)'
        BY <3>4, NoKernel
      <3> QED
        BY <3>5, <3>6
    <2> QED
      BY <2>1, <2>2
  <1>4. TypeInv'
    BY <1>1, <1>3 DEF TypeInv
  <1>5. ReplaysWait' /\ SamplersWait'
    <2>1. \A c : Replay(c) # a /\ Sampler(c) # a
      BY KernelsApart
    <2> QED
      BY <1>2, <1>3, <2>1 DEF ReplaysWait, SamplersWait
  <1>6. FillsWait'
    BY <1>2, <1>3, OpsDiffer DEF FillsWait
  <1>7. Progress'
    BY DEF Progress
  <1> QED
    BY <1>3, <1>4, <1>5, <1>6, <1>7 DEF InputsInv

LEMMA ReplayFailsStep ==
  ASSUME InputsInv, ReplayFails
  PROVE  InputsInv'
  <1>1. Enqueue(<<>>) \/ Enqueue(<<GraphCsr>>)
    BY DEF ReplayFails, GraphCsr
  <1> QED
    BY <1>1, HostLeaves DEF ReplayFails

LEMMA ForwardRaisesStep ==
  ASSUME InputsInv, ForwardRaises
  PROVE  InputsInv'
  <1>1. Enqueue(<<>>) \/ Enqueue(<<CsrIn>>)
    BY DEF ForwardRaises, CsrIn
  <1>2. failed' = failed /\ failed \in BOOLEAN
    BY DEF ForwardRaises, InputsInv, TypeInv
  <1> QED
    BY <1>1, <1>2, HostLeaves DEF ForwardRaises

LEMMA ForwardStep ==
  ASSUME InputsInv, Forward
  PROVE  InputsInv'
  <1>1. PICK n : n = Len(stream)
    OBVIOUS
  <1>2. PICK d : d = call
    OBVIOUS
  <1>3. PICK i, j, next : i = n + 1 /\ j = n + 2 /\ next = n + 3
    OBVIOUS
  <1>4. TypeInv /\ KernelsFed /\ EventBehind /\ d \in Nat
    BY <1>2 DEF InputsInv, TypeInv
  <1>5. /\ Enqueue(<<CsrIn, Layers(d)>>) /\ device' = device
        /\ host' = host /\ UNCHANGED <<call, plan, failed>>
        /\ pc = "forward" /\ pc' = "sample"
    BY <1>2 DEF Forward, CsrIn, Layers
  <1>6. Spared
    BY <1>5 DEF Spared
  <1>7. CsrIn \in Op /\ Layers(d) \in Op
        /\ FieldsIn \notin {CsrIn, Layers(d)}
    BY <1>4, OpsAre, OpsDiffer
  <1>8. /\ stream' \in Seq(Op) /\ n \in Nat /\ Len(stream') + 1 = next /\ next \in Nat \ {0}
        /\ i \in 1 .. Len(stream) + 1 /\ i \in Nat \ {0} /\ j \in Nat \ {0}
        /\ stream'[i] = CsrIn /\ stream'[j] = Layers(d)
        /\ \A o : Waiting(o)' <=> Waiting(o) \/ o \in {CsrIn, Layers(d)}
        /\ EventBehind'
        /\ (\A e \in Nat :
              /\ Fed(CsrIn, i, e)'
              /\ Fed(Layers(d), j, e)') => KernelsFed'
    BY <1>1, <1>3, <1>4, <1>5, <1>7, <1>6, AppendTwo
  <1>9. <<CsrIn, Layers(d)>> \in Seq(Op) /\ stream \in Seq(Op) /\ j = i + 1
    BY <1>3, <1>4, <1>7, <1>8 DEF TypeInv
  <1>10. FieldsAt(j, d)'
    <2>1. FieldsAt(i, d)
      BY <1>1, <1>2, <1>3, <1>5 DEF InputsInv, Progress
    <2>2. FieldsAt(i, d)'
      BY <1>5, <1>8, <1>9, <2>1, FieldsKept
    <2>3. stream'[i] # FieldsIn
      BY <1>8, OpsDiffer
    <2> QED
      BY <1>8, <1>9, <2>2, <2>3, FieldsNext
  <1>11. KernelsFed'
    BY <1>8, <1>10, OpKinds, NoKernel, LayersFed
  <1>12. TypeInv'
    BY <1>4, <1>5, <1>8 DEF TypeInv
  <1>13. /\ \A c \in Nat : ~Waiting(Replay(c)) /\ ~Waiting(Sampler(c))
         /\ ~failed => \A o \in FillsReplay : ~Waiting(o)
    BY <1>5 DEF InputsInv, ReplaysWait, SamplersWait, FillsWait, Waits
  <1>14. ReplaysWait' /\ SamplersWait'
    <2>1. \A c : Replay(c) \notin {CsrIn, Layers(d)} /\ Sampler(c) \notin {CsrIn, Layers(d)}
      BY KernelsApart
    <2> QED
      BY <1>8, <1>13, <2>1 DEF ReplaysWait, SamplersWait
  <1>15. FillsWait'
    <2>1. CsrIn \notin FillsReplay /\ Layers(d) \notin FillsReplay
      BY OpsDiffer
    <2> QED
      BY <1>5, <1>8, <1>13, <2>1 DEF FillsWait
  <1>16. Progress'
    BY <1>5 DEF Progress
  <1> QED
    BY <1>8, <1>11, <1>12, <1>14, <1>15, <1>16 DEF InputsInv

\* The input of the pool moves to the graph's.
LEMMA ReplayInputStep ==
  ASSUME InputsInv, ReplayInput, SampledReplays
  PROVE  InputsInv'
  <1>1. PICK n : n = Len(stream)
    OBVIOUS
  <1>2. PICK d : d = call
    OBVIOUS
  <1>3. PICK i, j, k, next : i = n + 1 /\ j = n + 2 /\ k = n + 3 /\ next = n + 4
    OBVIOUS
  <1>4. TypeInv /\ KernelsFed /\ EventBehind /\ d \in Nat
    BY <1>2 DEF InputsInv, TypeInv
  <1>5. /\ Enqueue(<<MoveIn, PoolCsr, Replay(d)>>) /\ device' = device
        /\ host' = host /\ UNCHANGED <<call, plan, failed>>
        /\ pc = "forward" /\ pc' = "sample" /\ ~failed /\ plan.kind # "mixed"
    BY <1>2 DEF ReplayInput, MoveIn, PoolCsr, Replay
  <1>6. Spared /\ plan.samples
    BY <1>4, <1>5 DEF TypeInv, SampledReplays, Spared
  <1>7. MoveIn \in Op /\ PoolCsr \in Op /\ Replay(d) \in Op
        /\ FieldsIn \notin {MoveIn, PoolCsr, Replay(d)}
    BY <1>4, OpsAre, OpsDiffer
  <1>8. /\ stream' \in Seq(Op) /\ n \in Nat /\ Len(stream') + 1 = next /\ next \in Nat \ {0}
        /\ i \in 1 .. Len(stream) + 1 /\ i \in Nat \ {0} /\ j \in Nat \ {0} /\ k \in Nat \ {0}
        /\ stream'[i] = MoveIn /\ stream'[j] = PoolCsr /\ stream'[k] = Replay(d)
        /\ \A o : Waiting(o)' <=> Waiting(o) \/ o \in {MoveIn, PoolCsr, Replay(d)}
        /\ EventBehind'
        /\ (\A e \in Nat :
              /\ Fed(MoveIn, i, e)'
              /\ Fed(PoolCsr, j, e)'
              /\ Fed(Replay(d), k, e)') => KernelsFed'
    <2>1. AppendedThree(n, MoveIn, PoolCsr, Replay(d), i, j, k, next)
      BY <1>1, <1>3, <1>4, <1>5, <1>6, <1>7, AppendThree
    <2> QED
      BY <1>7, <2>1 DEF AppendedThree
  <1>9. <<MoveIn, PoolCsr, Replay(d)>> \in Seq(Op) /\ stream \in Seq(Op) /\ j = i + 1 /\ k = j + 1
    BY <1>3, <1>4, <1>7, <1>8 DEF TypeInv
  <1>10. host["csr"] = d /\ FieldsAt(i, d)
    BY <1>1, <1>2, <1>3, <1>5 DEF InputsInv, Progress
  <1>11. \A o \in FillsReplay : ~Waiting(o)
    BY <1>5 DEF InputsInv, FillsWait, Waits
  <1>12. k \in Nat /\ k <= Len(stream') + 1 /\ 1 .. k - 1 = 1 .. Len(stream) \cup {i, j}
    BY <1>1, <1>3, <1>8
  <1>13. GraphInputAt(k, d)'
    <2>1. FieldsAt(i, d)'
      BY <1>5, <1>8, <1>9, <1>10, FieldsKept
    <2>2. ASSUME NEW m \in 1 .. k - 1, stream'[m] = MoveIn PROVE FieldsAt(m, d)'
      <3>1. CASE m \in 1 .. Len(stream)
        <4>1. stream[m] = MoveIn
          BY <1>5, <1>9, <2>2, <3>1, Appended
        <4> QED
          BY <1>11, <3>1, <4>1 DEF Waiting, FillsReplay
      <3>2. CASE m = j
        BY <1>8, <2>2, <3>2, OpsDiffer
      <3> QED
        BY <1>12, <2>1, <3>1, <3>2
    <2>3. ~Comes(GraphIn, k)'
      <3>1. GraphIn \notin {MoveIn, PoolCsr, Replay(d)}
        BY OpsDiffer, KernelsApart
      <3>2. ~Waiting(GraphIn)'
        BY <1>8, <1>11, <3>1 DEF FillsReplay
      <3> QED
        BY <1>8, <1>12, <3>2, ComesEarlierNext
    <2>4. Comes(MoveIn, k)'
      BY <1>8, <1>12 DEF Comes
    <2> QED
      BY <2>2, <2>3, <2>4 DEF GraphInputAt
  <1>14. DecodeCsrAt(k, d)'
    <2>1. ~Comes(GraphCsr, k)'
      <3>1. GraphCsr \notin {MoveIn, PoolCsr, Replay(d)}
        BY OpsDiffer, KernelsApart
      <3>2. ~Waiting(GraphCsr)'
        BY <1>8, <1>11, <3>1 DEF FillsReplay
      <3> QED
        BY <1>8, <1>12, <3>2, ComesEarlierNext
    <2>2. Comes(PoolCsr, k)'
      BY <1>8, <1>12 DEF Comes
    <2> QED
      BY <1>5, <1>10, <2>1, <2>2 DEF DecodeCsrAt
  <1>15. KernelsFed'
    BY <1>8, <1>13, <1>14, OpKinds, NoKernel, ReplayFed
  <1>16. TypeInv'
    BY <1>4, <1>5, <1>8 DEF TypeInv
  <1>17. ReplaysWait' /\ FillsWait'
    BY <1>5, <1>6 DEF ReplaysWait, FillsWait, Waits
  <1>18. SamplersWait'
    <2>1. \A c \in Nat : ~Waiting(Sampler(c))
      BY <1>5 DEF InputsInv, SamplersWait
    <2>2. \A c : Sampler(c) \notin {MoveIn, PoolCsr, Replay(d)}
      BY KernelsApart
    <2> QED
      BY <1>8, <2>1, <2>2 DEF SamplersWait
  <1>19. Progress'
    BY <1>5 DEF Progress
  <1> QED
    BY <1>8, <1>15, <1>16, <1>17, <1>18, <1>19 DEF InputsInv

\* The eager pass that follows finds the input of the pool.
LEMMA RetryForward ==
  ASSUME InputsInv, pc = "forward", pc' = pc, failed' = TRUE, device' = device, host' = host,
         UNCHANGED <<call, plan>>, stream' \in Seq(Op), KernelsFed', EventBehind',
         \A c \in Nat : Waiting(Replay(c))' => Waiting(Replay(c)),
         \A c \in Nat : Waiting(Sampler(c))' => Waiting(Sampler(c)),
         NEW next, next = Len(stream') + 1, NEW d, d = call, FieldsAt(next, d)'
  PROVE  InputsInv'
  <1>1. TypeInv'
    BY DEF InputsInv, TypeInv
  <1>2. ReplaysWait' /\ SamplersWait' /\ FillsWait'
    BY DEF InputsInv, ReplaysWait, SamplersWait, FillsWait, Waits
  <1>3. host["csr"] = call
    BY DEF InputsInv, Progress
  <1>4. Progress'
    BY <1>3 DEF Progress
  <1> QED
    BY <1>1, <1>2, <1>4 DEF InputsInv

LEMMA ReplayInputFailsOneStep ==
  ASSUME InputsInv, ReplayInputFails, Enqueue(<<MoveIn>>)
  PROVE  InputsInv'
  <1>1. PICK n : n = Len(stream)
    OBVIOUS
  <1>2. PICK d : d = call
    OBVIOUS
  <1>3. PICK i, next : i = n + 1 /\ next = n + 2
    OBVIOUS
  <1>4. TypeInv /\ KernelsFed /\ EventBehind /\ d \in Nat
    BY <1>2 DEF InputsInv, TypeInv
  <1>5. /\ Enqueue(<<MoveIn>>) /\ device' = device
        /\ host' = host /\ UNCHANGED <<call, plan>> /\ failed' = TRUE
        /\ pc = "forward" /\ pc' = pc
    BY <1>2 DEF ReplayInputFails
  <1>6. Spared
    BY <1>5 DEF Spared
  <1>7. MoveIn \in Op
        /\ FieldsIn \notin {MoveIn}
    BY <1>4, OpsAre, OpsDiffer
  <1>8. /\ stream' \in Seq(Op) /\ n \in Nat /\ Len(stream') + 1 = next /\ next \in Nat \ {0}
        /\ i \in 1 .. Len(stream) + 1 /\ i \in Nat \ {0}
        /\ stream'[i] = MoveIn
        /\ \A o : Waiting(o)' <=> Waiting(o) \/ o \in {MoveIn}
        /\ EventBehind'
        /\ (\A e \in Nat :
              /\ Fed(MoveIn, i, e)') => KernelsFed'
    BY <1>1, <1>3, <1>4, <1>5, <1>7, <1>6, AppendOne
  <1>9. <<MoveIn>> \in Seq(Op) /\ stream \in Seq(Op) /\ next = i + 1
    BY <1>3, <1>4, <1>7, <1>8 DEF TypeInv
  <1>10. FieldsAt(next, d)'
    <2>1. FieldsAt(i, d)
      BY <1>1, <1>2, <1>3, <1>5 DEF InputsInv, Progress
    <2>2. FieldsAt(i, d)'
      BY <1>5, <1>8, <1>9, <2>1, FieldsKept
    <2>3. stream'[i] # FieldsIn
      BY <1>8, OpsDiffer
    <2> QED
      BY <1>8, <1>9, <2>2, <2>3, FieldsNext
  <1>11. KernelsFed'
    BY <1>8, OpKinds, NoKernel
  <1>12. \A c : Replay(c) \notin {MoveIn} /\ Sampler(c) \notin {MoveIn}
    BY KernelsApart
  <1>13. next = Len(stream') + 1
    BY <1>8
  <1> QED
    BY <1>2, <1>5, <1>8, <1>10, <1>11, <1>12, <1>13, RetryForward

LEMMA ReplayInputFailsTwoStep ==
  ASSUME InputsInv, ReplayInputFails, Enqueue(<<MoveIn, PoolCsr>>)
  PROVE  InputsInv'
  <1>1. PICK n : n = Len(stream)
    OBVIOUS
  <1>2. PICK d : d = call
    OBVIOUS
  <1>3. PICK i, j, next : i = n + 1 /\ j = n + 2 /\ next = n + 3
    OBVIOUS
  <1>4. TypeInv /\ KernelsFed /\ EventBehind /\ d \in Nat
    BY <1>2 DEF InputsInv, TypeInv
  <1>5. /\ Enqueue(<<MoveIn, PoolCsr>>) /\ device' = device
        /\ host' = host /\ UNCHANGED <<call, plan>> /\ failed' = TRUE
        /\ pc = "forward" /\ pc' = pc
    BY <1>2 DEF ReplayInputFails
  <1>6. Spared
    BY <1>5 DEF Spared
  <1>7. MoveIn \in Op /\ PoolCsr \in Op
        /\ FieldsIn \notin {MoveIn, PoolCsr}
    BY <1>4, OpsAre, OpsDiffer
  <1>8. /\ stream' \in Seq(Op) /\ n \in Nat /\ Len(stream') + 1 = next /\ next \in Nat \ {0}
        /\ i \in 1 .. Len(stream) + 1 /\ i \in Nat \ {0} /\ j \in Nat \ {0}
        /\ stream'[i] = MoveIn /\ stream'[j] = PoolCsr
        /\ \A o : Waiting(o)' <=> Waiting(o) \/ o \in {MoveIn, PoolCsr}
        /\ EventBehind'
        /\ (\A e \in Nat :
              /\ Fed(MoveIn, i, e)'
              /\ Fed(PoolCsr, j, e)') => KernelsFed'
    BY <1>1, <1>3, <1>4, <1>5, <1>7, <1>6, AppendTwo
  <1>9. <<MoveIn, PoolCsr>> \in Seq(Op) /\ stream \in Seq(Op) /\ j = i + 1 /\ next = j + 1
    BY <1>3, <1>4, <1>7, <1>8 DEF TypeInv
  <1>10. FieldsAt(next, d)'
    <2>1. FieldsAt(i, d)
      BY <1>1, <1>2, <1>3, <1>5 DEF InputsInv, Progress
    <2>2. FieldsAt(i, d)'
      BY <1>5, <1>8, <1>9, <2>1, FieldsKept
    <2>3. stream'[i] # FieldsIn /\ stream'[j] # FieldsIn
      BY <1>8, OpsDiffer
    <2>4. FieldsAt(j, d)'
      BY <1>8, <1>9, <2>2, <2>3, FieldsNext
    <2> QED
      BY <1>8, <1>9, <2>3, <2>4, FieldsNext
  <1>11. KernelsFed'
    BY <1>8, OpKinds, NoKernel
  <1>12. \A c : Replay(c) \notin {MoveIn, PoolCsr} /\ Sampler(c) \notin {MoveIn, PoolCsr}
    BY KernelsApart
  <1>13. next = Len(stream') + 1
    BY <1>8
  <1> QED
    BY <1>2, <1>5, <1>8, <1>10, <1>11, <1>12, <1>13, RetryForward

LEMMA ReplayInputFailsStep ==
  ASSUME InputsInv, ReplayInputFails
  PROVE  InputsInv'
  <1>1. Enqueue(<<MoveIn>>) \/ Enqueue(<<MoveIn, PoolCsr>>)
    BY DEF ReplayInputFails, MoveIn, PoolCsr
  <1> QED
    BY <1>1, ReplayInputFailsOneStep, ReplayInputFailsTwoStep

LEMMA SampleGreedyStep ==
  ASSUME InputsInv, SampleGreedy
  PROVE  InputsInv'
  <1>1. PICK n : n = Len(stream)
    OBVIOUS
  <1>2. PICK d : d = call
    OBVIOUS
  <1>3. PICK i, j, next : i = n + 1 /\ j = n + 2 /\ next = n + 3
    OBVIOUS
  <1>4. TypeInv /\ KernelsFed /\ EventBehind /\ d \in Nat
    BY <1>2 DEF InputsInv, TypeInv
  <1>5. /\ Enqueue(<<Sampled(d), TokensOut>>) /\ device' = device
        /\ host' = host /\ UNCHANGED <<call, plan, failed>> /\ plan.samples
        /\ pc = "sample" /\ pc' = "synchronize"
    BY <1>2 DEF SampleGreedy, Sampled, TokensOut
  <1>6. Spared
    BY <1>5 DEF Spared
  <1>7. Sampled(d) \in Op /\ TokensOut \in Op
        /\ FieldsIn \notin {Sampled(d), TokensOut}
    BY <1>4, OpsAre, OpsDiffer
  <1>8. /\ stream' \in Seq(Op) /\ n \in Nat /\ Len(stream') + 1 = next /\ next \in Nat \ {0}
        /\ i \in 1 .. Len(stream) + 1 /\ i \in Nat \ {0} /\ j \in Nat \ {0}
        /\ stream'[i] = Sampled(d) /\ stream'[j] = TokensOut
        /\ \A o : Waiting(o)' <=> Waiting(o) \/ o \in {Sampled(d), TokensOut}
        /\ EventBehind'
        /\ (\A e \in Nat :
              /\ Fed(Sampled(d), i, e)'
              /\ Fed(TokensOut, j, e)') => KernelsFed'
    BY <1>1, <1>3, <1>4, <1>5, <1>7, <1>6, AppendTwo
  <1>9. KernelsFed'
    BY <1>8, OpKinds, NoKernel
  <1>10. TypeInv'
    BY <1>4, <1>5, <1>8 DEF TypeInv
  <1>11. ReplaysWait' /\ FillsWait' /\ SamplersWait'
    BY <1>5 DEF ReplaysWait, FillsWait, SamplersWait, Waits
  <1>12. Progress'
    BY <1>5 DEF Progress
  <1> QED
    BY <1>8, <1>9, <1>10, <1>11, <1>12 DEF InputsInv

LEMMA SampleWithParamsStep ==
  ASSUME InputsInv, SampleWithParams
  PROVE  InputsInv'
  <1>1. PICK n : n = Len(stream)
    OBVIOUS
  <1>2. PICK d : d = call
    OBVIOUS
  <1>3. PICK i, j, k, l, next : i = n + 1 /\ j = n + 2 /\ k = n + 3 /\ l = n + 4 /\ next = n + 5
    OBVIOUS
  <1>4. TypeInv /\ KernelsFed /\ EventBehind /\ d \in Nat
    BY <1>2 DEF InputsInv, TypeInv
  <1>5. /\ Enqueue(<<ParamsIn, Sampler(d), Sampled(d), TokensOut>>) /\ device' = device
        /\ UNCHANGED <<call, plan, failed>> /\ plan.samples
        /\ pc = "sample" /\ pc' = "synchronize"
    BY <1>2 DEF SampleWithParams, ParamsIn, Sampler, Sampled, TokensOut
  <1>6. /\ \A b \in {"fields", "csr", "graph fields", "graph csr"} : host'[b] = host[b]
        /\ host'["params"] = d /\ host' \in [HostBuffer -> Nat]
    BY <1>2 DEF SampleWithParams, InputsInv, TypeInv, HostBuffer
  <1>9. Spared
    BY <1>5, <1>6 DEF InputsInv, SamplersWait, Spared
  <1>7. ParamsIn \in Op /\ Sampler(d) \in Op /\ Sampled(d) \in Op /\ TokensOut \in Op
        /\ FieldsIn \notin {ParamsIn, Sampler(d), Sampled(d), TokensOut}
    BY <1>4, OpsAre, OpsDiffer
  <1>8. /\ stream' \in Seq(Op) /\ n \in Nat /\ Len(stream') + 1 = next /\ next \in Nat \ {0}
        /\ i \in 1 .. Len(stream) + 1
        /\ i \in Nat \ {0} /\ j \in Nat \ {0} /\ k \in Nat \ {0} /\ l \in Nat \ {0}
        /\ stream'[i] = ParamsIn /\ stream'[j] = Sampler(d)
        /\ stream'[k] = Sampled(d) /\ stream'[l] = TokensOut
        /\ \A o : Waiting(o)' <=> Waiting(o) \/ o \in {ParamsIn, Sampler(d), Sampled(d), TokensOut}
        /\ EventBehind'
        /\ (\A e \in Nat :
              /\ Fed(ParamsIn, i, e)'
              /\ Fed(Sampler(d), j, e)'
              /\ Fed(Sampled(d), k, e)'
              /\ Fed(TokensOut, l, e)') => KernelsFed'
    <2>1. PICK a, b, c, o : a = ParamsIn /\ b = Sampler(d) /\ c = Sampled(d) /\ o = TokensOut
      OBVIOUS
    <2>2. /\ a \in Op /\ b \in Op /\ c \in Op /\ o \in Op /\ Enqueue(<<a, b, c, o>>)
          /\ FieldsIn \notin {a, b, c, o}
      BY <1>5, <1>7, <2>1
    <2>3. AppendedFour(n, a, b, c, o, i, j, k, l, next)
      BY <1>1, <1>3, <1>4, <1>5, <1>9, <2>2, AppendFour
    <2> QED
      BY <2>1, <2>2, <2>3 DEF AppendedFour
  <1>10. ParamsAt(j, d)'
    <2>1. j = i + 1
      BY <1>3, <1>8
    <2>2. Comes(ParamsIn, j)'
      BY <1>8, <2>1, ComesNext
    <2> QED
      BY <1>6, <2>2 DEF ParamsAt
  <1>11. KernelsFed'
    BY <1>8, <1>10, OpKinds, NoKernel, SamplerFed
  <1>12. TypeInv'
    BY <1>4, <1>5, <1>6, <1>8 DEF TypeInv
  <1>13. ReplaysWait' /\ FillsWait' /\ SamplersWait'
    BY <1>5 DEF ReplaysWait, FillsWait, SamplersWait, Waits
  <1>14. Progress'
    BY <1>5 DEF Progress
  <1> QED
    BY <1>8, <1>11, <1>12, <1>13, <1>14 DEF InputsInv

\* The event is reached: the copies of the pool have run.
LEMMA BuildStep ==
  ASSUME InputsInv, Build
  PROVE  InputsInv'
  <1>1. PICK n : n = Len(stream)
    OBVIOUS
  <1>2. PICK d : d = call
    OBVIOUS
  <1>3. PICK i, j, next : i = n + 1 /\ j = n + 2 /\ next = n + 3
    OBVIOUS
  <1>4. TypeInv /\ KernelsFed /\ EventBehind /\ d \in Nat
    BY <1>2 DEF InputsInv, TypeInv
  <1>5. /\ Enqueue(<<FieldsIn, Event>>) /\ device' = device
        /\ UNCHANGED <<call, plan, failed>>
        /\ pc = "build" /\ pc' = "forward"
    BY <1>2 DEF Build, FieldsIn
  <1>6. /\ host'["fields"] = d /\ host'["csr"] = d /\ host'["params"] = host["params"]
        /\ host' \in [HostBuffer -> Nat]
    BY <1>2 DEF Build, InputsInv, TypeInv, HostBuffer
  <1>9. ~Waiting(FieldsIn)
    BY NoCopiesLeft DEF InputsInv, Build, WaitForPreviousCopies
  <1>10. /\ \A c \in Nat : ~Waiting(Replay(c)) /\ ~Waiting(Sampler(c))
         /\ ~failed => \A o \in FillsReplay : ~Waiting(o)
    BY <1>5 DEF InputsInv, ReplaysWait, SamplersWait, FillsWait, Waits
  <1>11. Spared
    BY <1>6, <1>9, <1>10 DEF Spared
  <1>7. FieldsIn \in Op /\ Event \in Op
    BY <1>4, OpsAre, OpsDiffer
  <1>8. /\ stream' \in Seq(Op) /\ n \in Nat /\ Len(stream') + 1 = next /\ next \in Nat \ {0}
        /\ i \in 1 .. Len(stream) + 1 /\ i \in Nat \ {0} /\ j \in Nat \ {0}
        /\ stream'[i] = FieldsIn /\ stream'[j] = Event
        /\ \A o : Waiting(o)' <=> Waiting(o) \/ o \in {FieldsIn, Event}
        /\ (\A e \in Nat :
              /\ Fed(FieldsIn, i, e)'
              /\ Fed(Event, j, e)') => KernelsFed'
    BY <1>1, <1>3, <1>4, <1>5, <1>7, <1>11, AppendTwo
  <1>12. KernelsFed'
    BY <1>8, OpKinds, NoKernel
  <1>13. TypeInv'
    BY <1>4, <1>5, <1>6, <1>8 DEF TypeInv
  <1>14. EventBehind'
    <2> SUFFICES ASSUME NEW m \in DOMAIN stream', stream'[m] = FieldsIn
                 PROVE  \E o \in DOMAIN stream' : o > m /\ stream'[o] = Event
      BY DEF EventBehind
    <2>1. 1 .. Len(stream') = 1 .. Len(stream) \cup {i, j} /\ j \in DOMAIN stream' /\ j > i
      BY <1>1, <1>3, <1>8
    <2>2. m # j
      BY <1>8, OpsDiffer
    <2>3. m \notin 1 .. Len(stream)
      <3>1. ASSUME m \in 1 .. Len(stream) PROVE FALSE
        <4>1. <<FieldsIn, Event>> \in Seq(Op) /\ stream \in Seq(Op)
          BY <1>4, <1>7 DEF TypeInv
        <4>2. stream[m] = FieldsIn
          BY <1>5, <3>1, <4>1, Appended
        <4> QED
          BY <1>9, <3>1, <4>2 DEF Waiting
      <3> QED
        BY <3>1
    <2>4. m \in 1 .. Len(stream')
      BY <1>8
    <2>5. m = i
      BY <2>1, <2>2, <2>3, <2>4
    <2> QED
      BY <1>8, <2>1, <2>5
  <1>15. ReplaysWait' /\ SamplersWait'
    <2>1. \A c : Replay(c) \notin {FieldsIn, Event} /\ Sampler(c) \notin {FieldsIn, Event}
      BY KernelsApart
    <2> QED
      BY <1>8, <1>10, <2>1 DEF ReplaysWait, SamplersWait
  <1>16. FillsWait'
    BY <1>5, <1>8, <1>10, OpsDiffer DEF FillsWait
  <1>17. FieldsAt(next, d)'
    <2>1. Comes(FieldsIn, next)'
      <3>1. i \in 1 .. next - 1
        BY <1>1, <1>3, <1>8
      <3> QED
        BY <1>8, <3>1 DEF Comes
    <2> QED
      BY <1>6, <2>1 DEF FieldsAt
  <1>18. Progress'
    BY <1>2, <1>5, <1>6, <1>8, <1>17 DEF Progress
  <1> QED
    BY <1>12, <1>13, <1>14, <1>15, <1>16, <1>18 DEF InputsInv

-----------------------------------------------------------------------------
(* Type correctness, and the tokens: for batches of any kind.              *)

LEMMA InitTypes == Init => TypeInv
  <1> SUFFICES ASSUME Init PROVE TypeInv
    OBVIOUS
  <1>1. stream \in Seq(Op)
    BY DEF Init, StreamInit
  <1>2. host \in [HostBuffer -> Nat] /\ device \in [DeviceBuffer -> Nat]
    BY DEF Init, StreamInit
  <1> QED
    BY <1>1, <1>2 DEF Init, TypeInv

LEMMA EnqueueTypes ==
  ASSUME stream \in Seq(Op), NEW ops \in Seq(Op), Enqueue(ops)
  PROVE  stream' \in Seq(Op)
  BY DEF Enqueue

LEMMA TypeStep == ASSUME TypeInv, [Next]_vars PROVE TypeInv'
  <1>1. PICK d : d = call
    OBVIOUS
  <1>2. /\ stream \in Seq(Op) /\ d \in Nat /\ d + 1 \in Nat
        /\ host \in [HostBuffer -> Nat] /\ device \in [DeviceBuffer -> Nat]
        /\ plan \in Plans /\ failed \in BOOLEAN
    BY <1>1 DEF TypeInv
  <1>3. /\ FieldsIn \in Op /\ CsrIn \in Op /\ PoolCsr \in Op /\ GraphIn \in Op /\ GraphCsr \in Op
        /\ ParamsIn \in Op /\ MoveIn \in Op /\ TokensOut \in Op /\ Event \in Op
        /\ Sampled(d) \in Op /\ Layers(d) \in Op /\ Replay(d) \in Op /\ Sampler(d) \in Op
    BY <1>2, OpsAre
  <1>4. CASE \/ \E p \in Plans : Execute(p)
             \/ SampleNothing \/ Synchronize \/ Answer
             \/ UNCHANGED vars
    BY <1>4 DEF TypeInv, Execute, SampleNothing, Synchronize, Answer, vars, streamVars
  <1>5. CASE PackPlan
    <2>1. stream' \in Seq(Op)
      <3>1. Enqueue(<<GraphIn>>)
        BY <1>5 DEF PackPlan, GraphIn
      <3>2. <<GraphIn>> \in Seq(Op)
        BY <1>3
      <3> QED
        BY <1>2, <3>1, <3>2, EnqueueTypes
    <2>2. host' \in [HostBuffer -> Nat]
      BY <1>1, <1>2, <1>5 DEF PackPlan
    <2> QED
      BY <1>5, <2>1, <2>2 DEF PackPlan, TypeInv
  <1>6. CASE PackPlanDeclines
    <2>1. host' \in [HostBuffer -> Nat]
      BY <1>1, <1>2, <1>6 DEF PackPlanDeclines
    <2> QED
      BY <1>6, <2>1 DEF PackPlanDeclines, TypeInv
  <1>7. CASE ReplayPlan
    <2>1. stream' \in Seq(Op)
      <3>1. Enqueue(<<GraphCsr, Replay(d)>>)
        BY <1>1, <1>7 DEF ReplayPlan, GraphCsr, Replay
      <3>2. <<GraphCsr, Replay(d)>> \in Seq(Op)
        BY <1>3
      <3> QED
        BY <1>2, <3>1, <3>2, EnqueueTypes
    <2> QED
      BY <1>7, <2>1 DEF ReplayPlan, TypeInv
  <1>8. CASE ReplayFails
    <2>1. stream' \in Seq(Op)
      <3>1. PICK ops \in {<<>>, <<GraphCsr>>} : Enqueue(ops)
        BY <1>8 DEF ReplayFails, GraphCsr
      <3>2. <<>> \in Seq(Op) /\ <<GraphCsr>> \in Seq(Op)
        BY <1>3
      <3> QED
        BY <1>2, <3>1, <3>2, EnqueueTypes
    <2> QED
      BY <1>8, <2>1 DEF ReplayFails, TypeInv
  <1>9. CASE Build
    <2>1. stream' \in Seq(Op)
      <3>1. Enqueue(<<FieldsIn, Event>>)
        BY <1>9 DEF Build, FieldsIn
      <3>2. <<FieldsIn, Event>> \in Seq(Op)
        BY <1>3
      <3> QED
        BY <1>2, <3>1, <3>2, EnqueueTypes
    <2>2. host' \in [HostBuffer -> Nat]
      BY <1>1, <1>2, <1>9 DEF Build
    <2> QED
      BY <1>9, <2>1, <2>2 DEF Build, TypeInv
  <1>10. CASE Forward
    <2>1. stream' \in Seq(Op)
      <3>1. Enqueue(<<CsrIn, Layers(d)>>)
        BY <1>1, <1>10 DEF Forward, CsrIn, Layers
      <3>2. <<CsrIn, Layers(d)>> \in Seq(Op)
        BY <1>3
      <3> QED
        BY <1>2, <3>1, <3>2, EnqueueTypes
    <2> QED
      BY <1>10, <2>1 DEF Forward, TypeInv
  <1>11. CASE ReplayInput
    <2>1. stream' \in Seq(Op)
      <3>1. Enqueue(<<MoveIn, PoolCsr, Replay(d)>>)
        BY <1>1, <1>11 DEF ReplayInput, MoveIn, PoolCsr, Replay
      <3>2. <<MoveIn, PoolCsr, Replay(d)>> \in Seq(Op)
        BY <1>3
      <3> QED
        BY <1>2, <3>1, <3>2, EnqueueTypes
    <2> QED
      BY <1>11, <2>1 DEF ReplayInput, TypeInv
  <1>12. CASE ReplayInputFails
    <2>1. stream' \in Seq(Op)
      <3>1. PICK ops \in {<<MoveIn>>, <<MoveIn, PoolCsr>>} : Enqueue(ops)
        BY <1>12 DEF ReplayInputFails, MoveIn, PoolCsr
      <3>2. <<MoveIn>> \in Seq(Op) /\ <<MoveIn, PoolCsr>> \in Seq(Op)
        BY <1>3
      <3> QED
        BY <1>2, <3>1, <3>2, EnqueueTypes
    <2> QED
      BY <1>12, <2>1 DEF ReplayInputFails, TypeInv
  <1>13. CASE ForwardRaises
    <2>1. stream' \in Seq(Op)
      <3>1. PICK ops \in {<<>>, <<CsrIn>>} : Enqueue(ops)
        BY <1>13 DEF ForwardRaises, CsrIn
      <3>2. <<>> \in Seq(Op) /\ <<CsrIn>> \in Seq(Op)
        BY <1>3
      <3> QED
        BY <1>2, <3>1, <3>2, EnqueueTypes
    <2> QED
      BY <1>13, <2>1 DEF ForwardRaises, TypeInv
  <1>14. CASE SampleGreedy
    <2>1. stream' \in Seq(Op)
      <3>1. Enqueue(<<Sampled(d), TokensOut>>)
        BY <1>1, <1>14 DEF SampleGreedy, Sampled, TokensOut
      <3>2. <<Sampled(d), TokensOut>> \in Seq(Op)
        BY <1>3
      <3> QED
        BY <1>2, <3>1, <3>2, EnqueueTypes
    <2> QED
      BY <1>14, <2>1 DEF SampleGreedy, TypeInv
  <1>15. CASE SampleWithParams
    <2>1. stream' \in Seq(Op)
      <3>1. Enqueue(<<ParamsIn, Sampler(d), Sampled(d), TokensOut>>)
        BY <1>1, <1>15 DEF SampleWithParams, ParamsIn, Sampler, Sampled, TokensOut
      <3>2. <<ParamsIn, Sampler(d), Sampled(d), TokensOut>> \in Seq(Op)
        BY <1>3
      <3> QED
        BY <1>2, <3>1, <3>2, EnqueueTypes
    <2>2. host' \in [HostBuffer -> Nat]
      BY <1>1, <1>2, <1>15 DEF SampleWithParams
    <2> QED
      BY <1>15, <2>1, <2>2 DEF SampleWithParams, TypeInv
  <1>16. CASE StreamRuns /\ UNCHANGED <<call, plan, failed, pc>>
    BY <1>2, <1>16, HeadRuns, Shifted DEF TypeInv
  <1> QED
    BY <1>4, <1>5, <1>6, <1>7, <1>8, <1>9, <1>10, <1>11, <1>12, <1>13, <1>14, <1>15, <1>16 DEF Next

\* Behind what it waits for, the host enqueues its tokens last.
LEMMA TokensLast ==
  ASSUME stream \in Seq(Op), NEW ops \in Seq(Op), Enqueue(ops), NEW c, c = call, call' = call,
         NEW m \in Nat, NEW l \in Nat \ {0}, m = l + 1, Len(ops) = m,
         ops[m] = TokensOut, ops[l] = Sampled(c),
         pc' # "answer"
  PROVE  TokensInv'
  <1>1. /\ Len(stream) \in Nat /\ Len(stream') = Len(stream) + m
        /\ \A x \in 1 .. m : stream'[Len(stream) + x] = ops[x]
    BY Appended
  <1>2. stream'[Len(stream')] = TokensOut /\ stream'[Len(stream') - 1] = Sampled(c)
    <2>1. Len(stream') - 1 = Len(stream) + l /\ m \in 1 .. m /\ l \in 1 .. m
      BY <1>1
    <2> QED
      BY <1>1, <2>1
  <1>3. stream' # <<>> /\ Len(stream') # 1
    BY <1>1
  <1>4. Sampled(call)' = Sampled(c)
    OBVIOUS
  <1> QED
    BY <1>2, <1>3, <1>4 DEF TokensInv

LEMMA TokensStep == ASSUME TypeInv, TokensInv, [Next]_vars PROVE TokensInv'
  <1>1. PICK d : d = call
    OBVIOUS
  <1>2. /\ stream \in Seq(Op) /\ d \in Nat
        /\ Sampled(d) \in Op /\ Sampler(d) \in Op /\ ParamsIn \in Op /\ TokensOut \in Op
    BY <1>1, OpsAre DEF TypeInv
  <1>3. CASE SampleGreedy
    <2>1. PICK ops : ops = <<Sampled(d), TokensOut>>
      OBVIOUS
    <2>2. /\ ops \in Seq(Op) /\ Len(ops) = 2
          /\ ops[2] = TokensOut /\ ops[1] = Sampled(d)
      BY <1>2, <2>1
    <2>4. PICK m, l : m = 2 /\ l = 1
      OBVIOUS
    <2>5. m \in Nat /\ l \in Nat \ {0} /\ m = l + 1
      BY <2>4
    <2>6. Len(ops) = m /\ ops[m] = TokensOut /\ ops[l] = Sampled(d)
      BY <2>2, <2>4
    <2>3. Enqueue(ops) /\ call' = call /\ pc' # "answer"
      BY <1>1, <1>3, <2>1 DEF SampleGreedy, Sampled, TokensOut
    <2> QED
      BY <1>1, <1>2, <2>2, <2>3, <2>5, <2>6, TokensLast
  <1>4. CASE SampleWithParams
    <2>1. PICK ops : ops = <<ParamsIn, Sampler(d), Sampled(d), TokensOut>>
      OBVIOUS
    <2>2. /\ ops \in Seq(Op) /\ Len(ops) = 4
          /\ ops[4] = TokensOut /\ ops[3] = Sampled(d)
      BY <1>2, <2>1
    <2>4. PICK m, l : m = 4 /\ l = 3
      OBVIOUS
    <2>5. m \in Nat /\ l \in Nat \ {0} /\ m = l + 1
      BY <2>4
    <2>6. Len(ops) = m /\ ops[m] = TokensOut /\ ops[l] = Sampled(d)
      BY <2>2, <2>4
    <2>3. Enqueue(ops) /\ call' = call /\ pc' # "answer"
      BY <1>1, <1>4, <2>1 DEF SampleWithParams, ParamsIn, Sampler, Sampled, TokensOut
    <2> QED
      BY <1>1, <1>2, <2>2, <2>3, <2>5, <2>6, TokensLast
  <1>5. CASE Synchronize
    BY <1>5 DEF Synchronize, Synchronized, StreamIdle, TokensInv, streamVars
  <1>6. CASE UNCHANGED vars
    BY <1>6 DEF vars, streamVars, TokensInv, Sampled, Fill
  <1>7. CASE StreamRuns /\ UNCHANGED <<call, plan, failed, pc>>
    <2>1. /\ Len(stream) \in Nat /\ Len(stream) > 0 /\ Len(stream') = Len(stream) - 1
          /\ stream[1] = Head(stream) /\ stream # <<>> /\ stream' \in Seq(Op)
          /\ \A k \in 1 .. Len(stream') : stream'[k] = stream[k + 1]
      BY <1>2, <1>7, Shifted DEF StreamRuns
    <2>2. pc # "answer" /\ pc' = pc
      BY <1>7, <2>1 DEF TokensInv
    <2> SUFFICES ASSUME pc = "synchronize" PROVE TokensInv'
      BY <2>2 DEF TokensInv
    <2>3. /\ stream[Len(stream)] = TokensOut
          /\ Len(stream) = 1 => device["tokens"] = d
          /\ Len(stream) # 1 => stream[Len(stream) - 1] = Sampled(d)
      BY <1>1, <2>1 DEF TokensInv
    <2>4. Sampled(call)' = Sampled(d) /\ call' = d
      BY <1>1, <1>7 DEF Sampled, Fill
    <2>5. CASE Len(stream) = 1
      <3>1. host'["tokens"] = d
        BY <1>7, <2>1, <2>3, <2>5, HeadRuns
      <3>2. stream' = <<>>
        BY <2>1, <2>5
      <3> QED
        BY <2>2, <2>4, <3>1, <3>2 DEF TokensInv
    <2>6. CASE Len(stream) = 2
      <3>1. Head(stream) = Sampled(d)
        BY <2>1, <2>3, <2>6
      <3>2. device'["tokens"] = d
        BY <1>2, <1>7, <3>1, HeadRuns
      <3>3. Len(stream') = 1 /\ stream' # <<>> /\ 1 \in 1 .. Len(stream')
        BY <2>1, <2>6
      <3>4. stream'[1] = TokensOut
        <4>1. stream'[1] = stream[1 + 1]
          BY <2>1, <3>3
        <4>2. 1 + 1 = Len(stream)
          BY <2>6
        <4> QED
          BY <2>3, <4>1, <4>2
      <3> QED
        BY <2>2, <2>4, <3>2, <3>3, <3>4 DEF TokensInv
    <2>7. CASE Len(stream) > 2
      <3>1. /\ Len(stream') # 1 /\ stream' # <<>>
            /\ Len(stream') \in 1 .. Len(stream') /\ Len(stream') - 1 \in 1 .. Len(stream')
            /\ Len(stream') + 1 = Len(stream) /\ (Len(stream') - 1) + 1 = Len(stream) - 1
        BY <2>1, <2>7
      <3>2. stream'[Len(stream')] = TokensOut /\ stream'[Len(stream') - 1] = Sampled(d)
        <4>1. stream'[Len(stream')] = stream[Len(stream') + 1]
          BY <2>1, <3>1
        <4>2. stream'[Len(stream') - 1] = stream[(Len(stream') - 1) + 1]
          BY <2>1, <3>1
        <4> QED
          BY <2>3, <2>7, <3>1, <4>1, <4>2
      <3> QED
        BY <2>2, <2>4, <3>1, <3>2 DEF TokensInv
    <2> QED
      BY <2>1, <2>5, <2>6, <2>7
  <1>8. CASE \/ \E p \in Plans : Execute(p)
             \/ PackPlan \/ PackPlanDeclines \/ ReplayPlan \/ ReplayFails
             \/ Build \/ Forward \/ ReplayInput \/ ReplayInputFails \/ ForwardRaises
             \/ SampleNothing \/ Answer
    <2>1. pc' \notin {"synchronize", "answer"}
      BY <1>8 DEF Execute, PackPlan, PackPlanDeclines, ReplayPlan, ReplayFails, Build, Forward,
                  ReplayInput, ReplayInputFails, ForwardRaises, SampleNothing, Answer
    <2> QED
      BY <2>1 DEF TokensInv
  <1> QED
    BY <1>3, <1>4, <1>5, <1>6, <1>7, <1>8 DEF Next

(***************************************************************************)
(* execute answers with the tokens of the call, whatever the batches and   *)
(* however often it fell back or failed: the host waits for the stream     *)
(* between the copy and the answer.                                        *)
(***************************************************************************)
THEOREM AnswersAreOfTheirCall == Spec => []AnswerOfTheCall
  <1>1. Init => TypeInv /\ TokensInv
    BY InitTypes DEF Init, TokensInv
  <1>2. TypeInv /\ TokensInv /\ [Next]_vars => TypeInv' /\ TokensInv'
    BY TypeStep, TokensStep
  <1>3. TokensInv => AnswerOfTheCall
    BY DEF TokensInv, AnswerOfTheCall
  <1> QED
    BY <1>1, <1>2, <1>3, PTL DEF Spec

-----------------------------------------------------------------------------
(* The inputs of the kernels.                                              *)

LEMMA InitInputs == Init => InputsInv
  <1> SUFFICES ASSUME Init PROVE InputsInv
    OBVIOUS
  <1>1. TypeInv
    BY InitTypes
  <1>2. stream = <<>> /\ pc = "idle"
    BY DEF Init, StreamInit
  <1>3. DOMAIN stream = {}
    BY <1>2
  <1> QED
    BY <1>1, <1>2, <1>3
       DEF InputsInv, EventBehind, KernelsFed, ReplaysWait, FillsWait, SamplersWait, Progress,
           Waiting

LEMMA InputsStep ==
  ASSUME InputsInv, SampledReplays, [Next]_vars
  PROVE  InputsInv'
  <1>1. CASE \/ \E p \in Plans : Execute(p)
             \/ SampleNothing \/ Synchronize \/ Answer
             \/ UNCHANGED vars
    BY <1>1, QuietSteps
  <1>2. CASE PackPlan
    BY <1>2, PackPlanStep
  <1>3. CASE PackPlanDeclines
    BY <1>3, PackPlanDeclinesStep
  <1>4. CASE ReplayPlan
    BY <1>4, ReplayPlanStep
  <1>5. CASE ReplayFails
    BY <1>5, ReplayFailsStep
  <1>6. CASE Build
    BY <1>6, BuildStep
  <1>7. CASE Forward
    BY <1>7, ForwardStep
  <1>8. CASE ReplayInput
    BY <1>8, ReplayInputStep
  <1>9. CASE ReplayInputFails
    BY <1>9, ReplayInputFailsStep
  <1>10. CASE ForwardRaises
    BY <1>10, ForwardRaisesStep
  <1>11. CASE SampleGreedy
    BY <1>11, SampleGreedyStep
  <1>12. CASE SampleWithParams
    BY <1>12, SampleWithParamsStep
  <1>13. CASE StreamRuns /\ UNCHANGED <<call, plan, failed, pc>>
    BY <1>13, StreamStep
  <1> QED
    BY <1>1, <1>2, <1>3, <1>4, <1>5, <1>6, <1>7, <1>8, <1>9, <1>10, <1>11, <1>12, <1>13 DEF Next

LEMMA InputsFollow ==
  ASSUME InputsInv
  PROVE  InputsOfTheCall
  <1> SUFFICES ASSUME stream # <<>>, Head(stream).op = "kernel",
                      NEW b \in Head(stream).reads, b # "csr"
               PROVE  device[b] = Head(stream).call
    BY DEF InputsOfTheCall, ReadsItsCall
  <1>1. PICK o : o = Head(stream)
    OBVIOUS
  <1>2. o \in Op /\ 1 \in DOMAIN stream /\ stream[1] = o
    BY <1>1 DEF InputsInv, TypeInv
  <1>3. PICK c \in Nat : o \in {Layers(c), Replay(c), Sampler(c)}
    <2>1. /\ FieldsIn.op # "kernel" /\ CsrIn.op # "kernel" /\ PoolCsr.op # "kernel"
          /\ GraphIn.op # "kernel" /\ GraphCsr.op # "kernel" /\ ParamsIn.op # "kernel"
          /\ MoveIn.op # "kernel" /\ TokensOut.op # "kernel" /\ Event.op # "kernel"
      BY OpKinds
    <2>2. o.op = "kernel" /\ o.op # "fill"
      BY <1>1
    <2> QED
      BY <1>2, <2>1, <2>2, OpCases
  <1>4. Fed(o, 1, c)
    BY <1>2 DEF InputsInv, KernelsFed
  <1>5. \A x : ~Comes(x, 1)
    BY DEF Comes
  <1>6. CASE o = Layers(c)
    <2>1. o.call = c /\ b \in {"fields", "csr"}
      <3>1. Layers(c).call = c /\ Layers(c).reads = {"fields", "csr"}
        BY LayersFields
      <3> QED
        BY <1>1, <1>6, <3>1
    <2>2. FieldsAt(1, c)
      BY <1>4, <1>6 DEF Fed
    <2>3. device["fields"] = c
      BY <1>5, <2>2 DEF FieldsAt
    <2> QED
      BY <1>1, <2>1, <2>3
  <1>7. CASE o = Replay(c)
    <2>1. o.call = c /\ b \in {"graph input", "decode csr"}
      <3>1. Replay(c).call = c /\ Replay(c).reads = {"graph input", "decode csr"}
        BY ReplayFields
      <3> QED
        BY <1>1, <1>7, <3>1
    <2>2. GraphInputAt(1, c) /\ DecodeCsrAt(1, c)
      BY <1>4, <1>7 DEF Fed
    <2>3. device["graph input"] = c /\ device["decode csr"] = c
      BY <1>5, <2>2 DEF GraphInputAt, DecodeCsrAt
    <2> QED
      BY <1>1, <2>1, <2>3
  <1>8. CASE o = Sampler(c)
    <2>1. o.call = c /\ b = "params"
      <3>1. Sampler(c).call = c /\ Sampler(c).reads = {"params"}
        BY SamplerFields
      <3> QED
        BY <1>1, <1>8, <3>1
    <2>2. ParamsAt(1, c)
      BY <1>4, <1>8 DEF Fed
    <2> QED
      BY <1>1, <1>5, <2>1, <2>2 DEF ParamsAt
  <1> QED
    BY <1>3, <1>6, <1>7, <1>8

(***************************************************************************)
(* InputsInv is inductive when batches for the decode graph sample.        *)
(***************************************************************************)
THEOREM InputsInvariant == SampledReplays => (Spec => []InputsInv)
  <1> SUFFICES ASSUME SampledReplays PROVE Spec => []InputsInv
    OBVIOUS
  <1>1. InputsInv /\ [Next]_vars => InputsInv'
    BY InputsStep
  <1> QED
    BY <1>1, InitInputs, PTL DEF Spec

(***************************************************************************)
(* Every kernel, of any number of calls, reads the inputs of its own call  *)
(* (ModelInputPool.build, DecodeCudaGraph.try_replay_plan and try_replay,  *)
(* the sampler), when batches for the decode graph sample.                 *)
(***************************************************************************)
THEOREM InputsAreOfTheirCall == SampledReplays => (Spec => []InputsOfTheCall)
  BY InputsInvariant, InputsFollow, PTL
==============================================================================
