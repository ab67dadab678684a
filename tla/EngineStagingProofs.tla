------------------------- MODULE EngineStagingProofs -------------------------
(***************************************************************************)
(* PassReadsItsCall for any number of forward passes.                      *)
(*                                                                         *)
(* The fence is the last operation of a pass, so a host that has waited    *)
(* for it finds the stream empty: at any time the stream is what is left   *)
(* of the operations of one pass, and the lists in the pinned staging are  *)
(* that pass's own until its kernel has run.                               *)
(***************************************************************************)
EXTENDS EngineStaging, SequenceTheorems, TLAPS

F == Fill(call, <<"fields", track>>)

\* What is left of the operations of a pass, when its input is made, when a
\* replay has failed, and when all is enqueued.
Made    == {<<F>>, <<>>}
Retried == {<<F, Plan>>, <<Plan>>, <<>>}
Whole   == {<<F, Plan, Pass, Event>>, <<F, Plan, Plan, Pass, Event>>,
            <<Plan, Pass, Event>>, <<Plan, Plan, Pass, Event>>,
            <<Pass, Event>>, <<Event>>, <<>>}

Shape ==
  /\ pc = "forward"        => stream \in Made
  /\ pc = "eager"          => stream \in Retried
  /\ pc \in {"idle", "read"} => stream \in Whole

\* The lists are of this call; the fields and the lists on the device are,
\* unless they are still to be written.
Written ==
  /\ host[<<"csr", track>>] = call
  /\ device[<<"fields", track>>] = call \/ (stream # <<>> /\ Head(stream) = F)
  /\ device[<<"csr", track>>] = call \/ stream = <<>> \/ Head(stream) # Pass

TypeInv ==
  /\ call \in Nat
  /\ track \in Track
  /\ pc \in {"idle", "forward", "eager", "read"}
  /\ host \in [HostBuffer -> Nat]
  /\ device \in [DeviceBuffer -> Nat]

StagingInv == TypeInv /\ Shape /\ Written

-----------------------------------------------------------------------------
LEMMA EventIsIn ==
  ASSUME NEW a, NEW b, NEW c, NEW d,
         stream \in {<<a, b, c, d, Event>>, <<a, b, c, Event>>, <<a, b, Event>>, <<a, Event>>,
                    <<Event>>}
  PROVE  ~EventReached
<1>1. Event.op = "event"
  BY DEF Event
<1>2. ASSUME NEW i \in DOMAIN stream, stream[i] = Event PROVE ~EventReached
  BY <1>1, <1>2 DEF EventReached
<1>3. 5 \in DOMAIN <<a, b, c, d, Event>> /\ <<a, b, c, d, Event>>[5] = Event
  OBVIOUS
<1>4. 4 \in DOMAIN <<a, b, c, Event>> /\ <<a, b, c, Event>>[4] = Event
  OBVIOUS
<1>5. 3 \in DOMAIN <<a, b, Event>> /\ <<a, b, Event>>[3] = Event
  OBVIOUS
<1>6. 2 \in DOMAIN <<a, Event>> /\ <<a, Event>>[2] = Event
  OBVIOUS
<1>7. 1 \in DOMAIN <<Event>> /\ <<Event>>[1] = Event
  OBVIOUS
<1> QED
  BY <1>2, <1>3, <1>4, <1>5, <1>6, <1>7

LEMMA Tails ==
  ASSUME NEW a, NEW b, NEW c, NEW d, NEW e
  PROVE  /\ Tail(<<a, b, c, d, e>>) = <<b, c, d, e>> /\ Head(<<a, b, c, d, e>>) = a
         /\ Tail(<<a, b, c, d>>) = <<b, c, d>> /\ Head(<<a, b, c, d>>) = a
         /\ Tail(<<a, b, c>>) = <<b, c>> /\ Head(<<a, b, c>>) = a
         /\ Tail(<<a, b>>) = <<b>> /\ Head(<<a, b>>) = a
         /\ Tail(<<a>>) = <<>> /\ Head(<<a>>) = a
<1>1. Tail(<<a, b, c, d, e>>) = <<b, c, d, e>> /\ Head(<<a, b, c, d, e>>) = a
  OBVIOUS
<1>2. Tail(<<a, b, c, d>>) = <<b, c, d>> /\ Head(<<a, b, c, d>>) = a
  OBVIOUS
<1>3. Tail(<<a, b, c>>) = <<b, c>> /\ Head(<<a, b, c>>) = a
  OBVIOUS
<1>4. Tail(<<a, b>>) = <<b>> /\ Head(<<a, b>>) = a
  OBVIOUS
<1>5. Tail(<<a>>) = <<>> /\ Head(<<a>>) = a
  OBVIOUS
<1> QED
  BY <1>1, <1>2, <1>3, <1>4, <1>5

LEMMA JoinToNone ==
  ASSUME NEW p, NEW q, NEW r
  PROVE  <<>> \o <<p>> = <<p>> /\ <<>> \o <<p, q, r>> = <<p, q, r>>
<1> DEFINE S == {p, q, r}
<1>1. <<p>> \in Seq(S) /\ <<p, q, r>> \in Seq(S)
  OBVIOUS
<1> QED
  BY <1>1, ConcatEmptySeq

LEMMA AppendToOne == ASSUME NEW a, NEW p PROVE <<a>> \o <<p>> = <<a, p>>
<1> DEFINE S == {a, p}
<1>1. <<a>> \in Seq(S) /\ <<p>> \in Seq(S) /\ <<a, p>> \in Seq(S)
  OBVIOUS
<1>2. <<a>> \o <<p>> \in Seq(S) /\ Len(<<a>> \o <<p>>) = 2
      /\ \A i \in 1 .. 2 : (<<a>> \o <<p>>)[i] = <<a, p>>[i]
  BY <1>1, ConcatProperties
<1> HIDE DEF S
<1> QED
  BY <1>1, <1>2, SeqEqual

LEMMA JoinToOne == ASSUME NEW a, NEW p, NEW q, NEW r PROVE <<a>> \o <<p, q, r>> = <<a, p, q, r>>
<1> DEFINE S == {a, p, q, r}
<1>1. <<a>> \in Seq(S) /\ <<p, q, r>> \in Seq(S) /\ <<a, p, q, r>> \in Seq(S)
  OBVIOUS
<1>2. <<a>> \o <<p, q, r>> \in Seq(S) /\ Len(<<a>> \o <<p, q, r>>) = 4
      /\ \A i \in 1 .. 4 : (<<a>> \o <<p, q, r>>)[i] = <<a, p, q, r>>[i]
  BY <1>1, ConcatProperties
<1> HIDE DEF S
<1> QED
  BY <1>1, <1>2, SeqEqual

LEMMA JoinToTwo == ASSUME NEW a, NEW b, NEW p, NEW q, NEW r PROVE <<a, b>> \o <<p, q, r>> = <<a, b, p, q, r>>
<1> DEFINE S == {a, b, p, q, r}
<1>1. <<a, b>> \in Seq(S) /\ <<p, q, r>> \in Seq(S) /\ <<a, b, p, q, r>> \in Seq(S)
  OBVIOUS
<1>2. <<a, b>> \o <<p, q, r>> \in Seq(S) /\ Len(<<a, b>> \o <<p, q, r>>) = 5
      /\ \A i \in 1 .. 5 : (<<a, b>> \o <<p, q, r>>)[i] = <<a, b, p, q, r>>[i]
  BY <1>1, ConcatProperties
<1> HIDE DEF S
<1> QED
  BY <1>1, <1>2, SeqEqual

LEMMA OpsDiffer == F.op = "fill" /\ Plan.op = "copy in" /\ Pass.op = "kernel" /\ Event.op = "event"
  BY DEF F, Fill, Plan, CopyIn, Pass, Kernel, Event

LEMMA InitInv == Init => StagingInv
  BY DEF Init, StreamInit, StagingInv, TypeInv, Shape, Written, Whole, HostBuffer, DeviceBuffer, Track

LEMMA MakeInputInv == ASSUME StagingInv, NEW t \in Track, MakeInput(t) PROVE StagingInv'
<1>1. stream = <<>>
  BY EventIsIn DEF StagingInv, Shape, MakeInput, Whole
<1>2. stream' = <<F'>>
  <2>1. stream' = <<>> \o <<F'>>
    BY <1>1 DEF MakeInput, Enqueue, F
  <2> QED
    BY <2>1, JoinToNone
<1>3. Head(stream') = F' /\ stream' # <<>>
  BY <1>2
<1>4. F'.op = "fill" /\ Pass'.op = "kernel"
  BY DEF F, Fill, Pass, Kernel
<1>5. TypeInv'
  BY DEF StagingInv, TypeInv, MakeInput, HostBuffer
<1>6. Shape'
  BY <1>2 DEF Shape, Made, MakeInput
<1>7. host'[<<"csr", track'>>] = call'
  BY DEF StagingInv, TypeInv, MakeInput, HostBuffer
<1>8. Head(stream') # Pass'
  BY <1>3, <1>4
<1>9. Written'
  BY <1>3, <1>7, <1>8 DEF Written
<1> QED
  BY <1>5, <1>6, <1>9 DEF StagingInv

LEMMA ReplayFailsInv == ASSUME StagingInv, ReplayFails PROVE StagingInv'
<1>1. stream \in Made /\ stream' = stream \o <<Plan>>
  BY DEF StagingInv, Shape, ReplayFails, Enqueue
<1>2. F' = F /\ Plan' = Plan /\ Pass' = Pass
  BY DEF ReplayFails, F, Plan, Pass
<1>3. TypeInv'
  BY DEF StagingInv, TypeInv, ReplayFails
<1>4. pc' = "eager" /\ UNCHANGED <<host, device, call, track>>
  BY DEF ReplayFails
<1>5. CASE stream = <<F>>
  <2>1. stream' = <<F, Plan>>
    BY <1>1, <1>5, AppendToOne
  <2>2. Head(stream') = F /\ stream' # <<>>
    BY <2>1
  <2>3. Shape'
    BY <1>2, <1>4, <2>1 DEF Shape, Retried
  <2>4. Written'
    BY <1>2, <1>4, <2>2, OpsDiffer DEF Written, StagingInv
  <2> QED
    BY <1>3, <2>3, <2>4 DEF StagingInv
<1>6. CASE stream = <<>>
  <2>1. stream' = <<Plan>>
    BY <1>1, <1>6, JoinToNone
  <2>2. Head(stream') = Plan /\ stream' # <<>>
    BY <2>1
  <2>3. Shape'
    BY <1>2, <1>4, <2>1 DEF Shape, Retried
  <2>4. device[<<"fields", track>>] = call /\ host[<<"csr", track>>] = call
    BY <1>6 DEF Written, StagingInv
  <2>5. Written'
    BY <1>2, <1>4, <2>2, <2>4, OpsDiffer DEF Written
  <2> QED
    BY <1>3, <2>3, <2>5 DEF StagingInv
<1> QED
  BY <1>1, <1>5, <1>6 DEF Made

LEMMA ForwardInv == ASSUME StagingInv, Forward PROVE StagingInv'
<1>1. stream \in Made \cup Retried /\ stream' = stream \o <<Plan, Pass, Event>>
  BY DEF StagingInv, Shape, Forward, Enqueue, Fenced
<1>2. F' = F /\ Plan' = Plan /\ Pass' = Pass
  BY DEF Forward, F, Plan, Pass
<1>3. TypeInv'
  BY DEF StagingInv, TypeInv, Forward
<1>4. pc' = "read" /\ UNCHANGED <<host, device, call, track>>
  BY DEF Forward
<1>5. CASE stream \in {<<F>>, <<F, Plan>>}
  <2>1. stream' \in {<<F, Plan, Pass, Event>>, <<F, Plan, Plan, Pass, Event>>}
    <3>1. <<F>> \o <<Plan, Pass, Event>> = <<F, Plan, Pass, Event>>
      BY JoinToOne, ZenonT(60)
    <3>2. <<F, Plan>> \o <<Plan, Pass, Event>> = <<F, Plan, Plan, Pass, Event>>
      BY JoinToTwo, ZenonT(60)
    <3> QED
      BY <1>1, <1>5, <3>1, <3>2, ZenonT(60)
  <2>2. Head(stream') = F /\ stream' # <<>>
    BY <2>1
  <2>3. Shape'
    BY <1>2, <1>4, <2>1 DEF Shape, Whole
  <2>4. Written'
    BY <1>2, <1>4, <2>2, OpsDiffer DEF Written, StagingInv
  <2> QED
    BY <1>3, <2>3, <2>4 DEF StagingInv
<1>6. CASE stream \in {<<Plan>>, <<>>}
  <2>1. stream' \in {<<Plan, Plan, Pass, Event>>, <<Plan, Pass, Event>>}
    <3>1. <<Plan>> \o <<Plan, Pass, Event>> = <<Plan, Plan, Pass, Event>>
      BY JoinToOne, ZenonT(60)
    <3>2. <<>> \o <<Plan, Pass, Event>> = <<Plan, Pass, Event>>
      BY JoinToNone
    <3> QED
      BY <1>1, <1>6, <3>1, <3>2, ZenonT(60)
  <2>2. Head(stream') = Plan /\ stream' # <<>>
    BY <2>1
  <2>3. Shape'
    BY <1>2, <1>4, <2>1 DEF Shape, Whole
  <2>4. stream = <<>> \/ Head(stream) = Plan
    BY <1>6
  <2>5. device[<<"fields", track>>] = call /\ host[<<"csr", track>>] = call
    BY <2>4, OpsDiffer DEF Written, StagingInv
  <2>6. Written'
    BY <1>2, <1>4, <2>2, <2>5, OpsDiffer DEF Written
  <2> QED
    BY <1>3, <2>3, <2>6 DEF StagingInv
<1> QED
  BY <1>1, <1>5, <1>6 DEF Made, Retried

LEMMA HostGoesOn == ASSUME StagingInv, ReadBack \/ LeaveUnread PROVE StagingInv'
<1>1. F' = F /\ Plan' = Plan /\ Pass' = Pass
  BY DEF ReadBack, LeaveUnread, F, Plan, Pass
<1> QED
  BY <1>1 DEF StagingInv, TypeInv, Shape, Written, Made, Retried, Whole, ReadBack, LeaveUnread, streamVars

LEMMA Heads ==
  ASSUME StagingInv, stream # <<>>
  PROVE  /\ Head(stream) \in {F, Plan, Pass, Event}
         /\ Head(stream) = Event => Tail(stream) = <<>>
<1>1. stream \in Made \cup Retried \cup Whole
  BY DEF StagingInv, Shape, TypeInv
<1>2. CASE stream \in {<<F>>, <<F, Plan>>, <<F, Plan, Pass, Event>>, <<F, Plan, Plan, Pass, Event>>}
  <2>1. Head(stream) = F
    BY <1>2, Tails
  <2> QED
    BY <2>1, OpsDiffer
<1>3. CASE stream \in {<<Plan>>, <<Plan, Pass, Event>>, <<Plan, Plan, Pass, Event>>}
  <2>1. Head(stream) = Plan
    BY <1>3, Tails
  <2> QED
    BY <2>1, OpsDiffer
<1>4. CASE stream = <<Pass, Event>>
  <2>1. Head(stream) = Pass
    BY <1>4, Tails
  <2> QED
    BY <2>1, OpsDiffer
<1>5. CASE stream = <<Event>>
  BY <1>5, Tails
<1> QED
  BY <1>1, <1>2, <1>3, <1>4, <1>5 DEF Made, Retried, Whole

LEMMA StreamRunsShape ==
  ASSUME StagingInv, StreamRuns, UNCHANGED <<call, track, pc>>
  PROVE  Shape' /\ Head(stream) \in {F, Plan, Pass, Event}
                /\ (stream' = <<>> \/ Head(stream') \in {Plan, Pass, Event})
                /\ (Head(stream) = F => stream' = <<>> \/ Head(stream') = Plan)
                /\ (Head(stream) = Pass => stream' = <<>> \/ Head(stream') = Event)
<1>1. F' = F /\ Plan' = Plan /\ Pass' = Pass
  BY DEF F, Plan, Pass
<1>2. stream' = Tail(stream) /\ stream # <<>> /\ pc' = pc
  BY DEF StreamRuns
<1>3. stream \in Made \cup Retried \cup Whole
  BY DEF StagingInv, Shape, TypeInv
<1>4. CASE pc = "forward"
  <2>1. stream = <<F>>
    BY <1>2, <1>4 DEF StagingInv, Shape, Made
  <2>2. stream' = <<>> /\ Head(stream) = F
    BY <1>2, <2>1, Tails
  <2> QED
    BY <1>1, <1>2, <1>4, <2>2, OpsDiffer DEF Shape, Made
<1>5. CASE pc = "eager"
  <2>1. stream \in {<<F, Plan>>, <<Plan>>}
    BY <1>2, <1>5 DEF StagingInv, Shape, Retried
  <2>2. CASE stream = <<F, Plan>>
    <3>1. stream' = <<Plan>> /\ Head(stream) = F /\ Head(stream') = Plan
      BY <1>2, <2>2, Tails
    <3> QED
      BY <1>1, <1>2, <1>5, <3>1, OpsDiffer DEF Shape, Retried
  <2>3. CASE stream = <<Plan>>
    <3>1. stream' = <<>> /\ Head(stream) = Plan
      BY <1>2, <2>3, Tails
    <3> QED
      BY <1>1, <1>2, <1>5, <3>1, OpsDiffer DEF Shape, Retried
  <2> QED
    BY <2>1, <2>2, <2>3
<1>6. CASE pc \in {"idle", "read"}
  <2>0. stream \in Whole \ {<<>>}
    BY <1>2, <1>6 DEF StagingInv, Shape
  <2>1. CASE stream \in {<<F, Plan, Pass, Event>>, <<F, Plan, Plan, Pass, Event>>}
    <3>1. stream' \in {<<Plan, Pass, Event>>, <<Plan, Plan, Pass, Event>>} /\ Head(stream) = F
      <4>1. Tail(<<F, Plan, Pass, Event>>) = <<Plan, Pass, Event>> /\ Head(<<F, Plan, Pass, Event>>) = F
        BY Tails
      <4>2. /\ Tail(<<F, Plan, Plan, Pass, Event>>) = <<Plan, Plan, Pass, Event>>
            /\ Head(<<F, Plan, Plan, Pass, Event>>) = F
        BY Tails
      <4> QED
        BY <1>2, <2>1, <4>1, <4>2, ZenonT(60)
    <3>2. Head(stream') = Plan
      BY <3>1, Tails
    <3>3. stream' \in Whole'
      BY <1>1, <3>1 DEF Whole
    <3> QED
      BY <1>2, <1>6, <3>1, <3>2, <3>3, OpsDiffer DEF Shape
  <2>2. CASE stream \in {<<Plan, Pass, Event>>, <<Plan, Plan, Pass, Event>>}
    <3>1. stream' \in {<<Pass, Event>>, <<Plan, Pass, Event>>} /\ Head(stream) = Plan
      <4>1. Tail(<<Plan, Pass, Event>>) = <<Pass, Event>> /\ Head(<<Plan, Pass, Event>>) = Plan
        BY Tails
      <4>2. /\ Tail(<<Plan, Plan, Pass, Event>>) = <<Plan, Pass, Event>>
            /\ Head(<<Plan, Plan, Pass, Event>>) = Plan
        BY Tails
      <4> QED
        BY <1>2, <2>2, <4>1, <4>2, ZenonT(60)
    <3>2. Head(stream') \in {Plan, Pass}
      BY <3>1, Tails
    <3>3. stream' \in Whole'
      BY <1>1, <3>1 DEF Whole
    <3> QED
      BY <1>2, <1>6, <3>1, <3>2, <3>3, OpsDiffer DEF Shape
  <2>3. CASE stream = <<Pass, Event>>
    <3>1. stream' = <<Event>> /\ Head(stream) = Pass /\ Head(stream') = Event
      BY <1>2, <2>3, Tails
    <3>3. stream' \in Whole'
      BY <1>1, <3>1 DEF Whole
    <3> QED
      BY <1>2, <1>6, <3>1, <3>3, OpsDiffer DEF Shape
  <2>4. CASE stream = <<Event>>
    <3>1. stream' = <<>> /\ Head(stream) = Event
      BY <1>2, <2>4, Tails
    <3>3. stream' \in Whole'
      BY <3>1 DEF Whole
    <3> QED
      BY <1>2, <1>6, <3>1, <3>3, OpsDiffer DEF Shape
  <2> QED
    BY <2>0, <2>1, <2>2, <2>3, <2>4 DEF Whole
<1> QED
  BY <1>4, <1>5, <1>6 DEF StagingInv, TypeInv

LEMMA StreamRunsInv ==
  ASSUME StagingInv, StreamRuns, UNCHANGED <<call, track, pc>>
  PROVE  StagingInv'
<1>1. F' = F /\ Plan' = Plan /\ Pass' = Pass
  BY DEF F, Plan, Pass
<1>2. Shape' /\ Head(stream) \in {F, Plan, Pass, Event}
             /\ (stream' = <<>> \/ Head(stream') \in {Plan, Pass, Event})
             /\ (Head(stream) = F => stream' = <<>> \/ Head(stream') = Plan)
             /\ (Head(stream) = Pass => stream' = <<>> \/ Head(stream') = Event)
  BY StreamRunsShape
<1>3. <<"csr", track>> \in HostBuffer /\ <<"csr", track>> \in DeviceBuffer
      /\ <<"fields", track>> \in DeviceBuffer /\ <<"fields", track>> # <<"csr", track>>
  BY DEF StagingInv, TypeInv, HostBuffer, DeviceBuffer
<1>4. stream # <<>>
  BY DEF StreamRuns
<1>5. CASE Head(stream) = F
  <2>1. F.to = <<"fields", track>> /\ F.value = call
    BY DEF F, Fill
  <2>2. device' = [device EXCEPT ![<<"fields", track>>] = call] /\ host' = host
    BY <1>5, <2>1, OpsDiffer DEF StreamRuns
  <2>3. TypeInv'
    BY <2>2 DEF StagingInv, TypeInv
  <2>4. device'[<<"fields", track>>] = call /\ host'[<<"csr", track>>] = call
    BY <1>3, <2>2 DEF StagingInv, TypeInv, Written
  <2>5. Written'
    BY <1>1, <1>2, <1>5, <2>4, OpsDiffer DEF Written
  <2> QED
    BY <1>2, <2>3, <2>5 DEF StagingInv
<1>6. CASE Head(stream) = Plan
  <2>1. Plan.to = <<"csr", track>> /\ Plan.from = <<"csr", track>>
    BY DEF Plan, CopyIn
  <2>2. device' = [device EXCEPT ![<<"csr", track>>] = host[<<"csr", track>>]] /\ host' = host
    BY <1>6, <2>1, OpsDiffer DEF StreamRuns
  <2>3. TypeInv'
    BY <1>3, <2>2 DEF StagingInv, TypeInv
  <2>4. device[<<"fields", track>>] = call /\ host[<<"csr", track>>] = call
    BY <1>4, <1>6, OpsDiffer DEF StagingInv, Written
  <2>5. device'[<<"fields", track>>] = call /\ device'[<<"csr", track>>] = call
    BY <1>3, <2>2, <2>4 DEF StagingInv, TypeInv
  <2>6. Written'
    BY <1>1, <2>2, <2>4, <2>5 DEF Written
  <2> QED
    BY <1>2, <2>3, <2>6 DEF StagingInv
<1>7. CASE Head(stream) \in {Pass, Event}
  <2>1. device' = device /\ host' = host
    BY <1>7, OpsDiffer DEF StreamRuns
  <2>2. TypeInv'
    BY <2>1 DEF StagingInv, TypeInv
  <2>3. device[<<"fields", track>>] = call /\ host[<<"csr", track>>] = call
    BY <1>4, <1>7, OpsDiffer DEF StagingInv, Written
  <2>4. stream' = <<>> \/ Head(stream') # Pass
    <3>1. CASE Head(stream) = Pass
      BY <1>2, <3>1, OpsDiffer
    <3>2. CASE Head(stream) = Event
      BY <1>4, <3>2, Heads DEF StreamRuns
    <3> QED
      BY <1>7, <3>1, <3>2
  <2>5. Written'
    BY <1>1, <2>1, <2>3, <2>4 DEF Written
  <2> QED
    BY <1>2, <2>2, <2>5 DEF StagingInv
<1> QED
  BY <1>2, <1>5, <1>6, <1>7

-----------------------------------------------------------------------------
(***************************************************************************)
(* StagingInv is inductive.                                                *)
(***************************************************************************)
THEOREM StagingInvariant == Spec => []StagingInv
<1>1. StagingInv /\ [Next]_vars => StagingInv'
  <2> SUFFICES ASSUME StagingInv, [Next]_vars PROVE StagingInv'
    OBVIOUS
  <2>1. ASSUME NEW t \in Track, MakeInput(t) PROVE StagingInv'
    BY <2>1, MakeInputInv
  <2>2. CASE ReplayFails
    BY <2>2, ReplayFailsInv
  <2>3. CASE Forward
    BY <2>3, ForwardInv
  <2>4. CASE ReadBack \/ LeaveUnread
    BY <2>4, HostGoesOn
  <2>5. CASE StreamRuns /\ UNCHANGED <<call, track, pc>>
    BY <2>5, StreamRunsInv
  <2>6. CASE UNCHANGED vars
    <3>1. F' = F /\ Plan' = Plan /\ Pass' = Pass
      BY <2>6 DEF vars, F, Plan, Pass
    <3> QED
      BY <2>6, <3>1 DEF vars, streamVars, StagingInv, TypeInv, Shape, Written, Made, Retried, Whole
  <2> QED
    BY <2>1, <2>2, <2>3, <2>4, <2>5, <2>6 DEF Next
<1> QED
  BY InitInv, <1>1, PTL DEF Spec

LEMMA ReadsFollow == StagingInv => PassReadsItsCall
<1> SUFFICES ASSUME StagingInv, stream # <<>>, Head(stream).op = "kernel",
                    NEW b \in Head(stream).reads \cap DeviceBuffer
             PROVE  device[b] = Head(stream).call
  BY DEF PassReadsItsCall, ReadsItsCall
<1>1. Head(stream) = Pass
  BY Heads, OpsDiffer
<1>2. Pass.call = call /\ Pass.reads = {"csr", "fields"} \X {track}
  BY DEF Pass, Kernel
<1>3. b \in {<<"csr", track>>, <<"fields", track>>}
  BY <1>1, <1>2
<1>4. device[<<"fields", track>>] = call /\ device[<<"csr", track>>] = call
  BY <1>1, OpsDiffer DEF StagingInv, Written
<1> QED
  BY <1>1, <1>2, <1>3, <1>4

(***************************************************************************)
(* Each pass of a speculative engine reads the lists and fields of its own *)
(* call, for any number of passes in any order (_fence_csr).               *)
(***************************************************************************)
THEOREM PassesReadTheirCall == Spec => []PassReadsItsCall
  BY StagingInvariant, ReadsFollow, PTL
=============================================================================
