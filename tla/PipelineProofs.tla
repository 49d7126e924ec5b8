--------------------------- MODULE PipelineProofs ---------------------------
(***************************************************************************)
(* process2 and process3 together, for any sensors, any numbers of samples *)
(* and spurious wakeups and buffers of any size: coupled through their     *)
(* socket, each still behaves as its own module says, and ResultsIntact    *)
(* of Pipeline relates the results of the one to the bytes read by the     *)
(* other.                                                                  *)
(***************************************************************************)
EXTENDS Pipeline, TLAPS

\* The two components again, with what is proved of them.
FP == INSTANCE SensorFusionProofs WITH sent <- sampled
PP == INSTANCE Process3Proofs WITH MaxMsgs <- MaxResults

\* The constants meet the assumptions of both.
LEMMA ComponentAssumptions ==
  FP!SensorFusionAssumption /\ PP!Process3Assumption
  BY PipelineAssumption
  DEF FP!SensorFusionAssumption, F!SensorFusionAssumption, FP!Sensors,
      F!Sensors, PP!Process3Assumption, P!Process3Assumption

-----------------------------------------------------------------------------
(* Each component takes its own steps only.                                *)

\* A step of the pipeline is a step of process3 or leaves it alone.
LEMMA Process3Step == [Next]_vars => [P!Next]_(P!vars)
<1> SUFFICES ASSUME [Next]_vars PROVE [P!Next]_(P!vars)
  OBVIOUS
<1> USE DEF process3, P!vars
<1>1. CASE sensors \/ collecting
  BY <1>1 DEF sensors, collecting
<1>2. CASE processing
  <2>1. "ctrl" \in P!Paths
    BY DEF P!Paths
  <2>2. P!ServerStart("ctrl") \/ P!ServerSend("ctrl") \/ UNCHANGED process3
    BY <1>2 DEF processing
  <2>3. QED
    BY <2>1, <2>2 DEF P!Next
<1>3. ASSUME NEW k \in P!Paths, receiving(k) PROVE P!Next
  BY <1>3 DEF receiving, P!Next
<1>4. CASE reading
  BY <1>4 DEF reading, P!Next
<1>5. CASE UNCHANGED vars
  BY <1>5 DEF vars
<1>6. QED
  BY <1>1, <1>2, <1>3, <1>4, <1>5 DEF Next

\* A step of the pipeline is a step of process2 or leaves it alone.
LEMMA FusionStep == [Next]_vars => [F!Next]_(F!vars)
<1> SUFFICES ASSUME [Next]_vars PROVE [F!Next]_(F!vars)
  OBVIOUS
<1> USE DEF process2, F!vars
<1>1. CASE sensors \/ collecting \/ processing
  BY <1>1 DEF sensors, collecting, processing, F!Next
<1>2. ASSUME NEW k \in P!Paths, receiving(k)
      PROVE  F!ConsumerConnect \/ UNCHANGED process2
  BY <1>2 DEF receiving
<1>3. CASE reading
  BY <1>3 DEF reading
<1>4. CASE UNCHANGED vars
  BY <1>4 DEF vars
<1>5. QED
  BY <1>1, <1>2, <1>3, <1>4 DEF Next, F!Next

\* Put together, process2 is SensorFusion with a consumer that never leaves.
THEOREM IsSensorFusion == Spec => F!Spec
<1>1. Init => F!Init
  BY DEF Init
<1>2. QED
  BY <1>1, FusionStep, PTL DEF Spec, F!Spec

\* Put together, process3 is Process3 with a server that sends a message when,
\* and only when, process2 has a result.
THEOREM IsProcess3 == Spec => P!Spec
<1>1. Init => P!Init
  BY DEF Init
<1>2. QED
  BY <1>1, Process3Step, PTL DEF Spec, P!Spec

-----------------------------------------------------------------------------
(* What is proved of the components holds of them here.                    *)

\* Process3Proofs speaks of the same initial states and steps of process3.
LEMMA SameProcess3 ==
  (P!Init => PP!Init) /\ ([P!Next]_(P!vars) => [PP!Next]_(PP!vars))
<1> USE DEF P!Paths, PP!Paths, P!servers, PP!servers, P!threads, PP!threads,
            P!main, PP!main, P!vars, PP!vars
<1>1. P!Init => PP!Init
  BY DEF P!Init, PP!Init, P!Empty, PP!Empty
<1>2. ASSUME NEW k \in P!Paths,
             P!ServerStart(k) \/ P!ServerSend(k) \/ P!ServerClose(k)
      PROVE  PP!Next
  BY <1>2 DEF P!ServerStart, PP!ServerStart, P!ServerSend, PP!ServerSend,
     P!ServerClose, PP!ServerClose, P!Message, PP!Message, PP!Next
<1>3. ASSUME NEW k \in P!Paths, P!recvThread(k) PROVE PP!Next
  <2>1. PP!recvThread(k)
    BY <1>3 DEF P!recvThread, PP!recvThread, P!ConnectServer, PP!ConnectServer,
       P!Receive, PP!Receive, P!WritePipe, PP!WritePipe, P!ThreadGoto,
       PP!ThreadGoto, P!Shorter, PP!Shorter
  <2>2. QED
    BY <2>1 DEF PP!Next
<1>4. ASSUME P!mainLoop PROVE PP!Next
  <2>1. PP!mainLoop
    BY <1>4 DEF P!mainLoop, PP!mainLoop, P!Select, PP!Select, P!VisitPipes,
       PP!VisitPipes, P!Visit, PP!Visit, P!ReadPipe, PP!ReadPipe, P!Shorter,
       PP!Shorter
  <2>2. QED
    BY <2>1 DEF PP!Next
<1>5. QED
  BY <1>1, <1>2, <1>3, <1>4 DEF P!Next

\* The same of process2.
LEMMA SameFusion ==
  (F!Init => FP!Init) /\ ([F!Next]_(F!vars) => [FP!Next]_(FP!vars))
<1> USE DEF F!vars, FP!vars, F!sensors, FP!sensors, F!sockets, FP!sockets,
            F!data, FP!data, F!collector, FP!collector, F!copies, FP!copies,
            F!processing, FP!processing, F!collecting, FP!collecting,
            F!iServerSock, FP!iServerSock, F!ClientFds, FP!ClientFds,
            F!SensorOf, FP!SensorOf, F!EXTERN4, FP!EXTERN4, F!NoConn,
            FP!NoConn, F!NoSample, FP!NoSample, F!Zeroes, FP!Zeroes,
            F!Sensors, FP!Sensors, F!Goto, FP!Goto
<1>1. F!Init => FP!Init
  BY DEF F!Init, FP!Init
<1>2. F!sensorSteps => FP!sensorSteps
  BY DEF F!sensorSteps, FP!sensorSteps, F!Connect, FP!Connect, F!SendSample,
     FP!SendSample, F!Disconnect, FP!Disconnect
<1>3. F!ConsumerConnect => FP!ConsumerConnect
  BY DEF F!ConsumerConnect, FP!ConsumerConnect
<1>4. F!ConsumerLeave => FP!ConsumerLeave
  BY DEF F!ConsumerLeave, FP!ConsumerLeave
<1>5. F!sensorCollectorThread => FP!sensorCollectorThread
  BY DEF F!sensorCollectorThread, FP!sensorCollectorThread, F!Select,
     FP!Select, F!EndOfScan, FP!EndOfScan, F!AcceptSensor, FP!AcceptSensor,
     F!ReceiveSample, FP!ReceiveSample, F!SensorGone, FP!SensorGone, F!Lock,
     FP!Lock, F!WriteFirst, FP!WriteFirst, F!WriteRest, FP!WriteRest,
     F!Signal, FP!Signal, F!Unlock, FP!Unlock, F!AtFd, FP!AtFd, F!Ready,
     FP!Ready, F!HasInput, FP!HasInput
<1>6. F!sensorProcessingThread => FP!sensorProcessingThread
  BY DEF F!sensorProcessingThread, FP!sensorProcessingThread,
     F!ListenForConsumer, FP!ListenForConsumer, F!AcceptConsumer,
     FP!AcceptConsumer, F!ProcessingLock, FP!ProcessingLock, F!Wait, FP!Wait,
     F!Timeout, FP!Timeout, F!SpuriousWakeup, FP!SpuriousWakeup, F!Relock,
     FP!Relock, F!UnlockAfterTimeout, FP!UnlockAfterTimeout, F!CopyFirst,
     FP!CopyFirst, F!CopyRest, FP!CopyRest, F!ProcessingUnlock,
     FP!ProcessingUnlock, F!SendResult, FP!SendResult
<1>7. QED
  BY <1>1, <1>2, <1>3, <1>4, <1>5, <1>6 DEF F!Next, FP!Next

\* The invariants that the proofs of the components rest on.
LEMMA ComponentInvariants == Spec => [](FP!IInv /\ PP!IInv)
<1>1. P!Spec => PP!Spec
  BY SameProcess3, PTL DEF P!Spec, PP!Spec
<1>2. F!Spec => FP!Spec
  BY SameFusion, PTL DEF F!Spec, FP!Spec
<1>3. QED
  BY <1>1, <1>2, IsProcess3, IsSensorFusion, ComponentAssumptions,
     PP!Invariance, FP!Invariance, PTL

-----------------------------------------------------------------------------
(* The socket between them.                                                *)

\* Every result is a message to process3.  The consumer of process2 is the
\* thread of process3 if that has connected; without it process2 never gets
\* beyond accept.
Coupled ==
  /\ sent["ctrl"] = Len(results)
  /\ consumer # "gone"
  /\ consumer = "connected" => tpc["ctrl"] \in {"recv", "write"}
  /\ consumer = "out" => ppc \in {"listen", "accept"}

\* Every step keeps the two sides of the socket in agreement.
LEMMA CoupledStep ==
  ASSUME FP!IInv, PP!IInv, Coupled, [Next]_vars
  PROVE  Coupled'
<1>1. /\ consumer \in {"out", "connected", "gone"}
      /\ tpc \in [P!Paths -> {"connect", "recv", "write", "failed"}]
      /\ sent \in [P!Paths -> 0 .. MaxResults] /\ "ctrl" \in P!Paths
  BY DEF FP!IInv, FP!TypeOK, PP!IInv, PP!TypeOK, PP!Paths, P!Paths
<1> USE DEF process2, process3
<1>2. CASE UNCHANGED <<sent, tpc, results, consumer, ppc>>
  BY <1>2 DEF Coupled
<1>3. CASE sensors \/ collecting
  <2>1. UNCHANGED <<sent, tpc, results, consumer>>
    BY <1>3 DEF sensors, collecting, F!sensorSteps, F!Connect, F!SendSample,
       F!Disconnect, F!sensorCollectorThread, F!Select, F!EndOfScan,
       F!AcceptSensor, F!ReceiveSample, F!SensorGone, F!Lock, F!WriteFirst,
       F!WriteRest, F!Signal, F!Unlock, F!processing
  <2>2. ppc' = ppc \/ (ppc = "waiting" /\ ppc' = "relock")
    BY <1>3 DEF sensors, collecting, F!sensorSteps, F!Connect, F!SendSample,
       F!Disconnect, F!sensorCollectorThread, F!Select, F!EndOfScan,
       F!AcceptSensor, F!ReceiveSample, F!SensorGone, F!Lock, F!WriteFirst,
       F!WriteRest, F!Signal, F!Unlock, F!processing
  <2>3. QED
    BY <2>1, <2>2 DEF Coupled
<1>4. CASE processing
  <2>1. CASE F!SendResult
    <3>1. ppc = "send" /\ ppc' = "lock" /\ consumer' = consumer
      BY <2>1 DEF F!SendResult, F!Goto
    <3>2. P!ServerSend("ctrl")
      BY <1>4, <3>1 DEF processing
    <3>3. tpc' = tpc /\ sent' = [sent EXCEPT !["ctrl"] = @ + 1]
      BY <3>2 DEF P!ServerSend, P!threads
    <3>4. Len(results') = Len(results) + 1
      <4>1. results \in Seq([first : FP!Samples, rest : FP!Samples])
        BY DEF FP!IInv, FP!TypeOK
      <4>2. \E r : results' = Append(results, r)
        BY <2>1 DEF F!SendResult, Coupled
      <4>3. QED
        BY <4>1, <4>2
    <3>5. QED
      BY <1>1, <3>1, <3>3, <3>4 DEF Coupled
  <2>2. CASE ~F!SendResult
    <3>1. UNCHANGED <<results, consumer>>
      BY <1>4, <2>2 DEF processing, F!sensorProcessingThread,
         F!ListenForConsumer, F!AcceptConsumer, F!ProcessingLock, F!Wait,
         F!Timeout, F!SpuriousWakeup, F!Relock, F!UnlockAfterTimeout,
         F!CopyFirst, F!CopyRest, F!ProcessingUnlock
    <3>2. /\ ppc # "send"
          /\ \/ ppc \notin {"listen", "accept"}
             \/ ppc = "listen" /\ ppc' = "accept"
             \/ consumer # "out"
      BY <1>4, <2>2 DEF processing, F!sensorProcessingThread,
         F!ListenForConsumer, F!AcceptConsumer, F!ProcessingLock, F!Wait,
         F!Timeout, F!SpuriousWakeup, F!Relock, F!UnlockAfterTimeout,
         F!CopyFirst, F!CopyRest, F!ProcessingUnlock, F!Goto
    <3>3. UNCHANGED <<sent, tpc>>
      BY <1>4, <3>2 DEF processing, P!ServerStart, P!threads
    <3>4. QED
      BY <3>1, <3>2, <3>3 DEF Coupled
  <2>3. QED
    BY <2>1, <2>2
<1>5. ASSUME NEW k \in P!Paths, receiving(k) PROVE Coupled'
  <2>1. sent' = sent /\ results' = results /\ ppc' = ppc
    BY <1>5 DEF receiving, P!recvThread, P!ConnectServer, P!Receive,
       P!WritePipe, P!servers, F!ConsumerConnect
  <2>2. CASE k = "ctrl" /\ tpc[k] = "connect"
    <3>1. P!ConnectServer(k)
      BY <1>5, <2>2 DEF receiving, P!recvThread, P!Receive, P!WritePipe,
         P!ThreadGoto
    <3>2. CASE server[k] = "up"
      <4>1. tpc'[k] = "recv" /\ consumer' = "connected"
        BY <1>1, <1>5, <2>2, <3>1, <3>2 DEF receiving, P!ConnectServer,
           P!ThreadGoto, F!ConsumerConnect
      <4>2. QED
        BY <2>1, <2>2, <4>1 DEF Coupled
    <3>3. CASE server[k] # "up"
      <4>1. consumer' = consumer
        BY <1>5, <3>3 DEF receiving
      <4>2. QED
        BY <1>1, <2>1, <2>2, <4>1 DEF Coupled
    <3>4. QED
      BY <3>2, <3>3
  <2>3. CASE ~(k = "ctrl" /\ tpc[k] = "connect")
    <3>1. consumer' = consumer
      BY <1>5, <2>3 DEF receiving
    <3>2. tpc["ctrl"] \in {"recv", "write"}
            => tpc'["ctrl"] \in {"recv", "write"}
      BY <1>1, <1>5 DEF receiving, P!recvThread, P!ConnectServer, P!Receive,
         P!WritePipe, P!ThreadGoto
    <3>3. QED
      BY <2>1, <3>1, <3>2 DEF Coupled
  <2>4. QED
    BY <2>2, <2>3
<1>6. CASE reading
  <2>1. UNCHANGED <<sent, tpc>>
    BY <1>6 DEF reading, P!mainLoop, P!Select, P!VisitPipes, P!Visit,
       P!servers, P!threads
  <2>2. QED
    BY <1>2, <1>6, <2>1 DEF reading
<1>7. CASE UNCHANGED vars
  BY <1>2, <1>7 DEF vars
<1>8. QED
  BY <1>3, <1>4, <1>5, <1>6, <1>7 DEF Next

\* What process3 has read of process2 and what is on its way are the results
\* process2 has computed, for any number of them and buffers of any size; and
\* when process3 came too early, process2 waits for a consumer for good.
THEOREM Intact == Spec => []ResultsIntact
<1>1. Init => Coupled
  BY DEF Init, F!Init, P!Init, P!Paths, Coupled
<1>2. FP!IInv /\ PP!IInv /\ Coupled /\ [Next]_vars => Coupled'
  BY CoupledStep
<1>3. ASSUME FP!IInv, PP!IInv, Coupled PROVE ResultsIntact
  <2>1. delivered["ctrl"] \o pipe["ctrl"] \o achRecvData["ctrl"]
          \o socket["ctrl"]
          = PP!Pipe!Stream("ctrl", Len(results) * MsgLen)
    BY <1>3 DEF PP!IInv, PP!StreamIntact, PP!Paths, Coupled
  <2>2. tpc["ctrl"] = "failed" => ppc \in {"listen", "accept"}
    BY <1>3 DEF FP!IInv, FP!TypeOK, Coupled
  <2>3. QED
    BY <2>1, <2>2 DEF ResultsIntact, P!Pipe!Stream, PP!Pipe!Stream
<1>4. QED
  BY <1>1, <1>2, <1>3, ComponentInvariants, PTL DEF Spec

\* process2 keeps the promise of FusionService and process3 that of StreamPipe
\* also when they run together.
THEOREM PromisesKept == Spec => F!Promise!Spec /\ P!Pipe!Spec
<1>1. Spec => FP!Promise!Spec /\ PP!Pipe!Spec
  <2>1. P!Spec => PP!Spec
    BY SameProcess3, PTL DEF P!Spec, PP!Spec
  <2>2. F!Spec => FP!Spec
    BY SameFusion, PTL DEF F!Spec, FP!Spec
  <2>3. QED
    BY <2>1, <2>2, IsProcess3, IsSensorFusion, ComponentAssumptions,
       PP!Implements, FP!Implements, PTL DEF FP!KeepsPromise
<1>2. PP!Pipe!Spec => P!Pipe!Spec
  <2>1. PP!Pipe!Init => P!Pipe!Init
    BY DEF PP!Pipe!Init, P!Pipe!Init, PP!Paths, P!Paths
  <2>2. [PP!Pipe!Next]_(PP!Pipe!vars) => [P!Pipe!Next]_(P!Pipe!vars)
    BY DEF PP!Pipe!Next, P!Pipe!Next, PP!Paths, P!Paths, PP!Pipe!Send,
       P!Pipe!Send, PP!Pipe!Deliver, P!Pipe!Deliver, PP!Pipe!Stream,
       P!Pipe!Stream, PP!Pipe!vars, P!Pipe!vars
  <2>3. QED
    BY <2>1, <2>2, PTL DEF PP!Pipe!Spec, P!Pipe!Spec
<1>3. FP!Promise!Spec => F!Promise!Spec
  <2> USE DEF FP!Sensors, F!Sensors, FP!Whole, F!Whole
  <2>1. FP!Promise!Init => F!Promise!Init
    BY DEF FP!Promise!Init, F!Promise!Init
  <2>2. [FP!Promise!Next]_(FP!Promise!vars)
          => [F!Promise!Next]_(F!Promise!vars)
    BY DEF FP!Promise!Next, F!Promise!Next, FP!Promise!Sample,
       F!Promise!Sample, FP!Promise!Take, F!Promise!Take, FP!Promise!Publish,
       F!Promise!Publish, FP!Promise!Leave, F!Promise!Leave, FP!Promise!vars,
       F!Promise!vars
  <2>3. QED
    BY <2>1, <2>2, PTL DEF FP!Promise!Spec, F!Promise!Spec
<1>4. QED
  BY <1>1, <1>2, <1>3, PTL
=============================================================================
