------------------------------ MODULE Pipeline ------------------------------
(***************************************************************************)
(* process2 and process3 together: the thread that sends the results of    *)
(* SensorFusion is the server of the "ctrl" path of Process3, and the      *)
(* thread recvProcessingDataThread is its one consumer.  The processes are *)
(* started in any order.  A result is one message; the commander, which    *)
(* would serve the "cmd" path, is not running.                             *)
(***************************************************************************)
EXTENDS Integers, Sequences

CONSTANTS Conns, MaxFd, MaxSamples, Window, MaxSpurious,
          MsgLen, DATA_SIZE, PIPE_CAPACITY

VARIABLES client, sampled, queue, backlog, owner, consumer, results, cpc,
          masterSet, readSet, iMaxFd, received, stored, first, rest, mutex,
          ppc, copyFirst, copyRest, spurious,
          server, sent, socket, tpc, achRecvData, pipe, mpc, readfds, delivered

\* Every result answers a signal or a wakeup without one.
MaxResults == MaxSamples + MaxSpurious

F == INSTANCE SensorFusion WITH sent <- sampled
P == INSTANCE Process3 WITH MaxMsgs <- MaxResults

\* The components are what their modules assume them to be.
ASSUME PipelineAssumption == F!SensorFusionAssumption /\ P!Process3Assumption

process2 == <<client, sampled, queue, backlog, owner, consumer, results, cpc,
              masterSet, readSet, iMaxFd, received, stored, first, rest, mutex,
              ppc, copyFirst, copyRest, spurious>>
process3 == <<server, sent, socket, tpc, achRecvData, pipe, mpc, readfds,
              delivered>>
vars == <<process2, process3>>

Init == F!Init /\ P!Init

sensors == F!sensorSteps /\ UNCHANGED process3

collecting == F!sensorCollectorThread /\ UNCHANGED process3

\* createUdsServerSocket and udsSendMsg of sensorProcessingThread are what the
\* other side of the socket sees of it.
processing ==
  /\ F!sensorProcessingThread
  /\ CASE ppc = "listen" -> P!ServerStart("ctrl")
       [] ppc = "send"   -> P!ServerSend("ctrl")
       [] OTHER          -> UNCHANGED process3

\* recvProcessingDataThread connects to it, if it listens already.
receiving(k) ==
  /\ P!recvThread(k)
  /\ IF k = "ctrl" /\ tpc[k] = "connect" /\ server[k] = "up"
       THEN F!ConsumerConnect ELSE UNCHANGED process2

reading == P!mainLoop /\ UNCHANGED process2

Next == sensors \/ collecting \/ processing
        \/ (\E k \in P!Paths : receiving(k)) \/ reading

Spec == Init /\ [][Next]_vars

\* All threads are scheduled, and one that waits for the mutex gets it: the
\* other leaves it free again and again.  A wakeup without a signal never has
\* to come, and the sensors do as they like.
Fairness ==
  /\ WF_vars(collecting) /\ SF_vars(F!Lock /\ UNCHANGED process3)
  /\ WF_vars(processing) /\ SF_vars(F!ProcessingLock /\ UNCHANGED process3)
  /\ SF_vars(F!Relock /\ UNCHANGED process3)
  /\ \A k \in P!Paths : WF_vars(receiving(k))
  /\ WF_vars(reading)

FairSpec == Spec /\ Fairness

-----------------------------------------------------------------------------
(* Properties.                                                             *)

\* What the main of process3 has read, followed by what is still under way to
\* it, are the results process2 has computed: none is lost, repeated or out of
\* order, in whatever order the processes start.  When process3 came too early
\* to connect, no result is ever computed.
ResultsIntact ==
  /\ delivered["ctrl"] \o pipe["ctrl"] \o achRecvData["ctrl"] \o socket["ctrl"]
       = P!Pipe!Stream("ctrl", Len(results) * MsgLen)
  /\ tpc["ctrl"] = "failed" => ppc \in {"listen", "accept"}

\* A sample whose signal found the processing thread waiting is answered: a
\* result of its own is read, to its end, by the main of process3.
ResultRead ==
  \A n \in 0 .. MaxResults - 1 :
    (ppc = "relock" /\ Len(results) = n)
      ~> Len(delivered["ctrl"]) >= (n + 1) * MsgLen

\* The first sample that waits on a connection gets into the shared data,
\* whether or not there is a consumer.
SampleStored == F!SampleStored

\* The descriptor of a connection that was closed is closed.
SensorReleased == F!SensorReleased
=============================================================================
