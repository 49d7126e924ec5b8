---------------------------- MODULE SensorFusion ----------------------------
(***************************************************************************)
(* process2: sensorCollectorThread (sensor-collector.c) serves all sensor  *)
(* connections from one select loop and writes their samples to the shared *)
(* SENSOR_DATA; sensorProcessingThread (sensor-processing.c) is woken by   *)
(* the samples of EXTERN4, copies SENSOR_DATA and sends the consumer a     *)
(* result.  They share SHARED_SENSOR_DATA, its mutex and its condition     *)
(* variable.                                                               *)
(*                                                                         *)
(* <<s, i>> is the i-th connection of sensor s.  A sample is its number,   *)
(* counted over all connections of its sensor; each sensor's struct in     *)
(* SENSOR_DATA is two halves, written and copied one after the other.  A   *)
(* result is the picture of SENSOR_DATA it was computed from.              *)
(***************************************************************************)
EXTENDS Integers, Sequences

CONSTANTS
  Conns,       \* the connections the sensors make
  MaxFd,       \* bound: the highest descriptor of a connection
  MaxSamples,  \* bound: samples a sensor sends
  Window,      \* samples of a connection that may wait to be received
  MaxSpurious  \* bound: wakeups without a signal

Sensors == 1 .. 4        \* by the last digit of their name
EXTERN4 == 4

\* The 128 bytes of chSensorData hold three sample packets of 38 bytes: with
\* at most three waiting, what is received never ends inside a packet.
ASSUME SensorFusionAssumption ==
  /\ Conns \subseteq Sensors \X (Nat \ {0})
  /\ MaxFd \in Nat
  /\ MaxSamples \in Nat
  /\ Window \in 1 .. 128 \div 38
  /\ MaxSpurious \in Nat

SensorOf(c) == c[1]
NoConn   == <<0, 0>>
NoSample == [conn |-> NoConn, number |-> 0]

iServerSock == 1
ClientFds   == 2 .. MaxFd

VARIABLES
  \* The sensors, the consumer and the kernel.
  client,      \* connection -> "out", "connected", "closed"
  sent,        \* sensor -> number of its last sample sent
  queue,       \* connection -> samples sent and not received
  backlog,     \* connections not accepted yet
  owner,       \* descriptor -> its connection
  consumer,    \* "out", "connected", "gone"
  results,     \* the pictures of the results sent to it
  \* sensorCollectorThread.
  cpc, masterSet, readSet, iMaxFd,
  received,    \* the first sample in chSensorData
  stored,      \* connection -> the last of its samples stored (history)
  \* SHARED_SENSOR_DATA.
  first, rest, \* sensor -> sample its two halves in stSensorData are from
  mutex,       \* "collector", "processing" or "nobody"
  \* sensorProcessingThread.
  ppc,
  copyFirst, copyRest,  \* its own stSensorData
  spurious     \* spurious wakeups so far

sensors    == <<client, sent, queue, backlog>>
sockets    == <<owner, masterSet, iMaxFd>>
data       == <<first, rest, stored>>
collector  == <<cpc, readSet, received>>
copies     == <<copyFirst, copyRest>>
processing == <<ppc, copyFirst, copyRest, consumer, results, spurious>>
collecting == <<sensors, sockets, collector, data>>
vars == <<client, sent, queue, backlog, owner, consumer, results, cpc,
          masterSet, readSet, iMaxFd, received, stored, first, rest, mutex, ppc,
          copyFirst, copyRest, spurious>>

Zeroes == [s \in Sensors |-> 0]

Init ==
  /\ client = [c \in Conns |-> "out"]
  /\ sent = Zeroes
  /\ queue = [c \in Conns |-> <<>>]
  /\ backlog = <<>>
  /\ owner = [f \in ClientFds |-> NoConn]
  /\ consumer = "out"
  /\ results = <<>>
  /\ cpc = "select"
  /\ masterSet = {iServerSock}
  /\ readSet = {}
  /\ iMaxFd = iServerSock
  /\ received = NoSample
  /\ stored = [c \in Conns |-> 0]
  /\ first = Zeroes
  /\ rest = Zeroes
  /\ mutex = "nobody"
  /\ ppc = "listen"
  /\ copyFirst = Zeroes
  /\ copyRest = Zeroes
  /\ spurious = 0

-----------------------------------------------------------------------------
(* The sensors and the consumer (outside process2).                        *)

\* A sensor reconnects only after it has closed its connection.
Connect(c) ==
  /\ client[c] = "out"
  /\ \A d \in Conns : SensorOf(d) = SensorOf(c) /\ d[2] < c[2]
                       => client[d] = "closed"
  /\ client' = [client EXCEPT ![c] = "connected"]
  /\ backlog' = Append(backlog, c)
  /\ UNCHANGED <<sent, queue, sockets, collector, data, mutex, processing>>

SendSample(c) ==
  /\ client[c] = "connected"
  /\ sent[SensorOf(c)] < MaxSamples
  /\ Len(queue[c]) < Window
  /\ sent' = [sent EXCEPT ![SensorOf(c)] = @ + 1]
  /\ queue' = [queue EXCEPT ![c] = Append(@, sent[SensorOf(c)] + 1)]
  /\ UNCHANGED <<client, backlog, sockets, collector, data, mutex, processing>>

Disconnect(c) ==
  /\ client[c] = "connected"
  /\ client' = [client EXCEPT ![c] = "closed"]
  /\ UNCHANGED <<sent, queue, backlog, sockets, collector, data, mutex,
                 processing>>

\* The socket the consumer connects to must exist.
ConsumerConnect ==
  /\ consumer = "out"
  /\ ppc # "listen"
  /\ consumer' = "connected"
  /\ UNCHANGED <<collecting, mutex, ppc, copies, results, spurious>>

ConsumerLeave ==
  /\ consumer = "connected"
  /\ consumer' = "gone"
  /\ UNCHANGED <<collecting, mutex, ppc, copies, results, spurious>>

-----------------------------------------------------------------------------
(* sensorCollectorThread.                                                  *)

HasInput(f) ==
  IF f = iServerSock THEN backlog # <<>>
  ELSE \/ queue[owner[f]] # <<>>
       \/ client[owner[f]] = "closed"

Ready == {f \in masterSet : f <= iMaxFd /\ HasInput(f)}

Select ==
  /\ cpc = "select"
  /\ Ready # {}
  /\ readSet' = Ready
  /\ cpc' = "scan"
  /\ UNCHANGED <<sensors, sockets, received, data, mutex, processing>>

\* The loop over iCurrFd reaches the descriptors of readSet in order.
AtFd(f) == cpc = "scan" /\ f \in readSet /\ \A g \in readSet : f <= g

EndOfScan ==
  /\ cpc = "scan"
  /\ readSet = {}
  /\ cpc' = "select"
  /\ UNCHANGED <<sensors, sockets, readSet, received, data, mutex, processing>>

\* Mutant: iMaxFd keeps its initial value.
AcceptKeepsMaxFd ==
  /\ AtFd(iServerSock)
  /\ \E f \in ClientFds :
       /\ owner[f] = NoConn
       /\ \A g \in ClientFds : owner[g] = NoConn => f <= g
       /\ owner' = [owner EXCEPT ![f] = Head(backlog)]
       /\ masterSet' = masterSet \cup {f}
  /\ backlog' = Tail(backlog)
  /\ readSet' = readSet \ {iServerSock}
  /\ UNCHANGED <<client, sent, queue, iMaxFd, cpc, received, data, mutex,
                 processing>>

\* Mutant: the new connection is put in the working set of select only.
AcceptIntoReadSet ==
  /\ AtFd(iServerSock)
  /\ \E f \in ClientFds :
       /\ owner[f] = NoConn
       /\ \A g \in ClientFds : owner[g] = NoConn => f <= g
       /\ owner' = [owner EXCEPT ![f] = Head(backlog)]
       /\ readSet' = (readSet \ {iServerSock}) \cup {f}
       /\ iMaxFd' = IF f > iMaxFd THEN f ELSE iMaxFd
  /\ backlog' = Tail(backlog)
  /\ UNCHANGED <<client, sent, queue, masterSet, cpc, received, data, mutex,
                 processing>>

\* The new connection, on the lowest free descriptor, is in no readSet until
\* the next select.
AcceptSensor ==
  /\ AtFd(iServerSock)
  /\ \E f \in ClientFds :
       /\ owner[f] = NoConn
       /\ \A g \in ClientFds : owner[g] = NoConn => f <= g
       /\ owner' = [owner EXCEPT ![f] = Head(backlog)]
       /\ masterSet' = masterSet \cup {f}
       /\ iMaxFd' = IF f > iMaxFd THEN f ELSE iMaxFd
  /\ backlog' = Tail(backlog)
  /\ readSet' = readSet \ {iServerSock}
  /\ UNCHANGED <<client, sent, queue, cpc, received, data, mutex, processing>>

\* udsRecvMsg takes all that waits; only the first packet is looked at.
ReceiveSample(f) ==
  /\ AtFd(f)
  /\ queue[owner[f]] # <<>>
  /\ received' = [conn |-> owner[f], number |-> Head(queue[owner[f]])]
  /\ queue' = [queue EXCEPT ![owner[f]] = <<>>]
  /\ readSet' = readSet \ {f}
  /\ cpc' = "lock"
  /\ UNCHANGED <<client, sent, backlog, sockets, data, mutex, processing>>

\* Mutant: the end of a connection is not told from a failed receive.
IgnoreEof(f) ==
  /\ AtFd(f)
  /\ queue[owner[f]] = <<>>
  /\ client[owner[f]] = "closed"
  /\ readSet' = readSet \ {f}
  /\ UNCHANGED <<sensors, sockets, cpc, received, data, mutex, processing>>

\* iRecvSize <= 0; no entry of stClients is ever set, so none is reset.
SensorGone(f) ==
  /\ AtFd(f)
  /\ queue[owner[f]] = <<>>
  /\ client[owner[f]] = "closed"
  /\ owner' = [owner EXCEPT ![f] = NoConn]
  /\ masterSet' = masterSet \ {f}
  /\ readSet' = readSet \ {f}
  /\ UNCHANGED <<sensors, iMaxFd, cpc, received, data, mutex, processing>>

\* Mutant: only the branch that signals locks the mutex.
LockForTrigger ==
  /\ cpc = "lock"
  /\ \/ /\ SensorOf(received.conn) = EXTERN4
        /\ mutex = "nobody"
        /\ mutex' = "collector"
     \/ SensorOf(received.conn) # EXTERN4 /\ UNCHANGED mutex
  /\ cpc' = "first"
  /\ UNCHANGED <<sensors, sockets, readSet, received, data, processing>>

Lock ==
  /\ cpc = "lock"
  /\ mutex = "nobody"
  /\ mutex' = "collector"
  /\ cpc' = "first"
  /\ UNCHANGED <<sensors, sockets, readSet, received, data, processing>>

\* dispatchCommand calls the sensor's handler, which copies the payload.
WriteFirst ==
  /\ cpc = "first"
  /\ first' = [first EXCEPT ![SensorOf(received.conn)] = received.number]
  /\ cpc' = "rest"
  /\ UNCHANGED <<sensors, sockets, readSet, received, rest, stored, mutex,
                 processing>>

WriteRest ==
  /\ cpc = "rest"
  /\ rest' = [rest EXCEPT ![SensorOf(received.conn)] = received.number]
  /\ stored' = [stored EXCEPT ![received.conn] = received.number]
  /\ cpc' = IF SensorOf(received.conn) = EXTERN4 THEN "signal" ELSE "unlock"
  /\ UNCHANGED <<sensors, sockets, readSet, received, first, mutex,
                 processing>>

\* pthread_cond_signal: lost unless the processing thread is waiting.
Signal ==
  /\ cpc = "signal"
  /\ cpc' = "unlock"
  /\ ppc' = IF ppc = "waiting" THEN "relock" ELSE ppc
  /\ UNCHANGED <<sensors, sockets, readSet, received, data, mutex, copies,
                 consumer, results, spurious>>

\* Mutant: the branch that signals does not unlock.
UnlockOthersOnly ==
  /\ cpc = "unlock"
  /\ mutex' = IF SensorOf(received.conn) = EXTERN4 THEN mutex ELSE "nobody"
  /\ received' = NoSample
  /\ cpc' = "scan"
  /\ UNCHANGED <<sensors, sockets, readSet, data, processing>>

\* What chSensorData holds is dead afterwards: the next packet overwrites it.
Unlock ==
  /\ cpc = "unlock"
  /\ mutex' = "nobody"
  /\ received' = NoSample
  /\ cpc' = "scan"
  /\ UNCHANGED <<sensors, sockets, readSet, data, processing>>

sensorCollectorThread ==
  \/ Select \/ EndOfScan \/ AcceptSensor
  \/ \E f \in ClientFds : ReceiveSample(f) \/ SensorGone(f)
  \/ Lock \/ WriteFirst \/ WriteRest \/ Signal \/ Unlock

-----------------------------------------------------------------------------
(* sensorProcessingThread.                                                 *)

Goto(from, to) == ppc = from /\ ppc' = to

\* createUdsServerSocket.
ListenForConsumer ==
  /\ Goto("listen", "accept")
  /\ UNCHANGED <<collecting, mutex, copies, consumer, results, spurious>>

\* Mutant: accept does not wait for a consumer.
AcceptWithoutWaiting ==
  /\ Goto("accept", "lock")
  /\ UNCHANGED <<collecting, mutex, copies, consumer, results, spurious>>

\* One consumer is accepted, before the loop, also if it has left meanwhile.
AcceptConsumer ==
  /\ Goto("accept", "lock")
  /\ consumer # "out"
  /\ UNCHANGED <<collecting, mutex, copies, consumer, results, spurious>>

ProcessingLock ==
  /\ Goto("lock", "wait")
  /\ mutex = "nobody"
  /\ mutex' = "processing"
  /\ UNCHANGED <<collecting, copies, consumer, results, spurious>>

\* pthread_cond_timedwait: unlock and wait in one step, ...
Wait ==
  /\ Goto("wait", "waiting")
  /\ mutex' = "nobody"
  /\ UNCHANGED <<collecting, copies, consumer, results, spurious>>

Timeout ==
  /\ Goto("waiting", "relockTO")
  /\ UNCHANGED <<collecting, mutex, copies, consumer, results, spurious>>

SpuriousWakeup ==
  /\ spurious < MaxSpurious
  /\ spurious' = spurious + 1
  /\ Goto("waiting", "relock")
  /\ UNCHANGED <<collecting, mutex, copies, consumer, results>>

\* ... and return with the mutex locked.
Relock ==
  /\ Goto("relock", "copyfirst") \/ Goto("relockTO", "unlockTO")
  /\ mutex = "nobody"
  /\ mutex' = "processing"
  /\ UNCHANGED <<collecting, copies, consumer, results, spurious>>

\* Mutant: after a timeout the mutex stays locked.
KeepLockAfterTimeout ==
  /\ Goto("unlockTO", "lock")
  /\ UNCHANGED <<collecting, mutex, copies, consumer, results, spurious>>

UnlockAfterTimeout ==
  /\ Goto("unlockTO", "lock")
  /\ mutex' = "nobody"
  /\ UNCHANGED <<collecting, copies, consumer, results, spurious>>

\* memcpy of the SENSOR_DATA.
CopyFirst ==
  /\ Goto("copyfirst", "copyrest")
  /\ copyFirst' = first
  /\ UNCHANGED <<collecting, mutex, copyRest, consumer, results, spurious>>

CopyRest ==
  /\ Goto("copyrest", "unlock")
  /\ copyRest' = rest
  /\ UNCHANGED <<collecting, mutex, copyFirst, consumer, results, spurious>>

ProcessingUnlock ==
  /\ Goto("unlock", "send")
  /\ mutex' = "nobody"
  /\ UNCHANGED <<collecting, copies, consumer, results, spurious>>

\* The sum over the copy, as a result packet for the consumer; when it has
\* gone, udsSendMsg fails and the thread goes on.  The copy is dead afterwards:
\* the next wakeup overwrites all of it.
SendResult ==
  /\ Goto("send", "lock")
  /\ results' = IF consumer = "gone" THEN results
                ELSE Append(results, [first |-> copyFirst, rest |-> copyRest])
  /\ copyFirst' = Zeroes
  /\ copyRest' = Zeroes
  /\ UNCHANGED <<collecting, mutex, consumer, spurious>>

sensorProcessingThread ==
  \/ ListenForConsumer \/ AcceptConsumer \/ ProcessingLock \/ Wait \/ Timeout
  \/ SpuriousWakeup \/ Relock \/ UnlockAfterTimeout \/ CopyFirst \/ CopyRest
  \/ ProcessingUnlock \/ SendResult

-----------------------------------------------------------------------------
sensorSteps == \E c \in Conns : Connect(c) \/ SendSample(c) \/ Disconnect(c)

Next ==
  \/ sensorSteps
  \/ ConsumerConnect \/ ConsumerLeave
  \/ sensorCollectorThread
  \/ sensorProcessingThread

Spec == Init /\ [][Next]_vars

-----------------------------------------------------------------------------
(* Properties.                                                             *)

Samples == [Sensors -> 0 .. MaxSamples]

TypeOK ==
  /\ client \in [Conns -> {"out", "connected", "closed"}]
  /\ sent \in Samples
  /\ queue \in [Conns -> Seq(1 .. MaxSamples)]
  /\ backlog \in Seq(Conns)
  /\ owner \in [ClientFds -> Conns \cup {NoConn}]
  /\ consumer \in {"out", "connected", "gone"}
  /\ results \in Seq([first : Samples, rest : Samples])
  /\ cpc \in {"select", "scan", "lock", "first", "rest", "signal", "unlock"}
  /\ masterSet \subseteq {iServerSock} \cup ClientFds
  /\ readSet \subseteq masterSet
  /\ iMaxFd \in {iServerSock} \cup ClientFds
  /\ received \in {NoSample} \cup [conn : Conns, number : 1 .. MaxSamples]
  /\ stored \in [Conns -> 0 .. MaxSamples]
  /\ first \in Samples /\ rest \in Samples
  /\ mutex \in {"nobody", "collector", "processing"}
  /\ ppc \in {"listen", "accept", "lock", "wait", "waiting", "relock",
              "relockTO", "unlockTO", "copyfirst", "copyrest", "unlock",
              "send"}
  /\ copyFirst \in Samples /\ copyRest \in Samples
  /\ spurious \in 0 .. MaxSpurious

\* The descriptor sets of the loop agree with the connections, also while
\* sensors come, go and come back within one pass: every open connection is
\* in masterSet and within iMaxFd, every descriptor to be visited in this
\* pass is still open, and no connection has two.
SetsMatchConnections ==
  /\ masterSet = {iServerSock} \cup {f \in ClientFds : owner[f] # NoConn}
  /\ \A f \in masterSet : f <= iMaxFd
  /\ readSet \subseteq masterSet
  /\ \A f, g \in ClientFds : owner[f] = owner[g] /\ owner[f] # NoConn => f = g

\* process2 keeps the promise of FusionService.  A picture with halves of two
\* samples maps to sample -1, which the abstract specification never takes.
Whole(a, b) == [s \in Sensors |-> IF a[s] = b[s] THEN a[s] ELSE -1]

Promise == INSTANCE FusionService WITH
  seen    <- stored,
  latest  <- rest,
  taken   <- IF ppc \in {"unlock", "send"} THEN {Whole(copyFirst, copyRest)}
             ELSE {},
  left    <- consumer = "gone",
  results <- [i \in DOMAIN results |-> Whole(results[i].first, results[i].rest)]

KeepsPromise == Promise!Spec

\* The first sample that waits on a connection gets into the shared data,
\* also when the sensor disconnects at once, reconnects, or the consumer has
\* gone.
SampleStored ==
  \A c \in Conns : \A n \in 1 .. MaxSamples :
    (queue[c] # <<>> /\ Head(queue[c]) = n) ~> stored[c] = n

\* The descriptor of a connection that was closed is closed and leaves the
\* sets.
SensorReleased ==
  \A c \in Conns :
    client[c] = "closed" ~> \A f \in masterSet \ {iServerSock} : owner[f] # c
=============================================================================
