------------------------- MODULE SensorFusionProofs -------------------------
(***************************************************************************)
(* process2 for any number of connections, samples and spurious wakeups:   *)
(* TypeOK, SetsMatchConnections and the refinement of FusionService        *)
(* (KeepsPromise) of SensorFusion, by one inductive invariant.             *)
(***************************************************************************)
EXTENDS SensorFusion, SequenceTheorems, TLAPS

\* A connection waits in the backlog once, and then has one descriptor; what
\* this pass of the loop still accepts has not been taken from the backlog.
Backlogged ==
  /\ iServerSock \in readSet => backlog # <<>>
  /\ \A i \in DOMAIN backlog :
       /\ client[backlog[i]] # "out"
       /\ \A f \in ClientFds : owner[f] # backlog[i]
       /\ \A j \in DOMAIN backlog : backlog[i] = backlog[j] => i = j
  /\ \A f \in ClientFds : owner[f] # NoConn => client[owner[f]] # "out"

\* Who has the mutex can be told from where the threads are.
Locked ==
  /\ mutex = "collector" <=> cpc \in {"first", "rest", "signal", "unlock"}
  /\ mutex = "processing" <=>
       ppc \in {"wait", "copyfirst", "copyrest", "unlock", "unlockTO"}

\* The two halves of SENSOR_DATA differ only while the collector is between
\* them, and the copy is of one moment.
OnePicture ==
  /\ cpc \in {"lock", "first", "rest", "signal", "unlock"}
       => received.conn \in Conns
  /\ cpc # "rest" => first = rest
  /\ cpc = "rest" =>
       first = [rest EXCEPT ![SensorOf(received.conn)] = received.number]
  /\ ppc = "copyrest" => copyFirst = first
  /\ ppc \in {"unlock", "send"} => copyFirst = copyRest

\* The samples of a connection that are under way are newer than the one
\* stored last, and have been sent.
InOrder ==
  /\ \A c \in Conns : /\ stored[c] <= sent[SensorOf(c)]
                      /\ \A i \in DOMAIN queue[c] :
                           /\ stored[c] < queue[c][i]
                           /\ queue[c][i] <= sent[SensorOf(c)]
  /\ cpc \in {"lock", "first", "rest"} =>
       LET c == received.conn IN
         /\ stored[c] < received.number
         /\ received.number <= sent[SensorOf(c)]
         /\ \A i \in DOMAIN queue[c] : received.number < queue[c][i]

IInv == /\ TypeOK /\ SetsMatchConnections /\ Backlogged
        /\ Locked /\ OnePicture /\ InOrder

-----------------------------------------------------------------------------
(* Type correctness.                                                       *)

\* What the constants and the bookkeeping values are.
LEMMA Members ==
  /\ \A c \in Conns : c # NoConn /\ SensorOf(c) \in Sensors
  /\ \A f \in ClientFds : f \in Int /\ f # iServerSock
  /\ iServerSock \in Int
  /\ MaxSamples \in Nat /\ MaxSpurious \in Nat
  /\ Zeroes \in Samples
  BY SensorFusionAssumption DEF Sensors, NoConn, SensorOf, ClientFds,
     iServerSock, Zeroes, Samples

\* The initial states are of the right type.
LEMMA TypeInit == Init => TypeOK
  BY Members DEF Init, TypeOK, iServerSock

\* A sample that is to be stored belongs to a connection.
LEMMA ReceivedSample ==
  ASSUME IInv, cpc \in {"lock", "first", "rest", "signal", "unlock"}
  PROVE  /\ received.conn \in Conns
         /\ received.number \in 1 .. MaxSamples
         /\ SensorOf(received.conn) \in Sensors
  BY Members DEF IInv, TypeOK, OnePicture, NoSample

\* A descriptor that select has reported refers to a connection.
LEMMA ReportedConn ==
  ASSUME IInv, NEW f \in ClientFds, f \in readSet
  PROVE  owner[f] \in Conns
<1>1. /\ owner \in [ClientFds -> Conns \cup {NoConn}]
      /\ SetsMatchConnections
  BY DEF IInv, TypeOK
<1>2. owner[f] # NoConn
  BY <1>1, Members DEF SetsMatchConnections
<1>3. QED
  BY <1>1, <1>2

\* Every step keeps every variable in its type.
LEMMA TypeStep == IInv /\ [Next]_vars => TypeOK'
<1> SUFFICES ASSUME IInv, [Next]_vars
             PROVE  TypeOK'
  OBVIOUS
<1>0. TypeOK
  BY DEF IInv
<1> USE <1>0 DEF TypeOK, sensors, sockets, data, collector, copies, processing,
                 collecting
<1>1. ASSUME NEW c \in Conns, Connect(c) PROVE TypeOK'
  <2>1. backlog' \in Seq(Conns)
    BY <1>1, AppendProperties DEF Connect
  <2>2. QED
    BY <1>1, <2>1 DEF Connect
<1>2. ASSUME NEW c \in Conns, SendSample(c) PROVE TypeOK'
  <2>1. /\ SensorOf(c) \in Sensors
        /\ sent[SensorOf(c)] \in 0 .. MaxSamples
        /\ sent[SensorOf(c)] + 1 \in 1 .. MaxSamples
    BY <1>2, Members DEF SendSample, Samples
  <2>2. sent' \in Samples
    BY <1>2, <2>1 DEF SendSample, Samples
  <2>3. Append(queue[c], sent[SensorOf(c)] + 1) \in Seq(1 .. MaxSamples)
    BY <2>1, AppendProperties
  <2>4. queue' \in [Conns -> Seq(1 .. MaxSamples)]
    BY <1>2, <2>3 DEF SendSample
  <2>5. QED
    BY <1>2, <2>2, <2>4 DEF SendSample
<1>3. ASSUME NEW c \in Conns, Disconnect(c) PROVE TypeOK'
  BY <1>3 DEF Disconnect
<1>4. ASSUME Select PROVE TypeOK'
  BY <1>4 DEF Select, Ready
<1>5. ASSUME AcceptSensor PROVE TypeOK'
  <2>1. backlog # <<>> /\ Head(backlog) \in Conns /\ Tail(backlog) \in Seq(Conns)
    BY <1>5, HeadTailProperties DEF AcceptSensor, AtFd, IInv, Backlogged
  <2>2. PICK f \in ClientFds :
          /\ owner' = [owner EXCEPT ![f] = Head(backlog)]
          /\ masterSet' = masterSet \cup {f}
          /\ iMaxFd' = IF f > iMaxFd THEN f ELSE iMaxFd
    BY <1>5 DEF AcceptSensor
  <2>3. /\ owner' \in [ClientFds -> Conns \cup {NoConn}]
        /\ masterSet' \subseteq {iServerSock} \cup ClientFds
        /\ readSet' \subseteq masterSet'
        /\ iMaxFd' \in {iServerSock} \cup ClientFds
    BY <1>5, <2>1, <2>2 DEF AcceptSensor
  <2>4. QED
    BY <1>5, <2>1, <2>3 DEF AcceptSensor
<1>6. ASSUME NEW f \in ClientFds, ReceiveSample(f) PROVE TypeOK'
  <2>1. owner[f] \in Conns
    BY <1>6, ReportedConn DEF ReceiveSample, AtFd
  <2>2. Head(queue[owner[f]]) \in 1 .. MaxSamples
    BY <1>6, <2>1, HeadTailProperties DEF ReceiveSample
  <2>3. received' \in [conn : Conns, number : 1 .. MaxSamples]
    BY <1>6, <2>1, <2>2 DEF ReceiveSample
  <2>4. queue' \in [Conns -> Seq(1 .. MaxSamples)]
    BY <1>6, <2>1, EmptySeq DEF ReceiveSample
  <2>5. readSet' \subseteq masterSet'
    BY <1>6 DEF ReceiveSample
  <2>6. QED
    BY <1>6, <2>3, <2>4, <2>5 DEF ReceiveSample
<1>7. ASSUME NEW f \in ClientFds, SensorGone(f) PROVE TypeOK'
  BY <1>7 DEF SensorGone
<1>8. ASSUME EndOfScan \/ Lock PROVE TypeOK'
  BY <1>8 DEF EndOfScan, Lock
<1>9. ASSUME WriteFirst PROVE TypeOK'
  <2>1. received.number \in 0 .. MaxSamples
    BY <1>9, ReceivedSample DEF WriteFirst
  <2>2. first' \in Samples
    BY <1>9, <2>1 DEF WriteFirst, Samples
  <2>3. QED
    BY <1>9, <2>2 DEF WriteFirst
<1>10. ASSUME WriteRest PROVE TypeOK'
  <2>1. received.number \in 0 .. MaxSamples
    BY <1>10, ReceivedSample DEF WriteRest
  <2>2. rest' \in Samples /\ stored' \in [Conns -> 0 .. MaxSamples]
    BY <1>10, <2>1 DEF WriteRest, Samples
  <2>3. QED
    BY <1>10, <2>2 DEF WriteRest
<1>11. ASSUME Signal \/ Unlock PROVE TypeOK'
  BY <1>11 DEF Signal, Unlock
<1>12. ASSUME ConsumerConnect \/ ConsumerLeave PROVE TypeOK'
  BY <1>12 DEF ConsumerConnect, ConsumerLeave
<1>13. ASSUME ListenForConsumer \/ AcceptConsumer \/ ProcessingLock \/ Wait
                \/ Timeout \/ Relock \/ UnlockAfterTimeout \/ ProcessingUnlock
       PROVE  TypeOK'
  BY <1>13 DEF ListenForConsumer, AcceptConsumer, ProcessingLock, Wait, Timeout,
     Relock, UnlockAfterTimeout, ProcessingUnlock, Goto
<1>14. ASSUME SpuriousWakeup PROVE TypeOK'
  BY <1>14, Members DEF SpuriousWakeup, Goto
<1>15. ASSUME CopyFirst \/ CopyRest PROVE TypeOK'
  BY <1>15 DEF CopyFirst, CopyRest, Goto
<1>16. ASSUME SendResult PROVE TypeOK'
  <2>1. [first |-> copyFirst, rest |-> copyRest]
          \in [first : Samples, rest : Samples]
    OBVIOUS
  <2>2. results' \in Seq([first : Samples, rest : Samples])
    BY <1>16, <2>1, AppendProperties DEF SendResult
  <2>3. QED
    BY <1>16, <2>2, Members DEF SendResult, Goto
<1>17. CASE UNCHANGED vars
  BY <1>17 DEF vars
<1>18. QED
  BY <1>1, <1>2, <1>3, <1>4, <1>5, <1>6, <1>7, <1>8, <1>9, <1>10, <1>11, <1>12,
     <1>13, <1>14, <1>15, <1>16, <1>17
  DEF Next, sensorSteps, sensorCollectorThread, sensorProcessingThread

-----------------------------------------------------------------------------
(* The descriptor sets.                                                    *)

SocketInv == SetsMatchConnections /\ Backlogged

socketVars == <<client, backlog, owner, masterSet, readSet, iMaxFd>>

\* Every step keeps the descriptor sets and the backlog as they should be.
LEMMA SocketStep == IInv /\ [Next]_vars => SocketInv'
<1> SUFFICES ASSUME IInv, [Next]_vars
             PROVE  SocketInv'
  OBVIOUS
<1>0. /\ owner \in [ClientFds -> Conns \cup {NoConn}]
      /\ client \in [Conns -> {"out", "connected", "closed"}]
      /\ backlog \in Seq(Conns)
      /\ readSet \subseteq masterSet
      /\ iMaxFd \in Int /\ \A f \in ClientFds : f \in Int
      /\ iServerSock \in Int /\ iServerSock \notin ClientFds
      /\ \A c \in Conns : c # NoConn
      /\ SetsMatchConnections /\ Backlogged
  <2>1. /\ owner \in [ClientFds -> Conns \cup {NoConn}]
        /\ client \in [Conns -> {"out", "connected", "closed"}]
        /\ backlog \in Seq(Conns)
        /\ readSet \subseteq masterSet
        /\ iMaxFd \in {iServerSock} \cup ClientFds
        /\ SetsMatchConnections /\ Backlogged
    BY DEF IInv, TypeOK
  <2>2. QED
    BY <2>1, Members
<1> DEFINE Unowned == \A f, g \in ClientFds :
                        owner'[f] = owner'[g] /\ owner'[f] # NoConn => f = g
<1>1. ASSUME NEW c \in Conns, Connect(c) PROVE SocketInv'
  <2>1. /\ client[c] = "out"
        /\ client' = [client EXCEPT ![c] = "connected"]
        /\ backlog' = Append(backlog, c)
        /\ UNCHANGED <<owner, masterSet, readSet, iMaxFd>>
    BY <1>1 DEF Connect, sockets, collector
  <2>2. SetsMatchConnections'
    BY <1>0, <2>1 DEF SetsMatchConnections
  <2>3. /\ Len(backlog) \in Nat /\ DOMAIN backlog = 1 .. Len(backlog)
        /\ DOMAIN backlog' = 1 .. Len(backlog) + 1
        /\ backlog'[Len(backlog) + 1] = c
        /\ \A i \in DOMAIN backlog : backlog'[i] = backlog[i] /\ backlog[i] \in Conns
    BY <1>0, <2>1, AppendProperties, LenProperties, ElementOfSeq
  <2>4. /\ \A i \in DOMAIN backlog : backlog[i] # c
        /\ \A f \in ClientFds : owner[f] # c
    BY <1>0, <2>1, <2>3 DEF Backlogged
  <2>5. iServerSock \in readSet' => backlog' # <<>>
    BY <2>1, <1>0, AppendProperties
  <2>6. \A f \in ClientFds : owner'[f] # NoConn => client'[owner'[f]] # "out"
    BY <1>0, <2>1, <2>4 DEF Backlogged
  <2>7. ASSUME NEW i \in DOMAIN backlog'
        PROVE  /\ client'[backlog'[i]] # "out"
               /\ \A f \in ClientFds : owner'[f] # backlog'[i]
               /\ \A j \in DOMAIN backlog' : backlog'[i] = backlog'[j] => i = j
    <3>1. i \in DOMAIN backlog \/ i = Len(backlog) + 1
      BY <2>3
    <3>2. CASE i \in DOMAIN backlog
      BY <1>0, <2>1, <2>3, <2>4, <3>2 DEF Backlogged
    <3>3. CASE i = Len(backlog) + 1
      BY <1>0, <2>1, <2>3, <2>4, <3>3
    <3>4. QED
      BY <3>1, <3>2, <3>3
  <2>8. QED
    BY <2>2, <2>5, <2>6, <2>7 DEF SocketInv, Backlogged
<1>2. ASSUME NEW c \in Conns, Disconnect(c) PROVE SocketInv'
  <2>1. /\ client' = [client EXCEPT ![c] = "closed"]
        /\ UNCHANGED <<backlog, owner, masterSet, readSet, iMaxFd>>
    BY <1>2 DEF Disconnect, sockets, collector
  <2>2. \A d \in Conns : client[d] # "out" => client'[d] # "out"
    BY <1>0, <2>1
  <2>3. \A i \in DOMAIN backlog : backlog[i] \in Conns
    BY <1>0, ElementOfSeq, LenProperties
  <2>4. QED
    BY <1>0, <2>1, <2>2, <2>3 DEF SocketInv, SetsMatchConnections, Backlogged
<1>3. CASE Select
  <2>1. UNCHANGED <<client, backlog, owner, masterSet, iMaxFd>>
    BY <1>3 DEF Select, sensors, sockets
  <2>2. readSet' \subseteq masterSet /\ (iServerSock \in readSet' => backlog # <<>>)
    BY <1>3 DEF Select, Ready, HasInput
  <2>3. QED
    BY <1>0, <2>1, <2>2 DEF SocketInv, SetsMatchConnections, Backlogged
<1>4. CASE AcceptSensor
  <2>1. /\ backlog' = Tail(backlog) /\ readSet' = readSet \ {iServerSock}
        /\ UNCHANGED client /\ backlog # <<>>
    BY <1>0, <1>4 DEF AcceptSensor, AtFd, Backlogged
  <2>2. PICK f \in ClientFds :
          /\ owner[f] = NoConn
          /\ owner' = [owner EXCEPT ![f] = Head(backlog)]
          /\ masterSet' = masterSet \cup {f}
          /\ iMaxFd' = IF f > iMaxFd THEN f ELSE iMaxFd
    BY <1>4 DEF AcceptSensor
  <2> DEFINE c == backlog[1]
  <2>3. /\ Len(backlog) \in Nat /\ 1 \in DOMAIN backlog
        /\ DOMAIN backlog = 1 .. Len(backlog)
        /\ c \in Conns /\ Head(backlog) = c
        /\ DOMAIN backlog' = 1 .. Len(backlog) - 1
        /\ \A i \in DOMAIN backlog' : backlog'[i] = backlog[i + 1]
    BY <1>0, <2>1, HeadTailProperties, LenProperties, ElementOfSeq, EmptySeq
  <2>4. /\ client[c] # "out" /\ \A g \in ClientFds : owner[g] # c
        /\ \A i \in DOMAIN backlog : backlog[i] = c => i = 1
    BY <1>0, <2>3 DEF Backlogged
  <2>5. /\ owner'[f] = c
        /\ \A g \in ClientFds \ {f} : owner'[g] = owner[g]
    BY <1>0, <2>2, <2>3
  <2> HIDE DEF c
  <2>6. masterSet' = {iServerSock} \cup {g \in ClientFds : owner'[g] # NoConn}
    BY <1>0, <2>2, <2>3, <2>5 DEF SetsMatchConnections
  <2>7. \A g \in masterSet' : g <= iMaxFd'
    <3>1. \A g \in masterSet : g <= iMaxFd /\ g \in Int
      BY <1>0 DEF SetsMatchConnections
    <3>2. f \in Int
      BY <1>0
    <3>3. QED
      BY <1>0, <2>2, <3>1, <3>2
  <2>8. Unowned
    BY <1>0, <2>4, <2>5 DEF SetsMatchConnections
  <2>9. readSet' \subseteq masterSet' /\ iServerSock \notin readSet'
    BY <1>0, <2>1, <2>2 DEF SetsMatchConnections
  <2>10. \A g \in ClientFds : owner'[g] # NoConn => client'[owner'[g]] # "out"
    BY <1>0, <2>1, <2>4, <2>5 DEF Backlogged
  <2>11. ASSUME NEW i \in DOMAIN backlog'
         PROVE  /\ client'[backlog'[i]] # "out"
                /\ \A g \in ClientFds : owner'[g] # backlog'[i]
                /\ \A j \in DOMAIN backlog' : backlog'[i] = backlog'[j] => i = j
    <3>1. i \in Int /\ i + 1 \in DOMAIN backlog /\ i + 1 # 1
      BY <2>3
    <3>2. backlog'[i] = backlog[i + 1] /\ backlog[i + 1] # c
      BY <2>3, <2>4, <3>1
    <3>3. client'[backlog'[i]] # "out"
      BY <1>0, <2>1, <3>1, <3>2 DEF Backlogged
    <3>4. \A g \in ClientFds : owner'[g] # backlog'[i]
      BY <1>0, <2>5, <3>1, <3>2 DEF Backlogged
    <3>5. ASSUME NEW j \in DOMAIN backlog', backlog'[i] = backlog'[j] PROVE i = j
      <4>1. j \in Int /\ j + 1 \in DOMAIN backlog /\ backlog'[j] = backlog[j + 1]
        BY <2>3
      <4>2. i + 1 = j + 1
        BY <1>0, <3>1, <3>2, <3>5, <4>1 DEF Backlogged
      <4>3. QED
        BY <3>1, <4>1, <4>2
    <3>6. QED
      BY <3>3, <3>4, <3>5
  <2>12. QED
    BY <2>6, <2>7, <2>8, <2>9, <2>10, <2>11
    DEF SocketInv, SetsMatchConnections, Backlogged
<1>5. ASSUME NEW f \in ClientFds, ReceiveSample(f) PROVE SocketInv'
  <2>1. /\ UNCHANGED <<client, backlog, owner, masterSet, iMaxFd>>
        /\ readSet' = readSet \ {f}
    BY <1>5 DEF ReceiveSample, sockets
  <2>2. QED
    BY <1>0, <2>1 DEF SocketInv, SetsMatchConnections, Backlogged
<1>6. ASSUME NEW f \in ClientFds, SensorGone(f) PROVE SocketInv'
  <2>1. /\ UNCHANGED <<client, backlog, iMaxFd>>
        /\ owner' = [owner EXCEPT ![f] = NoConn]
        /\ masterSet' = masterSet \ {f} /\ readSet' = readSet \ {f}
    BY <1>6 DEF SensorGone, sensors
  <2>2. owner'[f] = NoConn /\ \A g \in ClientFds \ {f} : owner'[g] = owner[g]
    BY <1>0, <2>1
  <2>3. SetsMatchConnections'
    BY <1>0, <2>1, <2>2 DEF SetsMatchConnections
  <2>4. \A i \in DOMAIN backlog : backlog[i] \in Conns
    BY <1>0, ElementOfSeq, LenProperties
  <2>5. Backlogged'
    BY <1>0, <2>1, <2>2, <2>4 DEF Backlogged
  <2>6. QED
    BY <2>3, <2>5 DEF SocketInv
<1>7. CASE UNCHANGED socketVars
  BY <1>0, <1>7 DEF socketVars, SocketInv, SetsMatchConnections, Backlogged
<1>8. (\E c \in Conns : SendSample(c)) \/ EndOfScan \/ Lock \/ WriteFirst
        \/ WriteRest \/ Signal \/ Unlock \/ ConsumerConnect \/ ConsumerLeave
        \/ sensorProcessingThread \/ UNCHANGED vars
      => UNCHANGED socketVars
  BY DEF socketVars, vars, sensors, sockets, collector, collecting, SendSample,
     EndOfScan, Lock, WriteFirst, WriteRest, Signal, Unlock, ConsumerConnect,
     ConsumerLeave, sensorProcessingThread, ListenForConsumer, AcceptConsumer,
     ProcessingLock, Wait, Timeout, SpuriousWakeup, Relock, UnlockAfterTimeout,
     CopyFirst, CopyRest, ProcessingUnlock, SendResult
<1>9. QED
  BY <1>1, <1>2, <1>3, <1>4, <1>5, <1>6, <1>7, <1>8
  DEF Next, sensorSteps, sensorCollectorThread

-----------------------------------------------------------------------------
(* The mutex and the picture it protects.                                  *)

\* Every step keeps the mutex with the thread that is inside its section.
LEMMA LockStep == IInv /\ [Next]_vars => Locked'
<1> SUFFICES ASSUME IInv, [Next]_vars
             PROVE  Locked'
  OBVIOUS
<1>0. Locked
  BY DEF IInv
<1> USE <1>0 DEF Locked
<1> USE DEF sensors, sockets, data, collector, copies, processing, collecting
<1>1. CASE sensorSteps \/ ConsumerConnect \/ ConsumerLeave
  BY <1>1 DEF sensorSteps, Connect, SendSample, Disconnect, ConsumerConnect,
     ConsumerLeave
<1>2. CASE Select \/ EndOfScan \/ AcceptSensor
             \/ \E f \in ClientFds : ReceiveSample(f) \/ SensorGone(f)
  BY <1>2 DEF Select, EndOfScan, AcceptSensor, ReceiveSample, SensorGone, AtFd
<1>3. CASE Lock \/ WriteFirst \/ WriteRest
  BY <1>3 DEF Lock, WriteFirst, WriteRest
<1>4. CASE Signal \/ Unlock
  BY <1>4 DEF Signal, Unlock
<1>5. CASE ListenForConsumer \/ AcceptConsumer \/ ProcessingLock \/ Wait
             \/ Timeout \/ SpuriousWakeup
  BY <1>5 DEF ListenForConsumer, AcceptConsumer, ProcessingLock, Wait, Timeout,
     SpuriousWakeup, Goto
<1>6. CASE Relock \/ UnlockAfterTimeout \/ CopyFirst \/ CopyRest
             \/ ProcessingUnlock \/ SendResult
  BY <1>6 DEF Relock, UnlockAfterTimeout, CopyFirst, CopyRest,
     ProcessingUnlock, SendResult, Goto
<1>7. CASE UNCHANGED vars
  BY <1>7 DEF vars
<1>8. QED
  BY <1>1, <1>2, <1>3, <1>4, <1>5, <1>6, <1>7
  DEF Next, sensorCollectorThread, sensorProcessingThread

\* While the processing thread copies, the collector is not in its section.
LEMMA CopyAlone ==
  ASSUME IInv, ppc \in {"copyfirst", "copyrest"}
  PROVE  cpc \notin {"first", "rest", "signal", "unlock"}
  BY DEF IInv, Locked

\* Every step keeps the halves of SENSOR_DATA and of its copy together.
LEMMA PictureStep == IInv /\ [Next]_vars => OnePicture'
<1> SUFFICES ASSUME IInv, [Next]_vars
             PROVE  OnePicture'
  OBVIOUS
<1>0. OnePicture
  BY DEF IInv
<1> USE <1>0 DEF OnePicture
<1> USE DEF sensors, sockets, data, collector, copies, processing, collecting
<1>1. CASE sensorSteps \/ ConsumerConnect \/ ConsumerLeave
  BY <1>1 DEF sensorSteps, Connect, SendSample, Disconnect, ConsumerConnect,
     ConsumerLeave
<1>2. CASE Select \/ EndOfScan \/ AcceptSensor \/ (\E f \in ClientFds : SensorGone(f))
  BY <1>2 DEF Select, EndOfScan, AcceptSensor, SensorGone, AtFd
<1>3. ASSUME NEW f \in ClientFds, ReceiveSample(f) PROVE OnePicture'
  <2>1. owner[f] \in Conns
    BY <1>3, ReportedConn DEF ReceiveSample, AtFd
  <2>2. received'.conn \in Conns
    BY <1>3, <2>1 DEF ReceiveSample
  <2>3. QED
    BY <1>3, <2>2 DEF ReceiveSample, AtFd
<1>4. CASE Lock
  BY <1>4 DEF Lock
<1>5. CASE WriteFirst
  <2>1. ppc \notin {"copyfirst", "copyrest"}
    BY <1>5, CopyAlone DEF WriteFirst
  <2>2. QED
    BY <1>5, <2>1 DEF WriteFirst
<1>6. CASE WriteRest
  <2>1. ppc \notin {"copyfirst", "copyrest"}
    BY <1>6, CopyAlone DEF WriteRest
  <2>2. SensorOf(received.conn) \in Sensors
    BY <1>6, ReceivedSample DEF WriteRest
  <2>3. first' = rest'
    BY <1>6, <2>2 DEF WriteRest
  <2>4. QED
    BY <1>6, <2>1, <2>3 DEF WriteRest
<1>7. CASE Signal \/ Unlock
  BY <1>7 DEF Signal, Unlock
<1>8. CASE ListenForConsumer \/ AcceptConsumer \/ ProcessingLock \/ Wait
             \/ Timeout \/ SpuriousWakeup
  BY <1>8 DEF ListenForConsumer, AcceptConsumer, ProcessingLock, Wait, Timeout,
     SpuriousWakeup, Goto
<1>9. CASE Relock \/ UnlockAfterTimeout \/ CopyFirst \/ ProcessingUnlock
             \/ SendResult
  BY <1>9 DEF Relock, UnlockAfterTimeout, CopyFirst, ProcessingUnlock,
     SendResult, Goto
<1>10. CASE CopyRest
  <2>1. cpc # "rest"
    BY <1>10, CopyAlone DEF CopyRest, Goto
  <2>2. QED
    BY <1>10, <2>1 DEF CopyRest, Goto
<1>11. CASE UNCHANGED vars
  BY <1>11 DEF vars
<1>12. QED
  BY <1>1, <1>2, <1>3, <1>4, <1>5, <1>6, <1>7, <1>8, <1>9, <1>10, <1>11
  DEF Next, sensorCollectorThread, sensorProcessingThread

-----------------------------------------------------------------------------
(* The order of the samples of a connection.                               *)

\* Every step keeps what is under way newer than what is stored.
LEMMA OrderStep == IInv /\ [Next]_vars => InOrder'
<1> SUFFICES ASSUME IInv, [Next]_vars
             PROVE  InOrder'
  OBVIOUS
<1>0. /\ sent \in [Sensors -> 0 .. MaxSamples]
      /\ queue \in [Conns -> Seq(1 .. MaxSamples)]
      /\ stored \in [Conns -> 0 .. MaxSamples]
      /\ MaxSamples \in Nat
      /\ \A c \in Conns : SensorOf(c) \in Sensors
      /\ InOrder
  BY Members DEF IInv, TypeOK, Samples
<1>1. ASSUME NEW c \in Conns, SendSample(c) PROVE InOrder'
  <2> DEFINE n == sent[SensorOf(c)]
  <2>1. /\ sent' = [sent EXCEPT ![SensorOf(c)] = n + 1]
        /\ queue' = [queue EXCEPT ![c] = Append(@, n + 1)]
        /\ UNCHANGED <<stored, cpc, received>>
    BY <1>1 DEF SendSample, collector, data
  <2>2. n \in Nat /\ \A s \in Sensors : sent[s] \in Nat /\ sent[s] <= sent'[s]
    BY <1>0, <2>1
  <2>3. sent'[SensorOf(c)] = n + 1
    BY <1>0, <2>1
  <2>4. \A d \in Conns : \A i \in DOMAIN queue[d] : queue[d][i] \in Nat
    BY <1>0, ElementOfSeq, LenProperties
  <2>5. ASSUME NEW d \in Conns, NEW i \in DOMAIN queue'[d]
        PROVE  \/ i \in DOMAIN queue[d] /\ queue'[d][i] = queue[d][i]
               \/ d = c /\ queue'[d][i] = n + 1
    <3>1. CASE d # c
      BY <1>0, <2>1, <3>1
    <3>2. CASE d = c
      <4>1. queue'[d] = Append(queue[d], n + 1)
        BY <1>0, <2>1, <3>2
      <4>2. /\ Len(queue[d]) \in Nat /\ DOMAIN queue[d] = 1 .. Len(queue[d])
            /\ queue[d] \in Seq(Nat)
        BY <1>0, LenProperties
      <4>3. n + 1 \in Nat
        BY <2>2
      <4>4. /\ Len(queue'[d]) = Len(queue[d]) + 1
            /\ \A j \in 1 .. Len(queue[d]) : queue'[d][j] = queue[d][j]
            /\ queue'[d][Len(queue[d]) + 1] = n + 1
            /\ queue'[d] \in Seq(Nat)
        BY <4>1, <4>2, <4>3, AppendProperties
      <4>5. DOMAIN queue'[d] = 1 .. Len(queue[d]) + 1
        BY <4>4, LenProperties
      <4>6. QED
        BY <3>2, <4>2, <4>4, <4>5
    <3>3. QED
      BY <3>1, <3>2
  <2> HIDE DEF n
  <2>6. ASSUME NEW d \in Conns
        PROVE  /\ stored'[d] <= sent'[SensorOf(d)]
               /\ \A i \in DOMAIN queue'[d] :
                    /\ stored'[d] < queue'[d][i]
                    /\ queue'[d][i] <= sent'[SensorOf(d)]
    <3>1. stored[d] \in Nat /\ stored[d] <= sent[SensorOf(d)]
      BY <1>0 DEF InOrder
    <3>2. SensorOf(d) \in Sensors
      BY <1>0
    <3>3. sent'[SensorOf(d)] \in Nat
      BY <1>0, <2>1, <2>2, <3>2
    <3>4. stored'[d] <= sent'[SensorOf(d)]
      BY <2>1, <2>2, <3>1, <3>2, <3>3
    <3>5. ASSUME NEW i \in DOMAIN queue'[d]
          PROVE  stored'[d] < queue'[d][i] /\ queue'[d][i] <= sent'[SensorOf(d)]
      <4>1. CASE i \in DOMAIN queue[d] /\ queue'[d][i] = queue[d][i]
        <5>1. stored[d] < queue[d][i] /\ queue[d][i] <= sent[SensorOf(d)]
          BY <1>0, <4>1 DEF InOrder
        <5>2. QED
          BY <2>1, <2>2, <2>4, <3>1, <3>2, <3>3, <4>1, <5>1
      <4>2. CASE d = c /\ queue'[d][i] = n + 1
        BY <2>1, <2>2, <2>3, <3>1, <4>2 DEF n
      <4>3. QED
        BY <2>5, <4>1, <4>2
    <3>6. QED
      BY <3>4, <3>5
  <2>7. ASSUME cpc' \in {"lock", "first", "rest"}
        PROVE  LET d == received'.conn IN
                 /\ stored'[d] < received'.number
                 /\ received'.number <= sent'[SensorOf(d)]
                 /\ \A i \in DOMAIN queue'[d] : received'.number < queue'[d][i]
    <3> DEFINE d == received.conn
    <3>1. d \in Conns /\ received.number \in Nat /\ SensorOf(d) \in Sensors
      BY <2>1, <2>7, ReceivedSample
    <3>2. /\ stored[d] < received.number
          /\ received.number <= sent[SensorOf(d)]
          /\ \A i \in DOMAIN queue[d] : received.number < queue[d][i]
      BY <1>0, <2>1, <2>7 DEF InOrder
    <3> HIDE DEF d
    <3>3. sent'[SensorOf(d)] \in Nat
      BY <1>0, <2>1, <2>2, <3>1
    <3>4. received.number <= sent'[SensorOf(d)]
      BY <2>2, <3>1, <3>2, <3>3
    <3>5. \A i \in DOMAIN queue'[d] : received.number < queue'[d][i]
      BY <2>2, <2>5, <3>1, <3>2 DEF n
    <3>6. QED
      BY <2>1, <3>2, <3>4, <3>5 DEF d
  <2>8. QED
    BY <2>6, <2>7 DEF InOrder
<1>2. ASSUME NEW f \in ClientFds, ReceiveSample(f) PROVE InOrder'
  <2> DEFINE c == owner[f]
  <2>1. c \in Conns
    BY <1>2, ReportedConn DEF ReceiveSample, AtFd
  <2>2. /\ queue[c] # <<>>
        /\ received' = [conn |-> c, number |-> Head(queue[c])]
        /\ queue' = [queue EXCEPT ![c] = <<>>]
        /\ UNCHANGED <<sent, stored>>
    BY <1>2 DEF ReceiveSample, data
  <2> HIDE DEF c
  <2>3. 1 \in DOMAIN queue[c] /\ Head(queue[c]) = queue[c][1]
    BY <1>0, <2>1, <2>2, HeadTailProperties, LenProperties, EmptySeq
  <2>4. queue'[c] = <<>> /\ \A d \in Conns \ {c} : queue'[d] = queue[d]
    BY <1>0, <2>1, <2>2
  <2>5. DOMAIN queue'[c] = {}
    BY <2>4
  <2>6. /\ received'.conn = c /\ received'.number = queue[c][1]
        /\ stored[c] < queue[c][1] /\ queue[c][1] <= sent[SensorOf(c)]
    BY <1>0, <2>1, <2>2, <2>3 DEF InOrder
  <2>7. \A d \in Conns : /\ stored'[d] <= sent'[SensorOf(d)]
                         /\ \A i \in DOMAIN queue'[d] :
                              /\ stored'[d] < queue'[d][i]
                              /\ queue'[d][i] <= sent'[SensorOf(d)]
    BY <1>0, <2>2, <2>4, <2>5 DEF InOrder
  <2>8. QED
    BY <2>2, <2>5, <2>6, <2>7 DEF InOrder
<1>3. CASE WriteRest
  <2> DEFINE c == received.conn
  <2>1. c \in Conns /\ received.number \in Nat
    BY <1>3, ReceivedSample DEF WriteRest
  <2>2. /\ stored' = [stored EXCEPT ![c] = received.number]
        /\ cpc = "rest" /\ cpc' \in {"signal", "unlock"}
        /\ UNCHANGED <<sent, queue>>
    BY <1>3 DEF WriteRest, sensors
  <2>3. /\ received.number <= sent[SensorOf(c)]
        /\ \A i \in DOMAIN queue[c] : received.number < queue[c][i]
    BY <1>0, <2>2 DEF InOrder
  <2> HIDE DEF c
  <2>4. \A d \in Conns : /\ stored'[d] <= sent[SensorOf(d)]
                         /\ \A i \in DOMAIN queue[d] :
                              /\ stored'[d] < queue[d][i]
                              /\ queue[d][i] <= sent[SensorOf(d)]
    BY <1>0, <2>1, <2>2, <2>3 DEF InOrder
  <2>5. QED
    BY <2>2, <2>4 DEF InOrder
<1>4. CASE Lock \/ WriteFirst
  BY <1>0, <1>4 DEF Lock, WriteFirst, InOrder, sensors, data
<1>5. CASE /\ UNCHANGED <<sent, queue, stored, received, cpc>>
  BY <1>0, <1>5 DEF InOrder
<1>6. CASE Select \/ EndOfScan \/ Signal \/ Unlock
  <2>1. UNCHANGED <<sent, queue, stored>> /\ cpc' \notin {"lock", "first", "rest"}
    BY <1>6 DEF Select, EndOfScan, Signal, Unlock, sensors, data
  <2>2. QED
    BY <1>0, <2>1 DEF InOrder
<1>7. (\E c \in Conns : Connect(c) \/ Disconnect(c)) \/ AcceptSensor
        \/ (\E f \in ClientFds : SensorGone(f)) \/ ConsumerConnect
        \/ ConsumerLeave \/ sensorProcessingThread \/ UNCHANGED vars
      => UNCHANGED <<sent, queue, stored, received, cpc>>
  BY DEF vars, sensors, data, collector, collecting, Connect, Disconnect,
     AcceptSensor, SensorGone, ConsumerConnect, ConsumerLeave,
     sensorProcessingThread, ListenForConsumer, AcceptConsumer, ProcessingLock,
     Wait, Timeout, SpuriousWakeup, Relock, UnlockAfterTimeout, CopyFirst,
     CopyRest, ProcessingUnlock, SendResult
<1>8. QED
  BY <1>1, <1>2, <1>3, <1>4, <1>5, <1>6, <1>7
  DEF Next, sensorSteps, sensorCollectorThread

-----------------------------------------------------------------------------
(* The theorems.                                                           *)

\* The initial states satisfy the invariant.
LEMMA InvInit == Init => IInv
<1> SUFFICES ASSUME Init PROVE IInv
  OBVIOUS
<1>1. TypeOK
  BY TypeInit
<1>2. SetsMatchConnections
  BY DEF Init, SetsMatchConnections, iServerSock
<1>3. Backlogged /\ Locked /\ OnePicture
  BY DEF Init, Backlogged, Locked, OnePicture
<1>4. InOrder
  BY Members DEF Init, InOrder, Zeroes
<1>5. QED
  BY <1>1, <1>2, <1>3, <1>4 DEF IInv

\* IInv is inductive.
THEOREM Invariance == Spec => []IInv
<1>1. IInv /\ [Next]_vars => IInv'
  BY TypeStep, SocketStep, LockStep, PictureStep, OrderStep
  DEF IInv, SocketInv
<1>2. QED
  BY InvInit, <1>1, PTL DEF Spec

\* Type correctness: every variable of the collector, the processing thread,
\* the sensors and the consumer keeps its type.
THEOREM TypeCorrect == Spec => []TypeOK
<1>1. IInv => TypeOK
  BY DEF IInv
<1>2. QED
  BY <1>1, Invariance, PTL

\* However sensors come, go and come back while the loop visits descriptors,
\* its descriptor sets agree with the open connections.
THEOREM SetsMatch == Spec => []SetsMatchConnections
<1>1. IInv => SetsMatchConnections
  BY DEF IInv
<1>2. QED
  BY <1>1, Invariance, PTL

\* The two threads are never in SENSOR_DATA at the same time.
THEOREM MutualExclusion ==
  Spec => [](ppc \in {"copyfirst", "copyrest"} => cpc \notin {"first", "rest"})
<1>1. IInv => (ppc \in {"copyfirst", "copyrest"} => cpc \notin {"first", "rest"})
  BY CopyAlone
<1>2. QED
  BY <1>1, Invariance, PTL

-----------------------------------------------------------------------------
(* process2 implements FusionService.                                      *)

\* The picture of a result, and the pictures of all of them.
PictureOf(r) == Whole(r.first, r.rest)
Pictures(rs) == [i \in DOMAIN rs |-> PictureOf(rs[i])]

\* The picture the processing thread works on.
TakenNow == IF ppc \in {"unlock", "send"} THEN {Whole(copyFirst, copyRest)}
            ELSE {}

\* The variables the service's state is made of.
seenVars == <<stored, rest, TakenNow, consumer = "gone", results>>

\* Halves of the same samples make their picture.
LEMMA WholeOfSame == ASSUME NEW a \in Samples PROVE Whole(a, a) = a
  BY DEF Whole, Samples

\* One more result adds one more picture at the end.
LEMMA PicturesAppend ==
  ASSUME NEW T, NEW rs \in Seq(T), NEW r \in T
  PROVE  Pictures(Append(rs, r)) = Append(Pictures(rs), PictureOf(r))
<1> DEFINE S == {PictureOf(x) : x \in T}
<1>1. /\ Len(rs) \in Nat /\ DOMAIN rs = 1 .. Len(rs)
      /\ \A i \in 1 .. Len(rs) : rs[i] \in T
  BY LenProperties, ElementOfSeq
<1>2. PictureOf(r) \in S /\ \A i \in 1 .. Len(rs) : PictureOf(rs[i]) \in S
  BY <1>1
<1> HIDE DEF S
<1> HIDE DEF PictureOf
<1>3. /\ Pictures(rs) = [i \in 1 .. Len(rs) |-> PictureOf(rs[i])]
      /\ Pictures(rs) \in Seq(S) /\ Len(Pictures(rs)) = Len(rs)
  BY <1>1, <1>2, IsASeq DEF Pictures
<1>4. /\ Append(rs, r) \in Seq(T) /\ Len(Append(rs, r)) = Len(rs) + 1
      /\ \A i \in 1 .. Len(rs) : Append(rs, r)[i] = rs[i]
      /\ Append(rs, r)[Len(rs) + 1] = r
  BY <1>1, AppendProperties
<1>5. DOMAIN Append(rs, r) = 1 .. Len(rs) + 1
  BY <1>4, LenProperties
<1>6. \A i \in 1 .. Len(rs) + 1 : PictureOf(Append(rs, r)[i]) \in S
  BY <1>1, <1>2, <1>4
<1>7. /\ Pictures(Append(rs, r))
           = [i \in 1 .. Len(rs) + 1 |-> PictureOf(Append(rs, r)[i])]
      /\ Pictures(Append(rs, r)) \in Seq(S)
      /\ Len(Pictures(Append(rs, r))) = Len(rs) + 1
  BY <1>1, <1>5, <1>6, IsASeq DEF Pictures
<1>8. /\ Append(Pictures(rs), PictureOf(r)) \in Seq(S)
      /\ Len(Append(Pictures(rs), PictureOf(r))) = Len(rs) + 1
      /\ \A i \in 1 .. Len(rs) :
           Append(Pictures(rs), PictureOf(r))[i] = PictureOf(rs[i])
      /\ Append(Pictures(rs), PictureOf(r))[Len(rs) + 1] = PictureOf(r)
  BY <1>1, <1>2, <1>3, AppendProperties
<1>9. \A i \in 1 .. Len(rs) + 1 :
        Pictures(Append(rs, r))[i] = Append(Pictures(rs), PictureOf(r))[i]
  BY <1>1, <1>4, <1>7, <1>8
<1>10. QED
  BY <1>7, <1>8, <1>9, SeqEqual

\* The initial states are initial states of the service.
LEMMA ServiceInit == Init => Promise!Init
<1> SUFFICES ASSUME Init PROVE Promise!Init
  OBVIOUS
<1>1. [i \in DOMAIN results |-> Whole(results[i].first, results[i].rest)] = <<>>
  BY DEF Init
<1>2. QED
  BY <1>1 DEF Init, Promise!Init, Zeroes

\* A step that changes nothing of it is a step the service does not see.
LEMMA Stutter == UNCHANGED seenVars => UNCHANGED Promise!vars
  BY DEF seenVars, TakenNow, Promise!vars

\* WriteRest is the step that stores a sample.
LEMMA StoreStep == IInv /\ WriteRest => Promise!Next
<1> SUFFICES ASSUME IInv, WriteRest PROVE Promise!Next
  OBVIOUS
<1> DEFINE c == received.conn
           n == received.number
<1>1. c \in Conns /\ n \in 1 .. MaxSamples
  BY ReceivedSample DEF WriteRest
<1>2. stored[c] < n /\ stored[c] \in Nat
  BY <1>1 DEF WriteRest, IInv, InOrder, TypeOK
<1>3. n \in stored[c] + 1 .. MaxSamples
  BY <1>1, <1>2, Members
<1>4. /\ stored' = [stored EXCEPT ![c] = n]
      /\ rest' = [rest EXCEPT ![c[1]] = n]
      /\ UNCHANGED <<ppc, copyFirst, copyRest, consumer, results>>
  BY DEF WriteRest, SensorOf, processing
<1> HIDE DEF c, n
<1>5. Promise!Sample(c)
  BY <1>3, <1>4 DEF Promise!Sample
<1>6. QED
  BY <1>1, <1>5 DEF Promise!Next

\* CopyRest is the step that takes a picture: the collector is not between
\* the two halves, so that both were copied of one moment.
LEMMA TakeStep == IInv /\ CopyRest => Promise!Next
<1> SUFFICES ASSUME IInv, CopyRest PROVE Promise!Next
  OBVIOUS
<1>1. /\ ppc = "copyrest" /\ ppc' = "unlock"
      /\ copyRest' = rest /\ copyFirst' = copyFirst
      /\ UNCHANGED <<stored, rest, consumer, results>>
  BY DEF CopyRest, Goto, collecting, data
<1>2. copyFirst = rest
  BY <1>1, CopyAlone DEF IInv, OnePicture
<1>3. Whole(copyFirst', copyRest') = rest
  BY <1>1, <1>2, WholeOfSame DEF IInv, TypeOK
<1>4. Promise!Take
  BY <1>1, <1>3 DEF Promise!Take
<1>5. QED
  BY <1>4 DEF Promise!Next

\* SendResult is the step that publishes it, to a consumer that is there.
LEMMA PublishStep == IInv /\ SendResult => Promise!Next
<1> SUFFICES ASSUME IInv, SendResult PROVE Promise!Next
  OBVIOUS
<1> DEFINE r == [first |-> copyFirst, rest |-> copyRest]
<1>1. /\ ppc = "send" /\ ppc' = "lock"
      /\ results' = IF consumer = "gone" THEN results ELSE Append(results, r)
      /\ UNCHANGED <<stored, rest, consumer>>
  BY DEF SendResult, Goto, collecting, data
<1>2. /\ results \in Seq([first : Samples, rest : Samples])
      /\ r \in [first : Samples, rest : Samples]
  BY DEF IInv, TypeOK
<1>3. Pictures(Append(results, r)) = Append(Pictures(results), PictureOf(r))
  BY <1>2, PicturesAppend
<1>4. PictureOf(r) = Whole(copyFirst, copyRest)
  BY DEF PictureOf
<1> HIDE DEF r
<1>5. Pictures(results') = IF consumer = "gone" THEN Pictures(results)
                           ELSE Append(Pictures(results), PictureOf(r))
  BY <1>1, <1>3
<1>6. Promise!Publish
  BY <1>1, <1>4, <1>5 DEF Promise!Publish, Pictures, PictureOf
<1>7. QED
  BY <1>6 DEF Promise!Next

\* Every step is a step of the service, or none.
LEMMA ServiceStep == IInv /\ [Next]_vars => [Promise!Next]_(Promise!vars)
<1> SUFFICES ASSUME IInv, [Next]_vars
             PROVE  Promise!Next \/ UNCHANGED Promise!vars
  OBVIOUS
<1> USE DEF sensors, data, collecting, processing, copies
<1>1. CASE WriteRest
  BY <1>1, StoreStep
<1>2. CASE CopyRest
  BY <1>2, TakeStep
<1>3. CASE SendResult
  BY <1>3, PublishStep
<1>4. CASE ConsumerLeave
  <2>1. Promise!Leave
    BY <1>4 DEF ConsumerLeave, Promise!Leave
  <2>2. QED
    BY <2>1 DEF Promise!Next
<1>5. CASE sensorSteps \/ ConsumerConnect
  BY <1>5, Stutter DEF sensorSteps, Connect, SendSample, Disconnect,
     ConsumerConnect, seenVars, TakenNow
<1>6. CASE Select \/ EndOfScan \/ AcceptSensor
             \/ (\E f \in ClientFds : ReceiveSample(f) \/ SensorGone(f))
             \/ Lock \/ WriteFirst \/ Signal \/ Unlock
  BY <1>6, Stutter DEF Select, EndOfScan, AcceptSensor, ReceiveSample,
     SensorGone, Lock, WriteFirst, Signal, Unlock, seenVars, TakenNow
<1>7. CASE ListenForConsumer \/ AcceptConsumer \/ ProcessingLock \/ Wait
             \/ Timeout \/ SpuriousWakeup
  BY <1>7, Stutter DEF ListenForConsumer, AcceptConsumer, ProcessingLock, Wait,
     Timeout, SpuriousWakeup, Goto, seenVars, TakenNow
<1>8. CASE Relock \/ UnlockAfterTimeout \/ CopyFirst \/ ProcessingUnlock
  BY <1>8, Stutter DEF Relock, UnlockAfterTimeout, CopyFirst,
     ProcessingUnlock, Goto, seenVars, TakenNow
<1>9. CASE UNCHANGED vars
  BY <1>9, Stutter DEF vars, seenVars, TakenNow
<1>10. QED
  BY <1>1, <1>2, <1>3, <1>4, <1>5, <1>6, <1>7, <1>8, <1>9
  DEF Next, sensorCollectorThread, sensorProcessingThread

\* process2 keeps its promise: each result is computed from one picture of the
\* latest samples of all sensors, a connection's samples never run backwards,
\* and only a consumer that has left misses a result.
THEOREM Implements == Spec => KeepsPromise
  BY ServiceInit, ServiceStep, Invariance, PTL DEF Spec, Promise!Spec, KeepsPromise
=============================================================================
