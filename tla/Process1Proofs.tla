--------------------------- MODULE Process1Proofs ---------------------------
(***************************************************************************)
(* Safety of the slot table of process1 for any number of slots, clients,  *)
(* requests and spurious wakeups, any chunking of the stream and any       *)
(* pipelining: TypeOK, ReceiverOwnsSlot, NoDescriptorLeak and SlotHandover *)
(* of Process1 by one inductive invariant, and TurnedAwayWhenFull by a     *)
(* second one on top of it.                                                *)
(***************************************************************************)
EXTENDS Process1, TLAPS

\* The receive thread of c ended with its descriptor open.
Lost(c) == rpc[c] = "done" /\ \E f \in Fds : owner[f] = c

\* The receive thread of c still has, or has lost, its descriptor in its slot.
HoldsSlot(c) == Serving(c) \/ rpc[c] = "clear" \/ Lost(c)

\* Threads know their slot; main knows the client and the slot it works on.
KnownSlots ==
  /\ \A c \in Conns : rpc[c] # "none" \/ spc[c] # "none" => slotOf[c] \in Slots
  /\ mpc # "select" => newConn \in Conns /\ peer[newConn] # "new"
  /\ mpc \in {"init", "flag", "mkrecv"} => scan \in Slots
  /\ mpc = "mksend" => slotOf[newConn] \in Slots

\* A slot whose receive thread has not left it holds that thread's
\* descriptor, and no other receive thread is in it.
SlotsHeld ==
  \A c \in Conns : HoldsSlot(c) =>
    /\ fdOf[c] \in Fds
    /\ iClientSock[slotOf[c]] = fdOf[c]
    /\ \A d \in Conns \ {c} : HoldsSlot(d) => slotOf[d] # slotOf[c]

\* Until its receive thread closes it, the descriptor is the connection's.
FdsOwned == \A c \in Conns : Serving(c) => owner[fdOf[c]] = c

\* The connection main is placing has no receive thread yet, and its slot,
\* once taken, has no receive thread in it.
Placing ==
  /\ mpc \in {"scan", "init", "flag", "mkrecv"} =>
       /\ rpc[newConn] = "none"
       /\ fdOf[newConn] \in Fds
       /\ owner[fdOf[newConn]] = newConn
  /\ mpc \in {"init", "flag", "mkrecv"} =>
       /\ iClientSock[scan] = fdOf[newConn]
       /\ \A c \in Conns : HoldsSlot(c) => slotOf[c] # scan

\* A connection has at most the descriptor that accept gave it.
OneFdEach ==
  /\ \A c \in Conns : peer[c] = "new" => rpc[c] = "none"
  /\ \A f \in Fds : owner[f] # NoConn =>
       fdOf[owner[f]] = f /\ peer[owner[f]] # "new"

\* The receive thread has closed its descriptor on the way out.
Closed ==
  \A c \in Conns :
    rpc[c] \in {"clear", "flag"} \/ (rpc[c] = "done" /\ peer[c] # "reset")
      => \A f \in Fds : owner[f] # c

SlotInv == /\ KnownSlots /\ SlotsHeld /\ FdsOwned /\ Placing
           /\ OneFdEach /\ Closed

IInv == TypeOK /\ SlotInv
-----------------------------------------------------------------------------
(* Type correctness is preserved.                                          *)

\* The members of the sets that TypeOK uses.
LEMMA Members ==
  /\ NoReply \in Replies
  /\ NoThread \in Threads
  /\ \A c \in Conns : Recv(c) \in Threads /\ Send(c) \in Threads
  /\ \A c \in Conns, n \in 1 .. MaxReq : <<c, n>> \in Replies
  /\ \A c \in Conns : c # NoConn /\ c \in Int
  /\ \A f \in Fds : f # NoFd /\ f \in Int
  /\ Slots \subseteq 1 .. MAX_CLIENTS + 1 /\ MAX_CLIENTS \in Nat
  /\ 1 \in Slots
  /\ NothingFound \in [Slots -> Fds \cup {NoFd}]
  BY Process1Assumption DEF Replies, Threads, Conns, Fds, Slots, NoFd, NoConn,
     NothingFound

\* The initial states are of the right type.
LEMMA TypeInit == Init => TypeOK
<1> USE Process1Assumption DEF Conns, Slots, Fds, NoFd, NoConn, NoSlot,
   NoReply,
        Replies, NoThread, Threads, NothingFound
<1>1. QED
  BY DEF Init, TypeOK, MainPCs, RecvPCs, SendPCs

\* Every step keeps every variable in its type.
LEMMA TypeStep == IInv /\ [Next]_vars => TypeOK'
<1> SUFFICES ASSUME IInv, [Next]_vars
             PROVE  TypeOK'
  OBVIOUS
<1> USE Members DEF IInv, SlotInv, TypeOK, MainPCs, RecvPCs, SendPCs, net,
        main, outside, slots, shared, receiver, locals, sender
<1>1. ASSUME Accept PROVE TypeOK'
  <2>1. PICK c \in Conns, f \in FreeFds :
          /\ peer' = [peer EXCEPT ![c] = "open"]
          /\ owner' = [owner EXCEPT ![f] = c]
          /\ fdOf' = [fdOf EXCEPT ![c] = f]
          /\ newConn' = c
    BY <1>1 DEF Accept
  <2>2. f \in Fds /\ f # NoFd
    BY <2>1 DEF FreeFds
  <2>3. scan' = 1 /\ scan' \in 1 .. MAX_CLIENTS + 1
    BY <1>1 DEF Accept
  <2>4. QED
    BY <1>1, <2>1, <2>2, <2>3 DEF Accept
<1>2. ASSUME ScanUsedSlot PROVE TypeOK'
  <2>1. scan' \in 1 .. MAX_CLIENTS + 1
    BY ONLY <1>2, Members DEF ScanUsedSlot, Slots
  <2>2. QED
    BY <1>2, <2>1 DEF ScanUsedSlot
<1>3. ASSUME ScanFoundNone PROVE TypeOK'
  BY <1>3 DEF ScanFoundNone
<1>4. ASSUME TakeSlot PROVE TypeOK'
  BY <1>4 DEF TakeSlot, KnownSlots
<1>5. ASSUME InitMutex PROVE TypeOK'
  BY <1>5 DEF InitMutex
<1>6. ASSUME ClearExitFlag PROVE TypeOK'
  BY <1>6 DEF ClearExitFlag
<1>7. ASSUME CreateReceiveThread PROVE TypeOK'
  BY <1>7 DEF CreateReceiveThread, KnownSlots
<1>8. ASSUME CreateSendThread PROVE TypeOK'
  BY <1>8 DEF CreateSendThread
<1>9. ASSUME NEW c \in Conns, SendRequest(c) PROVE TypeOK'
  <2>1. sent' \in [Conns -> 0 .. MaxReq]
    BY ONLY <1>9, sent \in [Conns -> 0 .. MaxReq], Process1Assumption
    DEF SendRequest
  <2>2. QED
    BY <1>9, <2>1 DEF SendRequest
<1>10. ASSUME NEW c \in Conns, EndConnection(c) PROVE TypeOK'
  <2>1. peer' \in [Conns -> {"new", "open", "closed", "reset"}]
    <3>1. PICK e \in PeerEnds : peer' = [peer EXCEPT ![c] = e]
      BY <1>10 DEF EndConnection
    <3>2. e \in {"closed", "reset"}
      BY ONLY Process1Assumption, e \in PeerEnds
    <3>3. QED
      BY <3>1, <3>2
  <2>2. QED
    BY <1>10, <2>1 DEF EndConnection
<1>11. ASSUME NEW c \in Conns, RecvStart(c) PROVE TypeOK'
  BY <1>11 DEF RecvStart, RecvGoto, HasPeerName, Reached, SockOf
<1>12. ASSUME NEW c \in Conns, RecvData(c) PROVE TypeOK'
  <2> DEFINE d == Reached(c)
  <2>1. PICK k \in ChunkSizes :
          /\ read[d] + k <= FrameLen * sent[d]
          /\ read' = [read EXCEPT ![d] = @ + k]
          /\ IF IsWholeFrame(d, k)
               THEN /\ resp' = [resp EXCEPT ![c] =
                                  <<d, (read[d] + k) \div FrameLen>>]
                    /\ rpc' = [rpc EXCEPT ![c] = "lock"]
               ELSE UNCHANGED receiver
    BY <1>12 DEF RecvData
  <2>2. d \in Conns
    <3>1. slotOf[c] \in Slots
      BY <1>12 DEF RecvData, KnownSlots
    <3>2. SockOf(c) \in Fds \cup {NoFd}
      BY <3>1 DEF SockOf
    <3>3. QED
      BY <1>12, <3>2 DEF RecvData, Reached
  <2>3. read[d] \in Nat /\ k \in Nat /\ k > 0 /\ sent[d] \in 0 .. MaxReq
        /\ MaxReq \in Nat
    BY <2>2, Process1Assumption
  <2>4. read' \in [Conns -> Nat]
    <3>1. read[d] + k \in Nat
      BY ONLY <2>3
    <3>2. read' = [read EXCEPT ![d] = @ + k]
      BY <2>1
    <3>3. read \in [Conns -> Nat]
      OBVIOUS
    <3>4. QED
      BY ONLY <3>1, <3>2, <3>3
  <2>5. IsWholeFrame(d, k) => (read[d] + k) \div FrameLen \in 1 .. MaxReq
    BY ONLY <2>1, <2>3 DEF IsWholeFrame, FrameLen
  <2>6. rpc' \in [Conns -> RecvPCs] /\ resp' \in [Conns -> Replies]
    <3>1. CASE IsWholeFrame(d, k)
      <4>1. <<d, (read[d] + k) \div FrameLen>> \in Replies
        BY ONLY Members, <2>2, <2>5, <3>1
      <4>2. /\ resp' = [resp EXCEPT ![c] = <<d, (read[d] + k) \div FrameLen>>]
            /\ rpc' = [rpc EXCEPT ![c] = "lock"]
        BY ONLY <2>1, <3>1
      <4>3. resp \in [Conns -> Replies] /\ rpc \in [Conns -> RecvPCs]
        BY ONLY TypeOK DEF TypeOK
      <4>4. resp' \in [Conns -> Replies]
        <5> DEFINE r == <<d, (read[d] + k) \div FrameLen>>
        <5>1. r \in Replies /\ resp' = [resp EXCEPT ![c] = r]
          BY ONLY <4>1, <4>2
        <5> HIDE DEF r
        <5>2. QED
          BY ONLY <4>3, <5>1
      <4>5. rpc' \in [Conns -> RecvPCs]
        BY ONLY <4>2, <4>3 DEF RecvPCs
      <4>6. QED
        BY ONLY <4>4, <4>5
    <3>2. CASE ~IsWholeFrame(d, k)
      BY <2>1, <3>2
    <3>3. QED
      BY <3>1, <3>2
  <2>7. QED
    BY <1>12, <2>4, <2>6 DEF RecvData
<1>13. ASSUME NEW c \in Conns, RecvEof(c) PROVE TypeOK'
  BY <1>13 DEF RecvEof, RecvGoto, Reached, SockOf
<1>14. ASSUME NEW c \in Conns, RecvLock(c) PROVE TypeOK'
  BY <1>14 DEF RecvLock, RecvGoto
<1>15. ASSUME NEW c \in Conns, RecvStoreData(c) PROVE TypeOK'
  BY <1>15 DEF RecvStoreData, RecvGoto
<1>16. ASSUME NEW c \in Conns, RecvStoreSize(c) PROVE TypeOK'
  BY <1>16 DEF RecvStoreSize, RecvGoto
<1>17. ASSUME NEW c \in Conns, RecvSignal(c) PROVE TypeOK'
  BY <1>17 DEF RecvSignal, RecvGoto, Waiters
<1>18. ASSUME NEW c \in Conns, RecvUnlock(c) PROVE TypeOK'
  BY <1>18 DEF RecvUnlock, RecvGoto
<1>19. ASSUME NEW c \in Conns, RecvClose(c) PROVE TypeOK'
  BY <1>19 DEF RecvClose, RecvGoto, SockOf
<1>20. ASSUME NEW c \in Conns, RecvClearSock(c) PROVE TypeOK'
  BY <1>20 DEF RecvClearSock, RecvGoto
<1>21. ASSUME NEW c \in Conns, RecvSetExitFlag(c) PROVE TypeOK'
  BY <1>21 DEF RecvSetExitFlag, RecvGoto
<1>22. ASSUME NEW c \in Conns, SendStart(c) PROVE TypeOK'
  BY <1>22 DEF SendStart, SendGoto, HasPeerName
<1>23. ASSUME NEW c \in Conns, SendCheckExit(c) PROVE TypeOK'
  BY <1>23 DEF SendCheckExit, SendGoto
<1>24. ASSUME NEW c \in Conns, SendWait(c) PROVE TypeOK'
  BY <1>24 DEF SendWait, SendGoto
<1>25. ASSUME NEW c \in Conns, SendTimeout(c) PROVE TypeOK'
  BY <1>25 DEF SendTimeout, SendGoto
<1>26. ASSUME NEW c \in Conns, SendSpuriousWakeup(c) PROVE TypeOK'
  <2>1. spurious' \in 0 .. MaxSpurious
    BY ONLY <1>26, spurious \in 0 .. MaxSpurious, Process1Assumption
    DEF SendSpuriousWakeup
  <2>2. QED
    BY <1>26, <2>1 DEF SendSpuriousWakeup, SendGoto
<1>27. ASSUME NEW c \in Conns, SendRelock(c) PROVE TypeOK'
  BY <1>27 DEF SendRelock, SendGoto
<1>28. ASSUME NEW c \in Conns, SendCopySize(c) PROVE TypeOK'
  BY <1>28 DEF SendCopySize, SendGoto, KnownSlots
<1>29. ASSUME NEW c \in Conns, SendCopyData(c) PROVE TypeOK'
  BY <1>29 DEF SendCopyData, SendGoto, KnownSlots
<1>30. ASSUME NEW c \in Conns, SendUnlock(c) PROVE TypeOK'
  BY <1>30 DEF SendUnlock, SendGoto
<1>31. ASSUME NEW c \in Conns, SendReadSock(c) PROVE TypeOK'
  BY <1>31 DEF SendReadSock, SendGoto, SockOf, KnownSlots
<1>32. ASSUME NEW c \in Conns, SendMessage(c) PROVE TypeOK'
  <2> DEFINE d == owner[sfd[c]]
             m == [size |-> bufSize[c], data |-> bufData[c]]
  <2>1. m \in [size : Replies, data : Replies]
    OBVIOUS
  <2>2. d \in Conns \cup {NoConn}
    OBVIOUS
  <2>3. CASE replies' = [replies EXCEPT ![d] = Append(@, m)] /\ d # NoConn
    <3>1. Append(replies[d], m) \in Seq([size : Replies, data : Replies])
      <4> HIDE DEF m
      <4>1. replies[d] \in Seq([size : Replies, data : Replies])
        BY <2>2, <2>3
      <4>2. QED
        BY ONLY <2>1, <4>1
    <3>2. replies' \in [Conns -> Seq([size : Replies, data : Replies])]
      BY <2>3, <3>1
    <3>3. QED
      BY <1>32, <3>2 DEF SendMessage, SendGoto
  <2>4. CASE UNCHANGED replies
    BY <1>32, <2>4 DEF SendMessage, SendGoto
  <2>5. QED
    BY <1>32, <2>3, <2>4 DEF SendMessage
<1>33. ASSUME NEW c \in Conns, SendLeave(c) PROVE TypeOK'
  BY <1>33 DEF SendLeave, SendGoto
<1>34. ASSUME UNCHANGED vars PROVE TypeOK'
  BY <1>34 DEF vars
<1>35. QED
  BY <1>1, <1>2, <1>3, <1>4, <1>5, <1>6, <1>7, <1>8, <1>9, <1>10, <1>11, <1>12,
     <1>13, <1>14, <1>15, <1>16, <1>17, <1>18, <1>19, <1>20, <1>21, <1>22,
     <1>23, <1>24, <1>25, <1>26, <1>27, <1>28, <1>29, <1>30, <1>31, <1>32,
     <1>33, <1>34
  DEF Next, mainLoop, receiveThread, sendThread
-----------------------------------------------------------------------------
(* The slots.                                                              *)

\* What TypeOK says of the variables that SlotInv speaks of.
CoreTypes ==
  /\ peer \in [Conns -> {"new", "open", "closed", "reset"}]
  /\ owner \in [Fds \cup {NoFd} -> Conns \cup {NoConn}]
  /\ fdOf \in [Conns -> Fds \cup {NoFd}]
  /\ iClientSock \in [Slots -> Fds \cup {NoFd}]
  /\ slotOf \in [Conns -> Slots \cup {NoSlot}]
  /\ rpc \in [Conns -> RecvPCs]
  /\ spc \in [Conns -> SendPCs]
  /\ NoConn \notin Conns /\ NoFd \notin Fds

\* The variables that SlotInv speaks of, without the program counters of the
\* threads of a connection.
coreVars == <<peer, owner, mpc, newConn, fdOf, scan, iClientSock, slotOf>>

\* No send thread starts in this step.
NoNewSender == \A c \in Conns : spc'[c] # "none" => spc[c] # "none"

\* Constants and types make up CoreTypes.
LEMMA TypesOfCore == TypeOK => CoreTypes
  BY Members DEF TypeOK, CoreTypes

\* A receive thread at work reaches its own connection: the descriptor in its
\* slot is the one accept returned for it, and still refers to it.
LEMMA ReachesOwn ==
  ASSUME IInv, NEW c \in Conns, Serving(c)
  PROVE  /\ slotOf[c] \in Slots
         /\ fdOf[c] \in Fds
         /\ SockOf(c) = fdOf[c]
         /\ Reached(c) = c
  BY DEF IInv, SlotInv, KnownSlots, SlotsHeld, FdsOwned, HoldsSlot, Lost,
         Serving, SockOf, Reached

\* A step that moves no receive thread and leaves main, the kernel and the
\* table alone preserves the slot invariant.
LEMMA QuietStep ==
  ASSUME SlotInv, UNCHANGED coreVars, UNCHANGED rpc, NoNewSender
  PROVE  SlotInv'
<1> USE DEF coreVars, Serving, HoldsSlot, Lost
<1>1. KnownSlots'
  BY DEF SlotInv, KnownSlots, NoNewSender
<1>2. SlotsHeld'
  BY DEF SlotInv, SlotsHeld
<1>3. FdsOwned'
  BY DEF SlotInv, FdsOwned
<1>4. Placing'
  BY DEF SlotInv, Placing
<1>5. OneFdEach'
  BY DEF SlotInv, OneFdEach
<1>6. Closed'
  BY DEF SlotInv, Closed
<1>7. QED
  BY <1>1, <1>2, <1>3, <1>4, <1>5, <1>6 DEF SlotInv

\* So does a step of a receive thread within the part of the loop where it
\* serves its connection.
LEMMA ServingStep ==
  ASSUME IInv, NEW c \in Conns, NEW pc, Serving(c),
         rpc' = [rpc EXCEPT ![c] = pc], Serving(c)',
         UNCHANGED coreVars, NoNewSender
  PROVE  SlotInv'
<1> USE DEF IInv, SlotInv, coreVars
<1>1. CoreTypes
  BY TypesOfCore
<1>2. \A d \in Conns : /\ Serving(d)' <=> Serving(d)
                       /\ HoldsSlot(d)' <=> HoldsSlot(d)
                       /\ d # c => rpc'[d] = rpc[d]
  BY <1>1 DEF CoreTypes, Serving, HoldsSlot, Lost
<1>3. rpc[c] # "none"
  BY DEF Serving
<1>4. /\ rpc'[c] \notin {"clear", "flag", "done"} /\ rpc'[c] # "none"
  BY DEF Serving
<1>5. KnownSlots'
  BY <1>1, <1>2, <1>3, <1>4 DEF KnownSlots, NoNewSender
<1>6. SlotsHeld'
  BY <1>1, <1>2, <1>3, <1>4 DEF SlotsHeld
<1>7. FdsOwned'
  BY <1>1, <1>2, <1>3, <1>4 DEF FdsOwned
<1>8. Placing'
  BY <1>1, <1>2, <1>3, <1>4 DEF Placing
<1>9. OneFdEach'
  BY <1>1, <1>2, <1>3, <1>4 DEF OneFdEach
<1>10. Closed'
  BY <1>1, <1>2, <1>3, <1>4 DEF Closed
<1>11. QED
  BY <1>5, <1>6, <1>7, <1>8, <1>9, <1>10

\* Every step preserves the slot invariant.
LEMMA SlotStep == IInv /\ [Next]_vars => SlotInv'
<1> SUFFICES ASSUME IInv, [Next]_vars
             PROVE  SlotInv'
  OBVIOUS
<1>0. CoreTypes
  BY TypesOfCore DEF IInv
<1> USE DEF net, main, outside, slots, receiver, sender, locals
<1>1. ASSUME Accept PROVE SlotInv'
  <2> USE <1>0, <1>1 DEF IInv, SlotInv, CoreTypes, Serving, HoldsSlot, Lost,
     Accept, FreeFds
  <2>1. KnownSlots'
    BY DEF KnownSlots
  <2>2. SlotsHeld'
    BY DEF SlotsHeld, OneFdEach
  <2>3. FdsOwned'
    BY DEF FdsOwned
  <2>4. Placing'
    BY DEF Placing, OneFdEach
  <2>5. OneFdEach'
    BY DEF OneFdEach
  <2>6. Closed'
    BY DEF OneFdEach, Closed
  <2>7. QED
    BY <2>1, <2>2, <2>3, <2>4, <2>5, <2>6
<1>2. ASSUME ScanUsedSlot PROVE SlotInv'
  <2> USE <1>0, <1>2 DEF IInv, SlotInv, CoreTypes, Serving, HoldsSlot, Lost,
     ScanUsedSlot
  <2>1. KnownSlots'
    BY DEF KnownSlots
  <2>2. SlotsHeld'
    BY DEF SlotsHeld
  <2>3. FdsOwned'
    BY DEF FdsOwned
  <2>4. Placing'
    BY DEF Placing
  <2>5. OneFdEach'
    BY DEF OneFdEach
  <2>6. Closed'
    BY DEF Closed
  <2>7. QED
    BY <2>1, <2>2, <2>3, <2>4, <2>5, <2>6
<1>3. ASSUME ScanFoundNone PROVE SlotInv'
  <2> USE <1>0, <1>3 DEF IInv, SlotInv, CoreTypes, Serving, HoldsSlot, Lost,
     ScanFoundNone
  <2>1. KnownSlots'
    BY DEF KnownSlots
  <2>2. SlotsHeld'
    BY DEF SlotsHeld
  <2>3. FdsOwned'
    BY DEF FdsOwned
  <2>4. Placing'
    BY DEF Placing
  <2>5. OneFdEach'
    BY DEF OneFdEach
  <2>6. Closed'
    BY DEF Closed
  <2>7. QED
    BY <2>1, <2>2, <2>3, <2>4, <2>5, <2>6
<1>4. ASSUME TakeSlot PROVE SlotInv'
  <2> USE <1>0, <1>4 DEF IInv, SlotInv, CoreTypes, Serving, HoldsSlot, Lost,
     TakeSlot
  <2>1. KnownSlots'
    BY DEF KnownSlots
  <2>2. SlotsHeld'
    BY DEF SlotsHeld
  <2>3. FdsOwned'
    BY DEF FdsOwned
  <2>4. Placing'
    BY DEF SlotsHeld, Placing
  <2>5. OneFdEach'
    BY DEF OneFdEach
  <2>6. Closed'
    BY DEF Closed
  <2>7. QED
    BY <2>1, <2>2, <2>3, <2>4, <2>5, <2>6
<1>5. ASSUME InitMutex PROVE SlotInv'
  <2> USE <1>0, <1>5 DEF IInv, SlotInv, CoreTypes, Serving, HoldsSlot, Lost,
     InitMutex
  <2>1. KnownSlots'
    BY DEF KnownSlots
  <2>2. SlotsHeld'
    BY DEF SlotsHeld
  <2>3. FdsOwned'
    BY DEF FdsOwned
  <2>4. Placing'
    BY DEF Placing
  <2>5. OneFdEach'
    BY DEF OneFdEach
  <2>6. Closed'
    BY DEF Closed
  <2>7. QED
    BY <2>1, <2>2, <2>3, <2>4, <2>5, <2>6
<1>6. ASSUME ClearExitFlag PROVE SlotInv'
  <2> USE <1>0, <1>6 DEF IInv, SlotInv, CoreTypes, Serving, HoldsSlot, Lost,
     ClearExitFlag
  <2>1. KnownSlots'
    BY DEF KnownSlots
  <2>2. SlotsHeld'
    BY DEF SlotsHeld
  <2>3. FdsOwned'
    BY DEF FdsOwned
  <2>4. Placing'
    BY DEF Placing
  <2>5. OneFdEach'
    BY DEF OneFdEach
  <2>6. Closed'
    BY DEF Closed
  <2>7. QED
    BY <2>1, <2>2, <2>3, <2>4, <2>5, <2>6
<1>7. ASSUME CreateReceiveThread PROVE SlotInv'
  <2> USE <1>0, <1>7 DEF IInv, SlotInv, CoreTypes, Serving, HoldsSlot, Lost,
     CreateReceiveThread
  <2>1. KnownSlots'
    BY DEF KnownSlots
  <2>2. SlotsHeld'
    BY DEF SlotsHeld, Placing
  <2>3. FdsOwned'
    BY DEF FdsOwned, Placing
  <2>4. Placing'
    BY DEF Placing
  <2>5. OneFdEach'
    BY DEF OneFdEach, Placing
  <2>6. Closed'
    BY DEF Closed
  <2>7. QED
    BY <2>1, <2>2, <2>3, <2>4, <2>5, <2>6
<1>8. ASSUME CreateSendThread PROVE SlotInv'
  <2> USE <1>0, <1>8 DEF IInv, SlotInv, CoreTypes, Serving, HoldsSlot, Lost,
     CreateSendThread
  <2>1. KnownSlots'
    BY DEF KnownSlots
  <2>2. SlotsHeld'
    BY DEF SlotsHeld
  <2>3. FdsOwned'
    BY DEF FdsOwned
  <2>4. Placing'
    BY DEF Placing
  <2>5. OneFdEach'
    BY DEF OneFdEach
  <2>6. Closed'
    BY DEF Closed
  <2>7. QED
    BY <2>1, <2>2, <2>3, <2>4, <2>5, <2>6
<1>9. ASSUME NEW c \in Conns, EndConnection(c) PROVE SlotInv'
  <2> USE <1>0, <1>9 DEF IInv, SlotInv, CoreTypes, Serving, HoldsSlot, Lost,
     EndConnection
  <2>0. \A d \in Conns : peer'[d] = peer[d] \/ peer'[d] \in {"closed", "reset"}
    BY Process1Assumption
  <2>1. KnownSlots'
    BY <2>0 DEF KnownSlots
  <2>2. SlotsHeld'
    BY DEF SlotsHeld
  <2>3. FdsOwned'
    BY DEF FdsOwned
  <2>4. Placing'
    BY DEF Placing
  <2>5. OneFdEach'
    BY <2>0 DEF OneFdEach
  <2>6. Closed'
    BY DEF Closed
  <2>7. QED
    BY <2>1, <2>2, <2>3, <2>4, <2>5, <2>6
<1>10. ASSUME NEW c \in Conns, RecvStart(c) PROVE SlotInv'
  <2> USE <1>0, <1>10 DEF IInv, SlotInv, CoreTypes, Serving, HoldsSlot, Lost,
     RecvStart, RecvGoto, HasPeerName
  <2>1. slotOf[c] \in Slots /\ SockOf(c) = fdOf[c] /\ Reached(c) = c
    BY ReachesOwn
  <2>2. KnownSlots'
    BY <2>1 DEF KnownSlots
  <2>3. SlotsHeld'
    BY <2>1 DEF SlotsHeld
  <2>4. FdsOwned'
    BY <2>1 DEF FdsOwned
  <2>5. Placing'
    BY <2>1 DEF Placing
  <2>6. OneFdEach'
    BY <2>1 DEF OneFdEach
  <2>7. Closed'
    BY <2>1 DEF Closed
  <2>8. QED
    BY <2>2, <2>3, <2>4, <2>5, <2>6, <2>7
<1>11. ASSUME NEW c \in Conns, RecvClose(c) PROVE SlotInv'
  <2> USE <1>0, <1>11 DEF IInv, SlotInv, CoreTypes, Serving, HoldsSlot, Lost,
     RecvClose, RecvGoto
  <2>1. slotOf[c] \in Slots /\ SockOf(c) = fdOf[c] /\ Reached(c) = c
    BY ReachesOwn
  <2>2. KnownSlots'
    BY <2>1 DEF KnownSlots
  <2>3. SlotsHeld'
    BY <2>1 DEF SlotsHeld
  <2>4. FdsOwned'
    BY <2>1 DEF FdsOwned
  <2>5. Placing'
    BY <2>1 DEF FdsOwned, Placing
  <2>6. OneFdEach'
    BY <2>1 DEF OneFdEach
  <2>7. Closed'
    BY <2>1 DEF OneFdEach, Closed
  <2>8. QED
    BY <2>2, <2>3, <2>4, <2>5, <2>6, <2>7
<1>12. ASSUME NEW c \in Conns, RecvClearSock(c) PROVE SlotInv'
  <2> USE <1>0, <1>12 DEF IInv, SlotInv, CoreTypes, Serving, HoldsSlot, Lost,
     RecvClearSock, RecvGoto
  <2>1. KnownSlots'
    BY DEF KnownSlots
  <2>2. SlotsHeld'
    BY DEF SlotsHeld
  <2>3. FdsOwned'
    BY DEF FdsOwned
  <2>4. Placing'
    BY DEF Placing
  <2>5. OneFdEach'
    BY DEF OneFdEach
  <2>6. Closed'
    BY DEF Closed
  <2>7. QED
    BY <2>1, <2>2, <2>3, <2>4, <2>5, <2>6
<1>13. ASSUME NEW c \in Conns, RecvSetExitFlag(c) PROVE SlotInv'
  <2> USE <1>0, <1>13 DEF IInv, SlotInv, CoreTypes, Serving, HoldsSlot, Lost,
     RecvSetExitFlag, RecvGoto
  <2>1. KnownSlots'
    BY DEF KnownSlots
  <2>2. SlotsHeld'
    BY DEF SlotsHeld, Closed
  <2>3. FdsOwned'
    BY DEF FdsOwned
  <2>4. Placing'
    BY DEF Placing, Closed
  <2>5. OneFdEach'
    BY DEF OneFdEach
  <2>6. Closed'
    BY DEF Closed
  <2>7. QED
    BY <2>1, <2>2, <2>3, <2>4, <2>5, <2>6
<1>14. ASSUME NEW c \in Conns, RecvData(c) PROVE SlotInv'
  <2>1. Serving(c) /\ Serving(c)' /\ rpc' = [rpc EXCEPT ![c] = rpc'[c]]
    BY <1>0, <1>14 DEF CoreTypes, RecvData, Serving
  <2>2. UNCHANGED coreVars /\ NoNewSender
    BY <1>14 DEF RecvData, coreVars, NoNewSender
  <2>3. QED
    BY <2>1, <2>2, ServingStep
<1>15. ASSUME NEW c \in Conns, RecvEof(c) PROVE SlotInv'
  <2>1. Serving(c) /\ Serving(c)' /\ rpc' = [rpc EXCEPT ![c] = rpc'[c]]
    BY <1>0, <1>15 DEF CoreTypes, RecvEof, RecvGoto, Serving
  <2>2. UNCHANGED coreVars /\ NoNewSender
    BY <1>0, <1>15 DEF CoreTypes, RecvEof, coreVars, NoNewSender
  <2>3. QED
    BY <2>1, <2>2, ServingStep
<1>16. ASSUME NEW c \in Conns, RecvLock(c) PROVE SlotInv'
  <2>1. Serving(c) /\ Serving(c)' /\ rpc' = [rpc EXCEPT ![c] = rpc'[c]]
    BY <1>0, <1>16 DEF CoreTypes, RecvLock, RecvGoto, Serving
  <2>2. UNCHANGED coreVars /\ NoNewSender
    BY <1>0, <1>16 DEF CoreTypes, RecvLock, coreVars, NoNewSender
  <2>3. QED
    BY <2>1, <2>2, ServingStep
<1>17. ASSUME NEW c \in Conns, RecvStoreData(c) PROVE SlotInv'
  <2>1. Serving(c) /\ Serving(c)' /\ rpc' = [rpc EXCEPT ![c] = rpc'[c]]
    BY <1>0, <1>17 DEF CoreTypes, RecvStoreData, RecvGoto, Serving
  <2>2. UNCHANGED coreVars /\ NoNewSender
    BY <1>0, <1>17 DEF CoreTypes, RecvStoreData, coreVars, NoNewSender
  <2>3. QED
    BY <2>1, <2>2, ServingStep
<1>18. ASSUME NEW c \in Conns, RecvStoreSize(c) PROVE SlotInv'
  <2>1. Serving(c) /\ Serving(c)' /\ rpc' = [rpc EXCEPT ![c] = rpc'[c]]
    BY <1>0, <1>18 DEF CoreTypes, RecvStoreSize, RecvGoto, Serving
  <2>2. UNCHANGED coreVars /\ NoNewSender
    BY <1>0, <1>18 DEF CoreTypes, RecvStoreSize, coreVars, NoNewSender
  <2>3. QED
    BY <2>1, <2>2, ServingStep
<1>19. ASSUME NEW c \in Conns, RecvSignal(c) PROVE SlotInv'
  <2>1. Serving(c) /\ Serving(c)' /\ rpc' = [rpc EXCEPT ![c] = rpc'[c]]
    BY <1>0, <1>19 DEF CoreTypes, RecvSignal, RecvGoto, Serving
  <2>2. UNCHANGED coreVars /\ NoNewSender
    BY <1>0, <1>19 DEF CoreTypes, RecvSignal, coreVars, NoNewSender, Waiters
  <2>3. QED
    BY <2>1, <2>2, ServingStep
<1>20. ASSUME NEW c \in Conns, RecvUnlock(c) PROVE SlotInv'
  <2>1. Serving(c) /\ Serving(c)' /\ rpc' = [rpc EXCEPT ![c] = rpc'[c]]
    BY <1>0, <1>20 DEF CoreTypes, RecvUnlock, RecvGoto, Serving
  <2>2. UNCHANGED coreVars /\ NoNewSender
    BY <1>0, <1>20 DEF CoreTypes, RecvUnlock, coreVars, NoNewSender
  <2>3. QED
    BY <2>1, <2>2, ServingStep
<1>21. ASSUME NEW c \in Conns, SendRequest(c) PROVE SlotInv'
  <2>1. UNCHANGED coreVars /\ UNCHANGED rpc /\ NoNewSender
    BY <1>0, <1>21 DEF CoreTypes, SendRequest, coreVars, NoNewSender
  <2>2. QED
    BY <2>1, QuietStep DEF IInv
<1>22. ASSUME NEW c \in Conns, SendStart(c) PROVE SlotInv'
  <2>1. UNCHANGED coreVars /\ UNCHANGED rpc /\ NoNewSender
    BY <1>0, <1>22 DEF CoreTypes, SendStart, SendGoto, coreVars, NoNewSender
  <2>2. QED
    BY <2>1, QuietStep DEF IInv
<1>23. ASSUME NEW c \in Conns, SendCheckExit(c) PROVE SlotInv'
  <2>1. UNCHANGED coreVars /\ UNCHANGED rpc /\ NoNewSender
    BY <1>0, <1>23 DEF CoreTypes, SendCheckExit, SendGoto, coreVars, NoNewSender
  <2>2. QED
    BY <2>1, QuietStep DEF IInv
<1>24. ASSUME NEW c \in Conns, SendWait(c) PROVE SlotInv'
  <2>1. UNCHANGED coreVars /\ UNCHANGED rpc /\ NoNewSender
    BY <1>0, <1>24 DEF CoreTypes, SendWait, SendGoto, coreVars, NoNewSender
  <2>2. QED
    BY <2>1, QuietStep DEF IInv
<1>25. ASSUME NEW c \in Conns, SendTimeout(c) PROVE SlotInv'
  <2>1. UNCHANGED coreVars /\ UNCHANGED rpc /\ NoNewSender
    BY <1>0, <1>25 DEF CoreTypes, SendTimeout, SendGoto, coreVars, NoNewSender
  <2>2. QED
    BY <2>1, QuietStep DEF IInv
<1>26. ASSUME NEW c \in Conns, SendSpuriousWakeup(c) PROVE SlotInv'
  <2>1. UNCHANGED coreVars /\ UNCHANGED rpc /\ NoNewSender
    BY <1>0, <1>26 DEF CoreTypes, SendSpuriousWakeup, SendGoto, coreVars,
                       NoNewSender
  <2>2. QED
    BY <2>1, QuietStep DEF IInv
<1>27. ASSUME NEW c \in Conns, SendRelock(c) PROVE SlotInv'
  <2>1. UNCHANGED coreVars /\ UNCHANGED rpc /\ NoNewSender
    BY <1>0, <1>27 DEF CoreTypes, SendRelock, SendGoto, coreVars, NoNewSender
  <2>2. QED
    BY <2>1, QuietStep DEF IInv
<1>28. ASSUME NEW c \in Conns, SendCopySize(c) PROVE SlotInv'
  <2>1. UNCHANGED coreVars /\ UNCHANGED rpc /\ NoNewSender
    BY <1>0, <1>28 DEF CoreTypes, SendCopySize, SendGoto, coreVars, NoNewSender
  <2>2. QED
    BY <2>1, QuietStep DEF IInv
<1>29. ASSUME NEW c \in Conns, SendCopyData(c) PROVE SlotInv'
  <2>1. UNCHANGED coreVars /\ UNCHANGED rpc /\ NoNewSender
    BY <1>0, <1>29 DEF CoreTypes, SendCopyData, SendGoto, coreVars, NoNewSender
  <2>2. QED
    BY <2>1, QuietStep DEF IInv
<1>30. ASSUME NEW c \in Conns, SendUnlock(c) PROVE SlotInv'
  <2>1. UNCHANGED coreVars /\ UNCHANGED rpc /\ NoNewSender
    BY <1>0, <1>30 DEF CoreTypes, SendUnlock, SendGoto, coreVars, NoNewSender
  <2>2. QED
    BY <2>1, QuietStep DEF IInv
<1>31. ASSUME NEW c \in Conns, SendReadSock(c) PROVE SlotInv'
  <2>1. UNCHANGED coreVars /\ UNCHANGED rpc /\ NoNewSender
    BY <1>0, <1>31 DEF CoreTypes, SendReadSock, SendGoto, coreVars, NoNewSender
  <2>2. QED
    BY <2>1, QuietStep DEF IInv
<1>32. ASSUME NEW c \in Conns, SendMessage(c) PROVE SlotInv'
  <2>1. UNCHANGED coreVars /\ UNCHANGED rpc /\ NoNewSender
    BY <1>0, <1>32 DEF CoreTypes, SendMessage, SendGoto, coreVars, NoNewSender
  <2>2. QED
    BY <2>1, QuietStep DEF IInv
<1>33. ASSUME NEW c \in Conns, SendLeave(c) PROVE SlotInv'
  <2>1. UNCHANGED coreVars /\ UNCHANGED rpc /\ NoNewSender
    BY <1>0, <1>33 DEF CoreTypes, SendLeave, SendGoto, coreVars, NoNewSender
  <2>2. QED
    BY <2>1, QuietStep DEF IInv
<1>34. ASSUME UNCHANGED vars PROVE SlotInv'
  BY <1>34, QuietStep DEF vars, IInv, coreVars, NoNewSender
<1>35. QED
  BY <1>1, <1>2, <1>3, <1>4, <1>5, <1>6, <1>7, <1>8, <1>9, <1>10, <1>11, <1>12,
     <1>13, <1>14, <1>15, <1>16, <1>17, <1>18, <1>19, <1>20, <1>21, <1>22,
     <1>23, <1>24, <1>25, <1>26, <1>27, <1>28, <1>29, <1>30, <1>31, <1>32,
     <1>33, <1>34
  DEF Next, mainLoop, receiveThread, sendThread

-----------------------------------------------------------------------------
(* The theorems.                                                           *)

\* The empty table of the initial states satisfies the slot invariant.
LEMMA SlotInit == Init => SlotInv
  BY Members DEF Init, SlotInv, KnownSlots, SlotsHeld, FdsOwned, Placing,
       OneFdEach, Closed, Serving, HoldsSlot, Lost

\* IInv is inductive.
THEOREM Invariance == Spec => []IInv
<1>1. Init => IInv
  BY TypeInit, SlotInit DEF IInv
<1>2. IInv /\ [Next]_vars => IInv'
  BY TypeStep, SlotStep DEF IInv
<1>3. QED
  BY <1>1, <1>2, PTL DEF Spec

\* Type correctness: every variable of the server, its threads and its clients
\* keeps its type; in particular a thread never uses a slot index outside
\* stClientGroup, and the descriptor 0 never belongs to a connection.
THEOREM TypeCorrect == Spec => []TypeOK
<1>1. IInv => TypeOK
  BY DEF IInv
<1>2. QED
  BY <1>1, Invariance, PTL

\* Whatever order main and the receive threads write iClientSock in, a receive
\* thread serves its own connection, alone in its slot.
THEOREM OwnSlot == Spec => []ReceiverOwnsSlot
<1>1. ASSUME IInv PROVE ReceiverOwnsSlot
  <2>1. SUFFICES ASSUME NEW c \in Conns, Serving(c)
                 PROVE  /\ Reached(c) = c
                        /\ \A d \in Conns \ {c} :
                             Serving(d) => slotOf[d] # slotOf[c]
    BY DEF ReceiverOwnsSlot
  <2>2. Reached(c) = c
    BY <1>1, <2>1, ReachesOwn
  <2>3. \A d \in Conns \ {c} : Serving(d) => slotOf[d] # slotOf[c]
    BY <1>1, <2>1 DEF IInv, SlotInv, SlotsHeld, HoldsSlot
  <2>4. QED
    BY <2>2, <2>3
<1>2. QED
  BY <1>1, Invariance, PTL

\* Once its receive thread is past the loop, a connection's descriptor is
\* closed, unless the client reset it before the thread started: then the
\* slot keeps the descriptor of the dead connection, and nobody is served in it.
THEOREM NoLeak == Spec => []NoDescriptorLeak
<1>1. ASSUME IInv PROVE NoDescriptorLeak
  <2>1. SUFFICES ASSUME NEW c \in Conns, NEW f \in Fds, owner[f] = c
                 PROVE  /\ rpc[c] \notin {"clear", "flag"}
                        /\ rpc[c] = "done" =>
                             /\ peer[c] = "reset"
                             /\ Reached(c) = c
                             /\ \A d \in Conns : Serving(d) =>
                                                  slotOf[d] # slotOf[c]
    BY DEF NoDescriptorLeak
  <2>2. /\ rpc[c] \notin {"clear", "flag"}
        /\ rpc[c] = "done" => peer[c] = "reset"
    BY <1>1, <2>1 DEF IInv, SlotInv, Closed
  <2>3. ASSUME rpc[c] = "done"
        PROVE  Reached(c) = c
               /\ \A d \in Conns : Serving(d) => slotOf[d] # slotOf[c]
    <3>1. HoldsSlot(c) /\ ~Serving(c)
      BY <2>1, <2>3 DEF HoldsSlot, Lost, Serving
    <3>2. iClientSock[slotOf[c]] = fdOf[c] /\ fdOf[c] = f
      BY <1>1, <2>1, <3>1, Members DEF IInv, SlotInv, SlotsHeld, OneFdEach
    <3>3. \A d \in Conns : Serving(d) => slotOf[d] # slotOf[c]
      BY <1>1, <3>1 DEF IInv, SlotInv, SlotsHeld, HoldsSlot
    <3>4. QED
      BY <2>1, <3>2, <3>3 DEF Reached, SockOf
  <2>4. QED
    BY <2>2, <2>3
<1>2. QED
  BY <1>1, Invariance, PTL

\* A slot's descriptor changes only from empty, by main, or to empty, by the
\* receive thread that closed that very descriptor.
THEOREM Handover == Spec => SlotHandover
<1> USE DEF outside, slots, main
<1> DEFINE Change(s) == iClientSock'[s] # iClientSock[s] =>
             \/ iClientSock[s] = NoFd
             \/ /\ iClientSock'[s] = NoFd
                /\ \E c \in Conns : /\ slotOf[c] = s
                                    /\ fdOf[c] = iClientSock[s]
                                    /\ rpc[c] = "clear"
<1>1. ASSUME IInv, [Next]_vars, NEW s \in Slots PROVE Change(s)
  <2>1. iClientSock \in [Slots -> Fds \cup {NoFd}]
    BY <1>1 DEF IInv, TypeOK
  <2>2. CASE TakeSlot
    BY <2>1, <2>2 DEF TakeSlot
  <2>3. ASSUME NEW c \in Conns, RecvClearSock(c) PROVE Change(s)
    <3>1. rpc[c] = "clear" /\ fdOf[c] = iClientSock[slotOf[c]]
      BY <1>1, <2>3 DEF IInv, SlotInv, SlotsHeld, HoldsSlot, RecvClearSock,
                        RecvGoto
    <3>2. iClientSock' = [iClientSock EXCEPT ![slotOf[c]] = NoFd]
      BY <2>3 DEF RecvClearSock
    <3>3. QED
      BY <2>1, <3>1, <3>2
  <2>4. CASE UNCHANGED iClientSock
    BY <2>4
  <2>5. QED
    <3>1. mainLoop => TakeSlot \/ UNCHANGED iClientSock
      BY DEF mainLoop, Accept, ScanUsedSlot, ScanFoundNone, InitMutex,
             ClearExitFlag, CreateReceiveThread, CreateSendThread
    <3>2. \A c \in Conns :
            receiveThread(c) => RecvClearSock(c) \/ UNCHANGED iClientSock
      BY DEF receiveThread, RecvStart, RecvData, RecvEof, RecvLock,
             RecvStoreData, RecvStoreSize, RecvSignal, RecvUnlock, RecvClose,
             RecvSetExitFlag
    <3>3. \A c \in Conns : sendThread(c) => UNCHANGED iClientSock
      BY DEF sendThread, SendStart, SendCheckExit, SendWait, SendTimeout,
             SendSpuriousWakeup, SendRelock, SendCopySize, SendCopyData,
             SendUnlock, SendReadSock, SendMessage, SendLeave
    <3>4. \A c \in Conns : SendRequest(c) \/ EndConnection(c)
                              => UNCHANGED iClientSock
      BY DEF SendRequest, EndConnection
    <3>5. QED
      BY <1>1, <2>2, <2>3, <2>4, <3>1, <3>2, <3>3, <3>4 DEF Next, vars
<1>2. IInv /\ [Next]_vars => [\A s \in Slots : Change(s)]_vars
  BY <1>1
<1>3. QED
  BY <1>2, Invariance, PTL DEF Spec, SlotHandover

-----------------------------------------------------------------------------
(* The search for a slot.                                                  *)

\* The slot s, which main has passed by in this search, held the descriptor
\* of a client that was given s, and only its receive thread has emptied it.
FoundTaken(s) ==
  \E d \in Conns : /\ slotOf[d] = s /\ fdOf[d] = found[s]
                   /\ iClientSock[s] = found[s] \/ Leaving(d)

\* A slot that is not empty holds the descriptor of a client it was given to,
\* or of the one main is placing, which was given no slot yet; the slots main
\* has passed by were found taken.
SlotsGiven ==
  /\ \A s \in Slots : iClientSock[s] # NoFd =>
       \/ \E d \in Conns : slotOf[d] = s /\ fdOf[d] = iClientSock[s]
       \/ mpc \in {"init", "flag", "mkrecv"} /\ scan = s
  /\ mpc = "scan" => \A s \in Slots : s < scan => FoundTaken(s)
  /\ \A c \in Conns : slotOf[c] \in Slots => rpc[c] # "none"

\* A step that only runs threads keeps it: a thread empties a slot only of its
\* own descriptor and when it is done with the slot, and none is unmade.
LEMMA GivenByThreads ==
  ASSUME SlotsGiven, UNCHANGED <<mpc, scan, slotOf, fdOf, found>>,
         \A s \in Slots :
           \/ iClientSock'[s] = iClientSock[s]
           \/ /\ iClientSock'[s] = NoFd
              /\ \E c \in Conns : /\ slotOf[c] = s /\ fdOf[c] = iClientSock[s]
                                  /\ Leaving(c)',
         \A c \in Conns : rpc[c] # "none" => rpc'[c] # "none",
         \A c \in Conns : Leaving(c) => Leaving(c)'
  PROVE  SlotsGiven'
<1>1. ASSUME NEW s \in Slots, FoundTaken(s) PROVE FoundTaken(s)'
  <2>1. CASE iClientSock'[s] = iClientSock[s]
    BY <1>1, <2>1 DEF FoundTaken
  <2>2. ASSUME NEW c \in Conns, slotOf[c] = s, fdOf[c] = iClientSock[s],
               Leaving(c)'
        PROVE  FoundTaken(s)'
    BY <1>1, <2>2 DEF FoundTaken
  <2>3. QED
    BY <2>1, <2>2
<1>2. \A s \in Slots : iClientSock'[s] # NoFd =>
         \/ \E d \in Conns : slotOf'[d] = s /\ fdOf'[d] = iClientSock'[s]
         \/ mpc' \in {"init", "flag", "mkrecv"} /\ scan' = s
  BY DEF SlotsGiven
<1>3. mpc' = "scan" => \A s \in Slots : s < scan' => FoundTaken(s)'
  BY <1>1 DEF SlotsGiven
<1>4. \A c \in Conns : slotOf'[c] \in Slots => rpc'[c] # "none"
  BY DEF SlotsGiven
<1>5. QED
  BY <1>2, <1>3, <1>4 DEF SlotsGiven

\* Every step keeps it.
LEMMA GivenStep == IInv /\ SlotsGiven /\ [Next]_vars => SlotsGiven'
<1> SUFFICES ASSUME IInv, SlotsGiven, [Next]_vars
             PROVE  SlotsGiven'
  OBVIOUS
<1>0. CoreTypes
  BY TypesOfCore DEF IInv
<1>1. iClientSock \in [Slots -> Fds \cup {NoFd}] /\ rpc \in [Conns -> RecvPCs]
      /\ slotOf \in [Conns -> Slots \cup {NoSlot}] /\ scan \in Int
      /\ found \in [Slots -> Fds \cup {NoFd}]
      /\ fdOf \in [Conns -> Fds \cup {NoFd}]
  BY DEF IInv, TypeOK
<1> USE DEF net, main, outside, slots, receiver, sender, locals
<1>2. CASE Accept
  <2>1. PICK c \in Conns, f \in FreeFds :
          peer[c] = "new" /\ fdOf' = [fdOf EXCEPT ![c] = f]
    BY <1>2 DEF Accept
  <2>2. /\ mpc = "select" /\ mpc' = "scan" /\ scan' = 1
        /\ UNCHANGED <<iClientSock, slotOf, rpc>>
    BY <1>2 DEF Accept
  <2>3. rpc[c] = "none"
    BY <2>1 DEF IInv, SlotInv, OneFdEach
  <2>4. \A d \in Conns : slotOf[d] \in Slots => fdOf'[d] = fdOf[d]
    BY <1>1, <2>1, <2>3 DEF SlotsGiven
  <2>5. \A s \in Slots : iClientSock'[s] # NoFd =>
          \E d \in Conns : slotOf'[d] = s /\ fdOf'[d] = iClientSock'[s]
    BY <2>2, <2>4 DEF SlotsGiven
  <2>6. \A s \in Slots : ~(s < scan')
    BY <2>2, Process1Assumption DEF Slots
  <2>7. QED
    BY <2>2, <2>5, <2>6 DEF SlotsGiven
<1>3. CASE ScanUsedSlot
  <2>1. /\ mpc = "scan" /\ mpc' = "scan" /\ scan' = scan + 1
        /\ scan \in Slots /\ iClientSock[scan] # NoFd
        /\ found' = [found EXCEPT ![scan] = iClientSock[scan]]
        /\ UNCHANGED <<iClientSock, slotOf, fdOf, rpc>>
    BY <1>3 DEF ScanUsedSlot
  <2>2. ASSUME NEW s \in Slots, s = scan PROVE FoundTaken(s)'
    <3>1. PICK d \in Conns : slotOf[d] = s /\ fdOf[d] = iClientSock[s]
      BY <2>1, <2>2 DEF SlotsGiven
    <3>2. found'[s] = iClientSock[s]
      BY <1>1, <2>1, <2>2
    <3>3. QED
      BY <2>1, <3>1, <3>2 DEF FoundTaken
  <2>3. \A s \in Slots : s < scan' => s < scan \/ s = scan
    BY <1>1, <2>1 DEF Slots
  <2>4. \A s \in Slots : s < scan => FoundTaken(s)'
    <3>1. \A s \in Slots : s < scan => found'[s] = found[s]
      BY <1>1, <2>1 DEF Slots
    <3>2. QED
      BY <2>1, <3>1 DEF SlotsGiven, FoundTaken, Leaving
  <2>5. QED
    BY <2>1, <2>2, <2>3, <2>4 DEF SlotsGiven
<1>4. CASE ScanFoundNone
  BY <1>4 DEF ScanFoundNone, SlotsGiven
<1>5. CASE TakeSlot
  BY <1>1, <1>5 DEF TakeSlot, SlotsGiven
<1>6. CASE InitMutex
  BY <1>6 DEF InitMutex, SlotsGiven
<1>7. CASE ClearExitFlag
  BY <1>7 DEF ClearExitFlag, SlotsGiven
<1>8. CASE CreateReceiveThread
  <2>1. /\ newConn \in Conns /\ rpc[newConn] = "none"
        /\ mpc = "mkrecv" /\ mpc' = "mksend"
        /\ slotOf' = [slotOf EXCEPT ![newConn] = scan]
        /\ rpc' = [rpc EXCEPT ![newConn] = "start"]
        /\ iClientSock[scan] = fdOf[newConn]
        /\ UNCHANGED <<iClientSock, fdOf, scan>>
    BY <1>8 DEF CreateReceiveThread, IInv, SlotInv, KnownSlots, Placing
  <2>2. slotOf[newConn] \notin Slots
    BY <2>1 DEF SlotsGiven
  <2>3. \A d \in Conns : slotOf[d] \in Slots => slotOf'[d] = slotOf[d]
    BY <1>1, <2>1, <2>2
  <2>4. slotOf'[newConn] = scan
    BY <1>1, <2>1
  <2>5. \A s \in Slots : iClientSock'[s] # NoFd =>
          \E d \in Conns : slotOf'[d] = s /\ fdOf'[d] = iClientSock'[s]
    BY <2>1, <2>3, <2>4 DEF SlotsGiven
  <2>6. \A c \in Conns : slotOf'[c] \in Slots => rpc'[c] # "none"
    BY <1>1, <2>1 DEF SlotsGiven
  <2>7. QED
    BY <2>1, <2>5, <2>6 DEF SlotsGiven
<1>9. CASE CreateSendThread
  BY <1>9 DEF CreateSendThread, SlotsGiven
<1>10. ASSUME NEW c \in Conns, receiveThread(c) PROVE SlotsGiven'
  <2>1. UNCHANGED <<mpc, scan, slotOf, fdOf, found>>
    BY <1>10 DEF receiveThread, RecvStart, RecvData, RecvEof, RecvLock,
       RecvStoreData, RecvStoreSize, RecvSignal, RecvUnlock, RecvClose,
       RecvClearSock, RecvSetExitFlag
  <2>2. ASSUME NEW s \in Slots
        PROVE  \/ iClientSock'[s] = iClientSock[s]
               \/ /\ iClientSock'[s] = NoFd
                  /\ \E d \in Conns : /\ slotOf[d] = s
                                      /\ fdOf[d] = iClientSock[s]
                                      /\ Leaving(d)'
    <3>1. CASE RecvClearSock(c)
      <4>1. /\ iClientSock' = [iClientSock EXCEPT ![slotOf[c]] = NoFd]
            /\ rpc[c] = "clear" /\ rpc'[c] = "flag"
        BY <1>1, <3>1 DEF RecvClearSock, RecvGoto
      <4>2. slotOf[c] \in Slots /\ iClientSock[slotOf[c]] = fdOf[c]
        BY <4>1 DEF IInv, SlotInv, KnownSlots, SlotsHeld, HoldsSlot
      <4>3. QED
        BY <1>1, <4>1, <4>2 DEF Leaving
    <3>2. CASE ~RecvClearSock(c)
      BY <1>10, <3>2 DEF receiveThread, RecvStart, RecvData, RecvEof, RecvLock,
         RecvStoreData, RecvStoreSize, RecvSignal, RecvUnlock, RecvClose,
         RecvSetExitFlag
    <3>3. QED
      BY <3>1, <3>2
  <2>3. \A d \in Conns : /\ rpc[d] # "none" => rpc'[d] # "none"
                         /\ Leaving(d) => Leaving(d)'
    BY <1>1, <1>10 DEF receiveThread, RecvStart, RecvData, RecvEof, RecvLock,
       RecvStoreData, RecvStoreSize, RecvSignal, RecvUnlock, RecvClose,
       RecvClearSock, RecvSetExitFlag, RecvGoto, Leaving
  <2>4. QED
    BY <2>1, <2>2, <2>3, GivenByThreads
<1>11. ASSUME NEW c \in Conns,
              sendThread(c) \/ SendRequest(c) \/ EndConnection(c)
       PROVE  SlotsGiven'
  <2>1. UNCHANGED <<mpc, scan, slotOf, fdOf, found, iClientSock, rpc>>
    BY <1>11 DEF sendThread, SendStart, SendCheckExit, SendWait, SendTimeout,
       SendSpuriousWakeup, SendRelock, SendCopySize, SendCopyData, SendUnlock,
       SendReadSock, SendMessage, SendLeave, SendRequest, EndConnection
  <2>2. QED
    BY <2>1, GivenByThreads DEF Leaving
<1>12. CASE UNCHANGED vars
  BY <1>12, GivenByThreads DEF vars, Leaving
<1>13. QED
  BY <1>2, <1>3, <1>4, <1>5, <1>6, <1>7, <1>8, <1>9, <1>10, <1>11, <1>12
  DEF Next, mainLoop

\* A client is turned away only when main has found every slot taken by
\* another client that was given it, and those that are empty by now were
\* emptied since, each by the receive thread of that client.
THEOREM TurnedAway == Spec => TurnedAwayWhenFull
<1> DEFINE Full == mpc = "scan" /\ mpc' = "select" =>
                     \A s \in Slots : \E d \in Conns \ {newConn} :
                       /\ slotOf[d] = s /\ fdOf[d] = found[s]
                       /\ iClientSock[s] = found[s] \/ Leaving(d)
<1>1. Init => SlotsGiven
  BY Members DEF Init, SlotsGiven, Slots, NoSlot
<1>2. ASSUME IInv, SlotsGiven, [Next]_vars PROVE Full
  <2>1. SUFFICES ASSUME mpc = "scan", mpc' = "select", NEW s \in Slots
                 PROVE  \E d \in Conns \ {newConn} :
                          /\ slotOf[d] = s /\ fdOf[d] = found[s]
                          /\ iClientSock[s] = found[s] \/ Leaving(d)
    OBVIOUS
  <2>2. scan \notin Slots
    <3>1. \A c \in Conns :
            receiveThread(c) \/ sendThread(c) \/ SendRequest(c)
              \/ EndConnection(c) => UNCHANGED mpc
      BY DEF receiveThread, RecvStart, RecvData, RecvEof, RecvLock,
         RecvStoreData, RecvStoreSize, RecvSignal, RecvUnlock, RecvClose,
         RecvClearSock, RecvSetExitFlag, sendThread, SendStart,
         SendCheckExit, SendWait, SendTimeout, SendSpuriousWakeup, SendRelock,
         SendCopySize, SendCopyData, SendUnlock, SendReadSock, SendMessage,
         SendLeave, SendRequest, EndConnection, outside, main
    <3>2. mainLoop => ScanFoundNone
      BY <2>1 DEF mainLoop, Accept, ScanUsedSlot, TakeSlot, InitMutex,
         ClearExitFlag, CreateReceiveThread, CreateSendThread
    <3>3. QED
      BY <1>2, <2>1, <3>1, <3>2 DEF Next, vars, ScanFoundNone
  <2>3. s < scan
    BY <1>2, <2>2, Process1Assumption DEF IInv, TypeOK, Slots
  <2>4. PICK d \in Conns :
          /\ slotOf[d] = s /\ fdOf[d] = found[s]
          /\ iClientSock[s] = found[s] \/ Leaving(d)
    BY <1>2, <2>1, <2>3 DEF SlotsGiven, FoundTaken
  <2>5. slotOf[newConn] \notin Slots
    BY <1>2, <2>1 DEF SlotsGiven, IInv, SlotInv, KnownSlots, Placing
  <2>6. d \in Conns \ {newConn}
    BY <2>4, <2>5
  <2>7. QED
    BY <2>4, <2>6
<1>3. IInv /\ SlotsGiven /\ [Next]_vars => [Full]_vars
  BY <1>2
<1>4. QED
  BY <1>1, <1>3, GivenStep, Invariance, PTL DEF Spec, TurnedAwayWhenFull
=============================================================================
