----------------------- MODULE Process1PromiseProofs -----------------------
(***************************************************************************)
(* What process1 owes its clients, for any number of slots and clients:    *)
(* SharedDataExclusion and KeepsPromise of Process1.  The code gives       *)
(* neither to clients that pipeline requests or leave, nor under spurious  *)
(* wakeups; the theorems hold of the behaviours without them, and of every *)
(* behaviour when the constants rule them out.                             *)
(***************************************************************************)
EXTENDS Process1Proofs

\* No client has left, none has more than one request unanswered, and no wait
\* has returned without a signal or a timeout.
Calm ==
  /\ \A c \in Conns : /\ peer[c] \in {"new", "open"}
                      /\ sent[c] <= Len(replies[c]) + 1
  /\ spurious = 0

-----------------------------------------------------------------------------
(* The invariant.                                                          *)

\* No thread is on its way out, and a send thread has its receive thread.
NobodyLeaves ==
  /\ \A s \in Slots : bExitFlag[s] = FALSE
  /\ \A c \in Conns : /\ rpc[c] \notin {"close", "clear", "flag", "done"}
                      /\ spc[c] \notin {"leave", "done"}
                      /\ spc[c] # "none" => rpc[c] # "none"
  /\ mpc = "mksend" => rpc[newConn] # "none"

\* The response to request n of c, put together from one request only.
Whole(c, n) == [size |-> <<c, n>>, data |-> <<c, n>>]

\* The latest request of c, which is the one outstanding if there is one.
Latest(c) == <<c, sent[c]>>

\* Response i answers request i, and what was answered has been read.
InOrder(c) ==
  /\ Len(replies[c]) <= sent[c]
  /\ FrameLen * Len(replies[c]) <= read[c]
  /\ read[c] <= FrameLen * sent[c]
  /\ \A i \in 1 .. Len(replies[c]) : replies[c][i] = Whole(c, i)

\* The latest request has been read as a whole and is not answered.
Pending(c) == /\ sent[c] = Len(replies[c]) + 1
              /\ read[c] = FrameLen * sent[c]

\* The receive thread is on its way from the frame to the signal.
Storing(c) == rpc[c] \in {"lock", "data", "size", "signal"}

\* The send thread is on its way from the signal to sendMessage.
Sending(c) == spc[c] \in {"relock", "copysize", "copydata", "unlock",
                          "readsock", "send"}

\* What is stored is the response to the pending request, and the send thread
\* is not at it.
StoresLatest(c) ==
  /\ Storing(c) => Pending(c) /\ ~Sending(c)
  /\ rpc[c] \in {"lock", "data", "size"} => resp[c] = Latest(c)
  /\ rpc[c] \in {"size", "signal"} => chData[slotOf[c]] = Latest(c)
  /\ rpc[c] = "signal" => iDataSize[slotOf[c]] = Latest(c)

\* What is copied and sent is the response to the pending request.
SendsLatest(c) ==
  /\ Sending(c) => Pending(c)
  /\ spc[c] \in {"relock", "copysize", "copydata"}
       => chData[slotOf[c]] = Latest(c)
  /\ spc[c] \in {"relock", "copysize"} => iDataSize[slotOf[c]] = Latest(c)
  /\ spc[c] \in {"copydata", "unlock", "readsock", "send"}
       => bufSize[c] = Latest(c)
  /\ spc[c] \in {"unlock", "readsock", "send"} => bufData[c] = Latest(c)
  /\ spc[c] = "send" => sfd[c] = fdOf[c]

Served(c) == InOrder(c) /\ StoresLatest(c) /\ SendsLatest(c)

ServedInv == NobodyLeaves /\ \A c \in Conns : Served(c)

-----------------------------------------------------------------------------
(* What the lemmas on the steps have in common.                            *)

\* What TypeOK says of the variables that Served speaks of.
LEMMA TypesOfServed ==
  ASSUME TypeOK, NEW c \in Conns
  PROVE  /\ sent[c] \in Nat /\ read[c] \in Nat
         /\ replies[c] \in Seq([size : Replies, data : Replies])
         /\ Len(replies[c]) \in Nat
         /\ slotOf[c] \in Slots \cup {NoSlot}
<1>1. sent \in [Conns -> 0 .. MaxReq] /\ MaxReq \in Nat
  BY Process1Assumption DEF TypeOK
<1>2. read \in [Conns -> Nat] /\ slotOf \in [Conns -> Slots \cup {NoSlot}]
  BY DEF TypeOK
<1>3. replies \in [Conns -> Seq([size : Replies, data : Replies])]
  BY DEF TypeOK
<1>4. replies[c] \in Seq([size : Replies, data : Replies])
  BY ONLY <1>3, c \in Conns
<1>5. Len(replies[c]) \in Nat
  BY ONLY <1>4
<1>6. sent[c] \in Nat
  BY ONLY <1>1, c \in Conns
<1>7. QED
  BY <1>2, <1>4, <1>5, <1>6

\* A connection with threads is open, is reached through its slot, and has the
\* slot for itself.
LEMMA AtWork ==
  ASSUME IInv, Calm, NobodyLeaves, NEW c \in Conns, rpc[c] # "none"
  PROVE  /\ Serving(c) /\ Reached(c) = c /\ peer[c] = "open"
         /\ slotOf[c] \in Slots /\ fdOf[c] \in Fds /\ SockOf(c) = fdOf[c]
         /\ owner[fdOf[c]] = c
         /\ \A d \in Conns \ {c} : rpc[d] # "none" => slotOf[d] # slotOf[c]
<1>1. \A d \in Conns : rpc[d] # "none" => Serving(d)
  BY DEF IInv, TypeOK, RecvPCs, NobodyLeaves, Serving
<1>2. Serving(c)
  BY <1>1
<1>3. peer[c] = "open"
  BY DEF Calm, IInv, SlotInv, OneFdEach
<1>4. \A d \in Conns \ {c} : rpc[d] # "none" => slotOf[d] # slotOf[c]
  BY <1>1, <1>2 DEF IInv, SlotInv, SlotsHeld, HoldsSlot
<1>5. owner[fdOf[c]] = c
  BY <1>2 DEF IInv, SlotInv, FdsOwned
<1>6. QED
  BY <1>2, <1>3, <1>4, <1>5, ReachesOwn

\* The part of the state that belongs to c alone.
OwnState(c) == <<sent[c], read[c], replies[c], rpc[c], resp[c], spc[c],
                 bufSize[c], bufData[c], sfd[c]>>

\* A step that leaves c alone, and its slot if it has one, keeps Served(c).
LEMMA LeftAlone ==
  ASSUME NEW c \in Conns, Served(c), UNCHANGED OwnState(c),
         \/ rpc[c] = "none" /\ spc[c] = "none"
         \/ UNCHANGED <<slotOf[c], fdOf[c], chData[slotOf[c]],
                        iDataSize[slotOf[c]]>>
  PROVE  Served(c)'
<1> USE DEF OwnState, Served
<1>1. Pending(c)' = Pending(c) /\ Latest(c)' = Latest(c)
      /\ Sending(c)' = Sending(c) /\ Storing(c)' = Storing(c)
  BY DEF Pending, Latest, Sending, Storing
<1>2. InOrder(c)'
  BY DEF InOrder
<1>3. StoresLatest(c)'
  BY <1>1 DEF StoresLatest, Storing
<1>4. SendsLatest(c)'
  BY <1>1 DEF SendsLatest, Sending
<1>5. QED
  BY <1>2, <1>3, <1>4

\* A step of a thread of c, which writes what belongs to c and its slot, keeps
\* Served of every other connection.
LEMMA OthersKept ==
  ASSUME IInv, Calm, ServedInv, NEW c \in Conns, rpc[c] # "none",
         \A d \in Conns \ {c} : UNCHANGED OwnState(d),
         UNCHANGED <<slotOf, fdOf>>,
         \A s \in Slots \ {slotOf[c]} :
           chData'[s] = chData[s] /\ iDataSize'[s] = iDataSize[s]
  PROVE  \A d \in Conns \ {c} : Served(d)'
<1> SUFFICES ASSUME NEW d \in Conns \ {c}
             PROVE  Served(d)'
  OBVIOUS
<1>1. Served(d) /\ NobodyLeaves
  BY DEF ServedInv
<1>2. CASE rpc[d] = "none"
  BY <1>1, <1>2, LeftAlone DEF NobodyLeaves
<1>3. CASE rpc[d] # "none"
  <2>1. slotOf[d] \in Slots \ {slotOf[c]}
    BY <1>1, <1>3, AtWork
  <2>2. UNCHANGED <<slotOf[d], fdOf[d], chData[slotOf[d]],
                    iDataSize[slotOf[d]]>>
    BY <2>1
  <2>3. QED
    BY <1>1, <2>2, LeftAlone
<1>4. QED
  BY <1>2, <1>3

-----------------------------------------------------------------------------
(* The receive thread.                                                     *)

\* A receive thread touches its own connection and slot only; the thread its
\* signal wakes is the send thread of its own connection.
LEMMA ReceiverAlone ==
  ASSUME IInv, Calm, ServedInv, NEW c \in Conns, receiveThread(c)
  PROVE  /\ rpc[c] # "none"
         /\ \A d \in Conns \ {c} : UNCHANGED OwnState(d)
         /\ UNCHANGED <<slotOf, fdOf, mpc, newConn>>
         /\ \A s \in Slots \ {slotOf[c]} :
              chData'[s] = chData[s] /\ iDataSize'[s] = iDataSize[s]
<1> USE DEF outside, net, main, slots, shared, receiver, sender, locals
<1>0. NobodyLeaves
  BY DEF ServedInv
<1>1. rpc[c] # "none"
  BY DEF receiveThread, RecvStart, RecvData, RecvEof, RecvLock, RecvStoreData,
     RecvStoreSize, RecvSignal, RecvUnlock, RecvClose, RecvClearSock,
     RecvSetExitFlag, RecvGoto
<1>2. UNCHANGED <<slotOf, fdOf, mpc, newConn>>
  BY DEF receiveThread, RecvStart, RecvData, RecvEof, RecvLock, RecvStoreData,
     RecvStoreSize, RecvSignal, RecvUnlock, RecvClose, RecvClearSock,
     RecvSetExitFlag
<1>3. \A s \in Slots \ {slotOf[c]} :
        chData'[s] = chData[s] /\ iDataSize'[s] = iDataSize[s]
  BY DEF IInv, TypeOK, receiveThread, RecvStart, RecvData, RecvEof, RecvLock,
     RecvStoreData, RecvStoreSize, RecvSignal, RecvUnlock, RecvClose,
     RecvClearSock, RecvSetExitFlag
<1>4. ASSUME NEW d \in Conns \ {c} PROVE UNCHANGED OwnState(d)
  <2> USE DEF IInv, TypeOK, OwnState
  <2>1. CASE RecvData(c)
    <3>1. Reached(c) = c
      BY <1>0, <1>1, AtWork
    <3>2. PICK k \in ChunkSizes :
            /\ read' = [read EXCEPT ![c] = @ + k]
            /\ \/ \E r : /\ resp' = [resp EXCEPT ![c] = r]
                        /\ rpc' = [rpc EXCEPT ![c] = "lock"]
               \/ UNCHANGED receiver
      BY <2>1, <3>1 DEF RecvData
    <3>3. UNCHANGED <<sent, replies, spc, bufSize, bufData, sfd>>
      BY <2>1 DEF RecvData
    <3>4. QED
      BY <3>2, <3>3
  <2>2. CASE RecvSignal(c)
    <3>1. Waiters(slotOf[c]) \subseteq {c}
      <4>1. SUFFICES ASSUME NEW e \in Conns, spc[e] = "waiting",
                            slotOf[e] = slotOf[c], e # c
                     PROVE  FALSE
        BY DEF Waiters
      <4>2. rpc[e] # "none"
        BY <1>0, <4>1 DEF NobodyLeaves
      <4>3. QED
        BY <1>0, <1>1, <4>1, <4>2, AtWork
    <3>2. QED
      BY <2>2, <3>1 DEF RecvSignal, RecvGoto
  <2>3. QED
    BY <2>1, <2>2 DEF receiveThread, RecvStart, RecvEof, RecvLock,
       RecvStoreData, RecvStoreSize, RecvUnlock, RecvClose, RecvClearSock,
       RecvSetExitFlag, RecvGoto
<1>5. QED
  BY <1>1, <1>2, <1>3, <1>4

\* With its client calm, a receive thread never turns to the exit.
LEMMA ReceiverStays ==
  ASSUME IInv, Calm, ServedInv, NEW c \in Conns, receiveThread(c)
  PROVE  NobodyLeaves'
<1> USE DEF outside, net, main, slots, shared, receiver, sender, locals
<1>1. /\ NobodyLeaves /\ rpc[c] # "none"
      /\ Reached(c) = c /\ peer[c] = "open"
  BY AtWork, ReceiverAlone DEF ServedInv
<1>2. UNCHANGED <<mpc, newConn>>
  BY ReceiverAlone
<1>3. UNCHANGED bExitFlag
  BY <1>1 DEF NobodyLeaves, receiveThread, RecvStart, RecvData, RecvEof,
     RecvLock, RecvStoreData, RecvStoreSize, RecvSignal, RecvUnlock, RecvClose,
     RecvClearSock, RecvSetExitFlag, RecvGoto
<1>4. \E pc \in {"recv", "lock", "data", "size", "signal", "unlock"} :
        rpc' = [rpc EXCEPT ![c] = pc] \/ UNCHANGED rpc
  BY <1>1 DEF NobodyLeaves, receiveThread, RecvStart, RecvData, RecvEof,
     RecvLock, RecvStoreData, RecvStoreSize, RecvSignal, RecvUnlock, RecvClose,
     RecvClearSock, RecvSetExitFlag, RecvGoto, HasPeerName, NoConn, Conns
<1>5. \/ UNCHANGED spc
      \/ \E d \in Conns : /\ spc[d] = "waiting"
                        /\ spc' = [spc EXCEPT ![d] = "relock"]
  BY DEF receiveThread, RecvStart, RecvData, RecvEof, RecvLock, RecvStoreData,
     RecvStoreSize, RecvSignal, RecvUnlock, RecvClose, RecvClearSock,
     RecvSetExitFlag, Waiters
<1>6. rpc \in [Conns -> RecvPCs] /\ spc \in [Conns -> SendPCs]
  BY DEF IInv, TypeOK
<1>7. \A d \in Conns :
        /\ rpc'[d] \notin {"close", "clear", "flag", "done"}
        /\ rpc[d] # "none" => rpc'[d] # "none"
  BY <1>1, <1>4, <1>6 DEF NobodyLeaves
<1>8. \A d \in Conns :
        /\ spc'[d] \notin {"leave", "done"}
        /\ spc'[d] # "none" => spc[d] # "none"
  BY <1>1, <1>5, <1>6 DEF NobodyLeaves
<1>9. mpc = "mksend" => newConn \in Conns
  BY DEF IInv, SlotInv, KnownSlots
<1>10. QED
  BY <1>1, <1>2, <1>3, <1>7, <1>8, <1>9 DEF NobodyLeaves

\* The response a receive thread brings to the signal answers the latest
\* request.
LEMMA ReceiverServes ==
  ASSUME IInv, Calm, ServedInv, NEW c \in Conns, receiveThread(c)
  PROVE  Served(c)'
<1> USE DEF outside, net, main, slots, shared, receiver, sender, locals
<1>1. /\ NobodyLeaves /\ rpc[c] # "none" /\ Served(c)
      /\ Reached(c) = c /\ slotOf[c] \in Slots
  BY AtWork, ReceiverAlone DEF ServedInv
<1>2. /\ resp \in [Conns -> Replies] /\ rpc \in [Conns -> RecvPCs]
      /\ read \in [Conns -> Nat] /\ spc \in [Conns -> SendPCs]
      /\ chData \in [Slots -> Replies] /\ iDataSize \in [Slots -> Replies]
  BY DEF IInv, TypeOK
<1>3. CASE RecvStart(c)
  BY <1>1, <1>2, <1>3 DEF RecvStart, RecvGoto, Served, InOrder, StoresLatest,
     SendsLatest, Pending, Latest, Storing, Sending
<1>4. CASE RecvData(c)
  <2>1. PICK k \in ChunkSizes :
          /\ read[c] + k <= FrameLen * sent[c]
          /\ read' = [read EXCEPT ![c] = @ + k]
          /\ IF IsWholeFrame(c, k)
               THEN /\ resp' = [resp EXCEPT ![c] =
                                  <<c, (read[c] + k) \div FrameLen>>]
                    /\ rpc' = [rpc EXCEPT ![c] = "lock"]
               ELSE UNCHANGED receiver
    BY <1>1, <1>4 DEF RecvData
  <2>2. /\ rpc[c] = "recv"
        /\ UNCHANGED <<sent, replies, slotOf, fdOf, chData, iDataSize, spc,
                       bufSize, bufData, sfd>>
    BY <1>4 DEF RecvData
  <2>3. /\ k \in Nat /\ k > 0
        /\ sent[c] \in Nat /\ read[c] \in Nat /\ Len(replies[c]) \in Nat
    BY TypesOfServed, Process1Assumption DEF IInv
  <2>4. sent[c] = Len(replies[c]) + 1 /\ ~Sending(c)
    <3>1. read[c] < FrameLen * sent[c]
      BY <2>1, <2>3 DEF FrameLen
    <3>2. /\ FrameLen * Len(replies[c]) <= read[c]
          /\ sent[c] <= Len(replies[c]) + 1
      BY <1>1 DEF Served, InOrder, Calm
    <3>3. sent[c] = Len(replies[c]) + 1
      BY ONLY <2>3, <3>1, <3>2 DEF FrameLen
    <3>4. ~Pending(c)
      BY <2>3, <3>1 DEF Pending, FrameLen
    <3>5. QED
      BY <1>1, <3>3, <3>4 DEF Served, SendsLatest
  <2>5. read'[c] = read[c] + k /\ ~Sending(c)'
    BY <1>2, <2>1, <2>2, <2>4 DEF Sending
  <2>6. InOrder(c)'
    BY <1>1, <2>1, <2>2, <2>3, <2>5 DEF Served, InOrder, FrameLen
  <2>7. CASE IsWholeFrame(c, k)
    <3>1. read[c] = FrameLen * Len(replies[c]) /\ k = FrameLen
      <4>1. FrameLen * Len(replies[c]) <= read[c]
        BY <1>1 DEF Served, InOrder
      <4>2. QED
        BY ONLY <2>1, <2>3, <2>4, <2>7, <4>1 DEF IsWholeFrame, FrameLen
    <3>2. read[c] + k = FrameLen * sent[c]
          /\ (read[c] + k) \div FrameLen = sent[c]
      <4>1. \A n \in Nat : (2 * n) \div 2 = n
        OBVIOUS
      <4>2. read[c] + k = 2 * sent[c]
        BY ONLY <2>3, <2>4, <3>1 DEF FrameLen
      <4>3. QED
        BY ONLY <2>3, <4>1, <4>2 DEF FrameLen
    <3>3. Pending(c)' /\ resp'[c] = Latest(c)' /\ rpc'[c] = "lock"
      BY <1>2, <2>1, <2>2, <2>4, <2>5, <2>7, <3>2 DEF Pending, Latest
    <3>4. StoresLatest(c)'
      BY <2>5, <3>3 DEF StoresLatest
    <3>5. SendsLatest(c)'
      BY <2>5 DEF SendsLatest, Sending
    <3>6. QED
      BY <2>6, <3>4, <3>5 DEF Served
  <2>8. CASE ~IsWholeFrame(c, k)
    <3>1. rpc'[c] = "recv"
      BY <2>1, <2>2, <2>8
    <3>2. StoresLatest(c)'
      BY <3>1 DEF StoresLatest, Storing
    <3>3. SendsLatest(c)'
      BY <2>5 DEF SendsLatest, Sending
    <3>4. QED
      BY <2>6, <3>2, <3>3 DEF Served
  <2>9. QED
    BY <2>7, <2>8
<1>5. CASE RecvLock(c)
  BY <1>1, <1>2, <1>5 DEF RecvLock, RecvGoto, Served, InOrder, StoresLatest,
     SendsLatest, Pending, Latest, Storing, Sending
<1>6. CASE RecvStoreData(c)
  BY <1>1, <1>2, <1>6 DEF RecvStoreData, RecvGoto, Served, InOrder,
     StoresLatest, SendsLatest, Pending, Latest, Storing, Sending
<1>7. CASE RecvStoreSize(c)
  BY <1>1, <1>2, <1>7 DEF RecvStoreSize, RecvGoto, Served, InOrder,
     StoresLatest, SendsLatest, Pending, Latest, Storing, Sending
<1>8. CASE RecvSignal(c)
  BY <1>1, <1>2, <1>8 DEF RecvSignal, RecvGoto, Waiters, Served, InOrder,
     StoresLatest, SendsLatest, Pending, Latest, Storing, Sending
<1>9. CASE RecvUnlock(c)
  BY <1>1, <1>2, <1>9 DEF RecvUnlock, RecvGoto, Served, InOrder,
     StoresLatest, SendsLatest, Pending, Latest, Storing, Sending
<1>10. ~RecvEof(c) /\ ~RecvClose(c) /\ ~RecvClearSock(c) /\ ~RecvSetExitFlag(c)
  BY <1>1 DEF Calm, NobodyLeaves, RecvEof, RecvClose, RecvClearSock,
     RecvSetExitFlag, RecvGoto
<1>11. QED
  BY <1>3, <1>4, <1>5, <1>6, <1>7, <1>8, <1>9, <1>10 DEF receiveThread

-----------------------------------------------------------------------------
(* The send thread.                                                        *)

\* When a send thread sends, its descriptor still is its own connection's.
LEMMA SendsToOwn ==
  ASSUME IInv, Calm, ServedInv, NEW c \in Conns, spc[c] = "send"
  PROVE  owner[sfd[c]] = c
<1>1. NobodyLeaves /\ Served(c)
  BY DEF ServedInv
<1>2. rpc[c] # "none"
  BY <1>1 DEF NobodyLeaves
<1>3. owner[fdOf[c]] = c
  BY <1>1, <1>2, AtWork
<1>4. sfd[c] = fdOf[c]
  BY <1>1 DEF Served, SendsLatest
<1>5. QED
  BY <1>3, <1>4

\* A send thread touches its own connection only, and stays.
LEMMA SenderAlone ==
  ASSUME IInv, Calm, Calm', ServedInv, NEW c \in Conns, sendThread(c)
  PROVE  /\ rpc[c] # "none"
         /\ \A d \in Conns \ {c} : UNCHANGED OwnState(d)
         /\ UNCHANGED <<slotOf, fdOf, shared>>
         /\ NobodyLeaves'
<1> USE DEF outside, net, main, slots, shared, receiver, sender, locals
<1>1. NobodyLeaves
  BY DEF ServedInv
<1>2. spc[c] # "none"
  BY DEF sendThread, SendStart, SendCheckExit, SendWait, SendTimeout,
     SendSpuriousWakeup, SendRelock, SendCopySize, SendCopyData, SendUnlock,
     SendReadSock, SendMessage, SendLeave, SendGoto
<1>3. /\ rpc[c] # "none" /\ Reached(c) = c /\ peer[c] = "open"
      /\ slotOf[c] \in Slots /\ bExitFlag[slotOf[c]] = FALSE
  BY <1>1, <1>2, AtWork DEF NobodyLeaves
<1>4. UNCHANGED <<slotOf, fdOf, shared, mpc, newConn, rpc>>
  BY DEF sendThread, SendStart, SendCheckExit, SendWait, SendTimeout,
     SendSpuriousWakeup, SendRelock, SendCopySize, SendCopyData, SendUnlock,
     SendReadSock, SendMessage, SendLeave
<1>5. UNCHANGED bExitFlag
  BY <1>1 DEF NobodyLeaves, sendThread, SendStart, SendCheckExit, SendWait,
     SendTimeout, SendSpuriousWakeup, SendRelock, SendCopySize, SendCopyData,
     SendUnlock, SendReadSock, SendMessage, SendLeave, SendGoto
<1>6. \E pc \in SendPCs \ {"none", "leave", "done"} :
        spc' = [spc EXCEPT ![c] = pc]
  BY <1>1, <1>3 DEF NobodyLeaves, sendThread, SendStart, SendCheckExit,
     SendWait, SendTimeout, SendSpuriousWakeup, SendRelock, SendCopySize,
     SendCopyData, SendUnlock, SendReadSock, SendMessage, SendLeave, SendGoto,
     HasPeerName, NoConn, Conns, SendPCs
<1>7. ASSUME NEW d \in Conns \ {c} PROVE UNCHANGED OwnState(d)
  <2>1. replies'[d] = replies[d]
    <3>1. CASE SendMessage(c)
      <4>1. spc[c] = "send"
        BY <3>1 DEF SendMessage, SendGoto
      <4>2. owner[sfd[c]] = c
        BY <4>1, SendsToOwn
      <4>3. QED
        BY <3>1, <4>2 DEF SendMessage, IInv, TypeOK
    <3>2. QED
      BY <3>1 DEF sendThread, SendStart, SendCheckExit, SendWait, SendTimeout,
         SendSpuriousWakeup, SendRelock, SendCopySize, SendCopyData,
         SendUnlock, SendReadSock, SendLeave
  <2>2. UNCHANGED <<sent, read, rpc, resp>>
    BY DEF sendThread, SendStart, SendCheckExit, SendWait, SendTimeout,
       SendSpuriousWakeup, SendRelock, SendCopySize, SendCopyData, SendUnlock,
       SendReadSock, SendMessage, SendLeave
  <2>3. UNCHANGED <<spc[d], bufSize[d], bufData[d], sfd[d]>>
    BY DEF IInv, TypeOK, sendThread, SendStart, SendCheckExit, SendWait,
       SendTimeout, SendSpuriousWakeup, SendRelock, SendCopySize, SendCopyData,
       SendUnlock, SendReadSock, SendMessage, SendLeave, SendGoto
  <2>4. QED
    BY <2>1, <2>2, <2>3 DEF OwnState
<1>8. NobodyLeaves'
  <2>1. spc \in [Conns -> SendPCs]
    BY DEF IInv, TypeOK
  <2>2. \A d \in Conns : /\ spc'[d] \notin {"leave", "done"}
                         /\ spc'[d] # "none" => rpc[d] # "none"
    BY <1>1, <1>3, <1>6, <2>1 DEF NobodyLeaves
  <2>3. QED
    BY <1>1, <1>4, <1>5, <2>2 DEF NobodyLeaves
<1>9. QED
  BY <1>3, <1>4, <1>7, <1>8

\* What sendMessage does to a calm client: it receives the response to its
\* latest request.
LEMMA MessageSent ==
  ASSUME IInv, Calm, ServedInv, NEW c \in Conns, SendMessage(c)
  PROVE  /\ Pending(c)
         /\ replies' = [replies EXCEPT ![c] = Append(@, Whole(c, sent[c]))]
         /\ sent' = sent
<1>1. spc[c] = "send" /\ NobodyLeaves /\ Served(c)
  BY DEF SendMessage, SendGoto, ServedInv
<1>2. owner[sfd[c]] = c /\ c # NoConn
  BY <1>1, SendsToOwn, Members
<1>3. peer[c] = "open"
  <2>1. rpc[c] # "none"
    BY <1>1 DEF NobodyLeaves
  <2>2. QED
    BY <1>1, <2>1, AtWork
<1>4. Pending(c) /\ bufSize[c] = Latest(c) /\ bufData[c] = Latest(c)
  BY <1>1 DEF Served, SendsLatest, Sending
<1>5. bufSize[c] # NoReply
  BY <1>2, <1>4 DEF Latest, NoReply
<1>6. [size |-> bufSize[c], data |-> bufData[c]] = Whole(c, sent[c])
  BY <1>4 DEF Latest, Whole
<1>7. QED
  BY <1>2, <1>3, <1>4, <1>5, <1>6 DEF SendMessage

\* From the signal to sendMessage, a send thread carries the response to the
\* latest request.
LEMMA SenderServes ==
  ASSUME IInv, Calm, Calm', ServedInv, NEW c \in Conns, sendThread(c)
  PROVE  Served(c)'
<1> USE DEF outside, net, main, slots, shared, receiver, sender, locals
<1>1. /\ NobodyLeaves /\ rpc[c] # "none" /\ Served(c)
      /\ slotOf[c] \in Slots /\ SockOf(c) = fdOf[c]
  BY AtWork, SenderAlone DEF ServedInv
<1>2. /\ spc \in [Conns -> SendPCs] /\ sfd \in [Conns -> Fds \cup {NoFd}]
      /\ bufSize \in [Conns -> Replies] /\ bufData \in [Conns -> Replies]
  BY DEF IInv, TypeOK
<1> USE DEF SendGoto, Served, InOrder, StoresLatest, SendsLatest, Pending,
            Latest, Storing, Sending
<1>3. CASE SendStart(c)
  BY <1>1, <1>2, <1>3 DEF SendStart
<1>4. CASE SendCheckExit(c)
  BY <1>1, <1>2, <1>4 DEF SendCheckExit
<1>5. CASE SendWait(c)
  BY <1>1, <1>2, <1>5 DEF SendWait
<1>6. CASE SendTimeout(c)
  BY <1>1, <1>2, <1>6 DEF SendTimeout
<1>7. ~SendSpuriousWakeup(c)
  BY DEF Calm, SendSpuriousWakeup
<1>8. CASE SendRelock(c)
  BY <1>1, <1>2, <1>8 DEF SendRelock
<1>9. CASE SendCopySize(c)
  BY <1>1, <1>2, <1>9 DEF SendCopySize
<1>10. CASE SendCopyData(c)
  BY <1>1, <1>2, <1>10 DEF SendCopyData
<1>11. CASE SendUnlock(c)
  BY <1>1, <1>2, <1>11 DEF SendUnlock
<1>12. CASE SendReadSock(c)
  BY <1>1, <1>2, <1>12 DEF SendReadSock
<1>13. CASE SendMessage(c)
  <2>1. /\ Pending(c)
        /\ replies' = [replies EXCEPT ![c] = Append(@, Whole(c, sent[c]))]
    BY <1>13, MessageSent
  <2>2. /\ sent[c] \in Nat
        /\ replies \in [Conns -> Seq([size : Replies, data : Replies])]
        /\ replies[c] \in Seq([size : Replies, data : Replies])
        /\ Len(replies[c]) \in Nat
    BY TypesOfServed DEF IInv, TypeOK
  <2>3. replies'[c] = Append(replies[c], Whole(c, sent[c]))
    BY <2>1, <2>2
  <2>4. /\ Len(replies'[c]) = Len(replies[c]) + 1
        /\ \A i \in 1 .. Len(replies[c]) : replies'[c][i] = replies[c][i]
        /\ replies'[c][Len(replies[c]) + 1] = Whole(c, sent[c])
    BY ONLY <2>2, <2>3
  <2>5. UNCHANGED <<sent, read, rpc, resp, chData, iDataSize, slotOf>>
        /\ spc[c] = "send" /\ spc'[c] = "check"
    BY <1>2, <1>13 DEF SendMessage
  <2>6. \A i \in 1 .. Len(replies'[c]) : replies'[c][i] = Whole(c, i)'
    <3>1. ASSUME NEW i \in 1 .. Len(replies'[c])
          PROVE  i \in 1 .. Len(replies[c]) \/ i = Len(replies[c]) + 1
      BY ONLY <2>2, <2>4, <3>1
    <3>2. sent[c] = Len(replies[c]) + 1
      BY <2>1
    <3>3. \A i \in 1 .. Len(replies[c]) : replies[c][i] = Whole(c, i)
      BY <1>1
    <3>4. QED
      BY ONLY <2>4, <3>1, <3>2, <3>3 DEF Whole
  <2>7. InOrder(c)'
    BY <1>1, <2>1, <2>2, <2>4, <2>5, <2>6 DEF FrameLen
  <2>8. ~Storing(c)
    BY <1>1, <2>5
  <2>9. StoresLatest(c)' /\ SendsLatest(c)'
    BY <2>5, <2>8
  <2>10. QED
    BY <2>7, <2>9
<1>14. ~SendLeave(c)
  BY <1>1 DEF NobodyLeaves, SendLeave
<1>15. QED
  BY <1>3, <1>4, <1>5, <1>6, <1>7, <1>8, <1>9, <1>10, <1>11, <1>12, <1>13,
     <1>14 DEF sendThread

-----------------------------------------------------------------------------
(* main and the clients.                                                   *)

\* main gives a slot to connections without threads only, and starts their
\* threads with nothing stored or copied.
LEMMA MainServes ==
  ASSUME IInv, Calm, ServedInv, mainLoop
  PROVE  ServedInv'
<1> USE DEF net, main, outside, slots, shared, receiver, sender, locals
<1>1. NobodyLeaves /\ \A c \in Conns : Served(c)
  BY DEF ServedInv
<1>2. CoreTypes /\ bExitFlag \in [Slots -> BOOLEAN]
  BY TypesOfCore DEF IInv, TypeOK
<1>3. ASSUME UNCHANGED <<sent, read, replies, rpc, resp, spc, bufSize, bufData,
                         sfd, chData, iDataSize>>,
             \A c \in Conns :
               rpc[c] # "none" => UNCHANGED <<slotOf[c], fdOf[c]>>
      PROVE  \A c \in Conns : Served(c)'
  <2>1. SUFFICES ASSUME NEW c \in Conns PROVE Served(c)'
    OBVIOUS
  <2>2. UNCHANGED OwnState(c)
    BY <1>3 DEF OwnState
  <2>3. spc[c] # "none" => rpc[c] # "none"
    BY <1>1 DEF NobodyLeaves
  <2>4. QED
    BY <1>1, <1>3, <2>2, <2>3, LeftAlone
<1>4. CASE Accept
  <2>1. \A c \in Conns : rpc[c] # "none" => UNCHANGED <<slotOf[c], fdOf[c]>>
    BY <1>2, <1>4 DEF CoreTypes, Accept, IInv, SlotInv, OneFdEach
  <2>2. \A c \in Conns : Served(c)'
    BY <1>3, <1>4, <2>1 DEF Accept
  <2>3. NobodyLeaves'
    BY <1>1, <1>4 DEF Accept, NobodyLeaves
  <2>4. QED
    BY <2>2, <2>3 DEF ServedInv
<1>5. CASE ScanUsedSlot \/ ScanFoundNone \/ TakeSlot \/ InitMutex
           \/ ClearExitFlag
  <2>1. \A c \in Conns : Served(c)'
    BY <1>3, <1>5 DEF ScanUsedSlot, ScanFoundNone, TakeSlot, InitMutex,
       ClearExitFlag
  <2>2. NobodyLeaves'
    BY <1>1, <1>2, <1>5 DEF ScanUsedSlot, ScanFoundNone, TakeSlot, InitMutex,
       ClearExitFlag, NobodyLeaves
  <2>3. QED
    BY <2>1, <2>2 DEF ServedInv
<1>6. CASE CreateReceiveThread
  <2>1. /\ newConn \in Conns /\ rpc[newConn] = "none" /\ spc[newConn] = "none"
        /\ slotOf' = [slotOf EXCEPT ![newConn] = scan]
        /\ rpc' = [rpc EXCEPT ![newConn] = "start"]
        /\ UNCHANGED <<sent, read, replies, resp, spc, bufSize, bufData, sfd,
                       chData, iDataSize, fdOf, bExitFlag, newConn>>
    BY <1>1, <1>6 DEF CreateReceiveThread, IInv, SlotInv, KnownSlots, Placing,
       NobodyLeaves
  <2>2. ASSUME NEW c \in Conns \ {newConn} PROVE Served(c)'
    <3>1. UNCHANGED OwnState(c) /\ UNCHANGED <<slotOf[c], fdOf[c]>>
      BY <1>2, <2>1 DEF CoreTypes, OwnState
    <3>2. UNCHANGED <<slotOf[c], fdOf[c], chData[slotOf[c]],
                      iDataSize[slotOf[c]]>>
      BY <2>1, <3>1
    <3>3. QED
      BY <1>1, <3>1, <3>2, LeftAlone
  <2>3. Served(newConn)'
    <3>1. rpc'[newConn] = "start" /\ spc'[newConn] = "none"
      BY <1>2, <2>1 DEF CoreTypes
    <3>2. InOrder(newConn)'
      BY <1>1, <2>1 DEF Served, InOrder
    <3>3. StoresLatest(newConn)'
      BY <2>1, <3>1 DEF StoresLatest, Storing
    <3>4. SendsLatest(newConn)'
      BY <2>1, <3>1 DEF SendsLatest, Sending
    <3>5. QED
      BY <2>1, <3>2, <3>3, <3>4 DEF Served
  <2>4. NobodyLeaves'
    BY <1>1, <1>2, <2>1 DEF NobodyLeaves, CoreTypes
  <2>5. QED
    BY <2>1, <2>2, <2>3, <2>4 DEF ServedInv
<1>7. CASE CreateSendThread
  <2>1. /\ newConn \in Conns /\ rpc[newConn] # "none" /\ mpc' = "select"
        /\ spc' = [spc EXCEPT ![newConn] = "start"]
        /\ UNCHANGED <<sent, read, replies, rpc, resp, bufSize, bufData, sfd,
                       chData, iDataSize, fdOf, slotOf, bExitFlag, newConn>>
    BY <1>1, <1>7 DEF CreateSendThread, IInv, SlotInv, KnownSlots, NobodyLeaves
  <2>2. ASSUME NEW c \in Conns \ {newConn} PROVE Served(c)'
    <3>1. UNCHANGED OwnState(c)
      BY <1>2, <2>1 DEF CoreTypes, OwnState
    <3>2. UNCHANGED <<slotOf[c], fdOf[c], chData[slotOf[c]],
                      iDataSize[slotOf[c]]>>
      BY <2>1
    <3>3. QED
      BY <1>1, <3>1, <3>2, LeftAlone
  <2>3. Served(newConn)'
    BY <1>1, <1>2, <2>1 DEF CoreTypes, Served, InOrder, StoresLatest,
       SendsLatest, Storing, Sending, Pending, Latest
  <2>4. NobodyLeaves'
    BY <1>1, <1>2, <2>1 DEF NobodyLeaves, CoreTypes
  <2>5. QED
    BY <2>1, <2>2, <2>3, <2>4 DEF ServedInv
<1>8. QED
  BY <1>4, <1>5, <1>6, <1>7 DEF mainLoop

\* A calm client asks only when nothing of its own is on its way.
LEMMA ClientServed ==
  ASSUME IInv, Calm, Calm', ServedInv, NEW c \in Conns,
         SendRequest(c) \/ EndConnection(c)
  PROVE  ServedInv'
<1> USE DEF net, main, outside, slots, shared, receiver, sender, locals
<1>1. NobodyLeaves /\ \A d \in Conns : Served(d)
  BY DEF ServedInv
<1>2. ~EndConnection(c)
  <2>1. SUFFICES ASSUME EndConnection(c) PROVE FALSE
    OBVIOUS
  <2>2. PICK e \in PeerEnds : peer' = [peer EXCEPT ![c] = e]
    BY <2>1 DEF EndConnection
  <2>3. peer'[c] \in {"closed", "reset"}
    BY <2>2, Process1Assumption DEF IInv, TypeOK
  <2>4. QED
    BY <2>3 DEF Calm
<1>3. /\ sent' = [sent EXCEPT ![c] = @ + 1]
      /\ UNCHANGED <<read, replies, rpc, resp, spc, bufSize, bufData, sfd,
                     chData, iDataSize, fdOf, slotOf, bExitFlag, mpc, newConn>>
  BY <1>2 DEF SendRequest
<1>4. sent \in [Conns -> 0 .. MaxReq]
  BY DEF IInv, TypeOK
<1>5. NobodyLeaves'
  BY <1>1, <1>3 DEF NobodyLeaves
<1>6. ASSUME NEW d \in Conns \ {c} PROVE Served(d)'
  <2>1. UNCHANGED OwnState(d)
    BY <1>3, <1>4 DEF OwnState
  <2>2. UNCHANGED <<slotOf[d], fdOf[d], chData[slotOf[d]],
                    iDataSize[slotOf[d]]>>
    BY <1>3
  <2>3. QED
    BY <1>1, <2>1, <2>2, LeftAlone
<1>7. Served(c)'
  <2>1. sent[c] \in Nat /\ read[c] \in Nat /\ Len(replies[c]) \in Nat
    BY TypesOfServed DEF IInv
  <2>2. sent'[c] = sent[c] + 1 /\ sent'[c] <= Len(replies[c]) + 1
    BY <1>3, <1>4 DEF Calm
  <2>3. ~Pending(c)
    BY <2>1, <2>2 DEF Pending
  <2>4. ~Storing(c) /\ ~Sending(c)
    BY <1>1, <2>3 DEF Served, StoresLatest, SendsLatest
  <2>5. InOrder(c)'
    BY <1>1, <1>3, <2>1, <2>2 DEF Served, InOrder, FrameLen, Whole
  <2>6. StoresLatest(c)' /\ SendsLatest(c)'
    BY <1>3, <2>4 DEF StoresLatest, SendsLatest, Storing, Sending
  <2>7. QED
    BY <2>5, <2>6 DEF Served
<1>8. QED
  BY <1>5, <1>6, <1>7 DEF ServedInv

-----------------------------------------------------------------------------
(* The theorems.                                                           *)

\* With calm clients, every step keeps the invariant.
LEMMA ServedStep ==
  ASSUME IInv, Calm, Calm', ServedInv, [Next]_vars
  PROVE  ServedInv'
<1>1. CASE mainLoop
  BY <1>1, MainServes
<1>2. ASSUME NEW c \in Conns, SendRequest(c) \/ EndConnection(c)
      PROVE  ServedInv'
  BY <1>2, ClientServed
<1>3. ASSUME NEW c \in Conns, receiveThread(c) PROVE ServedInv'
  BY <1>3, ReceiverAlone, OthersKept, ReceiverStays, ReceiverServes
  DEF ServedInv
<1>4. ASSUME NEW c \in Conns, sendThread(c) PROVE ServedInv'
  BY <1>4, SenderAlone, OthersKept, SenderServes DEF ServedInv, shared
<1>5. CASE UNCHANGED vars
  <2>1. NobodyLeaves'
    BY <1>5 DEF vars, ServedInv, NobodyLeaves
  <2>2. ASSUME NEW c \in Conns PROVE Served(c)'
    BY <1>5, LeftAlone DEF vars, ServedInv, OwnState
  <2>3. QED
    BY <2>1, <2>2 DEF ServedInv
<1>6. QED
  BY <1>1, <1>2, <1>3, <1>4, <1>5 DEF Next

\* The initial states satisfy it.
LEMMA ServedInit == Init => ServedInv
<1> SUFFICES ASSUME Init PROVE ServedInv
  OBVIOUS
<1>1. NobodyLeaves
  BY DEF Init, NobodyLeaves
<1>2. ASSUME NEW c \in Conns PROVE Served(c)
  <2>1. /\ sent[c] = 0 /\ read[c] = 0 /\ replies[c] = <<>>
        /\ rpc[c] = "none" /\ spc[c] = "none"
    BY DEF Init
  <2>2. InOrder(c)
    BY <2>1 DEF InOrder, FrameLen
  <2>3. QED
    BY <2>1, <2>2 DEF Served, StoresLatest, SendsLatest, Storing, Sending
<1>3. QED
  BY <1>1, <1>2 DEF ServedInv

\* With calm clients, every response a client has received, and the one on its
\* way, is the whole response to the request with its number.
THEOREM CalmServed == Spec /\ []Calm => []ServedInv
<1>1. IInv /\ Calm /\ Calm' /\ ServedInv /\ [Next]_vars => ServedInv'
  BY ServedStep
<1>2. QED
  BY <1>1, ServedInit, Invariance, PTL DEF Spec

\* With calm clients, a receive thread never writes SHARED_DATA while the send
\* thread of its slot copies it, although a timed wait unlocks the mutex under
\* whoever holds it.
THEOREM CalmExclusion == Spec /\ []Calm => []SharedDataExclusion
<1>1. ASSUME IInv, Calm, ServedInv PROVE SharedDataExclusion
  <2>1. SUFFICES ASSUME NEW c \in Conns, NEW d \in Conns,
                        rpc[c] \in {"data", "size"},
                        spc[d] \in {"copysize", "copydata"}
                 PROVE  slotOf[c] # slotOf[d]
    BY DEF SharedDataExclusion
  <2>2. NobodyLeaves /\ Served(c)
    BY <1>1 DEF ServedInv
  <2>3. c # d
    BY <2>1, <2>2 DEF Served, StoresLatest, Storing, Sending
  <2>4. rpc[c] # "none" /\ rpc[d] # "none"
    BY <2>1, <2>2 DEF NobodyLeaves
  <2>5. QED
    BY <1>1, <2>2, <2>3, <2>4, AtWork
<1>2. QED
  BY <1>1, CalmServed, Invariance, PTL

\* The requests answered in order.
UpTo(n) == [i \in 1 .. n |-> i]

\* One more request answered.
LEMMA UpToNext ==
  ASSUME NEW n \in Nat
  PROVE  /\ UpTo(n) \in Seq(Nat) /\ Len(UpTo(n)) = n
         /\ UpTo(n + 1) = Append(UpTo(n), n + 1)
         /\ UpTo(n) = <<>> <=> n = 0
<1>1. UpTo(n) \in Seq(Nat) /\ Len(UpTo(n)) = n
  BY DEF UpTo
<1>2. UpTo(n + 1) = Append(UpTo(n), n + 1)
  BY DEF UpTo
<1>3. UpTo(n) = <<>> <=> n = 0
  BY <1>1 DEF UpTo
<1>4. QED
  BY <1>1, <1>2, <1>3

\* Responses that answer the requests in order map to the first requests.
LEMMA AnsweredInOrder ==
  ASSUME NEW c \in Conns, NEW s \in Seq([size : Replies, data : Replies]),
         \A i \in 1 .. Len(s) : s[i] = Whole(c, i)
  PROVE  [i \in DOMAIN s |-> AnsweredRequest(c, s[i])] = UpTo(Len(s))
<1>1. DOMAIN s = 1 .. Len(s)
  OBVIOUS
<1>2. ASSUME NEW i \in 1 .. Len(s) PROVE AnsweredRequest(c, s[i]) = i
  <2>1. Whole(c, i).size = <<c, i>> /\ Whole(c, i).data = <<c, i>>
    BY ONLY DEF Whole
  <2>2. s[i] = Whole(c, i)
    OBVIOUS
  <2>3. QED
    BY <2>1, <2>2 DEF AnsweredRequest
<1>3. QED
  BY <1>1, <1>2 DEF UpTo

\* The refinement mapping of Process1: the requests of c that were answered.
Answered(c) ==
  [i \in DOMAIN replies[c] |-> AnsweredRequest(c, replies[c][i])]

\* With calm clients, process1 implements ReplyService: the responses a client
\* receives answer its own requests, each at most once and in order.
THEOREM CalmPromise == Spec /\ []Calm => KeepsPromise
<1>1. Init => Promise!Init
  <2>1. SUFFICES ASSUME Init, NEW c \in Conns
                 PROVE  Answered(c) = <<>>
    BY DEF Init, Promise!Init, Answered
  <2> DEFINE s == replies[c]
  <2>2. s = <<>>
    BY <2>1 DEF Init
  <2>3. s \in Seq([size : Replies, data : Replies]) /\ Len(s) = 0
    BY <2>2
  <2> HIDE DEF s
  <2>4. \A i \in 1 .. Len(s) : s[i] = Whole(c, i)
    BY ONLY <2>3
  <2>5. [i \in DOMAIN s |-> AnsweredRequest(c, s[i])] = UpTo(Len(s))
    BY ONLY <2>3, <2>4, c \in Conns, AnsweredInOrder
  <2>6. UpTo(0) = <<>>
    BY UpToNext
  <2>7. QED
    BY <2>3, <2>5, <2>6 DEF Answered, s
<1>2. ASSUME IInv, Calm, Calm', ServedInv, ServedInv', TypeOK', [Next]_vars
      PROVE  [Promise!Next]_Promise!vars
  <2>1. ASSUME NEW c \in Conns, SendRequest(c) PROVE Promise!Ask(c)
    BY <2>1 DEF SendRequest, Promise!Ask
  <2>2. ASSUME NEW c \in Conns, SendMessage(c) PROVE Promise!Answer(c)
    <3> DEFINE n == Len(replies[c])
               answered == [d \in Conns |-> Answered(d)]
    <3>1. /\ Pending(c) /\ sent' = sent
          /\ replies' = [replies EXCEPT ![c] = Append(@, Whole(c, sent[c]))]
      BY <1>2, <2>2, MessageSent
    <3>2. /\ n \in Nat /\ sent[c] = n + 1
          /\ replies \in [Conns -> Seq([size : Replies, data : Replies])]
      BY <1>2, <3>1, TypesOfServed DEF Pending, IInv, TypeOK
    <3>3. Answered(c) = UpTo(n)
      BY <1>2, AnsweredInOrder, TypesOfServed
      DEF Answered, IInv, ServedInv, Served, InOrder
    <3>4. Len(replies'[c]) = n + 1
      BY <3>1, <3>2
    <3>5. Answered(c)' = UpTo(n + 1)
      <4>1. \A i \in 1 .. Len(replies'[c]) : replies'[c][i] = Whole(c, i)
        BY <1>2 DEF ServedInv, Served, InOrder, Whole
      <4>2. replies'[c] \in Seq([size : Replies, data : Replies])
        BY <1>2 DEF TypeOK
      <4>3. QED
        BY <3>4, <4>1, <4>2, AnsweredInOrder DEF Answered
    <3>6. Answered(c)' = Append(Answered(c), sent[c])
      BY <3>2, <3>3, <3>5, UpToNext
    <3>7. Promise!Last(c) = n
      <4>1. Promise!Last(c) =
              IF UpTo(n) = <<>> THEN 0 ELSE UpTo(n)[Len(UpTo(n))]
        BY <3>3 DEF Promise!Last, Answered
      <4>2. QED
        BY <3>2, <4>1, UpToNext DEF UpTo
    <3>8. answered' = [answered EXCEPT ![c] = Append(@, sent[c])]
      <4>1. \A d \in Conns \ {c} : Answered(d)' = Answered(d)
        BY <3>1, <3>2 DEF Answered
      <4>2. QED
        BY <3>6, <4>1
    <3>9. sent[c] \in (Promise!Last(c) + 1) .. sent[c]
      BY <3>2, <3>7
    <3>10. QED
      BY <3>1, <3>8, <3>9 DEF Promise!Answer, Answered
  <2>3. ASSUME UNCHANGED <<sent, replies>> PROVE UNCHANGED Promise!vars
    BY <2>3 DEF Promise!vars
  <2>4. \A c \in Conns : receiveThread(c) => UNCHANGED <<sent, replies>>
    BY DEF receiveThread, RecvStart, RecvData, RecvEof, RecvLock,
       RecvStoreData, RecvStoreSize, RecvSignal, RecvUnlock, RecvClose,
       RecvClearSock, RecvSetExitFlag, outside, net
  <2>5. \A c \in Conns : sendThread(c) /\ ~SendMessage(c)
                            => UNCHANGED <<sent, replies>>
    BY DEF sendThread, SendStart, SendCheckExit, SendWait, SendTimeout,
       SendSpuriousWakeup, SendRelock, SendCopySize, SendCopyData, SendUnlock,
       SendReadSock, SendLeave, outside, net
  <2>6. mainLoop \/ (\E c \in Conns : EndConnection(c)) \/ UNCHANGED vars
          => UNCHANGED <<sent, replies>>
    BY DEF mainLoop, Accept, ScanUsedSlot, ScanFoundNone, TakeSlot, InitMutex,
       ClearExitFlag, CreateReceiveThread, CreateSendThread, EndConnection,
       net, vars
  <2>7. QED
    BY <1>2, <2>1, <2>2, <2>3, <2>4, <2>5, <2>6 DEF Next, Promise!Next
<1>3. IInv /\ Calm /\ Calm' /\ ServedInv /\ ServedInv' /\ TypeOK'
           /\ [Next]_vars
        => [Promise!Next]_Promise!vars
  BY <1>2
<1>4. QED
  BY <1>1, <1>3, CalmServed, Invariance, TypeCorrect, PTL
  DEF Spec, KeepsPromise, Promise!Spec

\* Clients that stay, with one request outstanding at most, are calm, if no
\* wakeup is spurious.
THEOREM CalmClients ==
  ASSUME Window <= 1, PeerEnds = {}, MaxSpurious = 0
  PROVE  Spec => []Calm
<1>1. Init => Calm
  BY DEF Init, Calm
<1>2. ASSUME IInv, Calm, [Next]_vars PROVE Calm'
  <2> USE DEF outside, net
  <2>1. /\ peer \in [Conns -> {"new", "open", "closed", "reset"}]
        /\ sent \in [Conns -> 0 .. MaxReq]
        /\ replies \in [Conns -> Seq([size : Replies, data : Replies])]
        /\ spurious = 0
    BY <1>2 DEF IInv, TypeOK, Calm
  <2>2. ASSUME NEW c \in Conns, SendRequest(c) PROVE Calm'
    <3>1. sent[c] + 1 <= Len(replies[c]) + 1
      <4>1. sent[c] \in Nat /\ Len(replies[c]) \in Nat /\ Window \in Nat
        BY <1>2, TypesOfServed, Process1Assumption DEF IInv
      <4>2. sent[c] < Len(replies[c]) + Window
        BY <2>2 DEF SendRequest
      <4>3. QED
        BY ONLY <4>1, <4>2, Window <= 1
    <3>2. QED
      BY <1>2, <2>1, <2>2, <3>1 DEF SendRequest, Calm
  <2>3. ASSUME NEW c \in Conns, SendMessage(c) PROVE Calm'
    <3>1. UNCHANGED <<peer, sent, spurious>>
      BY <2>3 DEF SendMessage
    <3>2. \/ UNCHANGED replies
          \/ \E d \in Conns, m \in [size : Replies, data : Replies] :
               replies' = [replies EXCEPT ![d] = Append(@, m)]
      <4>1. bufSize[c] \in Replies /\ bufData[c] \in Replies
            /\ owner[sfd[c]] \in Conns \cup {NoConn}
        BY <1>2 DEF IInv, TypeOK
      <4>2. QED
        BY <2>3, <4>1 DEF SendMessage
    <3>3. ASSUME NEW d \in Conns
          PROVE  Len(replies'[d]) \in Nat /\ Len(replies[d]) \in Nat
                 /\ Len(replies[d]) <= Len(replies'[d])
      <4>1. replies[d] \in Seq([size : Replies, data : Replies])
        BY <2>1
      <4>2. \/ replies'[d] = replies[d]
            \/ \E m \in [size : Replies, data : Replies] :
                 replies'[d] = Append(replies[d], m)
        BY <2>1, <3>2
      <4>3. QED
        BY ONLY <4>1, <4>2
    <3>4. \A d \in Conns : sent[d] <= Len(replies'[d]) + 1
      <4>1. \A d \in Conns : sent[d] \in Nat /\ sent[d] <= Len(replies[d]) + 1
        BY <1>2, TypesOfServed DEF IInv, Calm
      <4>2. QED
        BY ONLY <3>3, <4>1
    <3>5. QED
      BY <1>2, <3>1, <3>4 DEF Calm
  <2>4. \A c \in Conns : ~EndConnection(c) /\ ~SendSpuriousWakeup(c)
    BY <2>1 DEF EndConnection, SendSpuriousWakeup
  <2>5. ASSUME mainLoop PROVE Calm'
    BY <1>2, <2>1, <2>5 DEF mainLoop, Accept, ScanUsedSlot, ScanFoundNone,
       TakeSlot, InitMutex, ClearExitFlag, CreateReceiveThread,
       CreateSendThread, Calm
  <2>6. ASSUME UNCHANGED <<peer, sent, replies, spurious>> PROVE Calm'
    BY <1>2, <2>6 DEF Calm
  <2>7. \A c \in Conns : receiveThread(c)
                            => UNCHANGED <<peer, sent, replies, spurious>>
    BY DEF receiveThread, RecvStart, RecvData, RecvEof, RecvLock,
       RecvStoreData, RecvStoreSize, RecvSignal, RecvUnlock, RecvClose,
       RecvClearSock, RecvSetExitFlag
  <2>8. \A c \in Conns : sendThread(c) => \/ SendMessage(c)
                          \/ UNCHANGED <<peer, sent, replies, spurious>>
    BY <2>4 DEF sendThread, SendStart, SendCheckExit, SendWait, SendTimeout,
       SendRelock, SendCopySize, SendCopyData, SendUnlock, SendReadSock,
       SendLeave
  <2>9. QED
    BY <1>2, <2>2, <2>3, <2>4, <2>5, <2>6, <2>7, <2>8 DEF Next, vars
<1>3. IInv /\ Calm /\ [Next]_vars => Calm'
  BY <1>2
<1>4. QED
  BY <1>1, <1>3, Invariance, PTL DEF Spec

\* So for such clients, with any number of them in any number of slots, the
\* receive and the send thread of a slot never meet in SHARED_DATA.
THEOREM Exclusion ==
  ASSUME Window <= 1, PeerEnds = {}, MaxSpurious = 0
  PROVE  Spec => []SharedDataExclusion
<1>1. Spec => []Calm
  BY CalmClients
<1>2. QED
  BY <1>1, CalmExclusion, PTL

\* And each of them receives the responses to its own requests, in order and
\* once each: process1 implements ReplyService.
THEOREM Isolation ==
  ASSUME Window <= 1, PeerEnds = {}, MaxSpurious = 0
  PROVE  Spec => KeepsPromise
<1>1. Spec => []Calm
  BY CalmClients
<1>2. QED
  BY <1>1, CalmPromise, PTL
=============================================================================
