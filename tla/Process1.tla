------------------------------ MODULE Process1 ------------------------------
(***************************************************************************)
(* The TCP server process1: the accept loop of main (process1.c), the      *)
(* table of client slots stClientGroup (process1.h, CLIENT_INFO) and, for  *)
(* every accepted connection, a receive thread (recv-thread.c) and a send  *)
(* thread (send-thread.c) that share the slot's SHARED_DATA through a      *)
(* mutex and a condition variable.                                         *)
(*                                                                         *)
(* A connection is numbered in the order of accept.  A request is one      *)
(* frame of the client's byte stream, abstracted to FrameLen units; a      *)
(* response is the pair <<connection, request number>> it answers.         *)
(***************************************************************************)
EXTENDS Integers, Sequences

CONSTANTS
  MAX_CLIENTS,  \* slots of stClientGroup
  MaxConns,     \* bound: connections ever made to the server
  MaxReq,       \* bound: requests a client sends on one connection
  Window,       \* requests a client has outstanding at most
  ChunkSizes,   \* units one recvMsgTimeout call may return
  PeerEnds,     \* how a client may end its connection
  MaxSpurious   \* bound: wakeups without a signal (POSIX allows them)

ASSUME Process1Assumption ==
  /\ MAX_CLIENTS \in Nat \ {0}
  /\ MaxConns \in Nat
  /\ MaxReq \in Nat
  /\ Window \in Nat
  /\ ChunkSizes \subseteq Nat \ {0}
  /\ PeerEnds \subseteq {"closed", "reset"}
  /\ MaxSpurious \in Nat

FrameLen == 2                    \* a frame is a header unit and a rest unit

Conns == 1 .. MaxConns
Slots == 1 .. MAX_CLIENTS
Fds   == 1 .. MaxConns           \* 0 is the "empty slot" mark of the code
NoFd    == 0
NoConn  == 0
NoSlot  == 0
NoReply == <<NoConn, 0>>         \* the zeroed SHARED_DATA
Replies == {NoReply} \cup (Conns \X (1 .. MaxReq))

NoThread == <<"nobody", NoConn>>
Recv(c)  == <<"recv", c>>
Send(c)  == <<"send", c>>
Threads  == {NoThread} \cup {Recv(c) : c \in Conns} \cup {Send(c) : c \in Conns}

VARIABLES
  \* The clients and the kernel.
  peer,       \* connection -> "new", "open", "closed", "reset"
  sent,       \* connection -> requests its client has sent
  read,       \* connection -> stream units the server has read
  replies,    \* connection -> responses its client has received
  owner,      \* descriptor -> the connection it refers to
  \* main().
  mpc,        \* its program counter
  newConn,    \* the connection it is placing
  fdOf,       \* connection -> the descriptor accept returned for it
  scan,       \* the slot index i of its search
  found,      \* history: slot -> the descriptor this search found in it
  \* The slots.
  iClientSock, bExitFlag, chData, iDataSize,
  mutex,      \* stSharedData.mutex: the thread that locked it last, or nobody
  \* The threads of a connection.
  slotOf,     \* the slot passed as their argument
  rpc, resp,  \* receive thread: program counter, pchResponse
  spc,        \* send thread: program counter
  bufSize, bufData, sfd, \* send thread: iDataSize, achBuffer, socket argument
  spurious    \* spurious wakeups so far

net      == <<peer, sent, read, replies>>
main     == <<mpc, newConn, fdOf, scan, found, slotOf>>
outside  == <<net, owner, main, spurious>>
slots    == <<iClientSock, bExitFlag>>
shared   == <<chData, iDataSize>>
receiver == <<rpc, resp>>
locals   == <<bufSize, bufData, sfd>>
sender   == <<spc, bufSize, bufData, sfd>>
vars == <<peer, sent, read, replies, owner, mpc, newConn, fdOf, scan, found,
          iClientSock, bExitFlag, chData, iDataSize, mutex, slotOf, rpc, resp,
          spc, bufSize, bufData, sfd, spurious>>

MainPCs == {"select", "scan", "init", "flag", "mkrecv", "mksend"}
RecvPCs == {"none", "start", "recv", "lock", "data", "size", "signal",
            "unlock", "close", "clear", "flag", "done"}
SendPCs == {"none", "start", "check", "wait", "waiting", "relock", "relockTO",
            "copysize", "copydata", "unlock", "readsock", "send", "leave",
            "done"}

NothingFound == [s \in Slots |-> NoFd]

-----------------------------------------------------------------------------
Init ==
  /\ peer = [c \in Conns |-> "new"]
  /\ sent = [c \in Conns |-> 0]
  /\ read = [c \in Conns |-> 0]
  /\ replies = [c \in Conns |-> <<>>]
  /\ owner = [f \in Fds \cup {NoFd} |-> NoConn]
  /\ mpc = "select"
  /\ newConn = NoConn
  /\ fdOf = [c \in Conns |-> NoFd]
  /\ scan = 1
  /\ found = NothingFound
  /\ iClientSock = [s \in Slots |-> NoFd]
  /\ bExitFlag = [s \in Slots |-> FALSE]
  /\ chData = [s \in Slots |-> NoReply]
  /\ iDataSize = [s \in Slots |-> NoReply]
  /\ mutex = [s \in Slots |-> NoThread]
  /\ slotOf = [c \in Conns |-> NoSlot]
  /\ rpc = [c \in Conns |-> "none"]
  /\ resp = [c \in Conns |-> NoReply]
  /\ spc = [c \in Conns |-> "none"]
  /\ bufSize = [c \in Conns |-> NoReply]
  /\ bufData = [c \in Conns |-> NoReply]
  /\ sfd = [c \in Conns |-> NoFd]
  /\ spurious = 0

-----------------------------------------------------------------------------
(* The clients (outside the repository).                                   *)

SendRequest(c) ==
  /\ peer[c] = "open"
  /\ sent[c] < MaxReq
  /\ sent[c] < Len(replies[c]) + Window
  /\ sent' = [sent EXCEPT ![c] = @ + 1]
  /\ UNCHANGED <<peer, read, replies, owner, main, slots, shared, mutex,
                 receiver, sender, spurious>>

EndConnection(c) ==
  /\ peer[c] = "open"
  /\ \E e \in PeerEnds : peer' = [peer EXCEPT ![c] = e]
  /\ UNCHANGED <<sent, read, replies, owner, main, slots, shared, mutex,
                 receiver, sender, spurious>>

-----------------------------------------------------------------------------
(* main(): one pass of the select loop places one new connection.          *)

FreeFds == {f \in Fds : owner[f] = NoConn}

\* The kernel hands out the lowest free descriptor.  A connection is made
\* and accepted in one step: what its client sends meanwhile stays unread.
Accept ==
  /\ mpc = "select"
  /\ \E c \in Conns, f \in FreeFds :
       /\ peer[c] = "new"
       /\ \A d \in Conns : peer[d] = "new" => c <= d
       /\ \A g \in FreeFds : f <= g
       /\ peer' = [peer EXCEPT ![c] = "open"]
       /\ owner' = [owner EXCEPT ![f] = c]
       /\ fdOf' = [fdOf EXCEPT ![c] = f]
       /\ newConn' = c
  /\ scan' = 1
  /\ mpc' = "scan"
  /\ UNCHANGED <<sent, read, replies, found, slotOf, slots, shared, mutex,
                 receiver, sender, spurious>>

ScanUsedSlot ==
  /\ mpc = "scan"
  /\ scan \in Slots
  /\ iClientSock[scan] # NoFd
  /\ scan' = scan + 1
  /\ found' = [found EXCEPT ![scan] = iClientSock[scan]]
  /\ UNCHANGED <<net, owner, mpc, newConn, fdOf, slotOf, slots, shared, mutex,
                 receiver, sender, spurious>>

\* Mutant: does not look at the last slot.
ScanStopsEarly ==
  /\ mpc = "scan"
  /\ scan >= MAX_CLIENTS
  /\ mpc' = "select"
  /\ found' = NothingFound
  /\ UNCHANGED <<net, owner, newConn, fdOf, scan, slotOf, slots, shared, mutex,
                 receiver, sender, spurious>>

\* No empty slot: the accepted descriptor stays open and nothing serves it.
ScanFoundNone ==
  /\ mpc = "scan"
  /\ scan \notin Slots
  /\ mpc' = "select"
  /\ found' = NothingFound
  /\ UNCHANGED <<net, owner, newConn, fdOf, scan, slotOf, slots, shared, mutex,
                 receiver, sender, spurious>>

\* Mutant: takes the slot without testing that it is empty.
TakeAnySlot ==
  /\ mpc = "scan"
  /\ scan \in Slots
  /\ iClientSock' = [iClientSock EXCEPT ![scan] = fdOf[newConn]]
  /\ mpc' = "init"
  /\ found' = NothingFound
  /\ UNCHANGED <<net, owner, newConn, fdOf, scan, slotOf, bExitFlag, shared,
                 mutex, receiver, sender, spurious>>

TakeSlot ==
  /\ mpc = "scan"
  /\ scan \in Slots
  /\ iClientSock[scan] = NoFd
  /\ iClientSock' = [iClientSock EXCEPT ![scan] = fdOf[newConn]]
  /\ mpc' = "init"
  /\ found' = NothingFound
  /\ UNCHANGED <<net, owner, newConn, fdOf, scan, slotOf, bExitFlag, shared,
                 mutex, receiver, sender, spurious>>

\* pthread_mutex_init on the slot's mutex, which an earlier client's send
\* thread may still be using: the mutex becomes free.
InitMutex ==
  /\ mpc = "init"
  /\ mutex' = [mutex EXCEPT ![scan] = NoThread]
  /\ mpc' = "flag"
  /\ UNCHANGED <<net, owner, newConn, fdOf, scan, found, slotOf, slots, shared,
                 receiver, sender, spurious>>

ClearExitFlag ==
  /\ mpc = "flag"
  /\ bExitFlag' = [bExitFlag EXCEPT ![scan] = FALSE]
  /\ mpc' = "mkrecv"
  /\ UNCHANGED <<net, owner, newConn, fdOf, scan, found, slotOf, iClientSock,
                 shared, mutex, receiver, sender, spurious>>

CreateReceiveThread ==
  /\ mpc = "mkrecv"
  /\ slotOf' = [slotOf EXCEPT ![newConn] = scan]
  /\ rpc' = [rpc EXCEPT ![newConn] = "start"]
  /\ mpc' = "mksend"
  /\ UNCHANGED <<net, owner, newConn, fdOf, scan, found, slots, shared, mutex,
                 resp, sender, spurious>>

CreateSendThread ==
  /\ mpc = "mksend"
  /\ spc' = [spc EXCEPT ![newConn] = "start"]
  /\ mpc' = "select"
  /\ UNCHANGED <<net, owner, newConn, fdOf, scan, found, slotOf, slots, shared,
                 mutex, receiver, locals, spurious>>

-----------------------------------------------------------------------------
(* What a system call on a descriptor reaches.                             *)

SockOf(c)  == iClientSock[slotOf[c]]      \* pstClientInfo->iClientSock
Reached(c) == owner[SockOf(c)]            \* the connection behind it

\* getpeername succeeds on a descriptor of a connection that was not reset.
HasPeerName(c) == Reached(c) # NoConn /\ peer[Reached(c)] # "reset"

-----------------------------------------------------------------------------
(* receiveThread.                                                          *)

RecvGoto(c, from, to) == rpc[c] = from /\ rpc' = [rpc EXCEPT ![c] = to]

\* On failure the thread exits and its slot keeps the descriptor for good.
RecvStart(c) ==
  /\ RecvGoto(c, "start", IF HasPeerName(c) THEN "recv" ELSE "done")
  /\ UNCHANGED <<outside, slots, shared, mutex, resp, sender>>

\* The chunk of k units is exactly one frame: getTotalRecvSize equals the
\* size received.
IsWholeFrame(d, k) == k = FrameLen /\ read[d] % FrameLen = 0

\* recvMsgTimeout returns data, any part of what has been sent so far: a
\* whole frame is dispatched and its response built, whatever its format
\* status; every other chunk is dropped.
RecvData(c) ==
  /\ rpc[c] = "recv"
  /\ Reached(c) # NoConn
  /\ LET d == Reached(c) IN
       \E k \in ChunkSizes :
         /\ read[d] + k <= FrameLen * sent[d]
         /\ read' = [read EXCEPT ![d] = @ + k]
         /\ IF IsWholeFrame(d, k)
              THEN /\ resp' = [resp EXCEPT ![c] =
                                 <<d, (read[d] + k) \div FrameLen>>]
                   /\ rpc' = [rpc EXCEPT ![c] = "lock"]
              ELSE UNCHANGED receiver
  /\ UNCHANGED <<peer, sent, replies, owner, main, slots, shared, mutex,
                 sender, spurious>>

\* Mutant: empties the slot before the disconnection is handled.
RecvEofClearsFirst(c) ==
  /\ RecvGoto(c, "recv", "close")
  /\ Reached(c) # NoConn
  /\ peer[Reached(c)] \in {"closed", "reset"}
  /\ read[Reached(c)] = FrameLen * sent[Reached(c)]
  /\ iClientSock' = [iClientSock EXCEPT ![slotOf[c]] = NoFd]
  /\ UNCHANGED <<outside, bExitFlag, shared, mutex, resp, sender>>

\* recvMsgTimeout returns 0: the client is gone and its stream is used up.
\* (A negative return, timeout or error, only repeats the loop.)
RecvEof(c) ==
  /\ RecvGoto(c, "recv", "close")
  /\ Reached(c) # NoConn
  /\ peer[Reached(c)] \in {"closed", "reset"}
  /\ read[Reached(c)] = FrameLen * sent[Reached(c)]
  /\ UNCHANGED <<outside, slots, shared, mutex, resp, sender>>

RecvLock(c) ==
  /\ RecvGoto(c, "lock", "data")
  /\ mutex[slotOf[c]] = NoThread
  /\ mutex' = [mutex EXCEPT ![slotOf[c]] = Recv(c)]
  /\ UNCHANGED <<outside, slots, shared, resp, sender>>

RecvStoreData(c) ==
  /\ RecvGoto(c, "data", "size")
  /\ chData' = [chData EXCEPT ![slotOf[c]] = resp[c]]
  /\ UNCHANGED <<outside, slots, iDataSize, mutex, resp, sender>>

\* Also free(pchResponse), after the size is stored.
RecvStoreSize(c) ==
  /\ RecvGoto(c, "size", "signal")
  /\ iDataSize' = [iDataSize EXCEPT ![slotOf[c]] = resp[c]]
  /\ resp' = [resp EXCEPT ![c] = NoReply]
  /\ UNCHANGED <<outside, slots, chData, mutex, sender>>

\* Mutant: one condition variable for all slots.
WaitersAnywhere(s) == {d \in Conns : spc[d] = "waiting"}

Waiters(s) == {d \in Conns : spc[d] = "waiting" /\ slotOf[d] = s}

\* pthread_cond_signal wakes one waiter of the slot; with none it is lost.
RecvSignal(c) ==
  /\ RecvGoto(c, "signal", "unlock")
  /\ IF Waiters(slotOf[c]) = {}
       THEN UNCHANGED spc
       ELSE \E d \in Waiters(slotOf[c]) : spc' = [spc EXCEPT ![d] = "relock"]
  /\ UNCHANGED <<outside, slots, shared, mutex, resp, locals>>

\* Mutant: the unlock is missing.
RecvNoUnlock(c) ==
  /\ RecvGoto(c, "unlock", "recv")
  /\ UNCHANGED <<outside, slots, shared, mutex, resp, sender>>

\* The unlock of a default mutex does not check who holds it.
RecvUnlock(c) ==
  /\ RecvGoto(c, "unlock", "recv")
  /\ mutex' = [mutex EXCEPT ![slotOf[c]] = NoThread]
  /\ UNCHANGED <<outside, slots, shared, resp, sender>>

\* Mutant: the disconnection does not close the descriptor.
RecvNoClose(c) ==
  /\ RecvGoto(c, "close", "clear")
  /\ UNCHANGED <<outside, slots, shared, mutex, resp, sender>>

\* handleClientDisconnection closes the descriptor the slot holds.
RecvClose(c) ==
  /\ RecvGoto(c, "close", "clear")
  /\ owner' = [owner EXCEPT ![SockOf(c)] = NoConn]
  /\ UNCHANGED <<net, main, slots, shared, mutex, resp, sender, spurious>>

\* Mutant: marks the slot with -1, as process2 does, instead of 0.
RecvMarkSock(c) ==
  /\ RecvGoto(c, "clear", "flag")
  /\ iClientSock' = [iClientSock EXCEPT ![slotOf[c]] = -1]
  /\ UNCHANGED <<outside, bExitFlag, shared, mutex, resp, sender>>

RecvClearSock(c) ==
  /\ RecvGoto(c, "clear", "flag")
  /\ iClientSock' = [iClientSock EXCEPT ![slotOf[c]] = NoFd]
  /\ UNCHANGED <<outside, bExitFlag, shared, mutex, resp, sender>>

\* Mutant: the thread ends without raising the exit flag.
RecvNoExitFlag(c) ==
  /\ RecvGoto(c, "flag", "done")
  /\ UNCHANGED <<outside, slots, shared, mutex, resp, sender>>

RecvSetExitFlag(c) ==
  /\ RecvGoto(c, "flag", "done")
  /\ bExitFlag' = [bExitFlag EXCEPT ![slotOf[c]] = TRUE]
  /\ UNCHANGED <<outside, iClientSock, shared, mutex, resp, sender>>

receiveThread(c) ==
  \/ RecvStart(c) \/ RecvData(c) \/ RecvEof(c) \/ RecvLock(c)
  \/ RecvStoreData(c) \/ RecvStoreSize(c) \/ RecvSignal(c) \/ RecvUnlock(c)
  \/ RecvClose(c) \/ RecvClearSock(c) \/ RecvSetExitFlag(c)

-----------------------------------------------------------------------------
(* sendThread.                                                             *)

SendGoto(c, from, to) == spc[c] = from /\ spc' = [spc EXCEPT ![c] = to]

\* On failure the thread exits without touching the exit flag.
SendStart(c) ==
  /\ SendGoto(c, "start", IF HasPeerName(c) THEN "check" ELSE "done")
  /\ UNCHANGED <<outside, slots, shared, mutex, receiver, locals>>

SendCheckExit(c) ==
  /\ SendGoto(c, "check", IF bExitFlag[slotOf[c]] THEN "leave" ELSE "wait")
  /\ UNCHANGED <<outside, slots, shared, mutex, receiver, locals>>

\* Mutant: sleeps for the second without giving the mutex up.
SendSleep(c) ==
  /\ SendGoto(c, "wait", "waiting")
  /\ UNCHANGED <<outside, slots, shared, mutex, receiver, locals>>

\* pthread_cond_timedwait unlocks the mutex although this thread locked it
\* only if its previous wait timed out: a default mutex is freed under
\* whichever thread holds it.
SendWait(c) ==
  /\ SendGoto(c, "wait", "waiting")
  /\ mutex' = [mutex EXCEPT ![slotOf[c]] = NoThread]
  /\ UNCHANGED <<outside, slots, shared, receiver, locals>>

SendTimeout(c) ==
  /\ SendGoto(c, "waiting", "relockTO")
  /\ UNCHANGED <<outside, slots, shared, mutex, receiver, locals>>

SendSpuriousWakeup(c) ==
  /\ spurious < MaxSpurious
  /\ spurious' = spurious + 1
  /\ SendGoto(c, "waiting", "relock")
  /\ UNCHANGED <<net, owner, main, slots, shared, mutex, receiver, locals>>

\* Mutant: does not tell ETIMEDOUT from a wakeup.
SendRelockAnyway(c) ==
  /\ \/ SendGoto(c, "relock", "copysize")
     \/ SendGoto(c, "relockTO", "copysize")
  /\ mutex[slotOf[c]] = NoThread
  /\ mutex' = [mutex EXCEPT ![slotOf[c]] = Send(c)]
  /\ UNCHANGED <<outside, slots, shared, receiver, locals>>

\* The wait returns with the mutex locked; after ETIMEDOUT the loop goes on
\* to the next check and wait without unlocking it.
SendRelock(c) ==
  /\ \/ SendGoto(c, "relock", "copysize")
     \/ SendGoto(c, "relockTO", "check")
  /\ mutex[slotOf[c]] = NoThread
  /\ mutex' = [mutex EXCEPT ![slotOf[c]] = Send(c)]
  /\ UNCHANGED <<outside, slots, shared, receiver, locals>>

SendCopySize(c) ==
  /\ SendGoto(c, "copysize", "copydata")
  /\ bufSize' = [bufSize EXCEPT ![c] = iDataSize[slotOf[c]]]
  /\ UNCHANGED <<outside, slots, shared, mutex, receiver, bufData, sfd>>

SendCopyData(c) ==
  /\ SendGoto(c, "copydata", "unlock")
  /\ bufData' = [bufData EXCEPT ![c] = chData[slotOf[c]]]
  /\ UNCHANGED <<outside, slots, shared, mutex, receiver, bufSize, sfd>>

SendUnlock(c) ==
  /\ SendGoto(c, "unlock", "readsock")
  /\ mutex' = [mutex EXCEPT ![slotOf[c]] = NoThread]
  /\ UNCHANGED <<outside, slots, shared, receiver, locals>>

SendReadSock(c) ==
  /\ SendGoto(c, "readsock", "send")
  /\ sfd' = [sfd EXCEPT ![c] = SockOf(c)]
  /\ UNCHANGED <<outside, slots, shared, mutex, receiver, bufSize, bufData>>

\* sendMessage writes the copied bytes to whatever connection the descriptor
\* refers to by now; no bytes, or nobody there, and nothing arrives.  The
\* buffer is dead afterwards: the next wakeup clears it before use.
SendMessage(c) ==
  /\ SendGoto(c, "send", "check")
  /\ LET d == owner[sfd[c]] IN
       IF d # NoConn /\ peer[d] = "open" /\ bufSize[c] # NoReply
         THEN replies' = [replies EXCEPT ![d] =
                Append(@, [size |-> bufSize[c], data |-> bufData[c]])]
         ELSE UNCHANGED replies
  /\ bufSize' = [bufSize EXCEPT ![c] = NoReply]
  /\ bufData' = [bufData EXCEPT ![c] = NoReply]
  /\ sfd' = [sfd EXCEPT ![c] = NoFd]
  /\ UNCHANGED <<peer, sent, read, owner, main, slots, shared, mutex, receiver,
                 spurious>>

\* The thread may exit with the mutex locked by its last timed out wait.
SendLeave(c) ==
  /\ SendGoto(c, "leave", "done")
  /\ bExitFlag' = [bExitFlag EXCEPT ![slotOf[c]] = TRUE]
  /\ UNCHANGED <<outside, iClientSock, shared, mutex, receiver, locals>>

sendThread(c) ==
  \/ SendStart(c) \/ SendCheckExit(c) \/ SendWait(c) \/ SendTimeout(c)
  \/ SendSpuriousWakeup(c) \/ SendRelock(c) \/ SendCopySize(c)
  \/ SendCopyData(c) \/ SendUnlock(c) \/ SendReadSock(c) \/ SendMessage(c)
  \/ SendLeave(c)

-----------------------------------------------------------------------------
mainLoop ==
  \/ Accept \/ ScanUsedSlot \/ ScanFoundNone \/ TakeSlot \/ InitMutex
  \/ ClearExitFlag \/ CreateReceiveThread \/ CreateSendThread

Next ==
  \/ mainLoop
  \/ \E c \in Conns : \/ SendRequest(c) \/ EndConnection(c)
                      \/ receiveThread(c) \/ sendThread(c)

Spec == Init /\ [][Next]_vars

\* The scheduler runs every thread, a timed wait returns after its second,
\* and a thread that waits for the mutex gets it: the others leave it free
\* for a whole wait at a time.  The clients are not fair, and a spurious
\* wakeup never has to come.
Fairness ==
  /\ WF_vars(mainLoop)
  /\ \A c \in Conns : /\ WF_vars(receiveThread(c)) /\ SF_vars(RecvLock(c))
                      /\ WF_vars(sendThread(c)) /\ SF_vars(SendRelock(c))

FairSpec == Spec /\ Fairness

-----------------------------------------------------------------------------
(* Properties.                                                             *)

TypeOK ==
  /\ peer \in [Conns -> {"new", "open", "closed", "reset"}]
  /\ sent \in [Conns -> 0 .. MaxReq]
  /\ read \in [Conns -> Nat]
  /\ replies \in [Conns -> Seq([size : Replies, data : Replies])]
  /\ owner \in [Fds \cup {NoFd} -> Conns \cup {NoConn}]
  /\ owner[NoFd] = NoConn
  /\ mpc \in MainPCs
  /\ newConn \in Conns \cup {NoConn}
  /\ fdOf \in [Conns -> Fds \cup {NoFd}]
  /\ scan \in 1 .. MAX_CLIENTS + 1
  /\ found \in [Slots -> Fds \cup {NoFd}]
  /\ iClientSock \in [Slots -> Fds \cup {NoFd}]
  /\ bExitFlag \in [Slots -> BOOLEAN]
  /\ chData \in [Slots -> Replies]
  /\ iDataSize \in [Slots -> Replies]
  /\ mutex \in [Slots -> Threads]
  /\ slotOf \in [Conns -> Slots \cup {NoSlot}]
  /\ rpc \in [Conns -> RecvPCs]
  /\ resp \in [Conns -> Replies]
  /\ spc \in [Conns -> SendPCs]
  /\ bufSize \in [Conns -> Replies]
  /\ bufData \in [Conns -> Replies]
  /\ sfd \in [Conns -> Fds \cup {NoFd}]
  /\ spurious \in 0 .. MaxSpurious

\* The receive thread of c exists and has not closed its descriptor yet.
Serving(c) == rpc[c] \in {"start", "recv", "lock", "data", "size", "signal",
                          "unlock", "close"}

\* A receive thread reads from, and closes, the connection it was made for,
\* and no two of them work on the same slot, although main and the receive
\* threads write iClientSock without a lock and descriptors are reused.
ReceiverOwnsSlot ==
  \A c \in Conns : Serving(c) =>
    /\ Reached(c) = c
    /\ \A d \in Conns \ {c} : Serving(d) => slotOf[d] # slotOf[c]

\* A descriptor is put in an empty slot and taken out by the receive thread
\* that closed it: a receive thread on its way out never empties a slot that
\* main has handed to the next client, and main never overwrites one in use.
SlotHandover ==
  [][\A s \in Slots : iClientSock'[s] # iClientSock[s] =>
       \/ iClientSock[s] = NoFd
       \/ /\ iClientSock'[s] = NoFd
          /\ \E c \in Conns : /\ slotOf[c] = s
                              /\ fdOf[c] = iClientSock[s]
                              /\ rpc[c] = "clear"]_vars

\* The receive thread of d is done with its slot.
Leaving(d) == rpc[d] \in {"flag", "done"}

\* A client is turned away, for good, only when main has found in every slot,
\* during this search, the descriptor of another client that was given the
\* slot; whoever's descriptor is no longer there by now has left it himself
\* since main looked.
TurnedAwayWhenFull ==
  [][mpc = "scan" /\ mpc' = "select" =>
       \A s \in Slots : \E d \in Conns \ {newConn} :
         /\ slotOf[d] = s /\ fdOf[d] = found[s]
         /\ iClientSock[s] = found[s] \/ Leaving(d)]_vars

\* A connection whose receive thread is past its loop has been closed.  The
\* only descriptors that leak behind a receive thread are those of clients
\* that reset the connection before it started, and the slot is lost with the
\* descriptor: it still leads to the dead connection and to no other, and no
\* other receive thread works on it.
NoDescriptorLeak ==
  \A c \in Conns : c \in {owner[f] : f \in Fds} =>
    /\ rpc[c] \notin {"clear", "flag"}
    /\ rpc[c] = "done" =>
         /\ peer[c] = "reset"
         /\ Reached(c) = c
         /\ \A d \in Conns : Serving(d) => slotOf[d] # slotOf[c]

\* The receive thread writes SHARED_DATA only while no send thread of the
\* slot is copying it.
SharedDataExclusion ==
  \A c, d \in Conns :
    rpc[c] \in {"data", "size"} /\ spc[d] \in {"copysize", "copydata"}
      => slotOf[c] # slotOf[d]

\* process1 keeps the promise of ReplyService.  A response put together from
\* two, or meant for another connection, maps to request 0, which the
\* abstract specification never answers.
AnsweredRequest(c, m) ==
  IF m.size = m.data /\ m.data[1] = c THEN m.data[2] ELSE 0

Promise == INSTANCE ReplyService WITH
  asked <- sent,
  answered <- [c \in Conns |->
                 [i \in DOMAIN replies[c] |-> AnsweredRequest(c, replies[c][i])]]

KeepsPromise == Promise!Spec

\* After the client has closed, both threads of its connection end, as the
\* joins of the test fixture and the reuse of the slot presume.  Checked for
\* one client, like the next: see ResponseStored.
ThreadsEnd ==
  \A c \in Conns :
    (peer[c] = "closed" /\ rpc[c] # "none")
      ~> (rpc[c] = "done" /\ spc[c] = "done")

\* A receive thread with a response always gets the mutex and stores it: the
\* send thread never keeps the mutex for good, although it goes on with the
\* mutex locked after a timeout.  True of a slot's first client; the exit flag
\* of a client that has left makes a send thread exit with the mutex locked.
ResponseStored ==
  \A c \in Conns : rpc[c] = "lock" ~> rpc[c] = "recv"

\* Once a signal has found the send thread waiting, both the size and the
\* data of the response it was for, or of later ones that have overwritten
\* them meanwhile, reach the client in one message, if the client stays.  The
\* response itself arrives whole when the client asks nothing more; when it
\* does, the message may mix two of these (see SharedDataExclusion).
SignalledReplyArrives ==
  \A c \in Conns : \A n \in 1 .. MaxReq :
    (spc[c] = "relock" /\ iDataSize[slotOf[c]] = <<c, n>>)
      ~> \/ \E i \in DOMAIN replies[c] :
              replies[c][i].size[2] >= n /\ replies[c][i].data[2] >= n
         \/ peer[c] # "open"

-----------------------------------------------------------------------------
(* What the comments of the source say and the code does not do.           *)

\* process1.c: received data is processed and the response sent to the
\* client.
RequestAnswered ==
  \A c \in Conns : \A n \in 1 .. MaxReq :
    sent[c] = n ~> (Len(replies[c]) >= n \/ peer[c] # "open")

\* process1.h: the data of a slot belongs to its client; what a client
\* receives is the response to a request of its own.
ReplyToOwnClient ==
  \A c \in Conns : \A i \in DOMAIN replies[c] : replies[c][i].data[1] = c
=============================================================================
