------------------------------ MODULE Process3 ------------------------------
(***************************************************************************)
(* process3: recvProcessingDataThread (recv-processing-data.c) and         *)
(* recvCommandDataThread (recv-command-data.c) each read a Unix socket and *)
(* pass the bytes on through a pipe of their own; main (process3.c) reads  *)
(* both pipes from one select loop.  The threads differ only in the socket *)
(* and the pipe they use, so a path "ctrl" or "cmd" stands for both.       *)
(*                                                                         *)
(* A message is MsgLen units; a unit is its path and its place in what the *)
(* server of that path sends, so that a lost, repeated, moved or mixed up  *)
(* unit shows.                                                             *)
(***************************************************************************)
EXTENDS Integers, Sequences

CONSTANTS
  MsgLen,        \* units of a message
  DATA_SIZE,     \* units of the buffers of the threads and of main
  PIPE_CAPACITY, \* units a pipe holds
  MaxMsgs        \* bound: messages a server sends

ASSUME Process3Assumption ==
  /\ MsgLen \in Nat \ {0}
  /\ DATA_SIZE \in Nat \ {0, 1}
  /\ PIPE_CAPACITY \in Nat /\ PIPE_CAPACITY >= DATA_SIZE
  /\ MaxMsgs \in Nat

Paths == {"ctrl", "cmd"}

VARIABLES
  server,   \* path -> "down", "up", "closed": the peer of its socket
  sent,     \* path -> messages its server has sent
  socket,   \* path -> units waiting in its socket
  tpc,      \* path -> program counter of its receive thread
  achRecvData,  \* path -> what the thread has received and not passed on
  pipe,     \* path -> units in its pipe
  mpc,      \* program counter of main
  readfds,  \* the pipes main has found readable and not read yet
  delivered \* path -> what main has read from its pipe

servers == <<server, sent, socket>>
threads == <<tpc, achRecvData>>
main    == <<mpc, readfds, delivered>>
vars == <<server, sent, socket, tpc, achRecvData, pipe, mpc, readfds,
          delivered>>

Empty == [k \in Paths |-> <<>>]

Init ==
  /\ server = [k \in Paths |-> "down"]
  /\ sent = [k \in Paths |-> 0]
  /\ socket = Empty
  /\ tpc = [k \in Paths |-> "connect"]
  /\ achRecvData = Empty
  /\ pipe = Empty
  /\ mpc = "select"
  /\ readfds = {}
  /\ delivered = Empty

-----------------------------------------------------------------------------
(* The servers: process2 for "ctrl", the local commander for "cmd"; the    *)
(* pipeline test has a stub for each.                                      *)

Message(k, n) == [i \in 1 .. MsgLen |-> <<k, (n - 1) * MsgLen + i>>]

ServerStart(k) ==
  /\ server[k] = "down"
  /\ server' = [server EXCEPT ![k] = "up"]
  /\ UNCHANGED <<sent, socket, threads, pipe, main>>

\* The server accepts its one client and sends to it.
ServerSend(k) ==
  /\ server[k] = "up"
  /\ tpc[k] \in {"recv", "write"}
  /\ sent[k] < MaxMsgs
  /\ sent' = [sent EXCEPT ![k] = @ + 1]
  /\ socket' = [socket EXCEPT ![k] = @ \o Message(k, sent[k] + 1)]
  /\ UNCHANGED <<server, threads, pipe, main>>

ServerClose(k) ==
  /\ server[k] = "up"
  /\ server' = [server EXCEPT ![k] = "closed"]
  /\ UNCHANGED <<sent, socket, threads, pipe, main>>

-----------------------------------------------------------------------------
(* The receive threads.                                                    *)

ThreadGoto(k, from, to) == tpc[k] = from /\ tpc' = [tpc EXCEPT ![k] = to]

\* createUdsClientSocket is called once; without a server it fails, and every
\* receive on its result fails for good.
ConnectServer(k) ==
  /\ ThreadGoto(k, "connect", IF server[k] = "up" THEN "recv" ELSE "failed")
  /\ UNCHANGED <<servers, achRecvData, pipe, main>>

\* Mutant: asks for more than the buffer holds.
ReceiveAll(k) ==
  /\ ThreadGoto(k, "recv", "write")
  /\ socket[k] # <<>>
  /\ achRecvData' = [achRecvData EXCEPT ![k] = socket[k]]
  /\ socket' = [socket EXCEPT ![k] = <<>>]
  /\ UNCHANGED <<server, sent, pipe, main>>

Shorter(m, n) == IF m <= n THEN m ELSE n

\* udsRecvMsgTimeout returns what waits, up to the buffer.  A timeout, an
\* error and the end of the connection only repeat the loop.
Receive(k) ==
  /\ ThreadGoto(k, "recv", "write")
  /\ socket[k] # <<>>
  /\ LET n == Shorter(Len(socket[k]), DATA_SIZE) IN
       /\ achRecvData' = [achRecvData EXCEPT ![k] = SubSeq(socket[k], 1, n)]
       /\ socket' = [socket EXCEPT ![k] = SubSeq(@, n + 1, Len(@))]
  /\ UNCHANGED <<server, sent, pipe, main>>

\* Mutant: gives up, with the data, when the pipe is full.
WriteOrDrop(k) ==
  /\ ThreadGoto(k, "write", "recv")
  /\ pipe' = IF Len(pipe[k]) + Len(achRecvData[k]) <= PIPE_CAPACITY
             THEN [pipe EXCEPT ![k] = @ \o achRecvData[k]] ELSE pipe
  /\ achRecvData' = [achRecvData EXCEPT ![k] = <<>>]
  /\ UNCHANGED <<servers, main>>

\* write of at most PIPE_BUF bytes: all at once, when there is room.  What
\* the buffer holds is dead afterwards.
WritePipe(k) ==
  /\ ThreadGoto(k, "write", "recv")
  /\ Len(pipe[k]) + Len(achRecvData[k]) <= PIPE_CAPACITY
  /\ pipe' = [pipe EXCEPT ![k] = @ \o achRecvData[k]]
  /\ achRecvData' = [achRecvData EXCEPT ![k] = <<>>]
  /\ UNCHANGED <<servers, main>>

recvThread(k) == ConnectServer(k) \/ Receive(k) \/ WritePipe(k)

-----------------------------------------------------------------------------
(* main().                                                                 *)

\* Mutant: maxfd without the + 1, so that the higher of the two descriptors,
\* iCtrlFd[0], is never reported.
SelectBelowMax ==
  /\ mpc = "select"
  /\ pipe["cmd"] # <<>>
  /\ readfds' = {"cmd"}
  /\ mpc' = "cmd"
  /\ UNCHANGED <<servers, threads, pipe, delivered>>

Select ==
  /\ mpc = "select"
  /\ \E k \in Paths : pipe[k] # <<>>
  /\ readfds' = {k \in Paths : pipe[k] # <<>>}
  /\ mpc' = "cmd"
  /\ UNCHANGED <<servers, threads, pipe, delivered>>

\* read of at most sizeof(chRecvData) - 1 bytes of the pipe.
ReadPipe(k) ==
  LET n == Shorter(Len(pipe[k]), DATA_SIZE - 1) IN
    /\ delivered' = [delivered EXCEPT ![k] = @ \o SubSeq(pipe[k], 1, n)]
    /\ pipe' = [pipe EXCEPT ![k] = SubSeq(@, n + 1, Len(@))]

\* iCmdFd first, then iCtrlFd, each if select reported it.
Visit(k, next) ==
  /\ IF k \in readfds THEN ReadPipe(k) ELSE UNCHANGED <<pipe, delivered>>
  /\ mpc' = next
  /\ UNCHANGED <<servers, threads, readfds>>

VisitPipes ==
  \/ mpc = "cmd" /\ Visit("cmd", "ctrl")
  \/ mpc = "ctrl" /\ Visit("ctrl", "select")

mainLoop == Select \/ VisitPipes

Next ==
  \/ \E k \in Paths : ServerStart(k) \/ ServerSend(k) \/ ServerClose(k)
  \/ \E k \in Paths : recvThread(k)
  \/ mainLoop

Spec == Init /\ [][Next]_vars

\* The threads and main are scheduled; the servers do as they like.
Fairness == WF_vars(mainLoop) /\ \A k \in Paths : WF_vars(recvThread(k))

FairSpec == Spec /\ Fairness

-----------------------------------------------------------------------------
(* Properties.                                                             *)

Unit == Paths \X (Nat \ {0})

TypeOK ==
  /\ server \in [Paths -> {"down", "up", "closed"}]
  /\ sent \in [Paths -> 0 .. MaxMsgs]
  /\ tpc \in [Paths -> {"connect", "recv", "write", "failed"}]
  /\ socket \in [Paths -> Seq(Unit)]
  /\ achRecvData \in [Paths -> Seq(Unit)]
  /\ pipe \in [Paths -> Seq(Unit)]
  /\ mpc \in {"select", "cmd", "ctrl"}
  /\ readfds \subseteq Paths
  /\ delivered \in [Paths -> Seq(Unit)]
  /\ \A k \in Paths : /\ Len(achRecvData[k]) <= DATA_SIZE
                      /\ Len(pipe[k]) <= PIPE_CAPACITY

Pipe == INSTANCE StreamPipe

\* What main has read from a pipe, followed by what is still in the pipe, the
\* thread and the socket, is what the server of that path sent: nothing is
\* lost, repeated, reordered or moved to the other path, however the stream
\* is cut by the buffers and by a full pipe.
StreamIntact ==
  \A k \in Paths :
    delivered[k] \o pipe[k] \o achRecvData[k] \o socket[k]
      = Pipe!Stream(k, sent[k] * MsgLen)

\* process3 keeps the promise of StreamPipe, with its liveness: everything a
\* connected server has sent reaches main, also after the server has closed,
\* and whatever goes on on the other path.
KeepsPromise == Pipe!FairSpec

=============================================================================
