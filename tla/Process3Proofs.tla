--------------------------- MODULE Process3Proofs ---------------------------
(***************************************************************************)
(* The two byte streams of process3 for messages, buffers and pipes of any *)
(* size and any number of messages: TypeOK, StreamIntact, and that every   *)
(* step is a step of StreamPipe or none.                                   *)
(***************************************************************************)
EXTENDS Process3, SequenceTheorems, TLAPS

\* A thread that waits for data has passed on all it had.
PassedOn == \A k \in Paths : tpc[k] # "write" => achRecvData[k] = <<>>

IInv == TypeOK /\ PassedOn /\ StreamIntact
-----------------------------------------------------------------------------
(* Sequences.                                                              *)

\* A sequence is its first n elements followed by the others.
LEMMA Split ==
  ASSUME NEW S, NEW s \in Seq(S), NEW n \in Nat, n <= Len(s)
  PROVE  /\ SubSeq(s, 1, n) \in Seq(S)
         /\ SubSeq(s, n + 1, Len(s)) \in Seq(S)
         /\ Len(SubSeq(s, 1, n)) = n
         /\ Len(SubSeq(s, n + 1, Len(s))) = Len(s) - n
         /\ SubSeq(s, 1, n) \o SubSeq(s, n + 1, Len(s)) = s
<1>1. Len(s) \in Nat /\ \A i \in 1 .. Len(s) : s[i] \in S
  BY LenProperties, ElementOfSeq
<1>2. SubSeq(s, 1, n) \in Seq(S) /\ Len(SubSeq(s, 1, n)) = n
  <2>1. \A i \in 1 .. n : s[i] \in S
    BY <1>1
  <2>2. QED
    BY <2>1, SubSeqProperties
<1>3. /\ SubSeq(s, n + 1, Len(s)) \in Seq(S)
      /\ Len(SubSeq(s, n + 1, Len(s))) = Len(s) - n
  <2>1. \A i \in n + 1 .. Len(s) : s[i] \in S
    BY <1>1
  <2>2. n + 1 \in Int /\ Len(s) \in Int
    BY <1>1
  <2>3. /\ SubSeq(s, n + 1, Len(s)) \in Seq(S)
        /\ Len(SubSeq(s, n + 1, Len(s)))
             = IF n + 1 <= Len(s) THEN Len(s) - (n + 1) + 1 ELSE 0
    BY ONLY <2>1, <2>2, SubSeqProperties
  <2>4. QED
    BY <1>1, <2>3
<1>4. SubSeq(s, 1, n) \o SubSeq(s, n + 1, Len(s)) = SubSeq(s, 1, Len(s))
  <2>1. 1 \in 1 .. Len(s) + 1 /\ n \in 1 - 1 .. Len(s) /\ Len(s) \in n .. Len(s)
    BY <1>1
  <2>2. QED
    BY <2>1, ConcatAdjacentSubSeq
<1>5. QED
  BY <1>2, <1>3, <1>4, SubSeqFull

\* Units may be moved between neighbouring parts of a stream.
LEMMA Regroup ==
  \A s, t, u \in Seq(Unit) : (s \o t) \o u = s \o (t \o u)
  BY ConcatAssociative

\* The beginning of a path's stream is a stream.
LEMMA Prefix ==
  ASSUME NEW k \in Paths, NEW n \in Nat, NEW s \in Seq(Unit),
         NEW t \in Seq(Unit), s \o t = Pipe!Stream(k, n)
  PROVE  s = Pipe!Stream(k, Len(s)) /\ Len(s) <= n
<1>1. Len(s) \in Nat /\ Len(t) \in Nat
  BY LenProperties
<1>2. Pipe!Stream(k, n) \in Seq(Unit) /\ Len(Pipe!Stream(k, n)) = n
  BY DEF Pipe!Stream, Unit
<1>3. n = Len(s) + Len(t)
  BY <1>2, ConcatProperties
<1>4. \A i \in 1 .. Len(s) : s[i] = <<k, i>>
  <2>1. \A i \in 1 .. Len(s) : (s \o t)[i] = s[i]
    BY <1>1, ConcatProperties
  <2>2. \A i \in 1 .. n : Pipe!Stream(k, n)[i] = <<k, i>>
    BY DEF Pipe!Stream
  <2>3. QED
    BY <1>1, <1>3, <2>1, <2>2
<1>5. s = [i \in 1 .. Len(s) |-> s[i]]
  BY LenProperties
<1>6. QED
  BY <1>1, <1>3, <1>4, <1>5 DEF Pipe!Stream

\* The next message makes the stream longer by MsgLen units.
LEMMA NextMessage ==
  ASSUME NEW k \in Paths, NEW n \in Nat
  PROVE  /\ Message(k, n + 1) \in Seq(Unit)
         /\ n * MsgLen \in Nat
         /\ Pipe!Stream(k, n * MsgLen) \in Seq(Unit)
         /\ Pipe!Stream(k, n * MsgLen) \o Message(k, n + 1)
              = Pipe!Stream(k, (n + 1) * MsgLen)
<1> DEFINE m == n * MsgLen
<1>1. m \in Nat /\ MsgLen \in Nat
  BY Process3Assumption
<1>2. (n + 1) * MsgLen = m + MsgLen /\ ((n + 1) - 1) * MsgLen = m
  BY <1>1
<1>3. Message(k, n + 1) = [i \in 1 .. MsgLen |-> <<k, m + i>>]
  BY <1>2 DEF Message
<1> HIDE DEF m
<1>4. Message(k, n + 1) \in Seq(Unit) /\ Len(Message(k, n + 1)) = MsgLen
  BY <1>1, <1>3 DEF Unit
<1>5. Pipe!Stream(k, m) \in Seq(Unit) /\ Len(Pipe!Stream(k, m)) = m
  BY <1>1 DEF Pipe!Stream, Unit
<1>6. /\ Pipe!Stream(k, m + MsgLen) \in Seq(Unit)
      /\ Len(Pipe!Stream(k, m + MsgLen)) = m + MsgLen
  BY <1>1 DEF Pipe!Stream, Unit
<1>7. Pipe!Stream(k, m) \o Message(k, n + 1) = Pipe!Stream(k, m + MsgLen)
  <2> DEFINE w == Pipe!Stream(k, m) \o Message(k, n + 1)
  <2>1. w \in Seq(Unit) /\ Len(w) = m + MsgLen
    BY <1>4, <1>5, ConcatProperties
  <2>2. \A i \in 1 .. m + MsgLen :
          w[i] = IF i <= m THEN Pipe!Stream(k, m)[i]
                           ELSE Message(k, n + 1)[i - m]
    BY <1>4, <1>5, ConcatProperties
  <2>3. \A i \in 1 .. m + MsgLen : w[i] = <<k, i>>
    <3> HIDE DEF w
    <3>1. ASSUME NEW i \in 1 .. m + MsgLen PROVE w[i] = <<k, i>>
      <4>1. CASE i <= m
        <5>1. i \in 1 .. m
          BY <1>1, <4>1
        <5>2. w[i] = Pipe!Stream(k, m)[i]
          BY <2>2, <4>1
        <5>3. Pipe!Stream(k, m)[i] = <<k, i>>
          BY ONLY <5>1 DEF Pipe!Stream
        <5>4. QED
          BY <5>2, <5>3
      <4>2. CASE i > m
        <5>1. i - m \in 1 .. MsgLen /\ m + (i - m) = i
          BY <1>1, <4>2
        <5>2. Message(k, n + 1)[i - m] = <<k, m + (i - m)>>
          BY ONLY <1>3, <5>1
        <5>3. w[i] = Message(k, n + 1)[i - m]
          BY <1>1, <2>2, <4>2
        <5>4. QED
          BY <5>1, <5>2, <5>3
      <4>3. QED
        BY <1>1, <4>1, <4>2
    <3>2. QED
      BY <3>1
  <2>4. \A i \in 1 .. m + MsgLen : Pipe!Stream(k, m + MsgLen)[i] = <<k, i>>
    BY DEF Pipe!Stream
  <2> HIDE DEF w
  <2>5. w = Pipe!Stream(k, m + MsgLen)
    BY <1>6, <2>1, <2>3, <2>4, SeqEqual
  <2>6. QED
    BY <2>5 DEF w
<1>8. QED
  BY <1>1, <1>2, <1>4, <1>5, <1>7 DEF m
-----------------------------------------------------------------------------
(* The inductive invariant.                                                *)

LEMMA Initially == Init => IInv
<1> SUFFICES ASSUME Init PROVE IInv
  OBVIOUS
<1>1. <<>> \in Seq(Unit) /\ Len(<<>>) = 0
  BY EmptySeq
<1>2. TypeOK
  BY <1>1, Process3Assumption DEF Init, TypeOK, Empty
<1>3. PassedOn
  BY DEF Init, PassedOn, Empty
<1>4. StreamIntact
  <2> SUFFICES ASSUME NEW k \in Paths
               PROVE  delivered[k] \o pipe[k] \o achRecvData[k] \o socket[k]
                        = Pipe!Stream(k, sent[k] * MsgLen)
    BY DEF StreamIntact
  <2>1. /\ delivered[k] = <<>> /\ pipe[k] = <<>>
        /\ achRecvData[k] = <<>> /\ socket[k] = <<>> /\ sent[k] = 0
    BY DEF Init, Empty
  <2>2. sent[k] * MsgLen = 0
    BY <2>1, Process3Assumption
  <2>3. Pipe!Stream(k, 0) = <<>>
    BY DEF Pipe!Stream
  <2>4. <<>> \o <<>> = <<>>
    BY <1>1, ConcatEmptySeq
  <2>5. QED
    BY ONLY <2>1, <2>2, <2>3, <2>4
<1>5. QED
  BY <1>2, <1>3, <1>4 DEF IInv

\* What a step that leaves the stream of every path as it was preserves.
Stream(k) == delivered[k] \o pipe[k] \o achRecvData[k] \o socket[k]

LEMMA SameStream ==
  ASSUME StreamIntact, UNCHANGED sent,
         \A k \in Paths : Stream(k)' = Stream(k)
  PROVE  StreamIntact'
  BY DEF StreamIntact, Stream

\* The server sends: the stream grows at its end.
LEMMA SendStep ==
  ASSUME IInv, NEW k \in Paths, ServerSend(k)
  PROVE  IInv'
<1> USE DEF IInv, TypeOK, servers, threads, main
<1>1. /\ UNCHANGED <<server, tpc, achRecvData, pipe, mpc, readfds, delivered>>
      /\ sent' = [sent EXCEPT ![k] = @ + 1]
      /\ socket' = [socket EXCEPT ![k] = @ \o Message(k, sent[k] + 1)]
      /\ sent[k] < MaxMsgs
  BY DEF ServerSend
<1>2. sent[k] \in Nat /\ MaxMsgs \in Nat
  BY Process3Assumption
<1>3. Message(k, sent[k] + 1) \in Seq(Unit)
  BY <1>2, NextMessage
<1>4. TypeOK'
  <2>1. sent' \in [Paths -> 0 .. MaxMsgs]
    BY <1>1, <1>2
  <2>2. socket[k] \o Message(k, sent[k] + 1) \in Seq(Unit)
    BY <1>3, ConcatProperties
  <2>3. socket' \in [Paths -> Seq(Unit)]
    BY <1>1, <2>2
  <2>4. QED
    BY <1>1, <2>1, <2>3
<1>5. PassedOn'
  BY <1>1 DEF PassedOn
<1>6. ASSUME NEW j \in Paths
      PROVE  Stream(j)' = Pipe!Stream(j, sent'[j] * MsgLen)
  <2>1. CASE j # k
    BY <1>1, <2>1 DEF StreamIntact, Stream
  <2>2. CASE j = k
    <3> DEFINE w == delivered[k] \o pipe[k] \o achRecvData[k]
    <3>1. w \in Seq(Unit)
      BY ConcatProperties
    <3>2. w \o socket[k] = Pipe!Stream(k, sent[k] * MsgLen)
      BY DEF StreamIntact
    <3>3. Stream(k)' = w \o (socket[k] \o Message(k, sent[k] + 1))
      BY <1>1 DEF Stream
    <3> HIDE DEF w
    <3>4. Stream(k)' = Pipe!Stream(k, sent[k] * MsgLen)
                         \o Message(k, sent[k] + 1)
      <4>1. (w \o socket[k]) \o Message(k, sent[k] + 1)
              = w \o (socket[k] \o Message(k, sent[k] + 1))
        <5>1. socket[k] \in Seq(Unit)
          OBVIOUS
        <5>2. QED
          BY ONLY <1>3, <3>1, <5>1, Regroup, Zenon
      <4>2. QED
        BY ONLY <3>2, <3>3, <4>1
    <3>5. sent'[k] = sent[k] + 1
      BY <1>1
    <3>6. QED
      BY <1>2, <2>2, <3>4, <3>5, NextMessage
  <2>3. QED
    BY <2>1, <2>2
<1>7. StreamIntact'
  BY <1>6 DEF StreamIntact, Stream
<1>8. QED
  BY <1>4, <1>5, <1>7

\* A thread receives: a beginning of the socket's data moves to its buffer.
LEMMA ReceiveStep ==
  ASSUME IInv, NEW k \in Paths, Receive(k)
  PROVE  IInv'
<1> USE DEF IInv, TypeOK, servers, threads, main
<1> DEFINE n == Shorter(Len(socket[k]), DATA_SIZE)
           a == SubSeq(socket[k], 1, n)
           r == SubSeq(socket[k], n + 1, Len(socket[k]))
           w == delivered[k] \o pipe[k]
<1>1. /\ UNCHANGED <<server, sent, pipe, mpc, readfds, delivered>>
      /\ tpc' = [tpc EXCEPT ![k] = "write"]
      /\ tpc[k] = "recv"
      /\ achRecvData' = [achRecvData EXCEPT ![k] = a]
      /\ socket' = [socket EXCEPT ![k] = r]
  BY DEF Receive, ThreadGoto
<1>2. n \in Nat /\ n <= Len(socket[k]) /\ n <= DATA_SIZE
  BY LenProperties, Process3Assumption DEF Shorter
<1>3. /\ a \in Seq(Unit) /\ r \in Seq(Unit)
      /\ Len(a) = n /\ a \o r = socket[k]
  BY <1>2, Split
<1> HIDE DEF n, a, r
<1>4. TypeOK'
  BY <1>1, <1>2, <1>3
<1>5. PassedOn'
  BY <1>1 DEF PassedOn
<1>6. StreamIntact'
  <2>1. \A j \in Paths : Stream(j)' = Stream(j)
    <3>1. ASSUME NEW j \in Paths, j # k PROVE Stream(j)' = Stream(j)
      BY <1>1, <3>1 DEF Stream
    <3>2. Stream(k)' = Stream(k)
      <4>1. w \in Seq(Unit)
        BY ConcatProperties
      <4>2. Stream(k)' = w \o a \o r
        BY <1>1 DEF Stream
      <4>3. Stream(k) = w \o <<>> \o socket[k]
        BY <1>1 DEF Stream, PassedOn
      <4> HIDE DEF w
      <4>4. w \o <<>> = w
        BY <4>1, ConcatEmptySeq
      <4>5. (w \o a) \o r = w \o (a \o r)
        BY ONLY <1>3, <4>1, Regroup, Zenon
      <4>6. QED
        BY ONLY <1>3, <4>2, <4>3, <4>4, <4>5
    <3>3. QED
      BY <3>1, <3>2
  <2>2. QED
    BY <1>1, <2>1, SameStream
<1>7. QED
  BY <1>4, <1>5, <1>6

\* A thread writes: its buffer moves to the end of the pipe.
LEMMA WriteStep ==
  ASSUME IInv, NEW k \in Paths, WritePipe(k)
  PROVE  IInv'
<1> USE DEF IInv, TypeOK, servers, threads, main
<1> DEFINE a == achRecvData[k]
           p == pipe[k] \o a
<1>1. /\ UNCHANGED <<server, sent, socket, mpc, readfds, delivered>>
      /\ tpc' = [tpc EXCEPT ![k] = "recv"]
      /\ achRecvData' = [achRecvData EXCEPT ![k] = <<>>]
      /\ pipe' = [pipe EXCEPT ![k] = p]
      /\ Len(pipe[k]) + Len(a) <= PIPE_CAPACITY
  BY DEF WritePipe, ThreadGoto
<1>2. <<>> \in Seq(Unit) /\ Len(<<>>) = 0
  BY EmptySeq
<1>3. p \in Seq(Unit) /\ Len(p) = Len(pipe[k]) + Len(a)
  BY ConcatProperties
<1> HIDE DEF p
<1>4. TypeOK'
  BY <1>1, <1>2, <1>3, Process3Assumption
<1>5. PassedOn'
  BY <1>1 DEF PassedOn
<1>6. StreamIntact'
  <2>1. \A j \in Paths : Stream(j)' = Stream(j)
    <3>1. ASSUME NEW j \in Paths, j # k PROVE Stream(j)' = Stream(j)
      BY <1>1, <3>1 DEF Stream
    <3>2. Stream(k)' = Stream(k)
      <4>1. Stream(k)' = delivered[k] \o p \o <<>> \o socket[k]
        BY <1>1 DEF Stream
      <4>2. Stream(k) = delivered[k] \o pipe[k] \o a \o socket[k]
        BY DEF Stream
      <4>3. delivered[k] \o pipe[k] \o a = delivered[k] \o p
        <5>1. a \in Seq(Unit) /\ pipe[k] \in Seq(Unit)
              /\ delivered[k] \in Seq(Unit)
          OBVIOUS
        <5> HIDE DEF a
        <5>2. QED
          BY ONLY <5>1, Regroup, Zenon DEF p
      <4>4. delivered[k] \o p \in Seq(Unit)
        BY <1>3, ConcatProperties
      <4>5. delivered[k] \o p \o <<>> = delivered[k] \o p
        BY <4>4, ConcatEmptySeq
      <4>6. QED
        BY <4>1, <4>2, <4>3, <4>5
    <3>3. QED
      BY <3>1, <3>2
  <2>2. QED
    BY <1>1, <2>1, SameStream
<1>7. QED
  BY <1>4, <1>5, <1>6

\* main reads: a beginning of the pipe moves to what it has read.
LEMMA ReadStep ==
  ASSUME IInv, NEW k \in Paths, ReadPipe(k), mpc' \in {"select", "cmd", "ctrl"},
         UNCHANGED <<servers, threads, readfds>>
  PROVE  IInv'
<1> USE DEF IInv, TypeOK, servers, threads
<1> DEFINE n == Shorter(Len(pipe[k]), DATA_SIZE - 1)
           a == SubSeq(pipe[k], 1, n)
           r == SubSeq(pipe[k], n + 1, Len(pipe[k]))
<1>1. /\ UNCHANGED <<server, sent, socket, tpc, achRecvData, readfds>>
      /\ delivered' = [delivered EXCEPT ![k] = @ \o a]
      /\ pipe' = [pipe EXCEPT ![k] = r]
  BY DEF ReadPipe
<1>2. n \in Nat /\ n <= Len(pipe[k])
  BY LenProperties, Process3Assumption DEF Shorter
<1>3. /\ a \in Seq(Unit) /\ r \in Seq(Unit)
      /\ Len(r) = Len(pipe[k]) - n /\ a \o r = pipe[k]
  BY <1>2, Split
<1> HIDE DEF n, a, r
<1>4. delivered[k] \o a \in Seq(Unit)
  BY <1>3, ConcatProperties
<1>5. TypeOK'
  <2>1. delivered' \in [Paths -> Seq(Unit)]
    BY <1>1, <1>4
  <2>2. pipe' \in [Paths -> Seq(Unit)]
    BY <1>1, <1>3
  <2>3. \A j \in Paths : Len(pipe'[j]) <= PIPE_CAPACITY
    <3>1. Len(pipe[k]) \in Nat /\ Len(r) <= Len(pipe[k])
      BY <1>2, <1>3, LenProperties
    <3>2. QED
      BY <1>1, <1>3, <3>1, LenProperties, Process3Assumption
  <2>4. QED
    BY <1>1, <2>1, <2>2, <2>3
<1>6. PassedOn'
  BY <1>1 DEF PassedOn
<1>7. StreamIntact'
  <2>1. \A j \in Paths : Stream(j)' = Stream(j)
    <3>1. ASSUME NEW j \in Paths, j # k PROVE Stream(j)' = Stream(j)
      BY <1>1, <3>1 DEF Stream
    <3>2. Stream(k)' = Stream(k)
      <4>1. Stream(k)' = (delivered[k] \o a) \o r \o achRecvData[k] \o socket[k]
        BY <1>1 DEF Stream
      <4>2. (delivered[k] \o a) \o r = delivered[k] \o pipe[k]
        <5>1. delivered[k] \in Seq(Unit)
          OBVIOUS
        <5>2. (delivered[k] \o a) \o r = delivered[k] \o (a \o r)
          BY ONLY <1>3, <5>1, Regroup, Zenon
        <5>3. QED
          BY ONLY <1>3, <5>2
      <4>3. QED
        BY <4>1, <4>2 DEF Stream
    <3>3. QED
      BY <3>1, <3>2
  <2>2. QED
    BY <1>1, <2>1, SameStream
<1>8. QED
  BY <1>5, <1>6, <1>7

\* Every step preserves IInv.
LEMMA Step == IInv /\ [Next]_vars => IInv'
<1> SUFFICES ASSUME IInv, [Next]_vars PROVE IInv'
  OBVIOUS
<1> USE DEF servers, threads, main
<1>0. TypeOK /\ PassedOn /\ StreamIntact
  BY DEF IInv
<1>1. ASSUME NEW k \in Paths, ServerStart(k) \/ ServerClose(k) PROVE IInv'
  <2>1. UNCHANGED <<sent, socket, tpc, achRecvData, pipe, mpc, readfds,
                    delivered>>
    BY <1>1 DEF ServerStart, ServerClose
  <2>2. server' \in [Paths -> {"down", "up", "closed"}]
    BY <1>0, <1>1 DEF ServerStart, ServerClose, TypeOK
  <2>3. TypeOK'
    BY <1>0, <2>1, <2>2 DEF TypeOK
  <2>4. PassedOn' /\ StreamIntact'
    BY <1>0, <2>1 DEF PassedOn, StreamIntact
  <2>5. QED
    BY <2>3, <2>4 DEF IInv
<1>2. ASSUME NEW k \in Paths, ServerSend(k) PROVE IInv'
  BY <1>2, SendStep
<1>3. ASSUME NEW k \in Paths, ConnectServer(k) PROVE IInv'
  <2>1. /\ UNCHANGED <<server, sent, socket, achRecvData, pipe, mpc, readfds,
                       delivered>>
        /\ tpc[k] = "connect"
        /\ \/ tpc' = [tpc EXCEPT ![k] = "recv"]
           \/ tpc' = [tpc EXCEPT ![k] = "failed"]
    BY <1>3 DEF ConnectServer, ThreadGoto
  <2>2. TypeOK'
    BY <1>0, <2>1 DEF TypeOK
  <2>3. PassedOn'
    BY <1>0, <2>1 DEF PassedOn, TypeOK
  <2>4. StreamIntact'
    BY <1>0, <2>1 DEF StreamIntact
  <2>5. QED
    BY <2>2, <2>3, <2>4 DEF IInv
<1>4. ASSUME NEW k \in Paths, Receive(k) PROVE IInv'
  BY <1>4, ReceiveStep
<1>5. ASSUME NEW k \in Paths, WritePipe(k) PROVE IInv'
  BY <1>5, WriteStep
<1>6. ASSUME Select PROVE IInv'
  <2>1. /\ UNCHANGED <<server, sent, socket, tpc, achRecvData, pipe, delivered>>
        /\ mpc' = "cmd" /\ readfds' \subseteq Paths
    BY <1>6 DEF Select
  <2>2. QED
    BY <1>0, <2>1 DEF IInv, TypeOK, PassedOn, StreamIntact
<1>7. ASSUME NEW k \in Paths, NEW pc \in {"ctrl", "select"}, Visit(k, pc)
      PROVE  IInv'
  <2>1. mpc' = pc /\ UNCHANGED <<servers, threads, readfds>>
    BY <1>7 DEF Visit
  <2>2. CASE ReadPipe(k)
    BY <2>1, <2>2, ReadStep
  <2>3. CASE UNCHANGED <<pipe, delivered>>
    BY <1>0, <2>1, <2>3 DEF IInv, TypeOK, PassedOn, StreamIntact
  <2>4. QED
    BY <1>7, <2>2, <2>3 DEF Visit
<1>8. ASSUME UNCHANGED vars PROVE IInv'
  BY <1>0, <1>8 DEF vars, IInv, TypeOK, PassedOn, StreamIntact
<1>9. QED
  BY <1>1, <1>2, <1>3, <1>4, <1>5, <1>6, <1>7, <1>8
  DEF Next, recvThread, mainLoop, VisitPipes, Paths

-----------------------------------------------------------------------------
(* The theorems.                                                           *)

\* IInv is inductive: StreamIntact needs to know that a thread which goes to
\* receive again holds nothing it would overwrite.
THEOREM Invariance == Spec => []IInv
  BY Initially, Step, PTL DEF Spec

\* Types, and the bounds of the buffers and the pipes: no thread ever receives
\* more than its buffer holds, and no pipe is ever overfilled.
THEOREM TypeCorrect == Spec => []TypeOK
<1>1. IInv => TypeOK
  BY DEF IInv
<1>2. QED
  BY <1>1, Invariance, PTL

\* Nothing is lost, repeated, reordered or moved to the other path, whatever
\* the sizes of messages, buffers and pipes.
THEOREM Intact == Spec => []StreamIntact
<1>1. IInv => StreamIntact
  BY DEF IInv
<1>2. QED
  BY <1>1, Invariance, PTL

\* process3 implements StreamPipe: a ServerSend is a Send, a read of a pipe
\* with data a Deliver, and every other step leaves what StreamPipe sees alone.
THEOREM Implements == Spec => Pipe!Spec
<1>1. Init => Pipe!Init
  BY DEF Init, Pipe!Init, Empty
<1>2. ASSUME IInv, IInv', [Next]_vars PROVE [Pipe!Next]_(Pipe!vars)
  <2> USE DEF servers, threads, main
  <2>1. ASSUME NEW k \in Paths, ServerSend(k) PROVE Pipe!Send(k)
    BY <2>1 DEF ServerSend, Pipe!Send
  <2>2. ASSUME NEW k \in Paths, ReadPipe(k), UNCHANGED servers
        PROVE  Pipe!Deliver(k) \/ UNCHANGED Pipe!vars
    <3> DEFINE d == delivered'[k]
               t == pipe'[k] \o achRecvData'[k] \o socket'[k]
               n == Shorter(Len(pipe[k]), DATA_SIZE - 1)
               a == SubSeq(pipe[k], 1, n)
    <3>1. /\ delivered' = [delivered EXCEPT ![k] = @ \o a]
          /\ UNCHANGED sent
      BY <2>2 DEF ReadPipe
    <3>2. /\ delivered \in [Paths -> Seq(Unit)] /\ pipe[k] \in Seq(Unit)
          /\ sent[k] \in Nat
      BY <1>2, Process3Assumption DEF IInv, TypeOK
    <3>3. n \in Nat /\ n <= Len(pipe[k])
      BY <3>2, LenProperties, Process3Assumption DEF Shorter
    <3>4. a \in Seq(Unit) /\ Len(a) = n
      BY <3>2, <3>3, Split
    <3>5. d \in Seq(Unit) /\ Len(d) = Len(delivered[k]) + n
      <4> HIDE DEF n, a
      <4>1. d = delivered[k] \o a
        BY <3>1, <3>2
      <4>2. QED
        BY <3>2, <3>4, <4>1, ConcatProperties
    <3>6. d = Pipe!Stream(k, Len(d)) /\ Len(d) <= sent[k] * MsgLen
      <4>1. /\ pipe'[k] \in Seq(Unit) /\ achRecvData'[k] \in Seq(Unit)
            /\ socket'[k] \in Seq(Unit)
        BY <1>2 DEF IInv, TypeOK
      <4>2. t \in Seq(Unit)
        BY <4>1, ConcatProperties
      <4>3. d \o t = d \o pipe'[k] \o achRecvData'[k] \o socket'[k]
        <5>1. d \o pipe'[k] \in Seq(Unit)
              /\ pipe'[k] \o achRecvData'[k] \in Seq(Unit)
          BY ONLY <3>5, <4>1, ConcatProperties
        <5> HIDE DEF d
        <5>2. d \o ((pipe'[k] \o achRecvData'[k]) \o socket'[k])
                = (d \o (pipe'[k] \o achRecvData'[k])) \o socket'[k]
          BY ONLY <3>5, <4>1, <5>1, Regroup, Zenon
        <5>3. d \o (pipe'[k] \o achRecvData'[k])
                = (d \o pipe'[k]) \o achRecvData'[k]
          BY ONLY <3>5, <4>1, Regroup, Zenon
        <5>4. QED
          BY <5>2, <5>3
      <4>4. d \o t = Pipe!Stream(k, sent[k] * MsgLen)
        BY <1>2, <3>1, <4>3 DEF IInv, StreamIntact
      <4>5. sent[k] * MsgLen \in Nat
        BY <3>2, NextMessage
      <4> HIDE DEF d, t
      <4>6. QED
        BY <3>5, <4>2, <4>4, <4>5, Prefix
    <3>7. sent[k] * MsgLen \in Nat /\ Len(delivered[k]) \in Nat
      BY <3>2, NextMessage, LenProperties
    <3> HIDE DEF n
    <3>8. CASE n = 0
      <4>1. d = delivered[k]
        <5>1. a = <<>>
          BY <3>4, <3>8, EmptySeq
        <5>2. QED
          BY <3>1, <3>2, <5>1, ConcatEmptySeq
      <4>2. delivered' = delivered
        BY <3>1, <3>2, <4>1
      <4>3. QED
        BY <3>1, <4>2 DEF Pipe!vars
    <3>9. CASE n > 0
      <4>1. Len(d) \in Len(delivered[k]) + 1 .. sent[k] * MsgLen
        BY <3>3, <3>5, <3>6, <3>7, <3>9
      <4>2. delivered' = [delivered EXCEPT ![k] = Pipe!Stream(k, Len(d))]
        BY <3>1, <3>2, <3>6
      <4>3. QED
        BY <3>1, <4>1, <4>2 DEF Pipe!Deliver
    <3>10. QED
      BY <3>3, <3>8, <3>9
  <2>3. CASE UNCHANGED <<sent, delivered>>
    BY <2>3 DEF Pipe!vars
  <2>4. ASSUME NEW k \in Paths, NEW pc, Visit(k, pc)
        PROVE  Pipe!Deliver(k) \/ UNCHANGED <<sent, delivered>>
    BY <2>2, <2>4 DEF Visit, Pipe!vars
  <2>5. QED
    <3>1. \A k \in Paths : ServerStart(k) \/ ServerClose(k) \/ recvThread(k)
                              => UNCHANGED <<sent, delivered>>
      BY DEF ServerStart, ServerClose, recvThread, ConnectServer, Receive,
             WritePipe
    <3>2. Select \/ UNCHANGED vars => UNCHANGED <<sent, delivered>>
      BY DEF Select, vars
    <3>3. "cmd" \in Paths /\ "ctrl" \in Paths
      BY DEF Paths
    <3>4. QED
      BY <1>2, <2>1, <2>3, <2>4, <3>1, <3>2, <3>3
      DEF Next, mainLoop, VisitPipes, Pipe!Next
<1>3. QED
  BY <1>1, <1>2, Invariance, PTL DEF Spec, Pipe!Spec
=============================================================================
