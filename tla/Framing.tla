------------------------------ MODULE Framing ------------------------------
(***************************************************************************)
(* The data path of one pass of receiveThread (recv-thread.c), in bytes:   *)
(* a client writes request packets to its connection, recvMsgTimeout       *)
(* returns chunks of the stream cut anywhere, and a chunk whose length     *)
(* field agrees with its size is checked, dispatched and answered.         *)
(* Process1 abstracts a packet to a header unit and a rest unit; here the  *)
(* chunks are bytes and the length, id, checksum and marker fields real.   *)
(***************************************************************************)
EXTENDS FrameFormat

CONSTANTS
  Cmds,      \* commands the clients send
  Payloads,  \* their one-byte payloads
  Clients,   \* "pc" builds packets as documented, "test" by makeRecvPacket
  MaxReq,    \* bound: requests sent
  Cuts,      \* offsets in a packet where a chunk may end, 0 is its end
  GarbleTo   \* values a byte may be changed to on the way, at most once

\* Of process1.h: what recvMsgTimeout returns at most.
BUFFER_SIZE == 1024

\* Every TCP request has a payload of one byte.
REQUEST_SIZE == HEADER + 1 + TAIL

ASSUME FramingAssumption ==
  /\ Cmds \subseteq 0 .. 99
  /\ \A c \in Cmds : getRecvCmdSize(c) = 1
  /\ Payloads \subseteq Byte
  /\ Clients \subseteq {"pc", "test"}
  /\ MaxReq \in Nat
  /\ Cuts \subseteq 0 .. REQUEST_SIZE - 1
  /\ GarbleTo \subseteq Byte \ SENSOR_COMMANDS

VARIABLES
  stream,   \* the bytes written to the connection so far
  kinds,    \* kinds[i]: who built the i-th request
  read,     \* bytes received so far
  garbled,  \* the byte changed on the way: position and former value
  served    \* the last chunk answered, with its status and response

vars == <<stream, kinds, read, garbled, served>>

NotGarbled == [at |-> 0, was |-> 0]
NotServed  == [first |-> 0, chunk |-> <<>>, status |-> PACKET_FORMAT_OK,
               response |-> <<>>]

\* stMsgId of receiveThread.
stMsgId == [src |-> CTRL_PC_ID, dst |-> MY_TCP_ID]

Init ==
  /\ stream = <<>>
  /\ kinds = <<>>
  /\ read = 0
  /\ garbled = NotGarbled
  /\ served = NotServed

-----------------------------------------------------------------------------
(* The client, and the line between it and the server.                     *)

\* The packet the header comments describe.
RequestPacket(cmd, b) ==
  WithTail(Header(getRecvCmdSize(cmd), CTRL_PC_ID, MY_TCP_ID, cmd) \o <<b>>)

\* Mutant: sends as many bytes as the response has, sizeof(SND_...).
TestPacketSendSize(cmd, b) == makeRecvPacket(cmd, stMsgId, <<b>>)

\* What the tests send: as many bytes as the documented packet has.
TestPacket(cmd, b) ==
  SubSeq(makeRecvPacket(cmd, stMsgId, <<b>>), 1, REQUEST_SIZE)

SendRequest ==
  /\ Len(kinds) < MaxReq
  /\ \E c \in Clients, cmd \in Cmds, b \in Payloads :
       /\ stream' = stream \o (IF c = "pc" THEN RequestPacket(cmd, b)
                                           ELSE TestPacket(cmd, b))
       /\ kinds' = Append(kinds, c)
  /\ UNCHANGED <<read, garbled, served>>

Garble ==
  /\ garbled = NotGarbled
  /\ \E i \in read + 1 .. Len(stream), b \in GarbleTo :
       /\ b # stream[i]
       /\ stream' = [stream EXCEPT ![i] = b]
       /\ garbled' = [at |-> i, was |-> stream[i]]
  /\ UNCHANGED <<kinds, read, served>>

-----------------------------------------------------------------------------
(* receiveThread.                                                          *)

\* Mutant: a chunk with more than a packet in it is served as well.
HoldsPacket(chunk) == getTotalRecvSize(chunk, Len(chunk)) \in HEADER .. Len(chunk)

\* Mutant: the first test drops a chunk with iRecvSize <= iTotalRecvSize.
TooStrict(chunk) ==
  LET iTotalRecvSize == getTotalRecvSize(chunk, Len(chunk)) IN
    ~(Len(chunk) <= iTotalRecvSize) /\ ~(Len(chunk) > iTotalRecvSize)

\* Neither iRecvSize < iTotalRecvSize nor iRecvSize > iTotalRecvSize.
IsComplete(chunk) == getTotalRecvSize(chunk, Len(chunk)) = Len(chunk)

\* In place of a response that the handler of a sensor command has written to
\* and behind: what it holds is left open, and NoSensorCommand rules it out.
Overwritten == <<>>

\* The format status is computed and not used: the chunk is dispatched and
\* answered whatever it is.
Serve(first, chunk) ==
  LET cmd == nCmd(chunk) IN
    [first    |-> first,
     chunk    |-> chunk,
     status   |-> checkPacketFormat(chunk, stMsgId, Len(chunk)),
     response |-> IF cmd \in SENSOR_COMMANDS THEN Overwritten
                  ELSE makeSendPacket(cmd, stMsgId, dispatchCommand(cmd))]

\* recvMsgTimeout returns k bytes; every chunk that is not complete is
\* dropped.
Receive ==
  /\ \E k \in 1 .. Len(stream) - read :
       LET chunk == SubSeq(stream, read + 1, read + k) IN
         /\ k <= BUFFER_SIZE
         /\ (read + k) % REQUEST_SIZE \in Cuts
         /\ read' = read + k
         /\ served' = IF IsComplete(chunk) THEN Serve(read + 1, chunk)
                                           ELSE served
  /\ UNCHANGED <<stream, kinds, garbled>>

Next == SendRequest \/ Garble \/ Receive

Spec == Init /\ [][Next]_vars

-----------------------------------------------------------------------------
(* Properties.                                                             *)

Requests == DOMAIN kinds

TypeOK ==
  /\ stream \in Seq(Byte)
  /\ kinds \in Seq(Clients)
  /\ Len(stream) = REQUEST_SIZE * Len(kinds)
  /\ read \in 0 .. Len(stream)
  /\ garbled \in [at : 0 .. Len(stream), was : Byte]
  /\ served.first \in 0 .. read
  /\ served.chunk \in Seq(Byte)
  /\ served.status \subseteq {"SIZE", "STX", "DST", "CRC", "ETX"}
  /\ served.response \in Seq(Byte)

\* The chunk answered last is the i-th request, all of it and nothing else.
Serves(i) == /\ served.first = REQUEST_SIZE * (i - 1) + 1
             /\ Len(served.chunk) = REQUEST_SIZE

\* A chunk with both ends between packets or behind a header is never misread:
\* coalesced, split and misaligned ones are dropped, whatever their bytes say
\* where the length field would be.  This is what Process1 assumes.
ServedIsWhole ==
  LET before == (served.first - 1) % REQUEST_SIZE
      after  == (served.first - 1 + Len(served.chunk)) % REQUEST_SIZE IN
    served # NotServed /\ {before, after} \subseteq {0, HEADER}
      => \E i \in Requests : Serves(i)

\* Conversely, a chunk that is a request as it was sent passes the size tests
\* of receiveThread and is served, whoever built it and whatever it carries.
WholeIsServed ==
  [][\A i \in Requests :
       /\ read = REQUEST_SIZE * (i - 1) /\ read' = REQUEST_SIZE * i
       /\ garbled.at \notin read + 1 .. read'
       => Serves(i)']_vars

\* Cut anywhere, a chunk that straddles packets can pass for complete; its
\* format status then reports an error.  Only a request as it was sent has
\* the status OK: one built as documented always has it, one that the tests
\* build with makeRecvPacket if its payload is as long as the response's.
FormatCheckExact ==
  served # NotServed =>
    /\ served.status = PACKET_FORMAT_OK => \E i \in Requests : Serves(i)
    /\ \A i \in Requests : Serves(i) =>
         LET cmd == nCmd(served.chunk) IN
           served.status = PACKET_FORMAT_OK
             <=> kinds[i] = "pc" \/ getSendCmdSize(cmd) = getRecvCmdSize(cmd)

\* The format status of a request reports any change of a single byte, except
\* a change by one that swaps the checksums 0xFF and 0x00.
CorruptionReported ==
  \A i \in Requests :
    /\ served # NotServed /\ Serves(i)
    /\ garbled.at \in served.first .. served.first + REQUEST_SIZE - 1
    /\ served.status = PACKET_FORMAT_OK
    => LET now == stream[garbled.at] IN
         /\ (now - garbled.was) % 256 \in {1, 255}
         /\ served.chunk[REQUEST_SIZE - EXCLUDING_CRC_POINT + 1] = 0

\* No chunk passes for a request of a sensor command, whose handler would write
\* behind the response that receiveThread allocates: not even where the bytes
\* at nCmd are a client's payload or a checksum, which may be 100 to 103.
NoSensorCommand == served # NotServed => nCmd(served.chunk) \notin SENSOR_COMMANDS

\* Whatever chunk is answered, the response is a packet the client's own
\* format check accepts, for the command the chunk named.
ResponseWellFormed ==
  served # NotServed =>
    /\ checkPacketFormat(served.response,
                         [src |-> MY_TCP_ID, dst |-> CTRL_PC_ID],
                         Len(served.response)) = PACKET_FORMAT_OK
    /\ nCmd(served.response) = nCmd(served.chunk)

=============================================================================
