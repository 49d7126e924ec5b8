--------------------------- MODULE FramingProofs ---------------------------
(***************************************************************************)
(* Proofs about the receive path of Framing: for every set of commands,    *)
(* payloads, clients, cuts and garbled values, and every number of         *)
(* requests.                                                               *)
(***************************************************************************)
EXTENDS FramingLemmas, SequenceTheorems

-----------------------------------------------------------------------------
(* The inductive invariant.                                                *)

\* The k-th byte the clients wrote, before the line changed it.
Sent(s, g, k) == IF k = g.at THEN g.was ELSE s[k]

\* The i-th request the clients wrote.
SentRequest(s, g, i) ==
  [o \in 1 .. REQUEST_SIZE |-> Sent(s, g, REQUEST_SIZE * (i - 1) + o)]

\* The stream is a sequence of requests, but for the byte the line changed.
RequestsIntact ==
  \A i \in 1 .. Len(kinds) : IsRequest(SentRequest(stream, garbled, i), kinds[i])

GarbledOnce ==
  garbled.at # 0 => /\ stream[garbled.at] # garbled.was
                    /\ stream[garbled.at] \in GarbleTo

\* The last chunk answered is a part of the stream that was read, fits the
\* buffer, has the size its length field says, and was answered by Serve.
ServedSound ==
  served # NotServed =>
    LET last == served.first + Len(served.chunk) - 1 IN
      /\ served.first >= 1 /\ last <= read
      /\ served.chunk = SubSeq(stream, served.first, last)
      /\ Len(served.chunk) <= BUFFER_SIZE
      /\ IsComplete(served.chunk)
      /\ served = Serve(served.first, served.chunk)

IInv == TypeOK /\ RequestsIntact /\ GarbledOnce /\ ServedSound

-----------------------------------------------------------------------------
LEMMA Sizes == REQUEST_SIZE = 15 /\ HEADER = 11 /\ TAIL = 3
BY DEF REQUEST_SIZE, HEADER, TAIL

\* The commands of the clients are those with a payload of one byte.
LEMMA CommandsAreSmall == \A c \in Cmds : c \in 0 .. 3
<1> SUFFICES ASSUME NEW c \in Cmds
             PROVE  c \in 0 .. 3
  OBVIOUS
<1>1. c \in 0 .. 99 /\ getRecvCmdSize(c) = 1
  BY FramingAssumption
<1>2. UdsSize(c) = 0
  BY <1>1 DEF UdsSize, UDS2_EXTERN1_DATA, UDS2_EXTERN2_DATA, UDS2_EXTERN3_DATA,
              UDS2_EXTERN4_DATA, UDS3_PROCESSING_DATA, UDS4_CTRL_DATA, UDS4_COMMAND
<1> QED  BY <1>1, <1>2 DEF getRecvCmdSize, BIT_COMMANDS, CMD_KEEP_ALIVE, CMD_IBIT,
                           CMD_RBIT, CMD_CBIT

\* Two streams that hold the same bytes hold the same requests.
LEMMA SameRequest ==
  ASSUME NEW s, NEW g, NEW t, NEW h, NEW i,
         \A o \in 1 .. 15 : Sent(s, g, 15 * (i - 1) + o) = Sent(t, h, 15 * (i - 1) + o)
  PROVE  SentRequest(s, g, i) = SentRequest(t, h, i)
BY Sizes DEF SentRequest

LEMMA SeqAsFunction ==
  ASSUME NEW r \in Seq(Byte), Len(r) = 15
  PROVE  r = [o \in 1 .. 15 |-> r[o]]
OBVIOUS

LEMMA Concatenated ==
  ASSUME NEW s \in Seq(Byte), NEW r \in Seq(Byte), Len(r) = 15
  PROVE  \A o \in 1 .. 15 : (s \o r)[Len(s) + o] = r[o]
<1> TAKE o \in 1 .. 15
<1>1. /\ Len(s) \in Nat /\ Len(s) + o \in 1 .. Len(s) + Len(r)
      /\ ~ (Len(s) + o <= Len(s)) /\ (Len(s) + o) - Len(s) = o
  OBVIOUS
<1>2. \A i \in 1 .. Len(s) + Len(r) :
        (s \o r)[i] = IF i <= Len(s) THEN s[i] ELSE r[i - Len(s)]
  BY ConcatProperties, Zenon
<1> QED  BY ONLY <1>1, <1>2

\* A request at the end of the stream leaves the others as they are.
LEMMA NewRequest ==
  ASSUME NEW s \in Seq(Byte), NEW ks \in Seq(Clients), NEW g, NEW r, NEW c \in Clients,
         Len(s) = 15 * Len(ks), g.at \in 0 .. Len(s), IsRequest(r, c),
         \A i \in 1 .. Len(ks) : IsRequest(SentRequest(s, g, i), ks[i])
  PROVE  /\ s \o r \in Seq(Byte)
         /\ Len(s \o r) = Len(s) + 15
         /\ \A k \in 1 .. Len(s) : (s \o r)[k] = s[k]
         /\ \A i \in 1 .. Len(Append(ks, c)) :
              IsRequest(SentRequest(s \o r, g, i), Append(ks, c)[i])
<1> DEFINE n == Len(ks)
           t == s \o r
<1>1. r \in Seq(Byte) /\ Len(r) = 15
  BY Sizes DEF IsRequest
<1>2. /\ t \in Seq(Byte) /\ Len(t) = Len(s) + 15
      /\ \A k \in 1 .. Len(s) : t[k] = s[k]
  <2>1. /\ s \o r \in Seq(Byte) /\ Len(s \o r) = Len(s) + Len(r)
        /\ \A k \in 1 .. Len(s) : (s \o r)[k] = s[k]
    BY <1>1, Appended, Zenon
  <2> QED  BY <1>1, <2>1
<1>3. \A o \in 1 .. 15 : t[Len(s) + o] = r[o]
  BY <1>1, Concatenated, Zenon
<1>4. n \in Nat /\ Len(Append(ks, c)) = n + 1
      /\ Append(ks, c)[n + 1] = c /\ \A i \in 1 .. n : Append(ks, c)[i] = ks[i]
  OBVIOUS
<1> HIDE DEF t, n
<1>5. Len(s) = 15 * n
  BY DEF n
<1>6. ASSUME NEW i \in 1 .. n
      PROVE  IsRequest(SentRequest(t, g, i), Append(ks, c)[i])
  <2>1. \A o \in 1 .. 15 : 15 * (i - 1) + o \in 1 .. Len(s)
    BY <1>4, <1>5
  <2>2. \A o \in 1 .. 15 : Sent(t, g, 15 * (i - 1) + o) = Sent(s, g, 15 * (i - 1) + o)
    BY <1>2, <2>1 DEF Sent
  <2>3. SentRequest(t, g, i) = SentRequest(s, g, i)
    BY ONLY <2>2, Sizes DEF SentRequest
  <2> QED  BY <1>4, <2>3 DEF n
<1>7. SentRequest(t, g, n + 1) = r
  <2>1. \A o \in 1 .. 15 : 15 * ((n + 1) - 1) + o = Len(s) + o /\ Len(s) + o # g.at
    BY <1>4, <1>5
  <2>2. \A o \in 1 .. 15 : Sent(t, g, 15 * ((n + 1) - 1) + o) = r[o]
    BY <1>3, <2>1 DEF Sent
  <2>3. SentRequest(t, g, n + 1) = [o \in 1 .. 15 |-> r[o]]
    BY <2>2, Sizes DEF SentRequest
  <2>4. r = [o \in 1 .. 15 |-> r[o]]
    BY <1>1, SeqAsFunction, Zenon
  <2> QED  BY ONLY <2>3, <2>4
<1>8. \A i \in 1 .. n + 1 : i \in 1 .. n \/ i = n + 1
  BY <1>4
<1> QED  BY <1>2, <1>4, <1>6, <1>7, <1>8 DEF t

-----------------------------------------------------------------------------
LEMMA InitIInv == Init => IInv
<1> SUFFICES ASSUME Init
             PROVE  IInv
  OBVIOUS
<1> USE DEF Init, NotServed, NotGarbled
<1>1. stream \in Seq(Byte) /\ kinds \in Seq(Clients) /\ Len(stream) = 0 /\ Len(kinds) = 0
  OBVIOUS
<1>2. TypeOK
  <2>1. Len(stream) = REQUEST_SIZE * Len(kinds)
    BY <1>1, Sizes
  <2>2. garbled \in [at : 0 .. Len(stream), was : Byte]
    BY <1>1, AddByte
  <2>3. served.chunk \in Seq(Byte) /\ served.response \in Seq(Byte)
    OBVIOUS
  <2>4. served.first \in 0 .. read /\ read \in 0 .. Len(stream)
    BY <1>1
  <2> QED  BY <1>1, <2>1, <2>2, <2>3, <2>4 DEF TypeOK, PACKET_FORMAT_OK
<1>3. RequestsIntact
  BY <1>1 DEF RequestsIntact
<1>4. GarbledOnce /\ ServedSound
  BY DEF GarbledOnce, ServedSound
<1> QED  BY <1>2, <1>3, <1>4 DEF IInv

-----------------------------------------------------------------------------
(* The invariant is kept by every step.                                    *)

\* A client's packet is a request, whoever built it.
LEMMA SentPackets ==
  ASSUME NEW c \in Clients, NEW cmd \in Cmds, NEW b \in Payloads
  PROVE  IsRequest(IF c = "pc" THEN RequestPacket(cmd, b) ELSE TestPacket(cmd, b), c)
<1>1. cmd \in 0 .. 3 /\ b \in Byte
  BY CommandsAreSmall, FramingAssumption
<1>2. c \in {"pc", "test"}
  BY FramingAssumption
<1>3. IsRequest(RequestPacket(cmd, b), "pc")
  BY <1>1, RequestPacketIsRequest, Zenon
<1>4. IsRequest(TestPacket(cmd, b), "test")
  BY <1>1, TestPacketIsRequest, Zenon
<1> QED  BY <1>2, <1>3, <1>4

\* Bytes that have been read are where they were: the chunk answered last is
\* the same part of a stream that agrees with the old one up to n.
LEMMA ChunkKept ==
  ASSUME NEW s \in Seq(Byte), NEW t \in Seq(Byte), NEW n \in Nat, NEW first, NEW last,
         first \in Nat, last \in Int, 1 <= first, last <= n, first <= last + 1,
         n <= Len(s), n <= Len(t), \A k \in 1 .. n : s[k] = t[k]
  PROVE  SubSeq(s, first, last) = SubSeq(t, first, last)
<1>1. last \in Nat /\ \A k \in first .. last : s[k] = t[k]
  OBVIOUS
<1> QED  BY <1>1, SubSeqAgree

LEMMA ServedKept ==
  ASSUME TypeOK, ServedSound, stream' \in Seq(Byte), Len(stream') >= Len(stream),
         \A k \in 1 .. read : stream[k] = stream'[k],
         read' = read, served' = served
  PROVE  ServedSound'
<1> SUFFICES ASSUME served # NotServed
             PROVE  LET last == served.first + Len(served.chunk) - 1 IN
                      served.chunk = SubSeq(stream', served.first, last)
  BY DEF ServedSound
<1> DEFINE last == served.first + Len(served.chunk) - 1
<1>1. /\ served.chunk \in Seq(Byte) /\ served.first \in Nat /\ stream \in Seq(Byte)
      /\ read \in Nat /\ read <= Len(stream)
  BY DEF TypeOK
<1>2. /\ served.first >= 1 /\ last <= read
      /\ served.chunk = SubSeq(stream, served.first, last)
  BY DEF ServedSound
<1>3. Len(served.chunk) \in Nat
  BY <1>1
<1>4. last \in Int /\ served.first <= last + 1
  BY <1>1, <1>3
<1>5. read <= Len(stream')
  BY <1>1
<1> HIDE DEF last
<1>6. SubSeq(stream, served.first, last) = SubSeq(stream', served.first, last)
  BY <1>1, <1>2, <1>4, <1>5, ChunkKept
<1> QED  BY <1>2, <1>6 DEF last

LEMMA SendRequestIInv == IInv /\ SendRequest => IInv'
<1> SUFFICES ASSUME IInv, SendRequest
             PROVE  IInv'
  OBVIOUS
<1>1. PICK c \in Clients, cmd \in Cmds, b \in Payloads :
        /\ stream' = stream \o (IF c = "pc" THEN RequestPacket(cmd, b)
                                            ELSE TestPacket(cmd, b))
        /\ kinds' = Append(kinds, c)
  BY DEF SendRequest
<1>2. UNCHANGED <<read, garbled, served>>
  BY DEF SendRequest
<1> DEFINE r == IF c = "pc" THEN RequestPacket(cmd, b) ELSE TestPacket(cmd, b)
<1>3. IsRequest(r, c)
  BY SentPackets
<1> HIDE DEF r
<1>4. stream' = stream \o r
  BY <1>1 DEF r
<1>5. /\ TypeOK /\ RequestsIntact /\ GarbledOnce /\ ServedSound
      /\ stream \in Seq(Byte) /\ kinds \in Seq(Clients) /\ Len(stream) = 15 * Len(kinds)
      /\ garbled.at \in 0 .. Len(stream) /\ Len(kinds) \in Nat
  BY Sizes DEF IInv, TypeOK
<1>6. /\ stream' \in Seq(Byte) /\ Len(stream') = Len(stream) + 15
      /\ \A k \in 1 .. Len(stream) : stream'[k] = stream[k]
      /\ \A i \in 1 .. Len(kinds') : IsRequest(SentRequest(stream', garbled, i), kinds'[i])
  <2>1. \A i \in 1 .. Len(kinds) : IsRequest(SentRequest(stream, garbled, i), kinds[i])
    BY <1>5 DEF RequestsIntact
  <2>2. /\ stream \o r \in Seq(Byte)
        /\ Len(stream \o r) = Len(stream) + 15
        /\ \A k \in 1 .. Len(stream) : (stream \o r)[k] = stream[k]
        /\ \A i \in 1 .. Len(Append(kinds, c)) :
             IsRequest(SentRequest(stream \o r, garbled, i), Append(kinds, c)[i])
    BY <1>3, <1>5, <2>1, NewRequest, Zenon
  <2> QED  BY <1>1, <1>4, <2>2, Zenon
<1>7. TypeOK'
  <2>1. kinds' \in Seq(Clients) /\ Len(kinds') = Len(kinds) + 1
    BY <1>1, <1>5
  <2>2. Len(stream') = REQUEST_SIZE * Len(kinds')
    BY <1>5, <1>6, <2>1, Sizes
  <2>3. read' \in 0 .. Len(stream')
    BY <1>2, <1>5, <1>6 DEF TypeOK
  <2>4. garbled' \in [at : 0 .. Len(stream'), was : Byte]
    BY <1>2, <1>5, <1>6 DEF TypeOK
  <2>5. /\ served'.first \in 0 .. read'
        /\ served'.chunk \in Seq(Byte)
        /\ served'.status \subseteq {"SIZE", "STX", "DST", "CRC", "ETX"}
        /\ served'.response \in Seq(Byte)
    BY <1>2, <1>5 DEF TypeOK
  <2> QED  BY <1>6, <2>1, <2>2, <2>3, <2>4, <2>5 DEF TypeOK
<1>8. RequestsIntact'
  BY <1>2, <1>6 DEF RequestsIntact
<1>9. GarbledOnce'
  BY <1>2, <1>5, <1>6 DEF GarbledOnce
<1>10. ServedSound'
  <2>1. \A k \in 1 .. read : stream[k] = stream'[k]
    <3>1. read \in 0 .. Len(stream)
      BY <1>5 DEF TypeOK
    <3> QED  BY <1>6, <3>1
  <2>2. Len(stream') >= Len(stream)
    BY <1>5, <1>6
  <2> QED  BY <1>2, <1>5, <1>6, <2>1, <2>2, ServedKept
<1> QED  BY <1>7, <1>8, <1>9, <1>10 DEF IInv

LEMMA GarbleIInv == IInv /\ Garble => IInv'
<1> SUFFICES ASSUME IInv, Garble
             PROVE  IInv'
  OBVIOUS
<1>1. PICK i \in read + 1 .. Len(stream), b \in GarbleTo :
        /\ b # stream[i]
        /\ stream' = [stream EXCEPT ![i] = b]
        /\ garbled' = [at |-> i, was |-> stream[i]]
  BY DEF Garble
<1>2. garbled.at = 0 /\ UNCHANGED <<kinds, read, served>>
  BY DEF Garble, NotGarbled
<1>3. /\ TypeOK /\ RequestsIntact /\ ServedSound
      /\ stream \in Seq(Byte) /\ Len(stream) = 15 * Len(kinds)
      /\ kinds \in Seq(Clients) /\ Len(kinds) \in Nat /\ read \in 0 .. Len(stream)
  BY Sizes DEF IInv, TypeOK
<1>4. b \in Byte /\ i \in 1 .. Len(stream) /\ i > read
  BY <1>3, FramingAssumption
<1>5. /\ stream' \in Seq(Byte) /\ Len(stream') = Len(stream) /\ stream'[i] = b
      /\ \A k \in 1 .. Len(stream) : k # i => stream'[k] = stream[k]
  BY <1>1, <1>3, <1>4
<1>6. stream[i] \in Byte
  BY <1>3, <1>4, ByteAt
<1>7. TypeOK'
  <2>1. garbled' \in [at : 0 .. Len(stream'), was : Byte]
    BY <1>1, <1>4, <1>5, <1>6
  <2>2. /\ read' \in 0 .. Len(stream') /\ kinds' \in Seq(Clients)
        /\ Len(stream') = REQUEST_SIZE * Len(kinds')
    BY <1>2, <1>3, <1>5, Sizes
  <2>3. /\ served'.first \in 0 .. read'
        /\ served'.chunk \in Seq(Byte)
        /\ served'.status \subseteq {"SIZE", "STX", "DST", "CRC", "ETX"}
        /\ served'.response \in Seq(Byte)
    BY <1>2, <1>3 DEF TypeOK
  <2> QED  BY <1>5, <2>1, <2>2, <2>3 DEF TypeOK
<1>8. RequestsIntact'
  <2>1. ASSUME NEW n \in 1 .. Len(kinds)
        PROVE  SentRequest(stream', garbled', n) = SentRequest(stream, garbled, n)
    <3>1. \A o \in 1 .. 15 : 15 * (n - 1) + o \in 1 .. Len(stream)
      BY <1>3
    <3>2. \A k \in 1 .. Len(stream) : Sent(stream', garbled', k) = Sent(stream, garbled, k)
      BY <1>1, <1>2, <1>5 DEF Sent
    <3>3. \A o \in 1 .. 15 : Sent(stream', garbled', 15 * (n - 1) + o)
                               = Sent(stream, garbled, 15 * (n - 1) + o)
      BY <3>1, <3>2
    <3> QED  BY ONLY <3>3, Sizes DEF SentRequest
  <2> QED  BY <1>2, <1>3, <2>1 DEF RequestsIntact
<1>9. GarbledOnce'
  BY <1>1, <1>5 DEF GarbledOnce
<1>10. ServedSound'
  <2>1. \A k \in 1 .. read : stream[k] = stream'[k]
    BY <1>3, <1>4, <1>5
  <2>2. Len(stream') >= Len(stream)
    BY <1>3, <1>5
  <2> QED  BY <1>2, <1>3, <1>5, <2>1, <2>2, ServedKept
<1> QED  BY <1>7, <1>8, <1>9, <1>10 DEF IInv

\* A chunk of the stream is served with a status and a response.
LEMMA ServeType ==
  ASSUME NEW p \in Seq(Byte), IsComplete(p), NEW first
  PROVE  /\ Serve(first, p).first = first
         /\ Serve(first, p).chunk = p
         /\ Serve(first, p).status \subseteq {"SIZE", "STX", "DST", "CRC", "ETX"}
         /\ Serve(first, p).response \in Seq(Byte)
<1>1. Len(p) >= HEADER
  BY CompleteSize
<1>2. Serve(first, p).response \in Seq(Byte)
  <2>1. CASE nCmd(p) \in SENSOR_COMMANDS
    BY <2>1 DEF Serve, Overwritten
  <2>2. CASE nCmd(p) \notin SENSOR_COMMANDS
    <3>1. makeSendPacket(nCmd(p), stMsgId, dispatchCommand(nCmd(p))) \in Seq(Byte)
      BY <1>1, <2>2, ResponseAccepted
    <3> QED  BY <2>2, <3>1 DEF Serve
  <2> QED  BY <2>1, <2>2
<1>3. checkPacketFormat(p, stMsgId, Len(p)) \subseteq {"SIZE", "STX", "DST", "CRC", "ETX"}
  BY DEF checkPacketFormat, PACKET_FORMAT_OK
<1> QED  BY <1>2, <1>3 DEF Serve

LEMMA ReceiveIInv == IInv /\ Receive => IInv'
<1> SUFFICES ASSUME IInv, Receive
             PROVE  IInv'
  OBVIOUS
<1>1. PICK k \in 1 .. Len(stream) - read :
        LET chunk == SubSeq(stream, read + 1, read + k) IN
          /\ k <= BUFFER_SIZE
          /\ read' = read + k
          /\ served' = IF IsComplete(chunk) THEN Serve(read + 1, chunk) ELSE served
  BY DEF Receive
<1>2. UNCHANGED <<stream, kinds, garbled>>
  BY DEF Receive
<1> DEFINE chunk == SubSeq(stream, read + 1, read + k)
<1>3. /\ TypeOK /\ RequestsIntact /\ GarbledOnce /\ ServedSound
      /\ stream \in Seq(Byte) /\ read \in 0 .. Len(stream) /\ Len(stream) \in Nat
  BY DEF IInv, TypeOK
<1>4. read' = read + k /\ read' \in 0 .. Len(stream) /\ read \in Nat /\ k \in Nat
  BY <1>1, <1>3
<1>5. chunk \in Seq(Byte) /\ Len(chunk) = k
  BY <1>1, <1>3, <1>4
<1>6. RequestsIntact' /\ GarbledOnce'
  BY <1>2, <1>3 DEF RequestsIntact, GarbledOnce
<1>7. /\ stream' \in Seq(Byte) /\ kinds' \in Seq(Clients)
      /\ Len(stream') = REQUEST_SIZE * Len(kinds')
      /\ read' \in 0 .. Len(stream')
      /\ garbled' \in [at : 0 .. Len(stream'), was : Byte]
  BY <1>2, <1>3, <1>4 DEF TypeOK
<1>8. CASE IsComplete(chunk)
  <2>1. served' = Serve(read + 1, chunk)
    BY <1>1, <1>8
  <2> HIDE DEF chunk
  <2>2. /\ served'.first = read + 1 /\ served'.chunk = chunk
        /\ served'.status \subseteq {"SIZE", "STX", "DST", "CRC", "ETX"}
        /\ served'.response \in Seq(Byte)
    BY <1>5, <1>8, <2>1, ServeType
  <2>3. TypeOK'
    <3>1. read + 1 \in 0 .. read'
      BY <1>1, <1>4
    <3> QED  BY <1>5, <1>7, <2>2, <3>1 DEF TypeOK
  <2>4. served'.first + Len(served'.chunk) - 1 = read + k /\ served'.first >= 1
    BY <1>4, <1>5, <2>2
  <2>5. ServedSound'
    <3>1. served'.chunk = SubSeq(stream', served'.first, read + k)
      BY <1>2, <2>2 DEF chunk
    <3>2. served' = Serve(served'.first, served'.chunk) /\ IsComplete(served'.chunk)
      BY <1>8, <2>1, <2>2
    <3>3. read + k <= read'
      BY <1>4
    <3>4. Len(served'.chunk) <= BUFFER_SIZE
      BY <1>1, <1>5, <2>2
    <3> QED  BY <2>4, <3>1, <3>2, <3>3, <3>4 DEF ServedSound
  <2> QED  BY <1>6, <2>3, <2>5 DEF IInv
<1>9. CASE ~ IsComplete(chunk)
  <2>1. served' = served
    BY <1>1, <1>9
  <2> HIDE DEF chunk
  <2>2. TypeOK'
    <3>1. served.first \in 0 .. read'
      BY <1>1, <1>3, <1>4 DEF TypeOK
    <3> QED  BY <1>3, <1>7, <2>1, <3>1 DEF TypeOK
  <2>3. ServedSound'
    <3>1. CASE served = NotServed
      BY <2>1, <3>1 DEF ServedSound
    <3>2. CASE served # NotServed
      <4> DEFINE last == served.first + Len(served.chunk) - 1
      <4>1. served.chunk \in Seq(Byte) /\ served.first \in Nat
        BY <1>3 DEF TypeOK
      <4>2. Len(served.chunk) \in Nat
        BY <4>1
      <4>3. last \in Int
        BY <4>1, <4>2
      <4>4. last <= read
        BY <1>3, <3>2 DEF ServedSound
      <4> HIDE DEF last
      <4>5. last <= read'
        BY <1>1, <1>4, <4>3, <4>4
      <4> QED  BY <1>2, <1>3, <2>1, <3>2, <4>5 DEF ServedSound, last
    <3> QED  BY <3>1, <3>2
  <2> QED  BY <1>6, <2>2, <2>3 DEF IInv
<1> QED  BY <1>8, <1>9

\* The inductive invariant holds in every state.
THEOREM Inductive == Spec => []IInv
<1>1. IInv /\ [Next]_vars => IInv'
  <2>1. IInv /\ UNCHANGED vars => IInv'
    BY DEF vars, IInv, TypeOK, RequestsIntact, GarbledOnce, ServedSound
  <2> QED  BY <2>1, SendRequestIInv, GarbleIInv, ReceiveIInv DEF Next
<1> QED  BY <1>1, InitIInv, PTL DEF Spec

-----------------------------------------------------------------------------
\* The line changed no byte of the last chunk answered.
Untouched ==
  garbled.at \notin served.first .. served.first + Len(served.chunk) - 1

\* ServedIsWhole and FormatCheckExact for what arrives as it was sent.
UntouchedIsExact == Untouched => ServedIsWhole /\ FormatCheckExact
-----------------------------------------------------------------------------
(* The chunk answered last.                                                *)

\* A position in the stream is a byte of a request.
LEMMA Position ==
  ASSUME NEW n \in Nat, NEW k \in 1 .. 15 * n
  PROVE  \E i \in 1 .. n, o \in 1 .. 15 :
           k = 15 * (i - 1) + o /\ (k - 1) % 15 = o - 1
<1> DEFINE i == ((k - 1) \div 15) + 1
           o == ((k - 1) % 15) + 1
<1>1. i \in 1 .. n /\ o \in 1 .. 15
  OBVIOUS
<1>2. k = 15 * (i - 1) + o /\ (k - 1) % 15 = o - 1
  OBVIOUS
<1> HIDE DEF i, o
<1> QED  BY <1>1, <1>2

LEMMA PositionMod ==
  \A i \in Int, o \in 1 .. 15 : (15 * (i - 1) + o - 1) % 15 = o - 1
OBVIOUS

\* A byte the line did not change is the one the client wrote.
LEMMA ByteOfRequest ==
  ASSUME IInv, NEW i \in 1 .. Len(kinds), NEW o \in 1 .. 15,
         15 * (i - 1) + o # garbled.at
  PROVE  /\ IsRequest(SentRequest(stream, garbled, i), kinds[i])
         /\ SentRequest(stream, garbled, i)[o] = stream[15 * (i - 1) + o]
<1>1. IsRequest(SentRequest(stream, garbled, i), kinds[i])
  BY DEF IInv, RequestsIntact
<1>2. SentRequest(stream, garbled, i)[o] = Sent(stream, garbled, 15 * (i - 1) + o)
  BY Sizes DEF SentRequest
<1> QED  BY <1>1, <1>2 DEF Sent

\* What ServedSound says of the chunk, byte by byte.
LEMMA ChunkBytes ==
  ASSUME IInv, served # NotServed
  PROVE  /\ served.chunk \in Seq(Byte) /\ Len(served.chunk) >= 11
         /\ served.first \in Nat /\ served.first >= 1
         /\ Len(kinds) \in Nat
         /\ served.first + Len(served.chunk) - 1 <= 15 * Len(kinds)
         /\ \A j \in 1 .. Len(served.chunk) :
              served.chunk[j] = stream[served.first - 1 + j]
         /\ Len(served.chunk) = 14 + iLength(served.chunk)
<1> DEFINE p == served.chunk
           first == served.first
           last == first + Len(p) - 1
<1>1. /\ p \in Seq(Byte) /\ first \in Nat /\ stream \in Seq(Byte)
      /\ Len(stream) = 15 * Len(kinds) /\ read <= Len(stream) /\ read \in Nat
      /\ Len(kinds) \in Nat
  BY Sizes DEF IInv, TypeOK
<1>2. /\ first >= 1 /\ last <= read /\ IsComplete(p) /\ p = SubSeq(stream, first, last)
  BY DEF IInv, ServedSound
<1>3. /\ Len(p) \in Nat /\ Len(p) >= 11 /\ Len(p) = 14 + iLength(p)
  <2>1. Len(p) >= HEADER /\ Len(p) = HEADER + iLength(p) + TAIL
    BY <1>1, <1>2, CompleteSize
  <2>2. iLength(p) \in Int
    BY <1>1, <2>1, LengthBytes
  <2> HIDE DEF p
  <2>3. Len(p) \in Nat
    BY <1>1
  <2> QED  BY <2>1, <2>2, <2>3, Sizes
<1> HIDE DEF p, first
<1>4. last \in Nat /\ last <= Len(stream) /\ first <= last + 1 /\ last - first + 1 = Len(p)
  <2>1. Len(stream) \in Nat
    BY <1>1
  <2>2. first + Len(p) - 1 <= read
    BY <1>2
  <2> QED  BY ONLY <1>1, <1>3, <2>1, <2>2
<1> HIDE DEF last
<1>5. \A j \in 1 .. last - first + 1 : SubSeq(stream, first, last)[j] = stream[first - 1 + j]
  BY <1>1, <1>2, <1>4, SubSeqAgree
<1>6. \A j \in 1 .. Len(p) : p[j] = stream[first - 1 + j]
  BY <1>2, <1>4, <1>5
<1>7. last <= 15 * Len(kinds)
  BY <1>1, <1>4
<1> QED  BY <1>1, <1>2, <1>3, <1>6, <1>7 DEF p, first, last

\* The chunk starts at byte o of the i-th request; its bytes are those of
\* this request and the next one, as far as the line did not change them.
StartsAt(i, o) ==
  /\ i \in 1 .. Len(kinds) /\ o \in 1 .. 15
  /\ served.first = 15 * (i - 1) + o

LEMMA Starts ==
  ASSUME IInv, served # NotServed
  PROVE  \E i, o : StartsAt(i, o) /\ (served.first - 1) % 15 = o - 1
<1>1. served.first \in 1 .. 15 * Len(kinds) /\ Len(kinds) \in Nat
  <2>1. Len(served.chunk) \in Nat
    BY ChunkBytes
  <2> QED  BY <2>1, ChunkBytes
<1>2. PICK i \in 1 .. Len(kinds), o \in 1 .. 15 :
        served.first = 15 * (i - 1) + o /\ (served.first - 1) % 15 = o - 1
  BY ONLY <1>1, Position
<1> QED  BY <1>2 DEF StartsAt

\* The j-th byte of a chunk that starts at byte o of the i-th request is a byte
\* of a request as it was sent.
SentByte(i, o, j) ==
  /\ o - 1 + j <= 15 =>
       /\ IsRequest(SentRequest(stream, garbled, i), kinds[i])
       /\ served.chunk[j] = SentRequest(stream, garbled, i)[o - 1 + j]
  /\ o - 1 + j \in 16 .. 30 =>
       /\ IsRequest(SentRequest(stream, garbled, i + 1), kinds[i + 1])
       /\ served.chunk[j] = SentRequest(stream, garbled, i + 1)[o - 1 + j - 15]

LEMMA KeptByte ==
  ASSUME IInv, served # NotServed, NEW i, NEW o, StartsAt(i, o),
         NEW j \in 1 .. Len(served.chunk), served.first - 1 + j # garbled.at
  PROVE  SentByte(i, o, j)
<1> DEFINE n == Len(kinds)
           m == Len(served.chunk)
           first == served.first
           at == garbled.at
<1>1. /\ n \in Nat /\ m \in Nat /\ first \in Nat /\ first + m - 1 <= 15 * n
      /\ served.chunk[j] = stream[first - 1 + j]
  BY ChunkBytes
<1>2. i \in 1 .. n /\ o \in 1 .. 15 /\ first = 15 * (i - 1) + o
  BY DEF StartsAt
<1>3. first - 1 + j # at
  OBVIOUS
<1>4. j \in 1 .. m
  OBVIOUS
<1> HIDE DEF n, m, first, at
<1>6. ASSUME o - 1 + j <= 15
      PROVE  /\ IsRequest(SentRequest(stream, garbled, i), kinds[i])
             /\ served.chunk[j] = SentRequest(stream, garbled, i)[o - 1 + j]
  <2> DEFINE k == o - 1 + j
  <2>1. k \in 1 .. 15 /\ first - 1 + j = 15 * (i - 1) + k
    BY <1>2, <1>4, <1>6
  <2> HIDE DEF k
  <2>2. i \in 1 .. Len(kinds) /\ 15 * (i - 1) + k # garbled.at
    BY <1>2, <1>3, <2>1 DEF n, at
  <2>3. /\ IsRequest(SentRequest(stream, garbled, i), kinds[i])
        /\ SentRequest(stream, garbled, i)[k] = stream[15 * (i - 1) + k]
    BY <2>1, <2>2, ByteOfRequest, Zenon
  <2> QED  BY <1>1, <2>1, <2>3 DEF k
<1>7. ASSUME o - 1 + j \in 16 .. 30
      PROVE  /\ IsRequest(SentRequest(stream, garbled, i + 1), kinds[i + 1])
             /\ served.chunk[j] = SentRequest(stream, garbled, i + 1)[o - 1 + j - 15]
  <2> DEFINE k == o - 1 + j - 15
             l == i + 1
  <2>1. k \in 1 .. 15 /\ first - 1 + j = 15 * (l - 1) + k /\ l \in 1 .. n
    BY <1>1, <1>2, <1>4, <1>7
  <2> HIDE DEF k, l
  <2>2. l \in 1 .. Len(kinds) /\ 15 * (l - 1) + k # garbled.at
    BY <1>3, <2>1 DEF n, at
  <2>3. /\ IsRequest(SentRequest(stream, garbled, l), kinds[l])
        /\ SentRequest(stream, garbled, l)[k] = stream[15 * (l - 1) + k]
    BY <2>1, <2>2, ByteOfRequest, Zenon
  <2> QED  BY <1>1, <2>1, <2>3 DEF k, l
<1> QED  BY <1>6, <1>7 DEF SentByte

LEMMA NthByte ==
  ASSUME IInv, served # NotServed, Untouched, NEW i, NEW o, StartsAt(i, o),
         NEW j \in 1 .. Len(served.chunk)
  PROVE  SentByte(i, o, j)
<1>1. served.first - 1 + j # garbled.at
  <2>1. served.first \in Nat /\ Len(served.chunk) \in Nat
    BY ChunkBytes
  <2>2. garbled.at \in Nat
    BY DEF IInv, TypeOK
  <2> QED  BY <2>1, <2>2 DEF Untouched
<1> QED  BY <1>1, KeptByte, Zenon

\* A chunk that starts with a request is that request: its length field says 1.
LEMMA StartsWhole ==
  ASSUME IInv, served # NotServed, Untouched, NEW i, StartsAt(i, 1)
  PROVE  Serves(i) /\ i \in Requests
<1> DEFINE p == served.chunk
           r == SentRequest(stream, garbled, i)
<1>1. p \in Seq(Byte) /\ Len(p) >= 11 /\ Len(p) = 14 + iLength(p) /\ Len(p) \in Nat
  BY ChunkBytes
<1>2. \A j \in 1 .. 11 : IsRequest(r, kinds[i]) /\ p[j] = r[j]
  <2>1. ASSUME NEW j \in 1 .. 11
        PROVE  IsRequest(r, kinds[i]) /\ p[j] = r[j]
    <3>1. j \in 1 .. Len(served.chunk) /\ 1 - 1 + j <= 15 /\ 1 - 1 + j = j
      BY <1>1
    <3> QED  BY <3>1, NthByte DEF SentByte
  <2> QED  BY <2>1
<1> HIDE DEF p, r
<1>3. p[3] = 1 /\ p[4] = 0 /\ p[5] = 0 /\ p[6] = 0
  <2>1. RequestHead(r)
    BY <1>2 DEF IsRequest
  <2> QED  BY <1>2, <2>1 DEF RequestHead
<1>4. Len(p) >= HEADER
  BY <1>1, Sizes
<1>5. iLength(p) = 1
  BY <1>1, <1>3, <1>4, LengthBytes
<1>6. Len(p) = 15
  BY <1>1, <1>5
<1>7. served.first = 15 * (i - 1) + 1 /\ i \in 1 .. Len(kinds)
  BY DEF StartsAt
<1>8. Len(kinds) \in Nat /\ kinds \in Seq(Clients)
  BY DEF IInv, TypeOK
<1>9. i \in Requests
  BY <1>7, <1>8 DEF Requests
<1> QED  BY <1>6, <1>7, <1>9, Sizes DEF Serves, p

\* A chunk that starts behind a header takes the next packet's STX for the
\* upper half of its length field, and is not complete.
LEMMA StartsBehindHeader ==
  ASSUME IInv, served # NotServed, Untouched, NEW i, StartsAt(i, 12)
  PROVE  FALSE
<1> DEFINE p == served.chunk
           r == SentRequest(stream, garbled, i + 1)
<1>1. p \in Seq(Byte) /\ Len(p) >= 11 /\ Len(p) = 14 + iLength(p) /\ Len(p) \in Nat
  BY ChunkBytes
<1>2. \A j \in 5 .. 6 : IsRequest(r, kinds[i + 1]) /\ p[j] = r[j - 4]
  <2>1. ASSUME NEW j \in 5 .. 6
        PROVE  IsRequest(r, kinds[i + 1]) /\ p[j] = r[j - 4]
    <3>1. /\ j \in 1 .. Len(served.chunk) /\ 12 - 1 + j \in 16 .. 30
          /\ 12 - 1 + j - 15 = j - 4
      BY <1>1
    <3> QED  BY <3>1, NthByte DEF SentByte
  <2> QED  BY <2>1
<1> HIDE DEF p, r
<1>3. p[5] = 240 /\ p[6] = 240
  <2>1. RequestHead(r) /\ p[5] = r[1] /\ p[6] = r[2]
    BY <1>2 DEF IsRequest
  <2> QED  BY <2>1 DEF RequestHead
<1>4. Len(p) >= HEADER
  BY <1>1, Sizes
<1>5. iLength(p) \in Int /\ iLength(p) < 0 - 3
  BY <1>1, <1>3, <1>4, LengthBytes, Sizes
<1> QED  BY <1>1, <1>5

\* The STX of a request is found at its start, and elsewhere only where the
\* payload and the checksum are 0xF0 both.
LEMMA StxAt ==
  ASSUME IInv, served # NotServed, Untouched, NEW i, NEW o, StartsAt(i, o),
         served.chunk[1] = 240, served.chunk[2] = 240
  PROVE  o \in {1, 12}
<1> DEFINE p == served.chunk
           r == SentRequest(stream, garbled, i)
<1>1. o \in 1 .. 15 /\ Len(p) \in Nat /\ Len(p) >= 11
  BY ChunkBytes DEF StartsAt
<1>2. IsRequest(r, kinds[i]) /\ r[o] = 240
  <2>1. 1 \in 1 .. Len(served.chunk) /\ o - 1 + 1 <= 15 /\ o - 1 + 1 = o
    BY <1>1
  <2> QED  BY <2>1, NthByte DEF SentByte
<1>3. o < 15 => r[o + 1] = 240
  <2> SUFFICES ASSUME o < 15
               PROVE  r[o + 1] = 240
    OBVIOUS
  <2>1. 2 \in 1 .. Len(served.chunk) /\ o - 1 + 2 <= 15 /\ o - 1 + 2 = o + 1
    BY <1>1
  <2> QED  BY <2>1, NthByte DEF SentByte
<1> HIDE DEF p, r
<1>4. /\ r[3] = 1 /\ r[4] = 0 /\ r[5] = 0 /\ r[6] = 0 /\ r[7] = 1 /\ r[8] = 2 /\ r[9] = 0
      /\ r[10] \in 0 .. 3 /\ r[11] = 0
      /\ r[13] = 0 \/ r[14] = 255
      /\ r[15] = 255
  BY <1>2 DEF IsRequest, RequestHead, Documented, CutShort, CTRL_PC_ID, MY_TCP_ID
<1> QED  BY <1>1, <1>2, <1>3, <1>4

\* Untouched, the i-th request that is served is a request.
LEMMA ServedRequest ==
  ASSUME IInv, served # NotServed, Untouched, NEW i \in Requests, Serves(i)
  PROVE  IsRequest(served.chunk, kinds[i])
<1> DEFINE p == served.chunk
           r == SentRequest(stream, garbled, i)
<1>1. p \in Seq(Byte) /\ Len(p) = 15
  BY ChunkBytes, Sizes DEF Serves
<1>2. StartsAt(i, 1)
  <2>1. i \in 1 .. Len(kinds)
    BY DEF IInv, TypeOK, Requests
  <2> QED  BY <2>1, Sizes DEF Serves, StartsAt
<1>3. \A j \in 1 .. 15 : IsRequest(r, kinds[i]) /\ p[j] = r[j]
  <2>1. ASSUME NEW j \in 1 .. 15
        PROVE  IsRequest(r, kinds[i]) /\ p[j] = r[j]
    <3>1. j \in 1 .. Len(served.chunk) /\ 1 - 1 + j <= 15 /\ 1 - 1 + j = j
      BY <1>1
    <3> QED  BY <1>2, <3>1, NthByte DEF SentByte
  <2> QED  BY <2>1
<1> HIDE DEF p, r
<1>4. r \in Seq(Byte) /\ Len(r) = 15 /\ IsRequest(r, kinds[i])
  BY <1>3, Sizes DEF IsRequest
<1>5. p = r
  <2>1. Len(p) = Len(r) /\ \A j \in 1 .. Len(p) : p[j] = r[j]
    BY <1>1, <1>3, <1>4
  <2> QED  BY <1>1, <1>4, <2>1, SameBytes
<1> QED  BY <1>4, <1>5 DEF p

LEMMA ExactIfUntouched == IInv => UntouchedIsExact
<1> SUFFICES ASSUME IInv, Untouched
             PROVE  ServedIsWhole /\ FormatCheckExact
  BY DEF UntouchedIsExact
<1>1. ASSUME served # NotServed, (served.first - 1) % 15 \in {0, 11}
      PROVE  \E i \in Requests : Serves(i)
  <2>1. PICK i, o : StartsAt(i, o) /\ (served.first - 1) % 15 = o - 1
    BY <1>1, Starts
  <2>2. o \in {1, 12}
    BY <1>1, <2>1 DEF StartsAt
  <2>3. o # 12
    BY <1>1, <2>1, StartsBehindHeader
  <2> QED  BY <1>1, <2>1, <2>2, <2>3, StartsWhole
<1>2. ServedIsWhole
  BY <1>1, Sizes DEF ServedIsWhole
<1>3. ASSUME served # NotServed, served.status = PACKET_FORMAT_OK
      PROVE  \E i \in Requests : Serves(i)
  <2>1. served.status = checkPacketFormat(served.chunk, stMsgId, Len(served.chunk))
    BY <1>3 DEF IInv, ServedSound, Serve
  <2>2. served.chunk \in Seq(Byte)
    BY <1>3, ChunkBytes
  <2>3. served.chunk[1] = 240 /\ served.chunk[2] = 240
    BY <1>3, <2>1, <2>2, FormatOk
  <2>4. PICK i, o : StartsAt(i, o) /\ (served.first - 1) % 15 = o - 1
    BY <1>3, Starts
  <2>5. o \in {1, 12}
    BY <1>3, <2>3, <2>4, StxAt
  <2>6. o # 12
    BY <1>3, <2>4, StartsBehindHeader
  <2> QED  BY <1>3, <2>4, <2>5, <2>6, StartsWhole
<1>4. ASSUME served # NotServed, NEW i \in Requests, Serves(i)
      PROVE  served.status = PACKET_FORMAT_OK
               <=> \/ kinds[i] = "pc"
                   \/ getSendCmdSize(nCmd(served.chunk)) = getRecvCmdSize(nCmd(served.chunk))
  <2>1. served.status = checkPacketFormat(served.chunk, stMsgId, Len(served.chunk))
    BY <1>4 DEF IInv, ServedSound, Serve
  <2>2. IsRequest(served.chunk, kinds[i])
    BY <1>4, ServedRequest
  <2> QED  BY <2>1, <2>2, RequestStatus
<1> QED  BY <1>2, <1>3, <1>4 DEF FormatCheckExact

-----------------------------------------------------------------------------
(* The theorems.                                                           *)

\* A chunk that passes the length test and names a sensor command would have
\* its command in the payload or the tail of a request, and its length field
\* or the rest of the command on bytes of which the line changed two.
LEMMA NeverSensor == IInv => NoSensorCommand
<1> SUFFICES ASSUME IInv, served # NotServed, nCmd(served.chunk) \in SENSOR_COMMANDS
             PROVE  FALSE
  BY DEF NoSensorCommand
<1> DEFINE p == served.chunk
           first == served.first
           at == garbled.at
<1>1. /\ p \in Seq(Byte) /\ Len(p) >= 11 /\ Len(p) \in Nat /\ Len(p) = 14 + iLength(p)
      /\ first \in Nat /\ first >= 1
      /\ \A j \in 1 .. Len(p) : p[j] = stream[first - 1 + j]
  BY ChunkBytes
<1>2. Len(p) <= 1024
  BY DEF IInv, ServedSound, BUFFER_SIZE
<1>3. \/ p[5] = 0 /\ p[6] = 0
      \/ p[5] = 255 /\ p[6] = 255
  <2>1. iLength(p) \in Int
    BY <1>1, Sizes, LengthBytes
  <2>2. iLength(p) \in -3 .. 1010
    <3> HIDE DEF p
    <3>1. PICK l \in Int : l = iLength(p)
      BY <2>1
    <3>2. PICK n \in Nat : n = Len(p) /\ n >= 11 /\ n <= 1024 /\ n = 14 + l
      BY <1>1, <1>2, <3>1
    <3>3. l \in -3 .. 1010
      BY <3>2
    <3> QED  BY <3>1, <3>3
  <2> QED  BY <1>1, <2>2, Sizes, ShortLength
<1>4. p[10] \in SENSOR_COMMANDS /\ p[10] \in 100 .. 103 /\ p[11] = 0
  BY <1>1, Sizes, SensorBytes
<1>5. first - 1 + 10 # at
  <2> SUFFICES ASSUME first - 1 + 10 = at
               PROVE  FALSE
    OBVIOUS
  <2>1. at # 0 /\ p[10] = stream[at]
    <3>1. 10 \in 1 .. Len(p) /\ first - 1 + 10 # 0
      BY <1>1
    <3> HIDE DEF p, first, at
    <3> QED  BY <1>1, <3>1
  <2>2. p[10] \in GarbleTo
    BY <2>1 DEF IInv, GarbledOnce
  <2> QED  BY <1>4, <2>2, FramingAssumption
<1>6. PICK i, o : StartsAt(i, o)
  BY Starts
<1> DEFINE r == SentRequest(stream, garbled, i)
           q == SentRequest(stream, garbled, i + 1)
<1>7. o \in 1 .. 15
  BY <1>6 DEF StartsAt
<1>8. o + 9 <= 15 => IsRequest(r, kinds[i]) /\ p[10] = r[o + 9]
  <2>1. 10 \in 1 .. Len(p) /\ o - 1 + 10 = o + 9
    BY <1>1, <1>7
  <2> QED  BY <1>5, <1>6, <2>1, KeptByte DEF SentByte
<1>9. o + 9 > 15 => IsRequest(q, kinds[i + 1]) /\ p[10] = q[o - 6]
  <2>1. 10 \in 1 .. Len(p) /\ o - 1 + 10 - 15 = o - 6
    BY <1>1, <1>7
  <2>2. o + 9 > 15 => o - 1 + 10 \in 16 .. 30
    BY <1>7
  <2> QED  BY <1>5, <1>6, <2>1, <2>2, KeptByte DEF SentByte
<1>10. \A j \in {5, 6, 11} :
         o \in 3 .. 5 /\ first - 1 + j # at => p[j] = r[o - 1 + j]
  <2> SUFFICES ASSUME NEW j \in {5, 6, 11}, o \in 3 .. 5, first - 1 + j # at
               PROVE  p[j] = r[o - 1 + j]
    OBVIOUS
  <2>1. j \in 1 .. Len(p) /\ o - 1 + j <= 15
    BY <1>1
  <2> QED  BY <1>6, <2>1, KeptByte DEF SentByte
<1> HIDE DEF p, first, at, r, q
<1>11. o \in 3 .. 5
  <2>1. CASE o + 9 <= 15
    <3>1. r[10] \in 0 .. 3 /\ r[11] = 0 /\ r[15] = 255
      BY <1>8, <2>1 DEF IsRequest, RequestHead, Documented, CutShort
    <3> QED  BY <1>4, <1>7, <1>8, <2>1, <3>1
  <2>2. CASE o + 9 > 15
    <3>1. /\ q[1] = 240 /\ q[2] = 240 /\ q[3] = 1 /\ q[4] = 0 /\ q[5] = 0
          /\ q[6] = 0 /\ q[7] = 1 /\ q[8] = 2 /\ q[9] = 0
      BY <1>9, <2>2 DEF IsRequest, RequestHead, CTRL_PC_ID, MY_TCP_ID
    <3> QED  BY <1>4, <1>7, <1>9, <2>2, <3>1
  <2> QED  BY <1>7, <2>1, <2>2
<1>12. /\ IsRequest(r, kinds[i]) /\ p[10] = r[o + 9]
       /\ r[7] = 1 /\ r[8] = 2 /\ r[9] = 0 /\ r[10] \in 0 .. 3 /\ r[15] = 255
       /\ (r[14] = 255 \/ (r[13] = 0 /\ r[10] # 0))
  BY <1>8, <1>11 DEF IsRequest, RequestHead, Documented, CutShort, CTRL_PC_ID,
                    MY_TCP_ID, CMD_KEEP_ALIVE
<1>13. CASE o = 3
  <2>1. first - 1 + 5 # at \/ first - 1 + 6 # at
    BY <1>1
  <2> QED  BY <1>3, <1>10, <1>12, <1>13, <2>1
<1>14. CASE o = 4
  <2>1. r[14] = 255
    BY <1>4, <1>12, <1>14
  <2>2. first - 1 + 5 = at
    BY <1>3, <1>10, <1>12, <1>14
  <2>3. first - 1 + 11 # at
    BY <1>1, <2>2
  <2> QED  BY <1>4, <1>10, <1>14, <2>1, <2>3
<1>15. CASE o = 5
  <2>1. r[10] # 0
    BY <1>4, <1>12, <1>15
  <2>2. first - 1 + 5 = at \/ first - 1 + 6 = at
    BY <1>3, <1>10, <1>12, <1>15, <2>1
  <2>3. first - 1 + 11 # at
    BY <1>1, <2>2
  <2> QED  BY <1>4, <1>10, <1>12, <1>15, <2>3
<1> QED  BY <1>11, <1>13, <1>14, <1>15

LEMMA AnsweredWell == IInv => ResponseWellFormed
<1> SUFFICES ASSUME IInv, served # NotServed
             PROVE  /\ checkPacketFormat(served.response, ClientId, Len(served.response))
                         = PACKET_FORMAT_OK
                    /\ nCmd(served.response) = nCmd(served.chunk)
  BY DEF ResponseWellFormed, ClientId
<1>1. served.chunk \in Seq(Byte) /\ Len(served.chunk) >= HEADER
  BY ChunkBytes, Sizes
<1>2. nCmd(served.chunk) \notin SENSOR_COMMANDS
  BY NeverSensor DEF NoSensorCommand
<1>3. served.response = makeSendPacket(nCmd(served.chunk), stMsgId,
                                       dispatchCommand(nCmd(served.chunk)))
  BY <1>2 DEF IInv, ServedSound, Serve
<1> QED  BY <1>1, <1>2, <1>3, ResponseAccepted

LEMMA ChangeReported == IInv => CorruptionReported
<1> SUFFICES ASSUME IInv, NEW i \in Requests, served # NotServed, Serves(i),
                    garbled.at \in served.first .. served.first + REQUEST_SIZE - 1,
                    served.status = PACKET_FORMAT_OK
             PROVE  /\ (stream[garbled.at] - garbled.was) % 256 \in {1, 255}
                    /\ served.chunk[REQUEST_SIZE - EXCLUDING_CRC_POINT + 1] = 0
  BY DEF CorruptionReported
<1> DEFINE q == served.chunk
           p == SentRequest(stream, garbled, i)
           first == served.first
           at == garbled.at
           j == at - first + 1
<1>1. /\ q \in Seq(Byte) /\ Len(q) = 15
      /\ \A k \in 1 .. 15 : q[k] = stream[first - 1 + k]
  BY ChunkBytes, Sizes DEF Serves
<1>2. i \in 1 .. Len(kinds) /\ i \in Int /\ first = 15 * (i - 1) + 1
  <2>1. kinds \in Seq(Clients)
    BY DEF IInv, TypeOK
  <2> QED  BY <2>1, Sizes DEF Requests, Serves
<1>3. IsRequest(p, kinds[i])
  BY <1>2 DEF IInv, RequestsIntact
<1>4. \A k \in 1 .. 15 : p[k] = Sent(stream, garbled, 15 * (i - 1) + k)
  BY Sizes DEF SentRequest
<1>5. at \in first .. first + 14
  BY <1>2, Sizes
<1> HIDE DEF p, q, first, at
<1>6. j \in 1 .. 15 /\ first - 1 + j = at /\ 15 * (i - 1) + j = at
  BY <1>2, <1>5
<1>7. \A k \in 1 .. 15 : k # j => 15 * (i - 1) + k # at /\ first - 1 + k = 15 * (i - 1) + k
  BY <1>2, <1>5
<1> HIDE DEF j
<1>8. q[j] = stream[at] /\ p[j] = garbled.was
  BY <1>1, <1>4, <1>6 DEF Sent, at
<1>9. \A k \in 1 .. 15 : k # j => q[k] = p[k]
  BY <1>1, <1>4, <1>7 DEF Sent, at
<1>10. stream[at] # garbled.was
  <2>1. at # 0
    BY <1>2, <1>5
  <2> QED  BY <2>1 DEF IInv, GarbledOnce, at
<1>11. checkPacketFormat(q, stMsgId, Len(q)) = PACKET_FORMAT_OK
  BY DEF IInv, ServedSound, Serve, q
<1>12. (q[j] - p[j]) % 256 \in {1, 255} /\ q[13] = 0
  <2>1. /\ Len(q) = REQUEST_SIZE /\ j \in 1 .. REQUEST_SIZE
        /\ \A k \in 1 .. REQUEST_SIZE : k # j => q[k] = p[k]
    BY <1>1, <1>6, <1>9, Sizes
  <2>2. q[j] # p[j] /\ q \in Seq(Byte)
    BY <1>1, <1>8, <1>10
  <2> QED  BY ONLY <1>3, <1>11, <2>1, <2>2, CorruptionSeen
<1>13. REQUEST_SIZE - EXCLUDING_CRC_POINT + 1 = 13
  BY Sizes DEF EXCLUDING_CRC_POINT
<1> QED  BY <1>8, <1>12, <1>13 DEF q, at

\* A request has the size its length field says.
LEMMA RequestComplete ==
  ASSUME NEW p, NEW kind, IsRequest(p, kind)
  PROVE  IsComplete(p)
<1>1. p \in Seq(Byte) /\ Len(p) = 15 /\ RequestHead(p)
  BY Sizes DEF IsRequest
<1>2. Len(p) >= HEADER
  BY <1>1, Sizes
<1>3. iLength(p) = 1
  BY <1>1, <1>2, LengthBytes DEF RequestHead
<1>4. Len(p) \in HEADER .. MaxInt
  <2>1. Len(p) \in 11 .. 38
    BY <1>1
  <2> QED  BY <2>1, SizesFit
<1>5. Len(p) = HEADER + iLength(p) + TAIL
  BY <1>1, <1>3, Sizes
<1> QED  BY ONLY <1>1, <1>4, <1>5, CompleteSize

WholeStep(i) ==
  /\ read = REQUEST_SIZE * (i - 1) /\ read' = REQUEST_SIZE * i
  /\ garbled.at \notin read + 1 .. read'
  => Serves(i)'

LEMMA WholeServedStep == IInv /\ [Next]_vars => \A i \in Requests : WholeStep(i)
<1> SUFFICES ASSUME IInv, [Next]_vars, NEW i \in Requests,
                    read = REQUEST_SIZE * (i - 1), read' = REQUEST_SIZE * i,
                    garbled.at \notin read + 1 .. read'
             PROVE  Serves(i)'
  BY DEF WholeStep
<1>1. i \in 1 .. Len(kinds) /\ i \in Int /\ read = 15 * (i - 1) /\ read' = 15 * i
  <2>1. kinds \in Seq(Clients)
    BY DEF IInv, TypeOK
  <2> QED  BY <2>1, Sizes DEF Requests
<1>2. read' = read + 15 /\ read' # read
  BY <1>1
<1>3. Receive
  BY <1>2 DEF Next, SendRequest, Garble, vars
<1>4. PICK k \in 1 .. Len(stream) - read :
        LET chunk == SubSeq(stream, read + 1, read + k) IN
          /\ read' = read + k
          /\ served' = IF IsComplete(chunk) THEN Serve(read + 1, chunk) ELSE served
  BY <1>3 DEF Receive
<1>5. stream \in Seq(Byte) /\ Len(stream) \in Nat /\ read \in Nat
  BY DEF IInv, TypeOK
<1>6. k = 15 /\ read + 15 <= Len(stream)
  BY <1>1, <1>4, <1>5
<1> DEFINE p == SubSeq(stream, read + 1, read + 15)
           r == SentRequest(stream, garbled, i)
<1>7. /\ p \in Seq(Byte) /\ Len(p) = 15
      /\ \A o \in 1 .. 15 : p[o] = stream[read + o]
  <2> DEFINE m == read + 1
             n == read + 15
  <2>1. /\ m \in Nat /\ n \in Nat /\ 1 <= m /\ m <= n + 1 /\ n <= Len(stream)
        /\ n - m + 1 = 15 /\ \A o \in 1 .. 15 : m - 1 + o = read + o
    BY <1>5, <1>6
  <2> HIDE DEF m, n
  <2>2. /\ SubSeq(stream, m, n) \in Seq(Byte)
        /\ Len(SubSeq(stream, m, n)) = n - m + 1
        /\ \A o \in 1 .. n - m + 1 : SubSeq(stream, m, n)[o] = stream[m - 1 + o]
    <3>1. \A j \in m .. n : stream[j] = stream[j]
      OBVIOUS
    <3> QED  BY ONLY <1>5, <2>1, <3>1, SubSeqAgree
  <2>3. /\ SubSeq(stream, m, n) \in Seq(Byte)
        /\ Len(SubSeq(stream, m, n)) = 15
        /\ \A o \in 1 .. 15 : SubSeq(stream, m, n)[o] = stream[read + o]
    BY ONLY <2>1, <2>2
  <2> QED  BY <2>3 DEF m, n
<1>8. \A o \in 1 .. 15 : 15 * (i - 1) + o # garbled.at
  BY <1>1
<1>9. \A o \in 1 .. 15 : IsRequest(r, kinds[i]) /\ r[o] = stream[read + o]
  BY <1>1, <1>8, ByteOfRequest
<1> HIDE DEF p, r
<1>10. IsRequest(r, kinds[i]) /\ r \in Seq(Byte) /\ Len(r) = 15
  BY <1>9, Sizes DEF IsRequest
<1>11. p = r
  <2>1. Len(p) = Len(r) /\ \A o \in 1 .. Len(p) : p[o] = r[o]
    BY <1>7, <1>9, <1>10
  <2> QED  BY <1>7, <1>10, <2>1, SameBytes
<1>12. served' = Serve(read + 1, p)
  <2>1. IsComplete(p)
    BY <1>10, <1>11, RequestComplete
  <2> QED  BY <1>4, <1>6, <2>1 DEF p
<1>13. served'.first = read + 1 /\ Len(served'.chunk) = 15
  BY <1>7, <1>12 DEF Serve
<1> QED  BY <1>1, <1>13, Sizes DEF Serves

\* The receive path keeps its types: the format status is a set of the errors
\* checkPacketFormat knows, and every response a sequence of bytes.
THEOREM TypeCorrect == Spec => []TypeOK
<1>1. IInv => TypeOK
  BY DEF IInv
<1> QED  BY <1>1, Inductive, PTL

\* However the stream is cut and whichever byte the line changed, as long as it
\* is not changed to a sensor command's number, receiveThread never dispatches a
\* sensor command for clients that send none.
THEOREM NoSensorServed == Spec => []NoSensorCommand
<1> QED  BY NeverSensor, Inductive, PTL

\* Under the same conditions the response of receiveThread to any chunk it takes
\* for complete passes the client's format check and names the chunk's command.
THEOREM Answers == Spec => []ResponseWellFormed
<1> QED  BY AnsweredWell, Inductive, PTL

\* The checksum of calculatePacketCrc and the other comparisons of
\* checkPacketFormat report a changed byte of a request, whichever it is, but
\* for a change by one that swaps the sums 0xFF and 0x00.
THEOREM Reports == Spec => []CorruptionReported
<1> QED  BY ChangeReported, Inductive, PTL

\* On any line, receiveThread takes a chunk that was not changed on the way
\* for complete with both ends between packets or behind a header only if it
\* is a request, and its format status is OK for exactly the requests that
\* FormatCheckExact names.
THEOREM Exact == Spec => []UntouchedIsExact
<1> QED  BY ExactIfUntouched, Inductive, PTL

NoneGarbled == garbled = NotGarbled

\* Where the line can change no byte, none is changed.
LEMMA LineKeepsBytes ==
  ASSUME GarbleTo = {}
  PROVE  Spec => []NoneGarbled
<1>1. Init => NoneGarbled
  BY DEF Init, NoneGarbled
<1>2. NoneGarbled /\ [Next]_vars => NoneGarbled'
  BY DEF Next, SendRequest, Garble, Receive, vars, NoneGarbled
<1> QED  BY <1>1, <1>2, PTL DEF Spec

LEMMA NothingTouched ==
  IInv /\ NoneGarbled /\ UntouchedIsExact => ServedIsWhole /\ FormatCheckExact
<1> SUFFICES ASSUME IInv, NoneGarbled, UntouchedIsExact
             PROVE  ServedIsWhole /\ FormatCheckExact
  OBVIOUS
<1>1. CASE served # NotServed
  <2>1. /\ served.first \in Nat /\ served.first >= 1
        /\ served.chunk \in Seq(Byte) /\ garbled.at = 0
    BY <1>1, ChunkBytes DEF NoneGarbled, NotGarbled
  <2>2. Len(served.chunk) \in Nat
    BY <2>1
  <2>3. Untouched
    BY <2>1, <2>2 DEF Untouched
  <2> QED  BY <2>3 DEF UntouchedIsExact
<1>2. CASE served = NotServed
  BY <1>2 DEF ServedIsWhole, FormatCheckExact
<1> QED  BY <1>1, <1>2

\* Whatever the line did to other bytes, receiveThread serves every request
\* that arrives in a chunk of its own, as it was sent.
THEOREM ServesWhole == Spec => WholeIsServed
<1>1. IInv /\ [Next]_vars => [\A i \in Requests : WholeStep(i)]_vars
  BY WholeServedStep
<1>2. Spec => [][\A i \in Requests : WholeStep(i)]_vars
  BY <1>1, Inductive, PTL DEF Spec
<1> QED  BY <1>2 DEF WholeIsServed, WholeStep

\* On a line that changes no byte, as TCP is, coalesced, split and misaligned
\* chunks are dropped by receiveThread, cut where Process1 cuts them: what is
\* answered is one request, all of it and nothing else.
THEOREM Whole ==
  ASSUME GarbleTo = {}
  PROVE  Spec => []ServedIsWhole
<1> QED  BY NothingTouched, Inductive, Exact, LineKeepsBytes, PTL

\* On such a line, cut anywhere, the format status of what is answered is OK
\* for exactly the requests built with the right tail, and for nothing else.
THEOREM StatusExact ==
  ASSUME GarbleTo = {}
  PROVE  Spec => []FormatCheckExact
<1> QED  BY NothingTouched, Inductive, Exact, LineKeepsBytes, PTL
=============================================================================
