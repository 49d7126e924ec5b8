---------------------------- MODULE FrameFormat ----------------------------
(***************************************************************************)
(* The packets of frame-format.c, byte by byte, with the command sizes of  *)
(* cmd-handler.c and the handlers of command.c that process1 dispatches.   *)
(* A packet is a sequence of bytes, 0 .. 255, little-endian as the packed  *)
(* structs of frame-format.h are on the target:                            *)
(*                                                                         *)
(*   STX 2 | iLength 4 | chSrcId 1 | chDstId 1 | chSubModule 1 | nCmd 2    *)
(*   | payload | chCrc 1 | ETX 2                                           *)
(***************************************************************************)
EXTENDS Integers, Sequences

Byte == 0 .. 255

\* sizeof(FRAME_HEADER), sizeof(FRAME_TAIL).
HEADER == 11
TAIL   == 3

CRC_START_POINT     == 6
EXCLUDING_CRC_POINT == 3

PACKET_STX == <<240, 240>>
PACKET_ETX == <<255, 255>>

CTRL_PC_ID == 1
MY_TCP_ID  == 2

\* PACKET_FORMAT_STATUS is a set of error bits; none is PACKET_FORMAT_OK.
PACKET_FORMAT_OK == {}

MaxInt == 2147483647

-----------------------------------------------------------------------------
(* cmd-handler.h and the payload sizes of cmd-handler.c.                   *)

CMD_KEEP_ALIVE == 0
CMD_IBIT       == 1
CMD_RBIT       == 2
CMD_CBIT       == 3
UDS2_EXTERN1_DATA    == 100
UDS2_EXTERN2_DATA    == 101
UDS2_EXTERN3_DATA    == 102
UDS2_EXTERN4_DATA    == 103
UDS3_PROCESSING_DATA == 200
UDS4_CTRL_DATA       == 300
UDS4_COMMAND         == 301

BIT_COMMANDS == {CMD_IBIT, CMD_RBIT, CMD_CBIT}
SENSOR_COMMANDS == {UDS2_EXTERN1_DATA, UDS2_EXTERN2_DATA, UDS2_EXTERN3_DATA,
                    UDS2_EXTERN4_DATA}

\* The UDS structs have one size in both directions.
UdsSize(id) ==
  CASE id \in {UDS2_EXTERN1_DATA, UDS2_EXTERN2_DATA, UDS2_EXTERN4_DATA} -> 24
    [] id \in {UDS2_EXTERN3_DATA, UDS3_PROCESSING_DATA, UDS4_CTRL_DATA} -> 16
    [] id = UDS4_COMMAND -> 1
    [] OTHER -> 0

getSendCmdSize(id) ==
  CASE id = CMD_KEEP_ALIVE -> 1
    [] id \in BIT_COMMANDS -> 2
    [] OTHER -> UdsSize(id)

getRecvCmdSize(id) ==
  IF id = CMD_KEEP_ALIVE \/ id \in BIT_COMMANDS THEN 1 ELSE UdsSize(id)

-----------------------------------------------------------------------------
(* Reading and writing the struct fields.                                  *)

\* An unsigned 16-bit field, from any value of the C type short.
Le16(n) == <<n % 256, (n \div 256) % 256>>

\* A 32-bit length, which the code writes only from the command sizes.
Le32(n) == Le16(n) \o <<0, 0>>

Signed(b) == IF b >= 128 THEN b - 256 ELSE b

\* The field at byte offset o (counted from 0) as a signed short and int.
ShortAt(p, o) == p[o + 1] + 256 * Signed(p[o + 2])
IntAt(p, o) ==
  p[o + 1] + 256 * p[o + 2] + 65536 * p[o + 3] + 16777216 * Signed(p[o + 4])

\* Mutant: the length field taken for a short.
LengthAsShort(p) == ShortAt(p, 2)

iLength(p) == IntAt(p, 2)
nCmd(p)    == ShortAt(p, 9)

-----------------------------------------------------------------------------
(* frame-format.c                                                          *)

\* The sum is a char; a sum of 0xFF is replaced by 0x00, which is why no
\* checksum byte is ever taken for half of an ETX.
Crc(sum) == IF sum = 255 THEN 0 ELSE sum

\* The sum of the bytes, in a char: sum[i] is chCrc after i additions.
ByteSum(bytes) ==
  LET sum[i \in 0 .. Len(bytes)] ==
        IF i = 0 THEN 0 ELSE (sum[i - 1] + bytes[i]) % 256
  IN sum[Len(bytes)]

\* Mutant: starts at chDstId.
CrcAfterSource(p, n) ==
  Crc(ByteSum(SubSeq(p, CRC_START_POINT + 2, n - EXCLUDING_CRC_POINT)))

calculatePacketCrc(p, n) ==
  Crc(ByteSum(SubSeq(p, CRC_START_POINT + 1, n - EXCLUDING_CRC_POINT)))

checkPacketCrc(p, n) ==
  calculatePacketCrc(p, n) = p[n - EXCLUDING_CRC_POINT + 1]

\* Computed in size_t and returned as int: lengths near the largest int wrap.
getTotalRecvSize(p, iRecvSize) ==
  LET len == iLength(p) IN
    IF iRecvSize < HEADER THEN -1
    ELSE IF len <= MaxInt - (HEADER + TAIL) THEN HEADER + len + TAIL
    ELSE ((len - MaxInt - 1) + HEADER + TAIL) - MaxInt - 1

Header(len, src, dst, cmd) ==
  PACKET_STX \o Le32(len) \o <<src, dst, 0>> \o Le16(cmd)

\* The header and payload of a packet, completed with its tail.
WithTail(headed) ==
  LET zeroed == headed \o <<0, 0, 0>> IN
    headed \o <<calculatePacketCrc(zeroed, Len(zeroed))>> \o PACKET_ETX

\* Mutant: announces the request's length, as makeRecvPacket does.
AnnounceRecvSize(cmd, id, payload) ==
  WithTail(Header(getRecvCmdSize(cmd), id.dst, id.src, cmd) \o payload)

\* payload: the getSendCmdSize(cmd) bytes the handler left after the header.
makeSendPacket(cmd, id, payload) ==
  WithTail(Header(getSendCmdSize(cmd), id.dst, id.src, cmd) \o payload)

\* payload: the getRecvCmdSize(cmd) bytes set by the caller, in a zeroed
\* buffer.  The tail goes behind getSendCmdSize(cmd) bytes although iLength
\* says getRecvCmdSize(cmd).
makeRecvPacket(cmd, id, payload) ==
  LET gap == [i \in 1 .. getSendCmdSize(cmd) - getRecvCmdSize(cmd) |-> 0] IN
    WithTail(Header(getRecvCmdSize(cmd), id.src, id.dst, cmd) \o payload \o gap)

\* Mutant: a packet of the right size is taken for a good one.
OnlySizeChecked(p, id, iPacketSize) ==
  IF getTotalRecvSize(p, iPacketSize) # iPacketSize THEN {"SIZE"}
  ELSE PACKET_FORMAT_OK

\* A wrong size ends the check; the source id is not compared.
checkPacketFormat(p, id, iPacketSize) ==
  IF getTotalRecvSize(p, iPacketSize) # iPacketSize THEN {"SIZE"}
  ELSE LET tail == HEADER + iLength(p) IN
    {e \in {"STX", "DST", "CRC", "ETX"} :
       CASE e = "STX" -> SubSeq(p, 1, 2) # PACKET_STX
         [] e = "DST" -> p[8] # id.dst
         [] e = "CRC" -> ~checkPacketCrc(p, iPacketSize)
         [] e = "ETX" -> SubSeq(p, tail + 2, tail + 3) # PACKET_ETX}

-----------------------------------------------------------------------------
(* dispatchCommand of cmd-handler.c, for the handlers that answer a TCP    *)
(* request or do nothing, and for commands without a handler.              *)

\* The payload part of the zeroed response buffer after the dispatch.  It has
\* no value for a sensor command: those handlers write a SENSOR_DATA, of which
\* the response holds one sensor's part only (SensorFusion has the place they
\* are meant for).
dispatchCommand(cmd) ==
  CASE cmd = CMD_KEEP_ALIVE -> <<1>>
    [] cmd \in BIT_COMMANDS -> <<1, 1>>
    [] cmd \notin {CMD_KEEP_ALIVE} \cup BIT_COMMANDS \cup SENSOR_COMMANDS ->
         [i \in 1 .. getSendCmdSize(cmd) |-> 0]
=============================================================================
