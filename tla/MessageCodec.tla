---------------------------- MODULE MessageCodec ----------------------------
(***************************************************************************)
(* The bytes of a datagram (include/Message.h, seeker::ByteArray): a       *)
(* message is written field by field, little-endian, into a static buffer, *)
(* sent from it and the buffer cleared; the receiver reads the fields back *)
(* from a buffer of its own that still holds what came before.  A          *)
(* bandwidth packet is written once and patched in place for each send.    *)
(* Message has the fields; here is what carries them.                      *)
(***************************************************************************)
EXTENDS Integers, SequencesExt

CONSTANTS
  Radix,      \* values of a byte (256)
  BufSize,    \* MSG_SEND_BUF_SIZE and the receive buffers (2048)
  Sizes,      \* packet sizes, 24 to 1500
  Ids,        \* ints and 16-bit ids to send
  Times,      \* timestamps to send
  MaxSends    \* bound: messages sent

\* What the byte k of a number counts: Radix to the k.
Weight[k \in 0 .. 8] == IF k = 0 THEN 1 ELSE Radix * Weight[k - 1]

\* The type of a message fits a byte, a message its buffer, and what is sent
\* its field: the same ids fill signed fields of 4 bytes and unsigned ones of 2.
ASSUME CodecAssumption ==
  /\ Radix \in Nat /\ Radix > 6
  /\ BufSize \in Nat /\ BufSize >= 31
  /\ \A size \in Sizes : size \in 24 .. BufSize /\ 2 * size < Weight[4]
  /\ \A id \in Ids : id \in Int /\ -Weight[4] <= 2 * id /\ id < Weight[2]
  /\ \A ts \in Times : ts \in Int /\ -Weight[8] <= 2 * ts /\ 2 * ts < Weight[8]
  /\ MaxSends \in Nat

VARIABLES
  sendBuf,   \* static uint8_t buf of sendMsg and replyMsg
  packetBuf, \* startBandwidth: sendBuf
  packet,    \* startBandwidth: the message in it, {} before there is one
  wire,      \* the datagram on its way, {} when there is none
  recvBuf,   \* the receiver's buffer
  sent,      \* history: the message on the wire
  read,      \* what the receiver read, {} before
  sends      \* messages sent so far

codecVars == <<sendBuf, packetBuf, packet, wire, recvBuf, sent, read, sends>>

Offsets == 0 .. BufSize - 1
Zeros == [i \in Offsets |-> 0]

-----------------------------------------------------------------------------
(* ByteArray.                                                              *)

ByteOf(num, k) == (num \div Weight[k]) % Radix

\* Mutant: the bytes in network order.
writeBigEndian(buf, at, width, num) ==
  [i \in DOMAIN buf |-> IF i \in at .. at + width - 1
                          THEN ByteOf(num, at + width - 1 - i) ELSE buf[i]]

writeData(buf, at, width, num) ==
  [i \in DOMAIN buf |-> IF i \in at .. at + width - 1
                          THEN ByteOf(num, i - at) ELSE buf[i]]

\* num <<= 8, and the next lower byte.
BytesFrom(buf, at, width) ==
  FoldLeft(LAMBDA n, i : n * Radix + buf[at + width - i], 0, [i \in 1 .. width |-> i])

\* The top bit is the sign of an int or an int64_t.
readData(buf, at, width, signed) ==
  LET num == BytesFrom(buf, at, width)
  IN  IF signed /\ 2 * num >= Weight[width] THEN num - Weight[width] ELSE num

-----------------------------------------------------------------------------
(* The messages: their fields in the order getBinary writes them.          *)

Field(name, at, width, signed) == [name |-> name, at |-> at, width |-> width, signed |-> signed]

headLen == 15
HeadFields == <<Field("msgType", 0, 1, FALSE), Field("testId", 1, 2, FALSE),
          Field("msgId", 3, 4, TRUE), Field("timestamp", 7, 8, TRUE)>>

Body == [testRequest      |-> <<Field("testType", 15, 4, TRUE), Field("testTime", 19, 4, TRUE)>>,
         testConfirm      |-> <<Field("result", 15, 4, TRUE), Field("reMsgId", 19, 4, TRUE)>>,
         rttTestMsg       |-> <<Field("payloadLen", 15, 4, TRUE)>>,
         bandwidthTestMsg |-> <<Field("payloadLen", 15, 4, TRUE),
                                Field("testPacketNumber", 19, 4, TRUE)>>,
         bandwidthFinish  |-> <<Field("totalTestNum", 15, 4, TRUE)>>,
         bandwidthReport  |-> <<Field("jitterMicroSec", 15, 4, TRUE),
                                Field("receivedPkt", 19, 4, TRUE),
                                Field("transferByte", 23, 8, FALSE)>>]

MessageTypeCode == [testRequest |-> 1, testConfirm |-> 2, rttTestMsg |-> 3,
                    bandwidthTestMsg |-> 4, bandwidthFinish |-> 5, bandwidthReport |-> 6]

Fields(type) == HeadFields \o Body[type]
Names(type) == {Fields(type)[i].name : i \in DOMAIN Fields(type)}

\* What fills an RttTestMsg or BandwidthTestMsg up to its size: 0, 1, 2, ...
FillerAt == [rttTestMsg |-> 19, bandwidthTestMsg |-> 23]

getLength(m) ==
  IF m.type \in DOMAIN FillerAt THEN headLen + m.payloadLen
  ELSE headLen + FoldLeft(LAMBDA n, f : n + f.width, 0, Body[m.type])

writeFields(buf, m) ==
  FoldLeft(LAMBDA b, f : writeData(b, f.at, f.width, m[f.name]), buf, Fields(m.type))

\* payload[i] = i, from the end of the fields on.
writeFiller(buf, first, end) ==
  [i \in Offsets |-> IF i \in first .. end - 1 THEN (i - first) % Radix ELSE buf[i]]

\* Mutant: the filler runs to the end of the payload and beyond.
getBinaryTooFar(buf, m) ==
  LET written == writeFields(buf, m)
  IN  IF m.type \in DOMAIN FillerAt
        THEN writeFiller(written, FillerAt[m.type], FillerAt[m.type] + m.payloadLen)
        ELSE written

getBinary(buf, m) ==
  LET written == writeFields(buf, m)
  IN  IF m.type \in DOMAIN FillerAt
        THEN writeFiller(written, FillerAt[m.type], headLen + m.payloadLen)
        ELSE written

\* Mutant: the number of the packet is not patched.
updateHeadOnly(buf, mId, testNum, ts) ==
  writeData(writeData(buf, 3, 4, mId), 7, 8, ts)

update(buf, mId, testNum, ts) ==
  writeData(writeData(writeData(buf, 3, 4, mId), 7, 8, ts), 19, 4, testNum)

\* The constructors of the receiving side.
Parse(buf, type) ==
  [n \in Names(type) |->
     LET f == CHOOSE f \in ToSet(Fields(type)) : f.name = n
     IN  readData(buf, f.at, f.width, f.signed)]

-----------------------------------------------------------------------------
CodecInit ==
  /\ sendBuf = Zeros /\ packetBuf = Zeros /\ recvBuf = Zeros
  /\ packet = {} /\ wire = {} /\ sent = {} /\ read = {}
  /\ sends = 0

NewMessage(type, tid, mid, ts, w, x) ==
  [n \in {"type"} \cup Names(type) |->
    CASE n = "type" -> type
      [] n = "msgType" -> MessageTypeCode[type]
      [] n \in {"testId", "transferByte"} -> tid [] n = "msgId" -> mid [] n = "timestamp" -> ts
      [] n \in {"testType", "result", "totalTestNum", "jitterMicroSec"} -> w
      [] n = "payloadLen" -> w - headLen
      [] OTHER -> x]

Datagram(buf, m) == [i \in 0 .. getLength(m) - 1 |-> buf[i]]

Launch(buf, m) ==
  /\ wire = {} /\ sends < MaxSends
  /\ sends' = sends + 1
  /\ wire' = {Datagram(buf, m)}
  /\ sent' = {m}
  /\ read' = {}

\* sendMsg and replyMsg: written, sent, and as much cleared as was sent.  (When
\* sendData throws nothing is cleared, but then the process ends.)
SendMsg(m) ==
  LET buf == getBinary(sendBuf, m) IN
  /\ Launch(buf, m)
  /\ sendBuf' = [i \in Offsets |-> IF i < getLength(m) THEN 0 ELSE buf[i]]
  /\ UNCHANGED <<packetBuf, packet, recvBuf>>

\* startBandwidth writes its packet once...
WritePacket(m) ==
  /\ packet = {} /\ wire = {} /\ sends < MaxSends
  /\ packet' = {m}
  /\ packetBuf' = getBinary(packetBuf, m)
  /\ UNCHANGED <<sendBuf, wire, recvBuf, sent, read, sends>>

\* ...and patches it for each send.
SendPacketAgain(mId, testNum, ts) ==
  \E m \in packet :
    LET m2 == [m EXCEPT !.msgId = mId, !.testPacketNumber = testNum, !.timestamp = ts] IN
    /\ packetBuf' = update(packetBuf, mId, testNum, ts)
    /\ packet' = {m2}
    /\ Launch(packetBuf', m2)
    /\ UNCHANGED <<sendBuf, recvBuf>>

\* recvfrom overwrites the front of the buffer; a client clears what came
\* after it has read it, the server never does.
ReceiveDatagram ==
  \E d \in wire, m \in sent, cleared \in BOOLEAN :
    LET buf == [i \in Offsets |-> IF i \in DOMAIN d THEN d[i] ELSE recvBuf[i]] IN
    /\ read' = {Parse(buf, m.type)}
    /\ recvBuf' = [i \in Offsets |-> IF cleared /\ i \in DOMAIN d THEN 0 ELSE buf[i]]
    /\ wire' = {}
    /\ UNCHANGED <<sendBuf, packetBuf, packet, sent, sends>>

CodecStep ==
  \/ \E type \in DOMAIN Body, id \in Ids, ts \in Times :
       \E w \in IF type \in DOMAIN FillerAt THEN Sizes ELSE {id} :
         LET m == NewMessage(type, IF id < 0 THEN 0 ELSE id, id, ts, w, id) IN
         \/ SendMsg(m)
         \/ type = "bandwidthTestMsg" /\ WritePacket(m)
  \/ \E id \in Ids, ts \in Times : SendPacketAgain(id, id, ts)
  \/ ReceiveDatagram

-----------------------------------------------------------------------------
(***************************************************************************)
(* What is read is what was sent, field for field, whatever the buffers    *)
(* held before: no field of a message lies behind the end of its datagram, *)
(* fields do not overlap, and signs survive (Message.h:30-64, each         *)
(* getLength and getBinary, common.h:105-123).                             *)
(***************************************************************************)
RoundTrip ==
  \A m \in sent, r \in read : \A n \in DOMAIN r : r[n] = m[n]

(***************************************************************************)
(* Between sends the static buffer is all zeros: what is cleared, as much  *)
(* as was sent, is all that was written.  So no datagram carries bytes of  *)
(* an earlier one (Message.h:87-101).                                      *)
(***************************************************************************)
SendBufferClean == sendBuf = Zeros

(***************************************************************************)
(* The packet patched in place is, byte for byte, the packet that would    *)
(* have been written anew (Message.h:221-225, Client.cpp:160-162,188).     *)
(***************************************************************************)
PatchedAsRebuilt == \A m \in packet : packetBuf = getBinary(Zeros, m)

=============================================================================
