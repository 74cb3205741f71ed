------------------------------ MODULE Message ------------------------------
(***************************************************************************)
(* The datagrams netTester's client and server exchange                    *)
(* (include/Message.h).  A datagram is a fixed head - type, test id,       *)
(* message id, timestamp - followed by words at fixed offsets.  What the   *)
(* words at offsets 15 and 19 mean depends on the type, and a receiver     *)
(* that does not look at the type reads them as it pleases; so the model   *)
(* keeps them by offset, w15 and w19, and not by name.  Word 23            *)
(* (transferByte) and the filler bytes are read by nobody and left out.    *)
(***************************************************************************)
EXTENDS Integers

CONSTANTS
  RttClients,   \* client processes started for an RTT test
  BwClients,    \* client processes started for a bandwidth test (-b)
  ServerAddr,   \* the address of the server's socket
  IdSpace,      \* number of values of the 16-bit test id (2^16)
  IntMax        \* INT_MAX, in the unit of the clock (2^31 - 1 microseconds)

Clients == RttClients \cup BwClients

ASSUME MessageAssumption ==
  /\ RttClients \cap BwClients = {}
  /\ ServerAddr \notin Clients
  /\ IdSpace \in Nat \ {0}
  /\ IntMax \in Nat \ {0}

IntMin == -IntMax - 1

\* What is left of a wider integer stored in an int: its low 32 bits.
ToInt(x) == ((x + IntMax + 1) % (2 * IntMax + 2)) - IntMax - 1

\* What is left of an int stored in the uint16_t testId of the head.
ToTestId(x) == x % IdSpace

MessageType == {"testRequest", "testConfirm", "rttTestMsg",
                "bandwidthTestMsg", "bandwidthFinish", "bandwidthReport"}

\* enum class TestType, as the int it is sent as.
rtt       == 1
bandwidth == 2

\* Clients talk to the server and the server to clients, and the server
\* requests no tests.
ToServer == [src : Clients, dst : {ServerAddr}, msgType : MessageType,
             testId : Nat, msgId : Nat, timestamp : Int, w15 : Int, w19 : Int]
ToClient == [src : {ServerAddr}, dst : Clients, msgType : MessageType \ {"testRequest"},
             testId : Nat, msgId : Nat, timestamp : Int, w15 : Int, w19 : Int]
Datagram == ToServer \cup ToClient

\* The payloads of RttTestMsg and BandwidthTestMsg: packetSize - 15, the
\* sizes the two start functions pass, and the filler 0, 1, 2, 3 of an
\* RttTestMsg read as a word.
rttPayloadLen == 64 - 15
bwPayloadLen  == 1400 - 15
rttFiller     == 50462976

-----------------------------------------------------------------------------
(* The constructors: c is the client at one end, mid the id genMid() gave,  *)
(* ts the sender's clock.                                                   *)

TestRequest(c, testType, testTime, mid, ts) ==
  [src |-> c, dst |-> ServerAddr, msgType |-> "testRequest", testId |-> 0,
   msgId |-> mid, timestamp |-> ts, w15 |-> testType, w19 |-> testTime]

TestConfirm(c, result, tid, reMsgId, mid, ts) ==
  [src |-> ServerAddr, dst |-> c, msgType |-> "testConfirm",
   testId |-> ToTestId(tid), msgId |-> mid, timestamp |-> ts,
   w15 |-> result, w19 |-> reMsgId]

RttTestMsg(c, tid, mid, ts) ==
  [src |-> c, dst |-> ServerAddr, msgType |-> "rttTestMsg", testId |-> tid,
   msgId |-> mid, timestamp |-> ts, w15 |-> rttPayloadLen, w19 |-> rttFiller]

BandwidthTestMsg(c, tid, testNum, mid, ts) ==
  [src |-> c, dst |-> ServerAddr, msgType |-> "bandwidthTestMsg",
   testId |-> tid, msgId |-> mid, timestamp |-> ts,
   w15 |-> bwPayloadLen, w19 |-> testNum]

\* The datagram ends at offset 19: the word there is not part of it.
BandwidthFinish(c, tid, totalNum, mid, ts) ==
  [src |-> c, dst |-> ServerAddr, msgType |-> "bandwidthFinish",
   testId |-> tid, msgId |-> mid, timestamp |-> ts, w15 |-> totalNum, w19 |-> 0]

BandwidthReport(c, jitter, recvPkt, tid, mid, ts) ==
  [src |-> ServerAddr, dst |-> c, msgType |-> "bandwidthReport",
   testId |-> tid, msgId |-> mid, timestamp |-> ts,
   w15 |-> ToInt(jitter), w19 |-> recvPkt]

=============================================================================
