-------------------------- MODULE NetTesterProofs --------------------------
(***************************************************************************)
(* What holds of NetTester for every value of the constants: the type of   *)
(* its state, that a test is not disturbed, that the server keeps the      *)
(* promise of TestService, the round trips an RTT client prints, and what  *)
(* a bandwidth test reports.  The two clocks: the server's timeout spares  *)
(* a client that still sends, and the jitter is the spread of the delays,  *)
(* for every offset between the clocks that an int can hold.  The loss: on *)
(* a network that duplicates nothing it is a number of packets.            *)
(***************************************************************************)
EXTENDS NetTester, TLAPS, FiniteSetTheorems

USE MessageAssumption, NetworkAssumption, ServerAssumption, ClientAssumption,
    MaxTimeAssumption

-----------------------------------------------------------------------------
(* Lemmas about the network's operators.                                   *)

\* A delivery adds nothing to the network but what its handler sends, and
\* leaves the clock alone.
LEMMA ExchangeBounds ==
  ASSUME NEW d, NEW sent, Exchange(d, sent)
  PROVE  /\ net' \subseteq net \cup sent
         /\ now' = now /\ losses' = losses /\ errors' = errors
         /\ dups' = dups \/ dups' = dups + 1
BY DEF Exchange

\* What is delivered at an address was in flight to it.
LEMMA DeliveredFromNet ==
  ASSUME NEW addr, NEW d \in Deliverable(addr)
  PROVE  d \in net /\ d.dst = addr
BY DEF Deliverable

\* Storing in an int or in a test id gives an integer or a natural number.
LEMMA StoredNumbers ==
  /\ \A x \in Int : ToInt(x) \in Int
  /\ \A x \in Nat : ToTestId(x) \in Nat
  /\ IntMin \in Int
BY SMT DEF ToInt, ToTestId, IntMin

-----------------------------------------------------------------------------
(* Type correctness.                                                       *)

LEMMA ConstructorTypes ==
  ASSUME NEW c \in Clients, NEW a \in Int, NEW b \in Int, NEW n \in Nat,
         NEW tid \in Nat, NEW mid \in Nat, NEW ts \in Int
  PROVE  /\ TestRequest(c, a, b, mid, ts) \in ToServer
         /\ TestConfirm(c, a, tid, b, mid, ts) \in ToClient
         /\ RttTestMsg(c, tid, mid, ts) \in ToServer
         /\ BandwidthTestMsg(c, tid, n, mid, ts) \in ToServer
         /\ BandwidthFinish(c, tid, n, mid, ts) \in ToServer
         /\ BandwidthReport(c, a, b, tid, mid, ts) \in ToClient
<1>1. ToTestId(tid) \in Nat /\ ToInt(a) \in Int
  BY StoredNumbers
<1> QED
  BY <1>1
  DEF ToServer, ToClient, MessageType, TestRequest, TestConfirm, RttTestMsg, BandwidthTestMsg,
         BandwidthFinish, BandwidthReport, rttPayloadLen, bwPayloadLen, rttFiller

\* What the server takes from its socket was sent by a client.
LEMMA ServerDelivery ==
  ASSUME NetTypeOK, NEW d \in Deliverable(ServerAddr)
  PROVE  d \in net /\ d \in ToServer
BY DeliveredFromNet DEF NetTypeOK, Datagram, ToServer, ToClient

\* What a client takes from its socket was sent by the server.
LEMMA ClientDelivery ==
  ASSUME NetTypeOK, NEW c \in Clients, NEW d \in Deliverable(c)
  PROVE  d \in net /\ d \in ToClient /\ d.dst = c
BY DeliveredFromNet DEF NetTypeOK, Datagram, ToServer, ToClient

\* The fields of a well-typed datagram.
LEMMA FieldTypes ==
  ASSUME NEW d \in Datagram
  PROVE  /\ d.testId \in Nat /\ d.msgId \in Nat /\ d.timestamp \in Int
         /\ d.w15 \in Int /\ d.w19 \in Int
         /\ d \in ToServer => d.src \in Clients /\ d.dst = ServerAddr
         /\ d \in ToClient => d.dst \in Clients /\ d.src = ServerAddr
BY DEF Datagram, ToServer, ToClient

\* The echo of an RTT packet goes to the client that sent it.
LEMMA EchoType ==
  ASSUME NEW d \in ToServer, d.msgType = "rttTestMsg"
  PROVE  /\ Echo(d) \in ToClient
         /\ Echo(d).dst = d.src /\ Echo(d).msgType = "rttTestMsg"
         /\ Echo(d).testId = d.testId /\ Echo(d).msgId = d.msgId
BY DEF Echo, ToServer, ToClient, MessageType

LEMMA ExchangeTypes ==
  ASSUME NetTypeOK, NEW d, NEW sent, Exchange(d, sent), sent \subseteq Datagram
  PROVE  NetTypeOK'
BY ExchangeBounds DEF NetTypeOK

LEMMA SendTypes ==
  ASSUME NetTypeOK, NEW d \in Datagram, Send(d)
  PROVE  NetTypeOK'
BY DEF Send, NetTypeOK

LEMMA TypeOKInit == Init => TypeOK
<1> SUFFICES ASSUME Init PROVE TypeOK
  OBVIOUS
<1> USE DEF Init
<1>1. NetTypeOK
  BY DEF NetInit, NetTypeOK
<1>2. ServerTypeOK
  BY StoredNumbers DEF ServerInit, ServerTypeOK, NewLocals, Locals
<1>3. ClientTypeOK
  BY DEF ClientInit, ClientTypeOK, ClientPc
<1> QED
  BY <1>1, <1>2, <1>3 DEF TypeOK

LEMMA ServerTypes ==
  ASSUME TypeOK, ServerStep
  PROVE  TypeOK'
<1> USE DEF TypeOK
<1>1. NetTypeOK /\ ServerTypeOK
  OBVIOUS
<1>2. ClientTypeOK'
  BY DEF ServerStep, clientVars, ClientTypeOK
<1>3. UNCHANGED serverVars => ServerTypeOK'
  BY <1>1 DEF serverVars, ServerTypeOK
<1>4. LeaveBandwidthTest => sPc' = "start" /\ currentTest' \in Nat /\ bt' \in Locals
                              /\ testIdGen' = testIdGen /\ issued' = issued
  BY StoredNumbers DEF LeaveBandwidthTest, NewLocals, Locals
<1>4a. AbandonTest => ServerTypeOK'
  BY <1>1, <1>4 DEF AbandonTest, ServerTypeOK
<1>5. ASSUME NEW d \in Deliverable(ServerAddr),
             \/ StartTestRequest(d) \/ StartRttTestMsg(d) \/ StartUnknown(d)
             \/ BandwidthTimeout(d) \/ BandwidthCount(d) \/ BandwidthEnd(d)
             \/ BandwidthTrap(d) \/ BandwidthUnexpected(d)
      PROVE  NetTypeOK' /\ ServerTypeOK'
  <2>1. d \in ToServer /\ d \in Datagram
    BY <1>1, ServerDelivery DEF Datagram
  <2>2. /\ d.src \in Clients /\ d.testId \in Nat /\ d.msgId \in Nat
        /\ d.timestamp \in Int /\ d.w15 \in Int /\ d.w19 \in Int
    BY <2>1, FieldTypes
  <2>3. CASE StartTestRequest(d)
    <3>0. 1 \in Int /\ testIdGen \in Nat /\ serverMid \in Nat /\ now \in Int /\ d.msgId \in Int
      BY <1>1, <2>2 DEF ServerTypeOK, NetTypeOK
    <3>1. TestConfirm(d.src, 1, testIdGen, d.msgId, serverMid, now) \in Datagram
      <4>1. TestConfirm(d.src, 1, testIdGen, d.msgId, serverMid, now) \in ToClient
        BY <2>2, <3>0, ConstructorTypes
      <4> QED
        BY <4>1 DEF Datagram
    <3>2. NetTypeOK'
      BY <1>1, <2>3, <3>1, ExchangeTypes DEF StartTestRequest
    <3>3. ToTestId(testIdGen) \in Nat /\ NewLocals(d.w19) \in Locals
      BY <1>1, <2>2, StoredNumbers DEF ServerTypeOK, NewLocals, Locals
    <3> QED
      BY <1>1, <2>2, <2>3, <3>2, <3>3 DEF StartTestRequest, ServerTypeOK
  <2>4. CASE StartRttTestMsg(d)
    BY <1>1, <1>3, <2>1, <2>4, EchoType, ExchangeTypes DEF StartRttTestMsg, Datagram
  <2>5. CASE StartUnknown(d) \/ BandwidthUnexpected(d)
    BY <1>1, <1>3, <2>5, ExchangeTypes DEF StartUnknown, BandwidthUnexpected
  <2>6. CASE BandwidthTimeout(d)
    BY <1>4a, <1>1, <2>6, ExchangeTypes DEF BandwidthTimeout
  <2>7. CASE BandwidthCount(d)
    <3>1. now - d.timestamp \in Int /\ bt \in Locals /\ now \in Int
      BY <1>1, <2>2 DEF NetTypeOK, ServerTypeOK
    <3>2. \A a, s, i, j \in Int, n \in Nat :
            [bt EXCEPT !.lastArrivalTimeMs = a, !.startTimeMs = s, !.minDelay = i,
                       !.maxDelay = j, !.pktCount = n] \in Locals
      BY <3>1 DEF Locals
    <3> DEFINE delay == now - d.timestamp
               start == IF bt.startTimeMs < 0 THEN now ELSE bt.startTimeMs
               low == IF delay < bt.minDelay THEN delay ELSE bt.minDelay
               high == IF delay > bt.maxDelay THEN delay ELSE bt.maxDelay
               count == bt.pktCount + 1
    <3>3. bt' = [bt EXCEPT !.lastArrivalTimeMs = now, !.startTimeMs = start, !.minDelay = low,
                           !.maxDelay = high, !.pktCount = count]
      BY <2>7 DEF BandwidthCount
    <3>4. start \in Int /\ low \in Int /\ high \in Int /\ count \in Nat
      BY <3>1 DEF Locals
    <3>5. bt' \in Locals
      <4> HIDE DEF start, low, high, count
      <4> QED
        BY <3>1, <3>2, <3>3, <3>4
    <3> QED
      BY <1>1, <2>7, <3>5, ExchangeTypes DEF BandwidthCount, ServerTypeOK
  <2>8. CASE BandwidthEnd(d)
    <3>1. /\ bt.maxDelay - bt.minDelay \in Int /\ bt.pktCount \in Int
          /\ serverMid \in Nat /\ now \in Int
      BY <1>1 DEF ServerTypeOK, NetTypeOK, Locals
    <3>2. BandwidthReport(d.src, bt.maxDelay - bt.minDelay, bt.pktCount, d.testId,
                          serverMid, now) \in Datagram
      <4>1. BandwidthReport(d.src, bt.maxDelay - bt.minDelay, bt.pktCount, d.testId,
                            serverMid, now) \in ToClient
        BY <2>2, <3>1, ConstructorTypes
      <4> QED
        BY <4>1 DEF Datagram
    <3>3. NetTypeOK'
      BY <1>1, <2>8, <3>2, ExchangeTypes DEF BandwidthEnd
    <3> QED
      BY <1>1, <1>4, <2>2, <2>8, <3>3 DEF BandwidthEnd, ServerTypeOK
  <2>9. CASE BandwidthTrap(d)
    BY <1>1, <2>9, ExchangeTypes DEF BandwidthTrap, ServerTypeOK
  <2> QED
    BY <1>5, <2>3, <2>4, <2>5, <2>6, <2>7, <2>8, <2>9
<1>6. ASSUME ServerReceiveFails PROVE NetTypeOK' /\ ServerTypeOK'
  <2>1. NetTypeOK'
    BY <1>1, <1>6 DEF ServerReceiveFails, ReceiveFails, NetTypeOK
  <2> QED
    BY <1>4a, <1>1, <1>6, <2>1 DEF ServerReceiveFails, ServerTypeOK
<1> QED
  BY <1>2, <1>5, <1>6 DEF ServerStep, ServerReceives

LEMMA ClientTypes ==
  ASSUME TypeOK, NEW c \in Clients, ClientStep(c)
  PROVE  TypeOK'
<1> USE DEF TypeOK
<1>1. NetTypeOK /\ ServerTypeOK /\ ClientTypeOK
  OBVIOUS
<1>2. ServerTypeOK'
  BY DEF ClientStep, serverVars, ServerTypeOK
<1>3. UNCHANGED netVars => NetTypeOK'
  BY <1>1 DEF netVars, NetTypeOK
<1>4. /\ nextMid[c] \in Nat /\ testId[c] \in Nat /\ totalPkt[c] \in Nat
      /\ now \in Nat /\ ClientClock \in Int /\ rtt \in Int /\ bandwidth \in Int
  BY <1>1 DEF NetTypeOK, ClientTypeOK, ClientClock, rtt, bandwidth
<1>5. genMid(c) => nextMid' \in [Clients -> Nat]
  BY <1>1 DEF genMid, ClientTypeOK
<1>6. \A pc \in ClientPc : Goto(c, pc) => cPc' \in [Clients -> ClientPc]
  BY <1>1 DEF Goto, ClientTypeOK
<1>7. CASE SendRequest(c)
  <2>1. NetTypeOK'
    <3> DEFINE type == IF c \in RttClients THEN rtt ELSE bandwidth
               time == IF c \in RttClients THEN 0 ELSE TestSeconds
    <3>1. type \in Int /\ time \in Int
      BY <1>4
    <3> HIDE DEF type, time
    <3>2. TestRequest(c, type, time, nextMid[c], ClientClock) \in Datagram
      BY <1>4, <3>1, ConstructorTypes DEF Datagram
    <3> QED
      BY <1>1, <1>7, <3>2, SendTypes DEF SendRequest, type, time
  <2> QED
    BY <1>1, <1>2, <1>5, <1>6, <1>7, <2>1 DEF SendRequest, ClientTypeOK, ClientPc
<1>8. ASSUME NEW d \in Deliverable(c),
             ReceiveConfirm(c, d) \/ ReceiveRtt(c, d) \/ ReceiveReport(c, d)
      PROVE  TypeOK'
  <2>1. d \in ToClient /\ d \in Datagram
    BY <1>1, ClientDelivery DEF Datagram
  <2>2. d.testId \in Nat /\ d.w19 \in Int
    BY <2>1, FieldTypes
  <2>3. NetTypeOK'
    BY <1>1, <1>8, ExchangeTypes DEF ReceiveConfirm, ReceiveRtt, ReceiveReport
  <2>4. CASE ReceiveConfirm(c, d)
    BY <1>1, <1>2, <1>4, <1>5, <1>6, <2>2, <2>3, <2>4
    DEF ReceiveConfirm, ClientTypeOK, ClientPc
  <2>5. CASE ReceiveRtt(c, d)
    BY <1>1, <1>2, <1>6, <2>3, <2>5 DEF ReceiveRtt, ClientTypeOK, ClientPc
  <2>6. CASE ReceiveReport(c, d)
    BY <1>1, <1>2, <1>4, <1>6, <2>2, <2>3, <2>6 DEF ReceiveReport, ClientTypeOK, ClientPc
  <2> QED
    BY <1>8, <2>4, <2>5, <2>6
<1>9. CASE SendRtt(c)
  <2>1. RttTestMsg(c, testId[c], nextMid[c], ClientClock) \in Datagram
    BY <1>4, ConstructorTypes DEF Datagram
  <2>2. NetTypeOK'
    BY <1>1, <1>9, <2>1, SendTypes DEF SendRtt
  <2> QED
    BY <1>1, <1>2, <1>5, <1>6, <1>9, <2>2 DEF SendRtt, ClientTypeOK, ClientPc
<1>10. CASE EndRtt(c)
  BY <1>1, <1>2, <1>3, <1>6, <1>10 DEF EndRtt, ClientTypeOK, ClientPc
<1>11. CASE StartGroup(c)
  BY <1>1, <1>2, <1>3, <1>11 DEF StartGroup, ClientTypeOK
<1>12. CASE SendPacket(c)
  <2>1. BandwidthTestMsg(c, testId[c], totalPkt[c], nextMid[c], ClientClock) \in Datagram
    BY <1>4, ConstructorTypes DEF Datagram
  <2>2. NetTypeOK'
    BY <1>1, <1>12, <2>1, SendTypes DEF SendPacket
  <2> QED
    BY <1>1, <1>2, <1>5, <1>12, <2>2 DEF SendPacket, ClientTypeOK
<1>13. CASE SendFinish(c)
  <2>1. BandwidthFinish(c, testId[c], totalPkt[c], nextMid[c], ClientClock) \in Datagram
    BY <1>4, ConstructorTypes DEF Datagram
  <2>2. NetTypeOK'
    BY <1>1, <1>13, <2>1, SendTypes DEF SendFinish
  <2> QED
    BY <1>1, <1>2, <1>5, <1>6, <1>13, <2>2 DEF SendFinish, ClientTypeOK, ClientPc
<1>14. CASE ClientReceiveFails(c)
  <2>1. NetTypeOK'
    BY <1>1, <1>14 DEF ClientReceiveFails, ReceiveFails, NetTypeOK
  <2> QED
    BY <1>1, <1>2, <1>6, <1>14, <2>1 DEF ClientReceiveFails, ClientTypeOK, ClientPc
<1> QED
  BY <1>7, <1>8, <1>9, <1>10, <1>11, <1>12, <1>13, <1>14
  DEF ClientStep, ClientProceeds, ClientReceives

LEMMA TypeOKStep == TypeOK /\ [Next]_vars => TypeOK'
<1> SUFFICES ASSUME TypeOK, [Next]_vars PROVE TypeOK'
  OBVIOUS
<1>1. CASE ServerStep
  BY <1>1, ServerTypes
<1>2. CASE \E c \in Clients : ClientStep(c)
  BY <1>2, ClientTypes
<1>3. CASE NetworkLoses
  BY <1>3 DEF NetworkLoses, Lose, TypeOK, NetTypeOK, ServerTypeOK, ClientTypeOK,
              serverVars, clientVars
<1>4. CASE Tick
  BY <1>4 DEF Tick, TypeOK, NetTypeOK, ServerTypeOK, ClientTypeOK, serverVars, clientVars
<1>5. CASE UNCHANGED vars
  BY <1>5 DEF vars, netVars, serverVars, clientVars, TypeOK, NetTypeOK, ServerTypeOK,
              ClientTypeOK
<1> QED
  BY <1>1, <1>2, <1>3, <1>4, <1>5 DEF Next

\* Type correctness: whatever is lost, duplicated, reordered or fails, every
\* variable, every datagram in flight included, has its type.
THEOREM TypeCorrect == Spec => []TypeOK
<1>1. Init => TypeOK
  BY TypeOKInit
<1>2. TypeOK /\ [Next]_vars => TypeOK'
  BY TypeOKStep
<1> QED
  BY <1>1, <1>2, PTL DEF Spec

-----------------------------------------------------------------------------
(* The inductive invariant.  TestIsolation speaks of the ids issued, of the *)
(* datagrams and of the server; that it is preserved also needs that the    *)
(* generator is past every id issued, and that a client which has got its   *)
(* confirmation sends under an id of its own.                               *)

IdsBelow == \A t \in issued : t[1] < testIdGen

IdsUnique == \A s, t \in issued : s[1] = t[1] => s = t

Owned(d) == d.msgType # "testRequest" => <<d.testId, Peer(d)>> \in issued

DatagramsOwned == \A d \in net : Owned(d)

Confirmed(c) == cPc[c] \notin {"init", "waitConfirm", "failed"}

ClientsOwn == \A c \in Clients : Confirmed(c) => <<testId[c], c>> \in issued

TestOwned == sPc = "bandwidthTest" => \E c \in Clients : <<currentTest, c>> \in issued

IdsInv == IdsBelow /\ IdsUnique /\ DatagramsOwned /\ ClientsOwn /\ TestOwned

IsolationInv == TypeOK /\ (NoWrap => IdsInv)

-----------------------------------------------------------------------------
\* Whom a datagram belongs to.
LEMMA PeerOf ==
  /\ \A d \in ToServer : Peer(d) = d.src /\ d.src \in Clients
  /\ \A d \in ToClient : Peer(d) = d.dst /\ d.dst \in Clients
BY DEF ToServer, ToClient, Peer

\* What the clients and the server send belongs to the client at the other
\* end.
LEMMA ConstructorPeers ==
  ASSUME NEW c \in Clients, NEW a, NEW b, NEW tid, NEW mid, NEW ts
  PROVE  /\ TestRequest(c, a, b, mid, ts).msgType = "testRequest"
         /\ Peer(TestConfirm(c, a, tid, b, mid, ts)) = c
         /\ TestConfirm(c, a, tid, b, mid, ts).testId = ToTestId(tid)
         /\ Peer(RttTestMsg(c, tid, mid, ts)) = c
         /\ RttTestMsg(c, tid, mid, ts).testId = tid
         /\ Peer(BandwidthTestMsg(c, tid, a, mid, ts)) = c
         /\ BandwidthTestMsg(c, tid, a, mid, ts).testId = tid
         /\ Peer(BandwidthFinish(c, tid, a, mid, ts)) = c
         /\ BandwidthFinish(c, tid, a, mid, ts).testId = tid
         /\ Peer(BandwidthReport(c, a, b, tid, mid, ts)) = c
         /\ BandwidthReport(c, a, b, tid, mid, ts).testId = tid
BY DEF Peer, TestRequest, TestConfirm, RttTestMsg, BandwidthTestMsg, BandwidthFinish,
       BandwidthReport

\* An id the generator gives before it wraps is the generator's value.
LEMMA FreshId ==
  ASSUME TypeOK, testIdGen < IdSpace
  PROVE  ToTestId(testIdGen) = testIdGen
<1>1. testIdGen \in Nat /\ IdSpace \in Nat \ {0}
  BY DEF TypeOK, ServerTypeOK
<1> QED
  BY <1>1 DEF ToTestId

\* A step that issues no id and begins no test preserves the invariant when
\* what it sends is owned and its client keeps an id of its own.
LEMMA QuietStep ==
  ASSUME IdsInv, NEW sent,
         net' \subseteq net \cup sent,
         \A d \in sent : Owned(d),
         issued' = issued, testIdGen' = testIdGen,
         sPc' = "bandwidthTest" => sPc = "bandwidthTest" /\ currentTest' = currentTest,
         ClientsOwn'
  PROVE  IdsInv'
<1>1. IdsBelow' /\ IdsUnique'
  BY DEF IdsInv, IdsBelow, IdsUnique
<1>2. DatagramsOwned'
  BY DEF IdsInv, DatagramsOwned, Owned, Peer
<1>3. TestOwned'
  BY DEF IdsInv, TestOwned
<1> QED
  BY <1>1, <1>2, <1>3 DEF IdsInv

LEMMA IsolationInit == Init => IsolationInv
<1> SUFFICES ASSUME Init PROVE IsolationInv
  OBVIOUS
<1>1. issued = {} /\ net = {} /\ sPc = "start" /\ \A c \in Clients : cPc[c] = "init"
  BY DEF Init, NetInit, ServerInit, ClientInit
<1>2. IdsInv
  BY <1>1 DEF IdsInv, IdsBelow, IdsUnique, DatagramsOwned, ClientsOwn, Confirmed, TestOwned
<1> QED
  BY <1>2, TypeOKInit DEF IsolationInv

LEMMA ServerIsolates ==
  ASSUME TypeOK, IdsInv, ServerStep, NoWrap'
  PROVE  IdsInv'
<1>1. UNCHANGED <<cPc, testId>> /\ NetTypeOK
  BY DEF ServerStep, clientVars, TypeOK
<1>2. issued' = issued => ClientsOwn'
  BY <1>1 DEF IdsInv, ClientsOwn, Confirmed
<1>3. ASSUME NEW d \in Deliverable(ServerAddr), StartTestRequest(d)
      PROVE  IdsInv'
  <2> DEFINE tid == ToTestId(testIdGen)
             confirm == TestConfirm(d.src, 1, testIdGen, d.msgId, serverMid, now)
  <2>1. d \in ToServer /\ d.src \in Clients
    BY <1>1, ServerDelivery, PeerOf
  <2>2. testIdGen' = testIdGen + 1 /\ testIdGen \in Nat /\ IdSpace \in Nat
    BY <1>3 DEF StartTestRequest, TypeOK, ServerTypeOK
  <2>3. testIdGen < IdSpace
    BY <2>2 DEF NoWrap
  <2>4. tid = testIdGen
    BY <2>3, FreshId
  <2>5. issued' = issued \cup {<<testIdGen, d.src>>}
    BY <1>3, <2>4 DEF StartTestRequest
  <2>6. issued \subseteq Nat \X Clients
    BY DEF TypeOK, ServerTypeOK
  <2>7. IdsBelow'
    BY <2>2, <2>5, <2>6 DEF IdsInv, IdsBelow
  <2>8. IdsUnique'
    BY <2>2, <2>5, <2>6 DEF IdsInv, IdsBelow, IdsUnique
  <2>9. DatagramsOwned'
    <3>1. net' \subseteq net \cup {confirm}
      BY <1>3, ExchangeBounds DEF StartTestRequest
    <3>2. confirm.testId = testIdGen /\ Peer(confirm) = d.src
      BY <2>1, <2>4, ConstructorPeers
    <3> HIDE DEF confirm
    <3>3. \A e \in net' : e.msgType # "testRequest" => <<e.testId, Peer(e)>> \in issued'
      BY <2>5, <3>1, <3>2 DEF IdsInv, DatagramsOwned, Owned
    <3> QED
      BY <3>3 DEF DatagramsOwned, Owned, Peer
  <2>10. ClientsOwn'
    BY <1>1, <2>5 DEF IdsInv, ClientsOwn, Confirmed
  <2>11. TestOwned'
    BY <1>3, <2>1, <2>4, <2>5 DEF StartTestRequest, TestOwned
  <2> QED
    BY <2>7, <2>8, <2>9, <2>10, <2>11 DEF IdsInv
<1>4. ASSUME NEW d \in Deliverable(ServerAddr), StartRttTestMsg(d)
      PROVE  IdsInv'
  <2>1. d \in net /\ d \in ToServer /\ d.msgType = "rttTestMsg"
    BY <1>1, <1>4, ServerDelivery DEF StartRttTestMsg
  <2>2. Owned(Echo(d))
    BY <2>1, EchoType, PeerOf DEF IdsInv, DatagramsOwned, Owned
  <2> QED
    BY <1>2, <1>4, <2>2, QuietStep, ExchangeBounds DEF StartRttTestMsg, serverVars
<1>5. ASSUME NEW d \in Deliverable(ServerAddr), BandwidthEnd(d)
      PROVE  IdsInv'
  <2> DEFINE report == BandwidthReport(d.src, bt.maxDelay - bt.minDelay, bt.pktCount,
                                       d.testId, serverMid, now)
  <2>1. d \in net /\ d \in ToServer /\ d.msgType = "bandwidthFinish"
    BY <1>1, <1>5, ServerDelivery DEF BandwidthEnd, OfCurrentTest
  <2>2. report.testId = d.testId /\ Peer(report) = d.src /\ Peer(d) = d.src
    BY <2>1, ConstructorPeers, PeerOf
  <2> HIDE DEF report
  <2>3. Owned(report)
    BY <2>1, <2>2 DEF IdsInv, DatagramsOwned, Owned
  <2>4. Exchange(d, {report})
    BY <1>5 DEF BandwidthEnd, report
  <2>5. net' \subseteq net \cup {report}
    BY <2>4, ExchangeBounds
  <2>6. issued' = issued /\ testIdGen' = testIdGen /\ sPc' = "start"
    BY <1>5 DEF BandwidthEnd, AbandonTest, LeaveBandwidthTest
  <2> QED
    BY <1>2, <2>3, <2>5, <2>6, QuietStep
<1>6. ASSUME NEW d \in Deliverable(ServerAddr),
             \/ StartUnknown(d) \/ BandwidthTimeout(d) \/ BandwidthCount(d)
             \/ BandwidthTrap(d) \/ BandwidthUnexpected(d)
      PROVE  IdsInv'
  <2>1. Exchange(d, {}) /\ issued' = issued /\ testIdGen' = testIdGen
    BY <1>6 DEF StartUnknown, BandwidthTimeout, BandwidthCount, BandwidthTrap,
                BandwidthUnexpected, AbandonTest, LeaveBandwidthTest, serverVars
  <2>2. sPc' = "bandwidthTest" => sPc = "bandwidthTest" /\ currentTest' = currentTest
    BY <1>6 DEF StartUnknown, BandwidthTimeout, BandwidthCount, BandwidthTrap,
                BandwidthUnexpected, AbandonTest, LeaveBandwidthTest, serverVars
  <2> QED
    BY <1>2, <2>1, <2>2, QuietStep, ExchangeBounds
<1>7. ASSUME ServerReceiveFails PROVE IdsInv'
  <2>1. net' = net /\ issued' = issued /\ testIdGen' = testIdGen
    BY <1>7 DEF ServerReceiveFails, ReceiveFails, AbandonTest, LeaveBandwidthTest
  <2>2. sPc' # "bandwidthTest"
    BY <1>7 DEF ServerReceiveFails, AbandonTest, LeaveBandwidthTest
  <2> QED
    BY <1>2, <2>1, <2>2, QuietStep
<1> QED
  BY <1>3, <1>4, <1>5, <1>6, <1>7 DEF ServerStep, ServerReceives

LEMMA ClientIsolates ==
  ASSUME TypeOK, IdsInv, NEW c \in Clients, ClientStep(c)
  PROVE  IdsInv'
<1>1. /\ issued' = issued /\ testIdGen' = testIdGen
      /\ sPc' = sPc /\ currentTest' = currentTest
  BY DEF ClientStep, serverVars
<1>2. NetTypeOK /\ cPc \in [Clients -> ClientPc] /\ testId \in [Clients -> Nat]
  BY DEF TypeOK, ClientTypeOK
<1>3. ASSUME testId' = testId, Confirmed(c)' => Confirmed(c),
             \A e \in Clients \ {c} : cPc'[e] = cPc[e]
      PROVE  ClientsOwn'
  BY <1>1, <1>3 DEF IdsInv, ClientsOwn, Confirmed
<1>4. ASSUME NEW pc, Goto(c, pc)
      PROVE  cPc'[c] = pc /\ \A e \in Clients \ {c} : cPc'[e] = cPc[e]
  BY <1>2, <1>4 DEF Goto
<1>5. CASE SendRequest(c)
  <2>1. ClientsOwn'
    BY <1>3, <1>4, <1>5 DEF SendRequest, Confirmed
  <2> DEFINE request == TestRequest(c, IF c \in RttClients THEN rtt ELSE bandwidth,
                                    IF c \in RttClients THEN 0 ELSE TestSeconds,
                                    nextMid[c], ClientClock)
  <2>2. net' \subseteq net \cup {request}
    BY <1>5 DEF SendRequest, Send
  <2>3. Owned(request)
    BY ConstructorPeers DEF Owned
  <2> HIDE DEF request
  <2> QED
    BY <1>1, <2>1, <2>2, <2>3, QuietStep
<1>6. ASSUME NEW d \in Deliverable(c), ReceiveConfirm(c, d)
      PROVE  IdsInv'
  <2>1. d \in net /\ d \in ToClient /\ d.dst = c /\ d.msgType # "testRequest"
    BY <1>2, ClientDelivery DEF ToClient
  <2>2. <<d.testId, c>> \in issued
    BY <2>1, PeerOf DEF IdsInv, DatagramsOwned, Owned
  <2>3. testId' = [testId EXCEPT ![c] = d.testId] /\ \A e \in Clients \ {c} : cPc'[e] = cPc[e]
    BY <1>4, <1>6 DEF ReceiveConfirm
  <2>4. ClientsOwn'
    BY <1>1, <1>2, <2>2, <2>3 DEF IdsInv, ClientsOwn, Confirmed
  <2>5. net' \subseteq net \cup {}
    BY <1>6, ExchangeBounds DEF ReceiveConfirm
  <2> QED
    BY <1>1, <2>4, <2>5, QuietStep
<1>7. ASSUME NEW d \in Deliverable(c), ReceiveRtt(c, d) \/ ReceiveReport(c, d)
      PROVE  IdsInv'
  <2>1. ClientsOwn'
    BY <1>3, <1>4, <1>7 DEF ReceiveRtt, ReceiveReport, Confirmed
  <2>2. net' \subseteq net \cup {}
    BY <1>7, ExchangeBounds DEF ReceiveRtt, ReceiveReport
  <2> QED
    BY <1>1, <2>1, <2>2, QuietStep
<1>8. ASSUME NEW d, Send(d), Confirmed(c), d.testId = testId[c], Peer(d) = c, ClientsOwn'
      PROVE  IdsInv'
  <2>1. Owned(d)
    BY <1>8 DEF IdsInv, ClientsOwn, Owned
  <2>2. net' \subseteq net \cup {d}
    BY <1>8 DEF Send
  <2> QED
    BY <1>1, <1>8, <2>1, <2>2, QuietStep
<1>9. CASE SendRtt(c)
  <2>1. ClientsOwn' /\ Confirmed(c)
    BY <1>3, <1>4, <1>9 DEF SendRtt, Confirmed
  <2> QED
    BY <1>8, <1>9, <2>1, ConstructorPeers DEF SendRtt
<1>10. CASE SendPacket(c)
  <2>1. ClientsOwn' /\ Confirmed(c)
    BY <1>3, <1>10 DEF SendPacket, Confirmed
  <2> QED
    BY <1>8, <1>10, <2>1, ConstructorPeers DEF SendPacket
<1>11. CASE SendFinish(c)
  <2>1. ClientsOwn' /\ Confirmed(c)
    BY <1>3, <1>4, <1>11 DEF SendFinish, Confirmed
  <2> QED
    BY <1>8, <1>11, <2>1, ConstructorPeers DEF SendFinish
<1>12. CASE EndRtt(c) \/ StartGroup(c) \/ ClientReceiveFails(c)
  <2>1. ClientsOwn'
    BY <1>3, <1>4, <1>12 DEF EndRtt, StartGroup, ClientReceiveFails, Confirmed
  <2>2. net' = net
    BY <1>12 DEF EndRtt, StartGroup, ClientReceiveFails, ReceiveFails, netVars
  <2> QED
    BY <1>1, <2>1, <2>2, QuietStep
<1> QED
  BY <1>5, <1>6, <1>7, <1>9, <1>10, <1>11, <1>12
  DEF ClientStep, ClientProceeds, ClientReceives

\* The generator only grows: ids that have not wrapped after a step had not
\* wrapped before it.
LEMMA NoWrapBefore ==
  ASSUME TypeOK, [Next]_vars, NoWrap'
  PROVE  NoWrap
<1>1. testIdGen \in Nat /\ IdSpace \in Nat
  BY DEF TypeOK, ServerTypeOK
<1> SUFFICES testIdGen' \in {testIdGen, testIdGen + 1}
  BY <1>1 DEF NoWrap
<1>2. CASE ServerStep
  <2>1. CASE ServerReceiveFails
    BY <2>1 DEF ServerReceiveFails, AbandonTest, LeaveBandwidthTest
  <2>2. CASE \E d \in Deliverable(ServerAddr) : StartTestRequest(d)
    BY <2>2 DEF StartTestRequest
  <2>3. CASE \E d \in Deliverable(ServerAddr) :
               \/ StartRttTestMsg(d) \/ StartUnknown(d) \/ BandwidthTimeout(d)
               \/ BandwidthCount(d) \/ BandwidthEnd(d) \/ BandwidthTrap(d)
               \/ BandwidthUnexpected(d)
    BY <2>3 DEF StartRttTestMsg, StartUnknown, BandwidthTimeout, BandwidthCount,
        BandwidthEnd, BandwidthTrap, BandwidthUnexpected, AbandonTest, LeaveBandwidthTest, serverVars
  <2> QED
    BY <1>2, <2>1, <2>2, <2>3 DEF ServerStep, ServerReceives
<1>3. CASE \E c \in Clients : ClientStep(c)
  BY <1>3 DEF ClientStep, serverVars
<1>4. CASE NetworkLoses \/ Tick \/ UNCHANGED vars
  BY <1>4 DEF NetworkLoses, Tick, vars, serverVars
<1> QED
  BY <1>2, <1>3, <1>4 DEF Next

LEMMA IsolationStep == IsolationInv /\ [Next]_vars => IsolationInv'
<1> SUFFICES ASSUME IsolationInv, [Next]_vars, NoWrap' PROVE IdsInv'
  BY TypeOKStep DEF IsolationInv
<1>1. TypeOK
  BY DEF IsolationInv
<1>2. IdsInv
  BY <1>1, NoWrapBefore DEF IsolationInv
<1>3. CASE ServerStep
  BY <1>1, <1>2, <1>3, ServerIsolates
<1>4. CASE \E c \in Clients : ClientStep(c)
  BY <1>1, <1>2, <1>4, ClientIsolates
<1>5. CASE NetworkLoses \/ Tick \/ UNCHANGED vars
  <2>1. net' \subseteq net \cup {} /\ UNCHANGED <<serverVars, clientVars>>
    BY <1>5 DEF NetworkLoses, Lose, Tick, vars, netVars
  <2>2. ClientsOwn'
    BY <1>2, <2>1 DEF IdsInv, ClientsOwn, Confirmed, clientVars, serverVars
  <2> QED
    BY <1>2, <2>1, <2>2, QuietStep DEF serverVars
<1> QED
  BY <1>3, <1>4, <1>5 DEF Next

LEMMA InvIsolates == IsolationInv => TestIsolation
BY DEF IsolationInv, IdsInv, IdsUnique, DatagramsOwned, Owned, TestOwned, TestIsolation,
       IsTester

\* Test isolation: for any number of clients and whatever the network loses,
\* duplicates and reorders, as long as ids do not wrap an id belongs to one
\* client and everything that travels under it is between the server and
\* that client.
THEOREM Isolation == Spec => []TestIsolation
<1>1. Init => IsolationInv
  BY IsolationInit
<1>2. IsolationInv /\ [Next]_vars => IsolationInv'
  BY IsolationStep
<1>3. IsolationInv => TestIsolation
  BY InvIsolates
<1> QED
  BY <1>1, <1>2, <1>3, PTL DEF Spec

-----------------------------------------------------------------------------
(* The inductive invariant, on top of isolation: no id that is still to be *)
(* issued was reported, nor was the id of the running test.                *)

ReportsBelow == \A t \in reported : t[1] < testIdGen

RunningUnreported == sPc = "bandwidthTest" => \A t \in reported : t[1] # currentTest

ReportInv == ReportsBelow /\ RunningUnreported

ServiceInv == IsolationInv /\ (NoWrap => ReportInv)

-----------------------------------------------------------------------------
\* The abstract state of a server that is not in a test.
LEMMA IdleRunsNothing ==
  /\ sPc # "bandwidthTest" => running = {}
  /\ sPc' # "bandwidthTest" => running' = {}
BY DEF running

\* In a test the abstract state is the one test issued under currentTest.
LEMMA TestRuns ==
  ASSUME TypeOK, IdsInv, sPc = "bandwidthTest",
         NEW c \in Clients, <<currentTest, c>> \in issued
  PROVE  running = {<<currentTest, c>>}
BY DEF running, IdsInv, IdsUnique

\* The server accepts a request: a step Accept.
LEMMA RequestRefines ==
  ASSUME TypeOK, IdsInv, ReportInv, NoWrap', NEW d \in Deliverable(ServerAddr),
         StartTestRequest(d)
  PROVE  Service!Next /\ ReportInv'
<1>1. d \in ToServer /\ d.src \in Clients
  BY ServerDelivery, PeerOf DEF TypeOK
<1>2. testIdGen' = testIdGen + 1 /\ testIdGen \in Nat /\ IdSpace \in Nat
  BY DEF StartTestRequest, TypeOK, ServerTypeOK
<1>3. testIdGen < IdSpace /\ ToTestId(testIdGen) = testIdGen
  BY <1>2, FreshId DEF NoWrap
<1>4. /\ issued' = issued \cup {<<testIdGen, d.src>>} /\ reported' = reported
      /\ sPc = "start"
      /\ \/ sPc' = "bandwidthTest" /\ currentTest' = testIdGen
         \/ sPc' = "start"
  BY <1>3 DEF StartTestRequest
<1>5. issued \subseteq Nat \X Clients /\ reported \subseteq Nat \X Clients
  BY DEF TypeOK, ServerTypeOK
<1>6. running = {}
  BY <1>4, IdleRunsNothing
<1>7. \A t \in issued : t[1] # testIdGen
  BY <1>2, <1>5 DEF IdsInv, IdsBelow
<1>8. running' \in {{}, {<<testIdGen, d.src>>}}
  <2>1. CASE sPc' = "bandwidthTest"
    BY <1>4, <1>7, <2>1 DEF running
  <2>2. CASE sPc' = "start"
    BY <2>2, IdleRunsNothing
  <2> QED
    BY <1>4, <2>1, <2>2
<1>9. Service!Accept(testIdGen, d.src)
  BY <1>4, <1>6, <1>7, <1>8 DEF Service!Accept, Service!Ids
<1>10. testIdGen \in 0 .. IdSpace - 1
  BY <1>2, <1>3
<1>11. ReportInv'
  BY <1>2, <1>4, <1>5 DEF ReportInv, ReportsBelow, RunningUnreported
<1> QED
  BY <1>1, <1>9, <1>10, <1>11 DEF Service!Next

\* The server leaves a test, with or without a report: a step End.
LEMMA LeavingRefines ==
  ASSUME TypeOK, IdsInv, ReportInv, sPc = "bandwidthTest", sPc' # "bandwidthTest",
         issued' = issued, testIdGen' = testIdGen,
         NEW c \in Clients, <<currentTest, c>> \in issued,
         reported' \in {reported, reported \cup {<<currentTest, c>>}}
  PROVE  Service!Next /\ ReportInv'
<1>1. running = {<<currentTest, c>>} /\ running' = {}
  BY TestRuns, IdleRunsNothing
<1>2. <<currentTest, c>> \notin reported
  BY DEF ReportInv, RunningUnreported
<1>3. Service!End(<<currentTest, c>>)
  BY <1>1, <1>2 DEF Service!End
<1>4. ReportInv'
  BY DEF ReportInv, ReportsBelow, RunningUnreported, IdsInv, IdsBelow
<1> QED
  BY <1>3, <1>4 DEF Service!Next

\* Any other step: a stutter.
LEMMA StutterRefines ==
  ASSUME ReportInv, UNCHANGED <<issued, reported, testIdGen>>,
         \/ UNCHANGED <<sPc, currentTest>>
         \/ sPc # "bandwidthTest" /\ sPc' # "bandwidthTest"
  PROVE  UNCHANGED Service!serviceVars /\ ReportInv'
<1>1. running' = running
  BY IdleRunsNothing DEF running
<1> QED
  BY <1>1 DEF Service!serviceVars, ReportInv, ReportsBelow, RunningUnreported

LEMMA ServerRefines ==
  ASSUME TypeOK, IdsInv, ReportInv, NoWrap', ServerStep
  PROVE  [Service!Next]_Service!serviceVars /\ ReportInv'
<1>1. ASSUME NEW d \in Deliverable(ServerAddr), BandwidthEnd(d)
      PROVE  Service!Next /\ ReportInv'
  <2>1. d \in net /\ d \in ToServer /\ d.src \in Clients
    BY ServerDelivery, PeerOf DEF TypeOK
  <2>2. /\ sPc = "bandwidthTest" /\ sPc' = "start" /\ d.msgType = "bandwidthFinish"
        /\ d.testId = currentTest /\ issued' = issued /\ testIdGen' = testIdGen
        /\ reported' = reported \cup {<<d.testId, d.src>>}
    BY <1>1 DEF BandwidthEnd, OfCurrentTest, LeaveBandwidthTest
  <2>3. <<currentTest, d.src>> \in issued
    BY <2>1, <2>2, PeerOf DEF IdsInv, DatagramsOwned, Owned
  <2> QED
    BY <2>1, <2>2, <2>3, LeavingRefines
<1>2. ASSUME sPc = "bandwidthTest", sPc' # "bandwidthTest",
             UNCHANGED <<issued, testIdGen, reported>>
      PROVE  Service!Next /\ ReportInv'
  <2>1. PICK c \in Clients : <<currentTest, c>> \in issued
    BY <1>2 DEF IdsInv, TestOwned
  <2> QED
    BY <1>2, <2>1, LeavingRefines
<1>3. ASSUME NEW d \in Deliverable(ServerAddr), BandwidthTimeout(d) \/ BandwidthTrap(d)
      PROVE  Service!Next /\ ReportInv'
  BY <1>2, <1>3 DEF BandwidthTimeout, BandwidthTrap, AbandonTest, LeaveBandwidthTest
<1>4. ASSUME ServerReceiveFails
      PROVE  [Service!Next]_Service!serviceVars /\ ReportInv'
  <2>1. UNCHANGED <<issued, testIdGen, reported>> /\ sPc' # "bandwidthTest"
    BY <1>4 DEF ServerReceiveFails, AbandonTest, LeaveBandwidthTest
  <2> QED
    BY <1>2, <2>1, StutterRefines
<1>5. ASSUME NEW d \in Deliverable(ServerAddr),
             \/ StartRttTestMsg(d) \/ StartUnknown(d) \/ BandwidthCount(d)
             \/ BandwidthUnexpected(d)
      PROVE  UNCHANGED Service!serviceVars /\ ReportInv'
  BY <1>5, StutterRefines
  DEF StartRttTestMsg, StartUnknown, BandwidthCount, BandwidthUnexpected, serverVars
<1> QED
  BY <1>1, <1>3, <1>4, <1>5, RequestRefines DEF ServerStep, ServerReceives

LEMMA ServiceInit == Init => ServiceInv /\ Service!Init
<1> SUFFICES ASSUME Init PROVE ServiceInv /\ Service!Init
  OBVIOUS
<1>1. issued = {} /\ reported = {} /\ sPc = "start"
  BY DEF Init, ServerInit
<1> QED
  BY <1>1, IsolationInit, IdleRunsNothing
  DEF ServiceInv, ReportInv, ReportsBelow, RunningUnreported, Service!Init

LEMMA ServiceStep ==
  ASSUME ServiceInv, [Next]_vars, NoWrap'
  PROVE  [Service!Next]_Service!serviceVars /\ ReportInv'
<1>1. TypeOK /\ IdsInv /\ ReportInv
  BY NoWrapBefore DEF ServiceInv, IsolationInv
<1>2. CASE ServerStep
  BY <1>1, <1>2, ServerRefines
<1>3. CASE \/ \E c \in Clients : ClientStep(c)
           \/ NetworkLoses \/ Tick \/ UNCHANGED vars
  <2>1. UNCHANGED serverVars
    BY <1>3 DEF ClientStep, NetworkLoses, Tick, vars
  <2> QED
    BY <1>1, <2>1, StutterRefines DEF serverVars
<1> QED
  BY <1>2, <1>3 DEF Next

LEMMA ServiceInvStep == ServiceInv /\ [Next]_vars => ServiceInv'
BY ServiceStep, IsolationStep DEF ServiceInv

\* The server keeps the promises of TestService in every behaviour in which
\* ids do not wrap: fresh ids, one bandwidth test at a time, nothing accepted
\* meanwhile, each test reported at most once and to its own client.
THEOREM Refinement == Spec /\ []NoWrap => ImplementsTestService
<1>1. Init => ServiceInv /\ Service!Init
  BY ServiceInit
<1>2. ServiceInv /\ [Next]_vars => ServiceInv'
  BY ServiceInvStep
<1>3. ServiceInv /\ [Next]_vars /\ NoWrap' => [Service!Next]_Service!serviceVars
  BY ServiceStep
<1> QED
  BY <1>1, <1>2, <1>3, PTL DEF Spec, ImplementsTestService, Service!Spec

-----------------------------------------------------------------------------
(* The round trips, for every number of clients and of rounds, whatever is  *)
(* lost, reordered or fails, on a network that duplicates nothing: the      *)
(* inductive invariant.  RttReplyMatches speaks of a client that waits for  *)
(* an echo; that nothing older can reach it is because a client and the     *)
(* server never have more than one datagram in flight between them, and     *)
(* none while the client is not waiting.                                    *)

\* Where the thread of an RTT client can be.
RttPlaces == \A c \in RttClients :
  cPc[c] \in {"init", "waitConfirm", "rttLoop", "rttWait", "done", "failed"}

Between(c) == {d \in net : Peer(d) = c}

OneOutstanding == \A c \in RttClients : \A d, e \in Between(c) : d = e

NoneOutstanding ==
  \A c \in RttClients : cPc[c] \in {"init", "rttLoop", "done"} => Between(c) = {}

EchoOutstanding ==
  \A c \in RttClients : cPc[c] = "rttWait" =>
    \A d \in Between(c) : d.msgType = "rttTestMsg" /\ d.msgId = nextMid[c] - 1

RttInv == RttPlaces /\ OneOutstanding /\ NoneOutstanding /\ EchoOutstanding

-----------------------------------------------------------------------------
\* Without duplications a delivery takes its datagram out of the network.
LEMMA ExchangeOnce ==
  ASSUME MaxDup = 0, TypeOK, NEW d, NEW sent, Exchange(d, sent)
  PROVE  net' = (net \ {d}) \cup sent
<1>1. dups \in Nat /\ ~(dups < MaxDup)
  BY DEF TypeOK, NetTypeOK
<1> QED
  BY <1>1 DEF Exchange

\* An answer to d: at most one datagram, to the client d came from; the answer
\* to an echo packet is its echo.
Answers(d, sent) ==
  /\ \A e, f \in sent : e = f
  /\ \A e \in sent : /\ Peer(e) = Peer(d)
                     /\ d.msgType = "rttTestMsg" => e.msgType = "rttTestMsg" /\ e.msgId = d.msgId

\* Replacing a datagram by an answer to it preserves the invariant.
LEMMA AnswerStep ==
  ASSUME RttInv, NEW d \in net, NEW sent, Answers(d, sent),
         net' = (net \ {d}) \cup sent, UNCHANGED <<cPc, nextMid>>
  PROVE  RttInv'
<1>1. RttPlaces'
  BY DEF RttInv, RttPlaces
<1>2. ASSUME NEW c \in RttClients
      PROVE  /\ Peer(d) # c => Between(c)' = Between(c)
             /\ Peer(d) = c => Between(c)' = sent
  BY DEF RttInv, OneOutstanding, Between, Answers, Peer
<1>3. OneOutstanding'
  BY <1>2 DEF RttInv, OneOutstanding, Answers
<1>4. ASSUME NEW c \in RttClients, (cPc[c] \in {"init", "rttLoop", "done"})'
      PROVE  Between(c)' = {}
  <2>1. Between(c) = {}
    BY <1>4 DEF RttInv, NoneOutstanding
  <2> QED
    BY <1>2, <2>1 DEF Between
<1>5. ASSUME NEW c \in RttClients, (cPc[c] = "rttWait")', NEW e \in Between(c)'
      PROVE  e.msgType = "rttTestMsg" /\ e.msgId = (nextMid[c] - 1)'
  <2>1. CASE Peer(d) # c
    BY <1>2, <1>5, <2>1 DEF RttInv, EchoOutstanding
  <2>2. CASE Peer(d) = c
    <3>1. d \in Between(c) /\ e \in sent
      BY <1>2, <1>5, <2>2 DEF Between
    <3>2. d.msgType = "rttTestMsg" /\ d.msgId = nextMid[c] - 1
      BY <1>5, <3>1 DEF RttInv, EchoOutstanding
    <3> QED
      BY <3>1, <3>2 DEF Answers
  <2> QED
    BY <2>1, <2>2
<1>6. NoneOutstanding' /\ EchoOutstanding'
  BY <1>4, <1>5 DEF NoneOutstanding, EchoOutstanding
<1> QED
  BY <1>1, <1>3, <1>6 DEF RttInv

\* Taking datagrams away preserves it too.
LEMMA FewerStep ==
  ASSUME RttInv, net' \subseteq net, UNCHANGED <<cPc, nextMid>>
  PROVE  RttInv'
BY DEF RttInv, RttPlaces, OneOutstanding, NoneOutstanding, EchoOutstanding, Between, Peer

LEMMA RttInit == Init => RttInv
BY DEF Init, NetInit, ClientInit, RttInv, RttPlaces, OneOutstanding, NoneOutstanding,
       EchoOutstanding, Between, Clients

LEMMA ServerEchoes ==
  ASSUME MaxDup = 0, TypeOK, RttInv, ServerStep
  PROVE  RttInv'
<1>1. UNCHANGED <<cPc, nextMid>> /\ NetTypeOK
  BY DEF ServerStep, clientVars, TypeOK
<1>2. ASSUME NEW d \in Deliverable(ServerAddr), NEW sent, Exchange(d, sent), Answers(d, sent)
      PROVE  RttInv'
  BY <1>1, <1>2, ExchangeOnce, DeliveredFromNet, AnswerStep
<1>3. ASSUME NEW d \in Deliverable(ServerAddr), Exchange(d, {})
      PROVE  RttInv'
  BY <1>2, <1>3 DEF Answers
<1>4. ASSUME NEW d \in Deliverable(ServerAddr)
      PROVE  d \in ToServer /\ Peer(d) = d.src /\ d.src \in Clients
  BY <1>1, ServerDelivery, PeerOf
<1>5. ASSUME NEW d \in Deliverable(ServerAddr), StartTestRequest(d)
      PROVE  RttInv'
  <2> DEFINE confirm == TestConfirm(d.src, 1, testIdGen, d.msgId, serverMid, now)
  <2>1. Answers(d, {confirm})
    BY <1>4, <1>5, ConstructorPeers DEF Answers, StartTestRequest
  <2> QED
    BY <1>2, <1>5, <2>1 DEF StartTestRequest
<1>6. ASSUME NEW d \in Deliverable(ServerAddr), StartRttTestMsg(d)
      PROVE  RttInv'
  <2>1. Peer(Echo(d)) = Peer(d)
    BY <1>4, <1>6, EchoType, PeerOf DEF StartRttTestMsg
  <2>2. Answers(d, {Echo(d)})
    BY <1>4, <1>6, <2>1, EchoType DEF Answers, StartRttTestMsg
  <2> QED
    BY <1>2, <1>6, <2>2 DEF StartRttTestMsg
<1>7. ASSUME NEW d \in Deliverable(ServerAddr), BandwidthEnd(d)
      PROVE  RttInv'
  <2> DEFINE report == BandwidthReport(d.src, bt.maxDelay - bt.minDelay, bt.pktCount,
                                       d.testId, serverMid, now)
  <2>1. Answers(d, {report})
    BY <1>4, <1>7, ConstructorPeers DEF Answers, BandwidthEnd, OfCurrentTest
  <2> QED
    BY <1>2, <1>7, <2>1 DEF BandwidthEnd
<1>8. ASSUME NEW d \in Deliverable(ServerAddr),
             \/ StartUnknown(d) \/ BandwidthTimeout(d) \/ BandwidthCount(d)
             \/ BandwidthTrap(d) \/ BandwidthUnexpected(d)
      PROVE  RttInv'
  BY <1>3, <1>8 DEF StartUnknown, BandwidthTimeout, BandwidthCount, BandwidthTrap,
                    BandwidthUnexpected
<1>9. ASSUME ServerReceiveFails PROVE RttInv'
  BY <1>1, <1>9, FewerStep DEF ServerReceiveFails, ReceiveFails
<1> QED
  BY <1>5, <1>6, <1>7, <1>8, <1>9 DEF ServerStep, ServerReceives

-----------------------------------------------------------------------------
\* The parts of the invariant about one client.
RttInvOf(c) ==
  /\ cPc[c] \in {"init", "waitConfirm", "rttLoop", "rttWait", "done", "failed"}
  /\ \A d, e \in Between(c) : d = e
  /\ cPc[c] \in {"init", "rttLoop", "done"} => Between(c) = {}
  /\ cPc[c] = "rttWait" =>
       \A d \in Between(c) : d.msgType = "rttTestMsg" /\ d.msgId = nextMid[c] - 1

LEMMA RttInvByClient == RttInv <=> \A c \in RttClients : RttInvOf(c)
BY DEF RttInv, RttInvOf, RttPlaces, OneOutstanding, NoneOutstanding, EchoOutstanding

\* A client's step leaves the others' datagrams and places alone.
LEMMA OtherClients ==
  ASSUME RttInv, NEW c \in Clients,
         \A d : Peer(d) # c => (d \in net' <=> d \in net),
         \A e \in RttClients \ {c} : cPc'[e] = cPc[e] /\ nextMid'[e] = nextMid[e],
         c \in RttClients => RttInvOf(c)'
  PROVE  RttInv'
<1>1. ASSUME NEW e \in RttClients, e # c
      PROVE  RttInvOf(e)'
  <2>1. Between(e)' = Between(e)
    BY <1>1 DEF Between, Peer
  <2>2. RttInvOf(e)
    BY RttInvByClient
  <2> QED
    BY <1>1, <2>1, <2>2 DEF RttInvOf
<1>2. \A e \in RttClients : RttInvOf(e)'
  BY <1>1
<1> QED
  BY <1>2, RttInvByClient DEF RttInv, RttInvOf, RttPlaces, OneOutstanding, NoneOutstanding,
                              EchoOutstanding

LEMMA ClientWaits ==
  ASSUME MaxDup = 0, TypeOK, RttInv, NEW c \in Clients, ClientStep(c)
  PROVE  RttInv'
<1>1. /\ NetTypeOK /\ ClientTypeOK
      /\ cPc \in [Clients -> ClientPc] /\ nextMid \in [Clients -> Nat]
      /\ RttClients \subseteq Clients
  BY DEF TypeOK, ClientTypeOK, Clients
<1>2. c \in RttClients => RttInvOf(c)
  BY RttInvByClient
<1>3. \A pc : Goto(c, pc) => cPc'[c] = pc /\ \A e \in RttClients \ {c} : cPc'[e] = cPc[e]
  BY <1>1 DEF Goto
<1>4. genMid(c) => nextMid'[c] = nextMid[c] + 1
                   /\ \A e \in RttClients \ {c} : nextMid'[e] = nextMid[e]
  BY <1>1 DEF genMid
\* A send of an RTT client comes when nothing is outstanding.
<1>5. ASSUME NEW d, Send(d), Peer(d) = c, genMid(c),
             \/ UNCHANGED cPc
             \/ \E pc \in ClientPc : Goto(c, pc),
             c \in RttClients =>
               /\ cPc[c] \in {"init", "rttLoop"}
               /\ cPc'[c] \in {"waitConfirm", "rttWait"}
               /\ cPc'[c] = "rttWait" => d.msgType = "rttTestMsg" /\ d.msgId = nextMid[c]
      PROVE  RttInv'
  <2>1. net' = net \cup {d}
    BY <1>5 DEF Send
  <2>2. ASSUME c \in RttClients PROVE RttInvOf(c)'
    <3>1. Between(c)' = {d}
      BY <1>2, <1>5, <2>1, <2>2 DEF RttInvOf, Between, Peer
    <3>2. nextMid[c] \in Nat
      BY <1>1
    <3> QED
      BY <1>4, <1>5, <2>2, <3>1, <3>2 DEF RttInvOf
  <2>3. \A e \in RttClients \ {c} : cPc'[e] = cPc[e] /\ nextMid'[e] = nextMid[e]
    BY <1>3, <1>4, <1>5
  <2>4. \A e : Peer(e) # c => (e \in net' <=> e \in net)
    BY <1>5, <2>1
  <2> QED
    BY <2>2, <2>3, <2>4, OtherClients
\* A datagram taken by an RTT client was the only one.
<1>6. ASSUME NEW d \in Deliverable(c), Exchange(d, {}),
             \E pc \in ClientPc : Goto(c, pc),
             c \in RttClients => UNCHANGED nextMid /\ cPc'[c] = "rttLoop",
             UNCHANGED nextMid \/ genMid(c)
      PROVE  RttInv'
  <2>1. d \in net /\ Peer(d) = c
    BY <1>1, ClientDelivery, PeerOf
  <2>2. net' = net \ {d}
    BY <1>6, ExchangeOnce
  <2>3. ASSUME c \in RttClients PROVE RttInvOf(c)'
    <3>1. Between(c)' = {}
      BY <1>2, <2>1, <2>2, <2>3 DEF RttInvOf, Between, Peer
    <3> QED
      BY <1>6, <2>3, <3>1 DEF RttInvOf
  <2>4. \A e \in RttClients \ {c} : cPc'[e] = cPc[e] /\ nextMid'[e] = nextMid[e]
    BY <1>3, <1>4, <1>6
  <2>5. \A e : Peer(e) # c => (e \in net' <=> e \in net)
    BY <2>1, <2>2
  <2> QED
    BY <2>3, <2>4, <2>5, OtherClients
\* The network is left alone.
<1>7. ASSUME UNCHANGED <<net, nextMid>>,
             UNCHANGED cPc \/ \E pc \in ClientPc : Goto(c, pc),
             c \in RttClients =>
               \/ UNCHANGED cPc
               \/ cPc'[c] = "failed"
               \/ cPc[c] = "rttLoop" /\ cPc'[c] = "done"
      PROVE  RttInv'
  <2>1. ASSUME c \in RttClients PROVE RttInvOf(c)'
    <3>1. Between(c)' = Between(c)
      BY <1>7 DEF Between, Peer
    <3> QED
      BY <1>2, <1>7, <2>1, <3>1 DEF RttInvOf
  <2>2. \A e \in RttClients \ {c} : cPc'[e] = cPc[e] /\ nextMid'[e] = nextMid[e]
    BY <1>3, <1>7
  <2>3. \A e : Peer(e) # c => (e \in net' <=> e \in net)
    BY <1>7
  <2> QED
    BY <2>1, <2>2, <2>3, OtherClients
<1>8. CASE SendRequest(c)
  <2> DEFINE type == IF c \in RttClients THEN rtt ELSE bandwidth
             time == IF c \in RttClients THEN 0 ELSE TestSeconds
             d == TestRequest(c, type, time, nextMid[c], ClientClock)
  <2>1. d.src = c
    BY DEF TestRequest
  <2>2. Peer(d) = c
    BY <2>1 DEF Peer, TestRequest
  <2>3. /\ Send(d) /\ genMid(c) /\ Goto(c, "waitConfirm") /\ cPc[c] = "init"
    BY <1>8 DEF SendRequest
  <2> HIDE DEF d
  <2> QED
    BY <1>3, <1>5, <2>2, <2>3 DEF ClientPc
<1>9. CASE SendRtt(c)
  <2> DEFINE d == RttTestMsg(c, testId[c], nextMid[c], ClientClock)
  <2>1. Peer(d) = c /\ d.msgType = "rttTestMsg" /\ d.msgId = nextMid[c]
    BY ConstructorPeers DEF RttTestMsg
  <2>2. /\ Send(d) /\ genMid(c) /\ Goto(c, "rttWait") /\ cPc[c] = "rttLoop"
    BY <1>9 DEF SendRtt
  <2> HIDE DEF d
  <2> QED
    BY <1>3, <1>5, <2>1, <2>2 DEF ClientPc
<1>10. CASE SendPacket(c)
  <2> DEFINE d == BandwidthTestMsg(c, testId[c], totalPkt[c], nextMid[c], ClientClock)
  <2>1. Peer(d) = c
    BY ConstructorPeers
  <2>2. Send(d) /\ genMid(c) /\ UNCHANGED cPc /\ cPc[c] = "bwLoop"
    BY <1>10 DEF SendPacket
  <2>3. c \notin RttClients
    BY <1>2, <2>2 DEF RttInvOf
  <2> HIDE DEF d
  <2> QED
    BY <1>5, <2>1, <2>2, <2>3
<1>11. CASE SendFinish(c)
  <2> DEFINE d == BandwidthFinish(c, testId[c], totalPkt[c], nextMid[c], ClientClock)
  <2>1. Peer(d) = c
    BY ConstructorPeers
  <2>2. Send(d) /\ genMid(c) /\ Goto(c, "waitReport") /\ cPc[c] = "bwLoop"
    BY <1>11 DEF SendFinish
  <2>3. c \notin RttClients
    BY <1>2, <2>2 DEF RttInvOf
  <2> HIDE DEF d
  <2> QED
    BY <1>5, <2>1, <2>2, <2>3 DEF ClientPc
<1>12. CASE EndRtt(c)
  BY <1>3, <1>7, <1>12 DEF EndRtt, netVars, ClientPc
<1>13. CASE StartGroup(c)
  BY <1>7, <1>13 DEF StartGroup, netVars
<1>14. ASSUME NEW d \in Deliverable(c),
              ReceiveConfirm(c, d) \/ ReceiveRtt(c, d) \/ ReceiveReport(c, d)
       PROVE  RttInv'
  <2>1. CASE ReceiveConfirm(c, d)
    BY <1>3, <1>6, <2>1 DEF ReceiveConfirm, ClientPc
  <2>2. CASE ReceiveRtt(c, d)
    BY <1>3, <1>6, <2>2 DEF ReceiveRtt, ClientPc
  <2>3. CASE ReceiveReport(c, d)
    <3>1. c \notin RttClients
      BY <1>2, <2>3 DEF RttInvOf, ReceiveReport
    <3> QED
      BY <1>6, <2>3, <3>1 DEF ReceiveReport, ClientPc
  <2> QED
    BY <1>14, <2>1, <2>2, <2>3
<1>15. CASE ClientReceiveFails(c)
  BY <1>3, <1>7, <1>15 DEF ClientReceiveFails, ReceiveFails, ClientPc
<1> QED
  BY <1>8, <1>9, <1>10, <1>11, <1>12, <1>13, <1>14, <1>15
  DEF ClientStep, ClientProceeds, ClientReceives

LEMMA RttStep ==
  ASSUME MaxDup = 0, TypeOK, RttInv, [Next]_vars
  PROVE  RttInv'
<1>1. CASE ServerStep
  BY <1>1, ServerEchoes
<1>2. CASE \E c \in Clients : ClientStep(c)
  BY <1>2, ClientWaits
<1>3. CASE NetworkLoses
  BY <1>3, FewerStep DEF NetworkLoses, Lose, clientVars
<1>4. CASE Tick
  BY <1>4, FewerStep DEF Tick, clientVars
<1>5. CASE UNCHANGED vars
  BY <1>5, FewerStep DEF vars, netVars, clientVars
<1> QED
  BY <1>1, <1>2, <1>3, <1>4, <1>5 DEF Next

\* On a network that duplicates nothing, however it loses, delays and reorders,
\* the datagram an RTT client receives while it waits is the echo of the packet
\* it has just sent, so the round trip it prints is that packet's.  Duplication
\* is the one fault that breaks this, as the run DuplicatedPacket shows.
THEOREM RoundTripIsOwn == MaxDup = 0 => (Spec => []RttReplyMatches)
<1> SUFFICES ASSUME MaxDup = 0 PROVE Spec => []RttReplyMatches
  OBVIOUS
<1>1. Init => RttInv
  BY RttInit
<1>2. TypeOK /\ RttInv /\ [Next]_vars => RttInv'
  BY RttStep
<1>3. TypeOK /\ RttInv => RttReplyMatches
  <2> SUFFICES ASSUME TypeOK, RttInv, NEW c \in RttClients, NEW d \in net,
                      cPc[c] = "rttWait", d.dst = c
               PROVE  d.msgType = "rttTestMsg" /\ d.msgId = nextMid[c] - 1
    BY DEF RttReplyMatches
  <2>1. Peer(d) = c
    BY PeerOf DEF TypeOK, NetTypeOK, Datagram, ToServer, ToClient, Clients
  <2> QED
    BY <2>1 DEF RttInv, EchoOutstanding, Between
<1>4. Spec => []TypeOK
  BY TypeCorrect
<1> QED
  BY <1>1, <1>2, <1>3, <1>4, PTL DEF Spec


-----------------------------------------------------------------------------
(* The two clocks, on top of isolation.  The server measures the           *)
(* test from its first packet, the client from its confirmation: the two   *)
(* are related because a packet in flight means that its sender has its    *)
(* confirmation behind it, and isolation makes that sender the tester.     *)

Past(c) == cPc[c] \notin {"init", "waitConfirm"}

\* What holds of a datagram in flight when pc says where the clients are.
TimelyWith(d, pc) ==
  /\ (d.msgType = "testRequest" /\ d.w15 = bandwidth) => d.w19 = TestSeconds
  /\ d.msgType = "bandwidthTestMsg" =>
       d.src \in Clients /\ pc[d.src] \notin {"init", "waitConfirm"}

NetTimely == \A d \in net : TimelyWith(d, cPc)

StartsPast == \A c \in Clients : startTime[c] <= now

TestTimed == sPc = "bandwidthTest" => bt.testSeconds = TestSeconds

TesterTimed ==
  (sPc = "bandwidthTest" /\ bt.startTimeMs > 0) =>
    \A c \in Clients : <<currentTest, c>> \in issued =>
      Past(c) /\ startTime[c] <= bt.startTimeMs

TimeInv == /\ IsolationInv
           /\ NetTimely /\ StartsPast /\ TestTimed
           /\ NoWrap => TesterTimed

-----------------------------------------------------------------------------
\* The server sends neither requests nor test packets.
LEMMA ServerSends ==
  ASSUME ServerStep, NetTypeOK
  PROVE  \A e \in net' : e \in net \/ e.msgType \notin {"testRequest", "bandwidthTestMsg"}
<1>1. ASSUME NEW d, NEW sent, Exchange(d, sent),
             \A e \in sent : e.msgType \notin {"testRequest", "bandwidthTestMsg"}
      PROVE  \A e \in net' : e \in net \/ e.msgType \notin {"testRequest", "bandwidthTestMsg"}
  BY <1>1, ExchangeBounds
<1>2. ASSUME NEW d \in Deliverable(ServerAddr), StartTestRequest(d)
      PROVE  \A e \in net' : e \in net \/ e.msgType \notin {"testRequest", "bandwidthTestMsg"}
  <2>1. TestConfirm(d.src, 1, testIdGen, d.msgId, serverMid, now).msgType = "testConfirm"
    BY DEF TestConfirm
  <2> QED
    BY <1>1, <1>2, <2>1 DEF StartTestRequest
<1>3. ASSUME NEW d \in Deliverable(ServerAddr), StartRttTestMsg(d)
      PROVE  \A e \in net' : e \in net \/ e.msgType \notin {"testRequest", "bandwidthTestMsg"}
  <2>1. Echo(d).msgType = "rttTestMsg"
    BY <1>3, ServerDelivery, EchoType DEF StartRttTestMsg
  <2> QED
    BY <1>1, <1>3, <2>1 DEF StartRttTestMsg
<1>4. ASSUME NEW d \in Deliverable(ServerAddr), BandwidthEnd(d)
      PROVE  \A e \in net' : e \in net \/ e.msgType \notin {"testRequest", "bandwidthTestMsg"}
  <2>1. BandwidthReport(d.src, bt.maxDelay - bt.minDelay, bt.pktCount, d.testId,
                        serverMid, now).msgType = "bandwidthReport"
    BY DEF BandwidthReport
  <2> QED
    BY <1>1, <1>4, <2>1 DEF BandwidthEnd
<1>5. ASSUME NEW d \in Deliverable(ServerAddr),
             \/ StartUnknown(d) \/ BandwidthTimeout(d) \/ BandwidthCount(d)
             \/ BandwidthTrap(d) \/ BandwidthUnexpected(d)
      PROVE  \A e \in net' : e \in net \/ e.msgType \notin {"testRequest", "bandwidthTestMsg"}
  <2>1. Exchange(d, {})
    BY <1>5 DEF StartUnknown, BandwidthTimeout, BandwidthCount, BandwidthTrap,
                BandwidthUnexpected
  <2> QED
    BY <1>1, <2>1
<1>6. ASSUME ServerReceiveFails
      PROVE  \A e \in net' : e \in net \/ e.msgType \notin {"testRequest", "bandwidthTestMsg"}
  BY <1>6 DEF ServerReceiveFails, ReceiveFails
<1> QED
  BY <1>2, <1>3, <1>4, <1>5, <1>6 DEF ServerStep, ServerReceives

\* A server step leaves the clock alone.
LEMMA ServerKeepsTime ==
  ASSUME ServerStep
  PROVE  now' = now /\ UNCHANGED clientVars
<1>1. ASSUME NEW d \in Deliverable(ServerAddr),
             \/ StartTestRequest(d) \/ StartRttTestMsg(d) \/ StartUnknown(d)
             \/ BandwidthTimeout(d) \/ BandwidthCount(d) \/ BandwidthEnd(d)
             \/ BandwidthTrap(d) \/ BandwidthUnexpected(d)
      PROVE  now' = now
  BY <1>1 DEF StartTestRequest, StartRttTestMsg, StartUnknown, BandwidthTimeout,
      BandwidthCount, BandwidthEnd, BandwidthTrap, BandwidthUnexpected, Exchange
<1>2. ServerReceiveFails => now' = now
  BY DEF ServerReceiveFails, ReceiveFails
<1> QED
  BY <1>1, <1>2 DEF ServerStep, ServerReceives

LEMMA ServerTimely ==
  ASSUME TimeInv, ServerStep, NoWrap => IdsInv
  PROVE  NetTimely' /\ StartsPast' /\ TestTimed' /\ (NoWrap => TesterTimed')
<1>1. TypeOK /\ NetTypeOK /\ bt \in Locals /\ now \in Nat
  BY DEF TimeInv, IsolationInv, TypeOK, ServerTypeOK, NetTypeOK
<1>2. now' = now /\ cPc' = cPc /\ startTime' = startTime
  BY ServerKeepsTime DEF clientVars
<1>3. StartsPast'
  BY <1>2 DEF TimeInv, StartsPast
<1>4. NetTimely'
  <2> SUFFICES ASSUME NEW e \in net' PROVE TimelyWith(e, cPc')
    BY DEF NetTimely
  <2>1. CASE e \in net
    BY <1>2, <2>1 DEF TimeInv, NetTimely, TimelyWith, Past
  <2>2. CASE e.msgType \notin {"testRequest", "bandwidthTestMsg"}
    BY <2>2 DEF TimelyWith
  <2> QED
    BY <1>1, <2>1, <2>2, ServerSends
<1>5. UNCHANGED <<bt, sPc, currentTest, issued>> => TestTimed' /\ (NoWrap => TesterTimed')
  BY <1>2 DEF TimeInv, TestTimed, TesterTimed, Past
<1>6. sPc' # "bandwidthTest" => TestTimed' /\ (NoWrap => TesterTimed')
  BY DEF TestTimed, TesterTimed
<1>7. ASSUME NEW d \in Deliverable(ServerAddr), StartTestRequest(d)
      PROVE  TestTimed' /\ (NoWrap => TesterTimed')
  <2>1. CASE d.w15 = bandwidth
    <3>1. bt' = NewLocals(d.w19) /\ d \in net /\ d.msgType = "testRequest"
      BY <1>7, <2>1, DeliveredFromNet DEF StartTestRequest
    <3>2. bt'.testSeconds = TestSeconds /\ bt'.startTimeMs = -1
      BY <2>1, <3>1 DEF TimeInv, NetTimely, TimelyWith, NewLocals
    <3> QED
      BY <3>2 DEF TestTimed, TesterTimed
  <2>2. CASE d.w15 # bandwidth
    BY <1>6, <1>7, <2>2 DEF StartTestRequest
  <2> QED
    BY <2>1, <2>2
<1>8. ASSUME NEW d \in Deliverable(ServerAddr), BandwidthCount(d)
      PROVE  TestTimed' /\ (NoWrap => TesterTimed')
  <2>1. /\ sPc = "bandwidthTest" /\ sPc' = sPc /\ currentTest' = currentTest /\ issued' = issued
        /\ d.msgType = "bandwidthTestMsg" /\ d.testId = currentTest
    BY <1>8 DEF BandwidthCount, OfCurrentTest
  <2>2. /\ bt'.testSeconds = bt.testSeconds
        /\ bt'.startTimeMs = IF bt.startTimeMs < 0 THEN now ELSE bt.startTimeMs
    BY <1>1, <1>8 DEF BandwidthCount, Locals
  <2>3. TestTimed'
    BY <2>1, <2>2 DEF TimeInv, TestTimed
  <2>4. ASSUME NoWrap, bt'.startTimeMs > 0, NEW c \in Clients, <<currentTest, c>> \in issued
        PROVE  Past(c) /\ startTime[c] <= bt'.startTimeMs
    <3>1. CASE bt.startTimeMs < 0
      <4>1. d \in net /\ d \in ToServer
        BY <1>1, ServerDelivery
      <4>2. <<currentTest, d.src>> \in issued
        BY <2>1, <2>4, <4>1, PeerOf DEF IdsInv, DatagramsOwned, Owned
      <4>3. d.src = c
        BY <2>4, <4>2 DEF IdsInv, IdsUnique
      <4>4. Past(c)
        BY <2>1, <4>1, <4>3 DEF TimeInv, NetTimely, TimelyWith, Past
      <4> QED
        BY <2>2, <3>1, <4>4 DEF TimeInv, StartsPast
    <3>2. CASE ~(bt.startTimeMs < 0)
      BY <2>1, <2>2, <2>4, <3>2 DEF TimeInv, TesterTimed
    <3> QED
      BY <3>1, <3>2
  <2>5. NoWrap => TesterTimed'
    BY <1>2, <2>1, <2>4 DEF TesterTimed, Past
  <2> QED
    BY <2>3, <2>5
<1>9. ASSUME NEW d \in Deliverable(ServerAddr),
             \/ StartRttTestMsg(d) \/ StartUnknown(d) \/ BandwidthTimeout(d)
             \/ BandwidthEnd(d) \/ BandwidthTrap(d) \/ BandwidthUnexpected(d)
      PROVE  TestTimed' /\ (NoWrap => TesterTimed')
  BY <1>5, <1>6, <1>9 DEF StartRttTestMsg, StartUnknown, BandwidthTimeout, BandwidthEnd,
      BandwidthTrap, BandwidthUnexpected, AbandonTest, LeaveBandwidthTest, serverVars
<1>10. ServerReceiveFails => TestTimed' /\ (NoWrap => TesterTimed')
  BY <1>6 DEF ServerReceiveFails, AbandonTest, LeaveBandwidthTest
<1> QED
  BY <1>3, <1>4, <1>7, <1>8, <1>9, <1>10 DEF ServerStep, ServerReceives

LEMMA ClientTimely ==
  ASSUME TimeInv, NEW c \in Clients, ClientStep(c)
  PROVE  NetTimely' /\ StartsPast' /\ TestTimed' /\ (NoWrap => TesterTimed')
<1>1. /\ cPc \in [Clients -> ClientPc] /\ startTime \in [Clients -> Nat]
      /\ now \in Nat /\ NetTypeOK /\ bt \in Locals
  BY DEF TimeInv, IsolationInv, TypeOK, ClientTypeOK, NetTypeOK, ServerTypeOK
<1>2. UNCHANGED <<sPc, bt, currentTest, issued>>
  BY DEF ClientStep, serverVars
<1>3. TestTimed'
  BY <1>2 DEF TimeInv, TestTimed
<1>4. now' = now
  BY DEF ClientStep, ClientProceeds, ClientReceives, ClientReceiveFails, SendRequest,
      SendRtt, EndRtt, StartGroup, SendPacket, SendFinish, ReceiveConfirm, ReceiveRtt,
      ReceiveReport, Send, Exchange, ReceiveFails, netVars
<1>5. ASSUME NEW pc, Goto(c, pc)
      PROVE  cPc'[c] = pc /\ \A e \in Clients \ {c} : cPc'[e] = cPc[e]
  BY <1>1, <1>5 DEF Goto
<1>6. ASSUME startTime' = startTime, \A e \in Clients : Past(e) => Past(e)'
      PROVE  StartsPast' /\ (NoWrap => TesterTimed')
  BY <1>2, <1>4, <1>6 DEF TimeInv, StartsPast, TesterTimed
<1>7. ASSUME \A e \in Clients : Past(e) => Past(e)', NEW sent, net' \subseteq net \cup sent,
             \A d \in sent : TimelyWith(d, cPc')
      PROVE  NetTimely'
  <2>1. ASSUME NEW d \in net PROVE TimelyWith(d, cPc')
    BY <1>7 DEF TimeInv, NetTimely, TimelyWith, Past
  <2> QED
    BY <1>7, <2>1 DEF NetTimely
<1>8. CASE SendRequest(c)
  <2> DEFINE type == IF c \in RttClients THEN rtt ELSE bandwidth
             time == IF c \in RttClients THEN 0 ELSE TestSeconds
             request == TestRequest(c, type, time, nextMid[c], ClientClock)
  <2>1. \A e \in Clients : Past(e) => Past(e)'
    BY <1>5, <1>8 DEF SendRequest, Past
  <2>2. request.msgType = "testRequest" /\ request.w15 = type /\ request.w19 = time
    BY DEF TestRequest
  <2>3. type = bandwidth => time = TestSeconds
    BY DEF rtt, bandwidth
  <2>4. net' \subseteq net \cup {request}
    BY <1>8 DEF SendRequest, Send
  <2>5. startTime' = startTime
    BY <1>8 DEF SendRequest
  <2> HIDE DEF request, type, time
  <2>6. TimelyWith(request, cPc')
    BY <2>2, <2>3 DEF TimelyWith
  <2>7. NetTimely'
    BY <1>7, <2>1, <2>4, <2>6
  <2> QED
    BY <1>3, <1>6, <2>1, <2>5, <2>7
<1>9. ASSUME NEW d \in Deliverable(c), ReceiveConfirm(c, d)
      PROVE  NetTimely' /\ StartsPast' /\ (NoWrap => TesterTimed')
  <2>1. /\ cPc[c] = "waitConfirm"
        /\ \A e \in Clients : startTime'[e] \in {startTime[e], now}
        /\ \A e \in Clients \ {c} : startTime'[e] = startTime[e]
    BY <1>1, <1>9 DEF ReceiveConfirm
  <2>2. \A e \in Clients : Past(e) => Past(e)'
    BY <1>5, <1>9, <2>1 DEF ReceiveConfirm, Past
  <2>3. StartsPast'
    BY <1>1, <1>4, <2>1 DEF TimeInv, StartsPast
  <2>4. NoWrap => TesterTimed'
    BY <1>2, <2>1, <2>2 DEF TimeInv, TesterTimed, Past
  <2>5. net' \subseteq net \cup {}
    BY <1>9, ExchangeBounds DEF ReceiveConfirm
  <2> QED
    BY <1>7, <2>2, <2>3, <2>4, <2>5
<1>10. CASE SendPacket(c)
  <2> DEFINE packet == BandwidthTestMsg(c, testId[c], totalPkt[c], nextMid[c], ClientClock)
  <2>1. /\ Past(c) /\ cPc' = cPc /\ startTime' = startTime
        /\ net' \subseteq net \cup {packet}
    BY <1>10 DEF SendPacket, Send, Past
  <2>2. packet.src = c /\ packet.msgType = "bandwidthTestMsg"
    BY DEF BandwidthTestMsg
  <2> HIDE DEF packet
  <2>3. TimelyWith(packet, cPc') /\ \A e \in Clients : Past(e) => Past(e)'
    BY <2>1, <2>2 DEF TimelyWith, Past
  <2> QED
    BY <1>3, <1>6, <1>7, <2>1, <2>3
<1>11. ASSUME NEW d, Send(d), d.msgType \notin {"testRequest", "bandwidthTestMsg"},
              startTime' = startTime, \A e \in Clients : Past(e) => Past(e)'
       PROVE  NetTimely' /\ StartsPast' /\ (NoWrap => TesterTimed')
  <2>1. net' \subseteq net \cup {d} /\ \A e \in {d} : TimelyWith(e, cPc')
    BY <1>11 DEF Send, TimelyWith
  <2>2. NetTimely'
    BY <1>7, <1>11, <2>1
  <2> QED
    BY <1>6, <1>11, <2>2
<1>12. CASE SendRtt(c)
  <2>1. startTime' = startTime /\ \A e \in Clients : Past(e) => Past(e)'
    BY <1>5, <1>12 DEF SendRtt, Past
  <2>2. RttTestMsg(c, testId[c], nextMid[c], ClientClock).msgType = "rttTestMsg"
    BY DEF RttTestMsg
  <2> QED
    BY <1>3, <1>11, <1>12, <2>1, <2>2 DEF SendRtt
<1>13. CASE SendFinish(c)
  <2>1. startTime' = startTime /\ \A e \in Clients : Past(e) => Past(e)'
    BY <1>5, <1>13 DEF SendFinish, Past
  <2>2. BandwidthFinish(c, testId[c], totalPkt[c], nextMid[c], ClientClock).msgType
          = "bandwidthFinish"
    BY DEF BandwidthFinish
  <2> QED
    BY <1>3, <1>11, <1>13, <2>1, <2>2 DEF SendFinish
<1>14. ASSUME \/ EndRtt(c) \/ StartGroup(c) \/ ClientReceiveFails(c)
              \/ \E d \in Deliverable(c) : ReceiveRtt(c, d) \/ ReceiveReport(c, d)
       PROVE  NetTimely' /\ StartsPast' /\ (NoWrap => TesterTimed')
  <2>1. startTime' = startTime
    BY <1>14 DEF EndRtt, StartGroup, ClientReceiveFails, ReceiveRtt, ReceiveReport
  <2>2. \A e \in Clients : Past(e) => Past(e)'
    BY <1>5, <1>14 DEF EndRtt, StartGroup, ClientReceiveFails, ReceiveRtt, ReceiveReport, Past
  <2>3. net' \subseteq net \cup {}
    BY <1>14, ExchangeBounds DEF EndRtt, StartGroup, ClientReceiveFails, ReceiveRtt,
        ReceiveReport, ReceiveFails, netVars
  <2> QED
    BY <1>6, <1>7, <2>1, <2>2, <2>3
<1> QED
  BY <1>3, <1>8, <1>9, <1>10, <1>12, <1>13, <1>14
  DEF ClientStep, ClientProceeds, ClientReceives

LEMMA TimeInit == Init => TimeInv
<1> SUFFICES ASSUME Init PROVE TimeInv
  OBVIOUS
<1>1. /\ net = {} /\ sPc = "start" /\ now = 1
      /\ \A c \in Clients : startTime[c] = 0
  BY DEF Init, NetInit, ServerInit, ClientInit
<1>2. NetTimely /\ StartsPast /\ TestTimed /\ TesterTimed
  BY <1>1 DEF NetTimely, StartsPast, TestTimed, TesterTimed
<1> QED
  BY <1>2, IsolationInit DEF TimeInv

LEMMA TimeStep == TimeInv /\ [Next]_vars => TimeInv'
<1> SUFFICES ASSUME TimeInv, [Next]_vars PROVE TimeInv'
  OBVIOUS
<1>1. IsolationInv' /\ TypeOK /\ (NoWrap => IdsInv) /\ (NoWrap' => NoWrap)
  BY IsolationStep, NoWrapBefore DEF TimeInv, IsolationInv
<1> SUFFICES NetTimely' /\ StartsPast' /\ TestTimed' /\ (NoWrap => TesterTimed')
  BY <1>1 DEF TimeInv
<1>2. CASE ServerStep
  BY <1>1, <1>2, ServerTimely
<1>3. CASE \E c \in Clients : ClientStep(c)
  BY <1>3, ClientTimely
<1>4. CASE NetworkLoses \/ Tick \/ UNCHANGED vars
  <2>1. /\ net' \subseteq net /\ UNCHANGED <<serverVars, clientVars>>
        /\ now' = now \/ now' = now + 1
    BY <1>4 DEF NetworkLoses, Lose, Tick, vars, netVars
  <2>2. NetTimely'
    BY <2>1 DEF TimeInv, NetTimely, TimelyWith, Past, clientVars
  <2>3. now \in Nat /\ startTime \in [Clients -> Nat]
    BY <1>1 DEF TypeOK, NetTypeOK, ClientTypeOK
  <2>4. StartsPast'
    BY <2>1, <2>3 DEF TimeInv, StartsPast, clientVars
  <2>5. TestTimed' /\ (NoWrap => TesterTimed')
    BY <2>1 DEF TimeInv, TestTimed, TesterTimed, Past, clientVars, serverVars
  <2> QED
    BY <2>2, <2>4, <2>5
<1> QED
  BY <1>2, <1>3, <1>4 DEF Next

LEMMA TimeSpares == TimeInv => TimeoutSparesSender
<1> SUFFICES ASSUME TimeInv, NoWrap, sPc = "bandwidthTest", TimedOut,
                    NEW c \in Clients, IsTester(c)
             PROVE  now > EndTime(c) + Grace
  BY DEF TimeoutSparesSender
<1>1. startTime[c] \in Nat /\ now \in Nat /\ bt \in Locals
  BY DEF TimeInv, IsolationInv, TypeOK, NetTypeOK, ServerTypeOK, ClientTypeOK
<1>2. startTime[c] <= bt.startTimeMs /\ bt.testSeconds = TestSeconds
  BY DEF TimeInv, TestTimed, TesterTimed, TimedOut, IsTester
<1> DEFINE duration == TestSeconds * Second
<1>3. duration \in Nat
  OBVIOUS
<1>4. now - bt.startTimeMs > duration + Grace /\ EndTime(c) = startTime[c] + duration
  BY <1>2 DEF TimedOut, EndTime
<1> HIDE DEF duration
<1> QED
  BY <1>1, <1>2, <1>3, <1>4 DEF Locals

\* The timeout spares senders: for any duration and grace, and whatever the
\* network does, the server gives a test up only when the client's own end
\* time is more than the grace behind.
THEOREM TimeoutSpares == Spec => []TimeoutSparesSender
<1>1. Init => TimeInv
  BY TimeInit
<1>2. TimeInv /\ [Next]_vars => TimeInv'
  BY TimeStep
<1>3. TimeInv => TimeoutSparesSender
  BY TimeSpares
<1> QED
  BY <1>1, <1>2, <1>3, PTL DEF Spec

-----------------------------------------------------------------------------
(* The inductive invariant, on top of TimeInv.  A delay is the difference   *)
(* of two hosts' clocks, so it is bounded by the offset and by the time the *)
(* sender has been sending; the extremes keep these bounds if the values    *)
(* they start from do not come in between.                                  *)

\* A packet carries the sender's clock between the start of its send loop and now.
Stamped(d) ==
  d.msgType = "bandwidthTestMsg" =>
    startTime[d.src] + Skew <= d.timestamp /\ d.timestamp <= now + Skew

PacketsStamped == \A d \in net : Stamped(d)

NothingMeasured ==
  (sPc = "bandwidthTest" /\ bt.pktCount = 0) =>
    bt.minDelay = IntMax /\ bt.maxDelay = IntMin

DelaysBounded ==
  (sPc = "bandwidthTest" /\ bt.pktCount > 0) =>
    /\ -Skew <= bt.minDelay /\ bt.minDelay <= bt.maxDelay
    /\ \A c \in Clients : <<currentTest, c>> \in issued =>
         Past(c) /\ bt.maxDelay <= now - startTime[c] - Skew

JitterInv == /\ TimeInv /\ PacketsStamped /\ NothingMeasured
             /\ NoWrap => DelaysBounded

-----------------------------------------------------------------------------
LEMMA JitterInit == Init => JitterInv
<1> SUFFICES ASSUME Init PROVE JitterInv
  OBVIOUS
<1>1. net = {} /\ sPc = "start"
  BY DEF Init, NetInit, ServerInit
<1> QED
  BY <1>1, TimeInit DEF JitterInv, PacketsStamped, NothingMeasured, DelaysBounded

\* One packet measured: the new extremes are bounded by its delay and the old ones.
LEMMA ExtremesBounded ==
  ASSUME -Skew \in IntMin .. IntMax,
         NEW low \in Int, NEW high \in Int, NEW delay \in Int, NEW bound \in Int,
         -Skew <= delay, delay <= bound,
         \/ low = IntMax /\ high = IntMin
         \/ -Skew <= low /\ low <= high /\ high <= bound,
         NEW low2, low2 = IF delay < low THEN delay ELSE low,
         NEW high2, high2 = IF delay > high THEN delay ELSE high
  PROVE  -Skew <= low2 /\ low2 <= high2 /\ high2 <= bound
BY StoredNumbers

LEMMA ServerMeasures ==
  ASSUME -Skew \in IntMin .. IntMax, JitterInv, ServerStep, NoWrap => IdsInv
  PROVE  PacketsStamped' /\ NothingMeasured' /\ (NoWrap => DelaysBounded')
<1>1. /\ TypeOK /\ NetTypeOK /\ bt \in Locals /\ now \in Nat
      /\ startTime \in [Clients -> Nat] /\ TimeInv
  BY DEF JitterInv, TimeInv, IsolationInv, TypeOK, ServerTypeOK, NetTypeOK, ClientTypeOK
<1>2. now' = now /\ cPc' = cPc /\ startTime' = startTime
  BY ServerKeepsTime DEF clientVars
<1>3. PacketsStamped'
  BY <1>1, <1>2, ServerSends DEF JitterInv, PacketsStamped, Stamped
<1>4. UNCHANGED <<bt, sPc, currentTest, issued>> => NothingMeasured' /\ (NoWrap => DelaysBounded')
  BY <1>2 DEF JitterInv, NothingMeasured, DelaysBounded, Past
<1>5. sPc' # "bandwidthTest" => NothingMeasured' /\ (NoWrap => DelaysBounded')
  BY DEF NothingMeasured, DelaysBounded
<1>6. ASSUME NEW d \in Deliverable(ServerAddr), StartTestRequest(d)
      PROVE  NothingMeasured' /\ (NoWrap => DelaysBounded')
  <2>1. CASE d.w15 = bandwidth
    <3>1. bt' = NewLocals(d.w19)
      BY <1>6, <2>1 DEF StartTestRequest
    <3> QED
      BY <3>1 DEF NothingMeasured, DelaysBounded, NewLocals
  <2>2. CASE d.w15 # bandwidth
    BY <1>5, <1>6, <2>2 DEF StartTestRequest
  <2> QED
    BY <2>1, <2>2
<1>7. ASSUME NEW d \in Deliverable(ServerAddr), BandwidthCount(d)
      PROVE  NothingMeasured' /\ (NoWrap => DelaysBounded')
  <2> DEFINE delay == now - d.timestamp
             low == bt.minDelay
             high == bt.maxDelay
             low2 == IF delay < low THEN delay ELSE low
             high2 == IF delay > high THEN delay ELSE high
  <2>1. /\ sPc = "bandwidthTest" /\ sPc' = sPc /\ currentTest' = currentTest /\ issued' = issued
        /\ d.msgType = "bandwidthTestMsg" /\ d.testId = currentTest
    BY <1>7 DEF BandwidthCount, OfCurrentTest
  <2>2. bt'.minDelay = low2 /\ bt'.maxDelay = high2 /\ bt'.pktCount = bt.pktCount + 1
    BY <1>1, <1>7 DEF BandwidthCount, Locals
  <2>3. d \in net /\ d \in ToServer /\ d.timestamp \in Int /\ d.src \in Clients
    BY <1>1, ServerDelivery, FieldTypes DEF Datagram
  <2>4. low \in Int /\ high \in Int /\ delay \in Int /\ bt.pktCount \in Nat
    BY <1>1, <2>3 DEF Locals
  <2>5. NothingMeasured'
    BY <2>2, <2>4 DEF NothingMeasured
  <2>6. ASSUME NoWrap, NEW c \in Clients, <<currentTest, c>> \in issued
        PROVE  /\ -Skew <= low2 /\ low2 <= high2
               /\ Past(c) /\ high2 <= now - startTime[c] - Skew
    <3> DEFINE bound == now - startTime[c] - Skew
    <3>1. <<currentTest, d.src>> \in issued
      BY <2>1, <2>3, <2>6, PeerOf DEF IdsInv, DatagramsOwned, Owned
    <3>2. d.src = c
      BY <2>6, <3>1 DEF IdsInv, IdsUnique
    <3>3. Past(c)
      BY <1>1, <2>1, <2>3, <3>2 DEF TimeInv, NetTimely, TimelyWith, Past
    <3>4. startTime[c] + Skew <= d.timestamp /\ d.timestamp <= now + Skew
      BY <2>1, <2>3, <3>2 DEF JitterInv, PacketsStamped, Stamped
    <3>5. startTime[c] \in Nat /\ bound \in Int
      BY <1>1
    <3>6. -Skew <= delay /\ delay <= bound
      BY <1>1, <2>3, <3>4, <3>5
    <3>7. \/ low = IntMax /\ high = IntMin
          \/ -Skew <= low /\ low <= high /\ high <= bound
      BY <2>1, <2>4, <2>6 DEF JitterInv, NothingMeasured, DelaysBounded
    <3> HIDE DEF delay, bound, low, high
    <3>8. -Skew <= low2 /\ low2 <= high2 /\ high2 <= bound
      BY <2>4, <3>5, <3>6, <3>7, ExtremesBounded
    <3> QED
      BY <3>3, <3>8 DEF bound
  <2>7. ASSUME NoWrap PROVE \E c \in Clients : <<currentTest, c>> \in issued
    BY <2>1, <2>7 DEF IdsInv, TestOwned
  <2> HIDE DEF low2, high2
  <2>8. NoWrap => DelaysBounded'
    BY <1>2, <2>1, <2>2, <2>6, <2>7 DEF DelaysBounded, Past
  <2> QED
    BY <2>5, <2>8
<1>8. ASSUME NEW d \in Deliverable(ServerAddr),
             \/ StartRttTestMsg(d) \/ StartUnknown(d) \/ BandwidthTimeout(d)
             \/ BandwidthEnd(d) \/ BandwidthTrap(d) \/ BandwidthUnexpected(d)
      PROVE  NothingMeasured' /\ (NoWrap => DelaysBounded')
  BY <1>4, <1>5, <1>8 DEF StartRttTestMsg, StartUnknown, BandwidthTimeout, BandwidthEnd,
      BandwidthTrap, BandwidthUnexpected, AbandonTest, LeaveBandwidthTest, serverVars
<1>9. ServerReceiveFails => NothingMeasured' /\ (NoWrap => DelaysBounded')
  BY <1>5 DEF ServerReceiveFails, AbandonTest, LeaveBandwidthTest
<1> QED
  BY <1>3, <1>6, <1>7, <1>8, <1>9 DEF ServerStep, ServerReceives

\* A client's step: only a packet of its own is stamped, and the start of its
\* send loop is set once, before it sends any.
LEMMA ClientStamps ==
  ASSUME TypeOK, NEW c \in Clients, ClientStep(c)
  PROVE  /\ now' = now /\ UNCHANGED serverVars
         /\ \A e \in Clients : Past(e) => Past(e)' /\ startTime'[e] = startTime[e]
         /\ \A d \in net' : \/ d \in net
                            \/ d.msgType # "bandwidthTestMsg"
                            \/ d.src = c /\ Past(c) /\ d.timestamp = now + Skew
<1>1. cPc \in [Clients -> ClientPc] /\ startTime \in [Clients -> Nat]
  BY DEF TypeOK, ClientTypeOK
<1>2. UNCHANGED serverVars
  BY DEF ClientStep
<1>3. now' = now
  BY DEF ClientStep, ClientProceeds, ClientReceives, ClientReceiveFails, SendRequest,
      SendRtt, EndRtt, StartGroup, SendPacket, SendFinish, ReceiveConfirm, ReceiveRtt,
      ReceiveReport, Send, Exchange, ReceiveFails, netVars
<1>4. ASSUME NEW pc, Goto(c, pc)
      PROVE  cPc'[c] = pc /\ \A e \in Clients \ {c} : cPc'[e] = cPc[e]
  BY <1>1, <1>4 DEF Goto
<1>5. \A e \in Clients : Past(e) => Past(e)' /\ startTime'[e] = startTime[e]
  <2>1. CASE SendRequest(c) \/ SendRtt(c) \/ SendFinish(c) \/ EndRtt(c) \/ ClientReceiveFails(c)
    BY <1>4, <2>1 DEF SendRequest, SendRtt, SendFinish, EndRtt, ClientReceiveFails, Past
  <2>2. CASE StartGroup(c) \/ SendPacket(c)
    BY <2>2 DEF StartGroup, SendPacket, Past
  <2>3. CASE \E d \in Deliverable(c) : ReceiveRtt(c, d) \/ ReceiveReport(c, d)
    BY <1>4, <2>3 DEF ReceiveRtt, ReceiveReport, Past
  <2>4. CASE \E d \in Deliverable(c) : ReceiveConfirm(c, d)
    BY <1>1, <1>4, <2>4 DEF ReceiveConfirm, Past
  <2> QED
    BY <2>1, <2>2, <2>3, <2>4 DEF ClientStep, ClientProceeds, ClientReceives
<1>6. ASSUME NEW d, Send(d),
             \/ d.msgType # "bandwidthTestMsg"
             \/ d.src = c /\ Past(c) /\ d.timestamp = now + Skew
      PROVE  \A e \in net' : \/ e \in net
                             \/ e.msgType # "bandwidthTestMsg"
                             \/ e.src = c /\ Past(c) /\ e.timestamp = now + Skew
  BY <1>6 DEF Send
<1>7. \A d \in net' : \/ d \in net
                      \/ d.msgType # "bandwidthTestMsg"
                      \/ d.src = c /\ Past(c) /\ d.timestamp = now + Skew
  <2>1. CASE SendRequest(c)
    <3>1. \A type, time : TestRequest(c, type, time, nextMid[c], ClientClock).msgType
            = "testRequest"
      BY DEF TestRequest
    <3> QED
      BY <1>6, <2>1, <3>1 DEF SendRequest
  <2>2. CASE SendRtt(c)
    <3>1. RttTestMsg(c, testId[c], nextMid[c], ClientClock).msgType = "rttTestMsg"
      BY DEF RttTestMsg
    <3> QED
      BY <1>6, <2>2, <3>1 DEF SendRtt
  <2>3. CASE SendFinish(c)
    <3>1. BandwidthFinish(c, testId[c], totalPkt[c], nextMid[c], ClientClock).msgType
            = "bandwidthFinish"
      BY DEF BandwidthFinish
    <3> QED
      BY <1>6, <2>3, <3>1 DEF SendFinish
  <2>4. CASE SendPacket(c)
    <3> DEFINE d == BandwidthTestMsg(c, testId[c], totalPkt[c], nextMid[c], ClientClock)
    <3>1. d.src = c /\ d.timestamp = now + Skew
      BY DEF BandwidthTestMsg, ClientClock
    <3>2. Send(d) /\ Past(c)
      BY <2>4 DEF SendPacket, Past
    <3> HIDE DEF d
    <3> QED
      BY <1>6, <3>1, <3>2
  <2>5. ASSUME \/ EndRtt(c) \/ StartGroup(c) \/ ClientReceiveFails(c)
               \/ \E d \in Deliverable(c) :
                     ReceiveConfirm(c, d) \/ ReceiveRtt(c, d) \/ ReceiveReport(c, d)
        PROVE  net' \subseteq net
    <3>1. \A d : Exchange(d, {}) => net' \subseteq net
      BY ExchangeBounds
    <3> QED
      BY <2>5, <3>1 DEF EndRtt, StartGroup, ClientReceiveFails, ReceiveFails, netVars,
          ReceiveConfirm, ReceiveRtt, ReceiveReport
  <2> QED
    BY <2>1, <2>2, <2>3, <2>4, <2>5 DEF ClientStep, ClientProceeds, ClientReceives
<1> QED
  BY <1>2, <1>3, <1>5, <1>7

LEMMA ClientMeasured ==
  ASSUME JitterInv, NEW c \in Clients, ClientStep(c)
  PROVE  PacketsStamped' /\ NothingMeasured' /\ (NoWrap => DelaysBounded')
<1>1. TypeOK /\ TimeInv /\ startTime \in [Clients -> Nat] /\ now \in Nat
  BY DEF JitterInv, TimeInv, IsolationInv, TypeOK, NetTypeOK, ClientTypeOK
<1>2. /\ now' = now /\ UNCHANGED serverVars
      /\ \A e \in Clients : Past(e) => Past(e)' /\ startTime'[e] = startTime[e]
      /\ \A d \in net' : \/ d \in net
                         \/ d.msgType # "bandwidthTestMsg"
                         \/ d.src = c /\ Past(c) /\ d.timestamp = now + Skew
  BY <1>1, ClientStamps
<1>3. ASSUME NEW d \in net', d.msgType = "bandwidthTestMsg"
      PROVE  startTime'[d.src] + Skew <= d.timestamp /\ d.timestamp <= now + Skew
  <2>1. CASE d \in net
    <3>1. d.src \in Clients /\ Past(d.src)
      BY <1>1, <1>3, <2>1 DEF TimeInv, NetTimely, TimelyWith, Past
    <3> QED
      BY <1>2, <1>3, <2>1, <3>1 DEF JitterInv, PacketsStamped, Stamped
  <2>2. CASE d.src = c /\ Past(c) /\ d.timestamp = now + Skew
    <3>1. startTime'[c] = startTime[c] /\ startTime[c] \in Nat /\ startTime[c] <= now
      BY <1>1, <1>2, <2>2 DEF TimeInv, StartsPast
    <3> QED
      BY <1>1, <2>2, <3>1
  <2> QED
    BY <1>2, <1>3, <2>1, <2>2
<1>4. PacketsStamped'
  BY <1>2, <1>3 DEF PacketsStamped, Stamped
<1>5. NothingMeasured'
  BY <1>2 DEF JitterInv, NothingMeasured, serverVars
<1>6. NoWrap => DelaysBounded'
  BY <1>2 DEF JitterInv, DelaysBounded, serverVars
<1> QED
  BY <1>4, <1>5, <1>6

LEMMA JitterStep ==
  ASSUME -Skew \in IntMin .. IntMax, JitterInv, [Next]_vars
  PROVE  JitterInv'
<1>1. TypeOK /\ (NoWrap => IdsInv) /\ (NoWrap' => NoWrap) /\ TimeInv'
  BY TimeStep, NoWrapBefore DEF JitterInv, TimeInv, IsolationInv
<1> SUFFICES PacketsStamped' /\ NothingMeasured' /\ (NoWrap => DelaysBounded')
  BY <1>1 DEF JitterInv
<1>2. CASE ServerStep
  BY <1>1, <1>2, ServerMeasures
<1>3. CASE \E c \in Clients : ClientStep(c)
  BY <1>3, ClientMeasured
<1>4. CASE NetworkLoses \/ Tick \/ UNCHANGED vars
  <2>1. /\ net' \subseteq net /\ UNCHANGED <<serverVars, clientVars>>
        /\ now' = now \/ now' = now + 1
    BY <1>4 DEF NetworkLoses, Lose, Tick, vars, netVars
  <2>2. /\ now \in Nat /\ startTime \in [Clients -> Nat] /\ NetTypeOK /\ bt \in Locals
        /\ \A d \in net : d.timestamp \in Int
    BY <1>1, FieldTypes DEF TypeOK, NetTypeOK, ClientTypeOK, ServerTypeOK
  <2>3. PacketsStamped'
    BY <2>1, <2>2 DEF JitterInv, PacketsStamped, Stamped, clientVars
  <2>4. NothingMeasured'
    BY <2>1 DEF JitterInv, NothingMeasured, serverVars
  <2>5. NoWrap => DelaysBounded'
    <3>1. bt.maxDelay \in Int
      BY <2>2 DEF Locals
    <3> QED
      BY <2>1, <2>2, <3>1 DEF JitterInv, DelaysBounded, Past, serverVars, clientVars
  <2> QED
    BY <2>3, <2>4, <2>5
<1> QED
  BY <1>2, <1>3, <1>4 DEF Next

LEMMA JitterBounded == JitterInv => JitterIsSpread
<1> SUFFICES ASSUME JitterInv, NoWrap, sPc = "bandwidthTest", bt.pktCount > 0,
                    NEW c \in Clients, IsTester(c)
             PROVE  bt.maxDelay - bt.minDelay \in 0 .. now - startTime[c]
  BY DEF JitterIsSpread
<1>1. startTime[c] \in Nat /\ now \in Nat /\ bt.minDelay \in Int /\ bt.maxDelay \in Int
  BY DEF JitterInv, TimeInv, IsolationInv, TypeOK, NetTypeOK, ServerTypeOK, ClientTypeOK, Locals
<1>2. /\ -Skew <= bt.minDelay /\ bt.minDelay <= bt.maxDelay
      /\ bt.maxDelay <= now - startTime[c] - Skew
  BY DEF JitterInv, DelaysBounded, IsTester
<1> QED
  BY <1>1, <1>2

\* The jitter is a spread of delays: whatever the network loses, duplicates and
\* reorders, and however long a test takes, the server's two extremes of the
\* delay differ by at most the time its client has been sending, if the offset
\* between the clocks fits the int the extremes start from.  That is all it
\* takes, and the run FarClocks shows that it is needed.
THEOREM JitterBoundedBySending ==
  -Skew \in IntMin .. IntMax => (Spec => []JitterIsSpread)
<1> SUFFICES ASSUME -Skew \in IntMin .. IntMax PROVE Spec => []JitterIsSpread
  OBVIOUS
<1>1. Init => JitterInv
  BY JitterInit
<1>2. JitterInv /\ [Next]_vars => JitterInv'
  BY JitterStep
<1>3. JitterInv => JitterIsSpread
  BY JitterBounded
<1> QED
  BY <1>1, <1>2, <1>3, PTL DEF Spec

-----------------------------------------------------------------------------
(* The loss: the inductive invariant has two halves.  The client subtracts  *)
(* word 19 of whatever comes after its finish, so what comes must be its    *)
(* report: the request and its confirmation are one datagram, consumed      *)
(* before a packet is sent.  And what the report counts was sent: the       *)
(* packets counted and those still in flight are together no more than      *)
(* those sent.                                                              *)

HandshakeTypes == {"testRequest", "testConfirm"}
TransferTypes == {"bandwidthTestMsg", "bandwidthFinish", "bandwidthReport"}

\* The parts of the first half about one bandwidth client.
PhaseOf(c) ==
  /\ cPc[c] \in {"init", "waitConfirm", "bwLoop", "waitReport", "done", "failed"}
  /\ cPc[c] = "init" => Between(c) = {}
  /\ cPc[c] = "waitConfirm" =>
       \A d, e \in Between(c) : d = e /\ d.msgType \in HandshakeTypes
  /\ cPc[c] \in {"bwLoop", "waitReport", "done"} =>
       \A d \in Between(c) : d.msgType \in TransferTypes

Phases == \A c \in BwClients : PhaseOf(c)

\* Packets and finishes go to the server.
Directed == \A d \in net : d.msgType \in {"bandwidthTestMsg", "bandwidthFinish"} => d.src \in Clients

InFlight(c) == {d \in net : d.src = c /\ d.msgType = "bandwidthTestMsg"}

FlightCounted ==
  /\ IsFiniteSet(net)
  /\ \A c \in Clients : Cardinality(InFlight(c)) <= totalPkt[c]

TesterCounted ==
  sPc = "bandwidthTest" =>
    \A c \in Clients : <<currentTest, c>> \in issued =>
      bt.pktCount + Cardinality(InFlight(c)) <= totalPkt[c]

ReportsCounted ==
  \A d \in net : d.msgType = "bandwidthReport" =>
    d.dst \in Clients /\ d.w19 \in 0 .. totalPkt[d.dst]

LossInv == /\ IsolationInv /\ Phases /\ Directed /\ FlightCounted
           /\ NoWrap => TesterCounted /\ ReportsCounted /\ LossIsACount

-----------------------------------------------------------------------------
\* What an answer e to d may be.
AnswerTo(d, e) ==
  /\ Peer(e) = Peer(d)
  /\ \/ d.msgType = "testRequest" /\ e.msgType = "testConfirm"
     \/ d.msgType = "rttTestMsg" /\ e.msgType = "rttTestMsg"
     \/ /\ d.msgType = "bandwidthFinish" /\ e.msgType = "bandwidthReport"
        /\ sPc = "bandwidthTest" /\ d.testId = currentTest
        /\ e.dst = d.src /\ e.w19 = bt.pktCount

\* A step of the server takes a datagram, if it does not fail, and sends at
\* most one answer.
LEMMA ServerTakesOne ==
  ASSUME MaxDup = 0, TypeOK, ServerStep
  PROVE  \/ net' = net
         \/ \E d \in net : /\ d \in ToServer
                           /\ \/ net' = net \ {d}
                              \/ \E e : net' = (net \ {d}) \cup {e} /\ AnswerTo(d, e)
<1>1. NetTypeOK
  BY DEF TypeOK
<1>2. ASSUME NEW d \in Deliverable(ServerAddr), NEW sent, Exchange(d, sent)
      PROVE  d \in net /\ d \in ToServer /\ net' = (net \ {d}) \cup sent
             /\ Peer(d) = d.src /\ d.src \in Clients
  BY <1>1, <1>2, ServerDelivery, ExchangeOnce, PeerOf
<1>3. ASSUME NEW d \in Deliverable(ServerAddr), StartTestRequest(d)
      PROVE  \E e : net' = (net \ {d}) \cup {e} /\ AnswerTo(d, e)
  <2> DEFINE e == TestConfirm(d.src, 1, testIdGen, d.msgId, serverMid, now)
  <2>1. Exchange(d, {e}) /\ d.msgType = "testRequest"
    BY <1>3 DEF StartTestRequest
  <2>2. d.src \in Clients /\ Peer(d) = d.src /\ net' = (net \ {d}) \cup {e}
    BY <1>2, <2>1
  <2>3. e.msgType = "testConfirm"
    BY DEF TestConfirm
  <2>4. Peer(e) = Peer(d)
    BY <2>2, ConstructorPeers
  <2> HIDE DEF e
  <2>5. AnswerTo(d, e)
    BY <2>1, <2>3, <2>4 DEF AnswerTo
  <2> QED
    BY <2>2, <2>5
<1>4. ASSUME NEW d \in Deliverable(ServerAddr), StartRttTestMsg(d)
      PROVE  \E e : net' = (net \ {d}) \cup {e} /\ AnswerTo(d, e)
  <2>1. Exchange(d, {Echo(d)}) /\ d.msgType = "rttTestMsg"
    BY <1>4 DEF StartRttTestMsg
  <2>2. d \in ToServer /\ Peer(d) = d.src /\ net' = (net \ {d}) \cup {Echo(d)}
    BY <1>2, <2>1
  <2>3. Echo(d).msgType = "rttTestMsg" /\ Peer(Echo(d)) = Peer(d)
    BY <2>1, <2>2, EchoType, PeerOf
  <2>4. AnswerTo(d, Echo(d))
    BY <2>1, <2>3 DEF AnswerTo
  <2> QED
    BY <2>2, <2>4
<1>5. ASSUME NEW d \in Deliverable(ServerAddr), BandwidthEnd(d)
      PROVE  \E e : net' = (net \ {d}) \cup {e} /\ AnswerTo(d, e)
  <2> DEFINE e == BandwidthReport(d.src, bt.maxDelay - bt.minDelay, bt.pktCount,
                                  d.testId, serverMid, now)
  <2>1. /\ Exchange(d, {e}) /\ d.msgType = "bandwidthFinish" /\ d.testId = currentTest
        /\ sPc = "bandwidthTest"
    BY <1>5 DEF BandwidthEnd, OfCurrentTest
  <2>2. d.src \in Clients /\ Peer(d) = d.src /\ net' = (net \ {d}) \cup {e}
    BY <1>2, <2>1
  <2>3. e.msgType = "bandwidthReport" /\ e.dst = d.src /\ e.w19 = bt.pktCount
    BY DEF BandwidthReport
  <2>4. Peer(e) = Peer(d)
    BY <2>2, ConstructorPeers
  <2> HIDE DEF e
  <2>5. AnswerTo(d, e)
    BY <2>1, <2>3, <2>4 DEF AnswerTo
  <2> QED
    BY <2>2, <2>5
<1>6. ASSUME NEW d \in Deliverable(ServerAddr),
             \/ StartUnknown(d) \/ BandwidthTimeout(d) \/ BandwidthCount(d)
             \/ BandwidthTrap(d) \/ BandwidthUnexpected(d)
      PROVE  net' = net \ {d}
  <2>1. Exchange(d, {})
    BY <1>6 DEF StartUnknown, BandwidthTimeout, BandwidthCount, BandwidthTrap,
                BandwidthUnexpected
  <2> QED
    BY <1>2, <2>1
<1>7. ServerReceiveFails => net' = net
  BY DEF ServerReceiveFails, ReceiveFails
<1>8. \A d \in Deliverable(ServerAddr) : d \in net /\ d \in ToServer
  BY <1>1, ServerDelivery
<1> QED
  BY <1>3, <1>4, <1>5, <1>6, <1>7, <1>8 DEF ServerStep, ServerReceives

-----------------------------------------------------------------------------
\* What follows from the form of the server's step.
LEMMA ServerCounts ==
  ASSUME MaxDup = 0, LossInv, ServerStep, NoWrap => IdsInv
  PROVE  Phases' /\ Directed' /\ FlightCounted' /\ (NoWrap => ReportsCounted' /\ LossIsACount')
<1>1. TypeOK /\ NetTypeOK /\ bt \in Locals /\ totalPkt \in [Clients -> Nat] /\ BwClients \subseteq Clients
  BY DEF LossInv, IsolationInv, TypeOK, ServerTypeOK, ClientTypeOK, Clients
<1>2. UNCHANGED clientVars
  BY ServerKeepsTime
<1>3. LossIsACount => LossIsACount'
  BY <1>2 DEF LossIsACount, clientVars
<1>4. CASE net' \subseteq net
  <2>1. Phases' /\ Directed' /\ (NoWrap => ReportsCounted')
    BY <1>2, <1>4 DEF LossInv, Phases, PhaseOf, Between, Peer, Directed, ReportsCounted, clientVars
  <2>2. IsFiniteSet(net') /\ \A c \in Clients : InFlight(c)' \in SUBSET InFlight(c)
                          /\ IsFiniteSet(InFlight(c))
    BY <1>4, FS_Subset DEF LossInv, FlightCounted, InFlight
  <2>3. ASSUME NEW c \in Clients PROVE Cardinality(InFlight(c)') <= totalPkt'[c]
    <3>1. Cardinality(InFlight(c)') <= Cardinality(InFlight(c))
      BY <2>2, FS_Subset
    <3>2. Cardinality(InFlight(c)') \in Nat /\ Cardinality(InFlight(c)) \in Nat
      BY <2>2, FS_Subset, FS_CardinalityType
    <3> QED
      BY <1>1, <1>2, <3>1, <3>2 DEF LossInv, FlightCounted, clientVars
  <2> QED
    BY <1>3, <2>1, <2>2, <2>3 DEF LossInv, FlightCounted, InFlight
<1>5. ASSUME NEW d \in net, d \in ToServer, NEW e, net' = (net \ {d}) \cup {e}, AnswerTo(d, e)
      PROVE  Phases' /\ Directed' /\ FlightCounted' /\ (NoWrap => ReportsCounted')
  <2>1. e.msgType \in {"testConfirm", "rttTestMsg", "bandwidthReport"} /\ Peer(d) = d.src
    BY <1>5, PeerOf DEF AnswerTo
  <2>2. Directed'
    BY <1>5, <2>1 DEF LossInv, Directed
  <2>3. ASSUME NEW c \in BwClients PROVE PhaseOf(c)'
    <3>1. cPc' = cPc
      BY <1>2 DEF clientVars
    <3>2. /\ Peer(d) # c => Between(c)' = Between(c)
          /\ Peer(d) = c => d \in Between(c) /\ Between(c)' \subseteq (Between(c) \ {d}) \cup {e}
      BY <1>5 DEF Between, Peer, AnswerTo
    <3>3. PhaseOf(c)
      BY DEF LossInv, Phases
    <3>4. CASE Peer(d) # c
      BY <3>1, <3>2, <3>3, <3>4 DEF PhaseOf
    <3>5. CASE Peer(d) = c
      BY <1>5, <3>1, <3>2, <3>3, <3>5 DEF PhaseOf, AnswerTo, HandshakeTypes, TransferTypes
    <3> QED
      BY <3>4, <3>5
  <2>4. FlightCounted'
    <3>1. IsFiniteSet(net')
      BY <1>5, FS_AddElement, FS_RemoveElement DEF LossInv, FlightCounted
    <3>2. \A c \in Clients : InFlight(c)' \in SUBSET InFlight(c) /\ IsFiniteSet(InFlight(c))
      BY <1>5, <2>1, FS_Subset DEF LossInv, FlightCounted, InFlight
    <3>3. ASSUME NEW c \in Clients PROVE Cardinality(InFlight(c)') <= totalPkt'[c]
      <4>1. Cardinality(InFlight(c)') <= Cardinality(InFlight(c))
        BY <3>2, FS_Subset
      <4>2. Cardinality(InFlight(c)') \in Nat /\ Cardinality(InFlight(c)) \in Nat
        BY <3>2, FS_Subset, FS_CardinalityType
      <4> QED
        BY <1>1, <1>2, <4>1, <4>2 DEF LossInv, FlightCounted, clientVars
    <3> QED
      BY <3>1, <3>3 DEF FlightCounted, InFlight
  <2>5. ASSUME NoWrap, e.msgType = "bandwidthReport"
        PROVE  e.dst \in Clients /\ e.w19 \in 0 .. totalPkt[e.dst]
    <3>1. /\ d.msgType = "bandwidthFinish" /\ sPc = "bandwidthTest" /\ d.testId = currentTest
          /\ e.dst = d.src /\ e.w19 = bt.pktCount
      BY <1>5, <2>5 DEF AnswerTo
    <3>2. d.src \in Clients /\ <<currentTest, d.src>> \in issued
      BY <1>5, <2>1, <2>5, <3>1, PeerOf DEF IdsInv, DatagramsOwned, Owned
    <3>3. bt.pktCount + Cardinality(InFlight(d.src)) <= totalPkt[d.src]
      BY <2>5, <3>1, <3>2 DEF LossInv, TesterCounted
    <3>4. Cardinality(InFlight(d.src)) \in Nat
      BY FS_Subset, FS_CardinalityType DEF LossInv, FlightCounted, InFlight
    <3> QED
      BY <1>1, <3>1, <3>2, <3>3, <3>4 DEF Locals
  <2>6. NoWrap => ReportsCounted'
    BY <1>2, <1>5, <2>5 DEF LossInv, ReportsCounted, clientVars
  <2> QED
    BY <2>2, <2>3, <2>4, <2>6 DEF Phases
<1> QED
  BY <1>1, <1>3, <1>4, <1>5, ServerTakesOne DEF LossInv

\* The packets counted and those in flight: a packet counted has left the network.
LEMMA ServerCountsSent ==
  ASSUME MaxDup = 0, LossInv, ServerStep, NoWrap, IdsInv
  PROVE  TesterCounted'
<1>1. TypeOK /\ NetTypeOK /\ bt \in Locals /\ totalPkt \in [Clients -> Nat]
  BY DEF LossInv, IsolationInv, TypeOK, ServerTypeOK, ClientTypeOK
<1>2. totalPkt' = totalPkt
  BY ServerKeepsTime DEF clientVars
<1>3. ASSUME NEW c \in Clients
      PROVE  /\ Cardinality(InFlight(c)) \in Nat /\ Cardinality(InFlight(c)') \in Nat
             /\ Cardinality(InFlight(c)') <= Cardinality(InFlight(c))
             /\ IsFiniteSet(InFlight(c))
  <2>1. InFlight(c)' \in SUBSET InFlight(c)
    BY <1>1, ServerSends DEF InFlight
  <2>2. IsFiniteSet(InFlight(c))
    BY FS_Subset DEF LossInv, FlightCounted, InFlight
  <2> QED
    BY <2>1, <2>2, FS_Subset, FS_CardinalityType
<1>4. UNCHANGED <<bt, sPc, currentTest, issued>> => TesterCounted'
  <2> SUFFICES ASSUME UNCHANGED <<bt, sPc, currentTest, issued>>, sPc = "bandwidthTest",
                      NEW c \in Clients, <<currentTest, c>> \in issued
               PROVE  bt.pktCount + Cardinality(InFlight(c)') <= totalPkt[c]
    BY <1>2 DEF TesterCounted, InFlight
  <2>1. bt.pktCount + Cardinality(InFlight(c)) <= totalPkt[c]
    BY DEF LossInv, TesterCounted
  <2> QED
    BY <1>1, <1>3, <2>1 DEF Locals
<1>5. sPc' # "bandwidthTest" => TesterCounted'
  BY DEF TesterCounted
<1>6. ASSUME NEW d \in Deliverable(ServerAddr), StartTestRequest(d)
      PROVE  TesterCounted'
  <2>1. CASE d.w15 = bandwidth
    <3>1. bt'.pktCount = 0
      BY <1>6, <2>1 DEF StartTestRequest, NewLocals
    <3>2. ASSUME NEW c \in Clients PROVE 0 + Cardinality(InFlight(c)') <= totalPkt[c]
      BY <1>1, <1>3 DEF LossInv, FlightCounted
    <3> QED
      BY <1>2, <3>1, <3>2 DEF TesterCounted, InFlight
  <2>2. CASE d.w15 # bandwidth
    BY <1>5, <1>6, <2>2 DEF StartTestRequest
  <2> QED
    BY <2>1, <2>2
<1>7. ASSUME NEW d \in Deliverable(ServerAddr), BandwidthCount(d)
      PROVE  TesterCounted'
  <2>1. /\ sPc = "bandwidthTest" /\ currentTest' = currentTest /\ issued' = issued
        /\ d.msgType = "bandwidthTestMsg" /\ d.testId = currentTest /\ Exchange(d, {})
    BY <1>7 DEF BandwidthCount, OfCurrentTest
  <2>2. bt'.pktCount = bt.pktCount + 1 /\ bt.pktCount \in Nat
    BY <1>1, <1>7 DEF BandwidthCount, Locals
  <2>3. d \in net /\ d \in ToServer /\ net' = net \ {d}
    BY <1>1, <2>1, ServerDelivery, ExchangeOnce
  <2>4. ASSUME NEW c \in Clients, <<currentTest, c>> \in issued
        PROVE  bt'.pktCount + Cardinality(InFlight(c)') <= totalPkt[c]
    <3>1. d.src = c
      BY <2>1, <2>3, <2>4, PeerOf DEF IdsInv, IdsUnique, DatagramsOwned, Owned
    <3>2. d \in InFlight(c) /\ InFlight(c)' = InFlight(c) \ {d}
      BY <2>1, <2>3, <3>1 DEF InFlight
    <3>3. Cardinality(InFlight(c)') = Cardinality(InFlight(c)) - 1
      BY <1>3, <3>2, FS_RemoveElement, ZenonT(40)
    <3>4. bt.pktCount + Cardinality(InFlight(c)) <= totalPkt[c]
      BY <2>1, <2>4 DEF LossInv, TesterCounted
    <3> QED
      BY <1>1, <1>3, <2>2, <3>3, <3>4
  <2> QED
    BY <1>2, <2>1, <2>4 DEF TesterCounted, InFlight
<1>8. ASSUME NEW d \in Deliverable(ServerAddr),
             \/ StartRttTestMsg(d) \/ StartUnknown(d) \/ BandwidthTimeout(d)
             \/ BandwidthEnd(d) \/ BandwidthTrap(d) \/ BandwidthUnexpected(d)
      PROVE  TesterCounted'
  BY <1>4, <1>5, <1>8 DEF StartRttTestMsg, StartUnknown, BandwidthTimeout, BandwidthEnd,
      BandwidthTrap, BandwidthUnexpected, AbandonTest, LeaveBandwidthTest, serverVars
<1>9. ServerReceiveFails => TesterCounted'
  BY <1>5 DEF ServerReceiveFails, AbandonTest, LeaveBandwidthTest
<1> QED
  BY <1>6, <1>7, <1>8, <1>9 DEF ServerStep, ServerReceives

-----------------------------------------------------------------------------
(* The three forms of a client's step.                                     *)

Idles(c) ==
  /\ net' = net /\ totalPkt' = totalPkt /\ lossPkt' = lossPkt
  /\ cPc' = cPc \/ cPc'[c] = "failed" \/ cPc[c] = "rttLoop"

Takes(c, d) ==
  /\ Peer(d) = c /\ d \in ToClient /\ net' = net \ {d} /\ totalPkt' = totalPkt
  /\ \/ /\ cPc[c] = "waitConfirm" /\ lossPkt' = lossPkt
        /\ c \in BwClients => cPc'[c] = "bwLoop"
     \/ cPc[c] = "rttWait" /\ lossPkt' = lossPkt
     \/ cPc[c] = "waitReport" /\ cPc'[c] = "done" /\ lossPkt'[c] = totalPkt[c] - d.w19

Sends(c, d) ==
  /\ Peer(d) = c /\ d.src = c /\ net' = net \cup {d} /\ lossPkt' = lossPkt
  /\ \/ /\ cPc[c] = "init" /\ cPc'[c] = "waitConfirm"
        /\ d.msgType = "testRequest" /\ totalPkt' = totalPkt
     \/ cPc[c] = "rttLoop" /\ d.msgType = "rttTestMsg" /\ totalPkt' = totalPkt
     \/ /\ cPc[c] = "bwLoop" /\ cPc' = cPc
        /\ d.msgType = "bandwidthTestMsg" /\ totalPkt'[c] = totalPkt[c] + 1
     \/ /\ cPc[c] = "bwLoop" /\ cPc'[c] = "waitReport"
        /\ d.msgType = "bandwidthFinish" /\ totalPkt' = totalPkt

LEMMA ClientMoves ==
  ASSUME MaxDup = 0, TypeOK, NEW c \in Clients, ClientStep(c)
  PROVE  /\ UNCHANGED serverVars
         /\ \A e \in Clients \ {c} : cPc'[e] = cPc[e] /\ totalPkt'[e] = totalPkt[e]
                                     /\ lossPkt'[e] = lossPkt[e]
         /\ Idles(c) \/ (\E d \in net : Takes(c, d)) \/ (\E d : Sends(c, d))
<1> DEFINE Others == \A e \in Clients \ {c} : cPc'[e] = cPc[e] /\ totalPkt'[e] = totalPkt[e]
                                              /\ lossPkt'[e] = lossPkt[e]
<1>1. /\ NetTypeOK /\ cPc \in [Clients -> ClientPc] /\ totalPkt \in [Clients -> Nat]
      /\ lossPkt \in [Clients -> Int] /\ BwClients \cap RttClients = {}
  BY DEF TypeOK, ClientTypeOK
<1>2. UNCHANGED serverVars
  BY DEF ClientStep
<1>3. ASSUME NEW pc, Goto(c, pc)
      PROVE  cPc'[c] = pc /\ \A e \in Clients \ {c} : cPc'[e] = cPc[e]
  BY <1>1, <1>3 DEF Goto
<1>4. ASSUME NEW d \in Deliverable(c), Exchange(d, {})
      PROVE  d \in net /\ Peer(d) = c /\ d \in ToClient /\ net' = net \ {d}
  BY <1>1, <1>4, ClientDelivery, PeerOf, ExchangeOnce
<1>5. CASE SendRequest(c)
  <2> DEFINE type == IF c \in RttClients THEN rtt ELSE bandwidth
             time == IF c \in RttClients THEN 0 ELSE TestSeconds
             d == TestRequest(c, type, time, nextMid[c], ClientClock)
  <2>1. d.src = c /\ d.msgType = "testRequest"
    BY DEF TestRequest
  <2>2. Peer(d) = c
    BY <2>1 DEF Peer, TestRequest
  <2>3. /\ Send(d) /\ Goto(c, "waitConfirm") /\ cPc[c] = "init"
        /\ totalPkt' = totalPkt /\ lossPkt' = lossPkt
    BY <1>5 DEF SendRequest
  <2> HIDE DEF d
  <2>4. Sends(c, d)
    BY <1>3, <2>1, <2>2, <2>3 DEF Sends, Send
  <2> QED
    BY <1>2, <1>3, <2>3, <2>4
<1>6. CASE SendRtt(c)
  <2> DEFINE d == RttTestMsg(c, testId[c], nextMid[c], ClientClock)
  <2>1. Peer(d) = c /\ d.src = c /\ d.msgType = "rttTestMsg"
    BY ConstructorPeers DEF RttTestMsg
  <2>2. /\ Send(d) /\ Goto(c, "rttWait") /\ cPc[c] = "rttLoop"
        /\ totalPkt' = totalPkt /\ lossPkt' = lossPkt
    BY <1>6 DEF SendRtt
  <2> HIDE DEF d
  <2>3. Sends(c, d)
    BY <1>3, <2>1, <2>2 DEF Sends, Send
  <2> QED
    BY <1>2, <1>3, <2>2, <2>3
<1>7. CASE SendPacket(c)
  <2> DEFINE d == BandwidthTestMsg(c, testId[c], totalPkt[c], nextMid[c], ClientClock)
  <2>1. Peer(d) = c /\ d.src = c /\ d.msgType = "bandwidthTestMsg"
    BY ConstructorPeers DEF BandwidthTestMsg
  <2>2. /\ Send(d) /\ cPc' = cPc /\ cPc[c] = "bwLoop" /\ lossPkt' = lossPkt
        /\ totalPkt' = [totalPkt EXCEPT ![c] = @ + 1]
    BY <1>7 DEF SendPacket
  <2>3. totalPkt'[c] = totalPkt[c] + 1 /\ \A e \in Clients \ {c} : totalPkt'[e] = totalPkt[e]
    BY <1>1, <2>2
  <2> HIDE DEF d
  <2>4. Sends(c, d)
    BY <2>1, <2>2, <2>3 DEF Sends, Send
  <2> QED
    BY <1>2, <2>2, <2>3, <2>4
<1>8. CASE SendFinish(c)
  <2> DEFINE d == BandwidthFinish(c, testId[c], totalPkt[c], nextMid[c], ClientClock)
  <2>1. Peer(d) = c /\ d.src = c /\ d.msgType = "bandwidthFinish"
    BY ConstructorPeers DEF BandwidthFinish
  <2>2. /\ Send(d) /\ Goto(c, "waitReport") /\ cPc[c] = "bwLoop"
        /\ totalPkt' = totalPkt /\ lossPkt' = lossPkt
    BY <1>8 DEF SendFinish
  <2> HIDE DEF d
  <2>3. Sends(c, d)
    BY <1>3, <2>1, <2>2 DEF Sends, Send
  <2> QED
    BY <1>2, <1>3, <2>2, <2>3
<1>9. CASE EndRtt(c) \/ StartGroup(c) \/ ClientReceiveFails(c)
  <2>1. Idles(c)
    BY <1>3, <1>9 DEF Idles, EndRtt, StartGroup, ClientReceiveFails, ReceiveFails, netVars
  <2>2. Others
    BY <1>3, <1>9 DEF EndRtt, StartGroup, ClientReceiveFails
  <2> QED
    BY <1>2, <2>1, <2>2
<1>10. ASSUME NEW d \in Deliverable(c), ReceiveConfirm(c, d)
       PROVE  Takes(c, d) /\ Others
  BY <1>1, <1>3, <1>4, <1>10 DEF Takes, ReceiveConfirm
<1>11. ASSUME NEW d \in Deliverable(c), ReceiveRtt(c, d)
       PROVE  Takes(c, d) /\ Others
  BY <1>3, <1>4, <1>11 DEF Takes, ReceiveRtt
<1>12. ASSUME NEW d \in Deliverable(c), ReceiveReport(c, d)
       PROVE  Takes(c, d) /\ Others
  <2>1. lossPkt'[c] = totalPkt[c] - d.w19 /\ \A e \in Clients \ {c} : lossPkt'[e] = lossPkt[e]
    BY <1>1, <1>12 DEF ReceiveReport
  <2> QED
    BY <1>3, <1>4, <1>12, <2>1 DEF Takes, ReceiveReport
<1>13. \A d \in Deliverable(c) : d \in net
  BY DeliveredFromNet
<1> QED
  BY <1>2, <1>5, <1>6, <1>7, <1>8, <1>9, <1>10, <1>11, <1>12, <1>13
  DEF ClientStep, ClientProceeds, ClientReceives

\* The phases of the clients, and where datagrams go.
LEMMA ClientPhases ==
  ASSUME MaxDup = 0, LossInv, NEW c \in Clients, ClientStep(c)
  PROVE  Phases' /\ Directed'
<1>1. TypeOK /\ BwClients \subseteq Clients
  BY DEF LossInv, IsolationInv, Clients
<1>2. \A e \in Clients \ {c} : cPc'[e] = cPc[e]
  BY <1>1, ClientMoves
<1>3. ASSUME \A d : Peer(d) # c => (d \in net' <=> d \in net),
             c \in BwClients => PhaseOf(c)'
      PROVE  Phases'
  <2> SUFFICES ASSUME NEW e \in BwClients, e # c PROVE PhaseOf(e)'
    BY <1>3 DEF Phases, PhaseOf
  <2>1. Between(e)' = Between(e)
    BY <1>3 DEF Between, Peer
  <2>2. PhaseOf(e)
    BY DEF LossInv, Phases
  <2> QED
    BY <1>1, <1>2, <2>1, <2>2 DEF PhaseOf
<1>4. c \in BwClients => PhaseOf(c)
  BY DEF LossInv, Phases
<1>5. CASE Idles(c)
  <2>1. net' = net /\ Between(c)' = Between(c)
    BY <1>5 DEF Idles, Between, Peer
  <2>2. c \in BwClients => PhaseOf(c)'
    BY <1>4, <1>5, <2>1 DEF Idles, PhaseOf
  <2> QED
    BY <1>3, <2>1, <2>2 DEF LossInv, Directed
<1>6. ASSUME NEW d \in net, Takes(c, d) PROVE Phases' /\ Directed'
  <2>1. net' = net \ {d} /\ Peer(d) = c /\ Between(c)' = Between(c) \ {d} /\ d \in Between(c)
    BY <1>6 DEF Takes, Between, Peer
  <2>2. c \in BwClients => PhaseOf(c)'
    BY <1>4, <1>6, <2>1 DEF Takes, PhaseOf
  <2> QED
    BY <1>3, <2>1, <2>2 DEF LossInv, Directed
<1>7. ASSUME NEW d, Sends(c, d) PROVE Phases' /\ Directed'
  <2>1. net' = net \cup {d} /\ Peer(d) = c /\ d.src = c /\ Between(c)' = Between(c) \cup {d}
    BY <1>7 DEF Sends, Between, Peer
  <2>2. c \in BwClients => PhaseOf(c)'
    BY <1>4, <1>7, <2>1 DEF Sends, PhaseOf, HandshakeTypes, TransferTypes
  <2> QED
    BY <1>3, <2>1, <2>2 DEF LossInv, Directed
<1> QED
  BY <1>1, <1>5, <1>6, <1>7, ClientMoves

LEMMA OneMore ==
  ASSUME NEW S, IsFiniteSet(S), NEW x, NEW T, T = S \cup {x}
  PROVE  Cardinality(T) <= Cardinality(S) + 1
<1>1. Cardinality(S) \in Nat
  BY FS_CardinalityType
<1>2. Cardinality(S \cup {x}) = IF x \in S THEN Cardinality(S) ELSE Cardinality(S) + 1
  BY FS_AddElement
<1> QED
  BY <1>1, <1>2

\* A packet sent is one more in flight and one more sent.
LEMMA ClientSendsCounted ==
  ASSUME MaxDup = 0, LossInv, NEW c \in Clients, ClientStep(c)
  PROVE  /\ FlightCounted'
         /\ \A e \in Clients :
              /\ totalPkt[e] <= totalPkt'[e]
              /\ Cardinality(InFlight(e)') - totalPkt'[e] <= Cardinality(InFlight(e)) - totalPkt[e]
<1>1. TypeOK /\ TypeOK' /\ totalPkt \in [Clients -> Nat] /\ totalPkt' \in [Clients -> Nat]
  BY ClientTypes DEF LossInv, IsolationInv, TypeOK, ClientTypeOK
<1>2. /\ \A e \in Clients \ {c} : totalPkt'[e] = totalPkt[e]
      /\ Idles(c) \/ (\E d \in net : Takes(c, d)) \/ (\E d : Sends(c, d))
  BY <1>1, ClientMoves
<1>3. IsFiniteSet(net')
  BY <1>2, FS_AddElement, FS_RemoveElement DEF LossInv, FlightCounted, Idles, Takes, Sends
<1>4. ASSUME NEW e \in Clients
      PROVE  /\ IsFiniteSet(InFlight(e)) /\ Cardinality(InFlight(e)) \in Nat
             /\ IsFiniteSet(InFlight(e)') /\ Cardinality(InFlight(e)') \in Nat
  <2>1. IsFiniteSet(InFlight(e))
    BY FS_Subset DEF LossInv, FlightCounted, InFlight
  <2>2. IsFiniteSet(InFlight(e)')
    BY <1>3, FS_Subset DEF InFlight
  <2> QED
    BY <2>1, <2>2, FS_CardinalityType
<1>5. ASSUME NEW e \in Clients
      PROVE  /\ totalPkt[e] <= totalPkt'[e]
             /\ Cardinality(InFlight(e)') - totalPkt'[e] <= Cardinality(InFlight(e)) - totalPkt[e]
  <2>1. CASE InFlight(e)' \subseteq InFlight(e) /\ totalPkt[e] <= totalPkt'[e]
    <3>1. Cardinality(InFlight(e)') <= Cardinality(InFlight(e))
      BY <1>4, <2>1, FS_Subset
    <3> QED
      BY <1>1, <1>4, <2>1, <3>1
  <2>2. ASSUME NEW d, InFlight(e)' = InFlight(e) \cup {d}, totalPkt'[e] = totalPkt[e] + 1
        PROVE  Cardinality(InFlight(e)') - totalPkt'[e] <= Cardinality(InFlight(e)) - totalPkt[e]
    <3>1. Cardinality(InFlight(e)') <= Cardinality(InFlight(e)) + 1
      BY <1>4, <2>2, OneMore
    <3>2. \A m, n, p \in Nat : m <= n + 1 => m - (p + 1) <= n - p
      OBVIOUS
    <3>3. totalPkt[e] \in Nat
      BY <1>1
    <3> QED
      BY <1>4, <2>2, <3>1, <3>2, <3>3, Zenon
  <2>3. CASE Idles(c) \/ \E d \in net : Takes(c, d)
    BY <1>1, <2>1, <2>3 DEF Idles, Takes, InFlight
  <2>4. ASSUME NEW d, Sends(c, d)
        PROVE  \/ InFlight(e)' \subseteq InFlight(e) /\ totalPkt[e] <= totalPkt'[e]
               \/ InFlight(e)' = InFlight(e) \cup {d} /\ totalPkt'[e] = totalPkt[e] + 1
    BY <1>1, <1>2, <2>4 DEF Sends, InFlight
  <2>5. ASSUME NEW d, Sends(c, d)
        PROVE  /\ totalPkt[e] <= totalPkt'[e]
               /\ Cardinality(InFlight(e)') - totalPkt'[e] <= Cardinality(InFlight(e)) - totalPkt[e]
    <3>1. CASE InFlight(e)' \subseteq InFlight(e) /\ totalPkt[e] <= totalPkt'[e]
      BY <2>1, <3>1
    <3>2. CASE InFlight(e)' = InFlight(e) \cup {d} /\ totalPkt'[e] = totalPkt[e] + 1
      <4>1. totalPkt[e] <= totalPkt'[e]
        BY <1>1, <3>2
      <4> QED
        BY <2>2, <3>2, <4>1, Zenon
    <3> QED
      BY <2>4, <2>5, <3>1, <3>2
  <2> QED
    BY <1>1, <1>2, <1>4, <2>1, <2>3, <2>5
<1>6. ASSUME NEW e \in Clients PROVE Cardinality(InFlight(e)') <= totalPkt'[e]
  <2>1. Cardinality(InFlight(e)) <= totalPkt[e]
    BY DEF LossInv, FlightCounted
  <2> QED
    BY <1>1, <1>4, <1>5, <2>1
<1> QED
  BY <1>3, <1>5, <1>6 DEF FlightCounted, InFlight

LEMMA ClientCounts ==
  ASSUME MaxDup = 0, LossInv, NEW c \in Clients, ClientStep(c), NoWrap
  PROVE  TesterCounted' /\ ReportsCounted' /\ LossIsACount'
<1>1. /\ TypeOK /\ TypeOK' /\ bt \in Locals
      /\ totalPkt \in [Clients -> Nat] /\ totalPkt' \in [Clients -> Nat]
  BY ClientTypes DEF LossInv, IsolationInv, TypeOK, ClientTypeOK, ServerTypeOK
<1>2. /\ UNCHANGED serverVars
      /\ \A e \in Clients \ {c} : cPc'[e] = cPc[e] /\ totalPkt'[e] = totalPkt[e]
                                  /\ lossPkt'[e] = lossPkt[e]
      /\ Idles(c) \/ (\E d \in net : Takes(c, d)) \/ (\E d : Sends(c, d))
  BY <1>1, ClientMoves
<1>3. /\ FlightCounted'
      /\ \A e \in Clients :
           /\ totalPkt[e] <= totalPkt'[e]
           /\ Cardinality(InFlight(e)') - totalPkt'[e] <= Cardinality(InFlight(e)) - totalPkt[e]
  BY ClientSendsCounted
<1>4. TesterCounted'
  <2> SUFFICES ASSUME sPc = "bandwidthTest", NEW e \in Clients, <<currentTest, e>> \in issued
               PROVE  bt.pktCount + Cardinality(InFlight(e)') <= totalPkt'[e]
    BY <1>2 DEF TesterCounted, InFlight, serverVars
  <2>1. bt.pktCount + Cardinality(InFlight(e)) <= totalPkt[e]
    BY DEF LossInv, TesterCounted
  <2>2. IsFiniteSet(InFlight(e)) /\ IsFiniteSet(InFlight(e)')
    BY <1>3, FS_Subset DEF LossInv, FlightCounted, InFlight
  <2>3. Cardinality(InFlight(e)) \in Nat /\ Cardinality(InFlight(e)') \in Nat
    BY <2>2, FS_CardinalityType
  <2>4. Cardinality(InFlight(e)') - totalPkt'[e] <= Cardinality(InFlight(e)) - totalPkt[e]
    BY <1>3
  <2> QED
    BY <1>1, <2>1, <2>3, <2>4 DEF Locals
<1>5. ReportsCounted'
  <2> SUFFICES ASSUME NEW d \in net', d.msgType = "bandwidthReport"
               PROVE  d.dst \in Clients /\ d.w19 \in 0 .. totalPkt'[d.dst]
    BY DEF ReportsCounted
  <2>1. d \in net
    BY <1>2 DEF Idles, Takes, Sends
  <2>2. d.dst \in Clients /\ d.w19 \in 0 .. totalPkt[d.dst]
    BY <2>1 DEF LossInv, ReportsCounted
  <2> QED
    BY <1>1, <1>3, <2>2
<1>6. LossIsACount'
  <2> SUFFICES ASSUME NEW e \in BwClients, cPc'[e] = "done"
               PROVE  lossPkt'[e] \in 0 .. totalPkt'[e]
    BY DEF LossIsACount
  <2>1. cPc[e] = "done" => lossPkt[e] \in 0 .. totalPkt[e]
    BY DEF LossInv, LossIsACount
  <2>2. e \in Clients /\ PhaseOf(e)
    BY DEF LossInv, Phases, Clients
  <2>3. CASE e # c
    BY <1>2, <2>1, <2>2, <2>3
  <2>4. CASE e = c /\ Idles(c)
    BY <2>1, <2>2, <2>4 DEF Idles, PhaseOf
  <2>5. ASSUME e = c, NEW d, Sends(c, d) PROVE lossPkt'[e] \in 0 .. totalPkt'[e]
    BY <2>1, <2>2, <2>5 DEF Sends, PhaseOf
  <2>6. ASSUME e = c, NEW d \in net, Takes(c, d) PROVE lossPkt'[e] \in 0 .. totalPkt'[e]
    <3>1. cPc[c] = "waitReport" /\ lossPkt'[c] = totalPkt[c] - d.w19 /\ totalPkt' = totalPkt
      BY <2>2, <2>6 DEF Takes, PhaseOf
    <3>2. d \in Between(c) /\ d \in ToClient /\ d.dst = c
      BY <2>2, <2>6, PeerOf DEF Takes, Between
    <3>3. d.msgType \in TransferTypes
      BY <2>2, <2>6, <3>1, <3>2 DEF PhaseOf
    <3>4. d.src \notin Clients
      BY <3>2 DEF ToClient
    <3>5. d.msgType = "bandwidthReport"
      BY <2>6, <3>3, <3>4 DEF LossInv, Directed, TransferTypes
    <3>6. d.w19 \in 0 .. totalPkt[c]
      BY <3>2, <3>5 DEF LossInv, ReportsCounted
    <3> QED
      BY <1>1, <2>2, <2>6, <3>1, <3>6
  <2> QED
    BY <1>2, <2>3, <2>4, <2>5, <2>6
<1> QED
  BY <1>4, <1>5, <1>6

-----------------------------------------------------------------------------
LEMMA LossInit == Init => LossInv
<1> SUFFICES ASSUME Init PROVE LossInv
  OBVIOUS
<1>1. /\ net = {} /\ sPc = "start" /\ BwClients \subseteq Clients
      /\ \A c \in Clients : cPc[c] = "init" /\ totalPkt[c] = 0
  BY DEF Init, NetInit, ServerInit, ClientInit, Clients
<1>2. Phases /\ Directed
  BY <1>1 DEF Phases, PhaseOf, Between, Directed
<1>3. FlightCounted
  <2>1. IsFiniteSet(net) /\ \A c \in Clients : InFlight(c) = {}
    BY <1>1, FS_EmptySet DEF InFlight
  <2>2. \A c \in Clients : Cardinality(InFlight(c)) = 0
    BY <2>1, FS_EmptySet
  <2> QED
    BY <1>1, <2>1, <2>2 DEF FlightCounted
<1>4. TesterCounted /\ ReportsCounted /\ LossIsACount
  BY <1>1 DEF TesterCounted, ReportsCounted, LossIsACount
<1> QED
  BY <1>2, <1>3, <1>4, IsolationInit DEF LossInv

LEMMA LossStep ==
  ASSUME MaxDup = 0, LossInv, [Next]_vars
  PROVE  LossInv'
<1>1. TypeOK /\ (NoWrap => IdsInv) /\ (NoWrap' => NoWrap) /\ IsolationInv'
  BY IsolationStep, NoWrapBefore DEF LossInv, IsolationInv
<1> SUFFICES Phases' /\ Directed' /\ FlightCounted'
             /\ (NoWrap => TesterCounted' /\ ReportsCounted' /\ LossIsACount')
  BY <1>1 DEF LossInv
<1>2. CASE ServerStep
  BY <1>1, <1>2, ServerCounts, ServerCountsSent
<1>3. CASE \E c \in Clients : ClientStep(c)
  BY <1>3, ClientPhases, ClientSendsCounted, ClientCounts
<1>4. CASE NetworkLoses \/ Tick \/ UNCHANGED vars
  <2>1. net' \subseteq net /\ UNCHANGED <<serverVars, clientVars>>
    BY <1>4 DEF NetworkLoses, Lose, Tick, vars, netVars
  <2>2. Phases' /\ Directed' /\ (NoWrap => ReportsCounted' /\ LossIsACount')
    BY <2>1 DEF LossInv, Phases, PhaseOf, Between, Peer, Directed, ReportsCounted,
                LossIsACount, clientVars
  <2>3. ASSUME NEW c \in Clients
        PROVE  /\ Cardinality(InFlight(c)) \in Nat /\ Cardinality(InFlight(c)') \in Nat
               /\ Cardinality(InFlight(c)') <= Cardinality(InFlight(c))
    <3>1. InFlight(c)' \in SUBSET InFlight(c) /\ IsFiniteSet(InFlight(c))
      BY <2>1, FS_Subset DEF LossInv, FlightCounted, InFlight
    <3> QED
      BY <3>1, FS_Subset, FS_CardinalityType
  <2>4. bt \in Locals /\ totalPkt \in [Clients -> Nat]
    BY <1>1 DEF TypeOK, ServerTypeOK, ClientTypeOK
  <2>5. FlightCounted'
    <3>1. IsFiniteSet(net')
      BY <2>1, FS_Subset DEF LossInv, FlightCounted
    <3>2. \A c \in Clients : Cardinality(InFlight(c)') <= totalPkt[c]
      BY <2>3, <2>4 DEF LossInv, FlightCounted
    <3> QED
      BY <2>1, <3>1, <3>2 DEF FlightCounted, InFlight, clientVars
  <2>6. NoWrap => TesterCounted'
    <3> SUFFICES ASSUME NoWrap, sPc = "bandwidthTest", NEW c \in Clients,
                        <<currentTest, c>> \in issued
                 PROVE  bt.pktCount + Cardinality(InFlight(c)') <= totalPkt[c]
      BY <2>1 DEF TesterCounted, InFlight, serverVars, clientVars
    <3>1. bt.pktCount + Cardinality(InFlight(c)) <= totalPkt[c]
      BY DEF LossInv, TesterCounted
    <3> QED
      BY <2>3, <2>4, <3>1 DEF Locals
  <2> QED
    BY <2>2, <2>5, <2>6
<1> QED
  BY <1>2, <1>3, <1>4 DEF Next

\* The loss is a count: on a network that duplicates nothing, and while ids do
\* not wrap, a bandwidth client that ends prints between none and all of its
\* packets as lost, whatever the network loses, delays and reorders and however
\* many clients share the server.
THEOREM LossBoundedBySent == MaxDup = 0 => (Spec => [](NoWrap => LossIsACount))
<1> SUFFICES ASSUME MaxDup = 0 PROVE Spec => [](NoWrap => LossIsACount)
  OBVIOUS
<1>1. Init => LossInv
  BY LossInit
<1>2. LossInv /\ [Next]_vars => LossInv'
  BY LossStep
<1>3. LossInv => (NoWrap => LossIsACount)
  BY DEF LossInv
<1> QED
  BY <1>1, <1>2, <1>3, PTL DEF Spec

=============================================================================
