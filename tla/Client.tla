------------------------------- MODULE Client -------------------------------
(***************************************************************************)
(* netTester's client (src/Client.cpp).  Each client is a process that     *)
(* runs one test and ends: startRtt or startBandwidth.  Every receive      *)
(* blocks without a timeout and takes whatever datagram comes for the one  *)
(* the code waits for: neither type nor ids are looked at.                 *)
(***************************************************************************)
EXTENDS Network

CONSTANTS
  RttTimes,         \* testTimes of startRtt (10)
  TestSeconds,      \* testSeconds of startBandwidth
  PacketsPerGroup,  \* packestPerGroup; 0 when the rate is below a packet per second
  MaxPackets,       \* bound: no group starts that would exceed it
  Skew              \* the clients' clock minus the server's

ASSUME ClientAssumption ==
  /\ RttTimes \in Nat
  /\ TestSeconds \in Nat
  /\ PacketsPerGroup \in Nat
  /\ MaxPackets \in Nat
  /\ Skew \in Int

VARIABLES
  cPc,        \* where the client's thread is
  testId,     \* the id taken from the first datagram received
  nextMid,    \* nextMid of Message::genMid in the client's process
  testTimes,  \* startRtt: packets left to send
  startTime,  \* startBandwidth: when the send loop began
  groupLeft,  \* startBandwidth: packets left of the group being sent
  totalPkt,   \* startBandwidth: packets sent
  lossPkt     \* startBandwidth: the loss it prints

clientVars == <<cPc, testId, nextMid, testTimes, startTime, groupLeft, totalPkt, lossPkt>>

ClientPc == {"init", "waitConfirm", "rttLoop", "rttWait", "bwLoop", "waitReport",
             "done", "failed"}

ClientTypeOK ==
  /\ cPc \in [Clients -> ClientPc]
  /\ testId \in [Clients -> Nat]
  /\ nextMid \in [Clients -> Nat]
  /\ testTimes \in [Clients -> Nat]
  /\ startTime \in [Clients -> Nat]
  /\ groupLeft \in [Clients -> Nat]
  /\ totalPkt \in [Clients -> Nat]
  /\ lossPkt \in [Clients -> Int]

ClientInit ==
  /\ cPc = [c \in Clients |-> "init"]
  /\ testId = [c \in Clients |-> 0]
  /\ nextMid = [c \in Clients |-> 0]
  /\ testTimes = [c \in Clients |-> RttTimes]
  /\ startTime = [c \in Clients |-> 0]
  /\ groupLeft = [c \in Clients |-> 0]
  /\ totalPkt = [c \in Clients |-> 0]
  /\ lossPkt = [c \in Clients |-> 0]

Goto(c, pc) == cPc' = [cPc EXCEPT ![c] = pc]

genMid(c) == nextMid' = [nextMid EXCEPT ![c] = @ + 1]

\* microTime() on a client's host: the timestamp of what it sends.
ClientClock == now + Skew

\* int64_t endTime, on the server's clock.
EndTime(c) == startTime[c] + TestSeconds * Second

-----------------------------------------------------------------------------
\* The test request; an RTT request asks for 0 seconds.
SendRequest(c) ==
  /\ cPc[c] = "init"
  /\ Send(TestRequest(c, IF c \in RttClients THEN rtt ELSE bandwidth,
                      IF c \in RttClients THEN 0 ELSE TestSeconds,
                      nextMid[c], ClientClock))
  /\ genMid(c)
  /\ Goto(c, "waitConfirm")
  /\ UNCHANGED <<testId, testTimes, startTime, groupLeft, totalPkt, lossPkt>>

\* The first datagram to arrive is parsed as the TestConfirm; its result is
\* only logged.  startBandwidth then builds the packet it will resend, which
\* takes a message id, and starts its clock.
ReceiveConfirm(c, d) ==
  /\ cPc[c] = "waitConfirm"
  /\ Exchange(d, {})
  /\ testId' = [testId EXCEPT ![c] = d.testId]
  /\ IF c \in RttClients
       THEN /\ Goto(c, "rttLoop")
            /\ UNCHANGED <<nextMid, startTime>>
       ELSE /\ Goto(c, "bwLoop")
            /\ genMid(c)
            /\ startTime' = [startTime EXCEPT ![c] = now]
  /\ UNCHANGED <<testTimes, groupLeft, totalPkt, lossPkt>>

-----------------------------------------------------------------------------
(* startRtt: send one packet, wait for one datagram, testTimes times.      *)

SendRtt(c) ==
  /\ cPc[c] = "rttLoop"
  /\ testTimes[c] > 0
  /\ testTimes' = [testTimes EXCEPT ![c] = @ - 1]
  /\ Send(RttTestMsg(c, testId[c], nextMid[c], ClientClock))
  /\ genMid(c)
  /\ Goto(c, "rttWait")
  /\ UNCHANGED <<testId, startTime, groupLeft, totalPkt, lossPkt>>

\* The round trip printed is the clock minus the timestamp of what came.
ReceiveRtt(c, d) ==
  /\ cPc[c] = "rttWait"
  /\ Exchange(d, {})
  /\ Goto(c, "rttLoop")
  /\ UNCHANGED <<testId, nextMid, testTimes, startTime, groupLeft, totalPkt, lossPkt>>

EndRtt(c) ==
  /\ cPc[c] = "rttLoop"
  /\ testTimes[c] = 0
  /\ Goto(c, "done")
  /\ UNCHANGED netVars
  /\ UNCHANGED <<testId, nextMid, testTimes, startTime, groupLeft, totalPkt, lossPkt>>

-----------------------------------------------------------------------------
(* startBandwidth: until endTime, send a group of packets, then sleep if   *)
(* ahead of the rate.  Sleeping is time passing before the next turn.  A   *)
(* turn with an empty group changes nothing.                               *)

StartGroup(c) ==
  /\ cPc[c] = "bwLoop"
  /\ groupLeft[c] = 0
  /\ now < EndTime(c)
  /\ PacketsPerGroup > 0
  /\ totalPkt[c] + PacketsPerGroup <= MaxPackets
  /\ groupLeft' = [groupLeft EXCEPT ![c] = PacketsPerGroup]
  /\ UNCHANGED netVars
  /\ UNCHANGED <<cPc, testId, nextMid, testTimes, startTime, totalPkt, lossPkt>>

SendPacket(c) ==
  /\ cPc[c] = "bwLoop"
  /\ groupLeft[c] > 0
  /\ groupLeft' = [groupLeft EXCEPT ![c] = @ - 1]
  /\ Send(BandwidthTestMsg(c, testId[c], totalPkt[c], nextMid[c], ClientClock))
  /\ genMid(c)
  /\ totalPkt' = [totalPkt EXCEPT ![c] = @ + 1]
  /\ UNCHANGED <<cPc, testId, testTimes, startTime, lossPkt>>

SendFinish(c) ==
  /\ cPc[c] = "bwLoop"
  /\ groupLeft[c] = 0
  /\ now >= EndTime(c)
  /\ Send(BandwidthFinish(c, testId[c], totalPkt[c], nextMid[c], ClientClock))
  /\ genMid(c)
  /\ Goto(c, "waitReport")
  /\ UNCHANGED <<testId, testTimes, startTime, groupLeft, totalPkt, lossPkt>>

\* receivedPkt is the word at offset 19 of whatever came.
ReceiveReport(c, d) ==
  /\ cPc[c] = "waitReport"
  /\ Exchange(d, {})
  /\ lossPkt' = [lossPkt EXCEPT ![c] = totalPkt[c] - d.w19]
  /\ Goto(c, "done")
  /\ UNCHANGED <<testId, nextMid, testTimes, startTime, groupLeft, totalPkt>>

-----------------------------------------------------------------------------
\* recvLen <= 0: an exception that ends the process.
ClientReceiveFails(c) ==
  /\ cPc[c] \in {"waitConfirm", "rttWait", "waitReport"}
  /\ ReceiveFails
  /\ Goto(c, "failed")
  /\ UNCHANGED <<testId, nextMid, testTimes, startTime, groupLeft, totalPkt, lossPkt>>

\* What a client does without waiting for the network.
ClientProceeds(c) ==
  \/ SendRequest(c)
  \/ SendRtt(c)
  \/ EndRtt(c)
  \/ StartGroup(c)
  \/ SendPacket(c)
  \/ SendFinish(c)

ClientReceives(c) ==
  \E d \in Deliverable(c) :
    \/ ReceiveConfirm(c, d)
    \/ ReceiveRtt(c, d)
    \/ ReceiveReport(c, d)

=============================================================================
