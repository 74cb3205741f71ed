----------------------------- MODULE NetTester -----------------------------
(***************************************************************************)
(* The whole system: one server, any number of clients, the network and    *)
(* the clock, and what is expected of them together.                       *)
(***************************************************************************)
EXTENDS Server, Client

CONSTANT MaxTime  \* bound: the clock passes it only while a send loop needs it

ASSUME MaxTimeAssumption == MaxTime \in Nat

vars == <<netVars, serverVars, clientVars>>

Init ==
  /\ NetInit
  /\ ServerInit
  /\ ClientInit

ServerStep ==
  /\ ServerReceives \/ ServerReceiveFails
  /\ UNCHANGED clientVars

ClientStep(c) ==
  /\ ClientProceeds(c) \/ ClientReceives(c) \/ ClientReceiveFails(c)
  /\ UNCHANGED serverVars

NetworkLoses ==
  /\ \E d \in net : Lose(d)
  /\ UNCHANGED <<serverVars, clientVars>>

Tick ==
  /\ now < MaxTime \/ \E c \in Clients : cPc[c] = "bwLoop" /\ now < EndTime(c)
  /\ now' = now + 1
  /\ UNCHANGED <<net, dups, losses, errors, serverVars, clientVars>>

Next ==
  \/ ServerStep
  \/ \E c \in Clients : ClientStep(c)
  \/ NetworkLoses
  \/ Tick

Spec == Init /\ [][Next]_vars

\* The threads run and time passes: a server or client that can take a step
\* without a failing receive takes one.  A loss or a duplication is never
\* owed; with MaxLoss = 0 this is a network that delivers everything.
Fairness ==
  /\ WF_vars(ServerReceives /\ UNCHANGED clientVars)
  /\ \A c \in Clients :
        WF_vars((ClientProceeds(c) \/ ClientReceives(c)) /\ UNCHANGED serverVars)
  /\ WF_vars(Tick)

FairSpec == Spec /\ Fairness

-----------------------------------------------------------------------------
TypeOK == NetTypeOK /\ ServerTypeOK /\ ClientTypeOK

\* The test id has not wrapped yet: ids are 16 bits wide, the generator is
\* an int.
NoWrap == testIdGen <= IdSpace

\* The client at the other end of a datagram.
Peer(d) == IF d.src = ServerAddr THEN d.dst ELSE d.src

\* The client whose test the server is running.
IsTester(c) == sPc = "bandwidthTest" /\ <<currentTest, c>> \in issued

(***************************************************************************)
(* Test isolation: an id is given to one client only, and whatever travels *)
(* under an id travels between the server and that client.  So no packet   *)
(* or finish of one client is taken for another's test, and a report goes  *)
(* to the client whose test it reports.  About Server.cpp:104,148,162,204, *)
(* which match packets to the test by id alone and reply to the last       *)
(* sender, and Client.cpp:72,152, which believe the first datagram.        *)
(***************************************************************************)
TestIsolation ==
  NoWrap =>
    /\ \A s, t \in issued : s[1] = t[1] => s = t
    /\ \A d \in net : d.msgType # "testRequest" => <<d.testId, Peer(d)>> \in issued
    /\ sPc = "bandwidthTest" => \E c \in Clients : IsTester(c)

(***************************************************************************)
(* The server's timeout never cuts a test whose client is still sending:   *)
(* once the server gives up (Server.cpp:86-90), the client's own end time  *)
(* (Client.cpp:180) is more than the grace behind.                         *)
(***************************************************************************)
TimeoutSparesSender ==
  (NoWrap /\ sPc = "bandwidthTest" /\ TimedOut) =>
    \A c \in Clients : IsTester(c) => now > EndTime(c) + Grace

(***************************************************************************)
(* What a client prints as lost packets is a number of packets: Client.cpp *)
(* :227 subtracts the report's receivedPkt from its own count of packets   *)
(* sent.                                                                   *)
(***************************************************************************)
LossIsACount ==
  \A c \in BwClients : cPc[c] = "done" => lossPkt[c] \in 0 .. totalPkt[c]

(***************************************************************************)
(* The jitter is the spread of the delays: no two packets of a test can    *)
(* differ in delay by more than the time since its send loop began         *)
(* (Server.cpp:111-113 with the bounds minDelay and maxDelay start from).  *)
(***************************************************************************)
JitterIsSpread ==
  (NoWrap /\ sPc = "bandwidthTest" /\ bt.pktCount > 0) =>
    \A c \in Clients :
      IsTester(c) => bt.maxDelay - bt.minDelay \in 0 .. now - startTime[c]

(***************************************************************************)
(* Every datagram an RTT client can receive while it waits for the reply   *)
(* of a packet is the echo of that packet: so the round trip it prints     *)
(* (Client.cpp:82-91), which checks neither type nor message id, is that   *)
(* packet's.                                                               *)
(***************************************************************************)
RttReplyMatches ==
  \A c \in RttClients : \A d \in net :
    (cPc[c] = "rttWait" /\ d.dst = c) =>
      d.msgType = "rttTestMsg" /\ d.msgId = nextMid[c] - 1

(***************************************************************************)
(* The server keeps the promises of TestService (while ids do not wrap).   *)
(***************************************************************************)
running == IF sPc = "bandwidthTest"
             THEN {t \in issued : t[1] = currentTest}
             ELSE {}

Service == INSTANCE TestService WITH TestIds <- 0 .. IdSpace - 1

ImplementsTestService == Service!Spec

(***************************************************************************)
(* Liveness.                                                               *)
(***************************************************************************)

\* On a network that delivers everything once, every RTT client gets through
\* all its rounds and ends (Client.cpp:76-95, Server.cpp:217), however the
\* rounds of several clients interleave at the server.
RttCompletes == \A c \in RttClients : <>(cPc[c] = "done")

\* A bandwidth test that began ends: the server goes back to serving, or is
\* down (Server.cpp:82-174).
TestEnds == sPc = "bandwidthTest" ~> sPc # "bandwidthTest"

\* A client that began to send gets its report, unless the server gave its
\* test up or went down (Client.cpp:185-241, Server.cpp:86-90,148-164).
TesterIsServed ==
  \A c \in BwClients :
    cPc[c] = "bwLoop" ~> \/ cPc[c] = "done"
                         \/ <<testId[c], c>> \in abandoned
                         \/ sPc = "down"

-----------------------------------------------------------------------------
(* Sentences of the README and promises of the code that it does not keep;  *)
(* each is refuted by a run of its own.                                    *)

\* The server takes d from its socket in this step.
ServerTakes(d) ==
  /\ d \in net /\ d.dst = ServerAddr
  /\ d \notin net'
  /\ losses' = losses

\* README.md:86, the server runs only one test at a time: no two clients are
\* in a test the server has confirmed.
InTest(c) == cPc[c] \in {"rttLoop", "rttWait", "bwLoop", "waitReport"}
OneTestAtATime == \A c, e \in Clients : InTest(c) /\ InTest(e) => c = e

\* README.md:35 and :100, the server answers a test request with a
\* confirmation that says whether the test is accepted.
RequestIsAnswered ==
  [][\A d \in net : ServerTakes(d) /\ d.msgType = "testRequest"
        => \E r \in net' : r.msgType = "testConfirm" /\ r.dst = d.src /\ r.w19 = d.msgId]_vars

\* README.md:53, the server that receives the finish of the test sends the
\* result report to the client.
FinishIsReported ==
  [][\A d \in net : (/\ ServerTakes(d)
                     /\ sPc = "bandwidthTest"
                     /\ OfCurrentTest(d, "bandwidthFinish"))
        => <<d.testId, d.src>> \in reported']_vars

\* Server.cpp:86-90, a test that has begun to count packets times out: it
\* ends even if nothing more arrives.
TimeoutEndsTest ==
  (sPc = "bandwidthTest" /\ bt.startTimeMs > 0) ~> sPc # "bandwidthTest"

=============================================================================
