------------------------------- MODULE Server -------------------------------
(***************************************************************************)
(* netTester's server (src/Server.cpp): one thread that waits for a        *)
(* datagram, handles it and waits again.  start() is the outer loop; a     *)
(* bandwidth request enters bandwidthTest(), a loop of its own that reads  *)
(* the same socket until the test ends.  An action is one turn of a loop:  *)
(* the recvfrom that returned and all the code up to the next recvfrom.    *)
(***************************************************************************)
EXTENDS Network

CONSTANT Grace  \* the slack of the test timeout, in ms (5000)

ASSUME ServerAssumption == Grace \in Nat

VARIABLES
  sPc,          \* "start" or "bandwidthTest": the loop the thread is in; "down"
  testIdGen,    \* std::atomic<int> testIdGen{1}
  currentTest,  \* uint16_t currentTest{0}
  serverMid,    \* nextMid of Message::genMid in the server's process
  bt,           \* the locals of bandwidthTest
  issued,       \* history: the test ids confirmed, each with its client
  reported,     \* history: the test ids reported, each with the addressee
  abandoned     \* history: the tests the timeout ended

serverVars == <<sPc, testIdGen, currentTest, serverMid, bt, issued, reported, abandoned>>

Locals == [testSeconds : Int, startTimeMs : Int, lastArrivalTimeMs : Int,
           minDelay : Int, maxDelay : Int, pktCount : Nat]

\* Mutant: the counter starts at the -1 of its neighbours.
LocalsCountUnset(testSeconds) ==
  [testSeconds |-> testSeconds, startTimeMs |-> -1, lastArrivalTimeMs |-> -1,
   minDelay |-> IntMax, maxDelay |-> IntMin, pktCount |-> -1]

\* Mutant: the extremes of the delay start at 0.
LocalsFromZero(testSeconds) ==
  [testSeconds |-> testSeconds, startTimeMs |-> -1, lastArrivalTimeMs |-> -1,
   minDelay |-> 0, maxDelay |-> 0, pktCount |-> 0]

\* The locals as bandwidthTest(testSeconds) initialises them.
NewLocals(testSeconds) ==
  [testSeconds |-> testSeconds, startTimeMs |-> -1, lastArrivalTimeMs |-> -1,
   minDelay |-> IntMax, maxDelay |-> IntMin, pktCount |-> 0]

ServerTypeOK ==
  /\ sPc \in {"start", "bandwidthTest", "down"}
  /\ testIdGen \in Nat \ {0}
  /\ currentTest \in Nat
  /\ serverMid \in Nat
  /\ bt \in Locals
  /\ issued \subseteq (Nat \X Clients)
  /\ reported \subseteq (Nat \X Clients)
  /\ abandoned \subseteq (Nat \X Clients)

ServerInit ==
  /\ sPc = "start"
  /\ testIdGen = 1
  /\ currentTest = 0
  /\ serverMid = 0
  /\ bt = NewLocals(0)
  /\ issued = {}
  /\ reported = {}
  /\ abandoned = {}

-----------------------------------------------------------------------------
(* start()                                                                 *)

\* Mutant: testIdGen is read where it should be incremented too.
RequestWithoutNewId(d) ==
  LET tid == ToTestId(testIdGen) IN
  /\ sPc = "start"
  /\ d.msgType = "testRequest"
  /\ serverMid' = serverMid + 1
  /\ Exchange(d, {TestConfirm(d.src, 1, testIdGen, d.msgId, serverMid, now)})
  /\ issued' = issued \cup {<<tid, d.src>>}
  /\ IF d.w15 = bandwidth
       THEN /\ sPc' = "bandwidthTest"
            /\ currentTest' = tid
            /\ bt' = NewLocals(d.w19)
       ELSE UNCHANGED <<sPc, currentTest, bt>>
  /\ UNCHANGED <<testIdGen, reported, abandoned>>

\* case MessageType::testRequest: every request is accepted, under a fresh
\* id; a bandwidth request runs its test before the next turn of the loop.
StartTestRequest(d) ==
  LET tid == ToTestId(testIdGen) IN
  /\ sPc = "start"
  /\ d.msgType = "testRequest"
  /\ testIdGen' = testIdGen + 1
  /\ serverMid' = serverMid + 1
  /\ Exchange(d, {TestConfirm(d.src, 1, testIdGen, d.msgId, serverMid, now)})
  /\ issued' = issued \cup {<<tid, d.src>>}
  /\ IF d.w15 = bandwidth
       THEN /\ sPc' = "bandwidthTest"
            /\ currentTest' = tid
            /\ bt' = NewLocals(d.w19)
       ELSE UNCHANGED <<sPc, currentTest, bt>>
  /\ UNCHANGED <<reported, abandoned>>

\* Mutant: the reply is a message of the server's own.
EchoWithOwnId(d) == [d EXCEPT !.src = ServerAddr, !.dst = d.src, !.msgId = serverMid]

\* conn.reply of the bytes received, to the address they came from.
Echo(d) == [d EXCEPT !.src = ServerAddr, !.dst = d.src]

\* Mutant: the reply is forgotten.
RttTestMsgUnanswered(d) ==
  /\ sPc = "start"
  /\ d.msgType = "rttTestMsg"
  /\ Exchange(d, {})
  /\ UNCHANGED serverVars

\* case MessageType::rttTestMsg: the packet goes back as it came.
StartRttTestMsg(d) ==
  /\ sPc = "start"
  /\ d.msgType = "rttTestMsg"
  /\ Exchange(d, {Echo(d)})
  /\ UNCHANGED serverVars

\* default: a warning, no reply.
StartUnknown(d) ==
  /\ sPc = "start"
  /\ d.msgType \notin {"testRequest", "rttTestMsg"}
  /\ Exchange(d, {})
  /\ UNCHANGED serverVars

-----------------------------------------------------------------------------
(* bandwidthTest()                                                         *)

\* Mutant: the duration of the test is left out of the timeout.
TimedOutAfterGrace ==
  /\ bt.startTimeMs > 0
  /\ now - bt.startTimeMs > Grace

\* The test timeout: looked at only when recvData has returned, and only
\* once a first packet has set startTimeMs.
TimedOut ==
  /\ bt.startTimeMs > 0
  /\ now - bt.startTimeMs > bt.testSeconds * Second + Grace

\* bandwidthTest returns to start(), which resets currentTest; its locals
\* are gone.
LeaveBandwidthTest ==
  /\ sPc' = "start"
  /\ currentTest' = 0
  /\ bt' = NewLocals(0)
  /\ UNCHANGED <<testIdGen, issued>>

\* The timeout: a warning, and the loop is left.
AbandonTest ==
  /\ LeaveBandwidthTest
  /\ abandoned' = abandoned \cup {t \in issued : t[1] = currentTest}
  /\ UNCHANGED <<serverMid, reported>>

\* The datagram that wakes the loop after the timeout is dropped with it.
BandwidthTimeout(d) ==
  /\ sPc = "bandwidthTest"
  /\ TimedOut
  /\ Exchange(d, {})
  /\ AbandonTest

\* Mutant: the test id is not compared.
OfAnyTest(d, type) == d.msgType = type

\* The condition under which bandwidthTest takes a packet or a finish.
OfCurrentTest(d, type) == d.msgType = type /\ d.testId = currentTest

\* A packet of the test: the clock is read for the arrival and the delay.
BandwidthCount(d) ==
  LET delay == now - d.timestamp IN
  /\ sPc = "bandwidthTest"
  /\ ~TimedOut
  /\ OfCurrentTest(d, "bandwidthTestMsg")
  /\ bt' = [bt EXCEPT !.lastArrivalTimeMs = now,
                      !.startTimeMs = IF @ < 0 THEN now ELSE @,
                      !.minDelay = IF delay < @ THEN delay ELSE @,
                      !.maxDelay = IF delay > @ THEN delay ELSE @,
                      !.pktCount = @ + 1]
  /\ Exchange(d, {})
  /\ UNCHANGED <<sPc, testIdGen, currentTest, serverMid, issued, reported, abandoned>>

\* auto passedTimeInMs: the divisor of the bandwidth that is logged.
PassedTimeInMs == bt.lastArrivalTimeMs - bt.startTimeMs

\* Mutant: no break after the report.
EndWithoutLeaving(d) ==
  /\ sPc = "bandwidthTest"
  /\ ~TimedOut
  /\ OfCurrentTest(d, "bandwidthFinish")
  /\ Exchange(d, {BandwidthReport(d.src, bt.maxDelay - bt.minDelay, bt.pktCount,
                                  d.testId, serverMid, now)})
  /\ serverMid' = serverMid + 1
  /\ reported' = reported \cup {<<d.testId, d.src>>}
  /\ UNCHANGED <<sPc, testIdGen, currentTest, bt, issued, abandoned>>

\* Mutant: the loop is left before the report is sent.
EndWithoutReport(d) ==
  /\ sPc = "bandwidthTest"
  /\ ~TimedOut
  /\ OfCurrentTest(d, "bandwidthFinish")
  /\ Exchange(d, {})
  /\ LeaveBandwidthTest
  /\ UNCHANGED <<serverMid, reported, abandoned>>

\* The end of the test: log the result, send the report to the address the
\* finish came from.  Dividing by a passed time of 0 is undefined: where the
\* quotient is just some value the code goes on as if nothing had happened.
BandwidthEnd(d) ==
  /\ sPc = "bandwidthTest"
  /\ ~TimedOut
  /\ OfCurrentTest(d, "bandwidthFinish")
  /\ Exchange(d, {BandwidthReport(d.src, bt.maxDelay - bt.minDelay, bt.pktCount,
                                  d.testId, serverMid, now)})
  /\ serverMid' = serverMid + 1
  /\ reported' = reported \cup {<<d.testId, d.src>>}
  /\ LeaveBandwidthTest
  /\ UNCHANGED abandoned

\* The same division by 0 on a processor that traps it (x86: SIGFPE).
BandwidthTrap(d) ==
  /\ sPc = "bandwidthTest"
  /\ ~TimedOut
  /\ OfCurrentTest(d, "bandwidthFinish")
  /\ PassedTimeInMs = 0
  /\ Exchange(d, {})
  /\ sPc' = "down"
  /\ UNCHANGED <<testIdGen, currentTest, serverMid, bt, issued, reported, abandoned>>

\* Anything else is dropped with a warning: other clients' requests, their
\* RTT packets, leftovers of earlier tests.
BandwidthUnexpected(d) ==
  /\ sPc = "bandwidthTest"
  /\ ~TimedOut
  /\ ~OfCurrentTest(d, "bandwidthTestMsg")
  /\ ~OfCurrentTest(d, "bandwidthFinish")
  /\ Exchange(d, {})
  /\ UNCHANGED serverVars

-----------------------------------------------------------------------------
\* recvLen <= 0: an exception nobody catches before main, which ends the
\* process; but after the timeout bandwidthTest breaks before it looks.
ServerReceiveFails ==
  /\ ReceiveFails
  /\ IF sPc = "bandwidthTest" /\ TimedOut
       THEN AbandonTest
       ELSE /\ sPc \in {"start", "bandwidthTest"}
            /\ sPc' = "down"
            /\ UNCHANGED <<testIdGen, currentTest, serverMid, bt, issued, reported, abandoned>>

ServerReceives ==
  \E d \in Deliverable(ServerAddr) :
    \/ StartTestRequest(d)
    \/ StartRttTestMsg(d)
    \/ StartUnknown(d)
    \/ BandwidthTimeout(d)
    \/ BandwidthCount(d)
    \/ BandwidthEnd(d)
    \/ BandwidthTrap(d)
    \/ BandwidthUnexpected(d)

=============================================================================
