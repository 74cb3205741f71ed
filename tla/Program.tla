------------------------------ MODULE Program ------------------------------
(***************************************************************************)
(* One netTester process from its command line to its exit code            *)
(* (src/main.cpp): main parses its options, makes a Server or a Client     *)
(* around a UdpConnection and runs it, and a bandwidth client paces its    *)
(* packets.  CommandLine, Connection and Pacing say how each of these      *)
(* goes; here they are composed, with the other side of the network left   *)
(* open: what a receive returns is a choice.                               *)
(***************************************************************************)
EXTENDS CommandLine, Connection, Pacing

CONSTANT RttTimes  \* packets of an RTT test (10)

\* There is a port the other side sends from.
ASSUME ProgramAssumption == RttTimes \in Nat /\ PortSpace > 1

VARIABLES
  mPc,       \* where main's thread is
  job,       \* what main read from its options, once it has chosen
  rounds,    \* startRtt: packets left to send
  exitCode   \* of the process, once mPc is "exit"

progVars == <<mPc, job, rounds, exitCode>>
programVars == <<clVars, connVars, pacingVars, progVars>>

NoJob == [port |-> 0, host |-> "empty", time |-> 0, interval |-> 0, rate |-> <<0, "B">>]

ProgramInit ==
  /\ CommandLineInit
  /\ ConnectionInit
  /\ PacingInit
  /\ mPc = "command"
  /\ job = NoJob
  /\ rounds = 0
  /\ exitCode = 0

\* Process exit, and the next thing main does.
Exit(code) == mPc' = "exit" /\ exitCode' = code
Goto(pc) == mPc' = pc /\ UNCHANGED exitCode

\* Every exception that reaches main is printed, and the process returns 0.
Throws == Exit(0)

-----------------------------------------------------------------------------
(* The choice.  Once it is made nobody looks at the command line again.    *)

ForgetCommandLine ==
  /\ argv' = <<>> /\ given' = <<>> /\ sequential' = <<>>
  /\ current' = 1 /\ nextKeep' = 1
  /\ results' = [l \in {} |-> 0]
  /\ clPc' = "done"

AsInt(name) == CHOOSE n \in ValueOf(name).int : TRUE

ReadOptions ==
  /\ mPc = "command"
  /\ CommandLineStep
  /\ UNCHANGED <<connVars, pacingVars, progVars>>

PrintUsage ==
  /\ mPc = "command"
  /\ clPc = "usage"
  /\ Exit(1)
  /\ ForgetCommandLine
  /\ UNCHANGED <<connVars, pacingVars, job, rounds>>

\* -h, or neither -s nor -c.
PrintHelp ==
  /\ mPc = "command"
  /\ clPc = "parsed"
  /\ Count("help") > 0 \/ (Count("s") = 0 /\ Count("c") = 0)
  /\ Exit(0)
  /\ ForgetCommandLine
  /\ UNCHANGED <<connVars, pacingVars, job, rounds>>

Running == mPc = "command" /\ clPc = "parsed" /\ Count("help") = 0

\* -s wins over -c.
ChooseServer ==
  /\ Running
  /\ Count("s") > 0
  /\ job' = [NoJob EXCEPT !.port = AsInt("p")]
  /\ Goto("newServer")
  /\ ForgetCommandLine
  /\ UNCHANGED <<connVars, pacingVars, rounds>>

ChooseRtt ==
  /\ Running
  /\ Count("s") = 0 /\ Count("c") > 0 /\ Count("b") = 0
  /\ job' = [NoJob EXCEPT !.port = AsInt("p"), !.host = ValueOf("c").addr]
  /\ Goto("newRtt")
  /\ ForgetCommandLine
  /\ UNCHANGED <<connVars, pacingVars, rounds>>

\* The default of -b is never used: main looks at -b only where it counts.
\* stoi throws, or the last letter is no unit, or the test is run.
ChooseBandwidth ==
  /\ Running
  /\ Count("s") = 0 /\ Count("c") > 0 /\ Count("b") > 0
  /\ LET rate == ValueOf("b").rate IN
     \/ /\ rate = {}
        /\ Throws
        /\ UNCHANGED job
     \/ \E r \in rate :
          IF r[2] \in {"B", "K", "M", "G"}
            THEN /\ job' = [port |-> AsInt("p"), host |-> ValueOf("c").addr, time |-> AsInt("t"),
                            interval |-> AsInt("i"), rate |-> r]
                 /\ Goto("newBandwidth")
            ELSE Exit(-1) /\ UNCHANGED job
  /\ ForgetCommandLine
  /\ UNCHANGED <<connVars, pacingVars, rounds>>

-----------------------------------------------------------------------------
(* The constructors.                                                       *)

Built(pc) ==
  IF inited' THEN Goto(pc) ELSE Throws

NewServer ==
  /\ mPc = "newServer"
  /\ \/ InitWith(job.port, "any", 0, "empty") /\ Built("serve")
     \/ BindFails(job.port, "any") /\ Throws
  /\ UNCHANGED <<clVars, pacingVars, job, rounds>>

NewClient ==
  /\ \/ mPc = "newRtt" /\ InitWith(0, "empty", job.port, job.host) /\ Built("rttAsk")
     \/ mPc = "newBandwidth" /\ InitWith(0, "empty", job.port, job.host) /\ Built("bwAsk")
  /\ UNCHANGED <<clVars, pacingVars, job, rounds>>

-----------------------------------------------------------------------------
(* The three programs.                                                     *)

Peers == [host : {"literal"}, port : {1}]

\* A turn of start(): a datagram, answered or not; an error ends the server,
\* and server.close() is never reached.
Serve ==
  /\ mPc = "serve"
  /\ \/ (\E from \in Peers : Receive(from)) /\ UNCHANGED <<mPc, exitCode>>
     \/ UNCHANGED connVars /\ Throws
  /\ UNCHANGED <<clVars, pacingVars, job, rounds>>

\* Mutant: the value of -b stays signed.
CheckRateSigned ==
  /\ mPc = "bwAsk"
  /\ pPc = "idle"
  /\ Admit(job.rate[1], job.rate[2], job.time, job.interval)
  /\ IF pPc' = "aborted" THEN Exit(134) ELSE UNCHANGED <<mPc, exitCode>>
  /\ UNCHANGED <<clVars, connVars, job, rounds>>

\* startBandwidth asserts its arguments before it asks: abort() ends the
\* process of a build that checks assertions.
CheckRate ==
  /\ mPc = "bwAsk"
  /\ pPc = "idle"
  /\ Admit(job.rate[1] % UintSpace, job.rate[2], job.time, job.interval)
  /\ IF pPc' = "aborted" THEN Exit(134) ELSE UNCHANGED <<mPc, exitCode>>
  /\ UNCHANGED <<clVars, connVars, job, rounds>>

Ask ==
  /\ \/ mPc = "rttAsk"
     \/ mPc = "bwAsk" /\ pPc = "admitted"
  /\ IF CanSend THEN Goto(IF mPc = "rttAsk" THEN "rttConfirm" ELSE "bwConfirm") ELSE Throws
  /\ UNCHANGED <<clVars, connVars, pacingVars, job, rounds>>

ReceiveRttConfirm ==
  /\ mPc = "rttConfirm"
  /\ \/ (\E from \in Peers : Receive(from)) /\ rounds' = RttTimes /\ Goto("rttSend")
     \/ UNCHANGED <<connVars, rounds>> /\ Throws
  /\ UNCHANGED <<clVars, pacingVars, job>>

SendRound ==
  /\ mPc = "rttSend"
  /\ rounds > 0
  /\ rounds' = rounds - 1
  /\ IF CanSend THEN Goto("rttWait") ELSE Throws
  /\ UNCHANGED <<clVars, connVars, pacingVars, job>>

ReceiveRound ==
  /\ mPc = "rttWait"
  /\ \/ (\E from \in Peers : Receive(from)) /\ Goto("rttSend")
     \/ UNCHANGED connVars /\ Throws
  /\ UNCHANGED <<clVars, pacingVars, job, rounds>>

EndRtt ==
  /\ mPc = "rttSend"
  /\ rounds = 0
  /\ Goto("close")
  /\ UNCHANGED <<clVars, connVars, pacingVars, job, rounds>>

ReceiveBandwidthConfirm ==
  /\ mPc = "bwConfirm"
  /\ \/ (\E from \in Peers : Receive(from)) /\ Goto("pace") /\ BeginLoop
     \/ UNCHANGED <<connVars, pacingVars>> /\ Throws
  /\ UNCHANGED <<clVars, job, rounds>>

Pace ==
  /\ mPc = "pace"
  /\ PacingStep
  /\ UNCHANGED <<clVars, connVars, progVars>>

SendFinish ==
  /\ mPc = "pace"
  /\ pPc = "finish"
  /\ Goto("report")
  /\ UNCHANGED <<clVars, connVars, pacingVars, job, rounds>>

ReceiveReport ==
  /\ mPc = "report"
  /\ \/ (\E from \in Peers : Receive(from)) /\ Goto("close")
     \/ UNCHANGED connVars /\ Throws
  /\ UNCHANGED <<clVars, pacingVars, job, rounds>>

\* Mutant: main returns without client.close().
ReturnUnclosed ==
  /\ mPc = "close"
  /\ mPc' = "closed"
  /\ exitCode' = 0
  /\ UNCHANGED <<clVars, connVars, pacingVars, job, rounds>>

\* client.close(), and main returns.
CloseClient ==
  /\ mPc = "close"
  /\ Close
  /\ mPc' = "closed"
  /\ exitCode' = 0
  /\ UNCHANGED <<clVars, pacingVars, job, rounds>>

ClientRuns ==
  \/ CheckRate \/ Ask
  \/ ReceiveRttConfirm \/ SendRound \/ ReceiveRound \/ EndRtt
  \/ ReceiveBandwidthConfirm \/ Pace \/ SendFinish \/ ReceiveReport
  \/ CloseClient

ProgramNext ==
  \/ ReadOptions \/ PrintUsage \/ PrintHelp
  \/ ChooseServer \/ ChooseRtt \/ ChooseBandwidth
  \/ NewServer \/ NewClient
  \/ Serve
  \/ ClientRuns

-----------------------------------------------------------------------------
ProgramTypeOK ==
  /\ ConnectionTypeOK
  /\ PacingTypeOK
  /\ rounds \in Nat
  /\ exitCode \in Int

UsesConnection ==
  mPc \in {"serve", "rttAsk", "bwAsk", "rttConfirm", "bwConfirm", "rttSend", "rttWait",
           "pace", "report", "close"}

(***************************************************************************)
(* The socket's life: while the program sends or receives, its connection  *)
(* is initialised and not closed and Winsock is up; no socket is closed    *)
(* twice; and a process that ends by the end of its test has closed what   *)
(* it opened (UdpConnection.cpp:38-73, whose inited stays true after       *)
(* close(), Client.cpp:39,46, Server.cpp:184).                             *)
(***************************************************************************)
SocketDiscipline ==
  /\ UsesConnection => inited /\ sock \in {"open", "invalid"} /\ wsa = 1 /\ closes = 0
  /\ closes <= 1
  /\ mPc = "closed" => sock = "closed" /\ wsa = 0

(***************************************************************************)
(* A port the user named is the port used, as long as it is one: the       *)
(* server listens on it and the client sends to it, at the address given   *)
(* (socketUtil.h:33-78, UdpConnection.cpp:45-61,89-96).                    *)
(***************************************************************************)
EndpointIsNamed ==
  (UsesConnection /\ job.port < PortSpace) =>
    IF mPc = "serve" THEN localAddr = [host |-> "any", port |-> job.port]
    ELSE /\ remoteAddr.port = job.port
         /\ job.host = "literal" => remoteAddr.host = "literal"

=============================================================================
