------------------------------- MODULE Process -------------------------------
(***************************************************************************)
(* The code of one netTester process that does not depend on the other     *)
(* processes: the program from its command line to its exit (Program), and *)
(* the helpers it or its headers have, each of which keeps its state to    *)
(* itself.  They share nothing, so a behaviour exercises one of them,      *)
(* whichever it begins with.                                               *)
(***************************************************************************)
EXTENDS Program, MessageCodec, IntegerParser, HelpText, Formatting, Strings, Database

VARIABLE part  \* the part this behaviour exercises, "none" before its first step

vars == <<part, programVars, codecVars, integerVars, helpVars, formatVars, stringVars, dbVars>>

Init ==
  /\ part = "none"
  /\ ProgramInit /\ CodecInit /\ IntegerInit /\ HelpInit
  /\ FormatInit /\ StringsInit /\ DatabaseInit

Exercises(name) == part \in {"none", name} /\ part' = name

ProgramRuns ==
  /\ Exercises("program")
  /\ ProgramNext
  /\ UNCHANGED <<codecVars, integerVars, helpVars, formatVars, stringVars, dbVars>>

CodecRuns ==
  /\ Exercises("codec")
  /\ CodecStep
  /\ UNCHANGED <<programVars, integerVars, helpVars, formatVars, stringVars, dbVars>>

IntegerRuns ==
  /\ Exercises("integer")
  /\ IntegerStep
  /\ UNCHANGED <<programVars, codecVars, helpVars, formatVars, stringVars, dbVars>>

HelpRuns ==
  /\ Exercises("help")
  /\ HelpStep
  /\ UNCHANGED <<programVars, codecVars, integerVars, formatVars, stringVars, dbVars>>

FormatRuns ==
  /\ Exercises("format")
  /\ FormatStep
  /\ UNCHANGED <<programVars, codecVars, integerVars, helpVars, stringVars, dbVars>>

StringsRun ==
  /\ Exercises("strings")
  /\ StringStep
  /\ UNCHANGED <<programVars, codecVars, integerVars, helpVars, formatVars, dbVars>>

DatabaseRuns ==
  /\ Exercises("database")
  /\ DatabaseStep
  /\ UNCHANGED <<programVars, codecVars, integerVars, helpVars, formatVars, stringVars>>

Next ==
  \/ ProgramRuns \/ CodecRuns \/ IntegerRuns \/ HelpRuns
  \/ FormatRuns \/ StringsRun \/ DatabaseRuns

\* Where the program waits for a datagram.
Waiting == mPc \in {"serve", "rttConfirm", "rttWait", "bwConfirm", "report"}

ProgramProceeds == ~Waiting /\ ProgramRuns

TimePasses ==
  /\ Exercises("program")
  /\ mPc = "pace" /\ PassTime
  /\ UNCHANGED <<clVars, connVars, progVars>>
  /\ UNCHANGED <<codecVars, integerVars, helpVars, formatVars, stringVars, dbVars>>

\* The program's one thread is scheduled and the clock goes on; that a
\* datagram comes is not assumed.
Fairness == WF_vars(ProgramProceeds) /\ WF_vars(TimePasses)

Spec == Init /\ [][Next]_vars /\ Fairness

-----------------------------------------------------------------------------
(***************************************************************************)
(* Whatever its command line, its rate and the time it loses, a process    *)
(* ends or comes to wait for a datagram: the parser gets through argv,     *)
(* whose words it moves as it goes, and the send loop through its test, at *)
(* any rate, 0 packets a second included (cxxopts.hpp:1754-1881,           *)
(* Client.cpp:73-96,185-215).                                              *)
(***************************************************************************)
EndsOrWaits == (part = "program") ~> (Waiting \/ mPc \in {"exit", "closed"})

=============================================================================
