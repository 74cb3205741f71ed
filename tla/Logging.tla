------------------------------- MODULE Logging -------------------------------
(***************************************************************************)
(* The logging of a netTester process: the life of its logger and the      *)
(* threads behind it (AsyncLog), which shall implement what a log promises *)
(* (LogService), and the parts a message goes through on its way, each of  *)
(* which keeps its state to itself: the filters and sinks before a file,   *)
(* the files, and the formatting of the line and of the numbers in it.     *)
(* They share nothing, so a behaviour exercises one of them, whichever it  *)
(* begins with.                                                            *)
(***************************************************************************)
EXTENDS AsyncLog, PatternFormatter, FileSinks, Filters, FormatString, NumberText

VARIABLE unit  \* the unit this behaviour exercises, "none" before its first step

vars == <<unit, logVars, patternVars, sinkVars, filterVars, formatStringVars, numberVars>>

Init ==
  /\ unit = "none"
  /\ AsyncLogInit /\ PatternInit /\ FileSinksInit /\ FiltersInit /\ FormatStringInit /\ NumberInit

Exercises(name) == unit \in {"none", name} /\ unit' = name

OtherThanLog == <<patternVars, sinkVars, filterVars, formatStringVars, numberVars>>

LogRuns ==
  /\ Exercises("log")
  /\ AsyncLogNext
  /\ UNCHANGED OtherThanLog

PatternRuns ==
  /\ Exercises("pattern")
  /\ PatternStep
  /\ UNCHANGED <<logVars, sinkVars, filterVars, formatStringVars, numberVars>>

SinksRun ==
  /\ Exercises("sinks")
  /\ FileSinkStep
  /\ UNCHANGED <<logVars, patternVars, filterVars, formatStringVars, numberVars>>

FiltersRun ==
  /\ Exercises("filters")
  /\ FilterStep
  /\ UNCHANGED <<logVars, patternVars, sinkVars, formatStringVars, numberVars>>

FormatStringRuns ==
  /\ Exercises("format")
  /\ FormatStringStep
  /\ UNCHANGED <<logVars, patternVars, sinkVars, filterVars, numberVars>>

NumbersRun ==
  /\ Exercises("number")
  /\ NumberStep
  /\ UNCHANGED <<logVars, patternVars, sinkVars, filterVars, formatStringVars>>

Next == LogRuns \/ PatternRuns \/ SinksRun \/ FiltersRun \/ FormatStringRuns \/ NumbersRun

ProgramRuns == Exercises("log") /\ ProgramStep /\ UNCHANGED OtherThanLog
FlusherRuns == Exercises("log") /\ FlusherStep /\ UNCHANGED OtherThanLog
WorkerRuns == Exercises("log") /\ WorkerStep /\ UNCHANGED OtherThanLog

\* The flusher and the worker are scheduled while they can go on.  The program
\* may find the flusher's locks taken each time it looks, but the flusher waits
\* two seconds between its rounds, so the program gets them in the end: its
\* fairness is strong.  That it logs or ends is up to it.
Fairness == SF_vars(ProgramRuns) /\ WF_vars(FlusherRuns) /\ WF_vars(WorkerRuns)

Spec == Init /\ [][Next]_vars /\ Fairness

-----------------------------------------------------------------------------
IsLog(queued) == queued.msg_type = "log"
WithLog(logs, queued) == IF IsLog(queued) THEN Append(logs, queued.msg) ELSE logs
LogsIn(items) == FoldLeft(WithLog, <<>>, items)

\* The messages on their way to the file, the oldest first.
pendingMessages ==
  fileBuf
  \o (IF wPc = "write" THEN <<incoming.msg>> ELSE <<>>)
  \o LogsIn(Contents(logQueue))
  \o (IF callMsg = NoMessage THEN <<>> ELSE <<callMsg>>)

serviceState == IF lPc \in {"closed", "killed"} THEN lPc ELSE "open"

Service ==
  INSTANCE LogService WITH
    Messages <- LogMessages, pending <- pendingMessages,
    stored <- fileDisk, reported <- failCount, state <- serviceState

(***************************************************************************)
(* The logger, with its two or three threads, its bounded queue and the    *)
(* FILE's buffer, keeps what the log promises: what it accepts reaches the *)
(* file once and in the order of the calls, whichever thread flushes, and  *)
(* it is closed only when nothing is left (thread_pool-inl.h:34-125,       *)
(* mpmc_blocking_q.h:40-58, registry-inl.h:189-246).                       *)
(***************************************************************************)
Implements == Service!ServiceSpec

IsPending(n) == \E i \in DOMAIN pendingMessages : pendingMessages[i].number = n

(***************************************************************************)
(* A message the program logs does not stay behind: the flusher, or the    *)
(* destructors, see to it that it gets to the file or is reported as       *)
(* failed, unless the process is killed (seeker/logger.h:92,               *)
(* periodic_worker-inl.h:14-37, thread_pool-inl.h:34-55).                  *)
(***************************************************************************)
ReachesFile ==
  \A n \in 1 .. MaxLogged + 1 : IsPending(n) ~> (~IsPending(n) \/ lPc = "killed")

(***************************************************************************)
(* A process that ends gets through its destructors: the flusher, which    *)
(* posts to a bounded queue while it holds its lock and the map's, and the *)
(* worker, which empties it, never wait for one another or for the program *)
(* that joins them (registry-inl.h:225-246, periodic_worker-inl.h:40-50,   *)
(* thread_pool-inl.h:34-55).                                               *)
(***************************************************************************)
ShutdownEnds == (lPc = "exit") ~> (lPc \in {"closed", "killed"})

=============================================================================
