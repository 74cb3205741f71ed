------------------------------ MODULE AsyncLog ------------------------------
(***************************************************************************)
(* The process's logger from Logger::init to the destructors at its exit   *)
(* (src/include/seeker/logger.h over spdlog's registry, logger,            *)
(* async_logger, thread_pool, mpmc_blocking_queue, periodic_worker and     *)
(* file_helper).  Three threads: the program's own, which logs; the        *)
(* flusher, which flushes every logger each two seconds; and in            *)
(* asynchronous mode the pool's worker, which takes messages and flush     *)
(* requests from a bounded queue.                                          *)
(*                                                                         *)
(* A critical section without a wait in it is one step; logger_map_mutex_  *)
(* and the flusher's mutex_ are variables because flush_all can block on a *)
(* full queue while it holds both.                                         *)
(***************************************************************************)
EXTENDS CircularQueue, Sequences, FiniteSets

CONSTANTS
  QueueSize,     \* the pool's q_max_items (1024)
  MaxLogged,     \* bound: messages the program logs
  MaxFailed      \* bound: writes to the file that fail

ASSUME AsyncLogAssumption ==
  /\ QueueSize \in Nat \ {0}
  /\ MaxLogged \in Nat /\ MaxFailed \in Nat

LogLevels == {"info", "warn"}
flushLevel == "warn"  \* flush_on(level::warn)

\* A message by the number of the call that logs it.
LogMessages == [number : 1 .. MaxLogged + 1, level : LogLevels]
NoMessage == [number |-> 0, level |-> "info"]

LogMsg(m) == [msg_type |-> "log", msg |-> m]
FlushMsg == [msg_type |-> "flush", msg |-> NoMessage]
TerminateMsg == [msg_type |-> "terminate", msg |-> NoMessage]
AsyncMsgs == {LogMsg(m) : m \in LogMessages} \cup {FlushMsg, TerminateMsg}

VARIABLES
  lPc,            \* where the program's thread is
  useAsyn,        \* Logger::init's parameter
  registryAge,    \* the registry singleton: "none", before or after the Logger's, "dead"
  default_logger, \* registry::default_logger_ and its entry in loggers_
  tp,             \* registry::tp_: "none", "up", "closing" (its destructor) or "gone"
  mapHolder,      \* who holds logger_map_mutex_
  periodicHolder, \* who holds the periodic_worker's mutex_
  active_,        \* periodic_worker::active_
  fPc,            \* where the flusher is
  wPc,            \* where the pool's worker is
  incoming,       \* the worker's incoming_async_msg
  logQueue,       \* the pool's q_
  callMsg,        \* the message the program's call to log is about
  fileBuf,        \* the FILE's buffer
  fileDisk,       \* the file
  fileOpen,       \* fd_ # nullptr
  callCount, failCount

logVars == <<lPc, useAsyn, registryAge, default_logger, tp, mapHolder, periodicHolder,
             active_, fPc, wPc, incoming, logQueue, callMsg, fileBuf, fileDisk, fileOpen,
             callCount, failCount>>

fileVars == <<fileBuf, fileDisk, fileOpen>>
registryVars == <<useAsyn, registryAge, default_logger, tp>>
lockVars == <<mapHolder, periodicHolder, active_>>
countVars == <<callCount, failCount>>

LogPc == {"init", "pool", "configure", "logging", "call", "flush", "exit", "drop",
          "shutdown", "join", "dropAgain", "terminate", "joinPool",
          "closed", "killed", "undefined"}

AsyncLogTypeOK ==
  /\ lPc \in LogPc
  /\ useAsyn \in BOOLEAN
  /\ registryAge \in {"none", "older", "younger", "dead"}
  /\ default_logger \in {"none", "console", "seeker"}
  /\ tp \in {"none", "up", "closing", "gone"}
  /\ mapHolder \in {"nobody", "flusher"}
  /\ periodicHolder \in {"nobody", "flusher"}
  /\ active_ \in BOOLEAN
  /\ fPc \in {"none", "wait", "fired", "flushing", "ended"}
  /\ wPc \in {"none", "idle", "write", "flush", "ended"}
  /\ incoming \in AsyncMsgs
  /\ callMsg \in LogMessages \cup {NoMessage}
  /\ fileBuf \in Seq(LogMessages) /\ fileDisk \in Seq(LogMessages)
  /\ fileOpen \in BOOLEAN
  /\ callCount \in 0 .. MaxLogged + 1
  /\ failCount \in 0 .. MaxFailed

AsyncLogInit ==
  /\ lPc = "init"
  /\ useAsyn = FALSE
  /\ registryAge = "none"
  /\ default_logger = "none"
  /\ tp = "none"
  /\ mapHolder = "nobody" /\ periodicHolder = "nobody" /\ active_ = FALSE
  /\ fPc = "none" /\ wPc = "none"
  /\ incoming = FlushMsg
  /\ logQueue = NewQueue(QueueSize)
  /\ callMsg = NoMessage
  /\ fileBuf = <<>> /\ fileDisk = <<>> /\ fileOpen = FALSE
  /\ callCount = 0 /\ failCount = 0

ProcessRuns == lPc \notin {"closed", "killed", "undefined"}

-----------------------------------------------------------------------------
(* The file and who keeps it open.                                         *)

\* The async_logger lives while the registry, a queued message or the worker
\* holds a shared_ptr to it; its sinks close the file with it.
Queued(q) == {At(q, i) : i \in 0 .. Size(q) - 1}
HoldsLogger(item) == item.msg_type # "terminate"

ReleaseLogger(held) ==
  IF held THEN UNCHANGED fileVars
  ELSE /\ fileDisk' = fileDisk \o fileBuf
       /\ fileBuf' = <<>>
       /\ fileOpen' = FALSE

\* base_sink::log of the file's sink: fwrite buffers the message and may write
\* the buffer out; if it fails, err_handler_ reports it and the message is lost.
SinkLog(m) ==
  \/ /\ fileBuf' = Append(fileBuf, m)
     /\ UNCHANGED <<fileDisk, fileOpen, failCount>>
  \/ /\ fileDisk' = Append(fileDisk \o fileBuf, m)
     /\ fileBuf' = <<>>
     /\ UNCHANGED <<fileOpen, failCount>>
  \/ /\ failCount < MaxFailed
     /\ failCount' = failCount + 1
     /\ UNCHANGED fileVars

SinkFlush ==
  /\ fileDisk' = fileDisk \o fileBuf
  /\ fileBuf' = <<>>
  /\ UNCHANGED fileOpen

\* Mutant: only levels above the one of flush_on.
FlushesAbove(m) == m.level \notin {"info", flushLevel}

ShouldFlush(m) == m.level = flushLevel

-----------------------------------------------------------------------------
(* Logger::init.                                                           *)

\* The log file is opened before anything touches the registry: if that throws,
\* the registry and its console logger are created by the first call to log,
\* after the Logger.
OpenLogFile ==
  /\ lPc = "init"
  /\ useAsyn' \in BOOLEAN
  /\ \/ /\ fileOpen' = TRUE
        /\ registryAge' = "older"
        /\ lPc' = IF useAsyn' THEN "pool" ELSE "configure"
        /\ UNCHANGED default_logger
     \/ /\ registryAge' = "younger"
        /\ default_logger' = "console"
        /\ lPc' = "logging"
        /\ UNCHANGED fileOpen
  /\ UNCHANGED <<tp, lockVars, fPc, wPc, incoming, logQueue, callMsg,
                 fileBuf, fileDisk, countVars>>

InitThreadPool ==
  /\ lPc = "pool"
  /\ tp' = "up" /\ wPc' = "idle"
  /\ lPc' = "configure"
  /\ UNCHANGED <<useAsyn, registryAge, default_logger, lockVars, fPc, incoming, logQueue,
                 callMsg, fileVars, countVars>>

\* Mutant: flush_every is not called.
ConfigureWithoutFlusher ==
  /\ lPc = "configure"
  /\ default_logger' = "seeker"
  /\ lPc' = "logging"
  /\ UNCHANGED <<useAsyn, registryAge, tp, lockVars, fPc, wPc, incoming, logQueue, callMsg,
                 fileVars, countVars>>

\* set_default_logger, set_level, flush_on and flush_every.
Configure ==
  /\ lPc = "configure"
  /\ default_logger' = "seeker"
  /\ active_' = TRUE /\ fPc' = "wait"
  /\ lPc' = "logging"
  /\ UNCHANGED <<useAsyn, registryAge, tp, mapHolder, periodicHolder, wPc, incoming,
                 logQueue, callMsg, fileVars, countVars>>

-----------------------------------------------------------------------------
(* The program's thread logs.                                              *)

\* logger::log, up to the sinks.  The console logger does not write to the file.
CallLog(level) ==
  /\ lPc = "logging"
  /\ callCount < MaxLogged
  /\ default_logger = "seeker"
  /\ callCount' = callCount + 1
  /\ callMsg' = [number |-> callCount + 1, level |-> level]
  /\ lPc' = "call"
  /\ UNCHANGED <<registryVars, lockVars, fPc, wPc, incoming, logQueue, fileVars,
                 failCount>>

\* Where a call returns to: the program, or the destructor whose call it was.
AfterCall == IF callCount = MaxLogged + 1 THEN "drop" ELSE "logging"

\* logger::sink_it_
SinkItSync ==
  /\ lPc = "call" /\ ~useAsyn
  /\ SinkLog(callMsg)
  /\ lPc' = IF ShouldFlush(callMsg) THEN "flush" ELSE AfterCall
  /\ callMsg' = NoMessage
  /\ UNCHANGED <<registryVars, lockVars, fPc, wPc, incoming, logQueue, callCount>>

FlushSync ==
  /\ lPc = "flush"
  /\ SinkFlush
  /\ lPc' = AfterCall
  /\ UNCHANGED <<registryVars, lockVars, fPc, wPc, incoming, logQueue, callMsg, countVars>>

\* Mutant: enqueue_nowait overruns the oldest item.
EnqueueNowait(item) == logQueue' = PushBack(logQueue, item)

\* mpmc_blocking_queue::enqueue waits while the queue is full.
Enqueue(item) == ~Full(logQueue) /\ logQueue' = PushBack(logQueue, item)

\* async_logger::sink_it_
SinkItAsync ==
  /\ lPc = "call" /\ useAsyn
  /\ Enqueue(LogMsg(callMsg))
  /\ lPc' = AfterCall
  /\ callMsg' = NoMessage
  /\ UNCHANGED <<registryVars, lockVars, fPc, wPc, incoming, fileVars, countVars>>

-----------------------------------------------------------------------------
(* The flusher: periodic_worker's loop around registry::flush_all.         *)

FlusherWakes ==
  /\ fPc = "wait" /\ periodicHolder = "nobody" /\ active_
  /\ periodicHolder' = "flusher"
  /\ fPc' = "fired"
  /\ UNCHANGED <<lPc, registryVars, mapHolder, active_, wPc, incoming, logQueue, callMsg,
                 fileVars, countVars>>

FlusherLocksMap ==
  /\ fPc = "fired" /\ mapHolder = "nobody"
  /\ mapHolder' = "flusher"
  /\ fPc' = "flushing"
  /\ UNCHANGED <<lPc, registryVars, periodicHolder, active_, wPc, incoming, logQueue,
                 callMsg, fileVars, countVars>>

\* Every logger of the map is flushed: in asynchronous mode by a request.
FlushAll ==
  /\ fPc = "flushing"
  /\ \/ default_logger # "seeker" /\ UNCHANGED <<logQueue, fileVars>>
     \/ default_logger = "seeker" /\ ~useAsyn /\ SinkFlush /\ UNCHANGED logQueue
     \/ default_logger = "seeker" /\ useAsyn /\ Enqueue(FlushMsg) /\ UNCHANGED fileVars
  /\ fPc' = "wait"
  /\ mapHolder' = "nobody" /\ periodicHolder' = "nobody"
  /\ UNCHANGED <<lPc, registryVars, active_, wPc, incoming, callMsg, countVars>>

FlusherEnds ==
  /\ fPc = "wait" /\ ~active_ /\ periodicHolder = "nobody"
  /\ fPc' = "ended"
  /\ UNCHANGED <<lPc, registryVars, lockVars, wPc, incoming, logQueue, callMsg, fileVars,
                 countVars>>

-----------------------------------------------------------------------------
(* The pool's worker: process_next_msg_.                                   *)

\* Mutant: the message is taken from the queue after pop_front.
DequeueAfterPop ==
  /\ wPc = "idle" /\ ~Empty(logQueue)
  /\ logQueue' = PopFront(logQueue)
  /\ incoming' = FrontItem(logQueue')
  /\ wPc' = "flush"
  /\ UNCHANGED <<lPc, registryVars, lockVars, fPc, callMsg, fileVars, countVars>>

\* The next message is moved out of its slot; a terminate ends the worker's loop.
Dequeue ==
  /\ wPc = "idle" /\ ~Empty(logQueue)
  /\ incoming' = FrontItem(logQueue)
  /\ logQueue' = PopFront([logQueue EXCEPT !.v[logQueue.head] = NoItem])
  /\ wPc' = CASE incoming'.msg_type = "log" -> "write"
              [] incoming'.msg_type = "flush" -> "flush"
              [] incoming'.msg_type = "terminate" -> "ended"
  /\ UNCHANGED <<lPc, registryVars, lockVars, fPc, callMsg, fileVars, countVars>>

\* The logger of the message is released with it.
LoggerHeld == default_logger = "seeker" \/ \E item \in Queued(logQueue) : HoldsLogger(item)

\* backend_sink_it_: the logger is still held by the message.
BackendSinkIt ==
  /\ wPc = "write"
  /\ SinkLog(incoming.msg)
  /\ wPc' = "flush"
  /\ UNCHANGED <<lPc, registryVars, lockVars, fPc, incoming, logQueue, callMsg, callCount>>

\* backend_flush_, if the message asks for it, and the end of process_next_msg_.
BackendFlush ==
  /\ wPc = "flush"
  /\ IF LoggerHeld /\ incoming.msg_type = "log" /\ ~ShouldFlush(incoming.msg)
       THEN UNCHANGED fileVars
       ELSE /\ fileDisk' = fileDisk \o fileBuf
            /\ fileBuf' = <<>>
            /\ fileOpen' = LoggerHeld
  /\ wPc' = "idle"
  /\ incoming' = FlushMsg
  /\ UNCHANGED <<lPc, registryVars, lockVars, fPc, logQueue, callMsg, countVars>>

-----------------------------------------------------------------------------
(* The destructors at exit.                                                *)

\* main returns: the statics are destroyed, the youngest first.  A registry
\* younger than the Logger is gone when ~Logger logs through it.
MainReturns ==
  /\ lPc = "logging"
  /\ IF registryAge = "older" THEN lPc' = "exit" /\ UNCHANGED registryAge
     ELSE lPc' = "undefined" /\ registryAge' = "dead"
  /\ UNCHANGED <<useAsyn, default_logger, tp, lockVars, fPc, wPc, incoming, logQueue,
                 callMsg, fileVars, countVars>>

\* ~Logger: I_LOG("Logger is shutting down.")
LogShuttingDown ==
  /\ lPc = "exit"
  /\ callCount' = MaxLogged + 1
  /\ callMsg' = [number |-> MaxLogged + 1, level |-> "info"]
  /\ lPc' = "call"
  /\ UNCHANGED <<registryVars, lockVars, fPc, wPc, incoming, logQueue, fileVars,
                 failCount>>

WorkerHolds == wPc \in {"write", "flush"}

\* Mutant: a message does not keep its logger.
DropAllAlone ==
  /\ \/ lPc = "drop" /\ lPc' = "shutdown"
     \/ lPc = "dropAgain" /\ lPc' = IF tp = "up" THEN "terminate" ELSE "closed"
  /\ mapHolder = "nobody"
  /\ default_logger' = "none"
  /\ ReleaseLogger(FALSE)
  /\ UNCHANGED <<useAsyn, registryAge, tp, lockVars, fPc, wPc, incoming, logQueue, callMsg,
                 countVars>>

\* registry::drop_all, called by ~Logger and again by shutdown.
DropAll ==
  /\ \/ lPc = "drop" /\ lPc' = "shutdown"
     \/ lPc = "dropAgain" /\ lPc' = IF tp = "up" THEN "terminate" ELSE "closed"
  /\ mapHolder = "nobody"
  /\ default_logger' = "none"
  /\ ReleaseLogger(WorkerHolds \/ \E item \in Queued(logQueue) : HoldsLogger(item))
  /\ UNCHANGED <<useAsyn, registryAge, tp, lockVars, fPc, wPc, incoming, logQueue, callMsg,
                 countVars>>

\* Mutant: the flusher is not told to stop.
StopFlusherSilently ==
  /\ lPc = "shutdown" /\ periodicHolder = "nobody"
  /\ lPc' = "join"
  /\ UNCHANGED <<registryVars, lockVars, fPc, wPc, incoming, logQueue, callMsg, fileVars,
                 countVars>>

\* registry::shutdown resets the flusher first: ~periodic_worker.
StopFlusher ==
  /\ lPc = "shutdown" /\ periodicHolder = "nobody"
  /\ active_' = FALSE
  /\ lPc' = "join"
  /\ UNCHANGED <<registryVars, mapHolder, periodicHolder, fPc, wPc, incoming, logQueue,
                 callMsg, fileVars, countVars>>

JoinFlusher ==
  /\ lPc = "join" /\ fPc = "ended"
  /\ lPc' = "dropAgain"
  /\ UNCHANGED <<registryVars, lockVars, fPc, wPc, incoming, logQueue, callMsg, fileVars,
                 countVars>>

\* ~thread_pool: a terminate for its thread, then join.
PostTerminate ==
  /\ lPc = "terminate"
  /\ Enqueue(TerminateMsg)
  /\ tp' = "closing"
  /\ lPc' = "joinPool"
  /\ UNCHANGED <<useAsyn, registryAge, default_logger, lockVars, fPc, wPc, incoming,
                 callMsg, fileVars, countVars>>

JoinWorker ==
  /\ lPc = "joinPool" /\ wPc = "ended"
  /\ tp' = "gone"
  /\ lPc' = "closed"
  /\ UNCHANGED <<useAsyn, registryAge, default_logger, lockVars, fPc, wPc, incoming,
                 logQueue, callMsg, fileVars, countVars>>

\* The process is killed: no destructor runs and the buffer is lost.
ProcessKilled ==
  /\ ProcessRuns
  /\ lPc' = "killed"
  /\ UNCHANGED <<registryVars, lockVars, fPc, wPc, incoming, logQueue, callMsg, fileVars,
                 countVars>>

-----------------------------------------------------------------------------
InitLogger == OpenLogFile \/ InitThreadPool \/ Configure
FinishCall == SinkItSync \/ FlushSync \/ SinkItAsync
ExitLogger == LogShuttingDown \/ DropAll \/ StopFlusher \/ JoinFlusher \/ PostTerminate
              \/ JoinWorker
ProgramStep == InitLogger \/ FinishCall \/ ExitLogger
FlusherStep == ProcessRuns /\ (FlusherWakes \/ FlusherLocksMap \/ FlushAll \/ FlusherEnds)
WorkerStep == ProcessRuns /\ (Dequeue \/ BackendSinkIt \/ BackendFlush)

AsyncLogNext ==
  \/ ProgramStep
  \/ \E level \in LogLevels : CallLog(level)
  \/ MainReturns
  \/ FlusherStep
  \/ WorkerStep
  \/ ProcessKilled

-----------------------------------------------------------------------------
\* A thread is about to post to the pool.
Posting ==
  \/ useAsyn /\ lPc = "call"
  \/ useAsyn /\ fPc = "flushing" /\ default_logger = "seeker"
  \/ lPc \in {"terminate", "joinPool"}

\* A thread is about to use the file.
UsesFile ==
  \/ lPc \in {"call", "flush"}
  \/ wPc = "write"
  \/ fPc = "flushing" /\ default_logger = "seeker"

(***************************************************************************)
(* Whoever posts finds the pool and whoever writes or flushes finds the    *)
(* file open: the flusher is stopped and the loggers dropped before the    *)
(* pool goes, and a message keeps its logger.  The terminate is the last   *)
(* item of the queue, so the worker ends with nothing behind it.  Only if  *)
(* the file could not be opened does the Logger outlive the registry it    *)
(* logs through (registry-inl.h:189-246, thread_pool-inl.h:34-69,          *)
(* async_logger-inl.h:28-50, seeker/logger.h:40-54,61-102).                *)
(***************************************************************************)
LoggerAlive ==
  /\ Posting => tp \in {"up", "closing"}
  /\ UsesFile => fileOpen
  /\ lPc = "undefined" => registryAge = "dead" /\ ~fileOpen
  /\ \A i \in 0 .. Size(logQueue) - 1 :
       At(logQueue, i).msg_type = "terminate" =>
         i = Size(logQueue) - 1 /\ lPc \in {"joinPool", "killed"}
  /\ wPc = "ended" => Empty(logQueue)

(***************************************************************************)
(* A warning is on the disk when the call that logs it returns, or when    *)
(* the worker is done with it: nothing but the flush that follows it is    *)
(* between it and the disk, so of the warnings a process that crashes      *)
(* leaves out, all but one were still in the queue (logger-inl.h:183-193,  *)
(* async_logger-inl.h:53-81, seeker/logger.h:91).                          *)
(***************************************************************************)
WarnIsFlushed ==
  (\E i \in DOMAIN fileBuf : fileBuf[i].level = flushLevel) =>
    lPc \in {"flush", "killed"} \/ wPc = "flush"

=============================================================================
