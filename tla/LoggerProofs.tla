---------------------------- MODULE LoggerProofs ----------------------------
(***************************************************************************)
(* The process's logger for every size of the pool's queue and any number  *)
(* of messages: the ring it queues them in, that nobody uses a pool or a   *)
(* file that is gone, and that with its threads, its queue and the FILE's  *)
(* buffer it implements the log that LogService promises.                  *)
(***************************************************************************)
EXTENDS Logging, FoldProofs, SequenceTheorems

USE AsyncLogAssumption

-----------------------------------------------------------------------------
(* The ring.  One slot more than the queue holds; what is stored lies       *)
(* between head and tail, round the end.                                    *)

Slots == 0 .. QueueSize

Ring == [max_items : {QueueSize + 1}, head : Slots, tail : Slots,
         overrun_counter : Nat, v : [Slots -> AsyncMsgs \cup {NoItem}]]

\* Where the item i places behind h lies.
Slot(h, i) == IF h + i <= QueueSize THEN h + i ELSE h + i - QueueSize - 1

\* An index taken modulo the size of the ring is wrapped at most once.
LEMMA WrappedOnce ==
  ASSUME NEW n \in Nat, NEW k \in 0 .. 2 * n + 1
  PROVE  k % (n + 1) = IF k <= n THEN k ELSE k - n - 1
BY SMTT(60)

LEMMA SlotIsModulo ==
  ASSUME NEW h \in Slots, NEW i \in Slots
  PROVE  (h + i) % (QueueSize + 1) = Slot(h, i)
<1>1. QueueSize \in Nat /\ h \in 0 .. QueueSize /\ i \in 0 .. QueueSize
  BY DEF Slots
<1> DEFINE k == h + i
<1>2. k \in 0 .. 2 * QueueSize + 1
  BY <1>1
<1>3. Slot(h, i) = IF k <= QueueSize THEN k ELSE k - QueueSize - 1
  BY <1>1 DEF Slot
<1> HIDE DEF k
<1>4. k % (QueueSize + 1) = IF k <= QueueSize THEN k ELSE k - QueueSize - 1
  BY <1>1, <1>2, WrappedOnce
<1> QED
  BY <1>3, <1>4 DEF k

LEMMA NextSlot ==
  ASSUME NEW h \in Slots, NEW i \in 0 .. QueueSize - 1
  PROVE  /\ Slot(Slot(h, 1), i) = Slot(h, i + 1)
         /\ Slot(h, i + 1) \in Slots /\ Slot(h, i + 1) # h
BY DEF Slot, Slots

LEMMA RingFields ==
  ASSUME NEW q \in Ring
  PROVE  /\ QueueSize \in Nat \ {0} /\ q.max_items = QueueSize + 1
         /\ q.head \in 0 .. QueueSize /\ q.tail \in 0 .. QueueSize
         /\ q.v \in [Slots -> AsyncMsgs \cup {NoItem}] /\ q.overrun_counter \in Nat
         /\ Slots = 0 .. QueueSize
BY DEF Ring, Slots

LEMMA RingIndex ==
  ASSUME NEW q \in Ring
  PROVE  /\ Size(q) \in 0 .. QueueSize
         /\ Size(q) = 0 <=> Empty(q)
         /\ \A i \in 0 .. QueueSize : At(q, i) = q.v[Slot(q.head, i)]
         /\ After(q, q.tail) = Slot(q.tail, 1)
         /\ After(q, q.head) = Slot(q.head, 1)
<1>1. Size(q) \in 0 .. QueueSize /\ (Size(q) = 0 <=> Empty(q))
  BY RingFields DEF Size, Empty
<1>2. ASSUME NEW h \in 0 .. QueueSize, NEW i \in 0 .. QueueSize
      PROVE  (h + i) % q.max_items = Slot(h, i)
  BY SlotIsModulo, RingFields
<1>3. ASSUME NEW i \in 0 .. QueueSize PROVE At(q, i) = q.v[Slot(q.head, i)]
  BY <1>2, RingFields DEF At
<1>4. 1 \in 0 .. QueueSize
  BY RingFields
<1> QED
  BY <1>1, <1>2, <1>3, <1>4, RingFields DEF After

\* What is pushed onto a ring that is not full comes behind everything stored.
LEMMA PushedLast ==
  ASSUME NEW q \in Ring, NEW x \in AsyncMsgs, ~Full(q), NEW p, p = PushBack(q, x)
  PROVE  /\ p \in Ring
         /\ Size(p) = Size(q) + 1
         /\ At(p, Size(q)) = x
         /\ \A i \in 0 .. Size(q) - 1 : At(p, i) = At(q, i)
<1> DEFINE next == Slot(q.tail, 1)
<1>1. next \in Slots /\ next # q.head /\ After(q, q.tail) = next
  BY RingFields, RingIndex DEF Full, Slot
<1>2. p = [q EXCEPT !.v = [q.v EXCEPT ![q.tail] = x], !.tail = next]
  BY <1>1, RingFields DEF PushBack, Ring
<1>3. [q.v EXCEPT ![q.tail] = x] \in [Slots -> AsyncMsgs \cup {NoItem}]
  BY RingFields
<1>4. /\ p \in Ring /\ p.max_items = q.max_items /\ p.head = q.head /\ p.tail = next
      /\ p.v = [q.v EXCEPT ![q.tail] = x]
  <2> DEFINE w == [q.v EXCEPT ![q.tail] = x]
  <2> HIDE DEF w, next
  <2> QED
    BY <1>1, <1>2, <1>3 DEF Ring, w
<1>5. Size(p) = Size(q) + 1
  <2> DEFINE h == q.head
             t == q.tail
  <2>1. /\ h \in 0 .. QueueSize /\ t \in 0 .. QueueSize /\ QueueSize \in Nat \ {0}
        /\ next # h
    BY <1>1, RingFields
  <2>2. Size(q) = IF t >= h THEN t - h ELSE QueueSize + 1 - (h - t)
    BY RingFields DEF Size
  <2>3. Size(p) = IF next >= h THEN next - h ELSE QueueSize + 1 - (h - next)
    BY <1>4, RingFields DEF Size
  <2>4. next = IF t < QueueSize THEN t + 1 ELSE 0
    <3>1. next = IF t + 1 <= QueueSize THEN t + 1 ELSE t + 1 - QueueSize - 1
      BY DEF Slot
    <3> HIDE DEF next, t
    <3> QED
      BY <2>1, <3>1
  <2> HIDE DEF next, h, t
  <2>5. CASE t < QueueSize
    BY <2>1, <2>2, <2>3, <2>4, <2>5
  <2>6. CASE ~(t < QueueSize)
    BY <2>1, <2>2, <2>3, <2>4, <2>6
  <2> QED
    BY <2>5, <2>6
<1>6. Slot(q.head, Size(q)) = q.tail
  BY RingFields DEF Size, Slot
<1>7. ASSUME NEW i \in 0 .. Size(q) - 1
      PROVE  Slot(q.head, i) \in Slots /\ Slot(q.head, i) # q.tail
  <2> DEFINE h == q.head
             t == q.tail
  <2>1. /\ h \in 0 .. QueueSize /\ t \in 0 .. QueueSize /\ QueueSize \in Nat
        /\ Slots = 0 .. QueueSize
    BY RingFields
  <2>2. i \in 0 .. (IF t >= h THEN t - h ELSE QueueSize + 1 - (h - t)) - 1
    BY RingFields DEF Size
  <2>3. Slot(q.head, i) = IF h + i <= QueueSize THEN h + i ELSE h + i - QueueSize - 1
    BY DEF Slot
  <2> HIDE DEF h, t
  <2>4. CASE t >= h
    BY <2>1, <2>2, <2>3, <2>4 DEF t
  <2>5. CASE ~(t >= h)
    BY <2>1, <2>2, <2>3, <2>5 DEF t
  <2> QED
    BY <2>4, <2>5
<1>8. /\ Size(q) \in 0 .. QueueSize
      /\ \A i \in 0 .. QueueSize : At(p, i) = p.v[Slot(q.head, i)]
      /\ \A i \in 0 .. QueueSize : At(q, i) = q.v[Slot(q.head, i)]
  BY <1>4, RingIndex, ZenonT(40)
<1>9. At(p, Size(q)) = x
  BY <1>4, <1>6, <1>8, RingFields
<1>10. ASSUME NEW i \in 0 .. Size(q) - 1 PROVE At(p, i) = At(q, i)
  <2>1. i \in 0 .. QueueSize
    BY <1>8, RingFields
  <2> QED
    BY <1>4, <1>7, <1>8, <2>1, RingFields
<1> QED
  BY <1>4, <1>5, <1>9, <1>10

\* Taking the front out leaves the others in their order.
LEMMA TakenFirst ==
  ASSUME NEW q \in Ring, ~Empty(q), NEW p, p = PopFront([q EXCEPT !.v[q.head] = NoItem])
  PROVE  /\ p \in Ring
         /\ Size(p) = Size(q) - 1
         /\ FrontItem(q) = At(q, 0)
         /\ \A i \in 0 .. Size(p) - 1 : At(p, i) = At(q, i + 1)
<1> DEFINE next == Slot(q.head, 1)
           r == [q EXCEPT !.v[q.head] = NoItem]
<1>1. next \in Slots /\ After(q, q.head) = next
  BY RingFields, RingIndex DEF Slot
<1>2. r.head = q.head /\ After(r, r.head) = next
  BY <1>1 DEF Ring, After
<1>3. p = [q EXCEPT !.v = [q.v EXCEPT ![q.head] = NoItem], !.head = next]
  BY <1>2 DEF PopFront, Ring
<1>4. [q.v EXCEPT ![q.head] = NoItem] \in [Slots -> AsyncMsgs \cup {NoItem}]
  BY RingFields
<1>5. /\ p \in Ring /\ p.max_items = q.max_items /\ p.head = next /\ p.tail = q.tail
      /\ p.v = [q.v EXCEPT ![q.head] = NoItem]
  <2> DEFINE w == [q.v EXCEPT ![q.head] = NoItem]
  <2> HIDE DEF w, next, r
  <2> QED
    BY <1>1, <1>3, <1>4 DEF Ring, w
<1>6. Size(p) = Size(q) - 1 /\ Size(q) \in 1 .. QueueSize
  <2>1. /\ p.max_items = QueueSize + 1 /\ q.max_items = QueueSize + 1
        /\ p.head = next /\ p.tail = q.tail /\ q.tail # q.head
    BY <1>5, RingFields DEF Empty
  <2>2. QueueSize \in Nat /\ q.head \in 0 .. QueueSize /\ q.tail \in 0 .. QueueSize
    BY RingFields
  <2> QED
    BY <2>1, <2>2 DEF Size, Slot
<1>7. Slot(q.head, 0) = q.head
  BY RingFields DEF Slot
<1>8. \A i \in 0 .. Size(p) - 1 :
        /\ Slot(next, i) = Slot(q.head, i + 1)
        /\ Slot(next, i) \in Slots /\ Slot(next, i) # q.head
  BY <1>6, NextSlot, RingFields
<1>9. /\ \A i \in 0 .. QueueSize : At(p, i) = p.v[Slot(next, i)]
      /\ \A i \in 0 .. QueueSize : At(q, i) = q.v[Slot(q.head, i)]
  BY <1>5, RingIndex
<1>10. FrontItem(q) = At(q, 0)
  BY <1>7, <1>9, RingFields DEF FrontItem
<1>11. ASSUME NEW i \in 0 .. Size(p) - 1 PROVE At(p, i) = At(q, i + 1)
  <2>1. i \in 0 .. QueueSize /\ i + 1 \in 0 .. QueueSize
    BY <1>6, RingFields
  <2>2. At(q, i + 1) = q.v[Slot(q.head, i + 1)] /\ At(p, i) = p.v[Slot(next, i)]
    BY <1>9, <2>1
  <2> HIDE DEF next, r
  <2> QED
    BY <1>5, <1>8, <2>2, RingFields
<1> QED
  BY <1>5, <1>6, <1>10, <1>11

-----------------------------------------------------------------------------
(* The inductive invariant.  The order in which the destructors stop the    *)
(* flusher, drop the loggers and end the pool is what keeps alive what the  *)
(* three threads use: each phase of the program's thread says which of them *)
(* are still there.                                                         *)

ControlTypes ==
  /\ lPc \in LogPc /\ useAsyn \in BOOLEAN
  /\ registryAge \in {"none", "older", "younger", "dead"}
  /\ default_logger \in {"none", "console", "seeker"}
  /\ tp \in {"none", "up", "closing", "gone"}
  /\ fPc \in {"none", "wait", "fired", "flushing", "ended"}
  /\ wPc \in {"none", "idle", "write", "flush", "ended"}
  /\ callCount \in 0 .. MaxLogged + 1
  /\ lPc = "call" => callMsg \in LogMessages

\* Before the logger is configured there is no flusher and no logger.
NothingYet ==
  /\ lPc = "init" => registryAge = "none" /\ tp = "none" /\ ~fileOpen
  /\ lPc \notin {"init", "killed"} => registryAge # "none"
  /\ lPc \in {"init", "pool"} => wPc = "none"
  /\ lPc \in {"init", "pool", "configure"} => fPc = "none" /\ default_logger = "none"

\* Where the log file could not be opened there are no threads, and the program
\* logs to the console only.
ConsoleOnly ==
  /\ registryAge \in {"younger", "dead"} =>
       /\ ~fileOpen /\ fPc = "none" /\ wPc = "none" /\ default_logger = "console"
       /\ lPc \in {"logging", "undefined", "killed"}
  /\ lPc = "undefined" => registryAge = "dead"

\* Which of the logger, the pool and the flusher each phase finds.
LoggerThere ==
  (registryAge = "older" /\ lPc \in {"logging", "call", "flush", "exit", "drop"}) =>
    default_logger = "seeker"

PoolThere ==
  /\ (useAsyn /\ registryAge = "older"
       /\ lPc \in {"configure", "logging", "call", "flush", "exit", "drop", "shutdown",
                   "join", "dropAgain", "terminate"}) => tp = "up"
  /\ (useAsyn /\ fPc \in {"wait", "fired", "flushing"}) => tp = "up"
  /\ lPc = "terminate" => tp = "up"
  /\ lPc = "joinPool" => tp = "closing"

FlusherGone == lPc \in {"dropAgain", "terminate", "joinPool", "closed"} => fPc = "ended"

Control == ControlTypes /\ NothingYet /\ ConsoleOnly /\ LoggerThere /\ PoolThere /\ FlusherGone

\* What is queued, whoever holds the file open, and the end of the queue.
QueueItems ==
  logQueue \in Ring /\ \A i \in 0 .. Size(logQueue) - 1 : At(logQueue, i) \in AsyncMsgs

FileHeld ==
  (default_logger = "seeker" \/ wPc \in {"write", "flush"}
    \/ \E i \in 0 .. Size(logQueue) - 1 : HoldsLogger(At(logQueue, i))) => fileOpen

TerminateLast ==
  \A i \in 0 .. Size(logQueue) - 1 :
    At(logQueue, i).msg_type = "terminate" =>
      i = Size(logQueue) - 1 /\ lPc \in {"joinPool", "killed"}

NothingQueued ==
  /\ lPc \in {"init", "pool", "configure"} => Empty(logQueue) /\ wPc \in {"none", "idle"}
  /\ lPc \in {"pool", "configure"} => fileOpen

WorkerDone ==
  wPc = "ended" => Empty(logQueue) /\ lPc \in {"joinPool", "closed", "killed"} /\ fPc = "ended"

LoggerInv ==
  Control /\ QueueItems /\ FileHeld /\ NothingQueued /\ TerminateLast /\ WorkerDone

-----------------------------------------------------------------------------
LEMMA MsgTypes ==
  /\ FlushMsg \in AsyncMsgs /\ TerminateMsg \in AsyncMsgs
  /\ \A m \in LogMessages : LogMsg(m) \in AsyncMsgs /\ LogMsg(m).msg_type = "log"
  /\ FlushMsg.msg_type = "flush" /\ TerminateMsg.msg_type = "terminate"
  /\ \A x \in AsyncMsgs : x.msg_type \in {"log", "flush", "terminate"}
BY DEF AsyncMsgs, FlushMsg, TerminateMsg, LogMsg

\* What a post to the pool does to the queue.
LEMMA Enqueued ==
  ASSUME QueueItems, NEW x \in AsyncMsgs, Enqueue(x)
  PROVE  /\ QueueItems'
         /\ Size(logQueue') = Size(logQueue) + 1 /\ Size(logQueue) \in Nat
         /\ At(logQueue', Size(logQueue)) = x
         /\ \A i \in 0 .. Size(logQueue) - 1 : At(logQueue', i) = At(logQueue, i)
<1>1. logQueue \in Ring /\ ~Full(logQueue) /\ logQueue' = PushBack(logQueue, x)
  BY DEF QueueItems, Enqueue
<1>2. /\ logQueue' \in Ring
      /\ Size(logQueue') = Size(logQueue) + 1
      /\ At(logQueue', Size(logQueue)) = x
      /\ \A i \in 0 .. Size(logQueue) - 1 : At(logQueue', i) = At(logQueue, i)
  BY <1>1, PushedLast
<1>3. Size(logQueue) \in Nat
  BY <1>1, RingIndex
<1>4. \A i \in 0 .. Size(logQueue') - 1 : At(logQueue', i) \in AsyncMsgs
  BY <1>2, <1>3 DEF QueueItems
<1> QED
  BY <1>2, <1>3, <1>4 DEF QueueItems

\* What the worker's taking a message does to the queue.
LEMMA Dequeued ==
  ASSUME QueueItems, Dequeue
  PROVE  /\ QueueItems'
         /\ Size(logQueue) \in Nat \ {0} /\ Size(logQueue') = Size(logQueue) - 1
         /\ \A i \in 0 .. Size(logQueue') - 1 : At(logQueue', i) = At(logQueue, i + 1)
         /\ At(logQueue, 0) \in AsyncMsgs
         /\ wPc' = CASE At(logQueue, 0).msg_type = "log" -> "write"
                     [] At(logQueue, 0).msg_type = "flush" -> "flush"
                     [] At(logQueue, 0).msg_type = "terminate" -> "ended"
<1>1. /\ logQueue \in Ring /\ ~Empty(logQueue)
      /\ logQueue' = PopFront([logQueue EXCEPT !.v[logQueue.head] = NoItem])
      /\ incoming' = FrontItem(logQueue)
  BY DEF QueueItems, Dequeue
<1>2. /\ logQueue' \in Ring
      /\ Size(logQueue') = Size(logQueue) - 1
      /\ FrontItem(logQueue) = At(logQueue, 0)
      /\ \A i \in 0 .. Size(logQueue') - 1 : At(logQueue', i) = At(logQueue, i + 1)
  BY <1>1, TakenFirst
<1>3. Size(logQueue) \in Nat \ {0}
  BY <1>1, RingIndex
<1>4. \A i \in 0 .. Size(logQueue') - 1 : At(logQueue', i) \in AsyncMsgs
  BY <1>2, <1>3 DEF QueueItems
<1>5. At(logQueue, 0) \in AsyncMsgs
  BY <1>3 DEF QueueItems
<1>6. incoming' = At(logQueue, 0)
  BY <1>1, <1>2
<1> QED
  BY <1>2, <1>3, <1>4, <1>5, <1>6 DEF QueueItems, Dequeue

LEMMA LoggerInit == AsyncLogInit => LoggerInv
<1> SUFFICES ASSUME AsyncLogInit PROVE LoggerInv
  OBVIOUS
<1>1. Control
  <2>1. callCount \in 0 .. MaxLogged + 1
    BY DEF AsyncLogInit
  <2> QED
    BY <2>1 DEF AsyncLogInit, Control, ControlTypes, LogPc, NothingYet, ConsoleOnly,
                LoggerThere, PoolThere, FlusherGone
<1>2. logQueue \in Ring /\ Size(logQueue) = 0 /\ Empty(logQueue)
  BY DEF AsyncLogInit, NewQueue, Ring, Slots, Size, Empty
<1> QED
  BY <1>1, <1>2 DEF LoggerInv, QueueItems, FileHeld, NothingQueued, TerminateLast, WorkerDone,
                    AsyncLogInit

-----------------------------------------------------------------------------
(* The control part.                                                       *)

LEMMA StartupKeeps ==
  ASSUME Control, OpenLogFile \/ InitThreadPool \/ Configure
  PROVE  Control'
<1> USE DEF Control, ControlTypes, LogPc, NothingYet, ConsoleOnly, LoggerThere, PoolThere,
            FlusherGone, countVars, lockVars
<1>1. CASE OpenLogFile
  <2>1. /\ lPc = "init" /\ ~fileOpen /\ default_logger = "none" /\ tp = "none"
        /\ wPc = "none" /\ fPc = "none"
    BY <1>1 DEF OpenLogFile
  <2>2. /\ tp' = tp /\ wPc' = wPc /\ fPc' = fPc /\ callCount' = callCount
        /\ useAsyn' \in BOOLEAN
    BY <1>1 DEF OpenLogFile
  <2>3. CASE fileOpen' /\ registryAge' = "older" /\ default_logger' = default_logger
             /\ lPc' \in {"pool", "configure"} /\ (useAsyn' => lPc' = "pool")
    BY <2>1, <2>2, <2>3
  <2>4. CASE fileOpen' = fileOpen /\ registryAge' = "younger" /\ default_logger' = "console"
             /\ lPc' = "logging"
    BY <2>1, <2>2, <2>4
  <2> QED
    BY <1>1, <2>3, <2>4 DEF OpenLogFile
<1>2. CASE InitThreadPool
  BY <1>2 DEF InitThreadPool, fileVars
<1>3. CASE Configure
  BY <1>3 DEF Configure, fileVars
<1> QED
  BY <1>1, <1>2, <1>3

LEMMA LoggingKeeps ==
  ASSUME Control,
         FinishCall \/ (\E level \in LogLevels : CallLog(level)) \/ MainReturns
           \/ LogShuttingDown
  PROVE  Control'
<1> USE DEF Control, ControlTypes, LogPc, NothingYet, ConsoleOnly, LoggerThere, PoolThere,
            FlusherGone
<1>1. ASSUME NEW level \in LogLevels, CallLog(level) PROVE Control'
  <2>1. callCount' \in 0 .. MaxLogged + 1 /\ callMsg' \in LogMessages
    BY <1>1 DEF CallLog, LogMessages
  <2> QED
    BY <1>1, <2>1 DEF CallLog, registryVars, fileVars
<1>2. CASE LogShuttingDown
  <2>1. callCount' \in 0 .. MaxLogged + 1 /\ callMsg' \in LogMessages
    BY <1>2 DEF LogShuttingDown, LogMessages, LogLevels
  <2> QED
    BY <1>2, <2>1 DEF LogShuttingDown, registryVars, fileVars
<1>3. CASE MainReturns
  BY <1>3 DEF MainReturns, fileVars, countVars
<1>4. AfterCall \in {"drop", "logging"}
  BY DEF AfterCall
<1>5. CASE SinkItSync
  <2>1. fileOpen' = fileOpen
    BY <1>5 DEF SinkItSync, SinkLog, fileVars
  <2> QED
    BY <1>4, <1>5, <2>1 DEF SinkItSync, registryVars
<1>6. CASE FlushSync
  BY <1>4, <1>6 DEF FlushSync, SinkFlush, registryVars, countVars
<1>7. CASE SinkItAsync
  BY <1>4, <1>7 DEF SinkItAsync, registryVars, fileVars, countVars
<1> QED
  BY <1>1, <1>2, <1>3, <1>5, <1>6, <1>7 DEF FinishCall

LEMMA ExitKeeps ==
  ASSUME Control, DropAll \/ StopFlusher \/ JoinFlusher \/ PostTerminate \/ JoinWorker
                    \/ ProcessKilled
  PROVE  Control'
<1> USE DEF Control, ControlTypes, LogPc, NothingYet, ConsoleOnly, LoggerThere, PoolThere,
            FlusherGone
<1>1. CASE DropAll
  BY <1>1 DEF DropAll, countVars
<1>2. CASE StopFlusher
  BY <1>2 DEF StopFlusher, registryVars, fileVars, countVars
<1>3. CASE JoinFlusher
  BY <1>3 DEF JoinFlusher, registryVars, fileVars, countVars
<1>4. CASE PostTerminate
  BY <1>4 DEF PostTerminate, fileVars, countVars
<1>5. CASE JoinWorker
  BY <1>5 DEF JoinWorker, fileVars, countVars
<1>6. CASE ProcessKilled
  BY <1>6 DEF ProcessKilled, registryVars, fileVars, countVars
<1> QED
  BY <1>1, <1>2, <1>3, <1>4, <1>5, <1>6

LEMMA ThreadsKeep ==
  ASSUME Control, QueueItems, FlusherStep \/ WorkerStep
  PROVE  Control'
<1> USE DEF Control, ControlTypes, LogPc, NothingYet, ConsoleOnly, LoggerThere, PoolThere,
            FlusherGone
<1>1. CASE FlusherWakes \/ FlusherLocksMap \/ FlusherEnds
  BY <1>1 DEF FlusherWakes, FlusherLocksMap, FlusherEnds, registryVars, fileVars, countVars
<1>2. CASE FlushAll
  BY <1>2 DEF FlushAll, SinkFlush, registryVars, fileVars, countVars
<1>3. CASE Dequeue
  <2>1. wPc' \in {"write", "flush", "ended"}
    BY <1>3, Dequeued, MsgTypes
  <2>2. /\ wPc = "idle" /\ UNCHANGED <<lPc, registryVars, fPc, callMsg, fileVars, countVars>>
    BY <1>3 DEF Dequeue
  <2> QED
    BY <2>1, <2>2 DEF registryVars, fileVars, countVars
<1>4. CASE BackendSinkIt
  <2>1. fileOpen' = fileOpen
    BY <1>4 DEF BackendSinkIt, SinkLog, fileVars
  <2> QED
    BY <1>4, <2>1 DEF BackendSinkIt, registryVars
<1>5. CASE BackendFlush
  BY <1>5 DEF BackendFlush, registryVars, fileVars, countVars
<1> QED
  BY <1>1, <1>2, <1>3, <1>4, <1>5 DEF FlusherStep, WorkerStep

-----------------------------------------------------------------------------
(* The queue, the file and the end of the worker.                          *)

QueueInv == QueueItems /\ FileHeld /\ NothingQueued /\ TerminateLast /\ WorkerDone

LEMMA QueuedItems == Queued(logQueue) = {At(logQueue, i) : i \in 0 .. Size(logQueue) - 1}
BY DEF Queued

\* A step that leaves the queue, the worker and the file alone.
LEMMA QueueKept ==
  ASSUME LoggerInv, logQueue' = logQueue, wPc' = wPc, fileOpen' = fileOpen,
         default_logger' # "seeker" \/ default_logger' = default_logger \/ fileOpen,
         lPc' = lPc \/ lPc \notin {"joinPool", "closed", "killed"} \/ lPc' = "killed",
         lPc' = lPc \/ lPc' \notin {"init", "pool", "configure"},
         fPc' = fPc \/ fPc # "ended"
  PROVE  QueueInv'
<1>1. QueueItems' /\ FileHeld'
  BY DEF LoggerInv, QueueItems, FileHeld
<1>2. TerminateLast'
  BY DEF LoggerInv, TerminateLast
<1>3. WorkerDone'
  BY DEF LoggerInv, WorkerDone
<1>4. NothingQueued'
  BY DEF LoggerInv, NothingQueued
<1> QED
  BY <1>1, <1>2, <1>3, <1>4 DEF QueueInv

\* A step that posts a message or a request of the logger.
LEMMA QueuePosted ==
  ASSUME LoggerInv, NEW x \in AsyncMsgs, x.msg_type # "terminate", Enqueue(x),
         lPc \notin {"joinPool", "closed", "killed"}, fileOpen, fileOpen' = fileOpen,
         wPc' = wPc, lPc' \notin {"init", "pool", "configure"}
  PROVE  QueueInv'
<1>1. /\ QueueItems'
      /\ Size(logQueue') = Size(logQueue) + 1 /\ Size(logQueue) \in Nat
      /\ At(logQueue', Size(logQueue)) = x
      /\ \A i \in 0 .. Size(logQueue) - 1 : At(logQueue', i) = At(logQueue, i)
  BY Enqueued DEF LoggerInv
<1>2. FileHeld'
  BY DEF FileHeld
<1>3. ASSUME NEW i \in 0 .. Size(logQueue') - 1 PROVE At(logQueue', i).msg_type # "terminate"
  <2>1. CASE i = Size(logQueue)
    BY <1>1, <2>1
  <2>2. CASE i \in 0 .. Size(logQueue) - 1
    BY <1>1, <2>2 DEF LoggerInv, TerminateLast
  <2> QED
    BY <1>1, <2>1, <2>2
<1>4. TerminateLast'
  BY <1>3 DEF TerminateLast
<1>5. wPc # "ended"
  BY DEF LoggerInv, WorkerDone
<1> QED
  BY <1>1, <1>2, <1>4, <1>5 DEF QueueInv, NothingQueued, WorkerDone

LEMMA StartupQueue ==
  ASSUME LoggerInv, OpenLogFile \/ InitThreadPool \/ Configure
  PROVE  QueueInv'
<1> USE DEF LoggerInv
<1>1. CASE OpenLogFile
  <2>1. /\ lPc = "init" /\ logQueue' = logQueue /\ wPc' = wPc /\ fPc' = fPc
        /\ fileOpen' \/ (fileOpen' = fileOpen /\ default_logger' = "console"
                          /\ lPc' = "logging")
    BY <1>1 DEF OpenLogFile
  <2>2. QueueItems' /\ FileHeld'
    BY <2>1 DEF QueueItems, FileHeld
  <2>3. NothingQueued' /\ TerminateLast' /\ WorkerDone'
    BY <2>1 DEF NothingQueued, TerminateLast, WorkerDone
  <2> QED
    BY <2>2, <2>3 DEF QueueInv
<1>2. CASE InitThreadPool
  <2>1. /\ lPc = "pool" /\ logQueue' = logQueue /\ wPc' = "idle" /\ fileOpen' = fileOpen
        /\ default_logger' = default_logger
    BY <1>2 DEF InitThreadPool, fileVars
  <2>2. QueueItems' /\ FileHeld'
    BY <2>1 DEF QueueItems, FileHeld
  <2>3. NothingQueued' /\ TerminateLast' /\ WorkerDone'
    BY <2>1 DEF NothingQueued, TerminateLast, WorkerDone
  <2> QED
    BY <2>2, <2>3 DEF QueueInv
<1>3. CASE Configure
  <2>1. fileOpen /\ fPc # "ended"
    BY <1>3 DEF Configure, Control, NothingQueued, NothingYet
  <2> QED
    BY <1>3, <2>1, QueueKept DEF Configure, fileVars, LoggerInv
<1> QED
  BY <1>1, <1>2, <1>3

\* The program's steps that leave the queue alone.
LEMMA ProgramQueue ==
  ASSUME LoggerInv,
         SinkItSync \/ FlushSync \/ (\E level \in LogLevels : CallLog(level)) \/ MainReturns
           \/ LogShuttingDown \/ StopFlusher \/ JoinFlusher \/ ProcessKilled
  PROVE  QueueInv'
<1>1. /\ logQueue' = logQueue /\ wPc' = wPc /\ fileOpen' = fileOpen /\ fPc' = fPc
      /\ default_logger' = default_logger
  <2>1. CASE SinkItSync
    BY <2>1 DEF SinkItSync, SinkLog, registryVars, fileVars
  <2>2. CASE FlushSync
    BY <2>2 DEF FlushSync, SinkFlush, registryVars
  <2>3. CASE \E level \in LogLevels : CallLog(level)
    BY <2>3 DEF CallLog, registryVars, fileVars
  <2>4. CASE MainReturns \/ LogShuttingDown
    BY <2>4 DEF MainReturns, LogShuttingDown, registryVars, fileVars
  <2>5. CASE StopFlusher \/ JoinFlusher \/ ProcessKilled
    BY <2>5 DEF StopFlusher, JoinFlusher, ProcessKilled, registryVars, fileVars
  <2> QED
    BY <2>1, <2>2, <2>3, <2>4, <2>5
<1>2. /\ lPc' = "killed" \/ lPc \notin {"joinPool", "closed", "killed"}
      /\ lPc' \notin {"init", "pool", "configure"}
  BY DEF SinkItSync, FlushSync, CallLog, MainReturns, LogShuttingDown, StopFlusher,
         JoinFlusher, ProcessKilled, AfterCall
<1> QED
  BY <1>1, <1>2, QueueKept

LEMMA ExitQueue ==
  ASSUME LoggerInv, DropAll \/ PostTerminate \/ JoinWorker
  PROVE  QueueInv'
<1> USE DEF LoggerInv
<1>1. CASE DropAll
  <2> DEFINE held == WorkerHolds \/ \E x \in Queued(logQueue) : HoldsLogger(x)
  <2>1. /\ lPc \in {"drop", "dropAgain"} /\ lPc' \in {"shutdown", "terminate", "closed"}
        /\ logQueue' = logQueue /\ wPc' = wPc
        /\ fPc' = fPc /\ default_logger' = "none" /\ ReleaseLogger(held)
    BY <1>1 DEF DropAll
  <2>2. held <=> (wPc \in {"write", "flush"}
                   \/ \E i \in 0 .. Size(logQueue) - 1 : HoldsLogger(At(logQueue, i)))
    BY QueuedItems DEF WorkerHolds
  <2>3. held => fileOpen' = fileOpen
    BY <2>1 DEF ReleaseLogger, fileVars
  <2> HIDE DEF held
  <2>4. QueueItems' /\ FileHeld'
    BY <2>1, <2>2, <2>3 DEF QueueItems, FileHeld
  <2>5. NothingQueued' /\ TerminateLast' /\ WorkerDone'
    BY <2>1 DEF NothingQueued, TerminateLast, WorkerDone
  <2> QED
    BY <2>4, <2>5 DEF QueueInv
<1>2. CASE PostTerminate
  <2>1. /\ lPc = "terminate" /\ Enqueue(TerminateMsg) /\ lPc' = "joinPool"
        /\ wPc' = wPc /\ fileOpen' = fileOpen /\ default_logger' = default_logger
    BY <1>2 DEF PostTerminate, fileVars
  <2>2. /\ QueueItems'
        /\ Size(logQueue') = Size(logQueue) + 1 /\ Size(logQueue) \in Nat
        /\ At(logQueue', Size(logQueue)) = TerminateMsg
        /\ \A i \in 0 .. Size(logQueue) - 1 : At(logQueue', i) = At(logQueue, i)
    BY <2>1, Enqueued, MsgTypes
  <2>3. ASSUME NEW i \in 0 .. Size(logQueue') - 1, i # Size(logQueue)
        PROVE  i \in 0 .. Size(logQueue) - 1 /\ At(logQueue', i) = At(logQueue, i)
    BY <2>2, <2>3
  <2>4. FileHeld'
    <3>1. ~HoldsLogger(TerminateMsg)
      BY MsgTypes DEF HoldsLogger
    <3>2. (\E i \in 0 .. Size(logQueue') - 1 : HoldsLogger(At(logQueue', i))) =>
            \E i \in 0 .. Size(logQueue) - 1 : HoldsLogger(At(logQueue, i))
      BY <2>2, <2>3, <3>1
    <3> QED
      BY <2>1, <3>2 DEF FileHeld
  <2>5. TerminateLast'
    <3>1. ASSUME NEW i \in 0 .. Size(logQueue) - 1
          PROVE  At(logQueue, i).msg_type # "terminate"
      BY <2>1 DEF TerminateLast
    <3> QED
      BY <2>1, <2>2, <2>3, <3>1 DEF TerminateLast
  <2>6. NothingQueued' /\ WorkerDone'
    BY <2>1 DEF NothingQueued, WorkerDone
  <2> QED
    BY <2>2, <2>4, <2>5, <2>6 DEF QueueInv
<1>3. CASE JoinWorker
  <2>1. /\ wPc = "ended" /\ logQueue' = logQueue /\ wPc' = wPc /\ lPc' = "closed"
        /\ fileOpen' = fileOpen /\ default_logger' = default_logger /\ fPc' = fPc
    BY <1>3 DEF JoinWorker, fileVars
  <2>2. logQueue \in Ring /\ Size(logQueue) = 0
    BY <2>1, RingIndex DEF QueueItems, WorkerDone
  <2>3. QueueItems' /\ FileHeld'
    BY <2>1 DEF QueueItems, FileHeld
  <2>4. NothingQueued' /\ TerminateLast' /\ WorkerDone'
    BY <2>1, <2>2 DEF NothingQueued, TerminateLast, WorkerDone
  <2> QED
    BY <2>3, <2>4 DEF QueueInv
<1> QED
  BY <1>1, <1>2, <1>3

\* Whoever logs to the file or posts for the logger has it.
LEMMA LoggerHasFile ==
  ASSUME LoggerInv
  PROVE  /\ lPc \in {"call", "flush"} => default_logger = "seeker"
         /\ default_logger = "seeker" => fileOpen
<1>1. ASSUME lPc \in {"call", "flush"} PROVE registryAge = "older"
  BY <1>1 DEF LoggerInv, Control, ControlTypes, NothingYet, ConsoleOnly
<1> QED
  BY <1>1 DEF LoggerInv, Control, LoggerThere, FileHeld

LEMMA PostQueue ==
  ASSUME LoggerInv, SinkItAsync \/ (ProcessRuns /\ FlushAll)
  PROVE  QueueInv'
<1>1. CASE SinkItAsync
  <2>1. /\ lPc = "call" /\ lPc' \in {"drop", "logging"} /\ Enqueue(LogMsg(callMsg))
        /\ wPc' = wPc /\ fileOpen' = fileOpen
    BY <1>1 DEF SinkItAsync, AfterCall, fileVars
  <2>2. LogMsg(callMsg) \in AsyncMsgs /\ LogMsg(callMsg).msg_type = "log"
    BY <2>1, MsgTypes DEF LoggerInv, Control, ControlTypes
  <2> QED
    BY <2>1, <2>2, LoggerHasFile, QueuePosted
<1>2. CASE ProcessRuns /\ FlushAll
  <2>1. /\ fPc = "flushing" /\ lPc \notin {"joinPool", "closed", "killed"}
        /\ lPc \notin {"init", "pool", "configure"} /\ lPc' = lPc
        /\ wPc' = wPc /\ fileOpen' = fileOpen /\ default_logger' = default_logger
    BY <1>2 DEF FlushAll, SinkFlush, ProcessRuns, registryVars, fileVars, LoggerInv,
                Control, NothingYet, FlusherGone
  <2>2. CASE logQueue' = logQueue
    BY <2>1, <2>2, QueueKept
  <2>3. CASE default_logger = "seeker" /\ Enqueue(FlushMsg)
    BY <2>1, <2>3, MsgTypes, LoggerHasFile, QueuePosted
  <2> QED
    BY <1>2, <2>2, <2>3 DEF FlushAll
<1> QED
  BY <1>1, <1>2

LEMMA FlusherQueue ==
  ASSUME LoggerInv, FlusherWakes \/ FlusherLocksMap \/ FlusherEnds
  PROVE  QueueInv'
<1>1. /\ logQueue' = logQueue /\ wPc' = wPc /\ fileOpen' = fileOpen /\ lPc' = lPc
      /\ default_logger' = default_logger /\ fPc # "ended"
  BY DEF FlusherWakes, FlusherLocksMap, FlusherEnds, registryVars, fileVars
<1> QED
  BY <1>1, QueueKept

LEMMA WorkerQueue ==
  ASSUME LoggerInv, WorkerStep
  PROVE  QueueInv'
<1> USE DEF LoggerInv
<1>1. CASE Dequeue
  <2>1. /\ QueueItems'
        /\ Size(logQueue) \in Nat \ {0} /\ Size(logQueue') = Size(logQueue) - 1
        /\ \A i \in 0 .. Size(logQueue') - 1 : At(logQueue', i) = At(logQueue, i + 1)
        /\ At(logQueue, 0) \in AsyncMsgs
        /\ wPc' = CASE At(logQueue, 0).msg_type = "log" -> "write"
                    [] At(logQueue, 0).msg_type = "flush" -> "flush"
                    [] At(logQueue, 0).msg_type = "terminate" -> "ended"
    BY <1>1, Dequeued
  <2>2. /\ lPc' = lPc /\ fPc' = fPc /\ fileOpen' = fileOpen
        /\ default_logger' = default_logger
    BY <1>1 DEF Dequeue, registryVars, fileVars
  <2>3. ProcessRuns
    BY DEF WorkerStep
  <2>4. \A i \in 0 .. Size(logQueue') - 1 : i + 1 \in 0 .. Size(logQueue) - 1
    BY <2>1
  <2>5. (wPc' \in {"write", "flush"}) => HoldsLogger(At(logQueue, 0))
    BY <2>1, MsgTypes DEF HoldsLogger
  <2>6. FileHeld'
    <3>1. 0 \in 0 .. Size(logQueue) - 1
      BY <2>1
    <3>2. (\E i \in 0 .. Size(logQueue') - 1 : HoldsLogger(At(logQueue', i))) =>
            \E i \in 0 .. Size(logQueue) - 1 : HoldsLogger(At(logQueue, i))
      BY <2>1, <2>4
    <3> QED
      BY <2>2, <2>5, <3>1, <3>2 DEF FileHeld
  <2>7. TerminateLast'
    <3>1. ASSUME NEW i \in 0 .. Size(logQueue') - 1,
                 At(logQueue', i).msg_type = "terminate"
          PROVE  i + 1 = Size(logQueue) - 1 /\ lPc \in {"joinPool", "killed"}
      BY <2>1, <2>4, <3>1 DEF TerminateLast
    <3>2. ASSUME NEW i \in 0 .. Size(logQueue') - 1, i + 1 = Size(logQueue) - 1
          PROVE  i = Size(logQueue') - 1
      BY <2>1, <3>2
    <3> QED
      BY <2>2, <3>1, <3>2 DEF TerminateLast
  <2>8. WorkerDone'
    <3>1. SUFFICES ASSUME wPc' = "ended" PROVE WorkerDone'
      BY DEF WorkerDone
    <3>2. At(logQueue, 0).msg_type = "terminate"
      BY <2>1, <3>1, MsgTypes
    <3>3. 0 = Size(logQueue) - 1 /\ lPc = "joinPool"
      BY <2>1, <2>3, <3>2 DEF TerminateLast, ProcessRuns
    <3>4. Size(logQueue') = 0 /\ logQueue' \in Ring
      BY <2>1, <3>3 DEF QueueItems
    <3>5. Empty(logQueue')
      BY <3>4, RingIndex
    <3> QED
      BY <2>2, <3>3, <3>5 DEF WorkerDone, Control, FlusherGone
  <2>9. NothingQueued'
    <3>1. ~Empty(logQueue)
      BY <1>1 DEF Dequeue
    <3> QED
      BY <2>2, <3>1 DEF NothingQueued
  <2> QED
    BY <2>1, <2>6, <2>7, <2>8, <2>9 DEF QueueInv
<1>2. CASE BackendSinkIt
  <2>1. /\ wPc = "write" /\ wPc' = "flush" /\ logQueue' = logQueue /\ lPc' = lPc
        /\ default_logger' = default_logger /\ fileOpen' = fileOpen
    BY <1>2 DEF BackendSinkIt, SinkLog, registryVars, fileVars
  <2>2. QueueItems' /\ FileHeld'
    BY <2>1 DEF QueueItems, FileHeld
  <2>3. NothingQueued' /\ TerminateLast' /\ WorkerDone'
    BY <2>1 DEF NothingQueued, TerminateLast, WorkerDone
  <2> QED
    BY <2>2, <2>3 DEF QueueInv
<1>3. CASE BackendFlush
  <2>1. /\ wPc = "flush" /\ wPc' = "idle" /\ logQueue' = logQueue /\ lPc' = lPc
        /\ default_logger' = default_logger
        /\ (fileOpen' = fileOpen) \/ (fileOpen' = LoggerHeld)
    BY <1>3 DEF BackendFlush, registryVars, fileVars
  <2>2. LoggerHeld <=>
          (default_logger = "seeker"
            \/ \E i \in 0 .. Size(logQueue) - 1 : HoldsLogger(At(logQueue, i)))
    BY QueuedItems DEF LoggerHeld
  <2>3. QueueItems' /\ FileHeld'
    BY <2>1, <2>2 DEF QueueItems, FileHeld
  <2>4. NothingQueued' /\ TerminateLast' /\ WorkerDone'
    BY <2>1 DEF NothingQueued, TerminateLast, WorkerDone
  <2> QED
    BY <2>3, <2>4 DEF QueueInv
<1> QED
  BY <1>1, <1>2, <1>3 DEF WorkerStep

-----------------------------------------------------------------------------
LEMMA LoggerStep ==
  ASSUME LoggerInv, AsyncLogNext
  PROVE  LoggerInv'
<1>1. Control'
  <2>1. Control /\ QueueItems
    BY DEF LoggerInv
  <2> QED
    BY <2>1, StartupKeeps, LoggingKeeps, ExitKeeps, ThreadsKeep
       DEF AsyncLogNext, ProgramStep, InitLogger, ExitLogger
<1>2. QueueInv'
  <2>1. CASE InitLogger
    BY <2>1, StartupQueue DEF InitLogger
  <2>2. CASE FinishCall \/ (\E level \in LogLevels : CallLog(level)) \/ MainReturns
             \/ ProcessKilled
    BY <2>2, ProgramQueue, PostQueue DEF FinishCall
  <2>3. CASE ExitLogger
    BY <2>3, ProgramQueue, ExitQueue DEF ExitLogger
  <2>4. CASE FlusherStep
    BY <2>4, FlusherQueue, PostQueue DEF FlusherStep
  <2>5. CASE WorkerStep
    BY <2>5, WorkerQueue
  <2> QED
    BY <2>1, <2>2, <2>3, <2>4, <2>5 DEF AsyncLogNext, ProgramStep
<1> QED
  BY <1>1, <1>2 DEF LoggerInv, QueueInv

LEMMA LoggerUnchanged ==
  ASSUME LoggerInv, UNCHANGED logVars
  PROVE  LoggerInv'
<1>1. Control'
  BY DEF logVars, LoggerInv, Control, ControlTypes, NothingYet, ConsoleOnly, LoggerThere,
         PoolThere, FlusherGone
<1>2. QueueInv'
  <2>1. QueueItems' /\ FileHeld' /\ NothingQueued'
    BY DEF logVars, LoggerInv, QueueItems, FileHeld, NothingQueued
  <2>2. TerminateLast' /\ WorkerDone'
    BY DEF logVars, LoggerInv, TerminateLast, WorkerDone
  <2> QED
    BY <2>1, <2>2 DEF QueueInv
<1> QED
  BY <1>1, <1>2 DEF LoggerInv, QueueInv

\* The other units of the process leave the logger alone.
LEMMA LoggerTurns == [Next]_vars => [AsyncLogNext]_logVars
<1>1. ASSUME Next PROVE AsyncLogNext \/ UNCHANGED logVars
  BY <1>1 DEF Next, LogRuns, PatternRuns, SinksRun, FiltersRun, FormatStringRuns, NumbersRun
<1>2. UNCHANGED vars => UNCHANGED logVars
  BY DEF vars
<1> QED
  BY <1>1, <1>2

LEMMA InvKeepsAlive == LoggerInv => LoggerAlive
<1> SUFFICES ASSUME LoggerInv PROVE LoggerAlive
  OBVIOUS
<1>1. Posting => tp \in {"up", "closing"}
  BY DEF Posting, LoggerInv, Control, ControlTypes, NothingYet, ConsoleOnly, PoolThere
<1>2. UsesFile => fileOpen
  BY LoggerHasFile DEF UsesFile, LoggerInv, FileHeld
<1>3. lPc = "undefined" => registryAge = "dead" /\ ~fileOpen
  BY DEF LoggerInv, Control, ConsoleOnly
<1>4. wPc = "ended" => Empty(logQueue)
  BY DEF LoggerInv, WorkerDone
<1> QED
  BY <1>1, <1>2, <1>3, <1>4 DEF LoggerInv, TerminateLast, LoggerAlive

(***************************************************************************)
(* Whatever the size of the pool's queue and however many messages are     *)
(* logged: whoever posts finds the pool and whoever writes or flushes      *)
(* finds the file open, the worker ends with an empty queue, and the       *)
(* Logger outlives its registry only where the log file could not be       *)
(* opened (registry-inl.h:189-246, seeker/logger.h:40-54,61-102).          *)
(***************************************************************************)
THEOREM LoggerOutlivesUse == Spec => []LoggerAlive
<1>1. Init => LoggerInv
  BY LoggerInit DEF Init
<1>2. LoggerInv /\ [Next]_vars => LoggerInv'
  BY LoggerTurns, LoggerStep, LoggerUnchanged
<1> QED
  BY <1>1, <1>2, InvKeepsAlive, PTL DEF Spec

-----------------------------------------------------------------------------
(* The inductive invariant, on top of LoggerInv: what the mapping reads and *)
(* what is left of it when the log is closed.                               *)

LogTypes ==
  /\ fileBuf \in Seq(LogMessages) /\ fileDisk \in Seq(LogMessages)
  /\ fileOpen \in BOOLEAN
  /\ failCount \in 0 .. MaxFailed
  /\ incoming \in AsyncMsgs
  /\ callMsg \in LogMessages \cup {NoMessage}

LockTypes ==
  /\ mapHolder \in {"nobody", "flusher"} /\ periodicHolder \in {"nobody", "flusher"}
  /\ active_ \in BOOLEAN

\* A message is with the program's thread or with the worker only in a call.
Carried ==
  /\ lPc \notin {"call", "killed"} => callMsg = NoMessage
  /\ wPc = "write" => incoming.msg_type = "log"

\* A synchronous logger has no pool, and only it flushes in the program's thread.
NoPoolInSync ==
  /\ lPc = "pool" => useAsyn
  /\ lPc = "flush" => ~useAsyn
  /\ ~useAsyn => tp = "none" /\ wPc = "none" /\ Empty(logQueue)

LoggerDropped ==
  lPc \in {"shutdown", "join", "dropAgain", "terminate", "joinPool", "closed"} =>
    default_logger = "none"

\* What the FILE's buffer holds is flushed by whoever holds the logger.
BufferHeld ==
  fileBuf # <<>> =>
    \/ default_logger = "seeker" \/ wPc \in {"write", "flush"}
    \/ \E i \in 0 .. Size(logQueue) - 1 : HoldsLogger(At(logQueue, i))

\* A warning in the buffer is about to be flushed, for its own sake.
WarnHeld ==
  (\E i \in DOMAIN fileBuf : fileBuf[i].level = flushLevel) =>
    \/ lPc \in {"flush", "killed"}
    \/ wPc = "flush" /\ incoming.msg_type = "log" /\ ShouldFlush(incoming.msg)

LogParts ==
  LogTypes /\ LockTypes /\ Carried /\ NoPoolInSync /\ LoggerDropped /\ BufferHeld /\ WarnHeld

LogInv == LoggerInv /\ LogParts

-----------------------------------------------------------------------------
(* The messages in a sequence of queued items.                             *)

\* What LogsIn has taken after the first k items.
TakesLogs(items, f) ==
  /\ f[0] = <<>>
  /\ \A k \in 1 .. Len(items) : f[k] = WithLog(f[k - 1], items[k])

LEMMA LogFold ==
  ASSUME NEW items \in Seq(AsyncMsgs)
  PROVE  \E f \in [0 .. Len(items) -> Seq(LogMessages)] :
           TakesLogs(items, f) /\ LogsIn(items) = f[Len(items)]
<1> DEFINE n == Len(items)
           T == Seq(LogMessages)
           nothing == <<>>
           step == [k \in 1 .. n |-> [logs \in T |-> WithLog(logs, items[k])]]
           Folds(g) == g = [t \in SUBSET DOMAIN items |->
                              IF t = {} THEN <<>> ELSE WithLog(g[t \ {Max(t)}], items[Max(t)])]
           iter == CHOOSE g : Folds(g)
<1>1. LogsIn(items) = iter[DOMAIN items]
  BY DEF LogsIn, FoldLeft, MapThenFoldSet
<1>2. ASSUME NEW logs \in T, NEW k \in 1 .. n PROVE WithLog(logs, items[k]) \in T
  BY DEF WithLog, IsLog, AsyncMsgs, LogMsg, FlushMsg, TerminateMsg
<1>3. step \in [1 .. n -> [T -> T]]
  BY <1>2
<1>4. nothing \in T /\ n \in Nat /\ DOMAIN items = 1 .. n
  OBVIOUS
<1>5. PICK g \in [SUBSET (1 .. n) -> T] : FoldsUp(n, nothing, step, g)
  <2> HIDE DEF step, n, T, nothing
  <2> QED
    BY <1>3, <1>4, FoldExists
<1>6. Folds(g)
  <2>1. ASSUME NEW t \in SUBSET (1 .. n), t # {}
        PROVE  g[t] = WithLog(g[t \ {Max(t)}], items[Max(t)])
    <3>1. Max(t) \in 1 .. n /\ t \ {Max(t)} \in SUBSET (1 .. n)
      BY <1>4, <2>1, LargestIndex
    <3> QED
      BY <1>5, <2>1, <3>1 DEF FoldsUp
  <2> QED
    BY <1>4, <1>5, <2>1 DEF FoldsUp
<1>7. Folds(iter)
  <2> HIDE DEF Folds
  <2> QED
    BY <1>6
<1> HIDE DEF iter
<1>8. FoldsWithin(n, T, nothing, step, iter)
  <2>1. ASSUME NEW t \in SUBSET (1 .. n), t # {}, iter[t \ {Max(t)}] \in T
        PROVE  iter[t] = step[Max(t)][iter[t \ {Max(t)}]]
    <3>1. Max(t) \in 1 .. n
      BY <1>4, <2>1, LargestIndex
    <3> QED
      BY <1>4, <1>7, <2>1, <3>1
  <2>2. iter[{}] = nothing
    BY <1>7
  <2> QED
    BY <2>1, <2>2 DEF FoldsWithin
<1>9. PICK f \in [0 .. n -> T] : RunsThrough(n, nothing, step, f) /\ iter[1 .. n] = f[n]
  <2> HIDE DEF step, n, T, nothing
  <2>1. RunsTo(n, T, nothing, step, iter)
    BY <1>3, <1>4, <1>8, FoldRuns
  <2> QED
    BY <2>1 DEF RunsTo
<1>10. ASSUME NEW k \in 1 .. n PROVE f[k] = WithLog(f[k - 1], items[k])
  <2>1. f[k - 1] \in T
    BY <1>4
  <2> QED
    BY <1>9, <2>1 DEF RunsThrough
<1>11. TakesLogs(items, f)
  BY <1>9, <1>10 DEF RunsThrough, TakesLogs
<1> QED
  BY <1>1, <1>4, <1>9, <1>11

\* The messages of an empty queue, and behind one more item.
LEMMA LogsTyped ==
  ASSUME NEW items \in Seq(AsyncMsgs)
  PROVE  LogsIn(items) \in Seq(LogMessages) /\ (Len(items) = 0 => LogsIn(items) = <<>>)
BY LogFold DEF TakesLogs

LEMMA LogsAppended ==
  ASSUME NEW items \in Seq(AsyncMsgs), NEW more \in Seq(AsyncMsgs),
         Len(more) = Len(items) + 1, \A i \in 1 .. Len(items) : more[i] = items[i]
  PROVE  LogsIn(more) = WithLog(LogsIn(items), more[Len(more)])
<1> DEFINE n == Len(items)
<1>1. PICK f \in [0 .. n -> Seq(LogMessages)] : TakesLogs(items, f) /\ LogsIn(items) = f[n]
  BY LogFold
<1>2. PICK g \in [0 .. n + 1 -> Seq(LogMessages)] :
        TakesLogs(more, g) /\ LogsIn(more) = g[n + 1]
  BY LogFold
<1> DEFINE S == {k \in Nat : k <= n => g[k] = f[k]}
<1>3. 0 \in S
  BY <1>1, <1>2 DEF TakesLogs
<1>4. ASSUME NEW k \in Nat, k \in S PROVE k + 1 \in S
  <2>1. SUFFICES ASSUME k + 1 <= n PROVE g[k + 1] = f[k + 1]
    OBVIOUS
  <2>2. k + 1 \in 1 .. n /\ k + 1 \in 1 .. n + 1 /\ (k + 1) - 1 = k
    BY <2>1
  <2>3. f[k + 1] = WithLog(f[k], items[k + 1]) /\ g[k + 1] = WithLog(g[k], more[k + 1])
    BY <1>1, <1>2, <2>2 DEF TakesLogs
  <2> QED
    BY <1>4, <2>1, <2>2, <2>3
<1>5. n \in Nat
  OBVIOUS
<1>6. g[n] = f[n]
  <2> HIDE DEF S
  <2>1. n \in S
    BY <1>3, <1>4, <1>5, SetInduction
  <2> QED
    BY <2>1 DEF S
<1>7. g[n + 1] = WithLog(g[n], more[n + 1])
  <2>1. n + 1 \in 1 .. n + 1 /\ (n + 1) - 1 = n
    BY <1>5
  <2> QED
    BY <1>2, <2>1 DEF TakesLogs
<1> QED
  BY <1>1, <1>2, <1>6, <1>7

\* The messages of a queue are the first item's before the others'.
LEMMA LogsTaken ==
  ASSUME NEW items \in Seq(AsyncMsgs), NEW rest \in Seq(AsyncMsgs),
         Len(items) = Len(rest) + 1, \A i \in 1 .. Len(rest) : rest[i] = items[i + 1]
  PROVE  LogsIn(items) = WithLog(<<>>, items[1]) \o LogsIn(rest)
<1> DEFINE n == Len(rest)
           first == WithLog(<<>>, items[1])
<1>1. PICK f \in [0 .. n -> Seq(LogMessages)] : TakesLogs(rest, f) /\ LogsIn(rest) = f[n]
  BY LogFold
<1>2. PICK g \in [0 .. n + 1 -> Seq(LogMessages)] :
        TakesLogs(items, g) /\ LogsIn(items) = g[n + 1]
  BY LogFold
<1>3. n \in Nat /\ 1 \in 1 .. n + 1
  OBVIOUS
<1>4. g[1] = first /\ first \in Seq(LogMessages)
  <2>1. g[1] = WithLog(g[0], items[1]) /\ g[0] = <<>>
    BY <1>2, <1>3 DEF TakesLogs
  <2> QED
    BY <1>2, <1>3, <2>1
<1> DEFINE S == {k \in Nat : k <= n => g[k + 1] = first \o f[k]}
<1> HIDE DEF first
<1>5. 0 \in S
  <2>1. f[0] = <<>>
    BY <1>1 DEF TakesLogs
  <2> QED
    BY <1>4, <2>1
<1>6. ASSUME NEW k \in Nat, k \in S PROVE k + 1 \in S
  <2>1. SUFFICES ASSUME k + 1 <= n PROVE g[(k + 1) + 1] = first \o f[k + 1]
    OBVIOUS
  <2>2. /\ k + 1 \in 1 .. n /\ (k + 1) - 1 = k /\ (k + 1) + 1 \in 1 .. n + 1
        /\ ((k + 1) + 1) - 1 = k + 1 /\ k \in 0 .. n
    BY <2>1, <1>3
  <2>3. /\ f[k + 1] = WithLog(f[k], rest[k + 1])
        /\ g[(k + 1) + 1] = WithLog(g[k + 1], items[(k + 1) + 1])
    BY <1>1, <1>2, <2>2 DEF TakesLogs
  <2>4. rest[k + 1] = items[(k + 1) + 1] /\ g[k + 1] = first \o f[k]
    BY <1>6, <2>1, <2>2
  <2>5. f[k] \in Seq(LogMessages) /\ rest[k + 1] \in AsyncMsgs
    BY <2>2
  <2>6. ASSUME NEW logs \in Seq(LogMessages), NEW x \in AsyncMsgs
        PROVE  WithLog(first \o logs, x) = first \o WithLog(logs, x)
    <3>1. IsLog(x) => x.msg \in LogMessages
      BY DEF IsLog, AsyncMsgs, LogMsg, FlushMsg, TerminateMsg
    <3>2. ASSUME NEW m \in LogMessages
          PROVE  Append(first \o logs, m) = first \o Append(logs, m)
      <4>1. first \o logs \in Seq(LogMessages) /\ <<m>> \in Seq(LogMessages)
        BY <1>4
      <4>2. /\ Append(first \o logs, m) = (first \o logs) \o <<m>>
            /\ Append(logs, m) = logs \o <<m>>
        BY <4>1, AppendIsConcat
      <4> QED
        BY <1>4, <4>1, <4>2, ConcatAssociative
    <3> QED
      BY <3>1, <3>2 DEF WithLog
  <2> QED
    BY <2>3, <2>4, <2>5, <2>6
<1>7. g[n + 1] = first \o f[n]
  <2> HIDE DEF S
  <2>1. n \in S
    BY <1>3, <1>5, <1>6, SetInduction
  <2> QED
    BY <2>1 DEF S
<1> QED
  BY <1>1, <1>2, <1>7 DEF first

-----------------------------------------------------------------------------
(* The mapping's view of the queue.                                        *)

queuedLogs == LogsIn(Contents(logQueue))

LEMMA QueueContents ==
  ASSUME NEW q \in Ring, \A i \in 0 .. Size(q) - 1 : At(q, i) \in AsyncMsgs
  PROVE  /\ Contents(q) \in Seq(AsyncMsgs)
         /\ Len(Contents(q)) = Size(q)
         /\ \A i \in 1 .. Size(q) : Contents(q)[i] = At(q, i - 1)
<1>1. Size(q) \in Nat
  BY RingIndex
<1>2. \A i \in 1 .. Size(q) : At(q, i - 1) \in AsyncMsgs
  BY <1>1
<1> QED
  BY <1>1, <1>2 DEF Contents

\* A post to the pool comes last among the messages, if it is one.
LEMMA EnqueuedLast ==
  ASSUME QueueItems, NEW x \in AsyncMsgs, Enqueue(x)
  PROVE  queuedLogs' = WithLog(queuedLogs, x)
<1>1. /\ QueueItems'
      /\ Size(logQueue') = Size(logQueue) + 1 /\ Size(logQueue) \in Nat
      /\ At(logQueue', Size(logQueue)) = x
      /\ \A i \in 0 .. Size(logQueue) - 1 : At(logQueue', i) = At(logQueue, i)
  BY Enqueued
<1> DEFINE before == Contents(logQueue)
           after == Contents(logQueue')
<1>2. /\ before \in Seq(AsyncMsgs) /\ Len(before) = Size(logQueue)
      /\ \A i \in 1 .. Size(logQueue) : before[i] = At(logQueue, i - 1)
  BY QueueContents DEF QueueItems
<1>3. /\ after \in Seq(AsyncMsgs) /\ Len(after) = Size(logQueue')
      /\ \A i \in 1 .. Size(logQueue') : after[i] = At(logQueue', i - 1)
  BY <1>1, QueueContents DEF QueueItems
<1> HIDE DEF before, after
<1>4. \A i \in 1 .. Len(before) : after[i] = before[i]
  BY <1>1, <1>2, <1>3
<1>5. after[Len(after)] = x /\ Len(after) = Len(before) + 1
  BY <1>1, <1>2, <1>3
<1>6. LogsIn(after) = WithLog(LogsIn(before), x)
  BY <1>2, <1>3, <1>4, <1>5, LogsAppended
<1> QED
  BY <1>6 DEF queuedLogs, before, after

\* What the worker takes was the first among the messages, if it is one.
LEMMA DequeuedFirst ==
  ASSUME QueueItems, Dequeue
  PROVE  /\ incoming' \in AsyncMsgs
         /\ queuedLogs = WithLog(<<>>, incoming') \o queuedLogs'
         /\ wPc' = "write" <=> IsLog(incoming')
<1>1. /\ QueueItems'
      /\ Size(logQueue) \in Nat \ {0} /\ Size(logQueue') = Size(logQueue) - 1
      /\ \A i \in 0 .. Size(logQueue') - 1 : At(logQueue', i) = At(logQueue, i + 1)
      /\ At(logQueue, 0) \in AsyncMsgs
  BY Dequeued
<1>2. incoming' = At(logQueue, 0)
  BY TakenFirst DEF Dequeue, QueueItems
<1> DEFINE before == Contents(logQueue)
           after == Contents(logQueue')
<1>3. /\ before \in Seq(AsyncMsgs) /\ Len(before) = Size(logQueue)
      /\ \A i \in 1 .. Size(logQueue) : before[i] = At(logQueue, i - 1)
  BY QueueContents DEF QueueItems
<1>4. /\ after \in Seq(AsyncMsgs) /\ Len(after) = Size(logQueue')
      /\ \A i \in 1 .. Size(logQueue') : after[i] = At(logQueue', i - 1)
  BY <1>1, QueueContents DEF QueueItems
<1> HIDE DEF before, after
<1>5. \A i \in 1 .. Len(after) : after[i] = before[i + 1]
  BY <1>1, <1>3, <1>4
<1>6. before[1] = incoming' /\ Len(before) = Len(after) + 1
  BY <1>1, <1>2, <1>3, <1>4
<1>7. LogsIn(before) = WithLog(<<>>, incoming') \o LogsIn(after)
  BY <1>3, <1>4, <1>5, <1>6, LogsTaken
<1>8. wPc' = "write" <=> IsLog(incoming')
  BY <1>1, <1>2, MsgTypes DEF Dequeue, IsLog
<1> QED
  BY <1>1, <1>2, <1>7, <1>8 DEF queuedLogs, before, after

-----------------------------------------------------------------------------
(* The inductive invariant is kept.                                        *)

LEMMA LogInit == AsyncLogInit => LogParts
<1> SUFFICES ASSUME AsyncLogInit PROVE LogParts
  OBVIOUS
<1>1. logQueue = NewQueue(QueueSize) /\ Empty(logQueue)
  BY DEF AsyncLogInit, NewQueue, Empty
<1>2. LogTypes
  <2>1. failCount \in 0 .. MaxFailed
    BY DEF AsyncLogInit
  <2>2. fileBuf \in Seq(LogMessages) /\ fileDisk \in Seq(LogMessages)
    BY DEF AsyncLogInit
  <2>3. fileOpen \in BOOLEAN /\ incoming \in AsyncMsgs /\ callMsg = NoMessage
    BY MsgTypes DEF AsyncLogInit
  <2> QED
    BY <2>1, <2>2, <2>3 DEF LogTypes
<1>3. LockTypes /\ Carried /\ NoPoolInSync /\ LoggerDropped
  BY <1>1 DEF AsyncLogInit, LockTypes, Carried, NoPoolInSync, LoggerDropped
<1>4. BufferHeld /\ WarnHeld
  BY DEF AsyncLogInit, BufferHeld, WarnHeld
<1> QED
  BY <1>2, <1>3, <1>4 DEF LogParts

\* What a step that leaves the queue and the FILE's buffer alone has to see to.
LEMMA BufferKept ==
  ASSUME LogParts, fileBuf' = fileBuf, logQueue' = logQueue,
         (default_logger = "seeker" \/ wPc \in {"write", "flush"}) =>
           (default_logger' = "seeker" \/ wPc' \in {"write", "flush"})
  PROVE  BufferHeld'
BY DEF LogParts, BufferHeld

LEMMA WarnKept ==
  ASSUME LogParts, fileBuf' = fileBuf,
         lPc \in {"flush", "killed"} => lPc' \in {"flush", "killed"},
         wPc' = wPc, incoming' = incoming
  PROVE  WarnHeld'
BY DEF LogParts, WarnHeld

LEMMA StartupLogs ==
  ASSUME LoggerInv, LogParts, InitLogger
  PROVE  LogParts'
<1> USE DEF registryVars, lockVars, fileVars, countVars
<1>1. CASE OpenLogFile
  <2>1. /\ lPc = "init" /\ lPc' \in {"pool", "configure", "logging"}
        /\ (lPc' = "pool" => useAsyn') /\ default_logger # "seeker"
        /\ tp = "none" /\ wPc = "none" /\ Empty(logQueue)
    BY <1>1 DEF OpenLogFile, LoggerInv, Control, NothingYet, NothingQueued
  <2>2. /\ tp' = tp /\ wPc' = wPc /\ incoming' = incoming /\ logQueue' = logQueue
        /\ callMsg' = callMsg /\ fileBuf' = fileBuf /\ fileDisk' = fileDisk
        /\ failCount' = failCount /\ UNCHANGED lockVars
        /\ fileOpen' \in BOOLEAN
    BY <1>1 DEF OpenLogFile, LogParts, LogTypes
  <2>3. LogTypes' /\ LockTypes' /\ Carried' /\ NoPoolInSync' /\ LoggerDropped'
    BY <2>1, <2>2 DEF LogParts, LogTypes, LockTypes, Carried, NoPoolInSync, LoggerDropped
  <2> QED
    BY <2>1, <2>2, <2>3, BufferKept, WarnKept DEF LogParts
<1>2. CASE InitThreadPool
  <2>1. lPc = "pool" /\ wPc = "none" /\ Empty(logQueue) /\ useAsyn /\ default_logger # "seeker"
    BY <1>2 DEF InitThreadPool, LoggerInv, Control, NothingYet, NothingQueued, LogParts,
                NoPoolInSync
  <2>2. LogTypes' /\ LockTypes' /\ Carried' /\ NoPoolInSync' /\ LoggerDropped'
    BY <1>2, <2>1 DEF InitThreadPool, LogParts, LogTypes, LockTypes, Carried, NoPoolInSync,
                      LoggerDropped
  <2>3. BufferHeld'
    BY <1>2, <2>1, BufferKept DEF InitThreadPool
  <2>4. WarnHeld'
    BY <1>2, <2>1 DEF InitThreadPool, LogParts, WarnHeld
  <2> QED
    BY <2>2, <2>3, <2>4 DEF LogParts
<1>3. CASE Configure
  <2>1. LogTypes' /\ LockTypes' /\ Carried' /\ NoPoolInSync' /\ LoggerDropped'
    BY <1>3 DEF Configure, LogParts, LogTypes, LockTypes, Carried, NoPoolInSync, LoggerDropped
  <2>2. BufferHeld' /\ WarnHeld'
    BY <1>3, BufferKept, WarnKept DEF Configure
  <2> QED
    BY <2>1, <2>2 DEF LogParts
<1> QED
  BY <1>1, <1>2, <1>3 DEF InitLogger

LEMMA CallsLogs ==
  ASSUME LoggerInv, LogParts,
         (\E level \in LogLevels : CallLog(level)) \/ LogShuttingDown \/ MainReturns
           \/ ProcessKilled
  PROVE  LogParts'
<1> USE DEF registryVars, lockVars, fileVars, countVars
<1>1. CASE \E level \in LogLevels : CallLog(level)
  <2>1. PICK level \in LogLevels : CallLog(level)
    BY <1>1
  <2>2. callMsg' \in LogMessages
    BY <2>1 DEF CallLog, LogMessages, LoggerInv, Control, ControlTypes
  <2>3. LogTypes' /\ LockTypes' /\ Carried' /\ NoPoolInSync' /\ LoggerDropped'
    BY <2>1, <2>2 DEF CallLog, LogParts, LogTypes, LockTypes, Carried, NoPoolInSync,
                      LoggerDropped
  <2>4. BufferHeld' /\ WarnHeld'
    BY <2>1, BufferKept, WarnKept DEF CallLog
  <2> QED
    BY <2>3, <2>4 DEF LogParts
<1>2. CASE LogShuttingDown
  <2>1. callMsg' \in LogMessages
    BY <1>2 DEF LogShuttingDown, LogMessages, LogLevels
  <2>2. LogTypes' /\ LockTypes' /\ Carried' /\ NoPoolInSync' /\ LoggerDropped'
    BY <1>2, <2>1 DEF LogShuttingDown, LogParts, LogTypes, LockTypes, Carried, NoPoolInSync,
                      LoggerDropped
  <2>3. BufferHeld' /\ WarnHeld'
    BY <1>2, BufferKept, WarnKept DEF LogShuttingDown
  <2> QED
    BY <2>2, <2>3 DEF LogParts
<1>3. CASE MainReturns
  <2>1. LogTypes' /\ LockTypes' /\ Carried' /\ NoPoolInSync' /\ LoggerDropped'
    BY <1>3 DEF MainReturns, LogParts, LogTypes, LockTypes, Carried, NoPoolInSync,
                LoggerDropped
  <2>2. BufferHeld' /\ WarnHeld'
    BY <1>3, BufferKept, WarnKept DEF MainReturns
  <2> QED
    BY <2>1, <2>2 DEF LogParts
<1>4. CASE ProcessKilled
  <2>1. LogTypes' /\ LockTypes' /\ Carried' /\ NoPoolInSync' /\ LoggerDropped'
    BY <1>4 DEF ProcessKilled, LogParts, LogTypes, LockTypes, Carried, NoPoolInSync,
                LoggerDropped
  <2>2. BufferHeld' /\ WarnHeld'
    BY <1>4, BufferKept, WarnKept DEF ProcessKilled
  <2> QED
    BY <2>1, <2>2 DEF LogParts
<1> QED
  BY <1>1, <1>2, <1>3, <1>4

\* What a write or a flush leaves of the buffer's messages.
LEMMA SinkLogWrites ==
  ASSUME LogTypes, NEW m \in LogMessages, SinkLog(m)
  PROVE  /\ fileBuf' \in Seq(LogMessages) /\ fileDisk' \in Seq(LogMessages)
         /\ failCount' \in 0 .. MaxFailed /\ fileOpen' = fileOpen
         /\ \A i \in DOMAIN fileBuf' :
              fileBuf'[i] = m \/ \E j \in DOMAIN fileBuf : fileBuf'[i] = fileBuf[j]
<1>1. CASE fileBuf' = Append(fileBuf, m) /\ UNCHANGED <<fileDisk, fileOpen, failCount>>
  BY <1>1 DEF LogTypes
<1>2. CASE /\ fileDisk' = Append(fileDisk \o fileBuf, m) /\ fileBuf' = <<>>
           /\ UNCHANGED <<fileOpen, failCount>>
  BY <1>2 DEF LogTypes
<1>3. CASE failCount < MaxFailed /\ failCount' = failCount + 1 /\ UNCHANGED fileVars
  BY <1>3 DEF LogTypes, fileVars
<1> QED
  BY <1>1, <1>2, <1>3 DEF SinkLog

LEMMA SinkFlushWrites ==
  ASSUME LogTypes, fileDisk' = fileDisk \o fileBuf, fileBuf' = <<>>
  PROVE  fileBuf' \in Seq(LogMessages) /\ fileDisk' \in Seq(LogMessages)
BY DEF LogTypes

LEMMA FinishLogs ==
  ASSUME LoggerInv, LogParts, FinishCall
  PROVE  LogParts'
<1> USE DEF registryVars, lockVars, countVars
<1>0. lPc = "call" => callMsg \in LogMessages
  BY DEF LoggerInv, Control, ControlTypes
<1>1. CASE SinkItSync
  <2>1. /\ lPc = "call" /\ ~useAsyn /\ SinkLog(callMsg) /\ default_logger = "seeker"
        /\ lPc' = (IF ShouldFlush(callMsg) THEN "flush" ELSE AfterCall)
        /\ AfterCall \in {"drop", "logging"}
    BY <1>1, LoggerHasFile DEF SinkItSync, AfterCall
  <2>2. LogTypes'
    BY <1>0, <1>1, <2>1, SinkLogWrites DEF SinkItSync, LogParts, LogTypes
  <2>3. LockTypes' /\ Carried' /\ NoPoolInSync' /\ LoggerDropped'
    BY <1>1, <2>1 DEF SinkItSync, LogParts, LockTypes, Carried, NoPoolInSync, LoggerDropped
  <2>4. BufferHeld'
    BY <1>1, <2>1 DEF SinkItSync, BufferHeld
  <2>5. WarnHeld'
    <3>1. \A i \in DOMAIN fileBuf : fileBuf[i].level # flushLevel
      BY <2>1 DEF LogParts, WarnHeld, NoPoolInSync
    <3>2. \A i \in DOMAIN fileBuf' :
            fileBuf'[i] = callMsg \/ \E j \in DOMAIN fileBuf : fileBuf'[i] = fileBuf[j]
      BY <1>0, <2>1, SinkLogWrites DEF LogParts
    <3> QED
      BY <2>1, <3>1, <3>2 DEF WarnHeld, ShouldFlush
  <2> QED
    BY <2>2, <2>3, <2>4, <2>5 DEF LogParts
<1>2. CASE FlushSync
  <2>1. /\ lPc = "flush" /\ fileDisk' = fileDisk \o fileBuf /\ fileBuf' = <<>>
        /\ fileOpen' = fileOpen /\ lPc' \in {"drop", "logging"}
    BY <1>2 DEF FlushSync, SinkFlush, AfterCall
  <2>2. LogTypes'
    BY <1>2, <2>1, SinkFlushWrites DEF FlushSync, LogParts, LogTypes
  <2>3. LockTypes' /\ Carried' /\ NoPoolInSync' /\ LoggerDropped'
    BY <1>2, <2>1 DEF FlushSync, LogParts, LockTypes, Carried, NoPoolInSync, LoggerDropped
  <2>4. BufferHeld' /\ WarnHeld'
    BY <2>1 DEF BufferHeld, WarnHeld
  <2> QED
    BY <2>2, <2>3, <2>4 DEF LogParts
<1>3. CASE SinkItAsync
  <2>1. /\ lPc = "call" /\ useAsyn /\ lPc' \in {"drop", "logging"}
        /\ default_logger = "seeker" /\ default_logger' = default_logger
    BY <1>3, LoggerHasFile DEF SinkItAsync, AfterCall
  <2>2. LogTypes' /\ LockTypes' /\ Carried' /\ NoPoolInSync' /\ LoggerDropped'
    BY <1>3, <2>1 DEF SinkItAsync, fileVars, LogParts, LogTypes, LockTypes, Carried,
                      NoPoolInSync, LoggerDropped
  <2>3. BufferHeld' /\ WarnHeld'
    BY <1>3, <2>1, WarnKept DEF SinkItAsync, fileVars, BufferHeld
  <2> QED
    BY <2>2, <2>3 DEF LogParts
<1> QED
  BY <1>1, <1>2, <1>3 DEF FinishCall

LEMMA ExitLogs ==
  ASSUME LoggerInv, LogParts, DropAll \/ StopFlusher \/ JoinFlusher \/ PostTerminate \/ JoinWorker
  PROVE  LogParts'
<1> USE DEF registryVars, lockVars, countVars
<1>1. CASE DropAll
  <2> DEFINE held == WorkerHolds \/ \E q \in Queued(logQueue) : HoldsLogger(q)
  <2>1. /\ lPc \in {"drop", "dropAgain"} /\ lPc' \in {"shutdown", "terminate", "closed"}
        /\ default_logger' = "none" /\ wPc' = wPc /\ logQueue' = logQueue
        /\ incoming' = incoming /\ ReleaseLogger(held)
    BY <1>1 DEF DropAll
  <2>2. held <=> (wPc \in {"write", "flush"}
                   \/ \E i \in 0 .. Size(logQueue) - 1 : HoldsLogger(At(logQueue, i)))
    BY QueuedItems DEF WorkerHolds, LoggerInv
  <2> HIDE DEF held
  <2>3. CASE held
    <3>1. UNCHANGED fileVars
      BY <2>1, <2>3 DEF ReleaseLogger
    <3>2. LogTypes' /\ LockTypes' /\ Carried' /\ NoPoolInSync' /\ LoggerDropped'
      BY <1>1, <2>1, <3>1 DEF DropAll, fileVars, LogParts, LogTypes, LockTypes, Carried,
                              NoPoolInSync, LoggerDropped
    <3>3. BufferHeld' /\ WarnHeld'
      BY <2>1, <2>2, <2>3, <3>1 DEF fileVars, LogParts, BufferHeld, WarnHeld
    <3> QED
      BY <3>2, <3>3 DEF LogParts
  <2>4. CASE ~held
    <3>1. fileDisk' = fileDisk \o fileBuf /\ fileBuf' = <<>> /\ fileOpen' = FALSE
      BY <2>1, <2>4 DEF ReleaseLogger
    <3>2. fileBuf' \in Seq(LogMessages) /\ fileDisk' \in Seq(LogMessages)
      BY <3>1, SinkFlushWrites DEF LogParts
    <3>3. LogTypes' /\ LockTypes' /\ Carried' /\ NoPoolInSync' /\ LoggerDropped'
      BY <1>1, <2>1, <3>1, <3>2 DEF DropAll, LogParts, LogTypes, LockTypes, Carried,
                                    NoPoolInSync, LoggerDropped
    <3>4. BufferHeld' /\ WarnHeld'
      BY <3>1 DEF BufferHeld, WarnHeld
    <3> QED
      BY <3>3, <3>4 DEF LogParts
  <2> QED
    BY <2>3, <2>4
<1>2. CASE StopFlusher
  <2>1. LogTypes' /\ LockTypes' /\ Carried' /\ NoPoolInSync' /\ LoggerDropped'
    BY <1>2 DEF StopFlusher, fileVars, LogParts, LogTypes, LockTypes, Carried, NoPoolInSync,
                LoggerDropped
  <2>2. BufferHeld' /\ WarnHeld'
    BY <1>2, BufferKept, WarnKept DEF StopFlusher, fileVars
  <2> QED
    BY <2>1, <2>2 DEF LogParts
<1>3. CASE JoinFlusher
  <2>1. LogTypes' /\ LockTypes' /\ Carried' /\ NoPoolInSync' /\ LoggerDropped'
    BY <1>3 DEF JoinFlusher, fileVars, LogParts, LogTypes, LockTypes, Carried, NoPoolInSync,
                LoggerDropped
  <2>2. BufferHeld' /\ WarnHeld'
    BY <1>3, BufferKept, WarnKept DEF JoinFlusher, fileVars
  <2> QED
    BY <2>1, <2>2 DEF LogParts
<1>4. CASE PostTerminate
  <2>1. lPc = "terminate" /\ lPc' = "joinPool" /\ useAsyn /\ default_logger = "none"
    BY <1>4 DEF PostTerminate, LoggerInv, Control, PoolThere, LogParts, NoPoolInSync,
                LoggerDropped, ControlTypes
  <2>2. LogTypes' /\ LockTypes' /\ Carried' /\ NoPoolInSync' /\ LoggerDropped'
    BY <1>4, <2>1 DEF PostTerminate, fileVars, LogParts, LogTypes, LockTypes, Carried,
                      NoPoolInSync, LoggerDropped
  <2>3. WarnHeld'
    BY <1>4, WarnKept DEF PostTerminate, fileVars
  <2>4. BufferHeld'
    <3>1. /\ Size(logQueue') = Size(logQueue) + 1 /\ Size(logQueue) \in Nat
          /\ \A i \in 0 .. Size(logQueue) - 1 : At(logQueue', i) = At(logQueue, i)
      BY <1>4, Enqueued, MsgTypes DEF PostTerminate, LoggerInv
    <3>2. 0 .. Size(logQueue) - 1 \subseteq 0 .. Size(logQueue') - 1
      BY <3>1
    <3>3. (\E i \in 0 .. Size(logQueue) - 1 : HoldsLogger(At(logQueue, i))) =>
            \E i \in 0 .. Size(logQueue') - 1 : HoldsLogger(At(logQueue', i))
      BY <3>1, <3>2
    <3> QED
      BY <1>4, <2>1, <3>3 DEF PostTerminate, fileVars, LogParts, BufferHeld
  <2> QED
    BY <2>2, <2>3, <2>4 DEF LogParts
<1>5. CASE JoinWorker
  <2>1. LogTypes' /\ LockTypes' /\ Carried' /\ NoPoolInSync' /\ LoggerDropped'
    BY <1>5 DEF JoinWorker, fileVars, LogParts, LogTypes, LockTypes, Carried, NoPoolInSync,
                LoggerDropped
  <2>2. BufferHeld' /\ WarnHeld'
    BY <1>5, BufferKept, WarnKept DEF JoinWorker, fileVars
  <2> QED
    BY <2>1, <2>2 DEF LogParts
<1> QED
  BY <1>1, <1>2, <1>3, <1>4, <1>5

LEMMA FlusherLogs ==
  ASSUME LoggerInv, LogParts, FlusherStep
  PROVE  LogParts'
<1> USE DEF registryVars, countVars
<1>1. CASE FlusherWakes \/ FlusherLocksMap \/ FlusherEnds
  <2>1. LogTypes' /\ LockTypes' /\ Carried' /\ NoPoolInSync' /\ LoggerDropped'
    BY <1>1 DEF FlusherWakes, FlusherLocksMap, FlusherEnds, lockVars, fileVars, LogParts,
                LogTypes, LockTypes, Carried, NoPoolInSync, LoggerDropped
  <2>2. BufferHeld' /\ WarnHeld'
    BY <1>1, BufferKept, WarnKept DEF FlusherWakes, FlusherLocksMap, FlusherEnds, fileVars
  <2> QED
    BY <2>1, <2>2 DEF LogParts
<1>2. CASE FlushAll
  <2>1. /\ lPc' = lPc /\ wPc' = wPc /\ incoming' = incoming /\ callMsg' = callMsg
        /\ useAsyn' = useAsyn /\ tp' = tp /\ default_logger' = default_logger
        /\ failCount' = failCount /\ LockTypes' /\ LogTypes
    BY <1>2 DEF FlushAll, LogParts, LockTypes
  <2>2. CASE UNCHANGED <<logQueue, fileVars>>
    <3>1. LogTypes' /\ Carried' /\ NoPoolInSync' /\ LoggerDropped'
      BY <2>1, <2>2 DEF fileVars, LogParts, LogTypes, Carried, NoPoolInSync, LoggerDropped
    <3>2. BufferHeld' /\ WarnHeld'
      BY <2>1, <2>2, BufferKept, WarnKept DEF fileVars
    <3> QED
      BY <2>1, <3>1, <3>2 DEF LogParts
  <2>3. CASE SinkFlush /\ UNCHANGED logQueue
    <3>1. fileBuf' \in Seq(LogMessages) /\ fileDisk' \in Seq(LogMessages)
      BY <2>1, <2>3, SinkFlushWrites DEF SinkFlush
    <3>2. LogTypes' /\ Carried' /\ NoPoolInSync' /\ LoggerDropped'
      BY <2>1, <2>3, <3>1 DEF SinkFlush, LogParts, LogTypes, Carried, NoPoolInSync,
                              LoggerDropped
    <3>3. BufferHeld' /\ WarnHeld'
      BY <2>3 DEF SinkFlush, BufferHeld, WarnHeld
    <3> QED
      BY <2>1, <3>2, <3>3 DEF LogParts
  <2>4. CASE default_logger = "seeker" /\ useAsyn /\ Enqueue(FlushMsg) /\ UNCHANGED fileVars
    <3>1. LogTypes' /\ Carried' /\ NoPoolInSync' /\ LoggerDropped'
      BY <2>1, <2>4 DEF fileVars, LogParts, LogTypes, Carried, NoPoolInSync, LoggerDropped
    <3>2. BufferHeld' /\ WarnHeld'
      BY <2>1, <2>4, WarnKept DEF fileVars, BufferHeld
    <3> QED
      BY <2>1, <3>1, <3>2 DEF LogParts
  <2> QED
    BY <1>2, <2>2, <2>3, <2>4 DEF FlushAll
<1> QED
  BY <1>1, <1>2 DEF FlusherStep

LEMMA WorkerLogs ==
  ASSUME LoggerInv, LogParts, WorkerStep
  PROVE  LogParts'
<1> USE DEF registryVars, countVars
<1>0. QueueItems /\ ProcessRuns
  BY DEF LoggerInv, WorkerStep
<1>1. CASE Dequeue
  <2>1. /\ wPc = "idle" /\ lPc' = lPc /\ callMsg' = callMsg /\ useAsyn' = useAsyn /\ tp' = tp
        /\ default_logger' = default_logger /\ failCount' = failCount
        /\ UNCHANGED fileVars /\ UNCHANGED lockVars
    BY <1>1 DEF Dequeue
  <2>2. incoming' \in AsyncMsgs /\ (wPc' = "write" <=> IsLog(incoming'))
    BY <1>0, <1>1, DequeuedFirst
  <2>3. useAsyn
    BY <1>0, <2>1 DEF LoggerInv, Control, ControlTypes, LogParts, NoPoolInSync
  <2>4. LogTypes' /\ LockTypes' /\ Carried' /\ NoPoolInSync' /\ LoggerDropped'
    BY <2>1, <2>2, <2>3 DEF fileVars, lockVars, LogParts, LogTypes, LockTypes, Carried,
                            NoPoolInSync, LoggerDropped, IsLog
  <2>5. WarnHeld'
    BY <2>1 DEF fileVars, LogParts, WarnHeld
  <2>6. BufferHeld'
    <3>1. /\ Size(logQueue) \in Nat \ {0} /\ Size(logQueue') = Size(logQueue) - 1
          /\ \A i \in 0 .. Size(logQueue') - 1 : At(logQueue', i) = At(logQueue, i + 1)
          /\ At(logQueue, 0) \in AsyncMsgs
          /\ wPc' = CASE At(logQueue, 0).msg_type = "log" -> "write"
                      [] At(logQueue, 0).msg_type = "flush" -> "flush"
                      [] At(logQueue, 0).msg_type = "terminate" -> "ended"
      BY <1>0, <1>1, Dequeued
    <3>2. HoldsLogger(At(logQueue, 0)) => wPc' \in {"write", "flush"}
      BY <3>1, MsgTypes DEF HoldsLogger
    <3>3. ASSUME NEW i \in 0 .. Size(logQueue) - 1, i # 0, HoldsLogger(At(logQueue, i))
          PROVE  \E j \in 0 .. Size(logQueue') - 1 : HoldsLogger(At(logQueue', j))
      <4>1. i - 1 \in 0 .. Size(logQueue') - 1 /\ (i - 1) + 1 = i
        BY <3>1, <3>3
      <4> QED
        BY <3>1, <3>3, <4>1
    <3> QED
      BY <2>1, <3>2, <3>3 DEF fileVars, LogParts, BufferHeld
  <2> QED
    BY <2>4, <2>5, <2>6 DEF LogParts
<1>2. CASE BackendSinkIt
  <2>1. /\ wPc = "write" /\ wPc' = "flush" /\ SinkLog(incoming.msg) /\ incoming' = incoming
        /\ incoming.msg_type = "log" /\ incoming.msg \in LogMessages
    BY <1>2 DEF BackendSinkIt, LogParts, LogTypes, Carried, AsyncMsgs, LogMsg, FlushMsg,
                TerminateMsg
  <2>2. LogTypes'
    BY <1>2, <2>1, SinkLogWrites DEF BackendSinkIt, LogParts, LogTypes
  <2>3. LockTypes' /\ Carried' /\ NoPoolInSync' /\ LoggerDropped' /\ BufferHeld'
    BY <1>2, <2>1 DEF BackendSinkIt, lockVars, LogParts, LockTypes, Carried, NoPoolInSync,
                      LoggerDropped, BufferHeld
  <2>4. WarnHeld'
    <3>1. useAsyn
      BY <2>1 DEF LoggerInv, Control, ControlTypes, LogParts, NoPoolInSync
    <3>2. \A i \in DOMAIN fileBuf : fileBuf[i].level # flushLevel
      BY <1>0, <2>1, <3>1 DEF LogParts, WarnHeld, NoPoolInSync, ProcessRuns
    <3>3. \A i \in DOMAIN fileBuf' :
            \/ fileBuf'[i] = incoming.msg
            \/ \E j \in DOMAIN fileBuf : fileBuf'[i] = fileBuf[j]
      BY <2>1, SinkLogWrites DEF LogParts
    <3> QED
      BY <2>1, <3>2, <3>3 DEF WarnHeld, ShouldFlush
  <2> QED
    BY <2>2, <2>3, <2>4 DEF LogParts
<1>3. CASE BackendFlush
  <2>1. /\ wPc = "flush" /\ wPc' = "idle" /\ incoming' = FlushMsg /\ lPc' = lPc
        /\ callMsg' = callMsg /\ useAsyn' = useAsyn /\ tp' = tp /\ logQueue' = logQueue
        /\ default_logger' = default_logger /\ failCount' = failCount
        /\ UNCHANGED lockVars /\ FlushMsg \in AsyncMsgs /\ useAsyn
    BY <1>3, MsgTypes DEF BackendFlush, LoggerInv, Control, ControlTypes, LogParts,
                          NoPoolInSync
  <2>2. LockTypes' /\ Carried' /\ NoPoolInSync' /\ LoggerDropped'
    BY <2>1 DEF lockVars, LogParts, LockTypes, Carried, NoPoolInSync, LoggerDropped
  <2>3. CASE LoggerHeld /\ incoming.msg_type = "log" /\ ~ShouldFlush(incoming.msg)
    <3>1. UNCHANGED fileVars
      BY <1>3, <2>3 DEF BackendFlush
    <3>2. LogTypes'
      BY <2>1, <3>1 DEF fileVars, LogParts, LogTypes
    <3>3. LoggerHeld <=>
            (default_logger = "seeker"
              \/ \E i \in 0 .. Size(logQueue) - 1 : HoldsLogger(At(logQueue, i)))
      BY QueuedItems DEF LoggerHeld, LoggerInv
    <3>4. BufferHeld'
      BY <2>1, <2>3, <3>3 DEF BufferHeld
    <3>5. WarnHeld'
      BY <1>0, <2>1, <2>3, <3>1 DEF fileVars, LogParts, WarnHeld, NoPoolInSync, ProcessRuns
    <3> QED
      BY <2>2, <3>2, <3>4, <3>5 DEF LogParts
  <2>4. CASE ~(LoggerHeld /\ incoming.msg_type = "log" /\ ~ShouldFlush(incoming.msg))
    <3>1. fileDisk' = fileDisk \o fileBuf /\ fileBuf' = <<>> /\ fileOpen' = LoggerHeld
      BY <1>3, <2>4 DEF BackendFlush
    <3>2. fileBuf' \in Seq(LogMessages) /\ fileDisk' \in Seq(LogMessages)
      BY <3>1, SinkFlushWrites DEF LogParts
    <3>3. LoggerHeld \in BOOLEAN
      BY DEF LoggerHeld
    <3>4. LogTypes' /\ BufferHeld' /\ WarnHeld'
      BY <2>1, <3>1, <3>2, <3>3 DEF LogParts, LogTypes, BufferHeld, WarnHeld
    <3> QED
      BY <2>2, <3>4 DEF LogParts
  <2> QED
    BY <2>3, <2>4
<1> QED
  BY <1>1, <1>2, <1>3 DEF WorkerStep

LEMMA LogStep ==
  ASSUME LogInv, AsyncLogNext
  PROVE  LogInv'
<1>1. LoggerInv'
  BY LoggerStep DEF LogInv
<1>2. LogParts'
  BY StartupLogs, CallsLogs, FinishLogs, ExitLogs, FlusherLogs, WorkerLogs
     DEF LogInv, AsyncLogNext, ProgramStep, ExitLogger
<1> QED
  BY <1>1, <1>2 DEF LogInv

LEMMA LogUnchanged ==
  ASSUME LogInv, UNCHANGED logVars
  PROVE  LogInv'
<1>1. LoggerInv'
  BY LoggerUnchanged DEF LogInv
<1>2. LogTypes' /\ LockTypes' /\ Carried' /\ NoPoolInSync' /\ LoggerDropped'
  BY DEF logVars, LogInv, LogParts, LogTypes, LockTypes, Carried, NoPoolInSync, LoggerDropped
<1>3. BufferHeld' /\ WarnHeld'
  BY BufferKept, WarnKept DEF logVars, LogInv
<1> QED
  BY <1>1, <1>2, <1>3 DEF LogInv, LogParts

LEMMA LogInvariant == Spec => []LogInv
<1>1. Init => LogInv
  BY LoggerInit, LogInit DEF Init, LogInv
<1>2. LogInv /\ [Next]_vars => LogInv'
  BY LoggerTurns, LogStep, LogUnchanged
<1> QED
  BY <1>1, <1>2, PTL DEF Spec

-----------------------------------------------------------------------------
(* The mapping.  What is pending lies in four places, one behind the other: *)
(* the FILE's buffer, the worker's hands, the queue and the program's call. *)

carried == IF wPc = "write" THEN <<incoming.msg>> ELSE <<>>
called == IF callMsg = NoMessage THEN <<>> ELSE <<callMsg>>
behindBuffer == carried \o (queuedLogs \o called)

LEMMA ThreeParts ==
  ASSUME NEW S, NEW a \in Seq(S), NEW b \in Seq(S), NEW c \in Seq(S), NEW s, s = (a \o b) \o c
  PROVE  s = a \o (b \o c)
BY ConcatAssociative

LEMMA FourParts ==
  ASSUME NEW S, NEW a \in Seq(S), NEW b \in Seq(S), NEW c \in Seq(S), NEW d \in Seq(S),
         NEW s, s = ((a \o b) \o c) \o d
  PROVE  s = a \o (b \o (c \o d))
<1>1. (a \o b) \o c = a \o (b \o c) /\ b \o c \in Seq(S)
  BY ConcatAssociative, SMTT(40)
<1>2. (a \o (b \o c)) \o d = a \o ((b \o c) \o d)
  BY <1>1, ConcatAssociative, SMTT(40)
<1>3. (b \o c) \o d = b \o (c \o d)
  BY ConcatAssociative
<1> QED
  BY <1>1, <1>2, <1>3

LEMMA CarriedMessage ==
  ASSUME NEW x \in AsyncMsgs, x.msg_type = "log"
  PROVE  x.msg \in LogMessages
BY DEF AsyncMsgs, LogMsg, FlushMsg, TerminateMsg

LEMMA QueueTyped ==
  ASSUME NEW q \in Ring, \A i \in 0 .. Size(q) - 1 : At(q, i) \in AsyncMsgs
  PROVE  LogsIn(Contents(q)) \in Seq(LogMessages) /\ (Empty(q) => LogsIn(Contents(q)) = <<>>)
<1>1. Empty(q) => Size(q) = 0
  BY RingIndex
<1> QED
  BY <1>1, QueueContents, LogsTyped

LEMMA Pending ==
  ASSUME LogInv
  PROVE  /\ fileBuf \in Seq(LogMessages) /\ fileDisk \in Seq(LogMessages)
         /\ carried \in Seq(LogMessages) /\ queuedLogs \in Seq(LogMessages)
         /\ called \in Seq(LogMessages) /\ behindBuffer \in Seq(LogMessages)
         /\ pendingMessages = fileBuf \o behindBuffer
         /\ Empty(logQueue) => queuedLogs = <<>>
         /\ lPc \notin {"call", "killed"} => called = <<>>
<1>1. fileBuf \in Seq(LogMessages) /\ fileDisk \in Seq(LogMessages)
  BY DEF LogInv, LogParts, LogTypes
<1>2. carried \in Seq(LogMessages)
  BY CarriedMessage DEF LogInv, LogParts, LogTypes, Carried, carried
<1>3. queuedLogs \in Seq(LogMessages) /\ (Empty(logQueue) => queuedLogs = <<>>)
  BY QueueTyped DEF queuedLogs, LogInv, LoggerInv, QueueItems
<1>4. called \in Seq(LogMessages) /\ (lPc \notin {"call", "killed"} => called = <<>>)
  BY DEF LogInv, LogParts, LogTypes, Carried, called
<1>5. pendingMessages = ((fileBuf \o carried) \o queuedLogs) \o called
  BY DEF pendingMessages, carried, queuedLogs, called
<1> HIDE DEF carried, queuedLogs, called
<1>6. behindBuffer \in Seq(LogMessages)
  BY <1>2, <1>3, <1>4 DEF behindBuffer
<1>7. pendingMessages = fileBuf \o (carried \o (queuedLogs \o called))
  BY <1>1, <1>2, <1>3, <1>4, <1>5, FourParts, SMTT(40)
<1>8. pendingMessages = fileBuf \o behindBuffer
  BY <1>7, Zenon DEF behindBuffer
<1> QED
  BY <1>1, <1>2, <1>3, <1>4, <1>6, <1>8

LEMMA PendingNext ==
  ASSUME LogInv'
  PROVE  /\ fileBuf' \in Seq(LogMessages) /\ behindBuffer' \in Seq(LogMessages)
         /\ pendingMessages' = fileBuf' \o behindBuffer'
<1>1. fileBuf' \in Seq(LogMessages)
  BY DEF LogInv, LogParts, LogTypes
<1>2. carried' \in Seq(LogMessages)
  BY CarriedMessage DEF LogInv, LogParts, LogTypes, Carried, carried
<1>3. queuedLogs' \in Seq(LogMessages)
  BY QueueTyped DEF queuedLogs, LogInv, LoggerInv, QueueItems
<1>4. called' \in Seq(LogMessages)
  BY DEF LogInv, LogParts, LogTypes, Carried, called
<1>5. pendingMessages' = ((fileBuf' \o carried') \o queuedLogs') \o called'
  BY DEF pendingMessages, carried, queuedLogs, called
<1> HIDE DEF carried, queuedLogs, called
<1>6. behindBuffer' \in Seq(LogMessages)
  BY <1>2, <1>3, <1>4 DEF behindBuffer
<1>7. pendingMessages' = fileBuf' \o (carried' \o (queuedLogs' \o called'))
  BY <1>1, <1>2, <1>3, <1>4, <1>5, FourParts, SMTT(40)
<1>8. pendingMessages' = fileBuf' \o behindBuffer'
  BY <1>7, Zenon DEF behindBuffer
<1> QED
  BY <1>1, <1>6, <1>8

-----------------------------------------------------------------------------
(* The steps of the service.                                               *)

ServiceStutters == UNCHANGED Service!serviceVars
ServiceMoves == Service!ServiceNext \/ ServiceStutters

\* A step that leaves the file and what is pending alone.
LEMMA Stutters ==
  ASSUME LogInv, LogInv', UNCHANGED <<fileVars, failCount>>, behindBuffer' = behindBuffer,
         serviceState' = serviceState
  PROVE  ServiceMoves
BY Pending, PendingNext DEF fileVars, ServiceMoves, ServiceStutters, Service!serviceVars

\* The front of what is pending.
LEMMA FrontOf ==
  ASSUME NEW S, NEW a \in Seq(S), NEW b \in Seq(S)
  PROVE  /\ Len(a \o b) = Len(a) + Len(b) /\ a \o b \in Seq(S)
         /\ SubSeq(a \o b, 1, Len(a)) = a
         /\ SubSeq(a \o b, Len(a) + 1, Len(a \o b)) = b
<1>1. Len(a \o b) = Len(a) + Len(b) /\ a \o b \in Seq(S)
  OBVIOUS
<1>2. SubSeq(a \o b, 1, Len(a)) = a
  OBVIOUS
<1>3. SubSeq(a \o b, Len(a) + 1, Len(a \o b)) = b
  BY <1>1
<1> QED
  BY <1>1, <1>2, <1>3

LEMMA WithoutOne ==
  ASSUME NEW S, NEW a \in Seq(S), NEW m \in S, NEW b \in Seq(S)
  PROVE  /\ Service!RemoveAt(a \o (<<m>> \o b), Len(a) + 1) = a \o b
         /\ Len(a) + 1 \in 1 .. Len(a \o (<<m>> \o b))
<1> DEFINE s == a \o (<<m>> \o b)
<1>1. Len(s) = Len(a) + 1 + Len(b) /\ Len(s) \in Nat
  OBVIOUS
<1>2. SubSeq(s, 1, (Len(a) + 1) - 1) = a
  OBVIOUS
<1>3. SubSeq(s, (Len(a) + 1) + 1, Len(s)) = b
  BY <1>1
<1> HIDE DEF s
<1>4. Service!RemoveAt(s, Len(a) + 1) = a \o b
  BY <1>2, <1>3 DEF Service!RemoveAt
<1>5. Len(a) + 1 \in 1 .. Len(s)
  BY <1>1
<1> QED
  BY <1>4, <1>5 DEF s

\* The buffer and perhaps the message behind it reach the file.
LEMMA Stores ==
  ASSUME LogInv, NEW first \in Seq(LogMessages), NEW rest \in Seq(LogMessages),
         pendingMessages = first \o rest, pendingMessages' = rest,
         fileDisk' = fileDisk \o first, failCount' = failCount,
         serviceState' = serviceState
  PROVE  ServiceMoves
<1>1. /\ first = SubSeq(pendingMessages, 1, Len(first))
      /\ rest = SubSeq(pendingMessages, Len(first) + 1, Len(pendingMessages))
      /\ Len(pendingMessages) = Len(first) + Len(rest)
  BY FrontOf
<1>2. CASE Len(first) # 0
  <2>1. Len(first) \in 1 .. Len(pendingMessages)
    BY <1>1, <1>2
  <2>2. Service!Store(Len(first))
    BY <1>1 DEF Service!Store
  <2> QED
    BY <2>1, <2>2 DEF ServiceMoves, Service!ServiceNext
<1>3. CASE Len(first) = 0
  <2>1. first = <<>>
    BY <1>3
  <2>2. pendingMessages' = pendingMessages /\ fileDisk' = fileDisk
    BY <2>1, Pending
  <2> QED
    BY <2>2 DEF ServiceMoves, ServiceStutters, Service!serviceVars
<1> QED
  BY <1>2, <1>3

\* The buffer is flushed.
LEMMA FlushStores ==
  ASSUME LogInv, LogInv', fileDisk' = fileDisk \o fileBuf, fileBuf' = <<>>,
         behindBuffer' = behindBuffer, failCount' = failCount, serviceState' = serviceState
  PROVE  ServiceMoves
<1>1. pendingMessages' = behindBuffer
  BY Pending, PendingNext
<1> QED
  BY <1>1, Pending, Stores

\* A sink takes the message behind the buffer, or loses it.
LEMMA SinkStores ==
  ASSUME LogInv, LogInv', NEW m \in LogMessages, SinkLog(m), serviceState' = serviceState,
         behindBuffer = <<m>> \o behindBuffer'
  PROVE  ServiceMoves
<1> DEFINE after == behindBuffer'
<1>0. /\ fileBuf \in Seq(LogMessages) /\ after \in Seq(LogMessages)
      /\ fileDisk \in Seq(LogMessages)
      /\ pendingMessages = fileBuf \o (<<m>> \o after)
      /\ pendingMessages' = fileBuf' \o after
  BY Pending, PendingNext
<1> HIDE DEF after
<1>1. CASE fileBuf' = Append(fileBuf, m) /\ UNCHANGED <<fileDisk, fileOpen, failCount>>
  <2>1. Append(fileBuf, m) \o after = fileBuf \o (<<m>> \o after)
    BY <1>0
  <2> QED
    BY <1>0, <1>1, <2>1 DEF ServiceMoves, ServiceStutters, Service!serviceVars
<1>2. CASE /\ fileDisk' = Append(fileDisk \o fileBuf, m) /\ fileBuf' = <<>>
           /\ UNCHANGED <<fileOpen, failCount>>
  <2>1. fileBuf \o (<<m>> \o after) = Append(fileBuf, m) \o after
    BY <1>0
  <2>2. Append(fileDisk \o fileBuf, m) = fileDisk \o Append(fileBuf, m)
    BY <1>0
  <2>3. pendingMessages' = after
    BY <1>0, <1>2
  <2>4. Append(fileBuf, m) \in Seq(LogMessages)
    BY <1>0
  <2> QED
    BY <1>0, <1>2, <2>1, <2>2, <2>3, <2>4, Stores
<1>3. CASE failCount < MaxFailed /\ failCount' = failCount + 1 /\ UNCHANGED fileVars
  <2>1. /\ Service!RemoveAt(pendingMessages, Len(fileBuf) + 1) = fileBuf \o after
        /\ Len(fileBuf) + 1 \in 1 .. Len(pendingMessages)
    BY <1>0, WithoutOne, ZenonT(40)
  <2>2. Service!Drop(Len(fileBuf) + 1)
    BY <1>0, <1>3, <2>1 DEF Service!Drop, fileVars
  <2> QED
    BY <2>1, <2>2 DEF ServiceMoves, Service!ServiceNext
<1> QED
  BY <1>1, <1>2, <1>3 DEF SinkLog

-----------------------------------------------------------------------------
(* Each step of the logger is a step of the service, or none.              *)

\* The queue, the worker's hands and the program's call are left alone.
LEMMA BehindKept ==
  ASSUME logQueue' = logQueue, callMsg' = callMsg, incoming' = incoming,
         (wPc = "write") <=> (wPc' = "write")
  PROVE  behindBuffer' = behindBuffer
BY Zenon DEF behindBuffer, carried, queuedLogs, called

LEMMA StillOpen ==
  ASSUME lPc \notin {"closed", "killed"}, lPc' \notin {"closed", "killed"}
  PROVE  serviceState = "open" /\ serviceState' = "open"
BY DEF serviceState

LEMMA StartupRefines ==
  ASSUME LogInv, LogInv', InitLogger
  PROVE  ServiceMoves
<1> USE DEF registryVars, lockVars, fileVars, countVars
<1>1. CASE OpenLogFile
  <2>1. /\ logQueue' = logQueue /\ callMsg' = callMsg /\ incoming' = incoming /\ wPc' = wPc
        /\ fileBuf' = fileBuf /\ fileDisk' = fileDisk /\ failCount' = failCount
        /\ lPc = "init" /\ lPc' \in {"pool", "configure", "logging"}
    BY <1>1 DEF OpenLogFile
  <2>2. behindBuffer' = behindBuffer
    BY <2>1, BehindKept
  <2>3. pendingMessages' = pendingMessages
    BY <2>1, <2>2, Pending, PendingNext
  <2> QED
    BY <2>1, <2>3, StillOpen DEF ServiceMoves, ServiceStutters, Service!serviceVars
<1>2. CASE InitThreadPool
  <2>1. /\ logQueue' = logQueue /\ callMsg' = callMsg /\ incoming' = incoming
        /\ wPc # "write" /\ wPc' # "write" /\ UNCHANGED <<fileVars, failCount>>
        /\ lPc = "pool" /\ lPc' = "configure"
    BY <1>2 DEF InitThreadPool, LogInv, LoggerInv, Control, NothingYet
  <2> QED
    BY <2>1, BehindKept, Stutters, StillOpen
<1>3. CASE Configure
  <2>1. /\ logQueue' = logQueue /\ callMsg' = callMsg /\ incoming' = incoming /\ wPc' = wPc
        /\ UNCHANGED <<fileVars, failCount>> /\ lPc = "configure" /\ lPc' = "logging"
    BY <1>3 DEF Configure
  <2> QED
    BY <2>1, BehindKept, Stutters, StillOpen
<1> QED
  BY <1>1, <1>2, <1>3 DEF InitLogger

\* A call hands its message over.
LEMMA CallRefines ==
  ASSUME LogInv, LogInv', (\E level \in LogLevels : CallLog(level)) \/ LogShuttingDown
  PROVE  ServiceMoves
<1>1. /\ logQueue' = logQueue /\ incoming' = incoming /\ wPc' = wPc
      /\ UNCHANGED <<fileVars, failCount>>
      /\ lPc \in {"logging", "exit"} /\ lPc' = "call"
  BY DEF CallLog, LogShuttingDown
<1>2. callMsg' \in LogMessages
  BY <1>1 DEF LogInv, LoggerInv, Control, ControlTypes
<1>3. callMsg' # NoMessage
  BY <1>2 DEF LogMessages, NoMessage
<1>4. called = <<>> /\ called' = <<callMsg'>>
  BY <1>1, <1>3, Pending DEF called
<1>5. carried' = carried /\ queuedLogs' = queuedLogs
  BY <1>1, Zenon DEF carried, queuedLogs
<1> HIDE DEF carried, queuedLogs, called
<1>6. behindBuffer' = Append(behindBuffer, callMsg')
  <2>1. behindBuffer = carried \o queuedLogs
    BY <1>4, Pending DEF behindBuffer
  <2>2. behindBuffer' = carried \o (queuedLogs \o <<callMsg'>>)
    BY <1>4, <1>5 DEF behindBuffer
  <2>3. carried \o (queuedLogs \o <<callMsg'>>) = Append(carried \o queuedLogs, callMsg')
    BY <1>2, Pending
  <2> QED
    BY <2>1, <2>2, <2>3
<1>7. pendingMessages' = Append(pendingMessages, callMsg')
  <2>1. fileBuf \o Append(behindBuffer, callMsg') = Append(fileBuf \o behindBuffer, callMsg')
    BY <1>2, Pending
  <2> QED
    BY <1>1, <1>6, <2>1, Pending, PendingNext DEF fileVars
<1>8. serviceState = "open" /\ serviceState' = "open"
  BY <1>1, StillOpen
<1>9. Service!Accept(callMsg')
  BY <1>1, <1>7, <1>8 DEF Service!Accept, fileVars
<1> QED
  BY <1>2, <1>9 DEF ServiceMoves, Service!ServiceNext

LEMMA FinishRefines ==
  ASSUME LogInv, LogInv', FinishCall
  PROVE  ServiceMoves
<1> USE DEF registryVars, lockVars, countVars
<1>0. lPc = "call" => callMsg \in LogMessages /\ called = <<callMsg>>
  <2>1. lPc = "call" => callMsg \in LogMessages
    BY DEF LogInv, LoggerInv, Control, ControlTypes
  <2>2. callMsg \in LogMessages => callMsg # NoMessage
    BY DEF LogMessages, NoMessage
  <2> QED
    BY <2>1, <2>2 DEF called
<1>1. CASE SinkItSync
  <2>1. /\ lPc = "call" /\ ~useAsyn /\ SinkLog(callMsg) /\ lPc' \in {"flush", "drop", "logging"}
        /\ callMsg' = NoMessage /\ wPc' = wPc /\ logQueue' = logQueue
    BY <1>1 DEF SinkItSync, AfterCall
  <2>2. wPc = "none" /\ Empty(logQueue)
    BY <2>1 DEF LogInv, LogParts, NoPoolInSync
  <2>3. carried = <<>> /\ carried' = <<>> /\ called' = <<>>
    BY <2>1, <2>2 DEF carried, called
  <2>4. queuedLogs = <<>> /\ queuedLogs' = queuedLogs
    BY <2>1, <2>2, Pending DEF queuedLogs
  <2> HIDE DEF carried, queuedLogs, called
  <2>5. behindBuffer = <<callMsg>> \o behindBuffer'
    BY <1>0, <2>1, <2>3, <2>4 DEF behindBuffer
  <2> QED
    BY <1>0, <2>1, <2>5, SinkStores, StillOpen
<1>2. CASE FlushSync
  <2>1. /\ lPc = "flush" /\ lPc' \in {"drop", "logging"} /\ SinkFlush
        /\ logQueue' = logQueue /\ callMsg' = callMsg /\ incoming' = incoming /\ wPc' = wPc
        /\ failCount' = failCount
    BY <1>2 DEF FlushSync, AfterCall
  <2> QED
    BY <2>1, BehindKept, FlushStores, StillOpen DEF SinkFlush
<1>3. CASE SinkItAsync
  <2>1. /\ lPc = "call" /\ Enqueue(LogMsg(callMsg)) /\ lPc' \in {"drop", "logging"}
        /\ callMsg' = NoMessage /\ wPc' = wPc /\ incoming' = incoming
        /\ UNCHANGED <<fileVars, failCount>>
    BY <1>3 DEF SinkItAsync, AfterCall
  <2>2. LogMsg(callMsg) \in AsyncMsgs /\ LogMsg(callMsg).msg_type = "log"
        /\ LogMsg(callMsg).msg = callMsg
    BY <1>0, <2>1, MsgTypes DEF LogMsg
  <2>3. queuedLogs' = WithLog(queuedLogs, LogMsg(callMsg))
    BY <2>1, <2>2, EnqueuedLast DEF LogInv, LoggerInv
  <2>4. queuedLogs' = Append(queuedLogs, callMsg)
    BY <2>2, <2>3 DEF WithLog, IsLog
  <2>5. called = <<callMsg>> /\ called' = <<>> /\ carried' = carried
    BY <1>0, <2>1 DEF called, carried
  <2> HIDE DEF carried, queuedLogs, called
  <2>6. Append(queuedLogs, callMsg) \o <<>> = queuedLogs \o <<callMsg>>
    BY <1>0, <2>1, Pending
  <2>7. behindBuffer' = behindBuffer
    BY <2>4, <2>5, <2>6 DEF behindBuffer
  <2> QED
    BY <2>1, <2>7, Stutters, StillOpen
<1> QED
  BY <1>1, <1>2, <1>3 DEF FinishCall

\* When the log is closed nothing is pending.
LEMMA NothingLeft ==
  ASSUME LogInv, default_logger # "seeker", wPc \notin {"write", "flush"}, Empty(logQueue),
         lPc \notin {"call", "killed"}
  PROVE  fileBuf = <<>> /\ pendingMessages = <<>>
<1>1. Size(logQueue) = 0
  BY RingIndex DEF LogInv, LoggerInv, QueueItems
<1>2. fileBuf = <<>>
  BY <1>1 DEF LogInv, LogParts, BufferHeld
<1>3. carried = <<>> /\ queuedLogs = <<>> /\ called = <<>>
  BY Pending DEF carried
<1> HIDE DEF carried, queuedLogs, called
<1>4. pendingMessages = <<>> \o (<<>> \o (<<>> \o <<>>))
  BY <1>2, <1>3, Pending DEF behindBuffer
<1> QED
  BY <1>2, <1>4

LEMMA ExitRefines ==
  ASSUME LogInv, LogInv', DropAll \/ StopFlusher \/ JoinFlusher \/ PostTerminate \/ JoinWorker
  PROVE  ServiceMoves
<1> USE DEF registryVars, lockVars, countVars
<1>1. CASE DropAll
  <2> DEFINE held == WorkerHolds \/ \E q \in Queued(logQueue) : HoldsLogger(q)
  <2>1. /\ lPc \in {"drop", "dropAgain"} /\ lPc' \in {"shutdown", "terminate", "closed"}
        /\ lPc' = "closed" => lPc = "dropAgain" /\ tp # "up"
        /\ logQueue' = logQueue /\ callMsg' = callMsg /\ incoming' = incoming /\ wPc' = wPc
        /\ failCount' = failCount /\ ReleaseLogger(held)
    BY <1>1 DEF DropAll
  <2> HIDE DEF held
  <2>2. behindBuffer' = behindBuffer
    BY <2>1, BehindKept
  <2>3. CASE lPc' # "closed"
    <3>1. serviceState' = serviceState
      BY <2>1, <2>3, StillOpen
    <3>2. CASE held
      BY <2>1, <2>2, <3>1, <3>2, Stutters DEF ReleaseLogger
    <3>3. CASE ~held
      BY <2>1, <2>2, <3>1, <3>3, FlushStores DEF ReleaseLogger
    <3> QED
      BY <3>2, <3>3
  <2>4. CASE lPc' = "closed"
    <3>1. lPc = "dropAgain" /\ ~useAsyn
      BY <2>1, <2>4 DEF LogInv, LoggerInv, Control, ControlTypes, NothingYet, ConsoleOnly,
                        PoolThere
    <3>2. default_logger # "seeker" /\ wPc = "none" /\ Empty(logQueue)
      BY <3>1 DEF LogInv, LogParts, NoPoolInSync, LoggerDropped
    <3>3. fileBuf = <<>> /\ pendingMessages = <<>>
      BY <3>1, <3>2, NothingLeft
    <3>4. fileBuf' = <<>> /\ fileDisk' = fileDisk
      <4>1. fileDisk \o <<>> = fileDisk
        BY Pending
      <4> QED
        BY <2>1, <3>3, <4>1 DEF ReleaseLogger, fileVars
    <3>5. pendingMessages' = pendingMessages
      BY <2>2, <3>3, <3>4, Pending, PendingNext
    <3>6. serviceState = "open" /\ serviceState' = "closed"
      BY <2>4, <3>1 DEF serviceState
    <3>7. Service!Close
      BY <2>1, <3>3, <3>4, <3>5, <3>6 DEF Service!Close
    <3> QED
      BY <3>7 DEF ServiceMoves, Service!ServiceNext
  <2> QED
    BY <2>3, <2>4
<1>2. CASE StopFlusher \/ JoinFlusher
  <2>1. /\ lPc \in {"shutdown", "join"} /\ lPc' \in {"join", "dropAgain"}
        /\ logQueue' = logQueue /\ callMsg' = callMsg /\ incoming' = incoming /\ wPc' = wPc
        /\ UNCHANGED <<fileVars, failCount>>
    BY <1>2 DEF StopFlusher, JoinFlusher
  <2> QED
    BY <2>1, BehindKept, Stutters, StillOpen
<1>3. CASE PostTerminate
  <2>1. /\ lPc = "terminate" /\ lPc' = "joinPool" /\ Enqueue(TerminateMsg)
        /\ callMsg' = callMsg /\ incoming' = incoming /\ wPc' = wPc
        /\ UNCHANGED <<fileVars, failCount>>
    BY <1>3 DEF PostTerminate
  <2>2. queuedLogs' = WithLog(queuedLogs, TerminateMsg)
    BY <2>1, MsgTypes, EnqueuedLast DEF LogInv, LoggerInv
  <2>3. queuedLogs' = queuedLogs
    BY <2>2, MsgTypes DEF WithLog, IsLog
  <2>4. carried' = carried /\ called' = called
    BY <2>1, Zenon DEF carried, called
  <2>5. behindBuffer' = behindBuffer
    BY <2>3, <2>4, Zenon DEF behindBuffer
  <2> QED
    BY <2>1, <2>5, Stutters, StillOpen
<1>4. CASE JoinWorker
  <2>1. /\ lPc = "joinPool" /\ wPc = "ended" /\ lPc' = "closed"
        /\ logQueue' = logQueue /\ callMsg' = callMsg /\ incoming' = incoming /\ wPc' = wPc
        /\ UNCHANGED <<fileVars, failCount>>
    BY <1>4 DEF JoinWorker
  <2>2. default_logger # "seeker" /\ Empty(logQueue)
    BY <2>1 DEF LogInv, LogParts, LoggerDropped, LoggerInv, WorkerDone
  <2>3. pendingMessages = <<>>
    BY <2>1, <2>2, NothingLeft
  <2>4. pendingMessages' = pendingMessages
    BY <2>1, BehindKept, Pending, PendingNext DEF fileVars
  <2>5. serviceState = "open" /\ serviceState' = "closed"
    BY <2>1 DEF serviceState
  <2>6. Service!Close
    BY <2>1, <2>3, <2>4, <2>5 DEF Service!Close, fileVars
  <2> QED
    BY <2>6 DEF ServiceMoves, Service!ServiceNext
<1> QED
  BY <1>1, <1>2, <1>3, <1>4

LEMMA EndRefines ==
  ASSUME LogInv, LogInv', MainReturns \/ ProcessKilled
  PROVE  ServiceMoves
<1>1. /\ logQueue' = logQueue /\ callMsg' = callMsg /\ incoming' = incoming /\ wPc' = wPc
      /\ UNCHANGED <<fileVars, failCount>>
  BY DEF MainReturns, ProcessKilled, registryVars, countVars
<1>2. CASE MainReturns
  <2>1. lPc = "logging" /\ lPc' \in {"exit", "undefined"}
    BY <1>2 DEF MainReturns
  <2> QED
    BY <1>1, <2>1, BehindKept, Stutters, StillOpen
<1>3. CASE ProcessKilled
  <2>1. pendingMessages' = pendingMessages
    BY <1>1, BehindKept, Pending, PendingNext DEF fileVars
  <2>2. serviceState = "open" /\ serviceState' = "killed"
    BY <1>3 DEF ProcessKilled, ProcessRuns, serviceState
  <2>3. Service!Kill
    BY <1>1, <2>1, <2>2 DEF Service!Kill, fileVars
  <2> QED
    BY <2>3 DEF ServiceMoves, Service!ServiceNext
<1> QED
  BY <1>2, <1>3

LEMMA FlusherRefines ==
  ASSUME LogInv, LogInv', FlusherStep
  PROVE  ServiceMoves
<1> USE DEF registryVars, lockVars, countVars
<1>1. /\ callMsg' = callMsg /\ incoming' = incoming /\ wPc' = wPc /\ failCount' = failCount
      /\ lPc' = lPc /\ lPc \notin {"closed", "killed"}
  BY DEF FlusherStep, ProcessRuns, FlusherWakes, FlusherLocksMap, FlushAll, FlusherEnds
<1>2. serviceState' = serviceState
  BY <1>1, StillOpen
<1>3. CASE logQueue' = logQueue /\ UNCHANGED fileVars
  BY <1>1, <1>2, <1>3, BehindKept, Stutters
<1>4. CASE logQueue' = logQueue /\ SinkFlush
  BY <1>1, <1>2, <1>4, BehindKept, FlushStores DEF SinkFlush
<1>5. CASE Enqueue(FlushMsg) /\ UNCHANGED fileVars
  <2>1. queuedLogs' = WithLog(queuedLogs, FlushMsg)
    BY <1>5, MsgTypes, EnqueuedLast DEF LogInv, LoggerInv
  <2>2. queuedLogs' = queuedLogs
    BY <2>1, MsgTypes DEF WithLog, IsLog
  <2>3. carried' = carried /\ called' = called
    BY <1>1, Zenon DEF carried, called
  <2>4. behindBuffer' = behindBuffer
    BY <2>2, <2>3, Zenon DEF behindBuffer
  <2> QED
    BY <1>1, <1>2, <1>5, <2>4, Stutters
<1>6. \/ logQueue' = logQueue /\ UNCHANGED fileVars
      \/ logQueue' = logQueue /\ SinkFlush
      \/ Enqueue(FlushMsg) /\ UNCHANGED fileVars
  BY DEF FlusherStep, FlusherWakes, FlusherLocksMap, FlushAll, FlusherEnds
<1> QED
  BY <1>3, <1>4, <1>5, <1>6

LEMMA WorkerRefines ==
  ASSUME LogInv, LogInv', WorkerStep
  PROVE  ServiceMoves
<1> USE DEF registryVars, lockVars, countVars
<1>1. callMsg' = callMsg /\ lPc' = lPc /\ lPc \notin {"closed", "killed"}
  BY DEF WorkerStep, ProcessRuns, Dequeue, BackendSinkIt, BackendFlush
<1>2. serviceState' = serviceState /\ called' = called
  BY <1>1, StillOpen DEF called
<1>3. CASE Dequeue
  <2>1. wPc = "idle" /\ UNCHANGED <<fileVars, failCount>>
    BY <1>3 DEF Dequeue
  <2>2. /\ incoming' \in AsyncMsgs
        /\ queuedLogs = WithLog(<<>>, incoming') \o queuedLogs'
        /\ (wPc' = "write") <=> IsLog(incoming')
    BY <1>3, DequeuedFirst DEF LogInv, LoggerInv
  <2>3. carried = <<>> /\ carried' = WithLog(<<>>, incoming')
    BY <2>1, <2>2 DEF carried, WithLog
  <2>4. queuedLogs' \in Seq(LogMessages)
    BY QueueTyped DEF queuedLogs, LogInv, LoggerInv, QueueItems
  <2>5. carried' \in Seq(LogMessages)
    BY <2>2, <2>3, CarriedMessage DEF WithLog, IsLog
  <2> HIDE DEF carried, queuedLogs, called
  <2>6. behindBuffer = (carried' \o queuedLogs') \o called
    BY <2>2, <2>3, Pending DEF behindBuffer
  <2>7. behindBuffer' = carried' \o (queuedLogs' \o called)
    BY <1>2 DEF behindBuffer
  <2>8. behindBuffer = carried' \o (queuedLogs' \o called)
    <3>1. called \in Seq(LogMessages)
      BY Pending
    <3> QED
      BY <2>4, <2>5, <2>6, <3>1, ThreeParts
  <2>9. behindBuffer' = behindBuffer
    BY <2>7, <2>8, Zenon
  <2> QED
    BY <1>2, <2>1, <2>9, Stutters
<1>4. CASE BackendSinkIt
  <2>1. /\ wPc = "write" /\ wPc' = "flush" /\ SinkLog(incoming.msg) /\ incoming' = incoming
        /\ logQueue' = logQueue /\ incoming.msg \in LogMessages
    BY <1>4, CarriedMessage DEF BackendSinkIt, LogInv, LogParts, LogTypes, Carried
  <2>2. carried = <<incoming.msg>> /\ carried' = <<>> /\ queuedLogs' = queuedLogs
    BY <2>1 DEF carried, queuedLogs
  <2> HIDE DEF carried, queuedLogs, called
  <2>3. behindBuffer = <<incoming.msg>> \o (queuedLogs \o called)
    BY <2>2 DEF behindBuffer
  <2>4. behindBuffer' = queuedLogs \o called
    BY <1>2, <2>2, Pending DEF behindBuffer
  <2> QED
    BY <1>2, <2>1, <2>3, <2>4, SinkStores
<1>5. CASE BackendFlush
  <2>1. /\ wPc = "flush" /\ wPc' = "idle" /\ logQueue' = logQueue /\ failCount' = failCount
    BY <1>5 DEF BackendFlush
  <2>2. carried' = carried /\ queuedLogs' = queuedLogs
    BY <2>1 DEF carried, queuedLogs
  <2>3. behindBuffer' = behindBuffer
    BY <1>2, <2>2, Zenon DEF behindBuffer
  <2>4. CASE UNCHANGED fileVars
    BY <1>2, <2>1, <2>3, <2>4, Stutters
  <2>5. CASE fileDisk' = fileDisk \o fileBuf /\ fileBuf' = <<>>
    BY <1>2, <2>1, <2>3, <2>5, FlushStores
  <2> QED
    BY <1>5, <2>4, <2>5 DEF BackendFlush
<1> QED
  BY <1>3, <1>4, <1>5 DEF WorkerStep

LEMMA StepRefines ==
  ASSUME LogInv, LogInv', AsyncLogNext
  PROVE  ServiceMoves
BY StartupRefines, CallRefines, FinishRefines, ExitRefines, EndRefines, FlusherRefines,
   WorkerRefines DEF AsyncLogNext, ProgramStep, ExitLogger

LEMMA IdleRefines == UNCHANGED logVars => ServiceStutters
<1> SUFFICES ASSUME UNCHANGED logVars PROVE ServiceStutters
  OBVIOUS
<1>1. /\ logQueue' = logQueue /\ callMsg' = callMsg /\ incoming' = incoming /\ wPc' = wPc
      /\ fileBuf' = fileBuf /\ fileDisk' = fileDisk /\ failCount' = failCount /\ lPc' = lPc
  BY DEF logVars
<1>2. pendingMessages' = pendingMessages /\ serviceState' = serviceState
  BY <1>1, Zenon DEF pendingMessages, serviceState
<1> QED
  BY <1>1, <1>2 DEF ServiceStutters, Service!serviceVars

LEMMA InitRefines == Init => Service!ServiceInit
<1> SUFFICES ASSUME Init PROVE Service!ServiceInit
  OBVIOUS
<1>1. LogInv /\ AsyncLogInit
  BY LoggerInit, LogInit DEF Init, LogInv
<1>2. fileBuf = <<>> /\ fileDisk = <<>> /\ failCount = 0 /\ serviceState = "open"
  BY <1>1 DEF AsyncLogInit, serviceState
<1>3. default_logger # "seeker" /\ wPc = "none" /\ lPc = "init" /\ Empty(logQueue)
  BY <1>1 DEF AsyncLogInit, NewQueue, Empty
<1>4. pendingMessages = <<>>
  BY <1>1, <1>3, NothingLeft
<1> QED
  BY <1>2, <1>4 DEF Service!ServiceInit

-----------------------------------------------------------------------------
(***************************************************************************)
(* Whatever the size of the pool's queue, however many messages are logged *)
(* and however many writes fail: what the logger accepts reaches the file  *)
(* once and in the order of the calls, or is reported as lost; the log is  *)
(* closed only when nothing is left, and a process that is killed leaves a *)
(* prefix behind.  Every step of the three threads is a step of LogService *)
(* or none (thread_pool-inl.h:34-125, mpmc_blocking_q.h:40-58,             *)
(* registry-inl.h:189-246).                                                *)
(***************************************************************************)
THEOREM LogIsImplemented == Spec => Implements
<1>1. LogInv /\ LogInv' /\ [Next]_vars => [Service!ServiceNext]_Service!serviceVars
  BY LoggerTurns, StepRefines, IdleRefines DEF ServiceMoves, ServiceStutters
<1> QED
  BY <1>1, InitRefines, LogInvariant, PTL DEF Spec, Implements, Service!ServiceSpec

(***************************************************************************)
(* The logger's state has its type, whatever the bounds.                   *)
(***************************************************************************)
THEOREM LoggerTypeCorrect == Spec => []AsyncLogTypeOK
<1>1. LogInv => AsyncLogTypeOK
  BY DEF LogInv, LoggerInv, Control, ControlTypes, LogParts, LogTypes, LockTypes,
         AsyncLogTypeOK
<1> QED
  BY <1>1, LogInvariant, PTL

(***************************************************************************)
(* However many messages and whatever the size of the queue: a warning is  *)
(* in the FILE's buffer only while the call that logged it, or the worker  *)
(* that wrote it, is about to flush it - or the process was killed in      *)
(* between.  So a crash loses a written warning only in that one place     *)
(* (logger-inl.h:183-193, async_logger-inl.h:53-81, seeker/logger.h:91).   *)
(***************************************************************************)
THEOREM WarningsAreFlushed == Spec => []WarnIsFlushed
<1>1. LogInv => WarnIsFlushed
  BY DEF LogInv, LogParts, WarnHeld, WarnIsFlushed
<1> QED
  BY <1>1, LogInvariant, PTL

=============================================================================
