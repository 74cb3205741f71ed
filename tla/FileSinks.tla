------------------------------ MODULE FileSinks ------------------------------
(***************************************************************************)
(* The file sinks and their files: daily_file_sink, which Logger::init     *)
(* makes, rotating_file_sink and basic_file_sink                           *)
(* (src/include/spdlog/sinks) over file_helper and the file calls of       *)
(* os-inl.h, which may fail.  The process may restart, and finds the files *)
(* of the sink before it.                                                  *)
(*                                                                         *)
(* A message is its number, time and size; a daily file is named by its    *)
(* day, a rotated one by its index.  Time goes in steps of a DayLength-th  *)
(* of a day.                                                               *)
(***************************************************************************)
EXTENDS CircularQueue, SequencesExt, Functions, FiniteSets

CONSTANTS
  DayLength,     \* steps of the clock in a day
  RotationTimes, \* rotation_h_ and rotation_m_: the step of the day of a rotation
  MaxSize,       \* max_size_ of a rotating sink
  MaxFiles,      \* max_files_ of the sinks
  RecordSizes,   \* sizes of a message formatted
  MaxClock,      \* bound: the clock
  MaxRecords,    \* bound: messages
  MaxFileErrors, \* bound: file calls that fail
  MaxRestarts    \* bound: times the process ends and another goes on

ASSUME FileSinksAssumption ==
  /\ DayLength \in Nat \ {0}
  /\ RotationTimes \subseteq 0 .. DayLength - 1
  /\ MaxSize \in Nat /\ MaxFiles \subseteq Nat
  /\ RecordSizes \subseteq Nat \ {0} /\ 1 \in RecordSizes

VARIABLES
  sinkKind,      \* "none", "daily", "rotating" or "basic"
  truncate_,     \* the truncate of the constructors, rotate_on_open of a rotating sink
  max_files_,    \* max_files_
  rotation_m_,   \* daily: the step of the day it rotates at
  sinkUp,        \* "no", "yes" or "crashed"
  files,         \* the files there are and their records
  openName,      \* filename_ of file_helper
  fdOpen,        \* fd_ # nullptr
  linked,        \* whether the file open is still one of files
  rotation_tp_,  \* daily: when the file changes
  filenames_q_,  \* daily: the files kept
  current_size_, \* rotating: bytes in the file
  clock,         \* log_clock::now()
  recordCount, fileErrors, restarts,
  gone           \* history: records removed by a rotation, a truncation or an error

choiceVars == <<sinkKind, truncate_, max_files_, rotation_m_>>
helperVars == <<openName, fdOpen, linked>>
sinkVars == <<choiceVars, sinkUp, files, helperVars, rotation_tp_, filenames_q_, current_size_,
              clock, recordCount, fileErrors, restarts, gone>>

Day(t) == t \div DayLength
EmptyFiles == <<>>

FileSinksInit ==
  /\ sinkKind = "none" /\ truncate_ = FALSE /\ max_files_ = 0 /\ rotation_m_ = 0 /\ sinkUp = "no"
  /\ files = EmptyFiles
  /\ openName = 0 /\ fdOpen = FALSE /\ linked = FALSE
  /\ rotation_tp_ = 0 /\ filenames_q_ = DisabledQueue /\ current_size_ = 0
  /\ clock = 0 /\ recordCount = 0 /\ fileErrors = 0 /\ restarts = 0
  /\ gone = {}

-----------------------------------------------------------------------------
(* Files.                                                                  *)

Exists(fs, name) == name \in DOMAIN fs
RecordsOf(fs, name) == IF Exists(fs, name) THEN fs[name] ELSE <<>>
Numbers(records) == {r.number : r \in Range(records)}
WithSize(n, r) == n + r.size
SizeOf(records) == FoldLeft(WithSize, 0, records)

Put(fs, name, records) == [n \in DOMAIN fs \cup {name} |-> IF n = name THEN records ELSE fs[n]]
Unlink(fs, name) == Restrict(fs, DOMAIN fs \ {name})

\* file_helper::open, "wb" or "ab".
Opened(fs, name, truncate) == Put(fs, name, IF truncate THEN <<>> ELSE RecordsOf(fs, name))
\* fwrite to the open file, whose name may be gone.
Written(fs, name, isLinked, r) == IF isLinked THEN Put(fs, name, Append(RecordsOf(fs, name), r)) ELSE fs

\* daily_file_sink::next_rotation_tp_
NextRotation(now) ==
  LET today == Day(now) * DayLength + rotation_m_
  IN  IF today > now THEN today ELSE today + DayLength

\* A file call fails.
MayFail == fileErrors < MaxFileErrors

-----------------------------------------------------------------------------
(* Constructors.                                                           *)

OpenDaily ==
  /\ sinkKind = "daily"
  /\ files' = Opened(files, Day(clock), truncate_)
  /\ gone' = gone \cup (IF truncate_ THEN Numbers(RecordsOf(files, Day(clock))) ELSE {})
  /\ openName' = Day(clock)
  /\ rotation_tp_' = NextRotation(clock)
  /\ filenames_q_' = IF max_files_ > 0 THEN PushBack(NewQueue(max_files_), Day(clock))
                     ELSE DisabledQueue
  /\ UNCHANGED current_size_

OpenBasic ==
  /\ sinkKind = "basic"
  /\ files' = Opened(files, 0, truncate_)
  /\ gone' = gone \cup (IF truncate_ THEN Numbers(RecordsOf(files, 0)) ELSE {})
  /\ openName' = 0
  /\ UNCHANGED <<rotation_tp_, filenames_q_, current_size_>>

\* Mutant: from the first file on, so that one overwrites the other.
RotatedUpwards(fs, failAt) ==
  Put(FoldLeft(LAMBDA f, i : IF Exists(f, i - 1) THEN Put(Unlink(f, i - 1), i, f[i - 1]) ELSE f,
               fs, [k \in 1 .. max_files_ |-> k]), 0, <<>>)

\* rotating_file_sink::rotate_: from the last file on, each moves up by one over
\* its target.  The rename to index failAt fails: its target is removed, and the
\* rest of the files stay.  The first file is new.
MoveUp(fs, i) == IF Exists(fs, i - 1) THEN Put(Unlink(fs, i - 1), i, fs[i - 1]) ELSE fs
Rotated(fs, failAt) ==
  LET indices == [k \in 1 .. max_files_ - failAt |-> max_files_ + 1 - k]
  IN  Put(Unlink(FoldLeft(MoveUp, fs, indices), failAt), 0, <<>>)

InFiles(fs) == UNION {Numbers(fs[n]) : n \in DOMAIN fs}

OpenRotating ==
  /\ sinkKind = "rotating"
  /\ LET size == SizeOf(RecordsOf(files, 0)) IN
     /\ files' = IF truncate_ /\ size > 0 THEN Rotated(files, 0) ELSE Opened(files, 0, FALSE)
     /\ current_size_' = size
  /\ gone' = gone \cup (InFiles(files) \ InFiles(files'))
  /\ openName' = 0
  /\ UNCHANGED <<rotation_tp_, filenames_q_>>

ChooseSink ==
  /\ sinkKind = "none"
  /\ \E kind \in {"daily", "rotating", "basic"}, cut \in BOOLEAN, kept \in MaxFiles,
        m \in RotationTimes :
       /\ kind # "daily" => m = 0
       /\ kind = "basic" => kept = 0
       /\ sinkKind' = kind /\ truncate_' = cut /\ max_files_' = kept /\ rotation_m_' = m
  /\ UNCHANGED <<sinkUp, files, helperVars, rotation_tp_, filenames_q_, current_size_,
                 clock, recordCount, fileErrors, restarts, gone>>

ConstructSink ==
  /\ sinkUp = "no"
  /\ OpenDaily \/ OpenBasic \/ OpenRotating
  /\ sinkUp' = "yes" /\ fdOpen' = TRUE /\ linked' = TRUE
  /\ UNCHANGED <<choiceVars, clock, recordCount, fileErrors, restarts>>

-----------------------------------------------------------------------------
(* sink_it_.                                                               *)

\* Daily, without a rotation.
LogDaily(r) ==
  /\ sinkKind = "daily" /\ r.time < rotation_tp_ /\ fdOpen
  /\ files' = Written(files, openName, linked, r)
  /\ gone' = IF linked THEN gone ELSE gone \cup {r.number}
  /\ UNCHANGED <<sinkUp, helperVars, rotation_tp_, filenames_q_, current_size_,
                 fileErrors>>

\* The file of the day does not open: the old one is closed and the message lost;
\* the next message tries again, if its time is not before the rotation.
OpenFails(r) ==
  /\ sinkKind = "daily" /\ r.time >= rotation_tp_
  /\ MayFail /\ fileErrors' = fileErrors + 1
  /\ openName' = Day(r.time) /\ fdOpen' = FALSE
  /\ gone' = gone \cup {r.number}
  /\ UNCHANGED <<sinkUp, files, linked, rotation_tp_, filenames_q_, current_size_>>

\* fwrite to a null FILE.
WriteUnopened(r) ==
  /\ sinkKind = "daily" /\ r.time < rotation_tp_ /\ ~fdOpen
  /\ sinkUp' = "crashed"
  /\ gone' = gone \cup {r.number}
  /\ UNCHANGED <<files, helperVars, rotation_tp_, filenames_q_, current_size_,
                 fileErrors>>

\* Daily, with the file of the message's day opened first and, at the end, the
\* oldest file kept removed: it may be the one that is open.
RotateDaily(r) ==
  /\ sinkKind = "daily" /\ r.time >= rotation_tp_
  /\ openName' = Day(r.time) /\ fdOpen' = TRUE
  /\ rotation_tp_' = NextRotation(clock)
  /\ LET opened == Written(Opened(files, openName', truncate_), openName', TRUE, r)
         old == FrontItem(filenames_q_)
         deletes == max_files_ > 0 /\ Full(filenames_q_)
     IN  \E fails \in BOOLEAN :
           /\ fails => deletes /\ Exists(opened, old) /\ MayFail
           /\ fileErrors' = IF fails THEN fileErrors + 1 ELSE fileErrors
           /\ files' = IF deletes /\ ~fails THEN Unlink(opened, old) ELSE opened
           /\ linked' = ~(deletes /\ ~fails /\ old = openName')
           /\ filenames_q_' =
                IF max_files_ = 0 THEN filenames_q_
                ELSE PushBack(IF deletes THEN PopFront(filenames_q_) ELSE filenames_q_, openName')
  /\ gone' = gone \cup ((InFiles(files) \cup {r.number}) \ InFiles(files'))
  /\ UNCHANGED <<sinkUp, current_size_>>

LogBasic(r) ==
  /\ sinkKind = "basic"
  /\ files' = Written(files, 0, linked, r)
  /\ UNCHANGED <<sinkUp, helperVars, rotation_tp_, filenames_q_, current_size_, fileErrors, gone>>

LogRotating(r) ==
  /\ sinkKind = "rotating" /\ current_size_ + r.size <= MaxSize
  /\ files' = Written(files, 0, TRUE, r)
  /\ current_size_' = current_size_ + r.size
  /\ UNCHANGED <<sinkUp, helperVars, rotation_tp_, filenames_q_, fileErrors, gone>>

RotateRotating(r) ==
  /\ sinkKind = "rotating" /\ current_size_ + r.size > MaxSize
  /\ files' = Written(Rotated(files, 0), 0, TRUE, r)
  /\ current_size_' = r.size
  /\ gone' = gone \cup (InFiles(files) \ InFiles(files'))
  /\ UNCHANGED <<sinkUp, helperVars, rotation_tp_, filenames_q_, fileErrors>>

\* The rename fails twice: the files are truncated all the same, and the message
\* is not written.
RenameFails(r) ==
  /\ sinkKind = "rotating" /\ current_size_ + r.size > MaxSize
  /\ MayFail /\ fileErrors' = fileErrors + 1
  /\ \E i \in 1 .. max_files_ : Exists(files, i - 1) /\ files' = Rotated(files, i)
  /\ current_size_' = 0
  /\ gone' = gone \cup ((InFiles(files) \cup {r.number}) \ InFiles(files'))
  /\ UNCHANGED <<sinkUp, helperVars, rotation_tp_, filenames_q_>>

\* A message and the time it was made, which the clock may have left since.
LogRecord ==
  /\ sinkUp = "yes" /\ recordCount < MaxRecords
  /\ recordCount' = recordCount + 1
  /\ \E size \in RecordSizes, t \in {clock, clock - 1} \cap Nat :
       LET r == [number |-> recordCount + 1, time |-> t, size |-> size] IN
       /\ sinkKind # "rotating" => size = 1
       /\ \/ LogDaily(r) \/ RotateDaily(r) \/ OpenFails(r) \/ WriteUnopened(r) \/ LogBasic(r)
          \/ LogRotating(r) \/ RotateRotating(r) \/ RenameFails(r)
  /\ UNCHANGED <<choiceVars, clock, restarts>>

TimeGoesOn ==
  /\ sinkKind = "daily" /\ clock < MaxClock /\ recordCount < MaxRecords
  /\ clock' = clock + 1
  /\ UNCHANGED <<choiceVars, sinkUp, files, helperVars, rotation_tp_, filenames_q_,
                 current_size_, recordCount, fileErrors, restarts, gone>>

\* The process ends; another finds its files.
CloseSink ==
  /\ sinkUp = "yes" /\ restarts < MaxRestarts
  /\ sinkUp' = "no" /\ restarts' = restarts + 1
  /\ UNCHANGED <<choiceVars, files, helperVars, rotation_tp_, filenames_q_, current_size_,
                 clock, recordCount, fileErrors, gone>>

FileSinkStep == ChooseSink \/ ConstructSink \/ LogRecord \/ TimeGoesOn \/ CloseSink
-----------------------------------------------------------------------------
Increasing(records) == \A i, j \in DOMAIN records : i < j => records[i].number < records[j].number

(***************************************************************************)
(* No message is in two files, those of a file are in the order they were  *)
(* logged, and what is in none was removed by a rotation, a truncation or  *)
(* a failure.  A rotating sink's files hold its newest messages, the newer *)
(* the lower the index, none beyond the size it may have unless it holds   *)
(* one message only, and it removes none before it has all its files.  The *)
(* daily sink of Logger::init, which keeps everything, loses a message     *)
(* only when a file does not open, and puts it into the file of its day    *)
(* or, because it rotates before midnight, of the day before.  It never    *)
(* removes the file it writes to if it rotates at midnight, and crashes    *)
(* only after a failure                                                    *)
(* (daily_file_sink.h:76-155, rotating_file_sink-inl.h:58-125).            *)
(***************************************************************************)
FilesKeepOrder ==
  /\ \A n \in DOMAIN files : Increasing(files[n])
  /\ \A n, k \in DOMAIN files : n # k => Numbers(files[n]) \cap Numbers(files[k]) = {}
  /\ InFiles(files) \cup gone = 1 .. recordCount /\ InFiles(files) \cap gone = {}
  /\ sinkKind = "rotating" =>
       /\ DOMAIN files \subseteq 0 .. max_files_
       /\ \A n \in DOMAIN files : SizeOf(files[n]) <= MaxSize \/ Len(files[n]) = 1
       /\ \A n, k \in DOMAIN files : n < k =>
            \A x \in Numbers(files[n]), y \in Numbers(files[k]) : y < x
       /\ fileErrors = 0 => \A x \in gone, y \in InFiles(files) : x < y
       /\ fileErrors = 0 /\ gone # {} => DOMAIN files = 0 .. max_files_
  /\ sinkKind = "daily" =>
       /\ (~truncate_ /\ max_files_ = 0) => Cardinality(gone) <= fileErrors + (IF sinkUp = "crashed" THEN 1 ELSE 0)
       /\ \A d \in DOMAIN files : \A r \in Range(files[d]) :
            d * DayLength - 1 <= r.time /\ r.time < (d + 2) * DayLength
       /\ (rotation_m_ = 0 /\ sinkUp = "yes") => linked
       /\ sinkUp = "crashed" => fileErrors > 0

=============================================================================
