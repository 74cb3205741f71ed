------------------------------- MODULE Filters -------------------------------
(***************************************************************************)
(* What becomes of a message on its way through a logger to its sinks      *)
(* (spdlog/logger-inl.h): the levels, the backtrace kept of the newest     *)
(* messages (details/backtracer-inl.h), a sink that leaves duplicates out  *)
(* (sinks/dup_filter_sink.h) before it gives the rest to several sinks     *)
(* (sinks/dist_sink.h), which may throw, and one that keeps the newest in  *)
(* a ring (sinks/ringbuffer_sink.h).                                       *)
(***************************************************************************)
EXTENDS CircularQueue, FiniteSets, SequencesExt

CONSTANTS
  Payloads,        \* texts of messages
  MaxSkip,         \* max_skip_duration_
  RingSize,        \* items of the ringbuffer_sink
  TraceSizes,      \* sizes enable_backtrace is called with
  MaxTraced,       \* bound: calls to log and of the backtrace's functions
  MaxThrown        \* bound: calls to a sink that throw

ASSUME FiltersAssumption ==
  RingSize \in Nat \ {0} /\ TraceSizes \subseteq Nat /\ MaxSkip \in Nat

Children == {1, 2}  \* sinks_ of the dup_filter_sink

VARIABLES
  tracerOn,          \* backtracer::enabled_
  messages_,         \* backtracer::messages_
  last_msg_payload_, last_msg_age, \* dup_filter_sink: the last message shown and its age
  skip_counter_,     \* dup_filter_sink
  shown,             \* what each child was given
  ring,              \* ringbuffer_sink::q_
  filterCalls, thrown,
  sunk,              \* history: messages given to the sinks
  traced             \* history: messages kept since the backtrace was enabled or dumped

filterVars == <<tracerOn, messages_, last_msg_payload_, last_msg_age, skip_counter_, shown,
                ring, filterCalls, thrown, sunk, traced>>

NoPayload == "no payload"
Markers == <<"Backtrace Start", "Backtrace End">>
Shown(p) == [payload |-> p, skipped |-> 0]
SkippedMsg(n) == [payload |-> NoPayload, skipped |-> n]

FiltersInit ==
  /\ tracerOn = FALSE /\ messages_ = DisabledQueue
  /\ last_msg_payload_ = NoPayload /\ last_msg_age = MaxSkip + 1
  /\ skip_counter_ = 0
  /\ shown = [c \in Children |-> <<>>]
  /\ ring = NewQueue(RingSize)
  /\ filterCalls = 0 /\ thrown = 0
  /\ sunk = <<>> /\ traced = <<>>

\* The sinks of a logger and their state, as one record.
Sinks == [last |-> last_msg_payload_, age |-> last_msg_age, skips |-> skip_counter_,
          shown |-> shown, ring |-> ring]

\* dist_sink::sink_it_: child failing throws, and those after it get nothing.
GiveAll(given, item, failing) ==
  [c \in Children |-> IF c < failing THEN Append(given[c], item) ELSE given[c]]
Nobody == Cardinality(Children) + 1

\* dup_filter_sink::sink_it_; the exception of a child leaves it as it is.  failing
\* is the child that throws at the line about the messages skipped, or at the message.
DupFilter(s, p, failing) ==
  IF s.age <= MaxSkip /\ p = s.last THEN [s EXCEPT !.skips = s.skips + 1]
  ELSE LET told == IF s.skips = 0 THEN s.shown
                   ELSE GiveAll(s.shown, SkippedMsg(s.skips), failing.atSkip)
           given == IF s.skips # 0 /\ failing.atSkip # Nobody THEN told
                    ELSE GiveAll(told, Shown(p), failing.atMsg)
           threw == failing.atMsg # Nobody \/ (s.skips # 0 /\ failing.atSkip # Nobody)
       IN  IF threw THEN [s EXCEPT !.shown = given]
           ELSE [s EXCEPT !.shown = given, !.last = p, !.age = 0, !.skips = 0]

NoFailure == [atSkip |-> Nobody, atMsg |-> Nobody]
Failures == {NoFailure} \cup
  (IF thrown = MaxThrown THEN {}
   ELSE {[NoFailure EXCEPT !.atMsg = c] : c \in Children}
        \cup {[NoFailure EXCEPT !.atSkip = c] : c \in Children})

\* Mutant: an exception of one sink ends the call.
SinkItStops(s, p, failing) ==
  LET filtered == DupFilter(s, p, failing)
  IN  IF failing = NoFailure THEN [filtered EXCEPT !.ring = PushBack(s.ring, p)] ELSE filtered

\* logger::sink_it_: an exception of one sink does not keep the message from the next.
SinkIt(s, p, failing) == [DupFilter(s, p, failing) EXCEPT !.ring = PushBack(s.ring, p)]

SinksBecome(s) ==
  /\ last_msg_payload_' = s.last /\ last_msg_age' = s.age /\ skip_counter_' = s.skips
  /\ shown' = s.shown /\ ring' = s.ring

Call == filterCalls < MaxTraced /\ filterCalls' = filterCalls + 1

\* logger::log and log_it_.  A message below the level of the logger is only traced.
LogIt ==
  /\ Call
  /\ \E p \in Payloads, enabled \in BOOLEAN, failing \in Failures, time \in {0, MaxSkip + 1} :
       /\ ~enabled => failing = NoFailure
       /\ thrown' = IF failing = NoFailure THEN thrown ELSE thrown + 1
       /\ LET now == [Sinks EXCEPT !.age = IF last_msg_age + time > MaxSkip THEN MaxSkip + 1
                                           ELSE last_msg_age + time]
          IN  SinksBecome(IF enabled THEN SinkIt(now, p, failing) ELSE now)
       /\ sunk' = IF enabled THEN Append(sunk, p) ELSE sunk
       /\ messages_' = IF tracerOn THEN PushBack(messages_, p) ELSE messages_
       /\ traced' = IF tracerOn THEN Append(traced, p) ELSE traced
  /\ UNCHANGED tracerOn

EnableBacktrace ==
  /\ Call
  /\ tracerOn' = TRUE
  /\ \E n \in TraceSizes : messages_' = NewQueue(n)
  /\ traced' = <<>>
  /\ UNCHANGED <<last_msg_payload_, last_msg_age, skip_counter_, shown, ring, thrown, sunk>>

DisableBacktrace ==
  /\ Call
  /\ tracerOn' = FALSE
  /\ UNCHANGED <<messages_, last_msg_payload_, last_msg_age, skip_counter_, shown, ring,
                 thrown, sunk, traced>>

\* foreach_pop: every message to the sinks, and out of the ring.
Sunk(s, p) == SinkIt(s, p, NoFailure)
Popped(q, p) == PopFront(q)
SunkAll(s, payloads) == FoldLeft(Sunk, s, payloads)
PoppedAll(q) == FoldLeft(Popped, q, Contents(q))

\* dump_backtrace_: whatever their level, between two marks.
DumpBacktrace ==
  /\ Call /\ tracerOn
  /\ LET dumped == <<Markers[1]>> \o Contents(messages_) \o <<Markers[2]>>
     IN  /\ SinksBecome(SunkAll(Sinks, dumped))
         /\ sunk' = sunk \o dumped
  /\ messages_' = PoppedAll(messages_)
  /\ traced' = <<>>
  /\ UNCHANGED <<tracerOn, thrown>>

FilterStep == LogIt \/ EnableBacktrace \/ DisableBacktrace \/ DumpBacktrace

-----------------------------------------------------------------------------
\* What a child was told: a line about n messages skipped stands for n more of the last.
Tell(t, item) == IF item.skipped = 0 THEN Append(t, item.payload)
                 ELSE t \o [i \in 1 .. item.skipped |-> t[Len(t)]]
Told(items) == FoldLeft(Tell, <<>>, items)
Skipping == [i \in 1 .. skip_counter_ |-> last_msg_payload_]

Newest(s, n) == IF Len(s) <= n THEN s ELSE SubSeq(s, Len(s) - n + 1, Len(s))

(***************************************************************************)
(* What a sink behind the filter prints and the duplicates it counts are   *)
(* together every message given to the logger's sinks, in their order, as  *)
(* long as nothing throws; a sink that throws makes the filter count too   *)
(* many but never too few.  A sink gets no message the one before it did   *)
(* not get.  The ring keeps the newest messages, whatever the filter's     *)
(* sinks do, and the backtrace the newest since it was enabled or dumped,  *)
(* those below the level included (dup_filter_sink.h:53-83,                *)
(* dist_sink.h:56-65, ringbuffer_sink.h:59-63, backtracer-inl.h:32-69).    *)
(***************************************************************************)
FiltersLoseNothing ==
  /\ thrown = 0 => \A c \in Children : Told(shown[c]) \o Skipping = sunk
  /\ Len(Told(shown[1])) + skip_counter_ + thrown >= Len(sunk)
  /\ Len(shown[2]) <= Len(shown[1]) /\ Len(shown[1]) <= Len(shown[2]) + thrown
  /\ Contents(ring) = Newest(sunk, RingSize)
  /\ Contents(messages_) = Newest(traced, IF messages_.max_items = 0 THEN 0
                                          ELSE messages_.max_items - 1)

=============================================================================
