------------------------------- MODULE Pacing -------------------------------
(***************************************************************************)
(* How the bandwidth client keeps its rate (src/Client.cpp,                *)
(* startBandwidth): it sends a group of packets, measures the time passed, *)
(* prints its progress, sleeps if it is ahead of the rate, and tries       *)
(* again until the test is over.  NetTester leaves all of this open (a     *)
(* group may start at any moment); here the network is left out and every  *)
(* millisecond is a step.  The limits of rate and length are assertions,   *)
(* so both builds are modelled: the one that checks them and the default   *)
(* one (RelWithDebInfo, which defines NDEBUG), where any test runs.        *)
(***************************************************************************)
EXTENDS Integers

CONSTANTS
  Second,      \* milliseconds in a second (1000)
  PacketSize,  \* packetSize, in bytes (1400)
  Kilo,        \* the 1024 of the units
  MaxBits,     \* the bandwidth the assertion allows (10 * 1024^3)
  MaxSeconds,  \* the length of a test the assertion allows (100)
  UintSpace,   \* values of a uint32_t (2^32)
  MaxLate      \* bound: milliseconds the thread loses to sending and oversleeping

ASSUME PacingAssumption ==
  /\ Second \in Nat \ {0}
  /\ PacketSize \in Nat \ {0}
  /\ Kilo \in Nat \ {0}
  /\ MaxBits \in Nat /\ MaxSeconds \in Nat
  /\ UintSpace \in Nat \ {0, 1}
  /\ MaxLate \in Nat

\* A second is long beside the 10 ms between two groups.
ASSUME LongSecond == Second > 10

\* The largest int.
IntMax == UintSpace \div 2 - 1

VARIABLES
  pPc,                \* where the thread is in startBandwidth
  packetsPerSecond,   \* const uint64_t packetsPerSecond
  testSeconds,        \* int testSeconds
  reportInterval,     \* int reportInterval
  elapsed,            \* Time::currentTime() - startTime
  groupSent,          \* int i: packets of the group sent
  totalPkt,           \* int totalPkt
  overflowed,         \* history: totalPkt has outgrown its int
  passedTime,         \* int64_t passedTime
  lastReportTime,     \* int64_t lastReportTime
  wake,               \* when the sleep is over, on the scale of elapsed
  late                \* history: milliseconds that passed while there was work

pacingVars == <<pPc, packetsPerSecond, testSeconds, reportInterval, elapsed, groupSent,
                totalPkt, overflowed, passedTime, lastReportTime, wake, late>>

PacingPc == {"idle", "admitted", "loop", "group", "sleep", "finish", "aborted"}

PacingTypeOK ==
  /\ pPc \in PacingPc
  /\ packetsPerSecond \in Nat
  /\ testSeconds \in Int
  /\ reportInterval \in Int
  /\ elapsed \in Nat
  /\ groupSent \in Nat
  /\ totalPkt \in -IntMax - 1 .. IntMax
  /\ overflowed \in BOOLEAN
  /\ passedTime \in Nat
  /\ lastReportTime \in Nat
  /\ wake \in Nat
  /\ late \in Nat

PacingInit ==
  /\ pPc = "idle"
  /\ packetsPerSecond = 0 /\ testSeconds = 0 /\ reportInterval = 0
  /\ elapsed = 0 /\ groupSent = 0 /\ totalPkt = 0 /\ overflowed = FALSE
  /\ passedTime = 0 /\ lastReportTime = 0 /\ wake = 0 /\ late = 0

-----------------------------------------------------------------------------
(* The constants of a test.                                                *)

groupTimeMs == 5

\* switch (bandwidthUnit): the value in bits per second, of a letter main lets through.
BandwidthValue(bandwidth, unit) ==
  bandwidth * [B |-> 1, K |-> Kilo, M |-> Kilo * Kilo, G |-> Kilo * Kilo * Kilo][unit]

\* Two integer divisions: bits to bytes, bytes to packets.
PacketsPerSecond(bits) == (bits \div 8) \div PacketSize

\* const int packestPerGroup: rounded up.  A double beyond an int is INT_MIN
\* once converted (undefined, but what x86 does): the group is empty.
PackestPerGroup ==
  LET whole == (packetsPerSecond * groupTimeMs + Second - 1) \div Second
  IN IF whole <= IntMax THEN whole ELSE -IntMax - 1

\* Mutant: the time passed is not subtracted.
AheadOfStart ==
  IF packetsPerSecond = 0 THEN {0} ELSE {(totalPkt * Second) \div packetsPerSecond}

\* Mutant: the group just sent is not counted.
AheadBeforeGroup ==
  IF packetsPerSecond = 0 THEN {0}
  ELSE {((totalPkt - groupSent) * Second) \div packetsPerSecond - elapsed}

\* int aheadTime = totalPkt * packetsIntervalMs - passedTime, of doubles: an
\* exact whole number may come out a rounding error below itself and lose
\* one.  Without packets it is 0 times infinity: what that becomes as an int
\* is undefined, INT_MIN or 0 in practice, neither of which sleeps; nor does
\* a negative number, of an overflowed totalPkt, however it is rounded.
AheadTimes ==
  IF packetsPerSecond = 0 THEN {0}
  ELSE LET ahead == totalPkt * Second - elapsed * packetsPerSecond
           whole == ahead \div packetsPerSecond
       IN IF ahead % packetsPerSecond = 0 THEN {whole - 1, whole} ELSE {whole}

-----------------------------------------------------------------------------
\* assert(testSeconds <= 100), assert(bandwidthValue < 10 * 1024^3 + 1)
Asserted(bits, seconds) == seconds <= MaxSeconds /\ bits <= MaxBits

\* Where the assertions do not hold a build with NDEBUG goes on, and one
\* without ends before anything is sent.
Admit(bandwidth, unit, seconds, interval) ==
  LET bits == BandwidthValue(bandwidth, unit) IN
  /\ pPc = "idle"
  /\ testSeconds' = seconds
  /\ reportInterval' = interval
  /\ \/ pPc' = "admitted" /\ packetsPerSecond' = PacketsPerSecond(bits)
     \/ ~Asserted(bits, seconds) /\ pPc' = "aborted" /\ UNCHANGED packetsPerSecond
  /\ UNCHANGED <<elapsed, groupSent, totalPkt, overflowed, passedTime, lastReportTime,
                 wake, late>>

\* The clock of the test starts after the confirmation.
BeginLoop ==
  /\ pPc = "admitted"
  /\ pPc' = "loop"
  /\ UNCHANGED <<packetsPerSecond, testSeconds, reportInterval, elapsed, groupSent,
                 totalPkt, overflowed, passedTime, lastReportTime, wake, late>>

\* while (currentTime() < endTime)
EnterTurn ==
  /\ pPc = "loop"
  /\ pPc' = IF elapsed < testSeconds * Second THEN "group" ELSE "finish"
  /\ groupSent' = 0
  /\ UNCHANGED <<packetsPerSecond, testSeconds, reportInterval, elapsed, totalPkt,
                 overflowed, passedTime, lastReportTime, wake, late>>

\* totalPkt += 1 of the largest int is undefined: it wraps.
SendPacket ==
  /\ pPc = "group"
  /\ groupSent < PackestPerGroup
  /\ groupSent' = groupSent + 1
  /\ totalPkt' = IF totalPkt = IntMax THEN -IntMax - 1 ELSE totalPkt + 1
  /\ overflowed' = (overflowed \/ totalPkt = IntMax)
  /\ UNCHANGED <<pPc, packetsPerSecond, testSeconds, reportInterval, elapsed,
                 passedTime, lastReportTime, wake, late>>

\* Mutant: the time passed is only taken where a line of progress is printed.
TimeWithProgress ==
  /\ pPc = "group"
  /\ groupSent >= PackestPerGroup
  /\ IF elapsed - lastReportTime > reportInterval * Second
       THEN passedTime' = elapsed /\ lastReportTime' = elapsed
       ELSE UNCHANGED <<passedTime, lastReportTime>>
  /\ \E aheadTime \in AheadTimes :
       IF aheadTime > 5
         THEN pPc' = "sleep" /\ wake' = elapsed + aheadTime - 2
         ELSE pPc' = "loop" /\ UNCHANGED wake
  /\ UNCHANGED <<packetsPerSecond, testSeconds, reportInterval, elapsed, groupSent,
                 totalPkt, overflowed, late>>

\* Mutant: the two milliseconds are added.
SleepTooLong ==
  /\ pPc = "group"
  /\ groupSent >= PackestPerGroup
  /\ passedTime' = elapsed
  /\ lastReportTime' = IF elapsed - lastReportTime > reportInterval * Second
                         THEN elapsed ELSE lastReportTime
  /\ \E aheadTime \in AheadTimes :
       IF aheadTime > 5
         THEN pPc' = "sleep" /\ wake' = elapsed + aheadTime + 2
         ELSE pPc' = "loop" /\ UNCHANGED wake
  /\ UNCHANGED <<packetsPerSecond, testSeconds, reportInterval, elapsed, groupSent,
                 totalPkt, overflowed, late>>

\* The rest of a turn: the time passed, a line of progress, and a sleep that
\* ends 2 ms before the rate calls for the next packet.
EndTurn ==
  /\ pPc = "group"
  /\ groupSent >= PackestPerGroup
  /\ passedTime' = elapsed
  /\ lastReportTime' = IF elapsed - lastReportTime > reportInterval * Second
                         THEN elapsed ELSE lastReportTime
  /\ \E aheadTime \in AheadTimes :
       IF aheadTime > 5
         THEN pPc' = "sleep" /\ wake' = elapsed + aheadTime - 2
         ELSE pPc' = "loop" /\ UNCHANGED wake
  /\ UNCHANGED <<packetsPerSecond, testSeconds, reportInterval, elapsed, groupSent,
                 totalPkt, overflowed, late>>

WakeUp ==
  /\ pPc = "sleep"
  /\ elapsed >= wake
  /\ pPc' = "loop"
  /\ UNCHANGED <<packetsPerSecond, testSeconds, reportInterval, elapsed, groupSent,
                 totalPkt, overflowed, passedTime, lastReportTime, wake, late>>

\* The thread is asleep as planned, or turns without anything to send, or
\* sends all it can since its overflowed count says that it is behind.
Resting ==
  \/ pPc = "sleep" /\ elapsed < wake
  \/ (PackestPerGroup <= 0 \/ overflowed) /\ elapsed < testSeconds * Second

\* A millisecond.  While there is work it is one the client falls behind.
PassTime ==
  /\ pPc \in {"loop", "group", "sleep"}
  /\ elapsed' = elapsed + 1
  /\ IF Resting THEN UNCHANGED late
                ELSE late < MaxLate /\ late' = late + 1
  /\ UNCHANGED <<pPc, packetsPerSecond, testSeconds, reportInterval, groupSent,
                 totalPkt, overflowed, passedTime, lastReportTime, wake>>

PacingStep == EnterTurn \/ SendPacket \/ EndTurn \/ WakeUp \/ PassTime

-----------------------------------------------------------------------------
\* Neither the packets of a group nor those of the test have outgrown their
\* int, as they do from some 4 Pbit/s or 2^31 packets on.
IntsHold == ~overflowed /\ PackestPerGroup >= 0

(***************************************************************************)
(* While its ints hold, the client is never more than 6 ms ahead of its    *)
(* rate when a group starts, so in any window from the start it sends at   *)
(* most the packets due plus 6 ms worth and one group (Client.cpp:211-213).*)
(***************************************************************************)
RateNotExceeded ==
  (IntsHold /\ packetsPerSecond > 0) =>
    (totalPkt - groupSent) * Second <= (elapsed + 6) * packetsPerSecond

(***************************************************************************)
(* While its ints hold, the client falls behind its rate only by the time  *)
(* it lost to sending and oversleeping: the sleeps themselves never cost a *)
(* packet (Client.cpp:211-213, and the rounding up of the group at :167).  *)
(***************************************************************************)
RateKept ==
  (IntsHold /\ pPc \in {"loop", "group", "sleep"}) =>
    totalPkt * Second >= (elapsed - late) * packetsPerSecond

(***************************************************************************)
(* The finish leaves at most one group's worth and 6 ms, and the time      *)
(* lost, past the end of the test; so while the time lost is within what   *)
(* remains, it reaches a server that has not timed out (Client.cpp:185,213,*)
(* Server.cpp:87).                                                         *)
(***************************************************************************)
FinishOnTime ==
  (IntsHold /\ pPc = "finish" /\ testSeconds > 0 /\ packetsPerSecond > 0) =>
    (elapsed - testSeconds * Second - late - 6) * packetsPerSecond <= PackestPerGroup * Second

(***************************************************************************)
(* The results a client prints, in either build and for whatever time it   *)
(* lost: a test whose rate calls for a packet more than 11 ms after its    *)
(* start, in the time not lost, has a time to divide by, taken by a turn   *)
(* that was not the first; the rate printed is at most the rate asked plus *)
(* 11 ms worth and a packet; and where two seconds were not lost it fits   *)
(* the uint32_t it is passed as, up to a rate of some 33 Gbit/s            *)
(* (Client.cpp:194,226-232, Server.cpp:49).                                *)
(***************************************************************************)
ResultIsPrintable ==
  LET kept == testSeconds * Second - late
      bytes == PacketSize * packetsPerSecond
  IN (IntsHold /\ pPc = "finish" /\ packetsPerSecond > 0) =>
       /\ (kept - 11) * packetsPerSecond >= Second => passedTime > 0 /\ totalPkt > 0
       /\ totalPkt * Second < (passedTime + 11) * packetsPerSecond + Second
       /\ (/\ kept >= 2 * Second
           /\ (UintSpace - bytes) * (Second - 10) > 11 * bytes + PacketSize * Second)
          => totalPkt * PacketSize * Second < UintSpace * passedTime

=============================================================================
