---------------------------- MODULE ProcessProofs ----------------------------
(***************************************************************************)
(* What holds of one process for any number of threads, any rate, length   *)
(* of the test and lost time, and any command line: the database its       *)
(* threads use is open, the client keeps its rate, the socket is used      *)
(* between its opening and its closing, and the state has its type.        *)
(***************************************************************************)
EXTENDS CommandProofs, FiniteSetTheorems

USE DatabaseAssumption, PacingAssumption, ConnectionAssumption

-----------------------------------------------------------------------------
(* The database.  The compiler's guard is a lock: one thread at most builds *)
(* the instance, and who is past the guard found it built.                  *)

DbPc == {"out", "flag", "set", "open", "openBuild", "exec", "execBuild", "useExec",
         "prepare", "prepareBuild", "usePrepare", "stmt"}

UsesInstance(t) == dPc[t] \in {"useExec", "usePrepare", "stmt"}

DatabaseInv ==
  /\ dPc \in [Threads -> DbPc] /\ file \in [Threads -> Files \cup {NoFile}]
  /\ stmts \in Int
  /\ guard \in {"none", "building", "built"}
  /\ IF guard = "built" THEN handles = 1 /\ dbFile \in Files ELSE handles = 0
  /\ \A t \in Threads : Building(t) => guard = "building"
  /\ \A t, u \in Threads : Building(t) /\ Building(u) => t = u
  /\ \A t \in Threads : UsesInstance(t) => guard = "built"
  /\ stmts > 0 => guard = "built"

LEMMA DatabaseStarts == DatabaseInit => DatabaseInv
BY DEF DatabaseInit, DatabaseInv, DbPc, Building, UsesInstance

\* A step of a thread that builds nothing and does not get past the guard.
LEMMA ThreadMoves ==
  ASSUME DatabaseInv, NEW t \in Threads, NEW pc \in DbPc,
         dPc' = [dPc EXCEPT ![t] = pc], file' \in [Threads -> Files \cup {NoFile}],
         UNCHANGED <<guard, dbFile, handles>>,
         pc \notin {"openBuild", "execBuild", "prepareBuild"},
         pc \in {"useExec", "usePrepare", "stmt"} => guard = "built",
         stmts' \in Int, stmts' > 0 => guard = "built"
  PROVE  DatabaseInv'
BY DEF DatabaseInv, DbPc, Building, UsesInstance

LEMMA DatabaseMoves ==
  ASSUME DatabaseInv, DatabaseStep
  PROVE  DatabaseInv'
<1> PICK t \in Threads :
      \/ CallDatabase(t) \/ ReadFlag(t) \/ SetFlag(t)
      \/ EnterGuard(t) \/ ConstructorThrows(t) \/ Open(t) \/ PassGuard(t)
      \/ Exec(t) \/ Prepare(t) \/ Finalize(t)
  BY DEF DatabaseStep
<1>0. /\ dPc \in [Threads -> DbPc] /\ file \in [Threads -> Files \cup {NoFile}]
      /\ stmts \in Int
  BY DEF DatabaseInv
<1>1. CASE CallDatabase(t)
  <2>1. PICK pc \in {"exec", "prepare", "flag"} : dPc' = [dPc EXCEPT ![t] = pc]
    BY <1>1 DEF CallDatabase
  <2>2. file' \in [Threads -> Files \cup {NoFile}] /\ UNCHANGED <<guard, dbFile, handles, stmts>>
    BY <1>0, <1>1 DEF CallDatabase
  <2>3. stmts > 0 => guard = "built"
    BY DEF DatabaseInv
  <2> QED
    BY <1>0, <2>1, <2>2, <2>3, ThreadMoves DEF DbPc
<1>2. CASE ReadFlag(t) \/ SetFlag(t) \/ Exec(t)
  <2>1. PICK pc \in {"out", "set", "open"} : dPc' = [dPc EXCEPT ![t] = pc]
    BY <1>2 DEF ReadFlag, SetFlag, Exec, GoTo
  <2>2. UNCHANGED <<guard, dbFile, handles, stmts, file>>
    BY <1>2 DEF ReadFlag, SetFlag, Exec
  <2>3. stmts > 0 => guard = "built"
    BY DEF DatabaseInv
  <2> QED
    BY <1>0, <2>1, <2>2, <2>3, ThreadMoves DEF DbPc
<1>3. CASE PassGuard(t)
  <2>1. guard = "built" /\ UNCHANGED <<guard, dbFile, handles, stmts, file>>
    BY <1>3 DEF PassGuard
  <2> DEFINE next == [open |-> "out", exec |-> "useExec", prepare |-> "usePrepare"][dPc[t]]
  <2>2. next \in {"out", "useExec", "usePrepare"} /\ dPc' = [dPc EXCEPT ![t] = next]
    BY <1>3 DEF PassGuard, GoTo
  <2> HIDE DEF next
  <2> QED
    BY <1>0, <2>1, <2>2, ThreadMoves DEF DbPc
<1>4. CASE Prepare(t) \/ Finalize(t)
  <2>1. /\ guard = "built" /\ UNCHANGED <<guard, dbFile, handles, file>>
        /\ stmts' \in Int
    BY <1>0, <1>4 DEF Prepare, Finalize, GoTo, DatabaseInv, UsesInstance, At
  <2>2. PICK pc \in {"out", "stmt"} : dPc' = [dPc EXCEPT ![t] = pc]
    BY <1>4 DEF Prepare, Finalize, GoTo
  <2> QED
    BY <1>0, <2>1, <2>2, ThreadMoves DEF DbPc
<1>5. CASE EnterGuard(t)
  <2>1. /\ guard = "none" /\ guard' = "building"
        /\ UNCHANGED <<dbFile, handles, stmts, file>>
    BY <1>5 DEF EnterGuard
  <2> DEFINE next == [open |-> "openBuild", exec |-> "execBuild",
                      prepare |-> "prepareBuild"][dPc[t]]
  <2>2. /\ next \in {"openBuild", "execBuild", "prepareBuild"}
        /\ dPc' = [dPc EXCEPT ![t] = next]
    BY <1>5 DEF EnterGuard, GoTo
  <2> HIDE DEF next
  <2> QED
    BY <2>1, <2>2 DEF DatabaseInv, DbPc, Building, UsesInstance
<1>6. CASE ConstructorThrows(t)
  BY <1>6 DEF ConstructorThrows, GoTo, DatabaseInv, DbPc, Building, UsesInstance
<1>7. CASE Open(t)
  BY <1>7 DEF Open, GoTo, DatabaseInv, DbPc, Building, UsesInstance
<1> QED
  BY <1>1, <1>2, <1>3, <1>4, <1>5, <1>6, <1>7

LEMMA DatabaseInvSuffices == DatabaseInv => DatabaseIsOpen
<1> SUFFICES ASSUME DatabaseInv PROVE DatabaseIsOpen
  OBVIOUS
<1> DEFINE builders == {t \in Threads : Building(t)}
<1>1. Cardinality(builders) <= 1
  <2>1. CASE builders = {}
    <3>1. Cardinality(builders) = 0
      BY <2>1, FS_EmptySet
    <3> QED
      BY <3>1
  <2>2. CASE \E t \in Threads : builders = {t}
    <3> HIDE DEF builders
    <3>1. Cardinality(builders) = 1
      BY <2>2, FS_Singleton
    <3> QED
      BY <3>1
  <2>3. builders = {} \/ \E t \in Threads : builders = {t}
    BY DEF DatabaseInv
  <2> QED
    BY <2>1, <2>2, <2>3
<1>2. handles <= 1
  BY DEF DatabaseInv
<1>3. (stmts > 0 \/ \E t \in Threads : dPc[t] \in {"useExec", "usePrepare"}) => guard = "built"
  BY DEF DatabaseInv, UsesInstance
<1> QED
  BY <1>1, <1>2, <1>3 DEF DatabaseIsOpen, DatabaseInv

\* For any number of threads and files, in any order of calls and with opens
\* that fail, there is at most one connection and nobody runs a statement
\* without it.
THEOREM DatabaseStaysOpen == Spec => []DatabaseIsOpen
<1>1. Init => DatabaseInv
  BY DatabaseStarts DEF Init
<1>2. DatabaseInv /\ UNCHANGED dbVars => DatabaseInv'
  BY DEF dbVars, DatabaseInv, Building, UsesInstance
<1>3. DatabaseInv /\ [Next]_vars => DatabaseInv'
  BY <1>2, PartsAlone, DatabaseMoves
<1> QED
  BY <1>1, <1>3, DatabaseInvSuffices, PTL DEF Spec

-----------------------------------------------------------------------------
(* The pacing.  Times the rate, what was sent stays between two bounds: not *)
(* more than 6 ms ahead when a turn begins, never behind but for lost time. *)
(* A sleep is planned from what was sent, so while it lasts the bounds hold *)
(* of the moment it ends.                                                   *)

LEMMA DivMod ==
  ASSUME NEW a \in Int, NEW d \in Nat \ {0}
  PROVE  /\ a \div d \in Int /\ a % d \in 0 .. d - 1
         /\ a = (a \div d) * d + (a % d)
OBVIOUS

\* What is due when, times the rate, in milliseconds and packets a second.
Due(ms) == ms * packetsPerSecond
Sent    == totalPkt * Second
SentBefore == (totalPkt - groupSent) * Second
End     == testSeconds * Second
Group   == PackestPerGroup * Second

LEMMA AheadBounds ==
  ASSUME totalPkt \in Int, elapsed \in Nat, packetsPerSecond \in Nat \ {0},
         NEW aheadTime \in AheadTimes
  PROVE  /\ aheadTime \in Int
         /\ Due(elapsed + aheadTime) <= Sent
         /\ Sent <= Due(elapsed + aheadTime + 1)
<1> DEFINE ahead == Sent - Due(elapsed)
           whole == ahead \div packetsPerSecond
<1>1. Second \in Nat
  BY DEF PacingAssumption
<1>2. ahead \in Int
  BY <1>1 DEF Sent, Due
<1>3. aheadTime \in IF ahead % packetsPerSecond = 0 THEN {whole - 1, whole} ELSE {whole}
  BY DEF AheadTimes, Sent, Due
<1> HIDE DEF ahead
<1>4. /\ whole \in Int /\ ahead % packetsPerSecond \in 0 .. packetsPerSecond - 1
      /\ ahead = whole * packetsPerSecond + (ahead % packetsPerSecond)
  BY <1>2, DivMod
<1> HIDE DEF whole
<1>5. /\ aheadTime \in Int
      /\ aheadTime * packetsPerSecond <= ahead
      /\ ahead <= (aheadTime + 1) * packetsPerSecond
  <2>1. CASE aheadTime = whole
    BY <1>4, <2>1
  <2>2. CASE aheadTime = whole - 1 /\ ahead % packetsPerSecond = 0
    <3>1. ahead = (aheadTime + 1) * packetsPerSecond /\ aheadTime \in Int
      BY <1>4, <2>2
    <3>2. (aheadTime + 1) * packetsPerSecond = aheadTime * packetsPerSecond + packetsPerSecond
      BY <3>1
    <3>3. aheadTime * packetsPerSecond \in Int
      BY <3>1
    <3> QED
      BY <3>1, <3>2, <3>3
  <2> QED
    BY <1>3, <2>1, <2>2
<1>6. /\ Due(elapsed + aheadTime) = Due(elapsed) + aheadTime * packetsPerSecond
      /\ Due(elapsed + aheadTime + 1) = Due(elapsed) + (aheadTime + 1) * packetsPerSecond
      /\ Due(elapsed) \in Int /\ Sent \in Int
  BY <1>1, <1>5 DEF Due, Sent
<1> QED
  BY <1>5, <1>6 DEF ahead

LEMMA Monotone ==
  ASSUME NEW x \in Int, NEW y \in Int, NEW d \in Nat, x <= y
  PROVE  x * d <= y * d
OBVIOUS

LEMMA NatProduct ==
  ASSUME NEW x \in Nat, NEW d \in Nat
  PROVE  x * d \in Nat
OBVIOUS

LEMMA IntMaxIsNat == IntMax \in Nat
<1> DEFINE h == UintSpace \div 2
<1>1. h \in Int /\ UintSpace % 2 \in 0 .. 1 /\ UintSpace = h * 2 + (UintSpace % 2)
  BY DivMod DEF PacingAssumption
<1> HIDE DEF h
<1>2. h \in Nat /\ h >= 1
  BY <1>1 DEF PacingAssumption
<1> QED
  BY <1>2 DEF IntMax, h

\* The group of a rate whose ints hold is the rate's 5 ms, rounded up.
LEMMA GroupIsNat ==
  ASSUME packetsPerSecond \in Nat, IntsHold
  PROVE  /\ PackestPerGroup \in Nat /\ Group \in Nat
         /\ Group <= 5 * packetsPerSecond + Second - 1
         /\ packetsPerSecond > 0 => PackestPerGroup > 0
<1> DEFINE a == packetsPerSecond * groupTimeMs + Second - 1
           whole == a \div Second
<1>1. Second \in Nat \ {0} /\ IntMax \in Nat
  BY IntMaxIsNat DEF PacingAssumption
<1>2. a \in Int /\ a = 5 * packetsPerSecond + Second - 1
  BY <1>1 DEF groupTimeMs
<1>3. PackestPerGroup = IF whole <= IntMax THEN whole ELSE -IntMax - 1
  BY DEF PackestPerGroup
<1> HIDE DEF a
<1>4. whole \in Int /\ a % Second \in 0 .. Second - 1 /\ a = whole * Second + (a % Second)
  BY <1>1, <1>2, DivMod
<1> HIDE DEF whole
<1>5. PackestPerGroup = whole /\ whole >= 0
  BY <1>1, <1>3, <1>4 DEF IntsHold
<1>6. whole * Second \in Int /\ whole * Second <= a
  BY <1>1, <1>2, <1>4
<1>7. whole = 0 => a < Second
  BY <1>1, <1>2, <1>4
<1>8. whole * Second \in Nat
  BY <1>1, <1>4, <1>5, NatProduct
<1> QED
  BY <1>1, <1>2, <1>4, <1>5, <1>6, <1>7, <1>8 DEF Group

\* The bounds in each phase of a turn.
Behind ==
  /\ pPc \in {"loop", "group", "sleep"} => Due(elapsed - late) <= Sent
  /\ pPc = "sleep" => wake \in Int /\ Due(wake + 2) <= Sent

Ahead ==
  packetsPerSecond > 0 =>
    /\ SentBefore <= Due(elapsed + 6)
    /\ pPc = "loop" => Sent <= Due(elapsed + 6)
    /\ pPc = "sleep" => Sent <= Due(wake + 3)

AtEnd ==
  (packetsPerSecond > 0 /\ testSeconds > 0) =>
    /\ pPc = "group" => SentBefore <= Due(End + 5) /\ groupSent <= PackestPerGroup
    /\ pPc \in {"loop", "sleep"} => Sent <= Due(End + 5) + Group
    /\ pPc = "finish" => Due(elapsed - End - late - 6) <= Group

PacingNumbers ==
  /\ totalPkt \in Int /\ -IntMax - 1 <= totalPkt /\ totalPkt <= IntMax
  /\ overflowed \in BOOLEAN
  /\ ~overflowed => totalPkt \in Nat
  /\ groupSent \in Nat /\ elapsed \in Nat /\ late \in Nat
  /\ pPc \in {"idle", "admitted", "aborted"} =>
       totalPkt = 0 /\ groupSent = 0 /\ elapsed = 0 /\ late = 0

\* The values of -b, -t and -i are integers: JobInvariant.
PacingInv == PacingNumbers /\ (NumbersGiven /\ IntsHold => Behind /\ Ahead /\ AtEnd)

LEMMA SecondIsNat == Second \in Nat \ {0}
BY DEF PacingAssumption

LEMMA NumbersKept ==
  ASSUME PacingNumbers,
         PacingStep \/ BeginLoop \/ \E b, u, s, i : Admit(b, u, s, i)
  PROVE  PacingNumbers'
<1>1. IntMax' = IntMax /\ IntMax \in Nat
  BY IntMaxIsNat DEF IntMax
<1>2. CASE SendPacket
  <2>1. /\ totalPkt \in Int /\ -IntMax - 1 <= totalPkt /\ totalPkt <= IntMax
        /\ overflowed \in BOOLEAN /\ groupSent \in Nat
        /\ ~overflowed => totalPkt \in Nat
    BY DEF PacingNumbers
  <2>2. /\ totalPkt' = IF totalPkt = IntMax THEN -IntMax - 1 ELSE totalPkt + 1
        /\ overflowed' = (overflowed \/ totalPkt = IntMax)
        /\ groupSent' = groupSent + 1 /\ pPc' = "group"
        /\ elapsed' = elapsed /\ late' = late
    BY <1>2 DEF SendPacket
  <2>3. totalPkt' \in Int /\ -IntMax - 1 <= totalPkt' /\ totalPkt' <= IntMax
    BY <1>1, <2>1, <2>2
  <2>4. overflowed' \in BOOLEAN
    BY <2>1, <2>2
  <2>5. ASSUME ~overflowed' PROVE totalPkt' \in Nat
    <3>1. ~overflowed /\ totalPkt # IntMax
      BY <2>2, <2>5
    <3>2. totalPkt \in Nat /\ totalPkt' = totalPkt + 1
      BY <2>1, <2>2, <3>1
    <3> QED
      BY <3>2
  <2> QED
    BY <1>1, <2>1, <2>2, <2>3, <2>4, <2>5 DEF PacingNumbers
<1>3. CASE \/ EnterTurn \/ EndTurn \/ WakeUp \/ PassTime
           \/ BeginLoop \/ \E b, u, s, i : Admit(b, u, s, i)
  BY <1>1, <1>3 DEF PacingNumbers, EnterTurn, EndTurn, WakeUp, PassTime, Admit, BeginLoop
<1> QED
  BY <1>2, <1>3 DEF PacingStep

\* Nothing sent and no time passed.
AtStart ==
  /\ totalPkt = 0 /\ groupSent = 0 /\ elapsed = 0 /\ late = 0
  /\ pPc \in {"admitted", "aborted", "loop"}

LEMMA StartBounded == AtStart /\ NumbersGiven /\ IntsHold => Behind /\ Ahead /\ AtEnd
<1> SUFFICES ASSUME AtStart, NumbersGiven, IntsHold PROVE Behind /\ Ahead /\ AtEnd
  OBVIOUS
<1>1. Second \in Nat /\ packetsPerSecond \in Nat
  BY SecondIsNat DEF NumbersGiven
<1>2. Sent = 0 /\ SentBefore = 0
  BY <1>1 DEF AtStart, Sent, SentBefore
<1>3. Due(elapsed - late) = 0 /\ Due(elapsed + 6) >= 0
  BY <1>1 DEF AtStart, Due
<1>4. Behind /\ Ahead
  BY <1>2, <1>3 DEF AtStart, Behind, Ahead
<1>5. ASSUME testSeconds > 0 PROVE Due(End + 5) \in Nat
  <2>1. testSeconds \in Nat
    BY <1>5 DEF NumbersGiven
  <2>2. End \in Nat
    BY <1>1, <2>1, NatProduct DEF End
  <2>3. End + 5 \in Nat
    BY <2>2
  <2> QED
    BY <1>1, <2>3, NatProduct DEF Due
<1>6. Group \in Nat
  BY <1>1, GroupIsNat
<1>7. AtEnd
  BY <1>2, <1>5, <1>6 DEF AtEnd, AtStart
<1> QED
  BY <1>4, <1>7

LEMMA BeforeLoop ==
  ASSUME PacingNumbers, NumbersGiven', IntsHold', BeginLoop \/ \E b, u, s, i : Admit(b, u, s, i)
  PROVE  Behind' /\ Ahead' /\ AtEnd'
<1>1. AtStart'
  BY DEF PacingNumbers, BeginLoop, Admit, AtStart
<1>2. (AtStart /\ NumbersGiven /\ IntsHold => Behind /\ Ahead /\ AtEnd)'
  BY StartBounded, PTL
<1> QED
  BY <1>1, <1>2

PacingFacts == PacingNumbers /\ NumbersGiven /\ IntsHold /\ Behind /\ Ahead /\ AtEnd

LEMMA Numbers ==
  ASSUME PacingFacts
  PROVE  /\ totalPkt \in Nat /\ groupSent \in Nat /\ elapsed \in Nat /\ late \in Nat
         /\ packetsPerSecond \in Nat /\ Second \in Nat \ {0} /\ Second \in Nat
         /\ PackestPerGroup \in Nat /\ Group \in Nat /\ End \in Int
         /\ Sent \in Int /\ SentBefore \in Int
         /\ \A x \in Int : Due(x) \in Int
         /\ \A x, y \in Int : x <= y => Due(x) <= Due(y)
<1>1. /\ totalPkt \in Nat /\ groupSent \in Nat /\ elapsed \in Nat /\ late \in Nat
      /\ packetsPerSecond \in Nat /\ testSeconds \in Int /\ IntsHold
  BY DEF PacingFacts, PacingNumbers, NumbersGiven, IntsHold
<1>2. End \in Int /\ Sent \in Int /\ SentBefore \in Int
  BY <1>1, SecondIsNat DEF End, Sent, SentBefore
<1>3. \A x \in Int : Due(x) \in Int
  BY <1>1 DEF Due
<1>4. ASSUME NEW x \in Int, NEW y \in Int, x <= y PROVE Due(x) <= Due(y)
  BY <1>1, <1>4, Monotone DEF Due
<1> QED
  BY <1>1, <1>2, <1>3, <1>4, SecondIsNat, GroupIsNat

LEMMA GroupSize ==
  ASSUME PacingFacts
  PROVE  /\ Group <= 5 * packetsPerSecond + Second - 1
         /\ packetsPerSecond > 0 => PackestPerGroup > 0
BY GroupIsNat DEF PacingFacts, NumbersGiven

LEMMA EnterTurnPaced ==
  ASSUME PacingFacts, EnterTurn
  PROVE  Behind' /\ Ahead' /\ AtEnd'
<1>1. /\ pPc = "loop" /\ groupSent' = 0
      /\ totalPkt' = totalPkt /\ elapsed' = elapsed /\ late' = late
      /\ packetsPerSecond' = packetsPerSecond /\ testSeconds' = testSeconds
      /\ pPc' = IF elapsed < testSeconds * Second THEN "group" ELSE "finish"
  BY DEF EnterTurn
<1>2. /\ Sent' = Sent /\ End' = End /\ Group' = Group /\ PackestPerGroup' = PackestPerGroup
      /\ Due(elapsed - late)' = Due(elapsed - late) /\ Due(elapsed + 6)' = Due(elapsed + 6)
      /\ Due(End + 5)' = Due(End + 5)
      /\ Due(elapsed - End - late - 6)' = Due(elapsed - End - late - 6)
  BY <1>1 DEF Sent, End, Group, PackestPerGroup, Due
<1>3. SentBefore' = Sent
  BY <1>1, Numbers DEF SentBefore, Sent
<1>4. Due(elapsed - late) <= Sent
  BY <1>1 DEF PacingFacts, Behind
<1>5. Behind'
  BY <1>1, <1>2, <1>4 DEF Behind
<1>6. ASSUME packetsPerSecond > 0 PROVE Sent <= Due(elapsed + 6)
  BY <1>1, <1>6 DEF PacingFacts, Ahead
<1>7. Ahead'
  BY <1>1, <1>2, <1>3, <1>6 DEF Ahead
<1>8. ASSUME packetsPerSecond > 0, testSeconds > 0
      PROVE  /\ pPc' = "group" => Sent <= Due(End + 5)
             /\ pPc' = "finish" => Due(elapsed - End - late - 6) <= Group
  <2>1. ASSUME pPc' = "group" PROVE Sent <= Due(End + 5)
    <3>1. elapsed + 6 <= End + 5 /\ elapsed + 6 \in Int /\ End + 5 \in Int
      BY <1>1, <2>1, Numbers DEF End
    <3>2. Due(elapsed + 6) <= Due(End + 5) /\ Due(elapsed + 6) \in Int /\ Due(End + 5) \in Int
      BY <3>1, Numbers
    <3> QED
      BY <1>6, <1>8, <3>2, Numbers
  <2>2. Sent <= Due(End + 5) + Group
    BY <1>1, <1>8 DEF PacingFacts, AtEnd
  <2>3. Due(elapsed - late) = Due(elapsed - End - late - 5) + Due(End + 5)
    <3>1. elapsed \in Int /\ End \in Int /\ late \in Int /\ packetsPerSecond \in Int
      BY Numbers
    <3> QED
      BY <3>1 DEF Due
  <2>4. /\ Due(elapsed - End - late - 6) <= Due(elapsed - End - late - 5)
        /\ Due(elapsed - End - late - 6) \in Int /\ Due(elapsed - End - late - 5) \in Int
        /\ Due(End + 5) \in Int
    <3>1. /\ elapsed - End - late - 6 \in Int /\ elapsed - End - late - 5 \in Int
          /\ elapsed - End - late - 6 <= elapsed - End - late - 5 /\ End + 5 \in Int
      BY Numbers
    <3> QED
      BY <3>1, Numbers
  <2>5. Due(elapsed - End - late - 6) <= Group
    BY <1>4, <2>2, <2>3, <2>4, Numbers
  <2> QED
    BY <2>1, <2>5
<1>9. AtEnd'
  BY <1>1, <1>2, <1>3, <1>8, Numbers DEF AtEnd
<1> QED
  BY <1>5, <1>7, <1>9

LEMMA SendPacketPaced ==
  ASSUME PacingFacts, SendPacket, ~overflowed'
  PROVE  Behind' /\ Ahead' /\ AtEnd'
<1>1. /\ pPc = "group" /\ pPc' = "group" /\ groupSent < PackestPerGroup
      /\ groupSent' = groupSent + 1 /\ totalPkt' = totalPkt + 1
      /\ elapsed' = elapsed /\ late' = late
      /\ packetsPerSecond' = packetsPerSecond /\ testSeconds' = testSeconds
  BY DEF SendPacket, PacingFacts, PacingNumbers
<1>2. /\ End' = End /\ PackestPerGroup' = PackestPerGroup
      /\ Due(elapsed - late)' = Due(elapsed - late) /\ Due(elapsed + 6)' = Due(elapsed + 6)
      /\ Due(End + 5)' = Due(End + 5)
  BY <1>1 DEF End, PackestPerGroup, Due
<1>3. Sent' = Sent + Second /\ SentBefore' = SentBefore
  <2>1. totalPkt \in Int /\ groupSent \in Int /\ Second \in Int
    BY Numbers
  <2>2. totalPkt' - groupSent' = totalPkt - groupSent
    BY <1>1, <2>1
  <2> QED
    BY <1>1, <2>1, <2>2 DEF Sent, SentBefore
<1>4. elapsed - late \in Int
  BY Numbers
<1>5. Due(elapsed - late) <= Sent /\ Due(elapsed - late) \in Int
  BY <1>1, <1>4, Numbers DEF PacingFacts, Behind
<1>6. Due(elapsed - late) <= Sent'
  BY <1>3, <1>5, Numbers
<1>7. Behind' /\ Ahead'
  BY <1>1, <1>2, <1>3, <1>6 DEF PacingFacts, Behind, Ahead
<1>8. groupSent' <= PackestPerGroup
  BY <1>1, Numbers
<1>9. AtEnd'
  BY <1>1, <1>2, <1>3, <1>8 DEF PacingFacts, AtEnd
<1> QED
  BY <1>7, <1>9

LEMMA EndTurnPaced ==
  ASSUME PacingFacts, EndTurn
  PROVE  Behind' /\ Ahead' /\ AtEnd'
<1>1. /\ pPc = "group" /\ groupSent >= PackestPerGroup
      /\ groupSent' = groupSent /\ totalPkt' = totalPkt /\ elapsed' = elapsed /\ late' = late
      /\ packetsPerSecond' = packetsPerSecond /\ testSeconds' = testSeconds
  BY DEF EndTurn
<1>2. PICK aheadTime \in AheadTimes :
        IF aheadTime > 5 THEN pPc' = "sleep" /\ wake' = elapsed + aheadTime - 2
                         ELSE pPc' = "loop"
  BY DEF EndTurn
<1>3. /\ Sent' = Sent /\ SentBefore' = SentBefore /\ End' = End /\ Group' = Group
      /\ Due(elapsed - late)' = Due(elapsed - late) /\ Due(elapsed + 6)' = Due(elapsed + 6)
      /\ Due(End + 5)' = Due(End + 5)
  BY <1>1 DEF Sent, SentBefore, End, Group, PackestPerGroup, Due
<1>4. Due(elapsed - late) <= Sent
  BY <1>1 DEF PacingFacts, Behind
<1>5. pPc' \in {"loop", "sleep"}
  BY <1>2
<1>6. ASSUME packetsPerSecond > 0
      PROVE  /\ aheadTime \in Int
             /\ Due(elapsed + aheadTime) <= Sent /\ Sent <= Due(elapsed + aheadTime + 1)
  BY <1>6, AheadBounds, Numbers
<1>7. ASSUME pPc' = "sleep"
      PROVE  /\ packetsPerSecond > 0 /\ wake' \in Int
             /\ Due(wake + 2)' <= Sent
             /\ Sent <= Due(wake + 3)'
  <2>1. aheadTime > 5 /\ wake' = elapsed + aheadTime - 2
    BY <1>2, <1>7
  <2>2. packetsPerSecond > 0
    BY <2>1, Numbers DEF AheadTimes
  <2>3. elapsed \in Int /\ aheadTime \in Int
    BY <1>6, <2>2, Numbers
  <2>4. wake' + 2 = elapsed + aheadTime /\ wake' + 3 = elapsed + aheadTime + 1 /\ wake' \in Int
    BY <2>1, <2>3
  <2> QED
    BY <1>1, <1>6, <2>2, <2>4 DEF Due
<1>8. ASSUME pPc' = "loop", packetsPerSecond > 0 PROVE Sent <= Due(elapsed + 6)
  <2>1. ~(aheadTime > 5) /\ elapsed \in Int /\ aheadTime \in Int
    BY <1>2, <1>6, <1>8, Numbers
  <2>2. /\ elapsed + aheadTime + 1 <= elapsed + 6
        /\ elapsed + aheadTime + 1 \in Int /\ elapsed + 6 \in Int
    BY <2>1
  <2>3. /\ Due(elapsed + aheadTime + 1) <= Due(elapsed + 6)
        /\ Due(elapsed + aheadTime + 1) \in Int /\ Due(elapsed + 6) \in Int
    BY <2>2, Numbers
  <2> QED
    BY <1>6, <1>8, <2>3, Numbers
<1>9. Behind'
  BY <1>3, <1>4, <1>5, <1>7 DEF Behind
<1>10. Ahead'
  <2>1. packetsPerSecond > 0 => SentBefore <= Due(elapsed + 6)
    BY DEF PacingFacts, Ahead
  <2> QED
    BY <1>1, <1>3, <1>5, <1>7, <1>8, <2>1 DEF Ahead
<1>11. ASSUME packetsPerSecond > 0, testSeconds > 0 PROVE Sent <= Due(End + 5) + Group
  <2>1. SentBefore <= Due(End + 5)
    BY <1>1, <1>11 DEF PacingFacts, AtEnd
  <2>2. Sent = SentBefore + Group
    <3>1. totalPkt \in Int /\ groupSent \in Int /\ Second \in Int
      BY Numbers
    <3>2. Sent = SentBefore + groupSent * Second
      BY <3>1 DEF Sent, SentBefore
    <3>3. groupSent = PackestPerGroup
      BY <1>1, <1>11, Numbers DEF PacingFacts, AtEnd
    <3> QED
      BY <3>2, <3>3 DEF Group
  <2>3. Due(End + 5) \in Int
    <3>1. End + 5 \in Int
      BY Numbers
    <3> QED
      BY <3>1, Numbers
  <2> QED
    BY <2>1, <2>2, <2>3, Numbers
<1>12. AtEnd'
  BY <1>1, <1>3, <1>5, <1>11 DEF AtEnd
<1> QED
  BY <1>9, <1>10, <1>12

LEMMA WakeUpPaced ==
  ASSUME PacingFacts, WakeUp
  PROVE  Behind' /\ Ahead' /\ AtEnd'
<1>1. /\ pPc = "sleep" /\ pPc' = "loop" /\ elapsed >= wake
      /\ groupSent' = groupSent /\ totalPkt' = totalPkt /\ elapsed' = elapsed /\ late' = late
      /\ packetsPerSecond' = packetsPerSecond /\ testSeconds' = testSeconds
  BY DEF WakeUp
<1>2. /\ Sent' = Sent /\ SentBefore' = SentBefore /\ End' = End /\ Group' = Group
      /\ Due(elapsed - late)' = Due(elapsed - late) /\ Due(elapsed + 6)' = Due(elapsed + 6)
      /\ Due(End + 5)' = Due(End + 5)
  BY <1>1 DEF Sent, SentBefore, End, Group, PackestPerGroup, Due
<1>3. Behind'
  BY <1>1, <1>2 DEF PacingFacts, Behind
<1>4. ASSUME packetsPerSecond > 0 PROVE Sent <= Due(elapsed + 6)
  <2>1. wake \in Int /\ Sent <= Due(wake + 3)
    BY <1>1, <1>4 DEF PacingFacts, Behind, Ahead
  <2>2. wake + 3 <= elapsed + 6 /\ wake + 3 \in Int /\ elapsed + 6 \in Int
    BY <1>1, <2>1, Numbers
  <2>3. Due(wake + 3) <= Due(elapsed + 6) /\ Due(wake + 3) \in Int /\ Due(elapsed + 6) \in Int
    BY <2>2, Numbers
  <2> QED
    BY <2>1, <2>3, Numbers
<1>5. Ahead'
  BY <1>1, <1>2, <1>4 DEF PacingFacts, Ahead
<1>6. AtEnd'
  BY <1>1, <1>2 DEF PacingFacts, AtEnd
<1> QED
  BY <1>3, <1>5, <1>6

LEMMA PassTimePaced ==
  ASSUME PacingFacts, PassTime
  PROVE  Behind' /\ Ahead' /\ AtEnd'
<1>1. /\ pPc' = pPc /\ pPc \in {"loop", "group", "sleep"} /\ elapsed' = elapsed + 1
      /\ groupSent' = groupSent /\ totalPkt' = totalPkt /\ wake' = wake
      /\ packetsPerSecond' = packetsPerSecond /\ testSeconds' = testSeconds
      /\ IF Resting THEN late' = late ELSE late' = late + 1
  BY DEF PassTime
<1>2. /\ Sent' = Sent /\ SentBefore' = SentBefore /\ End' = End /\ Group' = Group
      /\ PackestPerGroup' = PackestPerGroup
      /\ Due(elapsed + 6)' = Due(elapsed + 1 + 6)
      /\ Due(End + 5)' = Due(End + 5) /\ Due(wake + 2)' = Due(wake + 2)
      /\ Due(wake + 3)' = Due(wake + 3)
  BY <1>1 DEF Sent, SentBefore, End, Group, PackestPerGroup, Due
<1>3. Due(elapsed - late)' <= Sent
  <2>1. CASE ~Resting
    <3>1. elapsed' - late' = elapsed - late
      BY <1>1, <2>1, Numbers
    <3> QED
      BY <1>1, <3>1 DEF PacingFacts, Behind, Due
  <2>2. CASE pPc = "sleep" /\ elapsed < wake /\ late' = late
    <3>1. wake \in Int /\ Due(wake + 2) <= Sent
      BY <2>2 DEF PacingFacts, Behind
    <3>2. elapsed' - late' <= wake + 2 /\ elapsed' - late' \in Int /\ wake + 2 \in Int
      BY <1>1, <2>2, <3>1, Numbers
    <3>3. /\ Due(elapsed' - late') <= Due(wake + 2)
          /\ Due(elapsed' - late') \in Int /\ Due(wake + 2) \in Int
      BY <3>2, Numbers
    <3>4. Due(elapsed - late)' = Due(elapsed' - late')
      BY <1>1 DEF Due
    <3> QED
      BY <3>1, <3>3, <3>4, Numbers
  <2>3. CASE PackestPerGroup <= 0 \/ overflowed
    <3>0. packetsPerSecond = 0
      BY <2>3, Numbers, GroupSize DEF PacingFacts, IntsHold
    <3>1. elapsed' - late' \in Int
      BY <1>1, Numbers
    <3>2. Due(elapsed - late)' = 0
      BY <1>1, <3>0, <3>1 DEF Due
    <3>3. Sent >= 0
      BY Numbers DEF Sent
    <3> QED
      BY <3>2, <3>3
  <2> QED
    BY <1>1, <2>1, <2>2, <2>3 DEF Resting
<1>4. Behind'
  BY <1>1, <1>2, <1>3 DEF PacingFacts, Behind
<1>5. Due(elapsed + 6) <= Due(elapsed + 1 + 6) /\ Due(elapsed + 6) \in Int
      /\ Due(elapsed + 1 + 6) \in Int
  <2>1. elapsed + 6 <= elapsed + 1 + 6 /\ elapsed + 6 \in Int /\ elapsed + 1 + 6 \in Int
    BY Numbers
  <2> QED
    BY <2>1, Numbers
<1>6. ASSUME packetsPerSecond > 0
      PROVE  /\ SentBefore <= Due(elapsed + 1 + 6)
             /\ pPc = "loop" => Sent <= Due(elapsed + 1 + 6)
  <2>1. SentBefore <= Due(elapsed + 6) /\ (pPc = "loop" => Sent <= Due(elapsed + 6))
    BY <1>6 DEF PacingFacts, Ahead
  <2> QED
    BY <1>5, <2>1, Numbers
<1>7. Ahead'
  BY <1>1, <1>2, <1>6 DEF PacingFacts, Ahead
<1>8. AtEnd'
  BY <1>1, <1>2 DEF PacingFacts, AtEnd
<1> QED
  BY <1>4, <1>7, <1>8

LEMMA PacingMoves ==
  ASSUME PacingInv, ProgramNext
  PROVE  PacingInv'
<1>1. \/ PacingStep
      \/ BeginLoop \/ \E b, u, s, i : Admit(b, u, s, i)
      \/ UNCHANGED pacingVars
  BY DEF ProgramNext, ReadOptions, PrintUsage, PrintHelp, ChooseServer, ChooseRtt,
         ChooseBandwidth, NewServer, NewClient, Serve, ClientRuns, CheckRate, Ask,
         ReceiveRttConfirm, SendRound, ReceiveRound, EndRtt, ReceiveBandwidthConfirm, Pace,
         SendFinish, ReceiveReport, CloseClient
<1>2. PacingNumbers
  BY DEF PacingInv
<1>3. CASE PacingStep
  <2>1. PacingNumbers'
    BY <1>2, <1>3, NumbersKept
  <2>2. UNCHANGED <<packetsPerSecond, testSeconds, reportInterval>>
    BY <1>3 DEF PacingStep, EnterTurn, SendPacket, EndTurn, WakeUp, PassTime
  <2>3. ASSUME NumbersGiven', IntsHold' PROVE PacingFacts /\ ~overflowed'
    <3>1. ~overflowed' /\ ~overflowed /\ PackestPerGroup >= 0
      BY <1>2, <1>3, <2>2, <2>3
      DEF IntsHold, PackestPerGroup, PacingNumbers,
          PacingStep, EnterTurn, SendPacket, EndTurn, WakeUp, PassTime
    <3> QED
      BY <2>2, <2>3, <3>1 DEF NumbersGiven, PacingInv, PacingFacts, IntsHold
  <2> QED
    BY <1>3, <2>1, <2>3, EnterTurnPaced, SendPacketPaced, EndTurnPaced, WakeUpPaced,
       PassTimePaced DEF PacingStep, PacingInv
<1>4. CASE BeginLoop \/ \E b, u, s, i : Admit(b, u, s, i)
  <2>1. PacingNumbers'
    BY <1>2, <1>4, NumbersKept
  <2> QED
    BY <1>2, <1>4, <2>1, BeforeLoop DEF PacingInv
<1>5. CASE UNCHANGED pacingVars
  BY <1>5 DEF pacingVars, PacingInv, PacingNumbers, NumbersGiven, IntsHold, Behind, Ahead, AtEnd,
             Due, Sent, SentBefore, End, Group, PackestPerGroup
<1> QED
  BY <1>1, <1>3, <1>4, <1>5

LEMMA PacingInvariant == Spec => []PacingInv
<1>1. Init => PacingInv
  <2> SUFFICES ASSUME Init PROVE PacingInv
    OBVIOUS
  <2>1. /\ pPc = "idle" /\ packetsPerSecond = 0
        /\ elapsed = 0 /\ groupSent = 0 /\ totalPkt = 0 /\ late = 0 /\ overflowed = FALSE
    BY DEF Init, ProgramInit, PacingInit
  <2>2. -IntMax - 1 <= 0 /\ 0 <= IntMax
    BY IntMaxIsNat
  <2>3. overflowed \in BOOLEAN /\ totalPkt \in Nat
    <3>1. overflowed \in BOOLEAN
      BY <2>1
    <3> QED
      BY <2>1, <3>1
  <2>4. PacingNumbers
    BY <2>1, <2>2, <2>3 DEF PacingNumbers
  <2> QED
    BY <2>1, <2>4, SecondIsNat DEF PacingInv, Behind, Ahead, AtEnd
<1>2. PacingInv /\ UNCHANGED programVars => PacingInv'
  BY DEF programVars, pacingVars, PacingInv, PacingNumbers, NumbersGiven, IntsHold, Behind,
         Ahead, AtEnd, Due, Sent, SentBefore, End, Group, PackestPerGroup
<1>3. PacingInv /\ [Next]_vars => PacingInv'
  BY <1>2, PartsAlone, PacingMoves
<1> QED
  BY <1>1, <1>3, PTL DEF Spec

\* Whatever the rate, the length of the test and the time lost, with the
\* assertions or without them: where a group starts the client is at most 6 ms
\* ahead of its rate, as long as its ints hold.
THEOREM RateIsNotExceeded == Spec => []RateNotExceeded
<1>1. JobInv /\ PacingInv => RateNotExceeded
  BY DEF JobInv, PacingInv, Ahead, RateNotExceeded, SentBefore, Due
<1> QED
  BY <1>1, JobInvariant, PacingInvariant, PTL

\* The client is behind its rate only by the time it lost, for every rate at
\* which its ints hold, 0 packets a second included.
THEOREM RateIsKept == Spec => []RateKept
<1>1. JobInv /\ PacingInv => RateKept
  <2> SUFFICES ASSUME JobInv, PacingInv, IntsHold, pPc \in {"loop", "group", "sleep"}
               PROVE  totalPkt * Second >= (elapsed - late) * packetsPerSecond
    BY DEF RateKept
  <2>1. PacingFacts
    BY DEF JobInv, PacingInv, PacingFacts
  <2>2. Due(elapsed - late) <= Sent /\ Sent \in Int
    BY <2>1, Numbers DEF PacingFacts, Behind
  <2>3. elapsed - late \in Int /\ packetsPerSecond \in Int
    BY <2>1, Numbers
  <2> QED
    BY <2>2, <2>3 DEF Due, Sent
<1> QED
  BY <1>1, JobInvariant, PacingInvariant, PTL

\* The finish is at most 6 ms, a group's worth and the time lost late, however
\* long the test and whatever the rate at which the ints hold.
THEOREM FinishIsOnTime == Spec => []FinishOnTime
<1>1. JobInv /\ PacingInv => FinishOnTime
  <2> SUFFICES ASSUME JobInv, PacingInv, IntsHold, pPc = "finish", testSeconds > 0,
                      packetsPerSecond > 0
               PROVE  Due(elapsed - End - late - 6) <= Group
    BY DEF FinishOnTime, Due, End, Group
  <2> QED
    BY DEF JobInv, PacingInv, AtEnd
<1> QED
  BY <1>1, JobInvariant, PacingInvariant, PTL

-----------------------------------------------------------------------------
(* The socket.  It is opened once, on the way from the options to the       *)
(* program that uses it, and whatever leaves that program other than        *)
(* through its end leaves the socket to the process's exit.                 *)

Unopened == mPc \in {"command", "newServer", "newRtt", "newBandwidth"}

SocketInv ==
  /\ Unopened => ~inited /\ wsa = 0 /\ closes = 0
  /\ UsesConnection => inited /\ sock \in {"open", "invalid"} /\ wsa = 1 /\ closes = 0
  /\ closes \in {0, 1}
  /\ mPc = "closed" => sock = "closed" /\ wsa = 0
  /\ Unopened \/ UsesConnection \/ mPc \in {"exit", "closed"}

\* main's steps that leave the socket alone or receive on it.
LEMMA SocketKept ==
  ASSUME SocketInv, UNCHANGED <<inited, sock, wsa, closes>>,
         \/ mPc' = mPc
         \/ mPc' = "exit"
         \/ Unopened /\ Unopened'
         \/ UsesConnection /\ UsesConnection'
  PROVE  SocketInv'
BY DEF SocketInv, Unopened, UsesConnection

LEMMA SocketMoves ==
  ASSUME SocketInv, ProgramNext
  PROVE  SocketInv'
<1>1. CASE ReadOptions \/ PrintUsage \/ PrintHelp \/ ChooseServer \/ ChooseRtt \/ ChooseBandwidth
  BY <1>1, SocketKept DEF ReadOptions, PrintUsage, PrintHelp, ChooseServer, ChooseRtt,
     ChooseBandwidth, Exit, Goto, Throws, Unopened, Running, connVars, progVars
<1>2. CASE NewServer \/ NewClient
  <2>1. /\ Unopened /\ ~inited /\ wsa = 0 /\ closes = 0
    BY <1>2 DEF NewServer, NewClient, Unopened, SocketInv
  <2>2. ASSUME NEW lp, NEW li, NEW rp, NEW ri, NEW pc \in {"serve", "rttAsk", "bwAsk"},
               InitWith(lp, li, rp, ri), Built(pc)
        PROVE  SocketInv'
    <3>1. sock' \in {"open", "invalid"} /\ wsa' = 1 /\ closes' = 0
      BY <2>1, <2>2 DEF InitWith
    <3>2. (inited' /\ mPc' = pc) \/ mPc' = "exit"
      BY <2>2 DEF Built, Goto, Throws, Exit
    <3> QED
      BY <3>1, <3>2 DEF SocketInv, Unopened, UsesConnection
  <2>3. ASSUME NEW lp, NEW li, BindFails(lp, li), Throws PROVE SocketInv'
    <3>1. closes' = 1 /\ mPc' = "exit"
      BY <2>1, <2>3 DEF BindFails, Throws, Exit
    <3> QED
      BY <3>1 DEF SocketInv, Unopened, UsesConnection
  <2> QED
    BY <1>2, <2>2, <2>3 DEF NewServer, NewClient
<1>3. CASE Serve \/ ReceiveRttConfirm \/ ReceiveRound \/ ReceiveBandwidthConfirm \/ ReceiveReport
  BY <1>3, SocketKept DEF Serve, ReceiveRttConfirm, ReceiveRound, ReceiveBandwidthConfirm,
     ReceiveReport, Receive, Exit, Goto, Throws, UsesConnection, connVars
<1>4. CASE CheckRate \/ Ask \/ SendRound \/ EndRtt \/ Pace \/ SendFinish
  BY <1>4, SocketKept DEF CheckRate, Ask, SendRound, EndRtt, Pace, SendFinish, Exit, Goto,
     Throws, UsesConnection, connVars, progVars
<1>5. CASE CloseClient
  <2>1. /\ mPc = "close" /\ mPc' = "closed" /\ sock' = "closed" /\ closes' = closes + 1
        /\ wsa' = wsa - 1
    BY <1>5 DEF CloseClient, Close
  <2>2. wsa = 1 /\ closes = 0
    BY <2>1 DEF SocketInv, UsesConnection
  <2> QED
    BY <2>1, <2>2 DEF SocketInv, Unopened, UsesConnection
<1> QED
  BY <1>1, <1>2, <1>3, <1>4, <1>5 DEF ProgramNext, ClientRuns

LEMMA SocketInvariant == Spec => []SocketInv
<1>1. Init => SocketInv
  BY DEF Init, ProgramInit, ConnectionInit, SocketInv, Unopened, UsesConnection
<1>2. SocketInv /\ UNCHANGED programVars => SocketInv'
  BY DEF programVars, connVars, progVars, SocketInv, Unopened, UsesConnection
<1>3. SocketInv /\ [Next]_vars => SocketInv'
  BY <1>2, PartsAlone, SocketMoves
<1> QED
  BY <1>1, <1>3, PTL DEF Spec

\* For any command line: nobody sends or receives on a socket that is not
\* initialised or already closed, and none is closed twice.
THEOREM SocketIsDisciplined == Spec => []SocketDiscipline
<1>1. SocketInv => SocketDiscipline
  BY DEF SocketInv, SocketDiscipline
<1> QED
  BY <1>1, SocketInvariant, PTL

-----------------------------------------------------------------------------
(* The addresses.  They are made where the socket is, from what main chose, *)
(* and neither changes until the process ends.                              *)

SmallMod == \A p \in Nat : p < PortSpace => p % PortSpace = p

LEMMA PortFits == SmallMod
<1> SUFFICES ASSUME NEW p \in Nat, p < PortSpace PROVE p % PortSpace = p
  BY DEF SmallMod
<1>1. PortSpace \in Nat \ {0}
  BY DEF ConnectionAssumption
<1> QED
  BY <1>1

PortGiven == job.port \in Int

Endpoint == (UsesConnection /\ PortGiven) => EndpointIsNamed

LEMMA EndpointKept ==
  ASSUME Endpoint, UNCHANGED <<localAddr, remoteAddr, job>>,
         \/ mPc' = mPc
         \/ ~UsesConnection'
         \/ UsesConnection /\ mPc # "serve" /\ mPc' # "serve"
  PROVE  Endpoint'
BY DEF Endpoint, EndpointIsNamed, UsesConnection, PortGiven

LEMMA EndpointMoves ==
  ASSUME Endpoint, ProgramNext
  PROVE  Endpoint'
<1>1. CASE ReadOptions \/ PrintUsage \/ PrintHelp \/ ChooseServer \/ ChooseRtt \/ ChooseBandwidth
  <2>1. ~UsesConnection'
    BY <1>1 DEF ReadOptions, PrintUsage, PrintHelp, ChooseServer, ChooseRtt,
       ChooseBandwidth, Exit, Goto, Throws, UsesConnection, Running, progVars
  <2> QED
    BY <2>1 DEF Endpoint
<1>2. CASE NewServer
  <2>1. SUFFICES ASSUME PortGiven', UsesConnection', job.port' < PortSpace
                 PROVE  /\ mPc' = "serve"
                        /\ localAddr' = [host |-> "any", port |-> job.port']
    BY DEF Endpoint, EndpointIsNamed
  <2>2. job' = job /\ InitWith(job.port, "any", 0, "empty") /\ Built("serve")
    BY <1>2, <2>1 DEF NewServer, Throws, Exit, UsesConnection
  <2>3. inited' /\ mPc' = "serve"
    BY <2>1, <2>2 DEF Built, Goto, Throws, Exit, UsesConnection
  <2>4. job.port > 0 /\ job.port \in Nat /\ job.port < PortSpace
    <3>1. inited' = (job.port > 0 \/ (0 > 0 /\ "empty" # "empty"))
      BY <2>2 DEF InitWith
    <3>2. job.port > 0
      BY <2>3, <3>1
    <3>3. job.port \in Int /\ job.port < PortSpace
      BY <2>1, <2>2 DEF PortGiven
    <3> QED
      BY <3>2, <3>3
  <2>5. localAddr' = createAddr(job.port, "any")
    BY <2>2, <2>4 DEF InitWith
  <2>6. createAddr(job.port, "any") = [host |-> "any", port |-> job.port]
    BY <2>4, PortFits DEF createAddr, SmallMod
  <2> QED
    BY <2>2, <2>3, <2>5, <2>6
<1>3. CASE NewClient
  <2>1. SUFFICES ASSUME PortGiven', UsesConnection', job.port' < PortSpace
                 PROVE  /\ mPc' # "serve" /\ remoteAddr'.port = job'.port
                        /\ job'.host = "literal" => remoteAddr'.host = "literal"
    BY DEF Endpoint, EndpointIsNamed
  <2>2. /\ job' = job /\ InitWith(0, "empty", job.port, job.host)
        /\ Built("rttAsk") \/ Built("bwAsk")
    BY <1>3 DEF NewClient
  <2>3. inited' /\ mPc' \in {"rttAsk", "bwAsk"}
    BY <2>1, <2>2 DEF Built, Goto, Throws, Exit, UsesConnection
  <2>4. /\ job.port > 0 /\ job.port \in Nat /\ job.port < PortSpace
        /\ remoteAddr' = createAddr(job.port, job.host)
    <3>1. /\ inited' = (0 > 0 \/ (job.port > 0 /\ job.host # "empty"))
          /\ remoteAddr' = IF job.port > 0 /\ job.host # "empty"
                             THEN createAddr(job.port, job.host) ELSE remoteAddr
      BY <2>2 DEF InitWith
    <3>2. job.port > 0 /\ job.host # "empty"
      <4>1. ~(0 > 0)
        OBVIOUS
      <4> QED
        BY <2>3, <3>1, <4>1, Zenon
    <3>3. job.port \in Int /\ job.port < PortSpace
      BY <2>1, <2>2 DEF PortGiven
    <3> QED
      BY <3>1, <3>2, <3>3
  <2>5. /\ createAddr(job.port, job.host).port = job.port
        /\ job.host = "literal" => createAddr(job.port, job.host).host = "literal"
    BY <2>4, PortFits DEF createAddr, SmallMod
  <2> QED
    BY <2>2, <2>3, <2>4, <2>5
<1>4. CASE Serve \/ ReceiveRttConfirm \/ ReceiveRound \/ ReceiveBandwidthConfirm \/ ReceiveReport
  BY <1>4, EndpointKept DEF Serve, ReceiveRttConfirm, ReceiveRound, ReceiveBandwidthConfirm,
     ReceiveReport, Receive, Exit, Goto, Throws, UsesConnection, connVars
<1>5. CASE CheckRate \/ Ask \/ SendRound \/ EndRtt \/ Pace \/ SendFinish
  BY <1>5, EndpointKept DEF CheckRate, Ask, SendRound, EndRtt, Pace, SendFinish, Exit, Goto,
     Throws, UsesConnection, connVars, progVars
<1>6. CASE CloseClient
  BY <1>6 DEF CloseClient, UsesConnection, Endpoint
<1> QED
  BY <1>1, <1>2, <1>3, <1>4, <1>5, <1>6 DEF ProgramNext, ClientRuns

\* For any command line, the port that was named, if it is one, is the one the
\* server listens on and the client sends to.
THEOREM EndpointStaysNamed == Spec => []EndpointIsNamed
<1>1. Init => Endpoint
  BY DEF Init, ProgramInit, Endpoint, UsesConnection
<1>2. Endpoint /\ UNCHANGED programVars => Endpoint'
  BY DEF programVars, connVars, progVars, Endpoint, EndpointIsNamed, UsesConnection, PortGiven
<1>3. Endpoint /\ [Next]_vars => Endpoint'
  BY <1>2, PartsAlone, EndpointMoves
<1>4. JobInv /\ Endpoint => EndpointIsNamed
  BY DEF JobInv, JobOK, PortGiven, Endpoint, EndpointIsNamed
<1> QED
  BY <1>1, <1>3, <1>4, JobInvariant, PTL DEF Spec

-----------------------------------------------------------------------------
(* The types.  The time a sleep ends is one since only a client more than   *)
(* 5 ms ahead sleeps; Winsock is cleaned up only where it was started; and  *)
(* the addresses are made from a host the parser let through.               *)

LEMMA AddressMade ==
  ASSUME NEW p \in Int, NEW host \in {"any", "literal", "name", "empty"}
  PROVE  createAddr(p, host) \in Addr
<1>1. p % PortSpace \in 0 .. PortSpace - 1
  BY DEF ConnectionAssumption
<1>2. (CASE host = "empty" -> "any" [] host = "name" -> "none" [] OTHER -> host)
        \in {"any", "literal", "none"}
  OBVIOUS
<1> QED
  BY <1>1, <1>2 DEF createAddr, Addr

LEMMA ConnectionTyped ==
  ASSUME ConnectionTypeOK, SocketInv, JobInv, ProgramNext
  PROVE  ConnectionTypeOK'
<1>1. CASE NewServer
  <2>1. createAddr(job.port, "any") \in Addr
    BY AddressMade DEF JobInv, JobOK
  <2>2. wsa + 1 \in Nat /\ closes + 1 \in Nat
    BY DEF ConnectionTypeOK
  <2>3. CASE InitWith(job.port, "any", 0, "empty")
    <3>1. inited' \in BOOLEAN
      BY <2>3 DEF InitWith
    <3> QED
      BY <2>1, <2>2, <2>3, <3>1 DEF InitWith, ConnectionTypeOK
  <2>4. CASE BindFails(job.port, "any")
    BY <2>1, <2>2, <2>4 DEF BindFails, ConnectionTypeOK
  <2> QED
    BY <1>1, <2>3, <2>4 DEF NewServer
<1>2. CASE NewClient
  <2>1. createAddr(job.port, job.host) \in Addr
    BY AddressMade DEF JobInv, JobOK
  <2>2. wsa + 1 \in Nat
    BY DEF ConnectionTypeOK
  <2>3. InitWith(0, "empty", job.port, job.host)
    BY <1>2 DEF NewClient
  <2>4. inited' \in BOOLEAN
    BY <2>3 DEF InitWith
  <2>5. ~(0 > 0)
    OBVIOUS
  <2>6. localAddr' = localAddr /\ remoteAddr' \in Addr
    BY <2>1, <2>3, <2>5 DEF InitWith, ConnectionTypeOK
  <2> QED
    BY <2>2, <2>3, <2>4, <2>6 DEF InitWith, ConnectionTypeOK
<1>3. ASSUME NEW from \in Peers, Receive(from) PROVE ConnectionTypeOK'
  <2>1. from \in Addr
    BY ProgramAssumption DEF Peers, Addr, ConnectionAssumption
  <2> QED
    BY <1>3, <2>1 DEF Receive, ConnectionTypeOK
<1>4. CASE CloseClient
  <2>1. wsa = 1 /\ closes = 0
    BY <1>4 DEF CloseClient, SocketInv, UsesConnection
  <2>2. wsa' = 0 /\ closes' = 1
    BY <1>4, <2>1 DEF CloseClient, Close
  <2> QED
    BY <1>4, <2>2 DEF CloseClient, Close, ConnectionTypeOK
<1>5. CASE UNCHANGED connVars
  BY <1>5 DEF connVars, ConnectionTypeOK
<1>6. \/ NewServer \/ NewClient \/ CloseClient
      \/ \E from \in Peers : Receive(from)
      \/ UNCHANGED connVars
  BY DEF ProgramNext, ReadOptions, PrintUsage, PrintHelp, ChooseServer, ChooseRtt,
     ChooseBandwidth, Serve, ClientRuns, CheckRate, Ask, ReceiveRttConfirm, SendRound,
     ReceiveRound, EndRtt, ReceiveBandwidthConfirm, Pace, SendFinish, ReceiveReport
<1> QED
  BY <1>1, <1>2, <1>3, <1>4, <1>5, <1>6

\* What the invariants above leave of PacingTypeOK.
ClockTyped ==
  pPc \in PacingPc /\ passedTime \in Nat /\ lastReportTime \in Nat /\ wake \in Nat

LEMMA ClockMoves ==
  ASSUME ClockTyped, JobInv, PacingInv, ProgramNext
  PROVE  ClockTyped'
<1>1. CASE EndTurn
  <2>1. elapsed \in Nat /\ totalPkt \in Int /\ packetsPerSecond \in Nat
    BY IntMaxIsNat DEF JobInv, NumbersGiven, PacingInv, PacingNumbers
  <2>2. PICK aheadTime \in AheadTimes :
          IF aheadTime > 5 THEN pPc' = "sleep" /\ wake' = elapsed + aheadTime - 2
                           ELSE pPc' = "loop" /\ UNCHANGED wake
    BY <1>1 DEF EndTurn
  <2>3. aheadTime \in Int
    <3>1. CASE packetsPerSecond = 0
      BY <3>1 DEF AheadTimes
    <3>2. CASE packetsPerSecond # 0
      BY <2>1, <3>2, AheadBounds
    <3> QED
      BY <3>1, <3>2
  <2>4. wake' \in Nat /\ pPc' \in PacingPc
    <3>1. CASE aheadTime > 5
      BY <2>1, <2>2, <2>3, <3>1 DEF PacingPc
    <3>2. CASE ~(aheadTime > 5)
      BY <2>2, <3>2 DEF ClockTyped, PacingPc
    <3> QED
      BY <3>1, <3>2
  <2>5. passedTime' \in Nat /\ lastReportTime' \in Nat
    <3>1. passedTime' = elapsed /\ (lastReportTime' = elapsed \/ lastReportTime' = lastReportTime)
      BY <1>1 DEF EndTurn
    <3> QED
      BY <2>1, <3>1 DEF ClockTyped
  <2> QED
    BY <2>4, <2>5 DEF ClockTyped
<1>2. CASE \/ EnterTurn \/ SendPacket \/ WakeUp \/ PassTime
           \/ BeginLoop \/ \E b, u, s, i : Admit(b, u, s, i)
  BY <1>2 DEF EnterTurn, SendPacket, WakeUp, PassTime, BeginLoop, Admit, ClockTyped, PacingPc
<1>3. CASE UNCHANGED pacingVars
  BY <1>3 DEF pacingVars, ClockTyped
<1>4. \/ PacingStep
      \/ BeginLoop \/ \E b, u, s, i : Admit(b, u, s, i)
      \/ UNCHANGED pacingVars
  BY DEF ProgramNext, ReadOptions, PrintUsage, PrintHelp, ChooseServer, ChooseRtt,
         ChooseBandwidth, NewServer, NewClient, Serve, ClientRuns, CheckRate, Ask,
         ReceiveRttConfirm, SendRound, ReceiveRound, EndRtt, ReceiveBandwidthConfirm, Pace,
         SendFinish, ReceiveReport, CloseClient
<1> QED
  BY <1>1, <1>2, <1>3, <1>4 DEF PacingStep

RoundsTyped == rounds \in Nat /\ exitCode \in Int

LEMMA RoundsMove ==
  ASSUME RoundsTyped, ProgramNext
  PROVE  RoundsTyped'
<1>1. rounds' \in Nat
  <2>1. \/ rounds' = rounds \/ rounds' = RttTimes
        \/ rounds > 0 /\ rounds' = rounds - 1
    BY DEF ProgramNext, ReadOptions, PrintUsage, PrintHelp, ChooseServer, ChooseRtt,
       ChooseBandwidth, NewServer, NewClient, Serve, ClientRuns, CheckRate, Ask,
       ReceiveRttConfirm, SendRound, ReceiveRound, EndRtt, ReceiveBandwidthConfirm, Pace,
       SendFinish, ReceiveReport, CloseClient, progVars
  <2> QED
    BY <2>1, ProgramAssumption DEF RoundsTyped
<1>2. exitCode' \in Int
  BY DEF RoundsTyped, ProgramNext, ReadOptions, PrintUsage, PrintHelp, ChooseServer, ChooseRtt,
     ChooseBandwidth, NewServer, NewClient, Serve, ClientRuns, CheckRate, Ask,
     ReceiveRttConfirm, SendRound, ReceiveRound, EndRtt, ReceiveBandwidthConfirm, Pace,
     SendFinish, ReceiveReport, CloseClient, progVars, Exit, Goto, Throws, Built
<1> QED
  BY <1>1, <1>2 DEF RoundsTyped

TypeInv == ConnectionTypeOK /\ ClockTyped /\ RoundsTyped

\* The types of the program's state, for any command line and any failures.
THEOREM ProgramTypesCorrect == Spec => []ProgramTypeOK
<1>1. Init => TypeInv
  <2> SUFFICES ASSUME Init PROVE TypeInv
    OBVIOUS
  <2>1. NoAddr \in Addr
    BY DEF NoAddr, Addr, ConnectionAssumption
  <2>2. ConnectionTypeOK
    BY <2>1 DEF Init, ProgramInit, ConnectionInit, ConnectionTypeOK
  <2>3. ClockTyped
    BY DEF Init, ProgramInit, PacingInit, ClockTyped, PacingPc
  <2>4. RoundsTyped
    BY DEF Init, ProgramInit, RoundsTyped
  <2> QED
    BY <2>2, <2>3, <2>4 DEF TypeInv
<1>2. TypeInv /\ UNCHANGED programVars => TypeInv'
  BY DEF programVars, connVars, pacingVars, progVars, TypeInv, ConnectionTypeOK, ClockTyped,
     RoundsTyped
<1>3. TypeInv /\ JobInv /\ PacingInv /\ SocketInv /\ [Next]_vars => TypeInv'
  BY <1>2, PartsAlone, ConnectionTyped, ClockMoves, RoundsMove DEF TypeInv
<1>4. TypeInv /\ JobInv /\ PacingInv => ProgramTypeOK
  BY DEF TypeInv, ClockTyped, RoundsTyped, JobInv, NumbersGiven, PacingInv, PacingNumbers,
     ProgramTypeOK, PacingTypeOK
<1> QED
  BY <1>1, <1>3, <1>4, JobInvariant, PacingInvariant, SocketInvariant, PTL DEF Spec

-----------------------------------------------------------------------------
(* The results.  What was sent is within a group and 6 ms of what was due    *)
(* when the last group began, and at least what was due at the end but for   *)
(* the time lost; so the last group did not begin too early.                 *)

LastGroup ==
  packetsPerSecond > 0 =>
    /\ pPc = "group" => groupSent <= PackestPerGroup
    /\ pPc \in {"loop", "sleep", "finish"} =>
         (totalPkt - PackestPerGroup) * Second <= Due(passedTime + 6)
    /\ pPc = "finish" => Due(End - late) <= Sent

ResultInv == passedTime \in Nat /\ (NumbersGiven /\ IntsHold => LastGroup)

\* Of n packets of a rate r in groups of g, the last at pt, with x milliseconds
\* of the test not lost.
LEMMA ResultBounds ==
  ASSUME NEW r \in Nat \ {0}, NEW n \in Nat, NEW g \in Nat, NEW pt \in Nat, NEW x \in Int,
         NEW S \in Nat, S > 10,
         g * S <= 5 * r + S - 1, (n - g) * S <= (pt + 6) * r, x * r <= n * S
  PROVE  /\ n * S < (pt + 11) * r + S
         /\ (x - 11) * r >= S => pt > 0 /\ n > 0
         /\ x >= 2 * S => pt >= S - 10
<1>1. /\ (n - g) * S = n * S - g * S /\ (pt + 6) * r + 5 * r = (pt + 11) * r
      /\ n * S \in Int /\ g * S \in Int /\ (pt + 6) * r \in Int /\ (pt + 11) * r \in Int
  OBVIOUS
<1>2. n * S < (pt + 11) * r + S
  BY <1>1
<1>3. (x - 11 - pt) * r <= S - 1
  <2>1. (x - 11 - pt) * r = x * r - (pt + 11) * r /\ x * r \in Int
    OBVIOUS
  <2> QED
    BY <1>1, <2>1
<1>4. ASSUME (x - 11) * r >= S PROVE pt > 0 /\ n > 0
  <2>1. pt # 0
    BY <1>3, <1>4
  <2>2. x - 11 > 0
    <3>1. ASSUME x - 11 <= 0 PROVE FALSE
      <4>1. (x - 11) * r <= 0 * r
        BY <3>1, ProductGrows
      <4> QED
        BY <1>4, <4>1
    <3> QED
      BY <3>1
  <2>3. 1 * r <= x * r
    BY <2>2, ProductGrows
  <2>4. n # 0
    BY <2>3
  <2> QED
    BY <2>1, <2>4
<1>5. ASSUME x >= 2 * S PROVE pt >= S - 10
  <2>1. ASSUME pt < S - 10 PROVE FALSE
    <3>1. x - 11 - pt >= S
      BY <1>5, <2>1
    <3>2. S * 1 <= S * r
      BY ProductGrows
    <3>3. S * r <= (x - 11 - pt) * r
      BY <3>1, ProductGrows
    <3>4. S * r \in Int /\ (x - 11 - pt) * r \in Int
      OBVIOUS
    <3> QED
      BY <1>3, <3>2, <3>3, <3>4
  <2> QED
    BY <2>1
<1> QED
  BY <1>2, <1>4, <1>5

LEMMA ResultFits ==
  ASSUME NEW r \in Nat \ {0}, NEW n \in Nat, NEW pt \in Nat, NEW b \in Nat,
         b = PacketSize * r, pt >= Second - 10, n * Second < (pt + 11) * r + Second,
         (UintSpace - b) * (Second - 10) > 11 * b + PacketSize * Second
  PROVE  n * PacketSize * Second < UintSpace * pt
<1>1. /\ UintSpace \in Nat /\ PacketSize \in Nat /\ Second \in Nat /\ Second > 10
  BY PacingAssumption, LongSecond
<1>2. UintSpace - b >= 0
  <2>1. ASSUME UintSpace - b <= 0 PROVE FALSE
    <3>1. (UintSpace - b) * (Second - 10) <= 0 * (Second - 10)
      BY <1>1, <2>1, ProductGrows
    <3>2. 11 * b + PacketSize * Second >= 0
      BY <1>1
    <3> QED
      BY <1>1, <3>1, <3>2
  <2> QED
    BY <1>1, <2>1
<1>3. (UintSpace - b) * pt > 11 * b + PacketSize * Second
  <2>1. (UintSpace - b) * (Second - 10) <= (UintSpace - b) * pt
    BY <1>1, <1>2, ProductGrows
  <2>2. (UintSpace - b) * pt \in Int /\ (UintSpace - b) * (Second - 10) \in Int
        /\ 11 * b + PacketSize * Second \in Int
    BY <1>1
  <2> QED
    BY <2>1, <2>2
<1>4. UintSpace * pt > b * (pt + 11) + PacketSize * Second
  <2>1. (UintSpace - b) * pt = UintSpace * pt - b * pt /\ b * (pt + 11) = b * pt + 11 * b
    BY <1>1
  <2>2. UintSpace * pt \in Int /\ b * pt \in Int /\ PacketSize * Second \in Int
    BY <1>1
  <2> QED
    BY <1>1, <1>3, <2>1, <2>2
<1>5. PacketSize * (n * Second) <= b * (pt + 11) + PacketSize * Second
  <2>1. PacketSize * (n * Second) <= PacketSize * ((pt + 11) * r + Second)
    BY <1>1, ProductGrows
  <2>2. PacketSize * ((pt + 11) * r + Second)
          = (PacketSize * r) * (pt + 11) + PacketSize * Second
    BY <1>1
  <2> QED
    BY <2>1, <2>2
<1>6. n * PacketSize * Second = PacketSize * (n * Second)
  BY <1>1
<1>7. /\ PacketSize * (n * Second) \in Int /\ UintSpace * pt \in Int
      /\ b * (pt + 11) + PacketSize * Second \in Int
  BY <1>1
<1> QED
  BY <1>4, <1>5, <1>6, <1>7

LEMMA LastGroupSuffices ==
  ASSUME LastGroup, PacingFacts, passedTime \in Nat
  PROVE  ResultIsPrintable
<1> DEFINE kept == End - late
           bytes == PacketSize * packetsPerSecond
<1> SUFFICES ASSUME pPc = "finish", packetsPerSecond > 0
             PROVE  /\ (kept - 11) * packetsPerSecond >= Second => passedTime > 0 /\ totalPkt > 0
                    /\ totalPkt * Second < (passedTime + 11) * packetsPerSecond + Second
                    /\ (/\ kept >= 2 * Second
                        /\ (UintSpace - bytes) * (Second - 10) > 11 * bytes + PacketSize * Second)
                       => totalPkt * PacketSize * Second < UintSpace * passedTime
  BY DEF ResultIsPrintable, End
<1>1. /\ packetsPerSecond \in Nat \ {0} /\ totalPkt \in Nat /\ PackestPerGroup \in Nat
      /\ Second \in Nat /\ Second > 10 /\ kept \in Int
  BY Numbers, LongSecond
<1>2. PackestPerGroup * Second <= 5 * packetsPerSecond + Second - 1
  BY GroupSize DEF Group
<1>3. /\ (totalPkt - PackestPerGroup) * Second <= (passedTime + 6) * packetsPerSecond
      /\ kept * packetsPerSecond <= totalPkt * Second
  BY DEF LastGroup, Due, Sent
<1>4. bytes \in Nat /\ bytes = PacketSize * packetsPerSecond
  BY <1>1, PacingAssumption
<1> HIDE DEF kept, bytes
<1>5. /\ totalPkt * Second < (passedTime + 11) * packetsPerSecond + Second
      /\ (kept - 11) * packetsPerSecond >= Second => passedTime > 0 /\ totalPkt > 0
      /\ kept >= 2 * Second => passedTime >= Second - 10
  BY <1>1, <1>2, <1>3, ResultBounds
<1> QED
  BY <1>1, <1>4, <1>5, ResultFits

LEMMA LastGroupMoves ==
  ASSUME LastGroup, PacingFacts, PacingFacts', passedTime \in Nat, passedTime' \in Nat,
         PacingStep \/ BeginLoop \/ \E b, u, s, i : Admit(b, u, s, i)
  PROVE  LastGroup'
<1> SUFFICES ASSUME packetsPerSecond' > 0
             PROVE  /\ pPc' = "group" => groupSent' <= PackestPerGroup'
                    /\ pPc' \in {"loop", "sleep", "finish"} =>
                         ((totalPkt - PackestPerGroup) * Second <= Due(passedTime + 6))'
                    /\ pPc' = "finish" => (Due(End - late) <= Sent)'
  BY DEF LastGroup
<1>0. /\ End \in Int /\ elapsed \in Nat /\ late \in Nat /\ Second \in Nat \ {0}
      /\ PackestPerGroup \in Nat
  BY Numbers
<1>1. CASE EnterTurn
  <2>1. /\ pPc = "loop" /\ groupSent' = 0
        /\ UNCHANGED <<totalPkt, packetsPerSecond, passedTime, testSeconds, elapsed, late>>
        /\ pPc' = IF elapsed < End THEN "group" ELSE "finish"
    BY <1>1 DEF EnterTurn, End
  <2>2. PackestPerGroup' = PackestPerGroup /\ Sent' = Sent
    BY <2>1 DEF PackestPerGroup, Sent
  <2>3. ASSUME pPc' = "finish" PROVE (Due(End - late) <= Sent)'
    <3>1. End - late <= elapsed - late /\ End - late \in Int /\ elapsed - late \in Int
      BY <1>0, <2>1, <2>3
    <3>2. /\ Due(End - late) <= Due(elapsed - late)
          /\ Due(End - late) \in Int /\ Due(elapsed - late) \in Int
      BY <3>1, Numbers
    <3>3. Due(elapsed - late) <= Sent
      BY <2>1 DEF PacingFacts, Behind
    <3>4. Due(End - late) <= Sent
      BY <3>2, <3>3, Numbers
    <3> QED
      BY <2>1, <3>4 DEF Due, End, Sent
  <2>4. ((totalPkt - PackestPerGroup) * Second <= Due(passedTime + 6))'
    BY <2>1, <2>2 DEF LastGroup, Due
  <2> QED
    BY <1>0, <2>1, <2>2, <2>3, <2>4
<1>2. CASE SendPacket
  <2>1. /\ pPc' = "group" /\ groupSent < PackestPerGroup /\ groupSent' = groupSent + 1
        /\ packetsPerSecond' = packetsPerSecond
    BY <1>2 DEF SendPacket
  <2>2. PackestPerGroup' = PackestPerGroup
    BY <2>1 DEF PackestPerGroup
  <2> QED
    BY <2>1, <2>2, Numbers
<1>3. CASE EndTurn
  <2>1. /\ pPc = "group" /\ pPc' \in {"loop", "sleep"} /\ passedTime' = elapsed
        /\ UNCHANGED <<totalPkt, packetsPerSecond>> /\ groupSent >= PackestPerGroup
    BY <1>3 DEF EndTurn
  <2>2. groupSent = PackestPerGroup
    BY <2>1, Numbers DEF LastGroup
  <2>3. (totalPkt - PackestPerGroup) * Second <= Due(elapsed + 6)
    BY <2>1, <2>2 DEF PacingFacts, Ahead, SentBefore
  <2>4. ((totalPkt - PackestPerGroup) * Second <= Due(passedTime + 6))'
    BY <2>1, <2>3 DEF PackestPerGroup, Due
  <2> QED
    BY <2>1, <2>4
<1>4. CASE WakeUp \/ PassTime
  <2>1. /\ \/ pPc' = pPc /\ pPc \in {"loop", "group", "sleep"}
           \/ pPc = "sleep" /\ pPc' = "loop"
        /\ UNCHANGED <<totalPkt, packetsPerSecond, passedTime, groupSent>>
    BY <1>4 DEF WakeUp, PassTime
  <2>2. PackestPerGroup' = PackestPerGroup
    BY <2>1 DEF PackestPerGroup
  <2> QED
    BY <2>1, <2>2 DEF LastGroup, Due
<1>5. CASE BeginLoop \/ \E b, u, s, i : Admit(b, u, s, i)
  <2>1. pPc' \in {"loop", "admitted", "aborted"} /\ totalPkt' = 0
    BY <1>5 DEF BeginLoop, Admit, PacingFacts, PacingNumbers
  <2>2. PackestPerGroup' \in Nat /\ packetsPerSecond' \in Nat /\ Second' = Second
    <3>1. (PacingFacts => PackestPerGroup \in Nat /\ packetsPerSecond \in Nat)'
      BY Numbers, PTL
    <3> QED
      BY <3>1
  <2>3. Due(passedTime + 6)' \in Nat
    <3>1. \A n, r \in Nat : (n + 6) * r \in Nat
      <4> SUFFICES ASSUME NEW n \in Nat, NEW r \in Nat PROVE (n + 6) * r \in Nat
        OBVIOUS
      <4> QED
        BY NatProduct
    <3>2. (passedTime' + 6) * packetsPerSecond' \in Nat
      BY <2>2, <3>1
    <3> QED
      BY <3>2 DEF Due
  <2>4. (totalPkt' - PackestPerGroup') * Second <= 0
    <3>1. \A g, S \in Nat : (0 - g) * S <= 0
      <4> SUFFICES ASSUME NEW g \in Nat, NEW S \in Nat PROVE (0 - g) * S <= 0 * S
        OBVIOUS
      <4> QED
        BY ProductGrows
    <3> QED
      BY <1>0, <2>1, <2>2, <3>1
  <2> QED
    BY <1>0, <2>1, <2>2, <2>3, <2>4
<1> QED
  BY <1>1, <1>2, <1>3, <1>4, <1>5 DEF PacingStep

\* For any rate and length of a test, with the assertions or without them, and
\* for any time lost, as long as the ints hold: the results have a time to divide
\* by, the rate printed is near the one asked, and it fits its uint32_t.
THEOREM ResultsArePrintable == Spec => []ResultIsPrintable
<1>1. Init => ResultInv
  BY DEF Init, ProgramInit, PacingInit, ResultInv, LastGroup
<1>2. ResultInv /\ UNCHANGED pacingVars => ResultInv'
  BY DEF pacingVars, ResultInv, NumbersGiven, IntsHold, LastGroup, PackestPerGroup, Due, Sent, End
<1>3. ResultInv /\ JobInv /\ PacingInv /\ (JobInv /\ PacingInv)' /\ ProgramNext => ResultInv'
  <2> SUFFICES ASSUME ResultInv, JobInv, PacingInv, (JobInv /\ PacingInv)', ProgramNext
               PROVE  ResultInv'
    OBVIOUS
  <2>1. \/ PacingStep \/ BeginLoop \/ \E b, u, s, i : Admit(b, u, s, i)
        \/ UNCHANGED pacingVars
    BY DEF ProgramNext, ReadOptions, PrintUsage, PrintHelp, ChooseServer, ChooseRtt,
           ChooseBandwidth, NewServer, NewClient, Serve, ClientRuns, CheckRate, Ask,
           ReceiveRttConfirm, SendRound, ReceiveRound, EndRtt, ReceiveBandwidthConfirm, Pace,
           SendFinish, ReceiveReport, CloseClient
  <2>2. CASE PacingStep \/ BeginLoop \/ \E b, u, s, i : Admit(b, u, s, i)
    <3>1. passedTime \in Nat /\ passedTime' \in Nat
      BY <2>2 DEF PacingStep, EnterTurn, SendPacket, EndTurn, WakeUp, PassTime, BeginLoop, Admit,
                  ResultInv, PacingInv, PacingNumbers
    <3>2. ASSUME IntsHold' PROVE LastGroup'
      <4>1. PacingFacts'
        BY <3>2 DEF JobInv, PacingInv, PacingFacts
      <4>2. CASE IntsHold
        <5>1. PacingFacts /\ LastGroup
          BY <4>2 DEF JobInv, PacingInv, PacingFacts, ResultInv
        <5> QED
          BY <2>2, <3>1, <4>1, <5>1, LastGroupMoves
      <4>3. CASE ~IntsHold
        <5>1. pPc' \in {"admitted", "aborted"}
          BY <2>2, <3>2, <4>3
          DEF IntsHold, PackestPerGroup, PacingStep, EnterTurn, SendPacket, EndTurn, WakeUp,
              PassTime, BeginLoop, Admit, PacingInv, PacingNumbers
        <5> QED
          BY <5>1 DEF LastGroup
      <4> QED
        BY <4>2, <4>3
    <3> QED
      BY <3>1, <3>2 DEF ResultInv
  <2> QED
    BY <1>2, <2>1, <2>2
<1>4. UNCHANGED programVars => UNCHANGED pacingVars
  BY DEF programVars
<1>5. ResultInv /\ JobInv /\ PacingInv /\ (JobInv /\ PacingInv)' /\ [Next]_vars => ResultInv'
  BY <1>2, <1>3, <1>4, PartsAlone
<1>6. ResultInv /\ JobInv /\ PacingInv => ResultIsPrintable
  <2> SUFFICES ASSUME ResultInv, JobInv, PacingInv, IntsHold PROVE ResultIsPrintable
    BY DEF ResultIsPrintable
  <2>1. PacingFacts /\ LastGroup /\ passedTime \in Nat
    BY DEF JobInv, PacingInv, PacingFacts, ResultInv
  <2> QED
    BY <2>1, LastGroupSuffices
<1> QED
  BY <1>1, <1>5, <1>6, JobInvariant, PacingInvariant, PTL DEF Spec

=============================================================================
