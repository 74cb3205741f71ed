---------------------------- MODULE CommandProofs ----------------------------
(***************************************************************************)
(* What holds of the parser of command lines, for command lines of any     *)
(* length and any words.                                                   *)
(***************************************************************************)
EXTENDS Process, FoldProofs, SequenceTheorems

-----------------------------------------------------------------------------
(* A behaviour exercises one piece: the others stand still.                 *)

LEMMA PartsAlone ==
  /\ [Next]_vars => [DatabaseStep]_dbVars
  /\ [Next]_vars => [CodecStep]_codecVars
  /\ [Next]_vars => [ProgramNext]_programVars
  /\ [Next]_vars => [FormatStep]_formatVars
  /\ [Next]_vars => [IntegerStep]_integerVars
  /\ [Next]_vars => [HelpStep]_helpVars
  /\ [Next]_vars => [StringStep]_stringVars
<1>1. ASSUME Next PROVE /\ DatabaseStep \/ UNCHANGED dbVars
                        /\ CodecStep \/ UNCHANGED codecVars
                        /\ ProgramNext \/ UNCHANGED programVars
                        /\ FormatStep \/ UNCHANGED formatVars
                        /\ IntegerStep \/ UNCHANGED integerVars
                        /\ HelpStep \/ UNCHANGED helpVars
                        /\ StringStep \/ UNCHANGED stringVars
  BY <1>1 DEF Next, ProgramRuns, CodecRuns, IntegerRuns, HelpRuns, FormatRuns, StringsRun,
              DatabaseRuns
<1>2. UNCHANGED vars => /\ UNCHANGED dbVars /\ UNCHANGED codecVars /\ UNCHANGED programVars
                        /\ UNCHANGED formatVars /\ UNCHANGED integerVars
                        /\ UNCHANGED helpVars /\ UNCHANGED stringVars
  BY DEF vars
<1> QED
  BY <1>1, <1>2

LEMMA ProductGrows ==
  ASSUME NEW x \in Int, NEW y \in Int, NEW d \in Nat, x <= y
  PROVE  d * x <= d * y /\ x * d <= y * d
OBVIOUS

\* The program parses its command line, forgets it, or leaves it alone.
LEMMA CommandLineAlone ==
  ASSUME [Next]_vars
  PROVE  \/ mPc = "command" /\ CommandLineStep
         \/ ForgetCommandLine
         \/ UNCHANGED clVars
<1>1. CASE ProgramNext
  BY <1>1 DEF ProgramNext, ReadOptions, PrintUsage, PrintHelp, ChooseServer, ChooseRtt,
     ChooseBandwidth, NewServer, NewClient, Serve, ClientRuns, CheckRate, Ask,
     ReceiveRttConfirm, SendRound, ReceiveRound, EndRtt, ReceiveBandwidthConfirm, Pace,
     SendFinish, ReceiveReport, CloseClient
<1>2. CASE UNCHANGED programVars
  BY <1>2 DEF programVars
<1> QED
  BY <1>1, <1>2, PartsAlone

-----------------------------------------------------------------------------
(* The options.                                                            *)

LongNames == {o.long : o \in options}

\* What an option can be given: the text of a word, what is behind its "=",
\* or the option's own.
Texts == UNION ({w.eq : w \in Words} \cup {{w.text} : w \in Words}
                \cup {o.default : o \in options} \cup {o.implicit : o \in options})

LEMMA TextsAre ==
  /\ \A w \in Words : w.text \in Texts /\ w.eq \subseteq Texts
  /\ \A o \in options : o.default \subseteq Texts /\ o.implicit \subseteq Texts
<1> DEFINE parts == {w.eq : w \in Words} \cup {{w.text} : w \in Words}
                    \cup {o.default : o \in options} \cup {o.implicit : o \in options}
<1>1. \A piece \in parts : piece \subseteq Texts
  <2> HIDE DEF parts
  <2>1. Texts = UNION parts
    BY DEF Texts, parts
  <2> QED
    BY <2>1
<1>2. \A w \in Words : {w.text} \in parts /\ w.eq \in parts
  OBVIOUS
<1>3. \A o \in options : o.default \in parts /\ o.implicit \in parts
  OBVIOUS
<1> HIDE DEF parts
<1> QED
  BY <1>1, <1>2, <1>3

LEMMA OptionFields ==
  ASSUME NEW short, NEW long, NEW type, NEW default, NEW implicit
  PROVE  /\ Option(short, long, type, default, implicit).short = short
         /\ Option(short, long, type, default, implicit).long = long
         /\ Option(short, long, type, default, implicit).type = type
         /\ Option(short, long, type, default, implicit).default = default
         /\ Option(short, long, type, default, implicit).implicit = implicit
BY DEF Option

\* The options one by one.
serverOption    == Option("s", "server",    "bool",   {BoolText(FALSE)}, {BoolText(TRUE)})
clientOption    == Option("c", "client",    "string", {}, {})
portOption      == Option("p", "port",      "int",    {IntText(DefaultPort)}, {})
rttOption       == Option("r", "rtt",       "bool",   {BoolText(FALSE)}, {BoolText(TRUE)})
bandwidthOption == Option("b", "bandwidth", "string", {RateText(256, "K")}, {})
intervalOption  == Option("i", "interval",  "int",    {IntText(DefaultInterval)}, {})
timeOption      == Option("t", "time",      "int",    {IntText(DefaultTime)}, {})
helpOption      == Option("h", "help",      "bool",   {BoolText(FALSE)}, {BoolText(TRUE)})

LEMMA OptionsAre ==
  /\ options = {serverOption, clientOption, portOption, rttOption, bandwidthOption,
                intervalOption, timeOption, helpOption}
  /\ serverOption.short = "s" /\ serverOption.long = "server"
  /\ clientOption.short = "c" /\ clientOption.long = "client"
  /\ portOption.short = "p" /\ portOption.long = "port" /\ portOption.type = "int"
  /\ portOption.default = {IntText(DefaultPort)}
  /\ rttOption.short = "r" /\ rttOption.long = "rtt"
  /\ bandwidthOption.short = "b" /\ bandwidthOption.long = "bandwidth"
  /\ intervalOption.short = "i" /\ intervalOption.long = "interval"
  /\ intervalOption.type = "int" /\ intervalOption.default = {IntText(DefaultInterval)}
  /\ timeOption.short = "t" /\ timeOption.long = "time"
  /\ timeOption.type = "int" /\ timeOption.default = {IntText(DefaultTime)}
  /\ helpOption.short = "h" /\ helpOption.long = "help"
<1>1. options = {serverOption, clientOption, portOption, rttOption, bandwidthOption,
                 intervalOption, timeOption, helpOption}
  BY Zenon DEF options, serverOption, clientOption, portOption, rttOption, bandwidthOption,
     intervalOption, timeOption, helpOption
<1> QED
  BY <1>1, OptionFields DEF serverOption, clientOption, portOption, rttOption,
     bandwidthOption, intervalOption, timeOption, helpOption

LEMMA LongNamesDiffer ==
  ASSUME NEW o \in options, NEW p \in options, o.long = p.long
  PROVE  o = p
BY OptionsAre

-----------------------------------------------------------------------------
(* The compaction.  The words kept are fewer than the words read, so a word *)
(* is written where one was read.                                           *)

CommandTypes ==
  /\ argv \in Seq(Words) /\ given \in Seq(Words) /\ Len(argv) = Len(given)
  /\ current \in Nat \ {0} /\ nextKeep \in Nat \ {0}
  /\ clPc = "start" => argv = given /\ current = 1 /\ nextKeep = 1

\* What a word with options does: nothing, or its texts are taken from argv.
LEMMA WordParsed ==
  ASSUME CommandTypes, ParseCluster \/ ParseLong
  PROVE  /\ clPc = "parse"
         /\ Usage \/ \E pairs \in Seq(options \X Texts), width \in {1, 2} :
                       ParseOptions(pairs, width)
<1>1. clPc = "parse" /\ Word \in Words /\ Word = argv[current]
  <2>1. clPc = "parse" /\ current <= Len(argv)
    BY DEF ParseCluster, ParseLong, Reading
  <2>2. argv[current] \in Words
    BY <2>1 DEF CommandTypes
  <2> QED
    BY <2>1, <2>2 DEF Word
<1>2. ASSUME NEW o \in options, ~MissesArgument(o) PROVE ArgumentOf(o) \in Texts
  <2>1. CASE TakesWord(o)
    <3>1. current + 1 \in 1 .. Len(argv)
      BY <1>2, <2>1 DEF MissesArgument, CommandTypes
    <3>2. argv[current + 1] \in Words
      BY <3>1 DEF CommandTypes
    <3> QED
      BY <2>1, <3>2, TextsAre DEF ArgumentOf
  <2>2. CASE ~TakesWord(o)
    <3>1. ArgumentOf(o) \in o.implicit
      BY <2>2 DEF ArgumentOf, TakesWord
    <3> QED
      BY <3>1, TextsAre
  <2> QED
    BY <2>1, <2>2
<1>3. CASE ParseCluster
  <2> DEFINE found == [i \in DOMAIN Word.names |-> Find(Word.names[i])]
             opt(i) == CHOOSE o \in found[i] : TRUE
             last == Len(Word.names)
             pairs == [i \in 1 .. last |-> <<opt(i), ArgumentOf(opt(i))>>]
             wrong == \/ \E i \in 1 .. last : found[i] = {} \/ (i < last /\ TakesWord(opt(i)))
                      \/ MissesArgument(opt(last))
             width == IF TakesWord(opt(last)) THEN 2 ELSE 1
  <2>1. IF wrong THEN Usage ELSE ParseOptions(pairs, width)
    BY <1>3 DEF ParseCluster
  <2>2. Word.names \in Seq(STRING) /\ last \in Nat /\ DOMAIN Word.names = 1 .. last
    BY <1>1, CommandLineAssumption
  <2>3. ASSUME ~wrong, NEW i \in 1 .. last PROVE opt(i) \in options
    BY <2>2, <2>3 DEF Find
  <2>4. ASSUME ~wrong, NEW i \in 1 .. last PROVE ~MissesArgument(opt(i))
    <3>1. CASE i = last
      BY <2>4, <3>1
    <3>2. CASE i < last
      BY <2>4, <3>2 DEF MissesArgument
    <3> QED
      BY <2>2, <3>1, <3>2
  <2>5. ASSUME ~wrong PROVE pairs \in Seq(options \X Texts)
    <3> HIDE DEF opt, wrong, last
    <3>1. \A i \in 1 .. last : <<opt(i), ArgumentOf(opt(i))>> \in options \X Texts
      BY <1>2, <2>3, <2>4, <2>5
    <3> QED
      BY <2>2, <3>1
  <2>6. width \in {1, 2}
    OBVIOUS
  <2> HIDE DEF wrong, pairs, width
  <2> QED
    BY <1>1, <2>1, <2>5, <2>6
<1>4. CASE ParseLong
  <2> DEFINE found == Find(Word.names[1])
             o == CHOOSE o \in found : TRUE
             t == CHOOSE t \in Word.eq : TRUE
  <2>1. CASE found = {}
    BY <1>1, <1>4, <2>1 DEF ParseLong
  <2>2. CASE found # {} /\ Word.eq # {}
    <3>1. o \in options /\ t \in Texts
      BY <1>1, <2>2, TextsAre DEF Find
    <3>2. ParseOptions(<<<<o, t>>>>, 1)
      BY <1>4, <2>2 DEF ParseLong
    <3> HIDE DEF o, t
    <3>3. <<<<o, t>>>> \in Seq(options \X Texts)
      BY <3>1
    <3> QED
      BY <1>1, <3>2, <3>3
  <2>3. CASE found # {} /\ Word.eq = {} /\ MissesArgument(o)
    BY <1>1, <1>4, <2>3 DEF ParseLong
  <2>4. CASE found # {} /\ Word.eq = {} /\ ~MissesArgument(o)
    <3> DEFINE width == IF TakesWord(o) THEN 2 ELSE 1
    <3>1. ParseOptions(<<<<o, ArgumentOf(o)>>>>, width)
      BY <1>4, <2>4 DEF ParseLong
    <3>2. o \in options /\ width \in {1, 2}
      BY <2>4 DEF Find
    <3>3. ArgumentOf(o) \in Texts
      BY <1>2, <2>4, <3>2
    <3> HIDE DEF o, width
    <3>4. <<<<o, ArgumentOf(o)>>>> \in Seq(options \X Texts)
      BY <3>2, <3>3
    <3> QED
      BY <1>1, <3>1, <3>2, <3>4
  <2> QED
    BY <2>1, <2>2, <2>3, <2>4
<1> QED
  BY <1>3, <1>4

Compaction == CommandTypes /\ CompactionKeepsUnread

\* A sequence with one element replaced.
LEMMA OneReplaced ==
  ASSUME NEW S, NEW q \in Seq(S), NEW k \in 1 .. Len(q), NEW x \in S,
         NEW r, r = [q EXCEPT ![k] = x]
  PROVE  /\ r \in Seq(S) /\ Len(r) = Len(q) /\ r[k] = x
         /\ \A i \in 1 .. Len(q) : i # k => r[i] = q[i]
<1>1. r \in [1 .. Len(q) -> S]
  OBVIOUS
<1>2. Len(q) \in Nat
  OBVIOUS
<1> QED
  BY <1>1, <1>2

\* The places the words kept come from, and one more at the end.
LEMMA OneMorePlace ==
  ASSUME NEW n \in Nat \ {0}, NEW m \in Nat \ {0}, NEW from \in [1 .. n - 1 -> 1 .. m - 1],
         \A i, j \in DOMAIN from : i < j => from[i] < from[j],
         NEW more, more = [i \in 1 .. n |-> IF i = n THEN m ELSE from[i]]
  PROVE  /\ more \in [1 .. n -> 1 .. m]
         /\ \A i, j \in DOMAIN more : i < j => more[i] < more[j]
<1>1. \A i \in 1 .. n : i # n => i \in 1 .. n - 1 /\ from[i] \in Int /\ from[i] <= m - 1
                                /\ 1 <= from[i]
  OBVIOUS
<1>2. more \in [1 .. n -> 1 .. m]
  BY <1>1
<1>3. ASSUME NEW i \in 1 .. n, NEW j \in 1 .. n, i < j PROVE more[i] < more[j]
  <2>1. i # n
    BY <1>3
  <2>2. CASE j = n
    BY <1>1, <2>1, <2>2
  <2>3. CASE j # n
    BY <1>1, <1>3, <2>1, <2>3
  <2> QED
    BY <2>2, <2>3
<1> QED
  BY <1>2, <1>3

\* A word is kept: it comes from where current stands.
LEMMA WordKept ==
  ASSUME Compaction, KeepWord, current <= Len(argv), clPc # "start", clPc' # "start"
  PROVE  Compaction'
<1>1. /\ argv \in Seq(Words) /\ given \in Seq(Words) /\ Len(argv) = Len(given)
      /\ current \in Nat \ {0} /\ nextKeep \in Nat \ {0} /\ nextKeep <= current
      /\ \A i \in current .. Len(given) : argv[i] = given[i]
  BY DEF Compaction, CommandTypes, CompactionKeepsUnread
<1>2. PICK from \in [1 .. nextKeep - 1 -> 1 .. current - 1] :
        /\ \A i, j \in DOMAIN from : i < j => from[i] < from[j]
        /\ \A i \in DOMAIN from : argv[i] = given[from[i]]
  BY DEF Compaction, CompactionKeepsUnread
<1>3. /\ argv' = [argv EXCEPT ![nextKeep] = argv[current]] /\ given' = given
      /\ nextKeep' = nextKeep + 1 /\ current' = current + 1
  BY DEF KeepWord
<1>4. /\ nextKeep \in 1 .. Len(argv) /\ current \in 1 .. Len(argv) /\ argv[current] \in Words
      /\ argv[current] = given[current]
  BY <1>1
<1>5. /\ argv' \in Seq(Words) /\ Len(argv') = Len(argv) /\ argv'[nextKeep] = argv[current]
      /\ \A i \in 1 .. Len(argv) : i # nextKeep => argv'[i] = argv[i]
  BY <1>1, <1>3, <1>4, OneReplaced
<1>12. /\ current \in Nat /\ nextKeep \in Nat /\ current + 1 \in Nat \ {0}
       /\ nextKeep + 1 \in Nat \ {0} /\ (nextKeep + 1) - 1 = nextKeep
       /\ (current + 1) - 1 = current
  BY <1>1
<1>6. CommandTypes'
  <2>1. argv' \in Seq(Words) /\ given' \in Seq(Words) /\ Len(argv') = Len(given')
    BY <1>1, <1>3, <1>5
  <2>2. current' \in Nat \ {0} /\ nextKeep' \in Nat \ {0}
    BY <1>3, <1>12
  <2> QED
    BY <2>1, <2>2 DEF CommandTypes
<1>7. ASSUME NEW i \in current' .. Len(given') PROVE argv'[i] = given'[i]
  <2>1. i \in current .. Len(given) /\ i \in 1 .. Len(argv) /\ i # nextKeep
    BY <1>1, <1>3
  <2> QED
    BY <1>1, <1>3, <1>5, <2>1
<1> DEFINE more == [i \in 1 .. nextKeep |-> IF i = nextKeep THEN current ELSE from[i]]
<1>8. /\ more \in [1 .. nextKeep -> 1 .. current]
      /\ \A i, j \in DOMAIN more : i < j => more[i] < more[j]
  <2> HIDE DEF more
  <2>2. current \in Nat \ {0} /\ nextKeep \in Nat \ {0}
    BY <1>1
  <2>1. more = [i \in 1 .. nextKeep |-> IF i = nextKeep THEN current ELSE from[i]]
    BY DEF more
  <2> QED
    BY <1>2, <1>12, <2>1, <2>2, OneMorePlace
<1>9. nextKeep' - 1 = nextKeep /\ current' - 1 = current
  BY <1>3, <1>12
<1>10. ASSUME NEW i \in 1 .. nextKeep PROVE argv'[i] = given'[more[i]]
  <2>1. CASE i = nextKeep
    BY <1>3, <1>4, <1>5, <2>1
  <2>2. CASE i # nextKeep
    <3>1. i \in 1 .. nextKeep - 1 /\ i \in 1 .. Len(argv) /\ more[i] = from[i]
      BY <1>1, <1>4, <2>2
    <3> QED
      BY <1>2, <1>3, <1>5, <2>2, <3>1
  <2> QED
    BY <2>1, <2>2
<1> HIDE DEF more
<1>11. CompactionKeepsUnread'
  <2>1. nextKeep' <= current'
    BY <1>1, <1>3
  <2>2. /\ more \in [1 .. nextKeep' - 1 -> 1 .. current' - 1]
        /\ \A i \in DOMAIN more : argv'[i] = given'[more[i]]
    BY <1>8, <1>9, <1>10
  <2> QED
    BY <1>7, <1>8, <2>1, <2>2 DEF CompactionKeepsUnread
<1> QED
  BY <1>6, <1>11 DEF Compaction

\* argv is read on, and nothing moved.
LEMMA WordsRead ==
  ASSUME Compaction, NEW width \in Nat, current' = current + width,
         UNCHANGED <<argv, nextKeep, given>>, clPc' # "start"
  PROVE  Compaction'
<1>1. /\ argv \in Seq(Words) /\ given \in Seq(Words) /\ Len(argv) = Len(given)
      /\ current \in Nat \ {0} /\ nextKeep \in Nat \ {0} /\ nextKeep <= current
      /\ \A i \in current .. Len(given) : argv[i] = given[i]
  BY DEF Compaction, CommandTypes, CompactionKeepsUnread
<1>2. PICK from \in [1 .. nextKeep - 1 -> 1 .. current - 1] :
        /\ \A i, j \in DOMAIN from : i < j => from[i] < from[j]
        /\ \A i \in DOMAIN from : argv[i] = given[from[i]]
  BY DEF Compaction, CompactionKeepsUnread
<1>3. CommandTypes'
  BY <1>1 DEF CommandTypes
<1>4. from \in [1 .. nextKeep' - 1 -> 1 .. current' - 1]
  BY <1>1, <1>2
<1>5. nextKeep' <= current' /\ \A i \in current' .. Len(given') : argv'[i] = given'[i]
  BY <1>1
<1>6. CompactionKeepsUnread'
  BY <1>2, <1>4, <1>5 DEF CompactionKeepsUnread
<1> QED
  BY <1>3, <1>6 DEF Compaction

\* Where nothing was kept there is nothing to come from.
LEMMA NothingKept ==
  ASSUME argv \in Seq(Words), given = argv, current = 1, nextKeep = 1
  PROVE  Compaction
<1>1. CommandTypes
  BY DEF CommandTypes
<1>2. << >> \in [1 .. nextKeep - 1 -> 1 .. current - 1] /\ DOMAIN << >> = {}
  <2>1. 1 .. nextKeep - 1 = {} /\ DOMAIN << >> = {}
    OBVIOUS
  <2>2. << >> = [i \in {} |-> 0]
    OBVIOUS
  <2> QED
    BY <2>1, <2>2
<1>3. \E from \in [1 .. nextKeep - 1 -> 1 .. current - 1] : DOMAIN from = {}
  BY <1>2
<1>4. CompactionKeepsUnread
  <2>1. \A i \in current .. Len(given) : argv[i] = given[i]
    OBVIOUS
  <2>2. nextKeep <= current
    OBVIOUS
  <2> QED
    BY <1>3, <2>1, <2>2 DEF CompactionKeepsUnread
<1> QED
  BY <1>1, <1>4 DEF Compaction

LEMMA CompactionMoves ==
  ASSUME Compaction, [Next]_vars
  PROVE  Compaction'
<1>1. CASE GiveWord
  <2>1. PICK w \in Words : given' = Append(given, w) /\ argv' = Append(argv, w)
    BY <1>1 DEF GiveWord
  <2>2. argv = given /\ argv \in Seq(Words) /\ current' = 1 /\ nextKeep' = 1
    BY <1>1 DEF GiveWord, Compaction, CommandTypes
  <2>3. argv' \in Seq(Words) /\ given' = argv'
    BY <2>1, <2>2
  <2>4. (argv \in Seq(Words) /\ given = argv /\ current = 1 /\ nextKeep = 1 => Compaction)'
    BY NothingKept, PTL
  <2> QED
    BY <2>2, <2>3, <2>4
<1>2. CASE ForgetCommandLine
  <2>1. argv' \in Seq(Words) /\ given' = argv' /\ current' = 1 /\ nextKeep' = 1
    BY <1>2 DEF ForgetCommandLine
  <2>2. (argv \in Seq(Words) /\ given = argv /\ current = 1 /\ nextKeep = 1 => Compaction)'
    BY NothingKept, PTL
  <2> QED
    BY <2>1, <2>2
<1>3. CASE ParseCluster \/ ParseLong
  <2>0. clPc = "parse"
    BY <1>3, WordParsed DEF Compaction
  <2>1. CASE Usage
    BY <2>0, <2>1, WordsRead, current + 0 = current DEF Usage, Compaction, CommandTypes
  <2>2. ASSUME NEW pairs, NEW width \in {1, 2}, ParseOptions(pairs, width), ~Usage
        PROVE  Compaction'
    <3>1. current' = current + width /\ UNCHANGED <<argv, nextKeep, clPc, given>>
      BY <2>2 DEF ParseOptions
    <3> QED
      BY <2>0, <3>1, WordsRead
  <2> QED
    BY <1>3, <2>1, <2>2, WordParsed DEF Compaction
<1>4. CASE StartProcess \/ ParseBadSyntax \/ ParseEnd \/ ParseDefaults
  <2>1. current' = current + 0 /\ UNCHANGED <<argv, nextKeep, given>> /\ clPc' # "start"
    BY <1>4 DEF StartProcess, ParseBadSyntax, Usage, ParseEnd, ParseDefaults, Compaction,
       CommandTypes
  <2> QED
    BY <2>1, WordsRead
<1>5. CASE ParseDashes
  BY <1>5, WordsRead DEF ParseDashes
<1>6. CASE ParsePlain
  BY <1>6, WordKept DEF ParsePlain, Reading, KeepWord
<1>7. CASE ParseRest
  <2>1. CASE current <= Len(argv)
    BY <1>7, <2>1, WordKept DEF ParseRest, KeepWord
  <2>2. CASE ~(current <= Len(argv))
    <3>1. current' = current + 0 /\ UNCHANGED <<argv, nextKeep, given>> /\ clPc' # "start"
      BY <1>7, <2>2 DEF ParseRest, Compaction, CommandTypes
    <3> QED
      BY <3>1, WordsRead
  <2> QED
    BY <2>1, <2>2
<1>8. CASE UNCHANGED clVars
  BY <1>8 DEF clVars, Compaction, CommandTypes, CompactionKeepsUnread
<1> QED
  BY <1>1, <1>2, <1>3, <1>4, <1>5, <1>6, <1>7, <1>8, CommandLineAlone DEF CommandLineStep

\* For command lines of any length and any words: the words kept overwrite
\* only words already read, and are words of the command line in its order.
THEOREM CompactionIsSafe == Spec => []CompactionKeepsUnread
<1>1. Init => Compaction
  BY NothingKept DEF Init, ProgramInit, CommandLineInit
<1>2. Compaction => CompactionKeepsUnread
  BY DEF Compaction
<1> QED
  BY <1>1, <1>2, CompactionMoves, PTL DEF Spec

-----------------------------------------------------------------------------
(* The results.  What parse_option leaves in m_results is compared with the *)
(* texts an option came with: their number and the last of them.            *)

Entries == [count : Nat, value : SUBSET Texts]
ResultMaps == UNION {[d -> Entries] : d \in SUBSET LongNames}
Occurrences == LongNames \X Texts
Givens == Seq(Occurrences)

LEMMA ResultStored ==
  ASSUME NEW res \in ResultMaps, NEW o \in options, NEW text \in Texts
  PROVE  /\ ParseOption(res, o, text) \in ResultMaps
         /\ ResultOf(res, o) \in Entries
         /\ ResultOf(ParseOption(res, o, text), o) =
              [count |-> ResultOf(res, o).count + 1, value |-> {text}]
         /\ \A p \in options : p # o =>
              ResultOf(ParseOption(res, o, text), p) = ResultOf(res, p)
<1>1. PICK d \in SUBSET LongNames : res \in [d -> Entries]
  BY DEF ResultMaps
<1>2. ResultOf(res, o) \in Entries
  <2>1. [count |-> 0, value |-> {}] \in Entries
    BY DEF Entries
  <2> QED
    BY <1>1, <2>1 DEF ResultOf
<1> DEFINE r == [count |-> ResultOf(res, o).count + 1, value |-> {text}]
           more == [l \in d \cup {o.long} |-> IF l = o.long THEN r ELSE res[l]]
<1>3. r \in Entries
  BY <1>2 DEF Entries
<1>4. ParseOption(res, o, text) = more
  BY <1>1 DEF ParseOption, StoreResult
<1> HIDE DEF r
<1>5. more \in [d \cup {o.long} -> Entries] /\ d \cup {o.long} \in SUBSET LongNames
  BY <1>1, <1>3 DEF LongNames
<1>6. more \in ResultMaps
  <2> HIDE DEF more
  <2> QED
    BY <1>5 DEF ResultMaps
<1>7. ResultOf(more, o) = r
  BY DEF ResultOf
<1>8. ASSUME NEW p \in options, p # o PROVE ResultOf(more, p) = ResultOf(res, p)
  <2>1. p.long # o.long
    BY <1>8, LongNamesDiffer
  <2> QED
    BY <1>1, <2>1 DEF ResultOf
<1> HIDE DEF more
<1> QED
  BY <1>2, <1>4, <1>6, <1>7, <1>8 DEF r

\* The texts of an option, with one more occurrence of some option.
WithText(texts, p, long) == IF p[1] = long THEN Append(texts, p[2]) ELSE texts

\* What TextsGiven has taken after the first k occurrences.
TakesTexts(pairs, long, f) ==
  /\ f[0] = <<>>
  /\ \A k \in 1 .. Len(pairs) : f[k] = WithText(f[k - 1], pairs[k], long)

LEMMA TextsFold ==
  ASSUME NEW pairs \in Givens, NEW long
  PROVE  \E f \in [0 .. Len(pairs) -> Seq(Texts)] :
           TakesTexts(pairs, long, f) /\ TextsGiven(pairs, long) = f[Len(pairs)]
<1> DEFINE n == Len(pairs)
           T == Seq(Texts)
           nothing == <<>>
           step == [k \in 1 .. n |-> [texts \in T |-> WithText(texts, pairs[k], long)]]
           Folds(g) == g = [t \in SUBSET DOMAIN pairs |->
                              IF t = {} THEN <<>> ELSE WithText(g[t \ {Max(t)}], pairs[Max(t)], long)]
           fold == CHOOSE g : Folds(g)
<1>1. TextsGiven(pairs, long) = fold[DOMAIN pairs]
  BY DEF TextsGiven, FoldLeft, MapThenFoldSet, WithText
<1>2. ASSUME NEW texts \in T, NEW k \in 1 .. n PROVE WithText(texts, pairs[k], long) \in T
  <2>1. pairs[k] \in Occurrences
    BY DEF Givens
  <2>2. pairs[k][2] \in Texts
    BY <2>1 DEF Occurrences
  <2> QED
    BY <2>2 DEF WithText
<1>3. step \in [1 .. n -> [T -> T]]
  BY <1>2
<1>4. nothing \in T /\ n \in Nat /\ DOMAIN pairs = 1 .. n
  OBVIOUS
<1>5. PICK g \in [SUBSET (1 .. n) -> T] : FoldsUp(n, nothing, step, g)
  <2> HIDE DEF step, n, T, nothing
  <2> QED
    BY <1>3, <1>4, FoldExists
<1>6. Folds(g)
  <2>1. ASSUME NEW t \in SUBSET (1 .. n), t # {}
        PROVE  g[t] = WithText(g[t \ {Max(t)}], pairs[Max(t)], long)
    <3>1. Max(t) \in 1 .. n /\ t \ {Max(t)} \in SUBSET (1 .. n)
      BY <1>4, <2>1, LargestIndex
    <3> QED
      BY <1>5, <2>1, <3>1 DEF FoldsUp
  <2> QED
    BY <1>4, <1>5, <2>1 DEF FoldsUp
<1>7. Folds(fold)
  <2> HIDE DEF Folds
  <2> QED
    BY <1>6
<1> HIDE DEF fold
<1>8. FoldsWithin(n, T, nothing, step, fold)
  <2>1. ASSUME NEW t \in SUBSET (1 .. n), t # {}, fold[t \ {Max(t)}] \in T
        PROVE  fold[t] = step[Max(t)][fold[t \ {Max(t)}]]
    <3>1. Max(t) \in 1 .. n
      BY <1>4, <2>1, LargestIndex
    <3> QED
      BY <1>4, <1>7, <2>1, <3>1
  <2>2. fold[{}] = nothing
    BY <1>7
  <2> QED
    BY <2>1, <2>2 DEF FoldsWithin
<1>9. PICK f \in [0 .. n -> T] : RunsThrough(n, nothing, step, f) /\ fold[1 .. n] = f[n]
  <2> HIDE DEF step, n, T, nothing
  <2>1. RunsTo(n, T, nothing, step, fold)
    BY <1>3, <1>4, <1>8, FoldRuns
  <2> QED
    BY <2>1 DEF RunsTo
<1>10. ASSUME NEW k \in 1 .. n PROVE f[k] = WithText(f[k - 1], pairs[k], long)
  <2>1. f[k - 1] \in T
    BY <1>4
  <2> QED
    BY <1>9, <2>1 DEF RunsThrough
<1>11. TakesTexts(pairs, long, f)
  BY <1>9, <1>10 DEF RunsThrough, TakesTexts
<1> QED
  BY <1>1, <1>4, <1>9, <1>11

LEMMA TextsTyped ==
  ASSUME NEW pairs \in Givens, NEW long
  PROVE  TextsGiven(pairs, long) \in Seq(Texts)
<1>1. PICK f \in [0 .. Len(pairs) -> Seq(Texts)] : TextsGiven(pairs, long) = f[Len(pairs)]
  BY TextsFold
<1>2. Len(pairs) \in 0 .. Len(pairs)
  BY DEF Givens
<1> QED
  BY <1>1, <1>2

LEMMA TextsAppended ==
  ASSUME NEW pairs \in Givens, NEW more \in Givens, NEW long,
         Len(more) = Len(pairs) + 1, \A i \in 1 .. Len(pairs) : more[i] = pairs[i]
  PROVE  /\ TextsGiven(pairs, long) \in Seq(Texts)
         /\ TextsGiven(more, long) = WithText(TextsGiven(pairs, long), more[Len(more)], long)
<1> DEFINE n == Len(pairs)
<1>1. PICK f \in [0 .. n -> Seq(Texts)] :
        TakesTexts(pairs, long, f) /\ TextsGiven(pairs, long) = f[n]
  BY TextsFold
<1>2. PICK g \in [0 .. n + 1 -> Seq(Texts)] :
        TakesTexts(more, long, g) /\ TextsGiven(more, long) = g[n + 1]
  BY TextsFold
<1> DEFINE S == {k \in Nat : k <= n => g[k] = f[k]}
<1>3. 0 \in S
  BY <1>1, <1>2 DEF TakesTexts
<1>4. ASSUME NEW k \in Nat, k \in S PROVE k + 1 \in S
  <2>1. SUFFICES ASSUME k + 1 <= n PROVE g[k + 1] = f[k + 1]
    OBVIOUS
  <2>2. k + 1 \in 1 .. n /\ k + 1 \in 1 .. n + 1 /\ (k + 1) - 1 = k
    BY <2>1
  <2>3. /\ f[k + 1] = WithText(f[k], pairs[k + 1], long)
        /\ g[k + 1] = WithText(g[k], more[k + 1], long)
    BY <1>1, <1>2, <2>2 DEF TakesTexts
  <2> QED
    BY <1>4, <2>1, <2>2, <2>3
<1>5. n \in Nat
  BY DEF Givens
<1>6. g[n] = f[n]
  <2> HIDE DEF S
  <2>1. n \in S
    BY <1>3, <1>4, <1>5, SetInduction
  <2> QED
    BY <2>1 DEF S
<1>7. g[n + 1] = WithText(g[n], more[n + 1], long)
  <2>1. n + 1 \in 1 .. n + 1 /\ (n + 1) - 1 = n
    BY <1>5
  <2> QED
    BY <1>2, <2>1 DEF TakesTexts
<1> QED
  BY <1>1, <1>2, <1>5, <1>6, <1>7

\* What ParseOptions makes of m_results after the first k of its options.
ParsesPairs(pairs, res, f) ==
  /\ f[0] = res
  /\ \A k \in 1 .. Len(pairs) : f[k] = ParseOption(f[k - 1], pairs[k][1], pairs[k][2])

LEMMA ResultsFold ==
  ASSUME NEW pairs \in Seq(options \X Texts), NEW res \in ResultMaps
  PROVE  \E f \in [0 .. Len(pairs) -> ResultMaps] :
           /\ ParsesPairs(pairs, res, f)
           /\ ParseEach(res, pairs) = f[Len(pairs)]
<1> DEFINE n == Len(pairs)
           T == ResultMaps
           nothing == res
           step == [k \in 1 .. n |-> [r \in T |-> ParseOption(r, pairs[k][1], pairs[k][2])]]
           Folds(g) == g = [t \in SUBSET DOMAIN pairs |->
                              IF t = {} THEN res ELSE ParseOption(g[t \ {Max(t)}], pairs[Max(t)][1], pairs[Max(t)][2])]
           fold == CHOOSE g : Folds(g)
<1>1. ParseEach(res, pairs) = fold[DOMAIN pairs]
  BY DEF ParseEach, FoldLeft, MapThenFoldSet
<1>2. ASSUME NEW r \in T, NEW k \in 1 .. n PROVE ParseOption(r, pairs[k][1], pairs[k][2]) \in T
  <2>1. pairs[k][1] \in options /\ pairs[k][2] \in Texts
    OBVIOUS
  <2> QED
    BY <2>1, ResultStored
<1>3. step \in [1 .. n -> [T -> T]]
  BY <1>2
<1>4. nothing \in T /\ n \in Nat /\ DOMAIN pairs = 1 .. n
  OBVIOUS
<1>5. PICK g \in [SUBSET (1 .. n) -> T] : FoldsUp(n, nothing, step, g)
  <2> HIDE DEF step, n, T, nothing
  <2> QED
    BY <1>3, <1>4, FoldExists
<1>6. Folds(g)
  <2>1. ASSUME NEW t \in SUBSET (1 .. n), t # {}
        PROVE  g[t] = ParseOption(g[t \ {Max(t)}], pairs[Max(t)][1], pairs[Max(t)][2])
    <3>1. Max(t) \in 1 .. n /\ t \ {Max(t)} \in SUBSET (1 .. n)
      BY <1>4, <2>1, LargestIndex
    <3> QED
      BY <1>5, <2>1, <3>1 DEF FoldsUp
  <2> QED
    BY <1>4, <1>5, <2>1 DEF FoldsUp
<1>7. Folds(fold)
  <2> HIDE DEF Folds
  <2> QED
    BY <1>6
<1> HIDE DEF fold
<1>8. FoldsWithin(n, T, nothing, step, fold)
  <2>1. ASSUME NEW t \in SUBSET (1 .. n), t # {}, fold[t \ {Max(t)}] \in T
        PROVE  fold[t] = step[Max(t)][fold[t \ {Max(t)}]]
    <3>1. Max(t) \in 1 .. n
      BY <1>4, <2>1, LargestIndex
    <3> QED
      BY <1>4, <1>7, <2>1, <3>1
  <2>2. fold[{}] = nothing
    BY <1>7
  <2> QED
    BY <2>1, <2>2 DEF FoldsWithin
<1>9. PICK f \in [0 .. n -> T] : RunsThrough(n, nothing, step, f) /\ fold[1 .. n] = f[n]
  <2> HIDE DEF step, n, T, nothing
  <2>1. RunsTo(n, T, nothing, step, fold)
    BY <1>3, <1>4, <1>8, FoldRuns
  <2> QED
    BY <2>1 DEF RunsTo
<1>10. ASSUME NEW k \in 1 .. n PROVE f[k] = ParseOption(f[k - 1], pairs[k][1], pairs[k][2])
  <2> HIDE DEF T
  <2>1. k - 1 \in 0 .. n
    BY <1>4
  <2>2. f[k - 1] \in T
    BY <2>1
  <2> USE DEF T
  <2> QED
    BY <1>9, <2>2 DEF RunsThrough
<1>11. ParsesPairs(pairs, res, f)
  BY <1>9, <1>10 DEF RunsThrough, ParsesPairs
<1> QED
  BY <1>1, <1>4, <1>9, <1>11

\* An entry says how often its option came, and what came last.
EntryOf(texts) ==
  [count |-> Len(texts), value |-> IF texts = <<>> THEN {} ELSE {Last(texts)}]

AgreesWith(res, pairs) ==
  \A o \in options : ResultOf(res, o) = EntryOf(TextsGiven(pairs, o.long))

ValuesParse(res) == \A o \in options : \A t \in ResultOf(res, o).value : Parses(o, t)

LEMMA OneOptionParsed ==
  ASSUME NEW res \in ResultMaps, NEW pairs \in Givens, AgreesWith(res, pairs), ValuesParse(res),
         NEW o \in options, NEW text \in Texts, Parses(o, text),
         NEW more \in Givens, Len(more) = Len(pairs) + 1,
         \A i \in 1 .. Len(pairs) : more[i] = pairs[i],
         more[Len(more)] = <<o.long, text>>
  PROVE  AgreesWith(ParseOption(res, o, text), more) /\ ValuesParse(ParseOption(res, o, text))
<1> DEFINE r == ParseOption(res, o, text)
<1>1. /\ ResultOf(r, o) = [count |-> ResultOf(res, o).count + 1, value |-> {text}]
      /\ \A p \in options : p # o => ResultOf(r, p) = ResultOf(res, p)
  BY ResultStored
<1> HIDE DEF r
<1>2. ASSUME NEW p \in options
      PROVE  /\ TextsGiven(pairs, p.long) \in Seq(Texts)
             /\ TextsGiven(more, p.long) =
                  IF p = o THEN Append(TextsGiven(pairs, p.long), text)
                  ELSE TextsGiven(pairs, p.long)
  <2>1. /\ TextsGiven(pairs, p.long) \in Seq(Texts)
        /\ TextsGiven(more, p.long) =
             WithText(TextsGiven(pairs, p.long), <<o.long, text>>, p.long)
    BY TextsAppended
  <2>2. o.long = p.long <=> p = o
    BY LongNamesDiffer
  <2> QED
    BY <2>1, <2>2 DEF WithText
<1>3. ResultOf(r, o) = EntryOf(TextsGiven(more, o.long))
  <2>1. PICK texts \in Seq(Texts) : texts = TextsGiven(pairs, o.long)
    BY <1>2
  <2>2. PICK longer : longer = Append(texts, text)
    OBVIOUS
  <2>3. /\ Len(longer) = Len(texts) + 1 /\ longer # <<>> /\ longer[Len(longer)] = text
    BY <2>2
  <2>4. ResultOf(res, o).count = Len(texts)
    BY <2>1 DEF AgreesWith, EntryOf
  <2>5. TextsGiven(more, o.long) = longer
    BY <1>2, <2>1, <2>2
  <2> QED
    BY <1>1, <2>3, <2>4, <2>5 DEF EntryOf, Last
<1>4. ASSUME NEW p \in options, p # o
      PROVE  ResultOf(r, p) = EntryOf(TextsGiven(more, p.long))
  BY <1>1, <1>2, <1>4 DEF AgreesWith
<1>5. AgreesWith(r, more)
  BY <1>3, <1>4 DEF AgreesWith
<1>6. ValuesParse(r)
  BY <1>1 DEF ValuesParse
<1> QED
  BY <1>5, <1>6 DEF r

LEMMA BothInOne ==
  ASSUME NEW S, NEW q \in Seq(S), NEW r \in Seq(S), NEW j, j = q \o r, NEW n, n = Len(r)
  PROVE  /\ j \in Seq(S) /\ Len(j) = Len(q) + n
         /\ \A i \in 1 .. Len(q) + n : j[i] = IF i <= Len(q) THEN q[i] ELSE r[i - Len(q)]
OBVIOUS

LEMMA OptionsParsed ==
  ASSUME NEW res \in ResultMaps, NEW seq \in Givens, AgreesWith(res, seq), ValuesParse(res),
         NEW pairs \in Seq(options \X Texts),
         \A i \in DOMAIN pairs : Parses(pairs[i][1], pairs[i][2]),
         NEW came \in Givens, Len(came) = Len(pairs),
         \A i \in DOMAIN pairs : came[i] = <<pairs[i][1].long, pairs[i][2]>>,
         NEW all, all = seq \o came,
         NEW after, after = ParseEach(res, pairs)
  PROVE  /\ after \in ResultMaps /\ all \in Givens
         /\ AgreesWith(after, all) /\ ValuesParse(after)
<1> DEFINE n == Len(pairs)
           m == Len(seq)
           Upto(k) == [i \in 1 .. m + k |-> IF i <= m THEN seq[i] ELSE came[i - m]]
<1>1. n \in Nat /\ m \in Nat /\ DOMAIN pairs = 1 .. n
  BY DEF Givens
<1>2. ASSUME NEW i \in 1 .. n
      PROVE  /\ pairs[i][1] \in options /\ pairs[i][2] \in Texts
             /\ came[i] = <<pairs[i][1].long, pairs[i][2]>>
             /\ came[i] \in Occurrences
  <2>1. pairs[i] \in options \X Texts /\ i \in DOMAIN pairs
    BY <1>1
  <2>2. i \in 1 .. Len(came) /\ came \in Seq(Occurrences)
    BY <1>1 DEF Givens
  <2>3. came[i] \in Occurrences
    BY <2>2
  <2> QED
    BY <2>1, <2>3
<1>3. PICK f \in [0 .. n -> ResultMaps] : ParsesPairs(pairs, res, f) /\ after = f[n]
  BY ResultsFold
<1>5. ASSUME NEW k \in 0 .. n
      PROVE  /\ Upto(k) \in Givens /\ Len(Upto(k)) = m + k
             /\ \A i \in 1 .. m + k : Upto(k)[i] = IF i <= m THEN seq[i] ELSE came[i - m]
  <2>1. ASSUME NEW i \in 1 .. m + k
        PROVE  (IF i <= m THEN seq[i] ELSE came[i - m]) \in Occurrences
    <3>1. CASE i <= m
      BY <1>1, <3>1 DEF Givens
    <3>2. CASE ~(i <= m)
      <4>1. i - m \in 1 .. n
        BY <1>1, <3>2
      <4> QED
        BY <1>2, <3>2, <4>1
    <3> QED
      BY <3>1, <3>2
  <2>2. m + k \in Nat
    BY <1>1
  <2> QED
    BY <2>1, <2>2 DEF Givens
<1>6. all = Upto(n)
  <2>3. /\ all \in Seq(Occurrences) /\ Len(all) = m + n
        /\ \A i \in 1 .. m + n : all[i] = IF i <= m THEN seq[i] ELSE came[i - m]
    <3>1. seq \in Seq(Occurrences) /\ came \in Seq(Occurrences)
      BY DEF Givens
    <3>2. all \in Seq(Occurrences)
      BY <3>1
    <3>3. Len(all) = m + n
      <4>1. Len(seq \o came) = Len(seq) + Len(came)
        BY <3>1, ConcatProperties
      <4> QED
        BY <4>1
    <3>4. ASSUME NEW i \in 1 .. m + n PROVE all[i] = IF i <= m THEN seq[i] ELSE came[i - m]
      BY <3>1
    <3> QED
      BY <3>2, <3>3, <3>4
  <2>4. /\ Upto(n) \in Seq(Occurrences) /\ Len(Upto(n)) = m + n
        /\ \A i \in 1 .. m + n : Upto(n)[i] = IF i <= m THEN seq[i] ELSE came[i - m]
    BY <1>1, <1>5 DEF Givens
  <2> HIDE DEF Upto, m, n
  <2> QED
    BY <2>3, <2>4, SeqEqual
<1>7. Upto(0) = seq
  BY <1>1 DEF Givens
<1>8. ASSUME NEW k \in Nat, k + 1 <= n
      PROVE  /\ Len(Upto(k + 1)) = Len(Upto(k)) + 1
             /\ \A i \in 1 .. Len(Upto(k)) : Upto(k + 1)[i] = Upto(k)[i]
             /\ Upto(k + 1)[Len(Upto(k + 1))] = <<pairs[k + 1][1].long, pairs[k + 1][2]>>
  <2>1. k \in 0 .. n /\ k + 1 \in 0 .. n /\ k + 1 \in 1 .. n
    BY <1>1, <1>8
  <2>2. /\ Len(Upto(k)) = m + k /\ Len(Upto(k + 1)) = m + k + 1
        /\ \A i \in 1 .. m + k : Upto(k)[i] = IF i <= m THEN seq[i] ELSE came[i - m]
        /\ \A i \in 1 .. m + (k + 1) :
             Upto(k + 1)[i] = IF i <= m THEN seq[i] ELSE came[i - m]
    <3> HIDE DEF Upto
    <3> QED
      BY <1>1, <1>5, <2>1
  <2> HIDE DEF Upto
  <2>3. came[k + 1] = <<pairs[k + 1][1].long, pairs[k + 1][2]>>
    BY <1>2, <2>1
  <2>4. m + (k + 1) = m + k + 1 /\ m + k + 1 \in 1 .. m + (k + 1) /\ ~(m + k + 1 <= m)
        /\ (m + k + 1) - m = k + 1 /\ 1 .. m + k \subseteq 1 .. m + (k + 1)
    BY <1>1
  <2> QED
    BY <2>2, <2>3, <2>4
<1> DEFINE S == {k \in Nat : k <= n => AgreesWith(f[k], Upto(k)) /\ ValuesParse(f[k])}
<1> HIDE DEF Upto
<1>9. 0 \in S
  BY <1>3, <1>7 DEF ParsesPairs
<1>10. ASSUME NEW k \in Nat, k \in S PROVE k + 1 \in S
  <2>1. SUFFICES ASSUME k + 1 <= n
                 PROVE  AgreesWith(f[k + 1], Upto(k + 1)) /\ ValuesParse(f[k + 1])
    OBVIOUS
  <2>2. k \in 0 .. n /\ k + 1 \in 0 .. n /\ k + 1 \in 1 .. n /\ (k + 1) - 1 = k
    BY <1>1, <2>1
  <2>3. /\ f[k] \in ResultMaps /\ AgreesWith(f[k], Upto(k)) /\ ValuesParse(f[k])
    BY <1>10, <2>1, <2>2
  <2>4. Upto(k) \in Givens /\ Upto(k + 1) \in Givens
    BY <1>5, <2>2
  <2>5. /\ pairs[k + 1][1] \in options /\ pairs[k + 1][2] \in Texts
        /\ Parses(pairs[k + 1][1], pairs[k + 1][2])
    BY <1>1, <1>2, <2>2
  <2>6. f[k + 1] = ParseOption(f[k], pairs[k + 1][1], pairs[k + 1][2])
    BY <1>3, <2>2 DEF ParsesPairs
  <2> HIDE DEF S
  <2> QED
    BY <1>8, <2>1, <2>3, <2>4, <2>5, <2>6, OneOptionParsed
<1>11. AgreesWith(f[n], Upto(n)) /\ ValuesParse(f[n])
  <2> HIDE DEF S
  <2>1. n \in S
    BY <1>1, <1>9, <1>10, SetInduction
  <2> QED
    BY <1>1, <2>1 DEF S
<1>12. n \in 0 .. n
  BY <1>1
<1>13. after \in ResultMaps /\ all \in Givens
  BY <1>3, <1>6, <1>5, <1>12
<1> QED
  BY <1>3, <1>6, <1>11, <1>13

\* What is in the place of an option that did not come is its default.
Filled(res, pairs) ==
  /\ res \in [LongNames -> Entries]
  /\ \A o \in options :
       LET texts == TextsGiven(pairs, o.long) IN
       res[o.long] = [count |-> Len(texts),
                      value |-> IF texts = <<>> THEN o.default ELSE {Last(texts)}]
  /\ \A o \in options : \A t \in res[o.long].value : Parses(o, t)

ResultsInv ==
  /\ clPc \in {"start", "parse", "defaults"} =>
       results \in ResultMaps /\ AgreesWith(results, sequential) /\ ValuesParse(results)
  /\ clPc \in {"rest", "parsed"} => Filled(results, sequential)
  /\ clPc # "done" => sequential \in Givens

CommandInv == Compaction /\ ResultsInv

LEMMA DefaultsParse ==
  /\ \A o \in options : \A t \in o.default : Parses(o, t)
<1>1. \A b \in BOOLEAN : BoolText(b).bool # {}
  BY DEF BoolText, Text
<1>2. \A n : IntText(n).int # {}
  BY DEF IntText, Text
<1>3. /\ serverOption.type = "bool" /\ serverOption.default = {BoolText(FALSE)}
      /\ clientOption.type = "string" /\ bandwidthOption.type = "string"
      /\ rttOption.type = "bool" /\ rttOption.default = {BoolText(FALSE)}
      /\ helpOption.type = "bool" /\ helpOption.default = {BoolText(FALSE)}
  <2>1. serverOption.type = "bool" /\ serverOption.default = {BoolText(FALSE)}
    BY Zenon DEF serverOption, Option
  <2>2. clientOption.type = "string" /\ bandwidthOption.type = "string"
    BY OptionFields DEF clientOption, bandwidthOption
  <2>3. rttOption.type = "bool" /\ rttOption.default = {BoolText(FALSE)}
    BY Zenon DEF rttOption, Option
  <2>4. helpOption.type = "bool" /\ helpOption.default = {BoolText(FALSE)}
    BY Zenon DEF helpOption, Option
  <2> QED
    BY <2>1, <2>2, <2>3, <2>4
<1> SUFFICES ASSUME NEW o \in options, NEW t \in o.default PROVE Parses(o, t)
  OBVIOUS
<1>4. CASE o.type = "bool"
  <2>1. t = BoolText(FALSE)
    BY <1>3, <1>4, OptionsAre
  <2> QED
    BY <1>1, <1>4, <2>1 DEF Parses
<1>5. CASE o.type = "int"
  <2>1. \E n : t = IntText(n)
    BY <1>3, <1>5, OptionsAre
  <2> QED
    BY <1>2, <1>5, <2>1 DEF Parses
<1>6. CASE o.type = "string"
  BY <1>6 DEF Parses
<1>7. o.type \in {"bool", "int", "string"}
  BY <1>3, OptionsAre
<1> QED
  BY <1>4, <1>5, <1>6, <1>7

LEMMA DefaultsFill ==
  ASSUME results \in ResultMaps, sequential \in Givens, AgreesWith(results, sequential),
         ValuesParse(results), ParseDefaults
  PROVE  Filled(results', sequential)
<1>1. results' = [l \in LongNames |-> Entry(l, 0)]
  BY DEF ParseDefaults, LongNames
<1>2. ASSUME NEW o \in options
      PROVE  results'[o.long] =
               IF ResultOf(results, o).count = 0 THEN [count |-> 0, value |-> o.default]
               ELSE ResultOf(results, o)
  <2>1. (CHOOSE p \in options : p.long = o.long) = o
    BY LongNamesDiffer
  <2>2. ResultOf(results, o).count # 0 => ResultOf(results, o) = results[o.long]
    BY DEF ResultOf
  <2>3. o.long \in LongNames
    BY DEF LongNames
  <2> QED
    BY <1>1, <2>1, <2>2, <2>3 DEF Entry
<1>3. ASSUME NEW o \in options
      PROVE  LET texts == TextsGiven(sequential, o.long) IN
             /\ results'[o.long] = [count |-> Len(texts),
                                   value |-> IF texts = <<>> THEN o.default ELSE {Last(texts)}]
             /\ texts \in Seq(Texts)
  <2>1. PICK texts \in Seq(Texts) : texts = TextsGiven(sequential, o.long)
    BY TextsTyped
  <2>2. ResultOf(results, o) = EntryOf(texts)
    BY <2>1 DEF AgreesWith
  <2>3. Len(texts) = 0 <=> texts = <<>>
    OBVIOUS
  <2>4. results'[o.long] = [count |-> Len(texts),
                            value |-> IF texts = <<>> THEN o.default ELSE {Last(texts)}]
    <3>1. CASE texts = <<>>
      <4>1. ResultOf(results, o).count = 0 /\ Len(texts) = 0
        BY <2>2, <2>3, <3>1 DEF EntryOf
      <4>2. results'[o.long] = [count |-> 0, value |-> o.default]
        BY <1>2, <4>1
      <4> QED
        BY <3>1, <4>1, <4>2
    <3>2. CASE texts # <<>>
      <4>1. ResultOf(results, o) = [count |-> Len(texts), value |-> {Last(texts)}]
        BY <2>2, <3>2 DEF EntryOf
      <4>2. ResultOf(results, o).count # 0
        BY <2>3, <3>2, <4>1
      <4>3. results'[o.long] = ResultOf(results, o)
        BY <1>2, <4>2
      <4> QED
        BY <3>2, <4>1, <4>3
    <3> QED
      BY <3>1, <3>2
  <2> QED
    BY <2>1, <2>4
<1>4. ASSUME NEW o \in options PROVE results'[o.long] \in Entries
  <2>1. PICK texts \in Seq(Texts) : texts = TextsGiven(sequential, o.long)
    BY <1>3
  <2>2. results'[o.long] = [count |-> Len(texts),
                            value |-> IF texts = <<>> THEN o.default ELSE {Last(texts)}]
    BY <1>3, <2>1
  <2>3. o.default \in SUBSET Texts
    BY TextsAre
  <2>4. texts # <<>> => Last(texts) \in Texts
    BY DEF Last
  <2> QED
    BY <2>2, <2>3, <2>4 DEF Entries
<1>5. results' \in [LongNames -> Entries]
  <2>1. ASSUME NEW l \in LongNames PROVE results'[l] \in Entries
    BY <1>4 DEF LongNames
  <2> QED
    BY <1>1, <2>1
<1>6. ASSUME NEW o \in options, NEW t \in results'[o.long].value PROVE Parses(o, t)
  <2>1. CASE ResultOf(results, o).count = 0
    <3>1. results'[o.long] = [count |-> 0, value |-> o.default]
      BY <1>2, <2>1
    <3>2. t \in o.default
      BY <1>6, <3>1
    <3> QED
      BY <3>2, DefaultsParse
  <2>2. CASE ResultOf(results, o).count # 0
    <3>1. results'[o.long] = ResultOf(results, o)
      BY <1>2, <2>2
    <3>2. t \in ResultOf(results, o).value
      BY <1>6, <3>1
    <3> QED
      BY <3>2 DEF ValuesParse
  <2> QED
    BY <2>1, <2>2
<1> QED
  BY <1>3, <1>5, <1>6 DEF Filled

LEMMA WordsTyped ==
  ASSUME NEW pairs \in Seq(options \X Texts)
  PROVE  /\ [i \in DOMAIN pairs |-> <<pairs[i][1].long, pairs[i][2]>>] \in Givens
         /\ Len([i \in DOMAIN pairs |-> <<pairs[i][1].long, pairs[i][2]>>]) = Len(pairs)
<1>1. \A i \in 1 .. Len(pairs) : <<pairs[i][1].long, pairs[i][2]>> \in Occurrences
  BY DEF Occurrences, LongNames
<1>2. Len(pairs) \in Nat /\ DOMAIN pairs = 1 .. Len(pairs)
  OBVIOUS
<1> QED
  BY <1>1, <1>2 DEF Givens

LEMMA ResultsParsed ==
  ASSUME results \in ResultMaps, sequential \in Givens, AgreesWith(results, sequential),
         ValuesParse(results), NEW pairs \in Seq(options \X Texts), NEW width,
         ParseOptions(pairs, width), ~Usage
  PROVE  /\ results' \in ResultMaps /\ sequential' \in Givens
         /\ AgreesWith(results', sequential') /\ ValuesParse(results')
<1> DEFINE came == [i \in DOMAIN pairs |-> <<pairs[i][1].long, pairs[i][2]>>]
<1>1. /\ \A i \in DOMAIN pairs : Parses(pairs[i][1], pairs[i][2])
      /\ results' = ParseEach(results, pairs) /\ sequential' = sequential \o came
  BY DEF ParseOptions
<1>2. came \in Givens /\ Len(came) = Len(pairs)
  BY WordsTyped
<1>3. \A i \in DOMAIN pairs : came[i] = <<pairs[i][1].long, pairs[i][2]>>
  OBVIOUS
<1> HIDE DEF came
<1> QED
  BY <1>1, <1>2, <1>3, OptionsParsed

LEMMA ResultsMove ==
  ASSUME CommandInv, [Next]_vars
  PROVE  ResultsInv'
<1>1. CASE GiveWord \/ StartProcess \/ ParseDashes \/ ParseEnd
  <2>1. /\ results' = results /\ sequential' = sequential
        /\ clPc \in {"start", "parse"} /\ clPc' \in {"start", "parse", "defaults"}
    BY <1>1 DEF GiveWord, StartProcess, ParseDashes, ParseEnd, Reading
  <2> QED
    BY <2>1 DEF CommandInv, ResultsInv
<1>2. CASE ForgetCommandLine
  BY <1>2 DEF ForgetCommandLine, ResultsInv
<1>3. CASE Usage /\ clPc = "parse"
  BY <1>3 DEF Usage, CommandInv, ResultsInv
<1>4. CASE (ParseCluster \/ ParseLong) /\ ~Usage
  <2>1. CommandTypes
    BY DEF CommandInv, Compaction
  <2>2. clPc = "parse"
    BY <1>4, <2>1, WordParsed
  <2>3. PICK pairs \in Seq(options \X Texts), width \in {1, 2} : ParseOptions(pairs, width)
    BY <1>4, <2>1, WordParsed
  <2>4. /\ results' \in ResultMaps /\ sequential' \in Givens
        /\ AgreesWith(results', sequential') /\ ValuesParse(results')
    BY <1>4, <2>2, <2>3, ResultsParsed DEF CommandInv, ResultsInv
  <2>5. clPc' = "parse"
    BY <1>4, <2>2, <2>3 DEF ParseOptions
  <2> QED
    BY <2>4, <2>5 DEF ResultsInv
<1>5. CASE ParseBadSyntax
  BY <1>3, <1>5 DEF ParseBadSyntax, Reading
<1>6. CASE ParsePlain \/ ParseRest
  BY <1>6 DEF ParsePlain, ParseRest, Reading, KeepWord, CommandInv, ResultsInv
<1>7. CASE ParseDefaults
  <2>1. Filled(results', sequential) /\ clPc' = "rest" /\ sequential' = sequential
    BY <1>7, DefaultsFill DEF ParseDefaults, CommandInv, ResultsInv
  <2>2. sequential \in Givens
    BY <1>7 DEF ParseDefaults, CommandInv, ResultsInv
  <2> QED
    BY <2>1, <2>2 DEF ResultsInv
<1>8. CASE UNCHANGED clVars
  BY <1>8 DEF clVars, CommandInv, ResultsInv
<1>9. ASSUME ParseCluster \/ ParseLong PROVE clPc = "parse"
  BY <1>9 DEF ParseCluster, ParseLong, Reading
<1> QED
  BY <1>1, <1>2, <1>3, <1>4, <1>5, <1>6, <1>7, <1>8, <1>9, CommandLineAlone
     DEF CommandLineStep

LEMMA CommandStarts == Init => CommandInv
<1> SUFFICES ASSUME Init PROVE CommandInv
  OBVIOUS
<1>1. CommandLineInit
  BY DEF Init, ProgramInit
<1>2. Compaction
  BY <1>1, NothingKept DEF CommandLineInit
<1>3. results \in ResultMaps
  <2>1. results \in [{} -> Entries]
    BY <1>1 DEF CommandLineInit
  <2> QED
    BY <2>1 DEF ResultMaps
<1>4. \A o \in options : ResultOf(results, o) = [count |-> 0, value |-> {}]
  BY <1>1 DEF CommandLineInit, ResultOf
<1>5. sequential \in Givens /\ Len(sequential) = 0
  BY <1>1 DEF CommandLineInit, Givens
<1>6. \A o \in options : TextsGiven(sequential, o.long) = <<>>
  BY <1>5, TextsFold DEF TakesTexts
<1>7. AgreesWith(results, sequential) /\ ValuesParse(results)
  BY <1>4, <1>6 DEF AgreesWith, EntryOf, ValuesParse
<1> QED
  BY <1>1, <1>2, <1>3, <1>5, <1>7 DEF CommandInv, ResultsInv, CommandLineInit

LEMMA CommandInvariant == Spec => []CommandInv
<1>1. CommandInv /\ [Next]_vars => CommandInv'
  BY CompactionMoves, ResultsMove DEF CommandInv
<1> QED
  BY <1>1, CommandStarts, PTL DEF Spec

\* For command lines of any length and any words: what main asks of an option
\* is there, counts how often it was given, and is what it was given last.
THEOREM LastTextIsUsed == Spec => []LastTextWins
<1> SUFFICES ASSUME CommandInv PROVE LastTextWins
  BY CommandInvariant, PTL
<1> SUFFICES ASSUME clPc = "parsed", NEW o \in options
             PROVE  LET texts == TextsGiven(sequential, o.long) IN
                    /\ HasEntry(o.short) /\ HasEntry(o.long)
                    /\ Count(o.long) = Len(texts)
                    /\ results[o.long].value = IF texts = <<>> THEN o.default ELSE {Last(texts)}
  BY DEF LastTextWins
<1>1. Filled(results, sequential)
  BY DEF CommandInv, ResultsInv
<1>2. HasEntry(o.short) /\ HasEntry(o.long)
  BY <1>1 DEF HasEntry, Filled, Find, LongNames
<1>3. (CHOOSE p \in Find(o.long) : TRUE) = o
  BY OptionsAre DEF Find
<1>4. Count(o.long) = results[o.long].count
  BY <1>3 DEF Count
<1>5. PICK texts : texts = TextsGiven(sequential, o.long)
  OBVIOUS
<1>6. results[o.long] = [count |-> Len(texts),
                         value |-> IF texts = <<>> THEN o.default ELSE {Last(texts)}]
  BY <1>1, <1>5 DEF Filled
<1> QED
  BY <1>2, <1>4, <1>5, <1>6

-----------------------------------------------------------------------------
(* The job.  What main reads from its options are numbers, since an option  *)
(* holds only texts its parser let through.                                 *)

LEMMA TextsOK == \A t \in Texts : TextOK(t)
<1> SUFFICES ASSUME NEW t \in Texts PROVE TextOK(t)
  OBVIOUS
<1>1. \/ \E w \in Words : t \in w.eq \cup {w.text}
      \/ \E o \in options : t \in o.default \/ t \in o.implicit
  BY DEF Texts
<1>2. CASE \E w \in Words : t \in w.eq \cup {w.text}
  BY <1>2, CommandLineAssumption
<1>3. ASSUME NEW b \in BOOLEAN PROVE TextOK(BoolText(b))
  BY DEF TextOK, BoolText, Text
<1>4. ASSUME NEW n \in Int PROVE TextOK(IntText(n))
  BY DEF TextOK, IntText, Text
<1>5. TextOK(RateText(256, "K"))
  <2> DEFINE pair == <<256, "K">>
  <2>1. RateText(256, "K").rate = {pair} /\ RateText(256, "K").int = {}
        /\ RateText(256, "K").addr = "name"
    BY DEF RateText, Text
  <2>2. pair[1] \in Int
    OBVIOUS
  <2> HIDE DEF pair
  <2>3. \A r \in {pair} : r[1] \in Int
    BY <2>2
  <2> QED
    BY <2>1, <2>3 DEF TextOK
<1>6. CASE \E o \in options : t \in o.default \/ t \in o.implicit
  <2>1. \A o \in options :
          /\ o.default \in {{}, {BoolText(FALSE)}, {IntText(DefaultPort)},
                            {IntText(DefaultInterval)}, {IntText(DefaultTime)},
                            {RateText(256, "K")}}
          /\ o.implicit \in {{}, {BoolText(TRUE)}}
    <3>1. /\ serverOption.default = {BoolText(FALSE)} /\ serverOption.implicit = {BoolText(TRUE)}
      BY Zenon DEF serverOption, Option
    <3>2. /\ rttOption.default = {BoolText(FALSE)} /\ rttOption.implicit = {BoolText(TRUE)}
      BY Zenon DEF rttOption, Option
    <3>3. /\ helpOption.default = {BoolText(FALSE)} /\ helpOption.implicit = {BoolText(TRUE)}
      BY Zenon DEF helpOption, Option
    <3>4. /\ clientOption.default = {} /\ clientOption.implicit = {}
      BY Zenon DEF clientOption, Option
    <3>5. /\ bandwidthOption.default = {RateText(256, "K")} /\ bandwidthOption.implicit = {}
      BY Zenon DEF bandwidthOption, Option
    <3>6. portOption.implicit = {} /\ intervalOption.implicit = {} /\ timeOption.implicit = {}
      BY Zenon DEF portOption, intervalOption, timeOption, Option
    <3> QED
      <4> DEFINE no == BoolText(FALSE)
                 yes == BoolText(TRUE)
                 rate == RateText(256, "K")
      <4> HIDE DEF no, yes, rate
      <4>1. /\ serverOption.default = {no} /\ serverOption.implicit = {yes}
            /\ rttOption.default = {no} /\ rttOption.implicit = {yes}
            /\ helpOption.default = {no} /\ helpOption.implicit = {yes}
            /\ bandwidthOption.default = {rate}
        BY <3>1, <3>2, <3>3, <3>5, Zenon DEF no, yes, rate
      <4>2. \A o \in options :
              /\ o.default \in {{}, {no}, {IntText(DefaultPort)}, {IntText(DefaultInterval)},
                                {IntText(DefaultTime)}, {rate}}
              /\ o.implicit \in {{}, {yes}}
        BY <3>4, <3>5, <3>6, <4>1, OptionsAre
      <4> QED
        BY <4>2, Zenon DEF no, yes, rate
  <2>2. \/ t = BoolText(FALSE) \/ t = BoolText(TRUE) \/ t = RateText(256, "K")
        \/ t = IntText(DefaultPort) \/ t = IntText(DefaultInterval) \/ t = IntText(DefaultTime)
    <3> DEFINE no == BoolText(FALSE)
               yes == BoolText(TRUE)
               rate == RateText(256, "K")
    <3> HIDE DEF no, yes, rate
    <3>1. \A o \in options :
            /\ o.default \in {{}, {no}, {IntText(DefaultPort)}, {IntText(DefaultInterval)},
                              {IntText(DefaultTime)}, {rate}}
            /\ o.implicit \in {{}, {yes}}
      BY <2>1, Zenon DEF no, yes, rate
    <3>2. \/ t = no \/ t = yes \/ t = rate
          \/ t = IntText(DefaultPort) \/ t = IntText(DefaultInterval) \/ t = IntText(DefaultTime)
      BY <1>6, <3>1
    <3> QED
      BY <3>2, Zenon DEF no, yes, rate
  <2> QED
    BY <1>3, <1>4, <1>5, <2>2, CommandLineAssumption
<1> QED
  BY <1>1, <1>2, <1>6

\* What main reads of an option that has a default or was given.
LEMMA ValueRead ==
  ASSUME CommandInv, clPc = "parsed", NEW o \in options, NEW name \in {o.short, o.long},
         o.default # {} \/ Count(name) > 0
  PROVE  ValueOf(name) \in Texts /\ Parses(o, ValueOf(name))
<1>1. Filled(results, sequential) /\ sequential \in Givens
  BY DEF CommandInv, ResultsInv
<1>2. (CHOOSE p \in Find(name) : TRUE) = o
  BY OptionsAre DEF Find
<1>3. /\ Count(name) = results[o.long].count
      /\ ValueOf(name) = CHOOSE t \in results[o.long].value : TRUE
  BY <1>2 DEF Count, ValueOf
<1>4. results[o.long].value # {}
  <2>1. PICK texts \in Seq(Texts) : texts = TextsGiven(sequential, o.long)
    BY <1>1, TextsTyped
  <2>2. results[o.long] = [count |-> Len(texts),
                           value |-> IF texts = <<>> THEN o.default ELSE {Last(texts)}]
    BY <1>1, <2>1 DEF Filled
  <2>3. CASE texts = <<>>
    <3>1. results[o.long] = [count |-> Len(texts), value |-> o.default] /\ Len(texts) = 0
      BY <2>2, <2>3
    <3> QED
      BY <1>3, <3>1
  <2>4. CASE texts # <<>>
    <3>1. results[o.long] = [count |-> Len(texts), value |-> {Last(texts)}]
      BY <2>2, <2>4
    <3> QED
      BY <3>1
  <2> QED
    BY <2>3, <2>4
<1>5. o.long \in LongNames /\ results[o.long].value \subseteq Texts
  BY <1>1 DEF Filled, Entries, LongNames
<1>6. ValueOf(name) \in results[o.long].value
  BY <1>3, <1>4
<1> QED
  BY <1>1, <1>5, <1>6 DEF Filled

LEMMA NumberRead ==
  ASSUME CommandInv, clPc = "parsed", NEW name \in {"p", "t", "i"}
  PROVE  AsInt(name) \in Int
<1> DEFINE o == IF name = "p" THEN portOption ELSE IF name = "t" THEN timeOption ELSE intervalOption
<1>1. /\ o \in options /\ name = o.short /\ o.type = "int" /\ o.default # {}
  BY OptionsAre, OptionFields DEF intervalOption, timeOption, portOption
<1> HIDE DEF o
<1>2. ValueOf(name) \in Texts /\ Parses(o, ValueOf(name))
  BY <1>1, ValueRead
<1>3. ValueOf(name).int # {}
  BY <1>1, <1>2 DEF Parses
<1>4. ValueOf(name).int \subseteq Int
  BY <1>2, TextsOK DEF TextOK
<1> QED
  BY <1>3, <1>4 DEF AsInt

Units == {"B", "K", "M", "G"}

JobOK ==
  /\ job.port \in Int /\ job.time \in Int /\ job.interval \in Int
  /\ job.host \in {"literal", "name", "empty"}
  /\ job.rate[1] \in Int /\ job.rate[2] \in Units

NumbersGiven == packetsPerSecond \in Nat /\ testSeconds \in Int /\ reportInterval \in Int

JobInv == JobOK /\ NumbersGiven

LEMMA HostRead ==
  ASSUME CommandInv, clPc = "parsed", Count("c") > 0
  PROVE  ValueOf("c").addr \in {"literal", "name", "empty"}
<1>1. clientOption \in options /\ "c" = clientOption.short
  BY OptionsAre
<1>2. ValueOf("c") \in Texts
  BY <1>1, ValueRead
<1> QED
  BY <1>2, TextsOK DEF TextOK

LEMMA JobChosen ==
  ASSUME CommandInv, JobOK, ChooseServer \/ ChooseRtt \/ ChooseBandwidth
  PROVE  JobOK'
<1>1. clPc = "parsed"
  BY DEF ChooseServer, ChooseRtt, ChooseBandwidth, Running
<1>2. AsInt("p") \in Int /\ AsInt("t") \in Int /\ AsInt("i") \in Int
  BY <1>1, NumberRead
<1>3. CASE ChooseServer
  BY <1>2, <1>3 DEF ChooseServer, NoJob, JobOK, Units
<1>4. CASE ChooseRtt
  <2>1. ValueOf("c").addr \in {"literal", "name", "empty"}
    BY <1>1, <1>4, HostRead DEF ChooseRtt
  <2> QED
    BY <1>2, <1>4, <2>1 DEF ChooseRtt, NoJob, JobOK, Units
<1>5. CASE ChooseBandwidth
  <2>1. Count("c") > 0 /\ Count("b") > 0
    BY <1>5 DEF ChooseBandwidth
  <2>2. ValueOf("c").addr \in {"literal", "name", "empty"}
    BY <1>1, <2>1, HostRead
  <2>3. \A r \in ValueOf("b").rate : r[1] \in Int
    <3>1. bandwidthOption \in options /\ "b" = bandwidthOption.short
      BY OptionsAre
    <3>2. ValueOf("b") \in Texts
      BY <1>1, <2>1, <3>1, ValueRead
    <3> QED
      BY <3>2, TextsOK DEF TextOK
  <2>4. CASE job' = job
    BY <2>4 DEF JobOK
  <2>5. ASSUME NEW r \in ValueOf("b").rate, r[2] \in Units,
               job' = [port |-> AsInt("p"), host |-> ValueOf("c").addr, time |-> AsInt("t"),
                       interval |-> AsInt("i"), rate |-> r]
        PROVE  JobOK'
    <3>1. r[1] \in Int
      BY <2>3
    <3> QED
      BY <1>2, <2>2, <2>5, <3>1 DEF JobOK
  <2> QED
    BY <1>5, <2>4, <2>5 DEF ChooseBandwidth, Units
<1> QED
  BY <1>3, <1>4, <1>5

LEMMA RateAdmitted ==
  ASSUME NEW b \in Nat, NEW unit \in Units
  PROVE  BandwidthValue(b, unit) \in Nat /\ PacketsPerSecond(BandwidthValue(b, unit)) \in Nat
<1> DEFINE scale == [B |-> 1, K |-> Kilo, M |-> Kilo * Kilo, G |-> Kilo * Kilo * Kilo][unit]
<1>1. Kilo \in Nat /\ Kilo * Kilo \in Nat /\ Kilo * Kilo * Kilo \in Nat
      /\ PacketSize \in Nat \ {0}
  BY PacingAssumption
<1>2. scale \in Nat
  BY <1>1 DEF Units
<1> HIDE DEF scale
<1>3. b * scale \in Nat
  BY <1>2
<1>4. BandwidthValue(b, unit) \in Nat
  BY <1>3 DEF BandwidthValue, scale
<1>5. ASSUME NEW x \in Nat, NEW y \in Nat \ {0} PROVE x \div y \in Nat
  BY <1>5
<1> QED
  BY <1>1, <1>4, <1>5 DEF PacketsPerSecond

LEMMA JobMoves ==
  ASSUME CommandInv, JobInv, ProgramNext
  PROVE  JobInv'
<1>1. \/ ChooseServer \/ ChooseRtt \/ ChooseBandwidth
      \/ UNCHANGED job
  BY DEF ProgramNext, ReadOptions, PrintUsage, PrintHelp, NewServer, NewClient, Serve,
     ClientRuns, CheckRate, Ask, ReceiveRttConfirm, SendRound, ReceiveRound, EndRtt,
     ReceiveBandwidthConfirm, Pace, SendFinish, ReceiveReport, CloseClient, progVars
<1>2. JobOK'
  BY <1>1, JobChosen DEF JobInv, JobOK
<1>3. \/ CheckRate
      \/ UNCHANGED <<packetsPerSecond, testSeconds, reportInterval>>
  BY DEF ProgramNext, ReadOptions, PrintUsage, PrintHelp, ChooseServer, ChooseRtt,
     ChooseBandwidth, NewServer, NewClient, Serve, ClientRuns, Ask, ReceiveRttConfirm,
     SendRound, ReceiveRound, EndRtt, ReceiveBandwidthConfirm, Pace, SendFinish, ReceiveReport,
     CloseClient, pacingVars, BeginLoop, PacingStep, EnterTurn, SendPacket, EndTurn, WakeUp,
     PassTime
<1>4. CASE CheckRate
  <2>1. /\ job.rate[1] % UintSpace \in Nat /\ job.rate[2] \in Units
        /\ job.time \in Int /\ job.interval \in Int
    BY PacingAssumption DEF JobInv, JobOK
  <2>2. Admit(job.rate[1] % UintSpace, job.rate[2], job.time, job.interval)
    BY <1>4 DEF CheckRate
  <2> QED
    BY <1>2, <2>1, <2>2, RateAdmitted DEF Admit, JobInv, NumbersGiven
<1>5. CASE UNCHANGED <<packetsPerSecond, testSeconds, reportInterval>>
  BY <1>2, <1>5 DEF JobInv, NumbersGiven
<1> QED
  BY <1>3, <1>4, <1>5

LEMMA JobInvariant == Spec => []JobInv
<1>1. Init => JobInv
  BY DEF Init, ProgramInit, PacingInit, NoJob, JobInv, JobOK, NumbersGiven, Units
<1>2. JobInv /\ UNCHANGED programVars => JobInv'
  BY DEF programVars, pacingVars, progVars, JobInv, JobOK, NumbersGiven
<1>3. CommandInv /\ JobInv /\ [Next]_vars => JobInv'
  BY <1>2, PartsAlone, JobMoves
<1> QED
  BY <1>1, <1>3, CommandInvariant, PTL DEF Spec

=============================================================================
