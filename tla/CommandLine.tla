---------------------------- MODULE CommandLine ----------------------------
(***************************************************************************)
(* How netTester reads its command line: the options src/cmdParser.cpp     *)
(* declares, cxxopts' loop over argv (include/cxxopts.hpp,                 *)
(* ParseResult::parse) and what parse() makes of the result.               *)
(*                                                                         *)
(* A word of argv is a record: what the regular expression option_matcher  *)
(* makes of it (form, names, eq) and its text, for when it is taken as a   *)
(* value.  A text is what the parsers of values make of it: each set holds *)
(* the value it is parsed to, and is empty where the parser throws.        *)
(***************************************************************************)
EXTENDS Integers, SequencesExt

CONSTANTS
  Words,     \* the words a command line is made of
  MaxWords,  \* bound: how many of them
  DefaultPort, DefaultInterval, DefaultTime  \* 43210, 1 and 10

\* What the parsers of values can make of a text.
TextOK(t) ==
  /\ t.int \subseteq Int
  /\ t.addr \in {"literal", "name", "empty"}
  /\ \A r \in t.rate : r[1] \in Int

ASSUME CommandLineAssumption ==
  /\ \A w \in Words : /\ w.names \in Seq(STRING)
                     /\ \A t \in w.eq \cup {w.text} : TextOK(t)
  /\ DefaultPort \in Int /\ DefaultInterval \in Int /\ DefaultTime \in Int

VARIABLES
  argv,        \* the words after argv[0], rearranged in place
  current,     \* int current
  nextKeep,    \* int nextKeep
  results,     \* m_results, by the long name of the option
  sequential,  \* m_sequential: the options and their texts as they came
  clPc,        \* "start", "parse", "defaults", "rest", then "parsed" or "usage"
  given        \* history: argv as it was given

clVars == <<argv, current, nextKeep, results, sequential, clPc, given>>

\* What value.rate keeps of a text is the number in front of its last letter.
Text(int, bool, addr, rate) == [int |-> int, bool |-> bool, addr |-> addr, rate |-> rate]
IntText(n) == Text({n}, {b \in BOOLEAN : n = IF b THEN 1 ELSE 0}, "literal", {})
BoolText(b) == Text({}, {b}, "name", {})
RateText(number, unit) == Text({}, {}, "name", {<<number, unit>>})

Option(short, long, type, default, implicit) ==
  [short |-> short, long |-> long, type |-> type, default |-> default, implicit |-> implicit]

\* add_options(): a bool has a default and an implicit value of its own.
options ==
  { Option("s", "server",    "bool",   {BoolText(FALSE)}, {BoolText(TRUE)}),
    Option("c", "client",    "string", {}, {}),
    Option("p", "port",      "int",    {IntText(DefaultPort)}, {}),
    Option("r", "rtt",       "bool",   {BoolText(FALSE)}, {BoolText(TRUE)}),
    Option("b", "bandwidth", "string", {RateText(256, "K")}, {}),
    Option("i", "interval",  "int",    {IntText(DefaultInterval)}, {}),
    Option("t", "time",      "int",    {IntText(DefaultTime)}, {}),
    Option("h", "help",      "bool",   {BoolText(FALSE)}, {BoolText(TRUE)}) }

\* m_options: an option is found under both its names.
Find(name) == {o \in options : name = o.short \/ name = o.long}

\* parse_value(text, value) does not throw.
Parses(o, text) ==
  CASE o.type = "int"    -> text.int # {}
    [] o.type = "bool"   -> text.bool # {}
    [] o.type = "string" -> TRUE

CommandLineInit ==
  /\ argv = <<>> /\ given = <<>>
  /\ current = 1
  /\ nextKeep = 1
  /\ results = [l \in {} |-> 0]
  /\ sequential = <<>>
  /\ clPc = "start"

\* The command line is written word by word, and the process started.
GiveWord ==
  /\ clPc = "start" /\ Len(given) < MaxWords
  /\ \E w \in Words : given' = Append(given, w) /\ argv' = Append(argv, w)
  /\ UNCHANGED <<current, nextKeep, results, sequential, clPc>>

StartProcess ==
  /\ clPc = "start"
  /\ clPc' = "parse"
  /\ UNCHANGED <<argv, current, nextKeep, results, sequential, given>>

-----------------------------------------------------------------------------
\* m_results[value], which makes the entry where there is none.
ResultOf(res, o) ==
  IF o.long \in DOMAIN res THEN res[o.long] ELSE [count |-> 0, value |-> {}]

StoreResult(res, o, r) == [l \in DOMAIN res \cup {o.long} |-> IF l = o.long THEN r ELSE res[l]]

\* OptionValue::parse: the count goes up, the last value stays.
ParseOption(res, o, text) ==
  StoreResult(res, o, [count |-> ResultOf(res, o).count + 1, value |-> {text}])

ParseEach(res, pairs) == FoldLeft(LAMBDA r, p : ParseOption(r, p[1], p[2]), res, pairs)

\* An exception: parse() prints the help and exits with 1.
Usage ==
  /\ clPc' = "usage"
  /\ UNCHANGED <<argv, current, nextKeep, results, sequential, given>>

\* parse_option for the options of a word, each with its text; the word and
\* width - 1 more are done with.
ParseOptions(pairs, width) ==
  IF \E i \in DOMAIN pairs : ~Parses(pairs[i][1], pairs[i][2])
    THEN Usage
    ELSE /\ results' = ParseEach(results, pairs)
         /\ sequential' = sequential \o [i \in DOMAIN pairs |-> <<pairs[i][1].long, pairs[i][2]>>]
         /\ current' = current + width
         /\ UNCHANGED <<argv, nextKeep, clPc, given>>

\* checked_parse_arg: an option with an implicit value takes no word.
TakesWord(o) == o.implicit = {}
MissesArgument(o) == TakesWord(o) /\ current + 1 > Len(argv)
ArgumentOf(o) == IF TakesWord(o) THEN argv[current + 1].text ELSE CHOOSE t \in o.implicit : TRUE

Word == argv[current]
Reading == clPc = "parse" /\ current <= Len(argv)

\* Every word of a cluster but the last option must have an implicit value.
ParseCluster ==
  LET found == [i \in DOMAIN Word.names |-> Find(Word.names[i])]
      opt(i) == CHOOSE o \in found[i] : TRUE
      last == Len(Word.names)
  IN
  /\ Reading
  /\ Word.form = "short"
  /\ IF \/ \E i \in 1 .. last : found[i] = {} \/ (i < last /\ TakesWord(opt(i)))
        \/ MissesArgument(opt(last))
       THEN Usage
       ELSE ParseOptions([i \in 1 .. last |-> <<opt(i), ArgumentOf(opt(i))>>],
                         IF TakesWord(opt(last)) THEN 2 ELSE 1)

\* --name=text, or --name and the next word.
ParseLong ==
  /\ Reading
  /\ Word.form = "long"
  /\ LET found == Find(Word.names[1])
         o == CHOOSE o \in found : TRUE
     IN  CASE found = {} -> Usage
           [] found # {} /\ Word.eq # {} ->
                ParseOptions(<<<<o, CHOOSE t \in Word.eq : TRUE>>>>, 1)
           [] found # {} /\ Word.eq = {} /\ MissesArgument(o) -> Usage
           [] OTHER -> ParseOptions(<<<<o, ArgumentOf(o)>>>>, IF TakesWord(o) THEN 2 ELSE 1)

\* Neither an option nor a lone dash, but a dash in front.
ParseBadSyntax ==
  /\ Reading
  /\ Word.form = "bad"
  /\ Usage

\* Mutant: the place for the next kept word is counted twice.
KeepTwice ==
  /\ argv' = [argv EXCEPT ![nextKeep] = argv[current]]
  /\ nextKeep' = nextKeep + 2
  /\ current' = current + 1
  /\ UNCHANGED <<results, sequential, clPc, given>>

\* No positional options are declared: the word moves to the front of argv.
KeepWord ==
  /\ argv' = [argv EXCEPT ![nextKeep] = argv[current]]
  /\ nextKeep' = nextKeep + 1
  /\ current' = current + 1
  /\ UNCHANGED <<results, sequential, clPc, given>>

\* Mutant: the word is skipped, but current is not.
ParsePlainAgain ==
  /\ Reading
  /\ Word.form = "plain"
  /\ UNCHANGED clVars

ParsePlain ==
  /\ Reading
  /\ Word.form = "plain"
  /\ KeepWord

\* "--" ends the options; so does the end of argv.
ParseDashes ==
  /\ Reading
  /\ Word.form = "dashes"
  /\ current' = current + 1
  /\ clPc' = "defaults"
  /\ UNCHANGED <<argv, nextKeep, results, sequential, given>>

ParseEnd ==
  /\ clPc = "parse"
  /\ current > Len(argv)
  /\ clPc' = "defaults"
  /\ UNCHANGED <<argv, current, nextKeep, results, sequential, given>>

\* The entry of an option behind the loop over argv, n the count of a default.
Entry(l, n) ==
  LET o == CHOOSE o \in options : o.long = l IN
  IF ResultOf(results, o).count = 0 THEN [count |-> n, value |-> o.default] ELSE results[l]

\* Mutant: a default counts as an occurrence.
DefaultsCounted ==
  /\ clPc = "defaults"
  /\ clPc' = "rest"
  /\ results' = [l \in {o.long : o \in options} |-> Entry(l, 1)]
  /\ UNCHANGED <<argv, current, nextKeep, sequential, given>>

\* Every option gets its entry in m_results, and its default if it was not
\* given; a default does not count.
ParseDefaults ==
  /\ clPc = "defaults"
  /\ clPc' = "rest"
  /\ results' = [l \in {o.long : o \in options} |-> Entry(l, 0)]
  /\ UNCHANGED <<argv, current, nextKeep, sequential, given>>

\* The words behind "--" are kept too.
ParseRest ==
  /\ clPc = "rest"
  /\ IF current <= Len(argv)
       THEN KeepWord
       ELSE /\ clPc' = "parsed"
            /\ UNCHANGED <<argv, current, nextKeep, results, sequential, given>>

CommandLineStep ==
  \/ GiveWord \/ StartProcess
  \/ ParseCluster \/ ParseLong \/ ParseBadSyntax \/ ParsePlain
  \/ ParseDashes \/ ParseEnd \/ ParseDefaults \/ ParseRest

-----------------------------------------------------------------------------
\* ParseResult::count and operator[]: of a declared option; they do not check
\* that m_results has the entry.
HasEntry(name) == \A o \in Find(name) : o.long \in DOMAIN results
Count(name) == LET o == CHOOSE o \in Find(name) : TRUE IN results[o.long].count
ValueOf(name) ==
  LET o == CHOOSE o \in Find(name) : TRUE IN CHOOSE t \in results[o.long].value : TRUE

-----------------------------------------------------------------------------
(***************************************************************************)
(* The words cxxopts keeps are moved to the front of the array it is still *)
(* reading: no word is overwritten before it was read, and the words kept  *)
(* are words of the command line in their order (cxxopts.hpp:1757,1873).   *)
(***************************************************************************)
CompactionKeepsUnread ==
  /\ nextKeep <= current
  /\ \A i \in current .. Len(given) : argv[i] = given[i]
  /\ \E from \in [1 .. nextKeep - 1 -> 1 .. current - 1] :
       /\ \A i, j \in DOMAIN from : i < j => from[i] < from[j]
       /\ \A i \in DOMAIN from : argv[i] = given[from[i]]

\* The texts an option came with, in their order.
TextsGiven(pairs, long) ==
  FoldLeft(LAMBDA texts, p : IF p[1] = long THEN Append(texts, p[2]) ELSE texts, <<>>, pairs)

(***************************************************************************)
(* What main asks of an option is what the command line said last: every   *)
(* declared option has an entry, so count and operator[] do not            *)
(* dereference the end; it is counted as often as it was given, a default  *)
(* is not counted, and its value is its last text, or else its default     *)
(* (cxxopts.hpp:1043-1053,1148-1165,1590-1593,1849-1859; main.cpp:40-49).  *)
(***************************************************************************)
LastTextWins ==
  clPc = "parsed" =>
    \A o \in options :
      LET texts == TextsGiven(sequential, o.long) IN
      /\ HasEntry(o.short) /\ HasEntry(o.long)
      /\ Count(o.long) = Len(texts)
      /\ results[o.long].value = IF texts = <<>> THEN o.default ELSE {Last(texts)}

=============================================================================
