------------------------------ MODULE HelpText ------------------------------
(***************************************************************************)
(* How the help that cmdParser.cpp prints is laid out                      *)
(* (include/cxxopts.hpp, format_description and help_one_group): the       *)
(* options' column is as wide as the longest of them, up to a limit, and   *)
(* the descriptions beside it are broken into lines at spaces.             *)
(*                                                                         *)
(* A description is a sequence of characters, of which only the spaces     *)
(* count; a line is the range of the description it copies.                *)
(***************************************************************************)
EXTENDS Integers, SequencesExt

CONSTANTS
  LineWidth,      \* the 76 of a line
  OPTION_LONGEST, \* 30
  DescGap,        \* OPTION_DESC_GAP: 2
  OptionLengths,  \* the longest that format_option returns, in some group of options
  MaxWordLength,  \* the longest word of a description behind its first
  MaxDesc         \* bound: length of a description

ASSUME HelpAssumption ==
  /\ OptionLengths \subseteq Nat
  /\ LineWidth \in Nat /\ OPTION_LONGEST \in Nat /\ DescGap \in Nat /\ MaxWordLength \in Nat
  /\ MaxWordLength <= LineWidth - OPTION_LONGEST - DescGap

VARIABLES
  hPc,        \* "idle", "desc", "wrap" or "written"
  longest,    \* size_t longest
  desc,       \* the description: TRUE where there is a space
  cursor,         \* current, as a position in desc
  startLine,
  lastSpace,
  size,       \* characters since the last break, as the code counts
  lines       \* what stringAppend copied to result, in order

helpVars == <<hPc, longest, desc, cursor, startLine, lastSpace, size, lines>>

HelpInit ==
  /\ hPc = "idle"
  /\ longest = 0
  /\ desc = <<>>
  /\ cursor = 1 /\ startLine = 1 /\ lastSpace = 1
  /\ size = 0
  /\ lines = <<>>

\* help_one_group, first pass: the longest of the options.
MeasureOptions ==
  /\ hPc = "idle"
  /\ \E l \in OptionLengths :
       longest' = IF l < OPTION_LONGEST THEN l ELSE OPTION_LONGEST
  /\ hPc' = "desc"
  /\ UNCHANGED <<desc, cursor, startLine, lastSpace, size, lines>>

allowed == LineWidth - longest - DescGap

\* The description, character by character; every word but the first fits.
GiveLetter ==
  /\ hPc = "desc" /\ Len(desc) < MaxDesc
  /\ \E space \in BOOLEAN : desc' = Append(desc, space)
  /\ LET n == Len(desc') IN
     (n > MaxWordLength /\ \E i \in 1 .. n : desc'[i]) =>
       \E i \in n - MaxWordLength .. n : desc'[i]
  /\ UNCHANGED <<hPc, longest, cursor, startLine, lastSpace, size, lines>>

FormatDescription ==
  /\ hPc = "desc"
  /\ hPc' = "wrap"
  /\ UNCHANGED <<longest, desc, cursor, startLine, lastSpace, size, lines>>

Line(from, to) == [from |-> from, to |-> to]

\* Mutant: the line that is broken inside a word starts again with its letter.
BreakWordTwice(space) ==
  /\ lines' = Append(lines, Line(startLine, cursor))
  /\ startLine' = cursor
  /\ lastSpace' = cursor
  /\ size' = 0

\* No space on this line: it is broken here.
BreakWord(space) ==
  /\ lines' = Append(lines, Line(startLine, cursor))
  /\ startLine' = cursor + 1
  /\ lastSpace' = cursor + 1
  /\ size' = 0

\* Broken at the last space, which is dropped.  The letters after it are
\* not counted again.
BreakAtSpace(space) ==
  /\ lines' = Append(lines, Line(startLine, space - 1))
  /\ startLine' = space + 1
  /\ lastSpace' = space
  /\ size' = 0

\* A turn of the loop: a space is noted before the line is broken.
WrapCharacter ==
  /\ hPc = "wrap" /\ cursor <= Len(desc)
  /\ LET space == IF desc[cursor] THEN cursor ELSE lastSpace IN
     IF size > allowed
       THEN IF space = startLine THEN BreakWord(space) ELSE BreakAtSpace(space)
       ELSE /\ size' = size + 1
            /\ lastSpace' = space
            /\ UNCHANGED <<lines, startLine>>
  /\ cursor' = cursor + 1
  /\ UNCHANGED <<hPc, longest, desc>>

\* What is left.
AppendRest ==
  /\ hPc = "wrap" /\ cursor > Len(desc)
  /\ lines' = Append(lines, Line(startLine, Len(desc)))
  /\ hPc' = "written"
  /\ UNCHANGED <<longest, desc, cursor, startLine, lastSpace, size>>

HelpStep ==
  MeasureOptions \/ GiveLetter \/ FormatDescription \/ WrapCharacter \/ AppendRest

-----------------------------------------------------------------------------
(***************************************************************************)
(* Breaking a description loses nothing but the spaces it is broken at and *)
(* copies nothing twice: the lines are ranges of the description in order, *)
(* none ends before it begins, and between two of them there is nothing or *)
(* one space (cxxopts.hpp:1439-1485).  It holds as long as every word but  *)
(* the first fits in the width: a longer one after a break at a space      *)
(* makes a range end before its begin.                                     *)
(***************************************************************************)
WrapKeepsText ==
  /\ \A i \in DOMAIN lines :
       LET l == lines[i]
           from == IF i = 1 THEN 1 ELSE lines[i - 1].to + 1
       IN /\ l.to >= l.from - 1
          /\ l.from = from \/ (l.from = from + 1 /\ desc[from])
  /\ hPc = "written" => Last(lines).to = Len(desc)

=============================================================================
