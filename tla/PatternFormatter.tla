-------------------------- MODULE PatternFormatter --------------------------
(***************************************************************************)
(* How a log line is laid out (spdlog/details/pattern_formatter-inl.h) and *)
(* printed by the console sink (spdlog/sinks/ansicolor_sink-inl.h): the    *)
(* pattern is compiled to a list of flag formatters once, each message is  *)
(* written through all of them, and the date is computed again only when   *)
(* the second changes.                                                     *)
(*                                                                         *)
(* What a flag writes is a sequence of cells: the flag, the place in its   *)
(* text, and for a text computed from the time the second it was computed  *)
(* for.  A character of the pattern is a cell of its own.                  *)
(***************************************************************************)
EXTENDS Integers, SequencesExt

CONSTANTS
  Patterns,      \* patterns given, as sequences of characters
  MaxPadding,    \* max_width: 64
  OffsetPeriod,  \* seconds an offset from UTC is kept: 10
  LogSeconds,    \* seconds of the messages
  PayloadSizes,  \* sizes of their texts
  MaxFormatted   \* bound: messages formatted

ASSUME PatternAssumption ==
  /\ Patterns \subseteq Seq(STRING)
  /\ MaxPadding \in Nat /\ OffsetPeriod \in Nat \ {0}
  /\ LogSeconds \subseteq Nat \ {0} /\ PayloadSizes \subseteq Nat

digitValue == [c \in {"0", "1", "2", "3", "4", "5", "6", "7", "8", "9"} |->
            CASE c = "0" -> 0 [] c = "1" -> 1 [] c = "2" -> 2 [] c = "3" -> 3 [] c = "4" -> 4
              [] c = "5" -> 5 [] c = "6" -> 6 [] c = "7" -> 7 [] c = "8" -> 8 [] c = "9" -> 9]

VARIABLES
  patPc,        \* "idle", "compile", "ready", "formatted", "printed" or "threw"
  pattern,      \* pattern_
  patAt,        \* how much of it compile_pattern_ is done with
  user_chars,   \* the characters kept since the last flag
  formatters_,  \* the compiled pattern
  cached_tm_,   \* the second the cached date is of (last_log_secs_)
  datetimeOf,   \* the second full_formatter's cached_datetime_ is of, -1 without one
  offsetOf,     \* the second z_formatter's offset is of (last_update_)
  lastTime,     \* elapsed_formatter's last_message_time_
  delta,        \* its delta_count for the message
  logMsg,       \* the message
  dest,         \* the line
  colorRange,   \* color_range_start and color_range_end of the message
  printed,      \* what the console sink wrote
  formatCount

patternVars == <<patPc, pattern, patAt, user_chars, formatters_, cached_tm_, datetimeOf,
                 offsetOf, lastTime, delta, logMsg, dest, colorRange, printed, formatCount>>

NoPadding == [width |-> 0, side |-> "left", truncate |-> FALSE, enabled |-> FALSE]
NoLogMsg == [secs |-> 0, size |-> 0, source |-> FALSE]

PatternInit ==
  /\ patPc = "idle"
  /\ pattern = <<>> /\ patAt = 0
  /\ user_chars = <<>> /\ formatters_ = <<>>
  /\ cached_tm_ = 0 /\ datetimeOf = -1 /\ offsetOf = 0 /\ lastTime = 0 /\ delta = 0
  /\ logMsg = NoLogMsg
  /\ dest = <<>> /\ colorRange = <<0, 0>> /\ printed = <<>>
  /\ formatCount = 0

-----------------------------------------------------------------------------
(* Compiling.                                                              *)

\* Flags that name the same formatter.
Synonym(c) == CASE c = "h" -> "b" [] c = "x" -> "D" [] c = "X" -> "T" [] OTHER -> c

calendarFlags == [Y |-> 4, m |-> 2, d |-> 2, H |-> 2, I |-> 2, M |-> 2, S |-> 2]
clockFlags == [p |-> 2, r |-> 11, R |-> 5, T |-> 8]
dateFlags == [flag \in DOMAIN calendarFlags \cup DOMAIN clockFlags \cup {"C"} |->
                IF flag \in DOMAIN calendarFlags THEN calendarFlags[flag]
                ELSE IF flag \in DOMAIN clockFlags THEN clockFlags[flag] ELSE 2]
fractionFlags == [e |-> 3, f |-> 6, F |-> 9]
nameFlags == [a |-> 3, b |-> 3, A |-> 8, B |-> 6]
contextFlags == [n |-> 4, l |-> 4, L |-> 1]
threadFlags == [t |-> 3, P |-> 3]
sourceFlags == [flag \in {"s", "g", "#", "!", "@"} |->
                  CASE flag = "s" -> 3 [] flag = "g" -> 5 [] flag = "#" -> 2
                    [] flag = "!" -> 4 [] flag = "@" -> 8]
elapsedFlags == {"u", "i", "o", "O"}
paddedFlags == DOMAIN dateFlags \cup DOMAIN fractionFlags \cup DOMAIN nameFlags
               \cup DOMAIN contextFlags \cup DOMAIN threadFlags \cup DOMAIN sourceFlags
               \cup elapsedFlags \cup {"v", "D", "c", "E", "z"}
bareFlags == {"+", "^", "$", "%"}

\* One formatter: the flag, its padding and the characters of an aggregate.
Formatter(flag, pad, chars) == [flag |-> flag, pad |-> pad, chars |-> chars]
Aggregate(chars) == Formatter("chars", NoPadding, chars)

\* handle_flag_; an unknown flag is kept as it is.
HandleFlag(c, pad) ==
  IF Synonym(c) \in paddedFlags \cup bareFlags THEN Formatter(Synonym(c), pad, <<>>)
  ELSE Aggregate(<<"%", c>>)

Digits(p, from) ==
  LET stop == CHOOSE i \in from .. Len(p) + 1 :
                /\ \A j \in from .. i - 1 : p[j] \in DOMAIN digitValue
                /\ i <= Len(p) => p[i] \notin DOMAIN digitValue
  IN  SubSeq(p, from, stop - 1)

WithDigit(n, c) == n * 10 + digitValue[c]

\* handle_padspec_ from position i: the padding, and the position behind it.  A
\* side without a width is skipped.
PadSpec(p, i) ==
  LET side == IF i > Len(p) THEN "left"
              ELSE CASE p[i] = "-" -> "right" [] p[i] = "=" -> "center" [] OTHER -> "left"
      from == IF side = "left" THEN i ELSE i + 1
      digits == Digits(p, from)
      behind == from + Len(digits)
      width == FoldLeft(WithDigit, 0, digits)
      truncate == behind <= Len(p) /\ p[behind] = "!"
  IN  IF digits = <<>> THEN [pad |-> NoPadding, next |-> from]
      ELSE [pad |-> [width |-> IF width < MaxPadding THEN width ELSE MaxPadding,
                     side |-> side, truncate |-> truncate, enabled |-> TRUE],
            next |-> IF truncate THEN behind + 1 ELSE behind]

Flushed == IF user_chars = <<>> THEN formatters_ ELSE Append(formatters_, Aggregate(user_chars))

GivePattern ==
  /\ patPc = "idle"
  /\ pattern' \in Patterns
  /\ patPc' = "compile"
  /\ UNCHANGED <<patAt, user_chars, formatters_, cached_tm_, datetimeOf, offsetOf, lastTime,
                 delta, logMsg, dest, colorRange, printed, formatCount>>

\* compile_pattern_, one turn of its loop and its end.
CompileChar ==
  /\ patPc = "compile" /\ patAt < Len(pattern)
  /\ pattern[patAt + 1] # "%"
  /\ user_chars' = Append(user_chars, pattern[patAt + 1])
  /\ patAt' = patAt + 1
  /\ UNCHANGED <<patPc, pattern, formatters_, cached_tm_, datetimeOf, offsetOf, lastTime,
                 delta, logMsg, dest, colorRange, printed, formatCount>>

CompileFlag ==
  /\ patPc = "compile" /\ patAt < Len(pattern)
  /\ pattern[patAt + 1] = "%"
  /\ LET spec == PadSpec(pattern, patAt + 2) IN
     /\ formatters_' = IF spec.next > Len(pattern) THEN Flushed
                       ELSE Append(Flushed, HandleFlag(pattern[spec.next], spec.pad))
     /\ patAt' = IF spec.next > Len(pattern) THEN Len(pattern) ELSE spec.next
  /\ user_chars' = <<>>
  /\ UNCHANGED <<patPc, pattern, cached_tm_, datetimeOf, offsetOf, lastTime, delta, logMsg, dest,
                 colorRange, printed, formatCount>>

CompileEnd ==
  /\ patPc = "compile" /\ patAt = Len(pattern)
  /\ formatters_' = Flushed
  /\ user_chars' = <<>>
  /\ patPc' = "ready"
  /\ UNCHANGED <<pattern, patAt, cached_tm_, datetimeOf, offsetOf, lastTime, delta, logMsg, dest,
                 colorRange, printed, formatCount>>

-----------------------------------------------------------------------------
(* Formatting.                                                             *)

Cell(flag, i, second) == [flag |-> flag, i |-> i, second |-> second]
Cells(flag, n, second) == [i \in 1 .. n |-> Cell(flag, i, second)]
PatternChar(c) == Cell(c, 0, 0)
Chars(cs) == [i \in DOMAIN cs |-> PatternChar(cs[i])]
Blank == PatternChar(" ")
Blanks(n) == [i \in 1 .. n |-> Blank]
DigitsOf(n) == IF n < 10 THEN 1 ELSE IF n < 100 THEN 2 ELSE 3

Opening == Chars(<<"[">>)
Closing == Chars(<<"]", " ">>)

\* full_formatter: the parts before, in and behind the color range.
FullText(msg, second) ==
  [front |-> Cells("date", 21, second) \o Cells("e", 3, msg.secs) \o Closing \o Opening,
   level |-> Cells("l", 4, 0),
   rest  |-> Closing \o (IF msg.source THEN Opening \o Cells("@", 6, 0) \o Closing ELSE <<>>)
               \o Cells("v", msg.size, 0)]

\* A sign, hours, a colon and minutes; and the digits of the seconds.
OffsetText(offset) == Cells("z", 6, offset)
EpochText(msg) == Cells("E", DigitsOf(msg.secs), msg.secs)

\* The text of a formatter: the date of second, the offset of offset.
TextOf(f, msg, second, offset, elapsed) ==
  LET flag == f.flag IN
  CASE flag = "chars" -> Chars(f.chars)
    [] flag = "%" -> Chars(<<"%">>)
    [] flag \in {"^", "$"} -> <<>>
    [] flag = "+" -> LET full == FullText(msg, second) IN full.front \o full.level \o full.rest
    [] flag \in DOMAIN dateFlags -> Cells(flag, dateFlags[flag], second)
    [] flag \in DOMAIN nameFlags -> Cells(flag, nameFlags[flag], second)
    [] flag \in DOMAIN fractionFlags -> Cells(flag, fractionFlags[flag], msg.secs)
    [] flag \in DOMAIN contextFlags -> Cells(flag, contextFlags[flag], 0)
    [] flag \in DOMAIN threadFlags -> Cells(flag, threadFlags[flag], 0)
    [] flag \in DOMAIN sourceFlags -> Cells(flag, sourceFlags[flag], 0)
    [] flag \in elapsedFlags -> Cells(flag, DigitsOf(elapsed), elapsed)
    [] flag = "v" -> Cells(flag, msg.size, 0)
    [] flag = "z" -> OffsetText(offset)
    [] flag = "D" -> Cells(flag, 8, second)
    [] flag = "c" -> Cells(flag, 23, second)
    [] flag = "E" -> EpochText(msg)

\* The size a formatter tells the padder, for three flags not always that of
\* their text.
misjudged == [D |-> 10, c |-> 24, E |-> 10]
TellSize(flag, text) == IF flag \in DOMAIN misjudged THEN misjudged[flag] ELSE Len(text)

\* Whether the line would be cut to less than nothing: resize throws.
CutsTooMuch(line, text, told, pad) ==
  pad.enabled /\ pad.truncate /\ Len(line) + Len(text) + pad.width < told

\* Mutant: the line is cut to the width, not its last field.
PaddedFromStart(line, text, told, pad) ==
  IF pad.enabled /\ pad.truncate /\ told > pad.width
    THEN SubSeq(line \o text, 1, pad.width)
    ELSE line \o (IF pad.enabled THEN Blanks(pad.width - told) ELSE <<>>) \o text

\* The blanks before a text: scoped_padder's constructor.
BlanksBefore(remaining, side) ==
  CASE remaining <= 0 \/ side = "right" -> 0
    [] remaining > 0 /\ side = "left" -> remaining
    [] remaining > 0 /\ side = "center" -> remaining \div 2

\* scoped_padder around a text: blanks before and behind it, or the end of the
\* line cut off by as much as the size told exceeds the width.
Padded(line, text, told, pad) ==
  LET remaining == pad.width - told
      front == BlanksBefore(remaining, pad.side)
      written == line \o Blanks(front) \o text
  IN  IF ~pad.enabled THEN line \o text
      ELSE IF remaining >= 0 THEN written \o Blanks(remaining - front)
      ELSE IF pad.truncate THEN SubSeq(written, 1, Len(written) + remaining)
      ELSE written

\* The formatters of these flags have no padder.
PadOf(f) == IF f.flag \in bareFlags THEN NoPadding ELSE f.pad

\* A message without a source leaves its flags out, their padding too.
SourceLeftOut(f, msg) == f.flag \in DOMAIN sourceFlags /\ ~msg.source

\* flag_formatter::format of one formatter, on the line and color range so far.
FormatWith(line, f, text, msg) ==
  LET told == TellSize(f.flag, text)
      pad == PadOf(f)
      n == Len(line.dest)
  IN  IF line.threw \/ SourceLeftOut(f, msg) THEN line
      ELSE IF CutsTooMuch(line.dest, text, told, pad) THEN [line EXCEPT !.threw = TRUE]
      ELSE [dest |-> Padded(line.dest, text, told, pad),
            range |-> CASE f.flag = "^" -> <<n, line.range[2]>>
                        [] f.flag = "$" -> <<line.range[1], n>>
                        [] f.flag = "+" -> LET full == FullText(msg, 0) IN
                             <<n + Len(full.front), n + Len(full.front) + Len(full.level)>>
                        [] OTHER -> line.range,
            threw |-> FALSE]

NoLine == [dest |-> <<>>, range |-> <<0, 0>>, threw |-> FALSE]

\* pattern_formatter::format, with the caches of its formatters.
FormatMsg ==
  /\ patPc \in {"ready", "printed"} /\ formatCount < MaxFormatted
  /\ formatCount' = formatCount + 1
  /\ \E s \in LogSeconds, n \in PayloadSizes, source \in BOOLEAN :
       logMsg' = [secs |-> s, size |-> n, source |-> source]
  /\ cached_tm_' = IF logMsg'.secs # cached_tm_ THEN logMsg'.secs ELSE cached_tm_
  /\ datetimeOf' = IF logMsg'.secs # datetimeOf THEN cached_tm_' ELSE datetimeOf
  /\ offsetOf' = IF logMsg'.secs - offsetOf >= OffsetPeriod THEN logMsg'.secs ELSE offsetOf
  /\ delta' = IF logMsg'.secs > lastTime THEN logMsg'.secs - lastTime ELSE 0
  /\ lastTime' = logMsg'.secs
  /\ UNCHANGED <<pattern, patAt, user_chars, formatters_, printed>>
  /\ LET text(f) == TextOf(f, logMsg', IF f.flag = "+" THEN datetimeOf' ELSE cached_tm_',
                           offsetOf', delta')
         line == FoldLeft(LAMBDA l, f : FormatWith(l, f, text(f), logMsg'), NoLine, formatters_)
     IN  /\ dest' = IF line.threw THEN <<>> ELSE line.dest
         /\ colorRange' = line.range
         /\ patPc' = IF line.threw THEN "threw" ELSE "formatted"

\* ansicolor_sink::log: the range in its color, the rest without.
PrintLine ==
  /\ patPc = "formatted"
  /\ \E colors \in BOOLEAN :
       printed' = IF colors /\ colorRange[2] > colorRange[1]
                    THEN SubSeq(dest, 1, colorRange[1]) \o Chars(<<"color">>)
                           \o SubSeq(dest, colorRange[1] + 1, colorRange[2])
                           \o Chars(<<"reset">>)
                           \o SubSeq(dest, colorRange[2] + 1, Len(dest))
                    ELSE dest
  /\ patPc' = "printed"
  /\ UNCHANGED <<pattern, patAt, user_chars, formatters_, cached_tm_, datetimeOf, offsetOf,
                 lastTime, delta, logMsg, dest, colorRange, formatCount>>

PatternStep ==
  GivePattern \/ CompileChar \/ CompileFlag \/ CompileEnd \/ FormatMsg \/ PrintLine

-----------------------------------------------------------------------------
SizesAreTold ==
  \A i \in DOMAIN formatters_ :
    formatters_[i].flag \in DOMAIN misjudged => ~formatters_[i].pad.enabled

\* A text in w places, before of them to its left.
InPlaces(text, before, w) ==
  [i \in 1 .. w |-> IF i - before \in 1 .. Len(text) THEN text[i - before] ELSE Blank]

\* A text in the width of its padding.
Fitted(text, pad) ==
  LET n == Len(text)
      w == pad.width
      before == CASE pad.side = "right" \/ w < n -> 0
                  [] pad.side = "left" /\ w >= n -> w - n
                  [] pad.side = "center" /\ w >= n -> (w - n) \div 2
  IN  IF ~pad.enabled \/ (w < n /\ ~pad.truncate) THEN text ELSE InPlaces(text, before, w)

\* The field of a formatter, from its own text and width alone.
OwnText(f) == TextOf(f, logMsg, logMsg.secs, offsetOf, delta)
FieldOf(f) == IF SourceLeftOut(f, logMsg) THEN <<>> ELSE Fitted(OwnText(f), PadOf(f))

WithField(line, f) == line \o FieldOf(f)
FieldsOf(fs) == FoldLeft(WithField, <<>>, fs)

LastFlag(flag) == {i \in DOMAIN formatters_ : formatters_[i].flag = flag
                     /\ \A j \in i + 1 .. Len(formatters_) : formatters_[j].flag # flag}

\* The fields between the last marks.  The flag + sets marks of its own.
MarkedFields(fields) ==
  (\A i \in DOMAIN formatters_ : formatters_[i].flag # "+") =>
    \A b \in LastFlag("^"), e \in LastFlag("$") :
      fields = FieldsOf(SubSeq(formatters_, b + 1, e - 1))

\* The codes at c and r stand around the marked fields, and the rest is the line.
CodesAt(c, r) ==
  /\ printed[c] = PatternChar("color") /\ printed[r] = PatternChar("reset")
  /\ SubSeq(printed, 1, c - 1) \o SubSeq(printed, c + 1, r - 1)
       \o SubSeq(printed, r + 1, Len(printed)) = dest
  /\ MarkedFields(SubSeq(printed, c + 1, r - 1))

(***************************************************************************)
(* A line is the fields of its pattern in order, each in its width and     *)
(* with the text of this message: a date comes from a cache but is never   *)
(* the one of another second, and an offset from UTC is not older than its *)
(* period; the codes of the console enclose what stands between the marks  *)
(* of the pattern, and nothing else changes.  Padded %D, %c and %E are     *)
(* left out: they tell the padder a size that is not their text's, and a   *)
(* truncation cuts into the field before or throws                         *)
(* (pattern_formatter-inl.h:35-84,244-298,1010-1036,1269-1316).            *)
(***************************************************************************)
FieldsInPlace ==
  (SizesAreTold /\ patPc \in {"formatted", "printed"}) =>
    /\ dest = FieldsOf(formatters_)
    /\ (\E i \in DOMAIN formatters_ : formatters_[i].flag = "z") =>
         logMsg.secs - offsetOf < OffsetPeriod
    /\ (patPc = "printed" /\ printed # dest) =>
         \E c, r \in DOMAIN printed : c < r /\ CodesAt(c, r)

=============================================================================
