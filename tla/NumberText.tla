----------------------------- MODULE NumberText -----------------------------
(***************************************************************************)
(* How fmt writes a number into a memory buffer                            *)
(* (src/include/spdlog/fmt/bundled: format.h, format-inl.h, core.h).  An   *)
(* integer's digits are counted first and then written backwards, two at a *)
(* time, with the separators of a locale; those of a floating-point number *)
(* are generated one by one and rounded, or taken from snprintf if that    *)
(* cannot be done for sure, and then laid out.  What is written is counted *)
(* first and that much is reserved; the buffer leaves its inline store     *)
(* when that is full, and may be moved.                                    *)
(*                                                                         *)
(* A behaviour writes a text, a number and a text to one buffer.  A        *)
(* floating-point number is m / 10^k: the scaling of Grisu is abstracted   *)
(* to the decimal digits it is for, and its loss of precision to a         *)
(* rounding that may be undecided.  Left out are hexadecimal, percent and  *)
(* locale formats of floating-point numbers.                               *)
(***************************************************************************)
EXTENDS Integers, Sequences, SequencesExt, FiniteSets

CONSTANTS
  IntBits,        \* bits of an int
  IntNumbers,     \* the integers written
  IntSpecs,       \* the specifiers they are written with
  Groupings,      \* sizes of the groups of digits of a locale, from the last one
  FloatNumbers,   \* the floating-point numbers written
  FloatSpecs,     \* the specifiers they are written with
  GrisuPrecision, \* the largest precision digits are generated for: 17
  StoreSize,      \* inline_buffer_size: 500
  Literals        \* texts around a number, as sequences of characters

ASSUME NumberAssumption ==
  /\ IntBits \in Nat \ {0, 1}
  /\ GrisuPrecision \in Nat \ {0}
  /\ StoreSize \in Nat \ {0}

VARIABLES
  numPc,   \* where the writer is
  item,    \* the number, its specifiers and the texts around it
  work,    \* the writer's locals
  buffer   \* the basic_memory_buffer

numberVars == <<numPc, item, work, buffer>>

NumberInit ==
  /\ numPc = "idle" /\ item = [kind |-> "none"] /\ work = [kind |-> "none"]
  /\ buffer = [heap |-> FALSE, size |-> 0, data |-> [i \in 1 .. StoreSize |-> "unwritten"]]

Repeated(c, n) == [i \in 1 .. n |-> c]
AtMost(a, b) == IF a < b THEN a ELSE b
AtLeast(a, b) == IF a > b THEN a ELSE b

digitChars == <<"0", "1", "2", "3", "4", "5", "6", "7", "8", "9", "a", "b", "c", "d", "e", "f">>
upperDigits == <<"0", "1", "2", "3", "4", "5", "6", "7", "8", "9", "A", "B", "C", "D", "E", "F">>
CharOf(d) == digitChars[d + 1]
ValueOfChar(c) == CHOOSE d \in 0 .. 15 : c \in {digitChars[d + 1], upperDigits[d + 1]}

-----------------------------------------------------------------------------
(* basic_memory_buffer.                                                    *)

Grown(b, size) ==
  [b EXCEPT !.heap = TRUE,
            !.data = [i \in 1 .. AtLeast(Len(b.data) + Len(b.data) \div 2, size) |->
                        IF i <= b.size THEN b.data[i] ELSE "unwritten"]]

\* resize, after reserve.
Resized(b, size) ==
  [(IF size > Len(b.data) THEN Grown(b, size) ELSE b) EXCEPT !.size = size]

\* reserve(it, n), and a text written where it points to.
WriteReserved(b, n, text) ==
  LET r == Resized(b, b.size + n) IN
  [r EXCEPT !.data = [i \in DOMAIN r.data |->
                        IF i - b.size \in DOMAIN text THEN text[i - b.size] ELSE r.data[i]]]

\* write_padded around a value of that size.
WritePadded(b, text, size, width, align, fill) ==
  LET padding == width - size
      left == CASE align = "right" -> padding [] align = "center" -> padding \div 2
                [] OTHER -> 0
  IN  IF width <= size THEN WriteReserved(b, size, text)
      ELSE WriteReserved(b, width, Repeated(fill, left) \o text \o Repeated(fill, padding - left))

-----------------------------------------------------------------------------
(* Integers.                                                               *)

BitLength(n) == CHOOSE b \in 1 .. IntBits : 2 ^ (b - 1) <= n /\ n < 2 ^ b
ZeroOrPowerOf10(t) == IF t = 0 THEN 0 ELSE 10 ^ t

\* From the number of leading zero bits.
count_digits(n) ==
  LET t == (BitLength(IF n % 2 = 0 THEN n + 1 ELSE n) * 1233) \div 4096
  IN  IF n < ZeroOrPowerOf10(t) THEN t ELSE t + 1

CountDigitsIn(bits, n) ==
  CHOOSE c \in 1 .. IntBits : n < 2 ^ (bits * c) /\ (c > 1 => n >= 2 ^ (bits * (c - 1)))

bitsOf == [x |-> 4, X |-> 4, o |-> 3, b |-> 1, B |-> 1]

\* int_writer: the sign and the value without it.
SignPrefix(value, sign) ==
  CASE value < 0 -> <<"-">>
    [] value >= 0 /\ sign = "plus" -> <<"+">>
    [] value >= 0 /\ sign = "space" -> <<" ">>
    [] OTHER -> <<>>
AbsValue(value) ==
  LET u == value % 2 ^ IntBits IN IF value < 0 THEN (0 - u) % 2 ^ IntBits ELSE u

\* on_hex, on_bin and on_oct.
AltPrefix(specs, abs) ==
  CASE specs.alt /\ specs.type \in {"x", "X", "b", "B"} -> <<"0", specs.type>>
    [] specs.alt /\ specs.type = "o" /\ abs # 0 /\ specs.precision <= CountDigitsIn(3, abs) -> <<"0">>
    [] OTHER -> <<>>

\* Mutant: a number of whole groups gets a separator before it.
GroupedSizeByOne(digits, groups) ==
  LET counted == FoldLeft(LAMBDA s, g :
                   IF s.going /\ s.left >= g /\ g > 0
                     THEN [s EXCEPT !.left = s.left - g, !.seps = s.seps + 1]
                     ELSE [s EXCEPT !.going = FALSE],
                   [left |-> digits, seps |-> 0, going |-> TRUE], groups)
  IN  digits + counted.seps + (IF counted.going THEN (counted.left - 1) \div Last(groups) ELSE 0)

\* on_num counts the separators: the last size repeats.
GroupedSize(digits, groups) ==
  LET counted == FoldLeft(LAMBDA s, g :
                   IF s.going /\ s.left > g /\ g > 0
                     THEN [s EXCEPT !.left = s.left - g, !.seps = s.seps + 1]
                     ELSE [s EXCEPT !.going = FALSE],
                   [left |-> digits, seps |-> 0, going |-> TRUE], groups)
  IN  digits + counted.seps + (IF counted.going THEN (counted.left - 1) \div Last(groups) ELSE 0)

Grouped == item.specs.type = "n" /\ item.groups # <<>>

GiveInteger ==
  /\ numPc = "idle"
  /\ \E value \in IntNumbers, specs \in IntSpecs, before \in Literals, after \in Literals :
       \E groups \in IF specs.type = "n" THEN Groupings ELSE {<<>>} :
         item' = [kind |-> "int", value |-> value, specs |-> specs, groups |-> groups,
                  before |-> before, after |-> after]
  /\ numPc' = "begin"
  /\ UNCHANGED <<work, buffer>>

\* The text before the number, and int_writer up to the call of write_int.
BeginInteger ==
  /\ numPc = "begin" /\ item.kind = "int"
  /\ buffer' = WriteReserved(buffer, Len(item.before), item.before)
  /\ LET abs == AbsValue(item.value)
         digits == IF item.specs.type \in DOMAIN bitsOf THEN CountDigitsIn(bitsOf[item.specs.type], abs)
                   ELSE count_digits(abs)
         size == IF Grouped THEN GroupedSize(digits, item.groups) ELSE digits
     IN  work' = [kind |-> "int", rest |-> abs, at |-> size, group |-> 1, index |-> 0,
                  prefix |-> SignPrefix(item.value, item.specs.sign) \o AltPrefix(item.specs, abs),
                  written |-> Repeated("unwritten", size)]
  /\ numPc' = "digits"
  /\ UNCHANGED item

PutChar(w, c) == [w EXCEPT !.written[w.at] = c, !.at = w.at - 1]
PutDigit(w, d) == PutChar(w, CharOf(d))

\* num_writer's add_thousands_sep, after a digit.
PutSeparator(w) ==
  IF ~Grouped THEN w
  ELSE LET g == item.groups[w.group] IN
       IF g <= 0 THEN w
       ELSE IF (w.index + 1) % g # 0 THEN [w EXCEPT !.index = w.index + 1]
       ELSE IF w.group < Len(item.groups)
         THEN PutChar([w EXCEPT !.index = 0, !.group = w.group + 1], ",")
       ELSE PutChar([w EXCEPT !.index = w.index + 1], ",")

\* format_decimal, a turn of its loop or its end; format_uint, a turn.
WriteDigits ==
  /\ numPc = "digits"
  /\ LET n == work.rest
         chars == IF item.specs.type \in {"x"} THEN digitChars ELSE upperDigits
     IN  IF item.specs.type \in DOMAIN bitsOf
           THEN LET base == 2 ^ bitsOf[item.specs.type] IN
                /\ work' = [PutChar(work, chars[(n % base) + 1]) EXCEPT !.rest = n \div base]
                /\ numPc' = IF n \div base = 0 THEN "lay" ELSE "digits"
         ELSE IF n >= 100
           THEN /\ LET w == PutSeparator(PutDigit(work, n % 10)) IN
                   work' = [PutSeparator(PutDigit(w, (n % 100) \div 10)) EXCEPT !.rest = n \div 100]
                /\ numPc' = "digits"
         ELSE /\ work' = IF n < 10 THEN PutDigit(work, n)
                         ELSE PutDigit(PutSeparator(PutDigit(work, n % 10)), n \div 10)
              /\ numPc' = "lay"
  /\ UNCHANGED <<item, buffer>>

\* write_int: the prefix, the padding of a numeric alignment or of a precision
\* and the digits.
LayInteger ==
  /\ numPc = "lay" /\ item.kind = "int"
  /\ LET specs == item.specs
         bare == Len(work.prefix) + Len(work.written)
         numeric == specs.align = "numeric"
         size == IF numeric THEN AtLeast(specs.width, bare)
                 ELSE IF specs.precision > Len(work.written) THEN Len(work.prefix) + specs.precision
                 ELSE bare
         padding == Repeated(IF numeric THEN specs.fill ELSE "0", size - bare)
     IN  buffer' = WritePadded(buffer, work.prefix \o padding \o work.written, size, specs.width,
                               IF specs.align = "none" THEN "right" ELSE specs.align, specs.fill)
  /\ numPc' = "end"
  /\ UNCHANGED <<item, work>>

-----------------------------------------------------------------------------
(* Floating-point numbers.                                                 *)

DecimalDigits(n) == [i \in 1 .. (CHOOSE c \in 1 .. 10 : n < 10 ^ c /\ (c > 1 => n >= 10 ^ (c - 1))) |->
                       LET c == CHOOSE l \in 1 .. 10 : n < 10 ^ l /\ (l > 1 => n >= 10 ^ (l - 1))
                       IN  CharOf((n \div 10 ^ (c - i)) % 10)]

WithoutZeros(ds, keep) ==
  LET n == CHOOSE n \in keep .. Len(ds) : /\ \A i \in n + 1 .. Len(ds) : ds[i] = "0"
                                          /\ n > keep => ds[n] # "0"
  IN  SubSeq(ds, 1, n)

\* parse_float_type_spec, and write's signs and precision.
FloatSpecsOf(specs, negative) ==
  LET format == CASE specs.type \in {"", "g", "G"} -> "general" [] specs.type \in {"e", "E"} -> "exp"
                  [] specs.type \in {"f", "F"} -> "fixed"
      precision == IF specs.precision >= 0 \/ specs.type = "" THEN specs.precision ELSE 6
  IN  [format |-> format,
       upper |-> specs.type \in {"G", "E", "F"},
       trailing_zeros |-> specs.alt \/ (specs.type \notin {"g", "G"} /\ specs.precision # 0),
       sign |-> CASE negative -> "-"
                  [] ~negative /\ specs.sign = "plus" -> "+"
                  [] ~negative /\ specs.sign = "space" -> " "
                  [] OTHER -> "none",
       precision |-> IF format = "exp" THEN precision + 1 ELSE precision]

GiveFloat ==
  /\ numPc = "idle"
  /\ \E f \in FloatNumbers, negative \in BOOLEAN, specs \in FloatSpecs, text \in Literals :
       item' = [kind |-> "float", number |-> f, negative |-> negative, specs |-> specs,
                before |-> text, after |-> <<>>]
  /\ numPc' = "begin"
  /\ UNCHANGED <<work, buffer>>

IsNumeric == item.specs.align = "numeric"
Finite == item.number.special = "no"
NonfiniteName(special, upper) ==
  CASE special = "inf" /\ upper -> <<"I", "N", "F">> [] special = "inf" /\ ~upper -> <<"i", "n", "f">>
    [] special = "nan" /\ upper -> <<"N", "A", "N">> [] special = "nan" /\ ~upper -> <<"n", "a", "n">>
SignText(sign) == IF sign = "none" THEN <<>> ELSE <<sign>>

\* write(T value, format_specs), up to format_float: inf and nan are written as
\* they are, and a numeric alignment writes the sign at once.
BeginFloat ==
  /\ numPc = "begin" /\ item.kind = "float"
  /\ LET fspecs == FloatSpecsOf(item.specs, item.negative)
         b == WriteReserved(buffer, Len(item.before), item.before)
         name == SignText(fspecs.sign) \o NonfiniteName(item.number.special, fspecs.upper)
         early == IsNumeric /\ fspecs.sign # "none"
     IN  /\ buffer' = IF ~Finite THEN WritePadded(b, name, Len(name), item.specs.width,
                                                   item.specs.align, item.specs.fill)
                      ELSE IF early THEN WriteReserved(b, 1, <<fspecs.sign>>)
                      ELSE b
         /\ work' = [kind |-> "float", digits |-> <<>>, exp |-> 0, asked |-> fspecs.precision,
                     byLibrary |-> FALSE,
                     fspecs |-> [fspecs EXCEPT !.sign = IF early THEN "none" ELSE fspecs.sign],
                     width |-> IF early /\ item.specs.width # 0 THEN item.specs.width - 1
                               ELSE item.specs.width]
  /\ numPc' = IF Finite THEN "float" ELSE "end"
  /\ UNCHANGED item

\* The value is 0.d1d2... times ten to that power.
ValueDigits == DecimalDigits(item.number.m)
PowerOf10 == Len(ValueDigits) - item.number.k
IsFixed == work.fspecs.format = "fixed"

Generated(digits, exp) == work' = [work EXCEPT !.digits = digits, !.exp = exp] /\ numPc' = "lay"
AskLibrary == work' = [work EXCEPT !.digits = <<>>, !.byLibrary = TRUE] /\ numPc' = "snprintf"

\* Which way the digits behind the first n round: "tie" is undecided.
RoundDirection(n) ==
  LET behind == SubSeq(ValueDigits, n + 1, Len(ValueDigits))
      first == IF behind = <<>> THEN 0 ELSE ValueOfChar(behind[1])
      more == \E i \in 2 .. Len(behind) : behind[i] # "0"
  IN  IF n < 0 \/ first < 5 THEN "down" ELSE IF first > 5 \/ more THEN "up" ELSE "tie"

\* format_float up to its first digit.
FormatFloat ==
  /\ numPc = "float"
  /\ LET precision == work.fspecs.precision
         asked == IF IsFixed THEN precision + PowerOf10 ELSE precision
     IN  CASE item.number.m = 0 ->
                IF precision <= 0 \/ ~IsFixed THEN Generated(<<"0">>, 0)
                ELSE Generated(Repeated("0", precision), -precision)
           [] item.number.m # 0 /\ precision = -1 ->
                LET ds == WithoutZeros(ValueDigits, 1) IN Generated(ds, PowerOf10 - Len(ds))
           [] item.number.m # 0 /\ precision > GrisuPrecision -> AskLibrary
           [] item.number.m # 0 /\ precision \in 0 .. GrisuPrecision ->
                \/ IsFixed /\ asked < 0 /\ Generated(<<>>, PowerOf10)
                \/ /\ IsFixed /\ asked = 0
                   /\ \/ RoundDirection(0) = "up" /\ Generated(<<"1">>, PowerOf10)
                      \/ RoundDirection(0) = "down" /\ Generated(<<"0">>, PowerOf10)
                      \/ AskLibrary
                \/ /\ ~IsFixed \/ asked > 0
                   /\ work' = [work EXCEPT !.asked = asked] /\ numPc' = "generate"
  /\ UNCHANGED <<item, buffer>>

\* Mutant: nines that overflow do not get longer.
RoundedUpInPlace(ds) ==
  LET nines == CHOOSE n \in 0 .. Len(ds) :
                 /\ \A i \in Len(ds) - n + 1 .. Len(ds) : ds[i] = "9"
                 /\ n < Len(ds) => ds[Len(ds) - n] # "9"
  IN  IF nines = Len(ds) THEN <<"1">> \o Repeated("0", nines - 1)
      ELSE [i \in DOMAIN ds |-> CASE i < Len(ds) - nines -> ds[i]
                                  [] i = Len(ds) - nines -> CharOf(ValueOfChar(ds[i]) + 1)
                                  [] i > Len(ds) - nines -> "0"]

\* The last digit up, with the carries; nines all through get one digit longer.
RoundedUp(ds) ==
  LET nines == CHOOSE n \in 0 .. Len(ds) :
                 /\ \A i \in Len(ds) - n + 1 .. Len(ds) : ds[i] = "9"
                 /\ n < Len(ds) => ds[Len(ds) - n] # "9"
  IN  IF nines = Len(ds) THEN <<"1">> \o Repeated("0", nines)
      ELSE [i \in DOMAIN ds |-> CASE i < Len(ds) - nines -> ds[i]
                                  [] i = Len(ds) - nines -> CharOf(ValueOfChar(ds[i]) + 1)
                                  [] i > Len(ds) - nines -> "0"]

\* The zeros at the end of what is not of fixed format go into the exponent.
Finished(ds, exp) ==
  LET kept == IF IsFixed THEN ds ELSE WithoutZeros(ds, 0)
  IN  Generated(kept, exp + Len(ds) - Len(kept))

\* A turn of grisu_gen_digits with fixed_handler::on_digit.
GenerateDigit ==
  /\ numPc = "generate"
  /\ LET n == Len(work.digits) + 1
         ds == Append(work.digits, IF n <= Len(ValueDigits) THEN ValueDigits[n] ELSE "0")
     IN  IF n < work.asked THEN work' = [work EXCEPT !.digits = ds] /\ UNCHANGED numPc
         ELSE \/ RoundDirection(n) = "down" /\ Finished(ds, PowerOf10 - n)
              \/ RoundDirection(n) = "up" /\ Finished(RoundedUp(ds), PowerOf10 - n)
              \/ AskLibrary
  /\ UNCHANGED <<item, buffer>>

\* n / 10^e to the nearest integer, of two the even one, as printf rounds.
Nearest(n, e) ==
  LET q == n \div 10 ^ e   r == 2 * (n % 10 ^ e) IN
  IF r > 10 ^ e \/ (r = 10 ^ e /\ q % 2 = 1) THEN q + 1 ELSE q

\* m / 10^k to a number of decimals, and the digits of its first s significant
\* digits with the power of ten of the first.
ToDecimals(f, p) == Nearest(f.m * 10 ^ p, f.k)
ToDigits(f, s) ==
  LET n == Len(DecimalDigits(f.m))
      rounded == IF n <= s THEN f.m * 10 ^ (s - n) ELSE Nearest(f.m, n - s)
  IN  IF rounded = 10 ^ s THEN [digits |-> DecimalDigits(rounded \div 10), power |-> n - f.k]
      ELSE [digits |-> DecimalDigits(rounded), power |-> n - f.k - 1]

\* snprintf_float: in fixed format the point is removed, otherwise the exponent is
\* parsed.  A precision of 0 keeps the point of "%#.0f", and of "%.0g" is that of
\* "%e", 6.
SnprintfFloat ==
  /\ numPc = "snprintf"
  /\ LET precision == work.fspecs.precision IN
     IF IsFixed
       THEN LET ds == DecimalDigits(ToDecimals(item.number, precision)) IN
            IF precision = 0 THEN Generated(IF work.fspecs.trailing_zeros THEN Append(ds, ".") ELSE ds, 0)
            ELSE Generated(Repeated("0", precision + 1 - Len(ds)) \o ds, -precision)
       ELSE LET rounded == ToDigits(item.number, IF precision = 0 THEN 7 ELSE precision)
                ds == WithoutZeros(rounded.digits, 1)
            IN  Generated(ds, rounded.power - (Len(ds) - 1))
  /\ UNCHANGED <<item, buffer>>

\* write_exponent
ExponentText(exp) ==
  LET n == IF exp < 0 THEN -exp ELSE exp
  IN  <<IF exp < 0 THEN "-" ELSE "+">> \o (IF n < 10 THEN <<"0">> ELSE <<>>) \o DecimalDigits(n)

\* float_writer: whether a general number gets an exponent, and prettify.
TakesExponent(fspecs, full_exp) ==
  \/ fspecs.format = "exp"
  \/ /\ fspecs.format = "general"
     /\ full_exp - 1 \notin -4 .. (IF fspecs.precision > 0 THEN fspecs.precision ELSE 16) - 1

Scientific(fspecs, ds, full_exp) ==
  LET num_zeros == IF fspecs.trailing_zeros THEN fspecs.precision - Len(ds) ELSE 0
  IN  <<ds[1]>> \o (IF Len(ds) > 1 \/ num_zeros > 0 THEN <<".">> ELSE <<>>) \o Tail(ds)
      \o Repeated("0", num_zeros) \o <<IF fspecs.upper THEN "E" ELSE "e">> \o ExponentText(full_exp - 1)

\* 1234e7 -> 12340000000[.0+]
Whole(fspecs, ds, full_exp) ==
  ds \o Repeated("0", full_exp - Len(ds))
  \o (IF ~fspecs.trailing_zeros THEN <<>>
      ELSE <<".">> \o (IF fspecs.precision > full_exp THEN Repeated("0", fspecs.precision - full_exp)
                       ELSE IF fspecs.format # "fixed" THEN <<"0">> ELSE <<>>))

\* 1234e-2 -> 12.34[0+]
Mixed(fspecs, ds, full_exp) ==
  LET kept == IF fspecs.trailing_zeros THEN ds ELSE WithoutZeros(ds, full_exp)
      point == IF fspecs.trailing_zeros \/ Len(kept) # full_exp THEN <<".">> ELSE <<>>
      zeros == IF fspecs.trailing_zeros THEN Repeated("0", fspecs.precision - Len(ds)) ELSE <<>>
  IN  SubSeq(kept, 1, full_exp) \o point \o SubSeq(kept, full_exp + 1, Len(kept)) \o zeros

\* 1234e-6 -> 0.001234
Fraction(fspecs, ds, full_exp) ==
  LET num_zeros == IF fspecs.precision >= 0 THEN AtMost(fspecs.precision, -full_exp) ELSE -full_exp
      kept == IF fspecs.trailing_zeros THEN ds ELSE WithoutZeros(ds, 0)
  IN  <<"0">> \o (IF num_zeros # 0 \/ kept # <<>> THEN <<".">> \o Repeated("0", num_zeros) \o kept
                  ELSE <<>>)

Prettify(fspecs, ds, exp) ==
  LET full_exp == Len(ds) + exp IN
  IF TakesExponent(fspecs, full_exp) THEN Scientific(fspecs, ds, full_exp)
  ELSE IF Len(ds) <= full_exp THEN Whole(fspecs, ds, full_exp)
  ELSE IF full_exp > 0 THEN Mixed(fspecs, ds, full_exp)
  ELSE Fraction(fspecs, ds, full_exp)

LayFloat ==
  /\ numPc = "lay" /\ item.kind = "float"
  /\ LET text == SignText(work.fspecs.sign) \o Prettify(work.fspecs, work.digits, work.exp)
     IN  buffer' = WritePadded(buffer, text, Len(text), work.width,
                               IF item.specs.align \in {"none", "numeric"} THEN "right"
                               ELSE item.specs.align, item.specs.fill)
  /\ numPc' = "end"
  /\ UNCHANGED <<item, work>>

-----------------------------------------------------------------------------
\* The buffer is moved to another, which takes over its heap memory or copies
\* its store.
MoveBuffer ==
  /\ numPc = "end" /\ item.kind = "int"
  /\ buffer' = IF buffer.heap THEN buffer
               ELSE [buffer EXCEPT !.data = [i \in 1 .. StoreSize |->
                       IF i <= buffer.size THEN buffer.data[i] ELSE "unwritten"]]
  /\ numPc' = "moved"
  /\ UNCHANGED <<item, work>>

WriteAfter ==
  /\ numPc \in {"end", "moved"}
  /\ buffer' = WriteReserved(buffer, Len(item.after), item.after)
  /\ numPc' = "done"
  /\ UNCHANGED <<item, work>>

NumberStep ==
  \/ GiveInteger \/ BeginInteger \/ WriteDigits \/ LayInteger
  \/ GiveFloat \/ BeginFloat \/ FormatFloat \/ GenerateDigit \/ SnprintfFloat \/ LayFloat
  \/ MoveBuffer \/ WriteAfter

-----------------------------------------------------------------------------
(* Reading a number back.                                                  *)

Contained == SubSeq(buffer.data, 1, buffer.size)
NumberPart == SubSeq(Contained, Len(item.before) + 1, Len(Contained) - Len(item.after))

AroundIsKept ==
  /\ SubSeq(Contained, 1, Len(item.before)) = item.before
  /\ SubSeq(Contained, Len(Contained) - Len(item.after) + 1, Len(Contained)) = item.after

\* The text t without n characters of padding, where the alignment puts them.
Unpadded(t, n, align) ==
  LET left == CASE align = "left" -> 0 [] align = "center" -> n \div 2 [] OTHER -> n
  IN  SubSeq(t, left + 1, Len(t) - (n - left))
PaddingOf(t, n, align) ==
  LET left == CASE align = "left" -> 0 [] align = "center" -> n \div 2 [] OTHER -> n
  IN  SubSeq(t, 1, left) \o SubSeq(t, Len(t) - (n - left) + 1, Len(t))

ReadIn(base, chars) == FoldLeft(LAMBDA n, c : n * base + ValueOfChar(c), 0, chars)
IsSeparator(c) == c = ","
AreDigits(chars) == \A i \in DOMAIN chars : chars[i] \in ToSet(digitChars) \cup ToSet(upperDigits)

\* How many digits stand behind the separators of a number of n digits.
SeparatedAt(n, groups) ==
  LET Sum(j) == FoldLeft(LAMBDA s, i : s + groups[AtMost(i, Len(groups))], 0, [i \in 1 .. j |-> i])
      ends == {j \in 1 .. n : \A i \in 1 .. j : groups[AtMost(i, Len(groups))] > 0}
  IN  IF groups = <<>> THEN {} ELSE {Sum(j) : j \in ends} \cap 1 .. n - 1

BasePrefixes(specs) ==
  CASE specs.alt /\ specs.type \in {"x", "X", "b", "B"} -> {<<"0", specs.type>>}
    [] specs.alt /\ specs.type = "o" -> {<<>>, <<"0">>}
    [] OTHER -> {<<>>}

IntegerReads(body) ==
  LET base == IF item.specs.type \in DOMAIN bitsOf THEN 2 ^ bitsOf[item.specs.type] ELSE 10
      digits == SelectSeq(body, LAMBDA c : ~IsSeparator(c))
      behind(i) == Cardinality({j \in i + 1 .. Len(body) : ~IsSeparator(body[j])})
  IN  /\ digits # <<>> /\ AreDigits(digits)
      /\ ReadIn(base, digits) = IF item.value < 0 THEN -item.value ELSE item.value
      /\ {behind(i) : i \in {j \in DOMAIN body : IsSeparator(body[j])}}
           = SeparatedAt(Cardinality({i \in DOMAIN digits : \E j \in 1 .. i : digits[j] # "0"}),
                         item.groups)
      /\ Len(digits) <= AtLeast(1, item.specs.precision) \/ digits[1] # "0"

(***************************************************************************)
(* The text of an integer reads back as that integer in its base, the      *)
(* smallest one too, with its sign and prefix first, its separators where  *)
(* the locale wants them and no digit more than its precision asks for; it *)
(* is as wide as asked and aligned, and every character counted and        *)
(* reserved for it is written, beside the texts around it, in whichever    *)
(* memory the buffer has got to                                            *)
(* (format.h:604-685,744-932,1393-1652; core.h:571-644).                   *)
(***************************************************************************)
IntegerTextExact ==
  (numPc = "done" /\ item.kind = "int") =>
    /\ AroundIsKept
    /\ LET specs == item.specs
           prefix == work.prefix
           t == NumberPart
       IN  /\ Len(t) >= specs.width
           /\ prefix \in {SignPrefix(item.value, specs.sign) \o base : base \in BasePrefixes(specs)}
           /\ \E n \in 0 .. specs.width :
                /\ n > 0 => Len(t) = specs.width
                /\ LET numeric == specs.align = "numeric"
                       number == IF numeric THEN t ELSE Unpadded(t, n, specs.align)
                       body == SubSeq(number, Len(prefix) + 1 + (IF numeric THEN n ELSE 0), Len(number))
                       padding == IF numeric THEN SubSeq(t, Len(prefix) + 1, Len(prefix) + n)
                                  ELSE PaddingOf(t, n, specs.align)
                   IN  /\ \A i \in DOMAIN padding : padding[i] = specs.fill
                       /\ SubSeq(number, 1, Len(prefix)) = prefix
                       /\ specs.precision > 0 /\ ~numeric => Len(body) >= specs.precision
                       /\ IntegerReads(body)
                       /\ specs.alt /\ specs.type = "o" /\ item.value # 0 =>
                            number[1 + Len(SignPrefix(item.value, specs.sign))] = "0"

-----------------------------------------------------------------------------
PlacesOf(chars, t) == {i \in DOMAIN t : t[i] \in chars}

\* A number without its sign: its digits, how many of them are behind the point,
\* and its exponent.
ReadFloat(t) ==
  LET e == PlacesOf({"e", "E"}, t)
      mantissa == IF e = {} THEN t ELSE SubSeq(t, 1, (CHOOSE i \in e : TRUE) - 1)
      power == IF e = {} THEN <<"+", "0">> ELSE SubSeq(t, (CHOOSE i \in e : TRUE) + 1, Len(t))
      point == PlacesOf({"."}, mantissa)
      digits == SelectSeq(mantissa, LAMBDA c : c # ".")
  IN  [legal |-> /\ Cardinality(e) <= 1 /\ Cardinality(point) <= 1 /\ digits # <<>>
                 /\ \A i \in DOMAIN digits : digits[i] \in ToSet(SubSeq(digitChars, 1, 10))
                 /\ mantissa[1] # ".",
       digits |-> digits,
       decimals |-> IF point = {} THEN 0 ELSE Len(mantissa) - (CHOOSE i \in point : TRUE),
       scientific |-> e # {},
       power |-> LET n == ReadIn(10, Tail(power)) IN IF power[1] = "-" THEN -n ELSE n]

\* The significant digits and the power of ten of the first.
Significant(digits, decimals, power) ==
  LET nonzero == {i \in DOMAIN digits : digits[i] # "0"}
      first == CHOOSE i \in nonzero : \A j \in nonzero : i <= j
  IN  IF nonzero = {} THEN [digits |-> <<>>, power |-> 0]
      ELSE [digits |-> WithoutZeros(SubSeq(digits, first, Len(digits)), 0),
            power |-> Len(digits) - decimals - first + power]

RoundedTo(f, s) ==
  LET r == ToDigits(f, s) IN
  IF f.m = 0 THEN [digits |-> <<>>, power |-> 0]
  ELSE [digits |-> WithoutZeros(r.digits, 0), power |-> r.power]

FloatReads(t) ==
  LET f == item.number
      format == FloatSpecsOf(item.specs, item.negative).format
      given == item.specs.precision
      p == IF given = -1 /\ item.specs.type # "" THEN 6 ELSE given
      r == ReadFloat(t)
      found == Significant(r.digits, r.decimals, r.power)
      meant == IF p = -1 THEN RoundedTo(f, 7) ELSE RoundedTo(f, AtLeast(1, p))
  IN  /\ r.legal
      /\ CASE format = "fixed" ->
                r.decimals = p /\ ~r.scientific /\ ReadIn(10, r.digits) = ToDecimals(f, p)
           [] format = "exp" ->
                r.decimals = p /\ r.scientific /\ found = RoundedTo(f, p + 1)
           [] format = "general" ->
                /\ found = meant
                /\ r.scientific = (meant.power \notin -4 .. (IF p > 0 THEN p ELSE 16) - 1)

\* snprintf was asked for a precision of 0 in a way that is read wrongly.
LibraryMisread ==
  /\ work.byLibrary /\ work.fspecs.precision = 0
  /\ work.fspecs.format = "general" \/ work.fspecs.trailing_zeros

\* A small number in general format lost zeros to its precision.
ZerosLost ==
  LET full_exp == Len(work.digits) + work.exp
  IN  /\ work.fspecs.format = "general" /\ ~TakesExponent(work.fspecs, full_exp)
      /\ work.fspecs.precision \in 0 .. -full_exp - 1

(***************************************************************************)
(* The text of a floating-point number reads back as the number rounded to *)
(* its precision: to the decimals of fixed format, to the digits of the    *)
(* others, and to itself without a precision; there is an exponent exactly *)
(* where the format wants one, whether the digits were generated or taken  *)
(* from snprintf, through a carry into a new digit and down to a number    *)
(* that rounds to zero.  Left out are the numbers the code gets wrong: at a*)
(* tie "{:#.0f}" gets two points and "{:.0g}" all digits, because what     *)
(* snprintf gives is misread, and "{:.1g}" of 0.001 is 0.01 (format.h:     *)
(* 1059-1183,1673-1724; format-inl.h:784-916,1044-1216).                   *)
(***************************************************************************)
FloatTextExact ==
  (numPc = "done" /\ item.kind = "float") =>
    LET specs == item.specs
        t == NumberPart
        sign == SignText(FloatSpecsOf(specs, item.negative).sign)
    IN  /\ AroundIsKept
        /\ Len(t) >= specs.width
        /\ ~Finite => \E left \in 0 .. Len(t) :
             SubSeq(t, left + 1, left + Len(sign) + 3)
               = sign \o NonfiniteName(item.number.special, work.fspecs.upper)
        /\ (Finite /\ ~LibraryMisread /\ ~ZerosLost) =>
             \E n \in 0 .. specs.width :
               /\ n > 0 => Len(t) = specs.width
               /\ LET numeric == specs.align = "numeric"
                      number == IF numeric THEN SubSeq(t, 1, Len(sign)) \o SubSeq(t, Len(sign) + n + 1, Len(t))
                                ELSE Unpadded(t, n, specs.align)
                      padding == IF numeric THEN SubSeq(t, Len(sign) + 1, Len(sign) + n)
                                 ELSE PaddingOf(t, n, specs.align)
                  IN  /\ \A i \in DOMAIN padding : padding[i] = specs.fill
                      /\ SubSeq(number, 1, Len(sign)) = sign
                      /\ FloatReads(SubSeq(number, Len(sign) + 1, Len(number)))

=============================================================================
