---------------------------- MODULE IntegerParser ----------------------------
(***************************************************************************)
(* How cxxopts reads an int from a text (include/cxxopts.hpp,              *)
(* integer_parser): one character at a time into an unsigned number that   *)
(* wraps, with a test for the wrap, then the sign.                         *)
(*                                                                         *)
(* A text is what integer_pattern makes of it: a minus, a "0x" and the     *)
(* characters after them, each the digit it stands for.                    *)
(***************************************************************************)
EXTENDS Integers, SequencesExt

CONSTANTS
  WordSpace,  \* values of an unsigned int (2^32)
  Digits,     \* the characters a text is made of
  MaxDigits   \* bound: how many of them

NoDigit == 99  \* a letter that is no digit, as "z"
NoMatch == 98  \* a character that is neither, as "."

ASSUME IntegerAssumption ==
  /\ WordSpace \in Nat \ {0} /\ WordSpace % 2 = 0
  /\ Digits \subseteq 0 .. 15 \cup {NoDigit, NoMatch}

VARIABLES
  ipPc,    \* "idle", "digits", "sign", "parsed" or "thrown"
  input,    \* the text given
  iter,    \* characters read
  result,  \* US result
  value    \* T& value

integerVars == <<ipPc, input, iter, result, value>>

IntegerInit ==
  /\ ipPc = "idle"
  /\ input = [negative |-> FALSE, hex |-> FALSE, digits |-> <<>>]
  /\ iter = 0 /\ result = 0 /\ value = 0

\* The text is written character by character.
GiveCharacter ==
  /\ ipPc = "idle" /\ Len(input.digits) < MaxDigits
  /\ \E d \in Digits : input' = [input EXCEPT !.digits = Append(@, d)]
  /\ UNCHANGED <<ipPc, iter, result, value>>

\* The pattern takes letters and digits, and at least one.  Its second
\* alternative, a zero, never is the one that matches; a "0x" that nothing
\* follows is digits of base 10.
MatchPattern ==
  /\ ipPc = "idle"
  /\ \E minus, hex \in BOOLEAN :
       /\ hex => input.digits # <<>>
       /\ input' = [input EXCEPT !.negative = minus, !.hex = hex]
  /\ LET chars == ToSet(input.digits)
     IN ipPc' = IF chars # {} /\ NoMatch \notin chars THEN "digits" ELSE "thrown"
  /\ UNCHANGED <<iter, result, value>>

base == IF input.hex THEN 16 ELSE 10

IntegerThrows ==
  /\ ipPc' = "thrown"
  /\ UNCHANGED <<input, iter, result, value>>

\* Mutant: without the test for the wrap.
ReadDigitUnchecked ==
  /\ ipPc = "digits" /\ iter < Len(input.digits)
  /\ LET digit == input.digits[iter + 1]
     IN IF digit >= base
          THEN IntegerThrows
          ELSE /\ result' = (result * base + digit) % WordSpace
               /\ iter' = iter + 1
               /\ UNCHANGED <<ipPc, input, value>>

\* Letters are digits of base 16 only; a number that got smaller has wrapped.
ReadDigit ==
  /\ ipPc = "digits" /\ iter < Len(input.digits)
  /\ LET digit == input.digits[iter + 1]
         next == (result * base + digit) % WordSpace
     IN IF digit >= base \/ result > next
          THEN IntegerThrows
          ELSE /\ result' = next
               /\ iter' = iter + 1
               /\ UNCHANGED <<ipPc, input, value>>

EndDigits ==
  /\ ipPc = "digits" /\ iter = Len(input.digits)
  /\ ipPc' = "sign"
  /\ UNCHANGED <<input, iter, result, value>>

AsSigned(u) == IF u >= WordSpace \div 2 THEN u - WordSpace ELSE u

\* check_signed_range
OutOfRange(negative, u) == u > IF negative THEN WordSpace \div 2 ELSE WordSpace \div 2 - 1

\* checked_negate takes one off before the cast, and again after it.
ApplySign ==
  /\ ipPc = "sign"
  /\ IF OutOfRange(input.negative, result)
       THEN IntegerThrows
       ELSE /\ value' = IF input.negative
                          THEN -AsSigned((result - 1) % WordSpace) - 1
                          ELSE AsSigned(result)
            /\ ipPc' = "parsed"
            /\ UNCHANGED <<input, iter, result>>

IntegerStep == GiveCharacter \/ MatchPattern \/ ReadDigit \/ EndDigits \/ ApplySign

-----------------------------------------------------------------------------
\* The number a text of digits stands for.
NumberOf(digits, radix) == FoldLeft(LAMBDA n, d : n * radix + d, 0, digits)
Magnitude == NumberOf(input.digits, base)
Meant == IF input.negative THEN -Magnitude ELSE Magnitude

\* A digit at least, and none that the base does not have.
WellFormed == input.digits # <<>> /\ \A d \in ToSet(input.digits) : d < base

(***************************************************************************)
(* A text is read only if it is digits of its base, and refused, whether   *)
(* by the pattern, at a digit, by the test for the wrap or for its sign,   *)
(* only if it is not or if its number does not fit the signed type.  What  *)
(* is read is the number written if that fits the unsigned type, and the   *)
(* test for the wrap keeps out the numbers just past it, up to 10/9 of it  *)
(* (16/15 of base 16), which one digit takes past the end and round to     *)
(* less than they were.  Of larger ones it misses some: 9999999999 is read *)
(* as 1410065407.  (cxxopts.hpp:483-529,543-608)                           *)
(***************************************************************************)
IntegerExact ==
  /\ ipPc = "parsed" =>
       /\ WellFormed
       /\ Magnitude < WordSpace => value = Meant
       /\ Magnitude >= WordSpace => Magnitude >= WordSpace + Magnitude \div base
  /\ (ipPc = "thrown" /\ WellFormed) =>
       Meant \notin -(WordSpace \div 2) .. WordSpace \div 2 - 1

=============================================================================
