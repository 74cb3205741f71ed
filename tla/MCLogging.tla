----------------------------- MODULE MCLogging -----------------------------
(* The inputs Logging is checked with: patterns with every kind of flag,   *)
(* padding and truncation, format strings with every kind of field, some   *)
(* of them wrong, over arguments of different types, and numbers.          *)
EXTENDS Logging

MCPatterns == {
  <<"[", "%", "Y", "%", "m", "%", "d", " ", "%", "H", ":", "%", "M", ":", "%", "S", ".",
    "%", "e", " ", "%", "s", ":", "%", "#", "]", " ", "%", "^", "[", "%", "L", "]", "%", "$",
    ":", " ", "%", "v">>,
  <<"%", "+">>,
  <<"a", "%", "^", "b", "%", "+">>,
  <<"%", "3", "v", "%", "-", "3", "v", "%", "=", "4", "v", "|">>,
  <<"%", "2", "!", "v", "%", "=", "1", "!", "H", "%", "-", "3", "!", "n", "%", "9", "9", "s",
    "%">>,
  <<"x", "%", "1", "!", "D">>,
  <<"%", "1", "!", "c">>,
  <<"%", "z", "%", "o", "%", "u", "%", "i", "%", "O", "%", "E">>,
  <<"%", "-", "k", "%", "%", "%", "h", "%", "x", "%", "X", "%", "=", "7", "@">>,
  <<"%", "n", "%", "l", "%", "t", "%", "a", "%", "A", "%", "b", "%", "B", "%", "c", "%", "C",
    "%", "D", "%", "I", "%", "f", "%", "F", "%", "p", "%", "r", "%", "R", "%", "P", "%", "g",
    "%", "!">> }

MCFieldSpecs ==
  {w \in [fill : {"default", "<"}, align : {"none", "left", "numeric"},
          sign : {"none", "minus", "plus"}, alt : BOOLEAN, zero : BOOLEAN,
          width : {0, 3}, precision : {-1, 0, 2}, type : {"", "d", "s"}] :
     w.align = "none" => w.fill = "default"}

MCPieces == {
  <<"a">>, <<"}", "}">>, <<"{", "{">>, <<"}">>, <<"{">>,
  <<"{", "}">>, <<"{", "0", "}">>, <<"{", "1", "}">>, <<"{", "4", "}">>,
  <<"{", "n", "}">>, <<"{", "p", "}">>, <<"{", "0", "0", "}">>, <<"{", "!", "}">>,
  <<"{", ":", "{", "}", "}">>, <<"{", ":", "{", "n", "}", "}">>, <<"{", ":", ".", "{", "}", "f", "}">>,
  <<"{", "1", ":", "{", "0", "}", ".", "{", "1", "}", "}">>,
  <<"{", ":", "3", "{", "}">>, <<"{", ":", "{", "<", "3", "}">>, <<"{", ":", "4", "4", "4", "}">>,
  <<"{", ":", ".", "}">>, <<"{", ":">>, <<"{", ":", "}", "<", "3", "}">>, <<"{", ":", "c", "}">> }

Arg(t, v)   == [type |-> t, value |-> v, name |-> <<>>]
Named(t, v) == [Arg(t, v) EXCEPT !.name = <<"n">>]

MCArgLists == {
  <<>>,
  <<Arg("int", -1)>>,
  <<Arg("string", 0)>>,
  <<Arg("int", 3), Named("int", 4)>>,
  <<Arg("double", 0), Arg("int", 2), Arg("string", 0)>>,
  <<Arg("bool", 1), Arg("char", 0), Named("uint", 2)>> }

\* Specifiers with every alignment, sign and base, and numbers at the edges of an
\* int of 12 bits, of a count of digits and of a rounding.
Layout(fill, align, sign, width) == [fill |-> fill, align |-> align, sign |-> sign, width |-> width]

MCLayouts == {
  Layout(" ", "none", "none", 0), Layout("0", "numeric", "plus", 9),
  Layout("*", "center", "space", 8), Layout("*", "left", "minus", 5) }

Specs(l, alt, precision, type) ==
  [fill |-> l.fill, align |-> l.align, sign |-> l.sign, width |-> l.width,
   alt |-> alt, precision |-> precision, type |-> type]

MCIntSpecs ==
  {Specs(l, alt, p, t) : l \in MCLayouts, alt \in BOOLEAN, p \in {-1, 3},
                         t \in {"", "X", "o", "B", "n"}}

MCFloatSpecs ==
  {Specs(l, alt, p, t) : l \in MCLayouts, alt \in BOOLEAN, p \in {-1, 0, 1, 4},
                         t \in {"", "g", "f", "E"}}

MCGroupings  == {<<>>, <<3>>, <<1, 2>>, <<2, 0>>}
MCIntNumbers == {0, 10, 99, 100, 999, 1234, -1, -2048}

Decimal(m, k) == [special |-> "no", m |-> m, k |-> k]
Special(name) == [special |-> name, m |-> 0, k |-> 0]

MCFloatNumbers ==
  {Decimal(m, k) : m \in {5, 25, 996}, k \in {0, 1, 3, 6}}
  \cup {Decimal(0, 0), Special("inf"), Special("nan")}

MCLiterals == {<<"T", "e">>}

=============================================================================
