---------------------------- MODULE FormatString ----------------------------
(***************************************************************************)
(* What fmt does with a format string and its arguments                    *)
(* (src/include/spdlog/fmt/bundled: core.h, format.h, compile.h).  One     *)
(* parser gives what it finds to one of four handlers: the one that writes *)
(* at once (format_handler), the one that compiles the string to parts     *)
(* (format_string_compiler), the one that counts them (part_counter) and   *)
(* the one of compile time, which only checks (format_string_checker).  A  *)
(* compiled string is formatted later.                                     *)
(*                                                                         *)
(* A behaviour takes one string through all of them.  The text of a        *)
(* replacement field is the record of its argument and its specifiers.     *)
(***************************************************************************)
EXTENDS Integers, Sequences, SequencesExt, FiniteSets

CONSTANTS
  FieldSpecs,    \* specifiers, as records, that fields are written with
  Pieces,        \* pieces of the other strings
  MaxPieces,     \* bound: pieces of a string
  ArgLists,      \* sequences of arguments
  MaxPackedArgs, \* max_packed_args: 12
  MaxInt         \* bound: the largest int

\* What a character of a format string can be here.
digitOf == [c \in {"0", "1", "2", "3", "4"} |->
              CASE c = "0" -> 0 [] c = "1" -> 1 [] c = "2" -> 2 [] c = "3" -> 3 [] c = "4" -> 4]
IsDigit(c) == c \in DOMAIN digitOf
is_name_start(c) == c \in {"a", "d", "s", "x", "f", "c", "p", "n", "e", "_"}

VARIABLES
  fsPc,       \* whose turn it is: "idle", "count", "check", "direct", "compile", "run", "done"
  fsStr,      \* format_str
  fsWritten,  \* the specifiers it was written from, if it was
  fsArgs,     \* the format_arg_store
  fsAt,       \* how far the string is parsed, or the parts are formatted
  field,      \* the replacement field being parsed
  handler,    \* the handler whose turn it is
  results     \* what the handlers before it came to

formatStringVars == <<fsPc, fsStr, fsWritten, fsArgs, fsAt, field, handler, results>>

\* next_arg_id_, the argument of the field, the output or the parts, and what
\* the handler threw.
NewHandler == [next_arg_id_ |-> 0, arg |-> <<>>, out |-> <<>>, threw |-> "nothing"]
HandlerNames == <<"count", "check", "direct", "compile", "run", "done">>
NoSpecs == [fill |-> " ", align |-> "none", sign |-> "none", alt |-> FALSE,
            width |-> 0, precision |-> -1, type |-> "", widthRef |-> <<>>, precisionRef |-> <<>>]

\* What is to be done for it next, its argument, and its specifiers so far.
NoField == [stage |-> "none", arg |-> <<>>, found |-> NoSpecs, at |-> 0, bad |-> FALSE,
            hasSpecs |-> FALSE]

FormatStringInit ==
  /\ fsPc = "idle" /\ fsStr = <<>> /\ fsWritten = <<>> /\ fsArgs = <<>> /\ fsAt = 1
  /\ field = NoField /\ handler = NewHandler /\ results = <<>>

-----------------------------------------------------------------------------
(* Arguments: their types are packed into one number if they are few.      *)

TypeNumber == [none |-> 0, named_arg |-> 1, int |-> 2, uint |-> 3, long_long |-> 4, bool |-> 8,
               char |-> 9, double |-> 11, cstring |-> 13, string |-> 14, pointer |-> 15]
is_integral_type(t) == TypeNumber[t] \in 1 .. TypeNumber["char"]
is_arithmetic_type(t) == TypeNumber[t] \in 1 .. 12
packed_arg_bits == 5

NoArg == [type |-> "none", value |-> 0, name |-> <<>>]

\* arg_mapper gives a named argument a type of its own.
MappedType(a) == IF a.name = <<>> THEN a.type ELSE "named_arg"

format_arg_store(args) ==
  LET packed == Len(args) < MaxPackedArgs IN
  [is_packed |-> packed, data_ |-> args,
   types |-> IF packed
               THEN FoldRight(LAMBDA a, n : TypeNumber[MappedType(a)] + n * 2 ^ packed_arg_bits,
                              args, 0)
               ELSE Len(args)]

TypeAt(store, i) == (store.types \div 2 ^ (i * packed_arg_bits)) % 2 ^ packed_arg_bits

\* basic_format_args::get; an argument that is not there has no type.
GetArg(store, i) ==
  IF store.is_packed
    THEN IF i > MaxPackedArgs \/ TypeAt(store, i) = TypeNumber["none"] THEN NoArg
         ELSE store.data_[i + 1]
    ELSE IF i < store.types THEN store.data_[i + 1] ELSE NoArg

\* arg_map: the first argument of that name.
FindArg(store, name) ==
  LET named == SelectSeq(store.data_, LAMBDA a : a.name = name)
  IN  IF named = <<>> THEN NoArg ELSE named[1]

ArgOf(store, ref) ==
  IF ref.kind = "index" THEN GetArg(store, ref.index) ELSE FindArg(store, ref.name)

AutoRef == [kind |-> "auto", index |-> 0, name |-> <<>>]
IndexRef(i) == [kind |-> "index", index |-> i, name |-> <<>>]
NameRef(n) == [kind |-> "name", index |-> 0, name |-> n]

-----------------------------------------------------------------------------
(* Parsing.  A parser returns what it found, where it stopped and whether   *)
(* it found an error.                                                      *)

Char(s, at) == IF at <= Len(s) THEN s[at] ELSE "end"

\* The first place at or after at whose character is not in chars.
Past(s, at, chars) ==
  CHOOSE p \in at .. Len(s) + 1 :
    /\ \A i \in at .. p - 1 : s[i] \in chars
    /\ Char(s, p) \notin chars

Names == {"a", "d", "s", "x", "f", "c", "p", "n", "e", "_"} \cup DOMAIN digitOf

parse_nonnegative_int(s, at) ==
  IF s[at] = "0" THEN [found |-> 0, at |-> at + 1, bad |-> FALSE]
  ELSE LET past == Past(s, at, DOMAIN digitOf)
           n == FoldLeft(LAMBDA v, c : v * 10 + digitOf[c], 0, SubSeq(s, at, past - 1))
       IN  [found |-> n, at |-> past, bad |-> n > MaxInt]

parse_arg_id(s, at) ==
  LET c == Char(s, at) IN
  CASE c \in {"}", ":"} -> [found |-> AutoRef, at |-> at, bad |-> FALSE]
    [] IsDigit(c) -> LET n == parse_nonnegative_int(s, at)
                     IN  [found |-> IndexRef(n.found), at |-> n.at,
                          bad |-> n.bad \/ Char(s, n.at) \notin {"}", ":"}]
    [] is_name_start(c) -> LET past == Past(s, at, Names)
                           IN  [found |-> NameRef(SubSeq(s, at, past - 1)), at |-> past,
                                bad |-> FALSE]
    [] OTHER -> [found |-> AutoRef, at |-> at, bad |-> TRUE]

aligns == [c \in {"<", ">", "=", "^"} |->
             CASE c = "<" -> "left" [] c = ">" -> "right" [] c = "=" -> "numeric"
               [] c = "^" -> "center"]

\* The steps of parse_format_specs, from the specifiers found so far.
Found(p, specs, at) == [p EXCEPT !.found = specs, !.at = at]
Wrong(p) == [p EXCEPT !.bad = TRUE]

\* The alignment may be the second character, and the first the fill.
parse_align(p, s) ==
  CASE Char(s, p.at + 1) \in DOMAIN aligns ->
         IF s[p.at] = "{" THEN Wrong(p)
         ELSE Found(p, [p.found EXCEPT !.fill = s[p.at], !.align = aligns[s[p.at + 1]]], p.at + 2)
    [] Char(s, p.at + 1) \notin DOMAIN aligns /\ s[p.at] \in DOMAIN aligns ->
         Found(p, [p.found EXCEPT !.align = aligns[s[p.at]]], p.at + 1)
    [] OTHER -> p

ParseSign(p, s) ==
  LET c == Char(s, p.at) IN
  IF c \in {"+", "-", " "}
    THEN Found(p, [p.found EXCEPT !.sign = CASE c = "+" -> "plus" [] c = "-" -> "minus"
                                             [] c = " " -> "space"], p.at + 1)
    ELSE p

ParseHash(p, s) ==
  IF Char(s, p.at) = "#" THEN Found(p, [p.found EXCEPT !.alt = TRUE], p.at + 1) ELSE p

\* The zero flag overrides fill and alignment.
ParseZero(p, s) ==
  IF Char(s, p.at) = "0"
    THEN Found(p, [p.found EXCEPT !.align = "numeric", !.fill = "0"], p.at + 1)
    ELSE p

\* The argument in braces of a dynamic width or precision.
ParseRef(s, at) ==
  IF Char(s, at) = "end" THEN [found |-> AutoRef, at |-> at, bad |-> TRUE]
  ELSE LET id == parse_arg_id(s, at)
       IN  IF Char(s, id.at) = "}" THEN [id EXCEPT !.at = id.at + 1] ELSE Wrong(id)

parse_width(p, s) ==
  LET c == Char(s, p.at) IN
  CASE IsDigit(c) -> LET n == parse_nonnegative_int(s, p.at) IN
                     IF n.bad THEN Wrong(p) ELSE Found(p, [p.found EXCEPT !.width = n.found], n.at)
    [] c = "{" -> LET ref == ParseRef(s, p.at + 1) IN
                  IF ref.bad THEN Wrong(p)
                  ELSE Found(p, [p.found EXCEPT !.widthRef = <<ref.found>>], ref.at)
    [] OTHER -> p

parse_precision(p, s) ==
  LET c == Char(s, p.at + 1) IN
  CASE Char(s, p.at) # "." -> p
    [] Char(s, p.at) = "." /\ IsDigit(c) ->
         LET n == parse_nonnegative_int(s, p.at + 1) IN
         IF n.bad THEN Wrong(p) ELSE Found(p, [p.found EXCEPT !.precision = n.found], n.at)
    [] Char(s, p.at) = "." /\ c = "{" ->
         LET ref == ParseRef(s, p.at + 2) IN
         IF ref.bad THEN Wrong(p)
         ELSE Found(p, [p.found EXCEPT !.precisionRef = <<ref.found>>], ref.at)
    [] OTHER -> Wrong(p)

ParseType(p, s) ==
  IF Char(s, p.at) \in {"}", "end"} THEN p
  ELSE Found(p, [p.found EXCEPT !.type = s[p.at]], p.at + 1)

Then(p, Step(_, _), s) == IF p.bad \/ Char(s, p.at) = "end" THEN p ELSE Step(p, s)

\* parse_format_specs, up to the zero flag and from there on.
parse_flags(p, s) == Then(Then(Then(Then(p, parse_align, s), ParseSign, s), ParseHash, s), ParseZero, s)
parse_sizes(p, s) == Then(Then(Then(p, parse_width, s), parse_precision, s), ParseType, s)

-----------------------------------------------------------------------------
(* What the handlers have in common.                                       *)

Throw(h, what) == [h EXCEPT !.threw = what]
Threw(h) == h.threw # "nothing"

next_arg_id(h) ==
  IF h.next_arg_id_ < 0 THEN Throw(h, "indexing")
  ELSE [h EXCEPT !.next_arg_id_ = h.next_arg_id_ + 1, !.arg = IndexRef(h.next_arg_id_)]

check_arg_id(h, ref) ==
  IF ref.kind = "name" THEN [h EXCEPT !.arg = ref]
  ELSE IF h.next_arg_id_ > 0 THEN Throw(h, "indexing")
  ELSE [h EXCEPT !.next_arg_id_ = -1, !.arg = ref]

\* The argument ref means, as the handler's arg.
TakeId(h, ref) == IF ref.kind = "auto" THEN next_arg_id(h) ELSE check_arg_id(h, ref)

\* numeric_specs_checker
SpecsFit(specs, t) ==
  /\ (specs.align = "numeric" \/ specs.alt) => is_arithmetic_type(t)
  /\ specs.sign # "none" =>
       is_arithmetic_type(t) /\ (is_integral_type(t) => t \in {"int", "long_long", "char"})
  /\ (specs.precision >= 0 \/ specs.precisionRef # <<>>) =>
       ~is_integral_type(t) /\ t # "pointer"

intTypes == {"", "d", "x", "b", "o", "n"}

\* handle_int_type_spec, handle_char_specs, parse_float_type_spec and the rest.
TypeFits(specs, t) ==
  CASE t \in {"int", "uint", "long_long", "bool"} -> specs.type \in intTypes
    [] t = "char" -> IF specs.type \notin {"", "c"} THEN specs.type \in intTypes
                     ELSE specs.align # "numeric" /\ specs.sign = "none" /\ ~specs.alt
    [] t = "double" -> specs.type \in {"", "g", "e", "f", "a", "n"}
    [] t = "cstring" -> specs.type \in {"", "s", "p"}
    [] t = "string" -> specs.type \in {"", "s"}
    [] t = "pointer" -> specs.type \in {"", "p"}
    [] OTHER -> TRUE

\* get_dynamic_spec with width_checker or precision_checker.
DynamicFits(a) ==
  a.type \in {"int", "uint", "long_long"} /\ a.value >= 0 /\ a.value <= MaxInt

FieldText(a, specs) == [arg |-> a, specs |-> specs]
Write(h, item) == [h EXCEPT !.out = Append(h.out, item)]

-----------------------------------------------------------------------------
(* format_handler: on_arg_id and on_format_specs.                          *)

DirectArg(h, ref) ==
  LET t == TakeId(h, ref) IN
  IF Threw(t) THEN t
  ELSE IF ArgOf(fsArgs, t.arg) = NoArg THEN Throw(t, "missing") ELSE t

\* A dynamic width or precision, taken from its argument at once.
DirectRef(h, ref) ==
  LET t == DirectArg(h, ref) IN
  IF t.threw # "nothing" \/ ~DynamicFits(ArgOf(fsArgs, t.arg)) THEN Throw(t, "dynamic") ELSE t

\* Specifiers with the dynamic width and precision they refer to.
Resolved(specs) ==
  [specs EXCEPT
     !.width = IF specs.widthRef = <<>> THEN specs.width ELSE ArgOf(fsArgs, specs.widthRef[1]).value,
     !.precision = IF specs.precisionRef = <<>> THEN specs.precision
                   ELSE ArgOf(fsArgs, specs.precisionRef[1]).value,
     !.widthRef = <<>>, !.precisionRef = <<>>]

DirectField(h, a, specs) ==
  IF ~SpecsFit(specs, a.type) \/ ~TypeFits(specs, a.type) THEN Throw(h, "type")
  ELSE Write(h, FieldText(a, Resolved(specs)))

(* format_string_checker with formatter::parse.                            *)

CheckArg(h, ref) ==
  IF ref.kind = "name" THEN Throw(h, "named")
  ELSE LET t == TakeId(h, ref) IN
       IF ~Threw(t) /\ t.arg.index >= Len(fsArgs.data_) THEN Throw(t, "missing") ELSE t

\* Mutant: an automatic width does not use up an argument.
MakeRefAgain(h, ref) == [TakeId(h, ref) EXCEPT !.next_arg_id_ = h.next_arg_id_]

\* dynamic_specs_handler::make_arg_ref: no argument is looked at.
MakeRef(h, ref) == TakeId(h, ref)

CheckField(h, a, specs) ==
  IF ~SpecsFit(specs, a.type) \/ ~TypeFits(specs, a.type) THEN Throw(h, "type") ELSE h

(* format_string_compiler.                                                 *)

CompileField(h) ==
  Write(h, [kind |-> IF field.hasSpecs THEN "replacement" ELSE "arg", arg |-> field.arg,
            specs |-> field.found])

\* part_counter skips to the brace that matches.
MatchingBrace(s, at) ==
  LET Depth(p) == Cardinality({i \in at .. p : s[i] = "{"})
                  - Cardinality({i \in at .. p : s[i] = "}"})
      ends == {p \in at .. Len(s) : s[p] = "}" /\ Depth(p) = -1}
  IN  IF ends = {} THEN Len(s) + 1 ELSE CHOOSE p \in ends : \A q \in ends : p <= q

-----------------------------------------------------------------------------
(* parse_format_string with the handler whose turn it is.                  *)

OnText(h, text) ==
  CASE fsPc = "direct" -> [h EXCEPT !.out = h.out \o text]
    [] fsPc = "compile" -> Write(h, [kind |-> "text", text |-> text])
    [] fsPc = "count" -> Write(h, "part")
    [] fsPc = "check" -> h

OnArgId(h, ref) ==
  CASE fsPc = "direct" -> DirectArg(h, ref)
    [] fsPc = "compile" -> TakeId(h, ref)
    [] fsPc = "count" -> Write(h, "part")
    [] fsPc = "check" -> CheckArg(h, ref)

OnRef(h, ref) == IF fsPc = "direct" THEN DirectRef(h, ref) ELSE MakeRef(h, ref)

OnField(h, a) ==
  CASE fsPc = "direct" -> DirectField(h, a, field.found)
    [] fsPc = "compile" -> CompileField(h)
    [] fsPc = "count" -> h
    [] fsPc = "check" -> IF field.hasSpecs THEN CheckField(h, a, field.found) ELSE h

Parsing == fsPc \in {"count", "check", "direct", "compile"} /\ ~Threw(handler)
Between == Parsing /\ field.stage = "none"

Became(h, at) == handler' = h /\ fsAt' = IF Threw(h) THEN fsAt ELSE at

inputVars == <<fsPc, fsStr, fsWritten, fsArgs, results>>

\* Text up to a brace; of two closing braces one is text.  The counter goes
\* on after an error.
ParseText ==
  /\ Between /\ Char(fsStr, fsAt) \notin {"{", "end"}
  /\ LET brace == CHOOSE p \in fsAt .. Len(fsStr) + 1 :
                    Char(fsStr, p) \in {"{", "end"} /\ \A i \in fsAt .. p - 1 : fsStr[i] # "{"
         close == {p \in fsAt .. brace - 1 : fsStr[p] = "}"}
         q == CHOOSE p \in close : \A i \in close : p <= i
     IN  \/ /\ close = {}
            /\ Became(OnText(handler, SubSeq(fsStr, fsAt, brace - 1)), brace)
         \/ /\ close # {} /\ q + 1 \in close
            /\ Became(OnText(handler, SubSeq(fsStr, fsAt, q)), q + 2)
         \/ /\ close # {} /\ q + 1 \notin close
            /\ Became(IF fsPc = "count" THEN handler ELSE Throw(handler, "syntax"), brace)
  /\ UNCHANGED <<field, inputVars>>

ParseBraces ==
  /\ Between /\ Char(fsStr, fsAt) = "{" /\ Char(fsStr, fsAt + 1) = "{"
  /\ Became(OnText(handler, <<"{">>), fsAt + 2)
  /\ UNCHANGED <<field, inputVars>>

\* A field begins: its argument, and whether there are specifiers.
ParseArg ==
  /\ Between /\ Char(fsStr, fsAt) = "{" /\ Char(fsStr, fsAt + 1) # "{"
  /\ LET id == parse_arg_id(fsStr, fsAt + 1)
         next == Char(fsStr, id.at)
         h == IF id.bad \/ next \notin {"}", ":"} THEN Throw(handler, "syntax")
              ELSE OnArgId(handler, id.found)
     IN  /\ handler' = h
         /\ field' = [NoField EXCEPT !.stage = IF Threw(h) THEN "none"
                                               ELSE IF next = "}" THEN "apply" ELSE "flags",
                                     !.arg = h.arg,
                                     !.at = IF next = "}" THEN id.at ELSE id.at + 1,
                                     !.hasSpecs = next = ":"]
  /\ UNCHANGED <<fsAt, inputVars>>

SkipSpecs ==
  /\ Parsing /\ fsPc = "count" /\ field.stage = "flags"
  /\ LET over == MatchingBrace(fsStr, field.at)
     IN  Became(IF Char(fsStr, over) = "}" THEN handler ELSE Throw(handler, "syntax"), over + 1)
  /\ field' = NoField
  /\ UNCHANGED inputVars

ParseFlags ==
  /\ Parsing /\ fsPc # "count" /\ field.stage = "flags"
  /\ field' = IF Char(fsStr, field.at) = "}" THEN [field EXCEPT !.stage = "apply"]
              ELSE [parse_flags(field, fsStr) EXCEPT !.stage = "sizes"]
  /\ UNCHANGED <<fsAt, handler, inputVars>>

ParseSizes ==
  /\ Parsing /\ field.stage = "sizes"
  /\ field' = [parse_sizes(field, fsStr) EXCEPT !.stage = "width"]
  /\ handler' = IF field'.bad \/ Char(fsStr, field'.at) # "}" THEN Throw(handler, "syntax")
                ELSE handler
  /\ UNCHANGED <<fsAt, inputVars>>

\* The arguments of a dynamic width and of a dynamic precision.
TakeWidth ==
  /\ Parsing /\ field.stage = "width"
  /\ handler' = IF field.found.widthRef = <<>> THEN handler
                ELSE OnRef(handler, field.found.widthRef[1])
  /\ field' = [field EXCEPT !.stage = "precision",
                 !.found.widthRef = IF @ = <<>> THEN <<>> ELSE <<handler'.arg>>]
  /\ UNCHANGED <<fsAt, inputVars>>

TakePrecision ==
  /\ Parsing /\ field.stage = "precision"
  /\ handler' = IF field.found.precisionRef = <<>> THEN handler
                ELSE OnRef(handler, field.found.precisionRef[1])
  /\ field' = [field EXCEPT !.stage = "apply",
                 !.found.precisionRef = IF @ = <<>> THEN <<>> ELSE <<handler'.arg>>]
  /\ UNCHANGED <<fsAt, inputVars>>

\* on_replacement_field, or the end of on_format_specs.
EndField ==
  /\ Parsing /\ field.stage = "apply"
  /\ Became(OnField(handler, IF fsPc = "count" THEN NoArg ELSE ArgOf(fsArgs, field.arg)),
            field.at + 1)
  /\ field' = NoField
  /\ UNCHANGED inputVars

-----------------------------------------------------------------------------
(* cf::vformat_to: a compiled string is formatted.  An argument that is     *)
(* missing is not an error: nothing is written for it.                     *)

RunPart(h, part, a, specs) ==
  IF a = NoArg /\ part.arg.kind = "name" THEN Throw(h, "missing")
  ELSE IF \E ref \in Range(part.specs.widthRef \o part.specs.precisionRef) :
            ~DynamicFits(ArgOf(fsArgs, ref)) THEN Throw(h, "dynamic")
  ELSE IF ~SpecsFit(specs, a.type) \/ ~TypeFits(specs, a.type) THEN Throw(h, "type")
  ELSE IF a = NoArg THEN h ELSE Write(h, FieldText(a, specs))

Compiled == results[4].out

FormatPart ==
  /\ fsPc = "run" /\ ~Threw(handler) /\ fsAt <= Len(Compiled)
  /\ LET part == Compiled[fsAt] IN
     Became(IF part.kind = "text" THEN [handler EXCEPT !.out = handler.out \o part.text]
            ELSE RunPart(handler, part, ArgOf(fsArgs, part.arg), Resolved(part.specs)), fsAt + 1)
  /\ UNCHANGED <<field, inputVars>>

-----------------------------------------------------------------------------
Opt(condition, c) == IF condition THEN c ELSE <<>>

\* Specifiers as they are written, in the order of the grammar.
Digit(n) == CHOOSE c \in DOMAIN digitOf : digitOf[c] = n
Render(w) ==
  <<"{", ":">> \o Opt(w.align # "none" /\ w.fill # "default", <<w.fill>>)
    \o Opt(w.align # "none", <<CHOOSE c \in DOMAIN aligns : aligns[c] = w.align>>)
    \o (CASE w.sign = "none" -> <<>> [] w.sign = "plus" -> <<"+">> [] w.sign = "minus" -> <<"-">>
          [] w.sign = "space" -> <<" ">>)
    \o Opt(w.alt, <<"#">>) \o Opt(w.zero, <<"0">>)
    \o Opt(w.width > 0, <<Digit(w.width)>>)
    \o Opt(w.precision >= 0, <<".", Digit(w.precision)>>)
    \o Opt(w.type # "", <<w.type>>) \o <<"}">>

Meant(w) ==
  [NoSpecs EXCEPT !.align = IF w.zero THEN "numeric" ELSE w.align,
                  !.fill = CASE w.zero -> "0"
                             [] ~w.zero /\ (w.align = "none" \/ w.fill = "default") -> " "
                             [] OTHER -> w.fill,
                  !.sign = w.sign, !.alt = w.alt, !.width = w.width,
                  !.precision = w.precision, !.type = w.type]

GiveFormat ==
  /\ fsPc = "idle"
  /\ \E args \in ArgLists : fsArgs' = format_arg_store(args)
  /\ \/ \E w \in FieldSpecs : fsStr' = Render(w) /\ fsWritten' = <<w>>
     \/ \E n \in 0 .. MaxPieces : \E ps \in [1 .. n -> Pieces] :
          fsStr' = FlattenSeq(ps) /\ fsWritten' = <<>>
  /\ fsPc' = "count"
  /\ UNCHANGED <<fsAt, field, handler, results>>

NextHandler ==
  /\ fsPc \in Range(HandlerNames) \ {"done"}
  /\ \/ Threw(handler)
     \/ field.stage = "none" /\ fsAt > Len(IF fsPc = "run" THEN Compiled ELSE fsStr)
  /\ fsPc' = HandlerNames[Len(results) + 2]
  /\ results' = Append(results, handler)
  /\ handler' = IF fsPc = "compile" THEN [NewHandler EXCEPT !.threw = handler.threw] ELSE NewHandler
  /\ fsAt' = 1 /\ field' = NoField
  /\ UNCHANGED <<fsStr, fsWritten, fsArgs>>

FormatStringStep ==
  \/ GiveFormat \/ ParseText \/ ParseBraces \/ ParseArg \/ SkipSpecs \/ ParseFlags
  \/ ParseSizes \/ TakeWidth \/ TakePrecision \/ EndField \/ FormatPart \/ NextHandler

-----------------------------------------------------------------------------
HasRefs(part) == part.kind # "text" /\ (part.specs.widthRef # <<>> \/ part.specs.precisionRef # <<>>)

(***************************************************************************)
(* A compiled string gives the output of the string itself, and throws     *)
(* when that does, except that a field whose argument is missing throws    *)
(* only uncompiled; unless it throws, it has as many parts as were counted *)
(* for it.  A string passes the check at compile time exactly if           *)
(* formatting it does not throw, leaving aside named arguments, which the  *)
(* check refuses, and dynamic widths and precisions, whose arguments it    *)
(* does not look at.                                                       *)
(* Specifiers mean what they were written from                             *)
(* (format.h:2276-2548,2566-2614,3091-3143; compile.h:57-151,172-234).     *)
(***************************************************************************)
FormatStringsAgree ==
  fsPc = "done" =>
    LET count == results[1]  check == results[2]  direct == results[3]
        compiled == results[4]  run == results[5]
        named == check.threw = "named"
        dynamic == direct.threw = "dynamic" \/ \E k \in DOMAIN compiled.out : HasRefs(compiled.out[k])
    IN  /\ direct.threw # "missing" =>
             /\ Threw(direct) = Threw(run)
             /\ ~Threw(direct) => run.out = direct.out
             /\ ~Threw(direct) => ~Threw(count) /\ Len(count.out) = Len(compiled.out)
        /\ ~named /\ ~dynamic => Threw(check) = Threw(direct)
        /\ fsWritten # <<>> =>
             /\ direct.threw \in {"nothing", "type"} \/ fsArgs.data_ = <<>>
             /\ ~Threw(direct) =>
                  direct.out = <<FieldText(GetArg(fsArgs, 0), Meant(fsWritten[1]))>>

=============================================================================
