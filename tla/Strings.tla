------------------------------ MODULE Strings ------------------------------
(***************************************************************************)
(* The string helpers of include/seeker/common.h that cut strings up:      *)
(* String::split, trim and removeLastEmptyLines.                           *)
(***************************************************************************)
EXTENDS Integers, SequencesExt

CONSTANTS
  Blank, Newline, Return,  \* ' ', '\n' and '\r'
  Letters,                 \* the characters of a string, those three included
  Separators,              \* what split is called with
  MaxString                \* bound: length of a string

ASSUME StringsAssumption ==
  /\ {Blank, Newline, Return} \subseteq Letters
  /\ Separators \subseteq Seq(Letters) \ {<<>>}

VARIABLES
  sPc,     \* "idle", "called", "returned" or "threw"
  helper,  \* the helper called
  target,  \* const string& target
  sp,      \* const string& sp
  pos,     \* split: pos, the number of characters done with
  rst      \* the pieces, or the one string returned

stringVars == <<sPc, helper, target, sp, pos, rst>>

StringsInit ==
  sPc = "idle" /\ helper = "none" /\ target = <<>> /\ sp = <<>> /\ pos = 0 /\ rst = <<>>

\* The string is written character by character.
GiveChar ==
  /\ sPc = "idle" /\ Len(target) < MaxString
  /\ \E c \in Letters : target' = Append(target, c)
  /\ UNCHANGED <<sPc, helper, sp, pos, rst>>

\* removeLastEmptyLines reads before the begin of an empty string.
CallHelper ==
  /\ sPc = "idle"
  /\ sp' \in Separators
  /\ helper' \in {"split", "trim", "removeLastEmptyLines"}
  /\ helper' = "removeLastEmptyLines" => target # <<>>
  /\ sPc' = "called"
  /\ UNCHANGED <<target, pos, rst>>

Called(h) == sPc = "called" /\ helper = h

\* target.find(sp, pos): the characters before the next match.
Matches(from) ==
  {f \in from .. Len(target) - Len(sp) : SubSeq(target, f + 1, f + Len(sp)) = sp}
FoundAt(from) == CHOOSE f \in Matches(from) : \A g \in Matches(from) : f <= g

\* Mutant: the search goes on one character after the match.
SplitPieceByOne ==
  /\ Called("split") /\ target # <<>>
  /\ Matches(pos) # {}
  /\ rst' = Append(rst, SubSeq(target, pos + 1, FoundAt(pos)))
  /\ pos' = FoundAt(pos) + 1
  /\ UNCHANGED <<sPc, helper, target, sp>>

SplitPiece ==
  /\ Called("split") /\ target # <<>>
  /\ Matches(pos) # {}
  /\ rst' = Append(rst, SubSeq(target, pos + 1, FoundAt(pos)))
  /\ pos' = FoundAt(pos) + Len(sp)
  /\ UNCHANGED <<sPc, helper, target, sp>>

\* The rest is a piece; an empty target has none.
SplitEnd ==
  /\ Called("split")
  /\ target # <<>> => Matches(pos) = {}
  /\ rst' = IF target = <<>> THEN <<>> ELSE Append(rst, SubSeq(target, pos + 1, Len(target)))
  /\ sPc' = "returned"
  /\ UNCHANGED <<helper, target, sp, pos>>

Outside(c) == {i \in DOMAIN target : target[i] \notin c}
FirstOf(s) == CHOOSE i \in s : \A j \in s : i <= j
LastOf(s) == CHOOSE i \in s : \A j \in s : i >= j

\* The blanks in front are erased first; then the place of the last letter
\* in the string as it was is used in what is left of it, where it may lie
\* behind the end, and erase throws.
Trim ==
  /\ Called("trim")
  /\ LET word == Outside({Blank}) IN
     IF word = {}
       THEN rst' = <<>> /\ sPc' = "returned"
       ELSE LET front == SubSeq(target, FirstOf(word), Len(target))
                end == LastOf(word)
            IN IF end > Len(front)
                 THEN sPc' = "threw" /\ UNCHANGED rst
                 ELSE rst' = SubSeq(front, 1, end) /\ sPc' = "returned"
  /\ UNCHANGED <<helper, target, sp, pos>>

\* The first character stays whatever it is.
RemoveLastEmptyLines ==
  /\ Called("removeLastEmptyLines")
  /\ rst' = SubSeq(target, 1, LastOf(Outside({Newline, Return}) \cup {1}))
  /\ sPc' = "returned"
  /\ UNCHANGED <<helper, target, sp, pos>>

StringStep ==
  GiveChar \/ CallHelper \/ SplitPiece \/ SplitEnd \/ Trim \/ RemoveLastEmptyLines

-----------------------------------------------------------------------------
JoinedBy(pieces, separator) ==
  FoldLeft(LAMBDA s, p : s \o separator \o p, Head(pieces), Tail(pieces))
Joined == JoinedBy(rst, sp)

AreBlank(places) == \A i \in places : target[i] = Blank

\* Of a string that begins with k blanks trim returns the word without them and
\* with the k places after it.
TrimmedBehind(k) ==
  LET n == Len(rst) IN
  /\ rst = SubSeq(target, k + 1, k + n)
  /\ AreBlank(1 .. k) /\ AreBlank(k + n + 1 .. Len(target))
  /\ rst # <<>> =>
       /\ k < n /\ rst[1] # Blank /\ rst[n - k] # Blank
       /\ \A i \in n - k + 1 .. n : rst[i] = Blank

(***************************************************************************)
(* The pieces of a split, joined by the separator, are the string again,   *)
(* and no piece holds the separator.  trim takes off blanks only, all of   *)
(* them at both ends if none is in front; otherwise as many as were in     *)
(* front stay at the end, and it throws only if there are fewer there,     *)
(* since it looks the end up in the string as it was (common.h:51-59).     *)
(* Removing the last empty lines takes off line ends only, and all of them *)
(* but a first character (common.h:61-99).                                 *)
(***************************************************************************)
HelpersKeepText ==
  /\ (helper = "split" /\ sPc = "returned" /\ target # <<>>) =>
       /\ Joined = target
       /\ \A i \in DOMAIN rst, f \in 0 .. Len(target) :
            f + Len(sp) <= Len(rst[i]) => SubSeq(rst[i], f + 1, f + Len(sp)) # sp
  /\ (helper = "trim" /\ sPc = "returned") => \E k \in 0 .. Len(target) : TrimmedBehind(k)
  /\ (helper = "trim" /\ sPc = "threw") =>
       \E k \in 1 .. Len(target) :
         AreBlank(1 .. k) /\ ~AreBlank(Len(target) - k + 1 .. Len(target))
  /\ (helper = "removeLastEmptyLines" /\ sPc = "returned") =>
       /\ IsPrefix(rst, target)
       /\ \A i \in Len(rst) + 1 .. Len(target) : target[i] \in {Newline, Return}
       /\ Len(rst) > 1 => Last(rst) \notin {Newline, Return}

=============================================================================
