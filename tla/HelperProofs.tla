---------------------------- MODULE HelperProofs ----------------------------
(***************************************************************************)
(* The code that works on its arguments alone, whatever they are: an       *)
(* amount is printed as the amount it is, the help's description is        *)
(* wrapped without loss, a number read is the number written, and the      *)
(* string helpers cut off what they are meant to and nothing else.         *)
(***************************************************************************)
EXTENDS CommandProofs

-----------------------------------------------------------------------------
(* The strings.  What split has cut off so far, joined again, is what of    *)
(* the string it has passed.                                                *)

CharStrings == Seq(Letters)

Glued(s, separator, p) == s \o separator \o p

\* What JoinedBy has joined after the first k of the pieces behind the first.
JoinsPieces(start, others, separator, f) ==
  /\ f[0] = start
  /\ \A k \in 1 .. Len(others) : f[k] = Glued(f[k - 1], separator, others[k])

JoinsUp(pieces, start, others, separator) ==
  \E f \in [0 .. Len(others) -> CharStrings] :
    JoinsPieces(start, others, separator, f) /\ JoinedBy(pieces, separator) = f[Len(others)]

LEMMA GluedIs ==
  ASSUME NEW s \in CharStrings, NEW separator \in CharStrings, NEW p \in CharStrings
  PROVE  Glued(s, separator, p) \in CharStrings
<1>1. s \o separator \in Seq(Letters)
  BY ConcatProperties DEF CharStrings
<1>2. (s \o separator) \o p \in Seq(Letters)
  BY <1>1, ConcatProperties DEF CharStrings
<1> QED
  BY <1>2 DEF Glued, CharStrings

LEMMA JoinFold ==
  ASSUME NEW pieces, NEW start \in CharStrings, NEW others \in Seq(CharStrings), NEW separator \in CharStrings,
         start = Head(pieces), others = Tail(pieces)
  PROVE  JoinsUp(pieces, start, others, separator)
<1> DEFINE n == Len(others)
           T == CharStrings
           nothing == start
           step == [k \in 1 .. n |-> [s \in T |-> Glued(s, separator, others[k])]]
           Folds(g) == g = [t \in SUBSET DOMAIN others |->
                              IF t = {} THEN start
                              ELSE Glued(g[t \ {Max(t)}], separator, others[Max(t)])]
           fold == CHOOSE g : Folds(g)
<1>1. JoinedBy(pieces, separator) = fold[DOMAIN others]
  BY DEF JoinedBy, FoldLeft, MapThenFoldSet, Glued
<1>2. ASSUME NEW s \in T, NEW k \in 1 .. n PROVE Glued(s, separator, others[k]) \in T
  <2>1. others[k] \in CharStrings
    OBVIOUS
  <2> QED
    BY <2>1, GluedIs
<1>3. step \in [1 .. n -> [T -> T]]
  BY <1>2
<1>4. nothing \in T /\ n \in Nat /\ DOMAIN others = 1 .. n
  OBVIOUS
<1>5. PICK g \in [SUBSET (1 .. n) -> T] : FoldsUp(n, nothing, step, g)
  <2> HIDE DEF step, n, T, nothing
  <2> QED
    BY <1>3, <1>4, FoldExists
<1>6. Folds(g)
  <2>1. ASSUME NEW t \in SUBSET (1 .. n), t # {}
        PROVE  g[t] = Glued(g[t \ {Max(t)}], separator, others[Max(t)])
    <3>1. Max(t) \in 1 .. n /\ t \ {Max(t)} \in SUBSET (1 .. n)
      BY <1>4, <2>1, LargestIndex
    <3>2. g[t] = step[Max(t)][g[t \ {Max(t)}]] /\ g[t \ {Max(t)}] \in T
      BY <1>5, <2>1, <3>1 DEF FoldsUp
    <3> QED
      BY <3>1, <3>2
  <2> QED
    BY <1>4, <1>5, <2>1 DEF FoldsUp
<1>7. Folds(fold)
  <2> HIDE DEF Folds
  <2> QED
    BY <1>6
<1> HIDE DEF fold
<1>8. FoldsWithin(n, T, nothing, step, fold)
  <2>1. ASSUME NEW t \in SUBSET (1 .. n), t # {}, fold[t \ {Max(t)}] \in T
        PROVE  fold[t] = step[Max(t)][fold[t \ {Max(t)}]]
    <3>1. Max(t) \in 1 .. n
      BY <1>4, <2>1, LargestIndex
    <3> QED
      BY <1>4, <1>7, <2>1, <3>1
  <2>2. fold[{}] = nothing
    BY <1>7
  <2> QED
    BY <2>1, <2>2 DEF FoldsWithin
<1>9. PICK f \in [0 .. n -> T] : RunsThrough(n, nothing, step, f) /\ fold[1 .. n] = f[n]
  <2> HIDE DEF step, n, T, nothing
  <2>1. RunsTo(n, T, nothing, step, fold)
    BY <1>3, <1>4, <1>8, FoldRuns
  <2> QED
    BY <2>1 DEF RunsTo
<1>10. ASSUME NEW k \in 1 .. n PROVE f[k] = Glued(f[k - 1], separator, others[k])
  <2>1. k - 1 \in 0 .. n
    BY <1>4
  <2>2. f[k - 1] \in T
    BY <2>1
  <2> QED
    BY <1>9, <2>2 DEF RunsThrough
<1>11. JoinsPieces(start, others, separator, f)
  BY <1>9, <1>10 DEF RunsThrough, JoinsPieces
<1> QED
  BY <1>1, <1>4, <1>9, <1>11 DEF JoinsUp

LEMMA OnePieceJoined ==
  ASSUME NEW p \in CharStrings, NEW separator \in CharStrings
  PROVE  JoinedBy(Append(<<>>, p), separator) = p
<1> DEFINE pieces == Append(<<>>, p)
           others == Tail(pieces)
<1>1. Head(pieces) = p /\ others = <<>> /\ others = Tail(pieces)
  BY HeadTailAppend, EmptySeq
<1>2. p = Head(pieces) /\ others = Tail(pieces) /\ others \in Seq(CharStrings) /\ Len(others) = 0
  BY <1>1
<1> HIDE DEF pieces, others
<1>3. PICK f \in [0 .. Len(others) -> CharStrings] :
        /\ JoinsPieces(p, others, separator, f)
        /\ JoinedBy(pieces, separator) = f[Len(others)]
  <2>1. JoinsUp(pieces, p, others, separator)
    BY <1>2, JoinFold
  <2> QED
    BY <2>1 DEF JoinsUp
<1> QED
  BY <1>2, <1>3 DEF JoinsPieces, pieces

LEMMA PiecesJoined ==
  ASSUME NEW pieces \in Seq(CharStrings), pieces # <<>>, NEW p \in CharStrings, NEW separator \in CharStrings
  PROVE  /\ JoinedBy(pieces, separator) \in CharStrings
         /\ JoinedBy(Append(pieces, p), separator) = Glued(JoinedBy(pieces, separator), separator, p)
<1> DEFINE start == Head(pieces)
           others == Tail(pieces)
           more == Append(pieces, p)
           others2 == Append(others, p)
           n == Len(others)
<1>1. start \in CharStrings /\ others \in Seq(CharStrings)
  BY HeadTailProperties
<1>2. start = Head(more) /\ others2 = Tail(more)
  BY HeadTailAppend
<1>3. /\ others2 \in Seq(CharStrings) /\ Len(others2) = n + 1 /\ others2[n + 1] = p /\ n \in Nat
      /\ \A i \in 1 .. n : others2[i] = others[i]
  BY <1>1
<1> HIDE DEF others2, more
<1>4. PICK f \in [0 .. n -> CharStrings] :
        JoinsPieces(start, others, separator, f) /\ JoinedBy(pieces, separator) = f[n]
  <2>1. start = Head(pieces) /\ others = Tail(pieces)
    OBVIOUS
  <2> HIDE DEF start, others
  <2>2. JoinsUp(pieces, start, others, separator)
    BY <1>1, <2>1, JoinFold
  <2> QED
    BY <2>2 DEF JoinsUp
<1> HIDE DEF others, start
<1>5. PICK g \in [0 .. n + 1 -> CharStrings] :
        JoinsPieces(start, others2, separator, g) /\ JoinedBy(more, separator) = g[n + 1]
  <2>1. others2 \in Seq(CharStrings) /\ Len(others2) = n + 1
    BY <1>3
  <2>2. JoinsUp(more, start, others2, separator)
    BY <1>1, <1>2, <2>1, JoinFold
  <2> QED
    BY <2>1, <2>2 DEF JoinsUp
<1> DEFINE S == {k \in Nat : k <= n => g[k] = f[k]}
<1>6. 0 \in S
  BY <1>4, <1>5 DEF JoinsPieces
<1>7. ASSUME NEW k \in Nat, k \in S PROVE k + 1 \in S
  <2>1. SUFFICES ASSUME k + 1 <= n PROVE g[k + 1] = f[k + 1]
    OBVIOUS
  <2>2. k + 1 \in 1 .. n /\ k + 1 \in 1 .. n + 1 /\ (k + 1) - 1 = k
    BY <1>3, <2>1
  <2>3. /\ f[k + 1] = Glued(f[k], separator, others[k + 1])
        /\ g[k + 1] = Glued(g[k], separator, others2[k + 1])
    BY <1>3, <1>4, <1>5, <2>2 DEF JoinsPieces
  <2> QED
    BY <1>3, <1>7, <2>1, <2>2, <2>3
<1>8. g[n] = f[n]
  <2> HIDE DEF S
  <2>1. n \in S
    BY <1>3, <1>6, <1>7, SetInduction
  <2> QED
    BY <1>3, <2>1 DEF S
<1>9. g[n + 1] = Glued(g[n], separator, p)
  <2>1. n + 1 \in 1 .. n + 1 /\ (n + 1) - 1 = n
    BY <1>3
  <2> QED
    BY <1>3, <1>5, <2>1 DEF JoinsPieces
<1>10. f[n] \in CharStrings
  BY <1>3, <1>4
<1> QED
  BY <1>4, <1>5, <1>8, <1>9, <1>10 DEF more

\* No piece holds the separator.
PiecesClean(pieces, separator, n) ==
  \A i \in DOMAIN pieces, f \in 0 .. n :
    f + Len(separator) <= Len(pieces[i]) =>
      SubSeq(pieces[i], f + 1, f + Len(separator)) # separator

SplitSoFar ==
  /\ pos \in 0 .. Len(target) /\ rst \in Seq(CharStrings)
  /\ rst = <<>> => pos = 0
  /\ rst # <<>> => Joined \o sp = SubSeq(target, 1, pos)
  /\ PiecesClean(rst, sp, Len(target))

LEMMA SmallestIndex ==
  ASSUME NEW s \in SUBSET Nat, s # {}
  PROVE  \E x \in s : \A y \in s : x <= y
<1>1. \E x \in s : \A y \in s : ~(<<y, x>> \in Below)
  BY BelowIsWellFounded, WFMin
<1>2. PICK x \in s : \A y \in s : ~(<<y, x>> \in Below)
  BY <1>1
<1>3. ASSUME NEW y \in s PROVE x <= y
  <2>1. ~(y < x)
    BY <1>2 DEF Below
  <2> QED
    BY <2>1
<1> QED
  BY <1>3

LEMMA MatchFound ==
  ASSUME target \in CharStrings, sp \in CharStrings, NEW from \in Nat, Matches(from) # {}
  PROVE  /\ FoundAt(from) \in from .. Len(target) - Len(sp)
         /\ SubSeq(target, FoundAt(from) + 1, FoundAt(from) + Len(sp)) = sp
         /\ \A g \in Matches(from) : FoundAt(from) <= g
<1>1. Matches(from) \in SUBSET Nat
  BY DEF Matches, CharStrings
<1>2. \E f \in Matches(from) : \A g \in Matches(from) : f <= g
  BY <1>1, SmallestIndex
<1>3. FoundAt(from) \in Matches(from) /\ \A g \in Matches(from) : FoundAt(from) <= g
  BY <1>2 DEF FoundAt
<1> QED
  BY <1>3 DEF Matches

LEMMA CutTyped ==
  ASSUME NEW s \in CharStrings, NEW a \in Nat, NEW b \in a .. Len(s)
  PROVE  SubSeq(s, a + 1, b) \in CharStrings /\ Len(SubSeq(s, a + 1, b)) = b - a
<1>1. \A i \in a + 1 .. b : s[i] \in Letters
  BY DEF CharStrings
<1>2. a + 1 \in Int /\ b \in Int
  BY DEF CharStrings
<1> QED
  BY <1>1, <1>2, SubSeqProperties DEF CharStrings

LEMMA CutOfCut ==
  ASSUME NEW s \in CharStrings, NEW a \in Nat, NEW b \in a .. Len(s),
         NEW c \in Nat, NEW d \in c .. b - a
  PROVE  SubSeq(SubSeq(s, a + 1, b), c + 1, d) = SubSeq(s, a + c + 1, a + d)
<1> DEFINE u == SubSeq(s, a + 1, b)
           v == SubSeq(u, c + 1, d)
           w == SubSeq(s, a + c + 1, a + d)
<1>1. s \in Seq(Letters) /\ Len(s) \in Nat
  BY DEF CharStrings
<1>2. \A i \in a + 1 .. b : s[i] \in Letters
  BY <1>1
<1>3. /\ u \in Seq(Letters) /\ Len(u) = b - a
      /\ \A i \in 1 .. b - a : u[i] = s[a + i]
  <2>1. a + 1 \in Int /\ b \in Int
    BY <1>1
  <2> QED
    BY <1>2, <2>1, SubSeqProperties
<1>4. /\ w \in Seq(Letters) /\ Len(w) = d - c
      /\ \A i \in 1 .. d - c : w[i] = s[a + c + i]
  <2>1. a + c + 1 \in Int /\ a + d \in Int
    BY <1>1
  <2>2. \A i \in a + c + 1 .. a + d : s[i] \in Letters
    BY <1>1
  <2> QED
    BY <2>1, <2>2, SubSeqProperties
<1> HIDE DEF u, w
<1>5. /\ v \in Seq(Letters) /\ Len(v) = d - c
      /\ \A i \in 1 .. d - c : v[i] = u[c + i]
  <2>1. c + 1 \in Int /\ d \in Int
    BY <1>1
  <2>2. \A i \in c + 1 .. d : u[i] \in Letters
    BY <1>1, <1>3
  <2> QED
    BY <2>1, <2>2, SubSeqProperties
<1> HIDE DEF v
<1>6. \A i \in 1 .. d - c : v[i] = w[i]
  BY <1>1, <1>3, <1>4, <1>5
<1>7. v = w
  BY <1>4, <1>5, <1>6, SeqEqual
<1> QED
  BY <1>7 DEF u, v, w

LEMMA PieceJoined ==
  ASSUME target \in CharStrings, sp \in CharStrings, SplitSoFar, NEW to \in pos .. Len(target),
         NEW piece, piece = SubSeq(target, pos + 1, to)
  PROVE  /\ Append(rst, piece) \in Seq(CharStrings)
         /\ JoinedBy(Append(rst, piece), sp) = SubSeq(target, 1, to)
<1>1. pos \in Nat /\ pos <= Len(target) /\ rst \in Seq(CharStrings) /\ Len(target) \in Nat
  BY DEF SplitSoFar, CharStrings
<1>2. piece \in CharStrings
  BY <1>1, CutTyped
<1>3. Append(rst, piece) \in Seq(CharStrings)
  BY <1>1, <1>2, AppendProperties
<1>4. CASE rst = <<>>
  <2>1. pos = 0
    BY <1>4 DEF SplitSoFar
  <2>2. piece = SubSeq(target, 1, to)
    BY <2>1
  <2> QED
    BY <1>2, <1>3, <1>4, <2>2, OnePieceJoined
<1>5. CASE rst # <<>>
  <2>1. JoinedBy(Append(rst, piece), sp) = Glued(Joined, sp, piece)
    BY <1>1, <1>2, <1>5, PiecesJoined DEF Joined
  <2>2. Glued(Joined, sp, piece) = SubSeq(target, 1, pos) \o SubSeq(target, pos + 1, to)
    BY <1>5 DEF Glued, SplitSoFar
  <2>3. SubSeq(target, 1, pos) \o SubSeq(target, pos + 1, to) = SubSeq(target, 1, to)
    <3>1. target \in Seq(Letters) /\ 1 \in 1 .. Len(target) + 1
      BY <1>1 DEF CharStrings
    <3>2. pos \in 1 - 1 .. Len(target)
      BY <1>1
    <3> QED
      BY <3>1, <3>2, ConcatAdjacentSubSeq
  <2> QED
    BY <1>3, <2>1, <2>2, <2>3
<1> QED
  BY <1>4, <1>5

LEMMA PieceIsClean ==
  ASSUME target \in CharStrings, sp \in CharStrings, sp # <<>>, SplitSoFar,
         NEW to \in pos .. Len(target), \A g \in Matches(pos) : to <= g,
         NEW piece, piece = SubSeq(target, pos + 1, to)
  PROVE  PiecesClean(Append(rst, piece), sp, Len(target))
<1>1. /\ pos \in Nat /\ pos <= Len(target) /\ rst \in Seq(CharStrings) /\ Len(target) \in Nat
      /\ Len(sp) \in Nat /\ Len(sp) >= 1
  BY DEF SplitSoFar, CharStrings
<1>2. piece \in CharStrings /\ Len(piece) = to - pos
  BY <1>1, CutTyped
<1>3. ASSUME NEW f \in 0 .. Len(target), f + Len(sp) <= Len(piece)
      PROVE  SubSeq(piece, f + 1, f + Len(sp)) # sp
  <2> DEFINE l == Len(sp)
  <2>1. l \in Nat /\ l >= 1 /\ l = Len(sp) /\ f + l <= to - pos
    BY <1>1, <1>2, <1>3
  <2> HIDE DEF l
  <2>2. SubSeq(piece, f + 1, f + l) = SubSeq(target, (pos + f) + 1, (pos + f) + l)
    <3>1. f + l \in f .. to - pos /\ pos + (f + l) = (pos + f) + l
      BY <1>1, <2>1
    <3> QED
      BY <1>1, <3>1, CutOfCut, SMTT(30)
  <2>4. pos + f \notin Matches(pos)
    BY <1>1, <2>1
  <2>5. pos + f \in pos .. Len(target) - l
    BY <1>1, <2>1
  <2>6. SubSeq(target, (pos + f) + 1, (pos + f) + l) # sp
    BY <2>1, <2>4, <2>5 DEF Matches
  <2> QED
    BY <2>1, <2>2, <2>6
<1> DEFINE n == Len(rst)
           more == Append(rst, piece)
<1>4. /\ n \in Nat /\ DOMAIN more = 1 .. n + 1 /\ more[n + 1] = piece
      /\ \A i \in 1 .. n : more[i] = rst[i] /\ i \in DOMAIN rst
  BY <1>1, <1>2
<1> HIDE DEF more
<1>5. PiecesClean(more, sp, Len(target))
  <2> SUFFICES ASSUME NEW i \in 1 .. n + 1, NEW f \in 0 .. Len(target), f + Len(sp) <= Len(more[i])
               PROVE  SubSeq(more[i], f + 1, f + Len(sp)) # sp
    BY <1>4 DEF PiecesClean
  <2>1. CASE i = n + 1
    BY <1>3, <1>4, <2>1
  <2>2. CASE i \in 1 .. n
    BY <1>4, <2>2 DEF SplitSoFar, PiecesClean
  <2> QED
    BY <1>4, <2>1, <2>2
<1> QED
  BY <1>5 DEF more

LEMMA LastFound ==
  ASSUME NEW n \in Nat, NEW s \in SUBSET (1 .. n), s # {}
  PROVE  LastOf(s) \in s /\ \A j \in s : LastOf(s) >= j
<1>1. PICK e \in s : TRUE
  OBVIOUS
<1>2. \E i \in s : \A j \in s : i >= j
  <2> DEFINE Places == {n - i : i \in s}
  <2>1. Places \in SUBSET Nat /\ Places # {}
    <3>1. \A i \in s : n - i \in Nat
      OBVIOUS
    <3>2. n - e \in Places
      BY <1>1
    <3> QED
      BY <3>1, <3>2
  <2>2. PICK x \in Places : \A y \in Places : x <= y
    BY <2>1, SmallestIndex
  <2>3. PICK i \in s : x = n - i
    BY <2>2
  <2>4. ASSUME NEW j \in s PROVE i >= j
    <3>1. n - j \in Places /\ i \in Nat /\ j \in Nat
      OBVIOUS
    <3> HIDE DEF Places
    <3>2. n - i <= n - j
      BY <2>2, <2>3, <3>1
    <3> QED
      BY <3>2
  <2> QED
    BY <2>4
<1> QED
  BY <1>2 DEF LastOf

\* The first k characters of a string are a prefix of it, and end in its k-th.
LEMMA BeginningIsPrefix ==
  ASSUME NEW s \in CharStrings, NEW k \in 1 .. Len(s), NEW r, r = SubSeq(s, 1, k)
  PROVE  /\ r \in CharStrings /\ Len(r) = k /\ IsPrefix(r, s) /\ Last(r) = s[k]
<1>1. s \in Seq(Letters) /\ Len(s) \in Nat
  BY DEF CharStrings
<1>2. \A i \in 1 .. k : s[i] \in Letters
  BY <1>1
<1>3. /\ r \in Seq(Letters) /\ Len(r) = k
      /\ \A i \in 1 .. k : r[i] = s[i]
  <2>1. 1 \in Int /\ k \in Int
    BY <1>1
  <2> QED
    BY <1>2, <2>1, SubSeqProperties
<1>4. Last(r) = s[k]
  BY <1>1, <1>3 DEF Last
<1>5. SubSeq(r, 1, Len(r)) = r
  BY <1>3, SubSeqFull
<1>6. IsPrefix(r, s)
  BY <1>1, <1>3, <1>5 DEF IsPrefix
<1> QED
  BY <1>3, <1>4, <1>6 DEF CharStrings

StringsInv ==
  /\ target \in CharStrings
  /\ sPc \in {"idle", "called", "returned", "threw"}
  /\ sPc = "idle" => helper = "none" /\ rst = <<>> /\ pos = 0
  /\ sPc # "idle" => sp \in CharStrings /\ sp # <<>>
  /\ (Called("split") /\ target # <<>>) => SplitSoFar
  /\ Called("removeLastEmptyLines") => target # <<>>
  /\ HelpersKeepText

LEMMA CharacterGiven ==
  ASSUME StringsInv, GiveChar
  PROVE  StringsInv'
<1>1. PICK c \in Letters : target' = Append(target, c)
  BY DEF GiveChar
<1>2. target' \in CharStrings
  BY <1>1, AppendProperties DEF StringsInv, CharStrings
<1>3. sPc = "idle" /\ helper = "none" /\ UNCHANGED <<sPc, helper, sp, pos, rst>>
  BY DEF GiveChar, StringsInv
<1>4. HelpersKeepText'
  BY <1>3 DEF HelpersKeepText
<1> QED
  BY <1>2, <1>3, <1>4 DEF StringsInv, Called

LEMMA HelperCalled ==
  ASSUME StringsInv, CallHelper
  PROVE  StringsInv'
<1>1. /\ sPc = "idle" /\ sPc' = "called" /\ UNCHANGED <<target, pos, rst>>
      /\ pos = 0 /\ rst = <<>> /\ target \in CharStrings
      /\ helper' = "removeLastEmptyLines" => target # <<>>
  BY DEF CallHelper, StringsInv
<1>2. sp' \in CharStrings /\ sp' # <<>>
  BY StringsAssumption DEF CallHelper, CharStrings
<1>3. HelpersKeepText'
  BY <1>1 DEF HelpersKeepText
<1>4. SplitSoFar'
  <2>1. pos' \in 0 .. Len(target') /\ rst' = <<>> /\ rst' \in Seq(CharStrings)
    BY <1>1 DEF CharStrings
  <2>2. PiecesClean(rst', sp', Len(target'))
    BY <2>1 DEF PiecesClean
  <2> QED
    BY <1>1, <2>1, <2>2 DEF SplitSoFar
<1> QED
  BY <1>1, <1>2, <1>3, <1>4 DEF StringsInv, Called

LEMMA PieceSplit ==
  ASSUME StringsInv, SplitPiece
  PROVE  StringsInv'
<1> DEFINE to == FoundAt(pos)
           piece == SubSeq(target, pos + 1, to)
<1>1. /\ sPc = "called" /\ helper = "split" /\ target # <<>> /\ Matches(pos) # {}
      /\ rst' = Append(rst, piece) /\ pos' = to + Len(sp)
      /\ UNCHANGED <<sPc, helper, target, sp>>
  BY DEF SplitPiece, Called
<1>2. target \in CharStrings /\ sp \in CharStrings /\ sp # <<>> /\ SplitSoFar
  BY <1>1 DEF StringsInv, Called
<1>3. pos \in Nat /\ pos <= Len(target) /\ Len(target) \in Nat /\ Len(sp) \in Nat
  BY <1>2 DEF SplitSoFar, CharStrings
<1>4. /\ to \in pos .. Len(target) - Len(sp)
      /\ SubSeq(target, to + 1, to + Len(sp)) = sp
      /\ \A g \in Matches(pos) : to <= g
  BY <1>1, <1>2, <1>3, MatchFound
<1> HIDE DEF to
<1>5. to \in pos .. Len(target) /\ to + Len(sp) \in to .. Len(target) /\ to \in Nat
  BY <1>3, <1>4
<1>6. /\ rst' \in Seq(CharStrings) /\ JoinedBy(rst', sp) = SubSeq(target, 1, to)
  BY <1>1, <1>2, <1>5, PieceJoined
<1>7. PiecesClean(rst', sp, Len(target))
  BY <1>1, <1>2, <1>4, <1>5, PieceIsClean
<1>8. SubSeq(target, 1, to) \o SubSeq(target, to + 1, to + Len(sp)) = SubSeq(target, 1, to + Len(sp))
  <2>1. target \in Seq(Letters) /\ 1 \in 1 .. Len(target) + 1 /\ to \in 1 - 1 .. Len(target)
    BY <1>2, <1>3, <1>5 DEF CharStrings
  <2> QED
    BY <1>5, <2>1, ConcatAdjacentSubSeq
<1>9. Joined' \o sp' = SubSeq(target', 1, pos')
  <2>1. Joined' = JoinedBy(rst', sp)
    BY <1>1 DEF Joined
  <2>2. Joined' \o sp' = SubSeq(target, 1, to) \o sp
    BY <1>1, <1>6, <2>1
  <2> QED
    BY <1>1, <1>4, <1>8, <2>2
<1>10. rst' # <<>>
  BY <1>1, <1>2 DEF SplitSoFar
<1>11. SplitSoFar'
  <2>1. pos' \in 0 .. Len(target')
    BY <1>1, <1>5
  <2> QED
    BY <1>1, <1>6, <1>7, <1>9, <1>10, <2>1 DEF SplitSoFar
<1>12. HelpersKeepText'
  BY <1>1 DEF HelpersKeepText
<1> QED
  BY <1>1, <1>2, <1>11, <1>12 DEF StringsInv, Called

LEMMA StringSplit ==
  ASSUME StringsInv, SplitEnd
  PROVE  StringsInv'
<1>1. /\ sPc = "called" /\ helper = "split" /\ sPc' = "returned"
      /\ UNCHANGED <<helper, target, sp, pos>>
  BY DEF SplitEnd, Called
<1>2. target \in CharStrings /\ sp \in CharStrings /\ sp # <<>>
  BY <1>1 DEF StringsInv
<1>3. ASSUME target # <<>>
      PROVE  /\ Joined' = target
             /\ PiecesClean(rst', sp, Len(target))
  <2> DEFINE to == Len(target)
             piece == SubSeq(target, pos + 1, to)
  <2>1. Matches(pos) = {} /\ rst' = Append(rst, piece) /\ SplitSoFar
    BY <1>1, <1>3 DEF SplitEnd, StringsInv, Called
  <2>2. to \in pos .. Len(target)
    BY <1>2, <2>1 DEF SplitSoFar, CharStrings
  <2>3. SubSeq(target, 1, to) = target
    BY <1>2, SubSeqFull DEF CharStrings
  <2>4. \A g \in Matches(pos) : to <= g
    BY <2>1
  <2> HIDE DEF to
  <2>5. JoinedBy(rst', sp) = target
    BY <1>2, <2>1, <2>2, <2>3, PieceJoined
  <2>6. PiecesClean(rst', sp, Len(target))
    BY <1>2, <2>1, <2>2, <2>4, PieceIsClean
  <2> QED
    BY <1>1, <2>5, <2>6 DEF Joined
<1>4. HelpersKeepText'
  <2>1. ASSUME target # <<>>
        PROVE  \A i \in DOMAIN rst', f \in 0 .. Len(target') :
                 f + Len(sp') <= Len(rst'[i]) => SubSeq(rst'[i], f + 1, f + Len(sp')) # sp'
    BY <1>1, <1>3, <2>1 DEF PiecesClean
  <2> QED
    BY <1>1, <1>3, <2>1 DEF HelpersKeepText
<1> QED
  BY <1>1, <1>2, <1>4 DEF StringsInv, Called

LEMMA FirstFound ==
  ASSUME NEW s \in SUBSET Nat, s # {}
  PROVE  FirstOf(s) \in s /\ \A j \in s : FirstOf(s) <= j
BY SmallestIndex DEF FirstOf

\* The places of the first and the last letter of target.
WordIs(first, end) ==
  /\ first \in 1 .. Len(target) /\ end \in 1 .. Len(target) /\ first <= end
  /\ target[first] # Blank /\ target[end] # Blank
  /\ AreBlank(1 .. first - 1) /\ AreBlank(end + 1 .. Len(target))

\* What trim cuts from it, and what that is: of r the places behind k blanks.
CutByTrim(first, end, r) ==
  /\ end <= Len(target) - (first - 1)
  /\ r = SubSeq(SubSeq(target, first, Len(target)), 1, end)

CutBehind(k, end, r) ==
  /\ Len(r) = end /\ k < end
  /\ r = SubSeq(target, k + 1, k + end) /\ AreBlank(k + end + 1 .. Len(target))
  /\ r[1] # Blank /\ r[end - k] # Blank
  /\ \A i \in end - k + 1 .. end : r[i] = Blank

LEMMA TrimCutsBehind ==
  ASSUME target \in CharStrings,
         NEW first, NEW end, WordIs(first, end), NEW r, CutByTrim(first, end, r)
  PROVE  CutBehind(first - 1, end, r)
<1> DEFINE n == Len(target)
           k == first - 1
<1>0. /\ first \in 1 .. n /\ end \in 1 .. n /\ first <= end
      /\ target[first] # Blank /\ target[end] # Blank
      /\ AreBlank(1 .. first - 1) /\ AreBlank(end + 1 .. n)
      /\ end <= n - k /\ r = SubSeq(SubSeq(target, first, n), 1, end)
  BY DEF WordIs, CutByTrim
<1> USE <1>0
<1>1. n \in Nat /\ k \in Nat /\ k + 1 = first /\ k < end /\ target \in Seq(Letters)
  BY DEF CharStrings
<1>2. SubSeq(SubSeq(target, k + 1, n), 0 + 1, end) = SubSeq(target, k + 0 + 1, k + end)
  <2>1. n \in k .. Len(target) /\ 0 \in Nat /\ end \in 0 .. n - k
    BY <1>1
  <2> HIDE DEF n, k
  <2> QED
    BY <1>1, <2>1, CutOfCut
<1>3. r = SubSeq(target, k + 1, k + end)
  <2>1. k + 0 + 1 = k + 1 /\ 0 + 1 = 1
    BY <1>1
  <2> HIDE DEF k
  <2> QED
    BY <1>1, <1>2, <2>1
<1>4. k + end \in k .. n
  BY <1>1
<1>5. Len(r) = end /\ \A i \in 1 .. end : r[i] = target[k + i]
  <2> HIDE DEF n, k
  <2> DEFINE a == k + 1
             b == k + end
  <2>1. a \in Int /\ b \in Int /\ \A i \in a .. b : target[i] \in Letters
    BY <1>1, <1>4 DEF n
  <2>2. a <= b /\ b - a + 1 = end /\ \A i \in 1 .. end : a + i - 1 = k + i
    BY <1>1
  <2>3. r = SubSeq(target, a, b)
    BY <1>3
  <2> HIDE DEF a, b
  <2>4. LET cut == SubSeq(target, a, b) IN
        Len(cut) = b - a + 1 /\ \A i \in 1 .. b - a + 1 : cut[i] = target[a + i - 1]
    <3> DEFINE cut == SubSeq(target, a, b)
    <3>1. Len(cut) = IF a <= b THEN b - a + 1 ELSE 0
      BY <2>1, SubSeqProperties
    <3>2. \A i \in 1 .. b - a + 1 : cut[i] = target[a + i - 1]
      BY <2>1, SubSeqProperties
    <3> QED
      BY <2>2, <3>1, <3>2
  <2> QED
    BY <2>2, <2>3, <2>4
<1>6. 1 \in 1 .. end /\ k + 1 = first /\ end - k \in 1 .. end /\ k + (end - k) = end
  BY <1>1
<1>7. ASSUME NEW i \in end - k + 1 .. end PROVE r[i] = Blank
  <2>1. i \in 1 .. end /\ k + i \in end + 1 .. n
    BY <1>1, <1>4
  <2> QED
    BY <1>5, <2>1 DEF AreBlank
<1>8. AreBlank(k + end + 1 .. n)
  <2>1. \A i \in k + end + 1 .. n : i \in end + 1 .. n
    BY <1>1
  <2> QED
    BY <2>1 DEF AreBlank
<1>9. r[1] # Blank /\ r[end - k] # Blank
  <2>1. r[1] = target[k + 1] /\ r[end - k] = target[k + (end - k)]
    BY <1>5, <1>6
  <2> QED
    BY <1>6, <2>1
<1> QED
  BY <1>1, <1>3, <1>5, <1>7, <1>8, <1>9 DEF CutBehind

LEMMA StringTrimmed ==
  ASSUME StringsInv, Trim
  PROVE  StringsInv'
<1> DEFINE word == Outside({Blank})
           n == Len(target)
<1>1. /\ sPc = "called" /\ helper = "trim" /\ sPc' \in {"returned", "threw"}
      /\ UNCHANGED <<helper, target, sp, pos>>
  BY DEF Trim, Called
<1>2. target \in CharStrings /\ sp \in CharStrings /\ sp # <<>>
  BY <1>1 DEF StringsInv
<1>3. n \in Nat /\ target \in Seq(Letters) /\ DOMAIN target = 1 .. n
  BY <1>2 DEF CharStrings
<1>4. CASE word = {}
  <2>1. sPc' = "returned" /\ rst' = <<>>
    BY <1>4 DEF Trim
  <2>2. \A i \in 1 .. n : target[i] = Blank
    BY <1>3, <1>4 DEF Outside
  <2>3. Len(rst') = 0 /\ SubSeq(target, 0 + 1, 0 + 0) = <<>>
    BY <2>1, <1>3, SubSeqEmpty
  <2>4. TrimmedBehind(0)' /\ 0 \in 0 .. Len(target')
    <3>1. \A i \in 1 .. 0 : FALSE
      OBVIOUS
    <3>2. \A i \in 0 + Len(rst') + 1 .. n : i \in 1 .. n
      BY <1>3, <2>3
    <3>3. rst' = SubSeq(target', 0 + 1, 0 + Len(rst'))
      BY <1>1, <2>1, <2>3
    <3> QED
      BY <1>1, <1>3, <2>1, <2>2, <3>1, <3>2, <3>3 DEF TrimmedBehind, AreBlank
  <2>5. HelpersKeepText'
    BY <1>1, <2>1, <2>4 DEF HelpersKeepText
  <2> QED
    BY <1>1, <1>2, <2>5 DEF StringsInv, Called
<1>5. CASE word # {}
  <2>1. word \in SUBSET (1 .. n) /\ word \in SUBSET Nat
    BY <1>3 DEF Outside
  <2>2. PICK first \in word : first = FirstOf(word) /\ \A j \in word : first <= j
    BY <1>5, <2>1, FirstFound
  <2>3. PICK end \in word : end = LastOf(word) /\ \A j \in word : end >= j
    BY <1>3, <1>5, <2>1, LastFound
  <2>4. /\ first \in 1 .. n /\ target[first] # Blank
        /\ end \in 1 .. n /\ target[end] # Blank /\ first <= end
    BY <1>3, <2>2, <2>3 DEF Outside
  <2>5. \A i \in 1 .. n : target[i] # Blank => i \in word
    BY <1>3 DEF Outside
  <2>6. LET front == SubSeq(target, first, n) IN
        IF end > Len(front)
          THEN sPc' = "threw"
          ELSE rst' = SubSeq(front, 1, end) /\ sPc' = "returned"
    BY <1>5, <2>2, <2>3 DEF Trim
  <2> HIDE DEF word
  <2>7. AreBlank(1 .. first - 1) /\ AreBlank(end + 1 .. n)
    <3>1. ASSUME NEW i \in 1 .. first - 1 PROVE target[i] = Blank
      <4>1. i \in 1 .. n /\ ~(first <= i)
        BY <1>3, <2>4
      <4> QED
        BY <2>2, <2>5, <4>1
    <3>2. ASSUME NEW i \in end + 1 .. n PROVE target[i] = Blank
      <4>1. i \in 1 .. n /\ ~(end >= i)
        BY <1>3, <2>4
      <4> QED
        BY <2>3, <2>5, <4>1
    <3> QED
      BY <3>1, <3>2 DEF AreBlank
  <2> DEFINE k == first - 1
  <2>8. k \in 0 .. n /\ k + 1 = first
    BY <1>3, <2>4
  <2>9. Len(SubSeq(target, first, n)) = n - k
    <3>1. k \in Nat /\ n \in k .. Len(target)
      BY <1>3, <2>8
    <3> HIDE DEF k
    <3>2. Len(SubSeq(target, k + 1, n)) = n - k
      BY <1>2, <3>1, CutTyped
    <3> QED
      BY <2>8, <3>2
  <2>10. CASE end > n - k
    <3>1. sPc' = "threw"
      BY <2>6, <2>9, <2>10
    <3>2. k \in 1 .. n
      BY <1>3, <2>4, <2>8, <2>10
    <3>3. end \in n - k + 1 .. n
      BY <1>3, <2>4, <2>8, <2>10
    <3>4. AreBlank(1 .. k)' /\ ~AreBlank(n - k + 1 .. n)'
      BY <1>1, <2>4, <2>7, <3>3 DEF AreBlank
    <3> HIDE DEF k
    <3>5. \E q \in 1 .. Len(target') :
            AreBlank(1 .. q)' /\ ~AreBlank(Len(target) - q + 1 .. Len(target))'
      BY <1>1, <3>2, <3>4
    <3>6. HelpersKeepText'
      BY <1>1, <3>1, <3>5 DEF HelpersKeepText
    <3> QED
      BY <1>1, <1>2, <3>1, <3>6 DEF StringsInv, Called
  <2>11. CASE end <= n - k
    <3>1. sPc' = "returned" /\ rst' = SubSeq(SubSeq(target, first, n), 1, end)
      <4>1. ~(end > n - k)
        BY <1>3, <2>4, <2>8, <2>11
      <4> QED
        BY <2>6, <2>9, <4>1
    <3>2. /\ Len(rst') = end /\ k < end /\ rst' = SubSeq(target, k + 1, k + end)
          /\ AreBlank(k + end + 1 .. n)
          /\ rst'[1] # Blank /\ rst'[end - k] # Blank
          /\ \A i \in end - k + 1 .. end : rst'[i] = Blank
      <4>1. WordIs(first, end)
        BY <2>4, <2>7 DEF WordIs
      <4>2. PICK r : r = rst'
        OBVIOUS
      <4>3. CutByTrim(first, end, r)
        BY <2>11, <3>1, <4>2 DEF CutByTrim
      <4>4. CutBehind(k, end, r)
        BY <1>2, <4>1, <4>3, TrimCutsBehind
      <4> QED
        BY <4>2, <4>4 DEF CutBehind
    <3>3. AreBlank(1 .. k)' /\ AreBlank(k + end + 1 .. n)'
      BY <1>1, <2>7, <3>2 DEF AreBlank
    <3> HIDE DEF k
    <3>4. TrimmedBehind(k)'
      BY <1>1, <3>2, <3>3 DEF TrimmedBehind
    <3>5. HelpersKeepText'
      BY <1>1, <2>8, <3>1, <3>4 DEF HelpersKeepText
    <3> QED
      BY <1>1, <1>2, <3>1, <3>5 DEF StringsInv, Called
  <2> QED
    BY <1>3, <2>4, <2>8, <2>10, <2>11
<1> QED
  BY <1>4, <1>5

LEMMA LinesRemoved ==
  ASSUME StringsInv, RemoveLastEmptyLines
  PROVE  StringsInv'
<1> DEFINE kept == Outside({Newline, Return}) \cup {1}
           n == Len(target)
           end == LastOf(kept)
<1>1. /\ sPc = "called" /\ helper = "removeLastEmptyLines" /\ sPc' = "returned"
      /\ UNCHANGED <<helper, target, sp, pos>> /\ rst' = SubSeq(target, 1, end)
  BY DEF RemoveLastEmptyLines, Called
<1>2. target \in CharStrings /\ sp \in CharStrings /\ sp # <<>> /\ target # <<>>
  BY <1>1 DEF StringsInv, Called
<1>3. n \in Nat /\ n >= 1 /\ target \in Seq(Letters) /\ DOMAIN target = 1 .. n
  BY <1>2 DEF CharStrings
<1>4. kept \in SUBSET (1 .. n) /\ kept # {}
  BY <1>3 DEF Outside
<1>5. end \in kept /\ \A j \in kept : end >= j
  BY <1>3, <1>4, LastFound
<1>6. /\ end \in 1 .. n
      /\ end > 1 => target[end] \notin {Newline, Return}
      /\ \A i \in end + 1 .. n : target[i] \in {Newline, Return}
  <2>1. end \in 1 .. n
    BY <1>4, <1>5
  <2>2. ASSUME end > 1 PROVE target[end] \notin {Newline, Return}
    <3>1. end \in Outside({Newline, Return})
      BY <1>5, <2>1, <2>2
    <3> QED
      BY <3>1 DEF Outside
  <2>3. ASSUME NEW i \in end + 1 .. n, target[i] \notin {Newline, Return} PROVE FALSE
    <3>1. i \in 1 .. n /\ i > end
      BY <1>3, <2>1
    <3>2. i \in kept
      BY <1>3, <2>3, <3>1 DEF Outside
    <3> HIDE DEF kept, end
    <3> QED
      BY <1>3, <1>5, <2>1, <3>1, <3>2
  <2> QED
    BY <2>1, <2>2, <2>3
<1> HIDE DEF kept, end
<1>7. Len(rst') = end /\ IsPrefix(rst', target) /\ Last(rst') = target[end]
  BY <1>1, <1>2, <1>6, BeginningIsPrefix
<1>8. HelpersKeepText'
  BY <1>1, <1>6, <1>7 DEF HelpersKeepText
<1> QED
  BY <1>1, <1>2, <1>8 DEF StringsInv, Called

LEMMA StringMoves ==
  ASSUME StringsInv, StringStep
  PROVE  StringsInv'
BY CharacterGiven, HelperCalled, PieceSplit, StringSplit, StringTrimmed, LinesRemoved DEF StringStep

\* Whatever the string and the separator, the pieces joined are the string and
\* hold no separator; trimming takes off blanks alone, leaves as many places at the
\* end as there were blanks in front, and throws only if fewer blanks end the
\* string; and removing the last empty lines takes off line ends alone.
THEOREM HelpersAreRight == Spec => []HelpersKeepText
<1>1. Init => StringsInv
  <2>1. Init => sPc = "idle" /\ helper = "none" /\ target = <<>> /\ rst = <<>> /\ pos = 0
    BY DEF Init, StringsInit
  <2>2. <<>> \in CharStrings
    BY DEF CharStrings
  <2> QED
    BY <2>1, <2>2 DEF StringsInv, HelpersKeepText, Called
<1>2. StringsInv /\ UNCHANGED stringVars => StringsInv'
  BY DEF stringVars, StringsInv, HelpersKeepText, Joined, Called, SplitSoFar, TrimmedBehind, AreBlank
<1>3. StringsInv /\ [Next]_vars => StringsInv'
  BY <1>2, PartsAlone, StringMoves
<1>4. StringsInv => HelpersKeepText
  BY DEF StringsInv
<1> QED
  BY <1>1, <1>3, <1>4, PTL DEF Spec

-----------------------------------------------------------------------------
(* The amounts.                                                            *)

LEMMA RoundedToFit ==
  ASSUME NEW n \in Nat, NEW v \in Nat \ {0}, NEW s \in Nat, NEW c \in Nat, NEW d \in Int,
         n <= v * s, 2 * (d * v - n * c) <= v
  PROVE  d <= s * c
<1>1. n * c <= (v * s) * c
  BY ProductGrows
<1>2. (2 * d) * v <= (2 * (s * c) + 1) * v
  <2>1. (2 * d) * v = 2 * (d * v) /\ (2 * (s * c) + 1) * v = 2 * ((v * s) * c) + v
    OBVIOUS
  <2>2. d * v \in Int /\ n * c \in Int /\ (v * s) * c \in Int
    OBVIOUS
  <2> QED
    BY <1>1, <2>1, <2>2
<1>3. ASSUME d > s * c PROVE FALSE
  <2>1. s * c \in Int /\ 2 * d >= 2 * (s * c) + 2
    BY <1>3
  <2>2. (2 * (s * c) + 2) * v <= (2 * d) * v
    BY <2>1, ProductGrows
  <2>3. (2 * (s * c) + 2) * v = (2 * (s * c) + 1) * v + v
    BY <2>1
  <2>4. (2 * (s * c) + 1) * v \in Int /\ (2 * d) * v \in Int
    BY <2>1
  <2> QED
    BY <1>2, <2>2, <2>3, <2>4
<1>4. s * c \in Int
  OBVIOUS
<1> QED
  BY <1>3, <1>4

LEMMA UnitChosen ==
  ASSUME NEW n \in Nat, n > UnitStep
  PROVE  /\ UnitOf(n) \in {"G", "M", "K"} /\ Value(UnitOf(n)) \in Nat \ {0}
         /\ UnitOf(n) # "G" => n <= Value(UnitOf(n)) * UnitStep
<1>1. UnitStep \in Nat /\ UnitStep > 0
  BY FormattingAssumption
<1>2. UnitStep * UnitStep \in Nat /\ UnitStep * UnitStep > 0
  <2>1. 1 * UnitStep <= UnitStep * UnitStep
    BY <1>1, ProductGrows
  <2> QED
    BY <1>1, <2>1
<1>3. UnitStep * UnitStep * UnitStep \in Nat /\ UnitStep * UnitStep * UnitStep > 0
  <2>1. 1 * UnitStep <= (UnitStep * UnitStep) * UnitStep
    BY <1>1, <1>2, ProductGrows
  <2> QED
    BY <1>1, <1>2, <2>1
<1>4. /\ Value("G") = (UnitStep * UnitStep) * UnitStep
      /\ Value("M") = UnitStep * UnitStep /\ Value("K") = UnitStep
  BY DEF Value
<1> DEFINE g == Value("G")
           m == Value("M")
           k == Value("K")
<1>5. /\ g \in Nat \ {0} /\ m \in Nat \ {0} /\ k \in Nat \ {0}
      /\ g = m * UnitStep /\ m = k * UnitStep /\ n > k
  BY <1>1, <1>2, <1>3, <1>4
<1>6. UnitOf(n) = IF n > g THEN "G" ELSE IF n > m THEN "M" ELSE IF n > k THEN "K" ELSE ""
  BY DEF UnitOf
<1> HIDE DEF g, m, k
<1>7. CASE n > g
  BY <1>5, <1>6, <1>7 DEF g
<1>8. CASE n <= g /\ n > m
  <2>1. UnitOf(n) = "M"
    BY <1>5, <1>6, <1>8
  <2> QED
    BY <1>5, <1>8, <2>1 DEF m
<1>9. CASE n <= g /\ n <= m
  <2>1. UnitOf(n) = "K"
    BY <1>5, <1>6, <1>9
  <2> QED
    BY <1>5, <1>9, <2>1 DEF k
<1> QED
  BY <1>5, <1>7, <1>8, <1>9

LEMMA AmountPrinted ==
  ASSUME NEW n \in Nat, n > UnitStep, NEW d \in Rounded(n, UnitOf(n))
  PROVE  /\ 2 * (d * Value(UnitOf(n)) - n * Decimals) >= -Value(UnitOf(n))
         /\ 2 * (d * Value(UnitOf(n)) - n * Decimals) <= Value(UnitOf(n))
         /\ UnitOf(n) # "G" => d <= UnitStep * Decimals
<1> DEFINE v == Value(UnitOf(n))
<1>1. d \in Int /\ 2 * (d * v - n * Decimals) >= -v /\ 2 * (d * v - n * Decimals) <= v
  BY DEF Rounded
<1>2. v \in Nat \ {0} /\ (UnitOf(n) # "G" => n <= v * UnitStep)
  BY UnitChosen
<1>3. UnitStep \in Nat /\ Decimals \in Nat
  BY FormattingAssumption
<1> HIDE DEF v
<1>4. UnitOf(n) # "G" => d <= UnitStep * Decimals
  BY <1>1, <1>2, <1>3, RoundedToFit
<1> QED
  BY <1>1, <1>4 DEF v

FormatInv == amount \in Nat /\ PrintedIsMeant

LEMMA FormatMoves ==
  ASSUME FormatInv, FormatStep
  PROVE  FormatInv'
<1>1. CASE CallFormat
  BY <1>1, FormattingAssumption DEF CallFormat, FormatInv, PrintedIsMeant
<1>2. CASE PrintAmount
  <2>1. amount' = amount /\ amount \in Nat
    BY <1>2 DEF PrintAmount, FormatInv
  <2>2. ASSUME amount > UnitStep
        PROVE  /\ 2 * (printed'.number * Value(printed'.unit) - amount * Decimals)
                    >= -Value(printed'.unit)
               /\ 2 * (printed'.number * Value(printed'.unit) - amount * Decimals)
                    <= Value(printed'.unit)
               /\ printed'.unit # "G" => printed'.number <= UnitStep * Decimals
    <3>1. UnitOf(amount) # ""
      BY <2>1, <2>2, UnitChosen
    <3>2. PICK d \in Rounded(amount, UnitOf(amount)) :
            printed' = [number |-> d, unit |-> UnitOf(amount)]
      BY <1>2, <3>1 DEF PrintAmount
    <3>3. printed'.number = d /\ printed'.unit = UnitOf(amount)
      BY <3>2
    <3> QED
      BY <2>1, <2>2, <3>3, AmountPrinted
  <2> QED
    BY <2>1, <2>2 DEF FormatInv, PrintedIsMeant, Value
<1> QED
  BY <1>1, <1>2 DEF FormatStep

\* Whatever the unit's step and the decimals, what is printed of an amount above
\* the first unit is the amount, rounded, with at most four digits below giga.
THEOREM AmountsArePrinted == Spec => []PrintedIsMeant
<1>1. Init => FormatInv
  <2>1. Init => fPc = "idle" /\ amount = 0
    BY DEF Init, FormatInit
  <2>2. fPc = "idle" => PrintedIsMeant
    BY DEF PrintedIsMeant
  <2> QED
    BY <2>1, <2>2 DEF FormatInv
<1>2. FormatInv /\ UNCHANGED formatVars => FormatInv'
  BY DEF formatVars, FormatInv, PrintedIsMeant, Value
<1>3. FormatInv /\ [Next]_vars => FormatInv'
  BY <1>2, PartsAlone, FormatMoves
<1>4. FormatInv => PrintedIsMeant
  BY DEF FormatInv
<1> QED
  BY <1>1, <1>3, <1>4, PTL DEF Spec


-----------------------------------------------------------------------------
(* The help.  A line is broken inside a word only where it holds no space:  *)
(* after a break at a space the next one comes before the width is used up. *)

USE HelpAssumption

HelpLines == [from : Int, to : Int]

\* Every word of the description but the first fits.
WordsFit ==
  \A n \in 1 .. Len(desc) :
    (n > MaxWordLength /\ \E i \in 1 .. n : desc[i]) =>
      \E i \in n - MaxWordLength .. n : desc[i]

\* Where the line after the last one begins, at the earliest.
NextFrom == IF lines = <<>> THEN 1 ELSE lines[Len(lines)].to + 1

Wrapping ==
  /\ cursor \in 1 .. Len(desc) + 1 /\ startLine \in 1 .. cursor
  /\ lastSpace \in startLine - 1 .. cursor
  /\ size \in Nat /\ startLine + size <= cursor
  /\ lastSpace = startLine - 1 => startLine > 1 /\ desc[startLine - 1]
  /\ \A i \in lastSpace + 1 .. cursor - 1 : ~desc[i]
  /\ lastSpace > startLine => lastSpace < cursor /\ desc[lastSpace]
  /\ startLine = NextFrom \/ (startLine = NextFrom + 1 /\ desc[NextFrom])

LinesFollow ==
  \A i \in DOMAIN lines :
    LET l == lines[i]
        from == IF i = 1 THEN 1 ELSE lines[i - 1].to + 1
    IN /\ l.to >= l.from - 1
       /\ l.from = from \/ (l.from = from + 1 /\ desc[from])

HelpInv ==
  /\ desc \in Seq(BOOLEAN) /\ longest \in Int /\ longest <= OPTION_LONGEST
  /\ WordsFit /\ lines \in Seq(HelpLines) /\ LinesFollow
  /\ hPc \in {"idle", "desc"} =>
       cursor = 1 /\ startLine = 1 /\ lastSpace = 1 /\ size = 0 /\ lines = <<>>
  /\ hPc = "wrap" => Wrapping
  /\ hPc = "written" => Last(lines).to = Len(desc)

LEMMA LineAdded ==
  ASSUME HelpInv, Wrapping, NEW to \in Int, to >= startLine - 1,
         lines' = Append(lines, Line(startLine, to)), desc' = desc
  PROVE  /\ lines' \in Seq(HelpLines) /\ LinesFollow' /\ NextFrom' = to + 1
         /\ Last(lines)'.to = to
<1> DEFINE l == Line(startLine, to)
           n == Len(lines)
<1>1. l \in HelpLines /\ l.from = startLine /\ l.to = to
  BY DEF Line, HelpLines, Wrapping
<1> HIDE DEF l
<1>2. lines \in Seq(HelpLines) /\ n \in Nat
  BY DEF HelpInv
<1>3. /\ lines' \in Seq(HelpLines) /\ Len(lines') = n + 1 /\ lines'[n + 1] = l
      /\ \A i \in 1 .. n : lines'[i] = lines[i]
  BY <1>1, <1>2 DEF l
<1>4. NextFrom = IF n = 0 THEN 1 ELSE lines[n].to + 1
  BY <1>2 DEF NextFrom
<1>5. LinesFollow'
  <2>1. SUFFICES ASSUME NEW i \in 1 .. n + 1
        PROVE  LET from == IF i = 1 THEN 1 ELSE lines'[i - 1].to + 1
               IN /\ lines'[i].to >= lines'[i].from - 1
                  /\ lines'[i].from = from \/ (lines'[i].from = from + 1 /\ desc[from])
    BY <1>2, <1>3 DEF LinesFollow
  <2>2. CASE i \in 1 .. n
    <3>1. lines'[i] = lines[i] /\ i \in Nat
      BY <1>2, <1>3, <2>2
    <3>2. LET from == IF i = 1 THEN 1 ELSE lines[i - 1].to + 1
          IN /\ lines[i].to >= lines[i].from - 1
             /\ lines[i].from = from \/ (lines[i].from = from + 1 /\ desc[from])
      <4>1. LinesFollow /\ i \in DOMAIN lines
        BY <1>2, <2>2 DEF HelpInv
      <4> QED
        BY <4>1 DEF LinesFollow
    <3>3. i # 1 => lines'[i - 1] = lines[i - 1]
      <4>1. i # 1 => i - 1 \in 1 .. n
        BY <1>2, <2>2
      <4> QED
        BY <1>3, <4>1
    <3>4. CASE i = 1
      BY <3>1, <3>2, <3>4
    <3>5. CASE i # 1
      BY <3>1, <3>2, <3>3, <3>5
    <3> QED
      BY <3>4, <3>5
  <2>3. CASE i = n + 1
    <3>1. (IF i = 1 THEN 1 ELSE lines'[i - 1].to + 1) = NextFrom
      BY <1>2, <1>3, <1>4, <2>3
    <3>2. startLine = NextFrom \/ (startLine = NextFrom + 1 /\ desc[NextFrom])
      BY DEF Wrapping
    <3> QED
      BY <1>1, <1>3, <2>3, <3>1, <3>2
  <2> QED
    BY <1>2, <2>2, <2>3
<1>6. lines' # <<>> /\ Last(lines)' = l
  BY <1>2, <1>3 DEF Last
<1> QED
  BY <1>1, <1>3, <1>5, <1>6 DEF NextFrom

LEMMA WordEndsInTime ==
  ASSUME HelpInv, Wrapping, cursor <= Len(desc), size > allowed,
         lastSpace = startLine - 1
  PROVE  desc[cursor]
<1>1. /\ cursor \in 1 .. Len(desc) /\ startLine \in 2 .. cursor /\ desc[startLine - 1]
      /\ \A i \in startLine .. cursor - 1 : ~desc[i]
  BY DEF Wrapping, HelpInv
<1>2. cursor - MaxWordLength >= startLine
  <2>1. allowed >= MaxWordLength
    BY DEF allowed, HelpInv
  <2>2. startLine + size <= cursor /\ size \in Nat /\ allowed \in Int
    BY DEF Wrapping, allowed, HelpInv
  <2> QED
    BY <1>1, <2>1, <2>2
<1>3. startLine - 1 \in 1 .. cursor /\ cursor > MaxWordLength
  BY <1>1, <1>2
<1>4. PICK i \in cursor - MaxWordLength .. cursor : desc[i]
  BY <1>1, <1>3 DEF HelpInv, WordsFit
<1>5. i \in startLine .. cursor
  BY <1>1, <1>2
<1> QED
  BY <1>1, <1>4, <1>5

LEMMA CharacterWrapped ==
  ASSUME HelpInv, WrapCharacter
  PROVE  HelpInv'
<1>1. /\ hPc = "wrap" /\ hPc' = "wrap" /\ cursor <= Len(desc) /\ cursor' = cursor + 1
      /\ UNCHANGED <<longest, desc>> /\ Wrapping
  BY DEF WrapCharacter, HelpInv
<1> DEFINE space == IF desc[cursor] THEN cursor ELSE lastSpace
<1>2. /\ cursor \in 1 .. Len(desc) /\ startLine \in 1 .. cursor
      /\ lastSpace \in startLine - 1 .. cursor /\ size \in Nat /\ Len(desc) \in Nat
  BY <1>1 DEF Wrapping, HelpInv
<1>3. WordsFit' /\ desc' \in Seq(BOOLEAN) /\ longest' \in Int /\ longest' <= OPTION_LONGEST
  BY <1>1 DEF WordsFit, HelpInv
<1>4. SUFFICES lines' \in Seq(HelpLines) /\ LinesFollow' /\ Wrapping'
  BY <1>1, <1>3 DEF HelpInv
<1>5. CASE size > allowed /\ space = startLine
  <2>1. BreakWord(space)
    BY <1>5 DEF WrapCharacter
  <2>2. /\ lines' \in Seq(HelpLines) /\ LinesFollow' /\ NextFrom' = cursor + 1
    BY <1>1, <1>2, <2>1, LineAdded DEF BreakWord
  <2> QED
    BY <1>1, <1>2, <2>1, <2>2 DEF BreakWord, Wrapping
<1>6. CASE size > allowed /\ space # startLine
  <2>1. BreakAtSpace(space)
    BY <1>6 DEF WrapCharacter
  <2>2. space \in startLine + 1 .. cursor /\ desc[space]
    BY <1>1, <1>2, <1>6, WordEndsInTime DEF Wrapping
  <2>3. \A i \in space + 1 .. cursor : ~desc[i]
    BY <1>1, <1>2 DEF Wrapping
  <2> HIDE DEF space
  <2>4. /\ lines' \in Seq(HelpLines) /\ LinesFollow' /\ NextFrom' = space
    BY <1>1, <1>2, <2>1, <2>2, LineAdded DEF BreakAtSpace
  <2> QED
    BY <1>1, <1>2, <2>1, <2>2, <2>3, <2>4 DEF BreakAtSpace, Wrapping
<1>7. CASE ~(size > allowed)
  <2>1. size' = size + 1 /\ lastSpace' = space /\ UNCHANGED <<lines, startLine>>
    BY <1>7 DEF WrapCharacter
  <2>2. NextFrom' = NextFrom
    BY <2>1 DEF NextFrom
  <2>3. Wrapping'
    BY <1>1, <1>2, <2>1, <2>2 DEF Wrapping
  <2> QED
    BY <1>1, <2>1, <2>3 DEF HelpInv, LinesFollow
<1> QED
  BY <1>5, <1>6, <1>7


LEMMA LetterGiven ==
  ASSUME HelpInv, GiveLetter
  PROVE  HelpInv'
<1>1. PICK space \in BOOLEAN : desc' = Append(desc, space)
  BY DEF GiveLetter
<1> DEFINE n == Len(desc)
<1>2. /\ desc' \in Seq(BOOLEAN) /\ Len(desc') = n + 1 /\ n \in Nat
      /\ \A i \in 1 .. n : desc'[i] = desc[i]
  BY <1>1 DEF HelpInv
<1>3. /\ hPc = "desc" /\ hPc' = "desc" /\ lines = <<>>
      /\ UNCHANGED <<longest, cursor, startLine, lastSpace, size, lines>>
      /\ (n + 1 > MaxWordLength /\ \E i \in 1 .. n + 1 : desc'[i]) =>
           \E i \in n + 1 - MaxWordLength .. n + 1 : desc'[i]
  BY <1>2 DEF GiveLetter, HelpInv
<1>4. WordsFit'
  <2>1. SUFFICES ASSUME NEW k \in 1 .. n + 1, k > MaxWordLength, \E i \in 1 .. k : desc'[i]
                 PROVE  \E i \in k - MaxWordLength .. k : desc'[i]
    BY <1>2 DEF WordsFit
  <2>2. CASE k = n + 1
    BY <1>3, <2>1, <2>2
  <2>3. CASE k \in 1 .. n
    <3>1. \E i \in 1 .. k : desc[i]
      <4>1. PICK i \in 1 .. k : desc'[i]
        BY <2>1
      <4>2. i \in 1 .. n
        BY <1>2, <2>3
      <4> QED
        BY <1>2, <4>1, <4>2
    <3>2. PICK i \in k - MaxWordLength .. k : desc[i]
      BY <1>2, <2>1, <2>3, <3>1 DEF HelpInv, WordsFit
    <3>3. i \in 1 .. n
      BY <1>2, <2>1, <2>3, <3>2
    <3> QED
      BY <1>2, <3>2, <3>3
  <2> QED
    BY <1>2, <2>2, <2>3
<1>5. LinesFollow'
  BY <1>3 DEF LinesFollow
<1> QED
  BY <1>2, <1>3, <1>4, <1>5 DEF HelpInv

LEMMA HelpMoves ==
  ASSUME HelpInv, HelpStep
  PROVE  HelpInv'
<1>1. CASE MeasureOptions
  <2>1. longest' \in Int /\ longest' <= OPTION_LONGEST
    BY <1>1 DEF MeasureOptions
  <2> QED
    BY <1>1, <2>1 DEF MeasureOptions, HelpInv, WordsFit, LinesFollow
<1>2. CASE FormatDescription
  <2>1. /\ hPc' = "wrap" /\ UNCHANGED <<longest, desc, cursor, startLine, lastSpace, size, lines>>
        /\ cursor = 1 /\ startLine = 1 /\ lastSpace = 1 /\ size = 0 /\ lines = <<>>
    BY <1>2 DEF FormatDescription, HelpInv
  <2>2. Wrapping'
    BY <2>1 DEF HelpInv, Wrapping, NextFrom
  <2> QED
    BY <2>1, <2>2 DEF HelpInv, WordsFit, LinesFollow
<1>3. CASE AppendRest
  <2>1. /\ hPc = "wrap" /\ hPc' = "written" /\ cursor > Len(desc) /\ Wrapping
        /\ lines' = Append(lines, Line(startLine, Len(desc))) /\ UNCHANGED <<longest, desc>>
    BY <1>3 DEF AppendRest, HelpInv
  <2>2. Len(desc) \in Int /\ Len(desc) >= startLine - 1
    BY <2>1 DEF HelpInv, Wrapping
  <2>3. lines' \in Seq(HelpLines) /\ LinesFollow' /\ Last(lines)'.to = Len(desc)
    BY <2>1, <2>2, LineAdded
  <2> QED
    BY <2>1, <2>3 DEF HelpInv, WordsFit
<1> QED
  BY <1>1, <1>2, <1>3, LetterGiven, CharacterWrapped DEF HelpStep

\* For any widths and any description whose words fit, the lines of the help hold
\* all of its text, in order and once.
THEOREM HelpIsWhole == Spec => []WrapKeepsText
<1>1. Init => HelpInv
  <2> SUFFICES ASSUME Init PROVE HelpInv
    OBVIOUS
  <2>1. /\ hPc = "idle" /\ longest = 0 /\ desc = <<>> /\ cursor = 1 /\ startLine = 1
        /\ lastSpace = 1 /\ size = 0 /\ lines = <<>>
    BY DEF Init, HelpInit
  <2> QED
    BY <2>1 DEF HelpInv, WordsFit, LinesFollow
<1>2. HelpInv /\ UNCHANGED helpVars => HelpInv'
  BY DEF helpVars, HelpInv, WordsFit, LinesFollow, Wrapping, NextFrom
<1>3. HelpInv /\ [Next]_vars => HelpInv'
  BY <1>2, PartsAlone, HelpMoves
<1>4. HelpInv => WrapKeepsText
  BY DEF HelpInv, LinesFollow, WrapKeepsText
<1> QED
  BY <1>1, <1>3, <1>4, PTL DEF Spec

-----------------------------------------------------------------------------
(* The integers.  What was read is the number its digits stand for but for  *)
(* whole words, of which there is none unless that number is a word or      *)
(* more; and the digits before the last stand for less than all.            *)

USE IntegerAssumption

\* The numbers the first k digits stand for.
ReadsNumber(digits, radix, f) ==
  /\ f[0] = 0
  /\ \A k \in 1 .. Len(digits) : f[k] = f[k - 1] * radix + digits[k]

LEMMA BaseIs == base \in {10, 16} /\ base \in Nat \ {0}
BY DEF base

LEMMA NumberFold ==
  ASSUME NEW digits \in Seq(Nat), NEW radix \in Nat
  PROVE  \E f \in [0 .. Len(digits) -> Nat] :
           ReadsNumber(digits, radix, f) /\ NumberOf(digits, radix) = f[Len(digits)]
<1> DEFINE n == Len(digits)
           T == Nat
           nothing == 0
           step == [k \in 1 .. n |-> [r \in T |-> r * radix + digits[k]]]
           Folds(g) == g = [t \in SUBSET DOMAIN digits |->
                              IF t = {} THEN 0 ELSE g[t \ {Max(t)}] * radix + digits[Max(t)]]
           fold == CHOOSE g : Folds(g)
<1>1. NumberOf(digits, radix) = fold[DOMAIN digits]
  BY DEF NumberOf, FoldLeft, MapThenFoldSet
<1>2. ASSUME NEW r \in T, NEW k \in 1 .. n PROVE r * radix + digits[k] \in T
  <2>1. digits[k] \in Nat
    OBVIOUS
  <2>2. r * radix \in Nat
    OBVIOUS
  <2> QED
    BY <2>1, <2>2
<1>3. step \in [1 .. n -> [T -> T]]
  BY <1>2
<1>4. nothing \in T /\ n \in Nat /\ DOMAIN digits = 1 .. n
  OBVIOUS
<1>5. PICK g \in [SUBSET (1 .. n) -> T] : FoldsUp(n, nothing, step, g)
  <2> HIDE DEF step, n, T, nothing
  <2> QED
    BY <1>3, <1>4, FoldExists
<1>6. Folds(g)
  <2>1. ASSUME NEW t \in SUBSET (1 .. n), t # {}
        PROVE  g[t] = g[t \ {Max(t)}] * radix + digits[Max(t)]
    <3>1. Max(t) \in 1 .. n /\ t \ {Max(t)} \in SUBSET (1 .. n)
      BY <1>4, <2>1, LargestIndex
    <3>2. g[t] = step[Max(t)][g[t \ {Max(t)}]] /\ g[t \ {Max(t)}] \in T
      BY <1>5, <2>1, <3>1 DEF FoldsUp
    <3> QED
      BY <3>1, <3>2
  <2> QED
    BY <1>4, <1>5, <2>1 DEF FoldsUp
<1>7. Folds(fold)
  <2> HIDE DEF Folds
  <2> QED
    BY <1>6
<1> HIDE DEF fold
<1>8. FoldsWithin(n, T, nothing, step, fold)
  <2>1. ASSUME NEW t \in SUBSET (1 .. n), t # {}, fold[t \ {Max(t)}] \in T
        PROVE  fold[t] = step[Max(t)][fold[t \ {Max(t)}]]
    <3>1. Max(t) \in 1 .. n
      BY <1>4, <2>1, LargestIndex
    <3> QED
      BY <1>4, <1>7, <2>1, <3>1
  <2>2. fold[{}] = nothing
    BY <1>7
  <2> QED
    BY <2>1, <2>2 DEF FoldsWithin
<1>9. PICK f \in [0 .. n -> T] : RunsThrough(n, nothing, step, f) /\ fold[1 .. n] = f[n]
  <2> HIDE DEF step, n, T, nothing
  <2>1. RunsTo(n, T, nothing, step, fold)
    BY <1>3, <1>4, <1>8, FoldRuns
  <2> QED
    BY <2>1 DEF RunsTo
<1>10. ASSUME NEW k \in 1 .. n PROVE f[k] = f[k - 1] * radix + digits[k]
  <2>1. k - 1 \in 0 .. n
    BY <1>4
  <2>2. f[k - 1] \in T
    BY <2>1
  <2> QED
    BY <1>9, <2>2 DEF RunsThrough
<1>11. ReadsNumber(digits, radix, f)
  BY <1>9, <1>10 DEF RunsThrough, ReadsNumber
<1> QED
  BY <1>1, <1>4, <1>9, <1>11

Numbered(f) ==
  /\ f \in [0 .. Len(input.digits) -> Nat]
  /\ ReadsNumber(input.digits, base, f) /\ Magnitude = f[Len(input.digits)]

\* The number read so far: whole words are lost from it, and none by a digit that
\* left it smaller.
ReadSoFar ==
  \E f, k :
    /\ Numbered(f) /\ k \in Nat /\ f[iter] = k * WordSpace + result
    /\ f[iter] >= WordSpace => f[iter] >= WordSpace + f[iter] \div base

DigitsOfBase == input.digits # <<>> /\ \A i \in 1 .. iter : input.digits[i] < base

LEMMA PartsAreLess ==
  ASSUME input.digits \in Seq(Nat), NEW f, Numbered(f), NEW k \in 0 .. Len(input.digits)
  PROVE  f[k] <= Magnitude
<1> DEFINE n == Len(input.digits)
           S == {j \in Nat : j <= n => f[n - j] <= f[n]}
<1>0. n \in Nat /\ f \in [0 .. n -> Nat] /\ Magnitude = f[n]
  BY DEF Numbered
<1>1. 0 \in S
  BY <1>0
<1>2. ASSUME NEW j \in Nat, j \in S PROVE j + 1 \in S
  <2>1. SUFFICES ASSUME j + 1 <= n PROVE f[n - (j + 1)] <= f[n]
    OBVIOUS
  <2> DEFINE m == n - j
  <2>2. m \in 1 .. n /\ m - 1 \in 0 .. n /\ n - (j + 1) = m - 1
    BY <1>0, <2>1
  <2>3. f[m] <= f[n]
    BY <1>2, <2>1
  <2> HIDE DEF m
  <2>4. f[m] = f[m - 1] * base + input.digits[m]
    BY <2>2 DEF Numbered, ReadsNumber
  <2>5. f[m - 1] \in Nat /\ input.digits[m] \in Nat /\ f[n] \in Nat /\ f[m] \in Nat
    <3>1. m \in 0 .. n /\ n \in 0 .. n
      BY <1>0, <2>2
    <3> HIDE DEF n
    <3>2. f[m - 1] \in Nat /\ f[n] \in Nat /\ f[m] \in Nat
      BY <1>0, <2>2, <3>1
    <3>3. input.digits[m] \in Nat
      BY <2>2 DEF n
    <3> QED
      BY <3>2, <3>3
  <2>6. f[m - 1] * 1 <= f[m - 1] * base
    <3> DEFINE x == f[m - 1]
    <3>1. x \in Nat /\ base >= 1 /\ base \in Nat
      BY <2>5, BaseIs
    <3> HIDE DEF x
    <3>2. x * 1 <= x * base
      BY <3>1, ProductGrows
    <3> QED
      BY <3>2 DEF x
  <2>7. f[m - 1] * base \in Nat
    BY <2>5, BaseIs
  <2>8. f[m - 1] <= f[n]
    BY <2>3, <2>4, <2>5, <2>6, <2>7
  <2> QED
    BY <2>2, <2>8
<1> HIDE DEF S
<1>3. n - k \in S
  <2>1. n - k \in Nat
    BY <1>0
  <2> QED
    BY <1>1, <1>2, <2>1, SetInduction
<1>4. n - k <= n /\ n - (n - k) = k
  BY <1>0
<1> QED
  BY <1>0, <1>3, <1>4 DEF S

Inputs == [negative : BOOLEAN, hex : BOOLEAN, digits : Seq(Nat)]

IntegerInv ==
  /\ input \in Inputs
  /\ ipPc \in {"idle", "digits", "sign", "parsed", "thrown"}
  /\ iter \in 0 .. Len(input.digits) /\ result \in 0 .. WordSpace - 1
  /\ ipPc = "idle" => iter = 0 /\ result = 0
  /\ ipPc = "sign" => iter = Len(input.digits)
  /\ ipPc \in {"digits", "sign"} => ReadSoFar /\ DigitsOfBase
  /\ IntegerExact

LEMMA WellFormedIs ==
  ASSUME input.digits \in Seq(Nat)
  PROVE  WellFormed <=> /\ input.digits # <<>>
                        /\ \A i \in 1 .. Len(input.digits) : input.digits[i] < base
BY DEF WellFormed, ToSet

\* One more digit d of a number n, of which r is left and k words are lost.
OneMoreDigit(W, b, d, k, r, n, next) ==
  /\ W \in Nat \ {0} /\ b \in {10, 16} /\ d \in Nat /\ d < b
  /\ k \in Nat /\ r \in 0 .. W - 1 /\ n \in Nat /\ n = k * W + r
  /\ next = (r * b + d) % W

\* What is lost are whole words again, the test refuses only what is a word or
\* more, and what it lets through is less than a word or well beyond it.
ReadOrRefused(W, b, r, n, next) ==
  /\ next \in 0 .. W - 1
  /\ \E q \in Nat : n = q * W + next
  /\ r > next => n >= W
  /\ (r <= next /\ n >= W) => n >= W + n \div b

LEMMA NextRead ==
  ASSUME NEW W, NEW b, NEW d, NEW k, NEW r, NEW n, NEW next,
         OneMoreDigit(W, b, d, k, r, n, next)
  PROVE  ReadOrRefused(W, b, r, n * b + d, next)
<1> DEFINE x == r * b + d
           c == x \div W
<1>0. /\ W \in Nat \ {0} /\ b \in {10, 16} /\ d \in Nat /\ d < b
      /\ k \in Nat /\ r \in 0 .. W - 1 /\ n \in Nat /\ n = k * W + r
      /\ next = x % W
  BY DEF OneMoreDigit
<1> USE <1>0
<1>1. x \in Nat /\ n * b + d \in Nat /\ x >= r
  BY DEF x
<1>2. c \in Int /\ next \in 0 .. W - 1 /\ x = c * W + next
  <2> HIDE DEF x
  <2> QED
    BY <1>1 DEF x
<1>3. c >= 0
  <2>1. ASSUME c <= -1 PROVE FALSE
    <3>1. c * W <= (-1) * W
      BY <1>2, <2>1, ProductGrows
    <3> QED
      BY <1>1, <1>2, <3>1
  <2> QED
    BY <1>2, <2>1
<1>4. next = x % W
  BY DEF x
<1> HIDE DEF c
<1>5. n * b + d = (k * b + c) * W + next /\ k * b + c \in Nat
  <2>1. n * b + d = (k * W) * b + x
    BY DEF x
  <2>2. (k * W) * b = (k * b) * W /\ (k * b + c) * W = (k * b) * W + c * W
    BY <1>2
  <2>3. k * b \in Nat
    OBVIOUS
  <2> QED
    BY <1>1, <1>2, <1>3, <2>1, <2>2, <2>3
<1>6. n < W => k = 0 /\ n = r
  <2>1. ASSUME k >= 1 PROVE n >= W
    <3>1. 1 * W <= k * W
      BY <2>1, ProductGrows
    <3> QED
      BY <3>1
  <2> QED
    BY <2>1
<1>7. ASSUME n * b + d < W PROVE r <= next
  <2>1. n < W
    BY <1>7
  <2>2. x < W
    BY <1>6, <1>7, <2>1 DEF x
  <2>3. next = x
    <3> HIDE DEF x
    <3> QED
      BY <1>1, <1>4, <2>2
  <2> QED
    BY <1>1, <2>3
<1>8. ASSUME n * b + d >= W, r <= next PROVE n * b + d >= W + (n * b + d) \div b
  <2>1. (n * b + d) \div b = n
    OBVIOUS
  <2>2. ASSUME n * b + d < W + n PROVE FALSE
    <3>1. n < W
      BY <2>2
    <3>2. n = r /\ x = n * b + d
      BY <1>6, <3>1 DEF x
    <3>3. W <= x /\ x < W + r
      BY <1>8, <2>2, <3>2
    <3>4. x % W = x - W
      <4> HIDE DEF x
      <4> QED
        BY <1>1, <3>3
    <3> QED
      BY <1>1, <1>4, <1>8, <3>3, <3>4
  <2> QED
    BY <1>1, <2>1, <2>2
<1>9. r > next => n * b + d >= W
  <2> DEFINE y == n * b + d
  <2>1. y \in Nat /\ (y < W => r <= next)
    BY <1>1, <1>7
  <2> HIDE DEF y
  <2>2. r > next => y >= W
    BY <1>2, <2>1
  <2> QED
    BY <2>2 DEF y
<1>10. \E q \in Nat : n * b + d = q * W + next
  BY <1>5
<1> HIDE DEF x
<1> QED
  BY <1>2, <1>8, <1>9, <1>10 DEF ReadOrRefused

LEMMA BigIsOutside ==
  ASSUME Magnitude \in Nat, Magnitude >= WordSpace
  PROVE  Meant \notin -(WordSpace \div 2) .. WordSpace \div 2 - 1
<1> DEFINE h == WordSpace \div 2
<1>1. h \in Nat \ {0} /\ WordSpace = 2 * h
  BY IntegerAssumption
<1> HIDE DEF h
<1>2. Meant \notin -h .. h - 1
  BY <1>1 DEF Meant
<1> QED
  BY <1>2 DEF h

LEMMA DigitRead ==
  ASSUME IntegerInv, ReadDigit
  PROVE  IntegerInv'
<1> DEFINE digit == input.digits[iter + 1]
           next == (result * base + digit) % WordSpace
<1>1. /\ ipPc = "digits" /\ iter < Len(input.digits) /\ input' = input /\ input.digits \in Seq(Nat)
      /\ iter \in Nat /\ result \in 0 .. WordSpace - 1 /\ value' = value
  BY DEF ReadDigit, IntegerThrows, IntegerInv, Inputs
<1>2. Magnitude' = Magnitude /\ base' = base /\ Meant' = Meant /\ WellFormed' = WellFormed
  BY <1>1 DEF Magnitude, base, Meant, WellFormed
<1>3. PICK f, k : /\ Numbered(f) /\ k \in Nat /\ f[iter] = k * WordSpace + result
                  /\ f[iter] >= WordSpace => f[iter] >= WordSpace + f[iter] \div base
  BY <1>1 DEF IntegerInv, ReadSoFar
<1>4. /\ iter + 1 \in 1 .. Len(input.digits) /\ (iter + 1) - 1 = iter
      /\ iter \in 0 .. Len(input.digits) /\ iter + 1 \in 0 .. Len(input.digits)
  BY <1>1
<1>5. digit \in Nat /\ f[iter] \in Nat /\ f[iter + 1] \in Nat
  BY <1>1, <1>3, <1>4 DEF Numbered
<1>6. f[iter + 1] = f[iter] * base + digit
  BY <1>3, <1>4 DEF Numbered, ReadsNumber
<1>7. f[iter + 1] <= Magnitude /\ Magnitude \in Nat
  <2>1. f[iter + 1] <= Magnitude
    BY <1>1, <1>3, <1>4, PartsAreLess
  <2>2. Len(input.digits) \in 0 .. Len(input.digits)
    BY <1>1
  <2>3. Magnitude \in Nat
    BY <1>3, <2>2 DEF Numbered
  <2> QED
    BY <2>1, <2>3
<1>8. digit >= base => ~WellFormed
  BY <1>1, <1>4, <1>5, BaseIs, WellFormedIs
<1>9. ASSUME digit < base
      PROVE  ReadOrRefused(WordSpace, base, result, f[iter + 1], next)
  <2>1. OneMoreDigit(WordSpace, base, digit, k, result, f[iter], next)
    BY <1>1, <1>3, <1>5, <1>9, BaseIs, IntegerAssumption DEF OneMoreDigit
  <2> HIDE DEF digit, next
  <2>2. ReadOrRefused(WordSpace, base, result, f[iter] * base + digit, next)
    BY <2>1, NextRead
  <2> QED
    BY <1>6, <2>2
<1>10. \/ digit >= base /\ IntegerThrows
       \/ digit < base /\ result > next /\ IntegerThrows
       \/ /\ digit < base /\ result <= next
          /\ result' = next /\ iter' = iter + 1 /\ ipPc' = ipPc
  <2>1. next \in Int
    <3> DEFINE x == result * base + digit
    <3>1. x \in Int
      BY <1>1, <1>5, BaseIs
    <3> HIDE DEF x
    <3>2. x % WordSpace \in Int
      BY <3>1, IntegerAssumption
    <3> QED
      BY <3>2 DEF x
  <2> HIDE DEF next
  <2>2. IF digit >= base \/ result > next
          THEN IntegerThrows
          ELSE result' = next /\ iter' = iter + 1 /\ ipPc' = ipPc
    BY DEF ReadDigit, next
  <2> QED
    BY <1>1, <1>5, <2>1, <2>2, BaseIs
<1> HIDE DEF next, digit
<1>11. CASE IntegerThrows /\ (digit >= base \/ (digit < base /\ result > next))
  <2>1. WellFormed => Meant \notin -(WordSpace \div 2) .. WordSpace \div 2 - 1
    <3>1. ASSUME WellFormed PROVE Magnitude >= WordSpace
      <4>1. digit < base /\ result > next
        BY <1>5, <1>8, <1>11, <3>1, BaseIs
      <4>2. f[iter + 1] >= WordSpace /\ WordSpace \in Nat
        BY <1>9, <4>1, IntegerAssumption DEF ReadOrRefused
      <4> QED
        BY <1>5, <1>7, <4>2
    <3> QED
      BY <1>7, <3>1, BigIsOutside
  <2>2. ipPc' = "thrown" /\ UNCHANGED <<input, iter, result>>
    BY <1>11 DEF IntegerThrows
  <2>3. IntegerExact'
    BY <1>2, <2>1, <2>2 DEF IntegerExact
  <2> QED
    BY <2>2, <2>3 DEF IntegerInv
<1>12. CASE /\ digit < base /\ result <= next
            /\ result' = next /\ iter' = iter + 1 /\ ipPc' = ipPc
  <2>1. Numbered(f)'
    BY <1>1, <1>2, <1>3 DEF Numbered, ReadsNumber
  <2>2. ReadSoFar'
    <3>1. PICK q \in Nat : f[iter + 1] = q * WordSpace + next
      BY <1>9, <1>12 DEF ReadOrRefused
    <3>2. f[iter + 1] >= WordSpace => f[iter + 1] >= WordSpace + f[iter + 1] \div base
      BY <1>9, <1>12 DEF ReadOrRefused
    <3>3. f[iter'] = q * WordSpace + result'
      BY <1>12, <3>1
    <3>4. f[iter'] >= WordSpace => f[iter'] >= WordSpace + f[iter'] \div base'
      BY <1>2, <1>12, <3>2
    <3> QED
      BY <2>1, <3>3, <3>4 DEF ReadSoFar
  <2>3. DigitsOfBase'
    <3>1. DigitsOfBase
      BY <1>1 DEF IntegerInv
    <3>2. \A i \in 1 .. iter + 1 : i \in 1 .. iter \/ i = iter + 1
      BY <1>1
    <3> QED
      BY <1>1, <1>2, <1>12, <3>1, <3>2 DEF DigitsOfBase, digit
  <2>4. result' \in 0 .. WordSpace - 1 /\ iter' \in 0 .. Len(input'.digits)
    BY <1>1, <1>4, <1>9, <1>12 DEF ReadOrRefused
  <2>5. IntegerExact'
    BY <1>1, <1>12 DEF IntegerExact
  <2> QED
    BY <1>1, <1>12, <2>2, <2>3, <2>4, <2>5 DEF IntegerInv
<1> QED
  BY <1>10, <1>11, <1>12

LEMMA SignApplied ==
  ASSUME NEW u \in Nat, NEW negative
  PROVE  /\ ~OutOfRange(negative, u) =>
              /\ ~negative => AsSigned(u) = u
              /\ negative => -AsSigned((u - 1) % WordSpace) - 1 = -u
         /\ OutOfRange(negative, u) =>
              (IF negative THEN -u ELSE u) \notin -(WordSpace \div 2) .. WordSpace \div 2 - 1
<1> DEFINE h == WordSpace \div 2
<1>1. h \in Nat \ {0} /\ WordSpace = 2 * h
  BY IntegerAssumption
<1>2. /\ AsSigned(u) = IF u >= h THEN u - WordSpace ELSE u
      /\ AsSigned((u - 1) % WordSpace) = IF (u - 1) % WordSpace >= h
                                           THEN ((u - 1) % WordSpace) - WordSpace
                                           ELSE (u - 1) % WordSpace
      /\ OutOfRange(negative, u) <=> u > IF negative THEN h ELSE h - 1
  BY DEF AsSigned, OutOfRange
<1> HIDE DEF h
<1>3. u = 0 => (u - 1) % WordSpace = WordSpace - 1
  BY <1>1
<1>4. u \in 1 .. h => (u - 1) % WordSpace = u - 1
  <2>1. u \in 1 .. h => u - 1 \in 0 .. WordSpace - 1
    BY <1>1
  <2>2. \A x \in 0 .. WordSpace - 1 : x % WordSpace = x
    BY <1>1
  <2> QED
    BY <2>1, <2>2
<1>5. ASSUME ~OutOfRange(negative, u)
      PROVE  /\ ~negative => AsSigned(u) = u
             /\ negative => -AsSigned((u - 1) % WordSpace) - 1 = -u
  <2>1. ~negative => AsSigned(u) = u
    BY <1>1, <1>2, <1>5
  <2>2. ASSUME negative PROVE -AsSigned((u - 1) % WordSpace) - 1 = -u
    <3>1. u <= h
      <4>1. ~(u > h)
        BY <1>5, <2>2 DEF OutOfRange, h
      <4> QED
        BY <1>1, <4>1
    <3>2. CASE u = 0
      BY <1>1, <1>2, <1>3, <3>2
    <3>3. CASE u # 0
      BY <1>1, <1>2, <1>4, <3>1, <3>3
    <3> QED
      BY <3>2, <3>3
  <2> QED
    BY <2>1, <2>2
<1>6. OutOfRange(negative, u) => (IF negative THEN -u ELSE u) \notin -h .. h - 1
  BY <1>1, <1>2
<1> QED
  BY <1>5, <1>6 DEF h

LEMMA SignRead ==
  ASSUME IntegerInv, ApplySign
  PROVE  IntegerInv'
<1>1. /\ ipPc = "sign" /\ iter = Len(input.digits) /\ input' = input /\ result' = result
      /\ iter' = iter /\ ipPc' \in {"thrown", "parsed"} /\ result \in 0 .. WordSpace - 1
      /\ input.digits \in Seq(Nat)
  BY DEF ApplySign, IntegerThrows, IntegerInv, Inputs
<1>2. Magnitude' = Magnitude /\ base' = base /\ Meant' = Meant /\ WellFormed' = WellFormed
  BY <1>1 DEF Magnitude, base, Meant, WellFormed
<1>3. PICK k \in Nat : /\ Magnitude \in Nat /\ Magnitude = k * WordSpace + result
                       /\ Magnitude >= WordSpace => Magnitude >= WordSpace + Magnitude \div base
  <2>1. PICK f, k : /\ Numbered(f) /\ k \in Nat /\ f[iter] = k * WordSpace + result
                    /\ f[iter] >= WordSpace => f[iter] >= WordSpace + f[iter] \div base
    BY <1>1 DEF IntegerInv, ReadSoFar
  <2>2. f[iter] = Magnitude /\ Magnitude \in Nat
    <3>1. Len(input.digits) \in 0 .. Len(input.digits)
      BY <1>1
    <3> QED
      BY <1>1, <2>1, <3>1 DEF Numbered
  <2> QED
    BY <2>1, <2>2
<1>4. /\ ipPc' = "parsed" => /\ ~OutOfRange(input.negative, result)
                             /\ value' = IF input.negative
                                           THEN -AsSigned((result - 1) % WordSpace) - 1
                                           ELSE AsSigned(result)
      /\ ipPc' = "thrown" => OutOfRange(input.negative, result)
  BY DEF ApplySign, IntegerThrows
<1>5. k = 0 => result = Magnitude /\ Meant = IF input.negative THEN -result ELSE result
  BY <1>1, <1>3 DEF Meant
<1>6. k # 0 => Magnitude >= WordSpace
  <2>1. ASSUME k >= 1 PROVE Magnitude >= WordSpace
    <3>1. WordSpace \in Nat
      BY IntegerAssumption
    <3>2. 1 * WordSpace <= k * WordSpace
      BY <2>1, <3>1, ProductGrows
    <3> QED
      BY <1>1, <1>3, <3>1, <3>2
  <2> QED
    BY <2>1
<1>7. ASSUME ipPc' = "parsed", Magnitude < WordSpace PROVE value' = Meant
  <2>1. k = 0
    BY <1>3, <1>6, <1>7, IntegerAssumption
  <2> QED
    BY <1>1, <1>4, <1>5, <1>7, <2>1, SignApplied
<1>8. ASSUME ipPc' = "thrown" PROVE Meant \notin -(WordSpace \div 2) .. WordSpace \div 2 - 1
  <2>1. CASE k = 0
    BY <1>1, <1>4, <1>5, <1>8, <2>1, SignApplied
  <2>2. CASE k # 0
    BY <1>3, <1>6, <2>2, BigIsOutside
  <2> QED
    BY <2>1, <2>2
<1>9. WellFormed
  BY <1>1, WellFormedIs DEF IntegerInv, DigitsOfBase
<1>10. IntegerExact'
  BY <1>2, <1>3, <1>7, <1>8, <1>9 DEF IntegerExact
<1> QED
  BY <1>1, <1>10 DEF IntegerInv

LEMMA NothingIsEmpty ==
  ASSUME NEW s \in Seq(Nat)
  PROVE  ToSet(s) = {} <=> s = <<>>
<1>1. ASSUME s # <<>> PROVE s[1] \in ToSet(s)
  <2>1. 1 \in DOMAIN s
    BY <1>1
  <2> QED
    BY <2>1 DEF ToSet
<1>2. ASSUME s = <<>> PROVE ToSet(s) = {}
  <2>1. DOMAIN s = {}
    BY <1>2
  <2> QED
    BY <2>1 DEF ToSet
<1> QED
  BY <1>1, <1>2

LEMMA TextGiven ==
  ASSUME IntegerInv, GiveCharacter \/ MatchPattern
  PROVE  IntegerInv'
<1>1. ipPc = "idle" /\ iter = 0 /\ result = 0 /\ iter' = 0 /\ result' = 0
      /\ ipPc' \in {"idle", "digits", "thrown"}
  BY DEF GiveCharacter, MatchPattern, IntegerInv
<1>2. input' \in Inputs
  <2>1. input \in Inputs /\ input.digits \in Seq(Nat)
    BY DEF IntegerInv, Inputs
  <2>2. CASE GiveCharacter
    <3>1. PICK d \in Digits : input' = [input EXCEPT !.digits = Append(@, d)]
      BY <2>2 DEF GiveCharacter
    <3>2. d \in Nat
      BY <3>1, IntegerAssumption DEF NoDigit, NoMatch
    <3>3. Append(input.digits, d) \in Seq(Nat)
      BY <2>1, <3>2
    <3> QED
      BY <2>1, <3>1, <3>3 DEF Inputs
  <2>3. CASE MatchPattern
    <3>1. PICK minus \in BOOLEAN, hex \in BOOLEAN :
            input' = [input EXCEPT !.negative = minus, !.hex = hex]
      BY <2>3 DEF MatchPattern
    <3> QED
      BY <2>1, <3>1 DEF Inputs
  <2> QED
    BY <2>2, <2>3
<1> DEFINE digits == input'.digits
<1>3. digits \in Seq(Nat) /\ base' \in Nat
  BY <1>2 DEF Inputs, base
<1>4. ReadSoFar'
  <2>1. PICK f \in [0 .. Len(digits) -> Nat] :
          ReadsNumber(digits, base', f) /\ NumberOf(digits, base') = f[Len(digits)]
    BY <1>3, NumberFold
  <2>2. Numbered(f)'
    BY <2>1 DEF Numbered, Magnitude
  <2>3. f[0] = 0 * WordSpace + 0 /\ f[0] < WordSpace
    BY <2>1, IntegerAssumption DEF ReadsNumber
  <2>4. ~(f[iter'] >= WordSpace) /\ f[iter'] = 0 * WordSpace + result'
    BY <1>1, <2>3, IntegerAssumption
  <2> QED
    BY <2>2, <2>4 DEF ReadSoFar
<1>5. 0 \in 0 .. Len(digits)
  BY <1>3
<1>6. ASSUME ipPc' = "digits" PROVE digits # <<>>
  <2>1. MatchPattern
    BY <1>1, <1>6 DEF GiveCharacter
  <2>2. digits = input.digits
    BY <2>1 DEF MatchPattern, IntegerInv, Inputs
  <2>3. ToSet(input.digits) # {}
    BY <1>6, <2>1 DEF MatchPattern
  <2> QED
    BY <1>3, <2>2, <2>3, NothingIsEmpty
<1>7. ipPc' = "thrown" => ~WellFormed'
  <2>1. ASSUME ipPc' = "thrown" PROVE MatchPattern /\ digits = input.digits
    <3>1. MatchPattern
      BY <1>1, <2>1 DEF GiveCharacter
    <3> QED
      BY <3>1 DEF MatchPattern, IntegerInv, Inputs
  <2>2. ASSUME ipPc' = "thrown" PROVE ToSet(digits) = {} \/ NoMatch \in ToSet(digits)
    BY <2>1, <2>2 DEF MatchPattern
  <2>3. ToSet(digits) = {} => digits = <<>>
    BY <1>3, NothingIsEmpty
  <2>4. ~(NoMatch < base')
    BY DEF NoMatch, base
  <2> QED
    BY <2>2, <2>3, <2>4 DEF WellFormed
<1>8. IntegerExact'
  BY <1>1, <1>7 DEF IntegerExact
<1>9. WordSpace \in Nat \ {0}
  BY IntegerAssumption
<1> QED
  BY <1>1, <1>2, <1>4, <1>5, <1>6, <1>8, <1>9 DEF IntegerInv, DigitsOfBase

LEMMA IntegerMoves ==
  ASSUME IntegerInv, IntegerStep
  PROVE  IntegerInv'
<1>1. CASE EndDigits
  <2>1. /\ ipPc = "digits" /\ iter = Len(input.digits) /\ ipPc' = "sign"
        /\ UNCHANGED <<input, iter, result, value>>
    BY <1>1 DEF EndDigits
  <2>2. Magnitude' = Magnitude /\ base' = base
    BY <2>1 DEF Magnitude, base
  <2> QED
    BY <2>1, <2>2 DEF IntegerInv, IntegerExact, ReadSoFar, Numbered, DigitsOfBase
<1> QED
  BY <1>1, TextGiven, DigitRead, SignRead DEF IntegerStep

\* For any width of the word and any text: one that is refused is no number or
\* has no room in the signed type, and one that is read is a number, read as what
\* its digits mean unless it is beyond what the test for the wrap can see.
THEOREM IntegersAreExact == Spec => []IntegerExact
<1>1. Init => IntegerInv
  <2> SUFFICES ASSUME Init PROVE IntegerInv
    OBVIOUS
  <2>1. /\ ipPc = "idle" /\ input = [negative |-> FALSE, hex |-> FALSE, digits |-> <<>>]
        /\ iter = 0 /\ result = 0
    BY DEF Init, IntegerInit
  <2>2. input \in Inputs /\ Len(input.digits) = 0
    <3>1. <<>> \in Seq(Nat) /\ Len(<<>>) = 0
      OBVIOUS
    <3> QED
      BY <2>1, <3>1, Zenon DEF Inputs
  <2>3. IntegerExact
    BY <2>1 DEF IntegerExact
  <2> QED
    BY <2>1, <2>2, <2>3, IntegerAssumption DEF IntegerInv
<1>2. IntegerInv /\ UNCHANGED integerVars => IntegerInv'
  <2> SUFFICES ASSUME IntegerInv, UNCHANGED integerVars PROVE IntegerInv'
    OBVIOUS
  <2>1. UNCHANGED <<ipPc, input, iter, result, value>>
    BY DEF integerVars
  <2>2. Magnitude' = Magnitude /\ base' = base
    BY <2>1 DEF Magnitude, base
  <2>3. /\ ReadSoFar' = ReadSoFar /\ Meant' = Meant /\ WellFormed' = WellFormed
        /\ DigitsOfBase' = DigitsOfBase
    BY <2>1, <2>2 DEF ReadSoFar, Numbered, Meant, WellFormed, DigitsOfBase
  <2> QED
    BY <2>1, <2>2, <2>3 DEF IntegerInv, IntegerExact
<1>3. IntegerInv /\ [Next]_vars => IntegerInv'
  BY <1>2, PartsAlone, IntegerMoves
<1>4. IntegerInv => IntegerExact
  BY DEF IntegerInv
<1> QED
  BY <1>1, <1>3, <1>4, PTL DEF Spec

=============================================================================
