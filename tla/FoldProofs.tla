----------------------------- MODULE FoldProofs -----------------------------
(***************************************************************************)
(* Induction over the natural numbers, stated of a set instead of a        *)
(* predicate, and what it gives for the folds of SequencesExt: that the    *)
(* function FoldLeft is defined by exists.  Every proof about a fold       *)
(* starts from here.                                                       *)
(***************************************************************************)
EXTENDS Integers, SequencesExt, WellFoundedInduction, TLAPS

-----------------------------------------------------------------------------
Below == {ss \in Nat \X Nat : ss[1] < ss[2]}

LEMMA BelowIsWellFounded == IsWellFoundedOn(Below, Nat)
BY NatLessThanWellFounded, Zenon DEF OpToRel, Below

\* A set that holds 0, and n + 1 with every n, holds every natural number.
LEMMA SetInduction ==
  ASSUME NEW S, 0 \in S, \A n \in Nat : n \in S => n + 1 \in S
  PROVE  \A n \in Nat : n \in S
<1> DEFINE T == Nat \ S
<1>1. SUFFICES ASSUME T # {} PROVE FALSE
  OBVIOUS
<1>2. T \subseteq Nat
  OBVIOUS
<1>3. \E x \in T : \A y \in T : ~(<<y, x>> \in Below)
  <2> HIDE DEF T
  <2> QED
    BY <1>1, <1>2, BelowIsWellFounded, WFMin
<1>4. PICK x \in T : \A y \in T : ~(<<y, x>> \in Below)
  BY <1>3
<1>5. x \in Nat /\ x - 1 \in Nat /\ x = (x - 1) + 1 /\ x \notin S
  OBVIOUS
<1>6. <<x - 1, x>> \in Below
  BY <1>5 DEF Below
<1>7. x - 1 \in T
  BY <1>5
<1> QED
  BY <1>4, <1>6, <1>7

-----------------------------------------------------------------------------
(* FoldLeft takes the last index of a sequence first and goes down.        *)

LEMMA LastIndex ==
  ASSUME NEW k \in Nat \ {0}
  PROVE  Max(1 .. k) = k /\ (1 .. k) \ {Max(1 .. k)} = 1 .. k - 1
<1>1. Max(1 .. k) = k
  BY DEF Max
<1>2. (1 .. k) \ {k} = 1 .. k - 1
  OBVIOUS
<1> QED
  BY <1>1, <1>2

\* FoldLeft's choice among the indices of a sequence is one of them.
LEMMA LargestIndex ==
  ASSUME NEW n \in Nat, NEW t \in SUBSET (1 .. n), t # {}
  PROVE  Max(t) \in t
<1> DEFINE Bounds == {b \in Nat : \A y \in t : y <= b}
           S == {k \in Nat : k \in Bounds => \E x \in t : \A y \in t : x >= y}
<1>1. 0 \in S
  <2>1. PICK y \in t : TRUE
    OBVIOUS
  <2> QED
    BY <2>1
<1>2. ASSUME NEW k \in Nat, k \in S PROVE k + 1 \in S
  <2>1. SUFFICES ASSUME \A y \in t : y <= k + 1
                 PROVE  \E x \in t : \A y \in t : x >= y
    OBVIOUS
  <2>2. CASE k + 1 \in t
    BY <2>1, <2>2
  <2>3. CASE k + 1 \notin t
    <3>1. ASSUME NEW y \in t PROVE y <= k
      BY <2>1, <2>3
    <3> QED
      BY <1>2, <3>1
  <2> QED
    BY <2>2, <2>3
<1>3. n \in S
  <2> HIDE DEF S
  <2> QED
    BY <1>1, <1>2, SetInduction
<1>4. \E x \in t : \A y \in t : x >= y
  BY <1>3
<1> QED
  BY <1>4 DEF Max

\* The function a fold over n elements stands for: step[k] takes the element k.
FoldsUp(n, base, step, f) ==
  \A t \in SUBSET (1 .. n) :
    f[t] = IF t = {} THEN base ELSE step[Max(t)][f[t \ {Max(t)}]]

LEMMA FoldExists ==
  ASSUME NEW n \in Nat, NEW T, NEW base \in T, NEW step \in [1 .. n -> [T -> T]]
  PROVE  \E f \in [SUBSET (1 .. n) -> T] : FoldsUp(n, base, step, f)
<1> USE DEF FoldsUp
<1> DEFINE Folds(k, f) == FoldsUp(k, base, step, f)
           Foldable(k) == \E f \in [SUBSET (1 .. k) -> T] : Folds(k, f)
           S == {k \in Nat : k <= n => Foldable(k)}
<1>1. Foldable(0)
  <2>1. SUBSET (1 .. 0) = {{}}
    OBVIOUS
  <2>2. [t \in SUBSET (1 .. 0) |-> base] \in [SUBSET (1 .. 0) -> T]
    OBVIOUS
  <2>3. Folds(0, [t \in SUBSET (1 .. 0) |-> base])
    BY <2>1
  <2> QED
    BY <2>2, <2>3
<1>2. ASSUME NEW k \in Nat, k + 1 <= n, Foldable(k) PROVE Foldable(k + 1)
  <2>1. PICK f \in [SUBSET (1 .. k) -> T] : Folds(k, f)
    BY <1>2
  <2> DEFINE g == [t \in SUBSET (1 .. k + 1) |->
                     IF k + 1 \in t THEN step[k + 1][f[t \ {k + 1}]] ELSE f[t]]
  <2>2. ASSUME NEW t \in SUBSET (1 .. k + 1)
        PROVE  /\ k + 1 \in t => Max(t) = k + 1 /\ t \ {k + 1} \in SUBSET (1 .. k)
               /\ k + 1 \notin t => t \in SUBSET (1 .. k)
    <3>1. ASSUME k + 1 \in t PROVE Max(t) = k + 1
      <4>1. \A y \in t : k + 1 >= y
        OBVIOUS
      <4>2. \A x \in t : (\A y \in t : x >= y) => x = k + 1
        BY <3>1
      <4> QED
        BY <3>1, <4>1, <4>2 DEF Max
    <3> QED
      BY <3>1
  <2>3. step[k + 1] \in [T -> T]
    BY <1>2
  <2>4. g \in [SUBSET (1 .. k + 1) -> T]
    BY <2>2, <2>3
  <2>5. ASSUME NEW t \in SUBSET (1 .. k + 1)
        PROVE  g[t] = IF t = {} THEN base ELSE step[Max(t)][g[t \ {Max(t)}]]
    <3>1. CASE k + 1 \in t
      <4>1. g[t] = step[k + 1][f[t \ {k + 1}]]
        BY <3>1
      <4>2. g[t \ {k + 1}] = f[t \ {k + 1}]
        OBVIOUS
      <4> QED
        BY <2>2, <3>1, <4>1, <4>2
    <3>2. CASE k + 1 \notin t
      <4>1. t \in SUBSET (1 .. k) /\ t \ {Max(t)} \in SUBSET (1 .. k)
        BY <2>2, <3>2
      <4>2. g[t] = f[t] /\ g[t \ {Max(t)}] = f[t \ {Max(t)}]
        BY <3>2, <4>1
      <4> QED
        BY <2>1, <4>1, <4>2
    <3> QED
      BY <3>1, <3>2
  <2> QED
    BY <2>4, <2>5
<1>3. Foldable(n)
  <2> HIDE DEF Foldable
  <2>1. 0 \in S
    BY <1>1
  <2>2. ASSUME NEW k \in Nat, k \in S PROVE k + 1 \in S
    BY <1>2, <2>2
  <2> HIDE DEF S
  <2>3. n \in S
    BY <2>1, <2>2, SetInduction
  <2> USE DEF S
  <2> QED
    BY <2>3
<1> QED
  BY <1>3

\* A function that is known to be one only where its values are in T.
FoldsWithin(n, T, base, step, iter) ==
  /\ iter[{}] = base
  /\ \A t \in SUBSET (1 .. n) :
       (t # {} /\ iter[t \ {Max(t)}] \in T) => iter[t] = step[Max(t)][iter[t \ {Max(t)}]]

\* The values it runs through: after the first k elements.
RunsThrough(n, base, step, f) ==
  f[0] = base /\ \A k \in 1 .. n : f[k] = step[k][f[k - 1]]

\* What the fold of all n elements is.
RunsTo(n, T, base, step, iter) ==
  \E f \in [0 .. n -> T] : RunsThrough(n, base, step, f) /\ iter[1 .. n] = f[n]

LEMMA FoldRuns ==
  ASSUME NEW n \in Nat, NEW T, NEW base \in T, NEW step \in [1 .. n -> [T -> T]], NEW iter,
         FoldsWithin(n, T, base, step, iter)
  PROVE  RunsTo(n, T, base, step, iter)
<1> USE DEF FoldsWithin
<1> DEFINE f == [k \in 0 .. n |-> iter[1 .. k]]
           S == {k \in Nat : k <= n => f[k] \in T}
<1>1. f[0] = base
  <2>1. 1 .. 0 = {}
    OBVIOUS
  <2> QED
    BY <2>1
<1>2. ASSUME NEW k \in 1 .. n, f[k - 1] \in T PROVE f[k] = step[k][f[k - 1]]
  <2>1. Max(1 .. k) = k /\ (1 .. k) \ {Max(1 .. k)} = 1 .. k - 1
    BY LastIndex
  <2>2. k \in 1 .. k /\ 1 .. k \in SUBSET (1 .. n)
    OBVIOUS
  <2>3. iter[1 .. k - 1] \in T => iter[1 .. k] = step[k][iter[1 .. k - 1]]
    BY <2>1, <2>2
  <2> QED
    BY <1>2, <2>3
<1> HIDE DEF f
<1>3. ASSUME NEW k \in 1 .. n, f[k - 1] \in T PROVE f[k] \in T
  BY <1>2, <1>3
<1>4. ASSUME NEW k \in Nat PROVE k <= n => f[k] \in T
  <2>1. 0 \in S
    BY <1>1
  <2>2. ASSUME NEW j \in Nat, j \in S PROVE j + 1 \in S
    <3>1. SUFFICES ASSUME j + 1 <= n PROVE f[j + 1] \in T
      OBVIOUS
    <3>2. j + 1 \in 1 .. n /\ (j + 1) - 1 = j /\ f[j] \in T
      BY <2>2, <3>1
    <3> QED
      BY <1>3, <3>2
  <2> HIDE DEF S
  <2>3. k \in S
    BY <2>1, <2>2, SetInduction
  <2> QED
    BY <2>3 DEF S
<1>5. RunsThrough(n, base, step, f)
  <2>1. ASSUME NEW k \in 1 .. n PROVE f[k] = step[k][f[k - 1]]
    BY <1>2, <1>4
  <2> QED
    BY <1>1, <2>1 DEF RunsThrough
<1>6. f \in [0 .. n -> T] /\ iter[1 .. n] = f[n]
  <2>1. ASSUME NEW k \in 0 .. n PROVE iter[1 .. k] \in T
    BY <1>4 DEF f
  <2> QED
    BY <2>1 DEF f
<1> QED
  BY <1>5, <1>6 DEF RunsTo

=============================================================================
