---------------------------- MODULE CodecProofs ----------------------------
(***************************************************************************)
(* What the bytes of a message carry, for any radix, sizes and numbers     *)
(* that fit their fields: what is read is what was sent, the static buffer *)
(* is clean between sends, and a patched packet is the packet rebuilt.     *)
(***************************************************************************)
EXTENDS CommandProofs

-----------------------------------------------------------------------------
(* A number and its bytes.                                                 *)

WeightStep(w, k) == IF k = 0 THEN 1 ELSE Radix * w[k - 1]

LEMMA WeightDef == \A k \in 0 .. 8 : Weight[k] = WeightStep(Weight, k)
<1> DEFINE T == Nat
           n == 8
           nothing == 1
           step == [k \in 1 .. n |-> [x \in T |-> Radix * x]]
           IsWeight(w) == w = [k \in 0 .. 8 |-> IF k = 0 THEN 1 ELSE Radix * w[k - 1]]
<1>1. step \in [1 .. n -> [T -> T]]
  BY CodecAssumption
<1>2. nothing \in T /\ n \in Nat
  OBVIOUS
<1>3. PICK g \in [SUBSET (1 .. n) -> T] : FoldsUp(n, nothing, step, g)
  <2> HIDE DEF step, n, T, nothing
  <2> QED
    BY <1>1, <1>2, FoldExists
<1>4. FoldsWithin(n, T, nothing, step, g)
  BY <1>3 DEF FoldsUp, FoldsWithin
<1>5. PICK w \in [0 .. n -> T] : RunsThrough(n, nothing, step, w)
  <2> HIDE DEF step, n, T, nothing
  <2>1. RunsTo(n, T, nothing, step, g)
    BY <1>1, <1>2, <1>4, FoldRuns
  <2> QED
    BY <2>1 DEF RunsTo
<1>6. IsWeight(w)
  <2>1. ASSUME NEW k \in 0 .. 8 PROVE w[k] = IF k = 0 THEN 1 ELSE Radix * w[k - 1]
    <3>1. CASE k = 0
      BY <1>5, <3>1 DEF RunsThrough
    <3>2. CASE k # 0
      <4>1. k \in 1 .. 8 /\ k - 1 \in 0 .. 8 /\ w[k - 1] \in Nat
        BY <3>2
      <4> QED
        BY <1>5, <3>2, <4>1 DEF RunsThrough
    <3> QED
      BY <3>1, <3>2
  <2> QED
    BY <2>1
<1>7. IsWeight(Weight)
  <2>1. Weight = CHOOSE x : IsWeight(x)
    BY DEF Weight
  <2> HIDE DEF IsWeight
  <2> QED
    BY <1>6, <2>1
<1> QED
  BY <1>7 DEF WeightStep

LEMMA Weights ==
  /\ Weight[0] = 1
  /\ \A k \in 0 .. 8 : Weight[k] \in Nat \ {0}
  /\ \A k \in 1 .. 8 : Weight[k] = Radix * Weight[k - 1]
<1> DEFINE S == {k \in Nat : k <= 8 => Weight[k] \in Nat \ {0}}
<1>1. Weight[0] = 1
  BY WeightDef DEF WeightStep
<1>2. ASSUME NEW k \in 1 .. 8 PROVE Weight[k] = Radix * Weight[k - 1]
  BY WeightDef DEF WeightStep
<1>3. ASSUME NEW k \in Nat, k \in S PROVE k + 1 \in S
  <2>1. SUFFICES ASSUME k + 1 <= 8 PROVE Weight[k + 1] \in Nat \ {0}
    OBVIOUS
  <2>2. k + 1 \in 1 .. 8 /\ (k + 1) - 1 = k /\ Weight[k] \in Nat \ {0}
    BY <1>3, <2>1
  <2>3. Weight[k + 1] = Radix * Weight[k]
    BY <1>2, <2>2
  <2> QED
    BY <2>2, <2>3, CodecAssumption
<1>4. \A k \in Nat : k \in S
  <2>1. 0 \in S
    BY <1>1
  <2> HIDE DEF S
  <2> QED
    BY <1>3, <2>1, SetInduction
<1> QED
  BY <1>1, <1>2, <1>4

LEMMA Divides ==
  ASSUME NEW a \in Int, NEW d \in Nat \ {0}
  PROVE  /\ a \div d \in Int /\ a % d \in 0 .. d - 1
         /\ a = (a \div d) * d + (a % d)
OBVIOUS

\* Quotient and remainder are unique.
LEMMA DivisionIs ==
  ASSUME NEW d \in Nat \ {0}, NEW q \in Int, NEW r \in 0 .. d - 1, NEW a, a = q * d + r
  PROVE  a \div d = q /\ a % d = r
<1> DEFINE p == a \div d
           s == a % d
<1>1. a \in Int /\ r \in Int
  OBVIOUS
<1>2. p \in Int /\ s \in 0 .. d - 1 /\ a = p * d + s
  BY <1>1, Divides
<1> HIDE DEF p, s
<1>3. ASSUME NEW x \in Int, NEW y \in Int, NEW i \in 0 .. d - 1, NEW j \in 0 .. d - 1,
             x * d + i = y * d + j, x < y
      PROVE  FALSE
  <2>1. y = x + 1 + (y - x - 1) /\ y - x - 1 \in Nat
    BY <1>3
  <2>2. ASSUME NEW e \in Nat, y = x + 1 + e PROVE FALSE
    <3>1. y * d = x * d + d + e * d
      BY <2>2
    <3>2. e * d \in Nat /\ x * d \in Int
      OBVIOUS
    <3> QED
      BY <1>3, <3>1, <3>2
  <2> QED
    BY <2>1, <2>2
<1>4. p = q
  <2>1. CASE p < q
    BY <1>1, <1>2, <1>3, <2>1
  <2>2. CASE q < p
    BY <1>1, <1>2, <1>3, <2>2
  <2> QED
    BY <1>2, <2>1, <2>2
<1>5. p * d \in Int
  BY <1>2
<1>6. s = r
  BY <1>1, <1>2, <1>4, <1>5
<1> QED
  BY <1>4, <1>6 DEF p, s

\* What the high part and one byte below it make together.
LEMMA ByteJoins ==
  ASSUME NEW num \in Int, NEW P \in Nat \ {0}, NEW Q \in Nat \ {0}, NEW R \in Nat \ {0}
  PROVE  (((num \div (R * P)) % Q) * R) + ((num \div P) % R) = (num \div P) % (R * Q)
<1> DEFINE a == num \div P
           c == a \div R
           r == a % R
           d == c \div Q
           e == c % Q
<1>1. a \in Int /\ num % P \in 0 .. P - 1 /\ num = a * P + (num % P)
  BY Divides
<1>2. c \in Int /\ r \in 0 .. R - 1 /\ a = c * R + r
  BY <1>1, Divides
<1>3. d \in Int /\ e \in 0 .. Q - 1 /\ c = d * Q + e
  BY <1>2, Divides
<1>4. num \div (R * P) = c
  <2> DEFINE s == num % P
             W == R * P
  <2> HIDE DEF a, c, r
  <2>1. num = (c * R + r) * P + s /\ s \in 0 .. P - 1
    BY <1>1, <1>2
  <2> HIDE DEF s
  <2>2. (c * R + r) * P = c * W + r * P
    <3>1. (c * R + r) * P = (c * R) * P + r * P
      BY <1>2
    <3>2. (c * R) * P = c * W
      BY <1>2
    <3> QED
      BY <3>1, <3>2
  <2>3. W \in Nat \ {0}
    OBVIOUS
  <2>4. r * P + s \in 0 .. W - 1
    <3>1. r * P \in Nat
      BY <1>2
    <3>2. r + 1 <= R /\ r + 1 \in Nat
      BY <1>2
    <3>3. (r + 1) * P <= W
      BY <3>2
    <3>4. (r + 1) * P = r * P + P
      BY <1>2
    <3> QED
      BY <2>1, <2>3, <3>1, <3>3, <3>4
  <2> DEFINE t == r * P + s
  <2>5. num = c * W + t
    <3>1. r * P \in Int /\ c * W \in Int
      BY <1>2
    <3> QED
      BY <2>1, <2>2, <3>1
  <2>6. t \in 0 .. W - 1
    BY <2>4
  <2> HIDE DEF t, W
  <2>7. num \div W = c
    BY <1>2, <2>3, <2>5, <2>6, DivisionIs
  <2> QED
    BY <2>7 DEF W
<1>5. a % (R * Q) = e * R + r
  <2> DEFINE W == R * Q
  <2> HIDE DEF a, c, r, d, e
  <2>1. a = (d * Q + e) * R + r
    BY <1>2, <1>3
  <2>2. (d * Q + e) * R = d * W + e * R
    <3>1. (d * Q + e) * R = (d * Q) * R + e * R
      BY <1>3
    <3>2. (d * Q) * R = d * W
      BY <1>3
    <3> QED
      BY <3>1, <3>2
  <2>3. W \in Nat \ {0}
    OBVIOUS
  <2>4. e * R + r \in 0 .. W - 1
    <3>1. e * R \in Nat
      BY <1>3
    <3>2. e + 1 <= Q /\ e + 1 \in Nat
      BY <1>3
    <3>3. (e + 1) * R <= W
      BY <3>2
    <3>4. (e + 1) * R = e * R + R
      BY <1>3
    <3> QED
      BY <1>2, <2>3, <3>1, <3>3, <3>4
  <2> DEFINE t == e * R + r
  <2>5. a = d * W + t
    <3>1. e * R \in Int /\ d * W \in Int
      BY <1>3
    <3> QED
      BY <1>2, <2>1, <2>2, <3>1
  <2>6. t \in 0 .. W - 1
    BY <2>4
  <2> HIDE DEF t, W
  <2>7. a % W = t
    BY <1>3, <2>3, <2>5, <2>6, DivisionIs
  <2> QED
    BY <2>7 DEF W, t
<1>6. (num \div (R * P)) % Q = e /\ (num \div P) % R = r
  <2> HIDE DEF c
  <2> QED
    BY <1>4
<1> HIDE DEF e, r
<1>7. (num \div P) % (R * Q) = (e * R) + r
  BY <1>5
<1> QED
  BY <1>6, <1>7, Zenon

\* The number BytesFrom has after the k highest bytes.
ReadsBytes(buf, at, width, f) ==
  /\ f[0] = 0
  /\ \A k \in 1 .. width : f[k] = f[k - 1] * Radix + buf[at + width - k]

LEMMA BytesFold ==
  ASSUME NEW buf, NEW at \in Nat, NEW width \in 1 .. 8,
         \A j \in 0 .. width - 1 : buf[at + j] \in Int
  PROVE  \E f \in [0 .. width -> Int] :
           /\ ReadsBytes(buf, at, width, f)
           /\ BytesFrom(buf, at, width) = f[width]
<1> DEFINE n == width
           T == Int
           nothing == 0
           items == [i \in 1 .. width |-> i]
           step == [k \in 1 .. n |-> [r \in T |-> r * Radix + buf[at + width - k]]]
           Folds(g) == g = [t \in SUBSET DOMAIN items |->
                              IF t = {} THEN 0
                              ELSE g[t \ {Max(t)}] * Radix + buf[at + width - items[Max(t)]]]
           fold == CHOOSE g : Folds(g)
<1>1. BytesFrom(buf, at, width) = fold[DOMAIN items]
  BY DEF BytesFrom, FoldLeft, MapThenFoldSet
<1>2. ASSUME NEW r \in T, NEW k \in 1 .. n PROVE r * Radix + buf[at + width - k] \in T
  <2>1. width - k \in 0 .. width - 1 /\ at + (width - k) = at + width - k
    OBVIOUS
  <2>2. buf[at + width - k] \in Int
    BY <2>1
  <2>3. r * Radix \in Int
    BY CodecAssumption
  <2> QED
    BY <2>2, <2>3
<1>3. step \in [1 .. n -> [T -> T]]
  BY <1>2
<1>4. nothing \in T /\ n \in Nat /\ DOMAIN items = 1 .. n /\ \A k \in 1 .. n : items[k] = k
  OBVIOUS
<1> HIDE DEF items
<1>5. PICK g \in [SUBSET (1 .. n) -> T] : FoldsUp(n, nothing, step, g)
  <2> HIDE DEF step, n, T, nothing
  <2> QED
    BY <1>3, <1>4, FoldExists
<1>6. Folds(g)
  <2>1. ASSUME NEW t \in SUBSET (1 .. n), t # {}
        PROVE  g[t] = g[t \ {Max(t)}] * Radix + buf[at + width - items[Max(t)]]
    <3>1. Max(t) \in 1 .. n /\ t \ {Max(t)} \in SUBSET (1 .. n)
      BY <1>4, <2>1, LargestIndex
    <3>2. g[t] = step[Max(t)][g[t \ {Max(t)}]] /\ g[t \ {Max(t)}] \in T
      BY <1>5, <2>1, <3>1 DEF FoldsUp
    <3> QED
      BY <1>4, <3>1, <3>2
  <2> QED
    BY <1>4, <1>5, <2>1 DEF FoldsUp
<1>7. Folds(fold)
  <2> HIDE DEF Folds
  <2> QED
    BY <1>6
<1> HIDE DEF fold
<1>8. FoldsWithin(n, T, nothing, step, fold)
  <2>1. ASSUME NEW t \in SUBSET (1 .. n), t # {}, fold[t \ {Max(t)}] \in T
        PROVE  fold[t] = step[Max(t)][fold[t \ {Max(t)}]]
    <3>1. Max(t) \in 1 .. n
      BY <1>4, <2>1, LargestIndex
    <3> QED
      BY <1>4, <1>7, <2>1, <3>1
  <2>2. fold[{}] = nothing
    BY <1>7
  <2> QED
    BY <2>1, <2>2 DEF FoldsWithin
<1>9. PICK f \in [0 .. n -> T] : RunsThrough(n, nothing, step, f) /\ fold[1 .. n] = f[n]
  <2> HIDE DEF step, n, T, nothing
  <2>1. RunsTo(n, T, nothing, step, fold)
    BY <1>3, <1>4, <1>8, FoldRuns
  <2> QED
    BY <2>1 DEF RunsTo
<1>10. ASSUME NEW k \in 1 .. n PROVE f[k] = f[k - 1] * Radix + buf[at + width - k]
  <2>1. k - 1 \in 0 .. n
    BY <1>4
  <2>2. f[k - 1] \in T
    BY <2>1
  <2> QED
    BY <1>9, <2>2 DEF RunsThrough
<1>11. ReadsBytes(buf, at, width, f)
  BY <1>9, <1>10 DEF RunsThrough, ReadsBytes
<1> QED
  BY <1>1, <1>4, <1>9, <1>11

\* The bytes of a number are the number, as far as its weight goes.
LEMMA BytesAreNumber ==
  ASSUME NEW num \in Int, NEW buf, NEW at \in Nat, NEW width \in 1 .. 8,
         \A j \in 0 .. width - 1 : buf[at + j] = ByteOf(num, j)
  PROVE  BytesFrom(buf, at, width) = num % Weight[width]
<1>1. ASSUME NEW j \in 0 .. width - 1 PROVE ByteOf(num, j) \in Int
  <2>1. Weight[j] \in Nat \ {0} /\ Radix \in Nat \ {0}
    BY Weights, CodecAssumption
  <2>2. num \div Weight[j] \in Int
    BY <2>1
  <2> QED
    BY <2>1, <2>2 DEF ByteOf
<1>2. PICK f \in [0 .. width -> Int] :
        ReadsBytes(buf, at, width, f) /\ BytesFrom(buf, at, width) = f[width]
  BY <1>1, BytesFold
<1> DEFINE Upper(k) == (num \div Weight[width - k]) % Weight[k]
           S == {k \in Nat : k <= width => f[k] = Upper(k)}
<1>3. f[0] = Upper(0)
  <2>1. Weight[width] \in Nat \ {0} /\ Weight[0] = 1 /\ width - 0 = width
    BY Weights
  <2>2. num \div Weight[width] \in Int
    BY <2>1
  <2>3. Upper(0) = 0
    BY <2>1, <2>2
  <2> QED
    BY <1>2, <2>3 DEF ReadsBytes
<1>4. ASSUME NEW k \in Nat, k + 1 <= width, f[k] = Upper(k) PROVE f[k + 1] = Upper(k + 1)
  <2> DEFINE j == width - (k + 1)
             P == Weight[j]
             Q == Weight[k]
  <2>1. /\ k + 1 \in 1 .. width /\ (k + 1) - 1 = k /\ j \in 0 .. width - 1
        /\ width - k = j + 1 /\ at + width - (k + 1) = at + j
    BY <1>4
  <2>2. f[k + 1] = f[k] * Radix + buf[at + width - (k + 1)]
    BY <1>2, <2>1 DEF ReadsBytes
  <2>3. buf[at + j] = (num \div P) % Radix
    BY <2>1 DEF ByteOf
  <2>4. Weight[width - k] = Radix * P /\ Weight[k + 1] = Radix * Q
    <3>1. j + 1 \in 1 .. 8 /\ (j + 1) - 1 = j /\ k + 1 \in 1 .. 8
      BY <2>1
    <3> QED
      BY <2>1, <3>1, Weights
  <2>5. P \in Nat \ {0} /\ Q \in Nat \ {0} /\ Radix \in Nat \ {0}
    <3>1. j \in 0 .. 8 /\ k \in 0 .. 8
      BY <2>1
    <3>2. Weight[k] \in Nat \ {0}
      BY <3>1, Weights
    <3> HIDE DEF j
    <3>3. Weight[j] \in Nat \ {0}
      BY <3>1, Weights
    <3>4. Radix \in Nat \ {0}
      BY CodecAssumption
    <3> QED
      BY <3>2, <3>3, <3>4
  <2> HIDE DEF j, P, Q
  <2>6. f[k] = (num \div (Radix * P)) % Q
    BY <1>4, <2>4 DEF Q
  <2>7. f[k + 1] = (((num \div (Radix * P)) % Q) * Radix) + ((num \div P) % Radix)
    BY <2>1, <2>2, <2>3, <2>6
  <2>8. f[k + 1] = (num \div P) % (Radix * Q)
    BY <2>5, <2>7, ByteJoins
  <2> QED
    BY <2>4, <2>8 DEF P, j
<1>5. f[width] = Upper(width)
  <2> HIDE DEF Upper
  <2>1. 0 \in S
    BY <1>3
  <2>2. ASSUME NEW k \in Nat, k \in S PROVE k + 1 \in S
    BY <1>4, <2>2
  <2> HIDE DEF S
  <2>3. \A k \in Nat : k \in S
    BY <2>1, <2>2, SetInduction
  <2>4. width \in Nat /\ width <= width
    OBVIOUS
  <2>5. width \in S
    BY <2>3, <2>4
  <2> QED
    BY <2>4, <2>5 DEF S
<1>6. num \div Weight[width - width] = num
  <2>1. Weight[width - width] = 1
    BY Weights
  <2> QED
    BY <2>1
<1> QED
  BY <1>2, <1>5, <1>6

\* The numbers a field of so many bytes holds.
Fits(num, width, signed) ==
  /\ num \in Int
  /\ IF signed THEN -Weight[width] <= 2 * num /\ 2 * num < Weight[width]
               ELSE num \in 0 .. Weight[width] - 1

LEMMA ReadsBack ==
  ASSUME NEW width \in 1 .. 8, NEW signed \in BOOLEAN, NEW num, Fits(num, width, signed),
         NEW buf, NEW at \in Nat,
         \A j \in 0 .. width - 1 : buf[at + j] = ByteOf(num, j)
  PROVE  readData(buf, at, width, signed) = num
<1> DEFINE W == Weight[width]
           n == BytesFrom(buf, at, width)
<1>1. num \in Int /\ W \in Nat \ {0}
  BY Weights DEF Fits
<1>2. n = num % W
  BY <1>1, BytesAreNumber
<1>3. readData(buf, at, width, signed) = IF signed /\ 2 * n >= W THEN n - W ELSE n
  BY DEF readData
<1>4. IF signed THEN -W <= 2 * num /\ 2 * num < W ELSE num \in 0 .. W - 1
  BY DEF Fits
<1> HIDE DEF W, n
<1>5. CASE num >= 0
  <2> DEFINE q == 0
             r == num
  <2>1. r \in 0 .. W - 1 /\ num = q * W + r /\ q \in Int
    BY <1>1, <1>4, <1>5
  <2> HIDE DEF q, r
  <2>2. n = r
    BY <1>1, <1>2, <2>1, DivisionIs
  <2> QED
    BY <1>1, <1>3, <1>4, <2>2 DEF r
<1>6. CASE num < 0
  <2> DEFINE q == -1
             r == num + W
  <2>1. signed /\ r \in 0 .. W - 1 /\ num = q * W + r /\ q \in Int
    BY <1>1, <1>4, <1>6
  <2> HIDE DEF q, r
  <2>2. n = r
    BY <1>1, <1>2, <2>1, DivisionIs
  <2> QED
    BY <1>1, <1>3, <1>4, <2>1, <2>2 DEF r
<1> QED
  BY <1>1, <1>5, <1>6

-----------------------------------------------------------------------------
(* The layout.  The field k of every message begins where the field before  *)
(* it ends.                                                                 *)

Starts == <<0, 1, 3, 7, 15, 19, 23>>
Widths == <<1, 2, 4, 8, 4, 4, 8>>
Ends(k) == Starts[k] + Widths[k]
Spot(k) == Starts[k] .. Ends(k) - 1

HeadNames == {"msgType", "testId", "msgId", "timestamp"}
BodyNames == {"testType", "testTime", "result", "reMsgId", "payloadLen", "testPacketNumber",
              "totalTestNum", "jitterMicroSec", "receivedPkt", "transferByte"}
Layouts == [name : HeadNames \cup BodyNames, at : Nat, width : 1 .. 8, signed : BOOLEAN]

LEMMA FieldIsLayout ==
  ASSUME NEW name \in HeadNames \cup BodyNames, NEW at \in Nat, NEW width \in 1 .. 8,
         NEW signed \in BOOLEAN
  PROVE  Field(name, at, width, signed) \in Layouts
BY Zenon DEF Field, Layouts

LEMMA Tuples ==
  ASSUME NEW S, NEW a \in S
  PROVE  /\ <<a>> \in Seq(S)
         /\ \A b \in S : <<a, b>> \in Seq(S)
         /\ \A b, c \in S : <<a, b, c>> \in Seq(S)
         /\ \A b, c, d \in S : <<a, b, c, d>> \in Seq(S)
OBVIOUS

LEMMA OneTuple ==
  ASSUME NEW S, NEW f \in S, NEW b, b = <<f>>
  PROVE  b \in Seq(S) /\ Len(b) = 1 /\ b[1] = f
OBVIOUS

LEMMA TwoTuple ==
  ASSUME NEW S, NEW f \in S, NEW g \in S, NEW b, b = <<f, g>>
  PROVE  b \in Seq(S) /\ Len(b) = 2 /\ b[1] = f /\ b[2] = g
OBVIOUS

LEMMA Bits == TRUE \in BOOLEAN /\ FALSE \in BOOLEAN
BY Zenon

LEMMA HeadLayout ==
  /\ HeadFields \in Seq(Layouts) /\ Len(HeadFields) = 4
  /\ \A k \in 1 .. 4 : HeadFields[k].at = Starts[k] /\ HeadFields[k].width = Widths[k]
  /\ HeadFields[1].name = "msgType" /\ HeadFields[2].name = "testId"
  /\ HeadFields[3].name = "msgId" /\ HeadFields[4].name = "timestamp"
  /\ ~HeadFields[1].signed /\ ~HeadFields[2].signed
  /\ HeadFields[3].signed /\ HeadFields[4].signed
<1>1. /\ HeadFields[1] = Field("msgType", 0, 1, FALSE) /\ HeadFields[2] = Field("testId", 1, 2, FALSE)
      /\ HeadFields[3] = Field("msgId", 3, 4, TRUE) /\ HeadFields[4] = Field("timestamp", 7, 8, TRUE)
      /\ Len(HeadFields) = 4
  BY DEF HeadFields
<1>2. /\ 0 \in Nat /\ 1 \in Nat /\ 3 \in Nat /\ 7 \in Nat
      /\ 1 \in 1 .. 8 /\ 2 \in 1 .. 8 /\ 4 \in 1 .. 8 /\ 8 \in 1 .. 8
      /\ "msgType" \in HeadNames \cup BodyNames /\ "testId" \in HeadNames \cup BodyNames
      /\ "msgId" \in HeadNames \cup BodyNames /\ "timestamp" \in HeadNames \cup BodyNames
  BY DEF HeadNames
<1>3. HeadFields \in Seq(Layouts)
  <2> DEFINE p == Field("msgType", 0, 1, FALSE)
             q == Field("testId", 1, 2, FALSE)
             r == Field("msgId", 3, 4, TRUE)
             t == Field("timestamp", 7, 8, TRUE)
  <2>1. p \in Layouts /\ q \in Layouts /\ r \in Layouts /\ t \in Layouts
    BY <1>2, FieldIsLayout, Bits, Zenon
  <2>2. HeadFields = <<p, q, r, t>>
    BY Zenon DEF HeadFields
  <2> HIDE DEF p, q, r, t
  <2> QED
    BY <2>1, <2>2, Tuples
<1>4. ASSUME NEW k \in 1 .. 4 PROVE HeadFields[k].at = Starts[k] /\ HeadFields[k].width = Widths[k]
  BY <1>1 DEF Field, Starts, Widths
<1> QED
  BY <1>1, <1>3, <1>4 DEF Field

\* What the layouts of the bodies have in common.
BodyLayout(b) ==
  /\ b \in Seq(Layouts) /\ Len(b) \in 1 .. 3
  /\ \A k \in 1 .. Len(b) :
       /\ b[k].at = Starts[4 + k] /\ b[k].width = Widths[4 + k] /\ b[k].name \in BodyNames
       /\ b[k].signed <=> b[k].name # "transferByte"
       /\ b[k].name = "transferByte" <=> k = 3
  /\ \A j, k \in 1 .. Len(b) : b[j].name = b[k].name => j = k

\* What is known of the field a body begins with, and of the next.
IsField(f, name, at) ==
  /\ f \in Layouts /\ f.name = name /\ f.at = at /\ f.width = 4 /\ f.signed

LEMMA MakesField ==
  ASSUME NEW name \in BodyNames, NEW at \in Nat
  PROVE  IsField(Field(name, at, 4, TRUE), name, at)
<1>1. 4 \in 1 .. 8 /\ name \in HeadNames \cup BodyNames
  OBVIOUS
<1>2. Field(name, at, 4, TRUE) \in Layouts
  BY <1>1, FieldIsLayout, Bits, Zenon
<1> QED
  BY <1>2, Zenon DEF IsField, Field

LEMMA OneField ==
  ASSUME NEW p \in BodyNames \ {"transferByte"}, NEW b, b = <<Field(p, 15, 4, TRUE)>>
  PROVE  BodyLayout(b)
<1> DEFINE f == Field(p, 15, 4, TRUE)
<1>1. IsField(f, p, 15)
  BY MakesField
<1>2. b = <<f>>
  BY Zenon
<1> HIDE DEF f
<1>3. b \in Seq(Layouts) /\ Len(b) = 1 /\ b[1] = f
  BY <1>1, <1>2, OneTuple, Zenon DEF IsField
<1>4. Starts[4 + 1] = 15 /\ Widths[4 + 1] = 4
  BY DEF Starts, Widths
<1>5. ASSUME NEW k \in 1 .. 1
      PROVE  /\ b[k].at = Starts[4 + k] /\ b[k].width = Widths[4 + k] /\ b[k].name \in BodyNames
             /\ b[k].signed <=> b[k].name # "transferByte"
             /\ b[k].name = "transferByte" <=> k = 3
  <2>1. k = 1 /\ k # 3 /\ p \in BodyNames /\ p # "transferByte"
    OBVIOUS
  <2> QED
    BY <1>1, <1>3, <1>4, <2>1, Zenon DEF IsField
<1>6. \A j, k \in 1 .. 1 : b[j].name = b[k].name => j = k
  OBVIOUS
<1>7. Len(b) \in 1 .. 3
  BY <1>3
<1> QED
  BY <1>3, <1>5, <1>6, <1>7, Zenon DEF BodyLayout

LEMMA TwoFields ==
  ASSUME NEW p \in BodyNames \ {"transferByte"}, NEW q \in BodyNames \ {"transferByte"}, p # q,
         NEW f, IsField(f, p, 15), NEW g, IsField(g, q, 19), NEW b, b = <<f, g>>
  PROVE  BodyLayout(b)
<1>1. IsField(f, p, 15) /\ IsField(g, q, 19)
  OBVIOUS
<1>2. f \in Layouts /\ g \in Layouts
  BY <1>1, Zenon DEF IsField
<1>3. b \in Seq(Layouts) /\ Len(b) = 2 /\ b[1] = f /\ b[2] = g
  BY <1>2, TwoTuple
<1>4. /\ Starts[4 + 1] = 15 /\ Widths[4 + 1] = 4
      /\ Starts[4 + 2] = 19 /\ Widths[4 + 2] = 4
  BY DEF Starts, Widths
<1>5. ASSUME NEW k \in 1 .. 2
      PROVE  /\ b[k].at = Starts[4 + k] /\ b[k].width = Widths[4 + k] /\ b[k].name \in BodyNames
             /\ b[k].signed <=> b[k].name # "transferByte"
             /\ b[k].name = "transferByte" <=> k = 3
  <2>1. (k = 1 \/ k = 2) /\ k # 3
    OBVIOUS
  <2>2. p \in BodyNames /\ p # "transferByte" /\ q \in BodyNames /\ q # "transferByte"
    OBVIOUS
  <2>3. CASE k = 1
    BY <1>1, <1>3, <1>4, <2>1, <2>2, <2>3, Zenon DEF IsField
  <2>4. CASE k = 2
    BY <1>1, <1>3, <1>4, <2>1, <2>2, <2>4, Zenon DEF IsField
  <2> QED
    BY <2>1, <2>3, <2>4, Zenon
<1>6. ASSUME NEW j \in 1 .. 2, NEW k \in 1 .. 2, b[j].name = b[k].name PROVE j = k
  <2>1. (j = 1 \/ j = 2) /\ (k = 1 \/ k = 2)
    OBVIOUS
  <2>2. b[1].name = p /\ b[2].name = q
    BY <1>1, <1>3, Zenon DEF IsField
  <2>3. ~(j = 1 /\ k = 2) /\ ~(j = 2 /\ k = 1)
    BY <1>6, <2>2, Zenon
  <2> QED
    BY <2>1, <2>3, Zenon
<1>7. Len(b) \in 1 .. 3
  BY <1>3
<1> QED
  BY <1>3, <1>5, <1>6, <1>7, Zenon DEF BodyLayout

LEMMA BodyLayouts == ASSUME NEW type \in DOMAIN Body PROVE BodyLayout(Body[type])
<1>1. type \in {"testRequest", "testConfirm", "rttTestMsg", "bandwidthTestMsg",
                "bandwidthFinish", "bandwidthReport"}
  BY DEF Body
<1>2. CASE type = "testRequest"
  <2>1. Body[type] = <<Field("testType", 15, 4, TRUE), Field("testTime", 19, 4, TRUE)>>
    BY <1>2 DEF Body
  <2>2. /\ "testType" \in BodyNames \ {"transferByte"} /\ "testTime" \in BodyNames \ {"transferByte"}
        /\ "testType" # "testTime"
    BY DEF BodyNames
  <2> QED
    BY <2>1, <2>2, TwoFields, MakesField
<1>3. CASE type = "testConfirm"
  <2>1. Body[type] = <<Field("result", 15, 4, TRUE), Field("reMsgId", 19, 4, TRUE)>>
    BY <1>3 DEF Body
  <2>2. /\ "result" \in BodyNames \ {"transferByte"} /\ "reMsgId" \in BodyNames \ {"transferByte"}
        /\ "result" # "reMsgId"
    BY DEF BodyNames
  <2> QED
    BY <2>1, <2>2, TwoFields, MakesField
<1>4. CASE type = "rttTestMsg"
  <2>1. Body[type] = <<Field("payloadLen", 15, 4, TRUE)>>
    BY <1>4 DEF Body
  <2>2. "payloadLen" \in BodyNames \ {"transferByte"}
    BY DEF BodyNames
  <2> QED
    BY <2>1, <2>2, OneField
<1>5. CASE type = "bandwidthTestMsg"
  <2>1. Body[type] = <<Field("payloadLen", 15, 4, TRUE), Field("testPacketNumber", 19, 4, TRUE)>>
    BY <1>5 DEF Body
  <2>2. /\ "payloadLen" \in BodyNames \ {"transferByte"}
        /\ "testPacketNumber" \in BodyNames \ {"transferByte"}
        /\ "payloadLen" # "testPacketNumber"
    BY DEF BodyNames
  <2> QED
    BY <2>1, <2>2, TwoFields, MakesField
<1>6. CASE type = "bandwidthFinish"
  <2>1. Body[type] = <<Field("totalTestNum", 15, 4, TRUE)>>
    BY <1>6 DEF Body
  <2>2. "totalTestNum" \in BodyNames \ {"transferByte"}
    BY DEF BodyNames
  <2> QED
    BY <2>1, <2>2, OneField
<1>7. CASE type = "bandwidthReport"
  <2> DEFINE b == <<Field("jitterMicroSec", 15, 4, TRUE), Field("receivedPkt", 19, 4, TRUE),
                    Field("transferByte", 23, 8, FALSE)>>
  <2>1. Body[type] = b
    BY <1>7 DEF Body
  <2>2. /\ b[1] = [name |-> "jitterMicroSec", at |-> 15, width |-> 4, signed |-> TRUE]
        /\ b[2] = [name |-> "receivedPkt", at |-> 19, width |-> 4, signed |-> TRUE]
        /\ b[3] = [name |-> "transferByte", at |-> 23, width |-> 8, signed |-> FALSE]
        /\ Len(b) = 3
    BY DEF Field
  <2>4. b \in Seq(Layouts)
    <3> DEFINE f == Field("jitterMicroSec", 15, 4, TRUE)
               g == Field("receivedPkt", 19, 4, TRUE)
               h == Field("transferByte", 23, 8, FALSE)
    <3>1. /\ 15 \in Nat /\ 19 \in Nat /\ 23 \in Nat /\ 4 \in 1 .. 8 /\ 8 \in 1 .. 8
          /\ "jitterMicroSec" \in HeadNames \cup BodyNames
          /\ "receivedPkt" \in HeadNames \cup BodyNames
          /\ "transferByte" \in HeadNames \cup BodyNames
      BY DEF BodyNames
    <3>2. f \in Layouts /\ g \in Layouts /\ h \in Layouts
      BY <3>1, FieldIsLayout, Bits, Zenon
    <3>3. b = <<f, g, h>>
      BY Zenon
    <3> HIDE DEF f, g, h, b
    <3> QED
      BY <3>2, <3>3, Tuples
  <2> HIDE DEF b
  <2>5. BodyLayout(b)
    <3>1. ASSUME NEW k \in 1 .. 3
          PROVE  /\ b[k].at = Starts[4 + k] /\ b[k].width = Widths[4 + k] /\ b[k].name \in BodyNames
                 /\ b[k].signed <=> b[k].name # "transferByte"
                 /\ b[k].name = "transferByte" <=> k = 3
      BY <2>2 DEF Starts, Widths, BodyNames
    <3>2. ASSUME NEW j \in 1 .. 3, NEW k \in 1 .. 3, b[j].name = b[k].name PROVE j = k
      BY <2>2, <3>2
    <3> QED
      BY <2>2, <2>4, <3>1, <3>2 DEF BodyLayout
  <2> QED
    BY <2>1, <2>5
<1> QED
  BY <1>1, <1>2, <1>3, <1>4, <1>5, <1>6, <1>7

\* The fields of a message, by their place in it.
FieldCount(type) == Len(Fields(type))
FieldOf(type, k) == Fields(type)[k]
FieldValue(m, k) == m[FieldOf(m.type, k).name]

LEMMA Places ==
  /\ Starts[1] = 0 /\ \A k \in 1 .. 6 : Starts[k + 1] = Ends(k)
  /\ \A k \in 1 .. 7 : Widths[k] \in 1 .. 8 /\ Starts[k] \in Nat /\ Ends(k) \in 1 .. 31
BY DEF Starts, Widths, Ends

LEMMA EndsAt == ASSUME NEW k \in 1 .. 7 PROVE Ends(k) \in Int
BY Places

LEMMA SpotsApart ==
  ASSUME NEW j \in 1 .. 7, NEW k \in 1 .. 7, j < k
  PROVE  Ends(j) <= Starts[k]
BY DEF Starts, Widths, Ends

LEMMA FieldsLayout ==
  ASSUME NEW type \in DOMAIN Body
  PROVE  /\ Fields(type) \in Seq(Layouts) /\ FieldCount(type) = 4 + Len(Body[type])
         /\ FieldCount(type) \in 5 .. 7
         /\ \A k \in 1 .. 4 : FieldOf(type, k) = HeadFields[k]
         /\ \A k \in 5 .. FieldCount(type) : FieldOf(type, k) = Body[type][k - 4]
<1> DEFINE b == Body[type]
           h == HeadFields
           fs == Fields(type)
           n == Len(b)
<1>1. b \in Seq(Layouts) /\ n \in 1 .. 3
  BY BodyLayouts DEF BodyLayout
<1>2. h \in Seq(Layouts)
  BY HeadLayout
<1>3. fs = h \o b
  BY DEF Fields
<1>4. FieldCount(type) = Len(fs) /\ \A k : FieldOf(type, k) = fs[k]
  BY DEF FieldCount, FieldOf
<1> HIDE DEF b, h, fs, n
<1>5. n = Len(b)
  BY DEF n
<1>6. /\ fs \in Seq(Layouts) /\ Len(fs) = 4 + n
      /\ \A i \in 1 .. 4 + n : fs[i] = IF i <= 4 THEN h[i] ELSE b[i - 4]
  <2>1. /\ fs \in Seq(Layouts) /\ Len(fs) = Len(h) + n
        /\ \A i \in 1 .. Len(h) + n : fs[i] = IF i <= Len(h) THEN h[i] ELSE b[i - Len(h)]
    BY <1>1, <1>2, <1>3, <1>5, BothInOne
  <2>2. Len(h) = 4
    BY HeadLayout DEF h
  <2> QED
    BY <2>1, <2>2
<1>7. /\ \A k \in 1 .. 4 : fs[k] = h[k]
      /\ \A k \in 5 .. 4 + n : fs[k] = b[k - 4]
  BY <1>1, <1>6
<1>8. 4 + n \in 5 .. 7
  BY <1>1
<1> QED
  BY <1>4, <1>6, <1>7, <1>8 DEF fs, h, b, n

LEMMA FieldsInOrder ==
  ASSUME NEW type \in DOMAIN Body, NEW k \in 1 .. FieldCount(type)
  PROVE  /\ FieldOf(type, k) \in Layouts
         /\ FieldOf(type, k).at = Starts[k] /\ FieldOf(type, k).width = Widths[k]
         /\ FieldOf(type, k).name \in (IF k <= 4 THEN HeadNames ELSE BodyNames)
<1>1. FieldCount(type) \in 5 .. 7 /\ Len(Fields(type)) = FieldCount(type) /\ Fields(type) \in Seq(Layouts)
  BY FieldsLayout DEF FieldCount
<1>2. FieldOf(type, k) \in Layouts
  BY <1>1 DEF FieldOf
<1>3. CASE k \in 1 .. 4
  <2>1. FieldOf(type, k) = HeadFields[k]
    BY <1>3, FieldsLayout
  <2>2. HeadFields[k].name \in HeadNames
    BY <1>3, HeadLayout DEF HeadNames
  <2> QED
    BY <1>2, <1>3, <2>1, <2>2, HeadLayout
<1>4. CASE k \in 5 .. FieldCount(type)
  <2>1. k - 4 \in 1 .. Len(Body[type]) /\ 4 + (k - 4) = k
    BY <1>1, <1>4, FieldsLayout, BodyLayouts DEF BodyLayout
  <2>2. FieldOf(type, k) = Body[type][k - 4]
    BY <1>4, FieldsLayout
  <2>3. /\ Body[type][k - 4].at = Starts[k] /\ Body[type][k - 4].width = Widths[k]
        /\ Body[type][k - 4].name \in BodyNames
    BY <2>1, BodyLayouts DEF BodyLayout
  <2>4. ~(k <= 4)
    BY <1>4
  <2> QED
    BY <1>2, <2>2, <2>3, <2>4
<1> QED
  BY <1>1, <1>3, <1>4

LEMMA NamesDiffer ==
  ASSUME NEW type \in DOMAIN Body, NEW j \in 1 .. FieldCount(type), NEW k \in 1 .. FieldCount(type),
         FieldOf(type, j).name = FieldOf(type, k).name
  PROVE  j = k
<1> DEFINE a == FieldOf(type, j)
           b == FieldOf(type, k)
<1>1. FieldCount(type) \in 5 .. 7
  BY FieldsLayout
<1>2. /\ a.name \in (IF j <= 4 THEN HeadNames ELSE BodyNames)
      /\ b.name \in (IF k <= 4 THEN HeadNames ELSE BodyNames)
      /\ a.name = b.name
  BY FieldsInOrder
<1>3. \A name \in HeadNames : name \notin BodyNames
  BY DEF HeadNames, BodyNames
<1> HIDE DEF a, b
<1>4. j <= 4 <=> k <= 4
  BY <1>2, <1>3
<1>5. CASE j <= 4
  <2>1. j \in 1 .. 4 /\ k \in 1 .. 4
    BY <1>1, <1>4, <1>5
  <2>2. a = HeadFields[j] /\ b = HeadFields[k]
    BY <2>1, FieldsLayout DEF a, b
  <2>3. HeadFields[j].name = HeadFields[k].name
    BY <1>2, <2>2
  <2> QED
    BY <2>1, <2>3, HeadLayout
<1>6. CASE ~(j <= 4)
  <2>1. j \in 5 .. FieldCount(type) /\ k \in 5 .. FieldCount(type)
    BY <1>1, <1>4, <1>6
  <2>2. a = Body[type][j - 4] /\ b = Body[type][k - 4]
    BY <2>1, FieldsLayout DEF a, b
  <2>3. j - 4 \in 1 .. Len(Body[type]) /\ k - 4 \in 1 .. Len(Body[type])
    BY <1>1, <2>1, FieldsLayout, BodyLayouts DEF BodyLayout
  <2>4. j - 4 = k - 4
    BY <1>2, <2>2, <2>3, BodyLayouts DEF BodyLayout
  <2> QED
    BY <1>1, <2>1, <2>4
<1> QED
  BY <1>5, <1>6

-----------------------------------------------------------------------------
(* Writing.                                                                *)

Buffers == [Offsets -> Int]

\* What getBinary may be given.
IsRecord(m) == m = [x \in {"type"} \cup Names(m.type) |-> m[x]]

MessageOK(m) ==
  /\ m.type \in DOMAIN Body
  /\ IsRecord(m)
  /\ \A k \in 1 .. FieldCount(m.type) :
       Fits(FieldValue(m, k), FieldOf(m.type, k).width, FieldOf(m.type, k).signed)
  /\ m.type \in DOMAIN FillerAt => m.payloadLen \in 9 .. BufSize - headLen

LEMMA ByteTyped ==
  ASSUME NEW num \in Int, NEW k \in 0 .. 7
  PROVE  ByteOf(num, k) \in Int
<1>1. Weight[k] \in Nat \ {0} /\ Radix \in Nat \ {0}
  BY Weights, CodecAssumption
<1>2. num \div Weight[k] \in Int
  BY <1>1
<1> QED
  BY <1>1, <1>2 DEF ByteOf

Written(out, buf, at, width, num) ==
  \A i \in Offsets : out[i] = IF i \in at .. at + width - 1 THEN ByteOf(num, i - at) ELSE buf[i]

LEMMA WriteOne ==
  ASSUME NEW buf \in Buffers, NEW at \in Nat, NEW width \in 1 .. 8, NEW num \in Int,
         NEW out, out = writeData(buf, at, width, num)
  PROVE  out \in Buffers /\ Written(out, buf, at, width, num)
<1>1. DOMAIN buf = Offsets /\ \A i \in Offsets : buf[i] \in Int /\ i \in Int
  BY DEF Buffers, Offsets
<1>2. ASSUME NEW i \in Offsets, i \in at .. at + width - 1 PROVE ByteOf(num, i - at) \in Int
  <2>1. i - at \in 0 .. 7
    BY <1>1, <1>2
  <2> QED
    BY <2>1, ByteTyped
<1>3. out = [i \in Offsets |-> IF i \in at .. at + width - 1 THEN ByteOf(num, i - at) ELSE buf[i]]
  BY <1>1 DEF writeData
<1> QED
  BY <1>1, <1>2, <1>3 DEF Buffers, Written

\* The buffers writeFields runs through, a field at a time.
WritesEach(buf, m, f) ==
  /\ f[0] = buf
  /\ \A k \in 1 .. FieldCount(m.type) :
       f[k] = writeData(f[k - 1], FieldOf(m.type, k).at, FieldOf(m.type, k).width, FieldValue(m, k))

LEMMA WritesFold ==
  ASSUME NEW m, MessageOK(m), NEW buf \in Buffers
  PROVE  \E f \in [0 .. FieldCount(m.type) -> Buffers] :
           WritesEach(buf, m, f) /\ writeFields(buf, m) = f[FieldCount(m.type)]
<1> DEFINE T == Buffers
           items == Fields(m.type)
           n == FieldCount(m.type)
           Write(b, x) == writeData(b, x.at, x.width, m[x.name])
           step == [k \in 1 .. n |-> [b \in T |-> Write(b, items[k])]]
           Folds(g) == g = [t \in SUBSET DOMAIN items |->
                              IF t = {} THEN buf ELSE Write(g[t \ {Max(t)}], items[Max(t)])]
           fold == CHOOSE g : Folds(g)
<1>1. writeFields(buf, m) = fold[DOMAIN items]
  BY DEF writeFields, FoldLeft, MapThenFoldSet
<1>2. m.type \in DOMAIN Body
  BY DEF MessageOK
<1>3. DOMAIN items = 1 .. n /\ n \in Nat /\ buf \in T
  BY <1>2, FieldsLayout DEF FieldCount
<1>4. ASSUME NEW b \in T, NEW k \in 1 .. n PROVE Write(b, items[k]) \in T
  <2>1. items[k] = FieldOf(m.type, k) /\ items[k] \in Layouts
    BY <1>2, FieldsInOrder DEF FieldOf
  <2>2. items[k].at \in Nat /\ items[k].width \in 1 .. 8
    BY <2>1 DEF Layouts
  <2>3. m[items[k].name] \in Int
    BY <2>1 DEF MessageOK, Fits, FieldValue
  <2> HIDE DEF items
  <2> QED
    BY <2>2, <2>3, WriteOne
<1>5. step \in [1 .. n -> [T -> T]]
  <2> HIDE DEF items, T, Write, n
  <2> QED
    BY <1>4
<1> HIDE DEF items, Write
<1>6. PICK g \in [SUBSET (1 .. n) -> T] : FoldsUp(n, buf, step, g)
  <2> HIDE DEF step, n, T
  <2> QED
    BY <1>3, <1>5, FoldExists
<1>7. Folds(g)
  <2>1. ASSUME NEW t \in SUBSET (1 .. n), t # {}
        PROVE  g[t] = Write(g[t \ {Max(t)}], items[Max(t)])
    <3>1. Max(t) \in 1 .. n /\ t \ {Max(t)} \in SUBSET (1 .. n)
      BY <1>3, <2>1, LargestIndex
    <3>2. g[t] = step[Max(t)][g[t \ {Max(t)}]] /\ g[t \ {Max(t)}] \in T
      BY <1>6, <2>1, <3>1 DEF FoldsUp
    <3> QED
      BY <1>4, <3>1, <3>2
  <2> QED
    BY <1>3, <1>6, <2>1 DEF FoldsUp
<1>8. Folds(fold)
  <2> HIDE DEF Folds
  <2> QED
    BY <1>7
<1> HIDE DEF fold
<1>9. FoldsWithin(n, T, buf, step, fold)
  <2>1. ASSUME NEW t \in SUBSET (1 .. n), t # {}, fold[t \ {Max(t)}] \in T
        PROVE  fold[t] = step[Max(t)][fold[t \ {Max(t)}]]
    <3>1. Max(t) \in 1 .. n
      BY <1>3, <2>1, LargestIndex
    <3> QED
      BY <1>3, <1>8, <2>1, <3>1
  <2>2. fold[{}] = buf
    BY <1>8
  <2> QED
    BY <2>1, <2>2 DEF FoldsWithin
<1>10. PICK f \in [0 .. n -> T] : RunsThrough(n, buf, step, f) /\ fold[1 .. n] = f[n]
  <2> HIDE DEF step, n, T
  <2>1. RunsTo(n, T, buf, step, fold)
    BY <1>3, <1>5, <1>9, FoldRuns
  <2> QED
    BY <2>1 DEF RunsTo
<1>11. ASSUME NEW k \in 1 .. n
       PROVE  f[k] = writeData(f[k - 1], FieldOf(m.type, k).at, FieldOf(m.type, k).width,
                               FieldValue(m, k))
  <2>1. k - 1 \in 0 .. n
    BY <1>3
  <2>2. f[k - 1] \in T
    BY <2>1
  <2>3. f[k] = Write(f[k - 1], items[k])
    BY <1>10, <2>2 DEF RunsThrough
  <2> QED
    BY <2>3 DEF Write, items, FieldOf, FieldValue
<1>12. WritesEach(buf, m, f)
  BY <1>10, <1>11 DEF RunsThrough, WritesEach
<1> QED
  BY <1>1, <1>3, <1>10, <1>12

\* Where the first k fields end, and a buffer with these fields in it.
Reach(k) == IF k = 0 THEN 0 ELSE Ends(k)

Laid(b, m, k) ==
  \A j \in 1 .. k : \A i \in Spot(j) : b[i] = ByteOf(FieldValue(m, j), i - Starts[j])

KeptFrom(b, buf, first) == \A i \in Offsets : i >= first => b[i] = buf[i]

LEMMA SpotsFit ==
  ASSUME NEW k \in 1 .. 7
  PROVE  \A i \in Spot(k) : i \in Offsets /\ i \in Int /\ Starts[k] <= i /\ i < Ends(k)
                            /\ i - Starts[k] \in 0 .. 7 /\ i - Starts[k] < Widths[k]
<1>1. Widths[k] \in 1 .. 8 /\ Starts[k] \in Nat /\ Ends(k) \in 1 .. 31 /\ Ends(k) = Starts[k] + Widths[k]
  BY Places DEF Ends
<1>2. BufSize \in Nat /\ BufSize >= 31
  BY CodecAssumption
<1> QED
  BY <1>1, <1>2 DEF Spot, Offsets

LEMMA FieldsWritten ==
  ASSUME NEW m, MessageOK(m), NEW buf \in Buffers,
         NEW b, b = writeFields(buf, m), NEW n, n = FieldCount(m.type)
  PROVE  b \in Buffers /\ Laid(b, m, n) /\ KeptFrom(b, buf, Ends(n))
<1>1. m.type \in DOMAIN Body /\ n \in 5 .. 7
  BY FieldsLayout DEF MessageOK
<1>2. PICK f \in [0 .. n -> Buffers] : WritesEach(buf, m, f) /\ b = f[n]
  BY WritesFold
<1> DEFINE Done(k) == Laid(f[k], m, k) /\ KeptFrom(f[k], buf, Reach(k))
           S == {k \in Nat : k <= n => Done(k)}
<1>3. Done(0)
  BY <1>2 DEF WritesEach, Laid, KeptFrom
<1>4. ASSUME NEW k \in Nat, k + 1 <= n, Done(k) PROVE Done(k + 1)
  <2> DEFINE c == f[k]
             d == f[k + 1]
             at == Starts[k + 1]
             width == Widths[k + 1]
             num == FieldValue(m, k + 1)
  <2>1. k + 1 \in 1 .. n /\ k + 1 \in 1 .. 7 /\ k \in 0 .. n /\ (k + 1) - 1 = k
    BY <1>1, <1>4
  <2>2. c \in Buffers /\ d \in Buffers
    BY <1>2, <2>1
  <2>3. at \in Nat /\ width \in 1 .. 8 /\ Ends(k + 1) = at + width /\ Reach(k) = at
    <3>1. at \in Nat /\ width \in 1 .. 8 /\ Ends(k + 1) = at + width
      BY <2>1, Places DEF Ends
    <3>2. CASE k = 0
      BY <3>1, <3>2, Places DEF Reach
    <3>3. CASE k # 0
      <4>1. k \in 1 .. 6
        BY <2>1, <3>3
      <4> QED
        BY <3>1, <3>3, <4>1, Places DEF Reach
    <3> QED
      BY <3>2, <3>3
  <2>4. num \in Int
    BY <1>1, <2>1 DEF MessageOK, Fits
  <2>5. d = writeData(c, at, width, num)
    BY <1>1, <1>2, <2>1, FieldsInOrder DEF WritesEach
  <2>6. Laid(c, m, k) /\ KeptFrom(c, buf, at)
    BY <1>4, <2>3
  <2> HIDE DEF c, d, at, width
  <2>7. \A i \in Offsets : i \in Int /\ d[i] = IF i \in at .. at + width - 1
                                     THEN ByteOf(num, i - at) ELSE c[i]
    <3>1. \A i \in Offsets : i \in Int
      BY DEF Offsets
    <3> HIDE DEF num
    <3>2. at \in Nat /\ width \in 1 .. 8
      BY <2>3
    <3>3. \A i \in Offsets : d[i] = IF i \in at .. at + width - 1 THEN ByteOf(num, i - at) ELSE c[i]
      <4>1. Written(d, c, at, width, num)
        BY <2>2, <2>4, <2>5, <3>2, WriteOne
      <4> QED
        BY <4>1 DEF Written
    <3> QED
      BY <3>1, <3>3
  <2>8. ASSUME NEW j \in 1 .. k + 1, NEW i \in Spot(j)
        PROVE  d[i] = ByteOf(FieldValue(m, j), i - Starts[j])
    <3>1. CASE j = k + 1
      <4>1. i \in Offsets
        BY <2>1, <3>1, SpotsFit
      <4>2. i \in at .. at + width - 1
        BY <2>3, <3>1 DEF Spot, at
      <4> QED
        BY <2>7, <3>1, <4>1, <4>2 DEF at
    <3>2. CASE j # k + 1
      <4>1. j \in 1 .. k /\ j \in 1 .. 7 /\ j < k + 1
        BY <1>1, <2>1, <3>2
      <4>2. i \in Offsets /\ i < Ends(j) /\ i \in Int
        BY <4>1, SpotsFit
      <4>3. Ends(j) <= Starts[k + 1]
        BY <2>1, <4>1, SpotsApart
      <4>5. Ends(j) \in Int
        BY <4>1, EndsAt
      <4>4. i \notin at .. at + width - 1
        BY <2>3, <4>2, <4>3, <4>5 DEF at
      <4>6. c[i] = ByteOf(FieldValue(m, j), i - Starts[j])
        BY <2>6, <4>1 DEF Laid
      <4> QED
        BY <2>7, <4>2, <4>4, <4>6
    <3> QED
      BY <3>1, <3>2
  <2>9. ASSUME NEW i \in Offsets, i >= Ends(k + 1) PROVE d[i] = buf[i]
    <3>1. i \in Int /\ i >= at /\ i \notin at .. at + width - 1
      BY <2>3, <2>7, <2>9
    <3> QED
      BY <2>6, <2>7, <3>1 DEF KeptFrom
  <2>10. Reach(k + 1) = Ends(k + 1)
    BY <2>1 DEF Reach
  <2> QED
    BY <2>8, <2>9, <2>10 DEF Laid, KeptFrom, d
<1>5. Done(n)
  <2> HIDE DEF Done
  <2>1. 0 \in S
    BY <1>3
  <2>2. ASSUME NEW k \in Nat, k \in S PROVE k + 1 \in S
    BY <1>1, <1>4, <2>2
  <2> HIDE DEF S
  <2>3. \A k \in Nat : k \in S
    BY <2>1, <2>2, SetInduction
  <2>4. n \in S
    BY <1>1, <2>3
  <2> QED
    BY <1>1, <2>4 DEF S
<1>6. Reach(n) = Ends(n) /\ n \in 0 .. n
  BY <1>1 DEF Reach
<1> QED
  BY <1>2, <1>5, <1>6

\* A body without a filler is as long as its fields.
LEMMA BodyLength ==
  ASSUME NEW m, m.type \in DOMAIN Body, m.type \notin DOMAIN FillerAt
  PROVE  getLength(m) = Ends(FieldCount(m.type))
<1> DEFINE T == Int
           items == Body[m.type]
           n == Len(items)
           step == [k \in 1 .. n |-> [x \in T |-> x + items[k].width]]
           Folds(g) == g = [t \in SUBSET DOMAIN items |->
                              IF t = {} THEN 0 ELSE g[t \ {Max(t)}] + items[Max(t)].width]
           fold == CHOOSE g : Folds(g)
           nothing == 0
<1>1. getLength(m) = headLen + fold[DOMAIN items]
  BY DEF getLength, FoldLeft, MapThenFoldSet
<1>2. DOMAIN items = 1 .. n /\ n \in 1 .. 3 /\ n \in Nat /\ nothing \in T
  BY BodyLayouts DEF BodyLayout
<1> HIDE DEF items, n
<1>3. ASSUME NEW k \in 1 .. n
      PROVE  items[k].width = Widths[4 + k] /\ items[k].width \in Int
  <2>1. items[k].width = Widths[4 + k]
    BY BodyLayouts DEF BodyLayout, items, n
  <2>2. 4 + k \in 1 .. 7
    BY <1>2
  <2> QED
    BY <2>1, <2>2, Places
<1>4. step \in [1 .. n -> [T -> T]]
  BY <1>3
<1>5. PICK g \in [SUBSET (1 .. n) -> T] : FoldsUp(n, nothing, step, g)
  <2> HIDE DEF step, n, T, nothing
  <2> QED
    BY <1>2, <1>4, FoldExists
<1>6. Folds(g)
  <2>1. ASSUME NEW t \in SUBSET (1 .. n), t # {}
        PROVE  g[t] = g[t \ {Max(t)}] + items[Max(t)].width
    <3>1. Max(t) \in 1 .. n /\ t \ {Max(t)} \in SUBSET (1 .. n)
      BY <1>2, <2>1, LargestIndex
    <3>2. g[t] = step[Max(t)][g[t \ {Max(t)}]] /\ g[t \ {Max(t)}] \in T
      BY <1>5, <2>1, <3>1 DEF FoldsUp
    <3> QED
      BY <3>1, <3>2
  <2> QED
    BY <1>2, <1>5, <2>1 DEF FoldsUp
<1>7. Folds(fold)
  <2> HIDE DEF Folds
  <2> QED
    BY <1>6
<1> HIDE DEF fold
<1>8. FoldsWithin(n, T, nothing, step, fold)
  <2>1. ASSUME NEW t \in SUBSET (1 .. n), t # {}, fold[t \ {Max(t)}] \in T
        PROVE  fold[t] = step[Max(t)][fold[t \ {Max(t)}]]
    <3>1. Max(t) \in 1 .. n
      BY <1>2, <2>1, LargestIndex
    <3> QED
      BY <1>2, <1>7, <2>1, <3>1
  <2>2. fold[{}] = nothing
    BY <1>7
  <2> QED
    BY <2>1, <2>2 DEF FoldsWithin
<1>9. PICK f \in [0 .. n -> T] : RunsThrough(n, nothing, step, f) /\ fold[1 .. n] = f[n]
  <2> HIDE DEF step, n, T, nothing
  <2>1. RunsTo(n, T, nothing, step, fold)
    BY <1>2, <1>4, <1>8, FoldRuns
  <2> QED
    BY <2>1 DEF RunsTo
<1>10. f[0] = 0 /\ \A k \in 1 .. n : f[k] = f[k - 1] + Widths[4 + k]
  <2>1. ASSUME NEW k \in 1 .. n PROVE f[k] = f[k - 1] + Widths[4 + k]
    <3>1. f[k - 1] \in T
      BY <1>2
    <3> QED
      BY <1>3, <1>9, <3>1 DEF RunsThrough
  <2> QED
    BY <1>9, <2>1 DEF RunsThrough
<1>11. headLen + f[n] = Ends(4 + n)
  <2>1. /\ Widths[5] = 4 /\ Widths[6] = 4 /\ Widths[7] = 8
        /\ Ends(5) = 19 /\ Ends(6) = 23 /\ Ends(7) = 31 /\ headLen = 15
    BY DEF Widths, Starts, Ends, headLen
  <2>2. CASE n = 1
    BY <1>10, <2>1, <2>2
  <2>3. CASE n = 2
    <3>1. f[1] = 4
      BY <1>10, <2>1, <2>3
    <3>2. f[2] = 8
      BY <1>10, <2>1, <2>3, <3>1
    <3> QED
      BY <2>1, <2>3, <3>2
  <2>4. CASE n = 3
    <3>1. f[1] = 4
      BY <1>10, <2>1, <2>4
    <3>2. f[2] = 8
      BY <1>10, <2>1, <2>4, <3>1
    <3>3. f[3] = 16
      BY <1>10, <2>1, <2>4, <3>2
    <3> QED
      BY <2>1, <2>4, <3>3
  <2> QED
    BY <1>2, <2>2, <2>3, <2>4
<1> QED
  BY <1>1, <1>2, <1>9, <1>11, FieldsLayout DEF items, n

\* A filler begins where the fields end.
LEMMA FillerLayout ==
  ASSUME NEW type \in DOMAIN FillerAt
  PROVE  type \in DOMAIN Body /\ FillerAt[type] = Ends(FieldCount(type)) /\ FillerAt[type] <= 23
<1>1. type \in {"rttTestMsg", "bandwidthTestMsg"}
  BY DEF FillerAt
<1>2. CASE type = "rttTestMsg"
  <2>1. type \in DOMAIN Body /\ Len(Body[type]) = 1
    BY <1>2 DEF Body
  <2>2. FieldCount(type) = 5
    BY <2>1, FieldsLayout
  <2> QED
    BY <1>2, <2>1, <2>2 DEF FillerAt, Ends, Starts, Widths
<1>3. CASE type = "bandwidthTestMsg"
  <2>1. type \in DOMAIN Body /\ Len(Body[type]) = 2
    BY <1>3 DEF Body
  <2>2. FieldCount(type) = 4 + Len(Body[type])
    BY <2>1, FieldsLayout
  <2>3. FieldCount(type) = 6
    BY <2>1, <2>2
  <2> QED
    BY <1>3, <2>1, <2>3 DEF FillerAt, Ends, Starts, Widths
<1> QED
  BY <1>1, <1>2, <1>3

LEMMA Lengths ==
  ASSUME NEW m, MessageOK(m), NEW n, n = FieldCount(m.type)
  PROVE  /\ n \in 5 .. 7 /\ getLength(m) \in Nat
         /\ Ends(n) <= getLength(m) /\ getLength(m) <= BufSize
         /\ m.type \in DOMAIN FillerAt => getLength(m) = headLen + m.payloadLen
<1>1. m.type \in DOMAIN Body /\ n \in 5 .. 7
  BY FieldsLayout DEF MessageOK
<1>2. Ends(n) \in 1 .. 31 /\ BufSize \in Nat /\ BufSize >= 31
  BY <1>1, Places, CodecAssumption
<1>3. CASE m.type \in DOMAIN FillerAt
  <2>1. m.payloadLen \in 9 .. BufSize - headLen /\ headLen = 15
    BY <1>3 DEF MessageOK, headLen
  <2>2. getLength(m) = headLen + m.payloadLen
    BY <1>3 DEF getLength
  <2>3. Ends(n) <= 23
    BY <1>3, FillerLayout
  <2> QED
    BY <1>1, <1>2, <2>1, <2>2, <2>3
<1>4. CASE m.type \notin DOMAIN FillerAt
  <2>1. getLength(m) = Ends(n)
    BY <1>1, <1>4, BodyLength
  <2> QED
    BY <1>1, <1>2, <1>4, <2>1
<1> QED
  BY <1>3, <1>4

\* What the bytes of a message are, up to its length.
Holds(b, m) ==
  /\ Laid(b, m, FieldCount(m.type))
  /\ m.type \in DOMAIN FillerAt =>
       \A i \in Ends(FieldCount(m.type)) .. getLength(m) - 1 :
         b[i] = (i - Ends(FieldCount(m.type))) % Radix

LEMMA BinaryWritten ==
  ASSUME NEW m, MessageOK(m), NEW buf \in Buffers, NEW b, b = getBinary(buf, m)
  PROVE  b \in Buffers /\ Holds(b, m) /\ KeptFrom(b, buf, getLength(m))
<1> DEFINE n == FieldCount(m.type)
           c == writeFields(buf, m)
           first == Ends(n)
           len == getLength(m)
<1>1. n \in 5 .. 7 /\ len \in Nat /\ first <= len /\ len <= BufSize
  BY Lengths
<1>2. c \in Buffers /\ Laid(c, m, n) /\ KeptFrom(c, buf, first)
  BY FieldsWritten
<1>3. first \in 1 .. 31 /\ \A k \in 1 .. 7 : Ends(k) \in 1 .. 31
  BY <1>1, Places
<1>4. m.type \in DOMAIN FillerAt => FillerAt[m.type] = first /\ len = headLen + m.payloadLen
  BY FillerLayout, Lengths
<1>5. \A i \in Offsets : i \in Int /\ c[i] \in Int
  BY <1>2 DEF Buffers, Offsets
<1>6. /\ m.type \in DOMAIN FillerAt =>
           b = writeFiller(c, FillerAt[m.type], headLen + m.payloadLen)
      /\ m.type \notin DOMAIN FillerAt => b = c
  BY DEF getBinary
<1> HIDE DEF c, first, len, n
<1>7. CASE m.type \in DOMAIN FillerAt
  <2>1. b = [i \in Offsets |-> IF i \in first .. len - 1 THEN (i - first) % Radix ELSE c[i]]
    <3>1. b = writeFiller(c, first, len)
      BY <1>4, <1>6, <1>7
    <3> QED
      BY <3>1 DEF writeFiller
  <2>2. ASSUME NEW i \in first .. len - 1 PROVE i \in Offsets /\ (i - first) % Radix \in Int
    <3>1. i \in Offsets
      BY <1>1, <1>3, CodecAssumption DEF Offsets
    <3>2. i - first \in Int /\ Radix \in Nat \ {0}
      BY <1>3, CodecAssumption
    <3> QED
      BY <3>1, <3>2
  <2>3. b \in Buffers
    BY <1>5, <2>1, <2>2 DEF Buffers
  <2>4. ASSUME NEW j \in 1 .. n, NEW i \in Spot(j)
        PROVE  b[i] = ByteOf(FieldValue(m, j), i - Starts[j])
    <3>1. j \in 1 .. 7 /\ j \in Int /\ n \in 1 .. 7
      BY <1>1
    <3>2. i \in Offsets /\ i \in Int /\ i < Ends(j)
      BY <3>1, SpotsFit
    <3>3. Ends(j) <= first
      <4>1. CASE j = n
        BY <1>3, <4>1 DEF first
      <4>2. CASE j # n
        <5>1. j < n
          BY <1>1, <4>2
        <5>2. Ends(j) <= Starts[n] /\ first = Starts[n] + Widths[n]
          BY <3>1, <5>1, SpotsApart DEF first, Ends
        <5>3. Ends(j) \in Int /\ Starts[n] \in Int /\ Widths[n] \in Nat
          BY <3>1, Places
        <5> QED
          BY <5>2, <5>3
      <4> QED
        BY <4>1, <4>2
    <3>4. i \notin first .. len - 1
      BY <1>3, <3>1, <3>2, <3>3
    <3>5. c[i] = ByteOf(FieldValue(m, j), i - Starts[j])
      BY <1>2 DEF Laid
    <3> QED
      BY <2>1, <3>2, <3>4, <3>5
  <2>5. ASSUME NEW i \in first .. len - 1 PROVE b[i] = (i - first) % Radix
    BY <2>1, <2>2
  <2>6. ASSUME NEW i \in Offsets, i >= len PROVE b[i] = buf[i]
    <3>1. i \notin first .. len - 1 /\ i >= first
      BY <1>1, <1>3, <1>5, <2>6
    <3> QED
      BY <1>2, <2>1, <3>1 DEF KeptFrom
  <2> QED
    BY <2>3, <2>4, <2>5, <2>6 DEF Holds, Laid, KeptFrom, first, len, n
<1>8. CASE m.type \notin DOMAIN FillerAt
  <2>1. b = c
    BY <1>6, <1>8
  <2>2. len = first
    BY <1>8, BodyLength DEF MessageOK, len, first, n
  <2> QED
    BY <1>2, <1>8, <2>1, <2>2 DEF Holds, n, len
<1> QED
  BY <1>7, <1>8

LEMMA Covered ==
  ASSUME NEW n \in 5 .. 7, NEW i \in Nat, i < Ends(n)
  PROVE  \E k \in 1 .. n : i \in Spot(k)
<1>1. /\ Spot(1) = 0 .. 0 /\ Spot(2) = 1 .. 2 /\ Spot(3) = 3 .. 6 /\ Spot(4) = 7 .. 14
      /\ Spot(5) = 15 .. 18 /\ Spot(6) = 19 .. 22 /\ Spot(7) = 23 .. 30
      /\ Ends(5) = 19 /\ Ends(6) = 23 /\ Ends(7) = 31
  BY DEF Spot, Ends, Starts, Widths
<1>2. {1, 2, 3, 4, 5} \subseteq 1 .. n /\ (n >= 6 => 6 \in 1 .. n) /\ (n >= 7 => 7 \in 1 .. n)
  OBVIOUS
<1>3. \/ i \in 0 .. 0 \/ i \in 1 .. 2 \/ i \in 3 .. 6 \/ i \in 7 .. 14 \/ i \in 15 .. 18
      \/ n >= 6 /\ i \in 19 .. 22
      \/ n >= 7 /\ i \in 23 .. 30
  BY <1>1
<1> QED
  BY <1>1, <1>2, <1>3

\* The message and what was there before make every byte.
LEMMA SameBytes ==
  ASSUME NEW m, MessageOK(m), NEW buf, NEW b \in Buffers, NEW c \in Buffers,
         Holds(b, m), Holds(c, m),
         KeptFrom(b, buf, getLength(m)), KeptFrom(c, buf, getLength(m))
  PROVE  b = c
<1> DEFINE n == FieldCount(m.type)
           first == Ends(n)
           len == getLength(m)
<1>1. n \in 5 .. 7 /\ len \in Nat /\ first \in Int
  BY Lengths, Places
<1>2. ASSUME NEW i \in Offsets PROVE b[i] = c[i]
  <2>1. i \in Nat
    BY DEF Offsets
  <2>2. CASE i < first
    <3>1. PICK k \in 1 .. n : i \in Spot(k)
      BY <1>1, <2>1, <2>2, Covered
    <3> QED
      BY <3>1 DEF Holds, Laid
  <2>3. CASE i >= len
    BY <2>3 DEF KeptFrom
  <2>4. CASE i >= first /\ i < len
    <3>1. m.type \in DOMAIN FillerAt
      <4>1. SUFFICES ASSUME m.type \notin DOMAIN FillerAt PROVE FALSE
        OBVIOUS
      <4>2. len = first
        BY <4>1, BodyLength DEF MessageOK
      <4> QED
        BY <1>1, <2>1, <2>4, <4>2
    <3>2. i \in first .. len - 1
      BY <1>1, <2>1, <2>4
    <3> QED
      BY <3>1, <3>2 DEF Holds
  <2> QED
    BY <1>1, <2>1, <2>2, <2>3, <2>4
<1> QED
  BY <1>2 DEF Buffers

-----------------------------------------------------------------------------
(* Reading.                                                                *)

LEMMA NamesAre ==
  ASSUME NEW type \in DOMAIN Body
  PROVE  /\ \A k \in 1 .. FieldCount(type) : FieldOf(type, k).name \in Names(type)
         /\ \A name \in Names(type) : \E k \in 1 .. FieldCount(type) : FieldOf(type, k).name = name
         /\ ToSet(Fields(type)) = {FieldOf(type, k) : k \in 1 .. FieldCount(type)}
<1>1. DOMAIN Fields(type) = 1 .. FieldCount(type)
  BY FieldsLayout DEF FieldCount
<1> QED
  BY <1>1 DEF Names, FieldOf, ToSet

LEMMA ParsedBack ==
  ASSUME NEW m, MessageOK(m), NEW b, Laid(b, m, FieldCount(m.type)),
         NEW name \in Names(m.type)
  PROVE  Parse(b, m.type)[name] = m[name]
<1> DEFINE type == m.type
           n == FieldCount(type)
           Named(f) == f \in ToSet(Fields(type)) /\ f.name = name
           g == CHOOSE f \in ToSet(Fields(type)) : f.name = name
<1>1. type \in DOMAIN Body /\ n \in 5 .. 7
  BY FieldsLayout DEF MessageOK
<1>2. PICK k \in 1 .. n : FieldOf(type, k).name = name
  BY <1>1, NamesAre
<1> DEFINE f == FieldOf(type, k)
<1>3. g = f
  <2>1. f \in ToSet(Fields(type)) /\ f.name = name
    BY <1>1, <1>2, NamesAre
  <2>2. ASSUME NEW h \in ToSet(Fields(type)), h.name = name PROVE h = f
    <3>1. PICK j \in 1 .. n : h = FieldOf(type, j)
      BY <1>1, NamesAre
    <3>2. j = k
      BY <1>1, <1>2, <2>2, <3>1, NamesDiffer
    <3> QED
      BY <3>1, <3>2
  <2> HIDE DEF f
  <2> QED
    BY <2>1, <2>2, Zenon
<1>4. Parse(b, type)[name] = readData(b, g.at, g.width, g.signed)
  BY DEF Parse
<1>5. /\ f.at = Starts[k] /\ f.width = Widths[k] /\ f \in Layouts
      /\ k \in 1 .. 7 /\ Starts[k] \in Nat /\ Widths[k] \in 1 .. 8
  BY <1>1, FieldsInOrder, Places
<1>6. f.signed \in BOOLEAN
  BY <1>5, Zenon DEF Layouts
<1>7. Fits(m[name], f.width, f.signed)
  BY <1>2 DEF MessageOK, FieldValue
<1>8. ASSUME NEW j \in 0 .. Widths[k] - 1 PROVE b[Starts[k] + j] = ByteOf(m[name], j)
  <2>1. Starts[k] + j \in Spot(k) /\ (Starts[k] + j) - Starts[k] = j
    BY <1>5 DEF Spot, Ends
  <2>2. b[Starts[k] + j] = ByteOf(FieldValue(m, k), (Starts[k] + j) - Starts[k])
    BY <2>1 DEF Laid
  <2> QED
    BY <1>2, <2>1, <2>2 DEF FieldValue
<1> HIDE DEF f, g
<1>9. readData(b, f.at, f.width, f.signed) = m[name]
  <2> DEFINE at == f.at
             width == f.width
             signed == f.signed
             num == m[name]
  <2>1. width \in 1 .. 8 /\ at \in Nat
    BY <1>5
  <2>2. signed \in BOOLEAN
    BY <1>6
  <2>3. Fits(num, width, signed)
    BY <1>7
  <2>4. \A j \in 0 .. width - 1 : b[at + j] = ByteOf(num, j)
    BY <1>5, <1>8
  <2> HIDE DEF at, width, signed, num
  <2>5. readData(b, at, width, signed) = num
    BY <2>1, <2>2, <2>3, <2>4, ReadsBack
  <2> QED
    BY <2>5 DEF at, width, signed, num
<1> QED
  BY <1>3, <1>4, <1>9

-----------------------------------------------------------------------------
(* What is sent fits.                                                      *)

LEMMA WeightsGrow ==
  /\ Weight[1] = Radix /\ Weight[1] > 6
  /\ 2 * Weight[2] <= Weight[4] /\ Weight[2] <= Weight[8]
<1>1. ASSUME NEW k \in 0 .. 7 PROVE Weight[k + 1] >= 2 * Weight[k]
  <2>1. k + 1 \in 1 .. 8 /\ (k + 1) - 1 = k /\ k \in 0 .. 8
    OBVIOUS
  <2>2. Weight[k + 1] = Radix * Weight[k] /\ Weight[k] \in Nat
    BY <2>1, Weights
  <2>3. ASSUME NEW w \in Nat PROVE Radix * w >= 2 * w
    <3>1. Radix - 2 \in Nat /\ Radix \in Nat
      BY CodecAssumption
    <3>2. Radix * w = 2 * w + (Radix - 2) * w
      BY <3>1
    <3>3. (Radix - 2) * w \in Nat
      BY <3>1
    <3> QED
      BY <3>2, <3>3
  <2> QED
    BY <2>2, <2>3
<1>2. \A k \in 1 .. 8 : Weight[k] \in Nat
  BY Weights
<1>3. Weight[3] >= 2 * Weight[2] /\ Weight[4] >= 2 * Weight[3] /\ Weight[5] >= 2 * Weight[4]
      /\ Weight[6] >= 2 * Weight[5] /\ Weight[7] >= 2 * Weight[6] /\ Weight[8] >= 2 * Weight[7]
  BY <1>1
<1>4. Weight[1] = Radix * Weight[0] /\ Weight[0] = 1
  BY Weights
<1> QED
  BY <1>2, <1>3, <1>4, CodecAssumption

\* The fields that carry a type, a test id or a count are unsigned.
LEMMA FieldKinds ==
  ASSUME NEW type \in DOMAIN Body, NEW k \in 1 .. FieldCount(type), NEW f, f = FieldOf(type, k)
  PROVE  \/ f.name = "msgType" /\ f.width = 1 /\ ~f.signed
         \/ f.name = "testId" /\ f.width = 2 /\ ~f.signed
         \/ f.name = "msgId" /\ f.width = 4 /\ f.signed
         \/ f.name = "timestamp" /\ f.width = 8 /\ f.signed
         \/ f.name = "transferByte" /\ f.width = 8 /\ ~f.signed
         \/ f.name \in BodyNames \ {"transferByte"} /\ f.width = 4 /\ f.signed
<1>1. FieldCount(type) \in 5 .. 7 /\ f.width = Widths[k]
  BY FieldsLayout, FieldsInOrder
<1>2. /\ Widths[1] = 1 /\ Widths[2] = 2 /\ Widths[3] = 4 /\ Widths[4] = 8
      /\ Widths[5] = 4 /\ Widths[6] = 4 /\ Widths[7] = 8
  BY DEF Widths
<1>3. CASE k \in 1 .. 4
  <2>1. f = HeadFields[k]
    BY <1>3, FieldsLayout
  <2>2. CASE k = 1
    BY <1>1, <1>2, <2>1, <2>2, HeadLayout, Zenon
  <2>3. CASE k = 2
    BY <1>1, <1>2, <2>1, <2>3, HeadLayout, Zenon
  <2>4. CASE k = 3
    BY <1>1, <1>2, <2>1, <2>4, HeadLayout, Zenon
  <2>5. CASE k = 4
    BY <1>1, <1>2, <2>1, <2>5, HeadLayout, Zenon
  <2>6. k = 1 \/ k = 2 \/ k = 3 \/ k = 4
    BY <1>3
  <2> QED
    BY <2>2, <2>3, <2>4, <2>5, <2>6, Zenon
<1>4. CASE k \in 5 .. FieldCount(type)
  <2> DEFINE j == k - 4
             b == Body[type]
  <2>1. f = b[j]
    BY <1>4, FieldsLayout
  <2>2. j \in 1 .. Len(b)
    BY <1>1, <1>4, FieldsLayout, BodyLayouts DEF BodyLayout
  <2>3. BodyLayout(b)
    BY BodyLayouts
  <2>4. f.width = IF j = 3 THEN 8 ELSE 4
    BY <1>1, <1>2, <1>4
  <2> HIDE DEF j, b
  <2>5. f.name \in BodyNames
    BY <2>1, <2>2, <2>3 DEF BodyLayout
  <2>6. b[j].signed <=> b[j].name # "transferByte"
    BY <2>2, <2>3, ZenonT(40) DEF BodyLayout
  <2>7. b[j].name = "transferByte" <=> j = 3
    BY <2>2, <2>3, ZenonT(40) DEF BodyLayout
  <2> QED
    BY <2>1, <2>4, <2>5, <2>6, <2>7, Zenon
<1>5. k \in 1 .. 4 \/ k \in 5 .. FieldCount(type)
  BY <1>1
<1> QED
  BY <1>3, <1>4, <1>5, Zenon

\* The values a field may get, whatever message it is in.
FieldFits(name, num) ==
  CASE name = "msgType" -> num \in 0 .. Weight[1] - 1
    [] name = "testId" -> num \in 0 .. Weight[2] - 1
    [] name = "transferByte" -> num \in 0 .. Weight[8] - 1
    [] name = "timestamp" -> num \in Int /\ -Weight[8] <= 2 * num /\ 2 * num < Weight[8]
    [] OTHER -> num \in Int /\ -Weight[4] <= 2 * num /\ 2 * num < Weight[4]

LEMMA FitsByName ==
  ASSUME NEW type \in DOMAIN Body, NEW k \in 1 .. FieldCount(type), NEW f, f = FieldOf(type, k),
         NEW num, FieldFits(f.name, num)
  PROVE  Fits(num, f.width, f.signed)
<1>1. \A w \in 0 .. 8 : Weight[w] \in Nat \ {0}
  BY Weights
<1>2. \A w \in 1 .. 8 : \A x : x \in 0 .. Weight[w] - 1 => x \in Int
  BY <1>1
<1>3. CASE f.name = "msgType"
  <2>1. f.width = 1 /\ ~f.signed
    BY <1>3, FieldKinds, Zenon DEF BodyNames
  <2>2. num \in 0 .. Weight[1] - 1
    BY <1>3 DEF FieldFits
  <2>3. num \in Int
    BY <1>2, <2>2
  <2> QED
    BY <2>1, <2>2, <2>3, Zenon DEF Fits
<1>4. CASE f.name = "testId"
  <2>1. f.width = 2 /\ ~f.signed
    BY <1>4, FieldKinds, Zenon DEF BodyNames
  <2>2. num \in 0 .. Weight[2] - 1
    BY <1>4 DEF FieldFits
  <2>3. num \in Int
    BY <1>2, <2>2
  <2> QED
    BY <2>1, <2>2, <2>3, Zenon DEF Fits
<1>5. CASE f.name = "transferByte"
  <2>1. f.width = 8 /\ ~f.signed
    BY <1>5, FieldKinds, Zenon
  <2>2. num \in 0 .. Weight[8] - 1
    BY <1>5 DEF FieldFits
  <2>3. num \in Int
    BY <1>2, <2>2
  <2> QED
    BY <2>1, <2>2, <2>3, Zenon DEF Fits
<1>6. CASE f.name = "timestamp"
  <2>1. f.width = 8 /\ f.signed
    BY <1>6, FieldKinds, Zenon DEF BodyNames
  <2>2. num \in Int /\ -Weight[8] <= 2 * num /\ 2 * num < Weight[8]
    BY <1>6 DEF FieldFits
  <2> QED
    BY <2>1, <2>2, Zenon DEF Fits
<1>7. CASE f.name \notin {"msgType", "testId", "transferByte", "timestamp"}
  <2>1. f.width = 4 /\ f.signed
    BY <1>7, FieldKinds, Zenon
  <2>2. num \in Int /\ -Weight[4] <= 2 * num /\ 2 * num < Weight[4]
    BY <1>7 DEF FieldFits
  <2> QED
    BY <2>1, <2>2, Zenon DEF Fits
<1> QED
  BY <1>3, <1>4, <1>5, <1>6, <1>7

\* Only a message with a filler has a payload, and then no result or count.
LEMMA BodiesNamed ==
  ASSUME NEW type \in DOMAIN Body, NEW j \in 1 .. Len(Body[type]), NEW f, f = Body[type][j]
  PROVE  IF type \in DOMAIN FillerAt
           THEN f.name \in {"payloadLen", "testPacketNumber"}
           ELSE f.name \in BodyNames \ {"payloadLen"}
<1>1. type \in {"testRequest", "testConfirm", "rttTestMsg", "bandwidthTestMsg",
                "bandwidthFinish", "bandwidthReport"}
  BY DEF Body
<1>2. CASE type = "testRequest"
  <2>1. Len(Body[type]) = 2 /\ Body[type][1].name = "testType" /\ Body[type][2].name = "testTime"
    BY <1>2 DEF Body, Field
  <2> QED
    BY <1>2, <2>1 DEF FillerAt, BodyNames
<1>3. CASE type = "testConfirm"
  <2>1. Len(Body[type]) = 2 /\ Body[type][1].name = "result" /\ Body[type][2].name = "reMsgId"
    BY <1>3 DEF Body, Field
  <2> QED
    BY <1>3, <2>1 DEF FillerAt, BodyNames
<1>4. CASE type = "rttTestMsg"
  <2>1. Len(Body[type]) = 1 /\ Body[type][1].name = "payloadLen"
    BY <1>4 DEF Body, Field
  <2> QED
    BY <1>4, <2>1 DEF FillerAt, BodyNames
<1>5. CASE type = "bandwidthTestMsg"
  <2>1. Len(Body[type]) = 2 /\ Body[type][1].name = "payloadLen" /\ Body[type][2].name = "testPacketNumber"
    BY <1>5 DEF Body, Field
  <2> QED
    BY <1>5, <2>1 DEF FillerAt, BodyNames
<1>6. CASE type = "bandwidthFinish"
  <2>1. Len(Body[type]) = 1 /\ Body[type][1].name = "totalTestNum"
    BY <1>6 DEF Body, Field
  <2> QED
    BY <1>6, <2>1 DEF FillerAt, BodyNames
<1>7. CASE type = "bandwidthReport"
  <2>1. Len(Body[type]) = 3 /\ Body[type][1].name = "jitterMicroSec" /\ Body[type][2].name = "receivedPkt" /\ Body[type][3].name = "transferByte"
    BY <1>7 DEF Body, Field
  <2> QED
    BY <1>7, <2>1 DEF FillerAt, BodyNames
<1> QED
  BY <1>1, <1>2, <1>3, <1>4, <1>5, <1>6, <1>7

LEMMA NewMessageFits ==
  ASSUME NEW type \in DOMAIN Body, NEW id \in Ids, NEW ts \in Times,
         NEW w \in (IF type \in DOMAIN FillerAt THEN Sizes ELSE {id}),
         NEW tid, tid = (IF id < 0 THEN 0 ELSE id),
         NEW m, m = NewMessage(type, tid, id, ts, w, id)
  PROVE  MessageOK(m) /\ m.type = type
<1> DEFINE names == Names(type)
           Content(n) ==
             CASE n = "type" -> type
               [] n = "msgType" -> MessageTypeCode[type]
               [] n \in {"testId", "transferByte"} -> tid [] n = "msgId" -> id
               [] n = "timestamp" -> ts
               [] n \in {"testType", "result", "totalTestNum", "jitterMicroSec"} -> w
               [] n = "payloadLen" -> w - headLen
               [] OTHER -> id
<1>1. "type" \notin names
  <2>1. ASSUME NEW k \in 1 .. FieldCount(type) PROVE FieldOf(type, k).name # "type"
    BY FieldKinds DEF BodyNames
  <2> QED
    BY <2>1, NamesAre
<1>2. m = [n \in {"type"} \cup names |-> Content(n)]
  BY DEF NewMessage
<1>3. m.type = type /\ \A n \in names : m[n] = Content(n)
  <2>1. Content("type") = type
    OBVIOUS
  <2> HIDE DEF names, Content
  <2> QED
    BY <1>1, <1>2, <2>1
<1>4. IsRecord(m)
  <2> HIDE DEF names, Content
  <2>1. m = [x \in {"type"} \cup names |-> m[x]]
    BY <1>2
  <2> QED
    BY <1>3, <2>1 DEF names, IsRecord
<1>5. /\ id \in Int /\ -Weight[4] <= 2 * id /\ id < Weight[2]
      /\ ts \in Int /\ -Weight[8] <= 2 * ts /\ 2 * ts < Weight[8]
      /\ Weight[2] \in Nat /\ Weight[4] \in Nat /\ Weight[8] \in Nat
  BY CodecAssumption, Weights
<1>6. 2 * id < Weight[4] /\ tid \in 0 .. Weight[2] - 1 /\ tid \in 0 .. Weight[8] - 1
  <2>1. 2 * Weight[2] <= Weight[4] /\ Weight[2] <= Weight[8] /\ Weight[2] \in Nat \ {0}
    BY WeightsGrow, Weights
  <2>2. tid \in Nat /\ tid < Weight[2]
    BY <1>5, <2>1
  <2> QED
    BY <1>5, <2>1, <2>2
<1>7. type \in DOMAIN FillerAt => w \in 24 .. BufSize /\ 2 * w < Weight[4]
  BY CodecAssumption
<1>8. type \notin DOMAIN FillerAt => w = id
  OBVIOUS
<1>9. ASSUME NEW n \in names
      PROVE  /\ type \in DOMAIN FillerAt =>
                  n \notin {"testType", "result", "totalTestNum", "jitterMicroSec"}
             /\ n = "payloadLen" => type \in DOMAIN FillerAt
  <2>1. PICK k \in 1 .. FieldCount(type) : FieldOf(type, k).name = n
    BY NamesAre
  <2>2. FieldCount(type) = 4 + Len(Body[type]) /\ Len(Body[type]) \in 1 .. 3
    BY FieldsLayout, BodyLayouts DEF BodyLayout
  <2>3. CASE k \in 1 .. 4
    BY <2>1, <2>3, FieldsInOrder DEF HeadNames
  <2>4. CASE k \in 5 .. FieldCount(type)
    <3>1. FieldOf(type, k) = Body[type][k - 4] /\ k - 4 \in 1 .. Len(Body[type])
      BY <2>2, <2>4, FieldsLayout
    <3>2. IF type \in DOMAIN FillerAt THEN n \in {"payloadLen", "testPacketNumber"}
                                      ELSE n \in BodyNames \ {"payloadLen"}
      BY <2>1, <3>1, BodiesNamed
    <3> QED
      BY <3>2
  <2> QED
    BY <2>2, <2>3, <2>4
<1>11. MessageTypeCode[type] \in 1 .. 6
  BY DEF MessageTypeCode, Body
<1>10. ASSUME NEW n \in names PROVE FieldFits(n, m[n])
  <2>1. m[n] = Content(n) /\ n # "type"
    BY <1>1, <1>3
  <2>2. CASE n = "msgType"
    <3>1. m[n] = MessageTypeCode[type]
      BY <2>1, <2>2
    <3> QED
      BY <1>11, <2>2, <3>1, WeightsGrow, Weights DEF FieldFits
  <2>3. CASE n = "testId"
    <3>1. m[n] = tid
      BY <2>1, <2>3
    <3> QED
      BY <1>6, <2>3, <3>1 DEF FieldFits
  <2>4. CASE n = "transferByte"
    <3>1. m[n] = tid
      BY <2>1, <2>4
    <3> QED
      BY <1>6, <2>4, <3>1 DEF FieldFits
  <2>5. CASE n = "timestamp"
    <3>1. m[n] = ts
      BY <2>1, <2>5
    <3> QED
      BY <1>5, <2>5, <3>1 DEF FieldFits
  <2>6. CASE n = "payloadLen"
    <3>1. m[n] = w - 15
      BY <2>1, <2>6 DEF headLen
    <3>2. w \in 24 .. BufSize /\ 2 * w < Weight[4] /\ BufSize \in Nat
      BY <1>7, <1>9, <2>6, CodecAssumption
    <3>3. m[n] \in Int /\ -Weight[4] <= 2 * m[n] /\ 2 * m[n] < Weight[4]
      BY <1>5, <3>1, <3>2
    <3> QED
      BY <2>6, <3>3 DEF FieldFits
  <2>7. CASE n \notin {"msgType", "testId", "transferByte", "timestamp", "payloadLen"}
    <3>1. m[n] = id
      BY <1>8, <1>9, <2>1, <2>7
    <3> QED
      BY <1>5, <1>6, <2>7, <3>1 DEF FieldFits
  <2> QED
    BY <2>2, <2>3, <2>4, <2>5, <2>6, <2>7
<1>12. ASSUME NEW k \in 1 .. FieldCount(type)
       PROVE  Fits(FieldValue(m, k), FieldOf(type, k).width, FieldOf(type, k).signed)
  <2>1. FieldOf(type, k).name \in names
    BY NamesAre
  <2>2. FieldFits(FieldOf(type, k).name, m[FieldOf(type, k).name])
    BY <1>10, <2>1
  <2>3. FieldValue(m, k) = m[FieldOf(type, k).name]
    BY <1>3 DEF FieldValue
  <2> QED
    BY <2>2, <2>3, FitsByName, Zenon
<1>13. type \in DOMAIN FillerAt => m.payloadLen \in 9 .. BufSize - headLen
  <2>1. SUFFICES ASSUME type \in DOMAIN FillerAt PROVE m.payloadLen \in 9 .. BufSize - headLen
    OBVIOUS
  <2>2. "payloadLen" \in names
    <3>1. Len(Body[type]) >= 1 /\ Body[type][1].name = "payloadLen"
      BY <2>1 DEF Body, Field, FillerAt
    <3>2. 5 \in 5 .. FieldCount(type) /\ 5 \in 1 .. FieldCount(type)
      BY FieldsLayout
    <3>3. FieldOf(type, 5) = Body[type][1]
      BY <3>2, FieldsLayout
    <3> QED
      BY <3>1, <3>2, <3>3, NamesAre
  <2>3. m.payloadLen = w - 15
    BY <1>3, <2>2 DEF headLen
  <2> QED
    BY <1>7, <2>1, <2>3, CodecAssumption DEF headLen
<1> QED
  BY <1>3, <1>4, <1>12, <1>13 DEF MessageOK

-----------------------------------------------------------------------------
(* The packet of the bandwidth test.                                       *)

LEMMA PacketFields ==
  ASSUME NEW type, type = "bandwidthTestMsg"
  PROVE  /\ type \in DOMAIN Body /\ type \in DOMAIN FillerAt /\ FieldCount(type) = 6
         /\ FieldOf(type, 1).name = "msgType" /\ FieldOf(type, 2).name = "testId"
         /\ FieldOf(type, 3).name = "msgId" /\ FieldOf(type, 4).name = "timestamp"
         /\ FieldOf(type, 5).name = "payloadLen" /\ FieldOf(type, 6).name = "testPacketNumber"
<1>1. /\ type \in DOMAIN Body /\ type \in DOMAIN FillerAt /\ Len(Body[type]) = 2
      /\ Body[type][1].name = "payloadLen" /\ Body[type][2].name = "testPacketNumber"
  BY DEF Body, FillerAt, Field
<1>2. FieldCount(type) = 4 + Len(Body[type])
  BY <1>1, FieldsLayout
<1>3. FieldCount(type) = 6
  BY <1>1, <1>2
<1>4. \A k \in 1 .. 4 : FieldOf(type, k) = HeadFields[k]
  BY <1>1, FieldsLayout
<1>5. FieldOf(type, 5) = Body[type][1] /\ FieldOf(type, 6) = Body[type][2]
  <2>1. 5 \in 5 .. FieldCount(type) /\ 6 \in 5 .. FieldCount(type) /\ 5 - 4 = 1 /\ 6 - 4 = 2
    BY <1>3
  <2>2. \A k \in 5 .. FieldCount(type) : FieldOf(type, k) = Body[type][k - 4]
    BY <1>1, FieldsLayout
  <2> QED
    BY <2>1, <2>2
<1> QED
  BY <1>1, <1>3, <1>4, <1>5, HeadLayout

\* The message a patched packet stands for.
Patched(m, id, ts) == [m EXCEPT !.msgId = id, !.testPacketNumber = id, !.timestamp = ts]

LEMMA PatchedValues ==
  ASSUME NEW m, MessageOK(m), m.type = "bandwidthTestMsg", NEW id, NEW ts,
         NEW p, p = Patched(m, id, ts)
  PROVE  /\ p.type = m.type /\ p.payloadLen = m.payloadLen
         /\ IsRecord(p)
         /\ \A k \in {1, 2, 5} : FieldValue(p, k) = FieldValue(m, k)
         /\ FieldValue(p, 3) = id /\ FieldValue(p, 6) = id /\ FieldValue(p, 4) = ts
<1> DEFINE type == m.type
           dom == {"type"} \cup Names(type)
<1>1. m = [x \in dom |-> m[x]]
  BY DEF MessageOK, IsRecord
<1>2. /\ type \in DOMAIN Body /\ FieldCount(type) = 6
      /\ FieldOf(type, 1).name = "msgType" /\ FieldOf(type, 2).name = "testId"
      /\ FieldOf(type, 3).name = "msgId" /\ FieldOf(type, 4).name = "timestamp"
      /\ FieldOf(type, 5).name = "payloadLen" /\ FieldOf(type, 6).name = "testPacketNumber"
  BY PacketFields
<1>3. {"type", "msgType", "testId", "msgId", "timestamp", "payloadLen", "testPacketNumber"}
        \subseteq dom
  <2>1. \A k \in 1 .. 6 : FieldOf(type, k).name \in dom
    BY <1>2, NamesAre
  <2> HIDE DEF dom
  <2>2. "type" \in dom
    BY DEF dom
  <2> QED
    BY <1>2, <2>1, <2>2
<1>4. DOMAIN m = dom
  <2> HIDE DEF dom
  <2> QED
    BY <1>1
<1> HIDE DEF dom
<1>5. DOMAIN p = dom /\ p = [x \in dom |-> p[x]]
  BY <1>4 DEF Patched
<1>6. /\ p.type = m.type /\ p.payloadLen = m.payloadLen
      /\ p.msgType = m.msgType /\ p.testId = m.testId
      /\ p.msgId = id /\ p.testPacketNumber = id /\ p.timestamp = ts
  BY <1>3, <1>4 DEF Patched
<1>7. IsRecord(p)
  BY <1>5, <1>6 DEF dom, IsRecord
<1> QED
  BY <1>2, <1>6, <1>7 DEF FieldValue

LEMMA PatchedFits ==
  ASSUME NEW m, MessageOK(m), m.type = "bandwidthTestMsg", NEW id \in Ids, NEW ts \in Times,
         NEW p, p = Patched(m, id, ts)
  PROVE  MessageOK(p)
<1> DEFINE type == m.type
<1>1. /\ p.type = type /\ p.payloadLen = m.payloadLen
      /\ IsRecord(p)
      /\ \A k \in {1, 2, 5} : FieldValue(p, k) = FieldValue(m, k)
      /\ FieldValue(p, 3) = id /\ FieldValue(p, 6) = id /\ FieldValue(p, 4) = ts
  BY PatchedValues
<1>2. /\ type \in DOMAIN Body /\ FieldCount(type) = 6
      /\ FieldOf(type, 3).name = "msgId" /\ FieldOf(type, 4).name = "timestamp"
      /\ FieldOf(type, 6).name = "testPacketNumber"
  BY PacketFields
<1>3. /\ id \in Int /\ -Weight[4] <= 2 * id /\ 2 * id < Weight[4]
      /\ ts \in Int /\ -Weight[8] <= 2 * ts /\ 2 * ts < Weight[8]
  <2>1. id \in Int /\ -Weight[4] <= 2 * id /\ id < Weight[2]
    BY CodecAssumption
  <2>2. 2 * Weight[2] <= Weight[4] /\ Weight[2] \in Nat /\ Weight[4] \in Nat
    BY WeightsGrow, Weights
  <2> QED
    BY <2>1, <2>2, CodecAssumption
<1>4. FieldFits("msgId", id) /\ FieldFits("testPacketNumber", id) /\ FieldFits("timestamp", ts)
  BY <1>3 DEF FieldFits
<1>5. ASSUME NEW k \in 1 .. 6
      PROVE  Fits(FieldValue(p, k), FieldOf(type, k).width, FieldOf(type, k).signed)
  <2>1. CASE k \in {1, 2, 5}
    <3>1. Fits(FieldValue(m, k), FieldOf(type, k).width, FieldOf(type, k).signed)
      BY <1>2 DEF MessageOK
    <3> QED
      BY <1>1, <2>1, <3>1, Zenon
  <2>2. CASE k \notin {1, 2, 5}
    <3>1. k = 3 \/ k = 4 \/ k = 6
      BY <2>2
    <3>2. FieldFits(FieldOf(type, k).name, FieldValue(p, k))
      BY <1>1, <1>2, <1>4, <3>1, Zenon
    <3>3. k \in 1 .. FieldCount(type)
      BY <1>2
    <3> QED
      BY <1>2, <3>2, <3>3, FitsByName, Zenon
  <2> QED
    BY <2>1, <2>2
<1>6. m.payloadLen \in 9 .. BufSize - headLen
  BY PacketFields DEF MessageOK
<1> QED
  BY <1>1, <1>2, <1>5, <1>6 DEF MessageOK

LEMMA PatchedInPlace ==
  ASSUME NEW m, MessageOK(m), m.type = "bandwidthTestMsg", NEW id \in Ids, NEW ts \in Times,
         NEW p, p = Patched(m, id, ts), NEW b, b = getBinary(Zeros, m)
  PROVE  update(b, id, id, ts) = getBinary(Zeros, p)
<1> DEFINE type == m.type
           b1 == writeData(b, 3, 4, id)
           b2 == writeData(b1, 7, 8, ts)
           b3 == writeData(b2, 19, 4, id)
           q == getBinary(Zeros, p)
           len == getLength(m)
<1>1. /\ p.type = type /\ p.payloadLen = m.payloadLen
      /\ \A k \in {1, 2, 5} : FieldValue(p, k) = FieldValue(m, k)
      /\ FieldValue(p, 3) = id /\ FieldValue(p, 6) = id /\ FieldValue(p, 4) = ts
  BY PatchedValues
<1>2. MessageOK(p)
  BY PatchedFits
<1>3. type \in DOMAIN FillerAt /\ FieldCount(type) = 6
  BY PacketFields
<1>4. Zeros \in Buffers
  BY DEF Zeros, Buffers
<1>5. b \in Buffers /\ Holds(b, m) /\ KeptFrom(b, Zeros, len)
  BY <1>4, BinaryWritten
<1>6. q \in Buffers /\ Holds(q, p) /\ KeptFrom(q, Zeros, getLength(p))
  BY <1>2, <1>4, BinaryWritten
<1>7. getLength(p) = len /\ len \in Nat /\ len >= 23
  <2>1. getLength(p) = headLen + p.payloadLen /\ len = headLen + m.payloadLen
    BY <1>1, <1>3 DEF getLength
  <2>2. len \in Nat /\ Ends(FieldCount(type)) <= len
    BY Lengths
  <2> QED
    BY <1>1, <1>3, <2>1, <2>2 DEF Ends, Starts, Widths
<1>8. id \in Int /\ ts \in Int
  BY CodecAssumption
<1> HIDE DEF b1, b2, b3, q, len, type
<1>9. /\ b1 \in Buffers
      /\ \A i \in Offsets : b1[i] = IF i \in 3 .. 3 + 4 - 1 THEN ByteOf(id, i - 3) ELSE b[i]
  <2> DEFINE at == 3
             width == 4
  <2>1. at \in Nat /\ width \in 1 .. 8 /\ b1 = writeData(b, at, width, id)
    BY DEF b1
  <2> HIDE DEF at, width
  <2>2. b1 \in Buffers /\ Written(b1, b, at, width, id)
    BY <1>5, <1>8, <2>1, WriteOne
  <2> QED
    BY <2>2 DEF at, width, Written
<1>10. /\ b2 \in Buffers
       /\ \A i \in Offsets : b2[i] = IF i \in 7 .. 7 + 8 - 1 THEN ByteOf(ts, i - 7) ELSE b1[i]
  <2> DEFINE at == 7
             width == 8
  <2>1. at \in Nat /\ width \in 1 .. 8 /\ b2 = writeData(b1, at, width, ts)
    BY DEF b2
  <2> HIDE DEF at, width
  <2>2. b2 \in Buffers /\ Written(b2, b1, at, width, ts)
    BY <1>8, <1>9, <2>1, WriteOne
  <2> QED
    BY <2>2 DEF at, width, Written
<1>11. /\ b3 \in Buffers
       /\ \A i \in Offsets : b3[i] = IF i \in 19 .. 19 + 4 - 1 THEN ByteOf(id, i - 19) ELSE b2[i]
  <2> DEFINE at == 19
             width == 4
  <2>1. at \in Nat /\ width \in 1 .. 8 /\ b3 = writeData(b2, at, width, id)
    BY DEF b3
  <2> HIDE DEF at, width
  <2>2. b3 \in Buffers /\ Written(b3, b2, at, width, id)
    BY <1>8, <1>10, <2>1, WriteOne
  <2> QED
    BY <2>2 DEF at, width, Written
<1>12. /\ Spot(1) = 0 .. 0 /\ Spot(2) = 1 .. 2 /\ Spot(3) = 3 .. 6 /\ Spot(4) = 7 .. 14
       /\ Spot(5) = 15 .. 18 /\ Spot(6) = 19 .. 22
       /\ Starts[3] = 3 /\ Starts[4] = 7 /\ Starts[6] = 19 /\ Ends(6) = 23
  BY DEF Spot, Ends, Starts, Widths
<1>13. ASSUME NEW k \in 1 .. 6, NEW i \in Spot(k)
       PROVE  b3[i] = ByteOf(FieldValue(p, k), i - Starts[k])
  <2>1. i \in Offsets /\ i \in Int
    BY SpotsFit
  <2>2. CASE k \in {1, 2, 5}
    <3>1. b[i] = ByteOf(FieldValue(m, k), i - Starts[k])
      BY <1>3, <1>5 DEF Holds, Laid, type
    <3>2. i \notin 3 .. 6 /\ i \notin 7 .. 14 /\ i \notin 19 .. 22
      BY <1>12, <2>2
    <3>3. b3[i] = b[i]
      BY <1>9, <1>10, <1>11, <2>1, <3>2
    <3> QED
      BY <1>1, <2>2, <3>1, <3>3
  <2>3. CASE k = 3
    <3>1. i \in 3 .. 6 /\ i \notin 7 .. 14 /\ i \notin 19 .. 22
      BY <1>12, <2>3
    <3>2. b3[i] = ByteOf(id, i - 3)
      BY <1>9, <1>10, <1>11, <2>1, <3>1
    <3> QED
      BY <1>1, <1>12, <2>3, <3>2
  <2>4. CASE k = 4
    <3>1. i \in 7 .. 14 /\ i \notin 19 .. 22
      BY <1>12, <2>4
    <3>2. b3[i] = ByteOf(ts, i - 7)
      BY <1>10, <1>11, <2>1, <3>1
    <3> QED
      BY <1>1, <1>12, <2>4, <3>2
  <2>5. CASE k = 6
    <3>1. i \in 19 .. 22
      BY <1>12, <2>5
    <3>2. b3[i] = ByteOf(id, i - 19)
      BY <1>11, <2>1, <3>1
    <3> QED
      BY <1>1, <1>12, <2>5, <3>2
  <2> QED
    BY <2>2, <2>3, <2>4, <2>5
<1>14. ASSUME NEW i \in Offsets, i >= 23 PROVE b3[i] = b[i]
  <2>1. i \in Int
    BY DEF Offsets
  <2> QED
    BY <1>9, <1>10, <1>11, <1>14, <2>1
<1>15. ASSUME NEW i \in 23 .. getLength(p) - 1 PROVE b3[i] = (i - 23) % Radix
  <2>1. b[i] = (i - 23) % Radix
    BY <1>3, <1>5, <1>7, <1>12 DEF Holds, len, type
  <2>2. i \in Offsets /\ i >= 23
    <3>1. len <= BufSize /\ BufSize \in Nat
      BY Lengths, CodecAssumption DEF len
    <3> QED
      BY <1>7, <3>1 DEF Offsets
  <2> QED
    BY <1>14, <2>1, <2>2
<1>16. Holds(b3, p)
  BY <1>1, <1>3, <1>12, <1>13, <1>15 DEF Holds, Laid
<1>17. KeptFrom(b3, Zeros, getLength(p))
  <2>1. ASSUME NEW i \in Offsets, i >= getLength(p) PROVE b3[i] = Zeros[i]
    <3>1. i \in Int /\ i >= 23 /\ i >= len
      BY <1>7, <2>1 DEF Offsets
    <3> QED
      BY <1>5, <1>14, <3>1 DEF KeptFrom
  <2> QED
    BY <2>1 DEF KeptFrom
<1>18. b3 = q
  BY <1>2, <1>6, <1>11, <1>16, <1>17, SameBytes
<1> QED
  BY <1>18 DEF update, b1, b2, b3, q

-----------------------------------------------------------------------------
(* The inductive invariant.                                                *)

OnTheWire(d, m) == DOMAIN d = 0 .. getLength(m) - 1 /\ Laid(d, m, FieldCount(m.type))

PacketInv ==
  \/ packet = {} /\ packetBuf = Zeros
  \/ \E m \in packet : /\ packet = {m} /\ m.type = "bandwidthTestMsg" /\ MessageOK(m)
                       /\ packetBuf = getBinary(Zeros, m)

CodecInv ==
  /\ sendBuf = Zeros
  /\ PacketInv
  /\ \A m1, m2 \in sent : m1 = m2
  /\ \A m \in sent : MessageOK(m)
  /\ \A d \in wire, m \in sent : OnTheWire(d, m)
  /\ RoundTrip

LEMMA CodecStarts == Init => CodecInv
BY DEF Init, CodecInit, CodecInv, PacketInv, RoundTrip

\* What is sent of a buffer is the message in it.
LEMMA SentWhole ==
  ASSUME NEW m, MessageOK(m), NEW b, Holds(b, m), NEW d, d = Datagram(b, m)
  PROVE  OnTheWire(d, m)
<1> DEFINE n == FieldCount(m.type)
           len == getLength(m)
<1>1. n \in 5 .. 7 /\ len \in Nat /\ Ends(n) <= len
  BY Lengths
<1>2. d = [i \in 0 .. len - 1 |-> b[i]]
  BY DEF Datagram
<1>3. ASSUME NEW j \in 1 .. n, NEW i \in Spot(j)
      PROVE  d[i] = ByteOf(FieldValue(m, j), i - Starts[j])
  <2>1. j \in 1 .. 7 /\ n \in 1 .. 7
    BY <1>1
  <2>2. i \in Int /\ i \in Offsets /\ i < Ends(j)
    BY <2>1, SpotsFit
  <2>3. Ends(j) <= Ends(n) /\ Ends(j) \in Int /\ Ends(n) \in Int
    <3>1. Ends(j) \in Int /\ Ends(n) \in Int /\ Ends(n) >= Starts[n] /\ Starts[n] \in Int
      BY <2>1, Places DEF Ends
    <3>2. CASE j = n
      BY <3>1, <3>2
    <3>3. CASE j # n
      <4>1. j < n
        BY <1>1, <3>3
      <4>2. Ends(j) <= Starts[n]
        BY <2>1, <4>1, SpotsApart
      <4> QED
        BY <3>1, <4>2
    <3> QED
      BY <3>2, <3>3
  <2>4. i \in 0 .. len - 1
    BY <1>1, <2>2, <2>3 DEF Offsets
  <2>5. b[i] = ByteOf(FieldValue(m, j), i - Starts[j])
    BY DEF Holds, Laid
  <2> QED
    BY <1>2, <2>4, <2>5
<1> QED
  BY <1>2, <1>3 DEF OnTheWire, Laid

LEMMA ZerosAreABuffer == Zeros \in Buffers
BY DEF Zeros, Buffers

\* As much is cleared as was written.
LEMMA SendClears ==
  ASSUME CodecInv, NEW m, MessageOK(m), SendMsg(m)
  PROVE  CodecInv'
<1> DEFINE b == getBinary(sendBuf, m)
           len == getLength(m)
           d == Datagram(b, m)
<1>1. sendBuf = Zeros /\ sendBuf \in Buffers
  BY ZerosAreABuffer DEF CodecInv
<1>2. b \in Buffers /\ Holds(b, m) /\ KeptFrom(b, Zeros, len)
  BY <1>1, BinaryWritten
<1>3. sendBuf' = [i \in Offsets |-> IF i < len THEN 0 ELSE b[i]]
  BY DEF SendMsg
<1>4. wire' = {d} /\ sent' = {m} /\ read' = {}
  BY DEF SendMsg, Launch
<1>5. packet' = packet /\ packetBuf' = packetBuf
  BY DEF SendMsg
<1>6. len \in Nat
  BY Lengths
<1> HIDE DEF b, len
<1>7. sendBuf' = Zeros
  <2>1. ASSUME NEW i \in Offsets PROVE (IF i < len THEN 0 ELSE b[i]) = 0
    <3>1. i \in Int
      BY DEF Offsets
    <3>2. i >= len => b[i] = 0
      BY <1>2 DEF KeptFrom, Zeros
    <3> QED
      BY <1>6, <3>1, <3>2
  <2> QED
    BY <1>3, <2>1 DEF Zeros
<1>8. OnTheWire(d, m)
  BY <1>2, SentWhole
<1>9. PacketInv'
  <2>1. PacketInv
    BY DEF CodecInv
  <2> QED
    BY <1>5, <2>1 DEF PacketInv
<1> HIDE DEF d
<1> QED
  BY <1>4, <1>7, <1>8, <1>9 DEF CodecInv, RoundTrip

LEMMA PacketIsWritten ==
  ASSUME CodecInv, NEW m, MessageOK(m), m.type = "bandwidthTestMsg", WritePacket(m)
  PROVE  CodecInv'
<1>1. packet = {} /\ packetBuf = Zeros
  BY DEF CodecInv, PacketInv, WritePacket
<1>2. packet' = {m} /\ packetBuf' = getBinary(Zeros, m)
  BY <1>1 DEF WritePacket
<1>3. PacketInv'
  BY <1>2 DEF PacketInv
<1>4. UNCHANGED <<sendBuf, wire, sent, read>>
  BY DEF WritePacket
<1> QED
  BY <1>3, <1>4 DEF CodecInv, RoundTrip

LEMMA PacketIsPatched ==
  ASSUME CodecInv, NEW id \in Ids, NEW ts \in Times, SendPacketAgain(id, id, ts)
  PROVE  CodecInv'
<1>1. PICK m \in packet :
        /\ packetBuf' = update(packetBuf, id, id, ts)
        /\ packet' = {Patched(m, id, ts)}
        /\ Launch(packetBuf', Patched(m, id, ts))
        /\ UNCHANGED <<sendBuf, recvBuf>>
  BY DEF SendPacketAgain, Patched
<1>2. packet = {m} /\ m.type = "bandwidthTestMsg" /\ MessageOK(m) /\ packetBuf = getBinary(Zeros, m)
  BY <1>1 DEF CodecInv, PacketInv
<1> DEFINE p == Patched(m, id, ts)
           b == getBinary(Zeros, p)
           d == Datagram(b, p)
<1>3. MessageOK(p) /\ p.type = "bandwidthTestMsg"
  BY <1>2, PatchedFits, PatchedValues
<1>4. packetBuf' = b
  BY <1>1, <1>2, PatchedInPlace
<1>5. packet' = {p} /\ wire' = {d} /\ sent' = {p} /\ read' = {}
  BY <1>1, <1>4 DEF Launch
<1>6. b \in Buffers /\ Holds(b, p)
  BY <1>3, ZerosAreABuffer, BinaryWritten
<1>7. OnTheWire(d, p)
  BY <1>3, <1>6, SentWhole
<1> HIDE DEF p, d
<1>8. PacketInv'
  BY <1>3, <1>4, <1>5 DEF PacketInv
<1>9. sendBuf' = Zeros
  BY <1>1 DEF CodecInv
<1> QED
  BY <1>3, <1>5, <1>7, <1>8, <1>9 DEF CodecInv, RoundTrip

LEMMA DatagramIsRead ==
  ASSUME CodecInv, ReceiveDatagram
  PROVE  CodecInv'
<1>1. PICK d \in wire, m \in sent :
        read' = {Parse([i \in Offsets |-> IF i \in DOMAIN d THEN d[i] ELSE recvBuf[i]], m.type)}
  BY DEF ReceiveDatagram
<1> DEFINE b == [i \in Offsets |-> IF i \in DOMAIN d THEN d[i] ELSE recvBuf[i]]
           r == Parse(b, m.type)
           n == FieldCount(m.type)
<1>2. MessageOK(m) /\ OnTheWire(d, m) /\ \A x \in sent : x = m
  BY DEF CodecInv
<1>3. n \in 5 .. 7 /\ getLength(m) \in Nat /\ Ends(n) <= getLength(m) /\ Ends(n) \in Int
  BY <1>2, Lengths, Places
<1>4. Laid(b, m, n)
  <2>1. ASSUME NEW j \in 1 .. n, NEW i \in Spot(j)
        PROVE  b[i] = ByteOf(FieldValue(m, j), i - Starts[j])
    <3>1. j \in 1 .. 7 /\ n \in 1 .. 7
      BY <1>3
    <3>2. i \in Int /\ i \in Offsets /\ i < Ends(j)
      BY <3>1, SpotsFit
    <3>3. Ends(j) <= Ends(n) /\ Ends(j) \in Int
      <4>1. Ends(j) \in Int /\ Ends(n) >= Starts[n] /\ Starts[n] \in Int
        BY <3>1, Places DEF Ends
      <4>2. CASE j = n
        BY <4>1, <4>2
      <4>3. CASE j # n
        <5>1. j < n
          BY <1>3, <4>3
        <5>2. Ends(j) <= Starts[n]
          BY <3>1, <5>1, SpotsApart
        <5> QED
          BY <1>3, <4>1, <5>2
      <4> QED
        BY <4>2, <4>3
    <3>4. i \in DOMAIN d
      BY <1>2, <1>3, <3>2, <3>3 DEF Offsets, OnTheWire
    <3>5. d[i] = ByteOf(FieldValue(m, j), i - Starts[j])
      BY <1>2 DEF OnTheWire, Laid
    <3> QED
      BY <3>2, <3>4, <3>5
  <2> HIDE DEF b
  <2> QED
    BY <2>1 DEF Laid
<1> HIDE DEF b
<1>5. DOMAIN r = Names(m.type)
  BY DEF Parse
<1>6. \A name \in DOMAIN r : r[name] = m[name]
  BY <1>2, <1>4, <1>5, ParsedBack
<1>7. read' = {r}
  BY <1>1 DEF b
<1> HIDE DEF r
<1>8. sent' = sent /\ wire' = {} /\ sendBuf' = sendBuf /\ packet' = packet /\ packetBuf' = packetBuf
  BY DEF ReceiveDatagram
<1>9. RoundTrip'
  BY <1>2, <1>6, <1>7, <1>8 DEF RoundTrip
<1>10. PacketInv'
  <2>1. PacketInv
    BY DEF CodecInv
  <2> QED
    BY <1>8, <2>1 DEF PacketInv
<1> QED
  BY <1>8, <1>9, <1>10 DEF CodecInv

LEMMA CodecMoves == CodecInv /\ [CodecStep]_codecVars => CodecInv'
<1> SUFFICES ASSUME CodecInv, [CodecStep]_codecVars PROVE CodecInv'
  OBVIOUS
<1>1. CASE UNCHANGED codecVars
  <2>1. PacketInv
    BY DEF CodecInv
  <2>2. PacketInv'
    BY <1>1, <2>1 DEF codecVars, PacketInv
  <2> QED
    BY <1>1, <2>2 DEF codecVars, CodecInv, RoundTrip
<1>2. ASSUME NEW type \in DOMAIN Body, NEW id \in Ids, NEW ts \in Times,
             NEW w \in (IF type \in DOMAIN FillerAt THEN Sizes ELSE {id}),
             NEW m, m = NewMessage(type, IF id < 0 THEN 0 ELSE id, id, ts, w, id),
             SendMsg(m) \/ (type = "bandwidthTestMsg" /\ WritePacket(m))
      PROVE  CodecInv'
  <2>1. MessageOK(m) /\ m.type = type
    <3> DEFINE tid == IF id < 0 THEN 0 ELSE id
    <3>1. m = NewMessage(type, tid, id, ts, w, id)
      BY <1>2
    <3>2. tid = IF id < 0 THEN 0 ELSE id
      OBVIOUS
    <3> HIDE DEF tid
    <3> QED
      BY <3>1, <3>2, NewMessageFits
  <2>2. CASE SendMsg(m)
    BY <2>1, <2>2, SendClears
  <2>3. CASE type = "bandwidthTestMsg" /\ WritePacket(m)
    BY <2>1, <2>3, PacketIsWritten
  <2> QED
    BY <1>2, <2>2, <2>3
<1>3. ASSUME NEW id \in Ids, NEW ts \in Times, SendPacketAgain(id, id, ts) PROVE CodecInv'
  BY <1>3, PacketIsPatched
<1>4. CASE ReceiveDatagram
  BY <1>4, DatagramIsRead
<1>5. CASE CodecStep
  <2>1. CASE \E type \in DOMAIN Body, id \in Ids, ts \in Times :
               \E w \in IF type \in DOMAIN FillerAt THEN Sizes ELSE {id} :
                 LET m == NewMessage(type, IF id < 0 THEN 0 ELSE id, id, ts, w, id)
                 IN  SendMsg(m) \/ (type = "bandwidthTestMsg" /\ WritePacket(m))
    BY <1>2, <2>1
  <2> QED
    BY <1>3, <1>4, <1>5, <2>1 DEF CodecStep
<1> QED
  BY <1>1, <1>5

LEMMA CodecInvariant == Spec => []CodecInv
<1>1. CodecInv /\ [Next]_vars => CodecInv'
  BY PartsAlone, CodecMoves
<1> QED
  BY <1>1, CodecStarts, PTL DEF Spec

-----------------------------------------------------------------------------
\* For any radix, buffer and packet sizes, and any numbers that fit their
\* fields, what the receiver reads of a message is what was sent, field for
\* field (Message.h:30-64, common.h:105-123).
THEOREM FieldsSurvive == Spec => []RoundTrip
<1>1. CodecInv => RoundTrip
  BY DEF CodecInv
<1> QED
  BY <1>1, CodecInvariant, PTL

\* The static send buffer is zero between sends, so no datagram carries the
\* bytes of an earlier one (Message.h:87-101).
THEOREM BufferIsClean == Spec => []SendBufferClean
<1>1. CodecInv => SendBufferClean
  BY DEF CodecInv, SendBufferClean
<1> QED
  BY <1>1, CodecInvariant, PTL

\* A bandwidth packet patched in place, however often, is the packet that
\* would have been written anew (Message.h:221-225, Client.cpp:160-162,188).
THEOREM PatchIsRebuild == Spec => []PatchedAsRebuilt
<1>1. CodecInv => PatchedAsRebuilt
  BY DEF CodecInv, PacketInv, PatchedAsRebuilt
<1> QED
  BY <1>1, CodecInvariant, PTL

=============================================================================
