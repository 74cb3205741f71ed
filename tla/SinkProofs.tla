----------------------------- MODULE SinkProofs -----------------------------
(***************************************************************************)
(* The sinks and the backtrace of a logger, for any messages, durations,   *)
(* sizes of the rings and failures: a ring that overruns holds the newest  *)
(* of what was pushed, what the duplicate filter shows and counts is all   *)
(* it was given, the files of a sink hold their records in order and lose  *)
(* them only by a rotation, a truncation or a failure, and the line they   *)
(* are all given is the fields of the pattern, in order and in their       *)
(* widths.                                                                 *)
(***************************************************************************)
EXTENDS LoggerProofs, FiniteSetTheorems

USE FiltersAssumption

-----------------------------------------------------------------------------
(* Rings that overrun.  A ring of n + 1 slots holds the newest n of what    *)
(* was ever pushed onto it.                                                 *)

RingsOf(n, S) ==
  [max_items : {n + 1}, head : 0 .. n, tail : 0 .. n, overrun_counter : Nat,
   v : [0 .. n -> S]]

\* Where the item i places behind h lies in a ring of n + 1 slots.
PlaceOf(n, h, i) == IF h + i <= n THEN h + i ELSE h + i - n - 1

Fewer(a, b) == IF a <= b THEN a ELSE b

HoldsNewest(q, n, s) ==
  /\ Size(q) = Fewer(Len(s), n)
  /\ \A i \in 1 .. Size(q) : q.v[PlaceOf(n, q.head, i - 1)] = s[Len(s) - Size(q) + i]

LEMMA PlaceIsModulo ==
  ASSUME NEW n \in Nat, NEW h \in 0 .. n, NEW i \in 0 .. n + 1
  PROVE  (h + i) % (n + 1) = PlaceOf(n, h, i)
<1> DEFINE k == h + i
<1>1. k \in 0 .. 2 * n + 1
  OBVIOUS
<1>2. PlaceOf(n, h, i) = IF k <= n THEN k ELSE k - n - 1
  BY DEF PlaceOf
<1> HIDE DEF k
<1>3. k % (n + 1) = IF k <= n THEN k ELSE k - n - 1
  BY <1>1, WrappedOnce
<1> QED
  BY <1>2, <1>3 DEF k

LEMMA RingOfFields ==
  ASSUME NEW n \in Nat, NEW S, NEW q \in RingsOf(n, S)
  PROVE  /\ q.max_items = n + 1 /\ q.head \in 0 .. n /\ q.tail \in 0 .. n
         /\ q.overrun_counter \in Nat /\ q.v \in [0 .. n -> S]
         /\ Size(q) = (IF q.tail >= q.head THEN q.tail - q.head ELSE n + 1 - (q.head - q.tail))
         /\ Size(q) \in 0 .. n
         /\ After(q, q.tail) = PlaceOf(n, q.tail, 1)
         /\ After(q, q.head) = PlaceOf(n, q.head, 1)
         /\ \A i \in 0 .. n : At(q, i) = q.v[PlaceOf(n, q.head, i)]
<1>1. /\ q.max_items = n + 1 /\ q.head \in 0 .. n /\ q.tail \in 0 .. n
      /\ q.overrun_counter \in Nat /\ q.v \in [0 .. n -> S]
  BY DEF RingsOf
<1>2. /\ Size(q) = (IF q.tail >= q.head THEN q.tail - q.head ELSE n + 1 - (q.head - q.tail))
      /\ Size(q) \in 0 .. n
  <2> DEFINE h == q.head
             t == q.tail
             k == Size(q)
  <2>1. h \in 0 .. n /\ t \in 0 .. n
    BY <1>1
  <2>2. k = IF t >= h THEN t - h ELSE n + 1 - (h - t)
    BY <1>1 DEF Size
  <2> HIDE DEF h, t, k
  <2>3. k \in 0 .. n
    BY <2>1, <2>2
  <2> QED
    BY <2>2, <2>3 DEF h, t, k
<1>3. ASSUME NEW h \in 0 .. n, NEW i \in 0 .. n + 1
      PROVE  (h + i) % q.max_items = PlaceOf(n, h, i)
  BY <1>1, <1>3, PlaceIsModulo
<1>4. 1 \in 0 .. n + 1
  OBVIOUS
<1>5. ASSUME NEW i \in 0 .. n PROVE At(q, i) = q.v[PlaceOf(n, q.head, i)]
  <2>1. i \in 0 .. n + 1
    OBVIOUS
  <2> QED
    BY <1>1, <1>3, <2>1 DEF At
<1>6. After(q, q.tail) = PlaceOf(n, q.tail, 1) /\ After(q, q.head) = PlaceOf(n, q.head, 1)
  BY <1>1, <1>3, <1>4 DEF After
<1> QED
  BY <1>1, <1>2, <1>5, <1>6

\* A new ring holds the newest of nothing.
LEMMA NewRing ==
  ASSUME NEW n \in Nat, NEW S, NoItem \in S
  PROVE  NewQueue(n) \in RingsOf(n, S) /\ HoldsNewest(NewQueue(n), n, <<>>)
<1>1. NewQueue(n) \in RingsOf(n, S)
  BY DEF NewQueue, RingsOf
<1>2. Size(NewQueue(n)) = 0
  BY DEF NewQueue, Size
<1> QED
  BY <1>1, <1>2 DEF HoldsNewest, Fewer

\* The items of a ring from its front to its tail, one place behind another.
PlacesRun(n, h, t, k) ==
  /\ PlaceOf(n, h, k) = t
  /\ \A i \in 0 .. k - 1 : PlaceOf(n, h, i) \in 0 .. n /\ PlaceOf(n, h, i) # t
  /\ \A i \in 0 .. n - 1 : PlaceOf(n, PlaceOf(n, h, 1), i) = PlaceOf(n, h, i + 1)
  /\ PlaceOf(n, h, 1) \in 0 .. n

LEMMA PlacesFollow ==
  ASSUME NEW n \in Nat, NEW h \in 0 .. n, NEW t \in 0 .. n, NEW k,
         k = IF t >= h THEN t - h ELSE n + 1 - (h - t)
  PROVE  PlacesRun(n, h, t, k)
BY DEF PlaceOf, PlacesRun

\* What is pushed is the newest; if there is no room, the oldest goes.
LEMMA PushedNewest ==
  ASSUME NEW n \in Nat, NEW S, NEW q \in RingsOf(n, S), NEW s \in Seq(S), NEW x \in S,
         HoldsNewest(q, n, s), NEW p, p = PushBack(q, x)
  PROVE  p \in RingsOf(n, S) /\ HoldsNewest(p, n, Append(s, x))
<1> DEFINE h == q.head
           t == q.tail
           k == Size(q)
           next == PlaceOf(n, t, 1)
           head2 == IF next # h THEN h ELSE PlaceOf(n, h, 1)
           over2 == IF next # h THEN q.overrun_counter ELSE q.overrun_counter + 1
           w == [q.v EXCEPT ![t] = x]
           more == Append(s, x)
           L == Len(s)
<1>1. /\ q.max_items = n + 1 /\ h \in 0 .. n /\ t \in 0 .. n /\ k \in 0 .. n
      /\ q.overrun_counter \in Nat /\ q.v \in [0 .. n -> S]
      /\ k = IF t >= h THEN t - h ELSE n + 1 - (h - t)
      /\ After(q, t) = next /\ After(q, h) = PlaceOf(n, h, 1)
  BY RingOfFields
<1>2. next \in 0 .. n /\ head2 \in 0 .. n
  BY <1>1 DEF PlaceOf
<1>3. w \in [0 .. n -> S] /\ w[t] = x /\ \A i \in 0 .. n : i # t => w[i] = q.v[i]
  BY <1>1
<1>4. p = [q EXCEPT !.v = w, !.tail = next, !.head = head2, !.overrun_counter = over2]
  <2>1. q.max_items # 0
    BY <1>1
  <2>2. q = [max_items |-> q.max_items, head |-> q.head, tail |-> q.tail,
             overrun_counter |-> q.overrun_counter, v |-> q.v]
    BY DEF RingsOf
  <2> QED
    BY <1>1, <2>1, <2>2 DEF PushBack
<1>5. /\ p \in RingsOf(n, S) /\ p.head = head2 /\ p.tail = next /\ p.v = w
  <2>1. over2 \in Nat
    BY <1>1
  <2> HIDE DEF w, next, head2, over2
  <2> QED
    BY <1>2, <1>3, <1>4, <2>1 DEF RingsOf
<1>6. Size(p) = IF next >= head2 THEN next - head2 ELSE n + 1 - (head2 - next)
  BY <1>5, RingOfFields
<1>7. /\ L \in Nat /\ Len(more) = L + 1 /\ more[L + 1] = x
      /\ \A i \in 1 .. L : more[i] = s[i]
  OBVIOUS
<1>8. /\ k = Fewer(L, n)
      /\ \A i \in 1 .. k : q.v[PlaceOf(n, h, i - 1)] = s[L - k + i]
  BY DEF HoldsNewest
<1>9. next = (IF t + 1 <= n THEN t + 1 ELSE t + 1 - n - 1) /\ (next # h <=> k < n)
  <2>1. next = IF t + 1 <= n THEN t + 1 ELSE t + 1 - n - 1
    BY DEF PlaceOf
  <2> HIDE DEF h, t, k, next
  <2>2. next # h <=> k < n
    BY <1>1, <2>1
  <2> QED
    BY <2>1, <2>2
<1>10. /\ PlaceOf(n, h, k) = t
       /\ \A i \in 0 .. k - 1 : PlaceOf(n, h, i) \in 0 .. n /\ PlaceOf(n, h, i) # t
       /\ \A i \in 0 .. n - 1 : PlaceOf(n, PlaceOf(n, h, 1), i) = PlaceOf(n, h, i + 1)
  <2>1. PlacesRun(n, h, t, k)
    BY <1>1, PlacesFollow
  <2> QED
    BY <2>1 DEF PlacesRun
<1>11. CASE k < n
  <2>1. head2 = h /\ Size(p) = k + 1
    <3> HIDE DEF h, t, k, next
    <3> QED
      BY <1>1, <1>2, <1>6, <1>9, <1>11
  <2>2. k = L
    BY <1>1, <1>7, <1>8, <1>11 DEF Fewer
  <2>3. ASSUME NEW i \in 1 .. k + 1 PROVE w[PlaceOf(n, h, i - 1)] = more[i]
    <3>1. CASE i = k + 1
      <4> HIDE DEF k, h, L, w, more
      <4>1. i - 1 = k
        BY <1>1, <3>1
      <4> QED
        BY <1>3, <1>7, <1>10, <2>2, <3>1, <4>1
    <3>2. CASE i \in 1 .. k
      <4>1. i - 1 \in 0 .. k - 1
        BY <1>1, <3>2
      <4>2. w[PlaceOf(n, h, i - 1)] = q.v[PlaceOf(n, h, i - 1)]
        BY <1>3, <1>10, <4>1
      <4>3. q.v[PlaceOf(n, h, i - 1)] = s[L - k + i] /\ L - k + i = i
        <5> HIDE DEF k, h, L
        <5> QED
          BY <1>1, <1>7, <1>8, <2>2, <3>2
      <4> QED
        BY <1>7, <2>2, <3>2, <4>2, <4>3
    <3> HIDE DEF k, h, w, more
    <3>3. i = k + 1 \/ i \in 1 .. k
      BY <1>1
    <3> QED
      BY <3>1, <3>2, <3>3
  <2>4. p.v = w /\ p.head = h
    BY <1>5, <2>1
  <2> HIDE DEF w, more, L, k, next, head2, h
  <2>5. Size(p) = Fewer(Len(more), n)
    BY <1>1, <1>7, <1>11, <2>1, <2>2 DEF Fewer
  <2>6. ASSUME NEW i \in 1 .. Size(p)
        PROVE  p.v[PlaceOf(n, p.head, i - 1)] = more[Len(more) - Size(p) + i]
    <3>1. i \in 1 .. k + 1
      BY <2>1
    <3>2. Len(more) - Size(p) + i = i
      BY <1>1, <1>7, <2>1, <2>2, <3>1
    <3> QED
      BY <2>3, <2>4, <3>1, <3>2
  <2>7. HoldsNewest(p, n, more)
    BY <2>5, <2>6 DEF HoldsNewest
  <2> QED
    BY <1>5, <2>7 DEF more
<1>12. CASE ~(k < n)
  <2>1. k = n /\ next = h /\ head2 = PlaceOf(n, h, 1) /\ Size(p) = n
    <3>1. k = n /\ next = h /\ head2 = PlaceOf(n, h, 1)
      <4>1. head2 = IF next # h THEN h ELSE PlaceOf(n, h, 1)
        OBVIOUS
      <4> HIDE DEF head2, next, h, t, k
      <4> QED
        BY <1>1, <1>9, <1>12, <4>1
    <3>2. head2 = IF h + 1 <= n THEN h + 1 ELSE h + 1 - n - 1
      BY <3>1 DEF PlaceOf
    <3>3. h \in 0 .. n
      BY <1>1
    <3> HIDE DEF h, t, k, next, head2
    <3>4. Size(p) = IF h >= head2 THEN h - head2 ELSE n + 1 - (head2 - h)
      BY <1>6, <3>1
    <3>5. Size(p) = n
      <4>1. CASE h + 1 <= n
        <5>1. head2 = h + 1
          BY <3>2, <4>1
        <5> QED
          BY <3>3, <3>4, <4>1, <5>1
      <4>2. CASE h = n
        <5>1. head2 = 0
          BY <3>2, <4>2
        <5> QED
          BY <3>3, <3>4, <4>2, <5>1
      <4> QED
        BY <3>3, <4>1, <4>2
    <3> QED
      BY <3>1, <3>5
  <2>2. L >= n
    BY <1>1, <1>7, <1>8, <2>1 DEF Fewer
  <2>3. ASSUME NEW i \in 1 .. n PROVE w[PlaceOf(n, head2, i - 1)] = more[(L + 1) - n + i]
    <3>1. PlaceOf(n, head2, i - 1) = PlaceOf(n, h, i)
      <4>1. i - 1 \in 0 .. n - 1 /\ (i - 1) + 1 = i
        OBVIOUS
      <4> QED
        BY <1>10, <2>1, <4>1
    <3>2. CASE i = n
      <4>1. (L + 1) - n + i = L + 1
        BY <1>7, <3>2
      <4> QED
        BY <1>3, <1>7, <1>10, <2>1, <3>1, <3>2, <4>1
    <3>3. CASE i # n
      <4>1. i \in 0 .. k - 1 /\ i + 1 \in 1 .. k /\ (i + 1) - 1 = i
        BY <2>1, <3>3
      <4>2. w[PlaceOf(n, h, i)] = q.v[PlaceOf(n, h, i)]
        BY <1>3, <1>10, <4>1
      <4>3. q.v[PlaceOf(n, h, i)] = s[L - n + (i + 1)]
        BY <1>8, <2>1, <4>1
      <4>4. L - n + (i + 1) \in 1 .. L /\ (L + 1) - n + i = L - n + (i + 1)
        BY <1>7, <2>2, <3>3
      <4> QED
        BY <1>7, <3>1, <4>2, <4>3, <4>4
    <3> QED
      BY <3>2, <3>3
  <2> HIDE DEF w, more, L, k, next, head2, h
  <2>4. Size(p) = Fewer(Len(more), n)
    BY <1>7, <2>1, <2>2 DEF Fewer
  <2>5. p.v = w /\ p.head = head2
    BY <1>5
  <2>6. ASSUME NEW i \in 1 .. Size(p)
        PROVE  p.v[PlaceOf(n, p.head, i - 1)] = more[Len(more) - Size(p) + i]
    BY <1>7, <2>1, <2>3, <2>5
  <2>7. HoldsNewest(p, n, more)
    BY <2>4, <2>6 DEF HoldsNewest
  <2> QED
    BY <1>5, <2>7 DEF more
<1> QED
  BY <1>5, <1>11, <1>12

LEMMA ContentsAreNewest ==
  ASSUME NEW n \in Nat, NEW R, NEW q \in RingsOf(n, R), NEW S, NEW s \in Seq(S),
         HoldsNewest(q, n, s)
  PROVE  /\ Contents(q) = Newest(s, n)
         /\ Contents(q) \in Seq(S)
<1> DEFINE k == Size(q)
           L == Len(s)
           c == Contents(q)
<1>1. k \in 0 .. n /\ L \in Nat /\ k = Fewer(L, n)
  BY RingOfFields DEF HoldsNewest
<1>2. ASSUME NEW i \in 1 .. k PROVE At(q, i - 1) = s[L - k + i]
  <2>1. i - 1 \in 0 .. n
    <3> HIDE DEF k
    <3> QED
      BY <1>1
  <2>2. At(q, i - 1) = q.v[PlaceOf(n, q.head, i - 1)]
    BY <2>1, RingOfFields
  <2> QED
    BY <2>2 DEF HoldsNewest
<1>3. ASSUME NEW i \in 1 .. k PROVE L - k + i \in 1 .. L
  BY <1>1 DEF Fewer
<1>4. /\ c \in Seq(S) /\ Len(c) = k
      /\ \A i \in 1 .. k : c[i] = s[L - k + i]
  <2>1. c = [i \in 1 .. k |-> At(q, i - 1)]
    BY DEF Contents
  <2>2. \A i \in 1 .. k : At(q, i - 1) \in S
    BY <1>2, <1>3
  <2> HIDE DEF k, c
  <2>3. \A i \in 1 .. k : c[i] = s[L - k + i]
    BY <1>2, <2>1
  <2> QED
    BY <1>1, <2>1, <2>2, <2>3
<1>5. CASE L <= n
  <2>1. Newest(s, n) = s /\ k = L
    BY <1>1, <1>5 DEF Newest, Fewer
  <2> HIDE DEF c, k
  <2>2. \A i \in 1 .. L : c[i] = s[i]
    BY <1>1, <1>4, <2>1
  <2> QED
    BY <1>4, <2>1, <2>2, SeqEqual DEF c
<1>6. CASE ~(L <= n)
  <2> DEFINE w == SubSeq(s, L - n + 1, L)
  <2>1. Newest(s, n) = w /\ k = n
    BY <1>1, <1>6 DEF Newest, Fewer
  <2>2. \A i \in L - n + 1 .. L : s[i] \in S
    BY <1>1, <1>6
  <2>3. /\ w \in Seq(S) /\ Len(w) = n
        /\ \A i \in 1 .. n : w[i] = s[L - n + i]
    <3>1. L - n + 1 \in Int /\ L \in Int
      BY <1>1
    <3> QED
      BY <1>1, <1>6, <2>2, <3>1, SubSeqProperties
  <2> HIDE DEF c, k, w
  <2> QED
    BY <1>4, <2>1, <2>3, SeqEqual DEF c
<1> QED
  BY <1>1, <1>4, <1>5, <1>6

-----------------------------------------------------------------------------
(* What a sink behind the filter was told.                                  *)

AnyText == Payloads \cup {NoPayload, Markers[1], Markers[2]}
Items == [payload : AnyText, skipped : Nat]

Nothing == <<>>
\* Told makes a text of a line about messages skipped before the first message.
ToldTexts == AnyText \cup {Nothing[0]}

\* What Told has made of the first k items.
Tells(items, f) ==
  f[0] = <<>> /\ \A k \in 1 .. Len(items) : f[k] = Tell(f[k - 1], items[k])

LEMMA TellTyped ==
  ASSUME NEW t \in Seq(ToldTexts), NEW x \in Items
  PROVE  /\ Tell(t, x) \in Seq(ToldTexts)
         /\ Len(Tell(t, x)) = Len(t) + (IF x.skipped = 0 THEN 1 ELSE x.skipped)
<1>1. x.skipped \in Nat /\ x.payload \in ToldTexts
  BY DEF Items, ToldTexts
<1>2. CASE x.skipped = 0
  BY <1>1, <1>2 DEF Tell
<1>3. CASE x.skipped # 0
  <2> DEFINE n == x.skipped
             more == [i \in 1 .. n |-> t[Len(t)]]
  <2>1. t[Len(t)] \in ToldTexts
    <3>1. CASE t = Nothing
      <4>1. Len(t) = 0
        BY <3>1 DEF Nothing
      <4> QED
        BY <3>1, <4>1 DEF ToldTexts
    <3>2. CASE t # <<>>
      BY <3>2
    <3> QED
      BY <3>1, <3>2 DEF Nothing
  <2>2. n \in Nat
    BY <1>1
  <2> HIDE DEF n
  <2>3. more \in Seq(ToldTexts) /\ Len(more) = n
    BY <2>1, <2>2
  <2>4. Tell(t, x) = t \o more
    BY <1>3 DEF Tell, n
  <2> HIDE DEF more
  <2>5. t \o more \in Seq(ToldTexts) /\ Len(t \o more) = Len(t) + n
    BY <2>3
  <2> QED
    BY <1>3, <2>4, <2>5 DEF n
<1> QED
  BY <1>2, <1>3

LEMMA ToldFold ==
  ASSUME NEW items \in Seq(Items)
  PROVE  \E f \in [0 .. Len(items) -> Seq(ToldTexts)] :
           Tells(items, f) /\ Told(items) = f[Len(items)]
<1> DEFINE n == Len(items)
           T == Seq(ToldTexts)
           nothing == <<>>
           step == [k \in 1 .. n |-> [t \in T |-> Tell(t, items[k])]]
           Folds(g) == g = [t \in SUBSET DOMAIN items |->
                              IF t = {} THEN <<>> ELSE Tell(g[t \ {Max(t)}], items[Max(t)])]
           iter == CHOOSE g : Folds(g)
<1>1. Told(items) = iter[DOMAIN items]
  BY DEF Told, FoldLeft, MapThenFoldSet
<1>2. step \in [1 .. n -> [T -> T]]
  <2>1. ASSUME NEW t \in T, NEW k \in 1 .. n PROVE Tell(t, items[k]) \in T
    <3>1. items[k] \in Items
      OBVIOUS
    <3> QED
      BY <3>1, TellTyped
  <2> QED
    BY <2>1
<1>3. nothing \in T /\ n \in Nat /\ DOMAIN items = 1 .. n
  OBVIOUS
<1>4. PICK g \in [SUBSET (1 .. n) -> T] : FoldsUp(n, nothing, step, g)
  <2> HIDE DEF step, n, T, nothing
  <2> QED
    BY <1>2, <1>3, FoldExists
<1>5. Folds(g)
  <2>1. ASSUME NEW t \in SUBSET (1 .. n), t # {}
        PROVE  g[t] = Tell(g[t \ {Max(t)}], items[Max(t)])
    <3>1. Max(t) \in 1 .. n /\ t \ {Max(t)} \in SUBSET (1 .. n)
      BY <1>3, <2>1, LargestIndex
    <3> QED
      BY <1>4, <2>1, <3>1 DEF FoldsUp
  <2> QED
    BY <1>3, <1>4, <2>1 DEF FoldsUp
<1>6. Folds(iter)
  <2> HIDE DEF Folds
  <2> QED
    BY <1>5
<1> HIDE DEF iter
<1>7. FoldsWithin(n, T, nothing, step, iter)
  <2>1. ASSUME NEW t \in SUBSET (1 .. n), t # {}, iter[t \ {Max(t)}] \in T
        PROVE  iter[t] = step[Max(t)][iter[t \ {Max(t)}]]
    <3>1. Max(t) \in 1 .. n
      BY <1>3, <2>1, LargestIndex
    <3> QED
      BY <1>3, <1>6, <2>1, <3>1
  <2>2. iter[{}] = nothing
    BY <1>6
  <2> QED
    BY <2>1, <2>2 DEF FoldsWithin
<1>8. PICK f \in [0 .. n -> T] : RunsThrough(n, nothing, step, f) /\ iter[1 .. n] = f[n]
  <2> HIDE DEF step, n, T, nothing
  <2>1. RunsTo(n, T, nothing, step, iter)
    BY <1>2, <1>3, <1>7, FoldRuns
  <2> QED
    BY <2>1 DEF RunsTo
<1>9. ASSUME NEW k \in 1 .. n PROVE f[k] = Tell(f[k - 1], items[k])
  <2>1. f[k - 1] \in T
    BY <1>3
  <2> QED
    BY <1>8, <2>1 DEF RunsThrough
<1>10. Tells(items, f)
  BY <1>8, <1>9 DEF RunsThrough, Tells
<1> QED
  BY <1>1, <1>3, <1>8, <1>10

LEMMA ToldTyped ==
  /\ Told(<<>>) = <<>>
  /\ \A items \in Seq(Items) : Told(items) \in Seq(ToldTexts)
<1>1. ASSUME NEW items \in Seq(Items)
      PROVE  Told(items) \in Seq(ToldTexts) /\ (Len(items) = 0 => Told(items) = <<>>)
  BY ToldFold DEF Tells
<1>2. <<>> \in Seq(Items) /\ Len(<<>>) = 0
  OBVIOUS
<1> QED
  BY <1>1, <1>2

LEMMA ToldMore ==
  ASSUME NEW items \in Seq(Items), NEW x \in Items
  PROVE  Told(Append(items, x)) = Tell(Told(items), x)
<1> DEFINE n == Len(items)
           more == Append(items, x)
<1>1. PICK f \in [0 .. n -> Seq(ToldTexts)] : Tells(items, f) /\ Told(items) = f[n]
  BY ToldFold
<1>2. more \in Seq(Items) /\ Len(more) = n + 1 /\ more[n + 1] = x
      /\ \A i \in 1 .. n : more[i] = items[i]
  OBVIOUS
<1>3. PICK g \in [0 .. n + 1 -> Seq(ToldTexts)] : Tells(more, g) /\ Told(more) = g[n + 1]
  <2> HIDE DEF more, n
  <2> QED
    BY <1>2, ToldFold
<1> HIDE DEF more
<1> DEFINE S == {k \in Nat : k <= n => g[k] = f[k]}
<1>4. 0 \in S
  BY <1>1, <1>3 DEF Tells
<1>5. ASSUME NEW k \in Nat, k \in S PROVE k + 1 \in S
  <2>1. SUFFICES ASSUME k + 1 <= n PROVE g[k + 1] = f[k + 1]
    OBVIOUS
  <2>2. k + 1 \in 1 .. n /\ k + 1 \in 1 .. n + 1 /\ (k + 1) - 1 = k
    BY <2>1
  <2>3. f[k + 1] = Tell(f[k], items[k + 1]) /\ g[k + 1] = Tell(g[k], more[k + 1])
    BY <1>1, <1>2, <1>3, <2>2 DEF Tells
  <2> QED
    BY <1>2, <1>5, <2>1, <2>2, <2>3
<1>6. n \in Nat
  OBVIOUS
<1>7. g[n] = f[n]
  <2> HIDE DEF S
  <2>1. n \in S
    BY <1>4, <1>5, <1>6, SetInduction
  <2> QED
    BY <2>1 DEF S
<1>8. g[n + 1] = Tell(g[n], x)
  <2>1. n + 1 \in 1 .. Len(more) /\ (n + 1) - 1 = n
    BY <1>2, <1>6
  <2> QED
    BY <1>2, <1>3, <2>1 DEF Tells
<1> QED
  BY <1>1, <1>3, <1>7, <1>8 DEF more

-----------------------------------------------------------------------------
(* The filter and the ring, and one message more for both of them.          *)

SinkStates ==
  [last : AnyText, age : Nat, skips : Nat, shown : [Children -> Seq(Items)],
   ring : RingsOf(RingSize, AnyText \cup {NoItem})]

\* A text n times behind others.
Behind(t, x, n) == t \o Repeated(x, n)

\* Without faults: what a child was told and the duplicates counted are the log.
ToldAll(t, s, log) ==
  /\ Behind(t, s.last, s.skips) = log
  /\ (s.skips # 0 \/ s.age <= MaxSkip) => Len(t) # 0 /\ t[Len(t)] = s.last

SinksInv(s, log, faults) ==
  /\ s \in SinkStates /\ log \in Seq(AnyText) /\ faults \in Nat
  /\ faults = 0 => \A c \in Children : ToldAll(Told(s.shown[c]), s, log)
  /\ Len(Told(s.shown[1])) + s.skips + faults >= Len(log)
  /\ Len(s.shown[2]) <= Len(s.shown[1]) /\ Len(s.shown[1]) <= Len(s.shown[2]) + faults
  /\ HoldsNewest(s.ring, RingSize, log)

Faulty(failing) == IF failing = NoFailure THEN 0 ELSE 1
SomeFailures ==
  {NoFailure} \cup {[NoFailure EXCEPT !.atMsg = c] : c \in Children}
              \cup {[NoFailure EXCEPT !.atSkip = c] : c \in Children}

LEMMA FailureFields ==
  ASSUME NEW failing \in SomeFailures
  PROVE  \/ failing = NoFailure /\ failing.atSkip = 3 /\ failing.atMsg = 3
         \/ failing # NoFailure /\ failing.atSkip = 3 /\ failing.atMsg \in {1, 2}
         \/ failing # NoFailure /\ failing.atSkip \in {1, 2} /\ failing.atMsg = 3
<1>1. Cardinality({1, 2}) = 2
  <2>1. IsFiniteSet({1}) /\ Cardinality({1}) = 1
    BY FS_Singleton
  <2>2. Cardinality({1} \cup {2}) = Cardinality({1}) + 1
    BY <2>1, FS_AddElement
  <2>3. {1} \cup {2} = {1, 2}
    OBVIOUS
  <2> QED
    BY <2>1, <2>2, <2>3
<1>2. Nobody = 3
  BY <1>1 DEF Nobody, Children
<1>3. NoFailure = [atSkip |-> 3, atMsg |-> 3]
  BY <1>2 DEF NoFailure
<1>4. CASE failing = NoFailure
  BY <1>3, <1>4
<1>5. ASSUME NEW c \in {1, 2}, failing = [NoFailure EXCEPT !.atMsg = c]
      PROVE  failing # NoFailure /\ failing.atSkip = 3 /\ failing.atMsg \in {1, 2}
  BY <1>3, <1>5
<1>6. ASSUME NEW c \in {1, 2}, failing = [NoFailure EXCEPT !.atSkip = c]
      PROVE  failing # NoFailure /\ failing.atSkip \in {1, 2} /\ failing.atMsg = 3
  BY <1>3, <1>6
<1> QED
  BY <1>4, <1>5, <1>6 DEF SomeFailures, Children

LEMMA SinkFields ==
  ASSUME NEW s \in SinkStates
  PROVE  /\ s.last \in AnyText /\ s.age \in Nat /\ s.skips \in Nat
         /\ s.shown \in [{1, 2} -> Seq(Items)]
         /\ s.ring \in RingsOf(RingSize, AnyText \cup {NoItem})
         /\ s = [last |-> s.last, age |-> s.age, skips |-> s.skips,
                 shown |-> s.shown, ring |-> s.ring]
BY DEF SinkStates, Children

\* What dist_sink gives its children: the first failing - 1 get the item.
GaveFirst(given, x, failing, to) ==
  /\ to \in [{1, 2} -> Seq(Items)]
  /\ \A c \in {1, 2} :
       IF c < failing
       THEN Len(to[c]) = Len(given[c]) + 1 /\ Told(to[c]) = Tell(Told(given[c]), x)
       ELSE to[c] = given[c]

LEMMA Given ==
  ASSUME NEW given \in [{1, 2} -> Seq(Items)], NEW x \in Items, NEW failing \in {1, 2, 3}
  PROVE  GaveFirst(given, x, failing, GiveAll(given, x, failing))
<1> DEFINE to == GiveAll(given, x, failing)
<1>1. ASSUME NEW c \in {1, 2}
      PROVE  to[c] = IF c < failing THEN Append(given[c], x) ELSE given[c]
  BY DEF GiveAll, Children
<1>2. to = [c \in {1, 2} |-> IF c < failing THEN Append(given[c], x) ELSE given[c]]
  BY DEF GiveAll, Children
<1>3. \A c \in {1, 2} : Append(given[c], x) \in Seq(Items)
                       /\ Len(Append(given[c], x)) = Len(given[c]) + 1
  OBVIOUS
<1>4. \A c \in {1, 2} : Told(Append(given[c], x)) = Tell(Told(given[c]), x)
  BY ToldMore
<1>5. to \in [{1, 2} -> Seq(Items)]
  BY <1>2, <1>3
<1> HIDE DEF to
<1> QED
  BY <1>1, <1>3, <1>4, <1>5 DEF GaveFirst, to

Exact(s, log, faults) ==
  faults = 0 => \A c \in Children : ToldAll(Told(s.shown[c]), s, log)

Counted(s, log, faults) ==
  /\ Len(Told(s.shown[1])) + s.skips + faults >= Len(log)
  /\ Len(s.shown[2]) <= Len(s.shown[1]) /\ Len(s.shown[1]) <= Len(s.shown[2]) + faults

BehindMore(t, x, k) == Behind(t, x, k + 1) = Append(Behind(t, x, k), x)

LEMMA OneMoreTime ==
  ASSUME NEW S, NEW t \in Seq(S), NEW x \in S, NEW k \in Nat
  PROVE  /\ Repeated(x, k) \in Seq(S) /\ Len(Repeated(x, k)) = k
         /\ Behind(t, x, 0) = t /\ BehindMore(t, x, k)
<1>1. /\ Repeated(x, k) \in Seq(S) /\ Len(Repeated(x, k)) = k
      /\ \A i \in 1 .. k : Repeated(x, k)[i] = x
  BY DEF Repeated
<1>2. k + 1 \in Nat
  OBVIOUS
<1>3. /\ Repeated(x, k + 1) \in Seq(S) /\ Len(Repeated(x, k + 1)) = k + 1
      /\ \A i \in 1 .. k + 1 : Repeated(x, k + 1)[i] = x
  BY <1>2 DEF Repeated
<1>4. Repeated(x, 0) = <<>>
  BY DEF Repeated
<1>5. t \o Repeated(x, 0) = t
  BY <1>4
<1>6. t \o Repeated(x, k + 1) = Append(t \o Repeated(x, k), x)
  <2> DEFINE u == Repeated(x, k)
             w == Repeated(x, k + 1)
  <2>1. /\ u \in Seq(S) /\ Len(u) = k /\ w \in Seq(S) /\ Len(w) = k + 1
        /\ (\A i \in 1 .. k : u[i] = x) /\ (\A i \in 1 .. k + 1 : w[i] = x)
    BY <1>1, <1>3
  <2> HIDE DEF u, w
  <2> DEFINE a == t \o w
             b == t \o u
             d == Append(b, x)
             n == Len(t)
  <2>2. /\ a \in Seq(S) /\ Len(a) = n + (k + 1)
        /\ \A i \in 1 .. n + (k + 1) : a[i] = IF i <= n THEN t[i] ELSE w[i - n]
    BY <2>1
  <2>3. /\ b \in Seq(S) /\ Len(b) = n + k
        /\ \A i \in 1 .. n + k : b[i] = IF i <= n THEN t[i] ELSE u[i - n]
    BY <2>1
  <2>4. n \in Nat
    OBVIOUS
  <2> HIDE DEF a, b, n
  <2>5. /\ d \in Seq(S) /\ Len(d) = n + k + 1 /\ d[n + k + 1] = x
        /\ \A i \in 1 .. n + k : d[i] = b[i]
    BY <2>3, <2>4
  <2> HIDE DEF d
  <2>6. Len(a) = Len(d)
    BY <2>2, <2>4, <2>5
  <2>7. ASSUME NEW i \in 1 .. Len(d) PROVE a[i] = d[i]
    <3>1. CASE i = n + k + 1
      <4>1. i - n \in 1 .. k + 1 /\ i \in 1 .. n + (k + 1) /\ ~(i <= n)
        BY <2>4, <3>1
      <4>2. a[i] = w[i - n] /\ w[i - n] = x
        BY <2>1, <2>2, <4>1
      <4> QED
        BY <2>5, <3>1, <4>2
    <3>2. CASE i # n + k + 1
      <4>1. i \in 1 .. n + k /\ i \in 1 .. n + (k + 1)
        BY <2>4, <2>5, <3>2
      <4>2. CASE i <= n
        BY <2>2, <2>3, <2>5, <4>1, <4>2
      <4>3. CASE ~(i <= n)
        <5>1. i - n \in 1 .. k /\ i - n \in 1 .. k + 1
          BY <2>4, <4>1, <4>3
        <5> QED
          BY <2>1, <2>2, <2>3, <2>5, <4>1, <4>3, <5>1
      <4> QED
        BY <4>2, <4>3
    <3> QED
      BY <3>1, <3>2
  <2> QED
    BY <2>2, <2>5, <2>6, <2>7, SeqEqual DEF a, b, d, u, w
<1>7. Behind(t, x, 0) = t /\ BehindMore(t, x, k)
  BY <1>5, <1>6, Zenon DEF Behind, BehindMore
<1> QED
  BY <1>1, <1>7

LEMMA TellsText ==
  ASSUME NEW t \in Seq(ToldTexts), NEW p \in AnyText, NEW k \in Nat
  PROVE  /\ Shown(p) \in Items /\ Shown(p).skipped = 0 /\ Tell(t, Shown(p)) = Append(t, p)
         /\ SkippedMsg(k) \in Items /\ SkippedMsg(k).skipped = k
         /\ k # 0 => Tell(t, SkippedMsg(k)) = Behind(t, t[Len(t)], k)
<1>1. NoPayload \in AnyText
  BY DEF AnyText
<1>2. Shown(p) \in Items /\ Shown(p).skipped = 0 /\ Shown(p).payload = p
  BY DEF Shown, Items
<1>3. SkippedMsg(k) \in Items /\ SkippedMsg(k).skipped = k
  BY <1>1 DEF SkippedMsg, Items
<1>4. Tell(t, Shown(p)) = Append(t, p)
  BY <1>2 DEF Tell
<1>5. k # 0 => Tell(t, SkippedMsg(k)) = Behind(t, t[Len(t)], k)
  BY <1>3 DEF Tell, Behind, Repeated
<1> QED
  BY <1>2, <1>3, <1>4, <1>5

\* A message that is left out.
LEMMA LeftOut ==
  ASSUME NEW s, NEW log, NEW faults, SinksInv(s, log, faults), NEW p \in AnyText,
         NEW failing \in SomeFailures, s.age <= MaxSkip, p = s.last,
         NEW d, d = DupFilter(s, p, failing)
  PROVE  /\ d \in SinkStates /\ d.ring = s.ring
         /\ Exact(d, Append(log, p), faults + Faulty(failing))
         /\ Counted(d, Append(log, p), faults + Faulty(failing))
<1> DEFINE t == [c \in {1, 2} |-> Told(s.shown[c])]
           more == Append(log, p)
           k == s.skips
<1>1. /\ s \in SinkStates /\ log \in Seq(AnyText) /\ faults \in Nat
      /\ Exact(s, log, faults) /\ Counted(s, log, faults)
  BY DEF SinksInv, Exact, Counted
<1>2. d = [s EXCEPT !.skips = k + 1]
  BY DEF DupFilter
<1>3. /\ d.last = s.last /\ d.age = s.age /\ d.skips = k + 1 /\ d.shown = s.shown
      /\ d.ring = s.ring /\ d \in SinkStates
  <2>1. k + 1 \in Nat
    BY <1>1, SinkFields
  <2>2. d = [last |-> s.last, age |-> s.age, skips |-> k + 1, shown |-> s.shown,
             ring |-> s.ring]
    <3>1. s = [last |-> s.last, age |-> s.age, skips |-> s.skips,
               shown |-> s.shown, ring |-> s.ring]
      BY <1>1, SinkFields
    <3> QED
      BY <1>2, <3>1
  <2> HIDE DEF k
  <2>3. s.shown \in [Children -> Seq(Items)]
    BY <1>1, SinkFields DEF Children
  <2> QED
    BY <1>1, <2>1, <2>2, <2>3, SinkFields DEF SinkStates
<1>4. k \in Nat /\ Len(more) = Len(log) + 1 /\ Len(log) \in Nat /\ s.shown \in [{1, 2} -> Seq(Items)]
  BY <1>1, SinkFields
<1>5. \A c \in {1, 2} : t[c] \in Seq(ToldTexts) /\ Len(t[c]) \in Nat
  BY <1>4, ToldTyped
<1>6. Faulty(failing) \in {0, 1}
  BY DEF Faulty
<1>7. Counted(d, more, faults + Faulty(failing))
  <2>1. Len(t[1]) + k + faults >= Len(log)
    BY <1>1 DEF Counted
  <2>2. Told(d.shown[1]) = t[1]
    BY <1>3
  <2>3. /\ Len(s.shown[2]) <= Len(s.shown[1]) /\ Len(s.shown[1]) <= Len(s.shown[2]) + faults
        /\ Len(s.shown[1]) \in Nat /\ Len(s.shown[2]) \in Nat
    BY <1>1, <1>4 DEF Counted
  <2> DEFINE a == Len(t[1])
             f == Faulty(failing)
  <2>4. a \in Nat /\ a = Len(Told(d.shown[1]))
    BY <1>5, <2>2
  <2>5. a + k + faults >= Len(log)
    BY <2>1
  <2> HIDE DEF t, k, more, a, f
  <2>6. a + (k + 1) + (faults + f) >= Len(more)
    <3>1. f \in {0, 1}
      BY <1>6 DEF f
    <3> QED
      BY <1>1, <1>4, <2>4, <2>5, <3>1
  <2>7. Len(s.shown[1]) <= Len(s.shown[2]) + (faults + f)
    <3> DEFINE l1 == Len(s.shown[1])
               l2 == Len(s.shown[2])
    <3>1. f \in {0, 1} /\ l1 \in Nat /\ l2 \in Nat /\ l1 <= l2 + faults
      BY <1>6, <2>3 DEF f
    <3> HIDE DEF l1, l2
    <3>2. l1 <= l2 + (faults + f)
      BY <1>1, <3>1
    <3> QED
      BY <3>2 DEF l1, l2
  <2> QED
    BY <1>3, <2>3, <2>4, <2>6, <2>7 DEF Counted, f
<1>8. Exact(d, more, faults + Faulty(failing))
  <2>1. SUFFICES ASSUME faults = 0, NEW c \in {1, 2} PROVE ToldAll(t[c], d, more)
    BY <1>1, <1>3, <1>6 DEF Exact, Children
  <2>2. ToldAll(t[c], s, log)
    BY <1>1, <2>1 DEF Exact, Children
  <2>3. p \in ToldTexts
    BY DEF ToldTexts
  <2>4. BehindMore(t[c], p, k)
    BY <1>4, <1>5, <2>3, OneMoreTime
  <2> QED
    BY <1>3, <2>2, <2>4 DEF ToldAll, BehindMore
<1> QED
  BY <1>3, <1>7, <1>8

\* What the children have after a message that is not left out, and what the
\* filter remembers of it.
Remembers(s, p, given, kept) ==
  [last |-> IF kept THEN p ELSE s.last, age |-> IF kept THEN 0 ELSE s.age,
   skips |-> IF kept THEN 0 ELSE s.skips, shown |-> given, ring |-> s.ring]

GivenOn(s, p, failing, given, kept) ==
  /\ given \in [{1, 2} -> Seq(Items)] /\ kept \in BOOLEAN
  /\ Len(given[2]) - Len(given[1]) <= Len(s.shown[2]) - Len(s.shown[1])
  /\ Len(given[1]) - Len(given[2]) <= Len(s.shown[1]) - Len(s.shown[2]) + Faulty(failing)
  /\ Len(Told(given[1])) + (IF kept THEN 0 ELSE s.skips) + Faulty(failing)
       >= Len(Told(s.shown[1])) + s.skips + 1
  /\ failing = NoFailure =>
       /\ kept
       /\ \A c \in {1, 2} :
            LET t == Told(s.shown[c])
            IN  Told(given[c]) =
                  Append(IF s.skips = 0 THEN t ELSE Behind(t, t[Len(t)], s.skips), p)

ShownTexts(s) ==
  \A c \in {1, 2} : /\ s.shown[c] \in Seq(Items) /\ Told(s.shown[c]) \in Seq(ToldTexts)
                    /\ Len(s.shown[c]) \in Nat /\ Len(Told(s.shown[c])) \in Nat

LEMMA ShownTextsAre == \A s \in SinkStates : ShownTexts(s)
<1> SUFFICES ASSUME NEW s \in SinkStates, NEW c \in {1, 2}
             PROVE  /\ s.shown[c] \in Seq(Items) /\ Told(s.shown[c]) \in Seq(ToldTexts)
                    /\ Len(s.shown[c]) \in Nat /\ Len(Told(s.shown[c])) \in Nat
  BY DEF ShownTexts
<1>1. s.shown[c] \in Seq(Items)
  BY SinkFields
<1>2. Told(s.shown[c]) \in Seq(ToldTexts)
  BY <1>1, ToldTyped
<1> QED
  BY <1>1, <1>2

\* One item for the children before the one that fails.
GaveItem(was, x, failing, given) ==
  /\ given \in [{1, 2} -> Seq(Items)]
  /\ Len(given[1]) = Len(was[1]) + (IF 1 < failing THEN 1 ELSE 0)
  /\ Len(given[2]) = Len(was[2]) + (IF 2 < failing THEN 1 ELSE 0)
  /\ 1 < failing => Told(given[1]) = Tell(Told(was[1]), x)
  /\ ~(1 < failing) => Told(given[1]) = Told(was[1])
  /\ failing = 3 => Told(given[2]) = Tell(Told(was[2]), x)

LEMMA GivenOne ==
  ASSUME NEW was \in [{1, 2} -> Seq(Items)], NEW x \in Items, NEW failing \in {1, 2, 3}
  PROVE  GaveItem(was, x, failing, GiveAll(was, x, failing))
<1> DEFINE given == GiveAll(was, x, failing)
<1>1. GaveFirst(was, x, failing, given)
  BY Given
<1> HIDE DEF given
<1>2. Len(was[1]) \in Nat /\ Len(was[2]) \in Nat
  OBVIOUS
<1>3. GaveItem(was, x, failing, given)
  BY <1>1, <1>2 DEF GaveFirst, GaveItem
<1> QED
  BY <1>3 DEF given

\* Nothing was left out before it.
LEMMA ShownAtOnce ==
  ASSUME NEW s \in SinkStates, NEW p \in AnyText, NEW failing \in SomeFailures,
         ~(s.age <= MaxSkip /\ p = s.last), s.skips = 0, NEW d, d = DupFilter(s, p, failing)
  PROVE  \E given, kept : d = Remembers(s, p, given, kept) /\ GivenOn(s, p, failing, given, kept)
<1> DEFINE given == GiveAll(s.shown, Shown(p), failing.atMsg)
           kept == failing.atMsg = 3
           a == Len(s.shown[1])
           b == Len(s.shown[2])
           t == Told(s.shown[1])
           u == Told(s.shown[2])
           f == Faulty(failing)
<1>1. failing.atMsg \in {1, 2, 3} /\ (failing = NoFailure => kept) /\ (~kept => f = 1)
      /\ f \in {0, 1}
  BY FailureFields DEF Faulty
<1>2. NoFailure \in SomeFailures /\ Nobody = 3
  <2>1. NoFailure \in SomeFailures
    BY DEF SomeFailures
  <2>2. NoFailure.atMsg = 3
    BY <2>1, FailureFields
  <2> QED
    BY <2>1, <2>2 DEF NoFailure
<1>3. d = Remembers(s, p, given, kept)
  <2>1. s = [last |-> s.last, age |-> s.age, skips |-> s.skips,
             shown |-> s.shown, ring |-> s.ring]
    BY SinkFields
  <2>2. d = IF ~kept THEN [s EXCEPT !.shown = given]
            ELSE [s EXCEPT !.shown = given, !.last = p, !.age = 0, !.skips = 0]
    BY <1>2 DEF DupFilter
  <2> HIDE DEF given, kept
  <2> QED
    BY <2>1, <2>2 DEF Remembers
<1>4. /\ t \in Seq(ToldTexts) /\ u \in Seq(ToldTexts) /\ a \in Nat /\ b \in Nat
  BY ShownTextsAre DEF ShownTexts
<1>5. Shown(p) \in Items /\ Shown(p).skipped = 0
      /\ Tell(t, Shown(p)) = Append(t, p) /\ Tell(u, Shown(p)) = Append(u, p)
  BY <1>4, TellsText
<1>6. GaveItem(s.shown, Shown(p), failing.atMsg, given)
  BY <1>1, <1>5, SinkFields, GivenOne
<1>7. /\ given \in [{1, 2} -> Seq(Items)]
      /\ Len(given[1]) = a + (IF 1 < failing.atMsg THEN 1 ELSE 0)
      /\ Len(given[2]) = b + (IF 2 < failing.atMsg THEN 1 ELSE 0)
      /\ 1 < failing.atMsg => Told(given[1]) = Tell(t, Shown(p))
      /\ ~(1 < failing.atMsg) => Told(given[1]) = t
      /\ failing.atMsg = 3 => Told(given[2]) = Tell(u, Shown(p))
  <2> HIDE DEF given
  <2> QED
    BY <1>6 DEF GaveItem
<1> HIDE DEF given, a, b, t, u, f
<1>8. kept \in BOOLEAN
  OBVIOUS
<1>9. /\ Len(given[2]) - Len(given[1]) <= b - a
      /\ Len(given[1]) - Len(given[2]) <= a - b + f
  BY <1>1, <1>4, <1>7
<1>10. Len(Told(given[1])) + (IF kept THEN 0 ELSE s.skips) + f >= Len(t) + s.skips + 1
  <2>1. Len(Append(t, p)) = Len(t) + 1 /\ Len(t) \in Nat
    BY <1>4
  <2>2. CASE kept
    <3>1. Len(Told(given[1])) = Len(t) + 1
      BY <1>5, <1>7, <2>1, <2>2
    <3> QED
      BY <1>1, <2>1, <2>2, <3>1
  <2>3. CASE ~kept
    <3>1. Len(Told(given[1])) >= Len(t) /\ Len(Told(given[1])) \in Nat
      <4>1. CASE 1 < failing.atMsg
        BY <1>5, <1>7, <2>1, <4>1
      <4>2. CASE ~(1 < failing.atMsg)
        BY <1>7, <2>1, <4>2
      <4> QED
        BY <4>1, <4>2
    <3> QED
      BY <1>1, <2>1, <2>3, <3>1
  <2> QED
    BY <2>2, <2>3
<1>11. failing = NoFailure =>
         kept /\ Told(given[1]) = Append(t, p) /\ Told(given[2]) = Append(u, p)
  BY <1>1, <1>5, <1>7
<1> HIDE DEF kept
<1>12. GivenOn(s, p, failing, given, kept)
  BY <1>7, <1>8, <1>9, <1>10, <1>11 DEF GivenOn, a, b, t, u, f
<1> QED
  BY <1>3, <1>12

\* A child throws at the line about the messages left out.
LEMMA SkipsFail ==
  ASSUME NEW s \in SinkStates, NEW p \in AnyText, NEW failing \in SomeFailures,
         ~(s.age <= MaxSkip /\ p = s.last), s.skips # 0, failing.atSkip # 3,
         NEW d, d = DupFilter(s, p, failing)
  PROVE  \E given, kept : d = Remembers(s, p, given, kept) /\ GivenOn(s, p, failing, given, kept)
<1> DEFINE n == s.skips
           given == GiveAll(s.shown, SkippedMsg(n), failing.atSkip)
           a == Len(s.shown[1])
           b == Len(s.shown[2])
           t == Told(s.shown[1])
           f == Faulty(failing)
<1>1. failing.atSkip \in {1, 2} /\ failing # NoFailure /\ f = 1 /\ n \in Nat /\ n # 0
  BY FailureFields, SinkFields DEF Faulty
<1>2. Nobody = 3
  <2>1. NoFailure \in SomeFailures
    BY DEF SomeFailures
  <2>2. NoFailure.atMsg = 3
    BY <2>1, FailureFields
  <2> QED
    BY <2>2 DEF NoFailure
<1>3. d = Remembers(s, p, given, FALSE)
  <2>1. s = [last |-> s.last, age |-> s.age, skips |-> s.skips,
             shown |-> s.shown, ring |-> s.ring]
    BY SinkFields
  <2>2. d = [s EXCEPT !.shown = given]
    BY <1>2 DEF DupFilter
  <2> HIDE DEF given
  <2> QED
    BY <2>1, <2>2 DEF Remembers
<1>4. t \in Seq(ToldTexts) /\ a \in Nat /\ b \in Nat
  BY ShownTextsAre DEF ShownTexts
<1>5. SkippedMsg(n) \in Items /\ SkippedMsg(n).skipped = n
  BY <1>1, <1>4, TellsText
<1>6. GaveItem(s.shown, SkippedMsg(n), failing.atSkip, given)
  BY <1>1, <1>5, SinkFields, GivenOne
<1>7. Tell(t, SkippedMsg(n)) \in Seq(ToldTexts) /\ Len(Tell(t, SkippedMsg(n))) = Len(t) + n
  BY <1>1, <1>4, <1>5, TellTyped
<1>8. /\ given \in [{1, 2} -> Seq(Items)]
      /\ Len(given[1]) = a + (IF 1 < failing.atSkip THEN 1 ELSE 0)
      /\ Len(given[2]) = b
      /\ 1 < failing.atSkip => Told(given[1]) = Tell(t, SkippedMsg(n))
      /\ ~(1 < failing.atSkip) => Told(given[1]) = t
  <2> HIDE DEF given
  <2>1. ~(2 < failing.atSkip)
    BY <1>1
  <2>2. Len(given[2]) = b
    BY <1>4, <1>6, <2>1 DEF GaveItem
  <2> QED
    BY <1>6, <2>2 DEF GaveItem
<1> HIDE DEF given, a, b, t, f, n
<1>9. /\ Len(given[2]) - Len(given[1]) <= b - a
      /\ Len(given[1]) - Len(given[2]) <= a - b + f
  BY <1>1, <1>4, <1>8
<1>10. Len(Told(given[1])) + n + f >= Len(t) + n + 1
  <2>1. Len(t) \in Nat
    BY <1>4
  <2>2. CASE 1 < failing.atSkip
    BY <1>1, <1>7, <1>8, <2>1, <2>2
  <2>3. CASE ~(1 < failing.atSkip)
    BY <1>1, <1>8, <2>1, <2>3
  <2> QED
    BY <2>2, <2>3
<1>11. GivenOn(s, p, failing, given, FALSE)
  BY <1>1, <1>8, <1>9, <1>10 DEF GivenOn, a, b, t, f, n
<1> QED
  BY <1>3, <1>11

\* The children are told of the messages left out, and then of the message.
LEMMA ShownAfterSkips ==
  ASSUME NEW s \in SinkStates, NEW p \in AnyText, NEW failing \in SomeFailures,
         ~(s.age <= MaxSkip /\ p = s.last), s.skips # 0, failing.atSkip = 3,
         NEW d, d = DupFilter(s, p, failing)
  PROVE  \E given, kept : d = Remembers(s, p, given, kept) /\ GivenOn(s, p, failing, given, kept)
<1> DEFINE n == s.skips
           mid == GiveAll(s.shown, SkippedMsg(n), 3)
           given == GiveAll(mid, Shown(p), failing.atMsg)
           kept == failing.atMsg = 3
           a == Len(s.shown[1])
           b == Len(s.shown[2])
           t == Told(s.shown[1])
           u == Told(s.shown[2])
           f == Faulty(failing)
<1>1. failing.atMsg \in {1, 2, 3} /\ (failing = NoFailure => kept) /\ (~kept => f = 1)
      /\ f \in {0, 1} /\ n \in Nat /\ n # 0
  BY FailureFields, SinkFields DEF Faulty
<1>2. Nobody = 3
  <2>1. NoFailure \in SomeFailures
    BY DEF SomeFailures
  <2>2. NoFailure.atMsg = 3
    BY <2>1, FailureFields
  <2> QED
    BY <2>2 DEF NoFailure
<1>3. d = Remembers(s, p, given, kept)
  <2>1. s = [last |-> s.last, age |-> s.age, skips |-> s.skips,
             shown |-> s.shown, ring |-> s.ring]
    BY SinkFields
  <2>2. d = IF ~kept THEN [s EXCEPT !.shown = given]
            ELSE [s EXCEPT !.shown = given, !.last = p, !.age = 0, !.skips = 0]
    BY <1>2 DEF DupFilter
  <2> HIDE DEF given, kept
  <2> QED
    BY <2>1, <2>2 DEF Remembers
<1>4. /\ t \in Seq(ToldTexts) /\ u \in Seq(ToldTexts) /\ a \in Nat /\ b \in Nat
  BY ShownTextsAre DEF ShownTexts
<1>5. /\ SkippedMsg(n) \in Items /\ SkippedMsg(n).skipped = n
      /\ Tell(t, SkippedMsg(n)) = Behind(t, t[Len(t)], n)
      /\ Tell(u, SkippedMsg(n)) = Behind(u, u[Len(u)], n)
  BY <1>1, <1>4, TellsText
<1> DEFINE t2 == Behind(t, t[Len(t)], n)
           u2 == Behind(u, u[Len(u)], n)
<1>6. /\ t2 \in Seq(ToldTexts) /\ u2 \in Seq(ToldTexts) /\ Len(t2) = Len(t) + n
  <2>1. /\ Tell(t, SkippedMsg(n)) \in Seq(ToldTexts)
        /\ Tell(u, SkippedMsg(n)) \in Seq(ToldTexts)
        /\ Len(Tell(t, SkippedMsg(n))) = Len(t) + n
    BY <1>1, <1>4, <1>5, TellTyped
  <2> QED
    BY <1>5, <2>1
<1>7. /\ mid \in [{1, 2} -> Seq(Items)] /\ Len(mid[1]) = a + 1 /\ Len(mid[2]) = b + 1
      /\ Told(mid[1]) = t2 /\ Told(mid[2]) = u2
  <2>1. GaveItem(s.shown, SkippedMsg(n), 3, mid)
    BY <1>5, SinkFields, GivenOne
  <2> HIDE DEF mid
  <2>2. 1 < 3 /\ 2 < 3
    OBVIOUS
  <2> QED
    BY <1>5, <2>1, <2>2 DEF GaveItem
<1> HIDE DEF mid, t2, u2
<1>8. Shown(p) \in Items /\ Tell(t2, Shown(p)) = Append(t2, p) /\ Tell(u2, Shown(p)) = Append(u2, p)
  BY <1>6, TellsText
<1>9. GaveItem(mid, Shown(p), failing.atMsg, given)
  BY <1>1, <1>7, <1>8, GivenOne
<1> HIDE DEF given, a, b, t, u, f, n
<1>10. /\ given \in [{1, 2} -> Seq(Items)]
       /\ Len(given[1]) = (a + 1) + (IF 1 < failing.atMsg THEN 1 ELSE 0)
       /\ Len(given[2]) = (b + 1) + (IF 2 < failing.atMsg THEN 1 ELSE 0)
       /\ 1 < failing.atMsg => Told(given[1]) = Append(t2, p)
       /\ ~(1 < failing.atMsg) => Told(given[1]) = t2
       /\ failing.atMsg = 3 => Told(given[2]) = Append(u2, p)
  BY <1>7, <1>8, <1>9 DEF GaveItem
<1>11. kept \in BOOLEAN
  OBVIOUS
<1>12. /\ Len(given[2]) - Len(given[1]) <= b - a
       /\ Len(given[1]) - Len(given[2]) <= a - b + f
  BY <1>1, <1>4, <1>10
<1>13. Len(Told(given[1])) + (IF kept THEN 0 ELSE n) + f >= Len(t) + n + 1
  <2>1. Len(Append(t2, p)) = Len(t) + n + 1 /\ Len(t) \in Nat
    BY <1>4, <1>6
  <2>2. CASE kept
    <3>1. Len(Told(given[1])) = Len(t) + n + 1
      BY <1>10, <2>1, <2>2
    <3> QED
      BY <1>1, <2>1, <2>2, <3>1
  <2>3. CASE ~kept
    <3>1. Len(Told(given[1])) >= Len(t) + n /\ Len(Told(given[1])) \in Nat
      <4>1. CASE 1 < failing.atMsg
        BY <1>1, <1>10, <2>1, <4>1
      <4>2. CASE ~(1 < failing.atMsg)
        BY <1>1, <1>6, <1>10, <2>1, <4>2
      <4> QED
        BY <4>1, <4>2
    <3> QED
      BY <1>1, <2>1, <2>3, <3>1
  <2> QED
    BY <2>2, <2>3
<1>14. failing = NoFailure =>
         kept /\ Told(given[1]) = Append(t2, p) /\ Told(given[2]) = Append(u2, p)
  BY <1>1, <1>10
<1> HIDE DEF kept
<1>15. GivenOn(s, p, failing, given, kept)
  BY <1>1, <1>10, <1>11, <1>12, <1>13, <1>14 DEF GivenOn, a, b, t, u, f, n, t2, u2
<1> QED
  BY <1>3, <1>15

\* A message that is shown keeps what was told and counted.
LEMMA ShownOn ==
  ASSUME NEW s, NEW log, NEW faults, SinksInv(s, log, faults), NEW p \in AnyText,
         NEW failing \in SomeFailures, ~(s.age <= MaxSkip /\ p = s.last),
         NEW d, d = DupFilter(s, p, failing)
  PROVE  /\ d \in SinkStates /\ d.ring = s.ring
         /\ Exact(d, Append(log, p), faults + Faulty(failing))
         /\ Counted(d, Append(log, p), faults + Faulty(failing))
<1> DEFINE more == Append(log, p)
           f == Faulty(failing)
<1>1. /\ s \in SinkStates /\ log \in Seq(AnyText) /\ faults \in Nat
      /\ Exact(s, log, faults) /\ Counted(s, log, faults)
  BY DEF SinksInv, Exact, Counted
<1>2. PICK given, kept : d = Remembers(s, p, given, kept) /\ GivenOn(s, p, failing, given, kept)
  <2>1. CASE s.skips = 0
    BY <1>1, <2>1, ShownAtOnce
  <2>2. CASE s.skips # 0 /\ failing.atSkip # 3
    BY <1>1, <2>2, SkipsFail
  <2>3. CASE s.skips # 0 /\ failing.atSkip = 3
    BY <1>1, <2>3, ShownAfterSkips
  <2> QED
    BY <2>1, <2>2, <2>3
<1>3. /\ d.last = (IF kept THEN p ELSE s.last) /\ d.age = (IF kept THEN 0 ELSE s.age)
      /\ d.skips = (IF kept THEN 0 ELSE s.skips) /\ d.shown = given /\ d.ring = s.ring
  BY <1>2 DEF Remembers
<1>4. given \in [{1, 2} -> Seq(Items)] /\ kept \in BOOLEAN /\ s.skips \in Nat
  BY <1>1, <1>2, SinkFields DEF GivenOn
<1>5. d \in SinkStates
  <2>1. /\ (IF kept THEN p ELSE s.last) \in AnyText /\ (IF kept THEN 0 ELSE s.age) \in Nat
        /\ (IF kept THEN 0 ELSE s.skips) \in Nat
        /\ s.ring \in RingsOf(RingSize, AnyText \cup {NoItem})
    BY <1>1, <1>4, SinkFields
  <2>2. given \in [Children -> Seq(Items)]
    BY <1>4 DEF Children
  <2> QED
    BY <1>2, <2>1, <2>2 DEF Remembers, SinkStates
<1>6. f \in {0, 1} /\ (f = 0 => failing = NoFailure)
  BY DEF Faulty
<1>7. ShownTexts(s) /\ ShownTexts(d)
  BY <1>1, <1>5, ShownTextsAre
<1>8. Len(more) = Len(log) + 1 /\ Len(log) \in Nat
  BY <1>1
<1>9. Counted(d, more, faults + f)
  <2> DEFINE a == Len(s.shown[1])
             b == Len(s.shown[2])
             a2 == Len(given[1])
             b2 == Len(given[2])
             t == Len(Told(s.shown[1]))
             t2 == Len(Told(given[1]))
  <2>1. /\ a \in Nat /\ b \in Nat /\ a2 \in Nat /\ b2 \in Nat /\ t \in Nat /\ t2 \in Nat
    BY <1>3, <1>7 DEF ShownTexts
  <2>2. /\ b2 - a2 <= b - a /\ a2 - b2 <= a - b + f
        /\ t2 + (IF kept THEN 0 ELSE s.skips) + f >= t + s.skips + 1
    BY <1>2 DEF GivenOn
  <2>3. t + s.skips + faults >= Len(log) /\ b <= a /\ a <= b + faults
    BY <1>1 DEF Counted
  <2>4. d.skips \in Nat /\ t2 + d.skips + f >= t + s.skips + 1
    BY <1>3, <1>4, <2>2
  <2> HIDE DEF a, b, a2, b2, t, t2, f, more
  <2>5. b2 <= a2 /\ a2 <= b2 + (faults + f)
    BY <1>1, <1>6, <2>1, <2>2, <2>3
  <2>6. t2 + d.skips + (faults + f) >= Len(more)
    <3> DEFINE l == Len(log)
               k == s.skips
               k2 == d.skips
    <3>1. /\ t \in Nat /\ t2 \in Nat /\ k \in Nat /\ k2 \in Nat /\ l \in Nat /\ f \in {0, 1}
          /\ faults \in Nat /\ t2 + k2 + f >= t + k + 1 /\ t + k + faults >= l
          /\ Len(more) = l + 1
      BY <1>1, <1>4, <1>6, <1>8, <2>1, <2>3, <2>4
    <3> HIDE DEF l, k, k2
    <3>2. t2 + k2 + (faults + f) >= l + 1
      BY <3>1
    <3> QED
      BY <3>1, <3>2 DEF k2
  <2> QED
    BY <1>3, <2>5, <2>6 DEF Counted, a2, b2, t2
<1>10. Exact(d, more, faults + f)
  <2>1. SUFFICES ASSUME faults = 0, failing = NoFailure, NEW c \in {1, 2}
                 PROVE  ToldAll(Told(d.shown[c]), d, more)
    BY <1>1, <1>6 DEF Exact, Children
  <2> DEFINE t == Told(s.shown[c])
             before == IF s.skips = 0 THEN t ELSE Behind(t, t[Len(t)], s.skips)
  <2>2. ToldAll(t, s, log)
    BY <1>1, <2>1 DEF Exact, Children
  <2>3. t \in Seq(ToldTexts) /\ s.last \in ToldTexts /\ p \in ToldTexts
    BY <1>1, <1>7, SinkFields DEF ShownTexts, ToldTexts
  <2>4. before = log
    <3>1. CASE s.skips = 0
      BY <2>2, <2>3, <3>1, OneMoreTime DEF ToldAll
    <3>2. CASE s.skips # 0
      BY <2>2, <3>2 DEF ToldAll
    <3> QED
      BY <3>1, <3>2
  <2>5. kept /\ Told(given[c]) = Append(before, p)
    BY <1>2, <2>1 DEF GivenOn
  <2>6. Told(d.shown[c]) = more /\ d.last = p /\ d.skips = 0
    BY <1>3, <2>4, <2>5
  <2> HIDE DEF before, t
  <2>7. more \in Seq(ToldTexts) /\ Len(more) # 0 /\ more[Len(more)] = p
    <3>1. log \in Seq(ToldTexts)
      BY <1>1 DEF ToldTexts
    <3> QED
      BY <2>3, <3>1
  <2> HIDE DEF more
  <2>8. Behind(more, p, 0) = more
    BY <2>3, <2>7, OneMoreTime
  <2> QED
    BY <2>6, <2>7, <2>8 DEF ToldAll
<1> QED
  BY <1>3, <1>5, <1>9, <1>10

\* logger::sink_it_ keeps what the sinks promise.
LEMMA SinksTake ==
  ASSUME NEW s, NEW log, NEW faults, SinksInv(s, log, faults), NEW p \in AnyText,
         NEW failing \in SomeFailures
  PROVE  SinksInv(SinkIt(s, p, failing), Append(log, p), faults + Faulty(failing))
<1> DEFINE d == DupFilter(s, p, failing)
           r == PushBack(s.ring, p)
           to == SinkIt(s, p, failing)
           more == Append(log, p)
           f == Faulty(failing)
           S == AnyText \cup {NoItem}
<1>1. /\ d \in SinkStates /\ d.ring = s.ring /\ Exact(d, more, faults + f)
      /\ Counted(d, more, faults + f)
  <2> HIDE DEF d
  <2>1. d = DupFilter(s, p, failing)
    BY DEF d
  <2> QED
    BY <2>1, LeftOut, ShownOn
<1>2. /\ s \in SinkStates /\ log \in Seq(AnyText) /\ faults \in Nat
      /\ HoldsNewest(s.ring, RingSize, log)
  BY DEF SinksInv
<1>3. RingSize \in Nat /\ s.ring \in RingsOf(RingSize, S) /\ log \in Seq(S) /\ p \in S
  <2>1. log \in Seq(S)
    BY <1>2
  <2>2. p \in S /\ RingSize \in Nat
    BY FiltersAssumption
  <2> QED
    BY <1>2, <2>1, <2>2, SinkFields
<1>4. r \in RingsOf(RingSize, S) /\ HoldsNewest(r, RingSize, more)
  <2> HIDE DEF S
  <2> QED
    BY <1>2, <1>3, PushedNewest
<1> HIDE DEF d, r, S
<1>5. to = [d EXCEPT !.ring = r]
  BY DEF SinkIt, d, r
<1>6. d = [last |-> d.last, age |-> d.age, skips |-> d.skips, shown |-> d.shown, ring |-> d.ring]
  BY <1>1, SinkFields
<1>7. to = [last |-> d.last, age |-> d.age, skips |-> d.skips, shown |-> d.shown, ring |-> r]
  BY <1>5, <1>6
<1>8. to \in SinkStates
  BY <1>1, <1>4, <1>7, SinkFields DEF SinkStates, Children, S
<1>9. /\ to.last = d.last /\ to.age = d.age /\ to.skips = d.skips /\ to.shown = d.shown
      /\ to.ring = r
  BY <1>7
<1>10. more \in Seq(AnyText) /\ faults + f \in Nat
  BY <1>2 DEF Faulty
<1> HIDE DEF to, more, f
<1>11. Exact(to, more, faults + f) /\ Counted(to, more, faults + f)
  BY <1>1, <1>9 DEF Exact, Counted, ToldAll
<1>12. SinksInv(to, more, faults + f)
  BY <1>4, <1>8, <1>9, <1>10, <1>11 DEF SinksInv, Exact, Counted
<1> QED
  BY <1>12 DEF to, more, f

-----------------------------------------------------------------------------
(* A dump of the backtrace: every message of it through the sinks, and out  *)
(* of the ring.                                                              *)

\* The sinks as they can be after some log of messages.
SoundSinks(faults) == {s \in SinkStates : \E log \in Seq(AnyText) : SinksInv(s, log, faults)}

\* The sinks after the first k of some messages.
Sinking(s, payloads, f) ==
  f[0] = s /\ \A k \in 1 .. Len(payloads) : f[k] = Sunk(f[k - 1], payloads[k])

LEMMA SunkOne ==
  ASSUME NEW s, NEW log, NEW faults, SinksInv(s, log, faults), NEW p \in AnyText
  PROVE  SinksInv(Sunk(s, p), Append(log, p), faults)
<1>1. NoFailure \in SomeFailures /\ Faulty(NoFailure) = 0
  BY DEF SomeFailures, Faulty
<1>2. SinksInv(SinkIt(s, p, NoFailure), Append(log, p), faults + 0)
  BY <1>1, SinksTake
<1>3. faults + 0 = faults
  BY DEF SinksInv
<1> QED
  BY <1>2, <1>3 DEF Sunk

LEMMA SunkFold ==
  ASSUME NEW faults \in Nat, NEW s \in SoundSinks(faults), NEW payloads \in Seq(AnyText)
  PROVE  \E f \in [0 .. Len(payloads) -> SoundSinks(faults)] :
           Sinking(s, payloads, f) /\ SunkAll(s, payloads) = f[Len(payloads)]
<1> DEFINE n == Len(payloads)
           T == SoundSinks(faults)
           step == [k \in 1 .. n |-> [r \in T |-> Sunk(r, payloads[k])]]
           Folds(g) == g = [t \in SUBSET DOMAIN payloads |->
                              IF t = {} THEN s ELSE Sunk(g[t \ {Max(t)}], payloads[Max(t)])]
           iter == CHOOSE g : Folds(g)
<1>1. SunkAll(s, payloads) = iter[DOMAIN payloads]
  BY DEF SunkAll, FoldLeft, MapThenFoldSet
<1>2. step \in [1 .. n -> [T -> T]]
  <2>1. ASSUME NEW r \in T, NEW k \in 1 .. n PROVE Sunk(r, payloads[k]) \in T
    <3>1. PICK log \in Seq(AnyText) : SinksInv(r, log, faults)
      BY DEF SoundSinks
    <3>2. payloads[k] \in AnyText
      OBVIOUS
    <3>3. SinksInv(Sunk(r, payloads[k]), Append(log, payloads[k]), faults)
      BY <3>1, <3>2, SunkOne
    <3>4. Append(log, payloads[k]) \in Seq(AnyText) /\ Sunk(r, payloads[k]) \in SinkStates
      BY <3>3 DEF SinksInv
    <3> QED
      BY <3>3, <3>4 DEF SoundSinks
  <2> HIDE DEF T
  <2> QED
    BY <2>1
<1>3. s \in T /\ n \in Nat /\ DOMAIN payloads = 1 .. n
  OBVIOUS
<1> HIDE DEF T
<1>4. PICK g \in [SUBSET (1 .. n) -> T] : FoldsUp(n, s, step, g)
  <2> HIDE DEF step, n
  <2> QED
    BY <1>2, <1>3, FoldExists
<1>5. Folds(g)
  <2>1. ASSUME NEW t \in SUBSET (1 .. n), t # {}
        PROVE  g[t] = Sunk(g[t \ {Max(t)}], payloads[Max(t)])
    <3>1. Max(t) \in 1 .. n /\ t \ {Max(t)} \in SUBSET (1 .. n)
      BY <1>3, <2>1, LargestIndex
    <3> QED
      BY <1>4, <2>1, <3>1 DEF FoldsUp
  <2> QED
    BY <1>3, <1>4, <2>1 DEF FoldsUp
<1>6. Folds(iter)
  <2> HIDE DEF Folds
  <2> QED
    BY <1>5
<1> HIDE DEF iter
<1>7. FoldsWithin(n, T, s, step, iter)
  <2>1. ASSUME NEW t \in SUBSET (1 .. n), t # {}, iter[t \ {Max(t)}] \in T
        PROVE  iter[t] = step[Max(t)][iter[t \ {Max(t)}]]
    <3>1. Max(t) \in 1 .. n
      BY <1>3, <2>1, LargestIndex
    <3> QED
      BY <1>3, <1>6, <2>1, <3>1
  <2>2. iter[{}] = s
    BY <1>6
  <2> QED
    BY <2>1, <2>2 DEF FoldsWithin
<1>8. PICK f \in [0 .. n -> T] : RunsThrough(n, s, step, f) /\ iter[1 .. n] = f[n]
  <2> HIDE DEF step, n
  <2>1. RunsTo(n, T, s, step, iter)
    BY <1>2, <1>3, <1>7, FoldRuns
  <2> QED
    BY <2>1 DEF RunsTo
<1>9. ASSUME NEW k \in 1 .. n PROVE f[k] = Sunk(f[k - 1], payloads[k])
  <2>1. f[k - 1] \in T
    BY <1>3
  <2> QED
    BY <1>8, <2>1 DEF RunsThrough
<1>10. Sinking(s, payloads, f)
  BY <1>8, <1>9 DEF RunsThrough, Sinking
<1> USE DEF T
<1> QED
  BY <1>1, <1>3, <1>8, <1>10

AppendsBehind(s, t, x) == s \o Append(t, x) = Append(s \o t, x)

LEMMA AppendBehind ==
  ASSUME NEW S, NEW s \in Seq(S), NEW t \in Seq(S), NEW x \in S
  PROVE  AppendsBehind(s, t, x)
<1> DEFINE w == Append(t, x)
           n == Len(s)
           k == Len(t)
<1>1. /\ n \in Nat /\ k \in Nat /\ w \in Seq(S) /\ Len(w) = k + 1 /\ w[k + 1] = x
      /\ \A i \in 1 .. k : w[i] = t[i]
  OBVIOUS
<1> HIDE DEF w
<1> DEFINE a == s \o w
           b == s \o t
           d == Append(b, x)
<1>2. /\ a \in Seq(S) /\ Len(a) = n + (k + 1)
      /\ \A i \in 1 .. n + (k + 1) : a[i] = IF i <= n THEN s[i] ELSE w[i - n]
  BY <1>1
<1>3. /\ b \in Seq(S) /\ Len(b) = n + k
      /\ \A i \in 1 .. n + k : b[i] = IF i <= n THEN s[i] ELSE t[i - n]
  BY <1>1
<1> HIDE DEF a, b, n, k
<1>4. /\ d \in Seq(S) /\ Len(d) = n + k + 1 /\ d[n + k + 1] = x
      /\ \A i \in 1 .. n + k : d[i] = b[i]
  <2>1. n \in Nat /\ k \in Nat
    BY <1>1
  <2> QED
    BY <1>3, <2>1
<1> HIDE DEF d
<1>5. Len(a) = Len(d)
  BY <1>1, <1>2, <1>4
<1>6. ASSUME NEW i \in 1 .. Len(d) PROVE a[i] = d[i]
  <2>1. CASE i = n + k + 1
    <3>1. i - n = k + 1 /\ i \in 1 .. n + (k + 1) /\ ~(i <= n)
      BY <1>1, <2>1
    <3>2. a[i] = w[i - n] /\ w[i - n] = x
      BY <1>1, <1>2, <3>1
    <3> QED
      BY <1>4, <2>1, <3>2
  <2>2. CASE i # n + k + 1
    <3>1. i \in 1 .. n + k /\ i \in 1 .. n + (k + 1)
      BY <1>1, <1>4, <2>2
    <3>2. CASE i <= n
      BY <1>2, <1>3, <1>4, <3>1, <3>2
    <3>3. CASE ~(i <= n)
      <4>1. i - n \in 1 .. k
        BY <1>1, <3>1, <3>3
      <4> QED
        BY <1>1, <1>2, <1>3, <1>4, <3>1, <3>3, <4>1
    <3> QED
      BY <3>2, <3>3
  <2> QED
    BY <2>1, <2>2
<1>7. a = d
  BY <1>2, <1>4, <1>5, <1>6, SeqEqual
<1> QED
  BY <1>7, Zenon DEF AppendsBehind, a, b, d, w

\* What a log becomes with the first k of some messages more.
Longer(log, payloads, k) == log \o SubSeq(payloads, 1, k)

LEMMA LongerByOne ==
  ASSUME NEW S, NEW log \in Seq(S), NEW payloads \in Seq(S)
  PROVE  /\ Longer(log, payloads, 0) = log
         /\ Longer(log, payloads, Len(payloads)) = log \o payloads
         /\ \A k \in 0 .. Len(payloads) - 1 :
              Longer(log, payloads, k + 1) = Append(Longer(log, payloads, k), payloads[k + 1])
<1> DEFINE n == Len(payloads)
<1>1. n \in Nat /\ \A i \in 1 .. n : payloads[i] \in S
  OBVIOUS
<1>2. ASSUME NEW k \in 0 .. n
      PROVE  /\ SubSeq(payloads, 1, k) \in Seq(S) /\ Len(SubSeq(payloads, 1, k)) = k
             /\ \A i \in 1 .. k : SubSeq(payloads, 1, k)[i] = payloads[i]
  <2>1. \A i \in 1 .. k : payloads[i] \in S
    BY <1>1
  <2>2. 1 \in Int /\ k \in Int /\ (k >= 0)
    BY <1>1
  <2> QED
    BY <1>1, <2>1, <2>2, SubSeqProperties
<1>3. Longer(log, payloads, 0) = log
  <2>1. SubSeq(payloads, 1, 0) = <<>>
    BY <1>1, <1>2
  <2> QED
    BY <2>1 DEF Longer
<1>4. Longer(log, payloads, n) = log \o payloads
  <2>1. SubSeq(payloads, 1, n) = payloads
    BY <1>1, <1>2, SeqEqual
  <2> QED
    BY <2>1 DEF Longer
<1>5. ASSUME NEW k \in 0 .. n - 1
      PROVE  Longer(log, payloads, k + 1) = Append(Longer(log, payloads, k), payloads[k + 1])
  <2> DEFINE u == SubSeq(payloads, 1, k)
             w == SubSeq(payloads, 1, k + 1)
             x == payloads[k + 1]
             l == Len(log)
  <2>1. k \in 0 .. n /\ k + 1 \in 0 .. n /\ x \in S /\ l \in Nat /\ k \in Nat
    BY <1>1
  <2>2. /\ u \in Seq(S) /\ Len(u) = k /\ w \in Seq(S) /\ Len(w) = k + 1
        /\ \A i \in 1 .. k : u[i] = w[i]
        /\ w[k + 1] = x
    BY <1>2, <2>1
  <2> HIDE DEF u, w, x
  <2>3. w = Append(u, x)
    <3> DEFINE a == Append(u, x)
    <3>1. a \in Seq(S) /\ Len(a) = k + 1 /\ a[k + 1] = x /\ \A i \in 1 .. k : a[i] = u[i]
      BY <2>1, <2>2
    <3> HIDE DEF a
    <3>2. \A i \in 1 .. k + 1 : w[i] = a[i]
      BY <2>1, <2>2, <3>1
    <3> QED
      BY <2>2, <3>1, <3>2, SeqEqual DEF a
  <2>4. log \o Append(u, x) = Append(log \o u, x)
    <3>1. u \in Seq(S) /\ x \in S
      BY <2>1, <2>2
    <3>2. AppendsBehind(log, u, x)
      BY <3>1, AppendBehind
    <3> QED
      BY <3>2, Zenon DEF AppendsBehind
  <2> QED
    BY <2>3, <2>4, Zenon DEF Longer, u, w, x
<1> QED
  BY <1>3, <1>4, <1>5

LEMMA AllSunk ==
  ASSUME NEW s, NEW log, NEW faults, SinksInv(s, log, faults), NEW payloads \in Seq(AnyText)
  PROVE  SinksInv(SunkAll(s, payloads), log \o payloads, faults)
<1> DEFINE n == Len(payloads)
<1>1. log \in Seq(AnyText) /\ faults \in Nat /\ s \in SoundSinks(faults) /\ n \in Nat
  BY DEF SinksInv, SoundSinks
<1>2. PICK f \in [0 .. n -> SoundSinks(faults)] :
        Sinking(s, payloads, f) /\ SunkAll(s, payloads) = f[n]
  BY <1>1, SunkFold
<1> DEFINE S == {k \in Nat : k <= n => SinksInv(f[k], Longer(log, payloads, k), faults)}
<1>3. 0 \in S
  <2>1. f[0] = s /\ Longer(log, payloads, 0) = log
    BY <1>1, <1>2, LongerByOne DEF Sinking
  <2> QED
    BY <2>1
<1>4. ASSUME NEW k \in Nat, k \in S PROVE k + 1 \in S
  <2>1. SUFFICES ASSUME k + 1 <= n
                 PROVE  SinksInv(f[k + 1], Longer(log, payloads, k + 1), faults)
    OBVIOUS
  <2>2. k + 1 \in 1 .. n /\ (k + 1) - 1 = k /\ k \in 0 .. n - 1 /\ k <= n
    BY <1>1, <2>1
  <2>3. f[k + 1] = Sunk(f[k], payloads[k + 1])
    BY <1>2, <2>2 DEF Sinking
  <2>4. Longer(log, payloads, k + 1) = Append(Longer(log, payloads, k), payloads[k + 1])
    BY <1>1, <2>2, LongerByOne
  <2>5. SinksInv(f[k], Longer(log, payloads, k), faults) /\ payloads[k + 1] \in AnyText
    BY <1>4, <2>2
  <2> QED
    BY <2>3, <2>4, <2>5, SunkOne
<1>5. n \in S
  <2> HIDE DEF S
  <2> QED
    BY <1>1, <1>3, <1>4, SetInduction
<1>6. SinksInv(f[n], Longer(log, payloads, n), faults)
  BY <1>1, <1>5
<1> QED
  BY <1>1, <1>2, <1>6, LongerByOne

-----------------------------------------------------------------------------
\* The queue after the first k items of it were taken.
Popping(q, m, f) ==
  f[0] = q /\ \A k \in 1 .. m : f[k] = PopFront(f[k - 1])

LEMMA PoppedTyped ==
  ASSUME NEW n \in Nat, NEW S, NEW q \in RingsOf(n, S), NEW p, p = PopFront(q)
  PROVE  /\ p \in RingsOf(n, S)
         /\ Size(q) # 0 => Size(p) = Size(q) - 1
<1> DEFINE h == q.head
           t == q.tail
           next == PlaceOf(n, h, 1)
<1>1. /\ q.max_items = n + 1 /\ h \in 0 .. n /\ t \in 0 .. n
      /\ q.overrun_counter \in Nat /\ q.v \in [0 .. n -> S]
      /\ Size(q) = IF t >= h THEN t - h ELSE n + 1 - (h - t)
      /\ After(q, h) = next
  BY RingOfFields
<1>2. next \in 0 .. n /\ next = IF h + 1 <= n THEN h + 1 ELSE h + 1 - n - 1
  BY <1>1 DEF PlaceOf
<1>3. p = [max_items |-> n + 1, head |-> next, tail |-> t,
           overrun_counter |-> q.overrun_counter, v |-> q.v]
  <2>1. q = [max_items |-> n + 1, head |-> h, tail |-> t,
             overrun_counter |-> q.overrun_counter, v |-> q.v]
    BY <1>1 DEF RingsOf
  <2> HIDE DEF next
  <2> QED
    BY <1>1, <2>1 DEF PopFront
<1>4. p \in RingsOf(n, S)
  <2> HIDE DEF next, h, t
  <2> QED
    BY <1>1, <1>2, <1>3 DEF RingsOf
<1>5. Size(p) = IF t >= next THEN t - next ELSE n + 1 - (next - t)
  <2>1. p.head = next /\ p.tail = t
    BY <1>3
  <2> HIDE DEF next, h, t
  <2> QED
    BY <1>4, <2>1, RingOfFields
<1> DEFINE k == Size(q)
           k2 == Size(p)
<1>6. k # 0 => k2 = k - 1
  <2>1. /\ h \in 0 .. n /\ t \in 0 .. n /\ next = IF h + 1 <= n THEN h + 1 ELSE h + 1 - n - 1
        /\ k = IF t >= h THEN t - h ELSE n + 1 - (h - t)
        /\ k2 = IF t >= next THEN t - next ELSE n + 1 - (next - t)
    BY <1>1, <1>2, <1>5
  <2> HIDE DEF h, t, next, k, k2
  <2> QED
    BY <2>1
<1> QED
  BY <1>4, <1>6

LEMMA PoppedFold ==
  ASSUME NEW n \in Nat, NEW S, NEW q \in RingsOf(n, S), NEW items \in Seq(S),
         items = Contents(q)
  PROVE  \E f \in [0 .. Len(items) -> RingsOf(n, S)] :
           Popping(q, Len(items), f) /\ PoppedAll(q) = f[Len(items)]
<1> DEFINE m == Len(items)
           T == RingsOf(n, S)
           step == [k \in 1 .. m |-> [r \in T |-> PopFront(r)]]
           Folds(g) == g = [t \in SUBSET DOMAIN items |->
                              IF t = {} THEN q ELSE Popped(g[t \ {Max(t)}], items[Max(t)])]
           iter == CHOOSE g : Folds(g)
<1>1. PoppedAll(q) = iter[DOMAIN items]
  BY DEF PoppedAll, FoldLeft, MapThenFoldSet
<1>2. step \in [1 .. m -> [T -> T]]
  <2>1. ASSUME NEW r \in T PROVE PopFront(r) \in T
    BY PoppedTyped
  <2> HIDE DEF T
  <2> QED
    BY <2>1
<1>3. q \in T /\ m \in Nat /\ DOMAIN items = 1 .. m
  OBVIOUS
<1> HIDE DEF T
<1>4. PICK g \in [SUBSET (1 .. m) -> T] : FoldsUp(m, q, step, g)
  <2> HIDE DEF step, m
  <2> QED
    BY <1>2, <1>3, FoldExists
<1>5. Folds(g)
  <2>1. ASSUME NEW t \in SUBSET (1 .. m), t # {}
        PROVE  g[t] = Popped(g[t \ {Max(t)}], items[Max(t)])
    <3>1. Max(t) \in 1 .. m /\ t \ {Max(t)} \in SUBSET (1 .. m)
      BY <1>3, <2>1, LargestIndex
    <3> QED
      BY <1>4, <2>1, <3>1 DEF FoldsUp, Popped
  <2> QED
    BY <1>3, <1>4, <2>1 DEF FoldsUp
<1>6. Folds(iter)
  <2> HIDE DEF Folds
  <2> QED
    BY <1>5
<1> HIDE DEF iter
<1>7. FoldsWithin(m, T, q, step, iter)
  <2>1. ASSUME NEW t \in SUBSET (1 .. m), t # {}, iter[t \ {Max(t)}] \in T
        PROVE  iter[t] = step[Max(t)][iter[t \ {Max(t)}]]
    <3>1. Max(t) \in 1 .. m
      BY <1>3, <2>1, LargestIndex
    <3> QED
      BY <1>3, <1>6, <2>1, <3>1 DEF Popped
  <2>2. iter[{}] = q
    BY <1>6
  <2> QED
    BY <2>1, <2>2 DEF FoldsWithin
<1>8. PICK f \in [0 .. m -> T] : RunsThrough(m, q, step, f) /\ iter[1 .. m] = f[m]
  <2> HIDE DEF step, m
  <2>1. RunsTo(m, T, q, step, iter)
    BY <1>2, <1>3, <1>7, FoldRuns
  <2> QED
    BY <2>1 DEF RunsTo
<1>9. ASSUME NEW k \in 1 .. m PROVE f[k] = PopFront(f[k - 1])
  <2>1. f[k - 1] \in T
    BY <1>3
  <2> QED
    BY <1>8, <2>1 DEF RunsThrough
<1>10. Popping(q, m, f)
  BY <1>8, <1>9 DEF RunsThrough, Popping
<1> USE DEF T
<1> QED
  BY <1>1, <1>3, <1>8, <1>10

\* A dump leaves the ring empty.
LEMMA AllPopped ==
  ASSUME NEW n \in Nat, NEW S, NEW q \in RingsOf(n, S), Contents(q) \in Seq(S)
  PROVE  /\ PoppedAll(q) \in RingsOf(n, S)
         /\ HoldsNewest(PoppedAll(q), n, <<>>)
<1> DEFINE items == Contents(q)
           m == Len(items)
<1>1. m = Size(q) /\ Size(q) \in 0 .. n
  <2>1. Size(q) \in 0 .. n
    BY RingOfFields
  <2> QED
    BY <2>1 DEF Contents
<1>2. PICK f \in [0 .. m -> RingsOf(n, S)] : Popping(q, m, f) /\ PoppedAll(q) = f[m]
  <2>1. items \in Seq(S)
    OBVIOUS
  <2> HIDE DEF items
  <2> QED
    BY <2>1, PoppedFold DEF items
<1> HIDE DEF items
<1> DEFINE I == {k \in Nat : k <= m => Size(f[k]) = m - k}
<1>3. 0 \in I
  BY <1>1, <1>2 DEF Popping
<1>4. ASSUME NEW k \in Nat, k \in I PROVE k + 1 \in I
  <2>1. SUFFICES ASSUME k + 1 <= m PROVE Size(f[k + 1]) = m - (k + 1)
    OBVIOUS
  <2>2. k + 1 \in 1 .. m /\ (k + 1) - 1 = k /\ k \in 0 .. m /\ Size(f[k]) = m - k
    BY <1>1, <1>4, <2>1
  <2>3. f[k + 1] = PopFront(f[k]) /\ f[k] \in RingsOf(n, S)
    BY <1>2, <2>2 DEF Popping
  <2>4. Size(f[k]) # 0
    BY <1>1, <2>1, <2>2
  <2>5. Size(f[k + 1]) = Size(f[k]) - 1
    BY <2>3, <2>4, PoppedTyped
  <2> HIDE DEF m
  <2> QED
    BY <1>1, <2>2, <2>5
<1>5. m \in Nat
  BY <1>1
<1>6. m \in I
  <2> HIDE DEF I, m
  <2> QED
    BY <1>3, <1>4, <1>5, SetInduction
<1>7. Size(PoppedAll(q)) = 0 /\ PoppedAll(q) \in RingsOf(n, S)
  BY <1>2, <1>5, <1>6
<1> QED
  BY <1>7 DEF HoldsNewest, Fewer

-----------------------------------------------------------------------------
\* The ring of the backtrace holds the newest messages; there is none before the
\* backtrace is first enabled.
Traces(on, q, kept) ==
  /\ on \in BOOLEAN /\ kept \in Seq(AnyText)
  /\ \/ q = DisabledQueue /\ ~on /\ kept = <<>>
     \/ \E n \in Nat : q \in RingsOf(n, AnyText \cup {NoItem}) /\ HoldsNewest(q, n, kept)

FiltersInv == SinksInv(Sinks, sunk, thrown) /\ Traces(tracerOn, messages_, traced)

LEMMA FiltersStart == FiltersInit => FiltersInv
<1> SUFFICES ASSUME FiltersInit PROVE FiltersInv
  OBVIOUS
<1> DEFINE S == AnyText \cup {NoItem}
<1>1. /\ Sinks = [last |-> NoPayload, age |-> MaxSkip + 1, skips |-> 0,
                  shown |-> [c \in Children |-> <<>>], ring |-> NewQueue(RingSize)]
      /\ thrown = 0 /\ sunk = <<>>
  BY DEF FiltersInit, Sinks
<1> DEFINE s == Sinks
<1>2. /\ NewQueue(RingSize) \in RingsOf(RingSize, S)
      /\ HoldsNewest(NewQueue(RingSize), RingSize, <<>>)
  BY FiltersAssumption, NewRing
<1>3. /\ s.last = NoPayload /\ s.age = MaxSkip + 1 /\ s.skips = 0 /\ s.ring = NewQueue(RingSize)
      /\ s.shown = [c \in Children |-> <<>>] /\ \A c \in Children : s.shown[c] = <<>>
  BY <1>1
<1>4. s \in SinkStates
  <2>1. NoPayload \in AnyText /\ MaxSkip + 1 \in Nat
    BY FiltersAssumption DEF AnyText
  <2>2. [c \in Children |-> <<>>] \in [Children -> Seq(Items)]
    OBVIOUS
  <2> QED
    BY <1>1, <1>2, <2>1, <2>2 DEF SinkStates
<1> HIDE DEF s
<1>5. \A c \in {1, 2} : s.shown[c] = <<>> /\ Told(s.shown[c]) = <<>>
  BY <1>3, ToldTyped DEF Children
<1>6. ASSUME NEW c \in Children PROVE ToldAll(Told(s.shown[c]), s, <<>>)
  <2>1. Told(s.shown[c]) = <<>>
    BY <1>5 DEF Children
  <2>2. Behind(<<>>, s.last, 0) = <<>>
    <3>1. <<>> \in Seq(AnyText) /\ s.last \in AnyText
      BY <1>3 DEF AnyText
    <3> QED
      BY <3>1, OneMoreTime
  <2>3. ~(s.age <= MaxSkip)
    BY <1>3, FiltersAssumption
  <2> QED
    BY <1>3, <2>1, <2>2, <2>3 DEF ToldAll
<1>7. SinksInv(s, <<>>, 0)
  <2>1. Len(Told(s.shown[1])) = 0 /\ Len(s.shown[1]) = 0 /\ Len(s.shown[2]) = 0
    BY <1>5
  <2>2. <<>> \in Seq(AnyText) /\ Len(<<>>) = 0
    OBVIOUS
  <2> QED
    BY <1>2, <1>3, <1>4, <1>6, <2>1, <2>2 DEF SinksInv
<1>8. Traces(tracerOn, messages_, traced)
  <2>1. tracerOn = FALSE /\ messages_ = DisabledQueue /\ traced = <<>> /\ <<>> \in Seq(AnyText)
    BY DEF FiltersInit
  <2> QED
    BY <2>1 DEF Traces
<1> QED
  BY <1>1, <1>7, <1>8 DEF FiltersInv, s

LEMMA SinksAre ==
  ASSUME NEW s \in SinkStates, SinksBecome(s)
  PROVE  Sinks' = s
BY SinkFields DEF SinksBecome, Sinks

\* Time that passes only makes the last message older.
LEMMA SinksAge ==
  ASSUME NEW s, NEW log, NEW faults, SinksInv(s, log, faults), NEW age \in Nat,
         age <= MaxSkip => s.age <= MaxSkip, NEW r, r = [s EXCEPT !.age = age]
  PROVE  SinksInv(r, log, faults)
<1>1. s \in SinkStates
  BY DEF SinksInv
<1>2. s = [last |-> s.last, age |-> s.age, skips |-> s.skips, shown |-> s.shown, ring |-> s.ring]
  BY <1>1, SinkFields
<1>3. r = [last |-> s.last, age |-> age, skips |-> s.skips, shown |-> s.shown, ring |-> s.ring]
  BY <1>2
<1>4. r \in SinkStates
  BY <1>1, <1>3, SinkFields DEF SinkStates, Children
<1>5. /\ r.last = s.last /\ r.age = age /\ r.skips = s.skips /\ r.shown = s.shown
      /\ r.ring = s.ring
  BY <1>3
<1>6. \A t : ToldAll(t, s, log) => ToldAll(t, r, log)
  BY <1>5 DEF ToldAll
<1> QED
  BY <1>4, <1>5, <1>6 DEF SinksInv

LEMMA LogItKeeps ==
  ASSUME FiltersInv, LogIt
  PROVE  FiltersInv'
<1>1. PICK p \in Payloads, enabled \in BOOLEAN, failing \in Failures, time \in {0, MaxSkip + 1} :
        /\ ~enabled => failing = NoFailure
        /\ thrown' = IF failing = NoFailure THEN thrown ELSE thrown + 1
        /\ LET now == [Sinks EXCEPT !.age = IF last_msg_age + time > MaxSkip THEN MaxSkip + 1
                                            ELSE last_msg_age + time]
           IN  SinksBecome(IF enabled THEN SinkIt(now, p, failing) ELSE now)
        /\ sunk' = IF enabled THEN Append(sunk, p) ELSE sunk
        /\ messages_' = IF tracerOn THEN PushBack(messages_, p) ELSE messages_
        /\ traced' = IF tracerOn THEN Append(traced, p) ELSE traced
  BY Zenon DEF LogIt
<1>2. tracerOn' = tracerOn
  BY DEF LogIt
<1> DEFINE age == IF last_msg_age + time > MaxSkip THEN MaxSkip + 1 ELSE last_msg_age + time
           now == [Sinks EXCEPT !.age = age]
           S == AnyText \cup {NoItem}
<1>3. p \in AnyText /\ failing \in SomeFailures /\ MaxSkip \in Nat
  BY FiltersAssumption DEF AnyText, Failures, SomeFailures
<1>4. SinksInv(now, sunk, thrown)
  <2>1. SinksInv(Sinks, sunk, thrown) /\ Sinks.age = last_msg_age
    BY DEF FiltersInv, Sinks
  <2>2. last_msg_age \in Nat /\ time \in Nat
    BY <1>3, <2>1, SinkFields DEF SinksInv
  <2>3. age \in Nat /\ (age <= MaxSkip => last_msg_age <= MaxSkip)
    BY <1>3, <2>2
  <2> HIDE DEF age
  <2> QED
    BY <2>1, <2>3, SinksAge
<1>5. SinksBecome(IF enabled THEN SinkIt(now, p, failing) ELSE now)
  BY <1>1
<1> HIDE DEF now, age
<1>6. thrown \in Nat /\ thrown' = thrown + Faulty(failing)
  BY <1>1, <1>4 DEF SinksInv, Faulty
<1>7. SinksInv(Sinks', sunk', thrown')
  <2>1. CASE enabled
    <3>1. SinksInv(SinkIt(now, p, failing), Append(sunk, p), thrown + Faulty(failing))
      BY <1>3, <1>4, SinksTake
    <3>2. SinkIt(now, p, failing) \in SinkStates
      BY <3>1 DEF SinksInv
    <3>3. Sinks' = SinkIt(now, p, failing)
      BY <1>5, <2>1, <3>2, SinksAre
    <3> QED
      BY <1>1, <1>6, <2>1, <3>1, <3>3
  <2>2. CASE ~enabled
    <3>1. now \in SinkStates
      BY <1>4 DEF SinksInv
    <3>2. Sinks' = now
      BY <1>5, <2>2, <3>1, SinksAre
    <3>3. thrown' = thrown /\ sunk' = sunk
      BY <1>1, <2>2
    <3> QED
      BY <1>4, <3>2, <3>3
  <2> QED
    BY <2>1, <2>2
<1>8. Traces(tracerOn', messages_', traced')
  <2>1. Traces(tracerOn, messages_, traced)
    BY DEF FiltersInv
  <2>2. CASE tracerOn
    <3>1. PICK n \in Nat : messages_ \in RingsOf(n, S) /\ HoldsNewest(messages_, n, traced)
      BY <2>1, <2>2 DEF Traces
    <3>2. traced \in Seq(AnyText) /\ traced \in Seq(S) /\ p \in S /\ Append(traced, p) \in Seq(AnyText)
      <4>1. traced \in Seq(AnyText)
        BY <2>1 DEF Traces
      <4> QED
        BY <1>3, <4>1
    <3>3. messages_' = PushBack(messages_, p) /\ traced' = Append(traced, p) /\ tracerOn' = tracerOn
      BY <1>1, <1>2, <2>2
    <3> HIDE DEF S
    <3>4. messages_' \in RingsOf(n, S) /\ HoldsNewest(messages_', n, Append(traced, p))
      BY <3>1, <3>2, <3>3, PushedNewest
    <3> QED
      BY <2>2, <3>2, <3>3, <3>4 DEF Traces, S
  <2>3. CASE ~tracerOn
    <3>1. messages_' = messages_ /\ traced' = traced /\ tracerOn' = tracerOn
      BY <1>1, <1>2, <2>3
    <3> QED
      BY <2>1, <3>1
  <2> QED
    BY <2>1, <2>2, <2>3 DEF Traces
<1> QED
  BY <1>7, <1>8 DEF FiltersInv

LEMMA EnableKeeps ==
  ASSUME FiltersInv, EnableBacktrace \/ DisableBacktrace
  PROVE  FiltersInv'
<1>1. Sinks' = Sinks /\ sunk' = sunk /\ thrown' = thrown
  BY DEF EnableBacktrace, DisableBacktrace, Sinks
<1>2. SinksInv(Sinks', sunk', thrown')
  BY <1>1 DEF FiltersInv
<1>3. Traces(tracerOn', messages_', traced')
  <2>1. CASE EnableBacktrace
    <3>1. PICK n \in TraceSizes : messages_' = NewQueue(n)
      BY <2>1 DEF EnableBacktrace
    <3>2. n \in Nat /\ tracerOn' = TRUE /\ traced' = <<>> /\ <<>> \in Seq(AnyText)
      BY <2>1, FiltersAssumption DEF EnableBacktrace
    <3> DEFINE S == AnyText \cup {NoItem}
    <3>3. NoItem \in S
      OBVIOUS
    <3> HIDE DEF S
    <3>4. NewQueue(n) \in RingsOf(n, S) /\ HoldsNewest(NewQueue(n), n, <<>>)
      BY <3>2, <3>3, NewRing
    <3> QED
      BY <3>1, <3>2, <3>4 DEF Traces, S
  <2>2. CASE DisableBacktrace
    <3>1. tracerOn' = FALSE /\ messages_' = messages_ /\ traced' = traced
      BY <2>2 DEF DisableBacktrace
    <3> QED
      BY <3>1 DEF FiltersInv, Traces
  <2> QED
    BY <2>1, <2>2
<1> QED
  BY <1>2, <1>3 DEF FiltersInv

LEMMA DumpKeeps ==
  ASSUME FiltersInv, DumpBacktrace
  PROVE  FiltersInv'
<1> DEFINE S == AnyText \cup {NoItem}
           dumped == <<Markers[1]>> \o Contents(messages_) \o <<Markers[2]>>
<1>1. /\ tracerOn /\ SinksBecome(SunkAll(Sinks, dumped)) /\ sunk' = sunk \o dumped
      /\ messages_' = PoppedAll(messages_) /\ traced' = <<>>
      /\ tracerOn' = tracerOn /\ thrown' = thrown
  BY DEF DumpBacktrace
<1>2. SinksInv(Sinks, sunk, thrown) /\ Traces(tracerOn, messages_, traced)
  BY DEF FiltersInv
<1>3. PICK n \in Nat : messages_ \in RingsOf(n, S) /\ HoldsNewest(messages_, n, traced)
  BY <1>1, <1>2 DEF Traces
<1>4. Contents(messages_) \in Seq(AnyText)
  <2>1. traced \in Seq(AnyText)
    BY <1>2 DEF Traces
  <2> HIDE DEF S
  <2> QED
    BY <1>3, <2>1, ContentsAreNewest
<1>5. Contents(messages_) \in Seq(S)
  BY <1>4
<1>6. dumped \in Seq(AnyText)
  <2>1. Markers[1] \in AnyText /\ Markers[2] \in AnyText
    BY DEF AnyText
  <2> DEFINE a == <<Markers[1]>>
             b == <<Markers[2]>>
  <2>2. a \in Seq(AnyText) /\ b \in Seq(AnyText)
    BY <2>1
  <2> HIDE DEF a, b
  <2>3. a \o Contents(messages_) \o b \in Seq(AnyText)
    BY <1>4, <2>2
  <2> QED
    BY <2>3 DEF a, b
<1> HIDE DEF dumped
<1>7. SinksInv(SunkAll(Sinks, dumped), sunk \o dumped, thrown)
  BY <1>2, <1>6, AllSunk
<1>8. Sinks' = SunkAll(Sinks, dumped)
  <2>1. SunkAll(Sinks, dumped) \in SinkStates
    BY <1>7 DEF SinksInv
  <2> QED
    BY <1>1, <2>1, SinksAre
<1>9. SinksInv(Sinks', sunk', thrown')
  BY <1>1, <1>7, <1>8
<1>10. Traces(tracerOn', messages_', traced')
  <2>1. messages_' \in RingsOf(n, S) /\ HoldsNewest(messages_', n, <<>>)
    <3> HIDE DEF S
    <3> QED
      BY <1>1, <1>3, <1>5, AllPopped
  <2>2. tracerOn' \in BOOLEAN /\ <<>> \in Seq(AnyText)
    BY <1>1, <1>2 DEF Traces
  <2> HIDE DEF S
  <2> QED
    BY <1>1, <2>1, <2>2 DEF Traces, S
<1> QED
  BY <1>9, <1>10 DEF FiltersInv

LEMMA FiltersKeep ==
  ASSUME FiltersInv, FilterStep \/ UNCHANGED filterVars
  PROVE  FiltersInv'
<1>1. CASE LogIt
  BY <1>1, LogItKeeps
<1>2. CASE EnableBacktrace \/ DisableBacktrace
  BY <1>2, EnableKeeps
<1>3. CASE DumpBacktrace
  BY <1>3, DumpKeeps
<1>4. CASE UNCHANGED filterVars
  <2>1. /\ Sinks' = Sinks /\ sunk' = sunk /\ thrown' = thrown /\ tracerOn' = tracerOn
        /\ messages_' = messages_ /\ traced' = traced
    BY <1>4 DEF filterVars, Sinks
  <2> QED
    BY <2>1 DEF FiltersInv
<1> QED
  BY <1>1, <1>2, <1>3, <1>4 DEF FilterStep

LEMMA FiltersTurn == [Next]_vars => FilterStep \/ UNCHANGED filterVars
BY DEF Next, LogRuns, PatternRuns, SinksRun, FiltersRun, FormatStringRuns, NumbersRun, vars,
       OtherThanLog

LEMMA InvLosesNothing == FiltersInv => FiltersLoseNothing
<1> SUFFICES ASSUME FiltersInv PROVE FiltersLoseNothing
  OBVIOUS
<1> DEFINE s == Sinks
<1>1. SinksInv(s, sunk, thrown) /\ Traces(tracerOn, messages_, traced)
  BY DEF FiltersInv
<1>2. /\ s.last = last_msg_payload_ /\ s.skips = skip_counter_ /\ s.shown = shown /\ s.ring = ring
  BY DEF Sinks
<1> HIDE DEF s
<1>3. thrown = 0 => \A c \in Children : Told(shown[c]) \o Skipping = sunk
  <2>1. SUFFICES ASSUME thrown = 0, NEW c \in Children PROVE Told(shown[c]) \o Skipping = sunk
    OBVIOUS
  <2>2. Behind(Told(shown[c]), last_msg_payload_, skip_counter_) = sunk
    BY <1>1, <1>2, <2>1 DEF SinksInv, ToldAll
  <2>3. Skipping = Repeated(last_msg_payload_, skip_counter_)
    BY DEF Skipping, Repeated
  <2> QED
    BY <2>2, <2>3, Zenon DEF Behind
<1>4. /\ Len(Told(shown[1])) + skip_counter_ + thrown >= Len(sunk)
      /\ Len(shown[2]) <= Len(shown[1]) /\ Len(shown[1]) <= Len(shown[2]) + thrown
  BY <1>1, <1>2 DEF SinksInv
<1>5. Contents(ring) = Newest(sunk, RingSize)
  <2>1. /\ ring \in RingsOf(RingSize, AnyText \cup {NoItem}) /\ sunk \in Seq(AnyText)
        /\ HoldsNewest(ring, RingSize, sunk)
    BY <1>1, <1>2, SinkFields DEF SinksInv
  <2> QED
    BY <2>1, FiltersAssumption, ContentsAreNewest
<1>6. Contents(messages_) = Newest(traced, IF messages_.max_items = 0 THEN 0
                                           ELSE messages_.max_items - 1)
  <2>1. CASE messages_ = DisabledQueue /\ traced = <<>>
    <3>1. messages_.max_items = 0 /\ Size(messages_) = 0
      BY <2>1 DEF DisabledQueue, Size
    <3>2. Contents(messages_) = <<>>
      BY <3>1 DEF Contents
    <3>3. Newest(<<>>, 0) = <<>>
      BY DEF Newest
    <3> QED
      BY <2>1, <3>1, <3>2, <3>3
  <2>2. ASSUME NEW n \in Nat, messages_ \in RingsOf(n, AnyText \cup {NoItem}),
               HoldsNewest(messages_, n, traced)
        PROVE  Contents(messages_) = Newest(traced, IF messages_.max_items = 0 THEN 0
                                                    ELSE messages_.max_items - 1)
    <3>1. messages_.max_items = n + 1
      BY <2>2, RingOfFields
    <3>2. Contents(messages_) = Newest(traced, n)
      <4>1. traced \in Seq(AnyText)
        BY <1>1 DEF Traces
      <4> QED
        BY <2>2, <4>1, ContentsAreNewest
    <3>3. (IF messages_.max_items = 0 THEN 0 ELSE messages_.max_items - 1) = n
      BY <3>1
    <3> QED
      BY <3>2, <3>3
  <2> QED
    BY <1>1, <2>1, <2>2 DEF Traces
<1> QED
  BY <1>3, <1>4, <1>5, <1>6 DEF FiltersLoseNothing

(***************************************************************************)
(* dup_filter_sink, dist_sink, ringbuffer_sink and backtracer lose no      *)
(* message: as long as no sink throws, what a sink printed and what is     *)
(* counted as duplicates are what the logger was given, in its order; and  *)
(* each ring holds the newest messages, for every size of the rings.       *)
(***************************************************************************)
THEOREM FiltersKeepEverything == Spec => []FiltersLoseNothing
<1>1. Init => FiltersInv
  BY FiltersStart DEF Init
<1>2. FiltersInv /\ [Next]_vars => FiltersInv'
  BY FiltersTurn, FiltersKeep
<1> QED
  BY <1>1, <1>2, InvLosesNothing, PTL DEF Spec

-----------------------------------------------------------------------------
(* The records of a file.                                                   *)

HIDE FiltersAssumption

\* What is logged: a record with its number, its time and its size.
Records == [number : Nat, time : Nat, size : RecordSizes]

\* The sizes of the first k records together.
Sizes(records, f) ==
  f[0] = 0 /\ \A k \in 1 .. Len(records) : f[k] = WithSize(f[k - 1], records[k])

LEMMA RecordFields ==
  ASSUME NEW r \in Records
  PROVE  r.number \in Nat /\ r.time \in Nat /\ r.size \in Nat \ {0}
BY FileSinksAssumption DEF Records

LEMMA SizeFold ==
  ASSUME NEW records \in Seq(Records)
  PROVE  \E f \in [0 .. Len(records) -> Nat] :
           Sizes(records, f) /\ SizeOf(records) = f[Len(records)]
<1> DEFINE n == Len(records)
           step == [k \in 1 .. n |-> [t \in Nat |-> WithSize(t, records[k])]]
           Folds(g) == g = [t \in SUBSET DOMAIN records |->
                              IF t = {} THEN 0
                              ELSE WithSize(g[t \ {Max(t)}], records[Max(t)])]
           iter == CHOOSE g : Folds(g)
<1>1. SizeOf(records) = iter[DOMAIN records]
  BY DEF SizeOf, FoldLeft, MapThenFoldSet
<1>2. step \in [1 .. n -> [Nat -> Nat]]
  <2>1. ASSUME NEW t \in Nat, NEW k \in 1 .. n PROVE WithSize(t, records[k]) \in Nat
    <3>1. records[k] \in Records
      OBVIOUS
    <3> QED
      BY <3>1, RecordFields DEF WithSize
  <2> QED
    BY <2>1
<1>3. n \in Nat /\ DOMAIN records = 1 .. n
  OBVIOUS
<1>4. PICK g \in [SUBSET (1 .. n) -> Nat] : FoldsUp(n, 0, step, g)
  <2> HIDE DEF step, n
  <2>1. 0 \in Nat
    OBVIOUS
  <2> QED
    BY <1>2, <1>3, <2>1, FoldExists
<1>5. Folds(g)
  <2>1. ASSUME NEW t \in SUBSET (1 .. n), t # {}
        PROVE  g[t] = WithSize(g[t \ {Max(t)}], records[Max(t)])
    <3>1. Max(t) \in 1 .. n /\ t \ {Max(t)} \in SUBSET (1 .. n)
      BY <1>3, <2>1, LargestIndex
    <3> QED
      BY <1>4, <2>1, <3>1 DEF FoldsUp
  <2> QED
    BY <1>3, <1>4, <2>1 DEF FoldsUp
<1>6. Folds(iter)
  <2> HIDE DEF Folds
  <2> QED
    BY <1>5
<1> HIDE DEF iter
<1>7. FoldsWithin(n, Nat, 0, step, iter)
  <2>1. ASSUME NEW t \in SUBSET (1 .. n), t # {}, iter[t \ {Max(t)}] \in Nat
        PROVE  iter[t] = step[Max(t)][iter[t \ {Max(t)}]]
    <3>1. Max(t) \in 1 .. n
      BY <1>3, <2>1, LargestIndex
    <3> QED
      BY <1>3, <1>6, <2>1, <3>1
  <2>2. iter[{}] = 0
    BY <1>6
  <2> QED
    BY <2>1, <2>2 DEF FoldsWithin
<1>8. PICK f \in [0 .. n -> Nat] : RunsThrough(n, 0, step, f) /\ iter[1 .. n] = f[n]
  <2> HIDE DEF step, n
  <2>1. 0 \in Nat
    OBVIOUS
  <2>2. RunsTo(n, Nat, 0, step, iter)
    BY <1>2, <1>3, <1>7, <2>1, FoldRuns
  <2> QED
    BY <2>2 DEF RunsTo
<1>9. ASSUME NEW k \in 1 .. n PROVE f[k] = WithSize(f[k - 1], records[k])
  <2>1. f[k - 1] \in Nat
    BY <1>3
  <2> QED
    BY <1>8, <2>1 DEF RunsThrough
<1>10. Sizes(records, f)
  BY <1>8, <1>9 DEF RunsThrough, Sizes
<1> QED
  BY <1>1, <1>3, <1>8, <1>10

\* A file's size: of none, of one more.
LEMMA SizeTyped ==
  /\ SizeOf(<<>>) = 0
  /\ \A records \in Seq(Records) : SizeOf(records) \in Nat
<1>1. ASSUME NEW records \in Seq(Records)
      PROVE  SizeOf(records) \in Nat /\ (Len(records) = 0 => SizeOf(records) = 0)
  BY SizeFold DEF Sizes
<1>2. <<>> \in Seq(Records) /\ Len(<<>>) = 0
  OBVIOUS
<1> QED
  BY <1>1, <1>2

LEMMA SizeMore ==
  ASSUME NEW records \in Seq(Records), NEW r \in Records
  PROVE  SizeOf(Append(records, r)) = SizeOf(records) + r.size
<1> DEFINE n == Len(records)
           more == Append(records, r)
<1>1. PICK f \in [0 .. n -> Nat] : Sizes(records, f) /\ SizeOf(records) = f[n]
  BY SizeFold
<1>2. more \in Seq(Records) /\ Len(more) = n + 1 /\ more[n + 1] = r
      /\ \A i \in 1 .. n : more[i] = records[i]
  OBVIOUS
<1>3. PICK g \in [0 .. n + 1 -> Nat] : Sizes(more, g) /\ SizeOf(more) = g[n + 1]
  <2> HIDE DEF more, n
  <2> QED
    BY <1>2, SizeFold
<1> HIDE DEF more
<1> DEFINE S == {k \in Nat : k <= n => g[k] = f[k]}
<1>4. 0 \in S
  BY <1>1, <1>3 DEF Sizes
<1>5. ASSUME NEW k \in Nat, k \in S PROVE k + 1 \in S
  <2>1. SUFFICES ASSUME k + 1 <= n PROVE g[k + 1] = f[k + 1]
    OBVIOUS
  <2>2. k + 1 \in 1 .. n /\ k + 1 \in 1 .. n + 1 /\ (k + 1) - 1 = k
    BY <2>1
  <2>3. f[k + 1] = WithSize(f[k], records[k + 1]) /\ g[k + 1] = WithSize(g[k], more[k + 1])
    BY <1>1, <1>2, <1>3, <2>2 DEF Sizes
  <2> QED
    BY <1>2, <1>5, <2>1, <2>2, <2>3
<1>6. n \in Nat
  OBVIOUS
<1>7. g[n] = f[n]
  <2> HIDE DEF S
  <2>1. n \in S
    BY <1>4, <1>5, <1>6, SetInduction
  <2> QED
    BY <2>1 DEF S
<1>8. g[n + 1] = WithSize(g[n], r)
  <2>1. n + 1 \in 1 .. Len(more) /\ (n + 1) - 1 = n
    BY <1>2, <1>6
  <2> QED
    BY <1>2, <1>3, <2>1 DEF Sizes
<1> QED
  BY <1>1, <1>3, <1>7, <1>8 DEF more, WithSize

\* The numbers of a file: of none, of one more.
LEMMA NumbersOf ==
  /\ Numbers(<<>>) = {} /\ Increasing(<<>>)
  /\ \A records \in Seq(Records) : Numbers(records) \subseteq Nat
<1>1. ASSUME NEW records \in Seq(Records) PROVE Numbers(records) \subseteq Nat
  <2>1. \A i \in DOMAIN records : records[i] \in Records
    OBVIOUS
  <2> QED
    BY <2>1, RecordFields DEF Numbers, Range
<1>2. Numbers(<<>>) = {}
  BY DEF Numbers, Range
<1>3. Increasing(<<>>)
  BY DEF Increasing
<1> QED
  BY <1>1, <1>2, <1>3

LEMMA NumbersMore ==
  ASSUME NEW records \in Seq(Records), NEW r \in Records
  PROVE  /\ Numbers(Append(records, r)) = Numbers(records) \cup {r.number}
         /\ (Increasing(records) /\ \A x \in Numbers(records) : x < r.number)
              => Increasing(Append(records, r))
<1> DEFINE n == Len(records)
           more == Append(records, r)
<1>1. /\ more \in Seq(Records) /\ Len(more) = n + 1 /\ more[n + 1] = r /\ n \in Nat
      /\ \A i \in 1 .. n : more[i] = records[i]
      /\ DOMAIN more = 1 .. n + 1 /\ DOMAIN records = 1 .. n
  OBVIOUS
<1> HIDE DEF more, n
<1>2. ASSUME NEW x PROVE x \in Numbers(more) <=> x \in Numbers(records) \cup {r.number}
  <2>1. x \in Numbers(more) <=> \E i \in 1 .. n + 1 : x = more[i].number
    BY <1>1 DEF Numbers, Range
  <2>2. x \in Numbers(records) <=> \E i \in 1 .. n : x = records[i].number
    BY <1>1 DEF Numbers, Range
  <2>3. 1 .. n + 1 = (1 .. n) \cup {n + 1}
    BY <1>1
  <2> QED
    BY <1>1, <2>1, <2>2, <2>3
<1>3. ASSUME Increasing(records), \A x \in Numbers(records) : x < r.number
      PROVE  Increasing(more)
  <2>1. SUFFICES ASSUME NEW i \in 1 .. n + 1, NEW j \in 1 .. n + 1, i < j
                 PROVE  more[i].number < more[j].number
    BY <1>1 DEF Increasing
  <2>2. i \in 1 .. n
    BY <1>1, <2>1
  <2>3. CASE j \in 1 .. n
    BY <1>1, <1>3, <2>1, <2>2, <2>3 DEF Increasing
  <2>4. CASE j = n + 1
    <3>1. records[i].number \in Numbers(records)
      BY <1>1, <2>2 DEF Numbers, Range
    <3> QED
      BY <1>1, <1>3, <2>2, <2>4, <3>1
  <2> QED
    BY <1>1, <2>3, <2>4
<1> QED
  BY <1>2, <1>3 DEF more

-----------------------------------------------------------------------------
\* The files there may be.
FileSets == UNION {[D -> Seq(Records)] : D \in SUBSET Nat}

LEMMA FileSetIs ==
  ASSUME NEW fs
  PROVE  fs \in FileSets <=>
           /\ fs = [n \in DOMAIN fs |-> fs[n]]
           /\ DOMAIN fs \subseteq Nat
           /\ \A n \in DOMAIN fs : fs[n] \in Seq(Records)
<1>1. ASSUME fs \in FileSets
      PROVE  /\ fs = [n \in DOMAIN fs |-> fs[n]]
             /\ DOMAIN fs \subseteq Nat
             /\ \A n \in DOMAIN fs : fs[n] \in Seq(Records)
  <2> DEFINE R == Seq(Records)
  <2> HIDE DEF R
  <2>1. PICK D \in SUBSET Nat : fs \in [D -> R]
    BY <1>1 DEF FileSets, R
  <2> QED
    BY <2>1 DEF R
<1>2. ASSUME fs = [n \in DOMAIN fs |-> fs[n]], DOMAIN fs \subseteq Nat,
             \A n \in DOMAIN fs : fs[n] \in Seq(Records)
      PROVE  fs \in FileSets
  <2> DEFINE R == Seq(Records)
             D == DOMAIN fs
  <2>1. fs \in [D -> R] /\ D \in SUBSET Nat
    <3> HIDE DEF R
    <3> QED
      BY <1>2 DEF R
  <2> QED
    BY <2>1, Zenon DEF FileSets, R
<1> QED
  BY <1>1, <1>2

\* What each file holds after the calls on files.
LEMMA Unlinked ==
  ASSUME NEW fs \in FileSets, NEW name
  PROVE  /\ Unlink(fs, name) \in FileSets
         /\ DOMAIN Unlink(fs, name) = DOMAIN fs \ {name}
         /\ \A n \in DOMAIN fs \ {name} : Unlink(fs, name)[n] = fs[n]
<1> DEFINE g == Unlink(fs, name)
<1>1. /\ g = [n \in DOMAIN fs \ {name} |-> fs[n]]
  BY DEF Unlink, Restrict
<1>2. DOMAIN fs \subseteq Nat /\ \A n \in DOMAIN fs : fs[n] \in Seq(Records)
  BY FileSetIs
<1> HIDE DEF g
<1>3. /\ DOMAIN g = DOMAIN fs \ {name} /\ \A n \in DOMAIN g : g[n] = fs[n]
      /\ g = [n \in DOMAIN g |-> g[n]]
  BY <1>1
<1>4. g \in FileSets
  <2>1. \A n \in DOMAIN g : g[n] \in Seq(Records)
    BY <1>2, <1>3
  <2>2. DOMAIN g \subseteq Nat
    BY <1>2, <1>3
  <2> QED
    BY <1>3, <2>1, <2>2, FileSetIs
<1> QED
  BY <1>3, <1>4 DEF g

LEMMA PutInto ==
  ASSUME NEW fs \in FileSets, NEW name \in Nat, NEW records \in Seq(Records)
  PROVE  /\ Put(fs, name, records) \in FileSets
         /\ DOMAIN Put(fs, name, records) = DOMAIN fs \cup {name}
         /\ Put(fs, name, records)[name] = records
         /\ \A n \in DOMAIN fs : n # name => Put(fs, name, records)[n] = fs[n]
<1> DEFINE g == Put(fs, name, records)
           R == Seq(Records)
<1>1. g = [n \in DOMAIN fs \cup {name} |-> IF n = name THEN records ELSE fs[n]]
  BY DEF Put
<1>2. DOMAIN fs \subseteq Nat /\ (\A n \in DOMAIN fs : fs[n] \in R) /\ records \in R
  BY FileSetIs
<1> HIDE DEF g, R
<1>3. /\ DOMAIN g = DOMAIN fs \cup {name} /\ g[name] = records
      /\ \A n \in DOMAIN fs : n # name => g[n] = fs[n]
      /\ g = [n \in DOMAIN g |-> g[n]]
  BY <1>1
<1>4. g \in FileSets
  <2>1. \A n \in DOMAIN g : g[n] \in R
    BY <1>2, <1>3
  <2>2. DOMAIN g \subseteq Nat
    BY <1>2, <1>3
  <2> QED
    BY <1>3, <2>1, <2>2, FileSetIs DEF R
<1> QED
  BY <1>3, <1>4 DEF g

LEMMA RecordsThere ==
  ASSUME NEW fs \in FileSets, NEW name
  PROVE  /\ RecordsOf(fs, name) \in Seq(Records)
         /\ name \in DOMAIN fs => RecordsOf(fs, name) = fs[name]
         /\ name \notin DOMAIN fs => RecordsOf(fs, name) = <<>>
<1>1. name \in DOMAIN fs => fs[name] \in Seq(Records)
  BY FileSetIs
<1>2. <<>> \in Seq(Records)
  OBVIOUS
<1> QED
  BY <1>1, <1>2 DEF RecordsOf, Exists

LEMMA InFilesIs ==
  ASSUME NEW fs, NEW x
  PROVE  x \in InFiles(fs) <=> \E n \in DOMAIN fs : x \in Numbers(fs[n])
BY DEF InFiles

LEMMA LeftInFiles ==
  ASSUME NEW fs \in FileSets, NEW name, NEW x
  PROVE  x \in InFiles(Unlink(fs, name)) <=> \E n \in DOMAIN fs \ {name} : x \in Numbers(fs[n])
<1> DEFINE g == Unlink(fs, name)
<1>1. DOMAIN g = DOMAIN fs \ {name} /\ \A n \in DOMAIN g : g[n] = fs[n]
  <2>1. /\ DOMAIN Unlink(fs, name) = DOMAIN fs \ {name}
        /\ \A n \in DOMAIN fs \ {name} : Unlink(fs, name)[n] = fs[n]
    BY Unlinked
  <2> QED
    BY <2>1
<1> HIDE DEF g
<1>2. x \in InFiles(g) <=> \E n \in DOMAIN fs \ {name} : x \in Numbers(fs[n])
  BY <1>1, InFilesIs
<1> QED
  BY <1>2 DEF g

-----------------------------------------------------------------------------
\* What holds of files whatever their sink: each is in order and none repeats
\* what another holds.
InOrder(fs) ==
  /\ \A n \in DOMAIN fs : Increasing(fs[n])
  /\ \A n, k \in DOMAIN fs : n # k => Numbers(fs[n]) \cap Numbers(fs[k]) = {}

\* Of a rotating sink: a file with a higher index is older, and none is too large.
Ranked(fs) ==
  \A n, k \in DOMAIN fs : n < k => \A x \in Numbers(fs[n]), y \in Numbers(fs[k]) : y < x

Fits(records) == SizeOf(records) <= MaxSize \/ Len(records) = 1
AllFit(fs) == \A n \in DOMAIN fs : Fits(fs[n])

RotatingFiles(fs, most) ==
  /\ fs \in FileSets /\ DOMAIN fs \subseteq 0 .. most
  /\ InOrder(fs) /\ Ranked(fs) /\ AllFit(fs)

\* A file that goes.
LEMMA UnlinkKeeps ==
  ASSUME NEW fs \in FileSets, NEW name, NEW g, g = Unlink(fs, name)
  PROVE  /\ InOrder(fs) => InOrder(g)
         /\ Ranked(fs) => Ranked(g)
         /\ AllFit(fs) => AllFit(g)
         /\ InFiles(g) \subseteq InFiles(fs)
         /\ name \notin DOMAIN fs => InFiles(g) = InFiles(fs)
<1>1. DOMAIN g = DOMAIN fs \ {name} /\ \A n \in DOMAIN g : g[n] = fs[n]
  <2>1. /\ DOMAIN Unlink(fs, name) = DOMAIN fs \ {name}
        /\ \A n \in DOMAIN fs \ {name} : Unlink(fs, name)[n] = fs[n]
    BY Unlinked
  <2> QED
    BY <2>1
<1>2. InFiles(g) \subseteq InFiles(fs) /\ (name \notin DOMAIN fs => InFiles(g) = InFiles(fs))
  BY <1>1, InFilesIs
<1>3. InOrder(fs) => InOrder(g)
  BY <1>1 DEF InOrder
<1>4. Ranked(fs) => Ranked(g)
  BY <1>1 DEF Ranked
<1>5. AllFit(fs) => AllFit(g)
  BY <1>1 DEF AllFit
<1> QED
  BY <1>2, <1>3, <1>4, <1>5

\* A file that is truncated, or a new one.
LEMMA EmptyKeeps ==
  ASSUME NEW fs \in FileSets, NEW name \in Nat, NEW g, g = Put(fs, name, <<>>)
  PROVE  /\ g \in FileSets /\ DOMAIN g = DOMAIN fs \cup {name} /\ g[name] = <<>>
         /\ InOrder(fs) => InOrder(g)
         /\ Ranked(fs) => Ranked(g)
         /\ AllFit(fs) => AllFit(g)
         /\ InFiles(g) = InFiles(Unlink(fs, name))
<1>0. <<>> \in Seq(Records)
  OBVIOUS
<1>1. /\ g \in FileSets /\ DOMAIN g = DOMAIN fs \cup {name} /\ g[name] = <<>>
      /\ \A n \in DOMAIN fs : n # name => g[n] = fs[n]
  <2>1. /\ Put(fs, name, <<>>) \in FileSets
        /\ DOMAIN Put(fs, name, <<>>) = DOMAIN fs \cup {name}
        /\ Put(fs, name, <<>>)[name] = <<>>
        /\ \A n \in DOMAIN fs : n # name => Put(fs, name, <<>>)[n] = fs[n]
    BY <1>0, PutInto
  <2> QED
    BY <2>1
<1>2. InFiles(g) = InFiles(Unlink(fs, name))
  <2>1. ASSUME NEW x
        PROVE  x \in InFiles(g) <=> \E n \in DOMAIN fs \ {name} : x \in Numbers(fs[n])
    BY <1>1, NumbersOf, InFilesIs
  <2>2. ASSUME NEW x
        PROVE  x \in InFiles(Unlink(fs, name)) <=>
                 \E n \in DOMAIN fs \ {name} : x \in Numbers(fs[n])
    BY LeftInFiles
  <2> QED
    BY <2>1, <2>2
<1>3. InOrder(fs) => InOrder(g)
  BY <1>1, NumbersOf DEF InOrder
<1>4. Ranked(fs) => Ranked(g)
  BY <1>1, NumbersOf DEF Ranked
<1>5. AllFit(fs) => AllFit(g)
  <2>1. Fits(<<>>)
    BY SizeTyped, FileSinksAssumption DEF Fits
  <2> QED
    BY <1>1, <2>1 DEF AllFit
<1> QED
  BY <1>1, <1>2, <1>3, <1>4, <1>5

\* A file that moves up by one, over the one that is there.
MovedUp(fs, i, g) ==
  IF i - 1 \in DOMAIN fs
  THEN DOMAIN g = (DOMAIN fs \cup {i}) \ {i - 1} /\ InFiles(g) = InFiles(Unlink(fs, i))
  ELSE g = fs

LEMMA MoveUpKeeps ==
  ASSUME NEW most \in Nat, NEW fs, RotatingFiles(fs, most), NEW i \in 1 .. most,
         NEW g, g = MoveUp(fs, i)
  PROVE  RotatingFiles(g, most) /\ MovedUp(fs, i, g)
<1>1. CASE i - 1 \notin DOMAIN fs
  BY <1>1 DEF MoveUp, Exists, MovedUp
<1>2. CASE i - 1 \in DOMAIN fs
  <2> DEFINE u == Unlink(fs, i - 1)
  <2>1. /\ fs \in FileSets /\ fs[i - 1] \in Seq(Records) /\ i \in Nat /\ i - 1 \in Nat
    BY <1>2, FileSetIs DEF RotatingFiles
  <2>2. /\ u \in FileSets /\ DOMAIN u = DOMAIN fs \ {i - 1} /\ \A n \in DOMAIN u : u[n] = fs[n]
    BY <2>1, Unlinked
  <2>3. g = Put(u, i, fs[i - 1])
    BY <1>2 DEF MoveUp, Exists
  <2> HIDE DEF u
  <2>4. /\ g \in FileSets /\ DOMAIN g = DOMAIN u \cup {i} /\ g[i] = fs[i - 1]
        /\ \A n \in DOMAIN u : n # i => g[n] = u[n]
    <3> DEFINE moved == fs[i - 1]
    <3>1. moved \in Seq(Records) /\ g = Put(u, i, moved)
      BY <2>1, <2>3
    <3> HIDE DEF moved
    <3>2. /\ g \in FileSets /\ DOMAIN g = DOMAIN u \cup {i} /\ g[i] = moved
          /\ \A n \in DOMAIN u : n # i => g[n] = u[n]
      <4>1. u \in FileSets /\ i \in Nat /\ moved \in Seq(Records)
        BY <2>1, <2>2, <3>1
      <4>2. /\ Put(u, i, moved) \in FileSets /\ DOMAIN Put(u, i, moved) = DOMAIN u \cup {i}
            /\ Put(u, i, moved)[i] = moved
            /\ \A n \in DOMAIN u : n # i => Put(u, i, moved)[n] = u[n]
        BY <4>1, PutInto
      <4> QED
        BY <3>1, <4>2
    <3> QED
      BY <3>2 DEF moved
  <2>5. /\ DOMAIN g = (DOMAIN fs \cup {i}) \ {i - 1} /\ g[i] = fs[i - 1]
        /\ \A n \in DOMAIN g : n # i => n \in DOMAIN fs /\ n # i - 1 /\ g[n] = fs[n]
    BY <2>1, <2>2, <2>4
  <2>6. DOMAIN fs \subseteq 0 .. most /\ InOrder(fs) /\ Ranked(fs) /\ AllFit(fs)
    BY DEF RotatingFiles
  <2>7. InOrder(g)
    BY <1>2, <2>5, <2>6 DEF InOrder
  <2>8. Ranked(g)
    <3>1. SUFFICES ASSUME NEW n \in DOMAIN g, NEW k \in DOMAIN g, n < k,
                          NEW x \in Numbers(g[n]), NEW y \in Numbers(g[k])
                   PROVE  y < x
      BY DEF Ranked
    <3>2. \A a \in DOMAIN fs : a \in Int
      BY <2>6
    <3>3. CASE n = i
      <4>1. k # i /\ k \in DOMAIN fs /\ i - 1 < k
        BY <2>5, <3>1, <3>2, <3>3
      <4> QED
        BY <1>2, <2>5, <2>6, <3>1, <3>3, <4>1 DEF Ranked
    <3>4. CASE k = i
      <4>1. n # i /\ n \in DOMAIN fs /\ n # i - 1
        BY <2>5, <3>1, <3>4
      <4>2. n < i - 1
        BY <3>1, <3>2, <3>4, <4>1
      <4> QED
        BY <1>2, <2>5, <2>6, <3>1, <3>4, <4>1, <4>2 DEF Ranked
    <3>5. CASE n # i /\ k # i
      BY <2>5, <2>6, <3>1, <3>5 DEF Ranked
    <3> QED
      BY <3>3, <3>4, <3>5
  <2>9. AllFit(g)
    BY <1>2, <2>5, <2>6 DEF AllFit
  <2>10. InFiles(g) = InFiles(Unlink(fs, i))
    <3>1. ASSUME NEW x
          PROVE  x \in InFiles(g) <=> \E n \in DOMAIN fs \ {i} : x \in Numbers(fs[n])
      <4>1. ASSUME NEW n \in DOMAIN g, x \in Numbers(g[n])
            PROVE  \E k \in DOMAIN fs \ {i} : x \in Numbers(fs[k])
        <5>1. CASE n = i
          BY <1>2, <2>1, <2>5, <4>1, <5>1
        <5>2. CASE n # i
          BY <2>5, <4>1, <5>2
        <5> QED
          BY <5>1, <5>2
      <4>2. ASSUME NEW k \in DOMAIN fs \ {i}, x \in Numbers(fs[k])
            PROVE  \E n \in DOMAIN g : x \in Numbers(g[n])
        <5>1. CASE k = i - 1
          BY <2>5, <4>2, <5>1, <2>1
        <5>2. CASE k # i - 1
          BY <2>5, <4>2, <5>2
        <5> QED
          BY <5>1, <5>2
      <4> QED
        BY <4>1, <4>2, InFilesIs
    <3>2. ASSUME NEW x
          PROVE  x \in InFiles(Unlink(fs, i)) <=> \E n \in DOMAIN fs \ {i} : x \in Numbers(fs[n])
      BY <2>1, LeftInFiles
    <3> QED
      BY <3>1, <3>2
  <2>11. DOMAIN g \subseteq 0 .. most
    BY <2>5, <2>6
  <2> QED
    BY <1>2, <2>4, <2>5, <2>7, <2>8, <2>9, <2>10, <2>11 DEF RotatingFiles, MovedUp
<1> QED
  BY <1>1, <1>2

-----------------------------------------------------------------------------
\* The files after the first k renames of a rotation.
Moves(count, fs, f) ==
  f[0] = fs /\ \A k \in 1 .. count : f[k] = MoveUp(f[k - 1], max_files_ + 1 - k)

Rotating == {g \in FileSets : RotatingFiles(g, max_files_)}

LEMMA RotationFold ==
  ASSUME max_files_ \in Nat, NEW fs \in Rotating, NEW failAt \in 0 .. max_files_
  PROVE  LET count == max_files_ - failAt IN
         \E f \in [0 .. count -> Rotating] :
           Moves(count, fs, f) /\ Rotated(fs, failAt) = Put(Unlink(f[count], failAt), 0, <<>>)
<1> DEFINE n == max_files_ - failAt
           indices == [k \in 1 .. n |-> max_files_ + 1 - k]
           T == Rotating
           step == [k \in 1 .. n |-> [t \in T |-> MoveUp(t, indices[k])]]
           Folds(g) == g = [t \in SUBSET DOMAIN indices |->
                              IF t = {} THEN fs
                              ELSE MoveUp(g[t \ {Max(t)}], indices[Max(t)])]
           iter == CHOOSE g : Folds(g)
<1>1. Rotated(fs, failAt) = Put(Unlink(iter[DOMAIN indices], failAt), 0, <<>>)
  BY DEF Rotated, FoldLeft, MapThenFoldSet
<1>2. step \in [1 .. n -> [T -> T]]
  <2>1. ASSUME NEW t \in T, NEW k \in 1 .. n PROVE MoveUp(t, indices[k]) \in T
    <3>1. indices[k] \in 1 .. max_files_
      OBVIOUS
    <3>2. RotatingFiles(t, max_files_)
      BY DEF Rotating
    <3>3. RotatingFiles(MoveUp(t, indices[k]), max_files_)
      <4> HIDE DEF indices
      <4> QED
        BY <3>1, <3>2, MoveUpKeeps
    <3> QED
      BY <3>3 DEF Rotating, RotatingFiles
  <2> HIDE DEF T, indices
  <2> QED
    BY <2>1
<1>3. fs \in T /\ n \in Nat /\ DOMAIN indices = 1 .. n
  OBVIOUS
<1>4. PICK g \in [SUBSET (1 .. n) -> T] : FoldsUp(n, fs, step, g)
  <2> HIDE DEF step, n, T
  <2> QED
    BY <1>2, <1>3, FoldExists
<1>5. Folds(g)
  <2>1. ASSUME NEW t \in SUBSET (1 .. n), t # {}
        PROVE  g[t] = MoveUp(g[t \ {Max(t)}], indices[Max(t)])
    <3>1. Max(t) \in 1 .. n /\ t \ {Max(t)} \in SUBSET (1 .. n)
      BY <1>3, <2>1, LargestIndex
    <3> HIDE DEF T, indices, n
    <3> QED
      BY <1>4, <2>1, <3>1 DEF FoldsUp
  <2> HIDE DEF T, indices, n, step
  <2> QED
    BY <1>3, <1>4, <2>1 DEF FoldsUp
<1>6. Folds(iter)
  <2> HIDE DEF Folds
  <2> QED
    BY <1>5
<1> HIDE DEF iter
<1>7. FoldsWithin(n, T, fs, step, iter)
  <2>1. ASSUME NEW t \in SUBSET (1 .. n), t # {}, iter[t \ {Max(t)}] \in T
        PROVE  iter[t] = step[Max(t)][iter[t \ {Max(t)}]]
    <3>1. Max(t) \in 1 .. n
      BY <1>3, <2>1, LargestIndex
    <3> HIDE DEF T, indices, n
    <3> QED
      BY <1>3, <1>6, <2>1, <3>1
  <2>2. iter[{}] = fs
    BY <1>6
  <2> QED
    BY <2>1, <2>2 DEF FoldsWithin
<1>8. PICK f \in [0 .. n -> T] : RunsThrough(n, fs, step, f) /\ iter[1 .. n] = f[n]
  <2> HIDE DEF step, n, T
  <2>1. RunsTo(n, T, fs, step, iter)
    BY <1>2, <1>3, <1>7, FoldRuns
  <2> QED
    BY <2>1 DEF RunsTo
<1>9. ASSUME NEW k \in 1 .. n PROVE f[k] = MoveUp(f[k - 1], max_files_ + 1 - k)
  <2>1. f[k - 1] \in T
    BY <1>3
  <2>2. f[k] = MoveUp(f[k - 1], indices[k])
    <3> HIDE DEF T, indices, n
    <3> QED
      BY <1>8, <2>1 DEF RunsThrough
  <2> QED
    BY <2>2
<1>10. Moves(n, fs, f)
  <2> HIDE DEF T, step
  <2> QED
    BY <1>8, <1>9 DEF RunsThrough, Moves
<1>11. Rotated(fs, failAt) = Put(Unlink(f[n], failAt), 0, <<>>)
  <2> HIDE DEF T, step, indices, n
  <2> QED
    BY <1>1, <1>3, <1>8
<1> QED
  BY <1>10, <1>11

\* A rotation, whichever rename fails, keeps what holds of the files; what is left
\* was there before.
LEMMA RotationKeeps ==
  ASSUME max_files_ \in Nat, NEW fs, RotatingFiles(fs, max_files_),
         NEW failAt \in 0 .. max_files_, NEW g, g = Rotated(fs, failAt)
  PROVE  /\ RotatingFiles(g, max_files_) /\ 0 \in DOMAIN g /\ g[0] = <<>>
         /\ InFiles(g) \subseteq InFiles(fs)
<1> DEFINE n == max_files_ - failAt
<1>1. fs \in Rotating /\ n \in Nat
  BY DEF Rotating, RotatingFiles
<1>2. PICK f \in [0 .. n -> Rotating] :
        Moves(n, fs, f) /\ Rotated(fs, failAt) = Put(Unlink(f[n], failAt), 0, <<>>)
  BY <1>1, RotationFold
<1> HIDE DEF n
<1> DEFINE S == {k \in Nat : k <= n => InFiles(f[k]) \subseteq InFiles(fs)}
<1>3. 0 \in S
  BY <1>2 DEF Moves
<1>4. ASSUME NEW k \in Nat, k \in S PROVE k + 1 \in S
  <2>1. SUFFICES ASSUME k + 1 <= n PROVE InFiles(f[k + 1]) \subseteq InFiles(fs)
    OBVIOUS
  <2> DEFINE i == max_files_ + 1 - (k + 1)
             was == f[k]
             is == f[k + 1]
  <2>2. k \in 0 .. n /\ k + 1 \in 1 .. n /\ (k + 1) - 1 = k /\ i \in 1 .. max_files_
    BY <1>1, <2>1 DEF n
  <2>3. is = MoveUp(was, i) /\ InFiles(was) \subseteq InFiles(fs)
    BY <1>1, <1>2, <1>4, <2>2 DEF Moves
  <2>4. RotatingFiles(was, max_files_)
    BY <1>1, <1>2, <2>2 DEF Rotating
  <2> HIDE DEF i, was, is
  <2>5. is = was \/ InFiles(is) = InFiles(Unlink(was, i))
    <3>1. MovedUp(was, i, is)
      BY <2>2, <2>3, <2>4, MoveUpKeeps
    <3> QED
      BY <3>1 DEF MovedUp
  <2>6. InFiles(Unlink(was, i)) \subseteq InFiles(was)
    BY <2>4, UnlinkKeeps DEF RotatingFiles
  <2> QED
    BY <2>3, <2>5, <2>6 DEF is
<1>5. InFiles(f[n]) \subseteq InFiles(fs)
  <2> HIDE DEF S
  <2>1. n \in S
    BY <1>1, <1>3, <1>4, SetInduction
  <2> QED
    BY <2>1 DEF S
<1> DEFINE last == f[n]
           u == Unlink(last, failAt)
<1>6. RotatingFiles(last, max_files_)
  BY <1>1, <1>2 DEF Rotating
<1>7. InFiles(last) \subseteq InFiles(fs) /\ g = Put(u, 0, <<>>)
  BY <1>2, <1>5
<1> HIDE DEF last
<1>8. /\ last \in FileSets /\ DOMAIN last \subseteq 0 .. max_files_
      /\ InOrder(last) /\ Ranked(last) /\ AllFit(last)
  BY <1>6 DEF RotatingFiles
<1>9. /\ u \in FileSets /\ DOMAIN u \subseteq 0 .. max_files_
      /\ InOrder(u) /\ Ranked(u) /\ AllFit(u) /\ InFiles(u) \subseteq InFiles(fs)
  <2>1. u \in FileSets /\ DOMAIN u \subseteq 0 .. max_files_
    BY <1>8, Unlinked
  <2>2. InOrder(u) /\ Ranked(u) /\ AllFit(u) /\ InFiles(u) \subseteq InFiles(last)
    BY <1>8, UnlinkKeeps
  <2> QED
    BY <1>7, <2>1, <2>2
<1> HIDE DEF u
<1>10. /\ g \in FileSets /\ DOMAIN g = DOMAIN u \cup {0} /\ g[0] = <<>>
       /\ InOrder(g) /\ Ranked(g) /\ AllFit(g) /\ InFiles(g) = InFiles(Unlink(u, 0))
  BY <1>7, <1>9, EmptyKeeps
<1>11. InFiles(Unlink(u, 0)) \subseteq InFiles(u)
  BY <1>9, UnlinkKeeps
<1> QED
  BY <1>9, <1>10, <1>11 DEF RotatingFiles

\* After k renames of files 0 .. m: nothing is moved yet, or the last gap is where
\* the next file goes.
MovedBy(k, m, fs, g) ==
  IF k = 0 \/ max_files_ + 1 - k > m + 1 THEN g = fs
  ELSE /\ DOMAIN g = (0 .. Fewer(m + 1, max_files_)) \ {max_files_ - k}
       /\ InFiles(g) = InFiles(Unlink(fs, max_files_))

LEMMA MovedOneMore ==
  ASSUME max_files_ \in Nat, NEW fs, RotatingFiles(fs, max_files_),
         NEW m \in 0 .. max_files_, DOMAIN fs = 0 .. m,
         NEW k \in 0 .. max_files_ - 1, NEW was, RotatingFiles(was, max_files_),
         MovedBy(k, m, fs, was), NEW is, is = MoveUp(was, max_files_ - k)
  PROVE  MovedBy(k + 1, m, fs, is)
<1> DEFINE i == max_files_ - k
           top == Fewer(m + 1, max_files_)
<1>1. /\ i \in 1 .. max_files_ /\ max_files_ + 1 - (k + 1) = i /\ max_files_ - (k + 1) = i - 1
      /\ max_files_ - k = i /\ max_files_ + 1 - k = i + 1 /\ (k = 0 <=> i = max_files_)
      /\ k + 1 # 0 /\ m \in Nat /\ top \in Nat
      /\ top = IF m + 1 <= max_files_ THEN m + 1 ELSE max_files_
  BY DEF Fewer
<1>2. /\ is = MoveUp(was, i)
      /\ IF i = max_files_ \/ i + 1 > m + 1 THEN was = fs
         ELSE DOMAIN was = (0 .. top) \ {i} /\ InFiles(was) = InFiles(Unlink(fs, max_files_))
  BY <1>1 DEF MovedBy
<1> SUFFICES IF i > m + 1 THEN is = fs
             ELSE DOMAIN is = (0 .. top) \ {i - 1} /\ InFiles(is) = InFiles(Unlink(fs, max_files_))
  BY <1>1 DEF MovedBy
<1> HIDE DEF i, top
<1>3. /\ i - 1 \notin DOMAIN was => is = was
      /\ i - 1 \in DOMAIN was => /\ DOMAIN is = (DOMAIN was \cup {i}) \ {i - 1}
                                 /\ InFiles(is) = InFiles(Unlink(was, i))
  <2>1. MovedUp(was, i, is)
    BY <1>1, <1>2, MoveUpKeeps
  <2> QED
    BY <2>1 DEF MovedUp
<1>4. /\ fs \in FileSets /\ was \in FileSets
  BY DEF RotatingFiles
<1>5. CASE i > m + 1
  <2>1. was = fs
    BY <1>1, <1>2, <1>5
  <2>2. i - 1 \notin DOMAIN was
    BY <1>1, <1>5, <2>1
  <2> QED
    BY <1>3, <1>5, <2>1, <2>2
<1>6. CASE i <= m + 1 /\ (i = max_files_ \/ i + 1 > m + 1)
  <2>1. was = fs /\ i - 1 \in DOMAIN was
    BY <1>1, <1>2, <1>6
  <2>2. DOMAIN is = ((0 .. m) \cup {i}) \ {i - 1} /\ InFiles(is) = InFiles(Unlink(fs, i))
    BY <1>3, <2>1
  <2>3. (0 .. m) \cup {i} = 0 .. top
    BY <1>1, <1>6
  <2>4. InFiles(Unlink(fs, i)) = InFiles(Unlink(fs, max_files_))
    <3>1. CASE i = max_files_
      BY <3>1
    <3>2. CASE i # max_files_
      <4>1. i \notin DOMAIN fs /\ max_files_ \notin DOMAIN fs
        BY <1>1, <1>6, <3>2
      <4>2. InFiles(Unlink(fs, i)) = InFiles(fs)
        BY <1>4, <4>1, UnlinkKeeps
      <4>3. InFiles(Unlink(fs, max_files_)) = InFiles(fs)
        BY <1>4, <4>1, UnlinkKeeps
      <4> QED
        BY <4>2, <4>3
    <3> QED
      BY <3>1, <3>2
  <2> QED
    BY <1>1, <1>6, <2>2, <2>3, <2>4
<1>7. CASE i <= m + 1 /\ i # max_files_ /\ ~(i + 1 > m + 1)
  <2>1. DOMAIN was = (0 .. top) \ {i} /\ InFiles(was) = InFiles(Unlink(fs, max_files_))
    BY <1>2, <1>7
  <2>2. i - 1 \in DOMAIN was /\ i \in 0 .. top
    BY <1>1, <1>7, <2>1
  <2>3. DOMAIN is = (DOMAIN was \cup {i}) \ {i - 1} /\ InFiles(is) = InFiles(Unlink(was, i))
    BY <1>3, <2>2
  <2>4. InFiles(Unlink(was, i)) = InFiles(was)
    <3>1. i \notin DOMAIN was
      BY <2>1
    <3> QED
      BY <1>4, <3>1, UnlinkKeeps
  <2>5. DOMAIN is = (0 .. top) \ {i - 1}
    BY <2>1, <2>2, <2>3
  <2> QED
    BY <1>1, <1>7, <2>1, <2>3, <2>4, <2>5
<1> QED
  BY <1>1, <1>5, <1>6, <1>7

\* A rotation of files without a gap moves them all up by one, and loses the
\* records of the last file there may be only.
LEMMA RotationShape ==
  ASSUME max_files_ \in Nat, NEW fs, RotatingFiles(fs, max_files_),
         NEW m \in 0 .. max_files_, DOMAIN fs = 0 .. m, NEW g, g = Rotated(fs, 0)
  PROVE  /\ DOMAIN g = 0 .. Fewer(m + 1, max_files_)
         /\ InFiles(g) = InFiles(Unlink(fs, max_files_))
<1> DEFINE n == max_files_
<1>1. fs \in Rotating /\ n \in Nat /\ n - 0 = n /\ 0 \in 0 .. n /\ fs \in FileSets
  BY DEF Rotating, RotatingFiles
<1>2. PICK f \in [0 .. n -> Rotating] :
        Moves(n, fs, f) /\ Rotated(fs, 0) = Put(Unlink(f[n], 0), 0, <<>>)
  BY <1>1, RotationFold
<1> DEFINE S == {k \in Nat : k <= n => MovedBy(k, m, fs, f[k])}
<1>3. 0 \in S
  BY <1>2 DEF Moves, MovedBy
<1>4. ASSUME NEW k \in Nat, k \in S PROVE k + 1 \in S
  <2>1. SUFFICES ASSUME k + 1 <= n PROVE MovedBy(k + 1, m, fs, f[k + 1])
    OBVIOUS
  <2>2. /\ k \in 0 .. n /\ k + 1 \in 1 .. n /\ (k + 1) - 1 = k /\ k \in 0 .. n - 1
        /\ n + 1 - (k + 1) = n - k
    BY <2>1
  <2>3. f[k + 1] = MoveUp(f[k], n - k) /\ MovedBy(k, m, fs, f[k])
    BY <1>2, <1>4, <2>2 DEF Moves
  <2>4. RotatingFiles(f[k], n)
    BY <1>2, <2>2 DEF Rotating
  <2> QED
    BY <2>2, <2>3, <2>4, MovedOneMore
<1> DEFINE last == f[n]
           u == Unlink(last, 0)
<1>5. MovedBy(n, m, fs, last)
  <2> HIDE DEF S
  <2>1. n \in S
    BY <1>1, <1>3, <1>4, SetInduction
  <2> QED
    BY <2>1 DEF S
<1>6. last \in FileSets /\ g = Put(u, 0, <<>>)
  BY <1>2 DEF Rotating
<1> HIDE DEF last
<1>7. /\ DOMAIN u = DOMAIN last \ {0} /\ u \in FileSets
  BY <1>6, Unlinked
<1>8. /\ DOMAIN g = DOMAIN last \cup {0} /\ InFiles(g) = InFiles(Unlink(u, 0))
  <2> HIDE DEF u
  <2>1. DOMAIN g = DOMAIN u \cup {0} /\ InFiles(g) = InFiles(Unlink(u, 0))
    BY <1>6, <1>7, EmptyKeeps
  <2> QED
    BY <1>7, <2>1
<1>9. InFiles(Unlink(u, 0)) = InFiles(u)
  <2>1. 0 \notin DOMAIN u
    BY <1>7
  <2> QED
    BY <1>7, <2>1, UnlinkKeeps
<1>10. CASE n = 0
  <2>1. last = fs /\ m = 0 /\ Fewer(m + 1, n) = 0
    BY <1>5, <1>10 DEF MovedBy, Fewer
  <2>2. DOMAIN last = {0}
    BY <2>1
  <2>3. DOMAIN g = 0 .. 0
    <3>1. {0} \cup {0} = 0 .. 0
      OBVIOUS
    <3> QED
      BY <1>8, <2>2, <3>1
  <2> QED
    BY <1>8, <1>9, <1>10, <2>1, <2>3
<1>11. CASE n # 0
  <2>1. /\ DOMAIN last = (0 .. Fewer(m + 1, n)) \ {n - n}
        /\ InFiles(last) = InFiles(Unlink(fs, n))
    BY <1>1, <1>5, <1>11 DEF MovedBy
  <2>2. Fewer(m + 1, n) \in Nat /\ n - n = 0
    BY <1>1 DEF Fewer
  <2>3. DOMAIN g = 0 .. Fewer(m + 1, n)
    <3> DEFINE top == Fewer(m + 1, n)
    <3>1. top \in Nat /\ DOMAIN last = (0 .. top) \ {0}
      BY <2>1, <2>2
    <3> HIDE DEF top
    <3>2. ((0 .. top) \ {0}) \cup {0} = 0 .. top
      BY <3>1
    <3>3. DOMAIN g = 0 .. top
      BY <1>8, <3>1, <3>2
    <3> QED
      BY <3>3 DEF top
  <2>4. InFiles(u) = InFiles(last)
    <3>1. 0 \notin DOMAIN last
      BY <2>1, <2>2
    <3> QED
      BY <1>6, <3>1, UnlinkKeeps
  <2> QED
    BY <1>8, <1>9, <2>1, <2>3, <2>4
<1> QED
  BY <1>10, <1>11

-----------------------------------------------------------------------------
\* A record behind the others of a file.
WrittenTo(fs, name, r, g) ==
  /\ g \in FileSets /\ DOMAIN g = DOMAIN fs \cup {name}
  /\ g[name] = Append(RecordsOf(fs, name), r)
  /\ \A n \in DOMAIN fs : n # name => g[n] = fs[n]
  /\ InFiles(g) = InFiles(fs) \cup {r.number}

LEMMA WriteKeeps ==
  ASSUME NEW fs \in FileSets, NEW name \in Nat, NEW r \in Records,
         \A x \in InFiles(fs) : x < r.number,
         NEW g, g = Written(fs, name, TRUE, r)
  PROVE  /\ WrittenTo(fs, name, r, g)
         /\ InOrder(fs) => InOrder(g)
         /\ Ranked(fs) /\ name = 0 => Ranked(g)
         /\ AllFit(fs) /\ Fits(Append(RecordsOf(fs, name), r)) => AllFit(g)
<1> DEFINE was == RecordsOf(fs, name)
           is == Append(was, r)
<1>1. /\ was \in Seq(Records)
      /\ name \in DOMAIN fs => was = fs[name]
      /\ name \notin DOMAIN fs => was = <<>>
  BY RecordsThere
<1>2. is \in Seq(Records) /\ g = Put(fs, name, is)
  <2> HIDE DEF was
  <2> QED
    BY <1>1 DEF Written, was
<1>3. r.number \in Nat /\ DOMAIN fs \subseteq Nat
  BY RecordFields, FileSetIs
<1>4. \A x \in Numbers(was) : x \in InFiles(fs) /\ x < r.number
  <2>1. CASE name \in DOMAIN fs
    BY <1>1, <2>1, InFilesIs
  <2>2. CASE name \notin DOMAIN fs
    BY <1>1, <2>2, NumbersOf
  <2> QED
    BY <2>1, <2>2
<1>5. /\ Numbers(is) = Numbers(was) \cup {r.number}
      /\ Increasing(was) => Increasing(is)
  BY <1>1, <1>4, NumbersMore
<1>6. InOrder(fs) => Increasing(was)
  BY <1>1, NumbersOf DEF InOrder
<1> HIDE DEF was, is
<1>7. /\ g \in FileSets /\ DOMAIN g = DOMAIN fs \cup {name} /\ g[name] = is
      /\ \A n \in DOMAIN fs : n # name => g[n] = fs[n]
  <2>1. /\ Put(fs, name, is) \in FileSets /\ DOMAIN Put(fs, name, is) = DOMAIN fs \cup {name}
        /\ Put(fs, name, is)[name] = is
        /\ \A n \in DOMAIN fs : n # name => Put(fs, name, is)[n] = fs[n]
    BY <1>2, PutInto
  <2> QED
    BY <1>2, <2>1
<1>8. InFiles(g) = InFiles(fs) \cup {r.number}
  <2>1. ASSUME NEW x, x \in InFiles(g) PROVE x \in InFiles(fs) \cup {r.number}
    <3>1. PICK n \in DOMAIN g : x \in Numbers(g[n])
      BY <2>1, InFilesIs
    <3>2. CASE n = name
      BY <1>4, <1>5, <1>7, <3>1, <3>2
    <3>3. CASE n # name
      BY <1>7, <3>1, <3>3, InFilesIs
    <3> QED
      BY <3>2, <3>3
  <2>2. ASSUME NEW x, x \in InFiles(fs) PROVE x \in InFiles(g)
    <3>1. PICK n \in DOMAIN fs : x \in Numbers(fs[n])
      BY <2>2, InFilesIs
    <3>2. CASE n = name
      BY <1>1, <1>5, <1>7, <3>1, <3>2, InFilesIs
    <3>3. CASE n # name
      BY <1>7, <3>1, <3>3, InFilesIs
    <3> QED
      BY <3>2, <3>3
  <2>3. r.number \in InFiles(g)
    BY <1>5, <1>7, InFilesIs
  <2> QED
    BY <2>1, <2>2, <2>3
<1>9. ASSUME NEW n \in DOMAIN fs, NEW x \in Numbers(fs[n]) PROVE x < r.number
  BY InFilesIs
<1>10. ASSUME InOrder(fs) PROVE InOrder(g)
  <2>1. ASSUME NEW n \in DOMAIN g PROVE Increasing(g[n])
    BY <1>5, <1>6, <1>7, <1>10, <2>1 DEF InOrder
  <2>2. ASSUME NEW n \in DOMAIN fs, n # name
        PROVE  Numbers(fs[n]) \cap Numbers(is) = {}
    <3>1. ASSUME NEW x, x \in Numbers(fs[n]), x \in Numbers(was) PROVE FALSE
      BY <1>1, <1>10, <2>2, <3>1, NumbersOf DEF InOrder
    <3>2. r.number \notin Numbers(fs[n])
      BY <1>3, <1>9
    <3> QED
      BY <1>5, <3>1, <3>2
  <2>3. ASSUME NEW n \in DOMAIN g, NEW k \in DOMAIN g, n # k
        PROVE  Numbers(g[n]) \cap Numbers(g[k]) = {}
    <3>1. CASE n = name
      BY <1>7, <2>2, <2>3, <3>1
    <3>2. CASE k = name
      BY <1>7, <2>2, <2>3, <3>2
    <3>3. CASE n # name /\ k # name
      BY <1>7, <1>10, <2>3, <3>3 DEF InOrder
    <3> QED
      BY <3>1, <3>2, <3>3
  <2> QED
    BY <2>1, <2>3 DEF InOrder
<1>11. ASSUME Ranked(fs), name = 0 PROVE Ranked(g)
  <2>1. SUFFICES ASSUME NEW n \in DOMAIN g, NEW k \in DOMAIN g, n < k,
                        NEW x \in Numbers(g[n]), NEW y \in Numbers(g[k])
                 PROVE  y < x
    BY DEF Ranked
  <2>2. k # 0 /\ k \in DOMAIN fs /\ g[k] = fs[k]
    <3>1. n \in Nat /\ k \in Nat
      BY <1>3, <1>7, <1>11
    <3>2. k # 0
      BY <2>1, <3>1
    <3> QED
      BY <1>7, <1>11, <3>2
  <2>3. CASE n = 0
    <3>1. x \in Numbers(was) \/ x = r.number
      BY <1>5, <1>7, <1>11, <2>3
    <3>2. CASE x = r.number
      BY <1>9, <2>2, <3>2
    <3>3. CASE x \in Numbers(was)
      <4>1. 0 \in DOMAIN fs /\ was = fs[0]
        BY <1>1, <1>11, <3>3, NumbersOf
      <4> QED
        BY <1>11, <2>1, <2>2, <2>3, <3>3, <4>1 DEF Ranked
    <3> QED
      BY <3>1, <3>2, <3>3
  <2>4. CASE n # 0
    BY <1>7, <1>11, <2>1, <2>2, <2>4 DEF Ranked
  <2> QED
    BY <2>3, <2>4
<1>12. AllFit(fs) /\ Fits(is) => AllFit(g)
  BY <1>7 DEF AllFit
<1> QED
  BY <1>7, <1>8, <1>10, <1>11, <1>12 DEF WrittenTo, was, is

\* A file that is opened, and there before or not, truncated or not.
OpenedAs(fs, name, cut, g) ==
  /\ g \in FileSets /\ DOMAIN g = DOMAIN fs \cup {name}
  /\ g[name] = IF cut THEN <<>> ELSE RecordsOf(fs, name)
  /\ \A n \in DOMAIN fs : n # name => g[n] = fs[n]
  /\ InOrder(g)
  /\ InFiles(g) = IF cut THEN InFiles(fs) \ Numbers(RecordsOf(fs, name)) ELSE InFiles(fs)
  /\ InFiles(g) \subseteq InFiles(fs)

LEMMA OpenKeeps ==
  ASSUME NEW fs \in FileSets, NEW name \in Nat, NEW cut \in BOOLEAN, InOrder(fs),
         NEW g, g = Opened(fs, name, cut)
  PROVE  /\ OpenedAs(fs, name, cut, g)
         /\ Ranked(fs) => Ranked(g)
         /\ AllFit(fs) => AllFit(g)
<1> DEFINE was == RecordsOf(fs, name)
           is == IF cut THEN <<>> ELSE was
<1>1. /\ was \in Seq(Records)
      /\ name \in DOMAIN fs => was = fs[name]
      /\ name \notin DOMAIN fs => was = <<>>
  BY RecordsThere
<1>2. is \in Seq(Records) /\ g = Put(fs, name, is) /\ (is = was \/ is = <<>>)
  <2> HIDE DEF was
  <2> QED
    BY <1>1 DEF Opened, was
<1>3. /\ Numbers(<<>>) = {} /\ Increasing(<<>>) /\ Fits(<<>>)
  BY NumbersOf, SizeTyped, FileSinksAssumption DEF Fits
<1>4. Numbers(is) = (IF cut THEN {} ELSE Numbers(was))
  BY <1>3
<1>5. is = IF cut THEN <<>> ELSE was
  OBVIOUS
<1> HIDE DEF was, is
<1>6. /\ g \in FileSets /\ DOMAIN g = DOMAIN fs \cup {name} /\ g[name] = is
      /\ \A n \in DOMAIN fs : n # name => g[n] = fs[n]
  <2>1. /\ Put(fs, name, is) \in FileSets /\ DOMAIN Put(fs, name, is) = DOMAIN fs \cup {name}
        /\ Put(fs, name, is)[name] = is
        /\ \A n \in DOMAIN fs : n # name => Put(fs, name, is)[n] = fs[n]
    BY <1>2, PutInto
  <2> QED
    BY <1>2, <2>1
<1>7. \A n \in DOMAIN g : g[n] = <<>> \/ (n \in DOMAIN fs /\ g[n] = fs[n])
  BY <1>1, <1>2, <1>6
<1>8. InOrder(g)
  BY <1>3, <1>7 DEF InOrder
<1>9. Ranked(fs) => Ranked(g)
  BY <1>3, <1>7 DEF Ranked
<1>10. AllFit(fs) => AllFit(g)
  BY <1>3, <1>7 DEF AllFit
<1>11. ASSUME NEW x
       PROVE  x \in InFiles(g) <=> x \in IF cut THEN InFiles(fs) \ Numbers(was) ELSE InFiles(fs)
  <2>1. ASSUME x \in InFiles(g)
        PROVE  x \in InFiles(fs) /\ (cut => x \notin Numbers(was))
    <3>1. PICK n \in DOMAIN g : x \in Numbers(g[n])
      BY <2>1, InFilesIs
    <3>2. n \in DOMAIN fs /\ g[n] = fs[n] /\ x \in Numbers(fs[n])
      BY <1>3, <1>7, <3>1
    <3>3. ASSUME cut, x \in Numbers(was) PROVE FALSE
      <4>1. n # name
        BY <1>3, <1>5, <1>6, <3>1, <3>3
      <4> QED
        BY <1>1, <1>3, <3>2, <3>3, <4>1 DEF InOrder
    <3> QED
      BY <3>2, <3>3, InFilesIs
  <2>2. ASSUME x \in InFiles(fs), cut => x \notin Numbers(was)
        PROVE  x \in InFiles(g)
    <3>1. PICK n \in DOMAIN fs : x \in Numbers(fs[n])
      BY <2>2, InFilesIs
    <3>2. n \in DOMAIN g /\ x \in Numbers(g[n])
      BY <1>1, <1>4, <1>6, <2>2, <3>1
    <3> QED
      BY <3>2, InFilesIs
  <2> QED
    BY <2>1, <2>2
<1>12. InFiles(g) = IF cut THEN InFiles(fs) \ Numbers(was) ELSE InFiles(fs)
  BY <1>11
<1> QED
  BY <1>5, <1>6, <1>8, <1>9, <1>10, <1>12 DEF OpenedAs, was

-----------------------------------------------------------------------------
\* What is in the files and what is gone are the records logged.
Accounted(fs, lost, n) ==
  /\ fs \in FileSets /\ InOrder(fs)
  /\ InFiles(fs) \cup lost = 1 .. n /\ InFiles(fs) \cap lost = {}

LEMMA AccountGoesOn ==
  ASSUME NEW n \in Nat, NEW fs, NEW lost, Accounted(fs, lost, n),
         NEW gs \in FileSets, InOrder(gs)
  PROVE  /\ InFiles(gs) \subseteq InFiles(fs)
              => /\ Accounted(gs, lost \cup (InFiles(fs) \ InFiles(gs)), n)
                 /\ Accounted(gs, lost \cup ((InFiles(fs) \cup {n + 1}) \ InFiles(gs)), n + 1)
         /\ (InFiles(gs) \subseteq InFiles(fs) \cup {n + 1} /\ n + 1 \in InFiles(gs))
              => /\ Accounted(gs, lost \cup (InFiles(fs) \ InFiles(gs)), n + 1)
                 /\ Accounted(gs, lost \cup ((InFiles(fs) \cup {n + 1}) \ InFiles(gs)), n + 1)
         /\ InFiles(gs) = InFiles(fs)
              => Accounted(gs, lost, n) /\ Accounted(gs, lost \cup {n + 1}, n + 1)
         /\ InFiles(gs) = InFiles(fs) \cup {n + 1} => Accounted(gs, lost, n + 1)
<1> DEFINE A == InFiles(fs)
           B == InFiles(gs)
<1>1. A \cup lost = 1 .. n /\ A \cap lost = {}
  BY DEF Accounted
<1>2. 1 .. n + 1 = (1 .. n) \cup {n + 1} /\ n + 1 \notin 1 .. n
  OBVIOUS
<1>3. ASSUME NEW more, B \cup more = 1 .. n, B \cap more = {} PROVE Accounted(gs, more, n)
  BY <1>3 DEF Accounted
<1>4. ASSUME NEW more, B \cup more = 1 .. n + 1, B \cap more = {}
      PROVE  Accounted(gs, more, n + 1)
  BY <1>4 DEF Accounted
<1> HIDE DEF A, B
<1>5. ASSUME B \subseteq A
      PROVE  /\ Accounted(gs, lost \cup (A \ B), n)
             /\ Accounted(gs, lost \cup ((A \cup {n + 1}) \ B), n + 1)
  BY <1>1, <1>2, <1>3, <1>4, <1>5
<1>6. ASSUME B \subseteq A \cup {n + 1}, n + 1 \in B
      PROVE  /\ Accounted(gs, lost \cup (A \ B), n + 1)
             /\ Accounted(gs, lost \cup ((A \cup {n + 1}) \ B), n + 1)
  BY <1>1, <1>2, <1>4, <1>6
<1>7. B = A => Accounted(gs, lost, n) /\ Accounted(gs, lost \cup {n + 1}, n + 1)
  BY <1>1, <1>2, <1>3, <1>4
<1>8. B = A \cup {n + 1} => Accounted(gs, lost, n + 1)
  BY <1>1, <1>2, <1>4
<1> QED
  BY <1>5, <1>6, <1>7, <1>8 DEF A, B

\* The numbers stored are those before the next.
LEMMA StoredBefore ==
  ASSUME NEW n \in Nat, NEW fs, NEW lost, Accounted(fs, lost, n)
  PROVE  \A x \in InFiles(fs) \cup lost : x \in Nat /\ x < n + 1
BY DEF Accounted

-----------------------------------------------------------------------------
(* The rotating sink.  Until a file call fails its files are without a gap, *)
(* and what is gone is older than what is left.                             *)

Unbroken(fs, lost, most) ==
  /\ DOMAIN fs = {} \/ \E m \in 0 .. most : DOMAIN fs = 0 .. m
  /\ \A x \in lost, y \in InFiles(fs) : x < y
  /\ lost # {} => DOMAIN fs = 0 .. most

\* A rotation loses the oldest, and only of as many files as there may be.
LEMMA RotationUnbroken ==
  ASSUME max_files_ \in Nat, NEW n \in Nat, NEW fs, NEW lost, Accounted(fs, lost, n),
         RotatingFiles(fs, max_files_), Unbroken(fs, lost, max_files_), 0 \in DOMAIN fs,
         NEW g, g = Rotated(fs, 0)
  PROVE  Unbroken(g, lost \cup (InFiles(fs) \ InFiles(g)), max_files_)
<1> DEFINE dropped == InFiles(fs) \ InFiles(g)
<1>1. PICK m \in 0 .. max_files_ : DOMAIN fs = 0 .. m
  BY DEF Unbroken
<1>2. /\ DOMAIN g = 0 .. Fewer(m + 1, max_files_)
      /\ InFiles(g) = InFiles(Unlink(fs, max_files_))
  BY <1>1, RotationShape
<1>3. /\ fs \in FileSets /\ Ranked(fs)
  BY DEF RotatingFiles
<1>4. Fewer(m + 1, max_files_) \in 0 .. max_files_
        /\ (m = max_files_ => Fewer(m + 1, max_files_) = max_files_)
  BY DEF Fewer
<1>5. ASSUME NEW x \in dropped
      PROVE  max_files_ \in DOMAIN fs /\ x \in Numbers(fs[max_files_])
  <2>1. PICK k \in DOMAIN fs : x \in Numbers(fs[k])
    BY InFilesIs
  <2>2. k = max_files_
    BY <1>2, <1>3, <2>1, LeftInFiles
  <2> QED
    BY <2>1, <2>2
<1>6. ASSUME NEW y \in InFiles(g)
      PROVE  \E k \in DOMAIN fs : k < max_files_ /\ y \in Numbers(fs[k])
  <2>1. PICK k \in DOMAIN fs \ {max_files_} : y \in Numbers(fs[k])
    BY <1>2, <1>3, LeftInFiles
  <2> QED
    BY <1>1, <2>1
<1>7. ASSUME NEW x \in lost \cup dropped, NEW y \in InFiles(g) PROVE x < y
  <2>1. PICK k \in DOMAIN fs : k < max_files_ /\ y \in Numbers(fs[k])
    BY <1>6
  <2>2. CASE x \in lost
    BY <2>1, <2>2, InFilesIs DEF Unbroken
  <2>3. CASE x \in dropped
    BY <1>3, <1>5, <2>1, <2>3 DEF Ranked
  <2> QED
    BY <2>2, <2>3
<1>8. ASSUME lost \cup dropped # {} PROVE DOMAIN g = 0 .. max_files_
  <2>1. max_files_ \in DOMAIN fs
    <3>1. CASE lost # {}
      BY <3>1 DEF Unbroken
    <3>2. CASE dropped # {}
      BY <1>5, <3>2
    <3> QED
      BY <1>8, <3>1, <3>2
  <2>2. m = max_files_
    BY <1>1, <2>1
  <2> QED
    BY <1>2, <1>4, <2>2
<1> QED
  BY <1>2, <1>4, <1>7, <1>8 DEF Unbroken

\* A record more in the first file.
LEMMA WriteUnbroken ==
  ASSUME NEW most \in Nat, NEW n \in Nat, NEW fs \in FileSets, NEW lost,
         \A x \in lost : x < n + 1,
         Unbroken(fs, lost, most), 0 \in DOMAIN fs,
         NEW r \in Records, r.number = n + 1, NEW g, WrittenTo(fs, 0, r, g)
  PROVE  Unbroken(g, lost, most)
<1>1. DOMAIN g = DOMAIN fs /\ InFiles(g) = InFiles(fs) \cup {n + 1}
  BY DEF WrittenTo
<1> QED
  BY <1>1 DEF Unbroken

-----------------------------------------------------------------------------
(* The days of the daily sink.                                              *)

LEMMA DayBounds ==
  ASSUME NEW t \in Nat
  PROVE  Day(t) \in Nat /\ Day(t) * DayLength <= t /\ t < (Day(t) + 1) * DayLength
<1>1. DayLength \in Nat \ {0}
  BY FileSinksAssumption
<1>2. \A d \in Nat \ {0} : /\ t \div d \in Nat
                           /\ (t \div d) * d <= t /\ t < ((t \div d) + 1) * d
  OBVIOUS
<1> QED
  BY <1>1, <1>2 DEF Day

LEMMA DaysApart ==
  ASSUME NEW a \in Nat, NEW b \in Nat
  PROVE  /\ a * DayLength \in Nat
         /\ (a + 1) * DayLength = a * DayLength + DayLength
         /\ (a + 2) * DayLength = a * DayLength + 2 * DayLength
         /\ a < b => (a + 1) * DayLength <= b * DayLength
         /\ a <= b => a * DayLength <= b * DayLength
<1>1. DayLength \in Nat \ {0}
  BY FileSinksAssumption
<1>2. \A d \in Nat \ {0} : /\ a * d \in Nat
                           /\ (a + 1) * d = a * d + d /\ (a + 2) * d = a * d + 2 * d
  OBVIOUS
<1>3. ASSUME NEW x \in Nat, NEW y \in Nat, x <= y PROVE x * DayLength <= y * DayLength
  <2>1. \A d \in Nat : x * d <= y * d
    BY <1>3
  <2> QED
    BY <1>1, <2>1
<1>4. a < b => (a + 1) * DayLength <= b * DayLength
  <2>1. a + 1 \in Nat /\ (a < b => a + 1 <= b)
    OBVIOUS
  <2> QED
    BY <1>3, <2>1
<1> QED
  BY <1>1, <1>2, <1>3, <1>4

LEMMA RotationIsNext ==
  ASSUME rotation_m_ \in 0 .. DayLength - 1, NEW now \in Nat
  PROVE  /\ NextRotation(now) \in Nat
         /\ now < NextRotation(now) /\ NextRotation(now) <= now + DayLength
         /\ NextRotation(now) <= (Day(now) + 2) * DayLength
         /\ rotation_m_ = 0 => NextRotation(now) = (Day(now) + 1) * DayLength
<1> DEFINE p == Day(now) * DayLength
<1>1. /\ DayLength \in Nat \ {0} /\ Day(now) \in Nat
  BY FileSinksAssumption, DayBounds
<1>2. /\ p \in Nat /\ p <= now
      /\ (Day(now) + 1) * DayLength = p + DayLength
      /\ (Day(now) + 2) * DayLength = p + 2 * DayLength
      /\ now < p + DayLength
  BY <1>1, DayBounds, DaysApart
<1>3. NextRotation(now) = IF p + rotation_m_ > now THEN p + rotation_m_
                          ELSE p + rotation_m_ + DayLength
  BY DEF NextRotation
<1> HIDE DEF p
<1> QED
  BY <1>1, <1>2, <1>3

\* A record is in the file of its day or of the day before.
InTime(d, r) == d * DayLength - 1 <= r.time /\ r.time < (d + 2) * DayLength
Timed(fs) == \A d \in DOMAIN fs : \A r \in Range(fs[d]) : InTime(d, r)

LEMMA WriteTimed ==
  ASSUME NEW fs \in FileSets, Timed(fs), NEW name \in Nat, NEW r \in Records, InTime(name, r),
         NEW g, WrittenTo(fs, name, r, g)
  PROVE  Timed(g)
<1> DEFINE was == RecordsOf(fs, name)
           is == Append(was, r)
<1>1. /\ was \in Seq(Records)
      /\ name \in DOMAIN fs => was = fs[name]
      /\ name \notin DOMAIN fs => was = <<>>
  BY RecordsThere
<1> HIDE DEF was
<1>2. \A x \in Range(is) : x \in Range(was) \/ x = r
  BY <1>1 DEF Range
<1>3. Range(<<>>) = {}
  BY DEF Range
<1>4. /\ DOMAIN g = DOMAIN fs \cup {name} /\ g[name] = is
      /\ \A n \in DOMAIN fs : n # name => g[n] = fs[n]
  BY DEF WrittenTo, was
<1> HIDE DEF is
<1>5. ASSUME NEW x \in Range(is) PROVE InTime(name, x)
  <2>1. CASE name \in DOMAIN fs
    BY <1>1, <1>2, <1>5, <2>1 DEF Timed
  <2>2. CASE name \notin DOMAIN fs
    BY <1>1, <1>2, <1>3, <1>5, <2>2
  <2> QED
    BY <2>1, <2>2
<1> QED
  BY <1>4, <1>5 DEF Timed

LEMMA OpenTimed ==
  ASSUME NEW fs \in FileSets, Timed(fs), NEW name \in Nat, NEW cut \in BOOLEAN,
         NEW g, OpenedAs(fs, name, cut, g)
  PROVE  Timed(g)
<1>1. /\ name \in DOMAIN fs => RecordsOf(fs, name) = fs[name]
      /\ name \notin DOMAIN fs => RecordsOf(fs, name) = <<>>
  BY RecordsThere
<1>2. Range(<<>>) = {}
  BY DEF Range
<1>3. /\ DOMAIN g = DOMAIN fs \cup {name}
      /\ g[name] = <<>> \/ g[name] = RecordsOf(fs, name)
      /\ \A n \in DOMAIN fs : n # name => g[n] = fs[n]
  BY DEF OpenedAs
<1> QED
  BY <1>1, <1>2, <1>3 DEF Timed

LEMMA UnlinkTimed ==
  ASSUME NEW fs \in FileSets, Timed(fs), NEW name, NEW g, g = Unlink(fs, name)
  PROVE  Timed(g)
<1>1. DOMAIN g = DOMAIN fs \ {name} /\ \A n \in DOMAIN g : g[n] = fs[n]
  <2>1. /\ DOMAIN Unlink(fs, name) = DOMAIN fs \ {name}
        /\ \A n \in DOMAIN fs \ {name} : Unlink(fs, name)[n] = fs[n]
    BY Unlinked
  <2> QED
    BY <2>1
<1> QED
  BY <1>1 DEF Timed

\* The files kept: the newest that were opened.  If the sink rotates at midnight,
\* their days are over at the next rotation.
DaysKept(q, most, nextDay, m, days) ==
  /\ days \in Seq(Nat) /\ q \in RingsOf(most, Nat \cup {NoItem}) /\ HoldsNewest(q, most, days)
  /\ m = 0 => \A i \in 1 .. Len(days) : (days[i] + 1) * DayLength <= nextDay

\* To pop the front of a full queue makes the room that a push would make.
LEMMA PopAndPush ==
  ASSUME NEW most \in Nat \ {0}, NEW S, NEW q \in RingsOf(most, S), Full(q), NEW x \in S
  PROVE  PushBack(PopFront(q), x) =
           [PushBack(q, x) EXCEPT !.overrun_counter = q.overrun_counter]
<1> DEFINE h == q.head
           t == q.tail
           next == PlaceOf(most, h, 1)
           w == [q.v EXCEPT ![t] = x]
           p == PopFront(q)
<1>1. /\ q.max_items = most + 1 /\ h \in 0 .. most /\ t \in 0 .. most
      /\ After(q, t) = PlaceOf(most, t, 1) /\ After(q, h) = next
      /\ q.overrun_counter \in Nat
  BY RingOfFields
<1>2. PlaceOf(most, t, 1) = h
  BY <1>1 DEF Full
<1>3. next # h
  BY <1>1 DEF PlaceOf
<1>4. q = [max_items |-> q.max_items, head |-> h, tail |-> t,
           overrun_counter |-> q.overrun_counter, v |-> q.v]
  BY DEF RingsOf
<1>5. p = [max_items |-> q.max_items, head |-> next, tail |-> t,
           overrun_counter |-> q.overrun_counter, v |-> q.v]
  BY <1>1, <1>4 DEF PopFront
<1> HIDE DEF next, p
<1>6. After(p, t) = h
  BY <1>1, <1>2, <1>5 DEF After
<1>7. PushBack(p, x) = [max_items |-> q.max_items, head |-> next, tail |-> h,
                        overrun_counter |-> q.overrun_counter, v |-> w]
  <2>1. p.max_items # 0 /\ p.tail = t /\ p.head = next /\ p.v = q.v
    BY <1>1, <1>5
  <2> QED
    BY <1>3, <1>5, <1>6, <2>1 DEF PushBack
<1>8. PushBack(q, x) = [max_items |-> q.max_items, head |-> next, tail |-> h,
                        overrun_counter |-> q.overrun_counter + 1, v |-> w]
  <2>1. q.max_items # 0
    BY <1>1
  <2> QED
    BY <1>1, <1>2, <1>4, <2>1 DEF PushBack
<1> QED
  BY <1>7, <1>8 DEF p

LEMMA KeepDay ==
  ASSUME NEW most \in Nat \ {0}, NEW q, NEW old \in Nat, NEW m, NEW days,
         DaysKept(q, most, old, m, days), NEW day \in Nat, NEW next \in Nat,
         m = 0 => old <= next /\ (day + 1) * DayLength <= next,
         NEW p, p = PushBack(IF Full(q) THEN PopFront(q) ELSE q, day)
  PROVE  \E more : DaysKept(p, most, next, m, more)
<1> DEFINE S == Nat \cup {NoItem}
           more == Append(days, day)
           b == PushBack(q, day)
<1>1. days \in Seq(Nat) /\ q \in RingsOf(most, S) /\ HoldsNewest(q, most, days)
  BY DEF DaysKept
<1>2. days \in Seq(S) /\ day \in S
  BY <1>1
<1>3. b \in RingsOf(most, S) /\ HoldsNewest(b, most, more)
  <2> HIDE DEF S
  <2> QED
    BY <1>1, <1>2, PushedNewest
<1>4. q.overrun_counter \in Nat
  <2> HIDE DEF S
  <2> QED
    BY <1>1, RingOfFields
<1>5. p = b \/ p = [b EXCEPT !.overrun_counter = q.overrun_counter]
  <2>1. CASE Full(q)
    <3>1. p = PushBack(PopFront(q), day)
      BY <2>1
    <3> HIDE DEF S
    <3> QED
      BY <1>1, <1>2, <2>1, <3>1, PopAndPush
  <2>2. CASE ~Full(q)
    BY <2>2
  <2> QED
    BY <2>1, <2>2
<1> HIDE DEF b
<1>6. p \in RingsOf(most, S) /\ p.head = b.head /\ p.tail = b.tail /\ p.v = b.v
      /\ p.max_items = b.max_items
  <2> HIDE DEF S
  <2> QED
    BY <1>3, <1>4, <1>5 DEF RingsOf
<1>7. HoldsNewest(p, most, more)
  <2>1. Size(p) = Size(b)
    BY <1>6 DEF Size
  <2> HIDE DEF more
  <2> QED
    BY <1>3, <1>6, <2>1 DEF HoldsNewest
<1>8. /\ more \in Seq(Nat) /\ Len(more) = Len(days) + 1 /\ more[Len(days) + 1] = day
      /\ \A i \in 1 .. Len(days) : more[i] = days[i]
  BY <1>1
<1> HIDE DEF more
<1>9. ASSUME m = 0, NEW i \in 1 .. Len(more) PROVE (more[i] + 1) * DayLength <= next
  <2>1. CASE i = Len(days) + 1
    BY <1>8, <1>9, <2>1
  <2>2. CASE i # Len(days) + 1
    <3>1. i \in 1 .. Len(days)
      BY <1>1, <1>8, <2>2
    <3>2. days[i] \in Nat /\ more[i] = days[i]
      BY <1>1, <1>8, <3>1
    <3>3. (days[i] + 1) * DayLength <= old
      BY <1>9, <3>1 DEF DaysKept
    <3>4. (days[i] + 1) * DayLength \in Nat
      <4>1. days[i] + 1 \in Nat
        BY <3>2
      <4> QED
        BY <4>1, DaysApart
    <3> HIDE DEF DaysKept
    <3> DEFINE a == (days[i] + 1) * DayLength
    <3>5. a <= old /\ a \in Nat /\ old <= next
      BY <1>9, <3>3, <3>4
    <3> HIDE DEF a
    <3>6. a <= next
      BY <3>5
    <3> QED
      BY <3>2, <3>6 DEF a
  <2> QED
    BY <2>1, <2>2
<1> QED
  BY <1>6, <1>7, <1>8, <1>9 DEF DaysKept

LEMMA FrontIsKept ==
  ASSUME NEW most \in Nat \ {0}, NEW q, NEW next, NEW m, NEW days,
         DaysKept(q, most, next, m, days), Full(q)
  PROVE  \E i \in 1 .. Len(days) : FrontItem(q) = days[i]
<1> DEFINE S == Nat \cup {NoItem}
           h == q.head
           t == q.tail
           k == Size(q)
           L == Len(days)
<1>1. days \in Seq(Nat) /\ q \in RingsOf(most, S) /\ HoldsNewest(q, most, days)
  BY DEF DaysKept
<1>2. /\ h \in 0 .. most /\ t \in 0 .. most
      /\ k = IF t >= h THEN t - h ELSE most + 1 - (h - t)
      /\ After(q, t) = PlaceOf(most, t, 1)
  <2> HIDE DEF S
  <2> QED
    BY <1>1, RingOfFields
<1>3. PlaceOf(most, t, 1) = h
  BY <1>2 DEF Full
<1>4. /\ k = Fewer(L, most) /\ L \in Nat
      /\ \A i \in 1 .. k : q.v[PlaceOf(most, h, i - 1)] = days[L - k + i]
  BY <1>1 DEF HoldsNewest
<1>5. PlaceOf(most, h, 0) = h
  BY <1>2 DEF PlaceOf
<1> HIDE DEF h, t, k, L
<1>6. k = most
  BY <1>2, <1>3 DEF PlaceOf
<1>7. 1 \in 1 .. k /\ L - k + 1 \in 1 .. L /\ 1 - 1 = 0
  BY <1>4, <1>6 DEF Fewer
<1>8. q.v[h] = days[L - k + 1]
  BY <1>4, <1>5, <1>7
<1> QED
  BY <1>7, <1>8 DEF FrontItem, h, L

-----------------------------------------------------------------------------
(* The sinks.                                                               *)

SinkTypes ==
  /\ sinkKind \in {"none", "daily", "rotating", "basic"} /\ truncate_ \in BOOLEAN
  /\ max_files_ \in Nat /\ rotation_m_ \in 0 .. DayLength - 1
  /\ sinkUp \in {"no", "yes", "crashed"}
  /\ openName \in Nat /\ fdOpen \in BOOLEAN /\ linked \in BOOLEAN
  /\ rotation_tp_ \in Nat /\ current_size_ \in Nat /\ clock \in Nat
  /\ recordCount \in Nat /\ fileErrors \in Nat

\* Before a sink is chosen nothing was logged.
NothingLogged ==
  /\ files = EmptyFiles /\ gone = {} /\ recordCount = 0 /\ sinkUp = "no" /\ fileErrors = 0

RotatingInv ==
  /\ RotatingFiles(files, max_files_)
  /\ sinkUp = "yes" => 0 \in DOMAIN files /\ SizeOf(files[0]) <= current_size_
  /\ fileErrors = 0 => Unbroken(files, gone, max_files_)

\* While the file of a day is open, the next rotation is at most two days after
\* the day began; it can be closed only by a failure.
DailyInv ==
  /\ Timed(files)
  /\ ~truncate_ /\ max_files_ = 0
       => Cardinality(gone) <= fileErrors + (IF sinkUp = "crashed" THEN 1 ELSE 0)
  /\ sinkUp = "yes" /\ fdOpen
       => openName * DayLength <= clock /\ rotation_tp_ <= (openName + 2) * DayLength
  /\ sinkUp = "yes" /\ ~fdOpen => fileErrors > 0
  /\ sinkUp = "crashed" => fileErrors > 0
  /\ sinkUp = "yes" /\ (max_files_ = 0 \/ rotation_m_ = 0) => linked
  /\ sinkUp = "yes" /\ max_files_ > 0
       => \E days : DaysKept(filenames_q_, max_files_, rotation_tp_, rotation_m_, days)

FileSinksInv ==
  /\ SinkTypes
  /\ Accounted(files, gone, recordCount)
  /\ sinkKind = "none" => NothingLogged
  /\ sinkKind = "rotating" => RotatingInv
  /\ sinkKind = "daily" => DailyInv
  /\ sinkKind = "basic" /\ sinkUp = "yes" => linked

LEMMA NoFiles ==
  /\ EmptyFiles \in FileSets /\ DOMAIN EmptyFiles = {} /\ InFiles(EmptyFiles) = {}
  /\ Accounted(EmptyFiles, {}, 0)
<1>1. DOMAIN EmptyFiles = {} /\ EmptyFiles = [n \in {} |-> EmptyFiles[n]]
  BY DEF EmptyFiles
<1>2. EmptyFiles \in FileSets
  BY <1>1, FileSetIs
<1>3. InFiles(EmptyFiles) = {}
  BY <1>1, InFilesIs
<1>4. InOrder(EmptyFiles)
  BY <1>1 DEF InOrder
<1> QED
  BY <1>1, <1>2, <1>3, <1>4 DEF Accounted

LEMMA SinksStart == FileSinksInit => FileSinksInv
<1> SUFFICES ASSUME FileSinksInit PROVE FileSinksInv
  OBVIOUS
<1>1. SinkTypes
  <2>1. 0 \in 0 .. DayLength - 1
    BY FileSinksAssumption
  <2> QED
    BY <2>1 DEF FileSinksInit, SinkTypes
<1>2. NothingLogged /\ sinkKind = "none"
  BY DEF FileSinksInit, NothingLogged
<1>3. Accounted(files, gone, recordCount)
  BY <1>2, NoFiles DEF NothingLogged
<1> QED
  BY <1>1, <1>2, <1>3 DEF FileSinksInv

LEMMA ChooseKeeps ==
  ASSUME FileSinksInv, ChooseSink
  PROVE  FileSinksInv'
<1>1. /\ sinkKind = "none" /\ NothingLogged /\ SinkTypes /\ Accounted(files, gone, recordCount)
      /\ UNCHANGED <<sinkUp, files, openName, fdOpen, linked, rotation_tp_, filenames_q_,
                     current_size_, clock, recordCount, fileErrors, restarts, gone>>
      /\ sinkKind' \in {"daily", "rotating", "basic"} /\ truncate_' \in BOOLEAN
      /\ max_files_' \in MaxFiles /\ rotation_m_' \in RotationTimes
  BY DEF FileSinksInv, ChooseSink, helperVars
<1>2. /\ max_files_' \in Nat /\ rotation_m_' \in 0 .. DayLength - 1
  BY <1>1, FileSinksAssumption
<1>3. SinkTypes'
  BY <1>1, <1>2 DEF SinkTypes
<1>4. /\ files' = EmptyFiles /\ gone' = {} /\ recordCount' = 0 /\ sinkUp' = "no"
      /\ fileErrors' = 0
  BY <1>1 DEF NothingLogged
<1>5. RotatingInv'
  <2>1. RotatingFiles(EmptyFiles, max_files_')
    BY NoFiles DEF RotatingFiles, Accounted, Ranked, AllFit
  <2>2. Unbroken(EmptyFiles, {}, max_files_')
    BY NoFiles DEF Unbroken
  <2> QED
    BY <1>4, <2>1, <2>2 DEF RotatingInv
<1>6. DailyInv'
  <2>1. Timed(EmptyFiles)
    BY NoFiles DEF Timed
  <2>2. Cardinality({}) = 0
    BY FS_EmptySet
  <2> QED
    BY <1>4, <2>1, <2>2 DEF DailyInv
<1>7. Accounted(files', gone', recordCount')
  BY <1>4, NoFiles
<1> QED
  BY <1>1, <1>3, <1>4, <1>5, <1>6, <1>7 DEF FileSinksInv

\* A step after the choice of the sink leaves it as it is.
SameChoice ==
  /\ sinkKind' = sinkKind /\ truncate_' = truncate_ /\ max_files_' = max_files_
  /\ rotation_m_' = rotation_m_

LEMMA OpenDailyKeeps ==
  ASSUME FileSinksInv, ConstructSink, sinkKind = "daily"
  PROVE  FileSinksInv'
<1> DEFINE d == Day(clock)
           dropped == IF truncate_ THEN Numbers(RecordsOf(files, d)) ELSE {}
<1>1. /\ SinkTypes /\ Accounted(files, gone, recordCount) /\ DailyInv /\ OpenDaily
      /\ sinkUp = "no" /\ sinkUp' = "yes" /\ fdOpen' = TRUE /\ linked' = TRUE
      /\ SameChoice /\ clock' = clock /\ recordCount' = recordCount /\ fileErrors' = fileErrors
  BY DEF FileSinksInv, ConstructSink, OpenBasic, OpenRotating, SameChoice, choiceVars
<1>2. /\ files' = Opened(files, d, truncate_) /\ gone' = gone \cup dropped
      /\ openName' = d /\ rotation_tp_' = NextRotation(clock)
      /\ filenames_q_' = (IF max_files_ > 0 THEN PushBack(NewQueue(max_files_), d)
                          ELSE DisabledQueue)
      /\ current_size_' = current_size_
  BY <1>1 DEF OpenDaily
<1>3. /\ clock \in Nat /\ max_files_ \in Nat /\ truncate_ \in BOOLEAN /\ recordCount \in Nat
      /\ rotation_m_ \in 0 .. DayLength - 1 /\ fileErrors \in Nat
  BY <1>1 DEF SinkTypes
<1>4. /\ d \in Nat /\ d * DayLength <= clock
      /\ NextRotation(clock) \in Nat /\ NextRotation(clock) <= (d + 2) * DayLength
      /\ rotation_m_ = 0 => NextRotation(clock) = (d + 1) * DayLength
  BY <1>3, DayBounds, RotationIsNext
<1> HIDE DEF d, dropped
<1>5. /\ files \in FileSets /\ InOrder(files)
  BY <1>1 DEF Accounted
<1>6. OpenedAs(files, d, truncate_, files')
  BY <1>2, <1>3, <1>4, <1>5, OpenKeeps
<1>7. Accounted(files', gone', recordCount')
  <2>1. files' \in FileSets /\ InOrder(files') /\ InFiles(files') \subseteq InFiles(files)
    BY <1>6 DEF OpenedAs
  <2>2. CASE truncate_
    <3>1. InFiles(files') = InFiles(files) \ dropped
      BY <1>6, <2>2 DEF OpenedAs, dropped
    <3>2. dropped \subseteq InFiles(files)
      <4>1. CASE d \in DOMAIN files
        BY <1>5, <2>2, <4>1, RecordsThere, InFilesIs DEF dropped
      <4>2. CASE d \notin DOMAIN files
        BY <1>5, <2>2, <4>2, RecordsThere, NumbersOf DEF dropped
      <4> QED
        BY <4>1, <4>2
    <3>3. InFiles(files) \ InFiles(files') = dropped
      BY <3>1, <3>2
    <3> QED
      BY <1>1, <1>2, <1>3, <2>1, <3>3, AccountGoesOn
  <2>3. CASE ~truncate_
    <3>1. InFiles(files') = InFiles(files) /\ gone' = gone
      BY <1>2, <1>6, <2>3 DEF OpenedAs, dropped
    <3> QED
      BY <1>1, <1>3, <2>1, <3>1, AccountGoesOn
  <2> QED
    BY <1>3, <2>2, <2>3
<1>8. SinkTypes'
  BY <1>1, <1>2, <1>3, <1>4 DEF SinkTypes, SameChoice
<1>9. Timed(files')
  BY <1>1, <1>3, <1>4, <1>5, <1>6, OpenTimed DEF DailyInv
<1>10. ASSUME ~truncate_, max_files_ = 0 PROVE Cardinality(gone') <= fileErrors + 0
  <2>1. gone' = gone
    BY <1>2, <1>10 DEF dropped
  <2>2. Cardinality(gone) <= fileErrors + 0
    BY <1>1, <1>10 DEF DailyInv
  <2> QED
    BY <2>1, <2>2
<1>11. ASSUME max_files_ > 0
       PROVE  \E days : DaysKept(filenames_q_', max_files_, rotation_tp_', rotation_m_, days)
  <2> DEFINE S == Nat \cup {NoItem}
             q == NewQueue(max_files_)
  <2>1. q \in RingsOf(max_files_, S) /\ HoldsNewest(q, max_files_, <<>>)
    BY <1>3, NewRing
  <2>2. DaysKept(q, max_files_, 0, rotation_m_, <<>>)
    BY <2>1 DEF DaysKept
  <2>3. max_files_ \in Nat \ {0} /\ 0 \in Nat
    BY <1>3, <1>11
  <2>4. filenames_q_' = PushBack(IF Full(q) THEN PopFront(q) ELSE q, d)
    <3>1. ~Full(q)
      <4>1. q.max_items = max_files_ + 1 /\ q.head = 0 /\ q.tail = 0
        BY DEF NewQueue
      <4>2. (0 + 1) % (max_files_ + 1) = PlaceOf(max_files_, 0, 1)
        BY <1>3, PlaceIsModulo
      <4>3. PlaceOf(max_files_, 0, 1) = 1
        BY <2>3 DEF PlaceOf
      <4> QED
        BY <4>1, <4>2, <4>3 DEF Full, After
    <3> QED
      BY <1>2, <1>11, <3>1
  <2> HIDE DEF q
  <2>5. rotation_m_ = 0 => 0 <= rotation_tp_' /\ (d + 1) * DayLength <= rotation_tp_'
    BY <1>2, <1>4
  <2>6. rotation_tp_' \in Nat
    BY <1>2, <1>4
  <2> QED
    BY <1>4, <2>2, <2>3, <2>4, <2>5, <2>6, KeepDay
<1>12. DailyInv'
  <2>1. openName' * DayLength <= clock' /\ rotation_tp_' <= (openName' + 2) * DayLength
    BY <1>1, <1>2, <1>4
  <2> QED
    BY <1>1, <1>9, <1>10, <1>11, <2>1 DEF DailyInv, SameChoice
<1> QED
  BY <1>1, <1>7, <1>8, <1>12 DEF FileSinksInv, SameChoice

\* How many are gone, with one more.
LEMMA OneGoneMore ==
  ASSUME NEW n \in Nat, NEW fs, NEW lost, Accounted(fs, lost, n)
  PROVE  /\ IsFiniteSet(lost) /\ Cardinality(lost) \in Nat
         /\ Cardinality(lost \cup {n + 1}) \in Nat
         /\ Cardinality(lost \cup {n + 1}) <= Cardinality(lost) + 1
<1>1. IsFiniteSet(1 .. n) /\ lost \subseteq 1 .. n
  BY FS_Interval DEF Accounted
<1>2. IsFiniteSet(lost) /\ Cardinality(lost) \in Nat
  BY <1>1, FS_Subset, FS_CardinalityType
<1>3. \/ Cardinality(lost \cup {n + 1}) = Cardinality(lost)
      \/ Cardinality(lost \cup {n + 1}) = Cardinality(lost) + 1
  BY <1>2, FS_AddElement
<1> QED
  BY <1>2, <1>3

\* The daily sink writes, or finds no file open.
LEMMA LogDailyKeeps ==
  ASSUME FileSinksInv, NEW r \in Records, r.number = recordCount + 1,
         r.time \in {clock, clock - 1},
         sinkUp = "yes", SameChoice, recordCount' = recordCount + 1, clock' = clock,
         LogDaily(r) \/ WriteUnopened(r)
  PROVE  FileSinksInv'
<1>1. /\ SinkTypes /\ Accounted(files, gone, recordCount) /\ DailyInv
      /\ sinkKind = "daily" /\ r.time < rotation_tp_
      /\ openName' = openName /\ fdOpen' = fdOpen /\ linked' = linked
      /\ rotation_tp_' = rotation_tp_ /\ filenames_q_' = filenames_q_
      /\ current_size_' = current_size_ /\ fileErrors' = fileErrors
  BY DEF FileSinksInv, LogDaily, WriteUnopened, helperVars
<1>2. /\ clock \in Nat /\ max_files_ \in Nat /\ recordCount \in Nat /\ openName \in Nat
      /\ rotation_tp_ \in Nat /\ fileErrors \in Nat /\ fdOpen \in BOOLEAN /\ linked \in BOOLEAN
      /\ sinkUp \in {"no", "yes", "crashed"}
  BY <1>1 DEF SinkTypes
<1>3. files \in FileSets /\ InOrder(files) /\ r.time \in Nat
  BY <1>1, RecordFields DEF Accounted
<1>4. \A x \in InFiles(files) : x < r.number
  BY <1>1, <1>2, StoredBefore
<1>5. SinkTypes'
  <2>1. sinkUp' \in {"no", "yes", "crashed"}
    BY <1>2 DEF LogDaily, WriteUnopened
  <2> QED
    BY <1>1, <1>2, <2>1 DEF SinkTypes, SameChoice
<1>6. CASE LogDaily(r) /\ linked
  <2>1. /\ fdOpen /\ sinkUp' = sinkUp /\ gone' = gone
        /\ files' = Written(files, openName, TRUE, r)
    BY <1>2, <1>6 DEF LogDaily
  <2>2. WrittenTo(files, openName, r, files') /\ InOrder(files')
    BY <1>2, <1>3, <1>4, <2>1, WriteKeeps
  <2>3. Accounted(files', gone', recordCount')
    <3>1. files' \in FileSets /\ InFiles(files') = InFiles(files) \cup {recordCount + 1}
      BY <2>2 DEF WrittenTo
    <3> QED
      BY <1>1, <1>2, <2>1, <2>2, <3>1, AccountGoesOn
  <2>4. InTime(openName, r)
    <3> DEFINE a == openName * DayLength
               b == (openName + 2) * DayLength
    <3>1. a <= clock /\ rotation_tp_ <= b /\ a \in Nat /\ b \in Nat
      <4>1. openName + 2 \in Nat
        BY <1>2
      <4> QED
        BY <1>1, <1>2, <2>1, <4>1, DaysApart DEF DailyInv
    <3> HIDE DEF a, b
    <3>2. a - 1 <= r.time /\ r.time < b
      BY <1>1, <1>2, <1>3, <3>1
    <3> QED
      BY <3>2 DEF InTime, a, b
  <2>5. Timed(files')
    BY <1>1, <1>2, <1>3, <2>2, <2>4, WriteTimed DEF DailyInv
  <2>6. DailyInv'
    BY <1>1, <2>1, <2>5 DEF DailyInv, SameChoice
  <2> QED
    BY <1>1, <1>5, <2>3, <2>6 DEF FileSinksInv, SameChoice
<1>7. ASSUME files' = files, gone' = gone \cup {recordCount + 1}
      PROVE  /\ Accounted(files', gone', recordCount')
             /\ Timed(files')
             /\ IsFiniteSet(gone) /\ Cardinality(gone) \in Nat
             /\ Cardinality(gone') <= Cardinality(gone) + 1
  <2>1. Accounted(files', gone', recordCount')
    BY <1>1, <1>2, <1>3, <1>7, AccountGoesOn
  <2>2. /\ IsFiniteSet(gone) /\ Cardinality(gone) \in Nat
        /\ Cardinality(gone') <= Cardinality(gone) + 1
    BY <1>1, <1>2, <1>7, OneGoneMore
  <2> QED
    BY <1>1, <1>7, <2>1, <2>2 DEF DailyInv
<1>8. CASE LogDaily(r) /\ ~linked
  <2>1. fdOpen /\ sinkUp' = sinkUp /\ gone' = gone \cup {recordCount + 1} /\ files' = files
    BY <1>2, <1>8 DEF LogDaily, Written
  <2>2. max_files_ # 0
    BY <1>1, <1>8 DEF DailyInv
  <2>3. DailyInv'
    BY <1>1, <1>7, <2>1, <2>2 DEF DailyInv, SameChoice
  <2> QED
    BY <1>1, <1>5, <1>7, <2>1, <2>3 DEF FileSinksInv, SameChoice
<1>9. CASE WriteUnopened(r)
  <2>1. ~fdOpen /\ sinkUp' = "crashed" /\ gone' = gone \cup {recordCount + 1} /\ files' = files
    BY <1>9 DEF WriteUnopened
  <2>2. fileErrors > 0
    BY <1>1, <2>1 DEF DailyInv
  <2>3. ASSUME ~truncate_, max_files_ = 0 PROVE Cardinality(gone') <= fileErrors + 1
    <3>1. Cardinality(gone) <= fileErrors + 0
      BY <1>1, <2>3 DEF DailyInv
    <3>2. Cardinality(gone) \in Nat /\ Cardinality(gone') <= Cardinality(gone) + 1
      BY <1>7, <2>1
    <3>3. Cardinality(gone') \in Nat
      <4>1. IsFiniteSet(gone')
        BY <1>7, <2>1, FS_AddElement
      <4> QED
        BY <4>1, FS_CardinalityType
    <3> QED
      BY <1>2, <3>1, <3>2, <3>3
  <2>4. DailyInv'
    BY <1>1, <1>7, <2>1, <2>2, <2>3 DEF DailyInv, SameChoice
  <2> QED
    BY <1>1, <1>5, <1>7, <2>1, <2>4 DEF FileSinksInv, SameChoice
<1> QED
  BY <1>2, <1>6, <1>8, <1>9

\* The file of the day does not open.
LEMMA OpenFailsKeeps ==
  ASSUME FileSinksInv, NEW r \in Records, r.number = recordCount + 1,
         sinkUp = "yes", SameChoice, recordCount' = recordCount + 1, clock' = clock,
         OpenFails(r)
  PROVE  FileSinksInv'
<1>1. /\ SinkTypes /\ Accounted(files, gone, recordCount) /\ DailyInv /\ sinkKind = "daily"
      /\ fileErrors' = fileErrors + 1 /\ openName' = Day(r.time) /\ fdOpen' = FALSE
      /\ gone' = gone \cup {recordCount + 1}
      /\ sinkUp' = sinkUp /\ files' = files /\ linked' = linked /\ rotation_tp_' = rotation_tp_
      /\ filenames_q_' = filenames_q_ /\ current_size_' = current_size_
  BY DEF FileSinksInv, OpenFails
<1>2. /\ recordCount \in Nat /\ fileErrors \in Nat /\ r.time \in Nat
  BY <1>1, RecordFields DEF SinkTypes
<1>3. Accounted(files', gone', recordCount')
  <2>1. files' \in FileSets /\ InOrder(files')
    BY <1>1 DEF Accounted
  <2> QED
    BY <1>1, <1>2, <2>1, AccountGoesOn
<1>4. SinkTypes'
  <2>1. openName' \in Nat /\ fileErrors' \in Nat /\ fdOpen' \in BOOLEAN
    <3>1. Day(r.time) \in Nat
      BY <1>2, DayBounds
    <3>2. fdOpen' \in BOOLEAN
      BY <1>1
    <3>3. fileErrors' \in Nat
      BY <1>1, <1>2
    <3>4. openName' \in Nat
      BY <1>1, <3>1
    <3> QED
      BY <3>2, <3>3, <3>4
  <2>2. /\ UNCHANGED <<sinkUp, linked, rotation_tp_, current_size_>>
        /\ recordCount' = recordCount + 1 /\ clock' = clock /\ SinkTypes
    BY <1>1
  <2> QED
    BY <1>2, <2>1, <2>2 DEF SinkTypes, SameChoice
<1>5. ASSUME ~truncate_, max_files_ = 0 PROVE Cardinality(gone') <= fileErrors + 1
  <2>1. Cardinality(gone) <= fileErrors + 0
    BY <1>1, <1>5 DEF DailyInv
  <2>2. /\ Cardinality(gone) \in Nat /\ Cardinality(gone') \in Nat
        /\ Cardinality(gone') <= Cardinality(gone) + 1
    BY <1>1, <1>2, OneGoneMore
  <2> QED
    BY <1>2, <2>1, <2>2
<1>6. DailyInv'
  <2>1. fileErrors' > 0 /\ Timed(files')
    BY <1>1, <1>2 DEF DailyInv
  <2>2. ~truncate_' /\ max_files_' = 0
          => Cardinality(gone') <= fileErrors' + (IF sinkUp' = "crashed" THEN 1 ELSE 0)
    BY <1>1, <1>2, <1>5 DEF SameChoice
  <2> QED
    BY <1>1, <2>1, <2>2 DEF DailyInv, SameChoice
<1> QED
  BY <1>1, <1>3, <1>4, <1>6 DEF FileSinksInv, SameChoice

\* A rotation at midnight never removes the file it has just opened.
LEMMA OldIsOver ==
  ASSUME SinkTypes, DailyInv, sinkUp = "yes", rotation_m_ = 0, max_files_ > 0,
         Full(filenames_q_), NEW t \in Nat, t >= rotation_tp_
  PROVE  FrontItem(filenames_q_) # Day(t)
<1>1. max_files_ \in Nat \ {0} /\ rotation_tp_ \in Nat
  BY DEF SinkTypes
<1>2. PICK days : DaysKept(filenames_q_, max_files_, rotation_tp_, rotation_m_, days)
  BY DEF DailyInv
<1>3. PICK i \in 1 .. Len(days) : FrontItem(filenames_q_) = days[i]
  BY <1>1, <1>2, FrontIsKept
<1>4. days[i] \in Nat /\ (days[i] + 1) * DayLength <= rotation_tp_
  BY <1>2 DEF DaysKept
<1>5. t < (Day(t) + 1) * DayLength /\ Day(t) \in Nat
  BY DayBounds
<1>6. SUFFICES ASSUME days[i] = Day(t) PROVE FALSE
  BY <1>3
<1> DEFINE a == (Day(t) + 1) * DayLength
<1>7. a \in Nat
  <2>1. Day(t) + 1 \in Nat
    BY <1>5
  <2> QED
    BY <2>1, DaysApart
<1>8. a <= rotation_tp_ /\ t < a
  BY <1>4, <1>5, <1>6
<1> HIDE DEF a
<1> QED
  BY <1>1, <1>7, <1>8

\* The next rotation after one: of the file opened, and of those kept.
LEMMA RotationAfter ==
  ASSUME SinkTypes, NEW t \in Nat, t \in {clock, clock - 1}, t >= rotation_tp_
  PROVE  /\ NextRotation(clock) \in Nat
         /\ Day(t) \in Nat /\ Day(t) * DayLength <= clock
         /\ NextRotation(clock) <= (Day(t) + 2) * DayLength
         /\ rotation_m_ = 0 => /\ rotation_tp_ <= NextRotation(clock)
                               /\ (Day(t) + 1) * DayLength <= NextRotation(clock)
<1>1. /\ clock \in Nat /\ rotation_m_ \in 0 .. DayLength - 1 /\ rotation_tp_ \in Nat
      /\ DayLength \in Nat \ {0}
  BY FileSinksAssumption DEF SinkTypes
<1> DEFINE d == Day(t)
           p == d * DayLength
           next == NextRotation(clock)
<1>2. /\ d \in Nat /\ p <= t /\ t < (d + 1) * DayLength
  BY DayBounds
<1>3. p \in Nat /\ (d + 1) * DayLength = p + DayLength /\ (d + 2) * DayLength = p + 2 * DayLength
  BY <1>2, DaysApart
<1>4. next \in Nat /\ clock < next /\ next <= clock + DayLength
  BY <1>1, RotationIsNext
<1>5. ASSUME rotation_m_ = 0 PROVE p + DayLength <= next
  <2> DEFINE c == Day(clock)
  <2>1. c \in Nat /\ next = (c + 1) * DayLength /\ clock < (c + 1) * DayLength
    BY <1>1, <1>5, DayBounds, RotationIsNext
  <2>2. d <= c
    <3>1. SUFFICES ASSUME c < d PROVE FALSE
      BY <1>2, <2>1
    <3>2. (c + 1) * DayLength <= p
      BY <1>2, <2>1, <3>1, DaysApart
    <3>3. (c + 1) * DayLength \in Nat
      BY <1>4, <2>1
    <3> HIDE DEF p, c
    <3> DEFINE z == (c + 1) * DayLength
    <3>4. z \in Nat /\ z <= p /\ clock < z
      BY <2>1, <3>2, <3>3
    <3> HIDE DEF z
    <3> QED
      BY <1>1, <1>2, <1>3, <3>4
  <2>3. (d + 1) * DayLength <= (c + 1) * DayLength
    <3>1. d + 1 \in Nat /\ c + 1 \in Nat /\ d + 1 <= c + 1
      BY <1>2, <2>1, <2>2
    <3> HIDE DEF c, d
    <3> QED
      BY <3>1, DaysApart
  <2> QED
    BY <1>3, <2>1, <2>3
<1> HIDE DEF p, next, d
<1>6. p <= clock /\ next <= p + 2 * DayLength /\ rotation_tp_ <= next
  BY <1>1, <1>2, <1>3, <1>4
<1> QED
  BY <1>2, <1>3, <1>4, <1>5, <1>6 DEF p, next, d

LEMMA RotateDailyKeeps ==
  ASSUME FileSinksInv, NEW r \in Records, r.number = recordCount + 1,
         r.time \in {clock, clock - 1},
         sinkUp = "yes", SameChoice, recordCount' = recordCount + 1, clock' = clock,
         RotateDaily(r)
  PROVE  FileSinksInv'
<1> DEFINE d == Day(r.time)
           bare == Opened(files, d, truncate_)
           opened == Written(bare, d, TRUE, r)
           old == FrontItem(filenames_q_)
           deletes == max_files_ > 0 /\ Full(filenames_q_)
<1>1. /\ SinkTypes /\ Accounted(files, gone, recordCount) /\ DailyInv
      /\ sinkKind = "daily" /\ r.time >= rotation_tp_
      /\ openName' = d /\ fdOpen' = TRUE /\ rotation_tp_' = NextRotation(clock)
      /\ gone' = gone \cup ((InFiles(files) \cup {r.number}) \ InFiles(files'))
      /\ sinkUp' = sinkUp /\ current_size_' = current_size_
  BY DEF FileSinksInv, RotateDaily
<1>2. PICK fails \in BOOLEAN :
        /\ fileErrors' = IF fails THEN fileErrors + 1 ELSE fileErrors
        /\ files' = IF deletes /\ ~fails THEN Unlink(opened, old) ELSE opened
        /\ linked' = ~(deletes /\ ~fails /\ old = d)
        /\ filenames_q_' =
             IF max_files_ = 0 THEN filenames_q_
             ELSE PushBack(IF deletes THEN PopFront(filenames_q_) ELSE filenames_q_, d)
  BY <1>1 DEF RotateDaily
<1>3. /\ clock \in Nat /\ max_files_ \in Nat /\ truncate_ \in BOOLEAN /\ recordCount \in Nat
      /\ rotation_tp_ \in Nat /\ fileErrors \in Nat
  BY <1>1 DEF SinkTypes
<1>4. r.time \in Nat
  BY RecordFields
<1>5. /\ NextRotation(clock) \in Nat /\ d \in Nat /\ d * DayLength <= clock
      /\ NextRotation(clock) <= (d + 2) * DayLength
      /\ rotation_m_ = 0 => /\ rotation_tp_ <= NextRotation(clock)
                            /\ (d + 1) * DayLength <= NextRotation(clock)
  BY <1>1, <1>4, RotationAfter
<1>6. InTime(d, r)
  <2> DEFINE a == d * DayLength
             b == (d + 2) * DayLength
             c == (d + 1) * DayLength
  <2>1. a <= r.time /\ r.time < c
    BY <1>4, DayBounds
  <2>2. a \in Nat /\ c = a + DayLength /\ b = a + 2 * DayLength /\ DayLength \in Nat
    BY <1>5, DaysApart, FileSinksAssumption
  <2> HIDE DEF a, b, c
  <2>3. a - 1 <= r.time /\ r.time < b
    BY <1>4, <2>1, <2>2
  <2> QED
    BY <2>3 DEF InTime, a, b
<1> HIDE DEF d
<1>7. files \in FileSets /\ InOrder(files) /\ Timed(files)
  BY <1>1 DEF Accounted, DailyInv
<1>8. OpenedAs(files, d, truncate_, bare) /\ Timed(bare)
  <2> HIDE DEF bare
  <2>1. OpenedAs(files, d, truncate_, bare)
    BY <1>3, <1>5, <1>7, OpenKeeps DEF bare
  <2> QED
    BY <1>3, <1>5, <1>7, <2>1, OpenTimed
<1>9. bare \in FileSets /\ InOrder(bare) /\ InFiles(bare) \subseteq InFiles(files)
  <2> HIDE DEF bare
  <2> QED
    BY <1>8 DEF OpenedAs
<1>10. \A x \in InFiles(bare) : x < r.number
  <2> HIDE DEF bare
  <2> QED
    BY <1>1, <1>3, <1>9, StoredBefore
<1> HIDE DEF bare
<1>11. WrittenTo(bare, d, r, opened) /\ InOrder(opened)
  BY <1>5, <1>9, <1>10, WriteKeeps
<1> HIDE DEF opened
<1>12. /\ opened \in FileSets /\ InFiles(opened) = InFiles(bare) \cup {recordCount + 1}
  BY <1>11 DEF WrittenTo
<1>13. Timed(opened)
  BY <1>5, <1>6, <1>8, <1>9, <1>11, WriteTimed
<1>14. /\ files' \in FileSets /\ InOrder(files') /\ Timed(files')
       /\ InFiles(files') \subseteq InFiles(opened)
  <2>1. CASE files' = opened
    BY <1>11, <1>12, <1>13, <2>1
  <2>2. CASE files' = Unlink(opened, old)
    <3> HIDE DEF old
    <3> QED
      BY <1>11, <1>12, <1>13, <2>2, Unlinked, UnlinkKeeps, UnlinkTimed
  <2> QED
    BY <1>2, <2>1, <2>2
<1>15. Accounted(files', gone', recordCount')
  <2>1. InFiles(files') \subseteq InFiles(files) \cup {recordCount + 1}
    BY <1>9, <1>12, <1>14
  <2>2. CASE recordCount + 1 \in InFiles(files')
    BY <1>1, <1>3, <1>14, <2>1, <2>2, AccountGoesOn
  <2>3. CASE recordCount + 1 \notin InFiles(files')
    <3>1. InFiles(files') \subseteq InFiles(files)
      BY <2>1, <2>3
    <3> QED
      BY <1>1, <1>3, <1>14, <3>1, AccountGoesOn
  <2> QED
    BY <2>2, <2>3
<1>16. SinkTypes'
  BY <1>1, <1>2, <1>3, <1>5 DEF SinkTypes, SameChoice
<1>17. ASSUME ~truncate_, max_files_ = 0 PROVE Cardinality(gone') <= fileErrors' + 0
  <2>1. files' = opened /\ fileErrors' \in {fileErrors, fileErrors + 1}
    BY <1>2, <1>17
  <2>2. InFiles(bare) = InFiles(files)
    BY <1>8, <1>17 DEF OpenedAs
  <2>3. gone' = gone
    BY <1>1, <1>12, <2>1, <2>2
  <2>4. Cardinality(gone) <= fileErrors + 0 /\ Cardinality(gone) \in Nat
    BY <1>1, <1>3, <1>17, OneGoneMore DEF DailyInv
  <2> QED
    BY <1>3, <2>1, <2>3, <2>4
<1>18. ASSUME max_files_ = 0 \/ rotation_m_ = 0 PROVE linked'
  <2>1. ASSUME deletes, old = d PROVE FALSE
    <3>1. rotation_m_ = 0 /\ max_files_ > 0 /\ Full(filenames_q_)
      BY <1>18, <2>1
    <3> QED
      BY <1>1, <1>4, <2>1, <3>1, OldIsOver DEF d
  <2> QED
    BY <1>2, <2>1
<1>19. ASSUME max_files_ > 0
       PROVE  \E days : DaysKept(filenames_q_', max_files_, rotation_tp_', rotation_m_, days)
  <2>1. PICK days : DaysKept(filenames_q_, max_files_, rotation_tp_, rotation_m_, days)
    BY <1>1, <1>19 DEF DailyInv
  <2>2. filenames_q_' =
          PushBack(IF Full(filenames_q_) THEN PopFront(filenames_q_) ELSE filenames_q_, d)
    BY <1>2, <1>3, <1>19
  <2>3. max_files_ \in Nat \ {0}
    BY <1>3, <1>19
  <2>4. rotation_m_ = 0 => rotation_tp_ <= rotation_tp_' /\ (d + 1) * DayLength <= rotation_tp_'
    BY <1>1, <1>5
  <2>5. rotation_tp_' \in Nat
    BY <1>1, <1>5
  <2> QED
    BY <1>3, <1>5, <2>1, <2>2, <2>3, <2>4, <2>5, KeepDay
<1>20. DailyInv'
  <2>1. openName' * DayLength <= clock' /\ rotation_tp_' <= (openName' + 2) * DayLength
    BY <1>1, <1>5
  <2>2. sinkUp' = "yes" /\ fdOpen' = TRUE
    BY <1>1
  <2> HIDE DEF deletes, old
  <2> QED
    BY <1>14, <1>17, <1>18, <1>19, <2>1, <2>2 DEF DailyInv, SameChoice
<1> QED
  BY <1>1, <1>15, <1>16, <1>20 DEF FileSinksInv, SameChoice

LEMMA TimeKeeps ==
  ASSUME FileSinksInv, TimeGoesOn
  PROVE  FileSinksInv'
<1>1. /\ sinkKind = "daily" /\ clock' = clock + 1 /\ SameChoice
      /\ UNCHANGED <<sinkUp, files, openName, fdOpen, linked, rotation_tp_, filenames_q_,
                     current_size_, recordCount, fileErrors, gone>>
  BY DEF TimeGoesOn, SameChoice, choiceVars, helperVars
<1>2. SinkTypes /\ Accounted(files, gone, recordCount) /\ DailyInv
  BY <1>1 DEF FileSinksInv
<1>3. SinkTypes'
  BY <1>1, <1>2 DEF SinkTypes, SameChoice
<1>4. DailyInv'
  <2>1. sinkUp = "yes" /\ fdOpen => openName * DayLength <= clock + 1
    <3> DEFINE a == openName * DayLength
    <3>1. a \in Nat /\ clock \in Nat
      BY <1>2, DaysApart DEF SinkTypes
    <3>2. sinkUp = "yes" /\ fdOpen => a <= clock
      BY <1>2 DEF DailyInv
    <3> HIDE DEF a
    <3>3. sinkUp = "yes" /\ fdOpen => a <= clock + 1
      BY <3>1, <3>2
    <3> QED
      BY <3>3 DEF a
  <2> QED
    BY <1>1, <1>2, <2>1 DEF DailyInv, SameChoice
<1> QED
  BY <1>1, <1>2, <1>3, <1>4 DEF FileSinksInv, SameChoice

LEMMA CloseKeeps ==
  ASSUME FileSinksInv, CloseSink
  PROVE  FileSinksInv'
<1>1. /\ sinkUp = "yes" /\ sinkUp' = "no" /\ SameChoice
      /\ UNCHANGED <<files, openName, fdOpen, linked, rotation_tp_, filenames_q_,
                     current_size_, clock, recordCount, fileErrors, gone>>
  BY DEF CloseSink, SameChoice, choiceVars, helperVars
<1>2. SinkTypes /\ Accounted(files, gone, recordCount) /\ sinkKind # "none"
  BY <1>1 DEF FileSinksInv, NothingLogged
<1>3. SinkTypes'
  BY <1>1, <1>2 DEF SinkTypes, SameChoice
<1>4. DailyInv => DailyInv'
  BY <1>1 DEF DailyInv, SameChoice
<1>5. RotatingInv => RotatingInv'
  BY <1>1 DEF RotatingInv, SameChoice
<1> QED
  BY <1>1, <1>2, <1>3, <1>4, <1>5 DEF FileSinksInv, SameChoice

\* The basic sink.
LEMMA OpenBasicKeeps ==
  ASSUME FileSinksInv, ConstructSink, sinkKind = "basic"
  PROVE  FileSinksInv'
<1> DEFINE dropped == IF truncate_ THEN Numbers(RecordsOf(files, 0)) ELSE {}
<1>1. /\ SinkTypes /\ Accounted(files, gone, recordCount) /\ OpenBasic
      /\ sinkUp' = "yes" /\ fdOpen' = TRUE /\ linked' = TRUE
      /\ SameChoice /\ clock' = clock /\ recordCount' = recordCount /\ fileErrors' = fileErrors
  BY DEF FileSinksInv, ConstructSink, OpenDaily, OpenRotating, SameChoice, choiceVars
<1>2. /\ files' = Opened(files, 0, truncate_) /\ gone' = gone \cup dropped
      /\ openName' = 0 /\ UNCHANGED <<rotation_tp_, filenames_q_, current_size_>>
  BY <1>1 DEF OpenBasic
<1>3. truncate_ \in BOOLEAN /\ recordCount \in Nat /\ 0 \in Nat
  BY <1>1 DEF SinkTypes
<1> HIDE DEF dropped
<1>4. /\ files \in FileSets /\ InOrder(files)
  BY <1>1 DEF Accounted
<1>5. OpenedAs(files, 0, truncate_, files')
  BY <1>2, <1>3, <1>4, OpenKeeps
<1>6. Accounted(files', gone', recordCount')
  <2>1. files' \in FileSets /\ InOrder(files') /\ InFiles(files') \subseteq InFiles(files)
    BY <1>5 DEF OpenedAs
  <2>2. CASE truncate_
    <3>1. InFiles(files') = InFiles(files) \ dropped
      BY <1>5, <2>2 DEF OpenedAs, dropped
    <3>2. dropped \subseteq InFiles(files)
      <4>1. CASE 0 \in DOMAIN files
        BY <1>4, <2>2, <4>1, RecordsThere, InFilesIs DEF dropped
      <4>2. CASE 0 \notin DOMAIN files
        BY <1>4, <2>2, <4>2, RecordsThere, NumbersOf DEF dropped
      <4> QED
        BY <4>1, <4>2
    <3>3. InFiles(files) \ InFiles(files') = dropped
      BY <3>1, <3>2
    <3> QED
      BY <1>1, <1>2, <1>3, <2>1, <3>3, AccountGoesOn
  <2>3. CASE ~truncate_
    <3>1. InFiles(files') = InFiles(files) /\ gone' = gone
      BY <1>2, <1>5, <2>3 DEF OpenedAs, dropped
    <3> QED
      BY <1>1, <1>3, <2>1, <3>1, AccountGoesOn
  <2> QED
    BY <1>3, <2>2, <2>3
<1>7. SinkTypes'
  BY <1>1, <1>2, <1>3 DEF SinkTypes, SameChoice
<1> QED
  BY <1>1, <1>6, <1>7 DEF FileSinksInv, SameChoice

LEMMA LogBasicKeeps ==
  ASSUME FileSinksInv, NEW r \in Records, r.number = recordCount + 1,
         sinkUp = "yes", SameChoice, recordCount' = recordCount + 1, clock' = clock,
         LogBasic(r)
  PROVE  FileSinksInv'
<1>1. /\ SinkTypes /\ Accounted(files, gone, recordCount) /\ linked
      /\ sinkKind = "basic" /\ files' = Written(files, 0, linked, r)
      /\ UNCHANGED <<sinkUp, openName, fdOpen, linked, rotation_tp_, filenames_q_,
                     current_size_, fileErrors, gone>>
  BY DEF FileSinksInv, LogBasic, helperVars
<1>2. recordCount \in Nat /\ 0 \in Nat /\ files \in FileSets /\ InOrder(files)
  BY <1>1 DEF SinkTypes, Accounted
<1>3. \A x \in InFiles(files) : x < r.number
  BY <1>1, <1>2, StoredBefore
<1>4. files' = Written(files, 0, TRUE, r)
  BY <1>1 DEF Written
<1>5. WrittenTo(files, 0, r, files') /\ InOrder(files')
  BY <1>2, <1>3, <1>4, WriteKeeps
<1>6. Accounted(files', gone', recordCount')
  <2>1. files' \in FileSets /\ InFiles(files') = InFiles(files) \cup {recordCount + 1}
    BY <1>5 DEF WrittenTo
  <2> QED
    BY <1>1, <1>2, <1>5, <2>1, AccountGoesOn
<1>7. SinkTypes'
  BY <1>1, <1>2 DEF SinkTypes, SameChoice
<1> QED
  BY <1>1, <1>6, <1>7 DEF FileSinksInv, SameChoice

\* The rotating sink.
LEMMA OpenRotatingKeeps ==
  ASSUME FileSinksInv, ConstructSink, sinkKind = "rotating"
  PROVE  FileSinksInv'
<1> DEFINE first == RecordsOf(files, 0)
           size == SizeOf(first)
<1>1. /\ SinkTypes /\ Accounted(files, gone, recordCount) /\ RotatingInv /\ OpenRotating
      /\ sinkUp' = "yes" /\ fdOpen' = TRUE /\ linked' = TRUE
      /\ SameChoice /\ clock' = clock /\ recordCount' = recordCount /\ fileErrors' = fileErrors
  BY DEF FileSinksInv, ConstructSink, OpenDaily, OpenBasic, SameChoice, choiceVars
<1>2. /\ files' = (IF truncate_ /\ size > 0 THEN Rotated(files, 0) ELSE Opened(files, 0, FALSE))
      /\ current_size_' = size
      /\ gone' = gone \cup (InFiles(files) \ InFiles(files'))
      /\ openName' = 0 /\ UNCHANGED <<rotation_tp_, filenames_q_>>
  BY <1>1 DEF OpenRotating
<1>3. /\ truncate_ \in BOOLEAN /\ recordCount \in Nat /\ 0 \in Nat /\ max_files_ \in Nat
      /\ 0 \in 0 .. max_files_ /\ fileErrors \in Nat
  BY <1>1 DEF SinkTypes
<1>4. /\ files \in FileSets /\ InOrder(files) /\ RotatingFiles(files, max_files_)
      /\ Ranked(files) /\ AllFit(files) /\ DOMAIN files \subseteq 0 .. max_files_
  BY <1>1 DEF Accounted, RotatingInv, RotatingFiles
<1>5. /\ first \in Seq(Records) /\ (0 \notin DOMAIN files => first = <<>>)
      /\ (0 \in DOMAIN files => first = files[0])
  BY <1>4, RecordsThere
<1> HIDE DEF first
<1>6. size \in Nat /\ SizeOf(<<>>) = 0
  BY <1>5, SizeTyped
<1>7. fileErrors = 0 => Unbroken(files, gone, max_files_)
  BY <1>1 DEF RotatingInv
<1>8. /\ RotatingFiles(files', max_files_) /\ 0 \in DOMAIN files'
      /\ SizeOf(files'[0]) <= size /\ InFiles(files') \subseteq InFiles(files)
      /\ fileErrors = 0 => Unbroken(files', gone', max_files_)
  <2>1. CASE truncate_ /\ size > 0
    <3> DEFINE g == Rotated(files, 0)
    <3>1. files' = g /\ 0 \in DOMAIN files
      BY <1>2, <1>5, <1>6, <2>1
    <3> HIDE DEF g, size
    <3>2. /\ RotatingFiles(g, max_files_) /\ 0 \in DOMAIN g /\ g[0] = <<>>
          /\ InFiles(g) \subseteq InFiles(files)
      BY <1>3, <1>4, RotationKeeps DEF g
    <3>3. fileErrors = 0 => Unbroken(g, gone \cup (InFiles(files) \ InFiles(g)), max_files_)
      BY <1>1, <1>3, <1>4, <1>7, <3>1, RotationUnbroken DEF g
    <3> QED
      BY <1>2, <1>6, <3>1, <3>2, <3>3
  <2>2. CASE ~(truncate_ /\ size > 0)
    <3>1. files' = Opened(files, 0, FALSE)
      BY <1>2, <2>2
    <3>2. OpenedAs(files, 0, FALSE, files') /\ Ranked(files') /\ AllFit(files')
      BY <1>3, <1>4, <3>1, OpenKeeps
    <3>3. /\ files' \in FileSets /\ DOMAIN files' = DOMAIN files \cup {0} /\ files'[0] = first
          /\ InOrder(files') /\ InFiles(files') = InFiles(files)
      BY <3>2 DEF OpenedAs, first
    <3>4. DOMAIN files' \subseteq 0 .. max_files_
      BY <1>3, <1>4, <3>3
    <3>5. RotatingFiles(files', max_files_)
      BY <3>2, <3>3, <3>4 DEF RotatingFiles
    <3>6. gone' = gone
      BY <1>2, <3>3
    <3>7. ASSUME fileErrors = 0 PROVE Unbroken(files', gone, max_files_)
      <4>1. Unbroken(files, gone, max_files_)
        BY <1>7, <3>7
      <4>2. CASE DOMAIN files = {}
        <5>1. DOMAIN files' = {0} /\ 0 .. 0 = {0}
          BY <3>3, <4>2
        <5>2. gone = {}
          BY <1>3, <4>1, <4>2 DEF Unbroken
        <5> QED
          BY <1>3, <5>1, <5>2 DEF Unbroken
      <4>3. ASSUME NEW m \in 0 .. max_files_, DOMAIN files = 0 .. m
            PROVE  Unbroken(files', gone, max_files_)
        <5>1. DOMAIN files' = DOMAIN files
          BY <3>3, <4>3
        <5> QED
          BY <3>3, <4>1, <5>1 DEF Unbroken
      <4> QED
        BY <4>1, <4>2, <4>3 DEF Unbroken
    <3>8. SizeOf(files'[0]) <= size
      BY <1>6, <3>3
    <3> QED
      BY <3>3, <3>5, <3>6, <3>7, <3>8
  <2> QED
    BY <2>1, <2>2
<1> HIDE DEF size
<1>9. Accounted(files', gone', recordCount')
  <2>1. files' \in FileSets /\ InOrder(files')
    BY <1>8 DEF RotatingFiles
  <2> QED
    BY <1>1, <1>2, <1>3, <1>8, <2>1, AccountGoesOn
<1>10. SinkTypes'
  BY <1>1, <1>2, <1>3, <1>6 DEF SinkTypes, SameChoice
<1>11. RotatingInv'
  BY <1>1, <1>2, <1>8 DEF RotatingInv, SameChoice
<1> QED
  BY <1>1, <1>9, <1>10, <1>11 DEF FileSinksInv, SameChoice

LEMMA LogRotatingKeeps ==
  ASSUME FileSinksInv, NEW r \in Records, r.number = recordCount + 1,
         sinkUp = "yes", SameChoice, recordCount' = recordCount + 1, clock' = clock,
         LogRotating(r) \/ RotateRotating(r)
  PROVE  FileSinksInv'
<1> DEFINE fs == IF LogRotating(r) THEN files ELSE Rotated(files, 0)
           cur == IF LogRotating(r) THEN current_size_ + r.size ELSE r.size
           lost == gone \cup (InFiles(files) \ InFiles(fs))
<1>1. /\ SinkTypes /\ Accounted(files, gone, recordCount) /\ RotatingInv
      /\ sinkKind = "rotating"
      /\ UNCHANGED <<sinkUp, openName, fdOpen, linked, rotation_tp_, filenames_q_, fileErrors>>
  BY DEF FileSinksInv, LogRotating, RotateRotating, helperVars
<1>2. /\ max_files_ \in Nat /\ recordCount \in Nat /\ current_size_ \in Nat /\ fileErrors \in Nat
      /\ 0 \in 0 .. max_files_ /\ 0 \in Nat /\ r.size \in Nat
  BY <1>1, RecordFields DEF SinkTypes
<1>3. /\ RotatingFiles(files, max_files_) /\ 0 \in DOMAIN files
      /\ SizeOf(files[0]) <= current_size_ /\ InOrder(files)
      /\ fileErrors = 0 => Unbroken(files, gone, max_files_)
  BY <1>1 DEF RotatingInv, RotatingFiles
<1>4. /\ files' = Written(fs, 0, TRUE, r) /\ current_size_' = cur
  BY DEF LogRotating, RotateRotating
<1>5. /\ RotatingFiles(fs, max_files_) /\ 0 \in DOMAIN fs /\ InFiles(fs) \subseteq InFiles(files)
      /\ fileErrors = 0 => Unbroken(fs, lost, max_files_)
  <2>1. CASE LogRotating(r)
    <3>1. fs = files
      BY <2>1
    <3> HIDE DEF fs
    <3>2. lost = gone
      BY <3>1
    <3> HIDE DEF lost
    <3> QED
      BY <1>3, <3>1, <3>2
  <2>2. CASE ~LogRotating(r)
    <3>1. fs = Rotated(files, 0)
      BY <2>2
    <3> HIDE DEF fs
    <3>2. /\ RotatingFiles(fs, max_files_) /\ 0 \in DOMAIN fs
          /\ InFiles(fs) \subseteq InFiles(files)
      BY <1>2, <1>3, <3>1, RotationKeeps
    <3>3. fileErrors = 0 => Unbroken(fs, lost, max_files_)
      BY <1>1, <1>2, <1>3, <3>1, RotationUnbroken
    <3> QED
      BY <3>2, <3>3
  <2> QED
    BY <2>1, <2>2
<1>6. /\ fs[0] \in Seq(Records) /\ RecordsOf(fs, 0) = fs[0] /\ fs \in FileSets
      /\ SizeOf(fs[0]) \in Nat
  <2> HIDE DEF fs
  <2>1. fs \in FileSets
    BY <1>5 DEF RotatingFiles
  <2>2. fs[0] \in Seq(Records)
    BY <1>5, <2>1, FileSetIs
  <2>3. RecordsOf(fs, 0) = fs[0]
    BY <1>5, <2>1, RecordsThere
  <2> QED
    BY <2>1, <2>2, <2>3, SizeTyped
<1>7. /\ SizeOf(Append(fs[0], r)) <= cur
      /\ Fits(Append(fs[0], r))
  <2>1. SizeOf(Append(fs[0], r)) = SizeOf(fs[0]) + r.size
    <3> HIDE DEF fs
    <3> QED
      BY <1>6, SizeMore
  <2>2. CASE LogRotating(r)
    <3>1. fs = files /\ cur = current_size_ + r.size
      BY <2>2
    <3>2. cur <= MaxSize
      BY <2>2, <3>1 DEF LogRotating
    <3> HIDE DEF fs, cur
    <3>3. SizeOf(fs[0]) <= current_size_
      BY <1>3, <3>1
    <3>4. SizeOf(Append(fs[0], r)) <= cur /\ SizeOf(Append(fs[0], r)) <= MaxSize
      BY <1>2, <1>6, <2>1, <3>1, <3>2, <3>3, FileSinksAssumption
    <3> QED
      BY <3>4 DEF Fits
  <2>3. CASE ~LogRotating(r)
    <3>1. fs = Rotated(files, 0) /\ cur = r.size
      BY <2>3
    <3> HIDE DEF fs, cur
    <3>2. fs[0] = <<>>
      BY <1>2, <1>3, <3>1, RotationKeeps
    <3>3. SizeOf(fs[0]) = 0 /\ Len(Append(fs[0], r)) = 1
      BY <3>2, SizeTyped
    <3> QED
      BY <1>2, <2>1, <3>1, <3>3 DEF Fits
  <2> QED
    BY <2>2, <2>3
<1>8. cur \in Nat
  BY <1>2
<1> HIDE DEF fs, cur
<1>9. \A x \in InFiles(files) \cup gone : x < recordCount + 1
  BY <1>1, <1>2, StoredBefore
<1>10. \A x \in InFiles(fs) : x < r.number
  BY <1>5, <1>9
<1>11. /\ WrittenTo(fs, 0, r, files') /\ InOrder(files') /\ Ranked(files') /\ AllFit(files')
  <2>1. InOrder(fs) /\ Ranked(fs) /\ AllFit(fs)
    BY <1>5 DEF RotatingFiles
  <2> QED
    BY <1>2, <1>4, <1>6, <1>7, <1>10, <2>1, WriteKeeps
<1>12. /\ files' \in FileSets /\ DOMAIN files' = DOMAIN fs \cup {0}
       /\ files'[0] = Append(fs[0], r)
       /\ InFiles(files') = InFiles(fs) \cup {recordCount + 1}
  BY <1>6, <1>11 DEF WrittenTo
<1>13. gone' = lost
  <2>1. CASE LogRotating(r)
    <3>1. gone' = gone /\ fs = files
      BY <2>1 DEF LogRotating, fs
    <3> QED
      BY <3>1
  <2>2. CASE RotateRotating(r)
    <3>1. gone' = gone \cup (InFiles(files) \ InFiles(files'))
      BY <2>2 DEF RotateRotating
    <3>2. recordCount + 1 \notin InFiles(files)
      BY <1>2, <1>9
    <3> QED
      BY <1>12, <3>1, <3>2
  <2> QED
    BY <2>1, <2>2
<1>14. Accounted(files', gone', recordCount')
  <2>1. Accounted(fs, lost, recordCount)
    <3>1. fs \in FileSets /\ InOrder(fs)
      BY <1>5 DEF RotatingFiles
    <3> QED
      BY <1>1, <1>2, <1>5, <3>1, AccountGoesOn
  <2> HIDE DEF lost
  <2> QED
    BY <1>2, <1>11, <1>12, <1>13, <2>1, AccountGoesOn
<1>15. RotatingFiles(files', max_files_)
  <2>1. DOMAIN files' \subseteq 0 .. max_files_
    BY <1>2, <1>5, <1>12 DEF RotatingFiles
  <2> QED
    BY <1>11, <1>12, <2>1 DEF RotatingFiles
<1>16. ASSUME fileErrors = 0 PROVE Unbroken(files', gone', max_files_)
  <2>1. \A x \in lost : x < recordCount + 1
    BY <1>5, <1>9
  <2> HIDE DEF lost
  <2> QED
    BY <1>2, <1>5, <1>6, <1>11, <1>13, <1>16, <2>1, WriteUnbroken
<1>17. SinkTypes'
  BY <1>1, <1>2, <1>4, <1>8 DEF SinkTypes, SameChoice
<1>18. RotatingInv'
  BY <1>1, <1>4, <1>7, <1>12, <1>15, <1>16 DEF RotatingInv, SameChoice
<1> QED
  BY <1>1, <1>14, <1>17, <1>18 DEF FileSinksInv, SameChoice

LEMMA RenameFailsKeeps ==
  ASSUME FileSinksInv, NEW r \in Records, r.number = recordCount + 1,
         sinkUp = "yes", SameChoice, recordCount' = recordCount + 1, clock' = clock,
         RenameFails(r)
  PROVE  FileSinksInv'
<1>1. /\ SinkTypes /\ Accounted(files, gone, recordCount) /\ RotatingInv
      /\ sinkKind = "rotating" /\ fileErrors' = fileErrors + 1 /\ current_size_' = 0
      /\ gone' = gone \cup ((InFiles(files) \cup {recordCount + 1}) \ InFiles(files'))
      /\ UNCHANGED <<sinkUp, openName, fdOpen, linked, rotation_tp_, filenames_q_>>
  BY DEF FileSinksInv, RenameFails, helperVars
<1>2. PICK i \in 1 .. max_files_ : files' = Rotated(files, i)
  BY DEF RenameFails
<1>3. max_files_ \in Nat /\ recordCount \in Nat /\ fileErrors \in Nat /\ i \in 0 .. max_files_
  BY <1>1 DEF SinkTypes
<1>4. RotatingFiles(files, max_files_)
  BY <1>1 DEF RotatingInv
<1>5. /\ RotatingFiles(files', max_files_) /\ 0 \in DOMAIN files' /\ files'[0] = <<>>
      /\ InFiles(files') \subseteq InFiles(files)
  BY <1>2, <1>3, <1>4, RotationKeeps
<1>6. Accounted(files', gone', recordCount')
  <2>1. files' \in FileSets /\ InOrder(files')
    BY <1>5 DEF RotatingFiles
  <2> QED
    BY <1>1, <1>3, <1>5, <2>1, AccountGoesOn
<1>7. SinkTypes'
  BY <1>1, <1>3 DEF SinkTypes, SameChoice
<1>8. RotatingInv'
  <2>1. fileErrors' # 0 /\ SizeOf(files'[0]) <= current_size_'
    BY <1>1, <1>3, <1>5, SizeTyped
  <2> QED
    BY <1>1, <1>5, <2>1 DEF RotatingInv, SameChoice
<1> QED
  BY <1>1, <1>6, <1>7, <1>8 DEF FileSinksInv, SameChoice

LEMMA LogRecordKeeps ==
  ASSUME FileSinksInv, LogRecord
  PROVE  FileSinksInv'
<1>1. PICK size \in RecordSizes, t \in {clock, clock - 1} \cap Nat :
        LET r == [number |-> recordCount + 1, time |-> t, size |-> size] IN
        \/ LogDaily(r) \/ RotateDaily(r) \/ OpenFails(r) \/ WriteUnopened(r) \/ LogBasic(r)
        \/ LogRotating(r) \/ RotateRotating(r) \/ RenameFails(r)
  BY DEF LogRecord
<1> DEFINE r == [number |-> recordCount + 1, time |-> t, size |-> size]
<1>2. /\ sinkUp = "yes" /\ recordCount' = recordCount + 1 /\ clock' = clock /\ SameChoice
  BY DEF LogRecord, SameChoice, choiceVars
<1>3. /\ r \in Records /\ r.number = recordCount + 1 /\ r.time \in {clock, clock - 1}
  <2>1. recordCount \in Nat
    BY DEF FileSinksInv, SinkTypes
  <2> QED
    BY <2>1 DEF Records
<1>4. \/ LogDaily(r) \/ RotateDaily(r) \/ OpenFails(r) \/ WriteUnopened(r) \/ LogBasic(r)
      \/ LogRotating(r) \/ RotateRotating(r) \/ RenameFails(r)
  BY <1>1
<1> HIDE DEF r
<1>5. CASE LogDaily(r) \/ WriteUnopened(r)
  BY <1>2, <1>3, <1>5, LogDailyKeeps
<1>6. CASE RotateDaily(r)
  BY <1>2, <1>3, <1>6, RotateDailyKeeps
<1>7. CASE OpenFails(r)
  BY <1>2, <1>3, <1>7, OpenFailsKeeps
<1>8. CASE LogBasic(r)
  BY <1>2, <1>3, <1>8, LogBasicKeeps
<1>9. CASE LogRotating(r) \/ RotateRotating(r)
  BY <1>2, <1>3, <1>9, LogRotatingKeeps
<1>10. CASE RenameFails(r)
  BY <1>2, <1>3, <1>10, RenameFailsKeeps
<1> QED
  BY <1>4, <1>5, <1>6, <1>7, <1>8, <1>9, <1>10

LEMMA FileSinksKeep ==
  ASSUME FileSinksInv, FileSinkStep \/ UNCHANGED sinkVars
  PROVE  FileSinksInv'
<1>1. CASE ChooseSink
  BY <1>1, ChooseKeeps
<1>2. CASE ConstructSink
  <2>1. sinkKind = "daily" \/ sinkKind = "basic" \/ sinkKind = "rotating"
    BY <1>2 DEF ConstructSink, OpenDaily, OpenBasic, OpenRotating
  <2> QED
    BY <1>2, <2>1, OpenDailyKeeps, OpenBasicKeeps, OpenRotatingKeeps
<1>3. CASE LogRecord
  BY <1>3, LogRecordKeeps
<1>4. CASE TimeGoesOn
  BY <1>4, TimeKeeps
<1>5. CASE CloseSink
  BY <1>5, CloseKeeps
<1>6. CASE UNCHANGED sinkVars
  <2>1. /\ SameChoice
        /\ UNCHANGED <<sinkUp, files, openName, fdOpen, linked, rotation_tp_, filenames_q_,
                       current_size_, clock, recordCount, fileErrors, gone>>
    BY <1>6 DEF sinkVars, choiceVars, helperVars, SameChoice
  <2>2. SinkTypes => SinkTypes'
    BY <2>1 DEF SinkTypes, SameChoice
  <2>3. RotatingInv => RotatingInv'
    BY <2>1 DEF RotatingInv, SameChoice
  <2>4. DailyInv => DailyInv'
    BY <2>1 DEF DailyInv, SameChoice
  <2>5. NothingLogged => NothingLogged'
    BY <2>1 DEF NothingLogged
  <2> QED
    BY <2>1, <2>2, <2>3, <2>4, <2>5 DEF FileSinksInv, SameChoice
<1> QED
  BY <1>1, <1>2, <1>3, <1>4, <1>5, <1>6 DEF FileSinkStep

LEMMA SinksTurn == [Next]_vars => FileSinkStep \/ UNCHANGED sinkVars
BY DEF Next, LogRuns, PatternRuns, SinksRun, FiltersRun, FormatStringRuns, NumbersRun, vars,
       OtherThanLog

LEMMA InvKeepsOrder == FileSinksInv => FilesKeepOrder
<1> SUFFICES ASSUME FileSinksInv PROVE FilesKeepOrder
  OBVIOUS
<1>1. SinkTypes /\ Accounted(files, gone, recordCount)
  BY DEF FileSinksInv
<1>2. /\ \A n \in DOMAIN files : Increasing(files[n])
      /\ \A n, k \in DOMAIN files : n # k => Numbers(files[n]) \cap Numbers(files[k]) = {}
      /\ InFiles(files) \cup gone = 1 .. recordCount /\ InFiles(files) \cap gone = {}
  BY <1>1 DEF Accounted, InOrder
<1>3. ASSUME sinkKind = "rotating"
      PROVE  /\ DOMAIN files \subseteq 0 .. max_files_
             /\ \A n \in DOMAIN files : SizeOf(files[n]) <= MaxSize \/ Len(files[n]) = 1
             /\ \A n, k \in DOMAIN files : n < k =>
                  \A x \in Numbers(files[n]), y \in Numbers(files[k]) : y < x
             /\ fileErrors = 0 => \A x \in gone, y \in InFiles(files) : x < y
             /\ fileErrors = 0 /\ gone # {} => DOMAIN files = 0 .. max_files_
  <2>1. RotatingInv
    BY <1>3 DEF FileSinksInv
  <2> QED
    BY <2>1 DEF RotatingInv, RotatingFiles, Ranked, AllFit, Fits, Unbroken
<1>4. ASSUME sinkKind = "daily"
      PROVE  /\ (~truncate_ /\ max_files_ = 0)
                  => Cardinality(gone) <= fileErrors + (IF sinkUp = "crashed" THEN 1 ELSE 0)
             /\ \A d \in DOMAIN files : \A r \in Range(files[d]) :
                  d * DayLength - 1 <= r.time /\ r.time < (d + 2) * DayLength
             /\ (rotation_m_ = 0 /\ sinkUp = "yes") => linked
             /\ sinkUp = "crashed" => fileErrors > 0
  <2>1. DailyInv
    BY <1>4 DEF FileSinksInv
  <2>2. \A d \in DOMAIN files : \A r \in Range(files[d]) :
          d * DayLength - 1 <= r.time /\ r.time < (d + 2) * DayLength
    BY <2>1 DEF DailyInv, Timed, InTime
  <2> QED
    BY <2>1, <2>2 DEF DailyInv
<1> QED
  BY <1>2, <1>3, <1>4 DEF FilesKeepOrder

\* Whatever the sizes, times and days, and whichever file calls fail, no record is
\* in two files or out of order, and none is gone but by a rotation, a truncation or
\* a failure (daily_file_sink.h:76-155, rotating_file_sink-inl.h:58-125).
THEOREM FilesStayInOrder == Spec => []FilesKeepOrder
<1>1. Init => FileSinksInv
  BY SinksStart DEF Init
<1>2. FileSinksInv /\ [Next]_vars => FileSinksInv'
  BY SinksTurn, FileSinksKeep
<1> QED
  BY <1>1, <1>2, InvKeepsOrder, PTL DEF Spec

-----------------------------------------------------------------------------
(* The pattern formatter: what a flag writes.                              *)

AllFlags == paddedFlags \cup bareFlags \cup {"chars"}

\* Characters and what cells are named by.  Of a literal the provers do not know
\* that it is a string.
CharSet == STRING \cup AllFlags \cup {" ", "[", "]", "date", "color", "reset"}

CellSet == [flag : CharSet, i : Int, second : Int]
Sides == {"left", "right", "center"}
Pads == [width : Nat, side : Sides, truncate : BOOLEAN, enabled : BOOLEAN]
Fields == [flag : AllFlags, pad : Pads, chars : Seq(CharSet)]
LogMsgs == [secs : Nat, size : Nat, source : BOOLEAN]

\* The formatters that tell the padder the size of their text, or pad nothing.
ToldFields == {f \in Fields : f.flag \in DOMAIN misjudged => ~f.pad.enabled}

\* The cells of one flag.
LEMMA CellsTyped ==
  ASSUME NEW flag \in CharSet, NEW n \in Nat, NEW second \in Int
  PROVE  Cells(flag, n, second) \in Seq(CellSet) /\ Len(Cells(flag, n, second)) = n
<1>1. ASSUME NEW i \in 1 .. n PROVE Cell(flag, i, second) \in CellSet
  BY DEF Cell, CellSet
<1> QED
  BY <1>1 DEF Cells

\* One character, many, and blanks.
LEMMA CharTyped ==
  ASSUME NEW c \in CharSet
  PROVE  PatternChar(c) \in CellSet
BY DEF PatternChar, Cell, CellSet

LEMMA CharsTyped ==
  ASSUME NEW cs \in Seq(CharSet)
  PROVE  Chars(cs) \in Seq(CellSet)
<1>1. ASSUME NEW i \in 1 .. Len(cs) PROVE PatternChar(cs[i]) \in CellSet
  BY CharTyped
<1>2. Chars(cs) = [i \in 1 .. Len(cs) |-> PatternChar(cs[i])]
  BY DEF Chars
<1> QED
  BY <1>1, <1>2

LEMMA BlanksTyped ==
  ASSUME NEW n \in Nat
  PROVE  Blank \in CellSet /\ Blanks(n) \in Seq(CellSet) /\ Len(Blanks(n)) = n
<1>1. " " \in CharSet
  BY Zenon DEF CharSet
<1>2. Blank \in CellSet
  BY <1>1, CharTyped, Zenon DEF Blank
<1> QED
  BY <1>2 DEF Blanks

LEMMA BracketsTyped == Opening \in Seq(CellSet) /\ Closing \in Seq(CellSet)
<1>1. \A a \in CharSet, b \in CharSet : <<a>> \in Seq(CharSet) /\ <<a, b>> \in Seq(CharSet)
  OBVIOUS
<1>2. "[" \in CharSet /\ "]" \in CharSet /\ " " \in CharSet
  BY Zenon DEF CharSet
<1>3. <<"[">> \in Seq(CharSet) /\ <<"]", " ">> \in Seq(CharSet)
  BY <1>1, <1>2, Zenon
<1> QED
  BY <1>3, CharsTyped, Zenon DEF Opening, Closing

\* The sizes the tables give.
LEMMA FlagSizes ==
  /\ \A flag \in DOMAIN dateFlags : dateFlags[flag] \in Nat
  /\ \A flag \in DOMAIN nameFlags : nameFlags[flag] \in Nat
  /\ \A flag \in DOMAIN fractionFlags : fractionFlags[flag] \in Nat
  /\ \A flag \in DOMAIN contextFlags : contextFlags[flag] \in Nat
  /\ \A flag \in DOMAIN threadFlags : threadFlags[flag] \in Nat
  /\ \A flag \in DOMAIN sourceFlags : sourceFlags[flag] \in Nat
<1>1. \A flag \in DOMAIN dateFlags : dateFlags[flag] \in Nat
  BY DEF dateFlags, calendarFlags, clockFlags
<1>2. \A flag \in DOMAIN nameFlags : nameFlags[flag] \in Nat
  BY DEF nameFlags
<1>3. \A flag \in DOMAIN fractionFlags : fractionFlags[flag] \in Nat
  BY DEF fractionFlags
<1>4. \A flag \in DOMAIN contextFlags : contextFlags[flag] \in Nat
  BY DEF contextFlags
<1>5. \A flag \in DOMAIN threadFlags : threadFlags[flag] \in Nat
  BY DEF threadFlags
<1>6. \A flag \in DOMAIN sourceFlags : sourceFlags[flag] \in Nat
  <2>1. 2 \in Nat /\ 3 \in Nat /\ 4 \in Nat /\ 5 \in Nat /\ 8 \in Nat
    OBVIOUS
  <2> QED
    BY <2>1, Zenon DEF sourceFlags
<1> QED
  BY <1>1, <1>2, <1>3, <1>4, <1>5, <1>6

\* Every flag names a cell.
LEMMA FlagsAreChars ==
  /\ AllFlags \subseteq CharSet
  /\ {"date", "color", "reset", "E", "z", "v", "D", "c", "l", "e", "@", "%"} \subseteq CharSet
<1>1. AllFlags \cup {"date", "color", "reset"} \subseteq CharSet
  BY Zenon DEF CharSet
<1>2. {"E", "z", "v", "D", "c"} \subseteq paddedFlags /\ "%" \in bareFlags
  BY Zenon DEF paddedFlags, bareFlags
<1>3. "l" \in DOMAIN contextFlags /\ "e" \in DOMAIN fractionFlags
  BY DEF contextFlags, fractionFlags
<1>4. "@" \in DOMAIN sourceFlags
  BY Zenon DEF sourceFlags
<1> QED
  BY <1>1, <1>2, <1>3, <1>4 DEF AllFlags, paddedFlags

\* What the texts are computed from.
ContextOf(msg, second, offset, elapsed) ==
  msg \in LogMsgs /\ second \in Int /\ offset \in Int /\ elapsed \in Nat

\* What full_formatter writes.
LEMMA FullTextTyped ==
  ASSUME NEW msg \in LogMsgs, NEW second \in Int
  PROVE  LET full == FullText(msg, second) IN
         /\ full.front \in Seq(CellSet) /\ full.level \in Seq(CellSet)
         /\ full.rest \in Seq(CellSet)
         /\ Len(full.front) = 24 + Len(Closing) + Len(Opening) /\ Len(full.level) = 4
<1> DEFINE date == Cells("date", 21, second)
           fraction == Cells("e", 3, msg.secs)
           level == Cells("l", 4, 0)
           source == Cells("@", 6, 0)
           text == Cells("v", msg.size, 0)
<1>1. msg.secs \in Nat /\ msg.size \in Nat
  BY DEF LogMsgs
<1>2. /\ date \in Seq(CellSet) /\ Len(date) = 21
      /\ fraction \in Seq(CellSet) /\ Len(fraction) = 3
      /\ level \in Seq(CellSet) /\ Len(level) = 4
      /\ source \in Seq(CellSet) /\ text \in Seq(CellSet)
  <2>1. /\ "date" \in CharSet /\ "e" \in CharSet /\ "l" \in CharSet /\ "@" \in CharSet
        /\ "v" \in CharSet
    BY FlagsAreChars
  <2>2. 21 \in Nat /\ 3 \in Nat /\ 4 \in Nat /\ 6 \in Nat /\ 0 \in Int /\ msg.secs \in Int
    BY <1>1
  <2> QED
    BY <1>1, <2>1, <2>2, CellsTyped, Zenon DEF date, fraction, level, source, text
<1> HIDE DEF date, fraction, level, source, text
<1>3. FullText(msg, second) =
        [front |-> date \o fraction \o Closing \o Opening, level |-> level,
         rest |-> Closing \o (IF msg.source THEN Opening \o source \o Closing ELSE <<>>) \o text]
  BY Zenon DEF FullText, date, fraction, level, source, text
<1> DEFINE front == date \o fraction \o Closing \o Opening
           between == IF msg.source THEN Opening \o source \o Closing ELSE <<>>
<1>4. front \in Seq(CellSet) /\ Len(front) = 24 + Len(Closing) + Len(Opening)
  <2>1. date \o fraction \in Seq(CellSet) /\ Len(date \o fraction) = 24
    <3>1. date \in Seq(CellSet) /\ fraction \in Seq(CellSet)
      BY <1>2
    <3>2. /\ date \o fraction \in Seq(CellSet)
          /\ Len(date \o fraction) = Len(date) + Len(fraction)
      BY <3>1, ConcatProperties
    <3> QED
      BY <1>2, <3>2
  <2> DEFINE stamp == date \o fraction
  <2> HIDE DEF stamp
  <2>2. stamp \o Closing \in Seq(CellSet) /\ Len(stamp \o Closing) = 24 + Len(Closing)
    BY <2>1, BracketsTyped, ConcatProperties DEF stamp
  <2> DEFINE closed == stamp \o Closing
  <2> HIDE DEF closed
  <2>3. /\ closed \o Opening \in Seq(CellSet)
        /\ Len(closed \o Opening) = 24 + Len(Closing) + Len(Opening)
    BY <2>2, BracketsTyped, ConcatProperties DEF closed
  <2> QED
    BY <2>3 DEF front, closed, stamp
<1>5. between \in Seq(CellSet)
  BY <1>2, BracketsTyped
<1>6. Closing \o between \o text \in Seq(CellSet)
  <2> HIDE DEF between
  <2> QED
    BY <1>2, <1>5, BracketsTyped
<1> HIDE DEF front, between
<1>7. FullText(msg, second) =
        [front |-> front, level |-> level, rest |-> Closing \o between \o text]
  BY <1>3 DEF front, between
<1> QED
  BY <1>2, <1>4, <1>6, <1>7

\* What a formatter writes.
LEMMA TextTyped ==
  ASSUME NEW f \in Fields, NEW msg \in LogMsgs, NEW second \in Int, NEW offset \in Int,
         NEW elapsed \in Nat
  PROVE  TextOf(f, msg, second, offset, elapsed) \in Seq(CellSet)
<1> DEFINE flag == f.flag
           T == Seq(CellSet)
           full == FullText(msg, second)
           v1 == Chars(f.chars)
           v2 == Chars(<<"%">>)
           v4 == full.front \o full.level \o full.rest
           v5 == Cells(flag, dateFlags[flag], second)
           v6 == Cells(flag, nameFlags[flag], second)
           v7 == Cells(flag, fractionFlags[flag], msg.secs)
           v8 == Cells(flag, contextFlags[flag], 0)
           v9 == Cells(flag, threadFlags[flag], 0)
           v10 == Cells(flag, sourceFlags[flag], 0)
           v11 == Cells(flag, DigitsOf(elapsed), elapsed)
           v12 == Cells(flag, msg.size, 0)
           v13 == Cells("z", 6, offset)
           v14 == Cells(flag, 8, second)
           v15 == Cells(flag, 23, second)
           v16 == Cells("E", DigitsOf(msg.secs), msg.secs)
<1>1. flag \in AllFlags /\ flag \in CharSet /\ f.chars \in Seq(CharSet)
  BY FlagsAreChars DEF Fields
<1>2. msg.secs \in Nat /\ msg.size \in Nat
  BY DEF LogMsgs
<1>3. \A n \in Nat, s \in Int : Cells(flag, n, s) \in T
  BY <1>1, CellsTyped
<1>4. \A n \in Nat : DigitsOf(n) \in Nat
  BY DEF DigitsOf
<1>5. v1 \in T
  BY <1>1, CharsTyped
<1>6. v2 \in T
  <2>1. "%" \in CharSet
    BY FlagsAreChars
  <2>2. \A c \in CharSet : <<c>> \in Seq(CharSet)
    OBVIOUS
  <2>3. <<"%">> \in Seq(CharSet)
    BY <2>1, <2>2, Zenon
  <2> QED
    BY <2>3, CharsTyped, Zenon
<1>7. <<>> \in T
  OBVIOUS
<1>8. v4 \in T
  <2>1. full.front \in T /\ full.level \in T /\ full.rest \in T
    BY FullTextTyped
  <2> HIDE DEF full
  <2> QED
    BY <2>1
<1>9. /\ flag \in DOMAIN dateFlags => v5 \in T
      /\ flag \in DOMAIN nameFlags => v6 \in T
      /\ flag \in DOMAIN fractionFlags => v7 \in T
      /\ flag \in DOMAIN contextFlags => v8 \in T
      /\ flag \in DOMAIN threadFlags => v9 \in T
      /\ flag \in DOMAIN sourceFlags => v10 \in T
  <2>1. msg.secs \in Int /\ 0 \in Int
    BY <1>2
  <2> HIDE DEF flag, T
  <2> QED
    BY <1>3, <2>1, FlagSizes, Zenon
<1>10. v11 \in T /\ v12 \in T /\ v14 \in T /\ v15 \in T
  <2>1. elapsed \in Int /\ 0 \in Int /\ 8 \in Nat /\ 23 \in Nat
    OBVIOUS
  <2> HIDE DEF flag, T
  <2> QED
    BY <1>2, <1>3, <1>4, <2>1, Zenon
<1>11. v13 \in T /\ v16 \in T
  <2>1. msg.secs \in Int /\ 6 \in Nat
    BY <1>2
  <2>2. "z" \in CharSet /\ "E" \in CharSet
    BY FlagsAreChars
  <2> QED
    BY <1>2, <1>4, <2>1, <2>2, CellsTyped, Zenon
<1> HIDE DEF full, v1, v2, v4, v5, v6, v7, v8, v9, v10, v11, v12, v13, v14, v15, v16
<1>12. TextOf(f, msg, second, offset, elapsed) =
         CASE flag = "chars" -> v1
           [] flag = "%" -> v2
           [] flag \in {"^", "$"} -> <<>>
           [] flag = "+" -> v4
           [] flag \in DOMAIN dateFlags -> v5
           [] flag \in DOMAIN nameFlags -> v6
           [] flag \in DOMAIN fractionFlags -> v7
           [] flag \in DOMAIN contextFlags -> v8
           [] flag \in DOMAIN threadFlags -> v9
           [] flag \in DOMAIN sourceFlags -> v10
           [] flag \in elapsedFlags -> v11
           [] flag = "v" -> v12
           [] flag = "z" -> v13
           [] flag = "D" -> v14
           [] flag = "c" -> v15
           [] flag = "E" -> v16
  BY DEF TextOf, OffsetText, EpochText, full, v1, v2, v4, v5, v6, v7, v8, v9, v10, v11, v12,
         v13, v14, v15, v16
<1>13. \/ flag = "chars" \/ flag = "%" \/ flag \in {"^", "$"} \/ flag = "+"
       \/ flag \in DOMAIN dateFlags \/ flag \in DOMAIN nameFlags
       \/ flag \in DOMAIN fractionFlags \/ flag \in DOMAIN contextFlags
       \/ flag \in DOMAIN threadFlags \/ flag \in DOMAIN sourceFlags
       \/ flag \in elapsedFlags \/ flag = "v" \/ flag = "z" \/ flag = "D" \/ flag = "c"
       \/ flag = "E"
  BY <1>1 DEF AllFlags, paddedFlags, bareFlags
<1> HIDE DEF flag, T
<1>14. TextOf(f, msg, second, offset, elapsed) \in T
  BY <1>5, <1>6, <1>7, <1>8, <1>9, <1>10, <1>11, <1>12, <1>13
<1> QED
  BY <1>14 DEF T

-----------------------------------------------------------------------------
(* The padder.                                                             *)

\* A padding without or with effect.
LEMMA PadIs ==
  ASSUME NEW pad \in Pads
  PROVE  /\ pad.width \in Nat /\ pad.side \in Sides
         /\ pad.truncate \in BOOLEAN /\ pad.enabled \in BOOLEAN
BY DEF Pads

\* A size that is the text's own cuts nothing off the line before it.
LEMMA NeverCutsTooMuch ==
  ASSUME NEW line \in Seq(CellSet), NEW text \in Seq(CellSet), NEW pad \in Pads, NEW told,
         pad.enabled => told = Len(text)
  PROVE  ~CutsTooMuch(line, text, told, pad)
BY PadIs DEF CutsTooMuch

\* Joining associates.
LEMMA JoinsAssociate ==
  ASSUME NEW a \in Seq(CellSet), NEW b \in Seq(CellSet), NEW c \in Seq(CellSet)
  PROVE  (a \o b) \o c = a \o (b \o c)
BY ConcatAssociative

\* Half of what remains.
LEMMA HalfRemains ==
  ASSUME NEW n \in Nat
  PROVE  n \div 2 \in 0 .. n
OBVIOUS

\* A text no longer than its width is filled up with blanks.
LEMMA FillsUp ==
  ASSUME NEW line \in Seq(CellSet), NEW text \in Seq(CellSet), NEW w \in Nat, NEW before \in Nat,
         before + Len(text) <= w
  PROVE  /\ InPlaces(text, before, w) \in Seq(CellSet)
         /\ line \o Blanks(before) \o text \o Blanks(w - Len(text) - before)
              = line \o InPlaces(text, before, w)
<1> DEFINE n == Len(text)
           behind == w - n - before
           fitted == InPlaces(text, before, w)
           b1 == Blanks(before)
           b2 == Blanks(behind)
<1>1. n \in Nat /\ behind \in Nat
  OBVIOUS
<1>2. /\ Blank \in CellSet
      /\ b1 \in Seq(CellSet) /\ Len(b1) = before
      /\ b2 \in Seq(CellSet) /\ Len(b2) = behind
      /\ \A i \in 1 .. before : b1[i] = Blank
      /\ \A i \in 1 .. behind : b2[i] = Blank
  <2>1. /\ \A i \in 1 .. before : b1[i] = Blank
        /\ \A i \in 1 .. behind : b2[i] = Blank
    BY DEF Blanks
  <2> QED
    BY <1>1, <2>1, BlanksTyped
<1> USE DEF InPlaces
<1>3. fitted \in Seq(CellSet)
  <2>1. ASSUME NEW i \in 1 .. w PROVE fitted[i] \in CellSet
    BY <1>1, <1>2
  <2> QED
    BY <2>1
<1> HIDE DEF b1, b2
<1>4. b1 \o text \o b2 = fitted
  <2> DEFINE s == b1 \o text \o b2
  <2>1. s \in Seq(CellSet) /\ Len(s) = w
    <3>1. b1 \o text \in Seq(CellSet) /\ Len(b1 \o text) = before + n
      <4>1. b1 \o text \in Seq(CellSet) /\ Len(b1 \o text) = Len(b1) + n
        BY <1>2, ConcatProperties
      <4> QED
        BY <1>2, <4>1
    <3>2. s \in Seq(CellSet) /\ Len(s) = Len(b1 \o text) + Len(b2)
      BY <1>2, <3>1, ConcatProperties
    <3>3. before + n + behind = w
      BY <1>1
    <3> HIDE DEF s
    <3> QED
      BY <1>2, <3>1, <3>2, <3>3
  <2>2. ASSUME NEW i \in 1 .. w PROVE s[i] = fitted[i]
    BY <1>1, <1>2
  <2> HIDE DEF s
  <2>3. Len(fitted) = w
    OBVIOUS
  <2>4. s = fitted
    <3> HIDE DEF fitted
    <3> QED
      BY <1>3, <2>1, <2>2, <2>3
  <2> QED
    BY <2>4 DEF s
<1> HIDE DEF fitted
<1>5. line \o b1 \o text \o b2 = line \o fitted
  <2>1. (line \o b1) \o text = line \o (b1 \o text)
    BY <1>2, JoinsAssociate
  <2>2. b1 \o text \in Seq(CellSet)
    BY <1>2
  <2>3. (line \o (b1 \o text)) \o b2 = line \o ((b1 \o text) \o b2)
    <3> DEFINE m == b1 \o text
    <3>1. m \in Seq(CellSet)
      BY <2>2
    <3> HIDE DEF m
    <3>2. (line \o m) \o b2 = line \o (m \o b2)
      <4>1. b2 \in Seq(CellSet)
        BY <1>2
      <4> QED
        BY <3>1, <4>1, JoinsAssociate
    <3> QED
      BY <3>2 DEF m
  <2> QED
    BY <1>4, <2>1, <2>3
<1> QED
  BY <1>3, <1>5 DEF fitted, b1, b2

\* A text longer than its width is cut off or left as it is.
LEMMA CutsOff ==
  ASSUME NEW line \in Seq(CellSet), NEW text \in Seq(CellSet), NEW w \in Nat, w < Len(text)
  PROVE  LET fitted == [i \in 1 .. w |-> text[i]] IN
         /\ fitted \in Seq(CellSet)
         /\ SubSeq(line \o Blanks(0) \o text, 1, Len(line \o Blanks(0) \o text) + (w - Len(text)))
              = line \o fitted
<1> DEFINE fitted == [i \in 1 .. w |-> text[i]]
           s == line \o text
<1>1. line \o Blanks(0) = line
  <2>1. Blanks(0) = <<>>
    BY BlanksTyped
  <2> QED
    BY <2>1
<1>2. fitted \in Seq(CellSet) /\ Len(fitted) = w
  OBVIOUS
<1>3. s \in Seq(CellSet) /\ Len(s) = Len(line) + Len(text)
  OBVIOUS
<1>4. \A i \in 1 .. Len(line) + w : s[i] = IF i <= Len(line) THEN line[i] ELSE text[i - Len(line)]
  OBVIOUS
<1>5. \A i \in 1 .. Len(line) + w :
        (line \o fitted)[i] = IF i <= Len(line) THEN line[i] ELSE text[i - Len(line)]
  <2>1. \A i \in 1 .. w : fitted[i] = text[i]
    OBVIOUS
  <2> HIDE DEF fitted
  <2> QED
    BY <1>2, <2>1
<1>6. line \o fitted \in Seq(CellSet) /\ Len(line \o fitted) = Len(line) + w
  <2> HIDE DEF fitted
  <2> QED
    BY <1>2
<1> HIDE DEF s
<1> DEFINE cut == SubSeq(s, 1, Len(line) + w)
<1>7. cut \in Seq(CellSet) /\ Len(cut) = Len(line) + w
      /\ \A i \in 1 .. Len(line) + w : cut[i] = s[i]
  BY <1>3
<1> HIDE DEF cut, fitted
<1>8. cut = line \o fitted
  <2> DEFINE t == line \o fitted
  <2>1. t \in Seq(CellSet) /\ Len(t) = Len(line) + w
        /\ \A i \in 1 .. Len(line) + w : t[i] = cut[i]
    BY <1>4, <1>5, <1>6, <1>7
  <2> HIDE DEF t
  <2>2. t = cut
    BY <1>7, <2>1
  <2> QED
    BY <2>2 DEF t
<1>9. Len(s) + (w - Len(text)) = Len(line) + w
  BY <1>3
<1> QED
  BY <1>1, <1>2, <1>8, <1>9 DEF fitted, s, cut

\* What the padder writes is the field: the text in its width.
LEMMA PaddedFits ==
  ASSUME NEW line \in Seq(CellSet), NEW text \in Seq(CellSet), NEW pad \in Pads, NEW told,
         pad.enabled => told = Len(text)
  PROVE  Padded(line, text, told, pad) = line \o Fitted(text, pad)
         /\ Fitted(text, pad) \in Seq(CellSet)
<1> DEFINE n == Len(text)
           w == pad.width
           remaining == w - n
<1>1. /\ w \in Nat /\ n \in Nat /\ pad.side \in Sides
      /\ pad.truncate \in BOOLEAN /\ pad.enabled \in BOOLEAN
  BY PadIs
<1> DEFINE front == BlanksBefore(remaining, pad.side)
           before == CASE pad.side = "right" \/ w < n -> 0
                       [] pad.side = "left" /\ w >= n -> w - n
                       [] pad.side = "center" /\ w >= n -> (w - n) \div 2
           fitted == InPlaces(text, before, w)
           written == line \o Blanks(front) \o text
<1>2. pad.enabled => Padded(line, text, told, pad) =
        IF remaining >= 0 THEN written \o Blanks(remaining - front)
        ELSE IF pad.truncate THEN SubSeq(written, 1, Len(written) + remaining)
        ELSE written
  BY DEF Padded
<1>3. Fitted(text, pad) = IF ~pad.enabled \/ (w < n /\ ~pad.truncate) THEN text ELSE fitted
  BY DEF Fitted
<1>4. /\ front = before
      /\ remaining >= 0 => before \in Nat /\ before + n <= w
      /\ remaining < 0 => before = 0
  <2>1. CASE pad.side = "right"
    BY <1>1, <2>1 DEF BlanksBefore
  <2>2. CASE pad.side = "left"
    BY <1>1, <2>2 DEF BlanksBefore
  <2>3. CASE pad.side = "center"
    <3>1. remaining >= 0 => remaining \div 2 \in 0 .. remaining
      <4> HIDE DEF remaining
      <4>1. remaining >= 0 => remaining \in Nat
        BY <1>1 DEF remaining
      <4> QED
        BY <4>1, HalfRemains
    <3>2. remaining = 0 => remaining \div 2 = 0
      BY <1>1
    <3> QED
      BY <1>1, <2>3, <3>1, <3>2 DEF BlanksBefore
  <2> QED
    BY <1>1, <2>1, <2>2, <2>3 DEF Sides
<1> HIDE DEF front, before
<1>5. CASE ~pad.enabled
  BY <1>3, <1>5 DEF Padded
<1>6. CASE pad.enabled /\ remaining >= 0
  <2>1. Fitted(text, pad) = fitted
    BY <1>1, <1>3, <1>6
  <2>2. Padded(line, text, told, pad) =
          line \o Blanks(before) \o text \o Blanks(w - n - before)
    BY <1>2, <1>4, <1>6
  <2>3. /\ fitted \in Seq(CellSet)
        /\ line \o Blanks(before) \o text \o Blanks(w - n - before) = line \o fitted
    <3>1. before \in Nat /\ before + Len(text) <= w
      BY <1>4, <1>6
    <3> HIDE DEF w
    <3> QED
      BY <1>1, <3>1, FillsUp
  <2> QED
    BY <2>1, <2>2, <2>3
<1>7. CASE pad.enabled /\ remaining < 0 /\ ~pad.truncate
  <2>1. Fitted(text, pad) = text
    BY <1>1, <1>3, <1>7
  <2>2. Padded(line, text, told, pad) = line \o Blanks(0) \o text
    BY <1>1, <1>2, <1>4, <1>7
  <2>3. line \o Blanks(0) = line
    BY BlanksTyped
  <2> QED
    BY <2>1, <2>2, <2>3
<1>8. CASE pad.enabled /\ remaining < 0 /\ pad.truncate
  <2> DEFINE cut == [i \in 1 .. w |-> text[i]]
             whole == line \o Blanks(0) \o text
  <2>1. Fitted(text, pad) = cut
    <3>1. Fitted(text, pad) = fitted
      BY <1>1, <1>3, <1>8
    <3>2. \A i \in 1 .. w : i - before \in 1 .. n /\ i - before = i
      BY <1>1, <1>4, <1>8
    <3> QED
      BY <1>1, <3>1, <3>2 DEF InPlaces
  <2>2. Padded(line, text, told, pad) = SubSeq(whole, 1, Len(whole) + remaining)
    BY <1>1, <1>2, <1>4, <1>8
  <2>3. cut \in Seq(CellSet) /\ SubSeq(whole, 1, Len(whole) + remaining) = line \o cut
    <3>1. w < Len(text)
      BY <1>1, <1>8
    <3> HIDE DEF w
    <3> QED
      BY <1>1, <3>1, CutsOff
  <2> QED
    BY <2>1, <2>2, <2>3
<1> QED
  BY <1>1, <1>5, <1>6, <1>7, <1>8

-----------------------------------------------------------------------------
(* The states of the formatter.                                            *)

\* Types: everything the formatter keeps.
PatternTypes ==
  /\ pattern \in Seq(CharSet) /\ patAt \in 0 .. Len(pattern)
  /\ user_chars \in Seq(CharSet)
  /\ formatters_ \in Seq(Fields)
  /\ cached_tm_ \in Int /\ datetimeOf \in Int /\ offsetOf \in Nat /\ lastTime \in Nat
  /\ delta \in Nat
  /\ logMsg \in LogMsgs

\* The padding, the text and the field of a formatter.
LEMMA PadTyped ==
  ASSUME NEW f \in Fields
  PROVE  PadOf(f) \in Pads
BY DEF PadOf, Fields, Pads, Sides, NoPadding

LEMMA OwnTextTyped ==
  ASSUME PatternTypes, NEW f \in Fields
  PROVE  OwnText(f) \in Seq(CellSet)
<1>1. logMsg \in LogMsgs /\ logMsg.secs \in Int /\ offsetOf \in Int /\ delta \in Nat
  BY DEF PatternTypes, LogMsgs
<1> QED
  BY <1>1, TextTyped DEF OwnText

LEMMA ToldIs ==
  ASSUME PatternTypes, NEW f \in ToldFields
  PROVE  f \in Fields /\ (PadOf(f).enabled => TellSize(f.flag, OwnText(f)) = Len(OwnText(f)))
BY DEF ToldFields, PadOf, NoPadding, TellSize

LEMMA FieldTyped ==
  ASSUME PatternTypes, NEW f \in Fields
  PROVE  FieldOf(f) \in Seq(CellSet)
<1>1. OwnText(f) \in Seq(CellSet) /\ PadOf(f) \in Pads
  BY OwnTextTyped, PadTyped
<1>2. Fitted(OwnText(f), PadOf(f)) \in Seq(CellSet)
  <2>1. <<>> \in Seq(CellSet)
    OBVIOUS
  <2> DEFINE text == OwnText(f)
             pad == PadOf(f)
  <2> HIDE DEF text, pad
  <2>2. text \in Seq(CellSet) /\ pad \in Pads
    BY <1>1 DEF text, pad
  <2>3. Fitted(text, pad) \in Seq(CellSet)
    BY <2>1, <2>2, PaddedFits
  <2> QED
    BY <2>3 DEF text, pad
<1> QED
  BY <1>2 DEF FieldOf

-----------------------------------------------------------------------------
(* One formatter more.                                                     *)

\* Lines that did not throw.
Lines == [dest : Seq(CellSet), range : Nat \X Nat, threw : {FALSE}]

\* The caches are those of the message.
Fresh == cached_tm_ = logMsg.secs /\ datetimeOf = logMsg.secs

\* What a formatter does to a line and its marks.
OneMore(line, f, more) ==
  LET n == Len(line.dest) IN
  /\ more \in Lines
  /\ more.dest = line.dest \o FieldOf(f)
  /\ f.flag = "^" => more.range = <<n, line.range[2]>>
  /\ f.flag = "$" => more.range = <<line.range[1], n>>
  /\ f.flag \notin {"^", "$", "+"} => more.range = line.range
  /\ f.flag = "+" => more.range[1] <= Len(more.dest) /\ more.range[2] <= Len(more.dest)

\* The marks and %+ have no padder and write no source.
LEMMA MarksAreNoSource == {"^", "$", "+"} \cap DOMAIN sourceFlags = {}
BY Zenon DEF sourceFlags

LEMMA MarksAreNoFields ==
  ASSUME NEW c \in {"^", "$", "+"}
  PROVE  /\ c \notin {"chars", "%", "v", "z", "D", "c", "E"} /\ c \notin elapsedFlags
         /\ c \notin DOMAIN dateFlags /\ c \notin DOMAIN nameFlags
         /\ c \notin DOMAIN fractionFlags /\ c \notin DOMAIN contextFlags
         /\ c \notin DOMAIN threadFlags /\ c \notin DOMAIN sourceFlags
<1>1. /\ c \notin {"chars", "%", "v", "z", "D", "c", "E"} /\ c \notin elapsedFlags
      /\ c \notin DOMAIN nameFlags
      /\ c \notin DOMAIN fractionFlags /\ c \notin DOMAIN contextFlags
      /\ c \notin DOMAIN threadFlags
  BY DEF elapsedFlags, nameFlags, fractionFlags, contextFlags, threadFlags
<1>2. c \notin DOMAIN dateFlags
  BY DEF dateFlags, calendarFlags, clockFlags
<1> QED
  BY <1>1, <1>2, MarksAreNoSource

LEMMA MarkText ==
  ASSUME NEW f, NEW msg, NEW second, NEW offset, NEW elapsed, f.flag \in {"^", "$"}
  PROVE  TextOf(f, msg, second, offset, elapsed) = <<>>
BY MarksAreNoFields DEF TextOf

\* Three parts of a line.
LEMMA ThreeJoined ==
  ASSUME NEW a \in Seq(CellSet), NEW b \in Seq(CellSet), NEW c \in Seq(CellSet)
  PROVE  /\ a \o b \o c \in Seq(CellSet)
         /\ Len(a) \in Nat /\ Len(b) \in Nat /\ Len(c) \in Nat
         /\ Len(a \o b \o c) = Len(a) + Len(b) + Len(c)
<1>1. a \o b \in Seq(CellSet) /\ Len(a \o b) = Len(a) + Len(b)
  OBVIOUS
<1> DEFINE d == a \o b
<1> HIDE DEF d
<1>2. d \o c \in Seq(CellSet) /\ Len(d \o c) = Len(d) + Len(c)
  BY <1>1 DEF d
<1> QED
  BY <1>1, <1>2 DEF d

\* A line that one formatter writes on, and that all write.
FormatNext(line, f) ==
  FormatWith(line, f, TextOf(f, logMsg, IF f.flag = "+" THEN datetimeOf ELSE cached_tm_,
                             offsetOf, delta), logMsg)
Line == FoldLeft(FormatNext, NoLine, formatters_)

\* A formatter adds its field to the line, or sets a mark at its end.
LEMMA FormatsOneMore ==
  ASSUME PatternTypes, Fresh, NEW line \in Lines, NEW f \in ToldFields
  PROVE  OneMore(line, f, FormatNext(line, f))
<1> DEFINE text == OwnText(f)
           told == TellSize(f.flag, text)
           pad == PadOf(f)
           n == Len(line.dest)
           full == FullText(logMsg, 0)
           f1 == n + Len(full.front)
           f2 == f1 + Len(full.level)
           range == CASE f.flag = "^" -> <<n, line.range[2]>>
                      [] f.flag = "$" -> <<line.range[1], n>>
                      [] f.flag = "+" -> <<f1, f2>>
                      [] OTHER -> line.range
<1>1. /\ f \in Fields /\ text \in Seq(CellSet) /\ pad \in Pads
      /\ pad.enabled => told = Len(text)
  BY ToldIs, OwnTextTyped, PadTyped
<1>2. /\ line.dest \in Seq(CellSet) /\ line.range \in Nat \X Nat /\ line.threw = FALSE
      /\ n \in Nat
  <2>1. line.dest \in Seq(CellSet) /\ line.range \in Nat \X Nat /\ line.threw \in {FALSE}
    BY DEF Lines
  <2>2. ASSUME NEW d \in Seq(CellSet) PROVE Len(d) \in Nat
    OBVIOUS
  <2> QED
    BY <2>1, <2>2, Zenon DEF n
<1>3. TextOf(f, logMsg, IF f.flag = "+" THEN datetimeOf ELSE cached_tm_, offsetOf, delta) = text
  BY DEF Fresh, OwnText
<1>4. FormatNext(line, f) = FormatWith(line, f, text, logMsg)
  BY <1>3, Zenon DEF FormatNext
<1>5. FormatWith(line, f, text, logMsg) =
        IF line.threw \/ SourceLeftOut(f, logMsg) THEN line
        ELSE IF CutsTooMuch(line.dest, text, told, pad) THEN [line EXCEPT !.threw = TRUE]
        ELSE [dest |-> Padded(line.dest, text, told, pad), range |-> range, threw |-> FALSE]
  BY Zenon DEF FormatWith, SourceLeftOut, PadOf
<1>6. full.front \in Seq(CellSet) /\ full.level \in Seq(CellSet) /\ full.rest \in Seq(CellSet)
  BY FullTextTyped DEF PatternTypes
<1>7. f1 \in Nat /\ f2 \in Nat /\ f1 <= f2
  <2> DEFINE l1 == Len(full.front)
             l2 == Len(full.level)
  <2>1. l1 \in Nat /\ l2 \in Nat
    BY <1>6
  <2>2. n \in Nat
    BY <1>2
  <2> HIDE DEF l1, l2, n
  <2>3. n + l1 \in Nat /\ n + l1 + l2 \in Nat /\ n + l1 <= n + l1 + l2
    BY <2>1, <2>2
  <2> QED
    BY <2>3 DEF l1, l2
<1>8. f.flag = "+" => Fitted(text, pad) = text /\ f2 <= n + Len(text)
  <2>1. SUFFICES ASSUME f.flag = "+" PROVE Fitted(text, pad) = text /\ f2 <= n + Len(text)
    OBVIOUS
  <2>2. Fitted(text, pad) = text
    BY <2>1 DEF PadOf, bareFlags, NoPadding, Fitted
  <2> DEFINE own == FullText(logMsg, logMsg.secs)
             a == own.front
             b == own.level
             c == own.rest
  <2>3. text = a \o b \o c
    <3>1. TextOf(f, logMsg, logMsg.secs, offsetOf, delta) = a \o b \o c
      BY <2>1, MarksAreNoFields DEF TextOf
    <3> QED
      BY <3>1, Zenon DEF OwnText
  <2>4. /\ a \in Seq(CellSet) /\ b \in Seq(CellSet) /\ c \in Seq(CellSet)
        /\ Len(a) = 24 + Len(Closing) + Len(Opening) /\ Len(b) = 4
    BY FullTextTyped DEF PatternTypes, LogMsgs
  <2>5. Len(full.front) = 24 + Len(Closing) + Len(Opening) /\ Len(full.level) = 4
    BY FullTextTyped DEF PatternTypes
  <2>6. f2 = n + Len(a) + Len(b)
    BY <2>4, <2>5
  <2> HIDE DEF a, b, c, text, f2
  <2>7. /\ Len(a) \in Nat /\ Len(b) \in Nat /\ Len(c) \in Nat
        /\ Len(text) = Len(a) + Len(b) + Len(c)
    BY <2>3, <2>4, ThreeJoined
  <2>8. n \in Nat
    BY <1>2
  <2> HIDE DEF n
  <2> QED
    BY <2>2, <2>6, <2>7, <2>8
<1> HIDE DEF text, told, pad, f1, f2
<1>9. CASE SourceLeftOut(f, logMsg)
  <2>1. FieldOf(f) = <<>>
    BY <1>9 DEF FieldOf
  <2>2. FormatNext(line, f) = line
    BY <1>4, <1>5, <1>9
  <2>3. f.flag \notin {"^", "$", "+"}
    BY <1>9, MarksAreNoSource DEF SourceLeftOut
  <2>4. line.dest \o FieldOf(f) = line.dest
    BY <1>2, <2>1
  <2> QED
    BY <2>2, <2>3, <2>4 DEF OneMore
<1>10. CASE ~SourceLeftOut(f, logMsg)
  <2> DEFINE more == [dest |-> line.dest \o FieldOf(f), range |-> range, threw |-> FALSE]
  <2>1. /\ ~CutsTooMuch(line.dest, text, told, pad)
        /\ Padded(line.dest, text, told, pad) = line.dest \o FieldOf(f)
    <3>1. FieldOf(f) = Fitted(text, pad)
      BY <1>1, <1>10 DEF FieldOf, text, pad
    <3> DEFINE d == line.dest
    <3>2. d \in Seq(CellSet)
      BY <1>2
    <3> HIDE DEF d
    <3>3. ~CutsTooMuch(d, text, told, pad) /\ Padded(d, text, told, pad) = d \o Fitted(text, pad)
      BY <1>1, <3>2, NeverCutsTooMuch, PaddedFits
    <3> QED
      BY <3>1, <3>3 DEF d
  <2>2. FormatNext(line, f) = more
    BY <1>2, <1>4, <1>5, <1>10, <2>1
  <2>3. FieldOf(f) \in Seq(CellSet)
    BY <1>1, FieldTyped
  <2>4. f.flag = "+" => FieldOf(f) = text
    BY <1>1, <1>8, <1>10 DEF FieldOf, text, pad
  <2>5. /\ f.flag = "^" => range = <<n, line.range[2]>>
        /\ f.flag = "$" => range = <<line.range[1], n>>
        /\ f.flag \notin {"^", "$", "+"} => range = line.range
        /\ f.flag = "+" => range = <<f1, f2>>
    OBVIOUS
  <2> HIDE DEF range
  <2>6. range \in Nat \X Nat
    BY <1>2, <1>7, <2>5
  <2>7. more \in Lines
    <3>1. line.dest \o FieldOf(f) \in Seq(CellSet)
      BY <1>2, <2>3
    <3> QED
      BY <2>6, <3>1 DEF Lines
  <2>8. f.flag = "+" => f1 <= Len(more.dest) /\ f2 <= Len(more.dest)
    <3>1. Len(more.dest) = n + Len(FieldOf(f))
      BY <1>2, <2>3
    <3> HIDE DEF more
    <3> QED
      BY <1>2, <1>7, <1>8, <2>3, <2>4, <3>1
  <2> QED
    BY <2>2, <2>5, <2>7, <2>8 DEF OneMore
<1> QED
  BY <1>9, <1>10

-----------------------------------------------------------------------------
(* The two folds over a pattern: its fields, and the line.                 *)

\* The fields after the first k formatters.
Joins(fs, F) == F[0] = <<>> /\ \A k \in 1 .. Len(fs) : F[k] = F[k - 1] \o FieldOf(fs[k])

\* The fields of a pattern, formatter by formatter.
LEMMA FieldsFold ==
  ASSUME PatternTypes, NEW fs \in Seq(Fields)
  PROVE  \E F \in [0 .. Len(fs) -> Seq(CellSet)] : Joins(fs, F) /\ FieldsOf(fs) = F[Len(fs)]
<1> DEFINE n == Len(fs)
           T == Seq(CellSet)
           nothing == <<>>
           step == [k \in 1 .. n |-> [t \in T |-> WithField(t, fs[k])]]
           Folds(g) == g = [t \in SUBSET DOMAIN fs |->
                              IF t = {} THEN <<>> ELSE WithField(g[t \ {Max(t)}], fs[Max(t)])]
           iter == CHOOSE g : Folds(g)
<1>1. FieldsOf(fs) = iter[DOMAIN fs]
  BY DEF FieldsOf, FoldLeft, MapThenFoldSet
<1>2. step \in [1 .. n -> [T -> T]]
  <2>1. ASSUME NEW t \in T, NEW k \in 1 .. n PROVE WithField(t, fs[k]) \in T
    <3>1. FieldOf(fs[k]) \in T
      BY FieldTyped
    <3> QED
      BY <3>1 DEF WithField
  <2> QED
    BY <2>1
<1>3. nothing \in T /\ n \in Nat /\ DOMAIN fs = 1 .. n
  OBVIOUS
<1>4. PICK g \in [SUBSET (1 .. n) -> T] : FoldsUp(n, nothing, step, g)
  <2> HIDE DEF step, n, T, nothing
  <2> QED
    BY <1>2, <1>3, FoldExists
<1>5. Folds(g)
  <2>1. ASSUME NEW t \in SUBSET (1 .. n), t # {}
        PROVE  g[t] = WithField(g[t \ {Max(t)}], fs[Max(t)])
    <3>1. Max(t) \in 1 .. n /\ t \ {Max(t)} \in SUBSET (1 .. n)
      BY <1>3, <2>1, LargestIndex
    <3> QED
      BY <1>4, <2>1, <3>1 DEF FoldsUp
  <2> QED
    BY <1>3, <1>4, <2>1 DEF FoldsUp
<1>6. Folds(iter)
  <2> HIDE DEF Folds
  <2> QED
    BY <1>5
<1> HIDE DEF iter
<1>7. FoldsWithin(n, T, nothing, step, iter)
  <2>1. ASSUME NEW t \in SUBSET (1 .. n), t # {}, iter[t \ {Max(t)}] \in T
        PROVE  iter[t] = step[Max(t)][iter[t \ {Max(t)}]]
    <3>1. Max(t) \in 1 .. n
      BY <1>3, <2>1, LargestIndex
    <3> QED
      BY <1>3, <1>6, <2>1, <3>1
  <2>2. iter[{}] = nothing
    BY <1>6
  <2> QED
    BY <2>1, <2>2 DEF FoldsWithin
<1>8. PICK f \in [0 .. n -> T] : RunsThrough(n, nothing, step, f) /\ iter[1 .. n] = f[n]
  <2> HIDE DEF step, n, T, nothing
  <2>1. RunsTo(n, T, nothing, step, iter)
    BY <1>2, <1>3, <1>7, FoldRuns
  <2> QED
    BY <2>1 DEF RunsTo
<1>9. ASSUME NEW k \in 1 .. n PROVE f[k] = f[k - 1] \o FieldOf(fs[k])
  <2>1. f[k - 1] \in T
    BY <1>3
  <2> QED
    BY <1>8, <2>1 DEF RunsThrough, WithField
<1>10. Joins(fs, f)
  BY <1>8, <1>9 DEF RunsThrough, Joins
<1> QED
  BY <1>1, <1>3, <1>8, <1>10

\* The line after the first k formatters.
Formats(g) ==
  g[0] = NoLine /\ \A k \in 1 .. Len(formatters_) : OneMore(g[k - 1], formatters_[k], g[k])

\* The line of a pattern, formatter by formatter.
LEMMA LineFold ==
  ASSUME PatternTypes, Fresh, formatters_ \in Seq(ToldFields)
  PROVE  \E g \in [0 .. Len(formatters_) -> Lines] : Formats(g) /\ Line = g[Len(formatters_)]
<1> DEFINE fs == formatters_
           n == Len(fs)
           T == Lines
           step == [k \in 1 .. n |-> [t \in T |-> FormatNext(t, fs[k])]]
           Folds(g) == g = [t \in SUBSET DOMAIN fs |->
                              IF t = {} THEN NoLine ELSE FormatNext(g[t \ {Max(t)}], fs[Max(t)])]
           iter == CHOOSE g : Folds(g)
<1>1. Line = iter[DOMAIN fs]
  BY DEF Line, FoldLeft, MapThenFoldSet
<1>2. step \in [1 .. n -> [T -> T]]
  <2>1. ASSUME NEW t \in T, NEW k \in 1 .. n PROVE FormatNext(t, fs[k]) \in T
    <3>1. fs[k] \in ToldFields
      OBVIOUS
    <3> QED
      BY <3>1, FormatsOneMore DEF OneMore
  <2> QED
    BY <2>1
<1>3. NoLine \in T /\ n \in Nat /\ DOMAIN fs = 1 .. n
  BY DEF NoLine, Lines
<1>4. PICK g \in [SUBSET (1 .. n) -> T] : FoldsUp(n, NoLine, step, g)
  <2> HIDE DEF step, n, T
  <2> QED
    BY <1>2, <1>3, FoldExists
<1>5. Folds(g)
  <2>1. ASSUME NEW t \in SUBSET (1 .. n), t # {}
        PROVE  g[t] = FormatNext(g[t \ {Max(t)}], fs[Max(t)])
    <3>1. Max(t) \in 1 .. n /\ t \ {Max(t)} \in SUBSET (1 .. n)
      BY <1>3, <2>1, LargestIndex
    <3> QED
      BY <1>4, <2>1, <3>1 DEF FoldsUp
  <2> QED
    BY <1>3, <1>4, <2>1 DEF FoldsUp
<1>6. Folds(iter)
  <2> HIDE DEF Folds
  <2> QED
    BY <1>5
<1> HIDE DEF iter
<1>7. FoldsWithin(n, T, NoLine, step, iter)
  <2>1. ASSUME NEW t \in SUBSET (1 .. n), t # {}, iter[t \ {Max(t)}] \in T
        PROVE  iter[t] = step[Max(t)][iter[t \ {Max(t)}]]
    <3>1. Max(t) \in 1 .. n
      BY <1>3, <2>1, LargestIndex
    <3> QED
      BY <1>3, <1>6, <2>1, <3>1
  <2>2. iter[{}] = NoLine
    BY <1>6
  <2> QED
    BY <2>1, <2>2 DEF FoldsWithin
<1>8. PICK f \in [0 .. n -> T] : RunsThrough(n, NoLine, step, f) /\ iter[1 .. n] = f[n]
  <2> HIDE DEF step, n, T
  <2>1. RunsTo(n, T, NoLine, step, iter)
    BY <1>2, <1>3, <1>7, FoldRuns
  <2> QED
    BY <2>1 DEF RunsTo
<1>9. ASSUME NEW k \in 1 .. n PROVE OneMore(f[k - 1], fs[k], f[k])
  <2>1. f[k - 1] \in T /\ fs[k] \in ToldFields
    BY <1>3
  <2>2. f[k] = FormatNext(f[k - 1], fs[k])
    BY <1>8, <2>1 DEF RunsThrough
  <2> QED
    BY <2>1, <2>2, FormatsOneMore
<1>10. Formats(f)
  BY <1>8, <1>9 DEF RunsThrough, Formats
<1> QED
  BY <1>1, <1>3, <1>8, <1>10

\* The fields from one formatter to another are their part of the line.
LEMMA FieldsBetween ==
  ASSUME PatternTypes, NEW fs \in Seq(Fields), NEW F \in [0 .. Len(fs) -> Seq(CellSet)],
         Joins(fs, F), NEW b \in 0 .. Len(fs), NEW e \in b .. Len(fs)
  PROVE  /\ FieldsOf(SubSeq(fs, b + 1, e)) \in Seq(CellSet)
         /\ F[e] = F[b] \o FieldsOf(SubSeq(fs, b + 1, e))
<1> DEFINE part == SubSeq(fs, b + 1, e)
           n == e - b
<1>1. part \in Seq(Fields) /\ Len(part) = n /\ n \in Nat /\ \A k \in 1 .. n : part[k] = fs[b + k]
  OBVIOUS
<1> HIDE DEF part
<1>2. PICK h \in [0 .. Len(part) -> Seq(CellSet)] : Joins(part, h) /\ FieldsOf(part) = h[Len(part)]
  BY <1>1, FieldsFold
<1> DEFINE S == {k \in Nat : k <= n => F[b + k] = F[b] \o h[k]}
<1>3. 0 \in S
  <2>1. h[0] = <<>> /\ F[b] \in Seq(CellSet)
    BY <1>2 DEF Joins
  <2>2. F[b] \o <<>> = F[b]
    BY <2>1
  <2> QED
    BY <2>1, <2>2
<1>4. ASSUME NEW k \in Nat, k \in S PROVE k + 1 \in S
  <2>1. SUFFICES ASSUME k + 1 <= n PROVE F[b + (k + 1)] = F[b] \o h[k + 1]
    OBVIOUS
  <2>2. k + 1 \in 1 .. n /\ b + k + 1 \in 1 .. Len(fs)
    BY <1>1, <2>1
  <2>3. F[b + k] = F[b] \o h[k]
    BY <1>4, <2>1
  <2> DEFINE x == F[b]
             y == h[k]
             z == FieldOf(part[k + 1])
             i == b + k + 1
             j == k + 1
  <2>4. F[i] = F[b + k] \o z
    <3>1. i \in 1 .. Len(fs) /\ i - 1 = b + k /\ part[k + 1] = fs[i]
      BY <1>1, <2>2
    <3> HIDE DEF i
    <3> QED
      BY <3>1 DEF Joins
  <2>5. h[j] = y \o z
    <3>1. j \in 1 .. Len(part) /\ j - 1 = k
      BY <1>1, <2>2
    <3> QED
      BY <1>2, <3>1 DEF Joins
  <2>6. x \in Seq(CellSet) /\ y \in Seq(CellSet) /\ z \in Seq(CellSet)
    <3>1. k \in 0 .. Len(part) /\ part[k + 1] \in Fields
      BY <1>1, <2>2
    <3> QED
      BY <3>1, FieldTyped
  <2> HIDE DEF x, y, z
  <2>7. (x \o y) \o z = x \o (y \o z)
    BY <2>6, JoinsAssociate
  <2>8. F[i] = F[b] \o h[j]
    BY <2>3, <2>4, <2>5, <2>7 DEF x, y
  <2>9. i = b + (k + 1)
    OBVIOUS
  <2> QED
    BY <2>8, <2>9
<1>5. n \in S
  <2> HIDE DEF S, n
  <2> QED
    BY <1>1, <1>3, <1>4, SetInduction
<1>6. F[e] = F[b] \o h[n]
  BY <1>5
<1>7. FieldsOf(part) = h[n]
  BY <1>1, <1>2, Zenon
<1>8. h[n] \in Seq(CellSet)
  BY <1>1, <1>2
<1> QED
  BY <1>6, <1>7, <1>8, Zenon DEF part

-----------------------------------------------------------------------------
(* The marks.                                                              *)

\* No %+; and the last formatter of a flag among the first k is b.
NoFull == \A i \in DOMAIN formatters_ : formatters_[i].flag # "+"

LastBy(flag, b, k) ==
  formatters_[b].flag = flag /\ \A j \in b + 1 .. k : formatters_[j].flag # flag

\* The line after k formatters: its fields, and where its marks are.
MarkedSoFar(F, line, k) ==
  /\ line.dest = F[k]
  /\ line.range[1] <= Len(F[k]) /\ line.range[2] <= Len(F[k])
  /\ NoFull => /\ \A b \in 1 .. k : LastBy("^", b, k) => line.range[1] = Len(F[b - 1])
               /\ \A e \in 1 .. k : LastBy("$", e, k) => line.range[2] = Len(F[e - 1])

\* One formatter more: the marks are at the ends of the last flags.
LEMMA MarksGoOn ==
  ASSUME PatternTypes, NEW F \in [0 .. Len(formatters_) -> Seq(CellSet)], Joins(formatters_, F),
         NEW k \in Nat, k + 1 <= Len(formatters_), NEW line \in Lines, NEW more \in Lines,
         MarkedSoFar(F, line, k), OneMore(line, formatters_[k + 1], more)
  PROVE  MarkedSoFar(F, more, k + 1)
<1> DEFINE f == formatters_[k + 1]
           j == k + 1
           l == Len(F[k])
           range == more.range
           before == line.range
<1>1. /\ j \in 1 .. Len(formatters_) /\ j - 1 = k /\ k \in 0 .. Len(formatters_)
      /\ f \in Fields /\ F[k] \in Seq(CellSet)
  <2>1. formatters_ \in Seq(Fields)
    BY DEF PatternTypes
  <2> QED
    BY <2>1
<1>2. F[j] = F[k] \o FieldOf(f)
  BY <1>1 DEF Joins
<1>3. FieldOf(f) \in Seq(CellSet)
  BY <1>1, FieldTyped
<1>4. l \in Nat /\ Len(F[j]) \in Nat /\ l <= Len(F[j])
  BY <1>1, <1>2, <1>3
<1>5. before \in Nat \X Nat /\ range \in Nat \X Nat
  BY DEF Lines
<1>6. more.dest = F[j] /\ line.dest = F[k]
  BY <1>2 DEF OneMore, MarkedSoFar
<1>7. /\ f.flag = "^" => range = <<l, before[2]>>
      /\ f.flag = "$" => range = <<before[1], l>>
      /\ f.flag \notin {"^", "$", "+"} => range = before
      /\ f.flag = "+" => range[1] <= Len(F[j]) /\ range[2] <= Len(F[j])
  BY <1>6 DEF OneMore
<1>8. before[1] <= l /\ before[2] <= l
  BY DEF MarkedSoFar
<1> HIDE DEF l
<1>9. range[1] <= Len(F[j]) /\ range[2] <= Len(F[j])
  <2> HIDE DEF range, before, f, j
  <2>1. before[1] \in Nat /\ before[2] \in Nat
    BY <1>5
  <2> QED
    BY <1>4, <1>7, <1>8, <2>1
<1>10. ASSUME NoFull, NEW b \in 1 .. j, LastBy("^", b, j) PROVE range[1] = Len(F[b - 1])
  <2>1. f.flag # "+"
    BY <1>1, <1>10 DEF NoFull
  <2>2. CASE b = j
    <3>1. f.flag = "^"
      BY <1>10, <2>2 DEF LastBy
    <3> QED
      BY <1>1, <1>7, <2>2, <3>1 DEF l
  <2>3. CASE b # j
    <3>1. b \in 1 .. k /\ LastBy("^", b, k) /\ f.flag # "^"
      BY <1>1, <1>10, <2>3 DEF LastBy
    <3>2. before[1] = Len(F[b - 1])
      BY <1>10, <3>1 DEF MarkedSoFar
    <3>3. range[1] = before[1]
      BY <1>7, <2>1, <3>1
    <3> QED
      BY <3>2, <3>3
  <2> QED
    BY <2>2, <2>3
<1>11. ASSUME NoFull, NEW e \in 1 .. j, LastBy("$", e, j) PROVE range[2] = Len(F[e - 1])
  <2>1. f.flag # "+"
    BY <1>1, <1>11 DEF NoFull
  <2>2. CASE e = j
    <3>1. f.flag = "$"
      BY <1>11, <2>2 DEF LastBy
    <3> QED
      BY <1>1, <1>7, <2>2, <3>1 DEF l
  <2>3. CASE e # j
    <3>1. e \in 1 .. k /\ LastBy("$", e, k) /\ f.flag # "$"
      BY <1>1, <1>11, <2>3 DEF LastBy
    <3>2. before[2] = Len(F[e - 1])
      BY <1>11, <3>1 DEF MarkedSoFar
    <3>3. range[2] = before[2]
      BY <1>7, <2>1, <3>1
    <3> QED
      BY <3>2, <3>3
  <2> QED
    BY <2>2, <2>3
<1> QED
  BY <1>6, <1>9, <1>10, <1>11 DEF MarkedSoFar

\* What a whole line has: marks within it, and the marked fields between them.
RangeMarks(line, range) ==
  /\ range \in (0 .. Len(line)) \X (0 .. Len(line))
  /\ range[1] < range[2] => MarkedFields(SubSeq(line, range[1] + 1, range[2]))

\* The middle of three parts.
LEMMA MiddlePart ==
  ASSUME NEW a \in Seq(CellSet), NEW b \in Seq(CellSet), NEW c \in Seq(CellSet)
  PROVE  SubSeq((a \o b) \o c, Len(a) + 1, Len(a) + Len(b)) = b
<1> DEFINE s == (a \o b) \o c
           m == SubSeq(s, Len(a) + 1, Len(a) + Len(b))
<1>1. /\ s \in Seq(CellSet) /\ Len(a) \in Nat /\ Len(b) \in Nat /\ Len(c) \in Nat
      /\ Len(s) = Len(a) + Len(b) + Len(c)
  BY ThreeJoined
<1>2. \A i \in 1 .. Len(b) : s[Len(a) + i] = b[i]
  <2> DEFINE d == a \o b
  <2>1. d \in Seq(CellSet) /\ Len(d) = Len(a) + Len(b)
        /\ \A i \in 1 .. Len(b) : d[Len(a) + i] = b[i]
    OBVIOUS
  <2> HIDE DEF d
  <2>2. \A i \in 1 .. Len(d) : (d \o c)[i] = d[i]
    BY <2>1
  <2>3. \A i \in 1 .. Len(b) : Len(a) + i \in 1 .. Len(d)
    BY <1>1, <2>1
  <2> QED
    BY <2>1, <2>2, <2>3 DEF d
<1> HIDE DEF s
<1>3. m \in Seq(CellSet) /\ Len(m) = Len(b) /\ \A i \in 1 .. Len(b) : m[i] = s[Len(a) + i]
  BY <1>1
<1> HIDE DEF m
<1>4. m = b
  BY <1>2, <1>3
<1> QED
  BY <1>4 DEF m, s

-----------------------------------------------------------------------------
(* The whole line.                                                         *)

\* A mark writes nothing.
LEMMA MarkIsEmpty ==
  ASSUME NEW f \in Fields, f.flag \in {"^", "$"}
  PROVE  FieldOf(f) = <<>>
<1>1. OwnText(f) = <<>>
  BY MarkText DEF OwnText
<1>2. f.flag \in bareFlags /\ f.flag \notin DOMAIN sourceFlags
  BY MarksAreNoSource DEF bareFlags
<1> QED
  BY <1>1, <1>2 DEF FieldOf, SourceLeftOut, PadOf, NoPadding, Fitted

\* Between its marks a line holds the marked fields.
LEMMA MarkedPart ==
  ASSUME PatternTypes, NEW F \in [0 .. Len(formatters_) -> Seq(CellSet)],
         Joins(formatters_, F),
         NEW b \in 1 .. Len(formatters_), NEW e \in 1 .. Len(formatters_),
         formatters_[b].flag = "^", Len(F[b - 1]) < Len(F[e - 1])
  PROVE  SubSeq(F[Len(formatters_)], Len(F[b - 1]) + 1, Len(F[e - 1]))
           = FieldsOf(SubSeq(formatters_, b + 1, e - 1))
<1> DEFINE fs == formatters_
           n == Len(fs)
<1>1. fs \in Seq(Fields) /\ n \in Nat
  BY DEF PatternTypes
<1>2. /\ b - 1 \in 0 .. n /\ e - 1 \in 0 .. n /\ b \in 0 .. n /\ n \in 0 .. n
      /\ F[b - 1] \in Seq(CellSet) /\ F[e - 1] \in Seq(CellSet)
  BY <1>1
<1>3. b <= e - 1
  <2>1. SUFFICES ASSUME e - 1 <= b - 1 PROVE FALSE
    BY <1>2
  <2> DEFINE x == F[e - 1]
             y == FieldsOf(SubSeq(fs, e - 1 + 1, b - 1))
  <2>2. b - 1 \in e - 1 .. n
    BY <1>1, <2>1
  <2>3. y \in Seq(CellSet) /\ F[b - 1] = x \o y
    <3>1. e - 1 \in 0 .. Len(fs) /\ b - 1 \in e - 1 .. Len(fs)
      BY <1>2, <2>2
    <3> DEFINE i == e - 1
               k == b - 1
    <3> HIDE DEF i, k
    <3>2. FieldsOf(SubSeq(fs, i + 1, k)) \in Seq(CellSet)
          /\ F[k] = F[i] \o FieldsOf(SubSeq(fs, i + 1, k))
      BY <1>1, <3>1, FieldsBetween DEF i, k
    <3> QED
      BY <3>2 DEF i, k
  <2> HIDE DEF x, y
  <2>4. x \in Seq(CellSet)
    BY <1>2 DEF x
  <2>5. Len(x \o y) >= Len(x)
    BY <2>3, <2>4
  <2> QED
    BY <1>2, <2>3, <2>4, <2>5 DEF x
<1>4. F[b] = F[b - 1]
  <2>1. FieldOf(fs[b]) = <<>>
    BY <1>1, MarkIsEmpty
  <2>2. F[b] = F[b - 1] \o FieldOf(fs[b])
    BY DEF Joins
  <2> QED
    BY <1>2, <2>1, <2>2
<1> DEFINE i == e - 1
           mid == FieldsOf(SubSeq(fs, b + 1, i))
           rest == FieldsOf(SubSeq(fs, i + 1, n))
<1>5. i \in b .. n /\ i \in 0 .. n /\ n \in i .. n
  BY <1>1, <1>2, <1>3
<1> HIDE DEF i
<1>6. mid \in Seq(CellSet) /\ F[i] = F[b] \o mid
  BY <1>1, <1>2, <1>5, FieldsBetween
<1>7. rest \in Seq(CellSet) /\ F[n] = F[i] \o rest
  BY <1>1, <1>2, <1>5, FieldsBetween
<1> DEFINE a == F[b - 1]
<1> HIDE DEF mid, rest, a
<1>8. SubSeq((a \o mid) \o rest, Len(a) + 1, Len(a) + Len(mid)) = mid
  BY <1>2, <1>6, <1>7, MiddlePart DEF a
<1>9. Len(F[i]) = Len(a) + Len(mid) /\ F[n] = (a \o mid) \o rest
  BY <1>2, <1>4, <1>6, <1>7 DEF a
<1> QED
  BY <1>8, <1>9 DEF a, mid, i

\* The line of a message is its fields, and its range the marked ones.
LEMMA LineIsWhole ==
  (PatternTypes /\ Fresh /\ SizesAreTold) =>
    /\ Line.threw = FALSE
    /\ Line.dest = FieldsOf(formatters_) /\ Line.dest \in Seq(CellSet)
    /\ RangeMarks(Line.dest, Line.range)
<1> SUFFICES ASSUME PatternTypes, Fresh, SizesAreTold
             PROVE  /\ Line.threw = FALSE
                    /\ Line.dest = FieldsOf(formatters_) /\ Line.dest \in Seq(CellSet)
                    /\ RangeMarks(Line.dest, Line.range)
  OBVIOUS
<1> DEFINE fs == formatters_
           n == Len(fs)
<1>1. fs \in Seq(Fields) /\ n \in Nat
  BY DEF PatternTypes
<1>2. fs \in Seq(ToldFields)
  <2>1. \A i \in 1 .. n : fs[i] \in ToldFields
    BY <1>1 DEF SizesAreTold, ToldFields
  <2> QED
    BY <1>1, <2>1
<1>3. PICK F \in [0 .. n -> Seq(CellSet)] : Joins(fs, F) /\ FieldsOf(fs) = F[n]
  BY <1>1, FieldsFold
<1>4. PICK g \in [0 .. n -> Lines] : Formats(g) /\ Line = g[n]
  BY <1>2, LineFold
<1> DEFINE S == {k \in Nat : k <= n => MarkedSoFar(F, g[k], k)}
<1>5. 0 \in S
  <2>1. g[0] = NoLine /\ F[0] = <<>>
    BY <1>3, <1>4 DEF Formats, Joins
  <2> QED
    BY <2>1 DEF MarkedSoFar, NoLine
<1>6. ASSUME NEW k \in Nat, k \in S PROVE k + 1 \in S
  <2>1. SUFFICES ASSUME k + 1 <= n PROVE MarkedSoFar(F, g[k + 1], k + 1)
    OBVIOUS
  <2>2. MarkedSoFar(F, g[k], k)
    BY <1>1, <1>6, <2>1
  <2>3. k + 1 \in 1 .. n /\ (k + 1) - 1 = k /\ k \in 0 .. n /\ k + 1 \in 0 .. n
    BY <1>1, <2>1
  <2>4. OneMore(g[k], fs[k + 1], g[k + 1])
    BY <1>4, <2>3 DEF Formats
  <2>5. g[k] \in Lines /\ g[k + 1] \in Lines
    BY <2>3
  <2> QED
    BY <1>1, <1>3, <2>1, <2>2, <2>4, <2>5, MarksGoOn
<1>7. MarkedSoFar(F, Line, n)
  <2>1. n \in S
    <3> HIDE DEF S, n
    <3> QED
      BY <1>1, <1>5, <1>6, SetInduction
  <2> QED
    BY <1>1, <1>4, <2>1
<1>8. Line \in Lines /\ F[n] \in Seq(CellSet)
  BY <1>1, <1>4
<1>9. Line.threw = FALSE /\ Line.range \in Nat \X Nat
  <2>1. Line.threw \in {FALSE} /\ Line.range \in Nat \X Nat
    BY <1>8 DEF Lines
  <2> QED
    BY <2>1
<1>10. Line.dest = F[n] /\ Line.dest = FieldsOf(fs)
  BY <1>3, <1>7 DEF MarkedSoFar
<1> DEFINE range == Line.range
<1>11. range \in (0 .. Len(F[n])) \X (0 .. Len(F[n]))
  <2>1. range[1] <= Len(F[n]) /\ range[2] <= Len(F[n])
    BY <1>7 DEF MarkedSoFar
  <2>2. Len(F[n]) \in Nat
    BY <1>8
  <2> HIDE DEF range
  <2> QED
    BY <1>9, <2>1, <2>2 DEF range
<1>12. ASSUME range[1] < range[2] PROVE MarkedFields(SubSeq(F[n], range[1] + 1, range[2]))
  <2>1. SUFFICES ASSUME NoFull, NEW b \in LastFlag("^"), NEW e \in LastFlag("$")
                 PROVE  SubSeq(F[n], range[1] + 1, range[2])
                          = FieldsOf(SubSeq(fs, b + 1, e - 1))
    BY DEF MarkedFields, NoFull
  <2>2. /\ b \in 1 .. n /\ e \in 1 .. n /\ fs[b].flag = "^"
        /\ LastBy("^", b, n) /\ LastBy("$", e, n)
    BY <1>1 DEF LastFlag, LastBy
  <2>3. range[1] = Len(F[b - 1]) /\ range[2] = Len(F[e - 1])
    BY <1>7, <2>1, <2>2 DEF MarkedSoFar
  <2> QED
    BY <1>3, <1>12, <2>2, <2>3, MarkedPart
<1> QED
  BY <1>8, <1>9, <1>10, <1>11, <1>12 DEF RangeMarks

-----------------------------------------------------------------------------
(* Compiling.                                                              *)

\* Where digits from a position on end.
DigitsEnd(p, from, i) ==
  /\ \A j \in from .. i - 1 : p[j] \in DOMAIN digitValue
  /\ i <= Len(p) => p[i] \notin DOMAIN digitValue

\* The digits of a width end.
LEMMA DigitsDoEnd ==
  ASSUME NEW p \in Seq(CharSet), NEW from \in 1 .. Len(p) + 1
  PROVE  \E i \in from .. Len(p) + 1 : DigitsEnd(p, from, i)
<1> DEFINE n == Len(p)
           Goes(k) == \A j \in from .. from + k - 1 : j <= n /\ p[j] \in DOMAIN digitValue
           Ends(k) == \E i \in from .. from + k : i <= n + 1 /\ DigitsEnd(p, from, i)
           S == {k \in Nat : Ends(k) \/ Goes(k)}
<1>1. n \in Nat
  OBVIOUS
<1> HIDE DEF n
<1>2. 0 \in S
  OBVIOUS
<1>3. ASSUME NEW k \in Nat, k \in S PROVE k + 1 \in S
  <2>1. CASE Ends(k)
    BY <2>1
  <2>2. CASE Goes(k)
    <3> DEFINE i == from + k
    <3>1. i \in Nat /\ from + (k + 1) - 1 = i
      BY <1>1
    <3>2. CASE i <= n /\ p[i] \in DOMAIN digitValue
      <4>1. Goes(k + 1)
        BY <1>1, <2>2, <3>2
      <4> QED
        BY <4>1
    <3>3. CASE ~(i <= n /\ p[i] \in DOMAIN digitValue)
      <4>1. DigitsEnd(p, from, i)
        BY <1>1, <2>2, <3>3 DEF DigitsEnd, n
      <4>2. i <= n + 1
        <5>1. CASE k = 0
          BY <1>1, <5>1 DEF n
        <5>2. CASE k # 0
          <6>1. i - 1 \in from .. from + k - 1
            BY <1>1, <5>2
          <6> QED
            BY <1>1, <2>2, <3>1, <6>1
        <5> QED
          BY <5>1, <5>2
      <4>3. i \in from .. from + (k + 1)
        BY <1>1
      <4> QED
        BY <4>1, <4>2, <4>3
    <3> QED
      BY <3>2, <3>3
  <2> QED
    BY <1>3, <2>1, <2>2
<1>4. n + 1 \in S
  <2> HIDE DEF S
  <2> QED
    BY <1>1, <1>2, <1>3, SetInduction
<1>5. ~Goes(n + 1)
  <2>1. n + 1 \in from .. from + (n + 1) - 1
    BY <1>1 DEF n
  <2> QED
    BY <1>1, <2>1
<1> QED
  BY <1>4, <1>5 DEF n

\* The digits from a position on.
LEMMA DigitsTyped ==
  ASSUME NEW p \in Seq(CharSet), NEW from \in 1 .. Len(p) + 1
  PROVE  /\ Digits(p, from) \in Seq(DOMAIN digitValue)
         /\ from + Len(Digits(p, from)) \in from .. Len(p) + 1
<1> DEFINE stop == CHOOSE i \in from .. Len(p) + 1 :
                     /\ \A j \in from .. i - 1 : p[j] \in DOMAIN digitValue
                     /\ i <= Len(p) => p[i] \notin DOMAIN digitValue
<1>1. stop \in from .. Len(p) + 1 /\ \A j \in from .. stop - 1 : p[j] \in DOMAIN digitValue
  BY DigitsDoEnd DEF DigitsEnd
<1>2. Digits(p, from) = SubSeq(p, from, stop - 1)
  BY DEF Digits
<1> HIDE DEF stop
<1>3. /\ SubSeq(p, from, stop - 1) \in Seq(DOMAIN digitValue)
      /\ Len(SubSeq(p, from, stop - 1)) = stop - from
  BY <1>1
<1> QED
  BY <1>1, <1>2, <1>3

\* The number so far, digit by digit.
LEMMA WidthTyped ==
  ASSUME NEW ds \in Seq(DOMAIN digitValue)
  PROVE  FoldLeft(WithDigit, 0, ds) \in Nat
<1> DEFINE n == Len(ds)
           T == Nat
           step == [k \in 1 .. n |-> [t \in T |-> WithDigit(t, ds[k])]]
           Folds(g) == g = [t \in SUBSET DOMAIN ds |->
                              IF t = {} THEN 0 ELSE WithDigit(g[t \ {Max(t)}], ds[Max(t)])]
           iter == CHOOSE g : Folds(g)
<1>1. FoldLeft(WithDigit, 0, ds) = iter[DOMAIN ds]
  BY DEF FoldLeft, MapThenFoldSet
<1>2. step \in [1 .. n -> [T -> T]]
  <2>1. ASSUME NEW t \in T, NEW k \in 1 .. n PROVE WithDigit(t, ds[k]) \in T
    <3>1. ds[k] \in DOMAIN digitValue
      OBVIOUS
    <3>2. \A c \in DOMAIN digitValue : digitValue[c] \in Nat
      BY DEF digitValue
    <3> QED
      BY <3>1, <3>2 DEF WithDigit
  <2> QED
    BY <2>1
<1>3. 0 \in T /\ n \in Nat /\ DOMAIN ds = 1 .. n
  OBVIOUS
<1>4. PICK g \in [SUBSET (1 .. n) -> T] : FoldsUp(n, 0, step, g)
  <2> HIDE DEF step, n, T
  <2> QED
    BY <1>2, <1>3, FoldExists
<1>5. Folds(g)
  <2>1. ASSUME NEW t \in SUBSET (1 .. n), t # {}
        PROVE  g[t] = WithDigit(g[t \ {Max(t)}], ds[Max(t)])
    <3>1. Max(t) \in 1 .. n /\ t \ {Max(t)} \in SUBSET (1 .. n)
      BY <1>3, <2>1, LargestIndex
    <3> QED
      BY <1>4, <2>1, <3>1 DEF FoldsUp
  <2> QED
    BY <1>3, <1>4, <2>1 DEF FoldsUp
<1>6. Folds(iter)
  <2> HIDE DEF Folds
  <2> QED
    BY <1>5
<1> HIDE DEF iter
<1>7. FoldsWithin(n, T, 0, step, iter)
  <2>1. ASSUME NEW t \in SUBSET (1 .. n), t # {}, iter[t \ {Max(t)}] \in T
        PROVE  iter[t] = step[Max(t)][iter[t \ {Max(t)}]]
    <3>1. Max(t) \in 1 .. n
      BY <1>3, <2>1, LargestIndex
    <3> QED
      BY <1>3, <1>6, <2>1, <3>1
  <2>2. iter[{}] = 0
    BY <1>6
  <2> QED
    BY <2>1, <2>2 DEF FoldsWithin
<1>8. \E f \in [0 .. n -> T] : RunsThrough(n, 0, step, f) /\ iter[1 .. n] = f[n]
  <2> HIDE DEF step, n, T
  <2>1. RunsTo(n, T, 0, step, iter)
    BY <1>2, <1>3, <1>7, FoldRuns
  <2> QED
    BY <2>1 DEF RunsTo
<1> QED
  BY <1>1, <1>3, <1>8

\* A padding read from the pattern, and the position behind it.
LEMMA PadSpecTyped ==
  ASSUME NEW p \in Seq(CharSet), NEW i \in 1 .. Len(p) + 1
  PROVE  PadSpec(p, i).pad \in Pads /\ PadSpec(p, i).next \in i .. Len(p) + 1
<1> DEFINE side == IF i > Len(p) THEN "left"
                   ELSE CASE p[i] = "-" -> "right" [] p[i] = "=" -> "center" [] OTHER -> "left"
           from == IF side = "left" THEN i ELSE i + 1
           digits == Digits(p, from)
           behind == from + Len(digits)
           width == FoldLeft(WithDigit, 0, digits)
           truncate == behind <= Len(p) /\ p[behind] = "!"
           least == IF width < MaxPadding THEN width ELSE MaxPadding
<1>1. PadSpec(p, i) =
        IF digits = <<>> THEN [pad |-> NoPadding, next |-> from]
        ELSE [pad |-> [width |-> least, side |-> side, truncate |-> truncate, enabled |-> TRUE],
              next |-> IF truncate THEN behind + 1 ELSE behind]
  BY DEF PadSpec
<1>2. side \in Sides /\ (i > Len(p) => side = "left")
  BY DEF Sides
<1> HIDE DEF side
<1>3. from \in i .. Len(p) + 1
  BY <1>2
<1> HIDE DEF from
<1>4. digits \in Seq(DOMAIN digitValue) /\ behind \in from .. Len(p) + 1
  BY <1>3, DigitsTyped
<1>5. width \in Nat
  BY <1>4, WidthTyped
<1> HIDE DEF digits, behind, width
<1>6. least \in Nat
  BY <1>5, PatternAssumption
<1>7. truncate \in BOOLEAN /\ (IF truncate THEN behind + 1 ELSE behind) \in i .. Len(p) + 1
  BY <1>3, <1>4
<1> HIDE DEF truncate, least
<1>8. [width |-> least, side |-> side, truncate |-> truncate, enabled |-> TRUE] \in Pads
  BY <1>2, <1>6, <1>7 DEF Pads
<1>9. NoPadding \in Pads
  BY DEF NoPadding, Pads, Sides
<1> QED
  BY <1>1, <1>3, <1>7, <1>8, <1>9

\* A flag makes a formatter, and so do the characters before it.
LEMMA FlagHandled ==
  ASSUME NEW c \in CharSet, NEW pad \in Pads
  PROVE  HandleFlag(c, pad) \in Fields
<1>1. NoPadding \in Pads
  BY DEF NoPadding, Pads, Sides
<1>2. <<>> \in Seq(CharSet) /\ <<"%", c>> \in Seq(CharSet)
  <2>1. "%" \in CharSet
    BY FlagsAreChars
  <2>2. \A a \in CharSet : <<a, c>> \in Seq(CharSet)
    OBVIOUS
  <2> QED
    BY <2>1, <2>2
<1>3. Synonym(c) \in paddedFlags \cup bareFlags => Synonym(c) \in AllFlags
  BY DEF AllFlags
<1>4. "chars" \in AllFlags
  BY DEF AllFlags
<1> QED
  BY <1>1, <1>2, <1>3, <1>4 DEF HandleFlag, Formatter, Aggregate, Fields

LEMMA FlushedTyped ==
  ASSUME PatternTypes
  PROVE  Flushed \in Seq(Fields)
<1>1. Aggregate(user_chars) \in Fields
  BY DEF Aggregate, Formatter, Fields, AllFlags, NoPadding, Pads, Sides, PatternTypes
<1> QED
  BY <1>1 DEF Flushed, PatternTypes

-----------------------------------------------------------------------------
(* The console's codes.                                                    *)

\* A part of a line, and one cell more.
LEMMA Slice ==
  ASSUME NEW s \in Seq(CellSet), NEW i \in Nat, NEW j \in Nat, i <= j, j <= Len(s)
  PROVE  /\ SubSeq(s, i + 1, j) \in Seq(CellSet) /\ Len(SubSeq(s, i + 1, j)) = j - i
         /\ \A k \in 1 .. j - i : SubSeq(s, i + 1, j)[k] = s[i + k]
<1>1. \A k \in i + 1 .. j : s[k] \in CellSet
  OBVIOUS
<1>2. /\ SubSeq(s, i + 1, j) \in Seq(CellSet)
      /\ Len(SubSeq(s, i + 1, j)) = IF i + 1 <= j THEN j - (i + 1) + 1 ELSE 0
      /\ \A k \in 1 .. j - (i + 1) + 1 : SubSeq(s, i + 1, j)[k] = s[i + 1 + k - 1]
  BY <1>1, SubSeqProperties
<1> QED
  BY <1>2

LEMMA OneBehind ==
  ASSUME NEW a \in Seq(CellSet), NEW x \in CellSet
  PROVE  /\ a \o <<x>> \in Seq(CellSet) /\ Len(a \o <<x>>) = Len(a) + 1
         /\ (a \o <<x>>)[Len(a) + 1] = x
         /\ \A i \in 1 .. Len(a) : (a \o <<x>>)[i] = a[i]
OBVIOUS

\* Two parts of a line.
LEMMA TwoJoined ==
  ASSUME NEW a \in Seq(CellSet), NEW b \in Seq(CellSet)
  PROVE  /\ a \o b \in Seq(CellSet) /\ Len(a \o b) = Len(a) + Len(b)
         /\ \A i \in 1 .. Len(a) : (a \o b)[i] = a[i]
         /\ \A i \in 1 .. Len(b) : (a \o b)[Len(a) + i] = b[i]
OBVIOUS

\* Lines of the same cells.
LEMMA SameCells ==
  ASSUME NEW a \in Seq(CellSet), NEW b \in Seq(CellSet), Len(a) = Len(b),
         \A i \in 1 .. Len(a) : a[i] = b[i]
  PROVE  a = b
OBVIOUS

\* A part of a line is the sequence with its cells.
LEMMA SliceIs ==
  ASSUME NEW s \in Seq(CellSet), NEW i \in Nat, NEW j \in Nat, i <= j, j <= Len(s),
         NEW p \in Seq(CellSet), Len(p) = j - i, \A k \in 1 .. j - i : p[k] = s[i + k]
  PROVE  SubSeq(s, i + 1, j) = p
<1> DEFINE t == SubSeq(s, i + 1, j)
           n == j - i
<1>1. t \in Seq(CellSet) /\ Len(t) = n /\ \A k \in 1 .. n : t[k] = s[i + k]
  BY Slice
<1>2. Len(p) = n /\ \A k \in 1 .. n : p[k] = s[i + k]
  OBVIOUS
<1> HIDE DEF t, n
<1>3. t = p
  BY <1>1, <1>2, SameCells
<1> QED
  BY <1>3 DEF t

\* The lengths of the parts, and the places of the cells between them.
PartLengths(a, b, d, la, lb, ld, c, r) ==
  /\ la = Len(a) /\ lb = Len(b) /\ ld = Len(d)
  /\ c = la + 1 /\ r = la + lb + 2

Parted(a, x, b, y, d) == a \o <<x>> \o b \o <<y>> \o d

PartedAt(line, a, x, b, y, d, c, r) ==
  /\ c \in DOMAIN line /\ r \in DOMAIN line /\ line[c] = x /\ line[r] = y
  /\ SubSeq(line, 1, c - 1) = a /\ SubSeq(line, c + 1, r - 1) = b
  /\ SubSeq(line, r + 1, Len(line)) = d

Parts(line, a, x, b, y, d) == line = a \o <<x>> \o b \o <<y>> \o d

\* A line cut in three, with a cell between each two.
LEMMA TwoCellsBetween ==
  ASSUME NEW a \in Seq(CellSet), NEW b \in Seq(CellSet), NEW d \in Seq(CellSet),
         NEW x \in CellSet, NEW y \in CellSet, NEW line, Parts(line, a, x, b, y, d),
         NEW la \in Nat, NEW lb \in Nat, NEW ld \in Nat, NEW c, NEW r,
         PartLengths(a, b, d, la, lb, ld, c, r)
  PROVE  PartedAt(line, a, x, b, y, d, c, r)
<1>1. la = Len(a) /\ lb = Len(b) /\ ld = Len(d) /\ c = la + 1 /\ r = la + lb + 2
  BY DEF PartLengths
<1> USE <1>1
<1> DEFINE ax == a \o <<x>>
           axb == ax \o b
           axby == axb \o <<y>>
           ll == Len(line)
           lx == Len(ax)
           lxb == Len(axb)
           lxby == Len(axby)
<1>2. line = axby \o d
  BY Zenon DEF Parts
<1>3. /\ ax \in Seq(CellSet) /\ Len(ax) = la + 1 /\ ax[la + 1] = x
      /\ \A i \in 1 .. la : ax[i] = a[i]
  BY OneBehind
<1> HIDE DEF ax
<1>4. /\ axb \in Seq(CellSet) /\ Len(axb) = Len(ax) + lb
      /\ \A i \in 1 .. Len(ax) : axb[i] = ax[i]
      /\ \A i \in 1 .. lb : axb[Len(ax) + i] = b[i]
  BY <1>3, TwoJoined
<1> HIDE DEF axb
<1>5. /\ axby \in Seq(CellSet) /\ Len(axby) = Len(axb) + 1 /\ axby[Len(axb) + 1] = y
      /\ \A i \in 1 .. Len(axb) : axby[i] = axb[i]
  BY <1>4, OneBehind
<1> HIDE DEF axby
<1>6. /\ line \in Seq(CellSet) /\ Len(line) = Len(axby) + ld
      /\ \A i \in 1 .. Len(axby) : line[i] = axby[i]
      /\ \A i \in 1 .. ld : line[Len(axby) + i] = d[i]
  <2>1. /\ axby \o d \in Seq(CellSet) /\ Len(axby \o d) = Len(axby) + Len(d)
        /\ \A i \in 1 .. Len(axby) : (axby \o d)[i] = axby[i]
        /\ \A i \in 1 .. Len(d) : (axby \o d)[Len(axby) + i] = d[i]
    BY <1>5, TwoJoined
  <2> QED
    BY <1>2, <2>1, Zenon
<1>7. /\ lx = la + 1 /\ lxb = lx + lb /\ lxby = lxb + 1 /\ ll = lxby + ld
  BY <1>3, <1>4, <1>5, <1>6
<1> HIDE DEF lx, lxb, lxby, ll
<1>8. lxb = la + lb + 1 /\ lxby = la + lb + 2 /\ ll = la + lb + 2 + ld
  BY <1>7
<1>9. /\ lx = la + 1 /\ lxb = la + lb + 1 /\ lxby = la + lb + 2
      /\ ll = la + lb + 2 + ld /\ c = la + 1 /\ r = la + lb + 2
  BY <1>7, <1>8
<1>10. \A i \in 1 .. la : line[i] = a[i]
  <2>1. ASSUME NEW i \in 1 .. la PROVE line[i] = a[i]
    <3>1. i \in 1 .. lx /\ i \in 1 .. lxb /\ i \in 1 .. lxby
      BY <1>9
    <3> QED
      BY <1>3, <1>4, <1>5, <1>6, <3>1, Zenon DEF lx, lxb, lxby
  <2> QED
    BY <2>1
<1>11. \A i \in 1 .. lb : line[c + i] = b[i]
  <2>1. ASSUME NEW i \in 1 .. lb PROVE line[c + i] = b[i]
    <3>1. c + i = lx + i /\ c + i \in 1 .. lxb /\ c + i \in 1 .. lxby
      BY <1>9
    <3>2. line[c + i] = axby[c + i] /\ axby[c + i] = axb[c + i] /\ axb[lx + i] = b[i]
      BY <1>4, <1>5, <1>6, <3>1, Zenon DEF lx, lxb, lxby
    <3> QED
      BY <3>1, <3>2, Zenon
  <2> QED
    BY <2>1
<1>12. line[c] = x
  <2>1. c = la + 1 /\ c \in 1 .. lx /\ c \in 1 .. lxb /\ c \in 1 .. lxby
    BY <1>9
  <2>2. line[c] = axby[c] /\ axby[c] = axb[c] /\ axb[c] = ax[c]
    BY <1>4, <1>5, <1>6, <2>1, Zenon DEF lx, lxb, lxby
  <2> QED
    BY <1>3, <2>1, <2>2, Zenon
<1>13. line[r] = y
  <2>1. r = lxb + 1 /\ r \in 1 .. lxby
    BY <1>9
  <2>2. line[r] = axby[r] /\ axby[lxb + 1] = y
    BY <1>5, <1>6, <2>1, Zenon DEF lxb, lxby
  <2> QED
    BY <2>1, <2>2, Zenon
<1> HIDE <1>1
<1>14. SubSeq(line, 0 + 1, la) = a
  <2>1. 0 \in Nat /\ 0 <= la /\ la <= ll /\ la - 0 = la /\ \A k \in 1 .. la : 0 + k = k
    BY <1>9
  <2>2. la <= Len(line) /\ Len(a) = la - 0
    BY <1>1, <2>1, Zenon DEF ll
  <2>3. \A k \in 1 .. la - 0 : a[k] = line[0 + k]
    BY <1>10, <2>1
  <2> QED
    BY <1>6, <2>1, <2>2, <2>3, SliceIs
<1>15. SubSeq(line, c + 1, r - 1) = b
  <2> DEFINE j == r - 1
  <2>1. j \in Nat /\ c \in Nat /\ c <= j /\ j <= ll /\ j - c = lb
    BY <1>9
  <2>2. j <= Len(line) /\ Len(b) = j - c
    BY <1>1, <2>1, Zenon DEF ll
  <2> HIDE DEF j
  <2>3. \A k \in 1 .. j - c : b[k] = line[c + k]
    BY <1>11, <2>1
  <2>4. SubSeq(line, c + 1, j) = b
    BY <1>6, <2>1, <2>2, <2>3, SliceIs
  <2> QED
    BY <2>4 DEF j
<1>16. SubSeq(line, r + 1, Len(line)) = d
  <2>1. ll \in Nat /\ r \in Nat /\ r <= ll /\ ll - r = ld /\ lxby = r
    BY <1>9
  <2>2. ll <= Len(line) /\ Len(d) = ll - r
    <3>1. ll <= ll
      BY <2>1
    <3> QED
      BY <1>1, <2>1, <3>1, Zenon DEF ll
  <2>3. \A k \in 1 .. ld : d[k] = line[r + k]
    BY <1>6, <2>1, Zenon DEF lxby
  <2>4. \A k \in 1 .. ll - r : d[k] = line[r + k]
    BY <2>1, <2>3
  <2>5. SubSeq(line, r + 1, ll) = d
    BY <1>6, <2>1, <2>2, <2>4, SliceIs
  <2> QED
    BY <2>5 DEF ll
<1>17. c \in DOMAIN line /\ r \in DOMAIN line
  <2>1. c \in 1 .. ll /\ r \in 1 .. ll
    BY <1>9
  <2>2. DOMAIN line = 1 .. Len(line)
    BY <1>6
  <2> QED
    BY <2>1, <2>2, Zenon DEF ll
<1>18. c - 1 = la /\ 0 + 1 = 1
  BY <1>9
<1> QED
  BY <1>12, <1>13, <1>14, <1>15, <1>16, <1>17, <1>18 DEF PartedAt

\* A line is cut at the ends of its color range.
LEMMA CutInThree ==
  ASSUME NEW s \in Seq(CellSet), NEW i \in Nat, NEW j \in Nat, i <= j, j <= Len(s)
  PROVE  SubSeq(s, 1, i) \o SubSeq(s, i + 1, j) \o SubSeq(s, j + 1, Len(s)) = s
<1>1. SubSeq(s, 1, i) \o SubSeq(s, i + 1, j) = SubSeq(s, 1, j)
  <2>1. 1 \in 1 .. Len(s) + 1 /\ i \in 1 - 1 .. Len(s) /\ j \in i .. Len(s)
    OBVIOUS
  <2> QED
    BY <2>1, ConcatAdjacentSubSeq
<1>2. SubSeq(s, 1, j) \o SubSeq(s, j + 1, Len(s)) = SubSeq(s, 1, Len(s))
  <2>1. 1 \in 1 .. Len(s) + 1 /\ j \in 1 - 1 .. Len(s) /\ Len(s) \in j .. Len(s)
    OBVIOUS
  <2> QED
    BY <2>1, ConcatAdjacentSubSeq
<1>3. SubSeq(s, 1, Len(s)) = s
  OBVIOUS
<1> QED
  BY <1>1, <1>2, <1>3

\* The cell of one character.
LEMMA OneChar ==
  ASSUME NEW c
  PROVE  Chars(<<c>>) = <<PatternChar(c)>>
BY DEF Chars

\* The same of the line itself.
LEMMA PartsStand ==
  ASSUME NEW a \in Seq(CellSet), NEW b \in Seq(CellSet), NEW d \in Seq(CellSet),
         NEW x \in CellSet, NEW y \in CellSet
  PROVE  PartedAt(Parted(a, x, b, y, d), a, x, b, y, d, Len(a) + 1, Len(a) + Len(b) + 2)
<1>1. PICK line : line = Parted(a, x, b, y, d)
  OBVIOUS
<1>2. PICK la \in Nat, lb \in Nat, ld \in Nat : la = Len(a) /\ lb = Len(b) /\ ld = Len(d)
  OBVIOUS
<1>3. PICK c, r : c = la + 1 /\ r = la + lb + 2
  OBVIOUS
<1>4. line = a \o <<x>> \o b \o <<y>> \o d
  BY <1>1, Zenon DEF Parted
<1>5. PartedAt(line, a, x, b, y, d, c, r)
  <2>1. PartLengths(a, b, d, la, lb, ld, c, r)
    BY <1>2, <1>3, Zenon DEF PartLengths
  <2>2. Parts(line, a, x, b, y, d)
    BY <1>4, Zenon DEF Parts
  <2> QED
    BY <2>1, <2>2, TwoCellsBetween
<1> QED
  BY <1>1, <1>2, <1>3, <1>5

\* A line printed with its color range from i to j in color.
InColor(s, i, j) ==
  SubSeq(s, 1, i) \o Chars(<<"color">>) \o SubSeq(s, i + 1, j)
    \o Chars(<<"reset">>) \o SubSeq(s, j + 1, Len(s))

\* The codes at c and r stand around the range, and the rest is the line.
CodesStand(line, s, i, j) ==
  \E c, r \in Nat :
           /\ c < r /\ c \in DOMAIN line /\ r \in DOMAIN line
           /\ line[c] = PatternChar("color") /\ line[r] = PatternChar("reset")
           /\ SubSeq(line, c + 1, r - 1) = SubSeq(s, i + 1, j)
           /\ SubSeq(line, 1, c - 1) \o SubSeq(line, c + 1, r - 1)
                \o SubSeq(line, r + 1, Len(line)) = s

\* The console's codes stand around the range of a line.
LEMMA CodesPrinted ==
  ASSUME NEW s \in Seq(CellSet), NEW i \in Nat, NEW j \in Nat, i < j, j <= Len(s)
  PROVE  CodesStand(InColor(s, i, j), s, i, j)
<1> DEFINE line == InColor(s, i, j)
           a == SubSeq(s, 1, i)
           b == SubSeq(s, i + 1, j)
           d == SubSeq(s, j + 1, Len(s))
           x == PatternChar("color")
           y == PatternChar("reset")
           la == i
           lb == j - i
           ld == Len(s) - j
           c == la + 1
           r == la + lb + 2
<1>1. la \in Nat /\ lb \in Nat /\ ld \in Nat /\ c \in Nat /\ r \in Nat /\ c < r
  OBVIOUS
<1>2. a \in Seq(CellSet) /\ Len(a) = la
  <2>1. 0 \in Nat /\ 0 <= i /\ i <= Len(s) /\ i - 0 = i /\ 0 + 1 = 1
    OBVIOUS
  <2> QED
    BY <2>1, Slice
<1>3. b \in Seq(CellSet) /\ Len(b) = lb
  BY Slice
<1>4. d \in Seq(CellSet) /\ Len(d) = ld
  <2>1. Len(s) \in Nat /\ Len(s) <= Len(s)
    OBVIOUS
  <2> QED
    BY <2>1, Slice
<1>5. x \in CellSet /\ y \in CellSet
  <2>1. "color" \in CharSet /\ "reset" \in CharSet
    BY FlagsAreChars
  <2> QED
    BY <2>1, CharTyped
<1>6. Chars(<<"color">>) = <<x>> /\ Chars(<<"reset">>) = <<y>>
  BY OneChar
<1>7. line = a \o <<x>> \o b \o <<y>> \o d
  BY <1>6, Zenon DEF InColor
<1>8. a \o b \o d = s
  <2>1. i <= j
    OBVIOUS
  <2> QED
    BY <2>1, CutInThree
<1> HIDE DEF line, a, b, d, x, y, la, lb, ld, c, r
<1>9. /\ c \in DOMAIN line /\ r \in DOMAIN line /\ line[c] = x /\ line[r] = y
      /\ SubSeq(line, 1, c - 1) = a /\ SubSeq(line, c + 1, r - 1) = b
      /\ SubSeq(line, r + 1, Len(line)) = d
  <2>1. c = la + 1 /\ r = la + lb + 2
    BY DEF c, r
  <2>2. c = Len(a) + 1 /\ r = Len(a) + Len(b) + 2
    BY <1>2, <1>3, <2>1
  <2>3. line = Parted(a, x, b, y, d)
    BY <1>7, Zenon DEF Parted
  <2>4. PartedAt(Parted(a, x, b, y, d), a, x, b, y, d, Len(a) + 1, Len(a) + Len(b) + 2)
    BY <1>2, <1>3, <1>4, <1>5, PartsStand
  <2>5. PartedAt(line, a, x, b, y, d, c, r)
    BY <2>2, <2>3, <2>4
  <2> QED
    BY <2>5, Zenon DEF PartedAt
<1> QED
  <2>1. /\ SubSeq(line, c + 1, r - 1) = SubSeq(s, i + 1, j)
        /\ SubSeq(line, 1, c - 1) \o SubSeq(line, c + 1, r - 1)
             \o SubSeq(line, r + 1, Len(line)) = s
    BY <1>8, <1>9, Zenon DEF b
  <2>2. line[c] = PatternChar("color") /\ line[r] = PatternChar("reset")
    BY <1>9, Zenon DEF x, y
  <2> QED
    BY <1>1, <1>9, <2>1, <2>2, Zenon DEF CodesStand, line

-----------------------------------------------------------------------------
(* The states of a pattern.                                                *)

\* A line of fields, and its color range.
LineMarked ==
  (SizesAreTold /\ patPc = "formatted") =>
    dest \in Seq(CellSet) /\ RangeMarks(dest, colorRange)

\* The inductive invariant.
PatternInv ==
  /\ PatternTypes
  /\ patPc = "idle" => patAt = 0
  /\ LineMarked
  /\ FieldsInPlace

\* What compiling leaves alone.
LEMMA TypesKept ==
  ASSUME PatternTypes,
         UNCHANGED <<cached_tm_, datetimeOf, offsetOf, lastTime, delta, logMsg>>,
         pattern' \in Seq(CharSet), patAt' \in 0 .. Len(pattern'),
         user_chars' \in Seq(CharSet), formatters_' \in Seq(Fields)
  PROVE  PatternTypes'
BY DEF PatternTypes

\* Without a line nothing is claimed.
LEMMA NoLineYet ==
  ASSUME PatternTypes', patPc' \in {"compile", "ready", "threw"}
  PROVE  PatternInv'
BY DEF PatternInv, LineMarked, FieldsInPlace

\* The first state, and every step.
LEMMA PatternStarts == PatternInit => PatternInv
<1> SUFFICES ASSUME PatternInit PROVE PatternInv
  OBVIOUS
<1>1. <<>> \in Seq(CharSet) /\ <<>> \in Seq(Fields) /\ Len(<<>>) = 0
  OBVIOUS
<1>2. NoLogMsg \in LogMsgs
  BY DEF NoLogMsg, LogMsgs
<1>3. PatternTypes
  BY <1>1, <1>2 DEF PatternInit, PatternTypes
<1> QED
  BY <1>3 DEF PatternInit, PatternInv, LineMarked, FieldsInPlace

\* The pattern is given, and compiled character by character.
LEMMA GiveKeeps ==
  ASSUME PatternInv, GivePattern
  PROVE  PatternInv'
<1>1. pattern' \in Seq(CharSet)
  <2>1. pattern' \in Seq(STRING)
    BY PatternAssumption DEF GivePattern
  <2>2. STRING \subseteq CharSet
    BY Zenon DEF CharSet
  <2>3. \A S, T : S \subseteq T => Seq(S) \subseteq Seq(T)
    OBVIOUS
  <2>4. Seq(STRING) \subseteq Seq(CharSet)
    BY <2>2, <2>3, Zenon
  <2> QED
    BY <2>1, <2>4, Zenon
<1>2. patAt' = 0 /\ 0 \in 0 .. Len(pattern')
  BY <1>1 DEF GivePattern, PatternInv
<1>3. PatternTypes'
  BY <1>1, <1>2, TypesKept DEF PatternInv, PatternTypes, GivePattern
<1> QED
  BY <1>3, NoLineYet DEF GivePattern

LEMMA CharKeeps ==
  ASSUME PatternInv, CompileChar
  PROVE  PatternInv'
<1>1. PatternTypes
  BY DEF PatternInv
<1>2. patAt + 1 \in 1 .. Len(pattern)
  BY <1>1 DEF PatternTypes, CompileChar
<1>3. user_chars' \in Seq(CharSet)
  <2>1. pattern[patAt + 1] \in CharSet
    BY <1>1, <1>2 DEF PatternTypes
  <2> QED
    BY <1>1, <2>1 DEF PatternTypes, CompileChar
<1>4. PatternTypes'
  BY <1>1, <1>2, <1>3, TypesKept DEF PatternTypes, CompileChar
<1>5. patPc' = "compile"
  BY DEF CompileChar
<1> QED
  BY <1>4, <1>5, NoLineYet

LEMMA FlagKeeps ==
  ASSUME PatternInv, CompileFlag
  PROVE  PatternInv'
<1> DEFINE spec == PadSpec(pattern, patAt + 2)
           n == Len(pattern)
<1>1. PatternTypes
  BY DEF PatternInv
<1>2. pattern \in Seq(CharSet) /\ n \in Nat /\ patAt + 2 \in 1 .. n + 1
  BY <1>1 DEF PatternTypes, CompileFlag
<1>3. spec.pad \in Pads /\ spec.next \in patAt + 2 .. n + 1
  BY <1>2, PadSpecTyped
<1>4. Flushed \in Seq(Fields)
  BY <1>1, FlushedTyped
<1>5. /\ formatters_' = IF spec.next > n THEN Flushed
                        ELSE Append(Flushed, HandleFlag(pattern[spec.next], spec.pad))
      /\ patAt' = IF spec.next > n THEN n ELSE spec.next
  BY DEF CompileFlag
<1> HIDE DEF spec
<1>6. spec.next <= n => HandleFlag(pattern[spec.next], spec.pad) \in Fields
  <2>1. spec.next <= n => pattern[spec.next] \in CharSet
    BY <1>2, <1>3
  <2> QED
    BY <1>3, <2>1, FlagHandled
<1>7. formatters_' \in Seq(Fields) /\ patAt' \in 0 .. n
  BY <1>2, <1>3, <1>4, <1>5, <1>6
<1>8. user_chars' \in Seq(CharSet) /\ pattern' = pattern /\ patPc' = "compile"
  BY DEF CompileFlag
<1>9. PatternTypes'
  BY <1>1, <1>2, <1>7, <1>8, TypesKept DEF CompileFlag
<1> QED
  BY <1>8, <1>9, NoLineYet

LEMMA EndKeeps ==
  ASSUME PatternInv, CompileEnd
  PROVE  PatternInv'
<1>1. PatternTypes
  BY DEF PatternInv
<1>2. formatters_' \in Seq(Fields) /\ user_chars' \in Seq(CharSet) /\ patPc' = "ready"
  BY <1>1, FlushedTyped DEF CompileEnd
<1>3. PatternTypes'
  BY <1>1, <1>2, TypesKept DEF CompileEnd, PatternTypes
<1> QED
  BY <1>2, <1>3, NoLineYet

\* The line of a message, as the caches stand behind it.
LEMMA LineOfMsg ==
  ASSUME FormatMsg
  PROVE  /\ dest' = IF Line'.threw THEN <<>> ELSE Line'.dest
         /\ colorRange' = Line'.range
         /\ patPc' = IF Line'.threw THEN "threw" ELSE "formatted"
<1> DEFINE text(f) == TextOf(f, logMsg', IF f.flag = "+" THEN datetimeOf' ELSE cached_tm_',
                             offsetOf', delta')
           line == FoldLeft(LAMBDA l, f : FormatWith(l, f, text(f), logMsg'), NoLine, formatters_)
<1>1. /\ dest' = IF line.threw THEN <<>> ELSE line.dest
      /\ colorRange' = line.range
      /\ patPc' = IF line.threw THEN "threw" ELSE "formatted"
  BY Zenon DEF FormatMsg
<1>2. formatters_' = formatters_
  BY DEF FormatMsg
<1>3. line = Line'
  BY <1>2, Zenon DEF Line, FormatNext, FoldLeft, MapThenFoldSet
<1> HIDE DEF line
<1> QED
  BY <1>1, <1>3

\* A message is formatted through all of them.
LEMMA FormatKeeps ==
  ASSUME PatternInv, FormatMsg
  PROVE  PatternInv'
<1>1. PatternTypes
  BY DEF PatternInv
<1>2. logMsg' \in LogMsgs /\ logMsg'.secs \in Nat \ {0}
  <2>1. PICK s \in LogSeconds, n \in PayloadSizes, source \in BOOLEAN :
          logMsg' = [secs |-> s, size |-> n, source |-> source]
    BY DEF FormatMsg
  <2> QED
    BY <2>1, PatternAssumption DEF LogMsgs
<1>3. cached_tm_' = logMsg'.secs /\ datetimeOf' = logMsg'.secs
  BY DEF FormatMsg
<1>4. offsetOf' \in Nat /\ logMsg'.secs - offsetOf' < OffsetPeriod
  <2>1. offsetOf \in Nat /\ OffsetPeriod \in Nat \ {0}
    BY <1>1, PatternAssumption DEF PatternTypes
  <2>2. offsetOf' = IF logMsg'.secs - offsetOf >= OffsetPeriod THEN logMsg'.secs ELSE offsetOf
    BY DEF FormatMsg
  <2> QED
    BY <1>2, <2>1, <2>2
<1>5. delta' \in Nat /\ lastTime' \in Nat
  <2>1. lastTime \in Nat
    BY <1>1 DEF PatternTypes
  <2>2. /\ delta' = IF logMsg'.secs > lastTime THEN logMsg'.secs - lastTime ELSE 0
        /\ lastTime' = logMsg'.secs
    BY DEF FormatMsg
  <2> QED
    BY <1>2, <2>1, <2>2
<1>6. UNCHANGED <<pattern, patAt, user_chars, formatters_, printed>>
  BY DEF FormatMsg
<1>7. PatternTypes'
  BY <1>1, <1>2, <1>3, <1>4, <1>5, <1>6 DEF PatternTypes
<1>8. /\ dest' = IF Line'.threw THEN <<>> ELSE Line'.dest
      /\ colorRange' = Line'.range
      /\ patPc' = IF Line'.threw THEN "threw" ELSE "formatted"
  BY <1>6, LineOfMsg
<1>9. CASE ~SizesAreTold'
  BY <1>7, <1>8, <1>9 DEF PatternInv, LineMarked, FieldsInPlace
<1>10. CASE SizesAreTold'
  <2>1. ((PatternTypes /\ Fresh /\ SizesAreTold) =>
           /\ Line.threw = FALSE
           /\ Line.dest = FieldsOf(formatters_) /\ Line.dest \in Seq(CellSet)
           /\ RangeMarks(Line.dest, Line.range))'
    BY LineIsWhole, PTL
  <2>2. Fresh'
    BY <1>3 DEF Fresh
  <2>3. /\ Line'.threw = FALSE
        /\ (Line.dest = FieldsOf(formatters_))' /\ Line'.dest \in Seq(CellSet)
        /\ RangeMarks(Line.dest, Line.range)'
    BY <1>7, <1>10, <2>1, <2>2
  <2>4. dest' = Line'.dest /\ colorRange' = Line'.range /\ patPc' = "formatted"
    BY <1>8, <2>3
  <2>5. RangeMarks(dest, colorRange)'
    BY <2>3, <2>4 DEF RangeMarks, MarkedFields
  <2>6. LineMarked'
    BY <2>3, <2>4, <2>5 DEF LineMarked
  <2>7. FieldsInPlace'
    BY <1>4, <2>3, <2>4 DEF FieldsInPlace
  <2> QED
    BY <1>7, <2>4, <2>6, <2>7 DEF PatternInv
<1> QED
  BY <1>9, <1>10

\* The fields of a message do not change while it is printed.
LEMMA SameFields ==
  ASSUME UNCHANGED <<formatters_, logMsg, offsetOf, delta>>
  PROVE  /\ FieldsOf(formatters_)' = FieldsOf(formatters_)
         /\ \A b, e : FieldsOf(SubSeq(formatters_, b, e))' = FieldsOf(SubSeq(formatters_, b, e))
<1>1. FieldsOf(formatters_)' = FieldsOf(formatters_)
  BY DEF FieldsOf, FoldLeft, MapThenFoldSet, WithField, FieldOf, SourceLeftOut, OwnText
<1>2. ASSUME NEW b, NEW e
      PROVE  FieldsOf(SubSeq(formatters_, b, e))' = FieldsOf(SubSeq(formatters_, b, e))
  BY DEF FieldsOf, FoldLeft, MapThenFoldSet, WithField, FieldOf, SourceLeftOut, OwnText
<1> QED
  BY <1>1, <1>2

\* Nor do the marked ones.
LEMMA SameMarks ==
  ASSUME UNCHANGED <<formatters_, logMsg, offsetOf, delta>>, NEW fields
  PROVE  MarkedFields(fields)' <=> MarkedFields(fields)
<1>1. \A flag : LastFlag(flag)' = LastFlag(flag)
  BY DEF LastFlag
<1>2. \A b, e : FieldsOf(SubSeq(formatters_, b, e))' = FieldsOf(SubSeq(formatters_, b, e))
  BY SameFields
<1>3. \A b, e : FieldsOf(SubSeq(formatters_, b + 1, e - 1))'
                 = FieldsOf(SubSeq(formatters_, b + 1, e - 1))
  BY <1>2
<1> QED
  BY <1>1, <1>3 DEF MarkedFields

\* The line is printed, in color or not.
LEMMA PrintKeeps ==
  ASSUME PatternInv, PrintLine
  PROVE  PatternInv'
<1>1. PatternTypes /\ PatternTypes'
  BY DEF PatternInv, PatternTypes, PrintLine
<1>2. /\ patPc = "formatted" /\ patPc' = "printed"
      /\ UNCHANGED <<formatters_, cached_tm_, offsetOf, delta, logMsg, dest, colorRange>>
  BY DEF PrintLine
<1>3. CASE ~SizesAreTold'
  BY <1>1, <1>2, <1>3 DEF PatternInv, LineMarked, FieldsInPlace
<1>4. CASE SizesAreTold'
  <2>1. SizesAreTold /\ dest \in Seq(CellSet) /\ RangeMarks(dest, colorRange)
    BY <1>2, <1>4 DEF SizesAreTold, PatternInv, LineMarked
  <2> DEFINE r1 == colorRange[1]
             r2 == colorRange[2]
             n == Len(dest)
  <2>2. n \in Nat /\ r1 \in 0 .. n /\ r2 \in 0 .. n
    BY <2>1 DEF RangeMarks
  <2>3. /\ (dest = FieldsOf(formatters_))'
        /\ (\E i \in DOMAIN formatters_ : formatters_[i].flag = "z")' =>
             (logMsg.secs - offsetOf < OffsetPeriod)'
    <3>1. /\ dest = FieldsOf(formatters_)
          /\ (\E i \in DOMAIN formatters_ : formatters_[i].flag = "z") =>
               logMsg.secs - offsetOf < OffsetPeriod
      BY <1>2, <2>1 DEF PatternInv, FieldsInPlace
    <3>2. FieldsOf(formatters_)' = FieldsOf(formatters_)
      BY <1>2, SameFields
    <3> QED
      BY <1>2, <3>1, <3>2
  <2>4. ASSUME printed' # dest' PROVE (\E c, r \in DOMAIN printed : c < r /\ CodesAt(c, r))'
    <3>1. printed' = InColor(dest, r1, r2) /\ r1 < r2
      BY <1>2, <2>2, <2>4 DEF PrintLine, InColor
    <3>2. r1 \in Nat /\ r2 \in Nat /\ r2 <= n
      BY <2>2
    <3> DEFINE marked == SubSeq(dest, r1 + 1, r2)
               line == printed'
    <3>3. PICK c \in Nat, r \in Nat :
            /\ c < r /\ c \in DOMAIN line /\ r \in DOMAIN line
            /\ line[c] = PatternChar("color") /\ line[r] = PatternChar("reset")
            /\ SubSeq(line, c + 1, r - 1) = marked
            /\ SubSeq(line, 1, c - 1) \o SubSeq(line, c + 1, r - 1)
                 \o SubSeq(line, r + 1, Len(line)) = dest
      <4> HIDE DEF r1, r2
      <4>1. CodesStand(InColor(dest, r1, r2), dest, r1, r2)
        BY <2>1, <3>1, <3>2, CodesPrinted
      <4>2. CodesStand(line, dest, r1, r2)
        BY <3>1, <4>1
      <4> QED
        BY <4>2, Zenon DEF CodesStand
    <3>4. PICK m : m = marked
      OBVIOUS
    <3>5. MarkedFields(m)'
      <4>1. MarkedFields(m)
        BY <2>1, <3>1, <3>4 DEF RangeMarks
      <4> QED
        BY <1>2, <4>1, SameMarks
    <3>6. SubSeq(printed', c + 1, r - 1) = m
      BY <3>3, <3>4
    <3>7. CodesAt(c, r)'
      BY <1>2, <3>3, <3>5, <3>6 DEF CodesAt
    <3> QED
      BY <3>3, <3>7
  <2>5. FieldsInPlace'
    BY <1>2, <2>3, <2>4 DEF FieldsInPlace
  <2> QED
    BY <1>1, <1>2, <2>5 DEF PatternInv, LineMarked
<1> QED
  BY <1>3, <1>4

\* Every step of the formatter, and every other step.
LEMMA PatternKeeps ==
  ASSUME PatternInv, PatternStep \/ UNCHANGED patternVars
  PROVE  PatternInv'
<1>1. CASE UNCHANGED patternVars
  <2>1. /\ FieldsOf(formatters_)' = FieldsOf(formatters_) /\ SizesAreTold' = SizesAreTold
        /\ UNCHANGED <<patPc, formatters_, dest, colorRange, printed, logMsg, offsetOf>>
    BY <1>1, SameFields DEF patternVars, SizesAreTold
  <2>2. \A fields : MarkedFields(fields)' <=> MarkedFields(fields)
    BY <1>1, SameMarks DEF patternVars
  <2>3. \A c, r : CodesAt(c, r)' <=> CodesAt(c, r)
    BY <2>1, <2>2 DEF CodesAt
  <2>4. FieldsInPlace'
    BY <2>1, <2>3 DEF PatternInv, FieldsInPlace
  <2>5. LineMarked'
    BY <2>1, <2>2 DEF PatternInv, LineMarked, RangeMarks
  <2>6. PatternTypes' /\ (patPc' = "idle" => patAt' = 0)
    BY <1>1 DEF patternVars, PatternInv, PatternTypes
  <2> QED
    BY <2>4, <2>5, <2>6 DEF PatternInv
<1> QED
  BY <1>1, GiveKeeps, CharKeeps, FlagKeeps, EndKeeps, FormatKeeps, PrintKeeps DEF PatternStep

LEMMA PatternTurn == [Next]_vars => PatternStep \/ UNCHANGED patternVars
BY DEF Next, vars, LogRuns, PatternRuns, SinksRun, FiltersRun, FormatStringRuns, NumbersRun,
       OtherThanLog

\* For any patterns, widths, seconds and texts, whatever messages come one after
\* another: a line is the fields of its pattern in order, each in its width and of
\* this message's second, and the codes of the console stand around the marked
\* fields (pattern_formatter-inl.h:35-84,1003-1018,1271-1316, ansicolor_sink-inl.h:40-65).
THEOREM LinesAreFields == Spec => []FieldsInPlace
<1>1. Init => PatternInv
  BY PatternStarts DEF Init
<1>2. PatternInv /\ [Next]_vars => PatternInv'
  BY PatternTurn, PatternKeeps
<1>3. PatternInv => FieldsInPlace
  BY DEF PatternInv
<1> QED
  BY <1>1, <1>2, <1>3, PTL DEF Spec

=============================================================================
