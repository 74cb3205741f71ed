---------------------------- MODULE CircularQueue ----------------------------
(***************************************************************************)
(* circular_q (spdlog/details/circular_q.h): a ring of max_items_ slots,   *)
(* one of which is always free and marks a full queue.  A queue is a       *)
(* record; its operations return the queue after them.                     *)
(***************************************************************************)
EXTENDS Integers

CONSTANT NoItem  \* what a slot holds before anything is stored in it

NewQueue(n) ==
  [max_items |-> n + 1, head |-> 0, tail |-> 0, overrun_counter |-> 0,
   v |-> [i \in 0 .. n |-> NoItem]]

\* The queue of the default constructor: nothing can be stored in it.
DisabledQueue ==
  [max_items |-> 0, head |-> 0, tail |-> 0, overrun_counter |-> 0, v |-> <<>>]

After(q, i) == (i + 1) % q.max_items

Size(q) == IF q.tail >= q.head THEN q.tail - q.head ELSE q.max_items - (q.head - q.tail)
Empty(q) == q.tail = q.head
Full(q) == q.max_items > 0 /\ After(q, q.tail) = q.head
FrontItem(q) == q.v[q.head]
At(q, i) == q.v[(q.head + i) % q.max_items]

\* push_back: the oldest item is overrun if there is no room.
PushBack(q, x) ==
  IF q.max_items = 0 THEN q
  ELSE LET pushed == [q EXCEPT !.v[q.tail] = x, !.tail = After(q, q.tail)]
       IN  IF pushed.tail # pushed.head THEN pushed
           ELSE [pushed EXCEPT !.head = After(q, q.head),
                               !.overrun_counter = q.overrun_counter + 1]

PopFront(q) == [q EXCEPT !.head = After(q, q.head)]

\* The items stored, the oldest first.
Contents(q) == [i \in 1 .. Size(q) |-> At(q, i - 1)]

=============================================================================
