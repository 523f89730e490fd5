----------------------------- MODULE EventQueue -----------------------------
(***************************************************************************)
(* Queue of nrg_queue.h, a circular vector that doubles when it is full,   *)
(* and EventQueue of nrg_event.h over it.  Slots that hold nothing are     *)
(* written NoEvent; no operation may read one.                             *)
(***************************************************************************)
LOCAL INSTANCE Naturals
LOCAL INSTANCE Sequences

CONSTANT NoEvent

Queue(data, size, head, tail) == [data |-> data, size |-> size, head |-> head, tail |-> tail]

NewQueue(size) == Queue([i \in 0 .. size - 1 |-> NoEvent], size, 0, 0)

\* Mutant: the slots are copied without unwrapping them.
ExpandInPlace(q) ==
  Queue([i \in 0 .. 2 * q.size - 1 |-> IF i < q.size THEN NoEvent ELSE q.data[i - q.size]],
        2 * q.size, q.size, 0)

\* Queue::expand, called when tail has met head: the events move to the upper
\* half in the order they were pushed.
Expand(q) ==
  Queue([i \in 0 .. 2 * q.size - 1 |->
           IF i < q.size THEN NoEvent ELSE q.data[(q.head + (i - q.size)) % q.size]],
        2 * q.size, q.size, 0)

\* Mutant: the end of the queue is not taken modulo its size.
PushEventUnwrapped(q, e) ==
  LET pushed == Queue([q.data EXCEPT ![q.tail] = e], q.size, q.head, q.tail + 1)
  IN IF pushed.tail = pushed.head THEN Expand(pushed) ELSE pushed

\* Queue::push
PushEvent(q, e) ==
  LET pushed == Queue([q.data EXCEPT ![q.tail] = e], q.size, q.head, (q.tail + 1) % q.size)
  IN IF pushed.tail = pushed.head THEN Expand(pushed) ELSE pushed

Empty(q) == q.head = q.tail

\* The event pollEvent hands out, and the queue it leaves.
Polled(q)    == q.data[q.head]
PollEvent(q) ==
  Queue([q.data EXCEPT ![q.head] = NoEvent], q.size, (q.head + 1) % q.size, q.tail)

ClearEvents(q) == NewQueue(q.size)

IsQueue(q, events) ==
  /\ q = Queue(q.data, q.size, q.head, q.tail)
  /\ q.size \in Nat \ {0} /\ q.head \in 0 .. q.size - 1 /\ q.tail \in 0 .. q.size - 1
  /\ q.data \in [0 .. q.size - 1 -> events \cup {NoEvent}]

QueueLen(q) == IF q.tail >= q.head THEN q.tail - q.head ELSE q.size - (q.head - q.tail)

\* What polling until the queue is empty hands out.
Contents(q) == [i \in 1 .. QueueLen(q) |-> q.data[(q.head + i - 1) % q.size]]
=============================================================================
