----------------------------- MODULE ServerProofs -----------------------------
(***************************************************************************)
(* Theorems about Server, for any addresses, limit on players, size of the *)
(* event queue and number of receptions per update.                        *)
(***************************************************************************)
EXTENDS Server, ListProofs

-----------------------------------------------------------------------------
(* The event queue *)

\* A place of the circular vector, for offsets below its size.
LEMMA Wrap ==
  ASSUME NEW n \in Nat \ {0}, NEW h \in 0 .. n - 1, NEW i \in 0 .. n - 1
  PROVE  (h + i) % n = IF h + i < n THEN h + i ELSE h + i - n
<1>1. CASE h + i < n
  <2>1. h + i \in 0 .. n - 1
    BY <1>1
  <2>2. \A k \in 0 .. n - 1 : k % n = k
    OBVIOUS
  <2>. QED  BY <1>1, <2>1, <2>2
<1>2. CASE ~(h + i < n)
  <2>1. h + i \in n .. 2 * n - 1
    BY <1>2
  <2>2. \A k \in n .. 2 * n - 1 : k % n = k - n
    OBVIOUS
  <2>. QED  BY <1>2, <2>1, <2>2
<1>. QED  BY <1>1, <1>2

\* Different offsets below its size are different places of the vector.
LEMMA WrapInjective ==
  ASSUME NEW n \in Nat \ {0}, NEW h \in 0 .. n - 1, NEW i \in 0 .. n - 1, NEW j \in 0 .. n - 1
  PROVE  (h + i) % n \in 0 .. n - 1 /\ ((h + i) % n = (h + j) % n => i = j)
<1>. DEFINE s == (h + i) % n  v == (h + j) % n
<1>1. s = (IF h + i < n THEN h + i ELSE h + i - n) /\ v = (IF h + j < n THEN h + j ELSE h + j - n)
  BY Wrap
<1>. HIDE DEF s, v
<1>2. s \in 0 .. n - 1 /\ (s = v => i = j)
  BY <1>1
<1>. QED  BY <1>2 DEF s, v

\* The place after a place.
LEMMA WrapNext ==
  ASSUME NEW n \in Nat \ {0}, NEW h \in 0 .. n - 1, NEW i \in 0 .. n - 1, i + 1 < n
  PROVE  (((h + 1) % n) + i) % n = (h + (i + 1)) % n
<1>. DEFINE g == (h + 1) % n  s == (h + (i + 1)) % n  v == (g + i) % n
<1>1. 1 \in 0 .. n - 1 /\ i + 1 \in 0 .. n - 1
  OBVIOUS
<1>2. g = (IF h + 1 < n THEN h + 1 ELSE h + 1 - n) /\ g \in 0 .. n - 1
  BY <1>1, Wrap, WrapInjective
<1>3. s = (IF h + (i + 1) < n THEN h + (i + 1) ELSE h + (i + 1) - n)
  BY <1>1, Wrap
<1>. HIDE DEF g, s
<1>4. v = (IF g + i < n THEN g + i ELSE g + i - n)
  BY <1>2, Wrap
<1>. HIDE DEF v
<1>5. v = s
  BY <1>2, <1>3, <1>4
<1>. QED  BY <1>5 DEF g, s, v

\* The queue is never full: its length says how far the tail is from the head.
LEMMA QueueLenIs ==
  ASSUME NEW q, IsQueue(q, PlayerEvent)
  PROVE  /\ QueueLen(q) \in 0 .. q.size - 1
         /\ (q.head + QueueLen(q)) % q.size = q.tail
         /\ Empty(q) <=> QueueLen(q) = 0
         /\ DOMAIN Contents(q) = 1 .. QueueLen(q) /\ Contents(q) \in Seq(PlayerEvent \cup {None})
         /\ Len(Contents(q)) = QueueLen(q)
<1>1. q.size \in Nat \ {0} /\ q.head \in 0 .. q.size - 1 /\ q.tail \in 0 .. q.size - 1
      /\ q.data \in [0 .. q.size - 1 -> PlayerEvent \cup {None}]
  BY DEF IsQueue, Queue
<1>2. QueueLen(q) \in 0 .. q.size - 1 /\ (Empty(q) <=> QueueLen(q) = 0)
  BY <1>1, SMTT(30) DEF QueueLen, Empty
<1>3. (q.head + QueueLen(q)) % q.size = q.tail
  <2>1. (q.head + QueueLen(q)) % q.size =
          IF q.head + QueueLen(q) < q.size THEN q.head + QueueLen(q)
          ELSE q.head + QueueLen(q) - q.size
    BY <1>1, <1>2, Wrap
  <2>. QED  BY <1>1, <2>1 DEF QueueLen
<1>4. \A i \in 1 .. QueueLen(q) : (q.head + i - 1) % q.size \in 0 .. q.size - 1
  BY <1>1, <1>2
<1>5. \A i \in 1 .. QueueLen(q) : q.data[(q.head + i - 1) % q.size] \in PlayerEvent \cup {None}
  BY <1>1, <1>4
<1>. QED  BY <1>2, <1>3, <1>5 DEF Contents

\* push appends to what polling hands out, also when the queue is rebuilt with
\* twice the size around a head in its middle.
LEMMA PushExact ==
  ASSUME NEW q, IsQueue(q, PlayerEvent), NEW e \in PlayerEvent
  PROVE  /\ IsQueue(PushEvent(q, e), PlayerEvent)
         /\ Contents(PushEvent(q, e)) = Append(Contents(q), e)
<1>. DEFINE n == q.size  h == q.head  t == q.tail  L == QueueLen(q)
            data == [q.data EXCEPT ![t] = e]
            next == (t + 1) % n
            pushed == [data |-> data, size |-> n, head |-> h, tail |-> next]
            new == PushEvent(q, e)
<1>1. /\ q = [data |-> q.data, size |-> n, head |-> h, tail |-> t]
      /\ n \in Nat \ {0} /\ h \in 0 .. n - 1 /\ t \in 0 .. n - 1
      /\ q.data \in [0 .. n - 1 -> PlayerEvent \cup {None}]
  BY DEF IsQueue, Queue
<1>2. L \in 0 .. n - 1 /\ (h + L) % n = t
      /\ DOMAIN Contents(q) = 1 .. L /\ Contents(q) \in Seq(PlayerEvent \cup {None})
      /\ Len(Contents(q)) = L
  BY QueueLenIs
<1>3. new = IF next = h THEN Expand(pushed) ELSE pushed
  BY DEF PushEvent, Queue
<1>4. data \in [0 .. n - 1 -> PlayerEvent \cup {None}] /\ next \in 0 .. n - 1
  BY <1>1
<1>5. \A i \in 1 .. L + 1 :
        data[(h + i - 1) % n] = IF i <= L THEN Contents(q)[i] ELSE e
  <2>1. TAKE i \in 1 .. L + 1
  <2>2. i - 1 \in 0 .. n - 1 /\ h + (i - 1) = h + i - 1
    BY <1>1, <1>2
  <2>3. (h + (i - 1)) % n \in 0 .. n - 1 /\ ((h + (i - 1)) % n = (h + L) % n => i - 1 = L)
    <3>. HIDE DEF n, h, L
    <3>. QED  BY <1>1, <1>2, <2>2, WrapInjective
  <2>5. (h + i - 1) % n \in 0 .. n - 1 /\ ((h + i - 1) % n = t <=> i = L + 1)
    <3>1. i = L + 1 => h + (i - 1) = h + L
      BY <1>2
    <3>2. i - 1 = L => i = L + 1
      BY <1>2
    <3>. HIDE DEF n, h, L
    <3>. QED  BY <1>2, <2>2, <2>3, <3>1, <3>2
  <2>6. CASE i = L + 1
    <3>1. (h + i - 1) % n = t /\ ~(i <= L)
      BY <1>2, <2>5, <2>6
    <3>. QED  BY <1>1, <3>1
  <2>7. CASE i # L + 1
    <3>1. i \in 1 .. L /\ (h + i - 1) % n # t /\ (h + i - 1) % n \in 0 .. n - 1
      BY <1>2, <2>5, <2>7
    <3>2. data[(h + i - 1) % n] = q.data[(h + i - 1) % n]
      BY <1>1, <3>1
    <3>. QED  BY <3>1, <3>2 DEF Contents
  <2>. QED  BY <2>6, <2>7
<1>6. \A i \in 1 .. L + 1 : Append(Contents(q), e)[i] = IF i <= L THEN Contents(q)[i] ELSE e
  BY <1>2
<1>7. Append(Contents(q), e) \in Seq(PlayerEvent \cup {None}) /\ Len(Append(Contents(q), e)) = L + 1
  BY <1>2
<1>8. next = IF t + 1 < n THEN t + 1 ELSE 0
  <2>1. CASE n = 1
    BY <1>1, <2>1
  <2>2. CASE n # 1
    <3>1. 1 \in 0 .. n - 1
      BY <1>1, <2>2
    <3>2. next = IF t + 1 < n THEN t + 1 ELSE t + 1 - n
      BY <1>1, <3>1, Wrap
    <3>. QED  BY <1>1, <3>2
  <2>. QED  BY <2>1, <2>2
<1>9. CASE next # h
  <2>1. new = pushed
    BY <1>3, <1>9
  <2>. HIDE DEF new, data, next
  <2>2. new.data = data /\ new.size = n /\ new.head = h /\ new.tail = next
        /\ new = [data |-> new.data, size |-> new.size, head |-> new.head, tail |-> new.tail]
    BY <2>1
  <2>3. IsQueue(new, PlayerEvent)
    BY <1>1, <1>4, <2>2 DEF IsQueue, Queue
  <2>4. QueueLen(new) = L + 1
    BY <1>1, <1>8, <1>9, <2>2 DEF QueueLen
  <2>5. Contents(new) = [i \in 1 .. L + 1 |-> data[(h + i - 1) % n]]
    BY <2>2, <2>4 DEF Contents
  <2>6. Contents(new) = [i \in 1 .. L + 1 |-> IF i <= L THEN Contents(q)[i] ELSE e]
    BY <1>5, <2>5
  <2>7. Append(Contents(q), e) = [i \in 1 .. L + 1 |-> IF i <= L THEN Contents(q)[i] ELSE e]
    <3>. DEFINE F(i) == IF i <= L THEN Contents(q)[i] ELSE e
    <3>1. \A i \in 1 .. L + 1 : Append(Contents(q), e)[i] = F(i)
      BY <1>6
    <3>. DEFINE a == Append(Contents(q), e)
    <3>2. a \in Seq(PlayerEvent \cup {None}) /\ Len(a) = L + 1 /\ \A i \in 1 .. L + 1 : a[i] = F(i)
      BY <1>7, <3>1
    <3>. HIDE DEF F, a
    <3>3. a = [i \in 1 .. L + 1 |-> a[i]]
      BY <3>2
    <3>4. a = [i \in 1 .. L + 1 |-> F(i)]
      BY <3>2, <3>3
    <3>. QED  BY <3>4 DEF F, a
  <2>. QED  BY <2>3, <2>6, <2>7 DEF new
<1>10. CASE next = h
  <2>. DEFINE big == [i \in 0 .. 2 * n - 1 |->
                        IF i < n THEN None ELSE data[(h + (i - n)) % n]]
  <2>1. new = [data |-> big, size |-> 2 * n, head |-> n, tail |-> 0]
    BY <1>3, <1>10 DEF Expand, Queue
  <2>. HIDE DEF new, data, next
  <2>2. new.data = big /\ new.size = 2 * n /\ new.head = n /\ new.tail = 0
        /\ new = [data |-> new.data, size |-> new.size, head |-> new.head, tail |-> new.tail]
    BY <2>1
  <2>3. big \in [0 .. 2 * n - 1 -> PlayerEvent \cup {None}]
    <3>1. \A i \in 0 .. 2 * n - 1 : ~(i < n) => (h + (i - n)) % n \in 0 .. n - 1
      BY <1>1
    <3>. QED  BY <1>4, <3>1
  <2>4. IsQueue(new, PlayerEvent)
    <3>. HIDE DEF big
    <3>. QED  BY <1>1, <2>2, <2>3 DEF IsQueue, Queue
  <2>5. L + 1 = n
    BY <1>1, <1>8, <1>10 DEF QueueLen
  <2>6. QueueLen(new) = n
    BY <1>1, <2>2 DEF QueueLen
  <2>7. Contents(new) = [i \in 1 .. n |-> new.data[(n + i - 1) % (2 * n)]]
    BY <2>2, <2>6 DEF Contents
  <2>8. \A i \in 1 .. n : new.data[(n + i - 1) % (2 * n)] = data[(h + i - 1) % n]
    <3>1. TAKE i \in 1 .. n
    <3>2. /\ 2 * n \in Nat \ {0} /\ n \in 0 .. 2 * n - 1 /\ i - 1 \in 0 .. 2 * n - 1
          /\ n + (i - 1) < 2 * n /\ n + (i - 1) = n + i - 1
      BY <1>1
    <3>3. (n + i - 1) % (2 * n) = n + i - 1
      BY <3>2, Wrap
    <3>4. n + i - 1 \in 0 .. 2 * n - 1 /\ ~(n + i - 1 < n) /\ h + ((n + i - 1) - n) = h + i - 1
      BY <1>1
    <3>5. big[n + i - 1] = data[(h + i - 1) % n]
      BY <3>4
    <3>. QED  BY <2>2, <3>3, <3>5
  <2>9. Contents(new) = [i \in 1 .. L + 1 |-> IF i <= L THEN Contents(q)[i] ELSE e]
    BY <1>5, <2>5, <2>7, <2>8
  <2>10. Append(Contents(q), e) = [i \in 1 .. L + 1 |-> IF i <= L THEN Contents(q)[i] ELSE e]
    <3>. DEFINE F(i) == IF i <= L THEN Contents(q)[i] ELSE e
    <3>1. \A i \in 1 .. L + 1 : Append(Contents(q), e)[i] = F(i)
      BY <1>6
    <3>. DEFINE a == Append(Contents(q), e)
    <3>2. a \in Seq(PlayerEvent \cup {None}) /\ Len(a) = L + 1 /\ \A i \in 1 .. L + 1 : a[i] = F(i)
      BY <1>7, <3>1
    <3>. HIDE DEF F, a
    <3>3. a = [i \in 1 .. L + 1 |-> a[i]]
      BY <3>2
    <3>4. a = [i \in 1 .. L + 1 |-> F(i)]
      BY <3>2, <3>3
    <3>. QED  BY <3>4 DEF F, a
  <2>. QED  BY <2>4, <2>9, <2>10 DEF new
<1>. QED  BY <1>9, <1>10

\* poll hands out the oldest event and keeps the others.
LEMMA PollExact ==
  ASSUME NEW q, IsQueue(q, PlayerEvent), ~Empty(q)
  PROVE  /\ IsQueue(PollEvent(q), PlayerEvent)
         /\ Contents(q) # <<>> /\ Polled(q) = Head(Contents(q))
         /\ Contents(PollEvent(q)) = Tail(Contents(q))
<1>. DEFINE n == q.size  h == q.head  t == q.tail  L == QueueLen(q)
            data == [q.data EXCEPT ![h] = None]
            next == (h + 1) % n
            new == PollEvent(q)
<1>1. /\ q = [data |-> q.data, size |-> n, head |-> h, tail |-> t]
      /\ n \in Nat \ {0} /\ h \in 0 .. n - 1 /\ t \in 0 .. n - 1
      /\ q.data \in [0 .. n - 1 -> PlayerEvent \cup {None}]
  BY DEF IsQueue, Queue
<1>2. L \in 1 .. n - 1 /\ (h + L) % n = t
      /\ DOMAIN Contents(q) = 1 .. L /\ Contents(q) \in Seq(PlayerEvent \cup {None})
      /\ Len(Contents(q)) = L
  BY QueueLenIs
<1>3. new = [data |-> data, size |-> n, head |-> next, tail |-> t]
  BY DEF PollEvent, Queue
<1>4. Contents(q) # <<>> /\ Polled(q) = Head(Contents(q))
  <2>1. h + 1 - 1 = h /\ h % n = h /\ 1 \in 1 .. L
    <3>1. \A k \in 0 .. n - 1 : k % n = k
      BY <1>1
    <3>. HIDE DEF n, h, L
    <3>. QED  BY <1>1, <1>2, <3>1
  <2>2. Contents(q)[1] = q.data[h]
    BY <2>1 DEF Contents
  <2>. QED  BY <1>2, <2>2 DEF Polled
<1>5. data \in [0 .. n - 1 -> PlayerEvent \cup {None}] /\ next \in 0 .. n - 1
  BY <1>1
<1>6. next = IF h + 1 < n THEN h + 1 ELSE 0
  <2>1. 1 \in 0 .. n - 1
    BY <1>1, <1>2
  <2>2. next = IF h + 1 < n THEN h + 1 ELSE h + 1 - n
    BY <1>1, <2>1, Wrap
  <2>. QED  BY <1>1, <2>2
<1>. HIDE DEF new, data, next
<1>7. new.data = data /\ new.size = n /\ new.head = next /\ new.tail = t
      /\ new = [data |-> new.data, size |-> new.size, head |-> new.head, tail |-> new.tail]
  BY <1>3
<1>8. IsQueue(new, PlayerEvent)
  BY <1>1, <1>5, <1>7 DEF IsQueue, Queue
<1>9. QueueLen(new) = L - 1
  <2>1. h # t
    BY DEF Empty
  <2>. QED  BY <1>1, <1>6, <1>7, <2>1 DEF QueueLen
<1>10. \A i \in 1 .. L - 1 : data[(next + i - 1) % n] = Contents(q)[i + 1]
  <2>1. TAKE i \in 1 .. L - 1
  <2>2. /\ i \in 0 .. n - 1 /\ i - 1 \in 0 .. n - 1 /\ i + 1 \in 1 .. L
        /\ next + (i - 1) = next + i - 1 /\ h + (i + 1) - 1 = h + i
    BY <1>1, <1>2, <1>5, SMTT(30)
  <2>3. (next + (i - 1)) % n = (h + ((i - 1) + 1)) % n
    <3>1. (i - 1) + 1 < n
      BY <1>1, <1>2
    <3>. HIDE DEF n, h, L
    <3>. QED  BY <1>1, <2>2, <3>1, WrapNext DEF next
  <2>4. (h + i) % n \in 0 .. n - 1 /\ ((h + i) % n = (h + 0) % n => i = 0)
    <3>1. 0 \in 0 .. n - 1
      BY <1>1
    <3>. HIDE DEF n, h, L
    <3>. QED  BY <1>1, <2>2, <3>1, WrapInjective
  <2>5. (next + i - 1) % n = (h + i) % n /\ (h + i) % n # h /\ (h + i) % n \in 0 .. n - 1
    <3>1. (h + 0) % n = h
      <4>1. \A k \in 0 .. n - 1 : k % n = k
        BY <1>1
      <4>2. h + 0 = h
        BY <1>1
      <4>. QED  BY <1>1, <4>1, <4>2
    <3>2. (i - 1) + 1 = i /\ i # 0
      BY <1>2
    <3>. HIDE DEF n, h, L
    <3>. QED  BY <2>2, <2>3, <2>4, <3>1, <3>2
  <2>6. data[(h + i) % n] = q.data[(h + i) % n]
    BY <1>1, <2>5 DEF data
  <2>. QED  BY <2>2, <2>5, <2>6 DEF Contents
<1>11. Contents(new) = [i \in 1 .. L - 1 |-> Contents(q)[i + 1]]
  <2>1. Contents(new) = [i \in 1 .. L - 1 |-> data[(next + i - 1) % n]]
    BY <1>7, <1>9 DEF Contents
  <2>. QED  BY <1>10, <2>1
<1>12. Tail(Contents(q)) = [i \in 1 .. L - 1 |-> Contents(q)[i + 1]]
  <2>1. Tail(Contents(q)) \in Seq(PlayerEvent \cup {None}) /\ Len(Tail(Contents(q))) = L - 1
        /\ \A i \in 1 .. L - 1 : Tail(Contents(q))[i] = Contents(q)[i + 1]
    BY <1>2, <1>4, HeadTailProperties
  <2>. DEFINE a == Tail(Contents(q))
  <2>. HIDE DEF a, L
  <2>2. a = [i \in 1 .. L - 1 |-> a[i]]
    <3>1. a \in Seq(PlayerEvent \cup {None}) /\ Len(a) = L - 1
      BY <2>1 DEF a
    <3>. QED  BY <3>1
  <2>3. \A i \in 1 .. L - 1 : a[i] = Contents(q)[i + 1]
    BY <2>1 DEF a
  <2>4. a = [i \in 1 .. L - 1 |-> Contents(q)[i + 1]]
    BY <2>2, <2>3
  <2>. QED  BY <2>4 DEF a
<1>. QED  BY <1>4, <1>8, <1>11, <1>12 DEF new

\* A new or cleared queue hands out nothing.
LEMMA NewQueueExact ==
  ASSUME NEW n \in Nat \ {0}
  PROVE  IsQueue(NewQueue(n), PlayerEvent) /\ Contents(NewQueue(n)) = <<>>
<1>1. 0 \in 0 .. n - 1
  OBVIOUS
<1>2. IsQueue(NewQueue(n), PlayerEvent)
  <2>. DEFINE q == NewQueue(n)
  <2>1. q.data = [i \in 0 .. n - 1 |-> None] /\ q.size = n /\ q.head = 0 /\ q.tail = 0
        /\ q = Queue(q.data, q.size, q.head, q.tail)
    BY DEF NewQueue, Queue
  <2>. HIDE DEF q
  <2>2. q.data \in [0 .. q.size - 1 -> PlayerEvent \cup {None}]
    BY <2>1
  <2>3. IsQueue(q, PlayerEvent)
    BY <1>1, <2>1, <2>2 DEF IsQueue
  <2>. QED  BY <2>3 DEF q
<1>3. QueueLen(NewQueue(n)) = 0
  BY DEF NewQueue, Queue, QueueLen
<1>4. Len(Contents(NewQueue(n))) = 0 /\ Contents(NewQueue(n)) \in Seq(PlayerEvent \cup {None})
  BY <1>2, <1>3, QueueLenIs
<1>. QED  BY <1>2, <1>4, EmptySeq

-----------------------------------------------------------------------------
(* The inductive invariant *)

\* The players that can still be announced or have been: those that were there
\* when isFull refused nobody.
Admitted == {a \in DOMAIN clients : clients[a].response \in {"CHALLENGE", "ACCEPTED"}}

AdmittedFit == MaxPlayers # 0 => Cardinality(Admitted) < MaxPlayers

\* A player is announced when it leaves its handshake, having been accepted.
Announced(q) ==
  /\ q.joined => q.response = "ACCEPTED"
  /\ q.st = "handshake" => ~q.joined

ControlOK ==
  /\ pc \in {"app", "receive", "remove", "update"}
  /\ sock \in [family : BOOLEAN, bound : BOOLEAN, errqueue : BOOLEAN]
  /\ recvd \in 0 .. MaxRecv /\ todo \subseteq DOMAIN clients
  /\ (pc = "update") <=> (todo # {})

RegistryOK ==
  /\ DOMAIN clients \subseteq Addr /\ \A a \in DOMAIN clients : clients[a] \in Player
  /\ IsIdAssigner(player_ids) /\ IdsExact
  /\ \A a \in DOMAIN clients : Announced(clients[a])
  /\ AdmittedFit

\* What the application knows after each of the events that it has not polled:
\* vs[1] is what it knows now, the last of vs are the players that have joined.
Follows ==
  ~missed =>
    \E vs \in Seq(SUBSET [id : Nat, player : Addr]) :
      /\ Len(vs) = Len(pending) + 1
      /\ vs[1] = view /\ vs[Len(vs)] = Players
      /\ \A i \in 1 .. Len(pending) : vs[i + 1] = Told(vs[i], pending[i])

EventsOK ==
  /\ IsQueue(eventq, PlayerEvent) /\ QueueExact
  /\ pending \in Seq(PlayerEvent) /\ missed \in BOOLEAN
  /\ view \subseteq [id : Nat, player : Addr]
  /\ Follows

IInv == ControlOK /\ RegistryOK /\ EventsOK

LEMMA InvariantTyped ==
  ASSUME IInv
  PROVE  TypeOK
BY DEF IInv, ControlOK, RegistryOK, EventsOK, TypeOK

-----------------------------------------------------------------------------
(* Addresses *)

\* Of some addresses one comes first.
LEMMA FirstOf ==
  ASSUME NEW addrs \in SUBSET Addr, addrs # {}
  PROVE  First(addrs) \in addrs
<1>1. addrs \subseteq Nat
  BY ServerAssumption
<1>2. PICK a \in addrs : \A b \in addrs : <<b, a>> \notin OpToRel(<, Nat)
  BY <1>1, NatLessThanWellFounded, WFMin
<1>3. \A b \in addrs : ~(b < a)
  BY <1>1, <1>2 DEF OpToRel
<1>4. \A b \in addrs \ {a} : AddressLess(a, b)
  BY <1>1, <1>3 DEF AddressLess
<1>. QED  BY <1>4 DEF First

\* There are finitely many clients.
LEMMA ClientsFinite ==
  ASSUME RegistryOK
  PROVE  IsFiniteSet(DOMAIN clients) /\ Cardinality(DOMAIN clients) \in Nat
BY ServerAssumption, FS_Subset, FS_CardinalityType DEF RegistryOK

-----------------------------------------------------------------------------
(* Changes of the map of clients *)

\* The limit is kept by a step that admits nobody, or admits somebody while
\* the map has room.
LEMMA LimitKept ==
  ASSUME RegistryOK, IsFiniteSet(DOMAIN clients'),
         \/ Admitted' \subseteq Admitted
         \/ ~IsFull(Cardinality(DOMAIN clients'))
  PROVE  AdmittedFit'
<1>1. SUFFICES ASSUME MaxPlayers # 0 PROVE Cardinality(Admitted') < MaxPlayers
  BY DEF AdmittedFit
<1>2. MaxPlayers \in Nat
  BY ServerAssumption
<1>3. CASE Admitted' \subseteq Admitted
  <2>1. Admitted \subseteq DOMAIN clients /\ IsFiniteSet(Admitted)
    BY ClientsFinite, FS_Subset DEF Admitted
  <2>2. Cardinality(Admitted') <= Cardinality(Admitted)
        /\ Cardinality(Admitted') \in Nat /\ Cardinality(Admitted) \in Nat
    BY <1>3, <2>1, FS_Subset, FS_CardinalityType
  <2>3. Cardinality(Admitted) < MaxPlayers
    BY <1>1 DEF RegistryOK, AdmittedFit
  <2>. QED  BY <1>2, <2>2, <2>3
<1>4. CASE ~IsFull(Cardinality(DOMAIN clients'))
  <2>1. Admitted' \subseteq DOMAIN clients'
    BY DEF Admitted
  <2>2. Cardinality(Admitted') <= Cardinality(DOMAIN clients')
        /\ Cardinality(Admitted') \in Nat /\ Cardinality(DOMAIN clients') \in Nat
    BY <2>1, FS_Subset, FS_CardinalityType
  <2>3. Cardinality(DOMAIN clients') < MaxPlayers
    BY <1>1, <1>2, <1>4, <2>2 DEF IsFull
  <2>. QED  BY <1>2, <2>2, <2>3
<1>. QED  BY <1>3, <1>4

\* A player that is in the map changes its state and keeps its id.
LEMMA PlayerUpdated ==
  ASSUME RegistryOK, NEW a \in DOMAIN clients, NEW q \in Player,
         q.id = clients[a].id, Announced(q),
         \/ q.response \in {"CHALLENGE", "ACCEPTED"} =>
              clients[a].response \in {"CHALLENGE", "ACCEPTED"}
         \/ ~IsFull(Cardinality(DOMAIN clients)),
         clients' = With(a, q), player_ids' = player_ids
  PROVE  /\ RegistryOK'
         /\ DOMAIN clients' = DOMAIN clients
         /\ q.joined = clients[a].joined => Players' = Players
         /\ q.joined => Players' = Players \cup {[id |-> q.id, player |-> a]}
<1>1. DOMAIN clients' = DOMAIN clients
      /\ \A b \in DOMAIN clients : clients'[b] = IF b = a THEN q ELSE clients[b]
  BY DEF With
<1>2. \A b \in DOMAIN clients : clients'[b].id = clients[b].id
  BY <1>1
<1>3. Ids' = Ids
  BY <1>1, <1>2 DEF Ids
<1>4. IdsExact'
  BY <1>1, <1>2, <1>3 DEF RegistryOK, IdsExact
<1>5. AdmittedFit'
  <2>1. IsFiniteSet(DOMAIN clients')
    BY <1>1, ClientsFinite
  <2>2. CASE q.response \in {"CHALLENGE", "ACCEPTED"} =>
               clients[a].response \in {"CHALLENGE", "ACCEPTED"}
    <3>1. Admitted' \subseteq Admitted
      BY <1>1, <2>2 DEF Admitted
    <3>. QED  BY <2>1, <3>1, LimitKept
  <2>3. CASE ~IsFull(Cardinality(DOMAIN clients))
    BY <1>1, <2>1, <2>3, LimitKept
  <2>. QED  BY <2>2, <2>3
<1>6. RegistryOK'
  BY <1>1, <1>4, <1>5 DEF RegistryOK
<1>7. Players' = {[id |-> clients[b].id, player |-> b] :
                    b \in {b \in DOMAIN clients : IF b = a THEN q.joined ELSE clients[b].joined}}
  BY <1>1, <1>2 DEF Players
<1>8. q.joined = clients[a].joined => Players' = Players
  BY <1>7 DEF Players
<1>9. ASSUME q.joined PROVE Players' = Players \cup {[id |-> q.id, player |-> a]}
  BY <1>7, <1>9 DEF Players
<1>. QED  BY <1>1, <1>6, <1>8, <1>9

\* A new player comes into the map with an id that nobody has.
LEMMA PlayerAdded ==
  ASSUME RegistryOK, NEW a \in Addr, a \notin DOMAIN clients, NEW q \in Player,
         q.id = NextId(player_ids), ~q.joined,
         \/ q.response \notin {"CHALLENGE", "ACCEPTED"}
         \/ ~IsFull(Cardinality(DOMAIN clients) + 1),
         clients' = With(a, q), player_ids' = Acquire(player_ids)
  PROVE  RegistryOK' /\ DOMAIN clients \subseteq DOMAIN clients' /\ Players' = Players
<1>1. DOMAIN clients' = DOMAIN clients \cup {a}
      /\ \A b \in DOMAIN clients' : clients'[b] = IF b = a THEN q ELSE clients[b]
  BY DEF With
<1>2. HoldsExactly(player_ids, Ids) /\ IsIdAssigner(player_ids)
      /\ \A b, d \in DOMAIN clients : clients[b].id = clients[d].id => b = d
  BY DEF RegistryOK, IdsExact
<1>3. /\ NextId(player_ids) \notin Ids /\ IsIdAssigner(player_ids')
      /\ HoldsExactly(player_ids', Ids \cup {q.id})
  BY <1>2, AcquireExact
<1>4. Ids' = Ids \cup {q.id}
  <2>1. \A b \in DOMAIN clients : b # a /\ clients'[b].id = clients[b].id
    BY <1>1
  <2>2. clients'[a].id = q.id
    BY <1>1
  <2>. QED  BY <1>1, <2>1, <2>2 DEF Ids
<1>5. \A b, d \in DOMAIN clients' : clients'[b].id = clients'[d].id => b = d
  <2>1. \A b \in DOMAIN clients : clients[b].id # q.id
    BY <1>3 DEF Ids
  <2>. QED  BY <1>1, <1>2, <2>1
<1>6. IdsExact'
  BY <1>3, <1>4, <1>5 DEF IdsExact
<1>7. AdmittedFit'
  <2>1. IsFiniteSet(DOMAIN clients') /\ Cardinality(DOMAIN clients') = Cardinality(DOMAIN clients) + 1
    BY <1>1, ClientsFinite, FS_AddElement
  <2>2. q.response \notin {"CHALLENGE", "ACCEPTED"} => Admitted' \subseteq Admitted
    BY <1>1 DEF Admitted
  <2>. QED  BY <2>1, <2>2, LimitKept
<1>8. RegistryOK'
  <2>1. DOMAIN clients' \subseteq Addr /\ \A b \in DOMAIN clients' : clients'[b] \in Player
    BY <1>1 DEF RegistryOK
  <2>2. Announced(q)
    BY DEF Announced
  <2>3. \A b \in DOMAIN clients' : Announced(clients'[b])
    BY <1>1, <2>2 DEF RegistryOK
  <2>. QED  BY <1>3, <1>6, <1>7, <2>1, <2>3 DEF RegistryOK
<1>9. Players' = Players
  <2>1. {b \in DOMAIN clients' : clients'[b].joined} = {b \in DOMAIN clients : clients[b].joined}
    BY <1>1
  <2>2. \A b \in DOMAIN clients : clients'[b].id = clients[b].id
    BY <1>1
  <2>. QED  BY <2>1, <2>2 DEF Players
<1>. QED  BY <1>1, <1>8, <1>9

\* A player leaves the map, and its id is free again.
LEMMA PlayerRemoved ==
  ASSUME RegistryOK, NEW a \in DOMAIN clients,
         clients' = Without(a), player_ids' = Release(player_ids, clients[a].id)
  PROVE  /\ RegistryOK' /\ Players' = Told(Players, Leave(a, clients[a].id))
         /\ Leave(a, clients[a].id) \in PlayerEvent
<1>1. DOMAIN clients' = DOMAIN clients \ {a}
      /\ \A b \in DOMAIN clients' : clients'[b] = clients[b]
  BY DEF Without
<1>2. HoldsExactly(player_ids, Ids) /\ IsIdAssigner(player_ids)
      /\ \A b, d \in DOMAIN clients : clients[b].id = clients[d].id => b = d
  BY DEF RegistryOK, IdsExact
<1>3. IsIdAssigner(player_ids') /\ HoldsExactly(player_ids', Ids \ {clients[a].id})
  <2>1. clients[a].id \in Ids
    BY DEF Ids
  <2>. QED  BY <1>2, <2>1, ReleaseExact
<1>4. Ids' = Ids \ {clients[a].id}
  <2>1. Ids' = {clients[b].id : b \in DOMAIN clients \ {a}}
    BY <1>1 DEF Ids
  <2>. QED  BY <1>2, <2>1 DEF Ids
<1>5. IdsExact'
  BY <1>1, <1>2, <1>3, <1>4 DEF IdsExact
<1>6. AdmittedFit'
  <2>1. IsFiniteSet(DOMAIN clients')
    BY <1>1, ClientsFinite, FS_Subset
  <2>2. Admitted' \subseteq Admitted
    BY <1>1 DEF Admitted
  <2>. QED  BY <2>1, <2>2, LimitKept
<1>7. RegistryOK'
  BY <1>1, <1>3, <1>5, <1>6 DEF RegistryOK
<1>8. Players' = Told(Players, Leave(a, clients[a].id))
  <2>1. Told(Players, Leave(a, clients[a].id)) = {m \in Players : m.id # clients[a].id}
    BY DEF Told, Leave
  <2>2. {b \in DOMAIN clients' : clients'[b].joined}
          = {b \in DOMAIN clients : clients[b].joined} \ {a}
    BY <1>1
  <2>3. Players' = {[id |-> clients[b].id, player |-> b] :
                      b \in {b \in DOMAIN clients : clients[b].joined} \ {a}}
    BY <1>1, <2>2 DEF Players
  <2>. DEFINE J == {b \in DOMAIN clients : clients[b].joined}
  <2>4. \A b \in J : b # a <=> clients[b].id # clients[a].id
    BY <1>2
  <2>5. Players = {[id |-> clients[b].id, player |-> b] : b \in J}
    BY DEF Players
  <2>6. \A m \in Players' : m \in Players /\ m.id # clients[a].id
    BY <2>3, <2>4, <2>5
  <2>7. \A m \in Players : m.id # clients[a].id => m \in Players'
    BY <2>3, <2>4, <2>5
  <2>. QED  BY <2>1, <2>6, <2>7
<1>9. Leave(a, clients[a].id) \in PlayerEvent
  BY DEF RegistryOK, Player, PlayerEvent, Leave
<1>. QED  BY <1>7, <1>8, <1>9

-----------------------------------------------------------------------------
(* Events *)

LEMMA PlayersTyped ==
  /\ RegistryOK => Players \subseteq [id : Nat, player : Addr]
  /\ RegistryOK' => Players' \subseteq [id : Nat, player : Addr]
<1>1. RegistryOK => Players \subseteq [id : Nat, player : Addr]
  BY DEF RegistryOK, Players, Player
<1>2. RegistryOK' => Players' \subseteq [id : Nat, player : Addr]
  BY DEF RegistryOK, Players, Player
<1>. QED  BY <1>1, <1>2

\* A step that pushes no event changes nothing that events are about.
LEMMA NothingPushed ==
  ASSUME EventsOK, UNCHANGED <<eventq, pending, view, missed>>, Players' = Players
  PROVE  EventsOK'
BY DEF EventsOK, QueueExact, Follows

\* The event that is pushed tells of the step that pushes it.
LEMMA EventPushed ==
  ASSUME EventsOK, RegistryOK, RegistryOK', NEW e \in PlayerEvent, Push(e),
         Players' = Told(Players, e), UNCHANGED <<view, missed>>
  PROVE  EventsOK'
<1>1. eventq' = PushEvent(eventq, e) /\ pending' = Append(pending, e)
  BY DEF Push
<1>2. IsQueue(eventq', PlayerEvent) /\ Contents(eventq') = pending'
  BY <1>1, PushExact DEF EventsOK, QueueExact
<1>3. /\ pending \in Seq(PlayerEvent) /\ pending' \in Seq(PlayerEvent)
      /\ Len(pending') = Len(pending) + 1 /\ pending'[Len(pending) + 1] = e
      /\ \A i \in 1 .. Len(pending) : pending'[i] = pending[i]
  BY <1>1 DEF EventsOK
<1>4. Follows'
  <2>1. SUFFICES ASSUME ~missed PROVE Follows'
    BY DEF Follows
  <2>2. PICK vs \in Seq(SUBSET [id : Nat, player : Addr]) :
          /\ Len(vs) = Len(pending) + 1
          /\ vs[1] = view /\ vs[Len(vs)] = Players
          /\ \A i \in 1 .. Len(pending) : vs[i + 1] = Told(vs[i], pending[i])
    BY <2>1 DEF EventsOK, Follows
  <2>. DEFINE ws == Append(vs, Players')
  <2>3. /\ ws \in Seq(SUBSET [id : Nat, player : Addr])
        /\ Len(ws) = Len(vs) + 1 /\ ws[Len(vs) + 1] = Players'
        /\ \A i \in 1 .. Len(vs) : ws[i] = vs[i]
    BY PlayersTyped
  <2>. HIDE DEF ws
  <2>4. Len(ws) = Len(pending') + 1 /\ ws[1] = view' /\ ws[Len(ws)] = Players'
    BY <1>3, <2>2, <2>3
  <2>5. ASSUME NEW i \in 1 .. Len(pending') PROVE ws[i + 1] = Told(ws[i], pending'[i])
    <3>1. CASE i = Len(pending) + 1
      <4>1. ws[i + 1] = Players' /\ ws[i] = Players /\ pending'[i] = e
        BY <1>3, <2>2, <2>3, <3>1
      <4>. QED  BY <4>1
    <3>2. CASE i # Len(pending) + 1
      <4>1. i \in 1 .. Len(pending) /\ i \in 1 .. Len(vs) /\ i + 1 \in 1 .. Len(vs)
        BY <1>3, <2>2, <3>2
      <4>. QED  BY <1>3, <2>2, <2>3, <4>1
    <3>. QED  BY <3>1, <3>2
  <2>. QED  BY <2>3, <2>4, <2>5 DEF Follows
<1>5. missed' \in BOOLEAN /\ view' \subseteq [id : Nat, player : Addr]
  BY DEF EventsOK
<1>. QED  BY <1>2, <1>3, <1>4, <1>5 DEF EventsOK, QueueExact

\* The application polls the oldest event and makes of it what it tells.
LEMMA EventPolled ==
  ASSUME EventsOK, ~Empty(eventq), UNCHANGED <<clients, missed>>,
         eventq' = PollEvent(eventq), pending' = Tail(pending),
         view' = IF missed THEN {} ELSE Told(view, Polled(eventq))
  PROVE  EventsOK'
<1>1. /\ IsQueue(eventq', PlayerEvent) /\ pending # <<>> /\ Polled(eventq) = Head(pending)
      /\ Contents(eventq') = pending'
  BY PollExact DEF EventsOK, QueueExact
<1>2. /\ pending \in Seq(PlayerEvent) /\ pending' \in Seq(PlayerEvent)
      /\ Len(pending) \in Nat \ {0} /\ Len(pending') = Len(pending) - 1
      /\ \A i \in 1 .. Len(pending') : pending'[i] = pending[i + 1]
      /\ Head(pending) = pending[1] /\ Head(pending) \in PlayerEvent
  BY <1>1, HeadTailProperties DEF EventsOK
<1>3. Players' = Players
  BY DEF Players
<1>4. Follows'
  <2>1. SUFFICES ASSUME ~missed PROVE Follows'
    BY DEF Follows
  <2>2. PICK vs \in Seq(SUBSET [id : Nat, player : Addr]) :
          /\ Len(vs) = Len(pending) + 1
          /\ vs[1] = view /\ vs[Len(vs)] = Players
          /\ \A i \in 1 .. Len(pending) : vs[i + 1] = Told(vs[i], pending[i])
    BY <2>1 DEF EventsOK, Follows
  <2>. DEFINE ws == Tail(vs)
  <2>3. /\ ws \in Seq(SUBSET [id : Nat, player : Addr])
        /\ Len(ws) = Len(vs) - 1 /\ \A i \in 1 .. Len(vs) - 1 : ws[i] = vs[i + 1]
    <3>1. vs # <<>>
      BY <1>2, <2>2
    <3>. QED  BY <3>1, HeadTailProperties
  <2>. HIDE DEF ws
  <2>4. Len(ws) = Len(pending') + 1 /\ ws[Len(ws)] = Players'
    BY <1>2, <1>3, <2>2, <2>3
  <2>5. ws[1] = view'
    <3>1. 1 \in 1 .. Len(pending) /\ 1 \in 1 .. Len(vs) - 1 /\ vs[1 + 1] = Told(vs[1], pending[1])
      BY <1>2, <2>2
    <3>. QED  BY <1>1, <1>2, <2>1, <2>2, <2>3, <3>1
  <2>6. ASSUME NEW i \in 1 .. Len(pending') PROVE ws[i + 1] = Told(ws[i], pending'[i])
    <3>1. i \in 1 .. Len(vs) - 1 /\ i + 1 \in 1 .. Len(vs) - 1 /\ i + 1 \in 1 .. Len(pending)
      BY <1>2, <2>2
    <3>. QED  BY <1>2, <2>2, <2>3, <3>1
  <2>. QED  BY <2>3, <2>4, <2>5, <2>6 DEF Follows
<1>5. missed' \in BOOLEAN /\ view' \subseteq [id : Nat, player : Addr]
  <2>1. \A e \in PlayerEvent : Told(view, e) \subseteq [id : Nat, player : Addr]
    BY DEF EventsOK, Told, PlayerEvent
  <2>. QED  BY <1>1, <1>2, <2>1 DEF EventsOK
<1>. QED  BY <1>1, <1>2, <1>4, <1>5 DEF EventsOK, QueueExact

\* The next update discards what was not polled; if there was something, what
\* the application knows is no longer followed.
LEMMA EventsCleared ==
  ASSUME EventsOK, UNCHANGED clients, eventq' = ClearEvents(eventq), pending' = <<>>,
         missed' = (missed \/ pending # <<>>), view' = IF missed' THEN {} ELSE view
  PROVE  EventsOK'
<1>1. IsQueue(eventq', PlayerEvent) /\ Contents(eventq') = <<>>
  BY NewQueueExact DEF EventsOK, IsQueue, ClearEvents
<1>2. Players' = Players
  BY DEF Players
<1>3. Follows'
  <2>1. CASE missed'
    BY <2>1 DEF Follows
  <2>2. CASE ~missed'
    <3>1. ~missed /\ pending = <<>> /\ view' = view
      BY <2>2
    <3>. QED  BY <1>2, <3>1 DEF EventsOK, Follows
  <2>. QED  BY <2>1, <2>2
<1>4. missed' \in BOOLEAN /\ view' \subseteq [id : Nat, player : Addr] /\ pending' \in Seq(PlayerEvent)
  BY DEF EventsOK
<1>. QED  BY <1>1, <1>3, <1>4 DEF EventsOK, QueueExact

-----------------------------------------------------------------------------
(* The steps *)

\* A packet leaves a player its id and tells nobody of it; it admits the player
\* only if isFull lets it in.
LEMMA ReceivedKeeps ==
  ASSUME NEW q \in Player, Announced(q), NEW k \in Kind, NEW n \in Nat,
         NEW r \in Received(q, k, n)
  PROVE  /\ r \in Player /\ r.id = q.id /\ r.joined = q.joined /\ Announced(r)
         /\ \/ r.response \in {"CHALLENGE", "ACCEPTED"} => q.response \in {"CHALLENGE", "ACCEPTED"}
            \/ ~IsFull(n)
<1>1. /\ q.response \in {"NONE", "CHALLENGE", "ACCEPTED", "REFUSED"}
      /\ q.st \in {"handshake", "transition", "game", "failed"} /\ q.joined \in BOOLEAN
  BY DEF Player
<1>2. \/ r = q
      \/ r = [q EXCEPT !.connected = FALSE]
      \/ r = [q EXCEPT !.done = TRUE]
      \/ /\ q.st = "handshake"
         /\ \/ r = Joining(q, n)
            \/ r = [q EXCEPT !.response = "REFUSED"]
            \/ q.response = "CHALLENGE" /\ r = [q EXCEPT !.response = "ACCEPTED"]
  <2>1. r \in AddPacket(q, k, n) \/ r = [q EXCEPT !.connected = FALSE]
    BY DEF Received, Kicked
  <2>2. CASE k \in {"REPEATED", "FINISHED"}
    BY <2>1, <2>2 DEF AddPacket
  <2>3. CASE k \notin {"REPEATED", "FINISHED"} /\ q.st = "failed"
    BY <2>1, <2>3 DEF AddPacket
  <2>4. CASE k \notin {"REPEATED", "FINISHED"} /\ q.st = "transition"
    BY <2>1, <2>4 DEF AddPacket, TransitionRecv
  <2>5. CASE k \notin {"REPEATED", "FINISHED"} /\ q.st = "game"
    BY <2>1, <2>5 DEF AddPacket, GameRecv
  <2>6. CASE k \notin {"REPEATED", "FINISHED"} /\ q.st = "handshake"
    <3>1. AddPacket(q, k, n) = HandshakeRecv(q, k, n)
      BY <2>6 DEF AddPacket
    <3>2. \A x \in HandshakeRecv(q, k, n) :
            \/ x = Joining(q, n) \/ x = [q EXCEPT !.response = "REFUSED"]
            \/ q.response = "CHALLENGE" /\ x = [q EXCEPT !.response = "ACCEPTED"]
      BY DEF HandshakeRecv
    <3>. QED  BY <2>1, <2>6, <3>1, <3>2
  <2>. QED  BY <1>1, <2>2, <2>3, <2>4, <2>5, <2>6
<1>3. CASE r = q
  BY <1>3
<1>4. CASE r = [q EXCEPT !.connected = FALSE] \/ r = [q EXCEPT !.done = TRUE]
  BY <1>4 DEF Player, Announced
<1>5. CASE q.st = "handshake" /\ r = Joining(q, n)
  BY <1>5 DEF Player, Announced, Joining
<1>6. CASE q.st = "handshake" /\ r = [q EXCEPT !.response = "REFUSED"]
  BY <1>6 DEF Player, Announced
<1>7. CASE q.st = "handshake" /\ q.response = "CHALLENGE" /\ r = [q EXCEPT !.response = "ACCEPTED"]
  BY <1>7 DEF Player, Announced
<1>. QED  BY <1>2, <1>3, <1>4, <1>5, <1>6, <1>7

LEMMA ReceiveFromClientKeeps ==
  ASSUME RegistryOK, EventsOK, NEW r \in RecvResults(sock, Addr, Kind), ReceiveFromClient(r),
         UNCHANGED <<view, missed>>
  PROVE  RegistryOK' /\ EventsOK'
<1>. DEFINE a == r.addr  n == Cardinality(DOMAIN clients)
<1>1. a \in DOMAIN clients /\ r.kind \in Kind /\ n \in Nat
      /\ clients[a] \in Player /\ Announced(clients[a])
  <2>1. r.kind \in Kind
    BY DEF ReceiveFromClient, RecvResults, CheckErrorQueue
  <2>. QED  BY <2>1, ClientsFinite DEF ReceiveFromClient, RegistryOK
<1>2. PICK q \in Received(clients[a], r.kind, n) : clients' = With(a, q)
  BY DEF ReceiveFromClient
<1>3. /\ q \in Player /\ q.id = clients[a].id /\ q.joined = clients[a].joined /\ Announced(q)
      /\ \/ q.response \in {"CHALLENGE", "ACCEPTED"} =>
              clients[a].response \in {"CHALLENGE", "ACCEPTED"}
         \/ ~IsFull(n)
  <2>. HIDE DEF a, n
  <2>. QED  BY <1>1, <1>2, ReceivedKeeps
<1>4. player_ids' = player_ids /\ UNCHANGED <<eventq, pending>>
  BY DEF ReceiveFromClient, NoEvents
<1>5. RegistryOK' /\ Players' = Players
  <2>. HIDE DEF a
  <2>. QED  BY <1>1, <1>2, <1>3, <1>4, PlayerUpdated
<1>. QED  BY <1>4, <1>5, NothingPushed

LEMMA ReceiveFromUnknownKeeps ==
  ASSUME RegistryOK, EventsOK, NEW r \in RecvResults(sock, Addr, Kind), ReceiveFromUnknown(r),
         UNCHANGED <<view, missed>>
  PROVE  RegistryOK' /\ EventsOK' /\ DOMAIN clients \subseteq DOMAIN clients'
<1>. DEFINE a == r.addr  n == Cardinality(DOMAIN clients) + 1
            p == NewPlayer(NextId(player_ids))
<1>1. /\ a \in Addr /\ a \notin DOMAIN clients /\ r.kind \in Kind /\ n \in Nat
      /\ UNCHANGED <<eventq, pending>>
  <2>1. r.ok /\ a \notin DOMAIN clients /\ UNCHANGED <<eventq, pending>>
    BY DEF ReceiveFromUnknown, NoEvents
  <2>2. a \in Addr /\ r.kind \in Kind
    BY <2>1 DEF RecvResults, CheckErrorQueue
  <2>3. n \in Nat
    BY ClientsFinite
  <2>. QED  BY <2>1, <2>2, <2>3
<1>2. CASE UNCHANGED <<clients, player_ids>>
  <2>1. RegistryOK'
    BY <1>2 DEF RegistryOK, IdsExact, Ids, AdmittedFit, Admitted
  <2>2. Players' = Players
    BY <1>2 DEF Players
  <2>. QED  BY <1>1, <1>2, <2>1, <2>2, NothingPushed
<1>3. CASE /\ player_ids' = Acquire(player_ids)
           /\ \E q \in Received(p, r.kind, n) : clients' = With(a, q)
  <2>1. PICK q \in Received(p, r.kind, n) : clients' = With(a, q)
    BY <1>3
  <2>2. p \in Player /\ p.id = NextId(player_ids) /\ p.joined = FALSE /\ Announced(p)
        /\ p.response = "NONE"
    <3>1. NextId(player_ids) \in Nat
      BY AcquireExact DEF RegistryOK, IdsExact
    <3>. QED  BY <3>1 DEF NewPlayer, Player, Announced
  <2>3. /\ q \in Player /\ q.id = NextId(player_ids) /\ ~q.joined
        /\ q.response \notin {"CHALLENGE", "ACCEPTED"} \/ ~IsFull(n)
    <3>. HIDE DEF p, n
    <3>1. /\ q \in Player /\ q.id = p.id /\ q.joined = p.joined
          /\ \/ q.response \in {"CHALLENGE", "ACCEPTED"} => p.response \in {"CHALLENGE", "ACCEPTED"}
             \/ ~IsFull(n)
      BY <1>1, <2>1, <2>2, ReceivedKeeps
    <3>. QED  BY <2>2, <3>1
  <2>4. RegistryOK' /\ DOMAIN clients \subseteq DOMAIN clients' /\ Players' = Players
    <3>. HIDE DEF a, p
    <3>. QED  BY <1>1, <1>3, <2>1, <2>3, PlayerAdded
  <2>. QED  BY <1>1, <2>4, NothingPushed
<1>. QED  BY <1>2, <1>3 DEF ReceiveFromUnknown

LEMMA ReceiveKeeps ==
  ASSUME IInv, Receive
  PROVE  IInv'
<1>1. /\ ControlOK /\ RegistryOK /\ EventsOK
      /\ pc = "receive" /\ UNCHANGED <<pc, sock, todo, view, missed>>
      /\ recvd < MaxRecv /\ recvd' = recvd + 1
  BY DEF IInv, Receive
<1>2. ControlOK'
  <2>1. recvd' \in 0 .. MaxRecv
    BY <1>1, ServerAssumption DEF ControlOK
  <2>2. todo = {}
    BY <1>1 DEF ControlOK
  <2>. QED  BY <1>1, <2>1, <2>2 DEF ControlOK
<1>3. PICK r \in RecvResults(sock, Addr, Kind) :
        \/ ReceiveFromClient(r)
        \/ ReceiveFromUnknown(r)
        \/ ReceiveError(r)
        \/ ReceiveNothing(r)
  BY DEF Receive
<1>4. CASE ReceiveFromClient(r)
  BY <1>1, <1>2, <1>4, ReceiveFromClientKeeps DEF IInv
<1>5. CASE ReceiveFromUnknown(r)
  BY <1>1, <1>2, <1>5, ReceiveFromUnknownKeeps DEF IInv
<1>6. CASE ReceiveError(r)
  <2>. DEFINE a == r.addr
  <2>1. /\ a \in DOMAIN clients /\ clients' = Without(a)
        /\ player_ids' = Release(player_ids, clients[a].id)
        /\ Push(Leave(a, clients[a].id))
    BY <1>6 DEF ReceiveError
  <2>. HIDE DEF a
  <2>2. RegistryOK' /\ Players' = Told(Players, Leave(a, clients[a].id))
        /\ Leave(a, clients[a].id) \in PlayerEvent
    BY <1>1, <2>1, PlayerRemoved
  <2>3. EventsOK'
    BY <1>1, <2>1, <2>2, EventPushed
  <2>. QED  BY <1>2, <2>2, <2>3 DEF IInv
<1>7. CASE ReceiveNothing(r)
  <2>1. UNCHANGED <<clients, player_ids, eventq, pending>>
    BY <1>7 DEF ReceiveNothing, NoEvents
  <2>2. RegistryOK' /\ Players' = Players
    BY <1>1, <2>1 DEF RegistryOK, IdsExact, Ids, AdmittedFit, Admitted, Players
  <2>. QED  BY <1>1, <1>2, <2>1, <2>2, NothingPushed DEF IInv
<1>. QED  BY <1>3, <1>4, <1>5, <1>6, <1>7

LEMMA RemoveDisconnectedKeeps ==
  ASSUME IInv, RemoveDisconnected
  PROVE  IInv'
<1>. DEFINE a == First(Gone)
<1>1. /\ ControlOK /\ RegistryOK /\ EventsOK
      /\ pc \in {"receive", "remove"} /\ pc' = "remove" /\ Gone # {}
      /\ recvd' = 0 /\ UNCHANGED <<sock, todo, view, missed>>
      /\ player_ids' = Release(player_ids, clients[a].id)
      /\ Push(Leave(a, clients[a].id)) /\ clients' = Without(a)
  BY DEF IInv, RemoveDisconnected
<1>2. a \in DOMAIN clients
  <2>1. Gone \subseteq DOMAIN clients /\ Gone \in SUBSET Addr
    BY <1>1 DEF Gone, RegistryOK
  <2>. QED  BY <1>1, <2>1, FirstOf
<1>. HIDE DEF a
<1>3. RegistryOK' /\ Players' = Told(Players, Leave(a, clients[a].id))
      /\ Leave(a, clients[a].id) \in PlayerEvent
  BY <1>1, <1>2, PlayerRemoved
<1>4. EventsOK'
  BY <1>1, <1>3, EventPushed
<1>5. ControlOK'
  BY <1>1, ServerAssumption DEF ControlOK
<1>. QED  BY <1>3, <1>4, <1>5 DEF IInv

\* What changes neither the players nor the events.
LEMMA NobodyConcerned ==
  ASSUME RegistryOK, EventsOK, UNCHANGED <<clients, player_ids, eventq, pending, view, missed>>
  PROVE  RegistryOK' /\ EventsOK' /\ Players' = Players
<1>1. RegistryOK' /\ Players' = Players
  BY DEF RegistryOK, IdsExact, Ids, AdmittedFit, Admitted, Players
<1>. QED  BY <1>1, NothingPushed

LEMMA TickBeginsKeeps ==
  ASSUME IInv, TickBegins
  PROVE  IInv'
<1>1. ControlOK /\ RegistryOK /\ EventsOK
  BY DEF IInv
<1>2. RegistryOK' /\ EventsOK'
  BY <1>1, NobodyConcerned DEF TickBegins
<1>3. ControlOK'
  <2>1. recvd' \in 0 .. MaxRecv
    BY ServerAssumption DEF TickBegins
  <2>. QED  BY <1>1, <2>1 DEF TickBegins, ControlOK
<1>. QED  BY <1>2, <1>3 DEF IInv

\* The update of one player: of an admitted player the application is told, and
\* it leaves its handshake.
LEMMA UpdatePlayerKeeps ==
  ASSUME IInv, UpdatePlayer
  PROVE  IInv'
<1>. DEFINE a == First(todo)  q == clients[a]
<1>1. /\ ControlOK /\ RegistryOK /\ EventsOK /\ pc = "update"
      /\ \/ UpdateHandshake(a, q) \/ UpdateTransition(a, q) \/ UpdateGame(a, q)
      /\ todo' = todo \ {a} /\ pc' = IF todo' = {} THEN "app" ELSE "update"
      /\ UNCHANGED <<sock, player_ids, recvd, view, missed>>
  BY DEF IInv, UpdatePlayer
<1>2. a \in DOMAIN clients /\ q \in Player /\ Announced(q)
  <2>1. todo \in SUBSET Addr /\ todo # {} /\ todo \subseteq DOMAIN clients
    BY <1>1 DEF ControlOK, RegistryOK
  <2>. QED  BY <1>1, <2>1, FirstOf DEF RegistryOK
<1>3. \/ UNCHANGED <<clients, eventq, pending>>
      \/ UNCHANGED <<eventq, pending>> /\ clients' = With(a, Failed(q))
      \/ UNCHANGED <<eventq, pending>> /\ q.st = "transition" /\ clients' = With(a, [q EXCEPT !.st = "game"])
      \/ /\ q.response = "ACCEPTED" /\ Push(Join(a, q.id))
         /\ clients' = With(a, [q EXCEPT !.st = "transition", !.joined = TRUE])
  BY <1>1 DEF UpdateHandshake, UpdateTransition, UpdateGame, NoEvents
<1>4. RegistryOK' /\ EventsOK' /\ DOMAIN clients' = DOMAIN clients
  <2>1. CASE UNCHANGED <<clients, eventq, pending>>
    BY <1>1, <2>1, NobodyConcerned
  <2>2. ASSUME NEW r \in Player, r.id = q.id, r.joined = q.joined, r.response = q.response,
               Announced(r), clients' = With(a, r), UNCHANGED <<eventq, pending>>
        PROVE  RegistryOK' /\ EventsOK' /\ DOMAIN clients' = DOMAIN clients
    <3>. HIDE DEF a
    <3>1. RegistryOK' /\ Players' = Players /\ DOMAIN clients' = DOMAIN clients
      BY <1>1, <1>2, <2>2, PlayerUpdated
    <3>. QED  BY <1>1, <2>2, <3>1, NothingPushed
  <2>3. CASE UNCHANGED <<eventq, pending>> /\ clients' = With(a, Failed(q))
    <3>. DEFINE r == Failed(q)
    <3>. HIDE DEF a, q
    <3>1. /\ r \in Player /\ r.id = q.id /\ r.joined = q.joined /\ r.response = q.response
          /\ Announced(r)
      BY <1>2 DEF Failed, Kicked, Player, Announced
    <3>. HIDE DEF r
    <3>2. clients' = With(a, r)
      BY <2>3 DEF r
    <3>. QED  BY <2>2, <2>3, <3>1, <3>2
  <2>4. CASE UNCHANGED <<eventq, pending>> /\ q.st = "transition"
             /\ clients' = With(a, [q EXCEPT !.st = "game"])
    <3>. DEFINE r == [q EXCEPT !.st = "game"]
    <3>. HIDE DEF a, q
    <3>1. /\ r \in Player /\ r.id = q.id /\ r.joined = q.joined /\ r.response = q.response
          /\ Announced(r)
      BY <1>2 DEF Player, Announced
    <3>. HIDE DEF r
    <3>2. clients' = With(a, r)
      BY <2>4 DEF r
    <3>. QED  BY <2>2, <2>4, <3>1, <3>2
  <2>5. CASE /\ q.response = "ACCEPTED" /\ Push(Join(a, q.id))
             /\ clients' = With(a, [q EXCEPT !.st = "transition", !.joined = TRUE])
    <3>. DEFINE r == [q EXCEPT !.st = "transition", !.joined = TRUE]
    <3>1. q.response = "ACCEPTED" /\ Push(Join(a, q.id)) /\ clients' = With(a, r)
      BY <2>5
    <3>. HIDE DEF q
    <3>2. r \in Player /\ r.id = q.id /\ r.joined /\ r.response = q.response /\ Announced(r)
      BY <1>2, <3>1 DEF Player, Announced
    <3>. HIDE DEF r, a
    <3>3. /\ RegistryOK' /\ DOMAIN clients' = DOMAIN clients
          /\ Players' = Players \cup {[id |-> q.id, player |-> a]}
      <4>. USE DEF q
      <4>. QED  BY <1>1, <1>2, <3>1, <3>2, PlayerUpdated
    <3>4. Join(a, q.id) \in PlayerEvent
      BY <1>1, <1>2 DEF Join, PlayerEvent, Player, RegistryOK
    <3>5. Told(Players, Join(a, q.id)) = Players \cup {[id |-> q.id, player |-> a]}
      BY DEF Told, Join
    <3>6. EventsOK'
      BY <1>1, <3>1, <3>3, <3>4, <3>5, EventPushed
    <3>. QED  BY <3>3, <3>6
  <2>. QED  BY <1>3, <2>1, <2>3, <2>4, <2>5
<1>5. ControlOK'
  <2>. HIDE DEF a
  <2>. QED  BY <1>1, <1>4 DEF ControlOK
<1>. QED  BY <1>4, <1>5 DEF IInv

LEMMA BindKeeps ==
  ASSUME IInv, NEW ok \in BOOLEAN, Bind(ok)
  PROVE  IInv'
<1>1. /\ ControlOK /\ RegistryOK /\ EventsOK
      /\ sock' = BindSocket(HandleUnconnectedICMPErrors(SetFamilyFromAddress(sock)), ok)
      /\ UNCHANGED <<pc, clients, player_ids, eventq, recvd, todo, pending, view, missed>>
  BY DEF IInv, Bind
<1>2. sock' \in [family : BOOLEAN, bound : BOOLEAN, errqueue : BOOLEAN]
  BY <1>1 DEF ControlOK, BindSocket, HandleUnconnectedICMPErrors, SetFamilyFromAddress
<1>3. ControlOK'
  BY <1>1, <1>2 DEF ControlOK
<1>. QED  BY <1>1, <1>3, NobodyConcerned DEF IInv

LEMMA UpdateBeginsKeeps ==
  ASSUME IInv, UpdateBegins
  PROVE  IInv'
<1>1. /\ ControlOK /\ RegistryOK /\ EventsOK
      /\ pc = "app" /\ pc' = "receive"
      /\ UNCHANGED <<sock, clients, player_ids, recvd, todo>>
  BY DEF IInv, UpdateBegins
<1>2. ControlOK'
  BY <1>1, ServerAssumption DEF ControlOK
<1>3. RegistryOK'
  BY <1>1 DEF RegistryOK, IdsExact, Ids, AdmittedFit, Admitted
<1>4. EventsOK'
  BY <1>1, EventsCleared DEF UpdateBegins
<1>. QED  BY <1>2, <1>3, <1>4 DEF IInv

LEMMA PollKeeps ==
  ASSUME IInv, Poll
  PROVE  IInv'
<1>1. /\ ControlOK /\ RegistryOK /\ EventsOK
      /\ UNCHANGED <<pc, sock, clients, player_ids, recvd, todo, missed>>
  BY DEF IInv, Poll
<1>2. ControlOK' /\ RegistryOK'
  BY <1>1 DEF ControlOK, RegistryOK, IdsExact, Ids, AdmittedFit, Admitted
<1>3. EventsOK'
  BY <1>1, EventPolled DEF Poll
<1>. QED  BY <1>2, <1>3 DEF IInv

LEMMA AppKicksKeeps ==
  ASSUME IInv, NEW a \in Kickable, AppKicks(a)
  PROVE  IInv'
<1>. DEFINE q == Kicked(clients[a])
<1>1. /\ ControlOK /\ RegistryOK /\ EventsOK
      /\ a \in DOMAIN clients /\ clients' = With(a, q)
      /\ UNCHANGED <<pc, sock, player_ids, eventq, recvd, todo, pending, view, missed>>
  BY DEF IInv, AppKicks
<1>2. /\ q \in Player /\ q.id = clients[a].id /\ q.joined = clients[a].joined
      /\ q.response = clients[a].response /\ Announced(q)
  BY <1>1 DEF RegistryOK, Kicked, Player, Announced
<1>. HIDE DEF q
<1>3. RegistryOK' /\ Players' = Players /\ DOMAIN clients' = DOMAIN clients
  BY <1>1, <1>2, PlayerUpdated
<1>4. EventsOK'
  BY <1>1, <1>3, NothingPushed
<1>5. ControlOK'
  BY <1>1, <1>3 DEF ControlOK
<1>. QED  BY <1>3, <1>4, <1>5 DEF IInv

-----------------------------------------------------------------------------
(* The theorems *)

LEMMA InitInvariant ==
  ASSUME Init
  PROVE  IInv
<1>1. ControlOK
  BY ServerAssumption DEF Init, NewSocket, ControlOK
<1>2. DOMAIN clients = {} /\ Ids = {} /\ Players = {} /\ Admitted = {}
  BY DEF Init, Ids, Players, Admitted
<1>3. RegistryOK
  <2>1. IsIdAssigner(player_ids) /\ HoldsExactly(player_ids, Ids)
    BY <1>2, NewIdsExact DEF Init
  <2>2. AdmittedFit
    BY <1>2, FS_EmptySet, ServerAssumption DEF AdmittedFit
  <2>. QED  BY <1>2, <2>1, <2>2 DEF RegistryOK, IdsExact
<1>4. Follows
  <2>. DEFINE vs == <<{}>>
  <2>1. vs \in Seq(SUBSET [id : Nat, player : Addr]) /\ Len(vs) = 1 /\ vs[1] = {}
    OBVIOUS
  <2>2. pending = <<>> /\ Len(pending) = 0 /\ view = {}
    BY DEF Init
  <2>. HIDE DEF vs
  <2>. QED  BY <1>2, <2>1, <2>2 DEF Follows
<1>5. EventsOK
  <2>1. IsQueue(eventq, PlayerEvent) /\ QueueExact
    BY NewQueueExact, ServerAssumption DEF Init, QueueExact
  <2>2. pending = <<>> /\ view = {} /\ missed = FALSE
    BY DEF Init
  <2>3. <<>> \in Seq(PlayerEvent)
    OBVIOUS
  <2>. QED  BY <1>4, <2>1, <2>2, <2>3 DEF EventsOK
<1>. QED  BY <1>1, <1>3, <1>5 DEF IInv

LEMMA NextKeepsInvariant ==
  ASSUME IInv, [Next]_vars
  PROVE  IInv'
<1>1. CASE UNCHANGED vars
  <2>1. ControlOK'
    BY <1>1 DEF IInv, ControlOK, vars
  <2>. QED  BY <1>1, <2>1, NobodyConcerned DEF IInv, vars
<1>2. CASE Next
  BY <1>2, BindKeeps, UpdateBeginsKeeps, ReceiveKeeps, RemoveDisconnectedKeeps, TickBeginsKeeps,
     UpdatePlayerKeeps, PollKeeps, AppKicksKeeps
  DEF Next
<1>. QED  BY <1>1, <1>2

\* However players come, misbehave, leave, are kicked and time out: ids, limit
\* and events are kept in step with the map of clients.
THEOREM Invariance == Spec => []IInv
<1>1. Init => IInv
  BY InitInvariant
<1>2. IInv /\ [Next]_vars => IInv'
  BY NextKeepsInvariant
<1>. QED  BY <1>1, <1>2, PTL DEF Spec

\* The variables of the server keep to their types; no player that has been
\* removed is updated, and head and tail stay within the event queue.
THEOREM TypeCorrect == Spec => []TypeOK
<1>1. IInv => TypeOK
  BY InvariantTyped
<1>. QED  BY <1>1, Invariance, PTL

\* No two players share an id, no id in use can be assigned and none is lost
\* (IDAssigner, and its callers in Server::update).
THEOREM IdsAreExact == Spec => []IdsExact
<1>1. IInv => IdsExact
  BY DEF IInv, RegistryOK
<1>. QED  BY <1>1, Invariance, PTL

\* The event queue hands out the events of the update in their order, however
\* often Queue::expand moved them.
THEOREM EventsInOrder == Spec => []QueueExact
<1>1. IInv => QueueExact
  BY DEF IInv, EventsOK
<1>. QED  BY <1>1, Invariance, PTL

\* An application that has polled every event of every update knows exactly the
\* players that have joined, by their present ids.
THEOREM ApplicationKnowsPlayers == Spec => []AppKnowsPlayers
<1>1. ASSUME IInv PROVE AppKnowsPlayers
  <2>1. SUFFICES ASSUME ~missed, Empty(eventq) PROVE view = Players
    BY DEF AppKnowsPlayers
  <2>2. Len(pending) = 0
    BY <1>1, <2>1, QueueLenIs DEF IInv, EventsOK, QueueExact
  <2>3. PICK vs \in Seq(SUBSET [id : Nat, player : Addr]) :
          Len(vs) = Len(pending) + 1 /\ vs[1] = view /\ vs[Len(vs)] = Players
    BY <1>1, <2>1 DEF IInv, EventsOK, Follows
  <2>. QED  BY <2>2, <2>3
<1>. QED  BY <1>1, Invariance, PTL

\* The limit on players is kept although it is checked long before a player joins:
\* those that were let in are counted while they are in their handshakes, and another is
\* let in only where there is room beside them (AdmittedFit).
THEOREM LimitIsKept == Spec => []RoomKept
<1>1. ASSUME IInv PROVE RoomKept
  <2>1. SUFFICES ASSUME MaxPlayers # 0
                 PROVE  Cardinality({a \in DOMAIN clients : clients[a].joined}) <= MaxPlayers
    BY DEF RoomKept
  <2>. DEFINE J == {a \in DOMAIN clients : clients[a].joined}
  <2>2. J \subseteq Admitted /\ Admitted \subseteq DOMAIN clients
    BY <1>1 DEF IInv, RegistryOK, Announced, Admitted
  <2>3. IsFiniteSet(Admitted)
    BY <1>1, <2>2, ClientsFinite, FS_Subset DEF IInv
  <2>4. /\ Cardinality(J) <= Cardinality(Admitted)
        /\ Cardinality(J) \in Nat /\ Cardinality(Admitted) \in Nat
    BY <2>2, <2>3, FS_Subset, FS_CardinalityType
  <2>5. Cardinality(Admitted) < MaxPlayers
    BY <1>1, <2>1 DEF IInv, RegistryOK, AdmittedFit
  <2>. QED  BY <2>4, <2>5, ServerAssumption
<1>. QED  BY <1>1, Invariance, PTL
=============================================================================
