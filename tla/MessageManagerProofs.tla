------------------------ MODULE MessageManagerProofs ------------------------
(***************************************************************************)
(* Proofs about MessageManager, for every SeqMod, MaxMsgs and MaxFlight.   *)
(* Types need no more than MessageAssumption.  What is promised of the     *)
(* messages needs NoWrap: the batch that comes back to the number 0 is     *)
(* never acknowledged (nrg_message_manager.cpp:146).                       *)
(***************************************************************************)
EXTENDS MessageManager, SequenceTheorems, TLAPS

\* Each message has a batch of its own at worst: the numbers do not wrap.
NoWrap == \A p \in Peer : MaxMsgs[p] < SeqMod

-----------------------------------------------------------------------------
(* The inductive invariant, for the messages from s to its Other           *)

\* Batches are numbered one after the other, in the order of the messages.
BatchesNumbered(s) ==
  /\ localSeq[s] <= added[s]
  /\ \A i \in 1 .. added[s] : seqOf[s][i] <= localSeq[s]
  /\ \A i, j \in 1 .. added[s] : i <= j => seqOf[s][i] <= seqOf[s][j]
  /\ \A k \in 1 .. localSeq[s] : \E i \in 1 .. added[s] : seqOf[s][i] = k

\* No message will join the batches up to the number k any more.
Closed(s, k) == k <= localSeq[s] /\ (k = localSeq[s] => upToDate[s])

\* A packet of s that carries a batch has the messages of all batches up to
\* its number, but for those that are handled or too old.
CarriesBatches(s, packet) ==
  /\ remoteSeq[Other(s)] <= packet.seq
  /\ Closed(s, packet.seq)
  /\ \A i \in packet.msgs : seqOf[s][i] <= packet.seq
  /\ \A i \in 1 .. added[s] :
       seqOf[s][i] <= packet.seq =>
         i \in packet.msgs \cup received[Other(s)] \/ TooOld(s, i)

\* The batches on their way to the other side are in order.
BatchesInOrder(s) ==
  LET f == flight[Other(s)] IN
  \A n \in DOMAIN f : f[n].msgs # {} =>
    /\ CarriesBatches(s, f[n])
    /\ \A m \in 1 .. n : f[m].msgs # {} => f[m].seq <= f[n].seq

\* The acknowledgements on their way back are in order.
AcksInOrder(s) ==
  \A n \in DOMAIN flight[s] :
    /\ flight[s][n].ack <= remoteSeq[Other(s)]
    /\ \A m \in 1 .. n : flight[s][m].ack <= flight[s][n].ack

\* A message that is no longer kept, and not for its age, is acknowledged by
\* whatever the other side has sent or will send.
GoneIsAcknowledged(s) ==
  \A i \in 1 .. added[s] \ pending[s] :
    TooOld(s, i) \/ /\ seqOf[s][i] <= remoteSeq[Other(s)]
                    /\ \A n \in DOMAIN flight[s] : seqOf[s][i] <= flight[s][n].ack

\* What the other side has handled.
HandledPrefix(s) ==
  /\ Closed(s, remoteSeq[Other(s)])
  /\ \A i \in received[Other(s)] : \A j \in 1 .. i :
       j \in received[Other(s)] \/ TooOld(s, j)
  /\ \A i \in 1 .. added[s] :
       seqOf[s][i] <= remoteSeq[Other(s)] => i \in received[Other(s)] \/ TooOld(s, i)

OneWay(s) ==
  /\ BatchesNumbered(s)
  /\ BatchesInOrder(s)
  /\ AcksInOrder(s)
  /\ GoneIsAcknowledged(s)
  /\ HandledPrefix(s)

IInv == TypeOK /\ \A s \in Peer : OneWay(s)

-----------------------------------------------------------------------------
(* The two sides, and the packets in flight                                *)

LEMMA OtherPeer ==
  ASSUME NEW p \in Peer
  PROVE  /\ Other(p) \in Peer /\ Other(p) # p
         /\ Other(Other(p)) = p
         /\ \A q \in Peer : q = p \/ q = Other(p)
BY DEF Peer, Other

\* A packet joins those in flight, the oldest of which may be lost.
LEMMA FlyAppends ==
  ASSUME TypeOK, NEW p \in Peer, NEW packet \in GamePacket, Fly(p, packet)
  PROVE  /\ flight' \in [Peer -> Seq(GamePacket)]
         /\ flight'[Other(p)] = flight[Other(p)]
         /\ Len(flight'[p]) \in 1 .. MaxFlight
         /\ flight'[p][Len(flight'[p])] = packet
         /\ \E c \in {0, 1} : \A m \in 1 .. Len(flight'[p]) - 1 :
              m + c \in DOMAIN flight[p] /\ flight'[p][m] = flight[p][m + c]
<1>. DEFINE f == flight[p]
            kept == IF Len(f) < MaxFlight THEN f ELSE Tail(f)
            c == IF Len(f) < MaxFlight THEN 0 ELSE 1
<1>1. f \in Seq(GamePacket) /\ Len(f) \in Nat /\ Len(f) <= MaxFlight /\ MaxFlight \in Nat \ {0}
  BY MessageAssumption DEF TypeOK
<1>2. kept \in Seq(GamePacket) /\ Len(kept) = Len(f) - c /\ Len(kept) < MaxFlight
  BY <1>1
<1>3. \A m \in 1 .. Len(kept) : m + c \in DOMAIN f /\ kept[m] = f[m + c]
  BY <1>1
<1>4. flight' = [flight EXCEPT ![p] = Append(kept, packet)]
  BY DEF Fly
<1>. HIDE DEF kept, f
<1>5. flight'[p] = Append(kept, packet) /\ flight'[Other(p)] = flight[Other(p)]
  BY <1>4, OtherPeer DEF TypeOK
<1>6. Append(kept, packet) \in Seq(GamePacket)
  BY <1>2
<1>7. Len(flight'[p]) = Len(kept) + 1 /\ flight'[p][Len(kept) + 1] = packet
  BY <1>2, <1>5
<1>8. \A m \in 1 .. Len(kept) : flight'[p][m] = kept[m]
  BY <1>2, <1>5
<1>9. Len(kept) \in Nat
  BY <1>2
<1>10. Len(flight'[p]) \in 1 .. MaxFlight /\ Len(flight'[p]) - 1 = Len(kept)
  BY <1>1, <1>2, <1>7, <1>9
<1>11. \A m \in 1 .. Len(flight'[p]) - 1 : m + c \in DOMAIN flight[p] /\ flight'[p][m] = flight[p][m + c]
  BY <1>3, <1>8, <1>10 DEF f
<1>12. flight' \in [Peer -> Seq(GamePacket)]
  BY <1>4, <1>6 DEF TypeOK
<1>. QED  BY <1>5, <1>7, <1>10, <1>11, <1>12

\* Reading the n-th packet leaves those behind it.
LEMMA ReadingCuts ==
  ASSUME TypeOK, NEW p \in Peer, NEW n \in DOMAIN flight[p],
         flight' = [flight EXCEPT ![p] = SubSeq(@, n + 1, Len(@))]
  PROVE  /\ flight' \in [Peer -> Seq(GamePacket)]
         /\ flight'[Other(p)] = flight[Other(p)]
         /\ Len(flight'[p]) <= MaxFlight
         /\ \A m \in DOMAIN flight'[p] :
              m + n \in DOMAIN flight[p] /\ flight'[p][m] = flight[p][m + n]
<1>. DEFINE f == flight[p]
            rest == SubSeq(f, n + 1, Len(f))
<1>1. f \in Seq(GamePacket) /\ Len(f) \in Nat /\ Len(f) <= MaxFlight /\ n \in 1 .. Len(f)
  BY DEF TypeOK
<1>2. rest \in Seq(GamePacket) /\ Len(rest) = Len(f) - n
  BY <1>1, SubSeqProperties
<1>3. \A m \in 1 .. Len(rest) : m + n \in DOMAIN f /\ rest[m] = f[m + n]
  <2>1. \A m \in 1 .. Len(rest) : rest[m] = f[(n + 1) + m - 1]
    BY <1>1, <1>2, SubSeqProperties
  <2>. HIDE DEF f, rest
  <2>2. \A m \in 1 .. Len(rest) : m + n \in 1 .. Len(f) /\ (n + 1) + m - 1 = m + n
    BY <1>1, <1>2
  <2>. QED  BY <1>1, <2>1, <2>2
<1>4. flight'[p] = rest /\ flight'[Other(p)] = flight[Other(p)]
  BY OtherPeer DEF TypeOK
<1>5. flight' \in [Peer -> Seq(GamePacket)]
  BY <1>2 DEF TypeOK
<1>. QED  BY <1>1, <1>2, <1>3, <1>4, <1>5, MessageAssumption

-----------------------------------------------------------------------------
(* Type correctness *)

LEMMA InitTyped ==
  ASSUME Init
  PROVE  TypeOK
BY MessageAssumption DEF Init, TypeOK, BatchNum, Msg, Peer, Other, GamePacket

LEMMA AddTyped ==
  ASSUME TypeOK, NEW p \in Peer, AddMessage(p)
  PROVE  TypeOK'
<1>1. /\ added[p] + 1 \in Msg(p)
      /\ added' = [added EXCEPT ![p] = added[p] + 1]
  <2>1. added[p] \in Nat /\ MaxMsgs[p] \in Nat
    BY MessageAssumption DEF TypeOK
  <2>2. added[p] < MaxMsgs[p] /\ added' = [added EXCEPT ![p] = added[p] + 1]
    BY DEF AddMessage
  <2>. QED  BY <2>1, <2>2 DEF Msg
<1>2. localSeq'[p] \in BatchNum /\ localSeq' \in [Peer -> BatchNum]
  BY MessageAssumption, SMTT(30) DEF AddMessage, TypeOK, BatchNum
<1>3. DOMAIN seqOf' = Peer /\ \A q \in Peer : seqOf'[q] \in [Msg(q) -> BatchNum]
  BY <1>2 DEF AddMessage, TypeOK
<1>4. /\ added' \in [Peer -> Nat]
      /\ \A q \in Peer : added[q] <= added'[q] /\ added'[q] <= MaxMsgs[q]
  BY <1>1, MessageAssumption DEF TypeOK, Msg
<1>5. \A q \in Peer : 1 .. added[q] \subseteq 1 .. added'[q]
  BY <1>4 DEF TypeOK
<1>6. /\ pending' \in [Peer -> SUBSET Nat]
      /\ \A q \in Peer : pending'[q] \subseteq 1 .. added'[q]
  BY <1>1, <1>5 DEF AddMessage, TypeOK
<1>7. upToDate' \in [Peer -> BOOLEAN]
  BY DEF AddMessage, TypeOK
<1>8. \A q \in Peer : \A n \in DOMAIN flight[q] : flight[q][n].msgs \subseteq 1 .. added'[Other(q)]
  BY <1>5, OtherPeer DEF TypeOK
<1>9. \A q \in Peer : expired[q] \cup received[Other(q)] \subseteq 1 .. added'[q]
  BY <1>5, OtherPeer DEF TypeOK
<1>. QED  BY <1>2, <1>3, <1>4, <1>6, <1>7, <1>8, <1>9 DEF AddMessage, TypeOK

LEMMA PacketTyped ==
  ASSUME TypeOK, NEW p \in Peer, NEW msgs \in SUBSET Nat
  PROVE  Packet(p, localSeq[p], msgs) \in GamePacket
BY MessageAssumption DEF Packet, GamePacket, TypeOK, BatchNum

LEMMA WriteTyped ==
  ASSUME TypeOK, NEW p \in Peer, NEW oldest, WriteToPacket(p, oldest)
  PROVE  TypeOK'
<1>. DEFINE kept == {i \in pending[p] : i > oldest}
            packet == Packet(p, localSeq[p], kept)
<1>1. kept \subseteq 1 .. added[p] /\ pending[p] \ kept \subseteq 1 .. added[p]
  BY DEF TypeOK
<1>2. packet \in GamePacket /\ packet.msgs \subseteq 1 .. added[p]
  BY <1>1, PacketTyped DEF TypeOK, Packet
<1>. HIDE DEF kept
<1>3. Fly(Other(p), packet)
  BY DEF WriteToPacket, kept
<1>4. /\ flight' \in [Peer -> Seq(GamePacket)]
      /\ flight'[p] = flight[p]
      /\ Len(flight'[Other(p)]) \in 1 .. MaxFlight
      /\ flight'[Other(p)][Len(flight'[Other(p)])] = packet
      /\ \E c \in {0, 1} : \A m \in 1 .. Len(flight'[Other(p)]) - 1 :
           /\ m + c \in DOMAIN flight[Other(p)]
           /\ flight'[Other(p)][m] = flight[Other(p)][m + c]
  BY <1>2, <1>3, OtherPeer, FlyAppends
<1>5. \A m \in DOMAIN flight'[Other(p)] : flight'[Other(p)][m].msgs \subseteq 1 .. added[p]
  <2>. SUFFICES ASSUME NEW m \in 1 .. Len(flight'[Other(p)])
                PROVE  flight'[Other(p)][m].msgs \subseteq 1 .. added[p]
    BY <1>4, OtherPeer
  <2>1. CASE m = Len(flight'[Other(p)])
    BY <1>2, <1>4, <2>1
  <2>2. CASE m \in 1 .. Len(flight'[Other(p)]) - 1
    BY <1>4, <2>2, OtherPeer, SMTT(30) DEF TypeOK
  <2>. QED  BY <1>4, <2>1, <2>2
<1>6. \A q \in Peer : \A n \in DOMAIN flight'[q] : flight'[q][n].msgs \subseteq 1 .. added'[Other(q)]
  <2>1. added' = added
    BY DEF WriteToPacket
  <2>2. \A n \in DOMAIN flight'[p] : flight'[p][n].msgs \subseteq 1 .. added[Other(p)]
    BY <1>4 DEF TypeOK
  <2>. QED  BY <1>5, <2>1, <2>2, OtherPeer
<1>7. /\ pending' = [pending EXCEPT ![p] = kept]
      /\ expired' = [expired EXCEPT ![p] = expired[p] \cup (pending[p] \ kept)]
      /\ \A q \in Peer : Len(flight'[q]) <= MaxFlight
  <2>1. Len(flight'[p]) <= MaxFlight /\ Len(flight'[Other(p)]) <= MaxFlight
    BY <1>4 DEF TypeOK
  <2>. QED  BY <2>1, OtherPeer DEF WriteToPacket, kept
<1>8. \A q \in Peer : pending'[q] \cup expired'[q] \cup received[Other(q)] \subseteq 1 .. added[q]
  BY <1>1, <1>7 DEF TypeOK
<1>9. upToDate' \in [Peer -> BOOLEAN] /\ waiting' \in [Peer -> BOOLEAN]
  BY DEF WriteToPacket, TypeOK
<1>10. pending' \in [Peer -> SUBSET Nat] /\ expired' \in [Peer -> SUBSET Nat]
  BY <1>1, <1>7 DEF TypeOK
<1>. QED  BY <1>4, <1>6, <1>7, <1>8, <1>9, <1>10 DEF WriteToPacket, TypeOK

LEMMA ReadTyped ==
  ASSUME TypeOK, NEW p \in Peer, NEW n \in DOMAIN flight[p], ReadFromPacket(p, n)
  PROVE  TypeOK'
<1>. DEFINE packet == flight[p][n]
<1>1. packet \in GamePacket /\ packet.msgs \subseteq 1 .. added[Other(p)]
  BY DEF TypeOK
<1>2. /\ flight' \in [Peer -> Seq(GamePacket)]
      /\ flight'[Other(p)] = flight[Other(p)]
      /\ Len(flight'[p]) <= MaxFlight
      /\ \A m \in DOMAIN flight'[p] :
           m + n \in DOMAIN flight[p] /\ flight'[p][m] = flight[p][m + n]
  BY ReadingCuts DEF ReadFromPacket
<1>3. \A q \in Peer : /\ Len(flight'[q]) <= MaxFlight
                      /\ \A m \in DOMAIN flight'[q] : flight'[q][m].msgs \subseteq 1 .. added[Other(q)]
  <2>1. \A m \in DOMAIN flight'[p] : flight'[p][m].msgs \subseteq 1 .. added[Other(p)]
    BY <1>2 DEF TypeOK
  <2>2. /\ Len(flight'[Other(p)]) <= MaxFlight
        /\ \A m \in DOMAIN flight'[Other(p)] : flight'[Other(p)][m].msgs \subseteq 1 .. added[p]
    BY <1>2, OtherPeer DEF TypeOK
  <2>. QED  BY <1>2, <2>1, <2>2, OtherPeer
<1>4. Unacknowledged(p, packet.ack) \subseteq pending[p]
  BY DEF Unacknowledged
<1>5. /\ pending' \in [Peer -> SUBSET Nat]
      /\ \A q \in Peer : pending'[q] \subseteq 1 .. added[q]
  BY <1>4 DEF ReadFromPacket, TypeOK
<1>6. packet.seq \in BatchNum /\ packet.msgs \subseteq Nat
  BY <1>1 DEF GamePacket
<1>7. remoteSeq' \in [Peer -> BatchNum] /\ waiting' \in [Peer -> BOOLEAN]
  BY <1>6 DEF ReadFromPacket, TypeOK
<1>8. /\ received' = [received EXCEPT ![p] = received[p] \cup packet.msgs]
      /\ received' \in [Peer -> SUBSET Nat]
  BY <1>6 DEF ReadFromPacket, TypeOK
<1>9. \A q \in Peer : received'[Other(q)] \subseteq 1 .. added[q]
  <2>1. received'[p] \subseteq 1 .. added[Other(p)]
    BY <1>1, <1>8, OtherPeer DEF TypeOK
  <2>2. received'[Other(p)] \subseteq 1 .. added[p]
    BY <1>8, OtherPeer DEF TypeOK
  <2>. QED  BY <2>1, <2>2, OtherPeer
<1>. QED  BY <1>2, <1>3, <1>5, <1>7, <1>8, <1>9, SMTT(30) DEF ReadFromPacket, TypeOK

\* Both managers keep to their types whatever is lost and however often the
\* numbers wrap: what is kept, on its way or handled has been added.
THEOREM TypeCorrect == Spec => []TypeOK
<1>1. Init => TypeOK
  BY InitTyped
<1>2. TypeOK /\ [Next]_vars => TypeOK'
  <2>. SUFFICES ASSUME TypeOK, [Next]_vars PROVE TypeOK'
    OBVIOUS
  <2>1. CASE \E p \in Peer : AddMessage(p)
    BY <2>1, AddTyped
  <2>2. CASE \E p \in Peer : \E oldest \in {0} \cup pending[p] : WriteToPacket(p, oldest)
    BY <2>2, WriteTyped
  <2>3. CASE \E p \in Peer : \E n \in DOMAIN flight[p] : ReadFromPacket(p, n)
    BY <2>3, ReadTyped
  <2>4. CASE UNCHANGED vars
    BY <2>4 DEF TypeOK, vars
  <2>. QED  BY <2>1, <2>2, <2>3, <2>4 DEF Next
<1>. QED  BY <1>1, <1>2, PTL DEF Spec

-----------------------------------------------------------------------------
(* The inductive invariant: what each operation does to the messages from s *)

LEMMA InitOneWay ==
  ASSUME Init, NEW s \in Peer
  PROVE  OneWay(s)
BY OtherPeer
   DEF Init, OneWay, BatchesNumbered, BatchesInOrder, AcksInOrder, GoneIsAcknowledged,
       HandledPrefix, Closed

\* An operation that touches nothing of the messages from s.
LEMMA NothingOfOneWay ==
  ASSUME NEW s \in Peer, OneWay(s),
         added'[s] = added[s], seqOf'[s] = seqOf[s], pending'[s] = pending[s],
         localSeq'[s] = localSeq[s], upToDate'[s] = upToDate[s],
         expired'[s] = expired[s], flight'[s] = flight[s],
         flight'[Other(s)] = flight[Other(s)],
         remoteSeq'[Other(s)] = remoteSeq[Other(s)],
         received'[Other(s)] = received[Other(s)]
  PROVE  OneWay(s)'
BY DEF OneWay, BatchesNumbered, BatchesInOrder, AcksInOrder, GoneIsAcknowledged,
       HandledPrefix, Closed, CarriesBatches, TooOld

\* The values an operation works on.
LEMMA SideTyped ==
  ASSUME TypeOK, NEW s \in Peer
  PROVE  /\ added[s] \in Nat /\ MaxMsgs[s] \in Nat /\ added[s] <= MaxMsgs[s]
         /\ localSeq[s] \in Nat /\ remoteSeq[s] \in Nat
         /\ upToDate[s] \in BOOLEAN
         /\ \A i \in 1 .. added[s] : seqOf[s][i] \in Nat
         /\ \A n \in DOMAIN flight[s] :
              /\ flight[s][n] \in GamePacket
              /\ flight[s][n].ack \in Nat /\ flight[s][n].seq \in Nat
              /\ flight[s][n].msgs \subseteq 1 .. added[Other(s)]
<1>1. added[s] \in Nat /\ MaxMsgs[s] \in Nat /\ added[s] <= MaxMsgs[s]
  BY MessageAssumption DEF TypeOK
<1>2. seqOf[s] \in [1 .. MaxMsgs[s] -> BatchNum] /\ BatchNum \subseteq Nat
  BY MessageAssumption DEF TypeOK, Msg, BatchNum
<1>3. \A i \in 1 .. added[s] : i \in 1 .. MaxMsgs[s]
  BY <1>1
<1>4. \A n \in DOMAIN flight[s] : flight[s][n] \in GamePacket
  BY DEF TypeOK
<1>. QED  BY <1>1, <1>2, <1>3, <1>4 DEF TypeOK, GamePacket

\* A message that is added gets a number beyond every batch that is closed.
LEMMA AddNumbers ==
  ASSUME TypeOK, NoWrap, NEW s \in Peer, OneWay(s), AddMessage(s)
  PROVE  /\ added'[s] = added[s] + 1
         /\ localSeq'[s] = IF upToDate[s] THEN localSeq[s] + 1 ELSE localSeq[s]
         /\ \A i \in 1 .. added[s] : seqOf'[s][i] = seqOf[s][i]
         /\ seqOf'[s][added[s] + 1] = localSeq'[s]
         /\ \A k \in Nat : Closed(s, k) => Closed(s, k)' /\ k < localSeq'[s]
<1>1. /\ added[s] \in Nat /\ MaxMsgs[s] \in Nat /\ added[s] < MaxMsgs[s]
      /\ localSeq[s] \in Nat /\ localSeq[s] <= added[s]
      /\ MaxMsgs[s] < SeqMod /\ SeqMod \in Nat \ {0}
  BY SideTyped, MessageAssumption DEF AddMessage, NoWrap, OneWay, BatchesNumbered
<1>2. (localSeq[s] + 1) % SeqMod = localSeq[s] + 1
  BY <1>1
<1>3. /\ added'[s] = added[s] + 1
      /\ localSeq'[s] = IF upToDate[s] THEN localSeq[s] + 1 ELSE localSeq[s]
      /\ upToDate'[s] = FALSE
  BY <1>2 DEF AddMessage, TypeOK
<1>4. seqOf'[s] = [seqOf[s] EXCEPT ![added[s] + 1] = localSeq'[s]]
  BY DEF AddMessage, TypeOK
<1>5. DOMAIN seqOf[s] = 1 .. MaxMsgs[s]
  BY DEF TypeOK, Msg
<1>6. /\ \A i \in 1 .. added[s] : seqOf'[s][i] = seqOf[s][i]
      /\ seqOf'[s][added[s] + 1] = localSeq'[s]
  BY <1>1, <1>4, <1>5
<1>7. \A k \in Nat : Closed(s, k) => Closed(s, k)' /\ k < localSeq'[s]
  BY <1>1, <1>3 DEF Closed
<1>. QED  BY <1>3, <1>6, <1>7

LEMMA AddOneWay ==
  ASSUME TypeOK, NoWrap, NEW s \in Peer, OneWay(s), AddMessage(s)
  PROVE  OneWay(s)'
<1>. DEFINE r == Other(s)
            a == added[s]
<1>1. /\ added'[s] = a + 1
      /\ localSeq'[s] = IF upToDate[s] THEN localSeq[s] + 1 ELSE localSeq[s]
      /\ \A i \in 1 .. a : seqOf'[s][i] = seqOf[s][i]
      /\ seqOf'[s][a + 1] = localSeq'[s]
      /\ \A k \in Nat : Closed(s, k) => Closed(s, k)' /\ k < localSeq'[s]
  BY AddNumbers
<1>2. /\ flight' = flight /\ received' = received /\ remoteSeq' = remoteSeq
      /\ expired' = expired
      /\ pending'[s] = pending[s] \cup {a + 1}
  BY DEF AddMessage, TypeOK
<1>3. r \in Peer
  BY OtherPeer
<1>4. /\ a \in Nat /\ localSeq[s] \in Nat /\ remoteSeq[r] \in Nat
      /\ \A i \in 1 .. a : seqOf[s][i] \in Nat
      /\ upToDate[s] \in BOOLEAN
      /\ \A n \in DOMAIN flight[r] : flight[r][n].seq \in Nat /\ flight[r][n].msgs \subseteq 1 .. a
  BY <1>3, SideTyped, OtherPeer
<1>5. \A i \in 1 .. a + 1 : i \in 1 .. a \/ i = a + 1
  BY <1>4
<1>6. Closed(s, remoteSeq[r]) /\ Closed(s, remoteSeq[r])' /\ remoteSeq[r] < localSeq'[s]
  BY <1>1, <1>2, <1>4 DEF OneWay, HandledPrefix, Closed
<1>7. \A i \in Nat : TooOld(s, i)' <=> TooOld(s, i)
  BY <1>2 DEF TooOld
<1>8. BatchesNumbered(s)'
  <2>1. localSeq[s] <= a
    BY DEF OneWay, BatchesNumbered
  <2>2. localSeq'[s] <= added'[s]
    BY <1>1, <1>4, <2>1
  <2>3. \A i \in 1 .. added'[s] : seqOf'[s][i] <= localSeq'[s]
    BY <1>1, <1>4, <1>5 DEF OneWay, BatchesNumbered
  <2>4. \A i, j \in 1 .. added'[s] : i <= j => seqOf'[s][i] <= seqOf'[s][j]
    <3>. SUFFICES ASSUME NEW i \in 1 .. a + 1, NEW j \in 1 .. a + 1, i <= j
                  PROVE  seqOf'[s][i] <= seqOf'[s][j]
      BY <1>1
    <3>1. CASE j = a + 1
      BY <1>1, <2>3, <3>1
    <3>2. CASE j \in 1 .. a
      BY <1>1, <1>4, <1>5, <3>2 DEF OneWay, BatchesNumbered
    <3>. QED  BY <1>5, <3>1, <3>2
  <2>5. \A k \in 1 .. localSeq'[s] : \E i \in 1 .. added'[s] : seqOf'[s][i] = k
    <3>. SUFFICES ASSUME NEW k \in 1 .. localSeq'[s]
                  PROVE  \E i \in 1 .. a + 1 : seqOf'[s][i] = k
      BY <1>1
    <3>1. CASE k = localSeq'[s]
      BY <1>1, <1>4, <3>1
    <3>2. CASE k # localSeq'[s]
      <4>1. k \in 1 .. localSeq[s]
        BY <1>1, <1>4, <3>2
      <4>2. PICK i \in 1 .. a : seqOf[s][i] = k
        BY <4>1 DEF OneWay, BatchesNumbered
      <4>. QED  BY <1>1, <1>4, <4>2
    <3>. QED  BY <3>1, <3>2
  <2>. QED  BY <2>2, <2>3, <2>4, <2>5 DEF BatchesNumbered
<1>9. BatchesInOrder(s)'
  <2>. SUFFICES ASSUME NEW n \in DOMAIN flight[r], flight[r][n].msgs # {}
                PROVE  CarriesBatches(s, flight[r][n])'
    BY <1>2 DEF BatchesInOrder, OneWay
  <2>. DEFINE packet == flight[r][n]
  <2>1. CarriesBatches(s, packet) /\ packet.seq \in Nat /\ packet.msgs \subseteq 1 .. a
    BY <1>4 DEF OneWay, BatchesInOrder
  <2>2. Closed(s, packet.seq)' /\ packet.seq < localSeq'[s]
    BY <1>1, <1>2, <2>1 DEF CarriesBatches, Closed
  <2>3. \A i \in packet.msgs : seqOf'[s][i] <= packet.seq
    BY <1>1, <2>1 DEF CarriesBatches
  <2>4. ASSUME NEW i \in 1 .. a + 1, seqOf'[s][i] <= packet.seq
        PROVE  i \in packet.msgs \cup received[r] \/ TooOld(s, i)
    <3>1. i \in 1 .. a
      BY <1>1, <1>4, <1>5, <2>1, <2>2, <2>4
    <3>. QED  BY <1>1, <2>1, <2>4, <3>1 DEF CarriesBatches
  <2>. QED  BY <1>1, <1>2, <1>4, <1>7, <2>1, <2>2, <2>3, <2>4 DEF CarriesBatches
<1>10. AcksInOrder(s)'
  BY <1>2 DEF OneWay, AcksInOrder
<1>11. GoneIsAcknowledged(s)'
  BY <1>1, <1>2, <1>4, <1>5, <1>7 DEF OneWay, GoneIsAcknowledged
<1>12. HandledPrefix(s)'
  <2>1. received[r] \subseteq 1 .. a
    BY DEF TypeOK
  <2>2. \A i \in received[r] : \A j \in 1 .. i : j \in received[r] \/ TooOld(s, j)'
    BY <1>4, <1>7, <2>1 DEF OneWay, HandledPrefix
  <2>3. ASSUME NEW i \in 1 .. a + 1, seqOf'[s][i] <= remoteSeq[r]
        PROVE  i \in received[r] \/ TooOld(s, i)'
    <3>1. i \in 1 .. a
      BY <1>1, <1>4, <1>5, <1>6, <2>3
    <3>. QED  BY <1>1, <1>4, <1>7, <2>3, <3>1 DEF OneWay, HandledPrefix
  <2>. QED  BY <1>1, <1>2, <1>6, <2>2, <2>3 DEF HandledPrefix
<1>. QED  BY <1>8, <1>9, <1>10, <1>11, <1>12 DEF OneWay

\* The packet that s writes carries its batches.
LEMMA WrittenCarries ==
  ASSUME TypeOK, NEW s \in Peer, OneWay(s), NEW oldest \in {0} \cup pending[s],
         WriteToPacket(s, oldest),
         NEW kept, kept = {i \in pending[s] : i > oldest},
         NEW packet, packet = Packet(s, localSeq[s], kept), packet.msgs # {}
  PROVE  CarriesBatches(s, packet)' /\ packet.seq = localSeq[s]
<1>. DEFINE r == Other(s)
<1>1. packet.msgs = kept /\ packet.seq = localSeq[s] /\ ~waiting[s] /\ kept # {}
  BY DEF Packet
<1>2. upToDate'[s] = TRUE
  BY <1>1 DEF WriteToPacket, TypeOK
<1>3. /\ added' = added /\ seqOf' = seqOf /\ localSeq' = localSeq /\ remoteSeq' = remoteSeq
      /\ received' = received
      /\ expired'[s] = expired[s] \cup (pending[s] \ kept)
  BY DEF WriteToPacket, TypeOK
<1>4. r \in Peer
  BY OtherPeer
<1>5. /\ localSeq[s] \in Nat /\ remoteSeq[r] \in Nat /\ added[s] \in Nat
      /\ \A i \in 1 .. added[s] : seqOf[s][i] \in Nat
      /\ pending[s] \subseteq 1 .. added[s]
  BY <1>4, SideTyped DEF TypeOK
<1>6. remoteSeq[r] <= packet.seq
  BY <1>1 DEF OneWay, HandledPrefix, Closed
<1>7. Closed(s, packet.seq)'
  BY <1>1, <1>2, <1>3, <1>5 DEF Closed
<1>8. \A i \in packet.msgs : seqOf[s][i] <= packet.seq
  BY <1>1, <1>5 DEF OneWay, BatchesNumbered
<1>9. ASSUME NEW i \in 1 .. added[s]
      PROVE  i \in packet.msgs \cup received[r] \/ TooOld(s, i)'
  <2>1. CASE i \in pending[s]
    BY <1>1, <1>3, <1>5, <2>1 DEF TooOld
  <2>2. CASE i \notin pending[s]
    BY <1>3, <1>4, <1>5, <2>2 DEF OneWay, GoneIsAcknowledged, HandledPrefix, TooOld
  <2>. QED  BY <2>1, <2>2
<1>. QED  BY <1>1, <1>3, <1>6, <1>7, <1>8, <1>9 DEF CarriesBatches

LEMMA WriteOneWay ==
  ASSUME TypeOK, NEW s \in Peer, OneWay(s), NEW oldest \in {0} \cup pending[s],
         WriteToPacket(s, oldest)
  PROVE  OneWay(s)'
<1>. DEFINE r == Other(s)
            kept == {i \in pending[s] : i > oldest}
            packet == Packet(s, localSeq[s], kept)
            f == flight[r]
            top == Len(flight'[r])
<1>1. r \in Peer /\ Other(r) = s /\ r # s
  BY OtherPeer
<1>2. packet \in GamePacket
  BY PacketTyped DEF TypeOK
<1>3. /\ added' = added /\ seqOf' = seqOf /\ localSeq' = localSeq /\ remoteSeq' = remoteSeq
      /\ received' = received
      /\ pending'[s] = kept
      /\ expired'[s] = expired[s] \cup (pending[s] \ kept)
      /\ upToDate'[s] \in BOOLEAN /\ (upToDate[s] => upToDate'[s])
  BY DEF WriteToPacket, TypeOK
<1>4. Fly(r, packet)
  BY DEF WriteToPacket
<1>5. /\ flight' \in [Peer -> Seq(GamePacket)]
      /\ flight'[s] = flight[s]
      /\ top \in Nat \ {0} /\ flight'[r][top] = packet
      /\ \E c \in {0, 1} : \A m \in 1 .. top - 1 :
           m + c \in DOMAIN f /\ flight'[r][m] = f[m + c]
  BY <1>1, <1>2, <1>4, FlyAppends, MessageAssumption
<1>6. PICK c \in {0, 1} : \A m \in 1 .. top - 1 :
        m + c \in DOMAIN f /\ flight'[r][m] = f[m + c]
  BY <1>5
<1>7. DOMAIN flight'[r] = 1 .. top /\ DOMAIN f \subseteq Nat \ {0}
  BY <1>1, <1>5 DEF TypeOK
<1>8. /\ localSeq[s] \in Nat /\ remoteSeq[r] \in Nat /\ added[s] \in Nat
      /\ upToDate[s] \in BOOLEAN
      /\ \A i \in 1 .. added[s] : seqOf[s][i] \in Nat
      /\ pending[s] \subseteq 1 .. added[s]
      /\ \A n \in DOMAIN f : f[n].seq \in Nat
  BY <1>1, SideTyped DEF TypeOK
<1>9. \A i : TooOld(s, i) => TooOld(s, i)'
  BY <1>3 DEF TooOld
<1>10. \A k \in Nat : Closed(s, k) => Closed(s, k)'
  BY <1>3, <1>8 DEF Closed
<1>11. BatchesNumbered(s)'
  BY <1>3 DEF OneWay, BatchesNumbered
<1>12. BatchesInOrder(s)'
  <2>. HIDE DEF kept, f, top
  <2>1. \A x \in GamePacket : x = packet /\ x.msgs # {} =>
          CarriesBatches(s, x)' /\ x.seq = localSeq[s]
    BY WrittenCarries DEF kept
  <2>. HIDE DEF packet
  <2>2. \A n \in DOMAIN f :
          /\ f[n] \in GamePacket
          /\ f[n].msgs # {} =>
               /\ CarriesBatches(s, f[n])
               /\ \A m \in 1 .. n : f[m].msgs # {} => f[m].seq <= f[n].seq
    BY <1>1 DEF OneWay, BatchesInOrder, f, TypeOK
  <2>3. \A x \in GamePacket : CarriesBatches(s, x) =>
          CarriesBatches(s, x)' /\ x.seq <= localSeq[s]
    <3>. SUFFICES ASSUME NEW x \in GamePacket, CarriesBatches(s, x)
                  PROVE  CarriesBatches(s, x)' /\ x.seq <= localSeq[s]
      OBVIOUS
    <3>1. x.seq \in Nat
      BY MessageAssumption DEF GamePacket, BatchNum
    <3>2. Closed(s, x.seq)' /\ x.seq <= localSeq[s]
      BY <1>10, <3>1 DEF CarriesBatches, Closed
    <3>. QED  BY <1>3, <1>9, <3>2 DEF CarriesBatches
  <2>4. \A n \in 1 .. top : flight'[r][n] \in GamePacket
    BY <1>1, <1>5, <1>7
  <2>5. ASSUME NEW n \in 1 .. top, NEW x \in GamePacket, x = flight'[r][n], x.msgs # {}
        PROVE  CarriesBatches(s, x)'
    <3>1. CASE n = top
      BY <1>5, <2>1, <2>5, <3>1
    <3>2. CASE n \in 1 .. top - 1
      BY <1>6, <2>2, <2>3, <2>5, <3>2
    <3>. QED  BY <1>5, <3>1, <3>2
  <2>6. ASSUME NEW n \in 1 .. top, flight'[r][n].msgs # {},
               NEW m \in 1 .. n, flight'[r][m].msgs # {}
        PROVE  flight'[r][m].seq <= flight'[r][n].seq
    <3>1. CASE m \in 1 .. top - 1 /\ n \in 1 .. top - 1
      <4>1. /\ m + c \in DOMAIN f /\ flight'[r][m] = f[m + c]
            /\ n + c \in DOMAIN f /\ flight'[r][n] = f[n + c]
        BY <1>6, <3>1
      <4>2. m + c \in 1 .. n + c
        BY <1>7, <4>1
      <4>. QED  BY <2>2, <2>6, <4>1, <4>2
    <3>2. CASE m \in 1 .. top - 1 /\ n = top
      BY <1>2, <1>5, <1>6, <2>1, <2>2, <2>3, <2>6, <3>2
    <3>3. CASE m = n
      <4>1. flight'[r][n].seq \in Nat
        BY <2>4, MessageAssumption DEF GamePacket, BatchNum
      <4>. QED  BY <3>3, <4>1
    <3>. QED  BY <1>5, <3>1, <3>2, <3>3
  <2>. QED  BY <1>7, <2>4, <2>5, <2>6 DEF BatchesInOrder, CarriesBatches
<1>13. AcksInOrder(s)'
  BY <1>3, <1>5 DEF OneWay, AcksInOrder
<1>14. GoneIsAcknowledged(s)'
  <2>. SUFFICES ASSUME NEW i \in 1 .. added[s] \ kept, ~TooOld(s, i)'
                PROVE  /\ seqOf[s][i] <= remoteSeq[r]
                       /\ \A n \in DOMAIN flight[s] : seqOf[s][i] <= flight[s][n].ack
    BY <1>3, <1>5 DEF GoneIsAcknowledged
  <2>1. i \notin pending[s]
    BY <1>3, <1>8 DEF TooOld
  <2>. QED  BY <1>9, <2>1 DEF OneWay, GoneIsAcknowledged
<1>15. HandledPrefix(s)'
  BY <1>3, <1>8, <1>9, <1>10 DEF OneWay, HandledPrefix
<1>. QED  BY <1>11, <1>12, <1>13, <1>14, <1>15 DEF OneWay

\* The other side writes: an acknowledgement sets out.
LEMMA AcknowledgeOneWay ==
  ASSUME TypeOK, NEW s \in Peer, OneWay(s), NEW oldest, WriteToPacket(Other(s), oldest)
  PROVE  OneWay(s)'
<1>. DEFINE r == Other(s)
            msgs == {i \in pending[r] : i > oldest}
            packet == Packet(r, localSeq[r], msgs)
            f == flight[s]
            top == Len(flight'[s])
<1>1. r \in Peer /\ Other(r) = s /\ r # s
  BY OtherPeer
<1>2. packet \in GamePacket /\ packet.ack = remoteSeq[r]
  BY <1>1, PacketTyped DEF Packet, TypeOK
<1>3. /\ added' = added /\ seqOf' = seqOf /\ localSeq' = localSeq /\ remoteSeq' = remoteSeq
      /\ received' = received /\ pending'[s] = pending[s] /\ expired'[s] = expired[s]
      /\ upToDate'[s] = upToDate[s]
  BY <1>1 DEF WriteToPacket, TypeOK
<1>4. Fly(s, packet)
  BY <1>1 DEF WriteToPacket
<1>5. /\ flight' \in [Peer -> Seq(GamePacket)]
      /\ flight'[r] = flight[r]
      /\ top \in Nat \ {0} /\ flight'[s][top] = packet
      /\ \E c \in {0, 1} : \A m \in 1 .. top - 1 :
           m + c \in DOMAIN f /\ flight'[s][m] = f[m + c]
  BY <1>1, <1>2, <1>4, FlyAppends, MessageAssumption
<1>6. PICK c \in {0, 1} : \A m \in 1 .. top - 1 :
        m + c \in DOMAIN f /\ flight'[s][m] = f[m + c]
  BY <1>5
<1>7. /\ DOMAIN flight'[s] = 1 .. top /\ DOMAIN f \subseteq Nat \ {0}
      /\ remoteSeq[r] \in Nat /\ \A n \in DOMAIN f : f[n].ack \in Nat
  BY <1>1, <1>5, SideTyped DEF TypeOK
<1>. HIDE DEF packet, f, top
<1>8. \A n \in DOMAIN f : /\ f[n].ack <= remoteSeq[r]
                          /\ \A m \in 1 .. n : f[m].ack <= f[n].ack
  BY DEF OneWay, AcksInOrder, f
<1>9. \A n \in 1 .. top : flight'[s][n].ack \in Nat /\ flight'[s][n].ack <= remoteSeq[r]
  <2>. SUFFICES ASSUME NEW n \in 1 .. top
                PROVE  flight'[s][n].ack \in Nat /\ flight'[s][n].ack <= remoteSeq[r]
    OBVIOUS
  <2>1. CASE n = top
    BY <1>2, <1>5, <1>7, <2>1
  <2>2. CASE n \in 1 .. top - 1
    BY <1>6, <1>7, <1>8, <2>2
  <2>. QED  BY <1>5, <2>1, <2>2
<1>10. ASSUME NEW n \in 1 .. top, NEW m \in 1 .. n
       PROVE  flight'[s][m].ack <= flight'[s][n].ack
  <2>1. CASE n \in 1 .. top - 1
    <3>1. /\ m + c \in DOMAIN f /\ flight'[s][m] = f[m + c]
          /\ n + c \in DOMAIN f /\ flight'[s][n] = f[n + c]
      BY <1>5, <1>6, <2>1
    <3>2. m + c \in 1 .. n + c
      BY <1>7, <3>1
    <3>. QED  BY <1>8, <3>1, <3>2
  <2>2. CASE n = top
    BY <1>2, <1>5, <1>9, <2>2
  <2>. QED  BY <1>5, <2>1, <2>2
<1>11. AcksInOrder(s)'
  BY <1>3, <1>7, <1>9, <1>10 DEF AcksInOrder
<1>12. GoneIsAcknowledged(s)'
  <2>. SUFFICES ASSUME NEW i \in 1 .. added[s] \ pending[s], ~TooOld(s, i)
                PROVE  /\ seqOf[s][i] <= remoteSeq[r]
                       /\ \A n \in 1 .. top : seqOf[s][i] <= flight'[s][n].ack
    BY <1>3, <1>7 DEF GoneIsAcknowledged, TooOld
  <2>1. seqOf[s][i] <= remoteSeq[r] /\ \A n \in DOMAIN f : seqOf[s][i] <= f[n].ack
    BY DEF OneWay, GoneIsAcknowledged, f
  <2>2. ASSUME NEW n \in 1 .. top
        PROVE  seqOf[s][i] <= flight'[s][n].ack
    <3>1. CASE n = top
      BY <1>2, <1>5, <2>1, <3>1
    <3>2. CASE n \in 1 .. top - 1
      BY <1>6, <2>1, <3>2
    <3>. QED  BY <1>5, <3>1, <3>2
  <2>. QED  BY <2>1, <2>2
<1>13. BatchesNumbered(s)' /\ BatchesInOrder(s)' /\ HandledPrefix(s)'
  BY <1>3, <1>5 DEF OneWay, BatchesNumbered, BatchesInOrder, HandledPrefix, CarriesBatches,
                    Closed, TooOld
<1>. QED  BY <1>11, <1>12, <1>13 DEF OneWay

\* s reads an acknowledgement: what goes was acknowledged or is too old.
LEMMA AcknowledgedOneWay ==
  ASSUME TypeOK, NEW s \in Peer, OneWay(s), NEW n \in DOMAIN flight[s], ReadFromPacket(s, n)
  PROVE  OneWay(s)'
<1>. DEFINE r == Other(s)
            ack == flight[s][n].ack
            f == flight[s]
<1>1. r \in Peer /\ Other(r) = s /\ r # s
  BY OtherPeer
<1>2. /\ added' = added /\ seqOf' = seqOf /\ localSeq' = localSeq /\ expired' = expired
      /\ upToDate' = upToDate /\ remoteSeq'[r] = remoteSeq[r] /\ received'[r] = received[r]
      /\ pending'[s] = Unacknowledged(s, ack)
  BY <1>1 DEF ReadFromPacket, TypeOK
<1>3. /\ flight'[r] = flight[r]
      /\ \A m \in DOMAIN flight'[s] : m + n \in DOMAIN f /\ flight'[s][m] = f[m + n]
      /\ flight' \in [Peer -> Seq(GamePacket)]
  BY ReadingCuts DEF ReadFromPacket
<1>4. /\ localSeq[s] \in Nat /\ remoteSeq[r] \in Nat /\ added[s] \in Nat
      /\ \A i \in 1 .. added[s] : seqOf[s][i] \in Nat
      /\ pending[s] \subseteq 1 .. added[s] /\ expired[s] \subseteq 1 .. added[s]
      /\ \A m \in DOMAIN f : f[m].ack \in Nat
      /\ DOMAIN f = 1 .. Len(f) /\ Len(f) \in Nat
      /\ DOMAIN flight'[s] = 1 .. Len(flight'[s]) /\ Len(flight'[s]) \in Nat
  <2>1. f \in Seq(GamePacket) /\ flight'[s] \in Seq(GamePacket)
    BY <1>3 DEF TypeOK
  <2>. QED  BY <1>1, <2>1, SideTyped DEF TypeOK
<1>5. \A k \in DOMAIN f : /\ f[k].ack <= remoteSeq[r]
                          /\ \A m \in 1 .. k : f[m].ack <= f[k].ack
  BY DEF OneWay, AcksInOrder
<1>6. AcksInOrder(s)'
  <2>. SUFFICES ASSUME NEW k \in DOMAIN flight'[s]
                PROVE  /\ flight'[s][k].ack <= remoteSeq[r]
                       /\ \A m \in 1 .. k : flight'[s][m].ack <= flight'[s][k].ack
    BY <1>2 DEF AcksInOrder
  <2>1. k + n \in DOMAIN f /\ flight'[s][k] = f[k + n]
    BY <1>3
  <2>2. ASSUME NEW m \in 1 .. k
        PROVE  flight'[s][m].ack <= flight'[s][k].ack
    <3>1. m \in DOMAIN flight'[s]
      BY <1>1, <1>3, <1>4
    <3>2. flight'[s][m] = f[m + n] /\ m + n \in DOMAIN f
      BY <1>3, <3>1
    <3>3. m + n \in 1 .. k + n
      BY <1>4, <2>1, <3>1, <3>2
    <3>. QED  BY <1>5, <2>1, <3>2, <3>3
  <2>. QED  BY <1>5, <2>1, <2>2
<1>7. GoneIsAcknowledged(s)'
  <2>. SUFFICES ASSUME NEW i \in 1 .. added[s], i \notin Unacknowledged(s, ack), ~TooOld(s, i)
                PROVE  /\ seqOf[s][i] <= remoteSeq[r]
                       /\ \A m \in DOMAIN flight'[s] : seqOf[s][i] <= flight'[s][m].ack
    BY <1>2 DEF GoneIsAcknowledged, TooOld
  <2>1. \A j \in 1 .. i : j \notin pending[s] => seqOf[s][j] <= ack
    <3>. SUFFICES ASSUME NEW j \in 1 .. i, j \notin pending[s]
                  PROVE  seqOf[s][j] <= ack
      OBVIOUS
    <3>1. j \in 1 .. added[s] \ pending[s]
      BY <1>4
    <3>2. ~TooOld(s, j)
      BY <1>4 DEF TooOld
    <3>. QED  BY <3>1, <3>2 DEF OneWay, GoneIsAcknowledged
  <2>2. seqOf[s][i] <= ack
    <3>. SUFFICES ASSUME ack < seqOf[s][i] PROVE FALSE
      BY <1>4
    <3>1. ack + 1 \in 1 .. localSeq[s]
      BY <1>4, SMTT(30) DEF OneWay, BatchesNumbered
    <3>2. PICK j \in 1 .. added[s] : seqOf[s][j] = ack + 1
      BY <3>1 DEF OneWay, BatchesNumbered
    <3>3. PICK k \in 1 .. i : seqOf[s][k] = ack + 1
      <4>1. CASE j <= i
        BY <3>2, <4>1
      <4>2. CASE i <= j
        <5>1. seqOf[s][i] <= ack + 1
          BY <3>2, <4>2 DEF OneWay, BatchesNumbered
        <5>. QED  BY <1>4, <5>1, SMTT(30)
      <4>. QED  BY <4>1, <4>2
    <3>4. k \in pending[s]
      BY <1>4, <2>1, <3>3, SMTT(30)
    <3>5. i \in pending[s]
      BY <1>4, <2>1
    <3>. QED  BY <3>3, <3>4, <3>5 DEF Unacknowledged
  <2>3. \A m \in DOMAIN flight'[s] : ack <= flight'[s][m].ack
    <3>. SUFFICES ASSUME NEW m \in DOMAIN flight'[s]
                  PROVE  ack <= flight'[s][m].ack
      OBVIOUS
    <3>1. m + n \in DOMAIN f /\ flight'[s][m] = f[m + n] /\ n \in 1 .. m + n
      BY <1>3, <1>4
    <3>. QED  BY <1>5, <3>1
  <2>4. \A m \in DOMAIN flight'[s] : flight'[s][m].ack \in Nat
    BY <1>3, <1>4
  <2>. QED  BY <1>4, <1>5, <2>2, <2>3, <2>4, SMTT(30)
<1>8. BatchesNumbered(s)' /\ BatchesInOrder(s)' /\ HandledPrefix(s)'
  BY <1>2, <1>3 DEF OneWay, BatchesNumbered, BatchesInOrder, HandledPrefix, CarriesBatches,
                    Closed, TooOld
<1>. QED  BY <1>6, <1>7, <1>8 DEF OneWay

\* The other side reads a packet of s, with a batch or without.
LEMMA HandleOneWay ==
  ASSUME TypeOK, NEW s \in Peer, OneWay(s), NEW n \in DOMAIN flight[Other(s)],
         ReadFromPacket(Other(s), n)
  PROVE  OneWay(s)'
<1>. DEFINE r == Other(s)
            packet == flight[r][n]
            f == flight[r]
<1>1. r \in Peer /\ Other(r) = s /\ r # s
  BY OtherPeer
<1>2. /\ added' = added /\ seqOf' = seqOf /\ localSeq' = localSeq /\ expired' = expired
      /\ upToDate' = upToDate /\ pending'[s] = pending[s]
      /\ remoteSeq'[r] = IF packet.msgs = {} THEN remoteSeq[r] ELSE packet.seq
      /\ received'[r] = received[r] \cup packet.msgs
  BY <1>1 DEF ReadFromPacket, TypeOK
<1>3. /\ flight'[s] = flight[s]
      /\ flight' \in [Peer -> Seq(GamePacket)]
      /\ \A m \in DOMAIN flight'[r] : m + n \in DOMAIN f /\ flight'[r][m] = f[m + n]
  BY <1>1, ReadingCuts DEF ReadFromPacket
<1>4. /\ localSeq[s] \in Nat /\ remoteSeq[r] \in Nat /\ added[s] \in Nat
      /\ \A i \in 1 .. added[s] : seqOf[s][i] \in Nat
      /\ \A m \in DOMAIN f : f[m].seq \in Nat /\ f[m].msgs \subseteq 1 .. added[s]
      /\ \A m \in DOMAIN flight[s] : flight[s][m].ack \in Nat
      /\ DOMAIN f = 1 .. Len(f) /\ Len(f) \in Nat
      /\ DOMAIN flight'[r] = 1 .. Len(flight'[r]) /\ Len(flight'[r]) \in Nat
  BY <1>1, <1>3, SideTyped DEF TypeOK
<1>5. \A k \in DOMAIN f : f[k].msgs # {} =>
        /\ CarriesBatches(s, f[k])
        /\ \A m \in 1 .. k : f[m].msgs # {} => f[m].seq <= f[k].seq
  BY DEF OneWay, BatchesInOrder
<1>6. \A i : TooOld(s, i)' <=> TooOld(s, i)
  BY <1>2 DEF TooOld
<1>7. remoteSeq[r] <= remoteSeq'[r] /\ remoteSeq'[r] \in Nat
  BY <1>2, <1>4, <1>5 DEF CarriesBatches
<1>8. BatchesInOrder(s)'
  <2>. SUFFICES ASSUME NEW k \in DOMAIN flight'[r], flight'[r][k].msgs # {},
                       NEW x, x = flight'[r][k]
                PROVE  /\ CarriesBatches(s, x)'
                       /\ \A m \in 1 .. k : flight'[r][m].msgs # {} => flight'[r][m].seq <= x.seq
    BY <1>2 DEF BatchesInOrder, CarriesBatches
  <2>1. k + n \in DOMAIN f /\ x = f[k + n]
    BY <1>3
  <2>2. CarriesBatches(s, x)
    BY <1>5, <2>1
  <2>3. packet.msgs # {} => packet.seq <= x.seq
    <3>1. n \in 1 .. k + n
      BY <1>4
    <3>. QED  BY <1>5, <2>1, <3>1
  <2>4. CarriesBatches(s, x)'
    BY <1>2, <1>6, <2>2, <2>3 DEF CarriesBatches, Closed
  <2>5. ASSUME NEW m \in 1 .. k, flight'[r][m].msgs # {}
        PROVE  flight'[r][m].seq <= x.seq
    <3>1. m \in DOMAIN flight'[r]
      BY <1>4
    <3>2. flight'[r][m] = f[m + n] /\ m + n \in DOMAIN f
      BY <1>3, <3>1
    <3>3. m + n \in 1 .. k + n
      BY <1>4, <2>1, <3>1, <3>2
    <3>. QED  BY <1>5, <2>1, <2>5, <3>2, <3>3
  <2>. QED  BY <2>4, <2>5
<1>9. AcksInOrder(s)'
  <2>1. \A m \in DOMAIN flight[s] : flight[s][m].ack <= remoteSeq'[r]
    BY <1>4, <1>7 DEF OneWay, AcksInOrder
  <2>. QED  BY <1>3, <2>1 DEF OneWay, AcksInOrder
<1>10. GoneIsAcknowledged(s)'
  <2>. SUFFICES ASSUME NEW i \in 1 .. added[s] \ pending[s], ~TooOld(s, i)
                PROVE  /\ seqOf[s][i] <= remoteSeq'[r]
                       /\ \A m \in DOMAIN flight[s] : seqOf[s][i] <= flight[s][m].ack
    BY <1>2, <1>3, <1>6 DEF GoneIsAcknowledged
  <2>1. /\ seqOf[s][i] <= remoteSeq[r]
        /\ \A m \in DOMAIN flight[s] : seqOf[s][i] <= flight[s][m].ack
    BY DEF OneWay, GoneIsAcknowledged
  <2>. QED  BY <1>4, <1>7, <2>1
<1>11. HandledPrefix(s)'
  <2>1. CASE packet.msgs = {}
    BY <1>2, <1>6, <2>1 DEF OneWay, HandledPrefix, Closed
  <2>2. CASE packet.msgs # {}
    <3>1. CarriesBatches(s, packet) /\ packet.msgs \subseteq 1 .. added[s] /\ packet.seq \in Nat
      BY <1>4, <1>5, <2>2
    <3>2. remoteSeq'[r] = packet.seq /\ Closed(s, packet.seq)
      BY <1>2, <2>2, <3>1 DEF CarriesBatches
    <3>3. \A i \in 1 .. added[s] : seqOf[s][i] <= packet.seq =>
            i \in received'[r] \/ TooOld(s, i)
      BY <1>2, <3>1 DEF CarriesBatches
    <3>4. ASSUME NEW i \in received'[r], NEW j \in 1 .. i
          PROVE  j \in received'[r] \/ TooOld(s, j)
      <4>1. CASE i \in received[r]
        BY <1>2, <4>1 DEF OneWay, HandledPrefix
      <4>2. CASE i \in packet.msgs
        <5>1. i \in 1 .. added[s] /\ j \in 1 .. added[s] /\ seqOf[s][i] <= packet.seq
          BY <1>4, <3>1, <4>2 DEF CarriesBatches
        <5>2. seqOf[s][j] <= seqOf[s][i]
          BY <5>1 DEF OneWay, BatchesNumbered
        <5>. QED  BY <1>4, <3>1, <3>3, <5>1, <5>2, SMTT(30)
      <4>. QED  BY <1>2, <4>1, <4>2
    <3>. QED  BY <1>2, <1>6, <3>2, <3>3, <3>4 DEF HandledPrefix, Closed
  <2>. QED  BY <2>1, <2>2
<1>12. BatchesNumbered(s)'
  BY <1>2 DEF OneWay, BatchesNumbered
<1>. QED  BY <1>8, <1>9, <1>10, <1>11, <1>12 DEF OneWay

-----------------------------------------------------------------------------
(* The theorems *)

LEMMA NextKeepsInvariant ==
  ASSUME NoWrap, IInv, [Next]_vars
  PROVE  IInv'
<1>1. TypeOK /\ \A s \in Peer : OneWay(s)
  BY DEF IInv
<1>2. ASSUME NEW p \in Peer, AddMessage(p)
      PROVE  IInv'
  <2>1. OneWay(p)'
    BY <1>1, <1>2, AddOneWay
  <2>2. OneWay(Other(p))'
    <3>1. Other(p) \in Peer /\ Other(p) # p /\ Other(Other(p)) = p
      BY OtherPeer
    <3>. QED  BY <1>1, <1>2, <3>1, NothingOfOneWay DEF AddMessage, TypeOK
  <2>. QED  BY <1>1, <1>2, <2>1, <2>2, AddTyped, OtherPeer DEF IInv
<1>3. ASSUME NEW p \in Peer, NEW oldest \in {0} \cup pending[p], WriteToPacket(p, oldest)
      PROVE  IInv'
  <2>1. OneWay(p)'
    BY <1>1, <1>3, WriteOneWay
  <2>2. OneWay(Other(p))'
    BY <1>1, <1>3, AcknowledgeOneWay, OtherPeer
  <2>. QED  BY <1>1, <1>3, <2>1, <2>2, WriteTyped, OtherPeer DEF IInv
<1>4. ASSUME NEW p \in Peer, NEW n \in DOMAIN flight[p], ReadFromPacket(p, n)
      PROVE  IInv'
  <2>1. OneWay(p)'
    BY <1>1, <1>4, AcknowledgedOneWay
  <2>2. OneWay(Other(p))'
    BY <1>1, <1>4, HandleOneWay, OtherPeer
  <2>. QED  BY <1>1, <1>4, <2>1, <2>2, ReadTyped, OtherPeer DEF IInv
<1>5. CASE UNCHANGED vars
  <2>1. TypeOK'
    BY <1>1, <1>5 DEF TypeOK, vars
  <2>2. \A s \in Peer : OneWay(s)'
    BY <1>1, <1>5, NothingOfOneWay DEF vars
  <2>. QED  BY <2>1, <2>2 DEF IInv
<1>. QED  BY <1>2, <1>3, <1>4, <1>5 DEF Next

\* While the numbers of the batches do not wrap, batches and acknowledgements
\* travel in order and nothing joins a batch that has been sent.
THEOREM Invariance ==
  ASSUME NoWrap
  PROVE  Spec => []IInv
<1>1. Init => IInv
  BY InitTyped, InitOneWay DEF IInv
<1>2. IInv /\ [Next]_vars => IInv'
  BY NextKeepsInvariant
<1>. QED  BY <1>1, <1>2, PTL DEF Spec

\* The number a manager acknowledges with (remote_seq) stands for batches it
\* has handled, as long as the numbers do not wrap.
THEOREM AcknowledgementsAreTrue ==
  ASSUME NoWrap
  PROVE  Spec => []AcknowledgedIsHandled
<1>1. IInv => AcknowledgedIsHandled
  BY DEF IInv, OneWay, HandledPrefix, AcknowledgedIsHandled
<1>. QED  BY <1>1, Invariance, PTL

\* Handlers run in the order of the messages, however often a batch is sent
\* again: a message is never handled before one that may still come.
THEOREM MessagesInOrder ==
  ASSUME NoWrap
  PROVE  Spec => []HandledInOrder
<1>1. IInv => HandledInOrder
  BY DEF IInv, OneWay, HandledPrefix, HandledInOrder
<1>. QED  BY <1>1, Invariance, PTL

\* removeMessagesUntil removes no message that is not handled: what is gone for
\* another reason than its age was acknowledged, and acknowledgements are true.
THEOREM NoMessageForgotten ==
  ASSUME NoWrap
  PROVE  Spec => []NothingForgotten
<1>1. IInv => NothingForgotten
  <2>. SUFFICES ASSUME IInv, NEW p \in Peer, NEW i \in 1 .. added[p],
                       i \notin pending[p], ~TooOld(p, i)
                PROVE  i \in received[Other(p)]
    BY DEF NothingForgotten
  <2>1. seqOf[p][i] <= remoteSeq[Other(p)]
    BY DEF IInv, OneWay, GoneIsAcknowledged
  <2>. QED  BY <2>1 DEF IInv, OneWay, HandledPrefix
<1>. QED  BY <1>1, Invariance, PTL
=============================================================================
