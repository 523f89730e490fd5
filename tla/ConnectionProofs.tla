-------------------------- MODULE ConnectionProofs --------------------------
(***************************************************************************)
(* Proofs about Connection, for every SeqMod, H, MaxSent, MaxFrags and     *)
(* FirstSeqs that satisfy the assumptions of Connection; and what it       *)
(* guarantees while its sequence number does not wrap: the out-of-order    *)
(* flag is right, nothing but old news follows the end of the stream, and  *)
(* (packets of one datagram) it is a PacketChannel.                        *)
(***************************************************************************)
EXTENDS ConnectionRefinement, SequenceTheorems, TLAPS

-----------------------------------------------------------------------------
(* Sequence-number arithmetic *)

\* Less than a whole turn of numbers: each is in range and the next follows.
LEMMA SeqAtStep ==
  ASSUME NEW f \in SeqNumber, NEW k \in 0 .. MaxSent - 1
  PROVE  /\ SeqAt(f, k) \in SeqNumber
         /\ SeqAt(f, k + 1) \in SeqNumber
         /\ SeqInc(SeqAt(f, k)) = SeqAt(f, k + 1)
BY SeqModAssumption, HAssumption, MaxSentAssumption DEF SeqNumber, SeqAt, SeqInc

\* The int16_t distance of two packets is their true distance whenever either
\* of the two is within the window.
LEMMA DistExact ==
  ASSUME NEW f \in SeqNumber, NEW a \in 0 .. MaxSent - 1, NEW b \in 0 .. MaxSent - 1
  PROVE  LET D == SeqDist(SeqAt(f, a), SeqAt(f, b)) IN
         /\ D \in Int
         /\ (D < H /\ -D < H) => D = a - b
         /\ (a - b < H /\ b - a < H) => D = a - b
         /\ SeqAt(f, a) = SeqAt(f, b) <=> a = b
BY SeqModAssumption, HAssumption, MaxSentAssumption
   DEF SeqNumber, SeqAt, SeqDist, SeqSigned, SeqSub

-----------------------------------------------------------------------------
(* Type correctness *)

LEMMA FragmentsTyped ==
  ASSUME NEW p \in Packet
  PROVE  Fragments(p) \subseteq Datagram
BY MaxFragsAssumption, HAssumption DEF Fragments, Packet, Datagram, Flag

\* Storing a fragment keeps the buffer a buffer.
LEMMA StoredTyped ==
  ASSUME NEW r \in [Slot -> Fragment], NEW d \in Datagram, Age(d) \in 0 .. H
  PROVE  Stored(r, d) \in [Slot -> Fragment]
<1>1. d.frag \in Slot /\ <<d.id, d.frag>> \in Part
  BY MaxFragsAssumption, HAssumption DEF Datagram, Slot, Part
<1>2. r[d.frag].data \cup {<<d.id, d.frag>>} \in SUBSET Part
  BY <1>1 DEF Fragment
<1>3. [age |-> Age(d), data |-> r[d.frag].data \cup {<<d.id, d.frag>>},
       continued |-> "CONTINUED" \in d.flags] \in Fragment
  BY <1>2 DEF Fragment
<1>. QED  BY <1>1, <1>3 DEF Stored

LEMMA EmptiedTyped ==
  ASSUME NEW f \in Fragment
  PROVE  Emptied(f) \in Fragment
BY HAssumption DEF Emptied, Fragment

LEMMA AgedTyped ==
  ASSUME reassembly \in [Slot -> Fragment], NEW n \in Nat
  PROVE  Aged(n) \in [Slot -> Fragment]
<1>. SUFFICES ASSUME NEW i \in Slot
              PROVE  Aged(n)[i] \in Fragment
  BY DEF Aged
<1>1. reassembly[i] \in Fragment
  OBVIOUS
<1>2. Emptied(reassembly[i]) \in Fragment
  BY <1>1, EmptiedTyped
<1>. QED  BY <1>1, <1>2, HAssumption DEF Aged, Fragment

\* What a datagram that is not ignored does to the receiver's numbers.
LEMMA ReceiveNumbers ==
  ASSUME TypeOK, NEW d \in net, ~Ignored(d)
  PROVE  /\ d \in Datagram
         /\ FirstPacket \/ (Dist(d) \in Int /\ Dist(d) < H /\ -Dist(d) < H)
         /\ Age(d) \in 0 .. H - 1
         /\ AgedFor(d) \in [Slot -> Fragment]
         /\ Recorded(d) \subseteq Slot
<1>1. d \in Datagram
  BY DEF TypeOK
<1>2. Dist(d) \in Int
  BY <1>1, SeqModAssumption
     DEF TypeOK, Datagram, Dist, SeqDist, SeqSigned, SeqSub, SeqNumber
<1>3. FirstPacket \/ (Dist(d) < H /\ -Dist(d) < H)
  BY <1>2, HAssumption DEF Ignored, OutOfRange
<1>4. Age(d) \in 0 .. H - 1
  BY <1>2, <1>3, HAssumption DEF Age, Newer
<1>5. AgedFor(d) \in [Slot -> Fragment]
  BY <1>2, AgedTyped DEF AgedFor, TypeOK
<1>6. Recorded(d) \subseteq Slot
  BY <1>2, <1>3, HAssumption DEF Recorded, TypeOK, Slot
<1>. QED  BY <1>1, <1>2, <1>3, <1>4, <1>5, <1>6

LEMMA EmitTyped ==
  ASSUME TypeOK, NEW fl \in SUBSET Flag, NEW n \in 1 .. MaxFrags, Emit(fl, n)
  PROVE  TypeOK'
<1>. DEFINE p == [id |-> sent + 1, seq |-> outSeq, flags |-> fl, frags |-> n]
<1>1. p \in Packet
  BY MaxSentAssumption DEF TypeOK, Emit, Packet, Id
<1>2. net' \subseteq Datagram
  BY <1>1, FragmentsTyped DEF Emit, TypeOK
<1>3. last' = <<>> \/ \E q \in Packet : last' = <<q>>
  BY <1>1 DEF Emit
<1>4. outSeq' \in SeqNumber
  BY SeqModAssumption DEF Emit, TypeOK, SeqInc, SeqNumber
<1>5. sent' \in 0 .. MaxSent
  BY MaxSentAssumption DEF Emit, TypeOK
<1>. QED  BY <1>2, <1>3, <1>4, <1>5 DEF Emit, TypeOK, inVars

LEMMA ResendTyped ==
  ASSUME TypeOK, ResendLastPacket
  PROVE  TypeOK'
<1>1. PICK p \in Packet : last = <<p>>
  BY DEF TypeOK, ResendLastPacket
<1>. DEFINE q == [p EXCEPT !.flags = @ \cup {"RETRANSMISSION"}]
<1>2. q \in Packet
  BY DEF Packet, Flag
<1>3. net' = net \cup Fragments(q)
  BY <1>1 DEF ResendLastPacket
<1>4. net' \subseteq Datagram
  BY <1>2, <1>3, FragmentsTyped DEF TypeOK
<1>. QED  BY <1>4 DEF ResendLastPacket, TypeOK, inVars

LEMMA DeliverTyped ==
  ASSUME TypeOK, NEW d \in Datagram, NEW newest, NEW parts \in SUBSET Part,
         Deliver(d, newest, parts)
  PROVE  delivered' \in Seq(Delivery)
<1>1. LatestFlags(d, newest) \in SUBSET Flag
  BY DEF LatestFlags, Datagram, Flag
<1>2. [id |-> d.id, flags |-> LatestFlags(d, newest), parts |-> parts] \in Delivery
  BY <1>1 DEF Delivery, Datagram
<1>. QED  BY <1>2 DEF Deliver, TypeOK

LEMMA ReassembleTyped ==
  ASSUME TypeOK, NEW d \in net, ~Ignored(d), NEW newest, Reassemble(d, newest)
  PROVE  reassembly' \in [Slot -> Fragment] /\ delivered' \in Seq(Delivery)
<1>. DEFINE aged == AgedFor(d)
            r == Stored(aged, d)
            parts == UNION {r[i].data : i \in Flushed(r)}
<1>1. d \in Datagram /\ aged \in [Slot -> Fragment] /\ r \in [Slot -> Fragment]
  BY ReceiveNumbers, StoredTyped, HAssumption
<1>. HIDE DEF aged, r
<1>2. parts \in SUBSET Part
  BY <1>1 DEF Flushed, Fragment
<1>3. [i \in Slot |-> IF i \in Flushed(r) THEN Emptied(r[i]) ELSE r[i]] \in [Slot -> Fragment]
  BY <1>1, EmptiedTyped
<1>4. \/ reassembly' = aged /\ delivered' = delivered
      \/ reassembly' = r /\ delivered' = delivered
      \/ /\ Deliver(d, newest, parts)
         /\ reassembly' = [i \in Slot |-> IF i \in Flushed(r) THEN Emptied(r[i]) ELSE r[i]]
  BY DEF Reassemble, aged, r
<1>5. delivered' \in Seq(Delivery)
  BY <1>1, <1>2, <1>4, DeliverTyped DEF TypeOK
<1>. QED  BY <1>1, <1>3, <1>4, <1>5

LEMMA ReceiveTyped ==
  ASSUME TypeOK, NEW d \in net, Receive(d)
  PROVE  TypeOK'
<1>. DEFINE newest == IF Newer(d) THEN d.seq ELSE inSeq
<1>1. ~Ignored(d)
  BY DEF Receive
<1>2. /\ d \in Datagram
      /\ AgedFor(d) \in [Slot -> Fragment]
      /\ Recorded(d) \subseteq Slot
  BY <1>1, ReceiveNumbers
<1>3. inSeq' \in SeqNumber /\ history' \subseteq Slot
  BY <1>2 DEF Receive, TypeOK, Datagram, Newer
<1>4. top' \in 0 .. MaxSent /\ accepted' \subseteq Id
  <2>1. d.id \in Id
    BY <1>2 DEF Datagram
  <2>2. d.id \in 0 .. MaxSent
    BY <2>1, MaxSentAssumption DEF Id
  <2>3. top' \in {d.id, top} /\ accepted' = accepted \cup {d.id}
    BY DEF Receive
  <2>. QED  BY <2>1, <2>2, <2>3 DEF TypeOK
<1>5. {<<d.id, d.frag>>} \in SUBSET Part
  BY <1>2 DEF Datagram, Part
<1>6. invalid' \in BOOLEAN
  BY DEF Receive, TypeOK
<1>7. reassembly' \in [Slot -> Fragment] /\ delivered' \in Seq(Delivery)
  <2>1. CASE "FINISHED" \in d.flags /\ newest # d.seq
    BY <1>2, <2>1 DEF Receive, TypeOK
  <2>2. CASE ~("FINISHED" \in d.flags /\ newest # d.seq) /\ IsFragment(d)
    <3>1. Reassemble(d, newest)
      BY <2>2 DEF Receive
    <3>. QED  BY <1>1, <3>1, ReassembleTyped
  <2>3. CASE ~("FINISHED" \in d.flags /\ newest # d.seq) /\ ~IsFragment(d)
    <3>1. reassembly' = AgedFor(d)
      BY <2>3 DEF Receive
    <3>2. Deliver(d, newest, {<<d.id, d.frag>>})
      BY <2>3 DEF Receive
    <3>. QED  BY <1>2, <1>5, <3>1, <3>2, DeliverTyped
  <2>. QED  BY <2>1, <2>2, <2>3
<1>. QED  BY <1>3, <1>4, <1>6, <1>7 DEF Receive, TypeOK, outVars

\* The state of both ends stays within its types.
THEOREM TypeCorrect == Spec => []TypeOK
<1>1. Init => TypeOK
  <2>. SUFFICES ASSUME Init PROVE TypeOK
    OBVIOUS
  <2>1. EmptyFragment \in Fragment
    BY HAssumption DEF Fragment, EmptyFragment
  <2>2. reassembly \in [Slot -> Fragment]
    BY <2>1 DEF Init
  <2>3. first \in SeqNumber /\ outSeq \in SeqNumber /\ inSeq \in SeqNumber
    BY SeqModAssumption, FirstSeqsAssumption DEF Init, SeqNumber
  <2>4. sent \in 0 .. MaxSent /\ top \in 0 .. MaxSent
    BY MaxSentAssumption DEF Init
  <2>5. delivered \in Seq(Delivery)
    BY DEF Init
  <2>6. last = <<>> /\ net = {} /\ history = {} /\ accepted = {} /\ invalid = FALSE
    BY DEF Init
  <2>. QED  BY <2>2, <2>3, <2>4, <2>5, <2>6 DEF TypeOK
<1>2. TypeOK /\ [Next]_vars => TypeOK'
  <2>. SUFFICES ASSUME TypeOK, [Next]_vars PROVE TypeOK'
    OBVIOUS
  <2>1. CASE SendPacket
    BY <2>1, EmitTyped DEF SendPacket, Flag
  <2>2. CASE SendDisconnect
    BY <2>2, EmitTyped, MaxFragsAssumption DEF SendDisconnect, Flag
  <2>3. CASE ResendLastPacket
    BY <2>3, ResendTyped
  <2>4. CASE \E d \in net : Receive(d)
    BY <2>4, ReceiveTyped
  <2>5. CASE (\E d \in net : Ignore(d)) \/ UNCHANGED vars
    BY <2>5 DEF Ignore, TypeOK, vars, outVars, inVars
  <2>. QED  BY <2>1, <2>2, <2>3, <2>4, <2>5 DEF Next
<1>. QED  BY <1>1, <1>2, PTL DEF Spec

-----------------------------------------------------------------------------
(* The inductive invariant *)

\* A datagram that is not ignored is of a packet not taken before, and the
\* receiver's notion of newer is the true one.
LEMMA ReceiveIsNew ==
  ASSUME TypeOK, IInv, NEW d \in net, ~Ignored(d)
  PROVE  /\ d.id \in Id /\ d.id \notin accepted
         /\ Newer(d) <=> d.id > top
         /\ FirstPacket <=> top = 0
         /\ ~FirstPacket => Dist(d) = d.id - top /\ d.id - top < H /\ top - d.id < H
<1>1. /\ d.id \in Id /\ d.id - 1 \in 0 .. MaxSent - 1
      /\ d.seq = SeqAt(first, d.id - 1)
      /\ first \in SeqNumber /\ top \in 0 .. MaxSent
  BY MaxSentAssumption DEF TypeOK, Datagram, Id, IInv, NumbersFollow
<1>2. FirstPacket <=> top = 0
  BY DEF IInv, HistoryExact, FirstPacket
<1>3. CASE FirstPacket
  <2>1. accepted = {}
    BY <1>1, <1>2, <1>3 DEF IInv, HistoryExact, TypeOK, Id
  <2>. QED  BY <1>1, <1>2, <1>3, <2>1 DEF Newer, Id
<1>4. CASE ~FirstPacket
  <2>1. top - 1 \in 0 .. MaxSent - 1 /\ inSeq = SeqAt(first, top - 1)
    BY <1>1, <1>2, <1>4, MaxSentAssumption DEF IInv, HistoryExact
  <2>2. Dist(d) \in Int /\ Dist(d) < H /\ -Dist(d) < H
    BY <1>4, ReceiveNumbers
  <2>3. Dist(d) = d.id - top
    <3>1. Dist(d) = (d.id - 1) - (top - 1)
      BY <1>1, <2>1, <2>2, DistExact DEF Dist
    <3>. QED  BY <3>1, <1>1 DEF Id
  <2>4. d.id \notin accepted
    <3>1. CASE d.id > top
      BY <3>1, <1>1 DEF IInv, HistoryExact, TypeOK, Id
    <3>2. CASE d.id <= top
      <4>1. Dist(d) <= 0 /\ -Dist(d) \in Slot
        BY <3>2, <1>1, <2>2, <2>3, HAssumption DEF Slot, Id
      <4>2. -Dist(d) \notin history
        BY <4>1, <1>4 DEF Ignored
      <4>3. top - (-Dist(d)) \notin accepted
        BY <4>1, <4>2 DEF IInv, HistoryExact
      <4>. QED  BY <4>3, <2>3, <1>1 DEF Id
    <3>. QED  BY <3>1, <3>2, <1>1 DEF Id
  <2>. QED  BY <1>1, <1>2, <1>4, <2>2, <2>3, <2>4 DEF Newer, Id
<1>. QED  BY <1>3, <1>4

\* packet_history stays exact.
LEMMA ReceiveHistory ==
  ASSUME TypeOK, IInv, NEW d \in net, Receive(d)
  PROVE  HistoryExact'
<1>1. ~Ignored(d) /\ d \in Datagram
  BY DEF Receive, TypeOK
<1>2. /\ d.id \in Id /\ d.id \notin accepted
      /\ Newer(d) <=> d.id > top
      /\ FirstPacket <=> top = 0
      /\ ~FirstPacket => Dist(d) = d.id - top /\ d.id - top < H /\ top - d.id < H
  BY <1>1, ReceiveIsNew
<1>3. /\ inSeq' = (IF Newer(d) THEN d.seq ELSE inSeq)
      /\ history' = Recorded(d)
      /\ top' = (IF Newer(d) THEN d.id ELSE top)
      /\ accepted' = accepted \cup {d.id}
      /\ first' = first
  BY DEF Receive, outVars
<1>4. /\ top \in Nat /\ accepted \subseteq Id /\ history \subseteq Slot
      /\ history = {k \in Slot : top - k \in accepted}
      /\ \A a \in accepted : a <= top
      /\ top > 0 => inSeq = SeqAt(first, top - 1)
  BY MaxSentAssumption DEF TypeOK, IInv, HistoryExact
<1>5. d.seq = SeqAt(first, d.id - 1)
  BY DEF IInv, NumbersFollow
<1>6. /\ top' > 0 => inSeq' = SeqAt(first', top' - 1)
      /\ \A a \in accepted' : a <= top'
      /\ top' > 0 /\ top' \in Nat
  BY <1>2, <1>3, <1>4, <1>5 DEF Id, Newer
<1>7. history' = {k \in Slot : top' - k \in accepted'}
  <2>1. CASE FirstPacket
    <3>1. accepted = {} /\ top' = d.id /\ history' = {0}
      BY <1>2, <1>3, <1>4, <2>1 DEF Newer, Recorded, Id
    <3>2. \A k \in Slot : d.id - k \in {d.id} <=> k = 0
      BY <1>2 DEF Id, Slot
    <3>3. 0 \in Slot
      BY HAssumption DEF Slot
    <3>. QED  BY <3>1, <3>2, <3>3, <1>3
  <2>2. CASE ~FirstPacket /\ Dist(d) > 0
    <3>1. /\ top' = d.id
          /\ history' = {0} \cup {k \in Slot : k - Dist(d) \in history}
      BY <1>3, <2>2 DEF Newer, Recorded
    <3>2. 0 \in Slot
      BY HAssumption DEF Slot
    <3>3. ASSUME NEW k \in Slot
          PROVE  d.id - k \in accepted' <=> k = 0 \/ k - Dist(d) \in history
      <4>1. k - Dist(d) \in Int /\ top - (k - Dist(d)) = d.id - k
        BY <1>2, <1>4, <2>2 DEF Slot, Id
      <4>2. d.id - k = d.id <=> k = 0
        BY <1>2 DEF Slot, Id
      <4>3. k - Dist(d) \in history => d.id - k \in accepted
        BY <4>1, <1>4
      <4>4. d.id - k \in accepted => k - Dist(d) \in Slot
        BY <4>1, <1>2, <1>4, <2>2, HAssumption DEF Slot, Id
      <4>. QED  BY <4>1, <4>2, <4>3, <4>4, <1>3, <1>4
    <3>. QED  BY <3>1, <3>2, <3>3
  <2>3. CASE ~FirstPacket /\ ~(Dist(d) > 0)
    <3>1. top' = top /\ history' = history \cup {-Dist(d)}
      BY <1>3, <2>3 DEF Newer, Recorded
    <3>2. -Dist(d) \in Slot /\ top - (-Dist(d)) = d.id
      BY <1>2, <1>4, <2>3, HAssumption DEF Slot, Id
    <3>3. \A k \in Slot : top - k = d.id <=> k = -Dist(d)
      BY <1>2, <1>4, <2>3 DEF Slot, Id
    <3>. QED  BY <3>1, <3>2, <3>3, <1>3, <1>4
  <2>. QED  BY <2>1, <2>2, <2>3
<1>8. history' # {}
  <2>1. 0 \in Slot
    BY HAssumption DEF Slot
  <2>3. top' - 0 = top'
    <3>1. top' \in Nat
      BY <1>6
    <3>2. \A n \in Nat : n - 0 = n
      OBVIOUS
    <3>. QED  BY ONLY <3>1, <3>2
  <2>2. top' \in accepted'
    <3>1. CASE Newer(d)
      BY <1>3, <3>1
    <3>2. CASE ~Newer(d)
      BY <1>2, <1>3, <1>4, <3>2 DEF IInv, TakenFromWire, Newer
    <3>. QED  BY <3>1, <3>2
  <2>4. top' - 0 \in accepted'
    BY <2>2, <2>3
  <2>5. 0 \in history'
    BY ONLY <1>7, <2>1, <2>4
  <2>. QED  BY <2>5
<1>. QED  BY <1>6, <1>7, <1>8 DEF HistoryExact

\* A received datagram hands up nothing, or one packet: its own.  A FINISHED
\* datagram is handed up only when it is the newest, and refused otherwise.
LEMMA ReceiveDelivers ==
  ASSUME TypeOK, NEW d \in net, Receive(d)
  PROVE  \/ delivered' = delivered
         \/ /\ \E parts \in SUBSET Part :
                 delivered' = Append(delivered, [id |-> d.id, flags |-> LatestFlags(d, inSeq'),
                                                 parts |-> parts])
            /\ "FINISHED" \in d.flags => inSeq' = d.seq
<1>. DEFINE newest == IF Newer(d) THEN d.seq ELSE inSeq
            entry(parts) == [id |-> d.id, flags |-> LatestFlags(d, newest), parts |-> parts]
<1>1. ~Ignored(d) /\ d \in Datagram /\ inSeq' = newest
  BY DEF Receive, TypeOK
<1>2. CASE "FINISHED" \in d.flags /\ newest # d.seq
  BY <1>2 DEF Receive
<1>3. CASE ~("FINISHED" \in d.flags /\ newest # d.seq) /\ IsFragment(d)
  <2>. DEFINE r == Stored(AgedFor(d), d)
              parts == UNION {r[i].data : i \in Flushed(r)}
  <2>1. Reassemble(d, newest)
    BY <1>3 DEF Receive
  <2>2. r \in [Slot -> Fragment]
    BY <1>1, ReceiveNumbers, StoredTyped, HAssumption
  <2>. HIDE DEF r
  <2>3. parts \in SUBSET Part
    BY <2>2 DEF Flushed, Fragment
  <2>4. delivered' = delivered \/ Deliver(d, newest, parts)
    BY <2>1 DEF Reassemble, r
  <2>5. delivered' = delivered \/ delivered' = Append(delivered, entry(parts))
    BY <2>4 DEF Deliver
  <2>. QED  BY <1>1, <1>3, <2>3, <2>5
<1>4. CASE ~("FINISHED" \in d.flags /\ newest # d.seq) /\ ~IsFragment(d)
  <2>1. Deliver(d, newest, {<<d.id, d.frag>>})
    BY <1>4 DEF Receive
  <2>2. delivered' = Append(delivered, entry({<<d.id, d.frag>>}))
    BY <2>1 DEF Deliver
  <2>3. {<<d.id, d.frag>>} \in SUBSET Part
    BY <1>1 DEF Datagram, Part
  <2>. QED  BY <1>1, <1>4, <2>2, <2>3
<1>. QED  BY <1>2, <1>3, <1>4

LEMMA FragmentsOf ==
  ASSUME NEW p \in Packet, NEW d \in Fragments(p)
  PROVE  /\ d.id = p.id /\ d.seq = p.seq
         /\ "FINISHED" \in d.flags <=> "FINISHED" \in p.flags
BY DEF Fragments

LEMMA EmitIInv ==
  ASSUME TypeOK, IInv, NEW fl \in SUBSET Flag, NEW n \in 1 .. MaxFrags,
         Emit(fl, n), Finished => "FINISHED" \in fl
  PROVE  IInv'
<1>. DEFINE p == [id |-> sent + 1, seq |-> outSeq, flags |-> fl, frags |-> n]
<1>1. /\ p \in Packet /\ sent \in 0 .. MaxSent - 1 /\ first \in SeqNumber
      /\ sent' = sent + 1 /\ last' = <<p>> /\ first' = first
      /\ outSeq' = SeqInc(outSeq) /\ outSeq = SeqAt(first, sent)
      /\ net' = net \cup Fragments(p)
  BY MaxSentAssumption DEF TypeOK, Emit, Packet, Id, IInv, NumbersFollow
<1>2. /\ UNCHANGED <<inSeq, history, reassembly, invalid, top, accepted, delivered>>
  BY DEF Emit, inVars
<1>3. \A d \in Fragments(p) : d.id = sent + 1 /\ d.seq = SeqAt(first, sent)
                            /\ ("FINISHED" \in d.flags <=> "FINISHED" \in fl)
  BY <1>1, FragmentsOf
<1>4. \A d \in net : d.id <= sent /\ d.seq = SeqAt(first, d.id - 1) /\ d.id \in Id
  BY DEF TypeOK, IInv, NumbersFollow, Datagram
<1>5. NumbersFollow'
  <2>1. outSeq' = SeqAt(first', sent')
    BY <1>1, SeqAtStep
  <2>2. last' # <<>> /\ sent' # 0 /\ last'[1] = p
    BY <1>1
  <2>3. (sent + 1) - 1 = sent
    BY <1>1
  <2>4. \A d \in net' : d.id <= sent' /\ d.seq = SeqAt(first', d.id - 1)
    BY <1>1, <1>3, <1>4, <2>3 DEF Id
  <2>5. last'[1].id = sent' /\ last'[1].seq = SeqAt(first', sent' - 1)
    BY <1>1, <2>2, <2>3
  <2>. QED  BY <2>1, <2>2, <2>4, <2>5 DEF NumbersFollow
<1>6. FinishesAreLast'
  <2>1. \A d \in net : "FINISHED" \in d.flags => "FINISHED" \in fl
    BY DEF IInv, FinishesAreLast
  <2>2. Finished' <=> "FINISHED" \in fl
    BY <1>1 DEF Finished
  <2>3. ASSUME NEW a \in net', NEW b \in net', a.id <= b.id, "FINISHED" \in a.flags
        PROVE  "FINISHED" \in b.flags
    BY <1>1, <1>3, <1>4, <2>1, <2>3 DEF IInv, FinishesAreLast, Id
  <2>. QED  BY <1>1, <1>3, <2>1, <2>2, <2>3 DEF FinishesAreLast
<1>7. TakenFromWire'
  <2>1. \A k \in accepted : k <= sent
    BY <1>4 DEF IInv, TakenFromWire
  <2>2. \A k \in accepted' : \E d \in net' : d.id = k
    BY <1>1, <1>2 DEF IInv, TakenFromWire
  <2>3. ASSUME NEW i \in DOMAIN delivered', NEW d \in net', d.id = delivered'[i].id
        PROVE  "FINISHED" \in delivered'[i].flags <=> "FINISHED" \in d.flags
    <3>1. i \in DOMAIN delivered /\ delivered' = delivered /\ delivered[i].id \in accepted
      BY <1>2 DEF IInv, TakenFromWire
    <3>2. d \in net
      BY <1>1, <1>3, <2>1, <2>3, <3>1
    <3>. QED  BY <2>3, <3>1, <3>2 DEF IInv, TakenFromWire
  <2>4. top' > 0 => top' \in accepted'
    BY <1>2 DEF IInv, TakenFromWire
  <2>5. \A i \in DOMAIN delivered' : delivered'[i].id \in accepted'
    BY <1>2 DEF IInv, TakenFromWire
  <2>. QED  BY <2>2, <2>3, <2>4, <2>5 DEF TakenFromWire
<1>8. HistoryExact' /\ AtMostOnce' /\ InvalidOnlyAfterTwoFinishes'
  BY <1>1, <1>2 DEF IInv, HistoryExact, AtMostOnce, InvalidOnlyAfterTwoFinishes
<1>. QED  BY <1>5, <1>6, <1>7, <1>8 DEF IInv

LEMMA ResendIInv ==
  ASSUME TypeOK, IInv, ResendLastPacket
  PROVE  IInv'
<1>1. PICK p \in Packet : last = <<p>>
  BY DEF TypeOK, ResendLastPacket
<1>. DEFINE q == [p EXCEPT !.flags = @ \cup {"RETRANSMISSION"}]
<1>2. q \in Packet /\ q.id = p.id /\ q.seq = p.seq
  <2>1. q.id = p.id /\ q.seq = p.seq /\ q.frags = p.frags
    BY DEF Packet
  <2>. QED  BY <2>1 DEF Packet, Flag
<1>3. "FINISHED" \in q.flags <=> "FINISHED" \in p.flags
  BY DEF Packet
<1>4. /\ net' = net \cup Fragments(q)
      /\ UNCHANGED <<first, sent, outSeq, last, inSeq, history, reassembly, invalid,
                     top, accepted, delivered>>
  BY <1>1 DEF ResendLastPacket, inVars
<1>5. "FINISHED" \notin p.flags /\ p.id = sent /\ p.seq = SeqAt(first, sent - 1) /\ ~Finished
  BY <1>1 DEF ResendLastPacket, Finished, IInv, NumbersFollow
<1>6. \A d \in Fragments(q) : d.id = sent /\ d.seq = SeqAt(first, sent - 1)
                            /\ "FINISHED" \notin d.flags
  <2>. HIDE DEF q
  <2>1. \A d \in Fragments(q) :
          d.id = q.id /\ d.seq = q.seq /\ ("FINISHED" \in d.flags <=> "FINISHED" \in q.flags)
    BY <1>2, FragmentsOf
  <2>. QED  BY <1>2, <1>3, <1>5, <2>1
<1>7. \A d \in net' : "FINISHED" \notin d.flags
  BY <1>4, <1>5, <1>6 DEF IInv, FinishesAreLast
<1>8. NumbersFollow'
  <2>1. sent \in Nat
    BY MaxSentAssumption DEF TypeOK
  <2>2. \A d \in net' : d.id <= sent /\ d.seq = SeqAt(first, d.id - 1)
    <3>1. \A d \in net : d.id <= sent /\ d.seq = SeqAt(first, d.id - 1)
      BY DEF IInv, NumbersFollow
    <3>2. sent <= sent
      BY <2>1
    <3>. QED  BY ONLY <1>4, <1>6, <3>1, <3>2
  <2>3. /\ outSeq = SeqAt(first, sent)
        /\ last = <<>> <=> sent = 0
        /\ last # <<>> => last[1].id = sent /\ last[1].seq = SeqAt(first, sent - 1)
    BY DEF IInv, NumbersFollow
  <2>. QED  BY <1>4, <2>2, <2>3 DEF NumbersFollow
<1>9. FinishesAreLast'
  BY <1>7 DEF FinishesAreLast
<1>10. TakenFromWire'
  <2>1. \A i \in DOMAIN delivered : \E d \in net : d.id = delivered[i].id
    BY DEF IInv, TakenFromWire
  <2>2. \A i \in DOMAIN delivered : "FINISHED" \notin delivered[i].flags
    BY <1>4, <1>7, <2>1 DEF IInv, TakenFromWire
  <2>. QED  BY <1>4, <1>7, <2>2 DEF IInv, TakenFromWire
<1>11. HistoryExact' /\ AtMostOnce' /\ InvalidOnlyAfterTwoFinishes'
  BY <1>4 DEF IInv, HistoryExact, AtMostOnce, InvalidOnlyAfterTwoFinishes
<1>. QED  BY <1>8, <1>9, <1>10, <1>11 DEF IInv

LEMMA ReceiveIInv ==
  ASSUME TypeOK, IInv, NEW d \in net, Receive(d)
  PROVE  IInv'
<1>1. /\ d.id \in Id /\ d.id \notin accepted
      /\ Newer(d) <=> d.id > top
      /\ FirstPacket <=> top = 0
      /\ d.seq = SeqAt(first, d.id - 1) /\ d.id - 1 \in 0 .. MaxSent - 1
      /\ first \in SeqNumber /\ top \in Nat
  <2>1. ~Ignored(d)
    BY DEF Receive
  <2>. QED  BY <2>1, ReceiveIsNew, MaxSentAssumption DEF IInv, NumbersFollow, TypeOK, Id
<1>2. /\ inSeq' = (IF Newer(d) THEN d.seq ELSE inSeq)
      /\ top' = (IF Newer(d) THEN d.id ELSE top)
      /\ accepted' = accepted \cup {d.id}
      /\ UNCHANGED <<first, sent, outSeq, last, net>>
  BY DEF Receive, outVars
<1>3. NumbersFollow' /\ FinishesAreLast'
  BY <1>2 DEF IInv, NumbersFollow, FinishesAreLast, Finished
<1>4. HistoryExact'
  BY ReceiveHistory
<1>5. PICK flags, parts :
        LET x == [id |-> d.id, flags |-> flags, parts |-> parts] IN
        /\ "FINISHED" \in flags <=> "FINISHED" \in d.flags
        /\ delivered' = delivered \/ delivered' = Append(delivered, x)
  <2>1. "FINISHED" \in LatestFlags(d, inSeq') <=> "FINISHED" \in d.flags
    BY DEF LatestFlags
  <2>. QED  BY <2>1, ReceiveDelivers
<1>. DEFINE x == [id |-> d.id, flags |-> flags, parts |-> parts]
<1>6. /\ delivered \in Seq(Delivery)
      /\ \A i \in DOMAIN delivered : delivered[i].id \in accepted
  BY DEF TypeOK, IInv, TakenFromWire
<1>7. ASSUME NEW i \in DOMAIN delivered'
      PROVE  \/ i \in DOMAIN delivered /\ delivered'[i] = delivered[i]
             \/ i = Len(delivered) + 1 /\ delivered'[i] = x
  BY <1>5, <1>6
<1>8. TakenFromWire'
  <2>1. \A k \in accepted' : \E e \in net' : e.id = k
    BY <1>2 DEF IInv, TakenFromWire
  <2>2. top' > 0 => top' \in accepted'
    BY <1>1, <1>2 DEF IInv, TakenFromWire
  <2>3. \A a, b \in net : a.id = b.id => ("FINISHED" \in a.flags <=> "FINISHED" \in b.flags)
    <3>1. \A a, b \in net : a.id = b.id => a.id <= b.id /\ b.id <= a.id
      BY DEF TypeOK, Datagram, Id
    <3>. QED  BY <3>1 DEF IInv, FinishesAreLast
  <2>4. ASSUME NEW i \in DOMAIN delivered'
        PROVE  /\ delivered'[i].id \in accepted'
               /\ \A e \in net' : e.id = delivered'[i].id =>
                    ("FINISHED" \in delivered'[i].flags <=> "FINISHED" \in e.flags)
    <3>1. CASE i \in DOMAIN delivered /\ delivered'[i] = delivered[i]
      BY <1>2, <3>1 DEF IInv, TakenFromWire
    <3>2. CASE delivered'[i] = x
      BY <1>2, <1>5, <2>3, <3>2
    <3>. QED  BY <1>7, <3>1, <3>2
  <2>. QED  BY <2>1, <2>2, <2>4 DEF TakenFromWire
<1>9. AtMostOnce'
  <2>. SUFFICES ASSUME NEW i \in DOMAIN delivered', NEW j \in DOMAIN delivered',
                       delivered'[i].id = delivered'[j].id
                PROVE  i = j
    BY DEF AtMostOnce
  <2>1. x.id \notin accepted
    BY <1>1
  <2>. QED  BY <1>6, <1>7, <2>1 DEF IInv, AtMostOnce
<1>10. InvalidOnlyAfterTwoFinishes'
  <2>1. CASE "FINISHED" \in d.flags /\ inSeq' # d.seq
    <3>1. ~Newer(d) /\ d.id <= top
      BY <1>1, <1>2, <2>1 DEF Id
    <3>2. PICK e \in net : e.id = top
      BY <1>1, <3>1 DEF IInv, TakenFromWire, Id, Newer
    <3>3. d.id # top
      BY <1>1, <1>2, <2>1, <3>1 DEF IInv, HistoryExact, Newer
    <3>4. d.id < e.id /\ d.id <= e.id
      BY <1>1, <3>1, <3>2, <3>3 DEF Id
    <3>5. "FINISHED" \in e.flags
      BY <2>1, <3>4 DEF IInv, FinishesAreLast
    <3>. QED  BY <1>2, <2>1, <3>4, <3>5 DEF InvalidOnlyAfterTwoFinishes
  <2>2. CASE ~("FINISHED" \in d.flags /\ inSeq' # d.seq)
    <3>1. invalid' = invalid
      BY <1>2, <2>2 DEF Receive
    <3>. QED  BY <1>2, <3>1 DEF IInv, InvalidOnlyAfterTwoFinishes
  <2>. QED  BY <2>1, <2>2
<1>. QED  BY <1>3, <1>4, <1>8, <1>9, <1>10 DEF IInv

\* The invariant of the proofs below: numbers follow the count of packets, the
\* history bitset is exact, what is handed up was taken once from the wire.
THEOREM Invariance == Spec => []IInv
<1>1. Init => IInv
  <2>. SUFFICES ASSUME Init PROVE IInv
    OBVIOUS
  <2>1. first \in SeqNumber /\ SeqAt(first, 0) = first
    BY SeqModAssumption, FirstSeqsAssumption DEF Init, SeqAt, SeqNumber
  <2>2. NumbersFollow
    BY <2>1 DEF Init, NumbersFollow
  <2>3. delivered = <<>> /\ net = {} /\ accepted = {} /\ top = 0 /\ history = {} /\ ~invalid
    BY DEF Init
  <2>. QED  BY <2>2, <2>3 DEF IInv, FinishesAreLast, TakenFromWire, HistoryExact,
               AtMostOnce, InvalidOnlyAfterTwoFinishes
<1>2. TypeOK /\ IInv /\ [Next]_vars => IInv'
  <2>. SUFFICES ASSUME TypeOK, IInv, [Next]_vars PROVE IInv'
    OBVIOUS
  <2>1. CASE SendPacket
    BY <2>1, EmitIInv DEF SendPacket, Flag
  <2>2. CASE SendDisconnect
    BY <2>2, EmitIInv, MaxFragsAssumption DEF SendDisconnect, Flag
  <2>3. CASE ResendLastPacket
    BY <2>3, ResendIInv
  <2>4. CASE \E d \in net : Receive(d)
    BY <2>4, ReceiveIInv
  <2>5. CASE (\E d \in net : Ignore(d)) \/ UNCHANGED vars
    BY <2>5 DEF Ignore, vars, outVars, inVars, IInv, NumbersFollow, FinishesAreLast, Finished,
       TakenFromWire, HistoryExact, AtMostOnce, InvalidOnlyAfterTwoFinishes
  <2>. QED  BY <2>1, <2>2, <2>3, <2>4, <2>5 DEF Next
<1>. QED  BY <1>1, <1>2, TypeCorrect, PTL DEF Spec

\* However the wire duplicates, reorders or retransmits, no packet is handed
\* up twice, for any window, any initial sequence number and any wrap.
THEOREM NoDuplicates == Spec => []AtMostOnce
<1>1. IInv => AtMostOnce
  BY DEF IInv
<1>. QED  BY <1>1, Invariance, PTL

\* packet_history is exact after every shift, wrap and late packet.
THEOREM HistoryIsExact == Spec => []HistoryExact
<1>1. IInv => HistoryExact
  BY DEF IInv
<1>. QED  BY <1>1, Invariance, PTL

\* A conforming peer is reported invalid only if it disconnected twice.
THEOREM ConformingPeerIsValid == Spec => []InvalidOnlyAfterTwoFinishes
<1>1. IInv => InvalidOnlyAfterTwoFinishes
  BY DEF IInv
<1>. QED  BY <1>1, Invariance, PTL
-----------------------------------------------------------------------------
(* The ages of the fragments *)

\* FragmentAgesExact for one slot, when the newest packet is number t.
SlotExact(f, t) ==
  /\ f.age = -1 => f.data = {}
  /\ f.age >= 0 =>
       /\ \E p \in f.data : p[1] = t - f.age
       /\ \A p \in f.data : p[1] <= t - f.age

\* An emptied slot is exact, whatever the newest packet is.
LEMMA EmptiedExact ==
  ASSUME NEW f \in Fragment, NEW t \in Nat
  PROVE  SlotExact(Emptied(f), t)
BY DEF Emptied, SlotExact

\* Before the first packet every slot is empty: a fragment stems from a packet
\* at least as old as the newest.
LEMMA EmptyBeforeFirst ==
  ASSUME NEW f \in Fragment, SlotExact(f, 0)
  PROVE  f.age = -1 /\ f.data = {}
<1>1. \A p \in f.data : p[1] \in Nat \ {0}
  BY DEF Fragment, Part, Id
<1>2. f.age \in -1 .. H
  BY DEF Fragment
<1>3. ~(f.age >= 0)
  <2>. SUFFICES ASSUME f.age >= 0 PROVE FALSE
    OBVIOUS
  <2>1. PICK p \in f.data : p[1] = 0 - f.age
    BY DEF SlotExact
  <2>. QED  BY <1>1, <1>2, <2>1, HAssumption
<1>. QED  BY <1>2, <1>3, HAssumption DEF SlotExact

\* When the newest packet moves on by n, so do the ages.
LEMMA ShiftedExact ==
  ASSUME NEW i \in Slot, reassembly \in [Slot -> Fragment], NEW t \in Nat, NEW n \in Nat,
         SlotExact(reassembly[i], t)
  PROVE  SlotExact(Aged(n)[i], t + n)
<1>. DEFINE f == reassembly[i]
<1>1. f \in Fragment /\ f.age \in -1 .. H
  BY DEF Fragment
<1>2. CASE f.age < 0
  <2>1. Aged(n)[i] = f /\ f.age = -1
    BY <1>1, <1>2, HAssumption DEF Aged
  <2>. QED  BY <2>1 DEF SlotExact
<1>3. CASE ~(f.age < 0) /\ f.age + n > H
  <2>1. Aged(n)[i] = Emptied(f)
    BY <1>3 DEF Aged
  <2>2. t + n \in Nat
    OBVIOUS
  <2>. QED  BY <1>1, <2>1, <2>2, EmptiedExact
<1>4. CASE ~(f.age < 0) /\ ~(f.age + n > H)
  <2>1. Aged(n)[i] = [f EXCEPT !.age = f.age + n]
    BY <1>4 DEF Aged
  <2>2. Aged(n)[i].age = f.age + n /\ Aged(n)[i].data = f.data
    BY <1>1, <2>1 DEF Fragment
  <2>3. (t + n) - (f.age + n) = t - f.age /\ f.age >= 0 /\ f.age + n # -1
    BY <1>1, <1>4, HAssumption
  <2>. HIDE DEF f
  <2>4. SlotExact(f, t)
    BY DEF f
  <2>. QED  BY <2>2, <2>3, <2>4 DEF SlotExact
<1>. QED  BY <1>2, <1>3, <1>4

\* The ages after a datagram was recorded are those from the newest packet.
LEMMA AgedForExact ==
  ASSUME TypeOK, IInv, FragmentAgesExact, NEW d \in net, Receive(d), NEW i \in Slot
  PROVE  SlotExact(AgedFor(d)[i], top')
<1>1. ~Ignored(d) /\ top' = (IF Newer(d) THEN d.id ELSE top)
  BY DEF Receive
<1>2. /\ d.id \in Id
      /\ FirstPacket <=> top = 0
      /\ ~FirstPacket => Dist(d) = d.id - top
  BY <1>1, ReceiveIsNew
<1>3. top \in Nat /\ reassembly \in [Slot -> Fragment] /\ SlotExact(reassembly[i], top)
  BY MaxSentAssumption DEF TypeOK, FragmentAgesExact, SlotExact
<1>4. CASE FirstPacket
  <2>1. reassembly[i].age = -1 /\ reassembly[i].data = {}
    BY <1>2, <1>3, <1>4, EmptyBeforeFirst
  <2>2. AgedFor(d) = reassembly
    BY <1>4 DEF AgedFor
  <2>. QED  BY <2>1, <2>2 DEF SlotExact
<1>5. CASE ~FirstPacket /\ Dist(d) > 0
  <2>1. AgedFor(d) = Aged(Dist(d)) /\ top' = d.id
    BY <1>1, <1>5 DEF AgedFor, Newer
  <2>2. Dist(d) \in Nat /\ top + Dist(d) = d.id
    BY <1>2, <1>3, <1>5 DEF Id
  <2>. QED  BY <1>3, <2>1, <2>2, ShiftedExact
<1>6. CASE ~FirstPacket /\ ~(Dist(d) > 0)
  BY <1>1, <1>3, <1>6 DEF AgedFor, Newer
<1>. QED  BY <1>4, <1>5, <1>6

\* A fragment is stored over nothing, or over one at least as old.
LEMMA StoredExact ==
  ASSUME NEW r \in [Slot -> Fragment], NEW t \in Nat, NEW d \in Datagram, NEW i \in Slot,
         Age(d) \in 0 .. H, t - Age(d) = d.id,
         \A k \in Slot : SlotExact(r[k], t),
         ~(r[d.frag].age >= 0 /\ Age(d) > r[d.frag].age)
  PROVE  SlotExact(Stored(r, d)[i], t)
<1>. DEFINE x == <<d.id, d.frag>>
            f == r[d.frag]
<1>1. d.frag \in Slot
  BY MaxFragsAssumption, HAssumption DEF Datagram, Slot
<1>2. CASE i # d.frag
  BY <1>2 DEF Stored
<1>3. CASE i = d.frag
  <2>1. /\ Stored(r, d)[i].age = Age(d)
        /\ Stored(r, d)[i].data = f.data \cup {x}
    BY <1>1, <1>3 DEF Stored
  <2>2. f \in Fragment /\ f.age \in -1 .. H /\ \A p \in f.data : p[1] \in Int
    BY <1>1 DEF Fragment, Part, Id
  <2>3. \A p \in f.data : p[1] <= t - Age(d)
    <3>1. SlotExact(f, t)
      BY <1>1
    <3>2. CASE f.age = -1
      BY <3>1, <3>2 DEF SlotExact
    <3>3. CASE f.age >= 0
      <4>1. \A p \in f.data : p[1] <= t - f.age
        BY <3>1, <3>3 DEF SlotExact
      <4>2. t - f.age <= t - Age(d) /\ t - f.age \in Int /\ t - Age(d) \in Int
        BY <2>2, <3>3, HAssumption
      <4>. QED  BY <2>2, <4>1, <4>2
    <3>. QED  BY <2>2, <3>2, <3>3, HAssumption
  <2>4. x[1] = t - Age(d) /\ x[1] <= t - Age(d)
    BY DEF Datagram, Id
  <2>5. Age(d) >= 0 /\ Age(d) # -1
    BY HAssumption
  <2>. QED  BY <2>1, <2>3, <2>4, <2>5 DEF SlotExact
<1>. QED  BY <1>2, <1>3

LEMMA ReceiveAges ==
  ASSUME TypeOK, IInv, FragmentAgesExact, NEW d \in net, Receive(d)
  PROVE  FragmentAgesExact'
<1>. DEFINE newest == IF Newer(d) THEN d.seq ELSE inSeq
            aged == AgedFor(d)
            r == Stored(aged, d)
<1>1. ~Ignored(d) /\ top' = (IF Newer(d) THEN d.id ELSE top)
  BY DEF Receive
<1>2. /\ d \in Datagram /\ Age(d) \in 0 .. H - 1 /\ Age(d) \in 0 .. H
      /\ aged \in [Slot -> Fragment] /\ r \in [Slot -> Fragment]
  BY <1>1, ReceiveNumbers, StoredTyped, HAssumption
<1>3. top' \in Nat /\ top' - Age(d) = d.id
  <2>1. /\ d.id \in Id /\ top \in Nat
        /\ FirstPacket \/ Dist(d) = d.id - top
    BY <1>1, ReceiveIsNew, MaxSentAssumption DEF TypeOK
  <2>. QED  BY <1>1, <2>1 DEF Age, Newer, Id
<1>4. \A i \in Slot : SlotExact(aged[i], top')
  BY AgedForExact
<1>. HIDE DEF aged
<1>5. ASSUME ~(aged[d.frag].age >= 0 /\ Age(d) > aged[d.frag].age)
      PROVE  \A i \in Slot : SlotExact(r[i], top')
  BY <1>2, <1>3, <1>4, <1>5, StoredExact
<1>. HIDE DEF r
<1>6. \/ reassembly' = aged
      \/ /\ ~(aged[d.frag].age >= 0 /\ Age(d) > aged[d.frag].age)
         /\ \/ reassembly' = r
            \/ reassembly' = [i \in Slot |-> IF i \in Flushed(r) THEN Emptied(r[i]) ELSE r[i]]
  <2>1. reassembly' = AgedFor(d) \/ Reassemble(d, newest)
    BY DEF Receive
  <2>. QED  BY <2>1 DEF Reassemble, aged, r
<1>7. \A i \in Slot : SlotExact(reassembly'[i], top')
  <2>1. CASE reassembly' = aged
    BY <1>4, <2>1
  <2>2. CASE reassembly' = r /\ ~(aged[d.frag].age >= 0 /\ Age(d) > aged[d.frag].age)
    BY <1>5, <2>2
  <2>3. CASE /\ ~(aged[d.frag].age >= 0 /\ Age(d) > aged[d.frag].age)
             /\ reassembly' = [i \in Slot |-> IF i \in Flushed(r) THEN Emptied(r[i]) ELSE r[i]]
    <3>1. ASSUME NEW i \in Slot PROVE SlotExact(reassembly'[i], top')
      <4>1. SlotExact(r[i], top') /\ SlotExact(Emptied(r[i]), top')
        BY <1>2, <1>3, <1>5, <2>3, EmptiedExact
      <4>2. reassembly'[i] = IF i \in Flushed(r) THEN Emptied(r[i]) ELSE r[i]
        BY <2>3
      <4>. QED  BY <4>1, <4>2
    <3>. QED  BY <3>1
  <2>. QED  BY <1>6, <2>1, <2>2, <2>3
<1>. QED  BY <1>7 DEF FragmentAgesExact, SlotExact

\* The age of a fragment is its distance from the newest packet, across the
\* shifts, the wrap, late fragments and the search for a full packet.
THEOREM FragmentAgesAreExact == Spec => []FragmentAgesExact
<1>1. Init => FragmentAgesExact
  <2>. SUFFICES ASSUME Init PROVE FragmentAgesExact
    OBVIOUS
  <2>1. \A i \in Slot : reassembly[i] = EmptyFragment
    BY DEF Init
  <2>2. EmptyFragment.age = -1 /\ EmptyFragment.data = {}
    BY DEF EmptyFragment
  <2>. QED  BY <2>1, <2>2 DEF FragmentAgesExact
<1>2. TypeOK /\ IInv /\ FragmentAgesExact /\ [Next]_vars => FragmentAgesExact'
  <2>. SUFFICES ASSUME TypeOK, IInv, FragmentAgesExact, [Next]_vars
                PROVE  FragmentAgesExact'
    OBVIOUS
  <2>1. CASE SendPacket \/ SendDisconnect \/ ResendLastPacket
    <3>1. UNCHANGED inVars
      BY <2>1 DEF SendPacket, SendDisconnect, Emit, ResendLastPacket, inVars
    <3>. QED  BY <3>1 DEF FragmentAgesExact, inVars
  <2>2. CASE \E d \in net : Receive(d)
    BY <2>2, ReceiveAges
  <2>3. CASE (\E d \in net : Ignore(d)) \/ UNCHANGED vars
    BY <2>3 DEF Ignore, FragmentAgesExact, vars, inVars
  <2>. QED  BY <2>1, <2>2, <2>3 DEF Next
<1>. QED  BY <1>1, <1>2, TypeCorrect, Invariance, PTL DEF Spec

-----------------------------------------------------------------------------
(* While the sequence number does not wrap *)

\* The flag addPacket computes from the raw numbers is the true order.
LEMMA LatestFlagExact ==
  ASSUME NoWrap, first \in FirstSeqs, TypeOK, IInv, NEW d \in net, Receive(d)
  PROVE  /\ top' \in Nat /\ top <= top' /\ d.id <= top' /\ d.id \in Nat
         /\ inSeq' > d.seq <=> top' > d.id
         /\ inSeq' = d.seq <=> top' = d.id
<1>1. HistoryExact' /\ top' \in 0 .. MaxSent /\ history' # {}
  <2>1. IInv' /\ TypeOK'
    BY ReceiveIInv, ReceiveTyped
  <2>2. d.id \in accepted' /\ d.id \in Id
    BY DEF Receive, TypeOK, Datagram
  <2>3. HistoryExact' /\ top' \in 0 .. MaxSent
    BY <2>1 DEF IInv, TypeOK
  <2>4. d.id <= top'
    BY <2>2, <2>3 DEF HistoryExact
  <2>5. top' # 0
    BY <2>2, <2>3, <2>4 DEF Id
  <2>. QED  BY <2>3, <2>5 DEF HistoryExact
<1>2. d.id \in 1 .. MaxSent /\ d.id \in accepted' /\ first' = first
  BY DEF Receive, TypeOK, Datagram, Id, outVars
<1>3. d.id <= top'
  BY <1>1, <1>2 DEF HistoryExact
<1>4. inSeq' = SeqAt(first, top' - 1) /\ d.seq = SeqAt(first, d.id - 1)
  BY <1>1, <1>2, <1>3 DEF HistoryExact, IInv, NumbersFollow
<1>5. top <= top'
  <2>1. ~Ignored(d)
    BY DEF Receive
  <2>2. Newer(d) <=> d.id > top
    BY <2>1, ReceiveIsNew
  <2>. QED  BY <1>2, <2>2 DEF Receive, TypeOK
<1>6. \A k \in 1 .. MaxSent : SeqAt(first, k - 1) = first + (k - 1)
  BY SeqModAssumption, MaxSentAssumption, FirstSeqsAssumption, HAssumption
     DEF SeqAt, NoWrap, SeqNumber
<1>7. inSeq' = first + (top' - 1) /\ d.seq = first + (d.id - 1)
  BY <1>1, <1>2, <1>3, <1>4, <1>6
<1>8. first \in Nat
  BY FirstSeqsAssumption, SeqModAssumption DEF SeqNumber
<1>. QED  BY <1>1, <1>2, <1>3, <1>5, <1>7, <1>8

\* Whatever was handed up is not newer than the newest.
LEMMA DeliveredBelowTop ==
  ASSUME TypeOK, IInv, NEW i \in DOMAIN delivered
  PROVE  delivered[i].id <= top /\ delivered[i].id \in Nat /\ delivered[i].id > 0
<1>1. delivered[i].id \in accepted
  BY DEF IInv, TakenFromWire
<1>2. delivered[i].id <= top
  BY <1>1 DEF IInv, HistoryExact
<1>3. delivered[i].id \in Id
  BY <1>1 DEF TypeOK
<1>. QED  BY <1>2, <1>3 DEF Id

LEMMA ReceiveKeepsOrder ==
  ASSUME NoWrap, first \in FirstSeqs, TypeOK, IInv, OldIsFlagged, NEW d \in net, Receive(d)
  PROVE  OldIsFlagged'
<1>1. PICK parts :
        LET x == [id |-> d.id, flags |-> LatestFlags(d, inSeq'), parts |-> parts] IN
        delivered' = delivered \/ delivered' = Append(delivered, x)
  BY ReceiveDelivers
<1>. DEFINE x == [id |-> d.id, flags |-> LatestFlags(d, inSeq'), parts |-> parts]
<1>2. delivered \in Seq(Delivery)
  BY DEF TypeOK
<1>3. CASE delivered' = delivered
  BY <1>3 DEF OldIsFlagged
<1>4. CASE delivered' = Append(delivered, x)
  <2>. SUFFICES ASSUME NEW i \in DOMAIN delivered', NEW j \in DOMAIN delivered',
                       i < j, delivered'[j].id < delivered'[i].id
                PROVE  "OUT_OF_ORDER" \in delivered'[j].flags
    BY DEF OldIsFlagged
  <2>1. i \in DOMAIN delivered /\ delivered'[i] = delivered[i]
    BY <1>2, <1>4
  <2>2. CASE j \in DOMAIN delivered
    <3>1. delivered'[j] = delivered[j]
      BY <1>2, <1>4, <2>2
    <3>. QED  BY <2>1, <2>2, <3>1 DEF OldIsFlagged
  <2>3. CASE j \notin DOMAIN delivered
    <3>1. delivered'[j] = x
      BY <1>2, <1>4, <2>3
    <3>2. d.id < delivered[i].id /\ delivered[i].id <= top /\ delivered[i].id \in Nat
      BY <2>1, <3>1, DeliveredBelowTop
    <3>3. inSeq' > d.seq
      BY <3>2, LatestFlagExact DEF TypeOK
    <3>. QED  BY <3>1, <3>3 DEF LatestFlags
  <2>. QED  BY <2>2, <2>3
<1>. QED  BY <1>1, <1>3, <1>4

\* While numbers do not wrap, a packet handed up after a newer one is flagged.
THEOREM OldPacketsFlagged ==
  ASSUME NoWrap
  PROVE  Spec => []OldIsFlagged
<1>. DEFINE Inv == first \in FirstSeqs /\ OldIsFlagged
<1>1. Init => Inv
  BY DEF Init, OldIsFlagged
<1>2. TypeOK /\ IInv /\ Inv /\ [Next]_vars => Inv'
  <2>. SUFFICES ASSUME TypeOK, IInv, Inv, [Next]_vars PROVE Inv'
    OBVIOUS
  <2>1. CASE \E d \in net : Receive(d)
    BY <2>1, ReceiveKeepsOrder DEF Receive, outVars
  <2>2. CASE SendPacket \/ SendDisconnect \/ ResendLastPacket
    BY <2>2 DEF SendPacket, SendDisconnect, ResendLastPacket, Emit, inVars, OldIsFlagged
  <2>3. CASE (\E d \in net : Ignore(d)) \/ UNCHANGED vars
    BY <2>3 DEF Ignore, vars, outVars, inVars, OldIsFlagged
  <2>. QED  BY <2>1, <2>2, <2>3 DEF Next
<1>. QED  BY <1>1, <1>2, TypeCorrect, Invariance, PTL DEF Spec

\* Once the end of the stream was handed up, only old news and further
\* disconnects follow.
THEOREM FinishIsLast ==
  ASSUME NoWrap
  PROVE  Spec => []NothingAfterFinish
<1>1. TypeOK /\ IInv /\ OldIsFlagged => NothingAfterFinish
  <2>. SUFFICES ASSUME TypeOK, IInv, OldIsFlagged,
                       NEW i \in DOMAIN delivered, NEW j \in DOMAIN delivered, i < j,
                       "FINISHED" \in delivered[i].flags,
                       "OUT_OF_ORDER" \notin delivered[j].flags
                PROVE  "FINISHED" \in delivered[j].flags
    BY DEF NothingAfterFinish
  <2>1. delivered[i].id <= delivered[j].id
    BY DeliveredBelowTop DEF OldIsFlagged
  <2>2. PICK d \in net : d.id = delivered[i].id
    BY DEF IInv, TakenFromWire
  <2>3. PICK e \in net : e.id = delivered[j].id
    BY DEF IInv, TakenFromWire
  <2>4. "FINISHED" \in d.flags
    BY <2>2 DEF IInv, TakenFromWire
  <2>5. "FINISHED" \in e.flags
    BY <2>1, <2>2, <2>3, <2>4 DEF IInv, FinishesAreLast
  <2>. QED  BY <2>3, <2>5 DEF IInv, TakenFromWire
<1>. QED  BY <1>1, OldPacketsFlagged, TypeCorrect, Invariance, PTL

-----------------------------------------------------------------------------
(* Refinement of PacketChannel *)

\* The two sides of the refinement: no flag OUT_OF_ORDER on the wire, the late
\* mark is exact, and the newest packet taken has been handed up.
HandedInv ==
  /\ first \in FirstSeqs
  /\ \A d \in net : "OUT_OF_ORDER" \notin d.flags /\ ~IsFragment(d)
  /\ last # <<>> => last[1].flags \cap {"OUT_OF_ORDER", "CONTINUED"} = {} /\ last[1].frags = 1
  /\ top > 0 => WasDelivered(top)

LEMMA SingleFragment ==
  ASSUME NEW p \in Packet, p.frags = 1
  PROVE  Fragments(p) = {[id |-> p.id, seq |-> p.seq, frag |-> 0, flags |-> p.flags]}
BY DEF Fragments, Packet

LEMMA EmitHanded ==
  ASSUME TypeOK, HandedInv, NEW fl \in SUBSET {"FINISHED"}, Emit(fl, 1), 1 \in 1 .. MaxFrags
  PROVE  /\ HandedInv'
         /\ net' = net \cup {[id |-> sent + 1, seq |-> outSeq, frag |-> 0, flags |-> fl]}
<1>. DEFINE p == [id |-> sent + 1, seq |-> outSeq, flags |-> fl, frags |-> 1]
            e == [id |-> sent + 1, seq |-> outSeq, frag |-> 0, flags |-> fl]
<1>1. p \in Packet
  BY MaxSentAssumption DEF TypeOK, Emit, Packet, Id, Flag
<1>2. net' = net \cup {e}
  BY <1>1, SingleFragment DEF Emit
<1>3. ~IsFragment(e) /\ "OUT_OF_ORDER" \notin e.flags
  BY DEF IsFragment
<1>4. last' = <<p>> /\ UNCHANGED <<first, top, delivered>>
  BY DEF Emit, inVars
<1>6. last'[1].frags = 1 /\ last'[1].flags \cap {"OUT_OF_ORDER", "CONTINUED"} = {}
  BY <1>4
<1>7. WasDelivered(top)' <=> WasDelivered(top)
  BY <1>4 DEF WasDelivered
<1>. QED  BY <1>2, <1>3, <1>4, <1>6, <1>7 DEF HandedInv

LEMMA ResendHanded ==
  ASSUME TypeOK, HandedInv, ResendLastPacket
  PROVE  /\ HandedInv'
         /\ Ends' = Ends
<1>1. PICK p \in Packet : last = <<p>>
  BY DEF TypeOK, ResendLastPacket
<1>. DEFINE q == [p EXCEPT !.flags = @ \cup {"RETRANSMISSION"}]
            e == [id |-> p.id, seq |-> p.seq, frag |-> 0, flags |-> p.flags \cup {"RETRANSMISSION"}]
<1>2. /\ q.id = p.id /\ q.seq = p.seq /\ q.frags = p.frags
      /\ q.flags = p.flags \cup {"RETRANSMISSION"}
  BY DEF Packet
<1>3. q \in Packet
  BY <1>2 DEF Packet, Flag
<1>4. /\ p.frags = 1 /\ p.flags \cap {"OUT_OF_ORDER", "CONTINUED"} = {}
      /\ "FINISHED" \notin p.flags
  BY <1>1 DEF HandedInv, ResendLastPacket, Finished
<1>5. net' = net \cup {e}
  <2>1. net' = net \cup Fragments(q)
    BY <1>1 DEF ResendLastPacket
  <2>. QED  BY <1>2, <1>3, <1>4, <2>1, SingleFragment
<1>6. "FINISHED" \notin e.flags /\ "OUT_OF_ORDER" \notin e.flags /\ ~IsFragment(e)
  BY <1>4 DEF IsFragment
<1>7. UNCHANGED <<first, last, top, delivered>>
  BY DEF ResendLastPacket, inVars
<1>8. HandedInv'
  BY <1>5, <1>6, <1>7 DEF HandedInv, WasDelivered
<1>9. Ends' = Ends
  BY <1>5, <1>6 DEF Ends
<1>. QED  BY <1>8, <1>9

\* The view of a delivery and of a sequence of deliveries, and that a new
\* delivery adds its view at the end.
View(x)   == [id |-> x.id, late |-> "OUT_OF_ORDER" \in x.flags]
Views(dl) == [i \in DOMAIN dl |-> View(dl[i])]

LEMMA AppendFunction ==
  ASSUME NEW S, NEW s \in Seq(S), NEW y \in S
  PROVE  /\ Append(s, y) \in [1 .. Len(s) + 1 -> S]
         /\ \A i \in 1 .. Len(s) : Append(s, y)[i] = s[i]
         /\ Append(s, y)[Len(s) + 1] = y
<1>1. Append(s, y) \in Seq(S) /\ Len(Append(s, y)) = Len(s) + 1
  BY AppendProperties
<1>2. Append(s, y) \in [1 .. Len(Append(s, y)) -> S]
  BY <1>1, LenProperties
<1>. QED  BY <1>1, <1>2, AppendProperties

LEMMA ViewsAppend ==
  ASSUME NEW dl \in Seq(Delivery), NEW x \in Delivery
  PROVE  Views(Append(dl, x)) = Append(Views(dl), View(x))
<1>. DEFINE n == Len(dl)
            S == {View(e) : e \in Delivery}
<1>1. n \in Nat /\ dl \in [1 .. n -> Delivery]
  OBVIOUS
<1>. HIDE DEF n
<1>2. Views(dl) \in [1 .. n -> S]
  BY <1>1 DEF Views
<1>3. Views(dl) \in Seq(S) /\ View(x) \in S
  BY <1>1, <1>2, SeqDef
<1>4. Len(Views(dl)) = n
  BY <1>1, <1>2, <1>3
<1>. HIDE DEF S
<1>5. Append(dl, x) \in [1 .. n + 1 -> Delivery]
      /\ \A i \in 1 .. n : Append(dl, x)[i] = dl[i]
      /\ Append(dl, x)[n + 1] = x
  BY <1>1, AppendFunction DEF n
<1>6. /\ Append(Views(dl), View(x)) \in [1 .. n + 1 -> S]
      /\ \A i \in 1 .. n : Append(Views(dl), View(x))[i] = Views(dl)[i]
      /\ Append(Views(dl), View(x))[n + 1] = View(x)
  BY <1>1, <1>3, <1>4, AppendFunction
<1>7. ASSUME NEW i \in 1 .. n + 1
      PROVE  Views(Append(dl, x))[i] = Append(Views(dl), View(x))[i]
  <2>1. Views(Append(dl, x))[i] = View(Append(dl, x)[i])
    BY <1>5 DEF Views
  <2>2. CASE i = n + 1
    BY <1>5, <1>6, <2>1, <2>2
  <2>3. CASE i \in 1 .. n
    <3>1. Views(dl)[i] = View(dl[i])
      BY <1>1, <2>3 DEF Views
    <3>. QED  BY <1>5, <1>6, <2>1, <2>3, <3>1
  <2>4. i = n + 1 \/ i \in 1 .. n
    BY <1>1
  <2>. QED  BY <2>2, <2>3, <2>4
<1>8. DOMAIN Views(Append(dl, x)) = 1 .. n + 1
      /\ Views(Append(dl, x)) = [i \in 1 .. n + 1 |-> Views(Append(dl, x))[i]]
  BY <1>5 DEF Views
<1>9. Append(Views(dl), View(x)) = [i \in 1 .. n + 1 |-> Append(Views(dl), View(x))[i]]
  BY <1>6
<1>. QED  BY <1>7, <1>8, <1>9

\* A datagram that is taken is handed up with an exact late mark, unless it is
\* an end of stream that comes late.
LEMMA ReceiveHanded ==
  ASSUME NoWrap, TypeOK, IInv, HandedInv, NEW d \in net, Receive(d)
  PROVE  HandedInv' /\ (Channel!Deliver(d.id) \/ UNCHANGED <<sent, Ends, Handed>>)
<1>. DEFINE late == "OUT_OF_ORDER" \in LatestFlags(d, inSeq')
            newest == IF Newer(d) THEN d.seq ELSE inSeq
            x == [id |-> d.id, flags |-> LatestFlags(d, inSeq'), parts |-> {<<d.id, d.frag>>}]
<1>1. /\ ~Ignored(d) /\ inSeq' = newest /\ UNCHANGED <<first, sent, last, net>>
      /\ top' = IF Newer(d) THEN d.id ELSE top
  BY DEF Receive, outVars
<1>2. d.id \in Id /\ d.id \notin accepted /\ (Newer(d) <=> d.id > top) /\ top \in Nat
  BY <1>1, ReceiveIsNew, MaxSentAssumption DEF TypeOK
<1>3. /\ top' \in Nat /\ top <= top' /\ d.id <= top' /\ d.id \in Nat
      /\ inSeq' > d.seq <=> top' > d.id
      /\ inSeq' = d.seq <=> top' = d.id
  BY LatestFlagExact DEF HandedInv
<1>4. ~IsFragment(d) /\ "OUT_OF_ORDER" \notin d.flags
  BY DEF HandedInv
<1>5. delivered \in Seq(Delivery) /\ TypeOK'
  BY ReceiveTyped DEF TypeOK
<1>6. CASE "FINISHED" \in d.flags /\ newest # d.seq
  <2>1. delivered' = delivered
    BY <1>6 DEF Receive
  <2>2. top' = top
    BY <1>1, <1>6
  <2>3. HandedInv'
    BY <1>1, <2>1, <2>2 DEF HandedInv, WasDelivered
  <2>4. UNCHANGED <<sent, Ends, Handed>>
    BY <1>1, <2>1 DEF Ends, Handed
  <2>. QED  BY <2>3, <2>4
<1>7. CASE ~("FINISHED" \in d.flags /\ newest # d.seq)
  <2>1. delivered' = Append(delivered, x)
    <3>1. Deliver(d, newest, {<<d.id, d.frag>>})
      BY <1>4, <1>7 DEF Receive
    <3>. QED  BY <1>1, <3>1 DEF Deliver
  <2>2. late <=> \E i \in DOMAIN delivered : delivered[i].id > d.id
    <3>1. late <=> top' > d.id
      BY <1>3, <1>4 DEF LatestFlags
    <3>2. ASSUME top' > d.id
          PROVE  \E i \in DOMAIN delivered : delivered[i].id > d.id
      <4>1. top' = top /\ top > 0
        BY <1>1, <1>2, <1>3, <3>2
      <4>. QED  BY <3>2, <4>1 DEF HandedInv, WasDelivered
    <3>3. ASSUME NEW i \in DOMAIN delivered, delivered[i].id > d.id
          PROVE  top' > d.id
      BY <1>2, <1>3, <3>3, DeliveredBelowTop
    <3>. QED  BY <3>1, <3>2, <3>3
  <2>3. Handed' = Append(Handed, [id |-> d.id, late |-> late])
    <3>1. Handed = Views(delivered) /\ Handed' = Views(delivered')
      BY DEF Handed, Views, View
    <3>2. x \in Delivery
      <4>1. d \in Datagram
        BY DEF TypeOK
      <4>2. LatestFlags(d, inSeq') \in SUBSET Flag /\ {<<d.id, d.frag>>} \in SUBSET Part
        BY <4>1 DEF LatestFlags, Flag, Datagram, Part
      <4>. QED  BY <1>2, <4>2 DEF Delivery
    <3>3. View(x) = [id |-> d.id, late |-> late]
      BY DEF View
    <3>. QED  BY <1>5, <2>1, <3>1, <3>2, <3>3, ViewsAppend
  <2>4. HandedInv'
    <3>1. ASSUME top' > 0 PROVE WasDelivered(top)'
      <4>1. /\ Len(delivered) + 1 \in DOMAIN delivered' /\ delivered'[Len(delivered) + 1] = x
            /\ \A i \in DOMAIN delivered : i \in DOMAIN delivered' /\ delivered'[i] = delivered[i]
        BY <1>5, <2>1
      <4>2. CASE Newer(d)
        BY <1>1, <4>1, <4>2 DEF WasDelivered
      <4>3. CASE ~Newer(d)
        BY <1>1, <3>1, <4>1, <4>3 DEF HandedInv, WasDelivered
      <4>. QED  BY <4>2, <4>3
    <3>. QED  BY <1>1, <3>1 DEF HandedInv
  <2>5. ~Channel!WasDelivered(d.id)
    BY <1>2 DEF Channel!WasDelivered, Handed, IInv, TakenFromWire
  <2>6. Channel!IsLate(d.id) <=> late
    BY <2>2 DEF Channel!IsLate, Handed
  <2>7. d.id \in Ends => ~late
    <3>1. SUFFICES ASSUME d.id \in Ends PROVE ~late
      OBVIOUS
    <3>2. PICK e \in net : e.id = d.id /\ "FINISHED" \in e.flags
      BY <3>1 DEF Ends
    <3>3. "FINISHED" \in d.flags
      <4>1. e.id <= d.id
        BY <1>3, <3>2
      <4>. QED  BY <3>2, <4>1 DEF IInv, FinishesAreLast
    <3>. QED  BY <1>1, <1>3, <1>4, <1>7, <3>3 DEF LatestFlags
  <2>8. Ends' = Ends
    BY <1>1 DEF Ends
  <2>9. Handed' = Append(Handed, [id |-> d.id, late |-> Channel!IsLate(d.id)])
    <3>1. Channel!IsLate(d.id) = late
      <4>. DEFINE m == Channel!IsLate(d.id)
      <4>1. m \in BOOLEAN /\ late \in BOOLEAN /\ (m <=> late)
        BY <2>6 DEF Channel!IsLate
      <4>. HIDE DEF m, late
      <4>2. m = late
        BY <4>1
      <4>. QED  BY <4>2 DEF m
    <3>. QED  BY <2>3, <3>1
  <2>10. Channel!Deliver(d.id)
    BY <1>1, <2>5, <2>6, <2>7, <2>8, <2>9 DEF Channel!Deliver
  <2>. QED  BY <2>4, <2>10
<1>. QED  BY <1>6, <1>7

\* A connection whose numbers do not wrap and whose packets fit in a datagram
\* implements the abstract channel.
THEOREM ConnectionImplementsChannel ==
  ASSUME NoWrap, SingleDatagram
  PROVE  Spec => ImplementsPacketChannel
<1>1. Init => HandedInv /\ Channel!Init
  <2>. SUFFICES ASSUME Init PROVE HandedInv /\ Channel!Init
    OBVIOUS
  <2>1. Handed = <<>>
    BY DEF Init, Handed
  <2>. QED  BY <2>1 DEF Init, HandedInv, Channel!Init, Ends
<1>2. TypeOK /\ TypeOK' /\ IInv /\ HandedInv /\ [Next]_vars
        => HandedInv' /\ [Channel!Next]_(Channel!vars)
  <2>. SUFFICES ASSUME TypeOK, IInv, HandedInv, [Next]_vars
                PROVE  HandedInv' /\ [Channel!Next]_(Channel!vars)
    OBVIOUS
  <2>1. CASE SendPacket
    <3>1. Emit({}, 1) /\ 1 \in 1 .. MaxFrags /\ ~Finished
      BY <2>1 DEF SendPacket, SingleDatagram
    <3>2. HandedInv'
          /\ net' = net \cup {[id |-> sent + 1, seq |-> outSeq, frag |-> 0, flags |-> {}]}
      BY <3>1, EmitHanded
    <3>3. Ends' = Ends /\ Ends = {}
      BY <3>1, <3>2 DEF Ends, IInv, FinishesAreLast
    <3>4. Channel!Send
      BY <3>1, <3>3 DEF Channel!Send, Emit, inVars, Handed
    <3>. QED  BY <3>2, <3>4 DEF Channel!Next
  <2>2. CASE SendDisconnect
    <3>1. Emit({"FINISHED"}, 1) /\ 1 \in 1 .. MaxFrags
      BY <2>2 DEF SendDisconnect, SingleDatagram
    <3>2. HandedInv'
          /\ net' = net \cup {[id |-> sent + 1, seq |-> outSeq, frag |-> 0, flags |-> {"FINISHED"}]}
      BY <3>1, EmitHanded
    <3>3. Ends' = Ends \cup {sent + 1}
      <4>. DEFINE e == [id |-> sent + 1, seq |-> outSeq, frag |-> 0, flags |-> {"FINISHED"}]
      <4>1. e.id = sent + 1 /\ "FINISHED" \in e.flags
        OBVIOUS
      <4>2. net' = net \cup {e}
        BY <3>2
      <4>. HIDE DEF e
      <4>. QED  BY <4>1, <4>2 DEF Ends
    <3>4. Channel!SendEnd
      BY <3>1, <3>3 DEF Channel!SendEnd, Emit, inVars, Handed
    <3>. QED  BY <3>2, <3>4 DEF Channel!Next
  <2>3. CASE ResendLastPacket
    <3>1. UNCHANGED <<sent, Handed>>
      BY <2>3 DEF ResendLastPacket, inVars, Handed
    <3>. QED  BY <2>3, <3>1, ResendHanded DEF Channel!vars
  <2>4. CASE \E d \in net : Receive(d)
    <3>1. PICK d \in net : Receive(d)
      BY <2>4
    <3>2. d.id \in 1 .. sent
      BY DEF TypeOK, Datagram, Id, IInv, NumbersFollow
    <3>3. HandedInv' /\ (Channel!Deliver(d.id) \/ UNCHANGED <<sent, Ends, Handed>>)
      BY <3>1, ReceiveHanded
    <3>. QED  BY <3>2, <3>3 DEF Channel!Next, Channel!vars
  <2>5. CASE (\E d \in net : Ignore(d)) \/ UNCHANGED vars
    <3>1. UNCHANGED <<first, sent, last, net, top, delivered>>
      BY <2>5 DEF Ignore, vars, outVars, inVars
    <3>. QED  BY <3>1 DEF HandedInv, WasDelivered, Channel!vars, Ends, Handed
  <2>. QED  BY <2>1, <2>2, <2>3, <2>4, <2>5 DEF Next
<1>. QED  BY <1>1, <1>2, TypeCorrect, Invariance, PTL
          DEF Spec, ImplementsPacketChannel, Channel!Spec
=============================================================================
