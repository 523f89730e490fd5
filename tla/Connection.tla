----------------------------- MODULE Connection -----------------------------
(***************************************************************************)
(* One direction of a libNRG connection: the ConnectionOut of one peer,    *)
(* the datagrams it has put on the wire, and the ConnectionIn of the other *)
(* peer (nrg_connection.cpp, nrg_connection.h, nrg_packet_header.h).       *)
(*                                                                         *)
(* UDP loses, duplicates and reorders: every datagram ever sent stays in   *)
(* "net", and any of them may reach addPacket at any moment, any number of *)
(* times, or never.  A send that fails is a datagram that is never         *)
(* received.                                                               *)
(*                                                                         *)
(* A packet is named by its position among the packets of its sender (1,   *)
(* 2, ...); its payload is the set of its parts <<id, index>>.  "sent",    *)
(* "first", "top", "accepted" are history variables: the code does not     *)
(* have them, properties compare the code's state with them.               *)
(***************************************************************************)
EXTENDS Integers, Sequences, FiniteSets, SeqNum

CONSTANTS
  H,          \* NRG_CONN_PACKET_HISTORY, 32 in the code
  MaxSent,    \* bound: packets a peer sends
  MaxFrags,   \* bound: fragments of one packet
  FirstSeqs   \* the initial sequence numbers considered (os::random())

ASSUME HAssumption == H \in Nat \ {0} /\ 2 * H <= SeqMod
ASSUME MaxFragsAssumption == MaxFrags \in 1 .. H
ASSUME FirstSeqsAssumption == FirstSeqs \subseteq SeqNumber
\* A sender sends less than a whole turn of the sequence space, so that a
\* datagram of the previous turn is never taken for one of this turn.
ASSUME MaxSentAssumption == MaxSent \in Nat /\ MaxSent + H <= SeqMod

VARIABLES
  first,      \* history: the sender's initial cc.seq_num
  sent,       \* history: how many packets the sender has sent
  outSeq,     \* ConnectionOut: cc.seq_num
  last,       \* ConnectionOut: last and last_header, as <<>> or a packet
  net,        \* the datagrams put on the wire
  inSeq,      \* ConnectionIn: cc.seq_num
  history,    \* ConnectionIn: packet_history, the set of the bits that are 1
  reassembly, \* ConnectionIn: reassembly_buf
  invalid,    \* addPacket has returned false
  top,        \* history: the id of the packet that has sequence number inSeq
  accepted,   \* history: the ids that have set a bit of packet_history
  delivered   \* what getLatestPacket has returned, in order

outVars == <<first, sent, outSeq, last, net>>
inVars  == <<inSeq, history, reassembly, invalid, top, accepted, delivered>>
vars    == <<outVars, inVars>>

-----------------------------------------------------------------------------
Flag   == {"CONTINUED", "FINISHED", "RETRANSMISSION", "OUT_OF_ORDER"}
Slot   == 0 .. H - 1
Id     == 1 .. MaxSent
Part   == Id \X (0 .. MaxFrags - 1)
Packet == [id : Id, seq : SeqNumber, flags : SUBSET Flag, frags : 1 .. MaxFrags]

Datagram   == [id : Id, seq : SeqNumber, flags : SUBSET Flag, frag : 0 .. MaxFrags - 1]
Fragment   == [age : -1 .. H, data : SUBSET Part, continued : BOOLEAN]
Delivery   == [id : Id, flags : SUBSET Flag, parts : SUBSET Part]
EmptyFragment == [age |-> -1, data |-> {}, continued |-> FALSE]

Init ==
  /\ first \in FirstSeqs
  /\ outSeq = first
  /\ sent = 0
  /\ last = <<>>
  /\ net = {}
  /\ inSeq = 0
  /\ history = {}
  /\ reassembly = [i \in Slot |-> EmptyFragment]
  /\ invalid = FALSE
  /\ top = 0
  /\ accepted = {}
  /\ delivered = <<>>

-----------------------------------------------------------------------------
(* ConnectionOut *)

\* The datagrams of sendPacketWithHeader: every fragment carries the sequence
\* number of the packet, and the flag CONTINUED once set is never cleared, so
\* that the last fragment has it too.
Fragments(p) ==
  { [id |-> p.id, seq |-> p.seq, frag |-> i,
     flags |-> IF p.frags > 1 THEN p.flags \cup {"CONTINUED"} ELSE p.flags]
    : i \in 0 .. p.frags - 1 }

\* Mutant: a disconnect does not take a sequence number of its own.
EmitUnnumberedFinish(fl, n) ==
  LET p == [id |-> sent + 1, seq |-> outSeq, flags |-> fl, frags |-> n] IN
  /\ sent < MaxSent
  /\ sent' = sent + 1
  /\ outSeq' = IF "FINISHED" \in fl THEN outSeq ELSE SeqInc(outSeq)
  /\ last' = <<p>>
  /\ net' = net \cup Fragments(p)
  /\ UNCHANGED <<first, inVars>>

\* sendPacket and sendDisconnect: remember the packet, take the next number.
Emit(fl, n) ==
  LET p == [id |-> sent + 1, seq |-> outSeq, flags |-> fl, frags |-> n] IN
  /\ sent < MaxSent
  /\ sent' = sent + 1
  /\ outSeq' = SeqInc(outSeq)
  /\ last' = <<p>>
  /\ net' = net \cup Fragments(p)
  /\ UNCHANGED <<first, inVars>>

Finished == last # <<>> /\ "FINISHED" \in last[1].flags

\* Mutant: a kicked player is still sent packets.
SendPacketAfterKick == \E n \in 1 .. MaxFrags : Emit({}, n)

\* Nothing but another disconnect follows a disconnect: the owner of the
\* connection stops updating it (PlayerImpl::kick, ~Client).
SendPacket == ~Finished /\ \E n \in 1 .. MaxFrags : Emit({}, n)

SendDisconnect == Emit({"FINISHED"}, 1)

ResendLastPacket ==
  /\ last # <<>> /\ ~Finished
  /\ net' = net \cup Fragments([last[1] EXCEPT !.flags = @ \cup {"RETRANSMISSION"}])
  /\ UNCHANGED <<first, sent, outSeq, last, inVars>>

-----------------------------------------------------------------------------
(* ConnectionIn::addPacket, then hasNewPacket and getLatestPacket, which   *)
(* every caller runs right after it (PlayerImpl::addPacket,                *)
(* Client::update), so that new_packet is false between two steps.         *)

FirstPacket == history = {}

Dist(d) == SeqDist(d.seq, inSeq)

\* Mutant: the window is one packet too narrow.
OutOfNarrowRange(d) == Dist(d) >= H - 1 \/ -Dist(d) >= H - 1

OutOfRange(d) == Dist(d) >= H \/ -Dist(d) >= H

\* Mutant: a repeated datagram of the newest packet is not recognised.
IgnoredOnlyOlder(d) ==
  /\ ~FirstPacket
  /\ \/ OutOfRange(d)
     \/ Dist(d) < 0 /\ "RETRANSMISSION" \in d.flags
     \/ Dist(d) < 0 /\ -Dist(d) \in history

\* The three returns before the packet is recorded.
Ignored(d) ==
  /\ ~FirstPacket
  /\ \/ OutOfRange(d)
     \/ Dist(d) < 0 /\ "RETRANSMISSION" \in d.flags
     \/ Dist(d) <= 0 /\ -Dist(d) \in history

\* Mutant: the first packet does not set the sequence number.
NewerThanZero(d) == Dist(d) > 0

Newer(d) == FirstPacket \/ Dist(d) > 0

Age(d) == IF Newer(d) THEN 0 ELSE -Dist(d)

\* Mutant: the history is not shifted.
RecordedUnshifted(d) ==
  IF FirstPacket THEN {0}
  ELSE IF Dist(d) > 0
    THEN {0} \cup history
    ELSE history \cup {-Dist(d)}

\* packet_history after the packet is recorded.
Recorded(d) ==
  IF FirstPacket THEN {0}
  ELSE IF Dist(d) > 0
    THEN {0} \cup {k \in Slot : k - Dist(d) \in history}
    ELSE history \cup {-Dist(d)}

\* i.age = -1; i.data.reset()
Emptied(f) == [age |-> -1, data |-> {}, continued |-> f.continued]

\* Mutant: a fragment expires one packet too late.
AgedLate(n) ==
  [i \in Slot |->
     LET f == reassembly[i] IN
     IF f.age < 0 THEN f
     ELSE IF f.age + n > H + 1 THEN Emptied(f)
     ELSE [f EXCEPT !.age = @ + n]]

\* The reassembly buffer after its ages have grown by n.
Aged(n) ==
  [i \in Slot |->
     LET f == reassembly[i] IN
     IF f.age < 0 THEN f
     ELSE IF f.age + n > H THEN Emptied(f)
     ELSE [f EXCEPT !.age = @ + n]]

\* Mutant: fragments do not age.
AgedForNone(d) == reassembly

AgedFor(d) == IF ~FirstPacket /\ Dist(d) > 0 THEN Aged(Dist(d)) ELSE reassembly

\* The fragment stored; writeArray appends to what the slot holds.
Stored(r, d) ==
  [r EXCEPT ![d.frag] = [age       |-> Age(d),
                         data      |-> @.data \cup {<<d.id, d.frag>>},
                         continued |-> "CONTINUED" \in d.flags]]

\* The loop that looks for a full packet stops at the first slot that is not
\* continued; ages must fall by one from each slot to the next.
FullPacket(r) ==
  \A i \in Slot : (\A j \in Slot : j < i => r[j].continued) =>
    /\ r[i].age # -1
    /\ i > 0 => r[i].age = r[i - 1].age - 1

\* The slots written out and emptied when a full packet is found.
Flushed(r) == {i \in Slot : \A j \in Slot : j <= i => r[j].age = r[0].age - j}

\* Mutant: late packets are not flagged.
LatestFlagsNever(d, newest) == d.flags

\* Mutant: the newest packet is flagged as well.
LatestFlagsAlways(d, newest) ==
  d.flags \cup (IF newest >= d.seq THEN {"OUT_OF_ORDER"} ELSE {})

\* if(cc.seq_num > h.seq_num) compares the raw numbers.
LatestFlags(d, newest) ==
  d.flags \cup (IF newest > d.seq THEN {"OUT_OF_ORDER"} ELSE {})

Deliver(d, newest, parts) ==
  delivered' = Append(delivered, [id |-> d.id, flags |-> LatestFlags(d, newest), parts |-> parts])

Reassemble(d, newest) ==
  LET aged == AgedFor(d)
      r    == Stored(aged, d)
  IN
  IF aged[d.frag].age >= 0 /\ Age(d) > aged[d.frag].age
    THEN reassembly' = aged /\ UNCHANGED delivered
  ELSE IF ~FullPacket(r)
    THEN reassembly' = r /\ UNCHANGED delivered
  ELSE /\ Deliver(d, newest, UNION {r[i].data : i \in Flushed(r)})
       /\ reassembly' = [i \in Slot |-> IF i \in Flushed(r) THEN Emptied(r[i]) ELSE r[i]]

IsFragment(d) == d.frag > 0 \/ "CONTINUED" \in d.flags

\* A datagram that is not ignored is recorded, then refused, kept or delivered.
Receive(d) ==
  LET newest == IF Newer(d) THEN d.seq ELSE inSeq IN
  /\ ~Ignored(d)
  /\ inSeq' = newest
  /\ history' = Recorded(d)
  /\ top' = IF Newer(d) THEN d.id ELSE top
  /\ accepted' = accepted \cup {d.id}
  /\ IF "FINISHED" \in d.flags /\ newest # d.seq
       THEN invalid' = TRUE /\ reassembly' = AgedFor(d) /\ UNCHANGED delivered
     ELSE IF IsFragment(d)
       THEN UNCHANGED invalid /\ Reassemble(d, newest)
     ELSE /\ UNCHANGED invalid
          /\ reassembly' = AgedFor(d)
          /\ Deliver(d, newest, {<<d.id, d.frag>>})
  /\ UNCHANGED outVars

Ignore(d) == Ignored(d) /\ UNCHANGED vars

Next ==
  \/ SendPacket
  \/ SendDisconnect
  \/ ResendLastPacket
  \/ \E d \in net : Receive(d)
  \/ \E d \in net : Ignore(d)

Spec == Init /\ [][Next]_vars

\* A network that lets no datagram disappear: used to show what the code does
\* not do even then.
FairSpec == Spec /\ \A d \in Datagram : WF_vars(d \in net /\ Receive(d))

-----------------------------------------------------------------------------
(* Properties *)

WasDelivered(k) == \E i \in DOMAIN delivered : delivered[i].id = k

\* The state stays within its types.
TypeOK ==
  /\ first \in SeqNumber
  /\ sent \in 0 .. MaxSent
  /\ outSeq \in SeqNumber
  /\ last = <<>> \/ \E p \in Packet : last = <<p>>
  /\ net \subseteq Datagram
  /\ inSeq \in SeqNumber
  /\ history \subseteq Slot
  /\ reassembly \in [Slot -> Fragment]
  /\ invalid \in BOOLEAN
  /\ top \in 0 .. MaxSent
  /\ accepted \subseteq Id
  /\ delivered \in Seq(Delivery)

\* packet_history is exactly the record of what addPacket took: bit k is set
\* if and only if the packet k places before the newest one was taken.  It
\* must survive every shift, wrap, late packet and repeated datagram.
HistoryExact ==
  /\ history = {} <=> top = 0
  /\ top > 0 => inSeq = SeqAt(first, top - 1)
  /\ history = {k \in Slot : top - k \in accepted}
  /\ \A a \in accepted : a <= top

\* However datagrams are duplicated, reordered or retransmitted, no packet is
\* handed to a state twice.
AtMostOnce ==
  \A i, j \in DOMAIN delivered : delivered[i].id = delivered[j].id => i = j

\* A packet handed up after a newer one is flagged PKTFLAG_OUT_OF_ORDER
\* (nrg_state.h: "f shows if the packet was out-of-order or not").
OldIsFlagged ==
  \A i, j \in DOMAIN delivered :
    i < j /\ delivered[j].id < delivered[i].id => "OUT_OF_ORDER" \in delivered[j].flags

\* Once the end of the stream was handed up, whatever follows is old news
\* (flagged) or another disconnect: no state acts on data of a closed peer.
NothingAfterFinish ==
  \A i, j \in DOMAIN delivered :
    i < j /\ "FINISHED" \in delivered[i].flags
      => delivered[j].flags \cap {"FINISHED", "OUT_OF_ORDER"} # {}

\* addPacket returns false, for which Server::update kicks the player, on a
\* datagram of a conforming peer only if that peer disconnected twice.
InvalidOnlyAfterTwoFinishes ==
  invalid => \E a, b \in net : a.id < b.id /\ "FINISHED" \in a.flags \cap b.flags

\* The age of a fragment is the distance from the newest packet to the newest
\* packet that contributed to it, across shifts, expiry and late fragments.
FragmentAgesExact ==
  \A i \in Slot :
    /\ reassembly[i].age = -1 => reassembly[i].data = {}
    /\ reassembly[i].age >= 0 =>
         /\ \E p \in reassembly[i].data : p[1] = top - reassembly[i].age
         /\ \A p \in reassembly[i].data : p[1] <= top - reassembly[i].age

\* When no datagram is lost, every packet that fits in one is handed up, in
\* whatever order they arrive, unless newer ones have moved the whole window
\* past it or the peer disconnected twice.
NothingLostWithinWindow ==
  \A k \in Id : sent >= k ~> (WasDelivered(k) \/ top - k >= H \/ invalid)

(* The inductive invariant behind the safety properties above. *)

\* Sequence numbers follow the count of packets, on both sides of the wire.
NumbersFollow ==
  /\ outSeq = SeqAt(first, sent)
  /\ last = <<>> <=> sent = 0
  /\ last # <<>> => last[1].id = sent /\ last[1].seq = SeqAt(first, sent - 1)
  /\ \A d \in net : d.id <= sent /\ d.seq = SeqAt(first, d.id - 1)

\* From the first disconnect on, every packet is a disconnect.
FinishesAreLast ==
  /\ \A a, b \in net : a.id <= b.id /\ "FINISHED" \in a.flags => "FINISHED" \in b.flags
  /\ \A a \in net : "FINISHED" \in a.flags => Finished

\* What was taken was on the wire; what was handed up was taken, with the
\* FINISHED flag its sender gave it.
TakenFromWire ==
  /\ \A k \in accepted : \E d \in net : d.id = k
  /\ top > 0 => top \in accepted
  /\ \A i \in DOMAIN delivered :
       /\ delivered[i].id \in accepted
       /\ \A d \in net : d.id = delivered[i].id =>
            ("FINISHED" \in delivered[i].flags <=> "FINISHED" \in d.flags)

\* Inductive: implies AtMostOnce, HistoryExact and InvalidOnlyAfterTwoFinishes.
IInv ==
  /\ NumbersFollow
  /\ FinishesAreLast
  /\ TakenFromWire
  /\ HistoryExact
  /\ AtMostOnce
  /\ InvalidOnlyAfterTwoFinishes

(* What a comment of the source says and the code does not do. *)

\* nrg_connection.cpp:111 "reconstruct packets that were split into multiple
\* fragments": when the network loses nothing the packet arrives.
FragmentsReconstructed ==
  \A k \in Id : sent >= k ~> WasDelivered(k)
=============================================================================
