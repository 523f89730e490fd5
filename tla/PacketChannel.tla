---------------------------- MODULE PacketChannel ----------------------------
(***************************************************************************)
(* What a libNRG connection promises to the state that uses it, without    *)
(* sequence numbers, windows or datagrams: packets may be lost; one that   *)
(* is delivered was sent, is delivered once, and is marked late exactly    *)
(* when a newer one was delivered before it; an end of stream is never     *)
(* delivered late.  Connection implements it (see ConnectionRefinement) as long    *)
(* as packets fit in a datagram and the sequence number does not wrap.     *)
(***************************************************************************)
EXTENDS Naturals, Sequences

VARIABLES
  sent,       \* number of packets sent; packet k is the k-th
  ends,       \* the packets that end the stream
  delivered   \* what the receiver was given: [id, late]

vars == <<sent, ends, delivered>>

Init == sent = 0 /\ ends = {} /\ delivered = <<>>

WasDelivered(k) == \E i \in DOMAIN delivered : delivered[i].id = k
IsLate(k)       == \E i \in DOMAIN delivered : delivered[i].id > k

Send ==
  /\ ends = {}
  /\ sent' = sent + 1
  /\ UNCHANGED <<ends, delivered>>

SendEnd ==
  /\ sent' = sent + 1
  /\ ends' = ends \cup {sent + 1}
  /\ UNCHANGED delivered

Deliver(k) ==
  /\ ~WasDelivered(k)
  /\ k \in ends => ~IsLate(k)
  /\ delivered' = Append(delivered, [id |-> k, late |-> IsLate(k)])
  /\ UNCHANGED <<sent, ends>>

Next ==
  \/ Send
  \/ SendEnd
  \/ \E k \in 1 .. sent : Deliver(k)

Spec == Init /\ [][Next]_vars
=============================================================================
