------------------------ MODULE ConnectionRefinement ------------------------
(***************************************************************************)
(* A Connection whose packets fit in one datagram and whose sequence       *)
(* numbers do not wrap implements PacketChannel.                           *)
(***************************************************************************)
EXTENDS Connection

\* The two conditions of the refinement.  The second is not the code's: packets
\* of several fragments are not reconstructed.
NoWrap         == \A f \in FirstSeqs : f + MaxSent <= SeqMod
SingleDatagram == MaxFrags = 1

\* What PacketChannel knows of what was handed up, and of the packets sent.
Handed == [i \in DOMAIN delivered |->
             [id |-> delivered[i].id, late |-> "OUT_OF_ORDER" \in delivered[i].flags]]

Ends == {d.id : d \in {e \in net : "FINISHED" \in e.flags}}

Channel == INSTANCE PacketChannel WITH ends <- Ends, delivered <- Handed

\* Every behaviour of the connection, seen through Handed and Ends, is one of
\* the abstract channel: delivered at most once, only if sent, marked late
\* exactly when a newer packet came first, ends of stream never late.
ImplementsPacketChannel == Channel!Spec
=============================================================================
