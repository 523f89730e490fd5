--------------------------- MODULE MessageManager ---------------------------
(***************************************************************************)
(* The MessageManagers of a client and of the server's player, which pass  *)
(* the messages of the applications along with the game packets of the two *)
(* sides (nrg_message_manager.cpp; written by ClientGameState::update and  *)
(* ServerPlayerGameState::update, read by their onRecvPacket).             *)
(*                                                                         *)
(* Game states ignore packets that come out of order, so a packet that is  *)
(* read makes the ones sent before it unreadable: "flight" holds the       *)
(* packets that may still be read, and reading one drops the older ones.   *)
(* A message is named by its position among those its side has added, so   *)
(* that msg_metadata, which is in that order, is a set.                    *)
(***************************************************************************)
EXTENDS Naturals, Sequences, FiniteSets

CONSTANTS
  SeqMod,     \* values of local_seq, 256 in the code
  MaxMsgs,    \* bound: messages each side adds
  MaxFlight   \* bound: packets in flight to a side, the oldest being lost

Peer     == {"client", "server"}
Other(p) == CHOOSE q \in Peer : q # p

ASSUME MessageAssumption ==
  SeqMod \in Nat \ {0} /\ MaxMsgs \in [Peer -> Nat] /\ MaxFlight \in Nat \ {0}

VARIABLES
  added,      \* history: how many messages a side has added
  seqOf,      \* MessageInfo::creation_seq of each message
  pending,    \* msg_metadata and msg_data: the messages kept to be sent
  localSeq,   \* local_seq
  remoteSeq,  \* remote_seq
  upToDate,   \* up_to_date
  waiting,    \* waiting_for_response
  flight,     \* the packets on their way to a side, oldest first
  received,   \* the messages of the other side whose handler has run
  expired     \* history: the messages removed for their age

vars == <<added, seqOf, pending, localSeq, remoteSeq, upToDate, waiting,
          flight, received, expired>>

BatchNum == 0 .. SeqMod - 1
Msg(p)   == 1 .. MaxMsgs[p]

\* msgs = {} stands for a packet that ends after remote_seq.
GamePacket == [ack : BatchNum, seq : BatchNum, msgs : SUBSET Nat]

Init ==
  /\ added = [p \in Peer |-> 0]
  /\ seqOf = [p \in Peer |-> [i \in Msg(p) |-> 0]]
  /\ pending = [p \in Peer |-> {}]
  /\ localSeq = [p \in Peer |-> 0]
  /\ remoteSeq = [p \in Peer |-> 0]
  /\ upToDate = [p \in Peer |-> TRUE]
  /\ waiting = [p \in Peer |-> FALSE]
  /\ flight = [p \in Peer |-> <<>>]
  /\ received = [p \in Peer |-> {}]
  /\ expired = [p \in Peer |-> {}]

-----------------------------------------------------------------------------
\* Mutant: a message joins the batch that is kept, although it may be under way.
AddMessageToBatch(p) ==
  /\ added[p] < MaxMsgs[p]
  /\ added' = [added EXCEPT ![p] = @ + 1]
  /\ localSeq' = [localSeq EXCEPT ![p] = IF pending[p] = {} THEN (@ + 1) % SeqMod ELSE @]
  /\ seqOf' = [seqOf EXCEPT ![p][added[p] + 1] = localSeq'[p]]
  /\ upToDate' = [upToDate EXCEPT ![p] = FALSE]
  /\ pending' = [pending EXCEPT ![p] = @ \cup {added[p] + 1}]
  /\ UNCHANGED <<remoteSeq, waiting, flight, received, expired>>

\* The first message after a batch was sent starts the next batch.
AddMessage(p) ==
  /\ added[p] < MaxMsgs[p]
  /\ added' = [added EXCEPT ![p] = @ + 1]
  /\ localSeq' = [localSeq EXCEPT ![p] = IF upToDate[p] THEN (@ + 1) % SeqMod ELSE @]
  /\ seqOf' = [seqOf EXCEPT ![p][added[p] + 1] = localSeq'[p]]
  /\ upToDate' = [upToDate EXCEPT ![p] = FALSE]
  /\ pending' = [pending EXCEPT ![p] = @ \cup {added[p] + 1}]
  /\ UNCHANGED <<remoteSeq, waiting, flight, received, expired>>

\* A packet is put in flight; the oldest one is lost when there are too many.
Fly(p, packet) ==
  flight' = [flight EXCEPT ![p] =
               Append(IF Len(@) < MaxFlight THEN @ ELSE Tail(@), packet)]

\* What a side sends: its msgs, if not waiting, under the number seq.
Packet(p, seq, msgs) ==
  [ack |-> remoteSeq[p],
   seq |-> IF waiting[p] \/ msgs = {} THEN 0 ELSE seq,
   msgs |-> IF waiting[p] THEN {} ELSE msgs]

\* Mutant: only the latest batch goes with the packet.
WriteLatestBatch(p, oldest) ==
  LET kept  == {i \in pending[p] : i > oldest}
      batch == {i \in kept : seqOf[p][i] = localSeq[p]}
  IN
  /\ pending' = [pending EXCEPT ![p] = kept]
  /\ expired' = [expired EXCEPT ![p] = @ \cup (pending[p] \ kept)]
  /\ Fly(Other(p), Packet(p, localSeq[p], batch))
  /\ upToDate' = [upToDate EXCEPT ![p] = @ \/ (~waiting[p] /\ kept # {})]
  /\ waiting' = [waiting EXCEPT ![p] = @ \/ kept # {}]
  /\ UNCHANGED <<added, seqOf, localSeq, remoteSeq, received>>

\* Mutant: every packet with messages is numbered, beyond the last number.
WriteRenumbered(p, oldest) ==
  LET kept == {i \in pending[p] : i > oldest} IN
  /\ pending' = [pending EXCEPT ![p] = kept]
  /\ expired' = [expired EXCEPT ![p] = @ \cup (pending[p] \ kept)]
  /\ Fly(Other(p), Packet(p, localSeq[p], kept))
  /\ localSeq' = [localSeq EXCEPT ![p] = IF kept # {} THEN @ + 1 ELSE @]
  /\ upToDate' = [upToDate EXCEPT ![p] = @ \/ (~waiting[p] /\ kept # {})]
  /\ waiting' = [waiting EXCEPT ![p] = @ \/ kept # {}]
  /\ UNCHANGED <<added, seqOf, remoteSeq, received>>

\* writeToPacket: the messages up to "oldest" are more than a minute old; the
\* others go with the packet unless a batch is waiting for a response.
WriteToPacket(p, oldest) ==
  LET kept == {i \in pending[p] : i > oldest} IN
  /\ pending' = [pending EXCEPT ![p] = kept]
  /\ expired' = [expired EXCEPT ![p] = @ \cup (pending[p] \ kept)]
  /\ Fly(Other(p), Packet(p, localSeq[p], kept))
  /\ upToDate' = [upToDate EXCEPT ![p] = @ \/ (~waiting[p] /\ kept # {})]
  /\ waiting' = [waiting EXCEPT ![p] = @ \/ kept # {}]
  /\ UNCHANGED <<added, seqOf, localSeq, remoteSeq, received>>

\* removeMessagesUntil in readFromPacket: everything before the first message
\* of the batch after the acknowledged one goes, or everything when there is no
\* such message.  ack + 1 is an int: it is never 0.
Unacknowledged(p, ack) ==
  {i \in pending[p] : \E j \in pending[p] : j <= i /\ ack + 1 = seqOf[p][j]}

\* Mutant: batches are counted instead of remembering the number they carry.
ReadCountingBatches(p, n) ==
  LET packet == flight[p][n] IN
  /\ flight' = [flight EXCEPT ![p] = SubSeq(@, n + 1, Len(@))]
  /\ pending' = [pending EXCEPT ![p] = Unacknowledged(p, packet.ack)]
  /\ waiting' = [waiting EXCEPT ![p] = FALSE]
  /\ remoteSeq' = [remoteSeq EXCEPT ![p] =
                      IF packet.msgs = {} THEN @ ELSE (@ + 1) % SeqMod]
  /\ received' = [received EXCEPT ![p] = @ \cup packet.msgs]
  /\ UNCHANGED <<added, seqOf, localSeq, upToDate, expired>>

\* Mutant: only an acknowledgement ends the wait.
ReadStillWaiting(p, n) ==
  LET packet == flight[p][n] IN
  /\ flight' = [flight EXCEPT ![p] = SubSeq(@, n + 1, Len(@))]
  /\ pending' = [pending EXCEPT ![p] = Unacknowledged(p, packet.ack)]
  /\ waiting' = [waiting EXCEPT ![p] = @ /\ Unacknowledged(p, packet.ack) = pending[p]]
  /\ remoteSeq' = [remoteSeq EXCEPT ![p] = IF packet.msgs = {} THEN @ ELSE packet.seq]
  /\ received' = [received EXCEPT ![p] = @ \cup packet.msgs]
  /\ UNCHANGED <<added, seqOf, localSeq, upToDate, expired>>

\* readFromPacket of the n-th packet in flight.
ReadFromPacket(p, n) ==
  LET packet == flight[p][n] IN
  /\ flight' = [flight EXCEPT ![p] = SubSeq(@, n + 1, Len(@))]
  /\ pending' = [pending EXCEPT ![p] = Unacknowledged(p, packet.ack)]
  /\ waiting' = [waiting EXCEPT ![p] = FALSE]
  /\ remoteSeq' = [remoteSeq EXCEPT ![p] = IF packet.msgs = {} THEN @ ELSE packet.seq]
  /\ received' = [received EXCEPT ![p] = @ \cup packet.msgs]
  /\ UNCHANGED <<added, seqOf, localSeq, upToDate, expired>>

Next ==
  \/ \E p \in Peer : AddMessage(p)
  \/ \E p \in Peer : \E oldest \in {0} \cup pending[p] : WriteToPacket(p, oldest)
  \/ \E p \in Peer : \E n \in DOMAIN flight[p] : ReadFromPacket(p, n)

Spec == Init /\ [][Next]_vars

\* Both sides keep sending game packets, and the network does not for ever lose
\* every packet with messages, nor every packet of one side.
Fairness ==
  \A p \in Peer :
    /\ WF_vars(\E oldest \in {0} \cup pending[p] : WriteToPacket(p, oldest))
    /\ SF_vars(\E n \in DOMAIN flight[p] : ReadFromPacket(p, n))
    /\ SF_vars(\E n \in DOMAIN flight[p] : flight[p][n].msgs # {} /\ ReadFromPacket(p, n))

FairSpec == Spec /\ Fairness

-----------------------------------------------------------------------------
(* Properties *)

\* The two managers keep to their types, and to the messages added so far.
TypeOK ==
  /\ added \in [Peer -> Nat]
  /\ pending \in [Peer -> SUBSET Nat] /\ received \in [Peer -> SUBSET Nat]
  /\ expired \in [Peer -> SUBSET Nat]
  /\ localSeq \in [Peer -> BatchNum] /\ remoteSeq \in [Peer -> BatchNum]
  /\ upToDate \in [Peer -> BOOLEAN] /\ waiting \in [Peer -> BOOLEAN]
  /\ flight \in [Peer -> Seq(GamePacket)]
  /\ DOMAIN seqOf = Peer
  /\ \A p \in Peer :
       /\ added[p] <= MaxMsgs[p] /\ seqOf[p] \in [Msg(p) -> BatchNum]
       /\ pending[p] \cup expired[p] \cup received[Other(p)] \subseteq 1 .. added[p]
       /\ Len(flight[p]) <= MaxFlight
       /\ \A n \in DOMAIN flight[p] : flight[p][n].msgs \subseteq 1 .. added[Other(p)]

\* A message that has expired, or that may have been forgotten with an older
\* one that has.
TooOld(p, i) == \E e \in expired[p] : e <= i

\* A message a side no longer keeps has been handled by the other side, or is
\* too old: no acknowledgement is taken for that of a later batch.
NothingForgotten ==
  \A p \in Peer : \A i \in 1 .. added[p] :
    i \in pending[p] \cup received[Other(p)] \/ TooOld(p, i)

\* Messages are handled in the order in which they were added: whatever is
\* lost or sent again, none is handled before an older one that may still come.
HandledInOrder ==
  \A p \in Peer : \A i \in received[Other(p)] : \A j \in 1 .. i :
    j \in received[Other(p)] \/ TooOld(p, j)

\* The number a side acknowledges with is that of a batch all of whose messages,
\* and all older ones, it has handled.
AcknowledgedIsHandled ==
  \A p \in Peer : \A i \in 1 .. added[p] :
    seqOf[p][i] <= remoteSeq[Other(p)] => i \in received[Other(p)] \/ TooOld(p, i)

\* nrg_message_manager.h:23 "reliable transmission": every message is handled
\* by the other side in the end, or messages got too old.
EveryMessageHandled ==
  \A p \in Peer : \A i \in Msg(p) :
    added[p] >= i ~> (i \in received[Other(p)] \/ expired[p] # {})
=============================================================================
