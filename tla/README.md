# A verification development of libNRG

libNRG is a C++ library for real-time games: a server keeps entities with
fields, sends snapshots of them to its clients over UDP, and the clients send
input back. This directory holds TLA+ models of the library, TLC
configurations that check them on small instances, and TLAPS proofs of the
properties that matter most for every size. Paths below are relative to the
repository; `nrg_x.cpp` stands for `src/nrg_x.cpp`, `nrg_x.h` for
`include/nrg_x.h`.

Contents: [the system](#the-system), [the modules](#the-modules),
[what the runs show](#what-the-runs-show), [fairness](#fairness),
[what is proved](#what-is-proved), [where code and comments
disagree](#where-code-and-comments-disagree), [what is not
modelled](#what-is-not-modelled), [what is left](#what-is-left).

## The system

### Components

| Component | State | Operations | Correct when | Modelled |
|---|---|---|---|---|
| Connection (`nrg_connection.cpp`, `nrg_packet_header.h`) | out: next sequence number, last packet; in: newest number, 32-bit history, 32 reassembly slots, newest packet | `sendPacket`, `sendDisconnect`, `resendLastPacket`; `addPacket`, `getLatestPacket` | a packet is handed up at most once; late ones are flagged; the end of stream is final; the history is exact | yes |
| State machine (`nrg_state_manager.cpp`, `nrg_state_connection.cpp`) | stack of states, `last_update`, `TransitionState` | `onRecvPacket`, `update`, `setState` | both sides change state together; no state gets another's packets; a lost message is repaired or noticed | partly |
| Client session (`nrg_client.cpp`, `nrg_clientstate.cpp`) | phase of the handshake, timeouts, last server time, entities | `update` (receive loop, state update), the states' handlers | connects when admitted; notices the end | partly |
| Server session (`nrg_server.cpp`, `nrg_player.cpp`, `nrg_serverstate.cpp`) | players by address, each with its states and `connected`; response, acknowledged time | `update` (receive loop, tick), `kick` | admits only matching clients; join and leave events once; nobody served after leaving | partly |
| Messages (`nrg_message_manager.cpp`, `nrg_message.h`) | queued messages with a batch number, local and remote number, two flags | `addMessage`, `writeToPacket`, `readFromPacket` | each message handled in the end, in order, unless too old | partly |
| Server registry (`nrg_server.cpp`, `nrg_util.h`, `nrg_queue.h`, `nrg_event.h`) | used ids, player map, event queue | players come and go, `pollEvent`, `isFull` | ids unique; capacity respected; events in order and about the right player | yes |
| Snapshots (`nrg_deltasnapshot.cpp`, `nrg_snapshot.cpp`, `nrg_ringbuffer.h`) | master snapshot, ring of deltas, client snapshot | `addEntity`, `removeEntityById`, `mergeWithNext`, `readFromPacket` | base + merged deltas = master at the client | yes |
| Entities and fields (`nrg_entity.cpp`, `nrg_field.cpp`, `nrg_field.h`, `nrg_interp.h`) | fields, updated marks, previous values | `markUpdated`, `set`, register and unregister | every change reaches the next snapshot | partly |
| Encoding (`nrg_packet.cpp`, `nrg_varint.h`, `nrg_endian.h`, `nrg_bit_io.h`, `nrg_codec.h`) | a buffer and a position | read/write | reading returns what was written, to the last byte | partly |
| Sockets and addresses (`nrg_socket.cpp`, `nrg_netaddress.cpp`) | family, binding, error queue | bind, send, receive | errors are attributed to the right player | partly |
| Version, configuration, clock, randomness | | compatibility of versions | a join request gets the answer it deserves | partly |
| Input (`nrg_input.cpp`) | fields | read/write | as encoding | partly |
| Rate limit and statistics (`nrg_client.cpp`, `nrg_clientstats.cpp`) | time of the last send, rings of samples | | | no |
| Replay (`nrg_replay.cpp`), examples | stubs; demonstrations | | | no |

### Interaction

Everything runs in the application's thread: the application calls
`Client::update` or `Server::update`, which first drains the socket (one call of
a `StateManager::onRecvPacket` per packet) and then updates the current state of
each session, which sends at most a packet. There are no threads. The
concurrency that matters is that of two processes and a network that loses,
duplicates, delays and reorders datagrams, with timers on each side. A packet
goes through ConnectionOut, the network and ConnectionIn to the state on top of
the stack; a state answers CONTINUE, CHANGE (a `TransitionState` is put on top
until both sides have switched) or FAILURE (disconnect, `failed`).

### What is hard here

* The sequence number starts at random and wraps; the history, the age of
  fragments and the out-of-order test all measure distances around the wrap.
* A retransmission, a duplicate and a late packet look alike, and two layers
  (addPacket, the states) each decide what to do with them.
* A change of state takes three packets, and both sides retransmit by timers of
  2, 1, 1 (client) and 5, 10, 5 seconds (server). An answer may cross a repetition.
* A player ends in several ways: kicked by a state, by the application, by a
  refused packet, by a closed port, by its own disconnect.
* Messages are sent again with every packet, with a batch number of 8 bits, and
  disappear when they are acknowledged or old.
* Player ids are given back at once, from three places, while the application may not have
  polled the events that name them; the event queue grows while it is in use.
* What a client is sent is the merge of the deltas since the snapshot it acknowledged, kept
  in a ring that is overwritten; entity ids are used again; the same list of updated ids
  serves creation, change and removal.
* A packet is reused without being cleared, and is wound back and forth while it is read.

`PROJECT.json` lists these hazards with their lines and the properties that
watch each of them.

## The modules

| Module | Models | Used by |
|---|---|---|
| `SeqNum` | arithmetic of `uint16_t` sequence numbers, `SeqMod` values | Connection |
| `Connection` | one direction of a connection, with the datagrams on the wire | |
| `PacketChannel` | the abstract specification: a lossy channel that marks late packets | ConnectionRefinement |
| `ConnectionRefinement` | the mapping of Connection to PacketChannel, and its conditions | |
| `ConnectionProofs` | proofs about the two | |
| `Session`, `MCSession`, `SessionProofs` | client and server player from JOIN to the end | |
| `MessageManager`, `MCMessageManager`, `MessageManagerProofs` | the two message managers of a session | |
| `IDAssigner` | the identifiers of players and entities | Server, Replication |
| `Lists` | numbers in ascending order | Snapshots, Encoding |
| `ListProofs` | lemmas about the two, and about sequences | the proofs of Server, Snapshots, Replication and PacketExchange |
| `EventQueue` | the queue of events, a circular vector that doubles | Server |
| `Socket` | the results of the server's socket | Server |
| `Server`, `ServerProofs` | `Server::update` with all its players, and the application that polls | |
| `Snapshots`, `SnapshotsProofs` | Snapshot, DeltaSnapshot, RingBuffer as operators; the lemmas about what they compute | Replication |
| `Replication`, `MCReplication`, `ReplicationProofs` | entities from the application's change to the client's copy | |
| `Packet` | the buffer: growth, position, reset | Encoding |
| `Encoding` | varints, numbers, strings, bit masks, array fields | Payload |
| `Payload` | messages, inputs, join requests | PacketExchange |
| `PacketExchange`, `MCPacketExchange`, `PacketExchangeProofs` | a writer and a reader over reused packets | |

Each module is one view of the program, and they meet at what one hands the other: Session and
Server assume of packets what Connection is proved to do; Server sees of a player what
Session follows packet by packet; Replication begins where Session's two game states
have met; PacketExchange shows that the kinds and records the other modules send can be read
as they were written. One product of them all would be far beyond TLC and show no
more, as the layers share no state but the packets.

The MC modules only give constants their values. No module declares a RECURSIVE operator.

### Connection

`first`, `sent`, `accepted`, `top` are history variables: who sent what in which
order, which the code does not know. The rest is state of the code: `outSeq` and
`last` of ConnectionOut, `inSeq` (cc.seq_num), `history` (packet_history as the
set of its bits), `reassembly` (reassembly_buf) of ConnectionIn, `delivered`
(what `getLatestPacket` returned), `invalid` (addPacket returned false). `net`
keeps every datagram for ever, so a step `Receive(d)` may be a duplicate, an
overtaken or a first delivery, and a datagram never received is a lost one.

`Receive` is `addPacket` from its distance computation to `getLatestPacket`,
whole; `Ignore` are its early returns. `SendPacket`, `SendDisconnect`,
`ResendLastPacket` are those of ConnectionOut. A session's owner sends nothing
but another disconnect after a disconnect (`PlayerImpl::kick`, `~Client`), which
is SendPacket's guard. A payload is the set of its fragments; the transformations
of `nrg_packet_transform` are the identity because no code installs one.
Bound: `MaxSent` packets, less than one turn of the sequence numbers minus the
window (`MaxSentAssumption`), because a datagram that is a whole turn old
cannot be told from a new one: no protocol with these numbers could.

### Session

Each side is a record of the fields of its states: `c` for the client (phase,
timeouts, `idle` = seconds since last_update, and TransitionState's flags), `p`
for the player. A state's `onRecvPacket`, `needsUpdate`, `update` are operators of the
same names; `ClientRecv`, `PlayerRecv`, `PlayerCreate`, `NobodyHears`,
`PortUnreachable` are the branches of the receive loops, `ClientUpdate` and
`ServerTick` the updates. The connection below is abstracted to what Connection
is proved to do: a packet is handed up at most once, an overtaken one is
flagged, an overtaken retransmission is ignored.

Abstractions, with what they leave out:

* One client and one player: several players share only the registry.
* Packets are kinds; `admit` stands for the checks of version, game and room. A
  client echoes its challenge faithfully.
* The rate limit (`StateConnectionOutImpl::ready`) only makes an update happen later.
* A client begins unconnected (`ClientConnects` is `Client::connect`) and connects once.
* Whether the server finds the acknowledged snapshot in its ring is a free choice.
* A second passes with `Tick`. When `Timely`, it does so only when nothing is in
  flight and no side has an update due: a round trip below a second and loops
  that run several times a second. Otherwise it does so at any moment, so that
  any timer may race any datagram. Then no separate action loses datagrams:
  one that is never delivered is lost.
* Once both sides play the clock stops: the client's game state always needs an
  update once it has a snapshot, and never times out any more.

What follows from the code and can surprise: `resend` of the server's
TransitionState is never set, because a connection hands up no retransmission of a
packet it already has; a late CHALLENGE can take the client out of its
transition into its game state, where it says nothing until a snapshot comes;
the transition acknowledgement is told from a game packet by its size alone.

### MessageManager

Both managers of a session. A message is its position among those its side
added; `pending` is msg_metadata with msg_data, `seqOf` creation_seq, `flight`
the packets that can still be read (game states ignore out-of-order packets, so
reading one drops the older). `WriteToPacket(p, oldest)` is the whole of
writeToPacket, first removing what has become a minute old, the prefix up to
`oldest`; `ReadFromPacket` the whole of readFromPacket. Handlers are those of a
conforming pair of applications: every message type is registered on the side
that reads it. `received` is a set: the code may run a handler more than once for
the same message (see the hazard at `nrg_message_manager.cpp:185`).

### Server

`pc` is where the application's only thread is: outside `update` (where it polls, kicks and
binds), in the receive loop, or in the tick, which first removes the disconnected players and then
updates the others (`TickBegins`, `todo`), one player at a step. `clients`,
`player_ids`, `eventq`, `sock` are the members of Server; `PushEvent`, `Acquire`
and so on are the operations of the modules EventQueue and IDAssigner, slot by slot. A player is
what others can notice of it: its id, which state it is in, the response it will get, and two flags.
Which packet, error or timeout happens to whom is free, so the server is exercised by every
client, conforming or not.

`pending`, `view`, `missed` are history: the events as a list, which the circular
queue is compared with, and what an application that keeps a list of its players by
the events would know. Addresses are numbers, as only their order (that of the map) matters.
Time is in the choice whether a state's update finds its timeout expired. `joined` is
whether the application has been told of the player.

Bounds: `Addr` (clients), `Kickable` (those the application kicks), `MaxRecv` (datagrams and errors in one receive loop, which the
code does not bound). Ids stay below the number of clients ever in the map at once.

### Replication

The application registers entities, sets fields and destroys entities between ticks;
`Tick` is the tick of `Server::update`: the delta and the master snapshot are
made from `updated_entities`, the marks are cleared, and the player is sent the merged deltas
after the snapshot it acknowledged, or the master snapshot if that one is no longer
in the ring. `ClientRecv` is `ClientGameState::onRecvPacket` with
`ClientSnapshot::readFromPacket`; a packet it ignores because it was overtaken
is dropped when the newer one is read.

Snapshots are operators in `Snapshots`, down to the two things that are hard in
them: the merge looks for an entity's fields by a binary search in a vector that an
earlier merge may have left out of order, and the master snapshot copies unchanged fields
from old data at computed offsets. Values are encoded in `Size[v]` cells, so that
a misplaced copy is seen as such. `MergeRound` is a round of the merge's loop over an entity that both deltas
have (`nrg_deltasnapshot.cpp:206`-216), `MergeLoop` all of them from the two lower bounds on, and `Merged` the merging of several
deltas one after the other. As in the code, a round compares the number at `old_it` even where that is no field of the
entity (line 210): it may step over a field of a following entity or, in a vector out of order, into fields
of the entity itself that the search had missed, which are then written behind newer ones; or it may stand
at the end, where memory is compared that is no field (`overrun`: the model takes its number for another one, and
a packet made from such a merge may or may not be `Garbled`). Fields that were written behind newer ones are in the packet but not
in its mask (`MaskTooShort`), and garble it. What undefined behaviour the code reaches is an
`Outcome`: *dangling* (a deleted entity is used), *garbled* (a read past the end, or
cells that are not the entity's fields), besides *refused* (readFromPacket fails, and the client leaves).
The model ends there. It also ends when an assertion of DeltaSnapshot fails (`aborted`).

A snapshot is named by its tick instead of its 16-bit time, which does not wrap.
`world` (what was registered at the tick), `prev`, `fellBack`, `sorted` and `known` (what an
application has made of the entity events) are history.
`Quiet` is a reduction: the application's changes commute with the arrival of packets, and
are taken first. Bounds: `MaxTicks` (after the last tick only the client goes on, `Running`),
`MaxIds`, `MaxChanges`.

### Packet, Encoding, Payload, PacketExchange

Packet is the buffer with its capacity, use and position; the bytes are kept when it is reset.
A number's width is a parameter, so that the boundary cases (a varint of several
groups, the sign bit of the int it is shifted in, a mask of more than one byte, a
packet that must grow) are met with numbers TLC can handle: bytes of `ByteBits`, ints of
`IntBits`, varints of `WideBits`. Encoders yield bytes; decoders work on the packet, and
yield the packet they leave, the number of bytes they say they read, and the value.

PacketExchange has one writer and one reader, each with one Packet it uses again and
again. An item is a varint, a message, an input, the update of an entity
(bit mask and fields), an array field with the elements that changed, or a join request,
which has a packet of its own and is parsed twice, as the server does.
`WritersTurn` is a reduction, as the two sides share nothing but the packets sent; another is that
the elements of the array are set in the step that writes it.

## What the runs show

Run a configuration with `tlc -config X.cfg M`.

| Run | Module | Bounds | Shows |
|---|---|---|---|
| `Connection_window` | Connection | window 2, 8 numbers, first number 0 or 6 (wraps), 4 packets of 1-2 fragments | TypeOK, HistoryExact, AtMostOnce, InvalidOnlyAfterTwoFinishes, FragmentAgesExact, and IInv, the invariant of the proofs |
| `Connection_channel` | ConnectionRefinement | window 3, 5 packets of a datagram, no wrap | OldIsFlagged, NothingAfterFinish, NothingLostWithinWindow (under FairSpec), and that Connection implements PacketChannel |
| `Connection_reassembly` | Connection | 1 packet of 2 fragments, no loss | *violated*: FragmentsReconstructed |
| `Session_race` | MCSession | 1 retry, timers of a second, time, quits and kicks at any moment, 3 client and 4 server packets | TypeOK, NeverMisread, StatesAgree, JoinOnceAdmitted, NoServiceAfterEnd |
| `Session_loss` | MCSession | timeouts of the code, timely network, one loss, 6 packets a side | NoConformingPeerRefused, ConnectsAfterRepair, BothSettle |
| `Session_accepted` | MCSession | the same | *violated*: Connects |
| `Messages_batches` | MCMessageManager | 2 client messages, 1 server message, 2 packets in flight a side, no wrap | TypeOK, NothingForgotten, HandledInOrder, AcknowledgedIsHandled, EveryMessageHandled |
| `Server_players` | Server | 4 clients, limit 3, queue of 2, 2 receptions per update, 1 client kicked by the application | TypeOK, IdsExact, QueueExact, AppKnowsPlayers, RoomKept |
| `Replication_mirror` | MCReplication | 5 ticks, 4 changes, 2 ids, 2 exchangeable types (SYMMETRY), 2 fields, ring of 4 snapshots, 1 unacknowledged | TypeOK, NoChangeForgotten, MasterExact, ClientMirrors, InterpolatesLastTwo, GhostsOnlyAfterFull, EventsTellAll |
| `Replication_assert` | MCReplication | 4 ticks, 1 id, ring of 3 snapshots, 2 unacknowledged | *violated*: AssertionsHold |
| `Replication_merge` | MCReplication | the same with 2 ids | *violated*: EveryChangeArrives |
| `Encoding_roundtrip` | MCPacketExchange | bytes of 3 bits, ints of 6, varints of 12, 2 packets of 2 items, buffers of 2 bytes | TypeOK, ReadToTheEnd, RoundTrip, ArrayFollows, JoinAnswered |

Why the bounds suffice.

* Connection: window 2 with 4 packets lets a packet be shifted by
  one, by the width of the window and by more, arrive late within and beyond the
  window, and lets fragments of different packets meet in a slot, before and after
  the wrap; a third width of window is in the channel run. What needs more is
  proved.
* Session: it takes 3 client packets (JOIN, RESPONSE, ACK) and 2 server
  packets to start; the rest leaves room for a repetition from each timer (a resent
  packet is not a new one) and for game packets. The race run
  replaces the timeouts by one second, so that each timer may fire before any other.
  It has one retry instead of five: the retries are alike.
* Messages: two are the least that can overtake one another or fall in different batches.
* Server: three players are the least of which one leaves below and one above a third in
  the order of ids and of addresses, and a fourth client lets more ask than there is room for; with a queue of 2, two events make it grow,
  which leaves its head in the middle, and two more make it grow again from there. The application kicks one client only, in the middle of
  the order; the others disconnect, fail, time out and vanish, after which the server does the same with them.
* Replication: five ticks outrun a ring of four snapshots, and let three deltas be merged on top
  of an acknowledged one, the least in which an entity is destroyed, its id given to one of
  another type and that one changed (a smaller ring hides that the client then misreads the
  update); two ids and four changes let an entity be created, changed,
  destroyed and its id be used again next to another entity; one id is enough for an assertion. A merge that steps over another entity's field to the end
  and yet leaves the fields in order takes six changes. TLC reaches it, with all the properties holding, in this configuration with `MaxTicks = 3`
  and `MaxChanges = 6`; here it is left to the theorems, which have no bounds, as both together take too long.
* Encoding: 31 is the largest varint that is read correctly, 4095 lies beyond
  it (and is read, but not claimed to be read correctly); 6 fields need a mask of two bytes;
  an array of 4 is written whole or in parts; three bytes outgrow the buffer.

Deadlock is checked in `Server_players` (the server can always go on) and in
`Messages_batches` (a side can always write). The other models stop when their bounds are
reached: all numbered packets sent and taken, the session over, the last tick
made, the last packet read.

Each property has a mutant, a plausible slip in a definition (the operators
commented "Mutant"), with which its run finds it violated.

## Fairness

* `Connection!FairSpec`: every datagram on the wire is eventually received. It
  describes a good network and is used to show what holds (NothingLostWithinWindow)
  or fails (FragmentsReconstructed) even then.
* `Session!FairSpec`: weak fairness of the client's connecting, of each side's update, of delivery and of
  time. Applications call update in a loop (`examples/*/`); what is not lost
  arrives; at most `MaxLoss` datagrams are lost. Nothing is assumed of the
  applications' quitting.
* `MessageManager!FairSpec`: both sides go on writing packets (the client's game state does
  so at each update, the server's as long as packets of the client reach it), and infinitely often readable packets, with and without
  messages, are read: strong fairness, since a packet in flight can be lost for ever
  while the next one takes its place. Adding messages is not fair.

## What is proved

All proofs are checked by tlapm with Z3, Zenon and LS4, for every value of the constants under
the named assumptions of the modules. Each safety invariant is derived from an inductive
one (`IInv`), which the theorem `Invariance` of its module establishes; the properties the runs check
are seldom inductive by themselves. The refinement and the action property follow from
the same invariants. The abstractions of the modules are part of what is proved: a theorem is
about the model, and the model's bounds are constants that may have any value.

**`ConnectionProofs`**, under `SeqModAssumption`, `HAssumption` (window of at most
half the numbers), `MaxFragsAssumption`, `FirstSeqsAssumption` and
`MaxSentAssumption` (less than a turn). The code has SeqMod = 2^16, H = 32.

* `TypeCorrect`: the types, which the later proofs need for the arithmetic.
* `Invariance`: that the history is exact after a packet presumes that the distance
  `uint16_t` arithmetic computes is the true one. Hence `NumbersFollow` (the number of
  packet k is first + k - 1, modulo), `TakenFromWire` (what was taken was
  sent, and what was delivered was taken) and `FinishesAreLast`. From those and the lemma
  `DistExact` a datagram inside the window has the distance top - id
  (`ReceiveIsNew`), is new exactly if its history bit is clear, and
  shifting or setting a bit keeps `HistoryExact` (`ReceiveHistory`).
* `NoDuplicates`, `HistoryIsExact`, `ConformingPeerIsValid` follow from it.
* `FragmentAgesAreExact`: slot by slot, shifting empties what leaves the window, every
  stored fragment ages by the distance the window moved, and a late fragment is stored with its own
  distance. A slot may hold what several packets left in it: one of them has the slot's age, the others
  are older (`SlotExact`).

The same module, under `NoWrap` (no first number from which the packets
sent would wrap):

* `OldPacketsFlagged` and `FinishIsLast`, from `IInv` and the lemma
  `LatestFlagExact`: the raw comparison of line 156 agrees with the order of sending;
* `ConnectionImplementsChannel`: with packets of one datagram, Connection
  implements PacketChannel; each step is a Send, SendEnd, Deliver or a stutter.

Both conditions are necessary. `Connection_reassembly` is the counterexample without the second.
Without the first, a packet sent before the wrap and received after a newer one sent behind it
has the larger raw number, and is not flagged.

**`SessionProofs`**, under `SessionAssumption`: any timeouts, retries, losses and number of packets,
timely or not, whenever the applications quit. `ClientInv` and `PlayerInv` say what each side's
state presumes of the packets it has taken and what it has sent so far: who has sent ACK has
taken ACCEPTED, after ACK a client sends only inputs and its end, a player that plays has taken the ACK.
With the connection's promise (an overtaken packet is flagged) the order of sending,
`OnlyAfter`, then rules out that a state is handed a packet of another one. From it
`TypeCorrect`, `PacketsReadByTheirState` (NeverMisread), `SidesAgree` (StatesAgree),
`JoinsAndLeavesOnce` (JoinOnceAdmitted), and the action property
`DisconnectedIsNotServed` (NoServiceAfterEnd).

`ConformingPeersStay` (NoConformingPeerRefused) is proved under `InTime`: the network is timely, at most one
datagram is lost, and the timeouts of the two handshakes differ (2 and 5 seconds in the code). Retries, the other
timeouts and the moment an application quits are any. Its invariant, `Turns`, says that the two
handshakes take turns (`TurnInv`): the server has something to answer and nothing is under way; or
one response is; or one challenge; or the client has a challenge to answer; or both wait, which takes a
lost datagram. Packets count as under way as long as a state may still be handed them (`Fresh`).
When both wait after a response, both last_update are equally old, so that different timeouts
go off one at a time (`BothWait`): if the client's, it repeats the response before the server asks again, and
if the server's, the client answers the new challenge and does not repeat the old
response (`SecondResponse`). What each side has sent (`ClientKinds`, `PlayerKinds`) excludes the other packets a
state would refuse: a second JOIN or ACK, and input before the game. Each of the three conditions is
necessary: with two losses, with datagrams under way while time passes, or with equal
timeouts TLC finds a second response that the server refuses.

**`MessageManagerProofs`**: `TypeCorrect` under `MessageAssumption` alone, so also when the batch numbers
wrap. The others under `NoWrap` (fewer messages than batch numbers), as the batch that
returns to number 0 is never acknowledged (see below). The invariant is one for each direction, `OneWay(s)`:
batches are numbered in the order of their messages; nothing joins a batch that has been
sent (`Closed`); a packet carries all older batches with its own; batches and acknowledgements
under way are in order; what is gone is acknowledged by whatever comes; what is handled is a
prefix but for what was too old. It yields `AcknowledgementsAreTrue` (AcknowledgedIsHandled),
`MessagesInOrder` (HandledInOrder) and `NoMessageForgotten` (NothingForgotten).

**`ListProofs`**: acquiring and releasing an id keep the assigner's list
exact with respect to the ids that are held, each once. It is used for players and for entities. Further, where each
element of a flattened sequence comes from (`FlattenPlaces`), and that a finite set of numbers has its ascending list.

**`ServerProofs`**, under `ServerAssumption` (finitely many addresses, any limit, queue size and number of
receptions). Lemmas `PushExact`, `PollExact`: the circular vector's contents grow at the end and
shrink at the front, whether it wraps, and also when it doubles around a head in its middle. On top of them:

* `RegistryOK`: ids in use are those of the players, each once (`IdsAreExact`);
* `EventsOK`: taking in the pending events one by one (`Follows`) leads from the application's view to the
  players that have joined, whatever the order of errors, kicks, removals and reuse of ids. At an empty queue it is
  `ApplicationKnowsPlayers` (AppKnowsPlayers); `EventsInOrder` is QueueExact;
* `AdmittedFit`: the players admitted, and not only those that have joined, are always below
  the limit, and only an admitted player is announced (`Announced`): hence `LimitIsKept` (RoomKept).

**`SnapshotsProofs`**, under `SnapshotsAssumption` (at least one field, no value of no cells): what the operators of
Snapshots compute, for any number of fields and entities.

* `LowerBoundExact`: the binary search finds the first place of an entity in a vector in the order of its
  entities. `SortedRunExact`, `MergeLoopExact`, `MergedFieldsExact`: hence the merge keeps of each field the newest
  value, of an entity that the newer delta deletes none. In vectors that are in order the loop's rounds keep an
  invariant (`RoundMerges`): what is written is the newest of the fields both iterators have
  passed, also when `old_it` steps on over other entities' fields (`PlacePasses`), of which none is written. Each round that
  is not the last moves an iterator on (`RoundAdvances`), so the loop ends (`LoopEnds`).
* `Leads(d, w, x)` says what delta d tells of two worlds, `Sound` that it also is in order. A tick's delta leads from the world before
  it to the one after (`DeltaOfLeads`), two that follow each other are merged into one that spans both
  (`MergedLeads`) if it is in order, too; where the merge read past the end this is about the case that the number there was
  another one, and `Garbled` has the rest, and the packet that is written of a delta does what the delta tells (`DeltaApplies`).
* `DecodingsExact`: cells decode to the values they were made of and to nothing else, for values of any sizes. With values of one size
  (`SameSizes`) the master snapshot goes from one world to the next (`SnapshotExact`).

**`ReplicationProofs`**, under `ReplicationAssumption` and `SnapshotsAssumption` (any ring of at least two slots, fields, sizes of
values, types, ids, ticks and allowances). There are three inductive invariants, one on top of the other.

`IInv` (`Invariance`) is about which entities there are:

* `ChangesAreListed` (NoChangeForgotten), with `ComingsListed`: the ids that came or went since the last tick are
  on the list too.
* `DeletionsArrive` (GhostsOnlyAfterFull). The ring holds consecutive deltas, the last one that names an
  entity tells whether it exists (`RingTells`), and everything that existed at a tick that the ring
  still reaches and does not exist now is named by a later delta (`RingNames`). The lemma `MergedInfos` says that
  merging keeps the last info of each entity, so a packet of deltas deletes whatever has gone
  since any older snapshot (`Deletes`), also for a client whose newest snapshot is younger than the one the
  server knows it has.

`DInv` (`DataInvariance`) is about their data:

* `ChangesKept`: what differs between an entity and the world of the last tick is marked.
* `Tells(n, w)`: merging the ring's deltas after tick n leads from w to the newest world, unless a merge has left the fields
  out of order. A client may be ahead of the snapshot the server starts from, so `AllTold` claims it of the world of each
  snapshot the client has or may get and of every tick not newer than that; the same holds of each packet under way.
* `ServerTyped`, `PacketTyped`, `ClientTyped`: the types, whatever was refused or misread. With `IInv` they are TypeOK
  (`ReplicationTypeOK`).
* `EventsAreEnough` (EventsTellAll): the events are, for each entity a packet names, in an order in which what was destroyed is dropped
  before it is taken in again (`EventsExact`), so that folding them into what the application knew yields the client's entities.

`VInv` (`ViewInvariance`), assuming `SameSizes`, is about what the client makes of it: the master snapshot holds the world, each packet
applies (`Applies`) to the world the client has, and the client has the world of its snapshot and, of each field, the values of the last two
(`ClientView`). It yields `MasterSnapshotExact`, `ClientIsMirror` and `InterpolationExact`. The assumption is necessary: with values of several
sizes `addEntity` copies from the wrong place (see below), and MasterExact is false.

`Merged`, `Offset`, `LowerBound`, `ToldAll` and flattening are recursive functions. Where an induction is needed, the lemma takes the smallest
counterexample (`Smallest`), since the library's induction rules cannot be used with this prover.

**`PacketExchangeProofs`**, under `EncodingAssumption`: bytes of at least two bits, an int of more bits than a byte, the wide type of
varints at least as wide as an int, and values that are of their C types; names, versions, sizes and the numbers of items and packets are arbitrary.

* Powers of two are a recursive function (`Pow2`), as the prover knows no law of `^`; the laws that are needed (`Pow2Add`, `Pow2Grows`, ...) are
  derived from its recursion, and so is that a number is the sum of its bits (`ValueOfBits`) and of its bytes.
* One lemma for each encoder says that its decoder, at a place where the bytes lie, takes exactly these and
  yields the value, whatever surrounds them: `VarintDecoded`, `ZigzagExact`, `NumberDecoded`, `StringDecoded`, `MessageExact`, `InputExact`,
  `UpdateExact` (mask and varints) and `ArrayDecoded` (either form, of which the writer takes the shorter). A varint that reaches the sign of
  the int that is shifted is taken whole, and its value is wrong: hence `Fits`.
* `PutExact`, `ResizedExact`: writing keeps what lies before, however often the packet doubles, and whatever old bytes it had.
* The inductive invariant `Inv` says where each item lies: `Packed` gives the offsets of the items of a packet, one behind the other,
  and that at each lie the bytes of its encoder; the reader's pointer is at the first item it has not read. `InvCopy` is the agreement of the two arrays: the
  reader's differs only at indices the writer still has to send, unless an update is under way, whose bytes then name all of these.
* It yields `TypeCorrect`, `ReadsToTheEnd` (ReadToTheEnd), `RoundTrips` (RoundTrip), `ArraysFollow` (ArrayFollows) and, as the two
  parsers of a join request find the same places, `JoinsAnswered` (JoinAnswered).

Only model-checked, and why:

* Everything temporal with fairness (NothingLostWithinWindow under FairSpec, ConnectsAfterRepair, BothSettle,
  EveryMessageHandled): the prover has no ENABLED.

## Where code and comments disagree

Shown by a run:

1. When the server's acceptance is lost the session never starts, although
   `nrg_state_manager.h:35` says the state change is reliable
   (`Session_accepted`): the client repeats its response, `nrg_connection.cpp:96`
   drops the repetition as already received (against the comment at line 77, that states
   must hear of it), the acceptance is not repeated, and the player is kicked after ten seconds.
2. A fragmented packet is never reconstructed (`Connection_reassembly`): its fragments
   share a sequence number, so the second is a duplicate for line 96.
3. An entity that is created and destroyed between two ticks, or whose id is used again between them,
   is twice in `updated_entities`, which the assertions at `nrg_deltasnapshot.cpp:64`
   and `:84` rule out (`Replication_assert`).
4. An entity that is new in one delta and changed in the next is merged into an update,
   which a client that does not have it refuses (`Replication_merge`), against
   `README.md:31`. A client that still has a destroyed entity of the same id applies the
   update to that one, whatever its type: the third case of `Misread`.

Met while modelling, and excluded by a condition of a property or a bound:

* Around the wrap of the sequence number a late packet is not flagged: `nrg_connection.cpp:156`
  compares raw numbers.
* When the batch number of messages wraps to 0, pending messages are dropped
  (`nrg_message_manager.cpp:146`: `their_remote_seq + 1` is not reduced to 8 bits). The creation
  time of all but the first is written as a difference (line 127) and read as a time.
* A varint of 2^31 or more is decoded wrongly (`nrg_varint.h:60` shifts in an int): the
  condition `Fits` of RoundTrip.
* With values whose encodings differ in length, unchanged fields of the master snapshot are
  copied from the wrong place (`nrg_snapshot.cpp:76`): the runs use `FixedSize`; with
  `VarSize` MasterExact fails.
* A full snapshot tells of no deletion, so the client keeps what was
  destroyed before it (GhostsOnlyAfterFull says when).
* An entity that changed its type is used after it was deleted (`nrg_snapshot.cpp:140`).
* An event that is polled after an update may name an entity that a later packet of the same update has
  deleted, although `nrg_event.h:59` warns only of ENTITY_DESTROYED: EventsTellAll is
  about an application that polls between any two packets.
* A client that is sent a full or merged snapshot misses earlier partial writes of an array
  (`nrg_field.h:241`): ArrayFollows is claimed for a reader of every packet.
* The last place of a server is never given away: `isFull` (`nrg_server.h:73`) counts the player that asks, so that a server with a
  maximum of N, as line 69 calls it, has N - 1 players at most. RoomKept and LimitIsKept claim the documented maximum only.
* A merge steps over fields of other entities, and possibly past the end, when the older delta has no field of an
  entity (left): line 210 does not ask whether `old_it` is still the entity's. For e < x it suffices that the older delta deletes e
  and changes x's first field, and the newer one creates e and changes x's first field.
* After a pause a client may send a burst (`nrg_client.cpp:135`); the snapshot number lags one packet
  behind (`nrg_serverstate.cpp:285`).

## What is not modelled

* The rate limit and the statistics: matters of milliseconds and of display. The
  clock appears as `Tick` and does not wrap.
* Interpolation beyond the two values it works on (arithmetic on doubles), and the prediction of
  inputs (functions of the application).
* Replay: every operation is a stub; the bodies are commented out.
* The optional compressor of packets, which no code of the repository installs.
* System calls, name resolution and socket options; of the client's socket only
  that a closed port is reported.
* Registration of message handlers and entity types: all are registered on the side that
  reads them. Times of messages, pings, tick rates, user pointers, a second connect.
* The unlimited repetition of the challenge to a vanished client
  (`nrg_serverstate.cpp:147`) is hidden by the bound on packets. With two
  datagrams lost the two timers of a handshake may both fire and a conforming peer can be
  refused: `NoConformingPeerRefused` is checked and proved for one loss.

## What is left

All modules are written and checked, and all invariants the passing runs check are proved. What remains
would be, in this order:

1. NoConformingPeerRefused for an untimely network: a bound on delays, instead of `Timely`, under which no two
   timers of a handshake race.
2. A second client in Replication: the server's parts are per player but for the ring, whose proofs need no change.
