---------------------------- MODULE Replication ----------------------------
(***************************************************************************)
(* The replication of entities from a server to one client: the entities   *)
(* and fields the application changes (nrg_entity.cpp, nrg_field.h), their *)
(* registration and the tick of Server::update (nrg_server.cpp), the       *)
(* master snapshot, the deltas and what ServerPlayerGameState sends of     *)
(* them (nrg_serverstate.cpp), a network that delays, loses and reorders,  *)
(* and the client's copy (ClientSnapshot, ClientGameState).                *)
(*                                                                         *)
(* Both sides are in their game states.  A snapshot is named by its tick,  *)
(* for the 16-bit time in milliseconds; an aborted server (an assertion    *)
(* that failed) does nothing more.                                         *)
(***************************************************************************)
EXTENDS Snapshots, IDAssigner

CONSTANTS
  Initial,     \* the value a field is constructed with
  Type,        \* the types of entities, all registered at the client
  RingSlots,   \* NRG_NUM_PAST_SNAPSHOTS: 32
  MaxUnacked,  \* NRG_MAX_SNAPS_WITHOUT_ACK: 16
  MaxTicks,    \* bound: ticks of the server
  MaxIds,      \* bound: entities alive at a time
  MaxChanges   \* bound: changes the application makes

Value == DOMAIN Size

ASSUME ReplicationAssumption ==
  /\ Initial \in Value
  /\ RingSlots \in Nat \ {0, 1} /\ MaxUnacked \in Nat \ {0}
  /\ MaxTicks \in Nat /\ MaxIds \in Nat /\ MaxChanges \in Nat

VARIABLES
  now,         \* the tick: id of the newest snapshots
  entities,    \* id -> entity, for the registered ones
  entity_ids,  \* IDAssigner
  updated_entities,
  master,      \* master_snapshot.edata
  snaps,       \* DeltaSnapshotBuffer
  player,      \* fields of ServerPlayerGameState
  aborted,     \* an assertion failed
  toClient,    \* snapshot packets in flight
  toServer,    \* what the client's packets in flight acknowledge
  c,           \* the client: server_ms_prev, got_packet, its entities
  changes,     \* changes the application has made
  world        \* history: what was registered at tick "now"

vars == <<now, entities, entity_ids, updated_entities, master, snaps, player, aborted,
          toClient, toServer, c, changes, world>>

Id == 0 .. MaxIds - 1
Entity == [type : Type, f : [Field -> Value], upd : SUBSET Field, marked : BOOLEAN]
Copy == [type : Type, data : [Field -> Value], next : [Field -> Value]]

NoWorld == <<>>

\* ServerPlayerGameState and ClientGameState as they are constructed.
NewPlayerState == [ack |-> 0, sendDiff |-> FALSE, unacked |-> 0]
NewGameState ==
  [ack |-> 0, got |-> FALSE, status |-> "ok", ents |-> <<>>, known |-> <<>>,
   world |-> NoWorld, prev |-> NoWorld, fellBack |-> FALSE, sorted |-> TRUE]

Init ==
  /\ now = 0
  /\ entities = <<>> /\ entity_ids = NewIds /\ updated_entities = <<>>
  /\ master = <<>> /\ snaps = <<>> /\ aborted = FALSE
  /\ player = NewPlayerState
  /\ toClient = {} /\ toServer = {}
  /\ c = NewGameState
  /\ world = NoWorld /\ changes = 0

-----------------------------------------------------------------------------
\* Bound: after MaxTicks ticks only the client goes on, with what is in flight.
Running == ~aborted /\ now < MaxTicks

(* The application, between two updates *)

Change ==
  /\ Running /\ changes < MaxChanges
  /\ changes' = changes + 1
  /\ UNCHANGED <<now, master, snaps, player, aborted, toClient, toServer, c, world>>

\* Every field is constructed as updated, before the entity has a manager.
NewEntity(t) == [type |-> t, f |-> [n \in Field |-> Initial], upd |-> Field, marked |-> FALSE]

RegisterEntity(t) ==
  /\ Change
  /\ LET id == NextId(entity_ids) IN
       /\ id \in Id
       /\ entities' = [i \in DOMAIN entities \cup {id} |->
                         IF i = id THEN NewEntity(t) ELSE entities[i]]
       /\ updated_entities' = Append(updated_entities, id)
  /\ entity_ids' = Acquire(entity_ids)

\* Server::markEntityUpdated
MarkEntityUpdated(id) ==
  IF id \in Range(updated_entities) THEN updated_entities ELSE Append(updated_entities, id)

\* Entity::markUpdated(true) tells its manager once.
Marked(id) == IF entities[id].marked THEN updated_entities ELSE MarkEntityUpdated(id)

\* setUpdated of the field, which marks its entity.
SetUpdated(e, n, v) == [e EXCEPT !.f[n] = v, !.upd = @ \cup {n}, !.marked = TRUE]

\* Field::operator= with another value.
SetField(id, n, v) ==
  /\ Change
  /\ id \in DOMAIN entities /\ entities[id].f[n] # v
  /\ updated_entities' = Marked(id)
  /\ entities' = [entities EXCEPT ![id] = SetUpdated(@, n, v)]
  /\ UNCHANGED entity_ids

\* Entity::~Entity and Server::unregisterEntity.
UnregisterEntity(id) ==
  /\ Change
  /\ id \in DOMAIN entities
  /\ entities' = [i \in DOMAIN entities \ {id} |-> entities[i]]
  /\ entity_ids' = Release(entity_ids, id)
  /\ updated_entities' = Append(updated_entities, id)

-----------------------------------------------------------------------------
(* Server::update *)

\* Mutant: the entity stays marked.
ClearedFields(ids) ==
  [i \in DOMAIN entities |->
     IF i \in ids THEN [entities[i] EXCEPT !.upd = {}] ELSE entities[i]]

\* clearEntityUpdated, for the entities that were on the list.
Cleared(ids) ==
  [i \in DOMAIN entities |->
     IF i \in ids THEN [entities[i] EXCEPT !.upd = {}, !.marked = FALSE] ELSE entities[i]]

\* The assertions of DeltaSnapshot::addEntity and removeEntityByID.
AddedOnce == IsInjective(updated_entities)

\* The delta after the one the client has acknowledged, merged with the later ones.
Difference(ring) == Merged(After(ring, player.ack))

\* (world, diff and sorted are history: what the client should see, and how the
\* packet was made.)
Send(packet, tick, now_world, diff, sorted, garbled) ==
  toClient' = toClient \cup
    {[tick |-> tick, diff |-> diff, sorted |-> sorted, garbled |-> garbled, body |-> packet,
      world |-> now_world]}

\* Whether what is sent of diff cannot be read as what was written: any outcome, if
\* memory past a vector's end was compared.
Garbled(diff) ==
  IF MaskTooShort(diff) THEN {TRUE} ELSE IF diff.overrun THEN BOOLEAN ELSE {FALSE}

CanSendDiff(ring) == player.sendDiff /\ FoundInRing(ring, player.ack)

\* ServerPlayerGameState::update: the merged deltas, if what the client has is
\* still known, else the master snapshot, which uses up the whole allowance.
UpdatePlayer(ring, edata, tick, now_world) ==
  IF player.unacked >= MaxUnacked
    THEN UNCHANGED <<player, toClient>>
  ELSE IF CanSendDiff(ring)
    THEN /\ LET diff == Difference(ring)
            IN \E garbled \in Garbled(diff) :
                 Send(DeltaPacket(diff), tick, now_world, TRUE, diff.sorted, garbled)
         /\ player' = [player EXCEPT !.unacked = @ + 1]
  ELSE /\ Send(SnapshotPacket(edata), tick, now_world, FALSE, TRUE, FALSE)
       /\ player' = [player EXCEPT !.unacked = MaxUnacked, !.sendDiff = FALSE]

World == [i \in DOMAIN entities |-> [type |-> entities[i].type, f |-> entities[i].f]]

\* The tick: both snapshots take in the entities on the list; then the player
\* is updated.
Tick ==
  /\ Running /\ AddedOnce
  /\ LET ids == Range(updated_entities) IN
       /\ master' = Snapshot(master, entities, ids)
       /\ snaps' = NextInRing(snaps, DeltaOf(now + 1, entities, ids), RingSlots)
       /\ entities' = Cleared(ids)
  /\ now' = now + 1 /\ world' = World /\ updated_entities' = <<>>
  /\ UpdatePlayer(snaps', master', now', world')
  /\ UNCHANGED <<entity_ids, aborted, toServer, c, changes>>

\* The tick meets an entity twice.
Abort ==
  /\ Running /\ ~AddedOnce
  /\ aborted' = TRUE
  /\ UNCHANGED <<now, entities, entity_ids, updated_entities, master, snaps, player,
                 toClient, toServer, c, changes, world>>

\* ServerPlayerGameState::onRecvPacket.  A packet with an older acknowledgement
\* was overtaken; one with the same may have been.
Acknowledged(ack) ==
  \/ /\ ack <= player.ack    \* out of order
     /\ player' = [player EXCEPT !.unacked = 0]
  \/ /\ ack >= player.ack
     /\ player' = [player EXCEPT !.unacked = 0, !.sendDiff = TRUE, !.ack = ack]

ServerRecv(ack) ==
  /\ Running
  /\ Acknowledged(ack)
  /\ UNCHANGED <<now, entities, entity_ids, updated_entities, master, snaps, aborted,
                 toClient, toServer, c, changes, world>>

-----------------------------------------------------------------------------
(* The client *)

\* Mutant: data and next keep their places when next is as it was.
ShiftedChanged(body) ==
  [i \in DOMAIN c.ents |->
     IF i \in DOMAIN body.upd THEN [c.ents[i] EXCEPT !.data = c.ents[i].next] ELSE c.ents[i]]

\* shiftData of every field of every entity.
Shifted(body) == [i \in DOMAIN c.ents |-> [c.ents[i] EXCEPT !.data = c.ents[i].next]]

\* SnapFuncImpl: entities are destroyed, and created as copies of the one that
\* was registered for their type.
Destroy(ents, ids) == [i \in DOMAIN ents \ ids |-> ents[i]]
Clone(t) == [type |-> t, data |-> [n \in Field |-> Initial], next |-> [n \in Field |-> Initial]]
BeginCreate(ents, types) ==
  [i \in DOMAIN ents \cup DOMAIN types |->
     IF i \in DOMAIN types THEN Clone(types[i]) ELSE ents[i]]

\* ClientSnapshot::readFromPacket of a packet that can be read to its end:
\* deletions, then whole entities, created if need be, then updates.
ReadEntities(body) ==
  LET kept  == Destroy(Shifted(body), body.del)
      fresh == DOMAIN body.full \ DOMAIN kept
      all   == BeginCreate(kept, [i \in fresh |-> body.full[i].type])
      read(i, e) ==
        IF i \in DOMAIN body.full
          THEN [e EXCEPT !.next = CHOOSE f \in Decodings(body.full[i].cells) : TRUE]
        ELSE IF i \in DOMAIN body.upd
          THEN [e EXCEPT !.next = [n \in Field |->
                  IF n \in DOMAIN body.upd[i] THEN body.upd[i][n] ELSE e.next[n]]]
        ELSE e
  IN [i \in DOMAIN all |-> read(i, all[i])]

EntityEvent(type, i, values) ==
  [type |-> type, eid |-> i, entity |-> IF i \in DOMAIN values THEN values[i] ELSE <<>>]

\* Mutant: only what is in the section of updates counts as updated.
EntityEventsUpdSection(body, values) ==
  LET events(type, ids) ==
        LET order == Ascending(ids)
        IN [k \in DOMAIN order |-> EntityEvent(type, order[k], values)]
  IN events("ENTITY_DESTROYED", body.del \cap DOMAIN c.ents)
     \o events("ENTITY_CREATED", DOMAIN body.full \ DOMAIN Destroy(c.ents, body.del))
     \o events("ENTITY_UPDATED", DOMAIN body.upd)

\* The events SnapFuncImpl pushes, section by section, each with what the
\* entity is when the application polls.
EntityEvents(body, values) ==
  LET events(type, ids) ==
        LET order == Ascending(ids)
        IN [k \in DOMAIN order |-> EntityEvent(type, order[k], values)]
      created(i) == IF i \in DOMAIN c.ents \ body.del THEN {} ELSE {i}
      order == Ascending(DOMAIN body.full)
  IN events("ENTITY_DESTROYED", body.del \cap DOMAIN c.ents)
     \o FlattenSeq([k \in DOMAIN order |-> events("ENTITY_CREATED", created(order[k]))
                                           \o events("ENTITY_UPDATED", {order[k]})])
     \o events("ENTITY_UPDATED", DOMAIN body.upd)

\* (known is history: what an application has made of the events so far that
\* polls them after each packet and looks at the entities they name.)
Told(known, e) ==
  IF e.type = "ENTITY_DESTROYED" THEN [i \in DOMAIN known \ {e.eid} |-> known[i]]
  ELSE [i \in DOMAIN known \cup {e.eid} |-> IF i = e.eid THEN e.entity ELSE known[i]]
ToldAll(known, events) ==
  LET upTo[k \in 0 .. Len(events)] ==
        IF k = 0 THEN known ELSE Told(upTo[k - 1], events[k])
  IN upTo[Len(events)]

Values(ents) == [i \in DOMAIN ents |-> [type |-> ents[i].type, f |-> ents[i].next]]

\* An entity of this id but of another type was deleted and is used.
UsesDeleted(body) ==
  \E i \in DOMAIN body.full \cap (DOMAIN c.ents \ body.del) :
    c.ents[i].type # body.full[i].type

\* The cells of some entity are not those of its fields, or are those of the
\* fields of another type: an entity of this id was destroyed and one of another
\* type created, which the merged deltas tell as an update.
Misread(p) ==
  \/ p.garbled
  \/ \E i \in DOMAIN p.body.full : Decodings(p.body.full[i].cells) = {}
  \/ \E i \in (DOMAIN p.body.upd \cap DOMAIN c.ents \cap DOMAIN p.world) \ p.body.del :
       c.ents[i].type # p.world[i].type

\* An update of an entity the client has not got.
Unknown(body) ==
  ~(DOMAIN body.upd \subseteq (DOMAIN c.ents \ body.del) \cup DOMAIN body.full)

Outcome(p) ==
  IF UsesDeleted(p.body) THEN "dangling"
  ELSE IF Misread(p)     THEN "garbled"
  ELSE IF Unknown(p.body) THEN "refused"
  ELSE "ok"

\* ClientGameState::onRecvPacket.  Packets overtaken by p are ignored when they
\* come, as if they were lost.  The model ends with a client that has refused
\* or misread a packet.
ClientRecv(p) ==
  /\ c.status = "ok"
  /\ toClient' = {q \in toClient : q.tick > p.tick}
  /\ c' = IF Outcome(p) # "ok"
            THEN [c EXCEPT !.ack = p.tick, !.status = Outcome(p)]
            ELSE LET ents == ReadEntities(p.body) IN
                 [ack |-> p.tick, got |-> TRUE, status |-> "ok", ents |-> ents,
                  known |-> ToldAll(c.known, EntityEvents(p.body, Values(ents))),
                  world |-> p.world, prev |-> c.world, sorted |-> c.sorted /\ p.sorted,
                  fellBack |-> c.fellBack \/ (~p.diff /\ c.got)]
  /\ UNCHANGED <<now, entities, entity_ids, updated_entities, master, snaps, player, aborted,
                 toServer, changes, world>>

\* ClientGameState::update sends the id of the newest snapshot.
ClientUpdate ==
  /\ c.status = "ok" /\ c.got /\ c.ack \notin toServer /\ now < MaxTicks
  /\ toServer' = toServer \cup {c.ack}
  /\ UNCHANGED <<now, entities, entity_ids, updated_entities, master, snaps, player, aborted,
                 toClient, c, changes, world>>

\* The application's changes since the last tick touch nothing that a packet's
\* arrival does: each such step commutes with them and is taken before them.
Quiet == updated_entities = <<>>

Next ==
  \/ \E t \in Type : RegisterEntity(t)
  \/ \E id \in Id, n \in Field, v \in Value : SetField(id, n, v)
  \/ \E id \in Id : UnregisterEntity(id)
  \/ Tick
  \/ Abort
  \/ Quiet /\ \E ack \in toServer : ServerRecv(ack)
  \/ Quiet /\ \E p \in toClient : ClientRecv(p)
  \/ Quiet /\ ClientUpdate

Spec == Init /\ [][Next]_vars

-----------------------------------------------------------------------------
(* Properties *)

IsWorld(w) == DOMAIN w \subseteq Id /\ \A i \in DOMAIN w : w[i] \in [type : Type, f : [Field -> Value]]

TypeOK ==
  /\ now \in 0 .. MaxTicks /\ changes \in 0 .. MaxChanges /\ aborted \in BOOLEAN
  /\ DOMAIN entities \subseteq Id /\ \A i \in DOMAIN entities : entities[i] \in Entity
  /\ HoldsExactly(entity_ids, DOMAIN entities)
  /\ updated_entities \in Seq(Id)
  /\ Len(snaps) <= RingSlots - 1
  /\ player \in [ack : 0 .. MaxTicks, sendDiff : BOOLEAN, unacked : 0 .. MaxUnacked]
  /\ player.ack \in toServer \cup {0} /\ toServer \subseteq 1 .. now
  /\ \A p \in toClient : p.tick \in 1 .. now /\ IsWorld(p.world)
  /\ DOMAIN c.ents \subseteq Id /\ \A i \in DOMAIN c.ents : c.ents[i] \in Copy
  /\ IsWorld(world) /\ IsWorld(c.world) /\ IsWorld(c.prev)

\* README.md "the server will automatically send any changes you make": an
\* entity with a changed field is always on the list the next tick goes
\* through, whatever happened to it, its id and its flags before.
NoChangeForgotten ==
  \A i \in DOMAIN entities :
    entities[i].upd # {} \/ entities[i].marked => i \in Range(updated_entities)

\* The master snapshot, patched field by field, is the world at the last tick:
\* what a client that is too far behind is sent is complete and current.
MasterExact ==
  /\ DOMAIN master = DOMAIN world
  /\ \A i \in DOMAIN world :
       master[i].type = world[i].type /\ Decodings(master[i].cells) = {world[i].f}

\* The client has each entity of the server's world, with exactly its values.
Mirrors == \A i \in DOMAIN c.world :
  /\ i \in DOMAIN c.ents
  /\ c.ents[i].type = c.world[i].type /\ c.ents[i].next = c.world[i].f

\* After every snapshot it reads, the client has what the server had at that
\* tick: deltas are taken only on top of a state they include, whatever is lost,
\* late or acknowledged twice, and the deltas of several ticks are merged into
\* one with the newest of each field - as long as merging has left the fields
\* in the order mergeWithNext and writeToPacket search them by.
ClientMirrors == c.status = "ok" /\ c.sorted => Mirrors

\* nrg_field.h:155 "data interpolated between the two latest Snapshots": a
\* field the client has had for two snapshots holds the values of both.
InterpolatesLastTwo ==
  c.status = "ok" /\ c.sorted =>
    \A i \in DOMAIN c.world \cap DOMAIN c.prev :
      c.world[i].type = c.prev[i].type => c.ents[i].data = c.prev[i].f

\* The client keeps an entity the server no longer has only after a full
\* snapshot in place of deltas: full snapshots tell of no deletion.
GhostsOnlyAfterFull == c.status = "ok" /\ ~c.fellBack => DOMAIN c.ents \subseteq DOMAIN c.world

\* nrg_event.h:54 calls events "an alternative to the virtual methods": an
\* application that takes an entity in or looks at it again only when an event
\* names it has them all, and with their newest values, whether they came as
\* a whole or as an update, were there before or not.
EventsTellAll == c.status = "ok" => c.known = Values(c.ents)

\* README.md "the server will automatically send any changes you make to those
\* fields to its clients": a change that is part of a snapshot reaches the
\* client with it, whatever deltas were merged.
EveryChangeArrives == c.status \notin {"refused", "garbled"} /\ Mirrors

\* nrg_deltasnapshot.cpp:64 and :84 assert that no entity is added to a delta
\* twice.
AssertionsHold == ~aborted
=============================================================================
