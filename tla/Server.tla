------------------------------- MODULE Server -------------------------------
(***************************************************************************)
(* The server and all its players: Server::update (nrg_server.cpp) with    *)
(* the map of clients, the assignment of player ids, the limit on players  *)
(* and the queue of events the application polls between two updates.     *)
(*                                                                         *)
(* Session follows one player packet by packet; here a player is what the  *)
(* other players and the application can notice of it, and every packet,   *)
(* error and timeout may happen to any of them at any time.  Addresses are *)
(* numbers: their order is the order of the map (operator< of NetAddress). *)
(***************************************************************************)
EXTENDS Naturals, Sequences, FiniteSets, IDAssigner

CONSTANTS
  Addr,         \* the addresses of clients
  MaxPlayers,   \* max_players; 0 for no limit
  QueueSize,    \* initial size of the event queue: 32
  MaxRecv,      \* bound: datagrams and errors received in one update
  Kickable,     \* bound: the clients the application may kick
  None          \* no address, no event

INSTANCE EventQueue WITH NoEvent <- None
INSTANCE Socket WITH NoAddress <- None

ASSUME ServerAssumption ==
  /\ IsFiniteSet(Addr) /\ Addr \subseteq Nat
  /\ Kickable \subseteq Addr
  /\ MaxPlayers \in Nat /\ QueueSize \in Nat \ {0} /\ MaxRecv \in Nat

VARIABLES
  pc,          \* "app", or where Server::update is
  sock,        \* the server's socket
  clients,     \* address -> PlayerImpl, for the addresses in the map
  player_ids,  \* IDAssigner
  eventq,      \* EventQueue
  recvd,       \* datagrams and errors received in this update
  todo,        \* addresses of the players still to be updated in this update
  pending,     \* history: events pushed and not polled, oldest first
  view,        \* history: the players the application knows from its events
  missed       \* history: an update discarded events that were not polled

vars == <<pc, sock, clients, player_ids, eventq, recvd, todo, pending, view, missed>>

\* What a client may send: a join request that is fine or of another version,
\* a right or wrong challenge response, the acknowledgement of the state
\* change, input, the end of the session, and a packet the connection ignores.
Kind == {"JOIN", "OTHER_VERSION", "RESPONSE", "WRONG_RESPONSE", "ACK", "INPUT",
         "FINISHED", "REPEATED"}

Player == [id : Nat, st : {"handshake", "transition", "game", "failed"},
           response : {"NONE", "CHALLENGE", "ACCEPTED", "REFUSED"},
           done : BOOLEAN, connected : BOOLEAN, joined : BOOLEAN]
PlayerEvent == [type : {"PLAYER_JOIN", "PLAYER_LEAVE"}, id : Nat, player : Addr]

NewPlayer(id) == [id |-> id, st |-> "handshake", response |-> "NONE", done |-> FALSE,
                  connected |-> TRUE, joined |-> FALSE]

Init ==
  /\ pc = "app" /\ sock = NewSocket
  /\ clients = <<>> /\ player_ids = NewIds /\ eventq = NewQueue(QueueSize)
  /\ recvd = 0 /\ todo = {}
  /\ pending = <<>> /\ view = {} /\ missed = FALSE

-----------------------------------------------------------------------------
(* Events *)

Join(a, id)  == [type |-> "PLAYER_JOIN", id |-> id, player |-> a]
Leave(a, id) == [type |-> "PLAYER_LEAVE", id |-> id, player |-> a]

Push(e) == eventq' = PushEvent(eventq, e) /\ pending' = Append(pending, e)

NoEvents == UNCHANGED <<eventq, pending>>

\* What an application that keeps a list of its players makes of an event.
Told(players, e) ==
  IF e.type = "PLAYER_JOIN" THEN players \cup {[id |-> e.id, player |-> e.player]}
  ELSE {q \in players : q.id # e.id}

-----------------------------------------------------------------------------
(* Server::update: the receive loop *)

Without(a) == [b \in DOMAIN clients \ {a} |-> clients[b]]
With(a, p) == [b \in DOMAIN clients \cup {a} |-> IF b = a THEN p ELSE clients[b]]

\* Server::bind; the application may try again.
Bind(ok) ==
  /\ pc = "app" /\ ~sock.bound
  /\ sock' = BindSocket(HandleUnconnectedICMPErrors(SetFamilyFromAddress(sock)), ok)
  /\ UNCHANGED <<pc, clients, player_ids, eventq, recvd, todo, pending, view, missed>>

UpdateBegins ==
  /\ pc = "app" /\ sock.bound
  /\ pc' = "receive"
  /\ eventq' = ClearEvents(eventq)
  /\ pending' = <<>> /\ missed' = (missed \/ pending # <<>>)
  /\ view' = IF missed' THEN {} ELSE view    \* no longer of interest
  /\ UNCHANGED <<sock, clients, player_ids, recvd, todo>>

\* Server::isFull with n clients, the one that asks to join among them.
IsFull(n) == MaxPlayers # 0 /\ n >= MaxPlayers

\* Mutant: the players in their handshakes are not counted.
JoiningBesideJoined(p, n) ==
  [p EXCEPT !.response =
     IF IsFull(Cardinality({a \in DOMAIN clients : clients[a].joined})) THEN "REFUSED"
     ELSE "CHALLENGE"]

\* What is left of player p after a packet of kind k: {} when addPacket returns
\* FALSE, else a singleton; n is the number of clients.
Joining(p, n) == [p EXCEPT !.response = IF IsFull(n) THEN "REFUSED" ELSE "CHALLENGE"]

HandshakeRecv(p, k, n) ==
  CASE k = "JOIN"          -> {Joining(p, n)}
    [] k = "OTHER_VERSION" -> {[p EXCEPT !.response = "REFUSED"]}
    [] k = "RESPONSE" /\ p.response = "CHALLENGE" -> {[p EXCEPT !.response = "ACCEPTED"]}
    [] k = "WRONG_RESPONSE" /\ p.response = "CHALLENGE" -> {[p EXCEPT !.response = "REFUSED"]}
    [] OTHER -> {}

TransitionRecv(p, k) == IF k = "ACK" THEN {[p EXCEPT !.done = TRUE]} ELSE {p}

GameRecv(p, k) == IF k = "INPUT" THEN {p} ELSE {}

\* PlayerImpl::addPacket and StateManager::onRecvPacket.
AddPacket(p, k, n) ==
  IF k = "REPEATED" THEN {p}
  ELSE IF k = "FINISHED" THEN {[p EXCEPT !.connected = FALSE]}
  ELSE CASE p.st = "failed"     -> {}
         [] p.st = "handshake"  -> HandshakeRecv(p, k, n)
         [] p.st = "transition" -> TransitionRecv(p, k)
         [] p.st = "game"       -> GameRecv(p, k)

Kicked(p) == [p EXCEPT !.connected = FALSE]

Received(p, k, n) == IF AddPacket(p, k, n) = {} THEN {Kicked(p)} ELSE AddPacket(p, k, n)

\* A datagram of a client, or of an unknown address: connect_check lets only
\* join requests of this game create a player.
ReceiveFromClient(r) ==
  /\ r.ok /\ r.addr \in DOMAIN clients
  /\ \E p \in Received(clients[r.addr], r.kind, Cardinality(DOMAIN clients)) :
       clients' = With(r.addr, p)
  /\ UNCHANGED player_ids /\ NoEvents

ReceiveFromUnknown(r) ==
  /\ r.ok /\ r.addr \notin DOMAIN clients
  /\ IF r.kind \in {"JOIN", "OTHER_VERSION"}
       THEN /\ player_ids' = Acquire(player_ids)
            /\ \E p \in Received(NewPlayer(NextId(player_ids)), r.kind,
                                 Cardinality(DOMAIN clients) + 1) :
                 clients' = With(r.addr, p)
       ELSE UNCHANGED <<clients, player_ids>>
  /\ NoEvents

\* Mutant: the id is given back and nobody is told.
ReceiveErrorSilently(r) ==
  /\ ~r.ok /\ r.addr \in DOMAIN clients
  /\ player_ids' = Release(player_ids, clients[r.addr].id)
  /\ clients' = Without(r.addr)
  /\ NoEvents

\* The port of a client is unreachable: the player is deleted at once.
ReceiveError(r) ==
  /\ ~r.ok /\ r.addr \in DOMAIN clients
  /\ player_ids' = Release(player_ids, clients[r.addr].id)
  /\ Push(Leave(r.addr, clients[r.addr].id))
  /\ clients' = Without(r.addr)

ReceiveNothing(r) ==
  /\ ~r.ok
  /\ ~IsValid(r.addr) \/ r.addr \notin DOMAIN clients
  /\ UNCHANGED <<clients, player_ids>> /\ NoEvents

Receive ==
  /\ pc = "receive" /\ recvd < MaxRecv
  /\ recvd' = recvd + 1
  /\ \E r \in RecvResults(sock, Addr, Kind) :
       \/ ReceiveFromClient(r)
       \/ ReceiveFromUnknown(r)
       \/ ReceiveError(r)
       \/ ReceiveNothing(r)
  /\ UNCHANGED <<pc, sock, todo, view, missed>>

-----------------------------------------------------------------------------
(* Server::update: the tick *)

\* The players are gone through in the order of the map.
First(addrs) == CHOOSE a \in addrs : \A b \in addrs \ {a} : AddressLess(a, b)

Gone == {a \in DOMAIN clients : ~clients[a].connected}

\* The interval is over; the disconnected players are removed one by one.
RemoveDisconnected ==
  /\ pc \in {"receive", "remove"} /\ Gone # {}
  /\ LET a == First(Gone) IN
       /\ player_ids' = Release(player_ids, clients[a].id)
       /\ Push(Leave(a, clients[a].id))
       /\ clients' = Without(a)
  /\ pc' = "remove" /\ recvd' = 0
  /\ UNCHANGED <<sock, todo, view, missed>>

\* None is left, and all players of the map are updated.
TickBegins ==
  /\ pc \in {"receive", "remove"} /\ Gone = {}
  /\ todo' = DOMAIN clients /\ recvd' = 0
  /\ pc' = IF todo' = {} THEN "app" ELSE "update"
  /\ UNCHANGED <<sock, clients, player_ids, eventq, pending, view, missed>>

\* StateManager::update after a failure clears the states, done with them; the
\* player is kicked.
Failed(p) == [Kicked(p) EXCEPT !.st = "failed", !.done = FALSE]

\* ServerHandshakeState::update.  An acceptance that could not be sent is
\* repeated at the next update.
UpdateHandshake(a, p) ==
  /\ p.st = "handshake"
  /\ \/ p.response = "CHALLENGE" /\ UNCHANGED clients /\ NoEvents
     \/ p.response \in {"NONE", "REFUSED"} /\ clients' = With(a, Failed(p)) /\ NoEvents
     \/ /\ p.response = "ACCEPTED"
        /\ \E busy \in {0, 4}, fails \in BOOLEAN :
             IF Sent(busy, fails)
               THEN /\ Push(Join(a, p.id))
                    /\ clients' = With(a, [p EXCEPT !.st = "transition", !.joined = TRUE])
               ELSE UNCHANGED clients /\ NoEvents

\* TransitionState::update: not due or repeating the last packet, timed out, done.
UpdateTransition(a, p) ==
  /\ p.st = "transition"
  /\ \/ UNCHANGED clients
     \/ clients' = With(a, Failed(p))
     \/ p.done /\ clients' = With(a, [p EXCEPT !.st = "game"])
  /\ NoEvents

\* ServerPlayerGameState::update: a snapshot is sent, or the player timed out.
UpdateGame(a, p) ==
  /\ p.st = "game"
  /\ clients' \in {clients, With(a, Failed(p))}
  /\ NoEvents

UpdatePlayer ==
  /\ pc = "update"
  /\ LET a == First(todo) IN
       /\ \/ UpdateHandshake(a, clients[a])
          \/ UpdateTransition(a, clients[a])
          \/ UpdateGame(a, clients[a])
       /\ todo' = todo \ {a}
  /\ pc' = IF todo' = {} THEN "app" ELSE "update"
  /\ UNCHANGED <<sock, player_ids, recvd, view, missed>>

-----------------------------------------------------------------------------
(* The application, between two updates *)

Poll ==
  /\ pc = "app" /\ ~Empty(eventq)
  /\ view' = IF missed THEN {} ELSE Told(view, Polled(eventq))
  /\ eventq' = PollEvent(eventq)
  /\ pending' = Tail(pending)
  /\ UNCHANGED <<pc, sock, clients, player_ids, recvd, todo, missed>>

\* Player::kick of a player it found with getPlayerByID or from an event.
AppKicks(a) ==
  /\ pc = "app" /\ a \in DOMAIN clients
  /\ clients' = With(a, Kicked(clients[a]))
  /\ UNCHANGED <<pc, sock, player_ids, eventq, recvd, todo, pending, view, missed>>

Next ==
  \/ \E ok \in BOOLEAN : Bind(ok)
  \/ UpdateBegins
  \/ Receive
  \/ RemoveDisconnected
  \/ TickBegins
  \/ UpdatePlayer
  \/ Poll
  \/ \E a \in Kickable : AppKicks(a)

Spec == Init /\ [][Next]_vars

-----------------------------------------------------------------------------
(* Properties *)

TypeOK ==
  /\ pc \in {"app", "receive", "remove", "update"}
  /\ sock \in [family : BOOLEAN, bound : BOOLEAN, errqueue : BOOLEAN]
  /\ DOMAIN clients \subseteq Addr /\ \A a \in DOMAIN clients : clients[a] \in Player
  /\ IsIdAssigner(player_ids)
  /\ IsQueue(eventq, PlayerEvent)
  /\ recvd \in 0 .. MaxRecv /\ todo \subseteq DOMAIN clients
  /\ (pc = "update") <=> (todo # {})
  /\ pending \in Seq(PlayerEvent) /\ missed \in BOOLEAN
  /\ view \subseteq [id : Nat, player : Addr]

Ids == {clients[a].id : a \in DOMAIN clients}

\* nrg_event.h:67: a player is told from the others by its id.  No two players
\* of the map share one, no id in use can be assigned again and none is lost,
\* whether its player left by an error, a kick or a disconnect.
IdsExact ==
  /\ \A a, b \in DOMAIN clients : clients[a].id = clients[b].id => a = b
  /\ HoldsExactly(player_ids, Ids)

\* The event queue hands out exactly the events of this update, oldest first,
\* also when it had to grow in the middle of them.
QueueExact == Contents(eventq) = pending

\* The players that have joined, as an application should know them.
Players ==
  {[id |-> clients[a].id, player |-> a] : a \in {b \in DOMAIN clients : clients[b].joined}}

\* An application that polls all its events knows exactly the players that
\* have joined: ids are used again at once, players leave in three ways and
\* some that leave never joined, but no event is about the wrong player.
AppKnowsPlayers ==
  pc = "app" /\ ~missed /\ Empty(eventq) => view = Players

\* nrg_server.h:69 "Sets the maximum number of players": room is looked for when
\* a client asks, and it joins several packets and updates later; whatever other
\* handshakes are under way by then, no more than that many have joined.
RoomKept ==
  MaxPlayers # 0 =>
    Cardinality({a \in DOMAIN clients : clients[a].joined}) <= MaxPlayers
=============================================================================
