------------------------------- MODULE Session -------------------------------
(***************************************************************************)
(* The life of one libNRG session: a Client and the PlayerImpl a Server    *)
(* creates for it, each with its StateManager and the states it goes       *)
(* through (handshake, transition, game), talking over a network that      *)
(* loses, delays and reorders datagrams (nrg_state_manager.cpp,            *)
(* nrg_clientstate.cpp, nrg_serverstate.cpp, nrg_player.cpp, and the       *)
(* update loops of nrg_client.cpp and nrg_server.cpp).                     *)
(*                                                                         *)
(* The connection is what Connection and its proofs say it is: a packet    *)
(* is handed up at most once, one overtaken by a newer packet is flagged   *)
(* out of order, an overtaken retransmission or end of stream is not       *)
(* handed up.  Packets are named by their position in what their sender    *)
(* sent.  Time is counted in seconds since each side's last_update.        *)
(***************************************************************************)
EXTENDS Naturals, Sequences, FiniteSets, SequencesExt

CONSTANTS
  Retries,      \* timeouts a client state survives: 5
  ClientSecs,   \* getTimeoutSeconds of the client's states: 2, 1, 1
  ServerSecs,   \* getTimeoutSeconds of the server's states: 5, 10, 5
  MaxUnacked,   \* NRG_MAX_SNAPS_WITHOUT_ACK
  Timely,       \* TRUE: whatever is in flight arrives or is lost within a second
  MaxLoss,      \* bound: datagrams lost
  MaxOut,       \* bound: side -> packets it sends
  MayQuit       \* TRUE: the applications may end the session at any time

HandshakeKind == {"JOIN", "CHALLENGE", "RESPONSE", "ACCEPTED", "ACK"}
Kind          == HandshakeKind \cup {"SNAP", "INPUT", "FINISHED"}

ASSUME SessionAssumption ==
  /\ Retries \in Nat /\ MaxUnacked \in Nat \ {0} /\ MaxLoss \in Nat
  /\ \A s \in {"client", "server"} : MaxOut[s] \in Nat
  /\ \A s \in {"handshake", "transition", "game"} :
       ClientSecs[s] \in Nat \ {0} /\ ServerSecs[s] \in Nat \ {0}
  /\ Timely \in BOOLEAN /\ MayQuit \in BOOLEAN

VARIABLES
  c,        \* the client: its state, and the fields of that state
  p,        \* the server's player: likewise
  out,      \* out[side]: the kinds of the packets that side has sent
  in,       \* in[side]: the packets that side has taken, by position
  net,      \* datagrams in flight: [to, id, retr]
  admit,    \* the server will accept this client (version, game, room)
  lost,     \* the kinds of the datagrams lost so far, in order
  joins,    \* history: PLAYER_JOIN events pushed
  leaves,   \* history: PLAYER_LEAVE events pushed
  misread,  \* history: a state parsed a packet of another state
  refused   \* history: a peer was dropped because of a packet it sent

vars == <<c, p, out, in, net, admit, lost, joins, leaves, misread, refused>>

Side == {"client", "server"}

ClientState == [st : {"unconnected", "handshake", "transition", "game", "ended"},
                phase : {"NOT_STARTED", "WAITING", "CHALLENGE", "ACCEPTED"},
                timeouts : 0 .. Retries + 1, idle : Nat,
                starting : BOOLEAN, done : BOOLEAN, got : BOOLEAN]
PlayerState == [st : {"none", "handshake", "transition", "game", "failed", "gone"},
                response : {"NONE", "CHALLENGE", "ACCEPTED", "WRONG"},
                got : BOOLEAN, resend : BOOLEAN, done : BOOLEAN, sendDiff : BOOLEAN,
                unacked : 0 .. MaxUnacked, idle : Nat, connected : BOOLEAN]
Datagram    == [to : Side, id : 1 .. MaxOut["client"] + MaxOut["server"] + 1, retr : BOOLEAN]

\* A StateManager's states: the last one is the current one, a change of state
\* takes it off (by way of the transition).
States == <<"game", "handshake">>

NewClient == [st |-> Last(States), phase |-> "NOT_STARTED", timeouts |-> 0, idle |-> 0,
              starting |-> FALSE, done |-> FALSE, got |-> FALSE]

NewPlayer == [st |-> Last(States), response |-> "NONE", got |-> FALSE, resend |-> FALSE,
              done |-> FALSE, sendDiff |-> FALSE, unacked |-> 0, idle |-> 0, connected |-> TRUE]

Init ==
  /\ c = [NewClient EXCEPT !.st = "unconnected"]
  /\ p = [NewPlayer EXCEPT !.st = "none"]
  /\ out = [s \in Side |-> <<>>]
  /\ in = [s \in Side |-> {}]
  /\ net = {}
  /\ admit \in BOOLEAN
  /\ lost = <<>> /\ joins = 0 /\ leaves = 0 /\ misread = FALSE /\ refused = FALSE

-----------------------------------------------------------------------------
(* The connection *)

Other(s) == IF s = "client" THEN "server" ELSE "client"
KindOf(d) == out[Other(d.to)][d.id]

\* ConnectionOut::sendPacket and resendLastPacket of side s, given what is left
\* of the network by the rest of the step.
Send(s, k, rest) ==
  /\ Len(out[s]) < MaxOut[s]
  /\ out' = [out EXCEPT ![s] = Append(@, k)]
  /\ net' = rest \cup {[to |-> Other(s), id |-> Len(out[s]) + 1, retr |-> FALSE]}

Resend(s) ==
  /\ net' = net \cup {[to |-> Other(s), id |-> Len(out[s]), retr |-> TRUE]}
  /\ UNCHANGED out

\* sendDisconnect; at most one packet more than MaxOut.
Disconnect(s, rest) ==
  /\ Len(out[s]) < MaxOut[s] + 1
  /\ out' = [out EXCEPT ![s] = Append(@, "FINISHED")]
  /\ net' = rest \cup {[to |-> Other(s), id |-> Len(out[s]) + 1, retr |-> FALSE]}

Overtaken(d) == \E k \in in[d.to] : k > d.id

\* Mutant: repeated datagrams are handed up again.
IgnoredOvertaken(d) == Overtaken(d) /\ d.retr

\* ConnectionIn::addPacket ignores the datagram.
Ignored(d) == d.id \in in[d.to] \/ (Overtaken(d) /\ d.retr)

Taken(d) == in' = [in EXCEPT ![d.to] = @ \cup {d.id}]

\* StateManager::update when a state asks for a change: TransitionState::init,
\* and what client and server make of it below.
BeginTransition(x) == [x EXCEPT !.st = "transition", !.done = FALSE, !.idle = 0]

-----------------------------------------------------------------------------
(* The client: the receive loop of Client::update *)

\* ClientHandshakeState::onRecvPacket; a FALSE return ends the client.
ClientHandshakeRecv(k) ==
  \/ /\ c.phase = "WAITING" /\ k \in {"CHALLENGE", "ACCEPTED"}
     /\ c' = [c EXCEPT !.phase = k]
     /\ UNCHANGED <<misread, refused>>
  \/ /\ c.phase # "WAITING"
     /\ c' = [c EXCEPT !.st = "ended"]
     /\ refused' = TRUE
     /\ UNCHANGED misread
  \/ /\ c.phase = "WAITING" /\ k \notin {"CHALLENGE", "ACCEPTED"}
     /\ c' = [c EXCEPT !.st = "ended"]
     /\ misread' = TRUE /\ refused' = TRUE

\* Mutant: out-of-order packets are parsed as well.
GameRecvAnyOrder(d) == misread' = (misread \/ KindOf(d) # "SNAP")

\* ClientGameState::onRecvPacket, called by the transition state as well.
GameRecv(d) ==
  \/ Overtaken(d) /\ UNCHANGED misread
  \/ ~Overtaken(d) /\ KindOf(d) = "SNAP" /\ UNCHANGED misread
  \/ ~Overtaken(d) /\ KindOf(d) # "SNAP" /\ misread' = TRUE

GotSnapshot(d) == c.got \/ (~Overtaken(d) /\ KindOf(d) = "SNAP")

\* Client::connect
ClientConnects ==
  /\ c.st = "unconnected"
  /\ c' = NewClient
  /\ UNCHANGED <<p, out, in, net, admit, lost, joins, leaves, misread, refused>>

\* Client::isConnected; the socket of a client that has ended is disconnected
\* or closed.
IsConnected == c.st \notin {"unconnected", "ended"}

ClientRecv(d) ==
  /\ d.to = "client" /\ IsConnected
  /\ IF Ignored(d) \/ (KindOf(d) = "FINISHED" /\ Overtaken(d))
       THEN /\ net' = net \ {d}
            /\ in' = IF d.retr THEN in ELSE [in EXCEPT !["client"] = @ \cup {d.id}]
            /\ UNCHANGED <<c, out, misread, refused>>
     ELSE IF KindOf(d) = "FINISHED"
       THEN /\ Taken(d) /\ net' = net \ {d}
            /\ c' = [c EXCEPT !.st = "ended"]      \* sock.disconnect()
            /\ UNCHANGED <<out, misread, refused>>
     ELSE /\ Taken(d)
          /\ \/ /\ c.st = "handshake"
                /\ ClientHandshakeRecv(KindOf(d))
             \/ /\ c.st = "transition"
                /\ GameRecv(d)
                /\ c' = [c EXCEPT !.done = TRUE, !.got = GotSnapshot(d)]
                /\ UNCHANGED refused
             \/ /\ c.st = "game"
                /\ GameRecv(d)
                /\ c' = [c EXCEPT !.got = GotSnapshot(d)]
                /\ UNCHANGED refused
          /\ IF c'.st = "ended" THEN Disconnect("client", net \ {d})
             ELSE net' = net \ {d} /\ UNCHANGED out
  /\ UNCHANGED <<p, admit, lost, joins, leaves>>

-----------------------------------------------------------------------------
(* The client: StateManager::update *)

ClientTimedOut == c.idle > ClientSecs[c.st]

\* needsUpdate of the three states
ClientHandshakeNeeds  == c.st = "handshake" /\ c.phase # "WAITING"
ClientTransitionNeeds == c.st = "transition" /\ (c.starting \/ c.done)
ClientGameNeeds       == c.st = "game" /\ c.got

ClientNeedsUpdate == ClientHandshakeNeeds \/ ClientTransitionNeeds \/ ClientGameNeeds

ClientDue == IsConnected /\ (ClientNeedsUpdate \/ ClientTimedOut)

\* Mutant: post-increment in the test of the timeouts.
ClientTimeoutOnceMore ==
  /\ ClientTimedOut
  /\ c.st = "transition" => ~c.starting /\ ~c.done
  /\ IF c.timeouts > Retries
       THEN /\ c' = [c EXCEPT !.st = "ended", !.timeouts = @ + 1, !.idle = 0]
            /\ Disconnect("client", net)
       ELSE /\ c' = [c EXCEPT !.timeouts = @ + 1, !.idle = 0]
            /\ Resend("client")

\* Mutant: the number of timeouts is reset before it is tested.
ClientTimeoutForEver ==
  /\ ClientTimedOut
  /\ c.st = "transition" => ~c.starting /\ ~c.done
  /\ c' = [c EXCEPT !.timeouts = 1, !.idle = 0]
  /\ Resend("client")

\* What handshake, transition and game do alike when their time is over:
\* resend the last packet, a bounded number of times.
ClientTimeout ==
  /\ ClientTimedOut
  /\ c.st = "transition" => ~c.starting /\ ~c.done
  /\ IF c.timeouts + 1 > Retries
       THEN /\ c' = [c EXCEPT !.st = "ended", !.timeouts = @ + 1, !.idle = 0]
            /\ Disconnect("client", net)
       ELSE /\ c' = [c EXCEPT !.timeouts = @ + 1, !.idle = 0]
            /\ Resend("client")

ClientHandshakeUpdate ==
  /\ c.st = "handshake" /\ ~ClientTimedOut
  /\ \/ /\ c.phase = "NOT_STARTED"
        /\ c' = [c EXCEPT !.phase = "WAITING", !.timeouts = 0, !.idle = 0]
        /\ Send("client", "JOIN", net)
     \/ /\ c.phase = "CHALLENGE"
        /\ c' = [c EXCEPT !.phase = "WAITING", !.timeouts = 0, !.idle = 0]
        /\ Send("client", "RESPONSE", net)
     \/ /\ c.phase = "ACCEPTED"    \* STATE_CHANGE: TransitionState::init
        /\ c' = [BeginTransition(c) EXCEPT !.timeouts = 0, !.starting = TRUE]
        /\ UNCHANGED <<out, net>>

ClientTransitionUpdate ==
  /\ c.st = "transition"
  /\ \/ /\ c.starting
        /\ c' = [c EXCEPT !.starting = FALSE, !.idle = 0]
        /\ Send("client", "ACK", net)
     \/ /\ ~c.starting /\ c.done   \* STATE_CHANGE: the game state takes over
        /\ c' = [c EXCEPT !.st = "game", !.timeouts = 0, !.idle = 0]
        /\ UNCHANGED <<out, net>>

ClientGameUpdate ==
  /\ c.st = "game" /\ ~ClientTimedOut
  /\ c' = [c EXCEPT !.timeouts = 0, !.idle = 0]
  /\ Send("client", "INPUT", net)

ClientUpdate ==
  /\ ClientDue
  /\ ClientTimeout \/ ClientHandshakeUpdate \/ ClientTransitionUpdate \/ ClientGameUpdate
  /\ UNCHANGED <<p, in, admit, lost, joins, leaves, misread, refused>>

-----------------------------------------------------------------------------
(* The server: the receive loop of Server::update *)

\* PlayerImpl::kick
Kick(rest) == Disconnect("server", rest) /\ p' = [p EXCEPT !.connected = FALSE]

\* StateManager::update after a failure, and the kick that follows.
Fail == Disconnect("server", net) /\ p' = [p EXCEPT !.st = "failed", !.connected = FALSE]

\* What the player's current state does with a packet: {} when onRecvPacket
\* returns FALSE, else the player it leaves, as a singleton.

\* Mutant: version, game and room are not checked.
JoiningUnchecked == [p EXCEPT !.got = TRUE, !.response = "CHALLENGE"]

\* ServerHandshakeState::onRecvPacket.  The client echoes the challenge.
Joining == [p EXCEPT !.got = TRUE, !.response = IF admit THEN "CHALLENGE" ELSE "WRONG"]

HandshakeResult(k) ==
  CASE k = "JOIN" -> {Joining}
    [] k = "RESPONSE" /\ p.response = "CHALLENGE" ->
         {[p EXCEPT !.got = TRUE, !.response = "ACCEPTED"]}
    [] OTHER -> {}

\* Mutant: any packet completes the transition, as on the client.
TransitionResultAny(d) == {[p EXCEPT !.done = TRUE]}

\* TransitionState::onRecvPacket looks at the flags only.
TransitionResult(d) ==
  IF KindOf(d) = "ACK" THEN {[p EXCEPT !.done = TRUE]}
  ELSE {[p EXCEPT !.resend = @ \/ d.retr]}

\* ServerPlayerGameState::onRecvPacket: an ACK is too short.
GameResult(d) ==
  IF KindOf(d) = "ACK" THEN {}
  ELSE {[p EXCEPT !.unacked = 0, !.sendDiff = @ \/ ~Overtaken(d)]}

\* StateManager::onRecvPacket; a state that failed has cleared the states.
Result(d) ==
  CASE p.st = "handshake"  -> HandshakeResult(KindOf(d))
    [] p.st = "transition" -> TransitionResult(d)
    [] p.st = "game"       -> GameResult(d)
    [] p.st = "failed"     -> {}

\* PlayerImpl::addPacket; Server::update kicks the player when it returns FALSE.
PlayerRecv(d) ==
  /\ d.to = "server" /\ p.st \notin {"none", "gone"}
  /\ IF Ignored(d)
       THEN net' = net \ {d} /\ UNCHANGED <<p, out, in, refused, misread>>
     ELSE IF KindOf(d) = "FINISHED"
       THEN /\ Taken(d) /\ net' = net \ {d}
            /\ p' = [p EXCEPT !.connected = FALSE]
            /\ UNCHANGED <<out, refused, misread>>
     ELSE /\ Taken(d)
          /\ misread' = (misread \/ (p.st = "game" /\ KindOf(d) \notin {"INPUT", "ACK"}
                                                   /\ ~Overtaken(d)))
          /\ IF Result(d) = {}
               THEN Kick(net \ {d}) /\ refused' = (refused \/ p.connected)
               ELSE p' \in Result(d) /\ net' = net \ {d} /\ UNCHANGED <<out, refused>>
  /\ UNCHANGED <<c, admit, lost, joins, leaves>>

\* A datagram of an unknown address creates a player if connect_check takes it,
\* which only a join request passes.  Bound: one player is created.
PlayerCreate(d) ==
  /\ d.to = "server" /\ p.st = "none"
  /\ net' = net \ {d}
  /\ IF KindOf(d) = "JOIN"
       THEN Taken(d) /\ p' = [Joining EXCEPT !.st = NewPlayer.st]
       ELSE UNCHANGED <<p, in>>
  /\ UNCHANGED <<c, out, admit, lost, joins, leaves, misread, refused>>

\* Datagrams for a removed player or a closed client fall on deaf ears.
NobodyHears(d) ==
  /\ \/ d.to = "server" /\ p.st = "gone"
     \/ d.to = "client" /\ c.st = "ended"
  /\ net' = net \ {d}
  /\ UNCHANGED <<c, p, out, in, admit, lost, joins, leaves, misread, refused>>

\* ... or the closed port is reported and recvPacket fails with its address.
PortUnreachable(d) ==
  /\ d.to = "client" /\ c.st = "ended"
  /\ p.st \notin {"none", "gone"}
  /\ net' = net \ {d}
  /\ p' = [p EXCEPT !.st = "gone", !.connected = FALSE]
  /\ leaves' = leaves + 1
  /\ UNCHANGED <<c, out, in, admit, lost, joins, misread, refused>>

-----------------------------------------------------------------------------
(* The server: the tick at the end of Server::update *)

Playing == p.st \in {"handshake", "transition", "game"}

\* Mutant: only the transition and game states time out.
ServerTimedOutLater == p.st \in {"transition", "game"} /\ p.idle > ServerSecs[p.st]

ServerTimedOut == Playing /\ p.idle > ServerSecs[p.st]

ServerHandshakeNeeds  == p.st = "handshake" /\ p.got
ServerTransitionNeeds == p.st = "transition" /\ (p.resend \/ p.done)
ServerGameNeeds       == p.st = "game" /\ p.unacked < MaxUnacked

ServerNeedsUpdate == ServerHandshakeNeeds \/ ServerTransitionNeeds \/ ServerGameNeeds

ServerDue ==
  p.st \notin {"none", "gone"} /\ (~p.connected \/ ServerNeedsUpdate \/ ServerTimedOut)

RemovePlayer ==
  /\ ~p.connected
  /\ p' = [p EXCEPT !.st = "gone"]
  /\ leaves' = leaves + 1
  /\ UNCHANGED <<out, net, joins>>

ServerHandshakeUpdate ==
  /\ p.st = "handshake"
  /\ \/ /\ p.response = "CHALLENGE"
        /\ Send("server", "CHALLENGE", net)
        /\ p' = [p EXCEPT !.got = FALSE, !.idle = 0]
        /\ UNCHANGED joins
     \/ /\ p.response = "ACCEPTED"   \* PLAYER_JOIN, then STATE_CHANGE
        /\ Send("server", "ACCEPTED", net)
        /\ p' = [BeginTransition(p) EXCEPT !.got = FALSE, !.resend = FALSE]
        /\ joins' = joins + 1
     \/ p.response \in {"WRONG", "NONE"} /\ Fail /\ UNCHANGED joins

ServerTransitionUpdate ==
  /\ p.st = "transition"
  /\ IF p.resend
       THEN Resend("server") /\ p' = [p EXCEPT !.resend = FALSE, !.idle = 0]
     ELSE IF ServerTimedOut \/ ~p.done
       THEN Fail
     ELSE p' = [p EXCEPT !.st = "game", !.idle = 0] /\ UNCHANGED <<out, net>>
  /\ UNCHANGED joins

\* A full snapshot uses up the whole allowance; "found" is whether the state the
\* client acknowledged is still among the stored ones.
ServerGameUpdate ==
  /\ p.st = "game"
  /\ \/ ServerTimedOut /\ Fail
     \/ /\ ~ServerTimedOut
        /\ Send("server", "SNAP", net)
        /\ \E found \in BOOLEAN :
             LET diff == p.sendDiff /\ found IN
             p' = [p EXCEPT !.sendDiff = diff, !.idle = 0,
                            !.unacked = IF diff THEN @ + 1 ELSE MaxUnacked]
  /\ UNCHANGED joins

\* Mutant: players are updated whether they are connected or not.
ServerTickRegardless ==
  /\ ServerDue
  /\ \/ RemovePlayer
     \/ /\ ServerHandshakeUpdate \/ ServerTransitionUpdate \/ ServerGameUpdate
        /\ UNCHANGED leaves
  /\ UNCHANGED <<c, in, admit, lost, misread, refused>>

ServerTick ==
  /\ ServerDue
  /\ \/ RemovePlayer
     \/ /\ p.connected
        /\ ServerHandshakeUpdate \/ ServerTransitionUpdate \/ ServerGameUpdate
        /\ UNCHANGED leaves
  /\ UNCHANGED <<c, in, admit, lost, misread, refused>>

-----------------------------------------------------------------------------
(* The environment *)

Lose(d) ==
  /\ Len(lost) < MaxLoss
  /\ net' = net \ {d}
  /\ lost' = Append(lost, KindOf(d))
  /\ UNCHANGED <<c, p, out, in, admit, joins, leaves, misread, refused>>

\* The application destroys its Client, or kicks the player.
ClientQuits ==
  /\ MayQuit /\ IsConnected
  /\ c' = [c EXCEPT !.st = "ended"]
  /\ Disconnect("client", net)
  /\ UNCHANGED <<p, in, admit, lost, joins, leaves, misread, refused>>

ServerKicks ==
  /\ MayQuit /\ p.st \notin {"none", "gone"} /\ p.connected
  /\ Kick(net)
  /\ UNCHANGED <<c, in, admit, lost, joins, leaves, misread, refused>>

BothInGame == c.st = "game" /\ p.st = "game"

\* A second passes.  Timely: both loops run several times a second and the
\* round trip is shorter than a second.  The counters stop one above the
\* largest timeout; once both sides play, the clock is of no more interest.
Tick ==
  /\ ~BothInGame
  /\ Timely => net = {} /\ ~ClientDue /\ ~ServerDue
  /\ c' = IF ~IsConnected \/ c.phase = "NOT_STARTED" \/ ClientTimedOut THEN c
          ELSE [c EXCEPT !.idle = @ + 1]
  /\ p' = IF ~Playing \/ ServerTimedOut THEN p
          ELSE [p EXCEPT !.idle = @ + 1]
  /\ <<c', p'>> # <<c, p>>
  /\ UNCHANGED <<out, in, net, admit, lost, joins, leaves, misread, refused>>

Deliver(d) == ClientRecv(d) \/ PlayerRecv(d) \/ PlayerCreate(d) \/ NobodyHears(d)

Next ==
  \/ \E d \in net : ClientRecv(d)
  \/ \E d \in net : PlayerRecv(d)
  \/ \E d \in net : PlayerCreate(d)
  \/ \E d \in net : NobodyHears(d)
  \/ \E d \in net : PortUnreachable(d)
  \/ \E d \in net : Lose(d)
  \/ ClientConnects
  \/ ClientUpdate
  \/ ServerTick
  \/ ClientQuits
  \/ ServerKicks
  \/ Tick

Spec == Init /\ [][Next]_vars

\* The client connects, both applications keep calling update, the network delivers what it does
\* not lose, and time passes.
Fairness ==
  /\ WF_vars(ClientConnects)
  /\ WF_vars(ClientUpdate)
  /\ WF_vars(ServerTick)
  /\ WF_vars(\E d \in net : Deliver(d))
  /\ WF_vars(Tick)

FairSpec == Spec /\ Fairness

-----------------------------------------------------------------------------
(* Properties *)

\* The session's variables keep to their types.
TypeOK ==
  /\ c \in ClientState /\ p \in PlayerState
  /\ out \in [Side -> Seq(Kind)] /\ in \in [Side -> SUBSET Nat]
  /\ \A s \in Side : Len(out[s]) <= MaxOut[s] + 1 /\ in[s] \subseteq 1 .. Len(out[Other(s)])
  /\ net \subseteq Datagram /\ \A d \in net : d.id <= Len(out[Other(d.to)])
  /\ admit \in BOOLEAN /\ lost \in Seq(Kind) /\ Len(lost) <= MaxLoss
  /\ joins \in Nat /\ leaves \in Nat /\ misread \in BOOLEAN /\ refused \in BOOLEAN

\* No state is handed a packet meant for another one: however packets are
\* delayed and retransmitted around the two state changes, game states parse
\* game packets and the client's handshake parses handshake answers
\* (TransitionState exists for this; a game state has no way to tell).
NeverMisread == ~misread

\* Client and server agree on how far the session is: the client leaves the
\* handshake only once the server has announced the player to the application,
\* has game data to answer only once the server's side plays (a late challenge
\* may take it into its game state earlier, where it stays silent), and the
\* server plays only once the client has acknowledged the change of state.
StatesAgree ==
  /\ c.st \in {"transition", "game"} => joins = 1
  /\ c.got => p.st \notin {"none", "handshake", "transition"}
  /\ p.st = "game" => \E i \in in["server"] : out["client"][i] = "ACK"

\* The application is told once of a player that joins, never of one the
\* server does not admit or that has not answered the challenge; it is told
\* once that the player leaves, and nothing after that.
JoinOnceAdmitted ==
  /\ joins <= 1 /\ leaves <= 1
  /\ joins = 1 => admit /\ \E i \in in["server"] : out["client"][i] = "RESPONSE"
  /\ leaves = 1 <=> p.st = "gone"

\* Neither side drops the other for a packet it sent, when both run this code
\* and at most one datagram is lost: what the states refuse (a second
\* challenge response, an answer nobody waits for) is never sent.
NoConformingPeerRefused == ~refused

\* Once the end of the session has reached a player it is not served again.
\* A step may not bring a disconnected player back or send it a game packet.
NoServiceAfterEnd ==
  [][~p.connected => ~p'.connected /\ joins' = joins
       /\ SubSeq(out'["server"], Len(out["server"]) + 1, Len(out'["server"]))
            \in Seq({"FINISHED"})]_vars

\* The kinds whose loss some timer repairs: the client repeats a JOIN, RESPONSE
\* or ACK, the server's handshake sends another CHALLENGE.
RepairedKinds == {"JOIN", "CHALLENGE", "RESPONSE", "ACK"}

\* An admitted client gets to play, although one datagram of these kinds is lost.
ConnectsAfterRepair ==
  admit ~> (BothInGame \/ \E i \in DOMAIN lost : lost[i] \notin RepairedKinds)

\* nrg_state_manager.h:35 "Class to reliably handle switching between two
\* states": an admitted client gets to play, whichever datagram is lost.
Connects == admit ~> BothInGame

Settled ==
  \/ BothInGame
  \/ c.st = "ended" /\ p.st \in {"none", "gone"}

\* With one datagram lost, whichever it is, both sides end up playing or both
\* notice that the session is over: nobody is left waiting for ever.
BothSettle == <>[]Settled
=============================================================================
