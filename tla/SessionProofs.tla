---------------------------- MODULE SessionProofs ----------------------------
(***************************************************************************)
(* Proofs about Session, for all timeouts, any number of retries, packets  *)
(* and losses, whatever the network does and whenever the applications     *)
(* quit (Timely and MayQuit are any Booleans).  The last part, on packets  *)
(* that are refused, is about one loss and a network that keeps time.      *)
(***************************************************************************)
EXTENDS Session, SequenceTheorems, TLAPS

-----------------------------------------------------------------------------
(* The inductive invariant *)

Sent(s, k)      == \E i \in 1 .. Len(out[s]) : out[s][i] = k
TakenKind(s, k) == \E i \in in[s] : out[Other(s)][i] = k

\* What a side sends after a packet of kind k is of one of the kinds ks.
OnlyAfter(s, k, ks) ==
  \A i, j \in 1 .. Len(out[s]) : i < j /\ out[s][i] = k => out[s][j] \in ks

\* The client: its timers, what it has sent, and what it knows of the server.
\* A change of state is acknowledged once it has been announced, and only a
\* server that plays sends snapshots.
ClientInv ==
  /\ c.phase = "NOT_STARTED" => c.idle = 0
  /\ c.phase # "NOT_STARTED" => Len(out["client"]) > 0
  /\ IsConnected => c.timeouts <= Retries
  /\ c.st \in {"transition", "game"} => c.phase = "ACCEPTED"
  /\ c.phase = "ACCEPTED" => TakenKind("client", "ACCEPTED")
  /\ c.got => Sent("server", "SNAP")
  /\ Sent("client", "ACK") => c.st \notin {"unconnected", "handshake"}
  /\ Sent("client", "ACK") /\ c.st = "transition" => ~c.starting
  /\ OnlyAfter("client", "ACK", {"INPUT", "FINISHED"})

\* The player: how far it has come and what that presumes of the client.
PlayerInv ==
  /\ \A i \in 1 .. Len(out["server"]) :
       out["server"][i] \in {"CHALLENGE", "ACCEPTED", "SNAP", "FINISHED"}
  /\ OnlyAfter("server", "ACCEPTED", {"SNAP", "FINISHED"})
  /\ Sent("server", "ACCEPTED") => p.st \notin {"none", "handshake"} /\ joins = 1
  /\ Sent("server", "SNAP") => /\ p.st \notin {"none", "handshake", "transition"}
                               /\ TakenKind("server", "ACK")
  /\ p.st = "transition" => Len(out["server"]) > 0
  /\ p.st = "none" => p.connected
  /\ p.response = "CHALLENGE" => admit
  /\ p.response = "ACCEPTED" => admit /\ TakenKind("server", "RESPONSE")
  /\ p.done => TakenKind("server", "ACK")
  /\ p.st = "game" => p.done
  /\ joins <= 1 /\ (p.st \in {"none", "handshake"} => joins = 0)
  /\ joins = 1 => admit /\ TakenKind("server", "RESPONSE")
  /\ leaves = IF p.st = "gone" THEN 1 ELSE 0

IInv == TypeOK /\ ClientInv /\ PlayerInv /\ ~misread

-----------------------------------------------------------------------------
(* Packets *)

LEMMA TwoSides ==
  /\ \A s \in Side : Other(s) \in Side /\ Other(s) # s /\ Other(Other(s)) = s
  /\ Other("client") = "server" /\ Other("server") = "client"
  /\ Side = {"client", "server"}
  /\ \A s \in Side : MaxOut[s] \in Nat
BY SessionAssumption DEF Side, Other

\* What either side has sent and taken.
LEMMA PacketsTyped ==
  ASSUME TypeOK, NEW s \in Side
  PROVE  /\ out[s] \in Seq(Kind) /\ Len(out[s]) \in Nat /\ Len(out[s]) <= MaxOut[s] + 1
         /\ \A i \in 1 .. Len(out[s]) : out[s][i] \in Kind
         /\ in[s] \subseteq 1 .. Len(out[Other(s)])
BY DEF TypeOK

\* A datagram in flight was sent.
LEMMA DatagramSent ==
  ASSUME TypeOK, NEW d \in net
  PROVE  /\ d \in Datagram /\ d.to \in Side /\ d.retr \in BOOLEAN
         /\ d.id \in 1 .. Len(out[Other(d.to)])
         /\ KindOf(d) \in Kind
<1>1. d \in Datagram /\ d.id <= Len(out[Other(d.to)])
  BY DEF TypeOK
<1>2. d.to \in Side /\ d.id \in Nat \ {0} /\ d.retr \in BOOLEAN
  BY <1>1, TwoSides DEF Datagram, Side
<1>3. d.id \in 1 .. Len(out[Other(d.to)])
  BY <1>1, <1>2, TwoSides, PacketsTyped
<1>. QED  BY <1>1, <1>2, <1>3, TwoSides, PacketsTyped DEF KindOf

\* Side s sends a packet, whether of its session or to end it.
Emits(s, k, rest) ==
  /\ Len(out[s]) <= MaxOut[s]
  /\ out' = [out EXCEPT ![s] = Append(@, k)]
  /\ net' = rest \cup {[to |-> Other(s), id |-> Len(out[s]) + 1, retr |-> FALSE]}

LEMMA SendEmits ==
  ASSUME TypeOK, NEW s \in Side, NEW k, NEW rest
  PROVE  /\ Send(s, k, rest) => Emits(s, k, rest)
         /\ Disconnect(s, rest) => Emits(s, "FINISHED", rest)
BY PacketsTyped, TwoSides DEF Send, Disconnect, Emits

LEMMA EmitsPacket ==
  ASSUME TypeOK, NEW s \in Side, NEW k \in Kind, NEW rest \in SUBSET net, Emits(s, k, rest)
  PROVE  /\ out' \in [Side -> Seq(Kind)]
         /\ Len(out'[s]) = Len(out[s]) + 1
         /\ \A i \in 1 .. Len(out[s]) : out'[s][i] = out[s][i]
         /\ out'[s][Len(out[s]) + 1] = k
         /\ out'[Other(s)] = out[Other(s)]
         /\ \A t \in Side : /\ Len(out'[t]) <= MaxOut[t] + 1
                            /\ 1 .. Len(out[t]) \subseteq 1 .. Len(out'[t])
         /\ net' \subseteq Datagram /\ \A d \in net' : d.id <= Len(out'[Other(d.to)])
<1>1. out'[s] = Append(out[s], k) /\ out'[Other(s)] = out[Other(s)]
  BY TwoSides DEF Emits, TypeOK
<1>2. /\ out[s] \in Seq(Kind) /\ Len(out[s]) \in Nat /\ MaxOut[s] \in Nat
      /\ Len(out[s]) <= MaxOut[s]
      /\ Other(s) \in Side /\ Len(out[Other(s)]) \in Nat
      /\ Len(out[Other(s)]) <= MaxOut[Other(s)] + 1
  BY PacketsTyped, TwoSides DEF Emits
<1>3. /\ Len(out'[s]) = Len(out[s]) + 1
      /\ \A i \in 1 .. Len(out[s]) : out'[s][i] = out[s][i]
      /\ out'[s][Len(out[s]) + 1] = k
  BY <1>1, <1>2
<1>4. out' \in [Side -> Seq(Kind)]
  BY <1>2 DEF Emits, TypeOK
<1>5. \A t \in Side : /\ Len(out'[t]) <= MaxOut[t] + 1
                      /\ 1 .. Len(out[t]) \subseteq 1 .. Len(out'[t])
                      /\ Len(out[t]) <= Len(out'[t]) /\ Len(out'[t]) \in Nat /\ Len(out[t]) \in Nat
  <2>1. \A t \in Side : t = s \/ t = Other(s)
    BY TwoSides
  <2>. QED  BY <1>1, <1>2, <1>3, <2>1
<1>. DEFINE new == [to |-> Other(s), id |-> Len(out[s]) + 1, retr |-> FALSE]
<1>6. new \in Datagram /\ new.id <= Len(out'[Other(new.to)])
  <2>1. Len(out[s]) + 1 \in 1 .. MaxOut["client"] + MaxOut["server"] + 1
    BY <1>2, TwoSides
  <2>. QED  BY <1>2, <1>3, <2>1, TwoSides DEF Datagram
<1>7. \A d \in net : d \in Datagram /\ d.id <= Len(out'[Other(d.to)])
  <2>. SUFFICES ASSUME NEW d \in net
                PROVE  d \in Datagram /\ d.id <= Len(out'[Other(d.to)])
    OBVIOUS
  <2>1. d \in Datagram /\ d.to \in Side /\ d.id \in 1 .. Len(out[Other(d.to)])
    BY DatagramSent
  <2>. QED  BY <1>5, <2>1, TwoSides
<1>8. net' \subseteq net \cup {new}
  BY DEF Emits
<1>. QED  BY <1>1, <1>3, <1>4, <1>5, <1>6, <1>7, <1>8

\* What has been sent and taken stays so.
LEMMA TakenStays ==
  ASSUME TypeOK, NEW s \in Side, NEW k, in[s] \subseteq in'[s],
         \A i \in 1 .. Len(out[Other(s)]) : out'[Other(s)][i] = out[Other(s)][i]
  PROVE  TakenKind(s, k) => TakenKind(s, k)'
BY PacketsTyped DEF TakenKind

LEMMA SentStays ==
  ASSUME NEW s \in Side, NEW k, 1 .. Len(out[s]) \subseteq 1 .. Len(out'[s]),
         \A i \in 1 .. Len(out[s]) : out'[s][i] = out[s][i]
  PROVE  Sent(s, k) => Sent(s, k)'
BY DEF Sent

\* ... and nothing else than what has just been sent is new.
LEMMA SentIsNew ==
  ASSUME TypeOK, NEW s \in Side, NEW k \in Kind, NEW rest \in SUBSET net, Emits(s, k, rest),
         NEW l
  PROVE  Sent(s, l)' <=> (Sent(s, l) \/ l = k)
<1>1. /\ Len(out[s]) \in Nat
      /\ Len(out'[s]) = Len(out[s]) + 1
      /\ \A i \in 1 .. Len(out[s]) : out'[s][i] = out[s][i]
      /\ out'[s][Len(out[s]) + 1] = k
  BY EmitsPacket, PacketsTyped
<1>. QED  BY <1>1, SMTT(30) DEF Sent

\* The order of what a side sends.
LEMMA OrderKept ==
  ASSUME TypeOK, NEW s \in Side, NEW k \in Kind, NEW rest \in SUBSET net, Emits(s, k, rest),
         NEW l, NEW ks, OnlyAfter(s, l, ks), k \in ks \/ ~Sent(s, l)
  PROVE  OnlyAfter(s, l, ks)'
<1>1. /\ Len(out[s]) \in Nat
      /\ Len(out'[s]) = Len(out[s]) + 1
      /\ \A i \in 1 .. Len(out[s]) : out'[s][i] = out[s][i]
      /\ out'[s][Len(out[s]) + 1] = k
  BY EmitsPacket, PacketsTyped
<1>. SUFFICES ASSUME NEW i \in 1 .. Len(out'[s]), NEW j \in 1 .. Len(out'[s]),
                     i < j, out'[s][i] = l
              PROVE  out'[s][j] \in ks
  BY DEF OnlyAfter
<1>2. i \in 1 .. Len(out[s]) /\ out[s][i] = l
  BY <1>1
<1>3. CASE j \in 1 .. Len(out[s])
  BY <1>1, <1>2, <1>3 DEF OnlyAfter
<1>4. CASE j = Len(out[s]) + 1
  BY <1>1, <1>2, <1>4 DEF Sent
<1>. QED  BY <1>1, <1>3, <1>4

\* A datagram is taken.
LEMMA TakingTyped ==
  ASSUME TypeOK, NEW d \in net,
         in' = in \/ in' = [in EXCEPT ![d.to] = @ \cup {d.id}]
  PROVE  /\ in' \in [Side -> SUBSET Nat]
         /\ \A s \in Side : in[s] \subseteq in'[s] /\ in'[s] \subseteq 1 .. Len(out[Other(s)])
         /\ in'[Other(d.to)] = in[Other(d.to)]
<1>1. d.to \in Side /\ d.id \in 1 .. Len(out[Other(d.to)]) /\ Len(out[Other(d.to)]) \in Nat
  BY DatagramSent, PacketsTyped, TwoSides
<1>2. Other(d.to) # d.to
  BY <1>1, TwoSides
<1>3. /\ in \in [Side -> SUBSET Nat]
      /\ \A s \in Side : in[s] \subseteq 1 .. Len(out[Other(s)])
  BY PacketsTyped DEF TypeOK
<1>4. CASE in' = in
  BY <1>3, <1>4
<1>5. CASE in' = [in EXCEPT ![d.to] = @ \cup {d.id}]
  <2>1. d.id \in Nat
    BY <1>1
  <2>2. in' \in [Side -> SUBSET Nat]
    BY <1>3, <1>5, <2>1
  <2>3. in'[d.to] = in[d.to] \cup {d.id} /\ \A s \in Side : s # d.to => in'[s] = in[s]
    BY <1>1, <1>3, <1>5
  <2>4. in'[Other(d.to)] = in[Other(d.to)]
    BY <1>1, <1>2, <2>3, TwoSides
  <2>5. \A s \in Side : in[s] \subseteq in'[s] /\ in'[s] \subseteq 1 .. Len(out[Other(s)])
    <3>. SUFFICES ASSUME NEW s \in Side
                  PROVE  in[s] \subseteq in'[s] /\ in'[s] \subseteq 1 .. Len(out[Other(s)])
      OBVIOUS
    <3>1. CASE s = d.to
      BY <1>1, <1>3, <2>3, <3>1
    <3>2. CASE s # d.to
      BY <1>3, <2>3, <3>2
    <3>. QED  BY <3>1, <3>2
  <2>. QED  BY <2>2, <2>4, <2>5
<1>. QED  BY <1>4, <1>5

\* Whatever becomes of the packets, the variables of the network keep their types.
LEMMA NetTyped ==
  ASSUME TypeOK, out' = out, net' \subseteq net
  PROVE  /\ out' \in [Side -> Seq(Kind)]
         /\ \A s \in Side : Len(out'[s]) <= MaxOut[s] + 1
         /\ net' \subseteq Datagram /\ \A d \in net' : d.id <= Len(out'[Other(d.to)])
BY DEF TypeOK

\* A side that resends its last packet has sent one.
LEMMA ResendTyped ==
  ASSUME TypeOK, NEW s \in Side, Len(out[s]) > 0, Resend(s)
  PROVE  out' = out /\ net' \subseteq Datagram /\ \A d \in net' : d.id <= Len(out'[Other(d.to)])
<1>. DEFINE new == [to |-> Other(s), id |-> Len(out[s]), retr |-> TRUE]
<1>1. /\ Len(out[s]) \in Nat /\ Len(out[s]) <= MaxOut[s] + 1
      /\ MaxOut["client"] \in Nat /\ MaxOut["server"] \in Nat
  BY PacketsTyped, TwoSides
<1>2. Len(out[s]) \in 1 .. MaxOut["client"] + MaxOut["server"] + 1
  BY <1>1, TwoSides
<1>3. new \in Datagram /\ new.id <= Len(out[Other(new.to)])
  BY <1>1, <1>2, TwoSides DEF Datagram
<1>4. \A d \in net : d \in Datagram /\ d.id <= Len(out[Other(d.to)])
  BY DEF TypeOK
<1>5. out' = out /\ net' = net \cup {new}
  BY DEF Resend
<1>. QED  BY <1>3, <1>4, <1>5

\* An acknowledgement the server has taken was sent, and so on.
LEMMA TakenWasSent ==
  ASSUME TypeOK, NEW s \in Side, NEW k, TakenKind(s, k)
  PROVE  Sent(Other(s), k)
BY PacketsTyped DEF TakenKind, Sent

-----------------------------------------------------------------------------
(* Each side's invariant while the other takes a step *)

LEMMA PlayerUntouched ==
  ASSUME TypeOK, PlayerInv, p' = p, joins' = joins, leaves' = leaves, admit' = admit,
         in["server"] \subseteq in'["server"], out'["server"] = out["server"],
         \A i \in 1 .. Len(out["client"]) : out'["client"][i] = out["client"][i]
  PROVE  PlayerInv'
<1>1. \A k : TakenKind("server", k) => TakenKind("server", k)'
  BY TakenStays, TwoSides
<1>2. \A k : Sent("server", k)' <=> Sent("server", k)
  BY DEF Sent
<1>3. OnlyAfter("server", "ACCEPTED", {"SNAP", "FINISHED"})'
  BY DEF PlayerInv, OnlyAfter
<1>. QED  BY <1>1, <1>2, <1>3 DEF PlayerInv

LEMMA ClientUntouched ==
  ASSUME TypeOK, ClientInv, c' = c,
         in["client"] \subseteq in'["client"], out'["client"] = out["client"],
         1 .. Len(out["server"]) \subseteq 1 .. Len(out'["server"]),
         \A i \in 1 .. Len(out["server"]) : out'["server"][i] = out["server"][i]
  PROVE  ClientInv'
<1>1. \A k : TakenKind("client", k) => TakenKind("client", k)'
  BY TakenStays, TwoSides
<1>2. \A k : /\ Sent("client", k)' <=> Sent("client", k)
             /\ Sent("server", k) => Sent("server", k)'
  <2>1. \A k : Sent("server", k) => Sent("server", k)'
    BY SentStays, TwoSides
  <2>. QED  BY <2>1 DEF Sent
<1>3. OnlyAfter("client", "ACK", {"INPUT", "FINISHED"})'
  BY DEF ClientInv, OnlyAfter
<1>. QED  BY <1>1, <1>2, <1>3 DEF ClientInv, IsConnected

-----------------------------------------------------------------------------
(* The client's steps *)

\* The client ends the session with a disconnect.
LEMMA ClientEnds ==
  ASSUME TypeOK, ClientInv, NEW rest \in SUBSET net, Emits("client", "FINISHED", rest),
         c'.st = "ended", c'.phase = c.phase, c'.got = c.got, c'.idle \in {c.idle, 0},
         in["client"] \subseteq in'["client"]
  PROVE  ClientInv'
<1>1. /\ Len(out'["client"]) = Len(out["client"]) + 1
      /\ Len(out["client"]) \in Nat
      /\ out'["server"] = out["server"]
  BY EmitsPacket, PacketsTyped, TwoSides DEF Kind
<1>2. OnlyAfter("client", "ACK", {"INPUT", "FINISHED"})'
  BY OrderKept, TwoSides DEF ClientInv, Kind
<1>3. TakenKind("client", "ACCEPTED") => TakenKind("client", "ACCEPTED")'
  BY <1>1, TakenStays, TwoSides
<1>4. Sent("server", "SNAP") => Sent("server", "SNAP")'
  BY <1>1 DEF Sent
<1>. QED  BY <1>1, <1>2, <1>3, <1>4 DEF ClientInv, IsConnected

\* What a client that is not ended can still be sent: as long as it shakes
\* hands, no snapshot; and nothing but snapshots after the acceptance.
LEMMA ClientHears ==
  ASSUME IInv, NEW d \in net, d.to = "client", ~Ignored(d), KindOf(d) # "FINISHED"
  PROVE  /\ c.st = "handshake" => KindOf(d) \in {"CHALLENGE", "ACCEPTED"}
         /\ c.st \in {"transition", "game"} /\ ~Overtaken(d) => KindOf(d) = "SNAP"
<1>1. /\ d.id \in 1 .. Len(out["server"]) /\ KindOf(d) = out["server"][d.id]
      /\ d.id \notin in["client"]
      /\ in["client"] \subseteq 1 .. Len(out["server"])
  BY DatagramSent, PacketsTyped, TwoSides DEF IInv, KindOf, Ignored
<1>2. KindOf(d) \in {"CHALLENGE", "ACCEPTED", "SNAP"}
  BY <1>1 DEF IInv, PlayerInv
<1>3. ASSUME c.st = "handshake", KindOf(d) = "SNAP"
      PROVE  FALSE
  <2>1. Sent("server", "SNAP")
    BY <1>1, <1>3 DEF Sent
  <2>2. Sent("client", "ACK")
    BY <2>1, TakenWasSent, TwoSides DEF IInv, PlayerInv
  <2>. QED  BY <1>3, <2>2 DEF IInv, ClientInv
<1>4. ASSUME c.st \in {"transition", "game"}, ~Overtaken(d)
      PROVE  KindOf(d) = "SNAP"
  <2>1. PICK i \in in["client"] : out["server"][i] = "ACCEPTED"
    BY <1>4, TwoSides DEF IInv, ClientInv, TakenKind
  <2>2. i < d.id
    <3>1. ~(i > d.id) /\ i # d.id
      BY <1>1, <1>4, <2>1 DEF Overtaken
    <3>. QED  BY <1>1, <3>1, PacketsTyped, TwoSides DEF IInv
  <2>3. out["server"][d.id] \in {"SNAP", "FINISHED"}
    BY <1>1, <2>1, <2>2 DEF IInv, PlayerInv, OnlyAfter
  <2>. QED  BY <1>1, <2>3
<1>. QED  BY <1>2, <1>3, <1>4

\* What a packet does to the client: nothing, or it ends, or it learns the
\* answer of the handshake, or that the server plays.
LEMMA ClientRecvEffect ==
  ASSUME IInv, NEW d \in net, ClientRecv(d)
  PROVE  /\ c' \in ClientState /\ misread' = misread /\ refused' \in BOOLEAN
         /\ \/ /\ c'.st = "ended" /\ c' = [c EXCEPT !.st = "ended"]
               /\ \/ out' = out /\ net' \subseteq net
                  \/ Emits("client", "FINISHED", net \ {d})
            \/ /\ out' = out /\ net' \subseteq net
               /\ \/ c' = c
                  \/ /\ c.st = "handshake" /\ c.phase = "WAITING"
                     /\ c' = [c EXCEPT !.phase = KindOf(d)]
                     /\ KindOf(d) = "ACCEPTED" => TakenKind("client", "ACCEPTED")'
                     /\ KindOf(d) \in {"CHALLENGE", "ACCEPTED"}
                  \/ \E done \in BOOLEAN, got \in BOOLEAN :
                       /\ c.st \in {"transition", "game"}
                       /\ c' = [c EXCEPT !.done = done, !.got = got]
                       /\ got => c.got \/ Sent("server", "SNAP")
<1>1. /\ d.to = "client" /\ IsConnected /\ TypeOK
      /\ d.id \in 1 .. Len(out["server"]) /\ KindOf(d) = out["server"][d.id]
      /\ c \in ClientState /\ misread \in BOOLEAN /\ refused \in BOOLEAN
  BY DatagramSent, TwoSides DEF IInv, TypeOK, ClientRecv, KindOf
<1>2. CASE Ignored(d) \/ (KindOf(d) = "FINISHED" /\ Overtaken(d))
  BY <1>1, <1>2 DEF ClientRecv
<1>3. CASE ~(Ignored(d) \/ (KindOf(d) = "FINISHED" /\ Overtaken(d))) /\ KindOf(d) = "FINISHED"
  BY <1>1, <1>3 DEF ClientRecv, ClientState
<1>4. CASE ~Ignored(d) /\ KindOf(d) # "FINISHED"
  <2>1. /\ c.st = "handshake" => KindOf(d) \in {"CHALLENGE", "ACCEPTED"}
        /\ c.st \in {"transition", "game"} /\ ~Overtaken(d) => KindOf(d) = "SNAP"
    BY <1>1, <1>4, ClientHears
  <2>2. IF c'.st = "ended" THEN Disconnect("client", net \ {d})
        ELSE net' = net \ {d} /\ out' = out
    BY <1>4 DEF ClientRecv
  <2>3. IF c'.st = "ended" THEN Emits("client", "FINISHED", net \ {d})
        ELSE net' \subseteq net /\ out' = out
    BY <1>1, <2>2, SendEmits, TwoSides
  <2>4. in' = [in EXCEPT !["client"] = @ \cup {d.id}]
    BY <1>1, <1>4 DEF ClientRecv, Taken
  <2>5. CASE c.st = "handshake"
    <3>1. ClientHandshakeRecv(KindOf(d))
      BY <1>4, <2>5 DEF ClientRecv
    <3>2. CASE c.phase = "WAITING" /\ c' = [c EXCEPT !.phase = KindOf(d)]
                 /\ misread' = misread /\ refused' = refused
      <4>1. KindOf(d) = "ACCEPTED" /\ out' = out => TakenKind("client", "ACCEPTED")'
        BY <1>1, <2>4, TwoSides DEF TakenKind, TypeOK
      <4>2. c' \in ClientState /\ c'.st = c.st
        BY <1>1, <2>1, <2>5, <3>2 DEF ClientState
      <4>. QED  BY <1>1, <2>1, <2>3, <2>5, <3>2, <4>1, <4>2
    <3>3. CASE c' = [c EXCEPT !.st = "ended"] /\ misread' = misread /\ refused' = TRUE
      <4>1. c' \in ClientState /\ c'.st = "ended"
        BY <1>1, <3>3 DEF ClientState
      <4>. QED  BY <2>3, <3>3, <4>1
    <3>. QED  BY <2>1, <2>5, <3>1, <3>2, <3>3 DEF ClientHandshakeRecv
  <2>6. CASE c.st \in {"transition", "game"}
    <3>1. misread' = misread /\ refused' = refused
      BY <1>4, <2>1, <2>6 DEF ClientRecv, GameRecv
    <3>2. GotSnapshot(d) \in BOOLEAN /\ (GotSnapshot(d) => c.got \/ Sent("server", "SNAP"))
      BY <1>1 DEF GotSnapshot, Sent, ClientState
    <3>3. PICK done \in BOOLEAN : c' = [c EXCEPT !.done = done, !.got = GotSnapshot(d)]
      <4>1. \/ c' = [c EXCEPT !.done = TRUE, !.got = GotSnapshot(d)]
            \/ c' = [c EXCEPT !.got = GotSnapshot(d)]
        BY <1>4, <2>6 DEF ClientRecv
      <4>2. [c EXCEPT !.got = GotSnapshot(d)] = [c EXCEPT !.done = c.done, !.got = GotSnapshot(d)]
        BY <1>1 DEF ClientState
      <4>. QED  BY <1>1, <4>1, <4>2 DEF ClientState
    <3>4. c' \in ClientState /\ c'.st = c.st
      BY <1>1, <3>2, <3>3 DEF ClientState
    <3>. QED  BY <1>1, <2>3, <2>6, <3>1, <3>2, <3>3, <3>4
  <2>. QED  BY <1>4, <2>5, <2>6 DEF ClientRecv
<1>. QED  BY <1>2, <1>3, <1>4

LEMMA ClientRecvKeeps ==
  ASSUME IInv, NEW d \in net, ClientRecv(d)
  PROVE  IInv'
<1>1. /\ TypeOK /\ ClientInv /\ PlayerInv /\ d.to = "client" /\ IsConnected
      /\ p' = p /\ admit' = admit /\ lost' = lost /\ joins' = joins /\ leaves' = leaves
  BY DEF IInv, ClientRecv
<1>2. in' = in \/ in' = [in EXCEPT ![d.to] = @ \cup {d.id}]
  BY <1>1 DEF ClientRecv, Taken
<1>3. /\ in' \in [Side -> SUBSET Nat]
      /\ \A s \in Side : in[s] \subseteq in'[s] /\ in'[s] \subseteq 1 .. Len(out[Other(s)])
      /\ in'["server"] = in["server"]
  BY <1>1, <1>2, TakingTyped, TwoSides
<1>4. /\ c' \in ClientState /\ misread' = misread /\ refused' \in BOOLEAN
  BY ClientRecvEffect
<1>5. CASE c' = [c EXCEPT !.st = "ended"] /\ Emits("client", "FINISHED", net \ {d})
  <2>1. /\ out' \in [Side -> Seq(Kind)] /\ out'["server"] = out["server"]
        /\ \A i \in 1 .. Len(out["client"]) : out'["client"][i] = out["client"][i]
        /\ \A t \in Side : /\ Len(out'[t]) <= MaxOut[t] + 1
                           /\ 1 .. Len(out[t]) \subseteq 1 .. Len(out'[t])
        /\ net' \subseteq Datagram /\ \A e \in net' : e.id <= Len(out'[Other(e.to)])
    <3>1. "client" \in Side /\ "FINISHED" \in Kind /\ net \ {d} \in SUBSET net
      BY TwoSides DEF Kind
    <3>. QED  BY <1>1, <1>5, <3>1, EmitsPacket, TwoSides
  <2>2. \A s \in Side : in'[s] \subseteq 1 .. Len(out'[Other(s)])
    BY <1>3, <2>1, TwoSides
  <2>3. TypeOK'
    BY <1>1, <1>3, <1>4, <2>1, <2>2 DEF TypeOK
  <2>4. ClientInv'
    <3>1. c'.st = "ended" /\ c'.phase = c.phase /\ c'.got = c.got /\ c'.idle = c.idle
      BY <1>1, <1>5 DEF TypeOK, ClientState
    <3>. QED  BY <1>1, <1>3, <1>5, <3>1, ClientEnds, TwoSides
  <2>5. PlayerInv'
    BY <1>1, <1>3, <2>1, PlayerUntouched
  <2>. QED  BY <1>4, <2>3, <2>4, <2>5 DEF IInv
<1>6. CASE out' = out /\ net' \subseteq net
  <2>1. TypeOK'
    <3>1. \A s \in Side : in'[s] \subseteq 1 .. Len(out'[Other(s)])
      BY <1>3, <1>6
    <3>. QED  BY <1>1, <1>3, <1>4, <1>6, <3>1, NetTyped DEF TypeOK
  <2>2. PlayerInv'
    BY <1>1, <1>3, <1>6, PlayerUntouched
  <2>3. ClientInv'
    <3>1. \A k : /\ TakenKind("client", k) => TakenKind("client", k)'
                 /\ Sent("server", k)' <=> Sent("server", k)
                 /\ Sent("client", k)' <=> Sent("client", k)
      <4>1. \A k : TakenKind("client", k) => TakenKind("client", k)'
        BY <1>1, <1>3, <1>6, TakenStays, TwoSides
      <4>. QED  BY <1>6, <4>1 DEF Sent
    <3>2. OnlyAfter("client", "ACK", {"INPUT", "FINISHED"})'
      BY <1>1, <1>6 DEF ClientInv, OnlyAfter
    <3>3. Len(out'["client"]) = Len(out["client"])
      BY <1>6
    <3>4. \/ c' = c \/ c' = [c EXCEPT !.st = "ended"]
          \/ /\ c.st = "handshake" /\ c.phase = "WAITING"
             /\ c' = [c EXCEPT !.phase = KindOf(d)]
             /\ KindOf(d) = "ACCEPTED" => TakenKind("client", "ACCEPTED")'
             /\ KindOf(d) \in {"CHALLENGE", "ACCEPTED"}
          \/ \E done \in BOOLEAN, got \in BOOLEAN :
               /\ c.st \in {"transition", "game"}
               /\ c' = [c EXCEPT !.done = done, !.got = got]
               /\ got => c.got \/ Sent("server", "SNAP")
      BY ClientRecvEffect
    <3>5. CASE c' = c
      BY <1>1, <3>1, <3>2, <3>3, <3>5 DEF ClientInv, IsConnected
    <3>6. CASE c' = [c EXCEPT !.st = "ended"]
      <4>1. /\ c'.st = "ended" /\ c'.phase = c.phase /\ c'.got = c.got /\ c'.idle = c.idle
        BY <1>1, <3>6 DEF TypeOK, ClientState
      <4>. QED  BY <1>1, <3>1, <3>2, <3>3, <4>1 DEF ClientInv, IsConnected
    <3>7. CASE /\ c.st = "handshake" /\ c.phase = "WAITING"
               /\ c' = [c EXCEPT !.phase = KindOf(d)]
               /\ KindOf(d) = "ACCEPTED" => TakenKind("client", "ACCEPTED")'
               /\ KindOf(d) \in {"CHALLENGE", "ACCEPTED"}
      <4>1. /\ c'.st = c.st /\ c'.phase = KindOf(d) /\ c'.got = c.got /\ c'.timeouts = c.timeouts
        BY <1>1, <3>7 DEF TypeOK, ClientState
      <4>. QED  BY <1>1, <3>1, <3>2, <3>3, <3>7, <4>1 DEF ClientInv, IsConnected
    <3>8. ASSUME NEW done \in BOOLEAN, NEW got \in BOOLEAN,
                 c' = [c EXCEPT !.done = done, !.got = got],
                 got => c.got \/ Sent("server", "SNAP")
          PROVE  ClientInv'
      <4>1. /\ c'.st = c.st /\ c'.phase = c.phase /\ c'.got = got /\ c'.timeouts = c.timeouts
            /\ c'.idle = c.idle /\ c'.starting = c.starting
        BY <1>1, <3>8 DEF TypeOK, ClientState
      <4>. QED  BY <1>1, <3>1, <3>2, <3>3, <3>8, <4>1 DEF ClientInv, IsConnected
    <3>. QED  BY <3>4, <3>5, <3>6, <3>7, <3>8
  <2>. QED  BY <1>4, <2>1, <2>2, <2>3 DEF IInv
<1>. QED  BY <1>5, <1>6, ClientRecvEffect

\* Steps of the client that take no packet: what is left to show of them.
LEMMA ClientAlone ==
  ASSUME IInv, c' \in ClientState, p' = p, in' = in, admit' = admit, lost' = lost,
         joins' = joins, leaves' = leaves, misread' = misread, refused' = refused,
         (out' = out /\ net' \subseteq Datagram /\ \A d \in net' : d.id <= Len(out'[Other(d.to)]))
           \/ (\E k \in Kind : Emits("client", k, net)),
         ClientInv'
  PROVE  IInv'
<1>1. TypeOK /\ PlayerInv
  BY DEF IInv
<1>. DEFINE OutTyped ==
         /\ out' \in [Side -> Seq(Kind)] /\ out'["server"] = out["server"]
         /\ \A i \in 1 .. Len(out["client"]) : out'["client"][i] = out["client"][i]
         /\ \A t \in Side : /\ Len(out'[t]) <= MaxOut[t] + 1
                            /\ 1 .. Len(out[t]) \subseteq 1 .. Len(out'[t])
         /\ net' \subseteq Datagram /\ \A d \in net' : d.id <= Len(out'[Other(d.to)])
<1>2. OutTyped
  <2>1. CASE out' = out /\ net' \subseteq Datagram /\ (\A d \in net' : d.id <= Len(out'[Other(d.to)]))
    BY <1>1, <2>1 DEF TypeOK
  <2>2. ASSUME NEW k \in Kind, Emits("client", k, net)
        PROVE  OutTyped
    BY <1>1, <2>2, EmitsPacket, TwoSides
  <2>. QED  BY <2>1, <2>2
<1>3. \A s \in Side : in'[s] \subseteq 1 .. Len(out'[Other(s)])
  BY <1>1, <1>2, TwoSides, PacketsTyped
<1>4. TypeOK'
  BY <1>1, <1>2, <1>3 DEF TypeOK
<1>5. PlayerInv'
  BY <1>1, <1>2, PlayerUntouched
<1>. QED  BY <1>4, <1>5 DEF IInv

\* What of ClientInv is about packets, after the client has sent one.
LEMMA ClientSends ==
  ASSUME TypeOK, ClientInv, NEW k \in Kind, Emits("client", k, net), in' = in,
         k \in {"INPUT", "FINISHED"} \/ ~Sent("client", "ACK")
  PROVE  /\ Len(out'["client"]) > 0
         /\ TakenKind("client", "ACCEPTED") => TakenKind("client", "ACCEPTED")'
         /\ Sent("server", "SNAP") => Sent("server", "SNAP")'
         /\ Sent("client", "ACK")' => Sent("client", "ACK") \/ k = "ACK"
         /\ OnlyAfter("client", "ACK", {"INPUT", "FINISHED"})'
<1>1. /\ Len(out'["client"]) = Len(out["client"]) + 1
      /\ Len(out["client"]) \in Nat
      /\ out'["server"] = out["server"]
  BY EmitsPacket, PacketsTyped, TwoSides
<1>2. OnlyAfter("client", "ACK", {"INPUT", "FINISHED"})'
  BY OrderKept, TwoSides DEF ClientInv
<1>3. TakenKind("client", "ACCEPTED") => TakenKind("client", "ACCEPTED")'
  BY <1>1, TakenStays, TwoSides
<1>4. Sent("server", "SNAP") => Sent("server", "SNAP")'
  BY <1>1 DEF Sent
<1>5. Sent("client", "ACK")' => Sent("client", "ACK") \/ k = "ACK"
  BY SentIsNew, TwoSides
<1>. QED  BY <1>1, <1>2, <1>3, <1>4, <1>5

\* ... and after it has sent none.
LEMMA ClientSilent ==
  ASSUME ClientInv, out' = out, in' = in
  PROVE  /\ Len(out'["client"]) = Len(out["client"])
         /\ TakenKind("client", "ACCEPTED") => TakenKind("client", "ACCEPTED")'
         /\ Sent("server", "SNAP") => Sent("server", "SNAP")'
         /\ Sent("client", "ACK")' => Sent("client", "ACK")
         /\ OnlyAfter("client", "ACK", {"INPUT", "FINISHED"})'
BY DEF TakenKind, Sent, OnlyAfter, ClientInv

LEMMA ClientTimeoutKeeps ==
  ASSUME IInv, ClientUpdate, ClientTimeout
  PROVE  IInv'
<1>1. /\ TypeOK /\ ClientInv /\ IsConnected /\ c \in ClientState
      /\ UNCHANGED <<p, in, admit, lost, joins, leaves, misread, refused>>
  BY DEF IInv, TypeOK, ClientUpdate, ClientDue
<1>2. c.st \in {"handshake", "transition", "game"} /\ c.timeouts \in 0 .. Retries
  BY <1>1, SessionAssumption DEF IsConnected, ClientState, ClientInv
<1>3. CASE c.timeouts + 1 > Retries
  <2>1. c' = [c EXCEPT !.st = "ended", !.timeouts = c.timeouts + 1, !.idle = 0]
    BY <1>3 DEF ClientTimeout
  <2>2. Emits("client", "FINISHED", net) /\ "FINISHED" \in Kind
    BY <1>1, <1>3, SendEmits, TwoSides DEF ClientTimeout, Kind
  <2>3. c.timeouts + 1 \in 0 .. Retries + 1
    BY <1>2, SessionAssumption
  <2>4. /\ c' \in ClientState
        /\ c'.st = "ended" /\ c'.phase = c.phase /\ c'.got = c.got /\ c'.idle = 0
    BY <1>1, <2>1, <2>3 DEF ClientState
  <2>5. ClientInv'
    BY <1>1, <2>2, <2>4, ClientEnds
  <2>. QED  BY <1>1, <2>2, <2>4, <2>5, ClientAlone
<1>4. CASE ~(c.timeouts + 1 > Retries)
  <2>1. c' = [c EXCEPT !.timeouts = c.timeouts + 1, !.idle = 0] /\ Resend("client")
    BY <1>4 DEF ClientTimeout
  <2>2. c.timeouts + 1 \in 0 .. Retries + 1 /\ c.timeouts + 1 <= Retries
    BY <1>2, <1>4, SessionAssumption
  <2>3. /\ c' \in ClientState /\ c'.st = c.st /\ c'.phase = c.phase /\ c'.got = c.got
        /\ c'.idle = 0 /\ c'.timeouts = c.timeouts + 1 /\ c'.starting = c.starting
    BY <1>1, <2>1, <2>2, SessionAssumption DEF ClientState
  <2>4. Len(out["client"]) > 0
    <3>1. ClientSecs[c.st] \in Nat \ {0}
      BY <1>2, SessionAssumption
    <3>2. c.idle > ClientSecs[c.st]
      BY DEF ClientTimeout, ClientTimedOut
    <3>3. c.phase # "NOT_STARTED"
      BY <1>1, <3>1, <3>2 DEF ClientInv
    <3>. QED  BY <1>1, <3>3 DEF ClientInv
  <2>5. out' = out /\ net' \subseteq Datagram /\ \A d \in net' : d.id <= Len(out'[Other(d.to)])
    BY <1>1, <2>1, <2>4, ResendTyped, TwoSides
  <2>6. ClientInv'
    BY <1>1, <2>2, <2>3, <2>5, ClientSilent, SessionAssumption DEF ClientInv, IsConnected
  <2>. QED  BY <1>1, <2>3, <2>5, <2>6, ClientAlone
<1>. QED  BY <1>3, <1>4

LEMMA ClientUpdateKeeps ==
  ASSUME IInv, ClientUpdate
  PROVE  IInv'
<1>1. /\ TypeOK /\ ClientInv /\ IsConnected /\ c \in ClientState
      /\ UNCHANGED <<p, in, admit, lost, joins, leaves, misread, refused>>
      /\ Retries \in Nat /\ 0 \in 0 .. Retries + 1
  BY SessionAssumption DEF IInv, TypeOK, ClientUpdate, ClientDue
<1>2. net \subseteq Datagram /\ \A d \in net : d.id <= Len(out[Other(d.to)])
  BY <1>1 DEF TypeOK
<1>3. CASE ClientHandshakeUpdate
  <2>1. c.st = "handshake" /\ ~Sent("client", "ACK")
    BY <1>1, <1>3 DEF ClientHandshakeUpdate, ClientInv
  <2>2. ASSUME NEW k \in {"JOIN", "RESPONSE"}, Send("client", k, net),
               c' = [c EXCEPT !.phase = "WAITING", !.timeouts = 0, !.idle = 0]
        PROVE  IInv'
    <3>1. Emits("client", k, net) /\ k \in Kind
      BY <1>1, <2>2, SendEmits, TwoSides DEF Kind, HandshakeKind
    <3>2. /\ c' \in ClientState /\ c'.st = "handshake" /\ c'.phase = "WAITING"
          /\ c'.idle = 0 /\ c'.timeouts = 0 /\ c'.got = c.got
      BY <1>1, <2>1, <2>2 DEF ClientState
    <3>3. ClientInv'
      BY <1>1, <2>1, <2>2, <3>1, <3>2, ClientSends DEF ClientInv, IsConnected
    <3>. QED  BY <1>1, <3>1, <3>2, <3>3, ClientAlone
  <2>3. ASSUME c.phase = "ACCEPTED", out' = out, net' = net,
               c' = [BeginTransition(c) EXCEPT !.timeouts = 0, !.starting = TRUE]
        PROVE  IInv'
    <3>1. /\ c' \in ClientState /\ c'.st = "transition" /\ c'.phase = "ACCEPTED"
          /\ c'.idle = 0 /\ c'.timeouts = 0 /\ c'.got = c.got
      BY <1>1, <2>3 DEF ClientState, BeginTransition
    <3>2. ClientInv'
      BY <1>1, <2>1, <2>3, <3>1, ClientSilent DEF ClientInv, IsConnected
    <3>. QED  BY <1>1, <1>2, <2>3, <3>1, <3>2, ClientAlone
  <2>. QED  BY <1>3, <2>2, <2>3 DEF ClientHandshakeUpdate
<1>4. CASE ClientTransitionUpdate
  <2>1. c.st = "transition"
    BY <1>4 DEF ClientTransitionUpdate
  <2>2. CASE c.starting
    <3>1. Emits("client", "ACK", net) /\ "ACK" \in Kind
      BY <1>1, <1>4, <2>2, SendEmits, TwoSides DEF ClientTransitionUpdate, Kind, HandshakeKind
    <3>2. /\ c' \in ClientState /\ c'.st = "transition" /\ c'.phase = c.phase /\ ~c'.starting
          /\ c'.timeouts = c.timeouts /\ c'.got = c.got /\ c'.idle = 0
      <4>1. c' = [c EXCEPT !.starting = FALSE, !.idle = 0]
        BY <1>4, <2>2 DEF ClientTransitionUpdate
      <4>. QED  BY <1>1, <2>1, <4>1 DEF ClientState
    <3>3. ~Sent("client", "ACK")
      BY <1>1, <2>1, <2>2 DEF ClientInv
    <3>4. ClientInv'
      BY <1>1, <2>1, <3>1, <3>2, <3>3, ClientSends DEF ClientInv, IsConnected
    <3>. QED  BY <1>1, <3>1, <3>2, <3>4, ClientAlone
  <2>3. CASE ~c.starting
    <3>1. c' = [c EXCEPT !.st = "game", !.timeouts = 0, !.idle = 0] /\ out' = out /\ net' = net
      BY <1>4, <2>3 DEF ClientTransitionUpdate
    <3>2. /\ c' \in ClientState /\ c'.st = "game" /\ c'.phase = c.phase
          /\ c'.timeouts = 0 /\ c'.got = c.got /\ c'.idle = 0
      BY <1>1, <3>1 DEF ClientState
    <3>3. ClientInv'
      BY <1>1, <2>1, <3>1, <3>2, ClientSilent DEF ClientInv, IsConnected
    <3>. QED  BY <1>1, <1>2, <3>1, <3>2, <3>3, ClientAlone
  <2>. QED  BY <2>2, <2>3
<1>5. CASE ClientGameUpdate
  <2>1. Emits("client", "INPUT", net) /\ "INPUT" \in Kind
    BY <1>1, <1>5, SendEmits, TwoSides DEF ClientGameUpdate, Kind
  <2>2. /\ c.st = "game" /\ c' \in ClientState /\ c'.st = "game" /\ c'.phase = c.phase
        /\ c'.timeouts = 0 /\ c'.got = c.got /\ c'.idle = 0
    BY <1>1, <1>5 DEF ClientGameUpdate, ClientState
  <2>3. ClientInv'
    BY <1>1, <2>1, <2>2, ClientSends DEF ClientInv, IsConnected
  <2>. QED  BY <1>1, <2>1, <2>2, <2>3, ClientAlone
<1>. QED  BY <1>3, <1>4, <1>5, ClientTimeoutKeeps DEF ClientUpdate

LEMMA ClientConnectsKeeps ==
  ASSUME IInv, ClientConnects
  PROVE  IInv'
<1>1. /\ TypeOK /\ ClientInv /\ c.st = "unconnected" /\ c' = NewClient
      /\ UNCHANGED <<p, out, in, net, admit, lost, joins, leaves, misread, refused>>
      /\ Retries \in Nat
  BY SessionAssumption DEF IInv, ClientConnects
<1>2. net \subseteq Datagram /\ \A d \in net : d.id <= Len(out[Other(d.to)])
  BY <1>1 DEF TypeOK
<1>3. NewClient \in ClientState /\ NewClient.st = "handshake"
  <2>1. Last(States) = "handshake"
    BY DEF States, Last
  <2>2. 0 \in 0 .. Retries + 1
    BY <1>1
  <2>. QED  BY <2>1, <2>2 DEF NewClient, ClientState
<1>4. ClientInv'
  <2>1. /\ c'.st = "handshake" /\ c'.phase = "NOT_STARTED" /\ c'.idle = 0
        /\ c'.timeouts = 0 /\ c'.got = FALSE
    BY <1>1, <1>3 DEF NewClient
  <2>2. ~Sent("client", "ACK")
    BY <1>1 DEF ClientInv
  <2>. QED  BY <1>1, <2>1, <2>2, ClientSilent DEF ClientInv, IsConnected
<1>. QED  BY <1>1, <1>2, <1>3, <1>4, ClientAlone

LEMMA ClientQuitsKeeps ==
  ASSUME IInv, ClientQuits
  PROVE  IInv'
<1>1. /\ TypeOK /\ ClientInv /\ c \in ClientState
      /\ UNCHANGED <<p, in, admit, lost, joins, leaves, misread, refused>>
      /\ c' = [c EXCEPT !.st = "ended"]
  BY DEF IInv, TypeOK, ClientQuits
<1>2. Emits("client", "FINISHED", net) /\ "FINISHED" \in Kind
  BY <1>1, SendEmits, TwoSides DEF ClientQuits, Kind
<1>3. /\ c' \in ClientState
      /\ c'.st = "ended" /\ c'.phase = c.phase /\ c'.got = c.got /\ c'.idle = c.idle
  BY <1>1 DEF ClientState
<1>4. ClientInv'
  BY <1>1, <1>2, <1>3, ClientEnds
<1>. QED  BY <1>1, <1>2, <1>3, <1>4, ClientAlone

-----------------------------------------------------------------------------
(* The server's steps *)

\* What remains to show of a step of the server.
LEMMA ServerAlone ==
  ASSUME IInv, p' \in PlayerState, c' = c, admit' = admit, lost' = lost,
         misread' = misread, refused' \in BOOLEAN, joins' \in Nat, leaves' \in Nat,
         in' \in [Side -> SUBSET Nat],
         \A s \in Side : in[s] \subseteq in'[s] /\ in'[s] \subseteq 1 .. Len(out[Other(s)]),
         (out' = out /\ net' \subseteq Datagram /\ \A d \in net' : d.id <= Len(out'[Other(d.to)]))
           \/ (\E k \in Kind, rest \in SUBSET net : Emits("server", k, rest)),
         PlayerInv'
  PROVE  IInv'
<1>1. TypeOK /\ ClientInv
  BY DEF IInv
<1>. DEFINE OutTyped ==
         /\ out' \in [Side -> Seq(Kind)] /\ out'["client"] = out["client"]
         /\ \A i \in 1 .. Len(out["server"]) : out'["server"][i] = out["server"][i]
         /\ \A t \in Side : /\ Len(out'[t]) <= MaxOut[t] + 1
                            /\ 1 .. Len(out[t]) \subseteq 1 .. Len(out'[t])
         /\ net' \subseteq Datagram /\ \A d \in net' : d.id <= Len(out'[Other(d.to)])
<1>2. OutTyped
  <2>1. CASE out' = out /\ net' \subseteq Datagram /\ (\A d \in net' : d.id <= Len(out'[Other(d.to)]))
    BY <1>1, <2>1 DEF TypeOK
  <2>2. ASSUME NEW k \in Kind, NEW rest \in SUBSET net, Emits("server", k, rest)
        PROVE  OutTyped
    BY <1>1, <2>2, EmitsPacket, TwoSides
  <2>. QED  BY <2>1, <2>2
<1>3. \A s \in Side : in'[s] \subseteq 1 .. Len(out'[Other(s)])
  BY <1>1, <1>2, TwoSides
<1>4. TypeOK'
  BY <1>1, <1>2, <1>3 DEF TypeOK
<1>5. ClientInv'
  BY <1>1, <1>2, ClientUntouched, TwoSides
<1>. QED  BY <1>4, <1>5 DEF IInv

\* What of PlayerInv is about packets, after the server has sent one.
LEMMA ServerSends ==
  ASSUME TypeOK, PlayerInv, NEW k \in {"CHALLENGE", "ACCEPTED", "SNAP", "FINISHED"},
         NEW rest \in SUBSET net, Emits("server", k, rest),
         in["server"] \subseteq in'["server"],
         k \in {"SNAP", "FINISHED"} \/ ~Sent("server", "ACCEPTED")
  PROVE  /\ Len(out'["server"]) > 0
         /\ \A l : TakenKind("server", l) => TakenKind("server", l)'
         /\ Sent("server", "ACCEPTED")' => Sent("server", "ACCEPTED") \/ k = "ACCEPTED"
         /\ Sent("server", "SNAP")' => Sent("server", "SNAP") \/ k = "SNAP"
         /\ OnlyAfter("server", "ACCEPTED", {"SNAP", "FINISHED"})'
         /\ \A i \in 1 .. Len(out'["server"]) :
              out'["server"][i] \in {"CHALLENGE", "ACCEPTED", "SNAP", "FINISHED"}
<1>. k \in Kind
  BY DEF Kind, HandshakeKind
<1>1. /\ Len(out'["server"]) = Len(out["server"]) + 1
      /\ Len(out["server"]) \in Nat
      /\ out'["client"] = out["client"]
      /\ \A i \in 1 .. Len(out["server"]) : out'["server"][i] = out["server"][i]
      /\ out'["server"][Len(out["server"]) + 1] = k
  BY EmitsPacket, PacketsTyped, TwoSides
<1>2. OnlyAfter("server", "ACCEPTED", {"SNAP", "FINISHED"})'
  BY OrderKept, TwoSides DEF PlayerInv
<1>3. \A l : TakenKind("server", l) => TakenKind("server", l)'
  BY <1>1, TakenStays, TwoSides
<1>4. /\ Sent("server", "ACCEPTED")' => Sent("server", "ACCEPTED") \/ k = "ACCEPTED"
      /\ Sent("server", "SNAP")' => Sent("server", "SNAP") \/ k = "SNAP"
  BY SentIsNew, TwoSides
<1>5. \A i \in 1 .. Len(out'["server"]) :
        out'["server"][i] \in {"CHALLENGE", "ACCEPTED", "SNAP", "FINISHED"}
  BY <1>1 DEF PlayerInv
<1>. QED  BY <1>1, <1>2, <1>3, <1>4, <1>5

\* ... and after it has sent none.
LEMMA ServerSilent ==
  ASSUME TypeOK, PlayerInv, out' = out, in["server"] \subseteq in'["server"]
  PROVE  /\ Len(out'["server"]) = Len(out["server"])
         /\ \A l : TakenKind("server", l) => TakenKind("server", l)'
         /\ Sent("server", "ACCEPTED")' => Sent("server", "ACCEPTED")
         /\ Sent("server", "SNAP")' => Sent("server", "SNAP")
         /\ OnlyAfter("server", "ACCEPTED", {"SNAP", "FINISHED"})'
         /\ \A i \in 1 .. Len(out'["server"]) :
              out'["server"][i] \in {"CHALLENGE", "ACCEPTED", "SNAP", "FINISHED"}
BY TakenStays, TwoSides DEF Sent, OnlyAfter, PlayerInv

\* A player that stays in its state, or fails, and announces nothing new.
LEMMA PlayerStays ==
  ASSUME TypeOK, PlayerInv, in["server"] \subseteq in'["server"],
         out' = out \/ (\E rest \in SUBSET net : Emits("server", "FINISHED", rest)),
         joins' = joins, leaves' = leaves, admit' = admit,
         p.st \notin {"none", "gone"}, p'.st \in {p.st, "failed"},
         p'.response = "CHALLENGE" => admit,
         p'.response = "ACCEPTED" => admit /\ TakenKind("server", "RESPONSE")',
         p'.done => p.done \/ TakenKind("server", "ACK")', p.done => p'.done
  PROVE  PlayerInv'
<1>. DEFINE Packets ==
         /\ Len(out["server"]) > 0 => Len(out'["server"]) > 0
         /\ \A l : TakenKind("server", l) => TakenKind("server", l)'
         /\ Sent("server", "ACCEPTED")' => Sent("server", "ACCEPTED")
         /\ Sent("server", "SNAP")' => Sent("server", "SNAP")
         /\ OnlyAfter("server", "ACCEPTED", {"SNAP", "FINISHED"})'
         /\ \A i \in 1 .. Len(out'["server"]) :
              out'["server"][i] \in {"CHALLENGE", "ACCEPTED", "SNAP", "FINISHED"}
<1>1. Packets
  <2>1. CASE out' = out
    BY <2>1, ServerSilent
  <2>2. ASSUME NEW rest \in SUBSET net, Emits("server", "FINISHED", rest)
        PROVE  Packets
    BY <2>2, ServerSends
  <2>. QED  BY <2>1, <2>2
<1>. QED  BY <1>1 DEF PlayerInv

\* A game state parses no packet of another state: an acknowledgement has been
\* taken, and after it the client sends game packets only.
LEMMA PlayerHears ==
  ASSUME IInv, NEW d \in net, d.to = "server", ~Ignored(d), KindOf(d) # "FINISHED",
         p.st = "game", ~Overtaken(d)
  PROVE  KindOf(d) = "INPUT"
<1>1. /\ d.id \in 1 .. Len(out["client"]) /\ KindOf(d) = out["client"][d.id]
      /\ d.id \notin in["server"]
      /\ in["server"] \subseteq 1 .. Len(out["client"]) /\ Len(out["client"]) \in Nat
  BY DatagramSent, PacketsTyped, TwoSides DEF IInv, KindOf, Ignored
<1>2. PICK i \in in["server"] : out["client"][i] = "ACK"
  BY TwoSides DEF IInv, PlayerInv, TakenKind
<1>3. i < d.id
  <2>1. ~(i > d.id) /\ i # d.id
    BY <1>1, <1>2 DEF Overtaken
  <2>. QED  BY <1>1, <2>1
<1>4. out["client"][d.id] \in {"INPUT", "FINISHED"}
  BY <1>1, <1>2, <1>3 DEF IInv, ClientInv, OnlyAfter
<1>. QED  BY <1>1, <1>4

\* What a packet that is not refused makes of the player.
LEMMA ResultEffect ==
  ASSUME IInv, NEW d \in net, d.to = "server", p.st \notin {"none", "gone"},
         Taken(d), out' = out, p' \in Result(d)
  PROVE  /\ p' \in PlayerState /\ p'.st = p.st
         /\ p'.response = "CHALLENGE" => admit
         /\ p'.response = "ACCEPTED" => admit /\ TakenKind("server", "RESPONSE")'
         /\ p'.done => p.done \/ TakenKind("server", "ACK")'
         /\ p.done => p'.done
<1>1. /\ p \in PlayerState /\ d.id \in 1 .. Len(out["client"]) /\ KindOf(d) = out["client"][d.id]
      /\ TypeOK /\ PlayerInv /\ d.retr \in BOOLEAN /\ Overtaken(d) \in BOOLEAN
  BY DatagramSent, TwoSides DEF IInv, TypeOK, KindOf, Overtaken
<1>2. /\ \A l : l = KindOf(d) => TakenKind("server", l)'
      /\ \A l : TakenKind("server", l) => TakenKind("server", l)'
  <2>1. in'["server"] = in["server"] \cup {d.id}
    BY <1>1, TwoSides DEF Taken, TypeOK
  <2>. QED  BY <1>1, <2>1, TwoSides DEF TakenKind
<1>3. 0 \in 0 .. MaxUnacked
  BY SessionAssumption
<1>4. CASE p.st = "handshake"
  <2>1. \/ p' = [p EXCEPT !.got = TRUE, !.response = IF admit THEN "CHALLENGE" ELSE "WRONG"]
        \/ /\ KindOf(d) = "RESPONSE" /\ p.response = "CHALLENGE"
           /\ p' = [p EXCEPT !.got = TRUE, !.response = "ACCEPTED"]
    BY <1>4 DEF Result, HandshakeResult, Joining
  <2>2. CASE p' = [p EXCEPT !.got = TRUE, !.response = IF admit THEN "CHALLENGE" ELSE "WRONG"]
    BY <1>1, <2>2 DEF PlayerState
  <2>3. CASE /\ KindOf(d) = "RESPONSE" /\ p.response = "CHALLENGE"
             /\ p' = [p EXCEPT !.got = TRUE, !.response = "ACCEPTED"]
    BY <1>1, <1>2, <2>3 DEF PlayerState, PlayerInv
  <2>. QED  BY <2>1, <2>2, <2>3
<1>5. CASE p.st = "transition"
  <2>1. \/ KindOf(d) = "ACK" /\ p' = [p EXCEPT !.done = TRUE]
        \/ p' = [p EXCEPT !.resend = p.resend \/ d.retr]
    BY <1>5 DEF Result, TransitionResult
  <2>2. CASE KindOf(d) = "ACK" /\ p' = [p EXCEPT !.done = TRUE]
    BY <1>1, <1>2, <2>2 DEF PlayerState, PlayerInv
  <2>3. CASE p' = [p EXCEPT !.resend = p.resend \/ d.retr]
    <3>1. (p.resend \/ d.retr) \in BOOLEAN
      OBVIOUS
    <3>2. PICK b \in BOOLEAN : p' = [p EXCEPT !.resend = b]
      BY <2>3, <3>1
    <3>. QED  BY <1>1, <1>2, <3>2 DEF PlayerState, PlayerInv
  <2>. QED  BY <2>1, <2>2, <2>3
<1>6. CASE p.st = "game"
  <2>1. p' = [p EXCEPT !.unacked = 0, !.sendDiff = p.sendDiff \/ ~Overtaken(d)]
    BY <1>6 DEF Result, GameResult
  <2>2. PICK b \in BOOLEAN : p' = [p EXCEPT !.unacked = 0, !.sendDiff = b]
    BY <2>1
  <2>. QED  BY <1>1, <1>2, <1>3, <2>2 DEF PlayerState, PlayerInv
<1>7. CASE p.st = "failed"
  BY <1>7 DEF Result
<1>. QED  BY <1>1, <1>4, <1>5, <1>6, <1>7 DEF PlayerState

LEMMA PlayerRecvKeeps ==
  ASSUME IInv, NEW d \in net, PlayerRecv(d)
  PROVE  IInv'
<1>1. /\ TypeOK /\ ClientInv /\ PlayerInv /\ d.to = "server" /\ p.st \notin {"none", "gone"}
      /\ p \in PlayerState /\ refused \in BOOLEAN /\ joins \in Nat /\ leaves \in Nat
      /\ c' = c /\ admit' = admit /\ lost' = lost /\ joins' = joins /\ leaves' = leaves
  BY DEF IInv, TypeOK, PlayerRecv
<1>2. in' = in \/ in' = [in EXCEPT ![d.to] = @ \cup {d.id}]
  BY <1>1 DEF PlayerRecv, Taken
<1>3. /\ in' \in [Side -> SUBSET Nat]
      /\ \A s \in Side : in[s] \subseteq in'[s] /\ in'[s] \subseteq 1 .. Len(out[Other(s)])
  BY <1>1, <1>2, TakingTyped
<1>4. in["server"] \subseteq in'["server"]
  BY <1>3, TwoSides
<1>5. \A l : TakenKind("server", l) /\ out' = out => TakenKind("server", l)'
  BY <1>1, <1>4, ServerSilent
<1>6. net \ {d} \subseteq net /\ (out' = out /\ net' = net \ {d} =>
        net' \subseteq Datagram /\ \A e \in net' : e.id <= Len(out'[Other(e.to)]))
  BY <1>1 DEF TypeOK
<1>7. CASE Ignored(d)
  <2>1. /\ net' = net \ {d} /\ UNCHANGED <<p, out, in, refused, misread>>
    BY <1>7 DEF PlayerRecv
  <2>2. PlayerInv'
    BY <1>1, <1>4, <1>5, <2>1, PlayerStays DEF PlayerInv
  <2>. QED  BY <1>1, <1>3, <1>6, <2>1, <2>2, ServerAlone
<1>8. CASE ~Ignored(d) /\ KindOf(d) = "FINISHED"
  <2>1. /\ net' = net \ {d} /\ UNCHANGED <<out, refused, misread>>
        /\ p' = [p EXCEPT !.connected = FALSE]
    BY <1>8 DEF PlayerRecv
  <2>2. p' \in PlayerState /\ p'.st = p.st /\ p'.response = p.response /\ p'.done = p.done
    BY <1>1, <2>1 DEF PlayerState
  <2>3. PlayerInv'
    BY <1>1, <1>4, <1>5, <2>1, <2>2, PlayerStays DEF PlayerInv
  <2>. QED  BY <1>1, <1>3, <1>6, <2>1, <2>2, <2>3, ServerAlone
<1>9. CASE ~Ignored(d) /\ KindOf(d) # "FINISHED"
  <2>1. /\ Taken(d)
        /\ misread' = (misread \/ (p.st = "game" /\ KindOf(d) \notin {"INPUT", "ACK"}
                                                 /\ ~Overtaken(d)))
        /\ IF Result(d) = {}
             THEN Kick(net \ {d}) /\ refused' = (refused \/ p.connected)
             ELSE p' \in Result(d) /\ net' = net \ {d} /\ UNCHANGED <<out, refused>>
    BY <1>9 DEF PlayerRecv
  <2>2. misread' = misread
    <3>1. ~(p.st = "game" /\ KindOf(d) \notin {"INPUT", "ACK"} /\ ~Overtaken(d))
      BY <1>1, <1>9, PlayerHears
    <3>2. misread = FALSE
      BY <1>1 DEF IInv, TypeOK
    <3>. QED  BY <2>1, <3>1, <3>2
  <2>3. CASE Result(d) = {}
    <3>1. Disconnect("server", net \ {d}) /\ p' = [p EXCEPT !.connected = FALSE]
          /\ refused' = (refused \/ p.connected)
      BY <2>1, <2>3 DEF Kick
    <3>2. /\ p' \in PlayerState /\ p'.st = p.st /\ p'.response = p.response /\ p'.done = p.done
          /\ refused' \in BOOLEAN
      BY <1>1, <3>1 DEF PlayerState
    <3>3. /\ Emits("server", "FINISHED", net \ {d}) /\ "FINISHED" \in Kind
          /\ net \ {d} \in SUBSET net
      BY <1>1, <3>1, SendEmits, TwoSides DEF Kind
    <3>4. \A l : TakenKind("server", l) => TakenKind("server", l)'
      BY <1>1, <1>4, <3>3, ServerSends
    <3>5. PlayerInv'
      BY <1>1, <1>4, <3>2, <3>3, <3>4, PlayerStays DEF PlayerInv
    <3>. QED  BY <1>1, <1>3, <2>2, <3>2, <3>3, <3>5, ServerAlone
  <2>4. CASE Result(d) # {}
    <3>1. p' \in Result(d) /\ net' = net \ {d} /\ out' = out /\ refused' = refused
      BY <2>1, <2>4
    <3>2. /\ p' \in PlayerState /\ p'.st = p.st
          /\ p'.response = "CHALLENGE" => admit
          /\ p'.response = "ACCEPTED" => admit /\ TakenKind("server", "RESPONSE")'
          /\ p'.done => p.done \/ TakenKind("server", "ACK")'
          /\ p.done => p'.done
      BY <1>1, <2>1, <3>1, ResultEffect
    <3>3. PlayerInv'
      BY <1>1, <1>4, <3>1, <3>2, PlayerStays
    <3>. QED  BY <1>1, <1>3, <1>6, <2>2, <3>1, <3>2, <3>3, ServerAlone
  <2>. QED  BY <2>3, <2>4
<1>. QED  BY <1>7, <1>8, <1>9

\* The player is removed, or its client's port is closed.
LEMMA PlayerGoes ==
  ASSUME IInv, p.st \notin {"none", "gone"}, NEW b \in BOOLEAN,
         p' = [p EXCEPT !.st = "gone", !.connected = b], leaves' = leaves + 1, net' \subseteq net,
         UNCHANGED <<c, out, in, admit, lost, joins, misread, refused>>
  PROVE  IInv'
<1>1. TypeOK /\ PlayerInv /\ p \in PlayerState /\ leaves = 0
  BY DEF IInv, TypeOK, PlayerInv
<1>2. /\ p' \in PlayerState /\ p'.st = "gone" /\ p'.response = p.response /\ p'.done = p.done
  BY <1>1 DEF PlayerState
<1>3. PlayerInv'
  BY <1>1, <1>2, ServerSilent DEF PlayerInv
<1>4. net' \subseteq Datagram /\ \A d \in net' : d.id <= Len(out'[Other(d.to)])
  BY <1>1 DEF TypeOK
<1>. QED  BY <1>1, <1>2, <1>3, <1>4, ServerAlone DEF TypeOK

\* A step of the server without a packet of the client.
LEMMA ServerMoves ==
  ASSUME IInv, p' \in PlayerState, UNCHANGED <<c, in, admit, lost, leaves, misread, refused>>,
         joins' \in Nat,
         (out' = out /\ net' = net) \/ (\E k \in Kind : Emits("server", k, net)),
         PlayerInv'
  PROVE  IInv'
<1>1. /\ TypeOK /\ refused' \in BOOLEAN /\ leaves' \in Nat
      /\ in' \in [Side -> SUBSET Nat]
      /\ \A s \in Side : in[s] \subseteq in'[s] /\ in'[s] \subseteq 1 .. Len(out[Other(s)])
      /\ net \subseteq Datagram /\ \A d \in net : d.id <= Len(out[Other(d.to)])
  BY DEF IInv, TypeOK
<1>2. \/ out' = out /\ net' \subseteq Datagram /\ (\A d \in net' : d.id <= Len(out'[Other(d.to)]))
      \/ \E k \in Kind, rest \in SUBSET net : Emits("server", k, rest)
  <2>1. CASE out' = out /\ net' = net
    BY <1>1, <2>1
  <2>2. CASE \E k \in Kind : Emits("server", k, net)
    BY <2>2
  <2>. QED  BY <2>1, <2>2
<1>. QED  BY <1>1, <1>2, ServerAlone

LEMMA FailKeeps ==
  ASSUME IInv, Fail, p.st \notin {"none", "gone"},
         UNCHANGED <<c, in, admit, lost, joins, leaves, misread, refused>>
  PROVE  IInv'
<1>1. /\ TypeOK /\ PlayerInv /\ p \in PlayerState /\ joins \in Nat
      /\ p' = [p EXCEPT !.st = "failed", !.connected = FALSE]
  BY DEF IInv, TypeOK, Fail
<1>2. Emits("server", "FINISHED", net) /\ "FINISHED" \in Kind
  BY <1>1, SendEmits, TwoSides DEF Fail, Kind
<1>3. /\ p' \in PlayerState /\ p'.st = "failed" /\ p'.response = p.response /\ p'.done = p.done
  BY <1>1 DEF PlayerState
<1>4. \A l : TakenKind("server", l) => TakenKind("server", l)'
  BY <1>1, <1>2, ServerSends
<1>5. PlayerInv'
  BY <1>1, <1>2, <1>3, <1>4, PlayerStays DEF PlayerInv
<1>. QED  BY <1>1, <1>2, <1>3, <1>5, ServerMoves

LEMMA ServerHandshakeKeeps ==
  ASSUME IInv, ServerHandshakeUpdate, UNCHANGED <<c, in, admit, lost, leaves, misread, refused>>
  PROVE  IInv'
<1>1. /\ TypeOK /\ PlayerInv /\ p \in PlayerState /\ p.st = "handshake" /\ joins = 0
      /\ ~Sent("server", "ACCEPTED") /\ ~Sent("server", "SNAP") /\ leaves = 0
  BY DEF IInv, TypeOK, ServerHandshakeUpdate, PlayerInv
<1>2. {"CHALLENGE", "ACCEPTED"} \subseteq Kind
  BY DEF Kind, HandshakeKind
<1>3. CASE p.response = "CHALLENGE"
  <2>1. /\ Emits("server", "CHALLENGE", net) /\ joins' = joins
        /\ p' = [p EXCEPT !.got = FALSE, !.idle = 0]
    BY <1>1, <1>3, SendEmits, TwoSides DEF ServerHandshakeUpdate
  <2>2. /\ p' \in PlayerState /\ p'.st = "handshake" /\ p'.response = "CHALLENGE"
        /\ p'.done = p.done
    BY <1>1, <1>3, <2>1 DEF PlayerState
  <2>3. PlayerInv'
    BY <1>1, <1>3, <2>1, <2>2, ServerSends DEF PlayerInv
  <2>. QED  BY <1>1, <1>2, <2>1, <2>2, <2>3, ServerMoves
<1>4. CASE p.response = "ACCEPTED"
  <2>1. /\ Emits("server", "ACCEPTED", net) /\ joins' = joins + 1
        /\ p' = [BeginTransition(p) EXCEPT !.got = FALSE, !.resend = FALSE]
    BY <1>1, <1>4, SendEmits, TwoSides DEF ServerHandshakeUpdate
  <2>2. /\ p' \in PlayerState /\ p'.st = "transition" /\ p'.response = "ACCEPTED"
        /\ p'.done = FALSE
    BY <1>1, <1>4, <2>1 DEF PlayerState, BeginTransition
  <2>3. PlayerInv'
    BY <1>1, <1>4, <2>1, <2>2, ServerSends DEF PlayerInv
  <2>. QED  BY <1>1, <1>2, <2>1, <2>2, <2>3, ServerMoves
<1>5. CASE p.response \in {"WRONG", "NONE"}
  BY <1>1, <1>5, FailKeeps DEF ServerHandshakeUpdate
<1>. QED  BY <1>3, <1>4, <1>5 DEF ServerHandshakeUpdate

LEMMA ServerTransitionKeeps ==
  ASSUME IInv, ServerTransitionUpdate, UNCHANGED <<c, in, admit, lost, leaves, misread, refused>>
  PROVE  IInv'
<1>1. /\ TypeOK /\ PlayerInv /\ p \in PlayerState /\ p.st = "transition" /\ joins' = joins
      /\ Len(out["server"]) > 0 /\ joins \in Nat
  BY DEF IInv, TypeOK, ServerTransitionUpdate, PlayerInv
<1>2. CASE p.resend
  <2>1. Resend("server") /\ p' = [p EXCEPT !.resend = FALSE, !.idle = 0]
    BY <1>2 DEF ServerTransitionUpdate
  <2>2. out' = out /\ net' \subseteq Datagram /\ \A d \in net' : d.id <= Len(out'[Other(d.to)])
    BY <1>1, <2>1, ResendTyped, TwoSides
  <2>3. /\ p' \in PlayerState /\ p'.st = p.st /\ p'.response = p.response /\ p'.done = p.done
    BY <1>1, <2>1 DEF PlayerState
  <2>4. PlayerInv'
    BY <1>1, <2>2, <2>3, ServerSilent DEF PlayerInv
  <2>. QED  BY <1>1, <2>2, <2>3, <2>4, ServerAlone DEF TypeOK
<1>3. CASE ~p.resend /\ (ServerTimedOut \/ ~p.done)
  BY <1>1, <1>3, FailKeeps DEF ServerTransitionUpdate
<1>4. CASE ~p.resend /\ p.done /\ ~ServerTimedOut
  <2>1. p' = [p EXCEPT !.st = "game", !.idle = 0] /\ out' = out /\ net' = net
    BY <1>4 DEF ServerTransitionUpdate
  <2>2. /\ p' \in PlayerState /\ p'.st = "game" /\ p'.response = p.response /\ p'.done = p.done
    BY <1>1, <2>1 DEF PlayerState
  <2>3. PlayerInv'
    BY <1>1, <1>4, <2>1, <2>2, ServerSilent DEF PlayerInv
  <2>. QED  BY <1>1, <2>1, <2>2, <2>3, ServerMoves
<1>. QED  BY <1>2, <1>3, <1>4

LEMMA ServerGameKeeps ==
  ASSUME IInv, ServerDue, p.connected, ServerGameUpdate,
         UNCHANGED <<c, in, admit, lost, leaves, misread, refused>>
  PROVE  IInv'
<1>1. /\ TypeOK /\ PlayerInv /\ p \in PlayerState /\ p.st = "game" /\ joins' = joins
      /\ joins \in Nat
  BY DEF IInv, TypeOK, ServerGameUpdate
<1>2. CASE ServerTimedOut
  BY <1>1, <1>2, FailKeeps DEF ServerGameUpdate
<1>3. CASE ~ServerTimedOut
  <2>1. Emits("server", "SNAP", net) /\ "SNAP" \in Kind
    BY <1>1, <1>3, SendEmits, TwoSides DEF ServerGameUpdate, Kind
  <2>2. PICK diff \in BOOLEAN :
          p' = [p EXCEPT !.sendDiff = diff, !.idle = 0,
                         !.unacked = IF diff THEN p.unacked + 1 ELSE MaxUnacked]
    BY <1>3 DEF ServerGameUpdate
  <2>3. (IF diff THEN p.unacked + 1 ELSE MaxUnacked) \in 0 .. MaxUnacked
    <3>1. p.unacked < MaxUnacked
      BY <1>1, <1>3
         DEF ServerDue, ServerNeedsUpdate, ServerHandshakeNeeds, ServerTransitionNeeds,
             ServerGameNeeds
    <3>. QED  BY <1>1, <3>1, SessionAssumption DEF PlayerState
  <2>4. /\ p' \in PlayerState /\ p'.st = "game" /\ p'.response = p.response /\ p'.done = p.done
    BY <1>1, <2>2, <2>3 DEF PlayerState
  <2>5. PlayerInv'
    BY <1>1, <2>1, <2>4, ServerSends DEF PlayerInv
  <2>. QED  BY <1>1, <2>1, <2>4, <2>5, ServerMoves
<1>. QED  BY <1>2, <1>3

LEMMA ServerTickKeeps ==
  ASSUME IInv, ServerTick
  PROVE  IInv'
<1>1. CASE RemovePlayer
  <2>1. p \in PlayerState /\ p.connected = FALSE
    BY <1>1 DEF RemovePlayer, IInv, TypeOK, PlayerState
  <2>2. p' = [p EXCEPT !.st = "gone", !.connected = FALSE]
    BY <1>1, <2>1 DEF RemovePlayer, PlayerState
  <2>. QED  BY <1>1, <2>2, PlayerGoes DEF RemovePlayer, ServerTick, ServerDue
<1>2. CASE /\ p.connected
           /\ ServerHandshakeUpdate \/ ServerTransitionUpdate \/ ServerGameUpdate
           /\ UNCHANGED leaves
  BY <1>2, ServerHandshakeKeeps, ServerTransitionKeeps, ServerGameKeeps DEF ServerTick
<1>. QED  BY <1>1, <1>2 DEF ServerTick

LEMMA ServerKicksKeeps ==
  ASSUME IInv, ServerKicks
  PROVE  IInv'
<1>1. /\ TypeOK /\ PlayerInv /\ p \in PlayerState /\ joins \in Nat
      /\ p' = [p EXCEPT !.connected = FALSE] /\ p.st \notin {"none", "gone"}
      /\ UNCHANGED <<c, in, admit, lost, joins, leaves, misread, refused>>
  BY DEF IInv, TypeOK, ServerKicks, Kick
<1>2. Emits("server", "FINISHED", net) /\ "FINISHED" \in Kind
  BY <1>1, SendEmits, TwoSides DEF ServerKicks, Kick, Kind
<1>3. /\ p' \in PlayerState /\ p'.st = p.st /\ p'.response = p.response /\ p'.done = p.done
  BY <1>1 DEF PlayerState
<1>4. \A l : TakenKind("server", l) => TakenKind("server", l)'
  BY <1>1, <1>2, ServerSends
<1>5. PlayerInv'
  BY <1>1, <1>2, <1>3, <1>4, PlayerStays DEF PlayerInv
<1>. QED  BY <1>1, <1>2, <1>3, <1>5, ServerMoves

LEMMA PlayerCreateKeeps ==
  ASSUME IInv, NEW d \in net, PlayerCreate(d)
  PROVE  IInv'
<1>1. /\ TypeOK /\ PlayerInv /\ p \in PlayerState /\ joins \in Nat /\ leaves \in Nat
      /\ d.to = "server" /\ p.st = "none" /\ net' = net \ {d}
      /\ UNCHANGED <<c, out, admit, lost, joins, leaves, misread, refused>>
      /\ refused \in BOOLEAN /\ admit \in BOOLEAN
  BY DEF IInv, TypeOK, PlayerCreate
<1>2. in' = in \/ in' = [in EXCEPT ![d.to] = @ \cup {d.id}]
  BY DEF PlayerCreate, Taken
<1>3. /\ in' \in [Side -> SUBSET Nat]
      /\ \A s \in Side : in[s] \subseteq in'[s] /\ in'[s] \subseteq 1 .. Len(out[Other(s)])
      /\ in["server"] \subseteq in'["server"]
  BY <1>1, <1>2, TakingTyped, TwoSides
<1>4. net' \subseteq Datagram /\ \A e \in net' : e.id <= Len(out'[Other(e.to)])
  BY <1>1 DEF TypeOK
<1>5. Last(States) = "handshake"
  BY DEF States, Last
<1>6. CASE p' = p
  <2>1. PlayerInv'
    BY <1>1, <1>3, <1>6, ServerSilent DEF PlayerInv
  <2>. QED  BY <1>1, <1>3, <1>4, <1>6, <2>1, ServerAlone
<1>7. CASE p' = [Joining EXCEPT !.st = NewPlayer.st]
  <2>1. p' = [[p EXCEPT !.got = TRUE, !.response = IF admit THEN "CHALLENGE" ELSE "WRONG"]
                EXCEPT !.st = "handshake"]
    BY <1>5, <1>7 DEF Joining, NewPlayer
  <2>2. /\ p' \in PlayerState /\ p'.st = "handshake" /\ p'.done = p.done
        /\ p'.response = IF admit THEN "CHALLENGE" ELSE "WRONG"
    BY <1>1, <2>1 DEF PlayerState
  <2>3. PlayerInv'
    BY <1>1, <1>3, <2>2, ServerSilent DEF PlayerInv
  <2>. QED  BY <1>1, <1>3, <1>4, <2>2, <2>3, ServerAlone
<1>. QED  BY <1>6, <1>7 DEF PlayerCreate

-----------------------------------------------------------------------------
(* The environment *)

\* Datagrams that are lost, or that nobody hears.
LEMMA NetLoses ==
  ASSUME IInv, net' \subseteq net, lost' = lost \/ (\E d \in net : Lose(d)),
         UNCHANGED <<c, p, out, in, admit, joins, leaves, misread, refused>>
  PROVE  IInv'
<1>1. TypeOK /\ ClientInv /\ PlayerInv
  BY DEF IInv
<1>2. lost' \in Seq(Kind) /\ Len(lost') <= MaxLoss
  <2>1. CASE lost' = lost
    BY <1>1, <2>1 DEF TypeOK
  <2>2. ASSUME NEW d \in net, Lose(d)
        PROVE  lost' \in Seq(Kind) /\ Len(lost') <= MaxLoss
    <3>1. lost' = Append(lost, KindOf(d)) /\ Len(lost) < MaxLoss /\ lost \in Seq(Kind)
      BY <1>1, <2>2 DEF Lose, TypeOK
    <3>2. KindOf(d) \in Kind
      BY <1>1, DatagramSent
    <3>3. lost' \in Seq(Kind) /\ Len(lost') = Len(lost) + 1 /\ Len(lost) \in Nat
      BY <3>1, <3>2
    <3>. QED  BY <3>1, <3>3, SessionAssumption
  <2>. QED  BY <2>1, <2>2
<1>3. TypeOK'
  BY <1>1, <1>2, NetTyped DEF TypeOK
<1>4. ClientInv'
  BY <1>1, ClientUntouched
<1>5. PlayerInv'
  BY <1>1, PlayerUntouched
<1>. QED  BY <1>3, <1>4, <1>5 DEF IInv

LEMMA TickKeeps ==
  ASSUME IInv, Tick
  PROVE  IInv'
<1>1. /\ TypeOK /\ ClientInv /\ PlayerInv /\ c \in ClientState /\ p \in PlayerState
      /\ UNCHANGED <<out, in, net, admit, lost, joins, leaves, misread, refused>>
  BY DEF IInv, TypeOK, Tick
<1>2. /\ c' \in ClientState /\ c'.st = c.st /\ c'.phase = c.phase /\ c'.got = c.got
      /\ c'.timeouts = c.timeouts /\ c'.starting = c.starting
      /\ c.phase = "NOT_STARTED" => c'.idle = c.idle
  <2>1. CASE c' = c
    BY <1>1, <2>1
  <2>2. CASE c.phase # "NOT_STARTED" /\ c' = [c EXCEPT !.idle = @ + 1]
    BY <1>1, <2>2 DEF ClientState
  <2>. QED  BY <2>1, <2>2 DEF Tick
<1>3. /\ p' \in PlayerState /\ p'.st = p.st /\ p'.response = p.response /\ p'.done = p.done
      /\ p'.connected = p.connected
  <2>1. CASE p' = p
    BY <1>1, <2>1
  <2>2. CASE p' = [p EXCEPT !.idle = @ + 1]
    BY <1>1, <2>2 DEF PlayerState
  <2>. QED  BY <2>1, <2>2 DEF Tick
<1>4. ClientInv'
  BY <1>1, <1>2, ClientSilent DEF ClientInv, IsConnected
<1>5. PlayerInv'
  BY <1>1, <1>3, ServerSilent DEF PlayerInv
<1>6. TypeOK'
  BY <1>1, <1>2, <1>3 DEF TypeOK
<1>. QED  BY <1>1, <1>4, <1>5, <1>6 DEF IInv

-----------------------------------------------------------------------------
(* The theorems *)

LEMMA InitInvariant ==
  ASSUME Init
  PROVE  IInv
<1>1. Last(States) = "handshake"
  BY DEF States, Last
<1>2. 0 \in 0 .. Retries + 1 /\ 0 \in 0 .. MaxUnacked /\ MaxLoss \in Nat /\ Retries \in Nat
  BY SessionAssumption
<1>3. c \in ClientState /\ p \in PlayerState
  BY <1>1, <1>2 DEF Init, NewClient, NewPlayer, ClientState, PlayerState
<1>4. \A s \in Side : out[s] = <<>> /\ in[s] = {}
  BY DEF Init
<1>5. TypeOK
  <2>1. \A s \in Side : Len(out[s]) <= MaxOut[s] + 1 /\ in[s] \subseteq 1 .. Len(out[Other(s)])
    BY <1>4, TwoSides
  <2>2. out \in [Side -> Seq(Kind)] /\ in \in [Side -> SUBSET Nat]
    <3>1. <<>> \in Seq(Kind) /\ {} \in SUBSET Nat
      OBVIOUS
    <3>. QED  BY <3>1 DEF Init
  <2>3. lost = <<>> /\ lost \in Seq(Kind) /\ Len(lost) <= MaxLoss
    BY <1>2 DEF Init
  <2>4. net \subseteq Datagram /\ \A d \in net : d.id <= Len(out[Other(d.to)])
    BY DEF Init
  <2>5. /\ admit \in BOOLEAN /\ joins \in Nat /\ leaves \in Nat
        /\ misread \in BOOLEAN /\ refused \in BOOLEAN
    BY DEF Init
  <2>. QED  BY <1>3, <2>1, <2>2, <2>3, <2>4, <2>5 DEF TypeOK
<1>6. \A s \in Side : \A k, ks : ~Sent(s, k) /\ ~TakenKind(s, k) /\ OnlyAfter(s, k, ks)
  BY <1>4 DEF Sent, TakenKind, OnlyAfter
<1>7. /\ c.st = "unconnected" /\ c.phase = "NOT_STARTED" /\ c.idle = 0 /\ c.timeouts = 0
      /\ c.got = FALSE
      /\ p.st = "none" /\ p.response = "NONE" /\ p.done = FALSE /\ p.connected = TRUE
  BY DEF Init, NewClient, NewPlayer
<1>8. ClientInv
  BY <1>2, <1>6, <1>7, TwoSides DEF ClientInv
<1>9. PlayerInv
  BY <1>4, <1>6, <1>7, TwoSides DEF PlayerInv, Init
<1>. QED  BY <1>5, <1>8, <1>9 DEF IInv, Init

LEMMA NextKeepsInvariant ==
  ASSUME IInv, [Next]_vars
  PROVE  IInv'
<1>1. ASSUME NEW d \in net, NobodyHears(d) \/ Lose(d)
      PROVE  IInv'
  BY <1>1, NetLoses DEF NobodyHears, Lose
<1>2. ASSUME NEW d \in net, PortUnreachable(d)
      PROVE  IInv'
  BY <1>2, PlayerGoes DEF PortUnreachable
<1>3. CASE UNCHANGED vars
  BY <1>3, NetLoses DEF vars
<1>. QED
  BY <1>1, <1>2, <1>3, ClientRecvKeeps, PlayerRecvKeeps, PlayerCreateKeeps, ClientConnectsKeeps,
     ClientUpdateKeeps, ServerTickKeeps, ClientQuitsKeeps, ServerKicksKeeps, TickKeeps
  DEF Next

\* What each side has heard bounds how far it is, whatever the network does.
THEOREM Invariance == Spec => []IInv
<1>1. Init => IInv
  BY InitInvariant
<1>2. IInv /\ [Next]_vars => IInv'
  BY NextKeepsInvariant
<1>. QED  BY <1>1, <1>2, PTL DEF Spec

\* The variables of a session keep to their types; no timer asks for the
\* repetition of a packet that was never sent.
THEOREM TypeCorrect == Spec => []TypeOK
<1>1. IInv => TypeOK
  BY DEF IInv
<1>. QED  BY <1>1, Invariance, PTL

\* A game state or a handshake is never handed a packet of another state: the
\* transition states and the order of packets keep them apart.
THEOREM PacketsReadByTheirState == Spec => []NeverMisread
<1>1. IInv => NeverMisread
  BY DEF IInv, NeverMisread
<1>. QED  BY <1>1, Invariance, PTL

\* The client and the server agree on how far their session is.
THEOREM SidesAgree == Spec => []StatesAgree
<1>1. IInv => StatesAgree
  <2>. SUFFICES ASSUME IInv PROVE StatesAgree
    OBVIOUS
  <2>1. TypeOK /\ ClientInv /\ PlayerInv
    BY DEF IInv
  <2>2. c.st \in {"transition", "game"} => joins = 1
    BY <2>1, TakenWasSent, TwoSides DEF ClientInv, PlayerInv
  <2>3. c.got => p.st \notin {"none", "handshake", "transition"}
    BY <2>1 DEF ClientInv, PlayerInv
  <2>4. p.st = "game" => \E i \in in["server"] : out["client"][i] = "ACK"
    BY <2>1, TwoSides DEF PlayerInv, TakenKind
  <2>. QED  BY <2>2, <2>3, <2>4 DEF StatesAgree
<1>. QED  BY <1>1, Invariance, PTL

\* The application hears once of a player that joins, and only of an admitted
\* one that answered the challenge; it hears once that the player leaves.
THEOREM JoinsAndLeavesOnce == Spec => []JoinOnceAdmitted
<1>1. IInv => JoinOnceAdmitted
  BY TwoSides DEF IInv, PlayerInv, JoinOnceAdmitted, TakenKind
<1>. QED  BY <1>1, Invariance, PTL

-----------------------------------------------------------------------------
(* No service after the end *)

LEMMA NothingAppended ==
  ASSUME TypeOK, out'["server"] = out["server"]
  PROVE  SubSeq(out'["server"], Len(out["server"]) + 1, Len(out'["server"])) \in Seq({"FINISHED"})
<1>1. Len(out["server"]) \in Nat
  BY PacketsTyped, TwoSides
<1>2. \A i \in Len(out["server"]) + 1 .. Len(out["server"]) : out["server"][i] \in {"FINISHED"}
  BY <1>1
<1>. QED  BY <1>1, <1>2, SubSeqProperties

LEMMA FinishAppended ==
  ASSUME TypeOK, NEW rest \in SUBSET net, Emits("server", "FINISHED", rest)
  PROVE  SubSeq(out'["server"], Len(out["server"]) + 1, Len(out'["server"])) \in Seq({"FINISHED"})
<1>1. /\ Len(out["server"]) \in Nat
      /\ Len(out'["server"]) = Len(out["server"]) + 1
      /\ out'["server"][Len(out["server"]) + 1] = "FINISHED"
  BY EmitsPacket, PacketsTyped, TwoSides DEF Kind
<1>2. \A i \in Len(out["server"]) + 1 .. Len(out'["server"]) :
        out'["server"][i] \in {"FINISHED"}
  BY <1>1
<1>. QED  BY <1>1, <1>2, SubSeqProperties

\* A disconnected player is sent no more than the end of the session, is not
\* announced and does not come back: the packets that are still read for it
\* change nothing of that.
THEOREM DisconnectedIsNotServed == Spec => NoServiceAfterEnd
<1>. DEFINE Served ==
         ~p.connected => /\ ~p'.connected /\ joins' = joins
                         /\ SubSeq(out'["server"], Len(out["server"]) + 1, Len(out'["server"]))
                              \in Seq({"FINISHED"})
<1>1. IInv /\ [Next]_vars => [Served]_vars
  <2>. SUFFICES ASSUME IInv, [Next]_vars, ~p.connected
                PROVE  /\ ~p'.connected /\ joins' = joins
                       /\ SubSeq(out'["server"], Len(out["server"]) + 1, Len(out'["server"]))
                            \in Seq({"FINISHED"})
    OBVIOUS
  <2>1. TypeOK /\ PlayerInv /\ p \in PlayerState /\ p.st # "none"
    BY DEF IInv, TypeOK, PlayerInv
  <2>2. CASE p' = p /\ joins' = joins /\ out'["server"] = out["server"]
    BY <2>1, <2>2, NothingAppended
  <2>3. ASSUME NEW k \in Kind, NEW rest \in SUBSET net, Emits("client", k, rest)
        PROVE  out'["server"] = out["server"]
    BY <2>1, <2>3, EmitsPacket, TwoSides
  <2>4. ASSUME NEW d \in net, ClientRecv(d)
        PROVE  p' = p /\ joins' = joins /\ out'["server"] = out["server"]
    <3>1. "FINISHED" \in Kind /\ net \ {d} \in SUBSET net
      BY DEF Kind
    <3>. QED  BY <2>3, <2>4, <3>1, ClientRecvEffect DEF ClientRecv
  <2>5. ASSUME ClientUpdate \/ ClientQuits
        PROVE  p' = p /\ joins' = joins /\ out'["server"] = out["server"]
    <3>1. out' = out \/ \E k \in Kind : Emits("client", k, net)
      BY <2>1, <2>5, SendEmits, TwoSides
         DEF ClientUpdate, ClientTimeout, ClientHandshakeUpdate, ClientTransitionUpdate,
             ClientGameUpdate, ClientQuits, Resend, Kind, HandshakeKind
    <3>. QED  BY <2>3, <2>5, <3>1 DEF ClientUpdate, ClientQuits
  <2>6. ASSUME NEW d \in net, PlayerRecv(d)
        PROVE  /\ ~p'.connected /\ joins' = joins
               /\ out' = out \/ Emits("server", "FINISHED", net \ {d})
    <3>1. joins' = joins
      BY <2>6 DEF PlayerRecv
    <3>2. CASE UNCHANGED <<p, out>>
      BY <3>1, <3>2
    <3>3. CASE p' = [p EXCEPT !.connected = FALSE] /\ out' = out
      BY <2>1, <3>1, <3>3 DEF PlayerState
    <3>4. CASE Kick(net \ {d})
      <4>1. p' = [p EXCEPT !.connected = FALSE] /\ Disconnect("server", net \ {d})
        BY <3>4 DEF Kick
      <4>2. ~p'.connected
        BY <2>1, <4>1 DEF PlayerState
      <4>. QED  BY <2>1, <3>1, <4>1, <4>2, SendEmits, TwoSides
    <3>5. CASE p' \in Result(d) /\ out' = out
      <4>1. p'.connected = p.connected
        <5>1. CASE p.st = "handshake"
          BY <2>1, <3>5, <5>1 DEF Result, HandshakeResult, Joining, PlayerState
        <5>2. CASE p.st = "transition"
          BY <2>1, <3>5, <5>2 DEF Result, TransitionResult, PlayerState
        <5>3. CASE p.st = "game"
          BY <2>1, <3>5, <5>3 DEF Result, GameResult, PlayerState
        <5>4. CASE p.st = "failed"
          BY <3>5, <5>4 DEF Result
        <5>. QED  BY <2>1, <2>6, <5>1, <5>2, <5>3, <5>4 DEF PlayerRecv, PlayerState
      <4>. QED  BY <3>1, <3>5, <4>1
    <3>. QED  BY <2>6, <3>2, <3>3, <3>4, <3>5 DEF PlayerRecv
  <2>7. ASSUME NEW d \in net, PortUnreachable(d)
        PROVE  ~p'.connected /\ joins' = joins /\ out' = out
    BY <2>1, <2>7 DEF PortUnreachable, PlayerState
  <2>8. ASSUME ServerTick
        PROVE  ~p'.connected /\ joins' = joins /\ out' = out
    BY <2>1, <2>8 DEF ServerTick, RemovePlayer, PlayerState
  <2>9. ASSUME Tick
        PROVE  ~p'.connected /\ joins' = joins /\ out' = out
    <3>1. p' = p \/ p' = [p EXCEPT !.idle = @ + 1]
      BY <2>9 DEF Tick
    <3>. QED  BY <2>1, <2>9, <3>1 DEF Tick, PlayerState
  <2>10. ASSUME NEW d \in net, PlayerCreate(d)
         PROVE  FALSE
    BY <2>1, <2>10 DEF PlayerCreate
  <2>11. ASSUME ServerKicks
         PROVE  FALSE
    BY <2>11 DEF ServerKicks
  <2>12. ASSUME (\E d \in net : NobodyHears(d) \/ Lose(d)) \/ ClientConnects \/ UNCHANGED vars
         PROVE  p' = p /\ joins' = joins /\ out'["server"] = out["server"]
    BY <2>12 DEF NobodyHears, Lose, ClientConnects, vars
  <2>13. ASSUME ~p'.connected, joins' = joins, out' = out
         PROVE  SubSeq(out'["server"], Len(out["server"]) + 1, Len(out'["server"]))
                  \in Seq({"FINISHED"})
    BY <2>1, <2>13, NothingAppended
  <2>14. ASSUME NEW d \in net, Emits("server", "FINISHED", net \ {d})
         PROVE  SubSeq(out'["server"], Len(out["server"]) + 1, Len(out'["server"]))
                  \in Seq({"FINISHED"})
    BY <2>1, <2>14, FinishAppended
  <2>. QED
    BY <2>2, <2>4, <2>5, <2>6, <2>7, <2>8, <2>9, <2>10, <2>11, <2>12, <2>13, <2>14 DEF Next
<1>. QED  BY <1>1, Invariance, PTL DEF Spec, NoServiceAfterEnd

-----------------------------------------------------------------------------
(* Packets that are refused *)

\* At most one datagram is lost, the others arrive within a second, and the
\* timers of the two handshakes do not go off together.
InTime == Timely /\ MaxLoss <= 1 /\ ClientSecs["handshake"] # ServerSecs["handshake"]

\* The datagrams that may still be handed to a state of side s.
Fresh(s) == {d \in net : d.to = s /\ d.id \notin in[s] /\ KindOf(d) # "FINISHED"}
Quiet(s) == Fresh(s) = {}

ClientShakes == c.st = "handshake"
PlayerShakes == p.st = "handshake" /\ p.connected

ClientKind == {"JOIN", "RESPONSE", "ACK", "INPUT", "FINISHED"}

\* What the client has sent so far, and to whom.
ClientKinds ==
  /\ \A i \in 1 .. Len(out["client"]) :
       out["client"][i] \in ClientKind /\ (out["client"][i] = "JOIN" => i = 1)
  /\ c.st = "unconnected" => c.phase = "NOT_STARTED"
  /\ c.st \in {"unconnected", "handshake"} =>
       /\ ~Sent("client", "FINISHED")
       /\ c.phase = "NOT_STARTED" => Len(out["client"]) = 0
  /\ Sent("client", "ACK") \/ Sent("client", "INPUT") => c.phase = "ACCEPTED"
  /\ Sent("client", "RESPONSE") \/ c.phase = "CHALLENGE" => Len(out["server"]) > 0

PlayerKinds ==
  /\ p.st = "none" => Len(out["server"]) = 0
  /\ p.st # "none" => TakenKind("server", "JOIN")
  /\ p.st = "failed" => ~p.connected

\* A client that shakes hands is never sent an answer before it has done with
\* the one before.
OneToClient ==
  ClientShakes =>
    /\ \A d, e \in Fresh("client") : d.id = e.id
    /\ c.phase # "WAITING" => Quiet("client")
    /\ p.st = "transition" /\ p.connected =>
         /\ \A d \in Fresh("client") : d.id = Len(out["server"])
         /\ c.phase # "WAITING" => Len(out["server"]) \in in["client"]

\* Of the two hand-shakers one has the turn, or what it sent is under way.
Awaits == ClientShakes => c.phase = "WAITING"

ServersTurn ==
  p.got => /\ Quiet("client") /\ Quiet("server") /\ Awaits
           /\ ClientShakes => Len(out["client"]) \in in["server"]

\* A response: it is sent at once, or again before the server asks again.
ResponseUnderWay ==
  ~Quiet("server") =>
    /\ ~p.got /\ Quiet("client") /\ Awaits
    /\ \A d, e \in Fresh("server") : d.id = e.id
    /\ p.idle <= ServerSecs["handshake"]
    /\ ClientShakes => /\ c.idle = 0 /\ (lost = <<>> => p.idle = 0)
                       /\ \A d \in Fresh("server") : d.id = Len(out["client"])

\* A response that is not the first: the others are lost, and the client does
\* not send them again.
SecondResponse ==
  Sent("client", "RESPONSE") => lost # <<>> /\ c.idle <= ClientSecs["handshake"]

ChallengeUnderWay ==
  ~Quiet("client") =>
    /\ p.idle = 0 /\ Awaits /\ (ClientShakes => SecondResponse)
    /\ \A d \in Fresh("client") : d.id = Len(out["server"])

ClientsTurn ==
  ClientShakes /\ c.phase = "CHALLENGE" =>
    Quiet("server") /\ ~p.got /\ p.idle = 0 /\ SecondResponse

\* Nobody has the turn: both wait, and after a response equally long.
BothWait ==
  ClientShakes /\ ~p.got /\ c.phase = "WAITING" /\ Quiet("client") /\ Quiet("server") =>
    /\ lost # <<>>
    /\ Sent("client", "RESPONSE") => /\ c.idle = p.idle /\ c.idle <= ClientSecs["handshake"] + 1
                                     /\ c.idle <= ServerSecs["handshake"] + 1

TurnInv ==
  PlayerShakes =>
    /\ ~p.got => p.response = "CHALLENGE"
    /\ p.response = "CHALLENGE" => ~TakenKind("server", "RESPONSE")
    /\ ServersTurn /\ ResponseUnderWay /\ ChallengeUnderWay /\ ClientsTurn /\ BothWait

Turns == ClientKinds /\ PlayerKinds /\ OneToClient /\ TurnInv /\ ~refused

-----------------------------------------------------------------------------
(* Datagrams that can still be handed up *)

LEMMA FreshFacts ==
  ASSUME TypeOK, NEW s \in Side, NEW d \in Fresh(s)
  PROVE  /\ d \in net /\ d.to = s /\ d.id \in 1 .. Len(out[Other(s)]) /\ d.id \notin in[s]
         /\ KindOf(d) = out[Other(s)][d.id] /\ KindOf(d) # "FINISHED" /\ Len(out[Other(s)]) \in Nat
BY DatagramSent, PacketsTyped, TwoSides DEF Fresh, KindOf

\* Nothing that was in flight becomes fresh,
LEMMA FreshBefore ==
  ASSUME TypeOK, NEW s \in Side, in[s] \subseteq in'[s],
         \A i \in 1 .. Len(out[Other(s)]) : out'[Other(s)][i] = out[Other(s)][i],
         NEW d \in net, d \in Fresh(s)'
  PROVE  d \in Fresh(s)
<1>1. d.to = s /\ d.id \notin in'[s] /\ out'[Other(s)][d.id] # "FINISHED"
  BY DEF Fresh, KindOf
<1>2. d.id \in 1 .. Len(out[Other(s)])
  BY <1>1, DatagramSent
<1>. QED  BY <1>1, <1>2 DEF Fresh, KindOf

\* ... and what is not taken stays fresh.
LEMMA FreshAfter ==
  ASSUME TypeOK, NEW s \in Side, in'[s] = in[s],
         \A i \in 1 .. Len(out[Other(s)]) : out'[Other(s)][i] = out[Other(s)][i],
         NEW d \in Fresh(s), d \in net'
  PROVE  d \in Fresh(s)'
<1>1. /\ d.to = s /\ d.id \in 1 .. Len(out[Other(s)]) /\ d.id \notin in[s]
      /\ out[Other(s)][d.id] # "FINISHED"
  BY FreshFacts
<1>. QED  BY <1>1 DEF Fresh, KindOf

LEMMA FreshShrinks ==
  ASSUME TypeOK, NEW s \in Side, in[s] \subseteq in'[s], net' \subseteq net,
         \A i \in 1 .. Len(out[Other(s)]) : out'[Other(s)][i] = out[Other(s)][i]
  PROVE  Fresh(s)' \subseteq Fresh(s)
<1>. SUFFICES ASSUME NEW d \in Fresh(s)' PROVE d \in Fresh(s)
  OBVIOUS
<1>1. d \in net
  BY DEF Fresh
<1>. QED  BY <1>1, FreshBefore

\* A packet that side s sends is fresh for the other, and the only new one.
LEMMA EmitsFresh ==
  ASSUME TypeOK, NEW s \in Side, NEW k \in Kind, NEW rest \in SUBSET net, Emits(s, k, rest),
         \A t \in Side : in[t] \subseteq in'[t]
  PROVE  /\ Fresh(s)' \subseteq Fresh(s)
         /\ \A d \in Fresh(Other(s))' :
              d \in Fresh(Other(s)) \/ (k # "FINISHED" /\ d.id = Len(out'[s]))
         /\ in' = in /\ rest = net => Fresh(s)' = Fresh(s)
         /\ in' = in /\ k # "FINISHED" => Fresh(Other(s))' # {}
<1>. DEFINE new == [to |-> Other(s), id |-> Len(out[s]) + 1, retr |-> FALSE]
<1>1. /\ Other(s) \in Side /\ Other(s) # s /\ Other(Other(s)) = s
      /\ Len(out[s]) \in Nat /\ Len(out'[s]) = Len(out[s]) + 1
      /\ \A i \in 1 .. Len(out[s]) : out'[s][i] = out[s][i]
      /\ out'[s][Len(out[s]) + 1] = k
      /\ out'[Other(s)] = out[Other(s)]
      /\ net' = rest \cup {new}
      /\ in[Other(s)] \subseteq 1 .. Len(out[s])
  BY EmitsPacket, PacketsTyped, TwoSides DEF Emits
<1>2. ASSUME NEW d \in Fresh(s)'
      PROVE  d \in Fresh(s)
  <2>1. d \in net' /\ d.to = s
    BY DEF Fresh
  <2>2. d \in net
    BY <1>1, <2>1
  <2>. QED  BY <1>1, <2>2, FreshBefore
<1>3. ASSUME NEW d \in Fresh(Other(s))'
      PROVE  d \in Fresh(Other(s)) \/ (k # "FINISHED" /\ d.id = Len(out'[s]))
  <2>1. d \in net' /\ d.to = Other(s) /\ out'[s][d.id] # "FINISHED"
    BY <1>1 DEF Fresh, KindOf
  <2>2. CASE d \in net
    BY <1>1, <2>2, FreshBefore
  <2>3. CASE d = new
    BY <1>1, <2>1, <2>3
  <2>. QED  BY <1>1, <2>1, <2>2, <2>3
<1>4. ASSUME in' = in, rest = net, NEW d \in Fresh(s)
      PROVE  d \in Fresh(s)'
  <2>1. d \in net'
    BY <1>1, <1>4, FreshFacts
  <2>. QED  BY <1>1, <1>4, <2>1, FreshAfter
<1>5. ASSUME in' = in, k # "FINISHED"
      PROVE  new \in Fresh(Other(s))'
  <2>1. Len(out[s]) + 1 \notin in'[Other(s)]
    BY <1>1, <1>5
  <2>. QED  BY <1>1, <1>5, <2>1 DEF Fresh, KindOf
<1>. QED  BY <1>2, <1>3, <1>4, <1>5

\* A packet that is sent again is fresh unless it has been taken.
LEMMA ResendFresh ==
  ASSUME TypeOK, NEW s \in Side, Len(out[s]) > 0, Resend(s), in' = in
  PROVE  /\ Fresh(s)' = Fresh(s)
         /\ \A d \in Fresh(Other(s))' :
              d \in Fresh(Other(s)) \/ (d.id = Len(out[s]) /\ Len(out[s]) \notin in[Other(s)])
         /\ Fresh(Other(s)) \subseteq Fresh(Other(s))'
         /\ Len(out[s]) \notin in[Other(s)] /\ out[s][Len(out[s])] # "FINISHED" =>
              Fresh(Other(s))' # {}
<1>. DEFINE new == [to |-> Other(s), id |-> Len(out[s]), retr |-> TRUE]
<1>1. /\ Other(s) \in Side /\ Other(s) # s /\ Other(Other(s)) = s
      /\ net' = net \cup {new} /\ out' = out
  BY TwoSides DEF Resend
<1>2. ASSUME NEW t \in Side, NEW d \in Fresh(t)
      PROVE  d \in Fresh(t)'
  <2>1. d \in net'
    BY <1>1, FreshFacts
  <2>. QED  BY <1>1, <2>1, FreshAfter
<1>3. ASSUME NEW t \in Side, NEW d \in Fresh(t)'
      PROVE  d \in Fresh(t) \/ (d.id = Len(out[s]) /\ t = Other(s) /\ Len(out[s]) \notin in[t])
  <2>1. d \in net' /\ d.to = t /\ d.id \notin in[t]
    BY DEF Fresh
  <2>2. CASE d \in net
    BY <1>1, <2>2, FreshBefore
  <2>3. CASE d = new
    BY <1>1, <2>1, <2>3
  <2>. QED  BY <1>1, <2>1, <2>2, <2>3
<1>4. ASSUME Len(out[s]) \notin in[Other(s)], out[s][Len(out[s])] # "FINISHED"
      PROVE  new \in Fresh(Other(s))'
  BY <1>1, <1>4 DEF Fresh, KindOf
<1>5. Fresh(s)' = Fresh(s)
  BY <1>1, <1>2, <1>3
<1>. QED  BY <1>1, <1>2, <1>3, <1>4, <1>5

\* A datagram that is of no use to anyone goes.
LEMMA FreshKept ==
  ASSUME TypeOK, NEW d \in net, d \notin Fresh(d.to), net' = net \ {d}, out' = out,
         in' = in \/ in' = [in EXCEPT ![d.to] = @ \cup {d.id}]
  PROVE  \A s \in Side : Fresh(s)' = Fresh(s)
<1>1. /\ d.to \in Side /\ in \in [Side -> SUBSET Nat]
      /\ d.id \in in[d.to] \/ KindOf(d) = "FINISHED"
  BY DatagramSent DEF Fresh, TypeOK
<1>2. ASSUME NEW s \in Side
      PROVE  Fresh(s)' = Fresh(s)
  <2>1. in[s] \subseteq in'[s] /\ (s # d.to => in'[s] = in[s])
        /\ in'[d.to] \subseteq in[d.to] \cup {d.id}
    BY <1>1
  <2>2. Fresh(s)' \subseteq Fresh(s)
    BY <2>1, FreshShrinks
  <2>3. ASSUME NEW e \in Fresh(s)
        PROVE  e \in Fresh(s)'
    <3>1. /\ e \in net /\ e.to = s /\ e.id \notin in[s] /\ KindOf(e) = out[Other(s)][e.id]
          /\ KindOf(e) # "FINISHED"
      BY FreshFacts
    <3>2. e # d
      BY <3>1
    <3>3. e.id \notin in'[s]
      <4>1. CASE s # d.to
        BY <2>1, <3>1, <4>1
      <4>2. CASE s = d.to /\ e.id = d.id
        BY <1>1, <3>1, <4>2 DEF KindOf
      <4>3. CASE s = d.to /\ e.id # d.id
        BY <2>1, <3>1, <4>3
      <4>. QED  BY <4>1, <4>2, <4>3
    <3>. QED  BY <3>1, <3>2, <3>3 DEF Fresh, KindOf
  <2>. QED  BY <2>2, <2>3
<1>. QED  BY <1>2

-----------------------------------------------------------------------------
(* What has been sent, and to whom *)

\* The client sends nothing.
LEMMA ClientKindsStay ==
  ASSUME ClientKinds, out'["client"] = out["client"],
         Len(out["server"]) > 0 => Len(out'["server"]) > 0,
         c'.st = "unconnected" => c.st = "unconnected",
         c'.st = "handshake" => c.st \in {"unconnected", "handshake"},
         \/ c'.phase = c.phase
         \/ /\ c.phase = "WAITING" /\ c'.phase \in {"CHALLENGE", "ACCEPTED"}
            /\ c.st # "unconnected" /\ Len(out'["server"]) > 0
  PROVE  ClientKinds'
<1>1. \A k : Sent("client", k)' <=> Sent("client", k)
  BY DEF Sent
<1>. QED  BY <1>1 DEF ClientKinds

\* The client sends a packet.
LEMMA ClientKindsSent ==
  ASSUME TypeOK, ClientKinds, NEW k \in ClientKind, NEW rest \in SUBSET net,
         Emits("client", k, rest),
         k = "JOIN" => Len(out["client"]) = 0,
         k \in {"ACK", "INPUT"} => c.phase = "ACCEPTED",
         k = "RESPONSE" => c.phase = "CHALLENGE",
         k = "FINISHED" => c'.st \notin {"unconnected", "handshake"},
         c'.st # "unconnected",
         c'.st = "handshake" => c.st = "handshake" /\ c'.phase # "NOT_STARTED",
         c'.phase = c.phase \/ (c'.phase = "WAITING" /\ c.phase # "ACCEPTED")
  PROVE  ClientKinds'
<1>. k \in Kind
  BY DEF ClientKind, Kind, HandshakeKind
<1>1. /\ Len(out'["client"]) = Len(out["client"]) + 1 /\ Len(out["client"]) \in Nat
      /\ \A i \in 1 .. Len(out["client"]) : out'["client"][i] = out["client"][i]
      /\ out'["client"][Len(out["client"]) + 1] = k
      /\ out'["server"] = out["server"]
  BY EmitsPacket, PacketsTyped, TwoSides
<1>2. \A l : Sent("client", l)' <=> (Sent("client", l) \/ l = k)
  BY SentIsNew, TwoSides
<1>3. \A i \in 1 .. Len(out'["client"]) :
        out'["client"][i] \in ClientKind /\ (out'["client"][i] = "JOIN" => i = 1)
  <2>. SUFFICES ASSUME NEW i \in 1 .. Len(out'["client"])
                PROVE  out'["client"][i] \in ClientKind /\ (out'["client"][i] = "JOIN" => i = 1)
    OBVIOUS
  <2>1. CASE i \in 1 .. Len(out["client"])
    BY <1>1, <2>1 DEF ClientKinds
  <2>2. CASE i = Len(out["client"]) + 1
    BY <1>1, <2>2
  <2>. QED  BY <1>1, <2>1, <2>2
<1>. QED  BY <1>1, <1>2, <1>3 DEF ClientKinds

LEMMA PlayerKindsStay ==
  ASSUME TypeOK, PlayerKinds, in["server"] \subseteq in'["server"],
         \A i \in 1 .. Len(out["client"]) : out'["client"][i] = out["client"][i],
         p'.st = "none" => p.st = "none" /\ out'["server"] = out["server"],
         p.st = "none" => p'.st = "none" \/ TakenKind("server", "JOIN")',
         p'.st = "failed" => ~p'.connected
  PROVE  PlayerKinds'
<1>1. TakenKind("server", "JOIN") => TakenKind("server", "JOIN")'
  BY TakenStays, TwoSides
<1>. QED  BY <1>1 DEF PlayerKinds

\* A player that shakes hands has a client that has joined and not been
\* accepted: what it sent last is a response, or the join request.
LEMMA ShakingClient ==
  ASSUME IInv, ClientKinds, PlayerKinds, p.st = "handshake", ClientShakes
  PROVE  /\ c.phase \in {"WAITING", "CHALLENGE"}
         /\ Len(out["client"]) \in Nat \ {0}
         /\ IF Sent("client", "RESPONSE") THEN out["client"][Len(out["client"])] = "RESPONSE"
            ELSE Len(out["client"]) = 1 /\ 1 \in in["server"]
<1>1. /\ TypeOK /\ c \in ClientState /\ Len(out["client"]) \in Nat
      /\ in["server"] \subseteq 1 .. Len(out["client"])
  BY PacketsTyped, TwoSides DEF IInv, TypeOK
<1>2. PICK j \in in["server"] : out["client"][j] = "JOIN"
  BY TwoSides DEF PlayerKinds, TakenKind
<1>3. j = 1 /\ Len(out["client"]) > 0
  BY <1>1, <1>2 DEF ClientKinds
<1>4. c.phase # "NOT_STARTED"
  BY <1>3 DEF ClientKinds, ClientShakes
<1>5. c.phase # "ACCEPTED"
  BY TakenWasSent, TwoSides DEF IInv, ClientInv, PlayerInv
<1>6. \A i \in 1 .. Len(out["client"]) :
        out["client"][i] = "RESPONSE" \/ (out["client"][i] = "JOIN" /\ i = 1)
  BY <1>5 DEF ClientKinds, ClientShakes, ClientKind, Sent
<1>7. ASSUME NEW i \in 1 .. Len(out["client"]), out["client"][i] = "RESPONSE"
      PROVE  out["client"][Len(out["client"])] = "RESPONSE"
  <2>1. i # 1
    BY <1>2, <1>3, <1>7
  <2>. QED  BY <1>1, <1>6, <1>7, <2>1
<1>8. c.phase \in {"WAITING", "CHALLENGE"}
  BY <1>1, <1>4, <1>5 DEF ClientState
<1>9. ASSUME ~Sent("client", "RESPONSE")
      PROVE  Len(out["client"]) = 1 /\ 1 \in in["server"]
  <2>1. out["client"][Len(out["client"])] # "RESPONSE"
    BY <1>1, <1>3, <1>9 DEF Sent
  <2>2. Len(out["client"]) \in 1 .. Len(out["client"])
    BY <1>1, <1>3
  <2>3. Len(out["client"]) = 1
    BY <1>6, <2>1, <2>2
  <2>. QED  BY <1>2, <1>3, <2>3
<1>10. Sent("client", "RESPONSE") => out["client"][Len(out["client"])] = "RESPONSE"
  BY <1>7 DEF Sent
<1>. QED  BY <1>1, <1>3, <1>8, <1>9, <1>10

\* ... and what it can still be handed is a response.
LEMMA ShakingPlayerHears ==
  ASSUME IInv, ClientKinds, PlayerKinds, p.st = "handshake", NEW d \in Fresh("server")
  PROVE  KindOf(d) = "RESPONSE"
<1>1. /\ TypeOK /\ d.id \in 1 .. Len(out["client"]) /\ d.id \notin in["server"]
      /\ KindOf(d) = out["client"][d.id] /\ KindOf(d) # "FINISHED"
  BY FreshFacts, TwoSides DEF IInv
<1>2. in["server"] \subseteq 1 .. Len(out["client"])
  BY <1>1, PacketsTyped, TwoSides
<1>3. PICK j \in in["server"] : out["client"][j] = "JOIN"
  BY TwoSides DEF PlayerKinds, TakenKind
<1>4. KindOf(d) # "JOIN"
  BY <1>1, <1>2, <1>3 DEF ClientKinds
<1>5. c.phase # "ACCEPTED"
  BY <1>1, TakenWasSent, TwoSides DEF IInv, ClientInv, PlayerInv
<1>. QED  BY <1>1, <1>4, <1>5 DEF ClientKinds, ClientKind, Sent

-----------------------------------------------------------------------------
(* Steps that hand neither side anything new *)

LEMMA AnswersShrink ==
  ASSUME OneToClient, Fresh("client")' \subseteq Fresh("client"),
         in["client"] \subseteq in'["client"],
         c'.st = "handshake" => c.st = "handshake", c'.phase \in {c.phase, "WAITING"},
         p'.st = "transition" /\ p'.connected =>
           p.st = "transition" /\ p.connected /\ Len(out'["server"]) = Len(out["server"])
  PROVE  OneToClient'
BY DEF OneToClient, ClientShakes, Quiet

\* The player's handshake is not touched, and either the client does not shake
\* hands or its handshake is not touched.
LEMMA TurnShrinks ==
  ASSUME TurnInv,
         p'.st = p.st, p'.connected = p.connected, p'.got = p.got, p'.response = p.response,
         p'.idle = p.idle,
         \A s \in Side : Fresh(s)' \subseteq Fresh(s),
         Len(out'["server"]) = Len(out["server"]),
         TakenKind("server", "RESPONSE")' => TakenKind("server", "RESPONSE"),
         \/ ~ClientShakes'
         \/ /\ c'.st = c.st /\ c'.phase = c.phase /\ c'.idle = c.idle
            /\ out'["client"] = out["client"] /\ in["server"] \subseteq in'["server"]
            /\ \A s \in Side : Fresh(s)' = Fresh(s)
            /\ lost' = lost
  PROVE  TurnInv'
<1>. SUFFICES ASSUME PlayerShakes' PROVE TurnInv'
  BY DEF TurnInv
<1>1. /\ PlayerShakes
      /\ ~p.got => p.response = "CHALLENGE"
      /\ p.response = "CHALLENGE" => ~TakenKind("server", "RESPONSE")
      /\ ServersTurn /\ ResponseUnderWay /\ ChallengeUnderWay /\ ClientsTurn /\ BothWait
  BY DEF TurnInv, PlayerShakes
<1>2. /\ Fresh("client")' \subseteq Fresh("client") /\ Fresh("server")' \subseteq Fresh("server")
  BY TwoSides
<1>3. CASE ~ClientShakes'
  <2>1. ServersTurn' /\ ResponseUnderWay' /\ ChallengeUnderWay'
    BY <1>1, <1>2, <1>3 DEF ServersTurn, ResponseUnderWay, ChallengeUnderWay, Quiet, Awaits
  <2>2. ClientsTurn' /\ BothWait'
    BY <1>3 DEF ClientsTurn, BothWait
  <2>. QED  BY <1>1, <2>1, <2>2 DEF TurnInv
<1>4. CASE /\ c'.st = c.st /\ c'.phase = c.phase /\ c'.idle = c.idle
           /\ out'["client"] = out["client"] /\ in["server"] \subseteq in'["server"]
           /\ \A s \in Side : Fresh(s)' = Fresh(s)
           /\ lost' = lost
  <2>1. Fresh("client")' = Fresh("client") /\ Fresh("server")' = Fresh("server")
    BY <1>4, TwoSides
  <2>2. /\ ClientShakes' = ClientShakes /\ Awaits' = Awaits /\ Quiet("client")' = Quiet("client")
        /\ Quiet("server")' = Quiet("server")
        /\ Sent("client", "RESPONSE")' = Sent("client", "RESPONSE")
    BY <1>4, <2>1 DEF ClientShakes, Awaits, Quiet, Sent
  <2>3. SecondResponse' = SecondResponse
    BY <1>4, <2>2 DEF SecondResponse
  <2>4. ServersTurn' /\ ResponseUnderWay' /\ ChallengeUnderWay'
    BY <1>1, <1>4, <2>1, <2>2, <2>3 DEF ServersTurn, ResponseUnderWay, ChallengeUnderWay
  <2>5. ClientsTurn' /\ BothWait'
    BY <1>1, <1>4, <2>1, <2>2, <2>3 DEF ClientsTurn, BothWait
  <2>. QED  BY <1>1, <2>4, <2>5 DEF TurnInv
<1>. QED  BY <1>3, <1>4

\* The server has got what it has to answer, and nothing else is under way.
LEMMA TurnTaken ==
  ASSUME p'.got, Quiet("client")', Quiet("server")', Awaits',
         ClientShakes' => Len(out'["client"]) \in in'["server"],
         p'.response = "CHALLENGE" => ~TakenKind("server", "RESPONSE")'
  PROVE  TurnInv'
BY DEF TurnInv, ServersTurn, ResponseUnderWay, ChallengeUnderWay, ClientsTurn, BothWait, Awaits

LEMMA NoHandshake ==
  ASSUME ~PlayerShakes'
  PROVE  TurnInv'
BY DEF TurnInv

-----------------------------------------------------------------------------
(* The client's steps *)

LEMMA ClientRecvTurns ==
  ASSUME IInv, Turns, NEW d \in net, ClientRecv(d)
  PROVE  Turns'
<1>1. /\ TypeOK /\ ClientInv /\ PlayerInv /\ c \in ClientState
      /\ ClientKinds /\ PlayerKinds /\ OneToClient /\ TurnInv /\ ~refused
      /\ d.to = "client" /\ IsConnected
      /\ UNCHANGED <<p, admit, lost, joins, leaves>>
  BY DEF IInv, Turns, TypeOK, ClientRecv
<1>2. /\ d.id \in 1 .. Len(out["server"]) /\ Len(out["server"]) \in Nat
      /\ in["client"] \subseteq 1 .. Len(out["server"])
  BY <1>1, DatagramSent, PacketsTyped, TwoSides
<1>3. in' = in \/ in' = [in EXCEPT ![d.to] = @ \cup {d.id}]
  BY <1>1 DEF ClientRecv, Taken
<1>4. /\ \A s \in Side : in[s] \subseteq in'[s]
      /\ in'["server"] = in["server"] /\ in["client"] \subseteq in'["client"]
  BY <1>1, <1>3, TakingTyped, TwoSides
<1>5. ASSUME out' = out, net' = net \ {d}
      PROVE  /\ PlayerKinds'
             /\ \A s \in Side : Fresh(s)' \subseteq Fresh(s)
             /\ Fresh("client")' \subseteq Fresh("client")
             /\ TakenKind("server", "RESPONSE")' => TakenKind("server", "RESPONSE")
  <2>1. PlayerKinds'
    BY <1>1, <1>4, <1>5, PlayerKindsStay DEF PlayerKinds
  <2>2. \A s \in Side : Fresh(s)' \subseteq Fresh(s)
    BY <1>1, <1>4, <1>5, FreshShrinks
  <2>. QED  BY <1>4, <1>5, <2>1, <2>2, TwoSides DEF TakenKind
<1>6. ASSUME out' = out, net' = net \ {d}, refused' = refused,
             c'.phase = c.phase, c'.st # "handshake", c'.st # "unconnected"
      PROVE  Turns'
  <2>1. ClientKinds'
    BY <1>1, <1>6, ClientKindsStay
  <2>2. OneToClient'
    BY <1>6 DEF OneToClient, ClientShakes
  <2>3. TurnInv'
    BY <1>1, <1>5, <1>6, TurnShrinks DEF ClientShakes
  <2>. QED  BY <1>1, <1>5, <1>6, <2>1, <2>2, <2>3 DEF Turns
<1>7. CASE Ignored(d) \/ (KindOf(d) = "FINISHED" /\ Overtaken(d))
  <2>1. net' = net \ {d} /\ UNCHANGED <<c, out, misread, refused>>
    BY <1>7 DEF ClientRecv
  <2>2. ClientKinds'
    BY <1>1, <2>1, ClientKindsStay
  <2>3. OneToClient'
    BY <1>1, <1>4, <1>5, <2>1, AnswersShrink
  <2>4. TurnInv'
    <3>1. CASE PlayerShakes
      <4>1. d \notin Fresh("client")
        <5>. SUFFICES ASSUME d \in Fresh("client") PROVE FALSE
          OBVIOUS
        <5>1. d.id \notin in["client"] /\ KindOf(d) # "FINISHED"
          BY DEF Fresh
        <5>2. PICK k \in in["client"] : k > d.id
          BY <1>1, <1>7, <5>1 DEF Ignored, Overtaken
        <5>3. d.id = Len(out["server"])
          BY <1>1, <3>1 DEF TurnInv, ChallengeUnderWay, Quiet
        <5>. QED  BY <1>2, <5>2, <5>3
      <4>2. \A s \in Side : Fresh(s)' = Fresh(s)
        BY <1>1, <1>3, <2>1, <4>1, FreshKept
      <4>. QED  BY <1>1, <1>4, <1>5, <2>1, <4>2, TurnShrinks
    <3>2. CASE ~PlayerShakes
      BY <1>1, <3>2, NoHandshake DEF PlayerShakes
    <3>. QED  BY <3>1, <3>2
  <2>. QED  BY <1>1, <1>5, <2>1, <2>2, <2>3, <2>4 DEF Turns
<1>8. CASE ~(Ignored(d) \/ (KindOf(d) = "FINISHED" /\ Overtaken(d))) /\ KindOf(d) = "FINISHED"
  <2>1. net' = net \ {d} /\ c' = [c EXCEPT !.st = "ended"] /\ UNCHANGED <<out, misread, refused>>
    BY <1>8 DEF ClientRecv
  <2>2. c'.phase = c.phase /\ c'.st = "ended"
    BY <1>1, <2>1 DEF ClientState
  <2>. QED  BY <1>6, <2>1, <2>2
<1>9. CASE ~Ignored(d) /\ KindOf(d) # "FINISHED" /\ c.st \in {"transition", "game"}
  <2>1. /\ \/ c' = [c EXCEPT !.done = TRUE, !.got = GotSnapshot(d)]
           \/ c' = [c EXCEPT !.got = GotSnapshot(d)]
        /\ refused' = refused
        /\ c'.st # "ended" => net' = net \ {d} /\ out' = out
    BY <1>9 DEF ClientRecv
  <2>2. c'.phase = c.phase /\ c'.st = c.st
    BY <1>1, <2>1 DEF ClientState
  <2>. QED  BY <1>6, <1>9, <2>1, <2>2
<1>10. CASE ~Ignored(d) /\ KindOf(d) # "FINISHED" /\ c.st = "handshake"
  <2>1. d \in Fresh("client")
    BY <1>1, <1>10 DEF Fresh, Ignored
  <2>2. c.phase = "WAITING" /\ \A e \in Fresh("client") : e.id = d.id
    BY <1>1, <1>10, <2>1 DEF OneToClient, ClientShakes, Quiet
  <2>3. KindOf(d) \in {"CHALLENGE", "ACCEPTED"}
    BY <1>1, <1>10, ClientHears
  <2>4. c' = [c EXCEPT !.phase = KindOf(d)] /\ refused' = refused
    BY <1>10, <2>2, <2>3 DEF ClientRecv, ClientHandshakeRecv
  <2>5. c'.st = "handshake" /\ c'.phase = KindOf(d) /\ c'.idle = c.idle
    BY <1>1, <1>10, <2>4 DEF ClientState
  <2>6. net' = net \ {d} /\ out' = out /\ Taken(d)
    BY <1>10, <2>5 DEF ClientRecv
  <2>7. ClientKinds'
    BY <1>1, <1>2, <1>10, <2>2, <2>3, <2>5, <2>6, ClientKindsStay
  <2>8. d.id \in in'["client"]
    BY <1>1, <2>6, TwoSides DEF Taken, TypeOK
  <2>9. Fresh("client")' = {}
    BY <1>5, <2>2, <2>6, <2>8 DEF Fresh
  <2>10. OneToClient'
    <3>1. p.st = "transition" /\ p.connected => d.id = Len(out["server"])
      BY <1>1, <1>10, <2>1 DEF OneToClient, ClientShakes
    <3>. QED  BY <1>1, <2>6, <2>8, <2>9, <3>1 DEF OneToClient, Quiet
  <2>11. TurnInv'
    <3>1. CASE PlayerShakes
      <4>1. /\ Quiet("server") /\ ~p.got /\ p.idle = 0 /\ SecondResponse
            /\ ~p.got => p.response = "CHALLENGE"
            /\ p.response = "CHALLENGE" => ~TakenKind("server", "RESPONSE")
        BY <1>1, <1>10, <2>1, <3>1
           DEF TurnInv, ServersTurn, ResponseUnderWay, ChallengeUnderWay, ClientShakes, Quiet
      <4>2. /\ Quiet("server")' /\ Quiet("client")'
        BY <1>5, <2>6, <2>9, <4>1, TwoSides DEF Quiet
      <4>3. c'.phase = "CHALLENGE"
        <5>1. KindOf(d) = out["server"][d.id]
          BY <1>1, TwoSides DEF KindOf
        <5>2. KindOf(d) # "ACCEPTED"
          BY <1>1, <1>2, <3>1, <5>1 DEF PlayerInv, Sent, PlayerShakes
        <5>. QED  BY <2>3, <2>5, <5>2
      <4>4. SecondResponse'
        BY <1>1, <2>5, <2>6, <4>1 DEF SecondResponse, Sent
      <4>5. ServersTurn' /\ ResponseUnderWay' /\ ChallengeUnderWay' /\ BothWait'
        BY <1>1, <4>1, <4>2, <4>3
           DEF ServersTurn, ResponseUnderWay, ChallengeUnderWay, BothWait
      <4>6. ClientsTurn'
        BY <1>1, <4>1, <4>2, <4>4 DEF ClientsTurn
      <4>. QED  BY <1>1, <1>5, <2>6, <4>1, <4>5, <4>6 DEF TurnInv
    <3>2. CASE ~PlayerShakes
      BY <1>1, <3>2, NoHandshake DEF PlayerShakes
    <3>. QED  BY <3>1, <3>2
  <2>. QED  BY <1>1, <1>5, <2>4, <2>6, <2>7, <2>10, <2>11 DEF Turns
<1>. QED  BY <1>7, <1>8, <1>9, <1>10 DEF ClientRecv

\* An accepted client has left the player's handshake behind.
LEMMA AcceptedIsPast ==
  ASSUME IInv, c.phase = "ACCEPTED"
  PROVE  ~PlayerShakes
BY TakenWasSent, TwoSides DEF IInv, ClientInv, PlayerInv, PlayerShakes

LEMMA ClientSent ==
  ASSUME TypeOK, PlayerKinds, p' = p, in' = in, NEW k \in Kind, Emits("client", k, net)
  PROVE  /\ PlayerKinds'
         /\ Fresh("client")' = Fresh("client")
         /\ \A d \in Fresh("server")' :
              d \in Fresh("server") \/ (k # "FINISHED" /\ d.id = Len(out'["client"]))
         /\ k # "FINISHED" => Fresh("server")' # {}
         /\ out'["server"] = out["server"]
         /\ TakenKind("server", "RESPONSE")' => TakenKind("server", "RESPONSE")
<1>1. /\ out'["server"] = out["server"]
      /\ \A i \in 1 .. Len(out["client"]) : out'["client"][i] = out["client"][i]
  BY EmitsPacket, TwoSides
<1>2. PlayerKinds'
  BY <1>1, PlayerKindsStay DEF PlayerKinds
<1>3. TakenKind("server", "RESPONSE")' => TakenKind("server", "RESPONSE")
  <2>1. in["server"] \subseteq 1 .. Len(out["client"])
    BY PacketsTyped, TwoSides
  <2>. QED  BY <1>1, <2>1, TwoSides DEF TakenKind
<1>. QED  BY <1>1, <1>2, <1>3, EmitsFresh, TwoSides

\* The client sends what is not of its handshake.
LEMMA ClientPastTurns ==
  ASSUME IInv, Turns, UNCHANGED <<p, in, lost, refused>>,
         NEW k \in {"ACK", "INPUT", "FINISHED"}, Emits("client", k, net),
         k # "FINISHED" => c.phase = "ACCEPTED",
         c'.phase = c.phase, c'.st \notin {"unconnected", "handshake"}
  PROVE  Turns'
<1>1. /\ TypeOK /\ ClientKinds /\ PlayerKinds /\ TurnInv /\ ~refused
      /\ k \in Kind /\ k \in ClientKind
  BY DEF IInv, Turns, Kind, HandshakeKind, ClientKind
<1>2. /\ PlayerKinds'
      /\ Fresh("client")' = Fresh("client")
      /\ k = "FINISHED" => Fresh("server")' \subseteq Fresh("server")
      /\ out'["server"] = out["server"]
      /\ TakenKind("server", "RESPONSE")' => TakenKind("server", "RESPONSE")
  BY <1>1, ClientSent
<1>3. ClientKinds'
  BY <1>1, ClientKindsSent
<1>4. OneToClient' /\ ~ClientShakes'
  BY DEF OneToClient, ClientShakes
<1>5. TurnInv'
  <2>1. CASE k = "FINISHED"
    BY <1>1, <1>2, <1>4, <2>1, TurnShrinks, TwoSides
  <2>2. CASE k # "FINISHED"
    BY <2>2, AcceptedIsPast, NoHandshake DEF PlayerShakes
  <2>. QED  BY <2>1, <2>2
<1>. QED  BY <1>1, <1>2, <1>3, <1>4, <1>5 DEF Turns

LEMMA ClientConnectsTurns ==
  ASSUME IInv, Turns, ClientConnects
  PROVE  Turns'
<1>1. /\ TypeOK /\ ClientKinds /\ PlayerKinds /\ ~refused
      /\ c.st = "unconnected" /\ c' = NewClient
      /\ UNCHANGED <<p, out, in, net, admit, lost, joins, leaves, misread, refused>>
  BY DEF IInv, Turns, ClientConnects
<1>2. c'.st = "handshake" /\ c'.phase = "NOT_STARTED" /\ c.phase = "NOT_STARTED"
  <2>1. Last(States) = "handshake"
    BY DEF States, Last
  <2>. QED  BY <1>1, <2>1 DEF NewClient, ClientKinds
<1>3. ClientKinds'
  BY <1>1, <1>2, ClientKindsStay
<1>4. PlayerKinds'
  BY <1>1, PlayerKindsStay DEF PlayerKinds
<1>5. p.st = "none" /\ Len(out["server"]) = 0
  <2>1. Len(out["client"]) = 0 /\ in["server"] \subseteq 1 .. Len(out["client"])
    BY <1>1, <1>2, PacketsTyped, TwoSides DEF ClientKinds
  <2>2. ~TakenKind("server", "JOIN")
    BY <2>1 DEF TakenKind
  <2>. QED  BY <1>1, <2>2 DEF PlayerKinds
<1>6. Fresh("client")' = {}
  <2>1. Fresh("client") = {}
    BY <1>1, <1>5, FreshFacts, TwoSides
  <2>. QED  BY <1>1, <2>1 DEF Fresh, KindOf
<1>7. OneToClient' /\ TurnInv'
  BY <1>1, <1>5, <1>6, NoHandshake DEF OneToClient, Quiet, PlayerShakes
<1>. QED  BY <1>1, <1>3, <1>4, <1>7 DEF Turns

LEMMA ClientQuitsTurns ==
  ASSUME IInv, Turns, ClientQuits
  PROVE  Turns'
<1>1. /\ TypeOK /\ c \in ClientState /\ c' = [c EXCEPT !.st = "ended"]
      /\ UNCHANGED <<p, in, lost, refused>>
  BY DEF IInv, TypeOK, ClientQuits
<1>2. Emits("client", "FINISHED", net)
  BY <1>1, SendEmits, TwoSides DEF ClientQuits
<1>3. c'.st = "ended" /\ c'.phase = c.phase
  BY <1>1 DEF ClientState
<1>. QED  BY <1>1, <1>2, <1>3, ClientPastTurns

\* The client repeats what it sent last, a join request or the only response:
\* another one is answered first.
LEMMA ClientRepeatsTurns ==
  ASSUME InTime, IInv, Turns, ClientTimedOut, Resend("client"),
         c' = [c EXCEPT !.timeouts = c.timeouts + 1, !.idle = 0],
         UNCHANGED <<p, in, lost, refused>>, IsConnected
  PROVE  Turns'
<1>1. /\ TypeOK /\ ClientInv /\ c \in ClientState /\ p \in PlayerState
      /\ ClientKinds /\ PlayerKinds /\ OneToClient /\ TurnInv /\ ~refused
      /\ out' = out
  BY DEF IInv, Turns, TypeOK, Resend
<1>2. c'.st = c.st /\ c'.phase = c.phase /\ c'.idle = 0
  BY <1>1 DEF ClientState
<1>3. c.st \in {"handshake", "transition", "game"}
  BY <1>1 DEF IsConnected, ClientState
<1>4. /\ ClientSecs["handshake"] \in Nat \ {0} /\ ServerSecs["handshake"] \in Nat \ {0}
      /\ ClientSecs[c.st] \in Nat \ {0} /\ c.idle > ClientSecs[c.st]
      /\ c.idle \in Nat /\ p.idle \in Nat
      /\ ClientSecs["handshake"] # ServerSecs["handshake"]
  BY <1>1, <1>3, SessionAssumption DEF ClientTimedOut, InTime, ClientState, PlayerState
<1>5. Len(out["client"]) > 0
  BY <1>1, <1>4 DEF ClientInv
<1>6. /\ Fresh("client")' = Fresh("client")
      /\ \A d \in Fresh("server")' :
           d \in Fresh("server") \/ (d.id = Len(out["client"]) /\ Len(out["client"]) \notin in["server"])
      /\ Fresh("server") \subseteq Fresh("server")'
      /\ Len(out["client"]) \notin in["server"] /\ out["client"][Len(out["client"])] # "FINISHED" =>
           Fresh("server")' # {}
  BY <1>1, <1>5, ResendFresh, TwoSides
<1>7. ClientKinds' /\ PlayerKinds' /\ OneToClient'
  BY <1>1, <1>2, <1>6, ClientKindsStay, PlayerKindsStay, AnswersShrink DEF PlayerKinds
<1>8. TurnInv'
  <2>1. CASE c.st # "handshake"
    BY <1>1, <1>3, <2>1, AcceptedIsPast, NoHandshake DEF ClientInv, PlayerShakes
  <2>2. CASE ~PlayerShakes
    BY <2>2, NoHandshake DEF PlayerShakes
  <2>3. CASE c.st = "handshake" /\ PlayerShakes
    <3>1. /\ c.phase \in {"WAITING", "CHALLENGE"}
          /\ IF Sent("client", "RESPONSE") THEN out["client"][Len(out["client"])] = "RESPONSE"
             ELSE Len(out["client"]) = 1 /\ 1 \in in["server"]
      BY <1>1, <2>3, ShakingClient DEF ClientShakes, PlayerShakes
    <3>2. /\ ~p.got => p.response = "CHALLENGE"
          /\ p.response = "CHALLENGE" => ~TakenKind("server", "RESPONSE")
          /\ ServersTurn /\ ResponseUnderWay /\ ChallengeUnderWay /\ ClientsTurn /\ BothWait
          /\ ClientShakes /\ ClientShakes'
      BY <1>1, <1>2, <2>3 DEF TurnInv, ClientShakes
    <3>3. TakenKind("server", "RESPONSE")' <=> TakenKind("server", "RESPONSE")
      BY <1>1 DEF TakenKind
    <3>4. Quiet("server")
      BY <1>4, <3>2 DEF ResponseUnderWay
    <3>5. Quiet("client")' <=> Quiet("client")
      BY <1>6 DEF Quiet
    <3>6. CASE ~Sent("client", "RESPONSE")
      <4>1. Quiet("server")' /\ ~Sent("client", "RESPONSE")'
        BY <1>1, <1>6, <3>1, <3>4, <3>6 DEF Quiet, Sent
      <4>2. SecondResponse'
        BY <4>1 DEF SecondResponse
      <4>3. ServersTurn' /\ ResponseUnderWay' /\ ChallengeUnderWay'
        BY <1>1, <1>2, <1>6, <3>2, <3>4, <3>5, <4>1, <4>2
           DEF ServersTurn, ResponseUnderWay, ChallengeUnderWay, Awaits, ClientShakes
      <4>4. ClientsTurn' /\ BothWait'
        BY <1>1, <1>2, <3>2, <3>4, <3>5, <4>1, <4>2 DEF ClientsTurn, BothWait, ClientShakes
      <4>. QED  BY <3>2, <3>3, <4>3, <4>4 DEF TurnInv
    <3>7. CASE Sent("client", "RESPONSE")
      <4>1. Quiet("client") /\ c.phase = "WAITING" /\ Quiet("client")' /\ c'.phase = "WAITING"
        BY <1>2, <1>4, <2>3, <3>1, <3>2, <3>5, <3>7
           DEF ChallengeUnderWay, ClientsTurn, SecondResponse
      <4>2. CASE p.got
        <5>1. Quiet("server")'
          BY <1>6, <3>2, <3>4, <4>2 DEF ServersTurn, Quiet
        <5>. QED  BY <1>1, <3>2, <3>3, <4>1, <4>2, <5>1, TurnTaken DEF ServersTurn, Awaits
      <4>3. CASE ~p.got
        <5>1. /\ lost # <<>> /\ c.idle = p.idle
              /\ c.idle <= ClientSecs["handshake"] + 1 /\ c.idle <= ServerSecs["handshake"] + 1
          BY <3>2, <3>4, <3>7, <4>1, <4>3 DEF BothWait
        <5>2. p.idle <= ServerSecs["handshake"]
          BY <1>4, <2>3, <5>1
        <5>3. Len(out["client"]) \notin in["server"]
          BY <3>1, <3>2, <3>7, <4>3, TwoSides DEF TakenKind
        <5>4. ~Quiet("server")' /\ \A d \in Fresh("server")' : d.id = Len(out["client"])
          BY <1>6, <3>1, <3>4, <3>7, <5>3 DEF Quiet
        <5>5. ResponseUnderWay'
          BY <1>1, <1>2, <4>1, <4>3, <5>1, <5>2, <5>4 DEF ResponseUnderWay, Awaits
        <5>6. ServersTurn' /\ ChallengeUnderWay' /\ ClientsTurn' /\ BothWait'
          BY <4>1, <4>3, <5>4 DEF ServersTurn, ChallengeUnderWay, ClientsTurn, BothWait
        <5>. QED  BY <3>2, <3>3, <5>5, <5>6 DEF TurnInv
      <4>. QED  BY <4>2, <4>3
    <3>. QED  BY <3>6, <3>7
  <2>. QED  BY <2>1, <2>2, <2>3
<1>. QED  BY <1>1, <1>7, <1>8 DEF Turns

LEMMA ClientHandshakeTurns ==
  ASSUME IInv, Turns, ClientHandshakeUpdate, UNCHANGED <<p, in, lost, refused>>
  PROVE  Turns'
<1>1. /\ TypeOK /\ c \in ClientState /\ c.st = "handshake"
      /\ ClientKinds /\ PlayerKinds /\ OneToClient /\ TurnInv /\ ~refused
  BY DEF IInv, Turns, TypeOK, ClientHandshakeUpdate
<1>2. ASSUME NEW k \in {"JOIN", "RESPONSE"}, Send("client", k, net),
             c.phase = IF k = "JOIN" THEN "NOT_STARTED" ELSE "CHALLENGE",
             c' = [c EXCEPT !.phase = "WAITING", !.timeouts = 0, !.idle = 0]
      PROVE  Turns'
  <2>1. /\ Emits("client", k, net) /\ k \in Kind /\ k \in ClientKind
        /\ c'.st = "handshake" /\ c'.phase = "WAITING" /\ c'.idle = 0
    BY <1>1, <1>2, SendEmits, TwoSides DEF Kind, HandshakeKind, ClientKind, ClientState
  <2>2. /\ PlayerKinds'
        /\ Fresh("client")' = Fresh("client")
        /\ \A d \in Fresh("server")' : d \in Fresh("server") \/ d.id = Len(out'["client"])
        /\ Fresh("server")' # {}
        /\ out'["server"] = out["server"]
        /\ TakenKind("server", "RESPONSE")' => TakenKind("server", "RESPONSE")
    BY <1>1, <1>2, <2>1, ClientSent
  <2>3. ClientKinds'
    BY <1>1, <1>2, <2>1, ClientKindsSent DEF ClientKinds
  <2>4. OneToClient'
    BY <1>1, <2>1, <2>2, AnswersShrink
  <2>5. TurnInv'
    <3>1. CASE ~PlayerShakes
      BY <3>1, NoHandshake DEF PlayerShakes
    <3>2. CASE PlayerShakes
      <4>1. c.phase = "CHALLENGE"
        BY <1>1, <1>2, <3>2, ShakingClient DEF ClientShakes, PlayerShakes
      <4>2. /\ Quiet("server") /\ ~p.got /\ p.idle = 0 /\ Quiet("client")
            /\ p.response = "CHALLENGE" /\ ~TakenKind("server", "RESPONSE")
        BY <1>1, <3>2, <4>1 DEF TurnInv, ClientsTurn, OneToClient, ClientShakes
      <4>3. /\ ~Quiet("server")' /\ Quiet("client")'
            /\ \A d \in Fresh("server")' : d.id = Len(out'["client"])
        BY <2>2, <4>2 DEF Quiet
      <4>4. 0 <= ServerSecs["handshake"]
        BY SessionAssumption
      <4>5. ResponseUnderWay'
        BY <2>1, <4>2, <4>3, <4>4 DEF ResponseUnderWay, Awaits
      <4>6. ServersTurn' /\ ChallengeUnderWay' /\ ClientsTurn' /\ BothWait'
        BY <2>1, <4>2, <4>3 DEF ServersTurn, ChallengeUnderWay, ClientsTurn, BothWait
      <4>. QED  BY <2>2, <4>2, <4>5, <4>6 DEF TurnInv
    <3>. QED  BY <3>1, <3>2
  <2>. QED  BY <1>1, <2>2, <2>3, <2>4, <2>5 DEF Turns
<1>3. ASSUME c.phase = "ACCEPTED", out' = out, net' = net,
             c' = [BeginTransition(c) EXCEPT !.timeouts = 0, !.starting = TRUE]
      PROVE  Turns'
  <2>1. c'.st = "transition" /\ c'.phase = c.phase
    BY <1>1, <1>3 DEF ClientState, BeginTransition
  <2>2. ClientKinds' /\ PlayerKinds'
    BY <1>1, <1>3, <2>1, ClientKindsStay, PlayerKindsStay DEF PlayerKinds
  <2>3. OneToClient' /\ TurnInv'
    BY <1>3, <2>1, AcceptedIsPast, NoHandshake DEF OneToClient, ClientShakes, PlayerShakes
  <2>. QED  BY <1>1, <2>2, <2>3 DEF Turns
<1>. QED  BY <1>2, <1>3 DEF ClientHandshakeUpdate

LEMMA ClientUpdateTurns ==
  ASSUME InTime, IInv, Turns, ClientUpdate
  PROVE  Turns'
<1>1. /\ TypeOK /\ ClientInv /\ c \in ClientState /\ IsConnected
      /\ ClientKinds /\ PlayerKinds /\ OneToClient /\ TurnInv /\ ~refused
      /\ UNCHANGED <<p, in, lost, refused>>
  BY DEF IInv, Turns, TypeOK, ClientUpdate, ClientDue
<1>2. CASE ClientTimeout
  <2>1. CASE c.timeouts + 1 > Retries
    <3>1. /\ c' = [c EXCEPT !.st = "ended", !.timeouts = @ + 1, !.idle = 0]
          /\ Emits("client", "FINISHED", net)
      BY <1>1, <1>2, <2>1, SendEmits, TwoSides DEF ClientTimeout
    <3>2. c'.st = "ended" /\ c'.phase = c.phase
      BY <1>1, <3>1 DEF ClientState
    <3>. QED  BY <1>1, <3>1, <3>2, ClientPastTurns
  <2>2. CASE ~(c.timeouts + 1 > Retries)
    BY <1>1, <1>2, <2>2, ClientRepeatsTurns DEF ClientTimeout
  <2>. QED  BY <2>1, <2>2
<1>3. CASE ClientTransitionUpdate
  <2>1. c.st = "transition" /\ c.phase = "ACCEPTED"
    BY <1>1, <1>3 DEF ClientTransitionUpdate, ClientInv
  <2>2. CASE c.starting
    <3>1. c' = [c EXCEPT !.starting = FALSE, !.idle = 0] /\ Emits("client", "ACK", net)
      BY <1>1, <1>3, <2>2, SendEmits, TwoSides DEF ClientTransitionUpdate
    <3>2. c'.st = "transition" /\ c'.phase = c.phase
      BY <1>1, <2>1, <3>1 DEF ClientState
    <3>. QED  BY <1>1, <2>1, <3>1, <3>2, ClientPastTurns
  <2>3. CASE ~c.starting
    <3>1. c' = [c EXCEPT !.st = "game", !.timeouts = 0, !.idle = 0] /\ out' = out /\ net' = net
      BY <1>3, <2>3 DEF ClientTransitionUpdate
    <3>2. c'.st = "game" /\ c'.phase = c.phase
      BY <1>1, <3>1 DEF ClientState
    <3>3. ClientKinds' /\ PlayerKinds'
      BY <1>1, <3>1, <3>2, ClientKindsStay, PlayerKindsStay DEF PlayerKinds
    <3>4. OneToClient' /\ TurnInv'
      BY <1>1, <2>1, <3>2, AcceptedIsPast, NoHandshake DEF OneToClient, ClientShakes, PlayerShakes
    <3>. QED  BY <1>1, <3>3, <3>4 DEF Turns
  <2>. QED  BY <2>2, <2>3
<1>4. CASE ClientGameUpdate
  <2>1. /\ c.st = "game" /\ c.phase = "ACCEPTED" /\ Emits("client", "INPUT", net)
        /\ c' = [c EXCEPT !.timeouts = 0, !.idle = 0]
    BY <1>1, <1>4, SendEmits, TwoSides DEF ClientGameUpdate, ClientInv
  <2>2. c'.st = "game" /\ c'.phase = c.phase
    BY <1>1, <2>1 DEF ClientState
  <2>. QED  BY <1>1, <2>1, <2>2, ClientPastTurns
<1>. QED  BY <1>1, <1>2, <1>3, <1>4, ClientHandshakeTurns DEF ClientUpdate

-----------------------------------------------------------------------------
(* The server's steps *)

LEMMA ServerSent ==
  ASSUME TypeOK, ClientKinds, c' = c, in["server"] \subseteq in'["server"],
         in'["client"] = in["client"],
         NEW k \in Kind, NEW rest \in SUBSET net, Emits("server", k, rest)
  PROVE  /\ ClientKinds'
         /\ Fresh("server")' \subseteq Fresh("server")
         /\ \A d \in Fresh("client")' :
              d \in Fresh("client") \/ (k # "FINISHED" /\ d.id = Len(out'["server"]))
         /\ in' = in /\ rest = net => Fresh("server")' = Fresh("server")
         /\ in' = in /\ k # "FINISHED" => Fresh("client")' # {}
         /\ out'["client"] = out["client"]
<1>1. out'["client"] = out["client"] /\ Len(out'["server"]) > 0
  <2>1. Len(out'["server"]) = Len(out["server"]) + 1 /\ Len(out["server"]) \in Nat
    BY EmitsPacket, PacketsTyped, TwoSides
  <2>. QED  BY <2>1, EmitsPacket, TwoSides
<1>2. ClientKinds'
  BY <1>1, ClientKindsStay
<1>3. \A s \in Side : in[s] \subseteq in'[s]
  BY TwoSides
<1>. QED  BY <1>1, <1>2, <1>3, EmitsFresh, TwoSides

\* A player that is not or no longer connected is sent no more than the end.
LEMMA PlayerDropped ==
  ASSUME IInv, Turns, c' = c, ~p'.connected, p.st # "none", p'.st # "none", ~refused',
         in["server"] \subseteq in'["server"], in'["client"] = in["client"],
         NEW rest \in SUBSET net,
         (out' = out /\ net' = rest) \/ Emits("server", "FINISHED", rest)
  PROVE  Turns'
<1>1. /\ TypeOK /\ ClientKinds /\ PlayerKinds /\ OneToClient
      /\ "FINISHED" \in Kind /\ \A s \in Side : in[s] \subseteq in'[s]
  BY TwoSides DEF IInv, Turns, Kind
<1>2. /\ ClientKinds' /\ Fresh("client")' \subseteq Fresh("client")
      /\ out'["client"] = out["client"]
  <2>1. CASE out' = out /\ net' = rest
    BY <1>1, <2>1, ClientKindsStay, FreshShrinks, TwoSides
  <2>2. CASE Emits("server", "FINISHED", rest)
    BY <1>1, <2>2, ServerSent
  <2>. QED  BY <2>1, <2>2
<1>3. PlayerKinds'
  BY <1>1, <1>2, PlayerKindsStay
<1>4. OneToClient'
  BY <1>1, <1>2, AnswersShrink
<1>5. TurnInv'
  BY NoHandshake DEF PlayerShakes
<1>. QED  BY <1>2, <1>3, <1>4, <1>5 DEF Turns

\* A player is created by the join request, the only packet of its client.
LEMMA PlayerCreateTurns ==
  ASSUME IInv, Turns, NEW d \in net, PlayerCreate(d)
  PROVE  Turns'
<1>1. /\ TypeOK /\ ClientInv /\ c \in ClientState /\ p \in PlayerState
      /\ ClientKinds /\ PlayerKinds /\ OneToClient /\ TurnInv /\ ~refused
      /\ d.to = "server" /\ p.st = "none" /\ net' = net \ {d}
      /\ UNCHANGED <<c, out, admit, lost, joins, leaves, misread, refused>>
  BY DEF IInv, Turns, TypeOK, PlayerCreate
<1>2. in' = in \/ in' = [in EXCEPT ![d.to] = @ \cup {d.id}]
  BY DEF PlayerCreate, Taken
<1>3. /\ \A s \in Side : in[s] \subseteq in'[s]
      /\ in["server"] \subseteq in'["server"] /\ in'["client"] = in["client"]
  BY <1>1, <1>2, TakingTyped, TwoSides
<1>4. ClientKinds' /\ Fresh("client")' \subseteq Fresh("client")
  BY <1>1, <1>3, ClientKindsStay, FreshShrinks, TwoSides
<1>5. CASE KindOf(d) # "JOIN"
  <2>1. p' = p
    BY <1>5 DEF PlayerCreate
  <2>. QED
    BY <1>1, <1>3, <1>4, <2>1, PlayerKindsStay, AnswersShrink, NoHandshake
       DEF PlayerKinds, PlayerShakes, Turns
<1>6. CASE KindOf(d) = "JOIN"
  <2>1. Taken(d) /\ p' = [Joining EXCEPT !.st = NewPlayer.st]
    BY <1>6 DEF PlayerCreate
  <2>2. p'.st = "handshake" /\ p'.got
    <3>1. Last(States) = "handshake"
      BY DEF States, Last
    <3>. QED  BY <1>1, <2>1, <3>1 DEF Joining, NewPlayer, PlayerState
  <2>3. /\ d.id \in 1 .. Len(out["client"]) /\ out["client"][d.id] = "JOIN"
        /\ in'["server"] = in["server"] \cup {d.id} /\ in["server"] \subseteq 1 .. Len(out["client"])
        /\ Len(out["server"]) = 0 /\ Len(out["client"]) \in Nat
    BY <1>1, <1>6, <2>1, DatagramSent, PacketsTyped, TwoSides
       DEF KindOf, Taken, TypeOK, PlayerKinds
  <2>4. d.id = 1 /\ TakenKind("server", "JOIN")'
    BY <1>1, <2>3, TwoSides DEF ClientKinds, TakenKind
  <2>5. /\ ~Sent("client", "RESPONSE") /\ c.phase # "CHALLENGE" /\ c.phase # "ACCEPTED"
        /\ ~Sent("client", "ACK") /\ ~Sent("client", "INPUT")
    <3>1. ~Sent("client", "RESPONSE") /\ c.phase # "CHALLENGE"
      BY <1>1, <2>3 DEF ClientKinds
    <3>2. c.phase # "ACCEPTED"
      BY <1>1, <2>3, TakenWasSent, TwoSides DEF ClientInv, Sent
    <3>. QED  BY <1>1, <3>1, <3>2 DEF ClientKinds
  <2>6. \A i \in 1 .. Len(out["client"]) :
          (out["client"][i] = "JOIN" /\ i = 1) \/ out["client"][i] = "FINISHED"
    BY <1>1, <2>5 DEF ClientKinds, ClientKind, Sent
  <2>7. Fresh("client") = {} /\ Fresh("server")' = {}
    <3>1. ASSUME NEW e \in Fresh("client")
          PROVE  FALSE
      BY <1>1, <2>3, <3>1, FreshFacts, TwoSides
    <3>2. ASSUME NEW e \in Fresh("server")'
          PROVE  FALSE
      <4>1. e \in Fresh("server") /\ e.id \notin in'["server"]
        BY <1>1, <1>3, FreshShrinks, TwoSides DEF Fresh
      <4>2. e.id \in 1 .. Len(out["client"]) /\ out["client"][e.id] # "FINISHED"
        BY <1>1, <4>1, FreshFacts, TwoSides
      <4>. QED  BY <2>3, <2>4, <2>6, <4>1, <4>2
    <3>. QED  BY <3>1, <3>2
  <2>8. ClientShakes => c.phase = "WAITING" /\ Len(out["client"]) = 1
    <3>. SUFFICES ASSUME ClientShakes
                  PROVE  c.phase = "WAITING" /\ Len(out["client"]) = 1
      OBVIOUS
    <3>1. c.phase # "NOT_STARTED" /\ ~Sent("client", "FINISHED")
      BY <1>1, <2>3 DEF ClientKinds, ClientShakes
    <3>2. /\ out["client"][Len(out["client"])] # "FINISHED"
          /\ Len(out["client"]) \in 1 .. Len(out["client"])
      BY <2>3, <3>1 DEF Sent
    <3>3. Len(out["client"]) = 1
      BY <2>6, <3>2
    <3>. QED  BY <1>1, <2>5, <3>1, <3>3 DEF ClientState
  <2>9. ~TakenKind("server", "RESPONSE")'
    <3>1. ~TakenKind("server", "RESPONSE")
      BY <1>1, <2>5, TakenWasSent, TwoSides
    <3>. QED  BY <1>1, <2>3, <3>1, TwoSides DEF TakenKind
  <2>10. PlayerKinds'
    BY <1>1, <1>3, <2>2, <2>4, PlayerKindsStay
  <2>11. OneToClient'
    BY <1>1, <1>3, <1>4, <2>2, AnswersShrink
  <2>12. TurnInv'
    <3>1. Quiet("client")' /\ Quiet("server")'
      BY <1>4, <2>7 DEF Quiet
    <3>2. Awaits' /\ (ClientShakes' => Len(out'["client"]) \in in'["server"])
      BY <1>1, <2>3, <2>4, <2>8 DEF Awaits, ClientShakes
    <3>. QED  BY <2>2, <2>9, <3>1, <3>2, TurnTaken
  <2>. QED  BY <1>1, <1>4, <2>10, <2>11, <2>12 DEF Turns
<1>. QED  BY <1>5, <1>6

\* A game state is handed no acknowledgement: there is one, and it has had it.
LEMMA AckedOnce ==
  ASSUME IInv, p.st = "game", NEW d \in Fresh("server")
  PROVE  KindOf(d) # "ACK"
<1>1. /\ d.id \in 1 .. Len(out["client"]) /\ d.id \notin in["server"]
      /\ KindOf(d) = out["client"][d.id]
      /\ in["server"] \subseteq 1 .. Len(out["client"])
  BY FreshFacts, PacketsTyped, TwoSides DEF IInv
<1>2. PICK i \in in["server"] : out["client"][i] = "ACK"
  BY TwoSides DEF IInv, PlayerInv, TakenKind
<1>3. i < d.id \/ d.id < i
  BY <1>1, <1>2
<1>. QED  BY <1>1, <1>2, <1>3 DEF IInv, ClientInv, OnlyAfter

LEMMA PlayerRecvTurns ==
  ASSUME IInv, Turns, NEW d \in net, PlayerRecv(d)
  PROVE  Turns'
<1>1. /\ TypeOK /\ PlayerInv /\ p \in PlayerState
      /\ ClientKinds /\ PlayerKinds /\ OneToClient /\ TurnInv /\ ~refused /\ refused = FALSE
      /\ d.to = "server" /\ p.st \notin {"none", "gone"}
      /\ UNCHANGED <<c, admit, lost, joins, leaves>>
  BY DEF IInv, Turns, TypeOK, PlayerRecv
<1>2. /\ d.id \in 1 .. Len(out["client"]) /\ Len(out["client"]) \in Nat
      /\ in["server"] \subseteq 1 .. Len(out["client"])
  BY <1>1, DatagramSent, PacketsTyped, TwoSides
<1>3. in' = in \/ in' = [in EXCEPT ![d.to] = @ \cup {d.id}]
  BY <1>1 DEF PlayerRecv, Taken
<1>4. /\ \A s \in Side : in[s] \subseteq in'[s]
      /\ in["server"] \subseteq in'["server"] /\ in'["client"] = in["client"]
      /\ net \ {d} \in SUBSET net
  BY <1>1, <1>3, TakingTyped, TwoSides
<1>5. ASSUME out' = out, net' = net \ {d}, p'.st = p.st, p'.connected = p.connected
      PROVE  /\ ClientKinds' /\ PlayerKinds' /\ OneToClient'
             /\ \A s \in Side : Fresh(s)' \subseteq Fresh(s)
             /\ Fresh("client")' \subseteq Fresh("client")
             /\ Fresh("server")' \subseteq Fresh("server")
  <2>1. \A s \in Side : Fresh(s)' \subseteq Fresh(s)
    BY <1>4, <1>5, <1>1, FreshShrinks
  <2>2. /\ Fresh("client")' \subseteq Fresh("client")
        /\ Fresh("server")' \subseteq Fresh("server")
    BY <2>1, TwoSides
  <2>3. ClientKinds'
    BY <1>1, <1>5, ClientKindsStay
  <2>4. PlayerKinds'
    BY <1>1, <1>4, <1>5, PlayerKindsStay DEF PlayerKinds
  <2>5. OneToClient'
    BY <1>1, <1>4, <1>5, <2>2, AnswersShrink
  <2>. QED  BY <2>1, <2>2, <2>3, <2>4, <2>5
<1>6. CASE Ignored(d)
  <2>1. net' = net \ {d} /\ UNCHANGED <<p, out, in, refused>>
    BY <1>6 DEF PlayerRecv
  <2>2. TurnInv'
    <3>1. CASE PlayerShakes /\ ClientShakes
      <4>1. d \notin Fresh("server")
        <5>. SUFFICES ASSUME d \in Fresh("server") PROVE FALSE
          OBVIOUS
        <5>1. d.id \notin in["server"]
          BY DEF Fresh
        <5>2. PICK k \in in["server"] : k > d.id
          BY <1>1, <1>6, <5>1 DEF Ignored, Overtaken
        <5>3. d.id = Len(out["client"])
          BY <1>1, <3>1 DEF TurnInv, ResponseUnderWay, Quiet
        <5>. QED  BY <1>2, <5>2, <5>3
      <4>2. \A s \in Side : Fresh(s)' = Fresh(s)
        BY <1>1, <2>1, <4>1, FreshKept
      <4>. QED  BY <1>1, <1>5, <2>1, <4>2, TurnShrinks DEF TakenKind
    <3>2. CASE ~PlayerShakes
      BY <2>1, <3>2, NoHandshake DEF PlayerShakes
    <3>3. CASE ~ClientShakes
      BY <1>1, <1>5, <2>1, <3>3, TurnShrinks DEF TakenKind, ClientShakes
    <3>. QED  BY <3>1, <3>2, <3>3
  <2>. QED  BY <1>1, <1>5, <2>1, <2>2 DEF Turns
<1>7. CASE ~Ignored(d) /\ KindOf(d) = "FINISHED"
  <2>1. /\ net' = net \ {d} /\ p' = [p EXCEPT !.connected = FALSE]
        /\ UNCHANGED <<out, refused>>
    BY <1>7 DEF PlayerRecv
  <2>2. ~p'.connected /\ p'.st = p.st
    BY <1>1, <2>1 DEF PlayerState
  <2>. QED  BY <1>1, <1>4, <2>1, <2>2, PlayerDropped
<1>8. CASE ~Ignored(d) /\ KindOf(d) # "FINISHED"
  <2>1. /\ Taken(d)
        /\ IF Result(d) = {}
             THEN Kick(net \ {d}) /\ refused' = (refused \/ p.connected)
             ELSE p' \in Result(d) /\ net' = net \ {d} /\ UNCHANGED <<out, refused>>
    BY <1>8 DEF PlayerRecv
  <2>2. d \in Fresh("server")
    BY <1>1, <1>8 DEF Fresh, Ignored
  <2>3. p.st = "handshake" => KindOf(d) = "RESPONSE"
    BY <1>1, <2>2, ShakingPlayerHears
  <2>4. PlayerShakes =>
          /\ p.response = "CHALLENGE" /\ Quiet("client") /\ Awaits
          /\ \A e \in Fresh("server") : e.id = d.id
          /\ ClientShakes => d.id = Len(out["client"])
    BY <1>1, <2>2 DEF TurnInv, ResponseUnderWay, Quiet
  <2>5. CASE Result(d) = {}
    <3>1. ~p.connected
      <4>1. CASE p.st = "handshake"
        BY <2>3, <2>4, <2>5, <4>1 DEF Result, HandshakeResult, PlayerShakes
      <4>2. CASE p.st = "transition"
        BY <2>5, <4>2 DEF Result, TransitionResult
      <4>3. CASE p.st = "game"
        BY <2>2, <2>5, <4>3, AckedOnce DEF Result, GameResult
      <4>4. CASE p.st = "failed"
        BY <1>1, <4>4 DEF PlayerKinds
      <4>. QED  BY <1>1, <4>1, <4>2, <4>3, <4>4 DEF PlayerState
    <3>2. /\ Disconnect("server", net \ {d}) /\ p' = [p EXCEPT !.connected = FALSE] /\ ~refused'
      BY <1>1, <2>1, <2>5, <3>1 DEF Kick
    <3>3. ~p'.connected /\ p'.st = p.st /\ Emits("server", "FINISHED", net \ {d})
      BY <1>1, <3>2, SendEmits, TwoSides DEF PlayerState
    <3>. QED  BY <1>1, <1>4, <3>2, <3>3, PlayerDropped
  <2>6. CASE Result(d) # {}
    <3>1. p' \in Result(d) /\ net' = net \ {d} /\ out' = out /\ refused' = refused
      BY <2>1, <2>6
    <3>2. CASE p.st = "handshake"
      <4>1. p' = [p EXCEPT !.got = TRUE, !.response = "ACCEPTED"]
        BY <2>3, <3>1, <3>2 DEF Result, HandshakeResult
      <4>2. p'.st = p.st /\ p'.connected = p.connected /\ p'.got /\ p'.response = "ACCEPTED"
        BY <1>1, <4>1 DEF PlayerState
      <4>3. d.id \in in'["server"]
        BY <1>1, <2>1, TwoSides DEF Taken, TypeOK
      <4>4. TurnInv'
        <5>1. CASE PlayerShakes
          <6>1. Quiet("client")' /\ Quiet("server")'
            BY <1>5, <2>4, <3>1, <4>2, <4>3, <5>1 DEF Quiet, Fresh
          <6>2. Awaits' /\ (ClientShakes' => Len(out'["client"]) \in in'["server"])
            BY <1>1, <2>4, <3>1, <4>3, <5>1 DEF Awaits, ClientShakes
          <6>. QED  BY <4>2, <6>1, <6>2, TurnTaken
        <5>2. CASE ~PlayerShakes
          BY <4>2, <5>2, NoHandshake DEF PlayerShakes
        <5>. QED  BY <5>1, <5>2
      <4>. QED  BY <1>1, <1>5, <3>1, <4>2, <4>4 DEF Turns
    <3>3. CASE p.st \in {"transition", "game"}
      <4>1. p'.st = p.st /\ p'.connected = p.connected
        BY <1>1, <3>1, <3>3 DEF Result, TransitionResult, GameResult, PlayerState
      <4>2. TurnInv'
        BY <3>3, <4>1, NoHandshake DEF PlayerShakes
      <4>. QED  BY <1>1, <1>5, <3>1, <4>1, <4>2 DEF Turns
    <3>4. CASE p.st = "failed"
      BY <3>1, <3>4 DEF Result
    <3>. QED  BY <1>1, <3>2, <3>3, <3>4 DEF PlayerState
  <2>. QED  BY <2>5, <2>6
<1>. QED  BY <1>6, <1>7, <1>8

\* The server asks for the response, a first time or because its time is over.
LEMMA ChallengeTurns ==
  ASSUME InTime, IInv, Turns, PlayerShakes, p.response = "CHALLENGE",
         p.got \/ p.idle > ServerSecs["handshake"],
         Emits("server", "CHALLENGE", net), p' = [p EXCEPT !.got = FALSE, !.idle = 0],
         UNCHANGED <<c, in, lost, refused>>
  PROVE  Turns'
<1>1. /\ TypeOK /\ c \in ClientState /\ p \in PlayerState
      /\ ClientKinds /\ PlayerKinds /\ OneToClient /\ TurnInv /\ ~refused
      /\ c.idle \in Nat /\ p.idle \in Nat
      /\ "CHALLENGE" \in Kind /\ p.st = "handshake" /\ p.connected
  BY DEF IInv, Turns, TypeOK, ClientState, PlayerState, Kind, HandshakeKind, PlayerShakes
<1>2. /\ ClientSecs["handshake"] \in Nat \ {0} /\ ServerSecs["handshake"] \in Nat \ {0}
      /\ ClientSecs["handshake"] # ServerSecs["handshake"]
  BY SessionAssumption DEF InTime
<1>3. /\ p'.st = "handshake" /\ p'.connected /\ p'.response = "CHALLENGE" /\ ~p'.got
      /\ p'.idle = 0
  BY <1>1 DEF PlayerState
<1>4. /\ ClientKinds'
      /\ \A d \in Fresh("client")' : d \in Fresh("client") \/ d.id = Len(out'["server"])
      /\ Fresh("server")' = Fresh("server") /\ Fresh("client")' # {}
      /\ out'["client"] = out["client"]
  BY <1>1, ServerSent
<1>5. /\ ~TakenKind("server", "RESPONSE")
      /\ ServersTurn /\ ResponseUnderWay /\ ChallengeUnderWay /\ ClientsTurn /\ BothWait
  BY <1>1 DEF TurnInv
<1>6. ClientShakes =>
        /\ c.phase \in {"WAITING", "CHALLENGE"} /\ Len(out["client"]) \in Nat \ {0}
        /\ Sent("client", "RESPONSE") => out["client"][Len(out["client"])] = "RESPONSE"
  BY <1>1, ShakingClient
<1>7. Quiet("client") /\ Quiet("server") /\ Awaits /\ (ClientShakes => SecondResponse)
  <2>1. CASE p.got
    <3>1. Quiet("client") /\ Quiet("server") /\ Awaits
          /\ (ClientShakes => Len(out["client"]) \in in["server"])
      BY <1>5, <2>1 DEF ServersTurn
    <3>2. ClientShakes => ~Sent("client", "RESPONSE")
      BY <1>5, <1>6, <3>1, TwoSides DEF TakenKind
    <3>. QED  BY <3>1, <3>2 DEF SecondResponse
  <2>2. CASE ~p.got
    <3>1. p.idle > ServerSecs["handshake"]
      BY <2>2
    <3>2. Quiet("server") /\ Quiet("client")
      BY <1>1, <1>2, <1>5, <3>1 DEF ResponseUnderWay, ChallengeUnderWay
    <3>3. Awaits
      BY <1>1, <1>2, <1>5, <1>6, <3>1 DEF ClientsTurn, Awaits
    <3>4. ASSUME ClientShakes, Sent("client", "RESPONSE")
          PROVE  lost # <<>> /\ c.idle <= ClientSecs["handshake"]
      <4>1. /\ lost # <<>> /\ c.idle = p.idle
            /\ c.idle <= ClientSecs["handshake"] + 1 /\ c.idle <= ServerSecs["handshake"] + 1
        BY <1>5, <2>2, <3>2, <3>3, <3>4 DEF BothWait, Awaits
      <4>. QED  BY <1>1, <1>2, <3>1, <4>1
    <3>. QED  BY <3>2, <3>3, <3>4 DEF SecondResponse
  <2>. QED  BY <2>1, <2>2
<1>8. /\ \A d \in Fresh("client")' : d.id = Len(out'["server"])
      /\ ~Quiet("client")' /\ Quiet("server")' /\ Awaits'
      /\ ClientShakes' => SecondResponse'
  <2>1. SecondResponse' <=> SecondResponse
    BY <1>1, <1>4 DEF SecondResponse, Sent
  <2>. QED  BY <1>1, <1>4, <1>7, <2>1 DEF Quiet, Awaits, ClientShakes
<1>9. PlayerKinds'
  BY <1>1, <1>3, <1>4, PlayerKindsStay DEF PlayerKinds
<1>10. OneToClient'
  BY <1>3, <1>8 DEF OneToClient, Awaits
<1>11. TurnInv'
  <2>1. TakenKind("server", "RESPONSE")' => TakenKind("server", "RESPONSE")
    BY <1>1, <1>4, TwoSides DEF TakenKind
  <2>2. ChallengeUnderWay'
    BY <1>3, <1>8 DEF ChallengeUnderWay
  <2>3. ServersTurn' /\ ResponseUnderWay' /\ ClientsTurn' /\ BothWait'
    BY <1>3, <1>8 DEF ServersTurn, ResponseUnderWay, ClientsTurn, BothWait, Awaits
  <2>. QED  BY <1>3, <1>5, <2>1, <2>2, <2>3 DEF TurnInv
<1>. QED  BY <1>1, <1>4, <1>9, <1>10, <1>11 DEF Turns

\* The handshake of the server ends with what it sends.
LEMMA AcceptedTurns ==
  ASSUME IInv, Turns, PlayerShakes, p.response = "ACCEPTED",
         Emits("server", "ACCEPTED", net), p'.st = "transition",
         UNCHANGED <<c, in, lost, refused>>
  PROVE  Turns'
<1>1. /\ TypeOK /\ ClientKinds /\ PlayerKinds /\ TurnInv /\ ~refused
      /\ "ACCEPTED" \in Kind /\ p.st = "handshake"
  BY DEF IInv, Turns, Kind, HandshakeKind, PlayerShakes
<1>2. /\ ClientKinds'
      /\ \A d \in Fresh("client")' : d \in Fresh("client") \/ d.id = Len(out'["server"])
      /\ out'["client"] = out["client"]
  BY <1>1, ServerSent
<1>3. Quiet("client") /\ Awaits
  BY <1>1 DEF TurnInv, ServersTurn
<1>4. PlayerKinds'
  BY <1>1, <1>2, PlayerKindsStay
<1>5. OneToClient'
  BY <1>1, <1>2, <1>3 DEF OneToClient, Quiet, Awaits, ClientShakes
<1>6. TurnInv'
  BY NoHandshake DEF PlayerShakes
<1>. QED  BY <1>1, <1>2, <1>4, <1>5, <1>6 DEF Turns

LEMMA ServerTickTurns ==
  ASSUME InTime, IInv, Turns, ServerTick
  PROVE  Turns'
<1>1. /\ TypeOK /\ PlayerInv /\ p \in PlayerState /\ ClientInv
      /\ ClientKinds /\ PlayerKinds /\ OneToClient /\ TurnInv /\ ~refused
      /\ UNCHANGED <<c, in, lost, refused>> /\ p.st \notin {"none", "gone"}
  BY DEF IInv, Turns, TypeOK, ServerTick, ServerDue
<1>2. ASSUME Fail
      PROVE  Turns'
  <2>1. p'.st = "failed" /\ ~p'.connected /\ Emits("server", "FINISHED", net)
    BY <1>1, <1>2, SendEmits, TwoSides DEF Fail, PlayerState
  <2>. QED  BY <1>1, <2>1, PlayerDropped
<1>3. CASE RemovePlayer
  <2>1. p'.st = "gone" /\ ~p'.connected /\ UNCHANGED <<out, net>>
    BY <1>1, <1>3 DEF RemovePlayer, PlayerState
  <2>. QED  BY <1>1, <2>1, PlayerDropped
<1>4. CASE p.connected /\ ServerHandshakeUpdate
  <2>1. p.st = "handshake" /\ PlayerShakes
    BY <1>4 DEF ServerHandshakeUpdate, PlayerShakes
  <2>2. CASE p.response = "CHALLENGE"
    <3>1. Emits("server", "CHALLENGE", net) /\ p' = [p EXCEPT !.got = FALSE, !.idle = 0]
      BY <1>1, <1>4, <2>2, SendEmits, TwoSides DEF ServerHandshakeUpdate
    <3>2. p.got \/ p.idle > ServerSecs["handshake"]
      BY <1>4, <2>1
         DEF ServerTick, ServerDue, RemovePlayer, ServerNeedsUpdate, ServerHandshakeNeeds,
             ServerTransitionNeeds, ServerGameNeeds, ServerTimedOut
    <3>. QED  BY <1>1, <2>1, <2>2, <3>1, <3>2, ChallengeTurns
  <2>3. CASE p.response = "ACCEPTED"
    <3>1. /\ Emits("server", "ACCEPTED", net)
          /\ p' = [BeginTransition(p) EXCEPT !.got = FALSE, !.resend = FALSE]
      BY <1>1, <1>4, <2>3, SendEmits, TwoSides DEF ServerHandshakeUpdate
    <3>2. p'.st = "transition"
      BY <1>1, <3>1 DEF BeginTransition, PlayerState
    <3>. QED  BY <1>1, <2>1, <2>3, <3>1, <3>2, AcceptedTurns
  <2>4. CASE p.response \in {"WRONG", "NONE"}
    BY <1>2, <1>4, <2>4 DEF ServerHandshakeUpdate
  <2>. QED  BY <1>1, <2>2, <2>3, <2>4 DEF PlayerState
<1>5. CASE p.connected /\ ServerTransitionUpdate
  <2>1. p.st = "transition" /\ Len(out["server"]) > 0
    BY <1>1, <1>5 DEF ServerTransitionUpdate, PlayerInv
  <2>2. CASE p.resend
    <3>1. Resend("server") /\ p' = [p EXCEPT !.resend = FALSE, !.idle = 0]
      BY <1>5, <2>2 DEF ServerTransitionUpdate
    <3>2. p'.st = "transition" /\ out' = out
      BY <1>1, <2>1, <3>1 DEF PlayerState, Resend
    <3>3. \A d \in Fresh("client")' :
            \/ d \in Fresh("client")
            \/ d.id = Len(out["server"]) /\ Len(out["server"]) \notin in["client"]
      BY <1>1, <2>1, <3>1, ResendFresh, TwoSides
    <3>4. OneToClient'
      <4>1. ClientShakes =>
              /\ \A d \in Fresh("client") : d.id = Len(out["server"])
              /\ c.phase # "WAITING" => Quiet("client") /\ Len(out["server"]) \in in["client"]
        BY <1>1, <1>5, <2>1 DEF OneToClient
      <4>. QED  BY <1>1, <3>2, <3>3, <4>1 DEF OneToClient, ClientShakes, Quiet
    <3>5. ClientKinds' /\ PlayerKinds' /\ TurnInv'
      BY <1>1, <2>1, <3>2, ClientKindsStay, PlayerKindsStay, NoHandshake DEF PlayerShakes
    <3>. QED  BY <1>1, <3>4, <3>5 DEF Turns
  <2>3. CASE ~p.resend /\ (ServerTimedOut \/ ~p.done)
    BY <1>2, <1>5, <2>3 DEF ServerTransitionUpdate
  <2>4. CASE ~p.resend /\ ~(ServerTimedOut \/ ~p.done)
    <3>1. p' = [p EXCEPT !.st = "game", !.idle = 0] /\ out' = out /\ net' = net
      BY <1>5, <2>4 DEF ServerTransitionUpdate
    <3>2. p'.st = "game"
      BY <1>1, <3>1 DEF PlayerState
    <3>3. Fresh("client")' = Fresh("client")
      BY <1>1, <3>1 DEF Fresh, KindOf
    <3>4. ClientKinds' /\ PlayerKinds' /\ OneToClient' /\ TurnInv'
      BY <1>1, <2>1, <3>1, <3>2, <3>3, ClientKindsStay, PlayerKindsStay, AnswersShrink, NoHandshake
         DEF PlayerShakes
    <3>. QED  BY <1>1, <3>4 DEF Turns
  <2>. QED  BY <2>2, <2>3, <2>4
<1>6. CASE p.connected /\ ServerGameUpdate
  <2>1. p.st = "game"
    BY <1>6 DEF ServerGameUpdate
  <2>2. CASE ~Fail
    <3>1. /\ Emits("server", "SNAP", net) /\ "SNAP" \in Kind
          /\ \E found \in BOOLEAN :
               LET diff == p.sendDiff /\ found IN
               p' = [p EXCEPT !.sendDiff = diff, !.idle = 0,
                              !.unacked = IF diff THEN @ + 1 ELSE MaxUnacked]
      BY <1>1, <1>6, <2>2, SendEmits, TwoSides DEF ServerGameUpdate, Kind
    <3>2. p'.st = "game"
      BY <1>1, <2>1, <3>1 DEF PlayerState
    <3>3. ClientKinds' /\ out'["client"] = out["client"]
      BY <1>1, <3>1, ServerSent
    <3>4. PlayerKinds'
      BY <1>1, <2>1, <3>2, <3>3, PlayerKindsStay
    <3>5. OneToClient' /\ TurnInv'
      <4>1. ~ClientShakes
        BY <1>1, <2>1, TakenWasSent, TwoSides DEF PlayerInv, ClientInv, ClientShakes
      <4>. QED  BY <1>1, <3>2, <4>1, NoHandshake DEF OneToClient, ClientShakes, PlayerShakes
    <3>. QED  BY <1>1, <3>3, <3>4, <3>5 DEF Turns
  <2>. QED  BY <1>2, <2>2
<1>. QED  BY <1>3, <1>4, <1>5, <1>6 DEF ServerTick

LEMMA ServerKicksTurns ==
  ASSUME IInv, Turns, ServerKicks
  PROVE  Turns'
<1>1. /\ TypeOK /\ p \in PlayerState /\ ~refused /\ p.st # "none"
      /\ UNCHANGED <<c, in, refused>>
      /\ p' = [p EXCEPT !.connected = FALSE] /\ Disconnect("server", net)
  BY DEF IInv, Turns, TypeOK, ServerKicks, Kick
<1>2. ~p'.connected /\ p'.st = p.st /\ Emits("server", "FINISHED", net)
  BY <1>1, SendEmits, TwoSides DEF PlayerState
<1>. QED  BY <1>1, <1>2, PlayerDropped

-----------------------------------------------------------------------------
(* The environment *)

LEMMA NobodyHearsTurns ==
  ASSUME IInv, Turns, NEW d \in net, NobodyHears(d)
  PROVE  Turns'
<1>1. /\ TypeOK /\ ClientKinds /\ PlayerKinds /\ OneToClient /\ TurnInv /\ ~refused
      /\ UNCHANGED <<c, p, out, in, lost, refused>> /\ net' \subseteq net
      /\ p.st = "gone" \/ c.st = "ended"
  BY DEF IInv, Turns, NobodyHears
<1>2. \A s \in Side : Fresh(s)' \subseteq Fresh(s)
  BY <1>1, FreshShrinks
<1>3. ClientKinds' /\ PlayerKinds' /\ OneToClient'
  BY <1>1, <1>2, ClientKindsStay, PlayerKindsStay, AnswersShrink, TwoSides DEF PlayerKinds
<1>4. TurnInv'
  <2>1. CASE p.st = "gone"
    BY <1>1, <2>1, NoHandshake DEF PlayerShakes
  <2>2. CASE c.st = "ended"
    BY <1>1, <1>2, <2>2, TurnShrinks DEF ClientShakes, TakenKind
  <2>. QED  BY <1>1, <2>1, <2>2
<1>. QED  BY <1>1, <1>3, <1>4 DEF Turns

LEMMA PortUnreachableTurns ==
  ASSUME IInv, Turns, NEW d \in net, PortUnreachable(d)
  PROVE  Turns'
<1>1. /\ TypeOK /\ p \in PlayerState /\ ~refused /\ p.st # "none"
      /\ UNCHANGED <<c, out, in, refused>> /\ net' = net \ {d} /\ net \ {d} \in SUBSET net
      /\ p' = [p EXCEPT !.st = "gone", !.connected = FALSE]
  BY DEF IInv, Turns, TypeOK, PortUnreachable
<1>2. ~p'.connected /\ p'.st = "gone"
  BY <1>1 DEF PlayerState
<1>. QED  BY <1>1, <1>2, PlayerDropped

\* The one datagram that is lost.
LEMMA LoseTurns ==
  ASSUME InTime, IInv, Turns, NEW d \in net, Lose(d)
  PROVE  Turns'
<1>1. /\ TypeOK /\ ClientKinds /\ PlayerKinds /\ OneToClient /\ TurnInv /\ ~refused
      /\ UNCHANGED <<c, p, out, in, refused>> /\ net' \subseteq net
      /\ lost \in Seq(Kind) /\ lost' = Append(lost, KindOf(d)) /\ Len(lost) < MaxLoss
  BY DEF IInv, Turns, TypeOK, Lose
<1>2. lost = <<>> /\ lost' # <<>>
  <2>1. KindOf(d) \in Kind
    BY <1>1, DatagramSent
  <2>2. Len(lost) = 0
    BY <1>1, SessionAssumption DEF InTime
  <2>. QED  BY <1>1, <2>1, <2>2
<1>3. \A s \in Side : Fresh(s)' \subseteq Fresh(s)
  BY <1>1, FreshShrinks
<1>4. Fresh("client")' \subseteq Fresh("client") /\ Fresh("server")' \subseteq Fresh("server")
  BY <1>3, TwoSides
<1>5. ClientKinds' /\ PlayerKinds' /\ OneToClient'
  BY <1>1, <1>4, ClientKindsStay, PlayerKindsStay, AnswersShrink DEF PlayerKinds
<1>6. TurnInv'
  <2>. SUFFICES ASSUME PlayerShakes' PROVE TurnInv'
    BY NoHandshake
  <2>1. /\ ~p.got => p.response = "CHALLENGE"
        /\ p.response = "CHALLENGE" => ~TakenKind("server", "RESPONSE")
        /\ ServersTurn /\ ResponseUnderWay /\ ChallengeUnderWay /\ ClientsTurn /\ BothWait
    BY <1>1 DEF TurnInv, PlayerShakes
  <2>2. /\ TakenKind("server", "RESPONSE")' <=> TakenKind("server", "RESPONSE")
        /\ Sent("client", "RESPONSE")' <=> Sent("client", "RESPONSE")
        /\ Quiet("client") => Quiet("client")'
        /\ Quiet("server") => Quiet("server")'
        /\ ClientShakes' <=> ClientShakes
        /\ Awaits' <=> Awaits
    BY <1>1, <1>4 DEF TakenKind, Sent, Quiet, ClientShakes, Awaits
  <2>3. SecondResponse => SecondResponse'
    BY <1>1, <1>2, <2>2 DEF SecondResponse
  <2>4. ServersTurn'
    BY <1>1, <2>1, <2>2 DEF ServersTurn
  <2>5. ResponseUnderWay'
    BY <1>1, <1>2, <1>4, <2>1, <2>2 DEF ResponseUnderWay
  <2>6. ChallengeUnderWay' /\ ClientsTurn'
    BY <1>1, <1>4, <2>1, <2>2, <2>3 DEF ChallengeUnderWay, ClientsTurn
  <2>7. BothWait'
    <3>. SUFFICES ASSUME ClientShakes, ~p.got, c.phase = "WAITING", Sent("client", "RESPONSE")
                  PROVE  /\ c.idle = p.idle /\ c.idle <= ClientSecs["handshake"] + 1
                         /\ c.idle <= ServerSecs["handshake"] + 1
      BY <1>1, <1>2, <2>2 DEF BothWait
    <3>1. Quiet("client")
      BY <1>2, <2>1 DEF ChallengeUnderWay, SecondResponse
    <3>2. ~Quiet("server")
      BY <1>2, <2>1, <3>1 DEF BothWait
    <3>3. c.idle = 0 /\ p.idle = 0
      BY <1>2, <2>1, <3>2 DEF ResponseUnderWay
    <3>. QED  BY <3>3, SessionAssumption
  <2>. QED  BY <1>1, <2>1, <2>2, <2>4, <2>5, <2>6, <2>7 DEF TurnInv
<1>. QED  BY <1>1, <1>5, <1>6 DEF Turns

\* A second passes once whatever was in flight has arrived or is lost.
LEMMA TickTurns ==
  ASSUME InTime, IInv, Turns, Tick
  PROVE  Turns'
<1>1. /\ TypeOK /\ c \in ClientState /\ p \in PlayerState /\ c.idle \in Nat /\ p.idle \in Nat
      /\ ClientKinds /\ PlayerKinds /\ OneToClient /\ TurnInv /\ ~refused
      /\ UNCHANGED <<out, in, net, lost, refused>>
      /\ net = {} /\ ~ClientDue /\ ~ServerDue
  BY DEF IInv, Turns, TypeOK, Tick, InTime, ClientState, PlayerState
<1>2. c'.st = c.st /\ c'.phase = c.phase
  <2>1. c' = c \/ c' = [c EXCEPT !.idle = @ + 1]
    BY DEF Tick
  <2>. QED  BY <1>1, <2>1 DEF ClientState
<1>3. /\ p'.st = p.st /\ p'.connected = p.connected /\ p'.got = p.got
      /\ p'.response = p.response
  <2>1. p' = p \/ p' = [p EXCEPT !.idle = @ + 1]
    BY DEF Tick
  <2>. QED  BY <1>1, <2>1 DEF PlayerState
<1>4. /\ Fresh("client") = {} /\ Fresh("server") = {}
      /\ Fresh("client")' = {} /\ Fresh("server")' = {}
  BY <1>1 DEF Fresh
<1>5. ClientKinds' /\ PlayerKinds' /\ OneToClient'
  BY <1>1, <1>2, <1>3, <1>4, ClientKindsStay, PlayerKindsStay, AnswersShrink DEF PlayerKinds
<1>6. TurnInv'
  <2>. SUFFICES ASSUME PlayerShakes' PROVE TurnInv'
    BY NoHandshake
  <2>1. /\ p.st = "handshake" /\ p.connected
        /\ p.response = "CHALLENGE" => ~TakenKind("server", "RESPONSE")
        /\ ~p.got => p.response = "CHALLENGE"
        /\ BothWait
    BY <1>1, <1>3 DEF TurnInv, PlayerShakes
  <2>2. ~p.got /\ ~(p.idle > ServerSecs["handshake"])
    BY <1>1, <2>1
       DEF ServerDue, ServerNeedsUpdate, ServerHandshakeNeeds, ServerTimedOut, Playing
  <2>3. p'.idle = p.idle + 1
    <3>1. p' = [p EXCEPT !.idle = @ + 1]
      BY <2>1, <2>2 DEF Tick, Playing, ServerTimedOut
    <3>. QED  BY <1>1, <3>1 DEF PlayerState
  <2>4. ASSUME ClientShakes
        PROVE  /\ c.phase = "WAITING" /\ ~(c.idle > ClientSecs["handshake"])
               /\ c'.idle = c.idle + 1
    <3>1. IsConnected /\ c.st = "handshake"
      BY <2>4 DEF IsConnected, ClientShakes
    <3>2. c.phase = "WAITING" /\ ~ClientTimedOut
      BY <1>1, <3>1 DEF ClientDue, ClientNeedsUpdate, ClientHandshakeNeeds
    <3>3. c' = [c EXCEPT !.idle = @ + 1]
      BY <3>1, <3>2 DEF Tick
    <3>. QED  BY <1>1, <3>1, <3>2, <3>3 DEF ClientTimedOut, ClientState
  <2>5. /\ Quiet("client") /\ Quiet("server") /\ Quiet("client")' /\ Quiet("server")'
        /\ TakenKind("server", "RESPONSE")' <=> TakenKind("server", "RESPONSE")
        /\ Sent("client", "RESPONSE")' <=> Sent("client", "RESPONSE")
        /\ ClientShakes' <=> ClientShakes
    BY <1>1, <1>2, <1>4 DEF Quiet, TakenKind, Sent, ClientShakes
  <2>6. ServersTurn' /\ ResponseUnderWay' /\ ChallengeUnderWay' /\ ClientsTurn'
    BY <1>2, <1>3, <2>2, <2>4, <2>5
       DEF ServersTurn, ResponseUnderWay, ChallengeUnderWay, ClientsTurn
  <2>7. BothWait'
    <3>. SUFFICES ASSUME ClientShakes
                  PROVE  /\ lost # <<>>
                         /\ Sent("client", "RESPONSE") =>
                              /\ c'.idle = p'.idle
                              /\ c'.idle <= ClientSecs["handshake"] + 1
                              /\ c'.idle <= ServerSecs["handshake"] + 1
      BY <1>1, <2>5 DEF BothWait
    <3>1. lost # <<>> /\ (Sent("client", "RESPONSE") => c.idle = p.idle)
      BY <2>1, <2>2, <2>4, <2>5 DEF BothWait
    <3>. QED  BY <1>1, <2>2, <2>3, <2>4, <3>1, SessionAssumption
  <2>. QED  BY <1>3, <2>1, <2>5, <2>6, <2>7 DEF TurnInv
<1>. QED  BY <1>1, <1>5, <1>6 DEF Turns

-----------------------------------------------------------------------------
(* Nobody is refused *)

LEMMA InitTurns ==
  ASSUME Init
  PROVE  Turns
<1>1. /\ c.st = "unconnected" /\ c.phase = "NOT_STARTED" /\ p.st = "none"
      /\ out["client"] = <<>> /\ out["server"] = <<>> /\ net = {} /\ ~refused
  BY TwoSides DEF Init, NewClient, NewPlayer
<1>2. \A k : ~Sent("client", k)
  BY <1>1 DEF Sent
<1>3. Fresh("client") = {}
  BY <1>1 DEF Fresh
<1>. QED
  BY <1>1, <1>2, <1>3
     DEF Turns, ClientKinds, PlayerKinds, OneToClient, TurnInv, PlayerShakes, ClientShakes

LEMMA NextKeepsTurns ==
  ASSUME InTime, IInv, Turns, [Next]_vars
  PROVE  Turns'
<1>1. CASE UNCHANGED vars
  <2>1. UNCHANGED <<c, p, out, in, net, lost, refused>>
    BY <1>1 DEF vars
  <2>2. \A s \in Side : Fresh(s)' = Fresh(s)
    BY <2>1 DEF Fresh, KindOf
  <2>3. /\ TypeOK /\ ClientKinds /\ PlayerKinds /\ OneToClient /\ TurnInv /\ ~refused
    BY DEF IInv, Turns
  <2>4. TurnInv'
    BY <2>1, <2>2, <2>3, TurnShrinks DEF TakenKind
  <2>5. ClientKinds' /\ PlayerKinds' /\ OneToClient'
    BY <2>1, <2>2, <2>3, ClientKindsStay, PlayerKindsStay, AnswersShrink, TwoSides DEF PlayerKinds
  <2>. QED  BY <2>1, <2>3, <2>4, <2>5 DEF Turns
<1>. QED
  BY <1>1, ClientRecvTurns, PlayerRecvTurns, PlayerCreateTurns, NobodyHearsTurns,
     PortUnreachableTurns, LoseTurns, ClientConnectsTurns, ClientUpdateTurns, ServerTickTurns,
     ClientQuitsTurns, ServerKicksTurns, TickTurns
  DEF Next

\* In time, the states of the two sides take turns: neither drops the other
\* for a packet it sends, whenever a datagram is lost or somebody quits.
THEOREM ConformingPeersStay == ASSUME InTime PROVE Spec => []NoConformingPeerRefused
<1>1. Init => Turns
  BY InitTurns
<1>2. IInv /\ Turns /\ [Next]_vars => Turns'
  BY NextKeepsTurns
<1>3. Turns => NoConformingPeerRefused
  BY DEF Turns, NoConformingPeerRefused
<1>. QED  BY <1>1, <1>2, <1>3, Invariance, PTL DEF Spec
=============================================================================
