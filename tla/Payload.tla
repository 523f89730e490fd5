------------------------------ MODULE Payload ------------------------------
(***************************************************************************)
(* What packets are made of encodings for: the values of a Message         *)
(* (nrg_message.h), the fields of an Input (nrg_input.cpp), and a join     *)
(* request, which the client writes (nrg_clientstate.cpp) and the server   *)
(* parses twice: connect_check (nrg_server.cpp) looks at the whole         *)
(* datagram before there is a player, the handshake state                  *)
(* (nrg_serverstate.cpp) at what follows the header.                       *)
(***************************************************************************)
EXTENDS Encoding

CONSTANTS
  NumberBytes,   \* of the numbers in messages and inputs
  GameName, GameVersion, LibVersion   \* of the server

-----------------------------------------------------------------------------
(* Codecs, by the type they are for; a message is a tuple of them *)

Encode(type, v) ==
  CASE type = "number" -> Number(v, NumberBytes)
    [] type = "string" -> String(v)

Decode(type, p) ==
  CASE type = "number" -> DecodeNumber(p, NumberBytes)
    [] type = "string" -> DecodeString(p)

IsMessage(types, v) ==
  /\ v = [k \in DOMAIN types |-> v[k]]
  /\ \A k \in DOMAIN types :
       CASE types[k] = "number" -> v[k] \in NumberValue(NumberBytes)
         [] types[k] = "string" -> IsString(v[k])

Message(types, v) == FlattenSeq([k \in DOMAIN types |-> Encode(types[k], v[k])])

\* The sizes are added up; that of an element that cannot be read is 0.
DecodeMessage(types, p) ==
  LET next(r, type) ==
        LET d == Decode(type, r.p) IN [p |-> d.p, n |-> r.n + d.n, v |-> Append(r.v, d.v)]
      after[k \in 0 .. Len(types)] ==
        IF k = 0 THEN [p |-> p, n |-> 0, v |-> <<>>] ELSE next(after[k - 1], types[k])
  IN after[Len(types)]

\* InputBase: every field, updated or not; the first that cannot be read ends it.
Input(fields) == FlattenSeq([k \in DOMAIN fields |-> Number(fields[k], NumberBytes)])

DecodeInput(count, p) ==
  LET next(r, k) ==
        LET d == DecodeNumber(r.p, NumberBytes) IN
        IF r.n < (k - 1) * NumberBytes \/ d.n = 0 THEN [r EXCEPT !.n = 0]
        ELSE [p |-> d.p, n |-> r.n + d.n, v |-> Append(r.v, d.v)]
      after[k \in 0 .. count] ==
        IF k = 0 THEN [p |-> p, n |-> 0, v |-> <<>>] ELSE next(after[k - 1], k)
  IN after[count]

-----------------------------------------------------------------------------
(* A join request *)

\* PacketHeader::write: version and fragment, flags, sequence number.
Header == <<0, 0>> \o Number(0, 2)
HeaderSize == 4

JoinRequestCommand == 1      \* HS_CLIENT_JOIN_REQUEST
VersionSize == 6             \* three uint16_t
GameVersionSize == 4         \* uint32_t

Version(lib) == FlattenSeq([k \in 1 .. 3 |-> Number(lib[k], 2)])

DecodeVersion(p) ==
  [p |-> Advanced(p, VersionSize), n |-> VersionSize,
   v |-> [k \in 1 .. 3 |-> DecodeNumber(Advanced(p, 2 * (k - 1)), 2).v]]

IsVersionCompatible(lib) == lib = LibVersion
IsGameVersionCompatible(version) == version = GameVersion

IsJoinRequest(j) ==
  j.lib \in [1 .. 3 -> NumberValue(2)] /\ IsString(j.game) /\ j.version \in NumberValue(GameVersionSize)

\* ClientHandshakeState::update, behind the header ConnectionOut puts before it.
JoinRequest(j) ==
  Header \o <<JoinRequestCommand>> \o Version(j.lib) \o String(j.game)
         \o Number(j.version, GameVersionSize)

\* Mutant: the game's name is looked for without the header before it.
ConnectCheckNoHeader(p) ==
  /\ Remaining(p) >= 1 + VersionSize + Len(GameName) + GameVersionSize
  /\ DecodeString(Seek(p, 1 + VersionSize, "SET")).v = GameName

\* default_con_check; the packet is wound back afterwards.
ConnectCheck(p) ==
  /\ Remaining(p) >= HeaderSize + 1 + VersionSize + Len(GameName) + GameVersionSize
  /\ DecodeString(Seek(p, HeaderSize + 1 + VersionSize, "SET")).v = GameName

\* ServerHandshakeState::onRecvPacket: [p, n, v] with the response.  isFull is
\* left to Server.
Response(p) ==
  LET lib  == DecodeVersion(Advanced(p, 1))
      game == DecodeString(lib.p)
      ver  == DecodeNumber(game.p, GameVersionSize)
      response(q, v) == [p |-> q, n |-> q.pos - p.pos, v |-> v]
  IN CASE Remaining(p) = 0 \/ Peek(p, 1)[1] # JoinRequestCommand
          \/ Remaining(p) - 1 <= VersionSize -> [p |-> p, n |-> 0, v |-> "FALSE"]
       [] OTHER ->
            IF ~IsVersionCompatible(lib.v) THEN response(lib.p, "WRONG_LIB_VERSION")
            ELSE IF game.v # GameName      THEN response(game.p, "WRONG_GAME")
            ELSE IF ver.n = 0              THEN [p |-> game.p, n |-> 0, v |-> "FALSE"]
            ELSE IF ~IsGameVersionCompatible(ver.v)
                                           THEN response(ver.p, "WRONG_GAME_VERSION")
            ELSE response(ver.p, "CHALLENGE")

\* What becomes of a datagram of an address the server does not know; n counts
\* from behind the header.
Answer(p) ==
  IF ConnectCheck(p) THEN Response(Advanced(p, HeaderSize))
  ELSE [p |-> p, n |-> 0, v |-> "IGNORED"]
=============================================================================
