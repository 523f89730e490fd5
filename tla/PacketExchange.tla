--------------------------- MODULE PacketExchange ---------------------------
(***************************************************************************)
(* One side writes packets and the other reads them, in the order they     *)
(* were written and with the same idea of what they hold, as the states of *)
(* client and server do.  Both use one Packet over and over, as "buffer"   *)
(* in nrg_client.cpp, nrg_server.cpp and the states is, so that a packet   *)
(* lies on the bytes of those before it.                                   *)
(***************************************************************************)
EXTENDS Payload

CONSTANTS
  UValue, SValue,                             \* varints
  MessageTypes, MessageValue,                 \* a message's types, and values of it
  NumInputs, InputValue,                      \* fields of the input, and values of them
  JoinValue,                                  \* join requests: [lib, game, version]
  NumFields, UpdateValue,                     \* fields of an entity, and its updates
  ArraySize, Element,                         \* Field<Element[ArraySize]>
  MaxItems,                                   \* bound: items in a packet
  MaxPackets                                  \* bound: packets

Index == 0 .. ArraySize - 1

ASSUME EncodingAssumption ==
  /\ ByteBits \in Nat \ {0, 1} /\ IntBits \in Nat /\ WideBits \in Nat
  /\ IntBits > ByteBits /\ WideBits >= IntBits
  /\ InitialSize \in Nat \ {0} /\ NumberBytes \in Nat \ {0}
  /\ UValue \subseteq 0 .. Pow2[WideBits] - 1
  /\ SValue \subseteq -Pow2[WideBits - 1] .. Pow2[WideBits - 1] - 1
  /\ MessageTypes \in Seq({"number", "string"}) /\ MessageTypes # <<>>
  /\ \A m \in MessageValue : IsMessage(MessageTypes, m)
  /\ NumInputs \in Nat \ {0} /\ InputValue \subseteq [1 .. NumInputs -> NumberValue(NumberBytes)]
  /\ \A j \in JoinValue : IsJoinRequest(j)
  /\ NumFields \in Nat \ {0}
  /\ \A u \in UpdateValue : /\ DOMAIN u \subseteq 0 .. NumFields - 1
                            /\ u \in [DOMAIN u -> 0 .. Pow2[WideBits] - 1]
  /\ ArraySize \in 1 .. Pow2[ByteBits] - 1 /\ 0 \in Element /\ Element \subseteq Byte
  /\ MaxItems \in Nat /\ MaxPackets \in Nat

VARIABLES
  out,      \* the writer's Packet
  in,       \* the reader's Packet
  array,    \* the writer's array field: data and updated_indices
  copy,     \* the reader's data_next
  items,    \* history: what has been written into out
  sent,     \* history: what was written into the packet being read
  read,     \* what has been read of it
  packets   \* packets sent

vars == <<out, in, array, copy, items, sent, read, packets>>

\* The two sides share nothing: the writer's steps commute with the reader's and
\* are taken when the reader is done.
WritersTurn == Len(read) = Len(sent) /\ packets < MaxPackets

Item(kind, v) == [kind |-> kind, v |-> v]

Init ==
  /\ out = NewPacket /\ in = NewPacket
  /\ array = [data |-> [i \in Index |-> 0], updated |-> Index]
  /\ copy \in [Index -> {1}]    \* not initialised
  /\ items = <<>> /\ sent = <<>> /\ read = <<>> /\ packets = 0

\* A join request is all there is in its packet.
HasJoin(s) == s # <<>> /\ s[1].kind = "join"

Write(item, bytes) ==
  /\ WritersTurn /\ Len(items) < MaxItems /\ ~HasJoin(items)
  /\ out' = Put(out, bytes)
  /\ items' = Append(items, item)
  /\ UNCHANGED <<in, copy, sent, read, packets>>

WriteValue ==
  /\ \/ \E v \in UValue : Write(Item("unsigned", v), Varint(v))
     \/ \E v \in SValue : Write(Item("signed", v), Varint(Zigzag(v)))
     \/ \E v \in MessageValue : Write(Item("message", v), Message(MessageTypes, v))
     \/ \E v \in InputValue : Write(Item("input", v), Input(v))
     \/ \E v \in UpdateValue : Write(Item("update", v), Update(v, NumFields))
  /\ UNCHANGED array

WriteJoinRequest ==
  /\ items = <<>>
  /\ \E j \in JoinValue : Write(Item("join", j), JoinRequest(j))
  /\ UNCHANGED array

\* Field<T[N]>::set of the elements in DOMAIN x since the last tick; an element
\* may have been set to another value and back.
SetElements(x) ==
  [data |-> [i \in Index |-> IF i \in DOMAIN x THEN x[i] ELSE array.data[i]],
   updated |-> array.updated \cup DOMAIN x]

\* A snapshot takes in the updated elements, which are then no longer updated.
\* (Setting an element commutes with all other steps and is taken with this one.)
WriteArray ==
  /\ \A k \in DOMAIN items : items[k].kind # "array"
  /\ \E changed \in SUBSET Index : \E x \in [changed -> Element] :
       LET a == SetElements(x) IN
       /\ a.updated # {}
       /\ Write(Item("array", a.data), ArrayUpdate(a.data, a.updated))
       /\ array' = [a EXCEPT !.updated = {}]

\* The bytes in use are sent; recvPacket appends them to a Packet that was reset.
Send ==
  /\ WritersTurn /\ items # <<>>
  /\ in' = Seek(Put(Reset(in), SubSeq(out.mem, 1, out.used)), 0, "SET")
  /\ out' = Reset(out)
  /\ sent' = items /\ items' = <<>> /\ read' = <<>>
  /\ packets' = packets + 1
  /\ UNCHANGED <<array, copy>>

Decoded(kind) ==
  CASE kind = "unsigned" -> DecodeVarint(in)
    [] kind = "signed"   -> DecodeSigned(in)
    [] kind = "message"  -> DecodeMessage(MessageTypes, in)
    [] kind = "input"    -> DecodeInput(NumInputs, in)
    [] kind = "update"   -> DecodeUpdate(in, NumFields)
    [] kind = "array"    -> DecodeArray(in, copy)

\* The next item is read; a decoder that fails gives "failed".
Read ==
  /\ Len(read) < Len(sent) /\ ~HasJoin(sent)
  /\ LET kind == sent[Len(read) + 1].kind
         d    == Decoded(kind)
     IN /\ in' = d.p
        /\ read' = Append(read, IF d.n = 0 THEN Item("failed", 0) ELSE Item(kind, d.v))
        /\ copy' = IF kind = "array" THEN d.v ELSE copy
  /\ UNCHANGED <<out, array, items, sent, packets>>

\* The server answers a join request, or ignores it.
ReadJoinRequest ==
  /\ Len(read) < Len(sent) /\ HasJoin(sent)
  /\ in' = Answer(in).p
  /\ read' = <<Item("join", Answer(in).v)>>
  /\ UNCHANGED <<out, array, copy, items, sent, packets>>

Next ==
  \/ WriteValue
  \/ WriteJoinRequest
  \/ WriteArray
  \/ Send
  \/ Read
  \/ ReadJoinRequest

Spec == Init /\ [][Next]_vars

-----------------------------------------------------------------------------
(* Properties *)

IsPacket(p) ==
  /\ \E k \in 0 .. Len(p.mem) \div InitialSize : Len(p.mem) = InitialSize * Pow2[k]
  /\ \A k \in DOMAIN p.mem : p.mem[k] \in Byte
  /\ p.pos \in 0 .. p.used /\ p.used <= Len(p.mem)

TypeOK ==
  /\ IsPacket(out) /\ IsPacket(in) /\ out.pos = out.used
  /\ array \in [data : [Index -> Element], updated : SUBSET Index]
  /\ copy \in [Index -> Byte]
  /\ Len(items) <= MaxItems /\ Len(read) <= Len(sent) /\ packets \in 0 .. MaxPackets

\* The values that do not reach the sign of the int varint_decode shifts in.
Fits(item) ==
  CASE item.kind = "unsigned" -> item.v < Pow2[IntBits - 1]
    [] item.kind = "signed"   -> Zigzag(item.v) < Pow2[IntBits - 1]
    [] item.kind = "update"   -> \A x \in DOMAIN item.v : item.v[x] < Pow2[IntBits - 1]
    [] OTHER -> TRUE

\* nrg_codec.h, "Encodes and Decodes any type into a Packet object": whatever
\* was written before it, on whatever old bytes and however often the packet
\* grew, an item is read as it was written, unless it is a varint of 2^31 or
\* more.
RoundTrip ==
  \A k \in DOMAIN read :
    Fits(sent[k]) /\ sent[k].kind \notin {"array", "join"} => read[k] = sent[k]

\* A decoder takes the bytes its encoder has written, no more and no less, of
\* any value: nothing is left of a packet that has been read (a join request:
\* unless it is refused on the way), and its end is not reached before.
ReadToTheEnd ==
  /\ \A k \in DOMAIN read : read[k].kind # "failed"
  /\ Len(read) = Len(sent) =>
       \/ Remaining(in) = 0
       \/ HasJoin(sent) /\ read[1].v \in {"IGNORED", "WRONG_LIB_VERSION"}

\* After each update it reads the reader's array is the writer's, whichever way
\* it was written and whatever the reader had - as long as it reads every one.
ArrayFollows == \A k \in DOMAIN read : sent[k].kind = "array" => read[k] = sent[k]

\* The server challenges exactly the clients of its game, library and game
\* version and tells the others what is wrong with them: connect_check, which
\* looks for the name at a fixed place in the datagram, and the handshake, which
\* reads up to it, find the same request the client wrote.
JoinAnswered ==
  \A k \in DOMAIN read : sent[k].kind = "join" =>
    LET j == sent[k].v IN
    read[k].v = CASE j.game # GameName       -> "IGNORED"
                  [] j.game = GameName /\ j.lib # LibVersion -> "WRONG_LIB_VERSION"
                  [] j.game = GameName /\ j.lib = LibVersion ->
                       IF j.version = GameVersion THEN "CHALLENGE" ELSE "WRONG_GAME_VERSION"
=============================================================================
