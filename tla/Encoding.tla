------------------------------ MODULE Encoding ------------------------------
(***************************************************************************)
(* How numbers, strings, bit masks and the fields of an entity are put     *)
(* into a packet and taken out again (nrg_varint.h, nrg_endian.h,          *)
(* nrg_codec.h, nrg_bit_io.h, nrg_snapshot.cpp, nrg_field.h).              *)
(*                                                                         *)
(* The widths are parameters: a byte of ByteBits bits (8), an int of       *)
(* IntBits (32), a varint of WideBits (64).                                *)
(* A decoder takes a packet to [p, n, v]: the packet after it, the bytes   *)
(* read (0: it failed) and the value.                                      *)
(***************************************************************************)
EXTENDS Packet, SequencesExt, Lists

CONSTANTS
  IntBits,      \* of an int: 32
  WideBits      \* of the type of a varint: 64 for UVarint and SVarint

GroupBits == ByteBits - 1
More == Pow2[GroupBits]                               \* 0x80
VarintBytes == 1 + (WideBits - 1) \div GroupBits      \* varint_bytes

-----------------------------------------------------------------------------
(* Varints, unsigned and signed *)

RequiredBytes(v) == Min({n \in 1 .. VarintBytes : v < Pow2[GroupBits * n]})

\* varint_encode
Varint(v) ==
  [i \in 1 .. RequiredBytes(v) |->
     ((v \div Pow2[GroupBits * (i - 1)]) % More) + (IF i < RequiredBytes(v) THEN More ELSE 0)]

BitsOf(x) == {b \in 0 .. WideBits - 1 : (x \div Pow2[b]) % 2 = 1}
ValueOf(bits) ==
  LET below[n \in 0 .. WideBits] ==
        IF n = 0 THEN 0 ELSE below[n - 1] + IF n - 1 \in bits THEN Pow2[n - 1] ELSE 0
  IN below[WideBits]

\* What "ans |= (byte & 0x7F) << (i * 7)" adds to the bits of ans.  The shift is
\* done in an int: what passes its last bit is lost, its sign is extended to the
\* width of ans, and a shift by the width of an int or more is undefined; the
\* processor shifts by the remainder.
ShiftedGroup(byte, i) ==
  LET shifted == {b + ((GroupBits * i) % IntBits) : b \in BitsOf(byte % More)} \cap 0 .. IntBits - 1
  IN shifted \cup IF IntBits - 1 \in shifted THEN IntBits .. WideBits - 1 ELSE {}

\* Mutant: the groups are taken for the most significant first.
DecodeVarintReversed(p) ==
  LET bytes == Peek(p, Min({VarintBytes, Remaining(p)}))
      ends  == {k \in DOMAIN bytes : bytes[k] < More \/ k = VarintBytes}
      n     == IF ends = {} THEN Remaining(p) ELSE Min(ends)
  IN [p |-> Advanced(p, n), n |-> IF ends = {} THEN 0 ELSE n,
      v |-> ValueOf(UNION {ShiftedGroup(bytes[k], n - k) : k \in 1 .. n})]

\* varint_decode reads to the first byte without the mark; it fails at the end
\* of the packet.
DecodeVarint(p) ==
  LET bytes == Peek(p, Min({VarintBytes, Remaining(p)}))
      ends  == {k \in DOMAIN bytes : bytes[k] < More \/ k = VarintBytes}
      n     == IF ends = {} THEN Remaining(p) ELSE Min(ends)
  IN [p |-> Advanced(p, n), n |-> IF ends = {} THEN 0 ELSE n,
      v |-> ValueOf(UNION {ShiftedGroup(bytes[k], k - 1) : k \in 1 .. n})]

\* varint_zigzag and varint_zagzig
Zigzag(i) == IF i >= 0 THEN 2 * i ELSE -2 * i - 1
Zagzig(u) == IF u % 2 = 0 THEN u \div 2 ELSE -(u \div 2) - 1

DecodeSigned(p) == LET d == DecodeVarint(p) IN [d EXCEPT !.v = Zagzig(@)]

-----------------------------------------------------------------------------
(* Numbers of fixed width, and strings *)

\* A number of size bytes in the memory of a little-endian machine, and swapbytes.
InMemory(v, size) == [k \in 1 .. size |-> (v \div Pow2[ByteBits * (k - 1)]) % Pow2[ByteBits]]
FromMemory(bytes) ==
  LET low[n \in 0 .. Len(bytes)] ==
        IF n = 0 THEN 0 ELSE low[n - 1] + bytes[n] * Pow2[ByteBits * (n - 1)]
  IN low[Len(bytes)]
SwapBytes(bytes) == Reverse(bytes)

NumberValue(size) == 0 .. Pow2[ByteBits * size] - 1
Number(v, size) == SwapBytes(InMemory(v, size))

DecodeNumber(p, size) ==
  IF Remaining(p) < size THEN [p |-> p, n |-> 0, v |-> 0]
  ELSE [p |-> IF CanRead(p, size) THEN Advanced(p, size) ELSE p,
        n |-> size, v |-> FromMemory(SwapBytes(Peek(p, size)))]

\* A string is shorter than an int.
IsString(s) == s \in Seq(Byte) /\ Len(s) < Pow2[IntBits - 1]
String(s) == Varint(Len(s)) \o s

\* Mutant: the length counts from the start of the packet.
DecodeStringFromStart(p) ==
  LET len == DecodeVarint(p) IN
  IF len.n = 0 \/ Remaining(len.p) < len.v THEN [p |-> len.p, n |-> 0, v |-> <<>>]
  ELSE [p |-> Seek(len.p, len.v, "SET"), n |-> len.n + len.v, v |-> Peek(len.p, len.v)]

DecodeString(p) ==
  LET len == DecodeVarint(p) IN
  IF len.n = 0 \/ Remaining(len.p) < len.v THEN [p |-> len.p, n |-> 0, v |-> <<>>]
  ELSE [p |-> Seek(len.p, len.v, "CUR"), n |-> len.n + len.v, v |-> Peek(len.p, len.v)]

-----------------------------------------------------------------------------
(* The updated fields of an entity: a mask, then the fields it names.  Fields
   are numbered from 0; each is a varint. *)

\* BitWriter: the first bit is the highest of its byte.
Mask(set, count) ==
  [j \in 1 .. (count + ByteBits - 1) \div ByteBits |->
     ValueOf({ByteBits - 1 - (x % ByteBits) : x \in {y \in set : y \div ByteBits = j - 1}})]

\* DeltaSnapshot::writeToPacket
Update(upd, count) ==
  LET order == Ascending(DOMAIN upd)
  IN Mask(DOMAIN upd, count) \o FlattenSeq([k \in DOMAIN order |-> Varint(upd[order[k]])])

FieldsBegin(count) == 1 + (count - 1) \div ByteBits

\* BitReader::read
NextBit(r) ==
  LET p    == IF r.count = 0 /\ CanRead(r.p, 1) THEN Advanced(r.p, 1) ELSE r.p
      bits == IF r.count = 0 /\ CanRead(r.p, 1) THEN Peek(r.p, 1)[1] ELSE r.bits
  IN [r EXCEPT !.p = p, !.bits = bits, !.count = (@ + 1) % ByteBits,
               !.bit = (bits \div Pow2[ByteBits - 1 - r.count]) % 2 = 1]

\* ClientSnapshot::readFromPacket: the mask is read bit by bit, and for every
\* bit that is set the packet is wound on to the field and back again.
DecodeUpdate(p, count) ==
  LET step(r, x) ==
        LET b == NextBit(r)
            d == DecodeVarint(Seek(b.p, b.at, "SET"))
        IN IF ~b.bit THEN b
           ELSE [b EXCEPT !.p = Seek(d.p, b.p.pos, "SET"), !.at = @ + d.n,
                          !.v = [y \in DOMAIN b.v \cup {x} |->
                                   IF y = x THEN d.v ELSE b.v[y]]]
      first == [p |-> p, bits |-> 0, count |-> 0, bit |-> FALSE,
                at |-> p.pos + FieldsBegin(count), v |-> <<>>]
      after[x \in 0 .. count] == IF x = 0 THEN first ELSE step(after[x - 1], x - 1)
      last == after[count]
  IN [p |-> Seek(last.p, last.at, "SET"), n |-> last.at - p.pos, v |-> last.v]

-----------------------------------------------------------------------------
(* Field<T[N]>: an array of which only some elements may be written.  Indices
   and elements are one byte each. *)

\* Mutant: the two ways of writing are told apart differently.
WritesWholeOrEqual(uic, N) == 2 * uic >= N

WritesWhole(uic, N) == 2 * uic > N

\* writeToPacket: the number of updated elements, less one; then all elements,
\* or the updated ones with their indices.
ArrayUpdate(data, updated) ==
  LET N     == Cardinality(DOMAIN data)
      order == Ascending(updated)
  IN <<Cardinality(updated) - 1>> \o
     IF WritesWhole(Cardinality(updated), N) THEN [k \in 1 .. N |-> data[k - 1]]
     ELSE FlattenSeq([k \in DOMAIN order |-> <<order[k], data[order[k]]>>])

\* readFromPacket, into the copy the reader has.
DecodeArray(p, copy) ==
  LET N     == Cardinality(DOMAIN copy)
      uic   == Peek(p, 1)[1] + 1
      pairs == Peek(Advanced(p, 1), 2 * uic)
      value(i) == LET ks == {k \in 1 .. uic : pairs[2 * k - 1] = i}
                  IN IF ks = {} THEN copy[i] ELSE pairs[2 * Max(ks)]
  IN IF 2 * uic > N
       THEN [p |-> Advanced(p, 1 + N), n |-> 1 + N,
             v |-> [i \in DOMAIN copy |-> Peek(Advanced(p, 1), N)[i + 1]]]
     ELSE [p |-> Advanced(p, 1 + 2 * uic), n |-> 1 + 2 * uic, v |-> [i \in DOMAIN copy |-> value(i)]]
=============================================================================
