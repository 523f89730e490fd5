------------------------------- MODULE Packet -------------------------------
(***************************************************************************)
(* Packet as operators on its value (nrg_packet.cpp, nrg_packet.h):        *)
(*   mem   data, all data_size bytes of it                                 *)
(*   pos   pointer - data                                                  *)
(*   used  used_size                                                       *)
(* A byte has ByteBits bits, 8 in the code.                                *)
(***************************************************************************)
EXTENDS Integers, Sequences, FiniteSets, FiniteSetsExt

CONSTANTS
  ByteBits,
  InitialSize   \* NRG_MAX_PACKET_SIZE

\* 2^n, as a recursive function: the prover knows no law of ^.
Pow2[n \in Nat] == IF n = 0 THEN 1 ELSE 2 * Pow2[n - 1]

Byte == 0 .. Pow2[ByteBits] - 1

NewPacket == [mem |-> [k \in 1 .. InitialSize |-> 0], pos |-> 0, used |-> 0]

Remaining(p) == p.used - p.pos

\* Mutant: resize is called once.
ResizedOnce(p, n) ==
  IF p.pos + n <= Len(p.mem) THEN p
  ELSE [p EXCEPT !.mem = [k \in 1 .. 2 * Len(p.mem) |-> IF k <= Len(p.mem) THEN p.mem[k] ELSE 0]]

\* resize, as often as it takes to have room for n more bytes: a new array of
\* twice the size, of which 0 stands for the bytes nobody has written.
Resized(p, n) ==
  LET size == Min({s \in {Len(p.mem) * Pow2[k] : k \in 0 .. n} : p.pos + n <= s})
  IN [p EXCEPT !.mem = [k \in 1 .. size |-> IF k <= Len(p.mem) THEN p.mem[k] ELSE 0]]

\* write8, writeBE and writeArray
Put(p, bytes) ==
  LET r   == Resized(p, Len(bytes))
      end == p.pos + Len(bytes)
  IN [mem  |-> [k \in DOMAIN r.mem |-> IF k \in p.pos + 1 .. end THEN bytes[k - p.pos]
                                       ELSE r.mem[k]],
      pos  |-> end,
      used |-> Max({p.used, end})]

\* The test of read8, readBE and readArray is in size_t: more bytes than the
\* packet has at all are always there.
CanRead(p, n) == n > p.used \/ p.pos <= p.used - n

\* The n bytes from the pointer on; 0 stands for memory behind the array.
Peek(p, n) == [k \in 1 .. n |-> IF p.pos + k \in DOMAIN p.mem THEN p.mem[p.pos + k] ELSE 0]

Advanced(p, n) == [p EXCEPT !.pos = @ + n]

\* reset leaves the bytes where they are.
Reset(p) == [p EXCEPT !.pos = 0, !.used = 0]

\* seek stays within what is used.
Seek(p, offset, whence) ==
  LET at == CASE whence = "CUR" -> p.pos + offset
              [] whence = "SET" -> offset
              [] whence = "END" -> p.used - offset
  IN [p EXCEPT !.pos = Max({0, Min({p.used, at})})]
=============================================================================
