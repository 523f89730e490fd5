------------------------------- MODULE SeqNum -------------------------------
(***************************************************************************)
(* The sequence-number arithmetic of nrg_connection.cpp.  Sequence numbers *)
(* are uint16_t and wrap; their difference is cast to int16_t.  SeqMod is  *)
(* the number of values (2^16 in the code, a small even number for TLC).   *)
(* The operators avoid % so that they stay linear for the SMT solver.      *)
(***************************************************************************)
EXTENDS Integers

CONSTANT SeqMod

ASSUME SeqModAssumption == SeqMod \in Nat /\ \E h \in 1 .. SeqMod : SeqMod = 2 * h

SeqNumber == 0 .. SeqMod - 1

\* cc.seq_num++
SeqInc(a) == IF a + 1 = SeqMod THEN 0 ELSE a + 1

\* The uint16_t difference a - b.
SeqSub(a, b) == IF a >= b THEN a - b ELSE a - b + SeqMod

\* static_cast<int16_t>
SeqSigned(n) == IF 2 * n >= SeqMod THEN n - SeqMod ELSE n

\* int16_t seq_dist = static_cast<int16_t>(a - b)
SeqDist(a, b) == SeqSigned(SeqSub(a, b))

\* Reference definition, used by properties only: the k-th number counted from f.
SeqAt(f, k) == IF f + k < SeqMod THEN f + k ELSE f + k - SeqMod
=============================================================================
