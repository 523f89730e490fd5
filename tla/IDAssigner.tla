----------------------------- MODULE IDAssigner -----------------------------
(***************************************************************************)
(* IDAssigner of nrg_util.h: hands out the smallest identifier that was    *)
(* given back, or a new one.  Player and entity ids both come from it.     *)
(***************************************************************************)
EXTENDS Naturals, Sequences, FiniteSets, SequencesExt

NewIds == [reusable |-> <<>>, max |-> 0]

\* Mutant: ids are handed out from the front, where the largest is, but
\* removed from the back.
NextIdOfFront(ids) == IF ids.reusable = <<>> THEN ids.max ELSE Head(ids.reusable)

\* The identifier acquire returns; reusable is sorted in descending order.
NextId(ids) == IF ids.reusable = <<>> THEN ids.max ELSE Last(ids.reusable)

Acquire(ids) ==
  IF ids.reusable = <<>> THEN [ids EXCEPT !.max = @ + 1]
  ELSE [ids EXCEPT !.reusable = Front(@)]

\* push_back and sort.
Release(ids, id) ==
  LET larger == Cardinality({i \in DOMAIN ids.reusable : ids.reusable[i] >= id})
  IN [ids EXCEPT !.reusable = InsertAt(@, larger + 1, id)]

IsIdAssigner(ids) == ids \in [reusable : Seq(Nat), max : Nat]

\* "held" is exactly what was acquired and not released.
HoldsExactly(ids, held) ==
  /\ held \cap Range(ids.reusable) = {}
  /\ held \cup Range(ids.reusable) = 0 .. ids.max - 1
  /\ IsInjective(ids.reusable)
=============================================================================
