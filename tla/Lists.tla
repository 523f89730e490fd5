------------------------------- MODULE Lists --------------------------------
(* Numbers in order: what a std::set or a sorted std::vector iterates over. *)
EXTENDS Naturals, FiniteSets

\* The numbers of a set, in ascending order.
Ascending(S) ==
  CHOOSE s \in [1 .. Cardinality(S) -> S] : \A i, j \in DOMAIN s : i < j => s[i] < s[j]
=============================================================================
