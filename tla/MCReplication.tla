--------------------------- MODULE MCReplication ---------------------------
(* Values whose encodings are equally long, and values of two lengths; types *)
(* that can be exchanged for each other.                                     *)
EXTENDS Replication, TLC

FixedSize == 0 :> 1 @@ 1 :> 1
VarSize   == 0 :> 1 @@ 1 :> 2
AnyType   == Permutations(Type)
=============================================================================
