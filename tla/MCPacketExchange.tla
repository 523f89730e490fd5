-------------------------- MODULE MCPacketExchange --------------------------
(* Bytes of three bits, ints of six and varints of twelve. *)
EXTENDS PacketExchange, TLC

\* The last value that fits, and one whose six groups pass the sign bit of an int.
UValues == {31, 4095}
SValues == {-16}
Types == <<"number", "string">>
Messages == {<<62, <<7, 2>>>>}
Inputs == {<<62, 5>>}
Updates == {0 :> 4 @@ 2 :> 3 @@ 5 :> 30}
Name == <<7, 2>>
Lib == <<0, 0, 3>>
Joins == [lib : {Lib, <<0, 1, 3>>}, game : {Name, <<7>>, <<7, 2, 2>>}, version : {1000, 232}]
=============================================================================
