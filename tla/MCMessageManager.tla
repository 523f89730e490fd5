-------------------------- MODULE MCMessageManager --------------------------
(* Constants of the runs of MessageManager.                                *)
EXTENDS MessageManager

\* One side adds its messages, the other only acknowledges them.
TwoFromClient  == [client |-> 2, server |-> 0]
TwoAndOne == [client |-> 2, server |-> 1]
=============================================================================
