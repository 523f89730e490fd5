----------------------------- MODULE MCSession -----------------------------
(* Session with the timeouts of the code and with shorter ones for TLC. *)
EXTENDS Session

\* getTimeoutSeconds: nrg_client_state.h, nrg_server_state.h, nrg_state_manager.cpp.
CodeClientSecs == [handshake |-> 2, transition |-> 1, game |-> 1]
CodeServerSecs == [handshake |-> 5, transition |-> 10, game |-> 5]

\* Any order of the timers, for the runs in which time passes at any moment.
ShortSecs == [handshake |-> 1, transition |-> 1, game |-> 1]

\* Bounds on the packets of the two sides.
SixEach == [client |-> 6, server |-> 6]
ThreeAndFour == [client |-> 3, server |-> 4]
=============================================================================
