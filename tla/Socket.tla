------------------------------- MODULE Socket -------------------------------
(***************************************************************************)
(* What Socket and NetAddress make of the outcomes of the system calls     *)
(* (nrg_socket.cpp, nrg_netaddress.cpp), as the server uses them: a        *)
(* datagram socket that is not connected and that asks for ICMP errors.    *)
(***************************************************************************)
LOCAL INSTANCE Naturals

CONSTANT NoAddress    \* a NetAddress whose isValid is FALSE

NewSocket == [family |-> FALSE, bound |-> FALSE, errqueue |-> FALSE]

\* setFamilyFromAddress and handleUnconnectedICMPErrors, before bind(2).
SetFamilyFromAddress(s) == [s EXCEPT !.family = TRUE]
HandleUnconnectedICMPErrors(s) == [s EXCEPT !.errqueue = TRUE]
BindSocket(s, ok) == IF ok THEN [s EXCEPT !.bound = TRUE] ELSE s

\* NetAddress::isValid, and the order of the map of clients: some total order.
IsValid(a) == a # NoAddress
AddressLess(a, b) == a < b

\* checkErrorQueue: an error, with the address the kernel's error queue names.
\* An empty datagram, or an error queue that has nothing to say, yields one
\* without an address.
CheckErrorQueue(s, addrs) ==
  [ok : {FALSE}, addr : IF s.errqueue THEN addrs \cup {NoAddress} ELSE {NoAddress},
   kind : {"ERROR"}]

\* recvPacket: a datagram and who sent it, or an error.
RecvResults(s, addrs, kinds) ==
  [ok : {TRUE}, addr : addrs, kind : kinds] \cup CheckErrorQueue(s, addrs)

\* sendPacket tries again when the socket would block, three times; "busy" is
\* how often sendto(2) would block in a row, "fails" another error after that.
Sent(busy, fails) == busy <= 3 /\ ~fails
=============================================================================
