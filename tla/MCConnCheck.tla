---------------------------- MODULE MCConnCheck ----------------------------
(* Small instances of the connectivity checks.  Addresses are <<ip, port>>;  *)
(* L, K are local, R, Q remote, N is the address of a NAT in front of L, U   *)
(* an address of the peer that was not signalled.                            *)
EXTENDS ConnCheck

Host(ip, port, sock, prio) ==
    [type |-> "host", addr |-> <<ip, port>>, sock |-> sock, net |-> "udp4",
     prio |-> prio, found |-> <<"host", ip>>]
SignalledHost(ip, port, prio) == Host(ip, port, "none", prio)

OneStream == <<1>>

L1 == Host("L", 1, "s1", 6)
Relayed == [Host("T", 1, "t1", 1) EXCEPT !.type = "relayed", !.found = <<"relayed", "T">>]
OneLocal == <<<<L1>>>>

R1 == SignalledHost("R", 1, 7)
Q1 == SignalledHost("Q", 1, 3)
OneRemote == <<{<<R1>>}>>
TwoRemotes == <<{<<R1, Q1>>}>>

BothRoles == BOOLEAN
Controlled == {FALSE}

Setup(late, requests, mapped, request, set, conflict, restart, select) ==
    [late |-> <<late>>, requests |-> requests, mapped |-> <<mapped>>,
     request |-> request, set |-> set, conflict |-> conflict,
     restart |-> restart, select |-> select]
Known == {<<"R", 1>>, <<"Q", 1>>}
Direct == {<<"L", 1>>}
BehindNat == {<<"L", 1>>, <<"N", 1>>}

\* One inbound check, one 487 and every kind of answer
BasicSetups == {Setup({}, Known, Direct, 1, 1, 1, 0, 0)}
\* A NAT and a check from the candidate or from an address that was not
\* signalled, two of them without the NAT or both from that address; or a
\* relayed candidate found late and a restart, with candidates set twice or a
\* pair selected by the application
U1 == <<"U", 1>>
PathSetups == {Setup({}, {<<"R", 1>>, U1}, BehindNat, 1, 1, 0, 0, 0),
               Setup({}, {<<"R", 1>>, U1}, Direct, 2, 1, 0, 0, 0),
               Setup({}, {U1}, BehindNat, 2, 1, 0, 0, 0),
               Setup({Relayed}, {<<"R", 1>>}, Direct, 1, 2, 0, 1, 0),
               Setup({Relayed}, {<<"R", 1>>}, Direct, 1, 1, 0, 1, 1)}
\* A NAT: answers carry the local address or the mapped one
NatSetups == {Setup({}, Known, BehindNat, 1, 1, 0, 0, 0)}
=============================================================================
