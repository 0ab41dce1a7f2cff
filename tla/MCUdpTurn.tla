----------------------------- MODULE MCUdpTurn -----------------------------
(* Bounds for model checking UdpTurn. *)
EXTENDS UdpTurn

CONSTANTS p, q
Nothing == [compat |-> "RFC5766", who |-> {p}, data |-> 0, peers |-> 0, errors |-> 0,
            timers |-> 0, closes |-> 0, inds |-> 0]
\* RFC 5766: data of one peer that waits for a permission
DataSetup == [Nothing EXCEPT !.data = 2, !.errors = 1, !.timers = 1, !.inds = 1, !.closes = 1]
\* ... while a channel is bound to it
BothSetup == [Nothing EXCEPT !.data = 1, !.peers = 1, !.timers = 2]
\* Two peers compete for channels
ChannelSetup == [Nothing EXCEPT !.who = Peers, !.peers = 2, !.timers = 3]
\* ... and a number is given to two bindings (Attribution does not speak of it)
AgainSetup == [ChannelSetup EXCEPT !.peers = 3, !.timers = 2]
\* The server refuses a channel or its renewal
RefusalSetup == [Nothing EXCEPT !.peers = 2, !.timers = 2, !.errors = 1]
\* Older servers: Send requests and one active destination
GoogleSetup == [Nothing EXCEPT !.compat = "GOOGLE", !.who = Peers, !.data = 2, !.peers = 1]
MsnSetup == [GoogleSetup EXCEPT !.compat = "MSN", !.data = 1, !.timers = 1]
MCSetups == {DataSetup, BothSetup, ChannelSetup, AgainSetup,
             RefusalSetup, GoogleSetup, MsnSetup}
=============================================================================
