---------------------------- MODULE MCGathering ----------------------------
(* Bounds for model checking Gathering. *)
EXTENDS Gathering

CONSTANTS turn1, turn2, dead
NoEvents == [again |-> 0, refresh |-> 0, upnp |-> 0, fail |-> 0, relay |-> 0,
             forget |-> 0, select |-> 0, remove |-> 0]
Base == [compat |-> "RFC5245", streams |-> Streams, stun |-> FALSE, upnp |-> FALSE,
         tcp |-> FALSE, relay |-> [s \in Streams |-> {}], bounds |-> NoEvents]
OnFirst(servers) == [s \in Streams |-> IF s = 1 THEN servers ELSE {dead}]

\* Two streams gather from a STUN server; one fails or is removed
StunSetup == [Base EXCEPT !.stun = TRUE,
                 !.bounds = [NoEvents EXCEPT !.again = 1, !.fail = 1, !.remove = 1]]
\* One stream has a TURN server, the other gathers meanwhile; a server is added
TurnSetup == [Base EXCEPT !.relay = OnFirst({turn1}),
                 !.bounds = [NoEvents EXCEPT !.again = 1, !.relay = 1]]
\* Refreshes of an allocation
RefreshSetup == [Base EXCEPT !.streams = {1}, !.relay = OnFirst({turn1}),
                    !.bounds = [NoEvents EXCEPT !.again = 2, !.refresh = 2, !.remove = 1]]
\* Relays are forgotten while one of them may be selected
ForgetSetup == [RefreshSetup EXCEPT !.bounds =
                   [NoEvents EXCEPT !.refresh = 1, !.relay = 1, !.forget = 1, !.select = 2]]
GoogleSetup == [Base EXCEPT !.compat = "GOOGLE", !.relay = [s \in Streams |-> {turn1}],
                   !.bounds = [NoEvents EXCEPT !.remove = 1]]
OcSetup == [GoogleSetup EXCEPT !.compat = "OC2007", !.streams = {1},
               !.bounds = [NoEvents EXCEPT !.relay = 1]]
\* UPnP, with TCP candidates or two streams
UpnpSetup == [Base EXCEPT !.streams = {1}, !.stun = TRUE, !.upnp = TRUE, !.tcp = TRUE,
                 !.bounds = [NoEvents EXCEPT !.upnp = 2, !.fail = 1]]
UpnpStreams == [Base EXCEPT !.stun = TRUE, !.upnp = TRUE,
                   !.bounds = [NoEvents EXCEPT !.upnp = 2]]
MCSetups == {StunSetup, TurnSetup, RefreshSetup, ForgetSetup, GoogleSetup, OcSetup,
             UpnpSetup, UpnpStreams}

\* A second stream waits for the discovery of a first that is removed
MCLost == {[TurnSetup EXCEPT !.bounds = [NoEvents EXCEPT !.remove = 1]]}
=============================================================================
