---------------------------- MODULE MCStunTimer ----------------------------
(* The STUN timer with real time units: two initial timeouts, clock steps *)
(* that land on every part of a millisecond and across second boundaries. *)
EXTENDS StunTimer

MCInitialTimeouts == {100, 250}
MCClockSteps == {149999, 450001}
=============================================================================
