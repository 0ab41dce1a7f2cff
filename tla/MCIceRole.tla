------------------------------ MODULE MCIceRole ------------------------------
(* Two agents with two check list entries each; the tie-breakers make B win. *)
EXTENDS IceRole

CONSTANTS p1, p2

MCPairs == {p1, p2}
OnePair == {p1}
MCTies == [a \in Agents |-> IF a = "A" THEN 1 ELSE 2]
=============================================================================
