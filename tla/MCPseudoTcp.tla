---------------------------- MODULE MCPseudoTcp ----------------------------
(* Bounds for model checking PseudoTcp. *)
EXTENDS PseudoTcp

MCLevels == <<16, 9, 7>>
Both == [e \in Ends |-> TRUE]
OnlyL == [e \in Ends |-> e = "L"]
\* Both ends connect, as two agents do when they select a pair, over a network
\* that only reorders
Simultaneous == [finAck |-> Both, openers |-> Ends, hows |-> {"WR"}, faults |-> {}]
\* One end connects; packets are lost and duplicated, and the writer may fail
Faulty == [finAck |-> Both, openers |-> {"L"}, hows |-> {"WR"},
           faults |-> {"loss", "dup", "fail"}]
\* One end connects, and the other knows no FIN-ACK; close may be forced
OneSided == [finAck |-> OnlyL, openers |-> {"L"}, hows |-> {"WR", "FORCE"}, faults |-> {}]
MCSetups == {Simultaneous, Faulty, OneSided}
MCReliable == {Simultaneous}
MCWndScale == [e \in Ends |-> TRUE]
MCMaxBytes == [e \in Ends |-> IF e = "L" THEN 8 ELSE 0]
MCNoIdle == {FALSE}
=============================================================================
