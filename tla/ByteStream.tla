----------------------------- MODULE ByteStream -----------------------------
(***************************************************************************)
(* What a reliable transport promises its users: two byte streams, one in  *)
(* each direction.  Bytes are numbered by their place in the stream.  A    *)
(* user reads the next bytes the other one wrote, in order, each once and  *)
(* none that was not written.                                              *)
(***************************************************************************)
EXTENDS Integers, Sequences

CONSTANTS Ends, Peer(_)

VARIABLES
    written,   \* end -> number of bytes its user wrote
    read       \* end -> the bytes its user read

Init ==
    /\ written = [e \in Ends |-> 0]
    /\ read = [e \in Ends |-> <<>>]

Write(e) ==
    /\ written'[e] > written[e]
    /\ written' = [written EXCEPT ![e] = written'[e]]
    /\ UNCHANGED read

Read(e) ==
    LET k == Len(read'[e])
    IN  /\ k > Len(read[e]) /\ k <= written[Peer(e)]
        /\ read' = [read EXCEPT ![e] = @ \o [i \in 1..(k - Len(@)) |-> Len(@) + i]]
        /\ UNCHANGED written

Next == \E e \in Ends : Write(e) \/ Read(e)

Spec == Init /\ [][Next]_<<written, read>>

=============================================================================
