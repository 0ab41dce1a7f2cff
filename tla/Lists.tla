------------------------------- MODULE Lists -------------------------------
(* The linked lists of the code as sequences. *)
EXTENDS Integers, Sequences

\* The list without the elements that are not in S
Keep(list, S) ==
    LET kept[n \in 0..Len(list)] ==
            IF n = 0 THEN <<>>
            ELSE IF list[n] \in S THEN Append(kept[n - 1], list[n])
            ELSE kept[n - 1]
    IN  kept[Len(list)]

\* The loop over a list: op applied to what it has made of the elements so far
\* and to the next one
Loop(op(_, _), base, list) ==
    LET done[n \in 0..Len(list)] ==
            IF n = 0 THEN base ELSE op(done[n - 1], list[n])
    IN  done[Len(list)]
=============================================================================
