----------------------------- MODULE SerialQueue -----------------------------
(* What a serial receiver promises its sketch: the bytes that found room are *)
(* read once each and in order; one that found none is lost as a whole.      *)
EXTENDS Integers, Sequences

CONSTANTS Byte, Capacity
VARIABLES queue, out

Init == queue = <<>> /\ out = <<>>

Arrive(b) == Len(queue) < Capacity /\ queue' = Append(queue, b) /\ UNCHANGED out

Take == /\ queue # <<>>
        /\ out' = <<Head(queue)>>
        /\ queue' = Tail(queue)

\* flush(), and listen() of another port.
Clear == queue' = <<>> /\ UNCHANGED out

Next == Take \/ Clear \/ \E b \in Byte : Arrive(b)

Spec == Init /\ [][Next]_<<queue, out>>
=============================================================================
