------------------------------- MODULE FrameQ -------------------------------
(***************************************************************************)
(* What the users of a connection take one direction of it for: frames     *)
(* arrive whole, once and in the order in which they were sent; when the   *)
(* connection breaks, the last ones may be lost.                           *)
(***************************************************************************)
EXTENDS Naturals, Sequences

CONSTANT Data

VARIABLES
    up,         \* the connection has not broken
    queue,      \* frames under way
    got         \* the frames received, in order

vars == <<up, queue, got>>

Init ==
    /\ up = TRUE
    /\ queue = <<>>
    /\ got = <<>>

Send(data) ==
    /\ queue' = Append(queue, data)
    /\ UNCHANGED <<up, got>>

Receive ==
    /\ queue # <<>>
    /\ got' = Append(got, Head(queue))
    /\ queue' = Tail(queue)
    /\ UNCHANGED up

Break ==
    /\ up' = FALSE
    /\ \E n \in 0..Len(queue) : queue' = SubSeq(queue, 1, n)
    /\ UNCHANGED got

Next == (\E data \in Data : Send(data)) \/ Receive \/ Break

Spec == Init /\ [][Next]_vars
=============================================================================
