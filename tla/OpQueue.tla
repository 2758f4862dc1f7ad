------------------------------ MODULE OpQueue -------------------------------
(***************************************************************************)
(* What the I/O queue promises: a bounded first-in first-out buffer        *)
(* between one worker and its I/O thread.                                  *)
(***************************************************************************)
EXTENDS Naturals, Sequences

CONSTANTS Ops, Capacity, NULL

VARIABLES
    input,      \* the operation being pushed, NULL if none
    queue,
    output      \* the operation being popped, NULL if none

Init == input = NULL /\ queue = << >> /\ output = NULL

Offer(op) ==
    /\ input = NULL
    /\ input' = op
    /\ UNCHANGED <<queue, output>>

Enter ==
    /\ input # NULL
    /\ Len(queue) < Capacity
    /\ queue' = Append(queue, input)
    /\ input' = NULL
    /\ UNCHANGED output

Leave ==
    /\ output = NULL
    /\ queue # << >>
    /\ output' = Head(queue)
    /\ queue' = Tail(queue)
    /\ UNCHANGED input

Deliver ==
    /\ output # NULL
    /\ output' = NULL
    /\ UNCHANGED <<input, queue>>

Next == (\E op \in Ops : Offer(op)) \/ Enter \/ Leave \/ Deliver

Spec == Init /\ [][Next]_<<input, queue, output>>
=============================================================================
