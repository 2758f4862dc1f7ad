----------------------------- MODULE FutureCell -----------------------------
(***************************************************************************)
(* What cilk::future promises its users: a write-once cell.  put fills it, *)
(* get returns only from a full cell, and reset empties a cell nobody is   *)
(* reading.  The promise may become void, and binds nobody from then on.   *)
(***************************************************************************)
CONSTANTS Deques, Futures

VARIABLES
    full,       \* full[f]: put has happened
    reading,    \* <<d, f>>: the strand on deque d is inside f.get()
    void        \* nothing is promised any more

Init ==
    /\ full = [f \in Futures |-> FALSE]
    /\ reading = {}
    /\ void = FALSE

Put(f) ==
    /\ ~full[f]
    /\ full' = [full EXCEPT ![f] = TRUE]
    /\ UNCHANGED reading

Get(d, f) ==
    /\ \A g \in Futures : <<d, g>> \notin reading
    /\ reading' = reading \cup {<<d, f>>}
    /\ UNCHANGED full

Return(d, f) ==
    /\ <<d, f>> \in reading
    /\ full[f]
    /\ reading' = reading \ {<<d, f>>}
    /\ UNCHANGED full

Reset(f) ==
    /\ full[f]
    /\ \A d \in Deques : <<d, f>> \notin reading
    /\ full' = [full EXCEPT ![f] = FALSE]
    /\ UNCHANGED reading

Next ==
    \/ /\ \E f \in Futures :
            \/ Put(f)
            \/ Reset(f)
            \/ \E d \in Deques : Get(d, f) \/ Return(d, f)
       /\ UNCHANGED void
    \/ void'

Spec == Init /\ [][Next]_<<full, reading, void>>
=============================================================================
