----------------------------- MODULE MCStealing -----------------------------
(***************************************************************************)
(* What a thief goes through, for TLC: the lock of its victim, the         *)
(* protocol on the deque it takes a frame from, and the pools of deques    *)
(* that are suspended.  The three share no state, and a behaviour explores *)
(* the one it chose.                                                       *)
(***************************************************************************)
EXTENDS THEProtocol, WorkerLock, SuspendedDeques, TLC

VARIABLE chosen

\* The deque has one initial state where it is not explored.
MCInit ==
    /\ DequeInit /\ LockInit /\ Init
    /\ \/ chosen = "deque"
       \/ chosen \in {"lock", "pools"} /\ protected_tail = Limit /\ cur = CHOOSE f \in Frames : TRUE

MCNext ==
    \/ chosen = "lock" /\ LockNext /\ UNCHANGED <<protocolVars, vars, chosen>>
    \/ chosen = "deque" /\ DequeNext /\ UNCHANGED <<lockVars, vars, chosen>>
    \/ chosen = "pools" /\ Next /\ UNCHANGED <<lockVars, protocolVars, chosen>>

MCSpec == MCInit /\ [][MCNext]_<<protocolVars, lockVars, vars, chosen>>

\* The workers and the deques of the pools are interchangeable.
Symmetry == Permutations(Workers) \cup Permutations(Deques)
=============================================================================
