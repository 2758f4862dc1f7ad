-------------------------------- MODULE MCIO ---------------------------------
(***************************************************************************)
(* The way of an I/O operation, for TLC: the ring between a worker and its *)
(* I/O thread, and the thread's work on what it takes from the ring.  The  *)
(* scheduler's model holds the queue that the ring implements, so the two  *)
(* share no state, and a behaviour explores the one it chose.              *)
(***************************************************************************)
EXTENDS IOQueue, IOScheduler, TLC

CONSTANTS o1, o2, o3, socket

\* Two writes and a read on a socket, which is used in both directions.
MCFds == [o \in Ops |-> socket]
MCDirs == (o1 :> "write") @@ (o2 :> "write") @@ (o3 :> "read")
Sizes == (o1 :> 2) @@ (o2 :> 1) @@ (o3 :> 1)

VARIABLE chosen

MCInit == QueueInit /\ Init /\ chosen \in {"ring", "thread"}

MCNext ==
    \/ chosen = "ring" /\ QueueNext /\ UNCHANGED <<vars, chosen>>
    \/ chosen = "thread" /\ Next /\ UNCHANGED <<queueVars, chosen>>

\* The fairness of the two, each for the behaviours that explore it.
MCFairness ==
    /\ WF_queueVars(chosen = "ring" /\ Producer)
    /\ WF_queueVars(chosen = "ring" /\ Consumer)
    /\ WF_vars(chosen = "thread" /\ IOThread)
    /\ \A fd \in Fds, dir \in Dirs :
          WF_vars(chosen = "thread" /\ ~ready[fd][dir] /\ Arrive(fd, dir))

MCSpec == MCInit /\ [][MCNext]_<<queueVars, vars, chosen>> /\ MCFairness
=============================================================================
