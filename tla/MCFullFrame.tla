---------------------------- MODULE MCFullFrame -----------------------------
(***************************************************************************)
(* FullFrame and CallChain for TLC.  They model two aspects of full frames *)
(* with a state of their own each: a behaviour explores the one it chose   *)
(* and leaves the other in its initial state.                              *)
(***************************************************************************)
EXTENDS FullFrame, CallChain

VARIABLE chosen

\* The function is called by a destructor that runs while an exception unwinds,
\* and from within a handler; all strands but the one of the first child start
\* in a calm thread.
MCEntries == {[caught |-> <<"caller's">>, uncaught |-> 1]}

allVars == <<vars, chainVars, chosen>>

MCInit == Init /\ ChainInit /\ chosen \in {"frame", "chain"}

OfFrame(A) == chosen = "frame" /\ A /\ UNCHANGED <<chainVars, chosen>>

MCNext ==
    \/ OfFrame(Next)
    \/ chosen = "chain" /\ ChainNext /\ UNCHANGED <<vars, chosen>>
    \/ DOMAIN ffs = {} /\ UNCHANGED allVars

MCSpec ==
    /\ MCInit /\ [][MCNext]_allVars
    /\ WF_allVars(OfFrame(Frame))
    /\ \A c \in Children : WF_allVars(OfFrame(Child(c)))
=============================================================================
