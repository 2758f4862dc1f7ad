------------------------------ MODULE MCPools -------------------------------
(***************************************************************************)
(* The two allocators of the runtime, for TLC.  They share no state, so    *)
(* what one reaches does not depend on the other: a behaviour explores the *)
(* one it chose and leaves the other in its initial state.                 *)
(***************************************************************************)
EXTENDS Fibers, FrameMalloc

VARIABLE chosen

MCBucketSizes == <<1, 2>>
MCSymmetry == Permutations(FrameWorkers)

Init == FiberInit /\ FrameInit /\ chosen \in {"fibers", "frames"}

Next ==
  \/ chosen = "fibers" /\ FiberNext /\ UNCHANGED <<frameVars, chosen>>
  \/ chosen = "frames" /\ FrameNext /\ UNCHANGED <<fiberVars, chosen>>

Spec == Init /\ [][Next]_<<fiberVars, frameVars, chosen>>
=============================================================================
