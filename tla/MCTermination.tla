--------------------------- MODULE MCTermination ----------------------------
(* Strands other than the initial one are interchangeable, and so are the  *)
(* system workers; the symmetry is not used, for a liveness property is    *)
(* checked in the same run.                                                *)
EXTENDS Termination
=============================================================================
