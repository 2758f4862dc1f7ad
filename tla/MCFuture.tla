------------------------------ MODULE MCFuture ------------------------------
(* Model-checking instances of Future. *)
EXTENDS Future, TLC

CONSTANTS d1, d2, d3, d4, f1, f2

\* Three strands get the first future, and one of them the second as well:
\* it may queue for that while the first one's put stands on its link.
ThreeWants == (d1 :> {f1}) @@ (d2 :> {f1, f2}) @@ (d3 :> {f1})

\* A fourth strand waits for the second future only.
FourWants == ThreeWants @@ (d4 :> {f2})

\* Far enough below zero for the few deques of these instances.
MinInt == -16
=============================================================================
