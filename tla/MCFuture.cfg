\* A put that has lost a link waits for the next one for ever, and so do the
\* strands behind it.
CHECK_DEADLOCK FALSE
CONSTANTS
    d1 = d1
    d2 = d2
    d3 = d3
    d4 = d4
    f1 = f1
    f2 = f2
    Deques = {d1, d2, d3}
    Futures = {f1, f2}
    Wants <- ThreeWants
    INT32_MIN <- MinInt
    NULL = NULL
SPECIFICATION Spec
INVARIANTS GetReturnsReady
PROPERTIES GetTerminates ImplementsCell
