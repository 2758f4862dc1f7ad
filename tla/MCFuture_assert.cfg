CONSTANTS
    d1 = d1
    d2 = d2
    d3 = d3
    d4 = d4
    f1 = f1
    f2 = f2
    Deques = {d1, d2, d3, d4}
    Futures = {f1, f2}
    Wants <- FourWants
    INT32_MIN <- MinInt
    NULL = NULL
SPECIFICATION Spec
INVARIANTS AssertReady
