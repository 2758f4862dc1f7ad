CONSTANTS
    Workers = {w0, w1}
    W0 = w0
    Strands = {s0, s1, s2, s3}
    Root = s0
    MaxWork = 1
    IO = IO
    NULL = NULL
SPECIFICATION Spec
INVARIANTS ExitsLast
PROPERTIES UserReturns
