CONSTANTS
    Frames = {f1, f2, f3}
    Thieves = {t1, t2}
    NoFrame = NoFrame
    NoThief = NoThief
    Limit = 2
    BufferSize = 4
    Self = w0
    Others = {v1, v2, v3}
    NoWorker = NoWorker
    Workers = {w1, w2}
    IOThreads = {io}
    Deques = {d1, d2, d3, d4}
    MaxWork = 1
    NULL = NULL
SPECIFICATION MCSpec
INVARIANTS Exclusive StealsOldest EmptyInRuntime OwnerFieldIsRight
INVARIANTS PoolsConsistent NoDequeLost OneWorkerPerFiber
SYMMETRY Symmetry
