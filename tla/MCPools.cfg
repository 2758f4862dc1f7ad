\* The process ends in deinit_internal, and the allocator with its workers.
CHECK_DEADLOCK FALSE
SPECIFICATION Spec
SYMMETRY MCSymmetry
CONSTANTS
    Workers = {w1, w2}
    User = w1
    NoFiber = NoFiber
    MaxFibers = 4
    PoolSize = 1
    RootPoolSize = 2
    FuturePoolSize = 1
    MaxFrames = 2
    MaxParked = 1
    FrameWorkers = {f1, f2}
    BucketSizes <- MCBucketSizes
    Chunk = 3
    BatchSize = 1
    MaxChunks = 2
    MaxPotential = 5
INVARIANTS FibersPartitioned FiberDequeInStep MemoryPartitioned
PROPERTIES NeverRestarted
