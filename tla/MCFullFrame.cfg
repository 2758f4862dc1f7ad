CONSTANTS
    N = 3
    MaxEvents = 3
    Fibers = {f1, f2, f3, f4}
    Entries <- MCEntries
    NULL = NULL
    Crew = {w1, w2, w3}
    First = w1
    MaxCalls = 5
    NumFibers = 4
SPECIFICATION MCSpec
INVARIANTS SerialOrder ExceptionStateKept FibersHeldOnce EveryFunctionOnce
PROPERTIES SyncCompletes ReturnsToCaller
