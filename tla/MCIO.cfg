CONSTANTS
    Items = {a, b}
    N = 4
    NoItem = NoItem
    o1 = o1 o2 = o2 o3 = o3 socket = socket
    Ops = {o1, o2, o3}
    Fds = {socket}
    FdOf <- MCFds
    DirOf <- MCDirs
    SizeOf <- Sizes
    NULL = NULL
SPECIFICATION MCSpec
INVARIANTS CounterCounts ParkedIsWatched InOrder ReportsWhatMoved
PROPERTIES ImplementsQueue Drains Completes
