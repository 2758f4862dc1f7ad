CONSTANTS
    Self = w0
    Others = {w1, w2}
    NoWorker = NoWorker
SPECIFICATION LockSpec
INVARIANTS OvertakeAtMostOnce
