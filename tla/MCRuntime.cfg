SPECIFICATION RuntimeSpec
CONSTANTS
    T1 = T1
    T2 = T2
    NoThread = NoThread
    Unset = Unset
    NotANumber = NotANumber
    Threads <- MCThreads
    Envs <- MCEnvs
    Settings <- MCSettings
    MaxP = 4
    MaxCalls = 3
    Cpus = 2
    INT_MAX = 1000
    PAGE = 4
    CILK_MIN_STACK_SIZE = 4
    CILK_DEFAULT_STACK_SIZE = 16
INVARIANTS StartedOnce SettingsUsable
PROPERTIES AllWake AllSleep
CHECK_DEADLOCK FALSE
