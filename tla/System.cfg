SPECIFICATION SystemSpec
CONSTANTS
    Thread = {t1, t2, t3}
    Space = {s1}
    SpaceOf <- OneSpace
    Addr = {1, 2}
    Value = {0, 1}
    Zero = 0
    MAX_FUTEX_WAITERS = 2
    Wakes = {"deadline", "other", "signal", "exit"}
    Count = 2
    FcStored = {1}
    Byte = {a, b}
    PIPE_SIZE = 3
    Chunk = 4
    ZeroByte = a
    TtyTask = {1, 2}
    TTY_INPUT_SIZE = 4
    TTY_LINE_LIMIT = 3
    MaxKeys = 3
    JobPid = {1, 2, 3}
    MAX_JOBS = 2
    ShmTasks = 3
    ShmSpace <- ShmSpaces
    ShmPages = {1, 2}
    ShmIds = 2
    ShmFrames = 3
    ShmTaskPages = 2
    WmTerm = {1}
    WmUser = {2}
    WmApp = {3}
    WORKSPACE_COUNT = 2
    WmMax = 3
    GrUser = {"u"}
    MAX_LOGIN_FAILURES = 3
    AccExtra = {"u"}
    AccFails = 1
CHECK_DEADLOCK FALSE
INVARIANTS SystemTypeOK TtyReaderIsWoken JobVerdict   SleeperIsQueued
PROPERTIES ImplementsFifo   WakeIsReported
