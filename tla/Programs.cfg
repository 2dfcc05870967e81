SPECIFICATION ProgramsSpec
CONSTANTS
    MaxTasks = 3
    MAX_FDS = 5
    MaxObjects = 1
    PIPE_SIZE = 2
    ChildFds = {0, 3}
    Ops = {"pipe", "close", "write", "read", "poll", "spawn", "exit", "kill", "spurious", "signal"}
    AsFrames = 10
    AsSpaces = 2
    AsStack <- AsOneStack
    AsGuard = 1
    AsThreads <- AsOneThread
    AsArena = {7, 8}
    AsTables <- AsTwoTables
    AsImages <- AsPrograms
    MAX_USER_ADDRESS_SPACE_PAGES = 5
    AsCalls = 3
    DlWorlds <- DlLibraries
    MAX_OBJECTS = 3
    MAX_TLS_BYTES = 6
    DEFAULT_OBJECT_STRIDE = 2
    DlFaults = 1
CHECK_DEADLOCK FALSE
INVARIANTS RefsExact SleepersAreWoken 
