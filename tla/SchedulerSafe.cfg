SPECIFICATION FairSpec
CONSTANTS
    MaxTasks = 3
    MAX_ACTIVE_TASKS = 2
    Space = {p1, p2}
    NoSpace = NoSpace
    MaxSleep = 2
    UserOps = {"sleep", "event", "waitpid", "exit", "fault", "signal", "spawn", "thread"}
    KernelOps = {"kill", "oom", "signal", "wait", "reap", "spawn"}
INVARIANTS TypeOK Settled
PROPERTIES LifecycleOrder NobodyStarves ChildDeathSettles
