SPECIFICATION Spec
CONSTANTS
    MaxTasks = 4
    MAX_ACTIVE_TASKS = 3
    Space = {p1, p2, p3}
    NoSpace = NoSpace
    MaxSleep = 0
    UserOps = {"waitpid", "exit", "spawn", "thread", "exec", "oom"}
    KernelOps = {"kill", "oom", "wait", "reap", "spawn"}
INVARIANT SpacesExact
SYMMETRY Frames
