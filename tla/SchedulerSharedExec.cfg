SPECIFICATION Spec
CONSTANTS
    MaxTasks = 3
    MAX_ACTIVE_TASKS = 2
    Space = {p1, p2}
    NoSpace = NoSpace
    MaxSleep = 0
    UserOps = {"thread", "texec"}
    KernelOps = {"spawn"}
INVARIANT SpaceSafe
