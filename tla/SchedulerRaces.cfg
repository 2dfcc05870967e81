SPECIFICATION Spec
CONSTANTS
    MaxTasks = 3
    MAX_ACTIVE_TASKS = 2
    Space = {p1, p2}
    NoSpace = NoSpace
    MaxSleep = 1
    UserOps = {"sleep", "event", "waitpid", "exit", "fault", "signal", "spawn", "thread", "exec", "oom", "selfsignal", "texec"}
    KernelOps = {"killrace", "oom", "signal", "wait", "reap", "spawn"}
INVARIANTS StackSafe NoLostChildWake RunningIsCurrent
