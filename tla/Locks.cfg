SPECIFICATION LocksSpec
CONSTANTS
    Thread = {c1, c2, p1, p2}
    Consumer = {c1, c2}
    Producer = {p1, p2}
    Contender = {c1, c2, p1}
    Space = {s1}
    SpaceOf <- OneSpace
    Addr = {1}
    Value = {0, 1, 2}
    Zero = 0
    MAX_FUTEX_WAITERS = 2
    Wakes = {"other", "signal"}
    MaxPuts = 2
CHECK_DEADLOCK FALSE
INVARIANT LocksSafe
PROPERTIES ImplementsLock NobodyWaitsForever
