SPECIFICATION Spec
CONSTANTS
    Thread = {1, 2, 3, 4}
    Space = {0, 1}
    SpaceOf <- TwoSpaces
    Addr = {1}
    Value = {0, 1, 2}
    Zero = 0
    MAX_FUTEX_WAITERS = 4
    Wakes = {}
INVARIANT NoLostWake
