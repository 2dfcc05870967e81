SPECIFICATION KlSpec
CONSTANTS
    KlUser = {1, 2}
    KlPlain = {"TTYS"}
CHECK_DEADLOCK FALSE
INVARIANT NobodySpinsForever
