SPECIFICATION LockSpec
CONSTANTS
    Phrases = {p1, p2}
    Pins = {pinA, pinB}
    Dev = Dev
    CORRUPT = CORRUPT
    NOTHING = NOTHING
    MaxAccounts = 2
    Faults = {"crash"}
INVARIANTS
    GateIsLocked
