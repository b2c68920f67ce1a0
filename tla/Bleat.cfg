SPECIFICATION Spec
CONSTANTS
    a = a
    NULL = NULL
    STDERR = STDERR
    FREED = FREED
    Bases <- MCBases
    Cycle <- MCCycle
    Keep = 3
    LIST_MAX = 3
    MaxTime = 9
    MaxStall = 2
INVARIANT OpenLogStays
PROPERTY RollsOnTime
