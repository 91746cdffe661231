CONSTANTS
    p1 = p1
    p2 = p2
    Proc = {p1, p2}
    NoFile = NoFile
    Attempts = 2
    MaxEntries = 4
SPECIFICATION Spec
INVARIANTS ExclusiveUnlessBreached
PROPERTIES RemovesOnlyOwnOrAbandoned CrashRecovery EveryCallEnds
CHECK_DEADLOCK FALSE
