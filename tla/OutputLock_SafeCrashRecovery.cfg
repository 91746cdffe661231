CONSTANTS
    p1 = p1
    p2 = p2
    p3 = p3
    Proc = {p1, p2, p3}
    NoFile = NoFile
    Attempts = 2
    MaxEntries = 3
SPECIFICATION Spec
INVARIANT SafeCrashRecovery
CHECK_DEADLOCK FALSE
