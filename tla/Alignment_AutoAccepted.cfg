SPECIFICATION Spec
CONSTANTS
    Run = {cmd}
    Requests <- LowRequests
    MaxMoves = 0
    MaxExpiries = 1
INVARIANTS AutoAccepted
CHECK_DEADLOCK FALSE
