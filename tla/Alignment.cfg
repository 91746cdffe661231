SPECIFICATION Spec
CONSTANTS
    Run = {cmd}
    Requests <- MCRequests
    MaxMoves = 1
    MaxExpiries = 1
INVARIANTS TypeOK LargeHostAccepted FullContextKept MeasuredShape AlignedDelivers AdvantagesAccepted
 
CHECK_DEADLOCK FALSE
