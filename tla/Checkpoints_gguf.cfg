CONSTANTS
    Kind = "gguf"
    Stop = Stop
    MaxRequests = 1
    MaxSaves = 2
    MaxRuns = 2
    MaxFailures = 1
SPECIFICATION Spec
INVARIANTS TypeOK SavedBeforeAcked PublishedInStep FinalModelInStep
PROPERTIES ServedOnce RequestServed
CHECK_DEADLOCK FALSE
