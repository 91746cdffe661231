CONSTANTS
    Kind = "gguf"
    Stop = Stop
    MaxRequests = 1
    MaxSaves = 2
    MaxRuns = 1
    MaxFailures = 0
SPECIFICATION Spec
INVARIANT ReadyHoldsSave
CHECK_DEADLOCK FALSE
