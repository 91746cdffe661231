CONSTANTS
    Kind = "mlx"
    Stop = Stop
    MaxRequests = 1
    MaxSaves = 2
    MaxRuns = 2
    MaxFailures = 1
SPECIFICATION Spec
PROPERTIES NeverBack ExportKept CatchesUp PublisherEnds RequestServed
CHECK_DEADLOCK FALSE
