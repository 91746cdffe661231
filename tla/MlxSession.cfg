SPECIFICATION Spec
CONSTANTS
    Run = {r1, r2}
    NoRun = NoRun
    NoAdapter = NoAdapter
    Torn = Torn
    Context = 128
    Batch = 6
    MultiGpu = "auto"
    Requested = 0
    Gpus = 2
    Jobs <- MCJobs
    MaxMishaps = 1
INVARIANTS TypeOK OneTrainer CompletedDelivers EvenShares
PROPERTIES AdapterKept WeightsKept RetryOnlyOnMemory
SYMMETRY RunSymmetry
CHECK_DEADLOCK FALSE
