SPECIFICATION Spec
CONSTANTS
    Run = {r1, r2}
    NoRun = NoRun
    Input = {i1, i2}
    NoInput = NoInput
    Epochs = 2
    Records = 2
    MaxStarts = 2
    MaxFailures = 1
INVARIANT ResumeCounts
CHECK_DEADLOCK FALSE
