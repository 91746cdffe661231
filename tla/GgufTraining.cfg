SPECIFICATION Spec
CONSTANTS
    Run = {r1, r2}
    NoRun = NoRun
    Input = {i1, i2}
    NoInput = NoInput
    Epochs = 2
    Records = 2
    MaxStarts = 3
    MaxFailures = 2
INVARIANTS TypeOK ExactPosition StoppedIsResumable LossBounded DeliversWhole FreshRunCounts
PROPERTY StopsPromptly
SYMMETRY RunSymmetry
CHECK_DEADLOCK FALSE
