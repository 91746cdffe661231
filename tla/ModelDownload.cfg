SPECIFICATION Spec
CONSTANTS
    Proc = {p1, p2}
    NoProc = NoProc
    f1 = f1
    f2 = f2
    File <- Files
    FilesOf <- MCFilesOf
    Size = 2
    NoModel = NoModel
    Publications = 3
    MaxFailures = 2
INVARIANT TypeOK
PROPERTIES Installs RetryInstalls KeepsCompleted
CHECK_DEADLOCK FALSE
