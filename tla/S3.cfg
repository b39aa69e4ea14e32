CONSTANTS
    Upload = {u1}
    TotalParts = 2
    Content = {c1, c2}
    Writer = {w1}
    Task = {t1}
    Completer = {r1}
    Canceller = {d1}
    CleanerRuns = FALSE
    Torn = Torn
    NoFile = NoFile
    None = None
    Faults = {"remote","io","crash"}
    MaxPerPart = 1
    MaxFinalizations = 1
    MaxCrashes = 1
SPECIFICATION S3Spec
SYMMETRY S3Symmetry
INVARIANTS S3TypeOK NoDataLoss ObjectWhole CompleteInBucket
PROPERTIES ImplementsLifecycle
CHECK_DEADLOCK FALSE
