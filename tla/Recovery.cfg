CONSTANTS
    Upload = {u1}
    TotalParts = 2
    Content = {c1, c2}
    Writer = {w1}
    Task = {t1, t2}
    Completer = {r1}
    Canceller = {d1}
    CleanerRuns = TRUE
    Torn = Torn
    NoFile = NoFile
    None = None
    Faults = {"io", "db", "crash"}
    MaxPerPart = 1
    MaxFinalizations = 1
    MaxCrashes = 1
SPECIFICATION Spec
SYMMETRY Symmetry
INVARIANTS TypeOK SoleFinalizer NoDataLoss CompletionIntact NotifiedOnce
CHECK_DEADLOCK FALSE
