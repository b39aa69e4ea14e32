CONSTANTS
    Upload = {u1}
    TotalParts = 2
    Content = {c1}
    Writer = {w1, w2}
    Task = {t1}
    Completer = {r1, r2}
    Canceller = {d1}
    CleanerRuns = TRUE
    Torn = Torn
    NoFile = NoFile
    None = None
    Faults = {}
    MaxPerPart = 2
    MaxFinalizations = 1
    MaxCrashes = 0
SPECIFICATION LeftoverSpec
SYMMETRY Symmetry
INVARIANTS StartedOnlyWhenAllUploaded RemovedWithoutTrace
PROPERTIES CompleteIsFinal
CHECK_DEADLOCK FALSE
