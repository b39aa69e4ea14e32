CONSTANTS
    Upload = {u1}
    TotalParts = 2
    Content = {c1}
    Writer = {w1}
    Task = {t1, t2}
    Completer = {r1}
    Canceller = {}
    CleanerRuns = TRUE
    Torn = Torn
    NoFile = NoFile
    None = None
    Faults = {"io", "crash"}
    MaxPerPart = 1
    MaxFinalizations = 1
    MaxCrashes = 1
SPECIFICATION FairSpec
PROPERTIES FinalizationEnds PendingReclaimed
CHECK_DEADLOCK FALSE
