CONSTANTS
    Upload = {u1}
    TotalParts = 2
    Content = {c1}
    Writer = {w1}
    Syncer = {s1}
    Task = {t1}
    Completer = {r1}
    Canceller = {}
    CleanerRuns = FALSE
    Torn = Torn
    NoFile = NoFile
    None = None
    Faults = {}
    MaxPerPart = 1
    MaxFinalizations = 1
    MaxCrashes = 0
SPECIFICATION SmbHistorySpec
INVARIANTS FastPathHasEverything
CHECK_DEADLOCK FALSE
