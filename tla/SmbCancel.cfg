CONSTANTS
    Upload = {u1}
    TotalParts = 1
    Content = {c1}
    Writer = {w1}
    Syncer = {s1}
    Task = {t1}
    Completer = {r1}
    Canceller = {d1}
    CleanerRuns = TRUE
    Torn = Torn
    NoFile = NoFile
    None = None
    Faults = {"abort"}
    MaxPerPart = 1
    MaxFinalizations = 1
    MaxCrashes = 0
SPECIFICATION SmbHistorySpec
CONSTRAINT OneLate
INVARIANTS NoStrayPartial
CHECK_DEADLOCK FALSE
