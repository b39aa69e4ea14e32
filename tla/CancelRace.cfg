CONSTANTS
    Upload = {u1}
    TotalParts = 1
    Content = {c1}
    Writer = {w1}
    Task = {t1}
    Completer = {r1}
    Canceller = {d1}
    CleanerRuns = FALSE
    Torn = Torn
    NoFile = NoFile
    None = None
    Faults = {}
    MaxPerPart = 1
    MaxFinalizations = 1
    MaxCrashes = 0
SPECIFICATION Spec
SYMMETRY Symmetry

PROPERTIES FinalizingNotCancelled
CHECK_DEADLOCK FALSE
