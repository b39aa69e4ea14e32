CONSTANTS
    Upload = {u1}
    TotalParts = 1
    Content = {c1}
    Writer = {w1}
    Task = {t1}
    Completer = {r1}
    Canceller = {}
    CleanerRuns = FALSE
    Torn = Torn
    NoFile = NoFile
    None = None
    Faults = {"crash"}
    MaxPerPart = 1
    MaxFinalizations = 1
    MaxCrashes = 1
SPECIFICATION Spec
SYMMETRY Symmetry
INVARIANTS CrashNeverFailsUpload

CHECK_DEADLOCK FALSE
