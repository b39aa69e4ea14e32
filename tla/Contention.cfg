CONSTANTS
    Upload = {u1, u2}
    TotalParts = 2
    Content = {c1}
    Writer = {w1}
    Task = {t1, t2, t3}
    Completer = {r1}
    Canceller = {}
    CleanerRuns = FALSE
    Torn = Torn
    NoFile = NoFile
    None = None
    Faults = {}
    MaxPerPart = 1
    MaxFinalizations = 1
    MaxCrashes = 0
SPECIFICATION StatusSpec
SYMMETRY Symmetry
INVARIANTS SoleFinalizer AnswerCoherent
PROPERTIES ImplementsLifecycle
CHECK_DEADLOCK FALSE
