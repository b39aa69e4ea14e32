CONSTANTS
    NoTarget = NoTarget
    EndsInFiles <- MCEndsInFiles
    MaxTotal = 5
    MaxChunk = 3
    Bases <- MCBases
    Targets <- MCTargets
SPECIFICATION Spec
INVARIANTS PartsTile ResumeCompletes DeleteFindsFile
CHECK_DEADLOCK FALSE
