SPECIFICATION Spec
CONSTANTS
    Blocks = {1, 2, 3, 4, 5, 6}
    Entry = 1
    MaxWord = 12
    Programs <- Shapes
    NoBlock = NoBlock
    MaxCases = 2
    MaxCuts = 2
    MaxPasses = 2
    MaxRefinementVisits = 5
    AmpleVisits = 20
    WidenAfter = 1
CHECK_DEADLOCK FALSE
INVARIANTS TypeOK AuditedRunsSafely CheckedRunsSafely ResultsCurrent Converges
PROPERTY LoopEntriesAscend
