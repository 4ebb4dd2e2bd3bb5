SPECIFICATION Spec
CONSTANTS
    Blocks = {1, 2, 3, 4, 5, 6, 7}
    Entry = 1
    MaxWord = 3
    Programs <- Match
    NoBlock = NoBlock
    MaxCases = 3
    MaxCuts = 2
    MaxPasses = 2
    MaxRefinementVisits = 5
    AmpleVisits = 40
    WidenAfter = 1
CHECK_DEADLOCK FALSE
INVARIANT CheckedRunsSafely
