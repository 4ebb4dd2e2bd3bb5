SPECIFICATION Spec
CONSTANTS
    Functions = {1, 2, 3}
    Entry = 1
    NoFunction = NoFunction
    MaxWord = 7
    Depth = 6
    Programs <- Recursion
    MaxFunctions = 2
    MaxIterations = 3
    MaxBodies = 7
    MaxWorlds = 3
    WidenAfter = 1
CHECK_DEADLOCK FALSE
INVARIANTS TypeOK SummariesCover CheckedRunsSafely NothingProvisional
PROPERTIES HypothesesWeaken KeepsPromise Terminates
