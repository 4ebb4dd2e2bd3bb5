SPECIFICATION Spec
CONSTANTS
    Functions = {1, 2, 3}
    Entry = 1
    NoFunction = NoFunction
    MaxWord = 7
    Depth = 6
    Programs <- Parameters
    MaxFunctions = 2
    MaxIterations = 4
    MaxBodies = 10
    MaxWorlds = 4
    WidenAfter = 1
CHECK_DEADLOCK FALSE
INVARIANT SummariesCover
