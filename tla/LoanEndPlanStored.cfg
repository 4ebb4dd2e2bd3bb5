SPECIFICATION BoundedSpec
CONSTANTS
    LoanIds = {1, 2, 3}
    NoLoan = 0
    Allocations = {1}
    Size = 1
    MaxActiveLoans = 3
    MaxAliases = 3
    MaxDepth = 3
    MaxInstructions = 4
    MaxLocals = 3
    MaxParentDepth = 3
CHECK_DEADLOCK FALSE
INVARIANTS
    PlanAccepted
