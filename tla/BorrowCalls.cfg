SPECIFICATION SmallSpec
CONSTANTS
    p1 = p1
    p2 = p2
    LoanIds = {b1, b2, p1, p2, d1}
    BodyLoans = {b1, b2}
    DynamicLoans = {d1}
    ParamLoans <- TwoParams
    NoLoan = NoLoan
    Allocations = {1}
    Size = 2
    MaxActiveLoans = 3
    MaxAliases = 2
    MaxDepth = 2
    MaxCallDepth = 2
    MaxTokens = 3
    MaxInvocations = 3
    MaxMinted = 5
SYMMETRY BodySymmetry
CHECK_DEADLOCK FALSE
INVARIANTS TypeOK AuthoritiesConserved FramesSound CalleeConfined ReturnAccepted
