SPECIFICATION Spec
CONSTANTS
    l1 = l1
    l2 = l2
    l3 = l3
    heap = heap
    LoanIds = {l1, l2, l3}
    NoLoan = NoLoan
    Allocations = {heap}
    Size = 2
    MaxActiveLoans = 3
    MaxAliases = 2
    MaxDepth = 2
    Names = {x, y, z}
    Sites <- AllSites
    Leaks = FALSE
    MaxArm = 2
SYMMETRY Symmetry
INVARIANTS TypeOK LiveLoansKnown VerifiedRunsAccepted
CHECK_DEADLOCK FALSE
