SPECIFICATION HolderSpec
CONSTANTS
    LoanIds = {l1, l2}
    NoLoan = NoLoan
    Allocations = {1, 2, 3, 4, 5}
    Size = 1
    MaxActiveLoans = 2
    MaxAliases = 2
    MaxDepth = 2
    SlotKind <- HolderSlots
    Values = {v1}
    NoPayload = NoPayload
    MaxFrame = 3
    MaxHeapLoans = 2
    MaxAuthority = 3
SYMMETRY LoanSymmetry
CHECK_DEADLOCK FALSE
INVARIANTS
    AuthorityLinear
    NothingDangles
    StoredOwnerNotLent
    PayloadMatchesBytes
PROPERTIES
    SharedContentsStable
