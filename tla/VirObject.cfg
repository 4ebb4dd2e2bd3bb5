SPECIFICATION ObjectSpec
CONSTANTS
    LoanIds = {l1, l2, l3}
    NoLoan = NoLoan
    Allocations = {1}
    Size = 2
    MaxActiveLoans = 3
    MaxAliases = 2
    MaxDepth = 2
    SlotKind <- PlainSlots
    Values = {v1}
    NoPayload = NoPayload
    MaxFrame = 3
    MaxHeapLoans = 2
    MaxAuthority = 4
SYMMETRY LoanSymmetry
CHECK_DEADLOCK FALSE
INVARIANTS
    LoanForest
    LoansExclusive
    AccessIsolated
    TypeOK
    OwnersDisjoint
    LentStorageAlive
