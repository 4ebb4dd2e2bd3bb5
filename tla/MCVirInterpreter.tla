------------------------- MODULE MCVirInterpreter --------------------------
(* Instances of VirInterpreter for TLC: plain data only (references live in *)
(* the frame), and a holder object with places for pointers.                *)
EXTENDS VirInterpreter, TLC

CONSTANTS
    MaxFrame,      \* bound: permissions in the frame at once
    MaxHeapLoans   \* bound: loans, and tokens, where permissions are split too

PlainSlots == [a \in Allocations |-> [b \in Byte |-> "Scalar"]]

\* One object of plain data; one that can hold its owner and one that can hold
\* an exclusive reference to it; two that can hold a shared reference to it.
HolderSlots ==
    [a \in Allocations |-> [b \in Byte |->
        CASE a = 1 -> "Scalar" [] a = 2 -> "Own" [] a = 3 -> "MutRef" [] OTHER -> "SharedRef"]]

\* The objects one execution uses; the others were allocated and freed before.
HolderGroups == {{1, 2, 3}, {1, 4, 5}}

HolderInit ==
    /\ loans = [l \in LoanIds |-> Blank] /\ nextAuthority = 0 /\ frame = {} /\ returned = FALSE
    /\ \E used \in HolderGroups :
          storage = [a \in Allocations |-> IF a \in used THEN "Unused" ELSE "Dead"]
    /\ bytes = [a \in Allocations |-> [b \in Byte |-> Uninit]]
    /\ payload = [a \in Allocations |-> [b \in Byte |-> NoPayload]]

\* Programs that keep owners and references in objects; every permission is
\* passed on from block to block and none is split.
HolderProgram ==
    ~returned /\ (StorageStep \/ ScalarStep \/ PayloadStep \/ LoanStep \/ Return)

HolderSpec == HolderInit /\ [][HolderProgram]_vars

\* Programs of loans over a local object of plain data: no stored pointers, and
\* the memory is not rewritten once it is allocated and initialized.
LoanProgram ==
    /\ ~returned
    /\ \A a \in Allocations : storage[a] \in {"Unused", "Local"}
    /\ \/ \E a \in Allocations : LocalStorage(a)
       \/ \E p \in frame, b \in Byte, v \in Values : WriteScalar(p, b, v, "Initialize")
       \/ LoanStep
       \/ Return

\* Programs that split, join, narrow, forget and free the permissions of a heap
\* object under loans; fewer loans and tokens than the constants allow.
PermissionProgram ==
    /\ ~returned
    /\ \A a \in Allocations : storage[a] # "Local"
    /\ \/ \E a \in Allocations : Allocate(a)
       \/ \E p \in frame : Free(p)
       \/ \E p \in frame, b \in Byte, v \in Values : WriteScalar(p, b, v, "Initialize")
       \/ PermissionStep
       \/ LoanStep
       \/ BlockStep
       \/ Return
    /\ Cardinality(frame') <= MaxFrame
    /\ Cardinality({l \in LoanIds : loans'[l] # Blank}) <= MaxHeapLoans
    /\ nextAuthority' <= MaxHeapLoans

ObjectSpec == Init /\ [][LoanProgram \/ PermissionProgram]_vars

LoanSymmetry == Permutations(LoanIds)
=============================================================================
