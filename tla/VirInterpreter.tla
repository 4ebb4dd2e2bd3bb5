--------------------------- MODULE VirInterpreter ----------------------------
(***************************************************************************)
(* One invocation of a VIR function in the interpreter: its memory, the    *)
(* permission values of its block frame, the references and owners stored  *)
(* in memory (resource payloads) and its loan table.  An instruction that  *)
(* the interpreter refuses ends the execution with an error; here it is an *)
(* action that is not enabled.                                             *)
(*                                                                         *)
(* SSA names are left out: the frame is the set of permission values that  *)
(* are not consumed, so consuming a permission takes it out of the set,    *)
(* and moving it to another name or block changes nothing.  A pointer can  *)
(* be copied freely and grants nothing, so it is an input of an action.    *)
(* A byte stands for the smallest object a type can place at an offset.    *)
(***************************************************************************)
EXTENDS LoanTable

CONSTANTS
    SlotKind,     \* the type of the object at each offset of each allocation
    Values,       \* scalar values
    NoPayload,    \* no resource payload at an offset
    MaxAuthority  \* bound: authority tokens a run may mint

VARIABLES
    loans,          \* RuntimeLoanShadow.loans
    nextAuthority,  \* RuntimeLoanShadow.next_authority
    frame,          \* BlockFrame: the permissions that are not consumed
    storage,        \* Allocation.live and .kind
    bytes,          \* Allocation.bytes
    payload,        \* Allocation.resource_payloads
    returned        \* the frame has returned

loanVars == <<loans, nextAuthority>>
memVars == <<storage, bytes, payload>>
vars == <<loans, nextAuthority, frame, storage, bytes, payload, returned>>

Byte == 0 .. Size - 1
Whole == [start |-> 0, end |-> Size]
At(b) == [start |-> b, end |-> b + 1]

SlotKinds == {"Scalar", "Own", "SharedRef", "MutRef"}
Storage == {"Unused", "Heap", "Local", "Dead"}
Uninit == "uninit"
Bits == "bits"    \* the opaque bits of a stored pointer

ASSUME InterpreterAssumption ==
    /\ SlotKind \in [Allocations -> [Byte -> SlotKinds]]
    /\ Uninit \notin Values /\ Bits \notin Values
    /\ NoPayload \notin Permission
    /\ MaxAuthority \in Nat
    /\ Allocations \subseteq Nat
    /\ Size > 0

TypeOK ==
    /\ loans \in [LoanIds -> Loan]
    /\ nextAuthority \in Nat
    /\ frame \in SUBSET Permission
    /\ storage \in [Allocations -> Storage]
    /\ bytes \in [Allocations -> [Byte -> Values \cup {Uninit, Bits}]]
    /\ payload \in [Allocations -> [Byte -> Permission \cup {NoPayload}]]
    /\ returned \in BOOLEAN

Init ==
    /\ loans = [l \in LoanIds |-> Blank]
    /\ nextAuthority = 0
    /\ frame = {}
    /\ storage = [a \in Allocations |-> "Unused"]
    /\ bytes = [a \in Allocations |-> [b \in Byte |-> Uninit]]
    /\ payload = [a \in Allocations |-> [b \in Byte |-> NoPayload]]
    /\ returned = FALSE

-----------------------------------------------------------------------------
(* Checks shared by the instructions. *)

Alive(a) == storage[a] \in {"Heap", "Local"}

Initialized(a, b) == bytes[a][b] # Uninit

NoPayloads(a) == \A b \in Byte : payload[a][b] = NoPayload

\* check_access: a live allocation, and a permission that covers the bytes.
Covers(p, r) == Alive(p.allocation) /\ Contains(p.range, r)

\* check_loan_instruction_access: nothing is checked while no loan is live.
LoanAccess(p, r, access) == LiveLoans(loans) = {} \/ CheckAccess(loans, p, r, access)

\* A permission carrying a loan authority is neither split nor joined.
Transformable(p) == LiveLoans(loans) = {} \/ p.loan = NoLoan

\* The places that own or borrow pointer-free data; only data of that type is
\* ever referred to from a slot.
PointerFree(a) == \A b \in Byte : SlotKind[a][b] = "Scalar"

Reading(a, b) == Initialized(a, b) /\ (SlotKind[a][b] # "Scalar" => payload[a][b] # NoPayload)

\* check_borrow_value: a reference is formed to initialized objects with their
\* payloads; a mutable reference to one pointer-free object needs only storage.
Borrowable(a, r, k) ==
    \/ k = "Mutable" /\ \A b \in BytesOf(r) : SlotKind[a][b] = "Scalar"
    \/ \A b \in BytesOf(r) : Reading(a, b)

CanMint == nextAuthority < MaxAuthority

-----------------------------------------------------------------------------
(* Storage. *)

NextAllocation(a) ==
    storage[a] = "Unused" /\ \A c \in Allocations : c < a => storage[c] # "Unused"

Allocate(a) ==
    /\ NextAllocation(a)
    /\ storage' = [storage EXCEPT ![a] = "Heap"]
    /\ frame' = frame \cup {Owner(a, Whole, TRUE)}
    /\ UNCHANGED <<loanVars, bytes, payload, returned>>

LocalStorage(a) ==
    /\ NextAllocation(a)
    /\ storage' = [storage EXCEPT ![a] = "Local"]
    /\ frame' = frame \cup {Owner(a, Whole, FALSE)}
    /\ UNCHANGED <<loanVars, bytes, payload, returned>>

\* free: complete permission, the right to free, and nothing stored inside.
Freeable(p) ==
    /\ Alive(p.allocation)
    /\ p.range = Whole
    /\ p.free
    /\ NoPayloads(p.allocation)

\* (Mutant: free forgets the loans.)
FreeWhileLent(p) ==
    /\ Freeable(p)
    /\ storage' = [storage EXCEPT ![p.allocation] = "Dead"]
    /\ frame' = frame \ {p}
    /\ UNCHANGED <<loanVars, bytes, payload, returned>>

Free(p) ==
    /\ LoanAccess(p, p.range, "Free")
    /\ Freeable(p)
    /\ storage' = [storage EXCEPT ![p.allocation] = "Dead"]
    /\ frame' = frame \ {p}
    /\ UNCHANGED <<loanVars, bytes, payload, returned>>

-----------------------------------------------------------------------------
(* Scalars. *)

\* Initialize needs an uninitialized place, Store an initialized one, Write any.
WriteModes == {"Initialize", "Write", "Store"}

WriteScalar(p, b, v, mode) ==
    /\ SlotKind[p.allocation][b] = "Scalar"
    /\ LoanAccess(p, At(b), "Write")
    /\ Covers(p, At(b))
    /\ mode = "Initialize" => ~Initialized(p.allocation, b)
    /\ mode = "Store" => Initialized(p.allocation, b)
    /\ bytes' = [bytes EXCEPT ![p.allocation][b] = v]
    /\ UNCHANGED <<loanVars, frame, storage, payload, returned>>

\* ObjectDeinitialize wants the whole value, StorageReset takes what is there.
Deinitialize(p, r, complete) ==
    /\ \A b \in BytesOf(r) : SlotKind[p.allocation][b] = "Scalar"
    /\ LoanAccess(p, r, "Write")
    /\ Covers(p, r)
    /\ complete => \A b \in BytesOf(r) : Initialized(p.allocation, b)
    /\ bytes' = [bytes EXCEPT ![p.allocation] =
                    [b \in Byte |-> IF b \in BytesOf(r) THEN Uninit ELSE @[b]]]
    /\ UNCHANGED <<loanVars, frame, storage, payload, returned>>

\* ResourceStorageReset: the places for owners and references must be empty, in
\* the whole allocation; the scalars between them are forgotten.
ResourceStorageReset(p, r) ==
    LET a == p.allocation IN
    /\ \E b \in BytesOf(r) : SlotKind[a][b] # "Scalar"
    /\ LoanAccess(p, r, "Write")
    /\ Covers(p, r)
    /\ NoPayloads(a)
    /\ \A b \in BytesOf(r) : SlotKind[a][b] # "Scalar" => ~Initialized(a, b)
    /\ bytes' = [bytes EXCEPT ![a] = [b \in Byte |-> IF b \in BytesOf(r) THEN Uninit ELSE @[b]]]
    /\ UNCHANGED <<loanVars, frame, storage, payload, returned>>

-----------------------------------------------------------------------------
(* Owners and references stored in memory. *)

\* (Mutant: storing any pointer counts as reading it.)
StoringAccessRead(slot) == "Read"

\* The access that storing a value counts as: a shared reference is read, an
\* owner or an exclusive reference is moved.
StoringAccess(slot) == IF slot = "SharedRef" THEN "Read" ELSE "Move"

Storable(v, slot) ==
    \/ slot = "Own" /\ v.loan = NoLoan /\ v.range = Whole /\ v.free /\ Alive(v.allocation)
    \/ slot \in {"SharedRef", "MutRef"} /\ v.loan # NoLoan /\ ~v.free /\ v.range.start < v.range.end

ResourceInitialize(p, b, v) ==
    LET a == p.allocation slot == SlotKind[a][b] IN
    /\ slot # "Scalar"
    /\ PointerFree(v.allocation)
    /\ LoanAccess(p, At(b), "Write")
    /\ LoanAccess(v, v.range, StoringAccess(slot))
    /\ Storable(v, slot)
    /\ Covers(p, At(b))
    /\ ~Initialized(a, b)
    /\ bytes' = [bytes EXCEPT ![a][b] = Bits]
    /\ payload' = [payload EXCEPT ![a][b] = v]
    /\ frame' = frame \ {v}
    /\ UNCHANGED <<loanVars, storage, returned>>

\* (Mutant: the bits stay behind.)
ResourceTakeKeepsBits(p, b) ==
    LET a == p.allocation IN
    /\ SlotKind[a][b] # "Scalar"
    /\ LoanAccess(p, At(b), "Move")
    /\ Covers(p, At(b))
    /\ Reading(a, b)
    /\ payload' = [payload EXCEPT ![a][b] = NoPayload]
    /\ frame' = frame \cup {payload[a][b]}
    /\ UNCHANGED <<loanVars, storage, bytes, returned>>

ResourceTake(p, b) ==
    LET a == p.allocation IN
    /\ SlotKind[a][b] # "Scalar"
    /\ LoanAccess(p, At(b), "Move")
    /\ Covers(p, At(b))
    /\ Reading(a, b)
    /\ bytes' = [bytes EXCEPT ![a][b] = Uninit]
    /\ payload' = [payload EXCEPT ![a][b] = NoPayload]
    /\ frame' = frame \cup {payload[a][b]}
    /\ UNCHANGED <<loanVars, storage, returned>>

\* What both kinds of object transfer check, from place b of p to place c of q.
Transferable(p, b, q, c, access, mode) ==
    /\ SlotKind[p.allocation][b] = SlotKind[q.allocation][c]
    /\ LoanAccess(q, At(c), "Write")
    /\ LoanAccess(p, At(b), access)
    /\ Covers(q, At(c))
    /\ Covers(p, At(b))
    /\ p.allocation = q.allocation => b # c
    /\ Reading(p.allocation, b)
    /\ mode = "Initialize" => ~Initialized(q.allocation, c)
    /\ mode = "Replace" => Initialized(q.allocation, c)

\* (Mutant: the copy carries the original's token.)
ObjectCopySameToken(p, b, q, c, mode) ==
    /\ SlotKind[p.allocation][b] \in {"Scalar", "SharedRef"}
    /\ Transferable(p, b, q, c, "Read", mode)
    /\ bytes' = [bytes EXCEPT ![q.allocation][c] = bytes[p.allocation][b]]
    /\ payload' = [payload EXCEPT ![q.allocation][c] = payload[p.allocation][b]]
    /\ UNCHANGED <<loanVars, frame, storage, returned>>

\* A copied shared reference gets an authority of its own.
ObjectCopy(p, b, q, c, mode) ==
    LET v == payload[p.allocation][b] IN
    /\ SlotKind[p.allocation][b] \in {"Scalar", "SharedRef"}
    /\ Transferable(p, b, q, c, "Read", mode)
    /\ bytes' = [bytes EXCEPT ![q.allocation][c] = bytes[p.allocation][b]]
    /\ IF v = NoPayload
       THEN UNCHANGED <<loanVars, payload>>
       ELSE /\ CanMint
            /\ v.loan # NoLoan
            /\ AliasAllowed(loans, v.loan, v.token)
            /\ loans' = AliasLoan(loans, v.loan, nextAuthority)
            /\ nextAuthority' = nextAuthority + 1
            /\ payload' = [payload EXCEPT ![q.allocation][c] =
                              [v EXCEPT !.token = nextAuthority]]
    /\ UNCHANGED <<frame, storage, returned>>

\* Only a pointer-free value may replace another one by a move.
ObjectMove(p, b, q, c, mode) ==
    LET v == payload[p.allocation][b] IN
    /\ SlotKind[p.allocation][b] = "Scalar" \/ mode = "Initialize"
    /\ Transferable(p, b, q, c, "Move", mode)
    /\ bytes' = [[bytes EXCEPT ![q.allocation][c] = bytes[p.allocation][b]]
                        EXCEPT ![p.allocation][b] = Uninit]
    /\ payload' = [[payload EXCEPT ![q.allocation][c] = v] EXCEPT ![p.allocation][b] = NoPayload]
    /\ UNCHANGED <<loanVars, frame, storage, returned>>

\* Dropping a stored owner frees what it owns; dropping a stored reference ends
\* its authority.  (Dropping an empty place changes nothing.)
ObjectDrop(p, b) ==
    LET a == p.allocation v == payload[a][b] IN
    /\ SlotKind[a][b] # "Scalar"
    /\ LoanAccess(p, At(b), "Write")
    /\ Covers(p, At(b))
    /\ Reading(a, b)
    /\ \/ /\ SlotKind[a][b] = "Own"
          /\ v.loan = NoLoan
          /\ Freeable(v)
          /\ storage' = [storage EXCEPT ![v.allocation] = "Dead"]
          /\ UNCHANGED loans
       \/ /\ SlotKind[a][b] # "Own"
          /\ v.loan # NoLoan
          /\ EndStoredAllowed(loans, v.loan, v.token)
          /\ loans' = EndLoan(loans, v.loan, v.token)
          /\ UNCHANGED storage
    /\ bytes' = [bytes EXCEPT ![a][b] = Uninit]
    /\ payload' = [payload EXCEPT ![a][b] = NoPayload]
    /\ UNCHANGED <<nextAuthority, frame, returned>>

-----------------------------------------------------------------------------
(* Permissions. *)

\* (Mutant: the cut may lie outside the permission.)
PermissionSplitAnywhere(p, at) ==
    /\ Transformable(p)
    /\ frame' = (frame \ {p}) \cup {[p EXCEPT !.range.end = at], [p EXCEPT !.range.start = at]}
    /\ UNCHANGED <<loanVars, memVars, returned>>

PermissionSplit(p, at) ==
    /\ Transformable(p)
    /\ p.range.start <= at /\ at <= p.range.end
    /\ frame' = (frame \ {p}) \cup {[p EXCEPT !.range.end = at], [p EXCEPT !.range.start = at]}
    /\ UNCHANGED <<loanVars, memVars, returned>>

\* (Mutant: the right operand is not consumed.)
PermissionJoinKeepsRight(p, q) ==
    /\ p # q
    /\ Transformable(p) /\ Transformable(q)
    /\ p.allocation = q.allocation /\ p.free = q.free
    /\ p.range.end = q.range.start
    /\ frame' = (frame \ {p}) \cup {[p EXCEPT !.range.end = q.range.end]}
    /\ UNCHANGED <<loanVars, memVars, returned>>

PermissionJoin(p, q) ==
    /\ p # q
    /\ Transformable(p) /\ Transformable(q)
    /\ p.allocation = q.allocation /\ p.free = q.free
    /\ p.range.end = q.range.start
    /\ frame' = (frame \ {p, q}) \cup {[p EXCEPT !.range.end = q.range.end]}
    /\ UNCHANGED <<loanVars, memVars, returned>>

\* SliceRange narrows a permission, gives up the right to free and keeps the
\* loan authority.
SliceRange(p, r) ==
    /\ Alive(p.allocation)
    /\ Contains(p.range, r)
    /\ frame' = (frame \ {p}) \cup {[p EXCEPT !.range = r, !.free = FALSE]}
    /\ UNCHANGED <<loanVars, memVars, returned>>

\* A jump hands the next block the permissions its arguments name; the others
\* are gone with the block's frame.
EnterBlock(passed) ==
    /\ frame' = passed
    /\ UNCHANGED <<loanVars, memVars, returned>>

-----------------------------------------------------------------------------
(* Loans. *)

LoanBegin(l, p, r, k) ==
    /\ p.loan = NoLoan
    /\ Covers(p, r)
    /\ Borrowable(p.allocation, r, k)
    /\ BeginAllowed(loans, l, p.allocation, r, k)
    /\ CanMint
    /\ loans' = BeginLoan(loans, l, p.allocation, r, k, nextAuthority)
    /\ nextAuthority' = nextAuthority + 1
    /\ frame' = frame \cup {Carrier(p.allocation, r, l, nextAuthority)}
    /\ UNCHANGED <<memVars, returned>>

\* LoanReborrow and, with the parent found from the permission's own authority,
\* LoanReborrowAuthority.
LoanReborrow(l, p, r, k) ==
    /\ p.loan # NoLoan
    /\ Covers(p, r)
    /\ Borrowable(p.allocation, r, k)
    /\ ReborrowAllowed(loans, l, p.loan, r, k, p.token)
    /\ CanMint
    /\ loans' = ReborrowLoan(loans, l, p.loan, r, k, nextAuthority)
    /\ nextAuthority' = nextAuthority + 1
    /\ frame' = frame \cup {Carrier(p.allocation, r, l, nextAuthority)}
    /\ UNCHANGED <<memVars, returned>>

\* LoanAliasShared and LoanAliasAuthority: the permission covers the whole loan.
LoanAlias(p) ==
    /\ p.loan # NoLoan
    /\ Alive(p.allocation)
    /\ p.range = loans[p.loan].range
    /\ Borrowable(p.allocation, p.range, "Shared")
    /\ AliasAllowed(loans, p.loan, p.token)
    /\ CanMint
    /\ loans' = AliasLoan(loans, p.loan, nextAuthority)
    /\ nextAuthority' = nextAuthority + 1
    /\ frame' = frame \cup {Carrier(p.allocation, p.range, p.loan, nextAuthority)}
    /\ UNCHANGED <<memVars, returned>>

LoanEnd(p) ==
    /\ p.loan # NoLoan
    /\ Covers(p, loans[p.loan].range)
    /\ EndAllowed(loans, p.loan, p.token)
    /\ loans' = EndLoan(loans, p.loan, p.token)
    /\ frame' = frame \ {p}
    /\ UNCHANGED <<nextAuthority, memVars, returned>>

LoanEndAuthority(p) ==
    /\ p.loan # NoLoan
    /\ Alive(p.allocation)
    /\ p.range = loans[p.loan].range
    /\ EndStoredAllowed(loans, p.loan, p.token)
    /\ loans' = EndLoan(loans, p.loan, p.token)
    /\ frame' = frame \ {p}
    /\ UNCHANGED <<nextAuthority, memVars, returned>>

-----------------------------------------------------------------------------
\* Returning ends the lifetime of the frame's local storage, which must be empty
\* of payloads; no loan may be live.
Return ==
    /\ FinishAllowed(loans)
    /\ \A a \in Allocations : storage[a] = "Local" => NoPayloads(a)
    /\ storage' = [a \in Allocations |-> IF storage[a] = "Local" THEN "Dead" ELSE storage[a]]
    /\ frame' = {}
    /\ returned' = TRUE
    /\ UNCHANGED <<loanVars, bytes, payload>>

\* The instructions of a program, by what they act on.
StorageStep ==
    \/ \E a \in Allocations : Allocate(a) \/ LocalStorage(a)
    \/ \E p \in frame : Free(p)

ScalarStep ==
    \/ \E p \in frame, b \in Byte, v \in Values, m \in WriteModes : WriteScalar(p, b, v, m)
    \/ \E p \in frame, r \in Range, complete \in BOOLEAN : Deinitialize(p, r, complete)

PayloadStep ==
    \/ \E p \in frame, r \in Range : ResourceStorageReset(p, r)
    \/ \E p \in frame, b \in Byte, v \in frame : ResourceInitialize(p, b, v)
    \/ \E p \in frame, b \in Byte : ResourceTake(p, b) \/ ObjectDrop(p, b)
    \/ \E p, q \in frame, b, c \in Byte, m \in {"Initialize", "Replace"} :
          ObjectCopy(p, b, q, c, m) \/ ObjectMove(p, b, q, c, m)

PermissionStep ==
    \/ \E p \in frame, at \in Offsets : PermissionSplit(p, at)
    \/ \E p, q \in frame : PermissionJoin(p, q)
    \/ \E p \in frame, r \in Range : SliceRange(p, r)

LoanStep ==
    \/ \E l \in LoanIds, p \in frame, r \in Range, k \in Kind :
          LoanBegin(l, p, r, k) \/ LoanReborrow(l, p, r, k)
    \/ \E p \in frame : LoanAlias(p) \/ LoanEnd(p) \/ LoanEndAuthority(p)

BlockStep == \E passed \in SUBSET frame : EnterBlock(passed)

Next ==
    /\ ~returned
    /\ \/ StorageStep
       \/ ScalarStep
       \/ PayloadStep
       \/ PermissionStep
       \/ LoanStep
       \/ BlockStep
       \/ Return

Spec == Init /\ [][Next]_vars

-----------------------------------------------------------------------------
(* Properties. *)

Places == Allocations \X Byte
Stored(x) == payload[x[1]][x[2]]
StoredPermissions == {x \in Places : Stored(x) # NoPayload}

\* The loan table stays a forest of nested loans: a loan is live exactly while an
\* authority over it is held, a live child keeps its parent alive, and a parent
\* is usable again exactly when its last child has ended (loan_shadow.rs: begin,
\* reborrow, end, end_stored).
LoanForest == Held(loans) /\ Nested(loans) /\ SuspendedWhileLent(loans)

\* No byte is lent twice with one of the loans exclusive, unless one of the two
\* was reborrowed from the other (check_creation_conflict ignores the ancestors).
LoansExclusive == Exclusive(loans)

\* Every permission that carries a loan authority, in the frame or in memory, is
\* backed by the loan's own record, and no token is carried twice: authorities
\* are neither forged nor duplicated by taking, moving, copying and storing
\* references (fresh_authority, alias_stored, resource_take, object_transfer).
Backed(p) ==
    /\ p.token \in loans[p.loan].authorities
    /\ p.allocation = loans[p.loan].allocation
    /\ Contains(loans[p.loan].range, p.range)
    /\ ~p.free

AuthorityLinear ==
    /\ \A p \in frame : p.loan # NoLoan => Backed(p)
    /\ \A x \in StoredPermissions : Stored(x).loan # NoLoan => Backed(Stored(x))
    /\ \A p, q \in frame : p.loan # NoLoan /\ p.token = q.token => p = q
    /\ \A x, y \in StoredPermissions :
          Stored(x).loan # NoLoan /\ Stored(x).token = Stored(y).token => x = y
    /\ \A p \in frame, x \in StoredPermissions : p.loan # NoLoan => p.token # Stored(x).token

\* A permission that passes the access check disturbs nobody: every live loan on
\* the byte is shared and only read, or is one the permission's own loan was
\* reborrowed from.  The check of a reference looks at its own loan only
\* (check_access), so this rests on the whole history of the table.
AccessIsolated ==
    \A p \in frame, b \in Byte, access \in Access :
        /\ b \in BytesOf(p.range)
        /\ LoanAccess(p, At(b), access)
        => \A l \in LiveLoans(loans) :
              loans[l].allocation = p.allocation /\ b \in BytesOf(loans[l].range) =>
                 \/ access = "Read" /\ loans[l].kind = "Shared"
                 \/ p.loan # NoLoan /\ l \in Chain(loans, p.loan)

\* Storage is never released under a loan of some of its bytes: not by free, not
\* by dropping the owner that is stored in an object, not by returning.  (A loan
\* of an empty slice has no bytes and does not keep its allocation alive.)
LentStorageAlive ==
    \A l \in LiveLoans(loans) : BytesOf(loans[l].range) # {} => Alive(loans[l].allocation)

\* Each byte has at most one owner, in the frame or stored in an object, so the
\* complete permission that free demands is unique.
OwnersDisjoint ==
    /\ \A p, q \in frame :
          p.loan = NoLoan /\ q.loan = NoLoan /\ p.allocation = q.allocation /\ p # q
          => BytesOf(p.range) \cap BytesOf(q.range) = {}
    /\ \A x, y \in StoredPermissions :
          /\ Stored(x).loan = NoLoan /\ Stored(y).loan = NoLoan
          /\ Stored(x).allocation = Stored(y).allocation
          => x = y
    /\ \A p \in frame, x \in StoredPermissions :
          p.loan = NoLoan /\ Stored(x).loan = NoLoan /\ p.allocation = Stored(x).allocation
          => BytesOf(p.range) = {}

\* An owner that sits in an object has none of its bytes lent, so dropping the
\* object, which checks only the loans of the object itself, frees nothing that
\* is borrowed (object_drop_contents calls free without an access check).
StoredOwnerNotLent ==
    \A x \in StoredPermissions : Stored(x).loan = NoLoan =>
        \A l \in LiveLoans(loans) :
            loans[l].allocation = Stored(x).allocation => BytesOf(loans[l].range) = {}

\* The bytes and the payload of a place for a pointer come and go together; the
\* code treats any other combination as an invalid runtime state.
PayloadMatchesBytes ==
    \A x \in Places :
        IF SlotKind[x[1]][x[2]] = "Scalar"
        THEN Stored(x) = NoPayload
        ELSE Initialized(x[1], x[2]) <=> Stored(x) # NoPayload

\* What a frame leaves behind in the heap is free of dangling pointers: after the
\* return no object holds a reference, and every owner an object holds still owns
\* live storage.  finish only looks at the loan table, so this rests on the table
\* counting every reference that copies and moves have put into memory.
NothingDangles ==
    returned => \A x \in StoredPermissions :
                   Stored(x).loan = NoLoan /\ Alive(Stored(x).allocation)

\* What a shared reference sees does not change while its loan lives, whoever
\* takes the step.
SharedContentsStable ==
    [][\A l \in LoanIds :
          /\ Live(loans, l) /\ Live(loans', l) /\ loans[l].kind = "Shared"
          => \A b \in BytesOf(loans[l].range) :
                /\ bytes'[loans[l].allocation][b] = bytes[loans[l].allocation][b]
                /\ payload'[loans[l].allocation][b] = payload[loans[l].allocation][b]]_vars

=============================================================================
