------------------------ MODULE VirInterpreterProofs -------------------------
(***************************************************************************)
(* One invocation of the interpreter, along every execution and for all     *)
(* sets of loans, allocations, bytes and values.                            *)
(*                                                                         *)
(* First the loan table: its inductive invariant is the type invariant      *)
(* together with the four properties of the table (TableInv), each of which *)
(* is needed to preserve another one.                                       *)
(*                                                                         *)
(* Then the permissions, in the frame and in memory.  The table says which  *)
(* authorities exist; here it is shown who holds them.  The inductive       *)
(* invariant states that everything that is held is sound by itself         *)
(* (Sound), that any two things that are held exclude each other            *)
(* (Separate), that what is stored has the shape its place is for           *)
(* (Slotted), and that the tokens to come are fresh (AuthoritiesBelow).     *)
(***************************************************************************)
EXTENDS VirInterpreter, LoanTableProofs

Invariant == TypeOK /\ TableInv(loans)

-----------------------------------------------------------------------------
(* Types. *)

\* What a permission record of the frame consists of.
LEMMA PermissionFields ==
    ASSUME NEW p \in Permission
    PROVE  /\ p.allocation \in Allocations /\ p.range \in Range /\ p.free \in BOOLEAN
           /\ p.loan \in LoanIds \cup {NoLoan} /\ p.token \in Nat \cup {NoToken}
BY DEF Permission

\* The whole allocation and a single byte are ranges.
LEMMA Ranges ==
    /\ Whole \in Range
    /\ \A b \in Byte : At(b) \in Range
BY LoanTableAssumption, InterpreterAssumption DEF Whole, At, Byte, Range, Offsets

\* The permission Allocate introduces is well-typed.
LEMMA OwnerType ==
    ASSUME NEW a \in Allocations, NEW r \in Range, NEW f \in BOOLEAN
    PROVE  Owner(a, r, f) \in Permission
BY DEF Owner, Permission, NoToken

\* A loan permission issued for a table entry is well-typed.
LEMMA CarrierType ==
    ASSUME NEW a \in Allocations, NEW r \in Range, NEW l \in LoanIds, NEW t \in Nat
    PROVE  Carrier(a, r, l, t) \in Permission
BY DEF Carrier, Permission

\* The empty program state satisfies the invariant.
LEMMA InitInv == Init => Invariant
<1> SUFFICES ASSUME Init PROVE Invariant OBVIOUS
<1>1. loans = [l \in LoanIds |-> Blank] BY DEF Init
<1>2. loans \in Table /\ TableInv(loans) BY <1>1, BlankTable
<1>3. TypeOK BY <1>2 DEF TypeOK, Init, Table, Storage
<1> QED BY <1>2, <1>3 DEF Invariant

\* An instruction that changes the memory or the frame only.
LEMMA StorageType == TypeOK /\ StorageStep => TypeOK' /\ UNCHANGED loans
<1> SUFFICES ASSUME TypeOK, StorageStep PROVE TypeOK' /\ UNCHANGED loans OBVIOUS
<1>1. ASSUME NEW a \in Allocations, Allocate(a) PROVE TypeOK' /\ UNCHANGED loans
  <2>1. Owner(a, Whole, TRUE) \in Permission BY OwnerType, Ranges
  <2> QED BY <1>1, <2>1 DEF Allocate, TypeOK, Storage, loanVars
<1>2. ASSUME NEW a \in Allocations, LocalStorage(a) PROVE TypeOK' /\ UNCHANGED loans
  <2>1. Owner(a, Whole, FALSE) \in Permission BY OwnerType, Ranges
  <2> QED BY <1>2, <2>1 DEF LocalStorage, TypeOK, Storage, loanVars
<1>3. ASSUME NEW p \in frame, Free(p) PROVE TypeOK' /\ UNCHANGED loans
  BY <1>3 DEF Free, TypeOK, Storage, loanVars
<1> QED BY <1>1, <1>2, <1>3 DEF StorageStep

\* Scalar instructions keep the types and leave the loan table alone.
LEMMA ScalarType == TypeOK /\ ScalarStep => TypeOK' /\ UNCHANGED loans
<1> SUFFICES ASSUME TypeOK, ScalarStep PROVE TypeOK' /\ UNCHANGED loans OBVIOUS
<1>0. \A p \in frame : p.allocation \in Allocations BY DEF TypeOK, Permission
<1>1. ASSUME NEW p \in frame, NEW b \in Byte, NEW v \in Values, NEW m, WriteScalar(p, b, v, m)
      PROVE  TypeOK' /\ UNCHANGED loans
  BY <1>0, <1>1 DEF WriteScalar, TypeOK, loanVars
<1>2. ASSUME NEW p \in frame, NEW r \in Range, NEW c \in BOOLEAN, Deinitialize(p, r, c)
      PROVE  TypeOK' /\ UNCHANGED loans
  BY <1>0, <1>2 DEF Deinitialize, TypeOK, loanVars
<1> QED BY <1>1, <1>2 DEF ScalarStep

\* Creating and dropping plain permissions keeps the types and the loan table.
LEMMA PermissionType == TypeOK /\ PermissionStep => TypeOK' /\ UNCHANGED loans
<1> SUFFICES ASSUME TypeOK, PermissionStep PROVE TypeOK' /\ UNCHANGED loans OBVIOUS
<1>1. ASSUME NEW p \in frame, NEW at \in Offsets, PermissionSplit(p, at)
      PROVE  TypeOK' /\ UNCHANGED loans
  <2>1. p \in Permission BY DEF TypeOK
  <2>2. [p EXCEPT !.range.end = at] \in Permission /\ [p EXCEPT !.range.start = at] \in Permission
    BY <1>1, <2>1, LoanTableAssumption DEF PermissionSplit, Permission, Range, Offsets
  <2> QED BY <1>1, <2>2 DEF PermissionSplit, TypeOK, loanVars, memVars
<1>2. ASSUME NEW p \in frame, NEW q \in frame, PermissionJoin(p, q)
      PROVE  TypeOK' /\ UNCHANGED loans
  <2>1. p \in Permission /\ q \in Permission BY DEF TypeOK
  <2>2. [p EXCEPT !.range.end = q.range.end] \in Permission
    BY <1>2, <2>1, LoanTableAssumption DEF PermissionJoin, Permission, Range, Offsets
  <2> QED BY <1>2, <2>2 DEF PermissionJoin, TypeOK, loanVars, memVars
<1>3. ASSUME NEW p \in frame, NEW r \in Range, SliceRange(p, r)
      PROVE  TypeOK' /\ UNCHANGED loans
  <2>1. p \in Permission BY DEF TypeOK
  <2>2. [p EXCEPT !.range = r, !.free = FALSE] \in Permission BY <2>1 DEF Permission
  <2> QED BY <1>3, <2>2 DEF SliceRange, TypeOK, loanVars, memVars
<1> QED BY <1>1, <1>2, <1>3 DEF PermissionStep

\* A jump renames permissions only (finish_edge).
LEMMA BlockType == TypeOK /\ BlockStep => TypeOK' /\ UNCHANGED loans
BY DEF BlockStep, EnterBlock, TypeOK, loanVars, memVars

\* Leaving the frame keeps the types and the loan table.
LEMMA ReturnType == TypeOK /\ Return => TypeOK' /\ UNCHANGED loans
BY DEF Return, TypeOK, Storage, loanVars

-----------------------------------------------------------------------------
(* Instructions that touch the loan table. *)

\* Each loan instruction applies one table operation under its guard.
LEMMA LoanStepInv == Invariant /\ LoanStep => Invariant'
<1> SUFFICES ASSUME Invariant, LoanStep PROVE Invariant' OBVIOUS
<1>1. loans \in Table /\ TableInv(loans) /\ TypeOK /\ nextAuthority \in Nat
  BY DEF Invariant, TypeOK, Table
<1>2. ASSUME loans' \in Table, TableInv(loans'), nextAuthority' \in Nat, frame' \in SUBSET Permission,
             UNCHANGED <<memVars, returned>>
      PROVE  Invariant'
  BY <1>1, <1>2 DEF Invariant, TypeOK, Table, memVars
<1>3. ASSUME NEW l \in LoanIds, NEW p \in frame, NEW r \in Range, NEW k \in Kind,
             LoanBegin(l, p, r, k)
      PROVE  Invariant'
  <2>1. p \in Permission /\ p.allocation \in Allocations BY <1>1, PermissionFields DEF TypeOK
  <2>2. loans' \in Table /\ TableInv(loans')
    BY <1>1, <1>3, <2>1, BeginInv DEF LoanBegin
  <2>3. Carrier(p.allocation, r, l, nextAuthority) \in Permission BY <1>1, <2>1, CarrierType
  <2>4. nextAuthority' \in Nat /\ frame' \in SUBSET Permission
    BY <1>1, <1>3, <2>3 DEF LoanBegin, TypeOK
  <2> QED BY <1>2, <1>3, <2>2, <2>4 DEF LoanBegin
<1>4. ASSUME NEW l \in LoanIds, NEW p \in frame, NEW r \in Range, NEW k \in Kind,
             LoanReborrow(l, p, r, k)
      PROVE  Invariant'
  <2>1. p \in Permission /\ p.allocation \in Allocations /\ p.loan \in LoanIds
    BY <1>1, <1>4, PermissionFields DEF TypeOK, LoanReborrow
  <2>2. loans' \in Table /\ TableInv(loans')
    BY <1>1, <1>4, <2>1, ReborrowInv DEF LoanReborrow
  <2>3. Carrier(p.allocation, r, l, nextAuthority) \in Permission BY <1>1, <2>1, CarrierType
  <2>4. nextAuthority' \in Nat /\ frame' \in SUBSET Permission
    BY <1>1, <1>4, <2>3 DEF LoanReborrow, TypeOK
  <2> QED BY <1>2, <1>4, <2>2, <2>4 DEF LoanReborrow
<1>5. ASSUME NEW p \in frame, LoanAlias(p) PROVE Invariant'
  <2>1. p \in Permission /\ p.allocation \in Allocations /\ p.range \in Range /\ p.loan \in LoanIds
    BY <1>1, <1>5, PermissionFields DEF TypeOK, LoanAlias
  <2>2. loans' \in Table /\ TableInv(loans') BY <1>1, <1>5, <2>1, AliasInv DEF LoanAlias
  <2>3. Carrier(p.allocation, p.range, p.loan, nextAuthority) \in Permission
    BY <1>1, <2>1, CarrierType
  <2>4. nextAuthority' \in Nat /\ frame' \in SUBSET Permission
    BY <1>1, <1>5, <2>3 DEF LoanAlias, TypeOK
  <2> QED BY <1>2, <1>5, <2>2, <2>4 DEF LoanAlias
<1>6. ASSUME NEW p \in frame, LoanEnd(p) PROVE Invariant'
  <2>1. p.loan \in LoanIds BY <1>1, <1>6, PermissionFields DEF TypeOK, LoanEnd
  <2>2. loans' \in Table /\ TableInv(loans') BY <1>1, <1>6, <2>1, EndInv DEF LoanEnd
  <2>3. nextAuthority' \in Nat /\ frame' \in SUBSET Permission BY <1>1, <1>6 DEF LoanEnd, TypeOK
  <2> QED BY <1>2, <1>6, <2>2, <2>3 DEF LoanEnd
<1>7. ASSUME NEW p \in frame, LoanEndAuthority(p) PROVE Invariant'
  <2>1. p.loan \in LoanIds BY <1>1, <1>7, PermissionFields DEF TypeOK, LoanEndAuthority
  <2>2. loans' \in Table /\ TableInv(loans') BY <1>1, <1>7, <2>1, EndInv DEF LoanEndAuthority
  <2>3. nextAuthority' \in Nat /\ frame' \in SUBSET Permission
    BY <1>1, <1>7 DEF LoanEndAuthority, TypeOK
  <2> QED BY <1>2, <1>7, <2>2, <2>3 DEF LoanEndAuthority
<1> QED BY <1>3, <1>4, <1>5, <1>6, <1>7 DEF LoanStep

\* Copying a stored reference adds a holder, dropping it removes one; the other
\* instructions on stored values leave the table alone.
LEMMA PayloadStepInv == Invariant /\ PayloadStep => Invariant'
<1> SUFFICES ASSUME Invariant, PayloadStep PROVE Invariant' OBVIOUS
<1>1. loans \in Table /\ TableInv(loans) /\ TypeOK /\ nextAuthority \in Nat
  BY DEF Invariant, TypeOK, Table
<1>2. \A p \in frame : p \in Permission /\ p.allocation \in Allocations
  BY <1>1, PermissionFields DEF TypeOK
<1>3. \A a \in Allocations, b \in Byte : payload[a][b] \in Permission \cup {NoPayload}
  BY <1>1 DEF TypeOK
<1>4. ASSUME TypeOK', UNCHANGED loans PROVE Invariant' BY <1>1, <1>4 DEF Invariant
<1>5. ASSUME NEW p \in frame, NEW r \in Range, ResourceStorageReset(p, r) PROVE Invariant'
  BY <1>1, <1>2, <1>4, <1>5 DEF ResourceStorageReset, TypeOK, loanVars
<1>6. ASSUME NEW p \in frame, NEW b \in Byte, NEW v \in frame, ResourceInitialize(p, b, v)
      PROVE  Invariant'
  BY <1>1, <1>2, <1>4, <1>6 DEF ResourceInitialize, TypeOK, loanVars
<1>7. ASSUME NEW p \in frame, NEW b \in Byte, ResourceTake(p, b) PROVE Invariant'
  <2>1. payload[p.allocation][b] \in Permission
    BY <1>2, <1>3, <1>7 DEF ResourceTake, Reading
  <2> QED BY <1>1, <1>2, <1>4, <1>7, <2>1 DEF ResourceTake, TypeOK, loanVars
<1>8. ASSUME NEW p \in frame, NEW b \in Byte, ObjectDrop(p, b) PROVE Invariant'
  <2> DEFINE v == payload[p.allocation][b]
  <2>1. v \in Permission BY <1>2, <1>3, <1>8 DEF ObjectDrop, Reading
  <2>2. loans' \in Table /\ TableInv(loans')
    <3>1. CASE v.loan = NoLoan BY <3>1, <1>1, <1>8 DEF ObjectDrop
    <3>2. CASE v.loan # NoLoan
      <4>1. v.loan \in LoanIds BY <3>2, <2>1, PermissionFields
      <4>2. EndStoredAllowed(loans, v.loan, v.token) /\ loans' = EndLoan(loans, v.loan, v.token)
        BY <3>2, <1>8 DEF ObjectDrop
      <4> QED BY <4>1, <4>2, <1>1, EndInv
    <3> QED BY <3>1, <3>2
  <2>3. storage' \in [Allocations -> Storage]
    BY <1>1, <1>8 DEF ObjectDrop, TypeOK, Storage
  <2>4. /\ bytes' \in [Allocations -> [Byte -> Values \cup {Uninit, Bits}]]
        /\ payload' \in [Allocations -> [Byte -> Permission \cup {NoPayload}]]
    BY <1>1, <1>2, <1>8 DEF ObjectDrop, TypeOK
  <2>5. UNCHANGED <<nextAuthority, frame, returned>> BY <1>8 DEF ObjectDrop
  <2> QED BY <1>1, <2>2, <2>3, <2>4, <2>5 DEF Invariant, TypeOK, Table
<1>9. ASSUME NEW p \in frame, NEW q \in frame, NEW b \in Byte, NEW c \in Byte, NEW m,
             ObjectCopy(p, b, q, c, m)
      PROVE  Invariant'
  <2> DEFINE v == payload[p.allocation][b]
  <2>1. bytes' \in [Allocations -> [Byte -> Values \cup {Uninit, Bits}]]
    BY <1>1, <1>2, <1>9 DEF ObjectCopy, TypeOK
  <2>2. UNCHANGED <<frame, storage, returned>> BY <1>9 DEF ObjectCopy
  <2>3. CASE v = NoPayload
    <3>1. UNCHANGED <<loanVars, payload>> BY <1>9, <2>3 DEF ObjectCopy
    <3> QED BY <1>1, <1>4, <2>1, <2>2, <3>1 DEF TypeOK, loanVars
  <2>4. CASE v # NoPayload
    <3>1. v \in Permission /\ v.loan \in LoanIds
      BY <1>2, <1>3, <1>9, <2>4, PermissionFields DEF ObjectCopy
    <3>2. /\ AliasAllowed(loans, v.loan, v.token)
          /\ loans' = AliasLoan(loans, v.loan, nextAuthority)
          /\ nextAuthority' = nextAuthority + 1
          /\ payload' = [payload EXCEPT ![q.allocation][c] = [v EXCEPT !.token = nextAuthority]]
      BY <1>9, <2>4 DEF ObjectCopy
    <3>3. [v EXCEPT !.token = nextAuthority] \in Permission BY <1>1, <3>1 DEF Permission
    <3>4. payload' \in [Allocations -> [Byte -> Permission \cup {NoPayload}]]
      BY <1>1, <1>2, <3>2, <3>3 DEF TypeOK
    <3>5. loans' \in Table /\ TableInv(loans')
      BY <1>1, <3>1, <3>2, AliasInv
    <3>6. nextAuthority' \in Nat BY <1>1, <3>2
    <3> QED BY <1>1, <2>1, <2>2, <3>4, <3>5, <3>6 DEF Invariant, TypeOK, Table
  <2> QED BY <2>3, <2>4
<1>10. ASSUME NEW p \in frame, NEW q \in frame, NEW b \in Byte, NEW c \in Byte, NEW m,
              ObjectMove(p, b, q, c, m)
       PROVE  Invariant'
  <2> DEFINE B == [bytes EXCEPT ![q.allocation][c] = bytes[p.allocation][b]]
             V == [payload EXCEPT ![q.allocation][c] = payload[p.allocation][b]]
  <2>1. /\ bytes' = [B EXCEPT ![p.allocation][b] = Uninit]
        /\ payload' = [V EXCEPT ![p.allocation][b] = NoPayload]
        /\ UNCHANGED <<loanVars, frame, storage, returned>>
    BY <1>10 DEF ObjectMove
  <2>2. /\ B \in [Allocations -> [Byte -> Values \cup {Uninit, Bits}]]
        /\ V \in [Allocations -> [Byte -> Permission \cup {NoPayload}]]
    BY <1>1, <1>2 DEF TypeOK
  <2> HIDE DEF B, V
  <2>3. /\ bytes' \in [Allocations -> [Byte -> Values \cup {Uninit, Bits}]]
        /\ payload' \in [Allocations -> [Byte -> Permission \cup {NoPayload}]]
    BY <1>2, <2>1, <2>2
  <2> QED BY <1>1, <1>4, <2>1, <2>3 DEF TypeOK, loanVars
<1> QED BY <1>5, <1>6, <1>7, <1>8, <1>9, <1>10 DEF PayloadStep

\* Every step preserves the invariant.
LEMMA NextInv == Invariant /\ [Next]_vars => Invariant'
<1> SUFFICES ASSUME Invariant, [Next]_vars PROVE Invariant' OBVIOUS
<1>1. ASSUME TypeOK', UNCHANGED loans PROVE Invariant' BY <1>1 DEF Invariant
<1>2. TypeOK BY DEF Invariant
<1>3. CASE StorageStep BY <1>1, <1>2, <1>3, StorageType
<1>4. CASE ScalarStep BY <1>1, <1>2, <1>4, ScalarType
<1>5. CASE PayloadStep BY <1>5, PayloadStepInv
<1>6. CASE PermissionStep BY <1>1, <1>2, <1>6, PermissionType
<1>7. CASE LoanStep BY <1>7, LoanStepInv
<1>8. CASE BlockStep BY <1>1, <1>2, <1>8, BlockType
<1>9. CASE Return BY <1>1, <1>2, <1>9, ReturnType
<1>10. CASE UNCHANGED vars BY <1>1, <1>2, <1>10 DEF vars, TypeOK
<1> QED BY <1>3, <1>4, <1>5, <1>6, <1>7, <1>8, <1>9, <1>10 DEF Next

-----------------------------------------------------------------------------
(* Theorems. *)

\* The inductive invariant holds along every execution of a frame.
THEOREM InvariantHolds == Spec => []Invariant
BY InitInv, NextInv, PTL DEF Spec

\* Every instruction keeps the loan table, the frame and the memory well-typed.
THEOREM TypeCorrect == Spec => []TypeOK
<1>1. Invariant => TypeOK BY DEF Invariant
<1> QED BY <1>1, InvariantHolds, PTL

\* Whatever instructions run, and in whatever order, the loan table stays a forest
\* of nested loans (begin, reborrow, alias, end and end_stored of loan_shadow.rs).
THEOREM LoanForestHolds == Spec => []LoanForest
<1>1. Invariant => LoanForest BY DEF Invariant, TableInv, LoanForest
<1> QED BY <1>1, InvariantHolds, PTL

\* No byte is ever lent exclusively and otherwise by unrelated loans.
THEOREM LoansExclusiveHolds == Spec => []LoansExclusive
<1>1. Invariant => LoansExclusive BY DEF Invariant, TableInv, LoansExclusive
<1> QED BY <1>1, InvariantHolds, PTL

\* The access check of check_access, which looks at one loan only, is enough to
\* keep every reader and writer out of everybody else's loans.
THEOREM AccessIsolatedHolds == Spec => []AccessIsolated
<1>1. Invariant => AccessIsolated
  <2> SUFFICES ASSUME Invariant, NEW p \in frame, NEW b \in Byte, NEW access \in Access,
                      LoanAccess(p, At(b), access), NEW l \in LiveLoans(loans),
                      loans[l].allocation = p.allocation, b \in BytesOf(loans[l].range)
               PROVE  \/ access = "Read" /\ loans[l].kind = "Shared"
                      \/ p.loan # NoLoan /\ l \in Chain(loans, p.loan)
    BY DEF AccessIsolated
  <2>1. CheckAccess(loans, p, At(b), access) BY DEF LoanAccess
  <2>2. loans \in Table /\ TableInv(loans) BY DEF Invariant, TypeOK, Table
  <2>3. At(b) \in Range BY Ranges
  <2>r. loans[l].range.start \in Int /\ loans[l].range.end \in Int
    <3>1. loans[l].range \in Range BY <2>2 DEF Table, Loan, LiveLoans
    <3> QED BY <3>1 DEF Range, Offsets
  <2>4. Overlap(At(b), loans[l].range)
    BY <2>r, LoanTableAssumption DEF Overlap, At, BytesOf, Byte
  <2>5. NoLoan \notin LoanIds BY LoanTableAssumption
  <2> QED BY <2>1, <2>2, <2>3, <2>4, <2>5, AccessIsolation
<1> QED BY <1>1, InvariantHolds, PTL

-----------------------------------------------------------------------------
(* What is held. *)

\* Two permissions held at the same time: no token twice, no byte owned twice.
Separate(p, q) ==
    /\ p.loan # NoLoan \/ q.loan # NoLoan => p.token # q.token
    /\ p.loan = NoLoan /\ q.loan = NoLoan /\ p.allocation = q.allocation
       => BytesOf(p.range) \cap BytesOf(q.range) = {}

\* A permission that is held: backed by the loan table unless it is an owner's,
\* of storage that was created, and with the right to free heap storage only.
Sound(p) ==
    /\ IF p.loan = NoLoan THEN p.token = NoToken ELSE Backed(p)
    /\ storage[p.allocation] # "Unused"
    /\ p.free => storage[p.allocation] # "Local"

\* What is stored at place x is what the place is for.
Slotted(x) ==
    IF SlotKind[x[1]][x[2]] = "Own"
    THEN /\ Stored(x).loan = NoLoan /\ Stored(x).range = Whole /\ Stored(x).free
         /\ storage[Stored(x).allocation] = "Heap"
    ELSE Stored(x).loan # NoLoan

AuthoritiesBelow == \A l \in LoanIds : \A t \in loans[l].authorities : t < nextAuthority

FramePart == \A p \in frame : Sound(p) /\ \A q \in frame : p # q => Separate(p, q)

StoredPart ==
    \A x \in StoredPermissions :
        /\ Sound(Stored(x)) /\ Slotted(x)
        /\ \A y \in StoredPermissions : x # y => Separate(Stored(x), Stored(y))

CrossPart == \A p \in frame, x \in StoredPermissions : Separate(p, Stored(x))

Holdings == AuthoritiesBelow /\ FramePart /\ StoredPart /\ CrossPart

\* What storage the loans and the stored owners are over.
Lending == StoredOwnerNotLent /\ LentStorageAlive

MemInv == Invariant /\ Holdings /\ Lending /\ PayloadMatchesBytes /\ NothingDangles

-----------------------------------------------------------------------------
(* Ranges, places and pairs of permissions. *)

\* The bounds of a range are integers.
LEMMA RangeBounds ==
    ASSUME NEW r \in Range
    PROVE  r.start \in Int /\ r.end \in Int /\ 0 <= r.start /\ r.end <= Size /\ Size \in Int
BY LoanTableAssumption DEF Range, Offsets

\* A range inside another one has no other bytes.
LEMMA ContainedBytes ==
    ASSUME NEW r \in Range, NEW s \in Range, Contains(s, r)
    PROVE  BytesOf(r) \subseteq BytesOf(s)
BY RangeBounds DEF Contains, BytesOf

\* Ranges without a common byte do not overlap unless one of them is empty; a
\* byte in both makes them overlap.
LEMMA CommonByte ==
    ASSUME NEW r \in Range, NEW s \in Range, NEW b \in BytesOf(r), b \in BytesOf(s)
    PROVE  Overlap(r, s)
BY RangeBounds DEF Overlap, BytesOf

\* An allocation has bytes, and all of them are in the complete range.
LEMMA WholeBytes ==
    /\ BytesOf(Whole) = Byte
    /\ Byte # {}
    /\ \A r : BytesOf(r) \subseteq Byte
<1>1. Size \in Nat /\ Size > 0 BY LoanTableAssumption, InterpreterAssumption
<1>2. 0 \in Byte BY <1>1 DEF Byte
<1>3. Whole.start = 0 /\ Whole.end = Size BY DEF Whole
<1>4. BytesOf(Whole) = Byte BY <1>1, <1>3 DEF BytesOf, Byte
<1>5. \A r : BytesOf(r) \subseteq Byte BY DEF BytesOf, Byte
<1> QED BY <1>2, <1>4, <1>5

\* Separation does not depend on the order.
LEMMA SeparateSym ==
    ASSUME NEW p, NEW q, Separate(p, q)
    PROVE  Separate(q, p)
BY DEF Separate

\* Places are pairs.
LEMMA PlacePairs ==
    /\ \A a \in Allocations, b \in Byte :
          <<a, b>> \in Places /\ <<a, b>>[1] = a /\ <<a, b>>[2] = b
    /\ \A x \in Places : x[1] \in Allocations /\ x[2] \in Byte /\ x = <<x[1], x[2]>>
BY DEF Places

\* A permission that carries a loan names a live loan.
LEMMA BackedLive ==
    ASSUME Invariant, NEW p \in Permission, p.loan # NoLoan, Backed(p)
    PROVE  p.loan \in LoanIds /\ p.loan \in LiveLoans(loans)
<1>1. p.loan \in LoanIds BY PermissionFields
<1> QED BY <1>1 DEF Backed, Invariant, TableInv, Held, LiveLoans

\* What is held is a permission.
LEMMA HeldTypes ==
    ASSUME Invariant
    PROVE  /\ \A p \in frame : p \in Permission
           /\ \A x \in StoredPermissions : x \in Places /\ Stored(x) \in Permission
<1>1. TypeOK BY DEF Invariant
<1>2. \A x \in Places : Stored(x) \in Permission \cup {NoPayload}
  BY <1>1, PlacePairs DEF TypeOK, Stored
<1> QED BY <1>1, <1>2 DEF TypeOK, StoredPermissions

\* The token of a loan authority is a number below the next one; an owner has none.
LEMMA Tokens ==
    ASSUME Invariant, AuthoritiesBelow, NEW p \in Permission, Sound(p)
    PROVE  IF p.loan = NoLoan THEN p.token = -1 ELSE p.token \in Nat /\ p.token < nextAuthority
<1>1. CASE p.loan = NoLoan BY <1>1 DEF Sound, NoToken
<1>2. CASE p.loan # NoLoan
  <2>1. p.loan \in LoanIds BY <1>2, PermissionFields
  <2>2. p.token \in loans[p.loan].authorities BY <1>2 DEF Sound, Backed
  <2>3. loans[p.loan].authorities \subseteq Nat BY <2>1 DEF Invariant, TypeOK, Loan
  <2> QED BY <1>2, <2>1, <2>2, <2>3 DEF AuthoritiesBelow
<1> QED BY <1>1, <1>2

\* Soundness is about the loan table and the storage only.
LEMMA SoundSame ==
    ASSUME UNCHANGED <<loans, storage>>
    PROVE  \A p : Sound(p)' <=> Sound(p)
BY DEF Sound, Backed

\* Before the return nothing is claimed about dangling pointers.
LEMMA NotReturned ==
    ASSUME ~returned, UNCHANGED returned
    PROVE  NothingDangles'
BY DEF NothingDangles

-----------------------------------------------------------------------------
(* Instructions that change the frame only. *)

\* Permissions of the frame are replaced by others that exclude all that the
\* replaced ones excluded.
LEMMA ReplaceFrame ==
    ASSUME MemInv, Invariant', ~returned, NEW old \in SUBSET frame, NEW new,
           frame' = (frame \ old) \cup new, UNCHANGED <<loanVars, memVars, returned>>,
           \A n \in new : Sound(n),
           \A n, m \in new : n # m => Separate(n, m),
           \A n \in new : \A q : (\A o \in old : Separate(o, q)) => Separate(n, q)
    PROVE  MemInv'
<1>1. Holdings /\ Lending /\ PayloadMatchesBytes BY DEF MemInv
<1>2. UNCHANGED <<loans, nextAuthority, storage, bytes, payload, returned>> BY DEF loanVars, memVars
<1>3. \A p : Sound(p)' <=> Sound(p) BY <1>2, SoundSame
<1>4. AuthoritiesBelow' BY <1>1, <1>2 DEF Holdings, AuthoritiesBelow
<1>5. StoredPart' BY <1>1, <1>2, <1>3 DEF Holdings, StoredPart, Slotted, Stored, StoredPermissions
<1>6. \A n \in new, q \in frame \ old : Separate(n, q) /\ Separate(q, n)
  <2> SUFFICES ASSUME NEW n \in new, NEW q \in frame \ old PROVE Separate(n, q) /\ Separate(q, n)
    OBVIOUS
  <2>1. \A o \in old : Separate(o, q) BY <1>1 DEF Holdings, FramePart
  <2>2. Separate(n, q) BY <2>1
  <2> QED BY <2>2, SeparateSym
<1>7. FramePart'
  <2> SUFFICES ASSUME NEW p \in frame' PROVE Sound(p)' /\ \A q \in frame' : p # q => Separate(p, q)
    BY DEF FramePart, Separate, BytesOf
  <2>1. Sound(p) BY <1>1 DEF Holdings, FramePart
  <2> QED BY <2>1, <1>1, <1>3, <1>6 DEF Holdings, FramePart
<1>8. CrossPart'
  <2> SUFFICES ASSUME NEW p \in frame', NEW x \in StoredPermissions PROVE Separate(p, Stored(x))
    BY <1>2 DEF CrossPart, Separate, BytesOf, StoredPermissions, Stored
  <2>1. \A o \in frame : Separate(o, Stored(x)) BY <1>1 DEF Holdings, CrossPart
  <2> QED BY <2>1
<1>9. Lending' BY <1>1, <1>2 DEF Lending, StoredOwnerNotLent, LentStorageAlive, Alive, Stored,
                                 StoredPermissions
<1>10. PayloadMatchesBytes' BY <1>1, <1>2 DEF PayloadMatchesBytes, Stored, Initialized
<1> QED BY <1>2, <1>4, <1>5, <1>7, <1>8, <1>9, <1>10, NotReturned DEF MemInv, Holdings

\* Only owners are split and joined: while no loan is live nobody carries one.
LEMMA TransformableOwner ==
    ASSUME MemInv, NEW p \in frame, Transformable(p)
    PROVE  p.loan = NoLoan
<1>1. p \in Permission BY HeldTypes DEF MemInv
<1>2. p.loan # NoLoan => Backed(p) BY DEF MemInv, Holdings, FramePart, Sound
<1> QED BY <1>1, <1>2, BackedLive DEF MemInv, Transformable

\* Splitting, joining and narrowing permissions neither duplicates an authority
\* nor a byte (permission_split, permission_join, slice_range).
LEMMA PermissionStepMem == MemInv /\ Invariant' /\ ~returned /\ PermissionStep => MemInv'
<1> SUFFICES ASSUME MemInv, Invariant', ~returned, PermissionStep PROVE MemInv' OBVIOUS
<1>1. \A p \in frame : p \in Permission /\ p.range \in Range /\ Sound(p)
  BY HeldTypes, PermissionFields DEF MemInv, Holdings, FramePart
<1>2. ASSUME NEW p \in frame, NEW at \in Offsets, PermissionSplit(p, at) PROVE MemInv'
  <2> DEFINE n == [p EXCEPT !.range.end = at]
             m == [p EXCEPT !.range.start = at]
  <2>1. p.loan = NoLoan BY <1>2, TransformableOwner DEF PermissionSplit
  <2>2. /\ n.loan = p.loan /\ n.token = p.token /\ n.allocation = p.allocation /\ n.free = p.free
        /\ m.loan = p.loan /\ m.token = p.token /\ m.allocation = p.allocation /\ m.free = p.free
        /\ n.range = [p.range EXCEPT !.end = at] /\ m.range = [p.range EXCEPT !.start = at]
    BY <1>1 DEF Permission
  <2>3. /\ n.range.start = p.range.start /\ n.range.end = at
        /\ m.range.start = at /\ m.range.end = p.range.end
    BY <1>1, <2>2 DEF Range
  <2>4. /\ frame' = (frame \ {p}) \cup {n, m} /\ UNCHANGED <<loanVars, memVars, returned>>
        /\ p.range.start <= at /\ at <= p.range.end
    BY <1>2 DEF PermissionSplit
  <2> HIDE DEF n, m
  <2>5. Sound(n) /\ Sound(m) BY <1>1, <2>1, <2>2 DEF Sound
  <2>6. at \in Int /\ p.range.start \in Int /\ p.range.end \in Int
    BY <1>1, RangeBounds, LoanTableAssumption DEF Offsets
  <2>7. /\ BytesOf(n.range) \subseteq BytesOf(p.range) /\ BytesOf(m.range) \subseteq BytesOf(p.range)
        /\ BytesOf(n.range) \cap BytesOf(m.range) = {}
    BY <2>3, <2>4, <2>6, LoanTableAssumption DEF BytesOf
  <2>8. Separate(n, m) /\ Separate(m, n) BY <2>1, <2>2, <2>7 DEF Separate
  <2>9. \A q : Separate(p, q) => Separate(n, q) /\ Separate(m, q)
    BY <2>1, <2>2, <2>7 DEF Separate
  <2> DEFINE old == {p}
             new == {n, m}
  <2>10. old \in SUBSET frame /\ \A k \in new : \A q : (\A o \in old : Separate(o, q)) => Separate(k, q)
    BY <2>9
  <2>11. (\A k \in new : Sound(k)) /\ \A k, j \in new : k # j => Separate(k, j) BY <2>5, <2>8
  <2>12. frame' = (frame \ old) \cup new BY <2>4
  <2> HIDE DEF old, new
  <2> QED BY <2>4, <2>10, <2>11, <2>12, ReplaceFrame
<1>3. ASSUME NEW p \in frame, NEW q \in frame, PermissionJoin(p, q) PROVE MemInv'
  <2> DEFINE n == [p EXCEPT !.range.end = q.range.end]
  <2>1. p.loan = NoLoan /\ q.loan = NoLoan BY <1>3, TransformableOwner DEF PermissionJoin
  <2>2. /\ n.loan = p.loan /\ n.token = p.token /\ n.allocation = p.allocation /\ n.free = p.free
        /\ n.range = [p.range EXCEPT !.end = q.range.end]
    BY <1>1 DEF Permission
  <2>3. n.range.start = p.range.start /\ n.range.end = q.range.end
    BY <1>1, <2>2 DEF Range
  <2>4. /\ frame' = (frame \ {p, q}) \cup {n} /\ UNCHANGED <<loanVars, memVars, returned>>
        /\ p.allocation = q.allocation /\ p.range.end = q.range.start
    BY <1>3 DEF PermissionJoin
  <2> HIDE DEF n
  <2>5. Sound(n) BY <1>1, <2>1, <2>2 DEF Sound
  <2>6. p.range.start \in Int /\ p.range.end \in Int /\ q.range.start \in Int /\ q.range.end \in Int
    BY <1>1, RangeBounds
  <2>7. BytesOf(n.range) \subseteq BytesOf(p.range) \cup BytesOf(q.range)
    BY <2>3, <2>4, <2>6, LoanTableAssumption DEF BytesOf
  <2>t. n.token = NoToken /\ q.token = NoToken BY <1>1, <2>1, <2>2 DEF Sound
  <2>9. \A z : Separate(p, z) /\ Separate(q, z) => Separate(n, z)
    BY <2>1, <2>2, <2>4, <2>7, <2>t DEF Separate
  <2> DEFINE old == {p, q}
             new == {n}
  <2>10. old \in SUBSET frame /\ \A k \in new : \A z : (\A o \in old : Separate(o, z)) => Separate(k, z)
    BY <2>9
  <2>11. (\A k \in new : Sound(k)) /\ \A k, j \in new : k # j => Separate(k, j) BY <2>5
  <2>12. frame' = (frame \ old) \cup new BY <2>4
  <2> HIDE DEF old, new
  <2> QED BY <2>4, <2>10, <2>11, <2>12, ReplaceFrame
<1>4. ASSUME NEW p \in frame, NEW r \in Range, SliceRange(p, r) PROVE MemInv'
  <2> DEFINE n == [p EXCEPT !.range = r, !.free = FALSE]
  <2>1. /\ n.loan = p.loan /\ n.token = p.token /\ n.allocation = p.allocation /\ n.free = FALSE
        /\ n.range = r
    BY <1>1 DEF Permission
  <2>2. /\ frame' = (frame \ {p}) \cup {n} /\ UNCHANGED <<loanVars, memVars, returned>>
        /\ Contains(p.range, r)
    BY <1>4 DEF SliceRange
  <2> HIDE DEF n
  <2>3. p.loan # NoLoan => Contains(loans[p.loan].range, r)
    <3>1. SUFFICES ASSUME p.loan # NoLoan PROVE Contains(loans[p.loan].range, r) OBVIOUS
    <3>2. p.loan \in LoanIds BY <1>1, <3>1, PermissionFields
    <3>3. loans[p.loan].range \in Range BY <3>2 DEF MemInv, Invariant, TypeOK, Loan
    <3>4. Contains(loans[p.loan].range, p.range) BY <1>1, <3>1 DEF Sound, Backed
    <3> QED BY <1>1, <2>2, <3>3, <3>4, RangeBounds DEF Contains
  <2>4. Sound(n) BY <1>1, <2>1, <2>3 DEF Sound, Backed
  <2>5. BytesOf(r) \subseteq BytesOf(p.range) BY <1>1, <2>2, ContainedBytes
  <2>6. \A z : Separate(p, z) => Separate(n, z) BY <2>1, <2>5 DEF Separate
  <2> DEFINE old == {p}
             new == {n}
  <2>10. old \in SUBSET frame /\ \A k \in new : \A z : (\A o \in old : Separate(o, z)) => Separate(k, z)
    BY <2>6
  <2>11. (\A k \in new : Sound(k)) /\ \A k, j \in new : k # j => Separate(k, j) BY <2>4
  <2>12. frame' = (frame \ old) \cup new BY <2>2
  <2> HIDE DEF old, new
  <2> QED BY <2>2, <2>10, <2>11, <2>12, ReplaceFrame
<1> QED BY <1>2, <1>3, <1>4 DEF PermissionStep

\* A jump only forgets permissions (finish_edge).
LEMMA BlockStepMem == MemInv /\ Invariant' /\ ~returned /\ BlockStep => MemInv'
<1> SUFFICES ASSUME MemInv, Invariant', ~returned, NEW passed \in SUBSET frame, EnterBlock(passed)
             PROVE  MemInv'
  BY DEF BlockStep
<1> DEFINE old == frame \ passed
           new == {}
<1>1. frame' = (frame \ old) \cup new /\ UNCHANGED <<loanVars, memVars, returned>>
  BY DEF EnterBlock
<1>2. old \in SUBSET frame /\ new = {} OBVIOUS
<1> HIDE DEF old, new
<1> QED BY <1>1, <1>2, ReplaceFrame

-----------------------------------------------------------------------------
(* Storage. *)

\* New storage is nobody's yet: its owner is separate from all that is held.
LEMMA CreateStorage ==
    ASSUME MemInv, Invariant', ~returned, NEW a \in Allocations, storage[a] = "Unused",
           NEW kind \in {"Heap", "Local"}, NEW f \in BOOLEAN, kind = "Local" => ~f,
           storage' = [storage EXCEPT ![a] = kind],
           frame' = frame \cup {Owner(a, Whole, f)},
           UNCHANGED <<loanVars, bytes, payload, returned>>
    PROVE  MemInv'
<1> DEFINE n == Owner(a, Whole, f)
<1>1. Invariant /\ Holdings /\ Lending /\ PayloadMatchesBytes BY DEF MemInv
<1>2. UNCHANGED <<loans, nextAuthority, bytes, payload, returned>> BY DEF loanVars
<1>3. \A c \in Allocations : storage'[c] = IF c = a THEN kind ELSE storage[c]
  BY <1>1 DEF Invariant, TypeOK
<1>4. /\ n.loan = NoLoan /\ n.token = NoToken /\ n.allocation = a /\ n.range = Whole /\ n.free = f
  BY DEF Owner
<1> HIDE DEF n
<1>5. ASSUME NEW p \in Permission, Sound(p)
      PROVE  /\ Sound(p)' /\ p.allocation # a /\ storage'[p.allocation] = storage[p.allocation]
             /\ Separate(n, p) /\ Separate(p, n)
  <2>1. p.allocation \in Allocations /\ p.allocation # a BY <1>5, PermissionFields DEF Sound
  <2>2. storage'[p.allocation] = storage[p.allocation] BY <1>3, <2>1
  <2>3. Sound(p)' BY <1>2, <1>5, <2>2 DEF Sound, Backed
  <2>4. p.loan # NoLoan => p.token # NoToken
    BY <1>1, <1>5, Tokens DEF Holdings, NoToken
  <2> QED BY <1>4, <2>1, <2>2, <2>3, <2>4 DEF Separate
<1>6. Sound(n)' BY <1>3, <1>4 DEF Sound
<1>7. AuthoritiesBelow' BY <1>1, <1>2 DEF Holdings, AuthoritiesBelow
<1>8. \A p \in frame : p \in Permission /\ Sound(p) BY <1>1, HeldTypes DEF Holdings, FramePart
<1>9. FramePart'
  <2> SUFFICES ASSUME NEW p \in frame' PROVE Sound(p)' /\ \A q \in frame' : p # q => Separate(p, q)
    BY DEF FramePart, Separate, BytesOf
  <2>1. frame' = frame \cup {n} BY DEF n
  <2> QED BY <2>1, <1>1, <1>5, <1>6, <1>8 DEF Holdings, FramePart
<1>10. \A x \in StoredPermissions : Stored(x) \in Permission /\ Sound(Stored(x))
  BY <1>1, HeldTypes DEF Holdings, StoredPart
<1>11. StoredPart'
  <2> SUFFICES ASSUME NEW x \in StoredPermissions
               PROVE  /\ Sound(Stored(x))' /\ Slotted(x)'
                      /\ \A y \in StoredPermissions : x # y => Separate(Stored(x), Stored(y))
    <3>1. StoredPermissions' = StoredPermissions /\ \A x : Stored(x)' = Stored(x)
      BY <1>2 DEF StoredPermissions, Stored
    <3>2. \A x, y : Separate(Stored(x), Stored(y))' <=> Separate(Stored(x), Stored(y))
      BY <3>1 DEF Separate, BytesOf
    <3> QED BY <3>1, <3>2 DEF StoredPart
  <2>1. Stored(x)' = Stored(x) BY <1>2 DEF Stored
  <2>2. Sound(Stored(x))'
    <3> DEFINE w == Stored(x)
    <3>1. w \in Permission /\ Sound(w) BY <1>10
    <3> QED BY <1>2, <1>5, <2>1, <1>10 DEF Sound, Backed
  <2>3. Slotted(x)'
    BY <2>1, <1>1, <1>5, <1>10 DEF Slotted, Holdings, StoredPart
  <2> QED BY <2>2, <2>3, <1>1 DEF Holdings, StoredPart
<1>12. CrossPart'
  <2> SUFFICES ASSUME NEW p \in frame', NEW x \in StoredPermissions PROVE Separate(p, Stored(x))
    BY <1>2 DEF CrossPart, Separate, BytesOf, StoredPermissions, Stored
  <2>1. frame' = frame \cup {n} BY DEF n
  <2> QED BY <2>1, <1>1, <1>5, <1>10 DEF Holdings, CrossPart
<1>13. Lending'
  <2>1. \A c \in Allocations : Alive(c) => Alive(c)' BY <1>3 DEF Alive
  <2>2. \A l \in LoanIds : loans[l].allocation \in Allocations BY <1>1 DEF Invariant, TypeOK, Loan
  <2>3. LentStorageAlive' BY <1>1, <1>2, <2>1, <2>2 DEF Lending, LentStorageAlive, LiveLoans
  <2>4. StoredOwnerNotLent' BY <1>1, <1>2 DEF Lending, StoredOwnerNotLent, Stored, StoredPermissions
  <2> QED BY <2>3, <2>4 DEF Lending
<1>14. PayloadMatchesBytes' BY <1>1, <1>2 DEF PayloadMatchesBytes, Stored, Initialized
<1> QED BY <1>2, <1>7, <1>9, <1>11, <1>12, <1>13, <1>14, NotReturned DEF MemInv, Holdings

\* Releasing storage that is complete, owned by nobody else and not lent.
LEMMA ReleaseStorage ==
    ASSUME Invariant, Holdings, Lending, NEW v \in Permission, v.loan = NoLoan, v.range = Whole,
           storage' = [storage EXCEPT ![v.allocation] = "Dead"], UNCHANGED loans,
           \A l \in LiveLoans(loans) :
              loans[l].allocation = v.allocation => BytesOf(loans[l].range) = {}
    PROVE  /\ \A p \in Permission : Sound(p) => Sound(p)'
           /\ \A p \in Permission : p.loan = NoLoan /\ p.range = Whole /\ Separate(v, p)
                 => storage'[p.allocation] = storage[p.allocation]
           /\ LentStorageAlive'
<1> DEFINE a == v.allocation
<1>0. a \in Allocations BY PermissionFields
<1>1. \A c \in Allocations : storage'[c] = IF c = a THEN "Dead" ELSE storage[c]
  BY <1>0 DEF Invariant, TypeOK
<1>2. ASSUME NEW p \in Permission, Sound(p) PROVE Sound(p)'
  <2>1. p.allocation \in Allocations BY PermissionFields
  <2> QED BY <1>1, <1>2, <2>1 DEF Sound, Backed
<1>3. ASSUME NEW p \in Permission, p.loan = NoLoan, p.range = Whole, Separate(v, p)
      PROVE  storage'[p.allocation] = storage[p.allocation]
  <2>1. p.allocation # a BY <1>3, WholeBytes DEF Separate
  <2> QED BY <1>1, <2>1, PermissionFields
<1>4. LentStorageAlive'
  <2> SUFFICES ASSUME NEW l \in LiveLoans(loans), BytesOf(loans[l].range) # {}
               PROVE  Alive(loans[l].allocation)'
    BY DEF LentStorageAlive, BytesOf, Alive
  <2>1. loans[l].allocation \in Allocations /\ loans[l].allocation # a
    BY DEF LiveLoans, Invariant, TypeOK, Loan
  <2>2. Alive(loans[l].allocation) BY DEF Lending, LentStorageAlive
  <2> QED BY <1>1, <2>1, <2>2 DEF Alive
<1> QED BY <1>2, <1>3, <1>4

\* Moving or freeing needs a complete range that nobody borrows.
LEMMA OwnerNotLent ==
    ASSUME Invariant, NEW p \in Permission, p.loan = NoLoan, p.range = Whole,
           NEW access \in {"Move", "Free"}, LoanAccess(p, p.range, access)
    PROVE  \A l \in LiveLoans(loans) :
              loans[l].allocation = p.allocation => BytesOf(loans[l].range) = {}
<1> SUFFICES ASSUME NEW l \in LiveLoans(loans), loans[l].allocation = p.allocation,
                    NEW b \in BytesOf(loans[l].range)
             PROVE  FALSE
  OBVIOUS
<1>1. l \in LoanIds /\ Live(loans, l) /\ loans[l].range \in Range
  BY DEF LiveLoans, Invariant, TypeOK, Loan
<1>2. OwnerAccess(loans, p, Whole, access)
  BY LoanTableAssumption DEF LoanAccess, CheckAccess
<1>3. Overlap(Whole, loans[l].range)
  BY <1>1, WholeBytes, Ranges, CommonByte
<1> QED BY <1>1, <1>2, <1>3 DEF OwnerAccess

\* Allocating, entering local storage and freeing (allocate, local_storage, free).
LEMMA StorageStepMem == MemInv /\ Invariant' /\ ~returned /\ StorageStep => MemInv'
<1> SUFFICES ASSUME MemInv, Invariant', ~returned, StorageStep PROVE MemInv' OBVIOUS
<1>1. ASSUME NEW a \in Allocations, Allocate(a) PROVE MemInv'
  BY <1>1, CreateStorage DEF Allocate, NextAllocation
<1>2. ASSUME NEW a \in Allocations, LocalStorage(a) PROVE MemInv'
  BY <1>2, CreateStorage DEF LocalStorage, NextAllocation
<1>3. ASSUME NEW p \in frame, Free(p) PROVE MemInv'
  <2>1. Invariant /\ Holdings /\ Lending /\ PayloadMatchesBytes BY DEF MemInv
  <2>2. /\ LoanAccess(p, p.range, "Free") /\ p.range = Whole /\ p.free
        /\ storage' = [storage EXCEPT ![p.allocation] = "Dead"]
        /\ frame' = frame \ {p}
        /\ UNCHANGED <<loans, nextAuthority, bytes, payload, returned>>
    BY <1>3 DEF Free, Freeable, loanVars
  <2>3. p \in Permission /\ Sound(p) BY <2>1, HeldTypes DEF Holdings, FramePart
  <2>4. p.loan = NoLoan BY <2>2, <2>3 DEF Sound, Backed
  <2>5. \A l \in LiveLoans(loans) :
           loans[l].allocation = p.allocation => BytesOf(loans[l].range) = {}
    BY <2>1, <2>2, <2>3, <2>4, OwnerNotLent
  <2>6. /\ \A q \in Permission : Sound(q) => Sound(q)'
        /\ \A q \in Permission : q.loan = NoLoan /\ q.range = Whole /\ Separate(p, q)
              => storage'[q.allocation] = storage[q.allocation]
        /\ LentStorageAlive'
    BY <2>1, <2>2, <2>3, <2>4, <2>5, ReleaseStorage
  <2>7. AuthoritiesBelow' BY <2>1, <2>2 DEF Holdings, AuthoritiesBelow
  <2>8. FramePart'
    <3> SUFFICES ASSUME NEW q \in frame' PROVE Sound(q)' /\ \A z \in frame' : q # z => Separate(q, z)
      BY DEF FramePart, Separate, BytesOf
    <3>1. q \in Permission /\ Sound(q) BY <2>1, <2>2, HeldTypes DEF Holdings, FramePart
    <3> QED BY <3>1, <2>1, <2>2, <2>6 DEF Holdings, FramePart
  <2>9. StoredPart'
    <3> SUFFICES ASSUME NEW x \in StoredPermissions
                 PROVE  /\ Sound(Stored(x))' /\ Slotted(x)'
                        /\ \A y \in StoredPermissions : x # y => Separate(Stored(x), Stored(y))
      BY <2>2 DEF StoredPart, Separate, BytesOf, StoredPermissions, Stored
    <3>1. Stored(x)' = Stored(x) BY <2>2 DEF Stored
    <3>2. Stored(x) \in Permission /\ Sound(Stored(x)) /\ Slotted(x) /\ Separate(p, Stored(x))
      BY <2>1, HeldTypes DEF Holdings, StoredPart, CrossPart
    <3>3. Sound(Stored(x))' BY <2>6, <3>1, <3>2 DEF Sound, Backed
    <3>4. Slotted(x)' BY <2>6, <3>1, <3>2 DEF Slotted
    <3> QED BY <3>3, <3>4, <2>1 DEF Holdings, StoredPart
  <2>10. CrossPart'
    BY <2>1, <2>2 DEF Holdings, CrossPart, Separate, BytesOf, StoredPermissions, Stored
  <2>11. StoredOwnerNotLent' BY <2>1, <2>2 DEF Lending, StoredOwnerNotLent, Stored, StoredPermissions
  <2>12. PayloadMatchesBytes' BY <2>1, <2>2 DEF PayloadMatchesBytes, Stored, Initialized
  <2> QED BY <2>2, <2>6, <2>7, <2>8, <2>9, <2>10, <2>11, <2>12, NotReturned
          DEF MemInv, Holdings, Lending
<1> QED BY <1>1, <1>2, <1>3 DEF StorageStep

-----------------------------------------------------------------------------
(* Bytes. *)

\* An instruction that only changes bytes has to keep the places for pointers.
LEMMA ByteStep ==
    ASSUME MemInv, Invariant', ~returned, UNCHANGED <<loanVars, frame, storage, payload, returned>>,
           \A x \in Places : SlotKind[x[1]][x[2]] # "Scalar"
                                => (Initialized(x[1], x[2])' <=> Initialized(x[1], x[2]))
    PROVE  MemInv'
<1>1. Holdings /\ Lending /\ PayloadMatchesBytes BY DEF MemInv
<1>2. UNCHANGED <<loans, nextAuthority, frame, storage, payload, returned>> BY DEF loanVars
<1>3. \A p : Sound(p)' <=> Sound(p) BY <1>2, SoundSame
<1>4. AuthoritiesBelow' BY <1>1, <1>2 DEF Holdings, AuthoritiesBelow
<1>5. StoredPart' BY <1>1, <1>2, <1>3 DEF Holdings, StoredPart, Slotted, Stored, StoredPermissions
<1>6. FramePart' BY <1>1, <1>2, <1>3 DEF Holdings, FramePart
<1>7. CrossPart' BY <1>1, <1>2 DEF Holdings, CrossPart, Stored, StoredPermissions
<1>8. Lending' BY <1>1, <1>2 DEF Lending, StoredOwnerNotLent, LentStorageAlive, Alive, Stored,
                                 StoredPermissions
<1>9. PayloadMatchesBytes' BY <1>1, <1>2 DEF PayloadMatchesBytes, Stored
<1> QED BY <1>2, <1>4, <1>5, <1>6, <1>7, <1>8, <1>9, NotReturned DEF MemInv, Holdings

\* Resetting a range uninitializes its bytes and no other.
LEMMA ResetBytes ==
    ASSUME Invariant, NEW a \in Allocations, NEW r,
           bytes' = [bytes EXCEPT ![a] = [b \in Byte |-> IF b \in BytesOf(r) THEN Uninit ELSE @[b]]]
    PROVE  \A x \in Places :
              bytes'[x[1]][x[2]] = IF x[1] = a /\ x[2] \in BytesOf(r) THEN Uninit
                                                                     ELSE bytes[x[1]][x[2]]
BY PlacePairs DEF Invariant, TypeOK

\* Writing and resetting plain data leaves owners and references alone.
LEMMA ScalarStepMem == MemInv /\ Invariant' /\ ~returned /\ ScalarStep => MemInv'
<1> SUFFICES ASSUME MemInv, Invariant', ~returned, ScalarStep PROVE MemInv' OBVIOUS
<1>0. Invariant /\ TypeOK /\ \A p \in frame : p.allocation \in Allocations
  BY HeldTypes, PermissionFields DEF MemInv, Invariant
<1>1. ASSUME NEW p \in frame, NEW b \in Byte, NEW v \in Values, NEW m, WriteScalar(p, b, v, m)
      PROVE  MemInv'
  <2>1. \A x \in Places : bytes'[x[1]][x[2]] = IF x = <<p.allocation, b>> THEN v ELSE bytes[x[1]][x[2]]
    BY <1>0, <1>1, PlacePairs DEF WriteScalar, TypeOK
  <2>2. \A x \in Places : SlotKind[x[1]][x[2]] # "Scalar" => x # <<p.allocation, b>>
    BY <1>1, PlacePairs DEF WriteScalar
  <2>3. \A x \in Places : SlotKind[x[1]][x[2]] # "Scalar"
                                => (Initialized(x[1], x[2])' <=> Initialized(x[1], x[2]))
    BY <2>1, <2>2 DEF Initialized
  <2> QED BY <1>1, <2>3, ByteStep DEF WriteScalar
<1>2. ASSUME NEW p \in frame, NEW r \in Range, NEW c \in BOOLEAN, Deinitialize(p, r, c)
      PROVE  MemInv'
  <2>1. \A x \in Places :
           bytes'[x[1]][x[2]] = IF x[1] = p.allocation /\ x[2] \in BytesOf(r) THEN Uninit
                                                                           ELSE bytes[x[1]][x[2]]
    BY <1>0, <1>2, ResetBytes DEF Deinitialize
  <2>2. \A b \in BytesOf(r) : SlotKind[p.allocation][b] = "Scalar" BY <1>2 DEF Deinitialize
  <2>3. \A x \in Places : SlotKind[x[1]][x[2]] # "Scalar"
                                => (Initialized(x[1], x[2])' <=> Initialized(x[1], x[2]))
    BY <2>1, <2>2 DEF Initialized
  <2> QED BY <1>2, <2>3, ByteStep DEF Deinitialize
<1> QED BY <1>1, <1>2 DEF ScalarStep

-----------------------------------------------------------------------------
(* Owners and references in memory. *)

\* The state of a place for pointers.
LEMMA PlaceState ==
    ASSUME MemInv, NEW a \in Allocations, NEW b \in Byte
    PROVE  /\ Stored(<<a, b>>) = payload[a][b]
           /\ SlotKind[a][b] = "Scalar" => payload[a][b] = NoPayload
           /\ SlotKind[a][b] # "Scalar" => (Initialized(a, b) <=> payload[a][b] # NoPayload)
           /\ <<a, b>> \in StoredPermissions <=> payload[a][b] # NoPayload
<1> DEFINE x == <<a, b>>
<1>1. x \in Places /\ x[1] = a /\ x[2] = b BY PlacePairs
<1> HIDE DEF x
<1>2. Stored(x) = payload[a][b] BY <1>1 DEF Stored
<1>3. IF SlotKind[x[1]][x[2]] = "Scalar" THEN Stored(x) = NoPayload
                                         ELSE Initialized(x[1], x[2]) <=> Stored(x) # NoPayload
  BY <1>1 DEF MemInv, PayloadMatchesBytes
<1>4. x \in StoredPermissions <=> Stored(x) # NoPayload BY <1>1 DEF StoredPermissions
<1> QED BY <1>1, <1>2, <1>3, <1>4 DEF x

\* resource_initialize: a permission leaves the frame for an empty place.
LEMMA InitializeMem ==
    ASSUME MemInv, Invariant', ~returned, NEW p \in frame, NEW b \in Byte, NEW v \in frame,
           ResourceInitialize(p, b, v)
    PROVE  MemInv'
<1> DEFINE a == p.allocation
           z == <<a, b>>
<1>1. Invariant /\ TypeOK /\ Holdings /\ Lending /\ PayloadMatchesBytes BY DEF MemInv, Invariant
<1>2. a \in Allocations /\ v \in Permission BY <1>1, HeldTypes, PermissionFields
<1>3. /\ SlotKind[a][b] # "Scalar" /\ LoanAccess(v, v.range, StoringAccess(SlotKind[a][b]))
      /\ Storable(v, SlotKind[a][b]) /\ ~Initialized(a, b)
      /\ bytes' = [bytes EXCEPT ![a][b] = Bits]
      /\ payload' = [payload EXCEPT ![a][b] = v]
      /\ frame' = frame \ {v}
      /\ UNCHANGED <<loans, nextAuthority, storage, returned>>
  BY DEF ResourceInitialize, loanVars
<1>4. \A x \in Places : /\ Stored(x)' = IF x = z THEN v ELSE Stored(x)
                        /\ bytes'[x[1]][x[2]] = IF x = z THEN Bits ELSE bytes[x[1]][x[2]]
  BY <1>1, <1>2, <1>3, PlacePairs DEF TypeOK, Stored
<1>5. z \in Places /\ z[1] = a /\ z[2] = b /\ z \notin StoredPermissions
  BY <1>2, <1>3, PlacePairs, PlaceState
<1> HIDE DEF z
<1>6. v # NoPayload BY <1>2, InterpreterAssumption
<1>7. StoredPermissions' = StoredPermissions \cup {z} BY <1>4, <1>5, <1>6 DEF StoredPermissions
<1>8. \A x \in StoredPermissions : x \in Places /\ x # z /\ Stored(x)' = Stored(x)
  BY <1>4, <1>5 DEF StoredPermissions
<1>9. Stored(z)' = v BY <1>4, <1>5
<1>10. \A q : Sound(q)' <=> Sound(q) BY <1>3, SoundSame
<1>11. Sound(v) BY <1>1 DEF Holdings, FramePart
<1>12. AuthoritiesBelow' BY <1>1, <1>3 DEF Holdings, AuthoritiesBelow
<1>13. FramePart' BY <1>1, <1>3, <1>10 DEF Holdings, FramePart
<1>14. \A x \in StoredPermissions : Separate(v, Stored(x)) /\ Separate(Stored(x), v)
  BY <1>1, SeparateSym DEF Holdings, CrossPart
<1>15. Slotted(z)'
  <2>1. CASE SlotKind[a][b] = "Own"
    <3>1. v.loan = NoLoan /\ v.range = Whole /\ v.free /\ Alive(v.allocation)
      BY <1>3, <2>1 DEF Storable
    <3>2. storage[v.allocation] = "Heap" BY <3>1, <1>11 DEF Sound, Alive
    <3> QED BY <3>1, <3>2, <2>1, <1>3, <1>5, <1>9 DEF Slotted
  <2>2. CASE SlotKind[a][b] # "Own"
    <3>1. v.loan # NoLoan BY <1>3, <2>2 DEF Storable
    <3> QED BY <3>1, <2>2, <1>5, <1>9 DEF Slotted
  <2> QED BY <2>1, <2>2
<1>16. StoredPart'
  <2>1. ASSUME NEW x \in StoredPermissions
        PROVE  Sound(Stored(x)') /\ Slotted(x)'
    BY <1>1, <1>3, <1>8 DEF Holdings, StoredPart, Slotted
  <2>2. \A x, y \in StoredPermissions' : x # y => Separate(Stored(x)', Stored(y)')
    BY <1>1, <1>7, <1>8, <1>9, <1>14 DEF Holdings, StoredPart
  <2>3. \A x \in StoredPermissions' : Sound(Stored(x)') /\ Slotted(x)'
    BY <2>1, <1>7, <1>9, <1>11, <1>15
  <2> QED BY <2>2, <2>3, <1>3 DEF StoredPart, Sound, Backed, Separate, BytesOf
<1>17. CrossPart'
  <2>1. \A q \in frame', x \in StoredPermissions' : Separate(q, Stored(x)')
    BY <1>1, <1>3, <1>7, <1>8, <1>9 DEF Holdings, CrossPart, FramePart
  <2> QED BY <2>1 DEF CrossPart, Separate, BytesOf
<1>18. StoredOwnerNotLent'
  <2> SUFFICES ASSUME NEW x \in StoredPermissions', Stored(x)'.loan = NoLoan,
                      NEW l \in LiveLoans(loans), loans[l].allocation = Stored(x)'.allocation
               PROVE  BytesOf(loans[l].range) = {}
    BY <1>3 DEF StoredOwnerNotLent, BytesOf, LiveLoans, Live
  <2>1. CASE x = z
    <3>1. v.loan = NoLoan BY <2>1, <1>9
    <3>2. v.range = Whole /\ SlotKind[a][b] = "Own" BY <3>1, <1>3 DEF Storable
    <3>3. LoanAccess(v, v.range, "Move") BY <3>2, <1>3 DEF StoringAccess
    <3> QED BY <2>1, <3>1, <3>2, <3>3, <1>1, <1>2, <1>9, OwnerNotLent
  <2>2. CASE x # z BY <2>2, <1>1, <1>7, <1>8 DEF Lending, StoredOwnerNotLent
  <2> QED BY <2>1, <2>2
<1>19. LentStorageAlive' BY <1>1, <1>3 DEF Lending, LentStorageAlive, Alive
<1>20. PayloadMatchesBytes'
  BY <1>1, <1>3, <1>4, <1>5, <1>6 DEF PayloadMatchesBytes, Initialized, Uninit, Bits
<1> QED BY <1>3, <1>12, <1>13, <1>16, <1>17, <1>18, <1>19, <1>20, NotReturned
        DEF MemInv, Holdings, Lending

\* resource_take: what is stored leaves its place for the frame.
LEMMA TakeMem ==
    ASSUME MemInv, Invariant', ~returned, NEW p \in frame, NEW b \in Byte, ResourceTake(p, b)
    PROVE  MemInv'
<1> DEFINE a == p.allocation
           z == <<a, b>>
           v == payload[a][b]
<1>1. Invariant /\ TypeOK /\ Holdings /\ Lending /\ PayloadMatchesBytes BY DEF MemInv, Invariant
<1>2. a \in Allocations BY <1>1, HeldTypes, PermissionFields
<1>3. /\ SlotKind[a][b] # "Scalar" /\ v # NoPayload
      /\ bytes' = [bytes EXCEPT ![a][b] = Uninit]
      /\ payload' = [payload EXCEPT ![a][b] = NoPayload]
      /\ frame' = frame \cup {v}
      /\ UNCHANGED <<loans, nextAuthority, storage, returned>>
  BY DEF ResourceTake, Reading, loanVars
<1>4. \A x \in Places : /\ Stored(x)' = IF x = z THEN NoPayload ELSE Stored(x)
                        /\ bytes'[x[1]][x[2]] = IF x = z THEN Uninit ELSE bytes[x[1]][x[2]]
  BY <1>1, <1>2, <1>3, PlacePairs DEF TypeOK, Stored
<1>5. z \in Places /\ z[1] = a /\ z[2] = b /\ z \in StoredPermissions /\ Stored(z) = v
  BY <1>2, <1>3, PlacePairs, PlaceState
<1> HIDE DEF z, v
<1>6. StoredPermissions' = StoredPermissions \ {z} BY <1>4, <1>5 DEF StoredPermissions
<1>7. \A x \in StoredPermissions' : x \in StoredPermissions /\ x # z /\ Stored(x)' = Stored(x)
  BY <1>4, <1>6 DEF StoredPermissions
<1>8. \A q : Sound(q)' <=> Sound(q) BY <1>3, SoundSame
<1>9. Sound(v) BY <1>1, <1>5 DEF Holdings, StoredPart
<1>10. \A q \in frame : Separate(v, q) /\ Separate(q, v)
  BY <1>1, <1>5, SeparateSym DEF Holdings, CrossPart
<1>11. AuthoritiesBelow' BY <1>1, <1>3 DEF Holdings, AuthoritiesBelow
<1>12. FramePart' BY <1>1, <1>3, <1>8, <1>9, <1>10 DEF Holdings, FramePart
<1>13. StoredPart'
  <2>1. \A x \in StoredPermissions' : Sound(Stored(x)') /\ Slotted(x)'
    BY <1>1, <1>3, <1>7 DEF Holdings, StoredPart, Slotted
  <2>2. \A x, y \in StoredPermissions' : x # y => Separate(Stored(x)', Stored(y)')
    BY <1>1, <1>7 DEF Holdings, StoredPart
  <2> QED BY <2>1, <2>2, <1>3 DEF StoredPart, Sound, Backed, Separate, BytesOf
<1>14. CrossPart'
  <2>1. \A q \in frame', x \in StoredPermissions' : Separate(q, Stored(x)')
    BY <1>1, <1>3, <1>5, <1>7 DEF Holdings, CrossPart, StoredPart
  <2> QED BY <2>1 DEF CrossPart, Separate, BytesOf
<1>15. StoredOwnerNotLent' BY <1>1, <1>3, <1>7 DEF Lending, StoredOwnerNotLent
<1>16. LentStorageAlive' BY <1>1, <1>3 DEF Lending, LentStorageAlive, Alive
<1>17. PayloadMatchesBytes'
  BY <1>1, <1>3, <1>4, <1>5 DEF PayloadMatchesBytes, Initialized
<1> QED BY <1>3, <1>11, <1>12, <1>13, <1>14, <1>15, <1>16, <1>17, NotReturned
        DEF MemInv, Holdings, Lending

\* object_transfer, moving: what is stored changes its place.
LEMMA MoveMem ==
    ASSUME MemInv, Invariant', ~returned, NEW p \in frame, NEW q \in frame, NEW b \in Byte,
           NEW c \in Byte, NEW m, ObjectMove(p, b, q, c, m)
    PROVE  MemInv'
<1> DEFINE a == p.allocation
           d == q.allocation
           from == <<a, b>>
           to == <<d, c>>
           v == payload[a][b]
           B == [bytes EXCEPT ![d][c] = bytes[a][b]]
           P == [payload EXCEPT ![d][c] = v]
<1>1. Invariant /\ TypeOK /\ Holdings /\ Lending /\ PayloadMatchesBytes BY DEF MemInv, Invariant
<1>2. a \in Allocations /\ d \in Allocations BY <1>1, HeldTypes, PermissionFields
<1>3. /\ SlotKind[a][b] = "Scalar" \/ m = "Initialize"
      /\ SlotKind[a][b] = SlotKind[d][c]
      /\ a = d => b # c
      /\ Reading(a, b)
      /\ m = "Initialize" => ~Initialized(d, c)
      /\ bytes' = [B EXCEPT ![a][b] = Uninit]
      /\ payload' = [P EXCEPT ![a][b] = NoPayload]
      /\ UNCHANGED <<loans, nextAuthority, frame, storage, returned>>
  BY DEF ObjectMove, Transferable, loanVars
<1>4. \A x \in Places : /\ P[x[1]][x[2]] = IF x = to THEN v ELSE Stored(x)
                        /\ B[x[1]][x[2]] = IF x = to THEN bytes[a][b] ELSE bytes[x[1]][x[2]]
  BY <1>1, <1>2, PlacePairs DEF TypeOK, Stored
<1>5. /\ B \in [Allocations -> [Byte -> Values \cup {Uninit, Bits}]]
      /\ P \in [Allocations -> [Byte -> Permission \cup {NoPayload}]]
  BY <1>1, <1>2 DEF TypeOK
<1> HIDE DEF B, P
<1>6. \A x \in Places : /\ Stored(x)' = IF x = from THEN NoPayload ELSE P[x[1]][x[2]]
                        /\ bytes'[x[1]][x[2]] = IF x = from THEN Uninit ELSE B[x[1]][x[2]]
  BY <1>2, <1>3, <1>5, PlacePairs DEF Stored
<1>7. /\ from \in Places /\ from[1] = a /\ from[2] = b /\ Stored(from) = v
      /\ to \in Places /\ to[1] = d /\ to[2] = c /\ from # to
  BY <1>2, <1>3, PlacePairs, PlaceState
<1>8. /\ SlotKind[a][b] # "Scalar" => v # NoPayload /\ to \notin StoredPermissions
      /\ SlotKind[a][b] = "Scalar" => v = NoPayload /\ to \notin StoredPermissions
  BY <1>2, <1>3, PlaceState DEF Reading
<1> HIDE DEF from, to, v
<1>9. \A x \in Places : /\ Stored(x)' = IF x = from THEN NoPayload ELSE IF x = to THEN v ELSE Stored(x)
                        /\ bytes'[x[1]][x[2]] = IF x = from THEN Uninit ELSE
                                                IF x = to THEN bytes[a][b] ELSE bytes[x[1]][x[2]]
  BY <1>4, <1>6
<1>10. \A x \in StoredPermissions' :
          \E y \in StoredPermissions :
             /\ Stored(x)' = Stored(y) /\ SlotKind[x[1]][x[2]] = SlotKind[y[1]][y[2]]
             /\ y = IF x = to THEN from ELSE x
  BY <1>3, <1>7, <1>8, <1>9 DEF StoredPermissions
<1>11. \A s : Sound(s)' <=> Sound(s) BY <1>3, SoundSame
<1>12. AuthoritiesBelow' BY <1>1, <1>3 DEF Holdings, AuthoritiesBelow
<1>13. FramePart' BY <1>1, <1>3, <1>11 DEF Holdings, FramePart
<1>14. StoredPart'
  <2>1. \A x \in StoredPermissions' : Sound(Stored(x)') /\ Slotted(x)'
    BY <1>1, <1>3, <1>10 DEF Holdings, StoredPart, Slotted
  <2>2. ASSUME NEW x \in StoredPermissions', NEW y \in StoredPermissions', x # y
        PROVE  Separate(Stored(x)', Stored(y)')
    <3>1. PICK u \in StoredPermissions : Stored(x)' = Stored(u) /\ u = IF x = to THEN from ELSE x
      BY <1>10
    <3>2. PICK w \in StoredPermissions : Stored(y)' = Stored(w) /\ w = IF y = to THEN from ELSE y
      BY <1>10
    <3>3. x # from /\ y # from BY <1>9, <1>7 DEF StoredPermissions
    <3>4. u # w BY <2>2, <3>1, <3>2, <3>3
    <3> QED BY <3>1, <3>2, <3>4, <1>1 DEF Holdings, StoredPart
  <2> QED BY <2>1, <2>2, <1>3 DEF StoredPart, Sound, Backed, Separate, BytesOf
<1>15. CrossPart'
  <2>1. \A s \in frame', x \in StoredPermissions' : Separate(s, Stored(x)')
    BY <1>1, <1>3, <1>10 DEF Holdings, CrossPart
  <2> QED BY <2>1 DEF CrossPart, Separate, BytesOf
<1>16. StoredOwnerNotLent'
  <2> SUFFICES ASSUME NEW x \in StoredPermissions', Stored(x)'.loan = NoLoan,
                      NEW l \in LiveLoans(loans), loans[l].allocation = Stored(x)'.allocation
               PROVE  BytesOf(loans[l].range) = {}
    BY <1>3 DEF StoredOwnerNotLent, BytesOf, LiveLoans, Live
  <2> QED BY <1>1, <1>10 DEF Lending, StoredOwnerNotLent
<1>17. LentStorageAlive' BY <1>1, <1>3 DEF Lending, LentStorageAlive, Alive
<1>18. PayloadMatchesBytes'
  <2>1. bytes[a][b] # Uninit BY <1>3 DEF Reading, Initialized
  <2> QED BY <2>1, <1>1, <1>3, <1>7, <1>8, <1>9 DEF PayloadMatchesBytes, Initialized
<1> QED BY <1>3, <1>12, <1>13, <1>14, <1>15, <1>16, <1>17, <1>18, NotReturned
        DEF MemInv, Holdings, Lending

-----------------------------------------------------------------------------
(* Steps of the loan table, seen from the holders. *)

\* Granting a fresh token leaves every holder as sound as it was, and the tokens
\* to come are still fresh.
LEMMA GrantSound ==
    ASSUME Invariant, AuthoritiesBelow, NEW l \in LoanIds,
           Grants(loans, loans', l, nextAuthority), nextAuthority' = nextAuthority + 1,
           UNCHANGED storage
    PROVE  AuthoritiesBelow' /\ \A p \in Permission : Sound(p) => Sound(p)'
<1>1. nextAuthority \in Nat /\ \A m \in LoanIds : loans[m].authorities \subseteq Nat
  BY DEF Invariant, TypeOK, Loan
<1>2. AuthoritiesBelow'
  <2> SUFFICES ASSUME NEW m \in LoanIds, NEW t \in loans'[m].authorities PROVE t < nextAuthority'
    BY DEF AuthoritiesBelow
  <2>1. t \in loans[m].authorities \/ t = nextAuthority BY DEF Grants
  <2>2. t \in loans[m].authorities => t \in Nat /\ t < nextAuthority BY <1>1 DEF AuthoritiesBelow
  <2> QED BY <1>1, <2>1, <2>2
<1>3. ASSUME NEW p \in Permission, Sound(p) PROVE Sound(p)'
  <2>1. CASE p.loan = NoLoan BY <1>3, <2>1 DEF Sound
  <2>2. CASE p.loan # NoLoan
    <3>1. p.loan \in LoanIds BY <2>2, PermissionFields
    <3>2. Backed(p) BY <1>3, <2>2 DEF Sound
    <3>3. /\ p.token \in loans'[p.loan].authorities
          /\ loans'[p.loan].allocation = loans[p.loan].allocation
          /\ loans'[p.loan].range = loans[p.loan].range
      BY <3>1, <3>2 DEF Backed, Grants
    <3>4. Backed(p)' BY <3>2, <3>3 DEF Backed
    <3> QED BY <1>3, <2>2, <3>4 DEF Sound
  <2> QED BY <2>1, <2>2
<1> QED BY <1>2, <1>3

\* Revoking one token leaves everybody else as sound as before.
LEMMA RevokeSound ==
    ASSUME Invariant, AuthoritiesBelow, NEW l \in LoanIds, NEW h, Revokes(loans, loans', l, h),
           UNCHANGED <<nextAuthority, storage>>
    PROVE  /\ AuthoritiesBelow'
           /\ \A p \in Permission : Sound(p) /\ p.token # h => Sound(p)'
<1>1. AuthoritiesBelow' BY DEF AuthoritiesBelow, Revokes
<1>2. ASSUME NEW p \in Permission, Sound(p), p.token # h PROVE Sound(p)'
  <2>1. CASE p.loan = NoLoan BY <1>2, <2>1 DEF Sound
  <2>2. CASE p.loan # NoLoan
    <3>1. p.loan \in LoanIds BY <2>2, PermissionFields
    <3>2. Backed(p) BY <1>2, <2>2 DEF Sound
    <3>3. p.token \in loans'[p.loan].authorities BY <1>2, <3>1, <3>2 DEF Backed, Revokes
    <3>4. /\ loans'[p.loan].allocation = loans[p.loan].allocation
          /\ loans'[p.loan].range = loans[p.loan].range
      BY <3>1, <3>3 DEF Revokes
    <3>5. Backed(p)' BY <3>2, <3>3, <3>4 DEF Backed
    <3> QED BY <1>2, <2>2, <3>5 DEF Sound
  <2> QED BY <2>1, <2>2
<1> QED BY <1>1, <1>2

\* A loan that lost a holder covers what it covered.
LEMMA RevokeLent ==
    ASSUME Invariant, Invariant', Lending, NEW l \in LoanIds, NEW h, Revokes(loans, loans', l, h)
    PROVE  /\ \A m \in LiveLoans(loans') :
                 /\ m \in LiveLoans(loans) /\ loans'[m].allocation = loans[m].allocation
                 /\ loans'[m].range = loans[m].range
           /\ UNCHANGED storage => LentStorageAlive'
<1>1. \A m \in LoanIds : /\ m \in LiveLoans(loans) <=> loans[m].authorities # {}
                         /\ m \in LiveLoans(loans') <=> loans'[m].authorities # {}
  BY DEF Invariant, TableInv, Held, LiveLoans
<1>2. \A m \in LiveLoans(loans') :
         /\ m \in LiveLoans(loans) /\ loans'[m].allocation = loans[m].allocation
         /\ loans'[m].range = loans[m].range
  BY <1>1 DEF Revokes, LiveLoans
<1>3. UNCHANGED storage => LentStorageAlive' BY <1>2 DEF Lending, LentStorageAlive, Alive
<1> QED BY <1>2, <1>3

\* After a grant the live loans are the old ones and the one granted on.
LEMMA GrantLent ==
    ASSUME Invariant, Invariant', NEW l \in LoanIds, NEW t, Grants(loans, loans', l, t)
    PROVE  \A m \in LiveLoans(loans') :
              m # l \/ l \in LiveLoans(loans) =>
                 /\ m \in LiveLoans(loans) /\ loans'[m].allocation = loans[m].allocation
                 /\ loans'[m].range = loans[m].range
<1>1. \A m \in LoanIds : /\ m \in LiveLoans(loans) <=> loans[m].authorities # {}
                         /\ m \in LiveLoans(loans') <=> loans'[m].authorities # {}
  BY DEF Invariant, TableInv, Held, LiveLoans
<1> QED BY <1>1 DEF Grants, LiveLoans

\* A permission with the fresh token is separate from all that is held.
LEMMA FreshSeparate ==
    ASSUME Invariant, AuthoritiesBelow, NEW n, n.loan # NoLoan, n.token = nextAuthority,
           NEW p \in Permission, Sound(p)
    PROVE  Separate(n, p) /\ Separate(p, n)
<1>1. nextAuthority \in Nat BY DEF Invariant, TypeOK
<1>2. p.token # nextAuthority BY <1>1, Tokens
<1> QED BY <1>2 DEF Separate

\* A new reference in the frame, on a loan begun, reborrowed or aliased: the
\* loan is of live storage, and of nothing a stored owner owns.
LEMMA GrantMem ==
    ASSUME MemInv, Invariant', ~returned, NEW l \in LoanIds, NEW n \in Permission,
           Grants(loans, loans', l, nextAuthority), nextAuthority' = nextAuthority + 1,
           frame' = frame \cup {n}, UNCHANGED <<memVars, returned>>,
           n.loan = l, n.token = nextAuthority, ~n.free,
           n.allocation = loans'[l].allocation, n.range = loans'[l].range,
           Alive(n.allocation),
           l \in LiveLoans(loans) \/
              \A x \in StoredPermissions : Stored(x).loan = NoLoan
                 /\ Stored(x).allocation = n.allocation => BytesOf(n.range) = {}
    PROVE  MemInv'
<1>1. Invariant /\ Holdings /\ Lending /\ PayloadMatchesBytes BY DEF MemInv
<1>2. UNCHANGED <<storage, bytes, payload, returned>> BY DEF memVars
<1>3. AuthoritiesBelow' /\ \A p \in Permission : Sound(p) => Sound(p)'
  BY <1>1, <1>2, GrantSound DEF Holdings
<1>4. n.loan # NoLoan BY LoanTableAssumption
<1>5. Sound(n)'
  <2>1. n.token \in loans'[l].authorities BY DEF Grants
  <2>2. Contains(n.range, n.range)
    BY PermissionFields, RangeBounds DEF Contains
  <2> QED BY <1>2, <1>4, <2>1, <2>2 DEF Sound, Backed, Alive
<1>6. \A p \in Permission : Sound(p) => Separate(n, p) /\ Separate(p, n)
  BY <1>1, <1>4, FreshSeparate DEF Holdings
<1>7. \A p \in frame : p \in Permission /\ Sound(p) BY <1>1, HeldTypes DEF Holdings, FramePart
<1>8. \A x \in StoredPermissions : Stored(x) \in Permission /\ Sound(Stored(x))
  BY <1>1, HeldTypes DEF Holdings, StoredPart
<1>9. FramePart'
  <2>1. \A p \in frame' : Sound(p)' BY <1>3, <1>5, <1>7
  <2>2. \A p, q \in frame' : p # q => Separate(p, q)
    BY <1>1, <1>6, <1>7 DEF Holdings, FramePart
  <2> QED BY <2>1, <2>2 DEF FramePart
<1>10. StoredPermissions' = StoredPermissions /\ \A x : Stored(x)' = Stored(x)
  BY <1>2 DEF StoredPermissions, Stored
<1>11. StoredPart'
  <2>1. \A x \in StoredPermissions' : Sound(Stored(x))'
    <3> SUFFICES ASSUME NEW x \in StoredPermissions PROVE Sound(Stored(x))' BY <1>10
    <3> DEFINE w == Stored(x)
    <3>1. w \in Permission /\ Sound(w) BY <1>8
    <3> QED BY <1>3, <1>10, <3>1 DEF Sound, Backed
  <2>2. \A x \in StoredPermissions' : Slotted(x)'
    BY <1>1, <1>2, <1>10 DEF Holdings, StoredPart, Slotted
  <2>3. \A x, y \in StoredPermissions : x # y => Separate(Stored(x), Stored(y))
    BY <1>1 DEF Holdings, StoredPart
  <2> QED BY <2>1, <2>2, <2>3, <1>10 DEF StoredPart, Separate, BytesOf
<1>12. CrossPart'
  <2>1. \A p \in frame', x \in StoredPermissions : Separate(p, Stored(x))
    BY <1>1, <1>6, <1>8 DEF Holdings, CrossPart
  <2> QED BY <2>1, <1>10 DEF CrossPart, Separate, BytesOf
<1>13. \A m \in LiveLoans(loans') :
              m # l \/ l \in LiveLoans(loans) =>
                 /\ m \in LiveLoans(loans) /\ loans'[m].allocation = loans[m].allocation
                 /\ loans'[m].range = loans[m].range
  BY <1>1, GrantLent
<1>14. StoredOwnerNotLent'
  <2> SUFFICES ASSUME NEW x \in StoredPermissions, Stored(x).loan = NoLoan,
                      NEW m \in LiveLoans(loans'), loans'[m].allocation = Stored(x).allocation
               PROVE  BytesOf(loans'[m].range) = {}
    BY <1>10 DEF StoredOwnerNotLent, BytesOf, LiveLoans, Live
  <2>1. CASE m # l \/ l \in LiveLoans(loans)
    BY <2>1, <1>1, <1>13 DEF Lending, StoredOwnerNotLent
  <2>2. CASE m = l /\ l \notin LiveLoans(loans) BY <2>2
  <2> QED BY <2>1, <2>2
<1>15. LentStorageAlive'
  <2> SUFFICES ASSUME NEW m \in LiveLoans(loans'), BytesOf(loans'[m].range) # {}
               PROVE  Alive(loans'[m].allocation)
    BY <1>2 DEF LentStorageAlive, BytesOf, LiveLoans, Live, Alive
  <2>1. CASE m # l BY <2>1, <1>1, <1>13 DEF Lending, LentStorageAlive
  <2>2. CASE m = l BY <2>2
  <2> QED BY <2>1, <2>2
<1>16. PayloadMatchesBytes' BY <1>1, <1>2 DEF PayloadMatchesBytes, Stored, Initialized
<1> QED BY <1>2, <1>3, <1>9, <1>11, <1>12, <1>14, <1>15, <1>16, NotReturned
        DEF MemInv, Holdings, Lending

\* A reference of the frame that is ended: nobody else carries its token.
LEMMA EndMem ==
    ASSUME MemInv, Invariant', ~returned, NEW p \in frame, p.loan \in LoanIds,
           Revokes(loans, loans', p.loan, p.token), frame' = frame \ {p},
           UNCHANGED <<nextAuthority, memVars, returned>>
    PROVE  MemInv'
<1>1. Invariant /\ Holdings /\ Lending /\ PayloadMatchesBytes BY DEF MemInv
<1>2. UNCHANGED <<nextAuthority, storage, bytes, payload, returned>> BY DEF memVars
<1>3. p.loan # NoLoan BY LoanTableAssumption
<1>4. AuthoritiesBelow' /\ \A q \in Permission : Sound(q) /\ q.token # p.token => Sound(q)'
  BY <1>1, <1>2, RevokeSound DEF Holdings
<1>5. \A q \in frame' : q \in Permission /\ Sound(q) /\ q.token # p.token
  BY <1>1, <1>3, HeldTypes DEF Holdings, FramePart, Separate
<1>6. \A x \in StoredPermissions :
         Stored(x) \in Permission /\ Sound(Stored(x)) /\ Stored(x).token # p.token
  BY <1>1, <1>3, HeldTypes DEF Holdings, StoredPart, CrossPart, Separate
<1>7. StoredPermissions' = StoredPermissions /\ \A x : Stored(x)' = Stored(x)
  BY <1>2 DEF StoredPermissions, Stored
<1>8. FramePart'
  <2>1. \A q \in frame' : Sound(q)' BY <1>4, <1>5
  <2>2. \A q, z \in frame' : q # z => Separate(q, z) BY <1>1 DEF Holdings, FramePart
  <2> QED BY <2>1, <2>2 DEF FramePart
<1>9. StoredPart'
  <2>1. \A x \in StoredPermissions' : Sound(Stored(x))'
    <3> SUFFICES ASSUME NEW x \in StoredPermissions PROVE Sound(Stored(x))' BY <1>7
    <3> DEFINE w == Stored(x)
    <3>1. w \in Permission /\ Sound(w) /\ w.token # p.token BY <1>6
    <3> QED BY <1>4, <1>7, <3>1 DEF Sound, Backed
  <2>2. \A x \in StoredPermissions' : Slotted(x)'
    BY <1>1, <1>2, <1>7 DEF Holdings, StoredPart, Slotted
  <2>3. \A x, y \in StoredPermissions : x # y => Separate(Stored(x), Stored(y))
    BY <1>1 DEF Holdings, StoredPart
  <2> QED BY <2>1, <2>2, <2>3, <1>7 DEF StoredPart, Separate, BytesOf
<1>10. CrossPart'
  <2>1. \A q \in frame', x \in StoredPermissions : Separate(q, Stored(x))
    BY <1>1 DEF Holdings, CrossPart
  <2> QED BY <2>1, <1>7 DEF CrossPart, Separate, BytesOf
<1>11. /\ \A m \in LiveLoans(loans') :
             /\ m \in LiveLoans(loans) /\ loans'[m].allocation = loans[m].allocation
             /\ loans'[m].range = loans[m].range
       /\ LentStorageAlive'
  BY <1>1, <1>2, RevokeLent
<1>12. StoredOwnerNotLent'
  <2> SUFFICES ASSUME NEW x \in StoredPermissions, Stored(x).loan = NoLoan,
                      NEW m \in LiveLoans(loans'), loans'[m].allocation = Stored(x).allocation
               PROVE  BytesOf(loans'[m].range) = {}
    BY <1>7 DEF StoredOwnerNotLent, BytesOf, LiveLoans, Live
  <2> QED BY <1>1, <1>11 DEF Lending, StoredOwnerNotLent
<1>13. PayloadMatchesBytes' BY <1>1, <1>2 DEF PayloadMatchesBytes, Stored, Initialized
<1> QED BY <1>2, <1>4, <1>8, <1>9, <1>10, <1>11, <1>12, <1>13, NotReturned
        DEF MemInv, Holdings, Lending

\* The loan instructions give out one fresh authority or take one back.
LEMMA LoanStepMem == MemInv /\ Invariant' /\ ~returned /\ LoanStep => MemInv'
<1> SUFFICES ASSUME MemInv, Invariant', ~returned, LoanStep PROVE MemInv' OBVIOUS
<1>1. /\ Invariant /\ Holdings /\ Lending /\ loans \in Table /\ Held(loans) /\ nextAuthority \in Nat
  BY DEF MemInv, Invariant, TypeOK, Table, TableInv
<1>2. \A p \in frame : /\ p \in Permission /\ p.allocation \in Allocations /\ p.range \in Range
                       /\ Sound(p) /\ (p.loan # NoLoan => p.loan \in LoanIds /\ Backed(p))
  BY <1>1, HeldTypes, PermissionFields DEF Holdings, FramePart, Sound
<1>3. \A a, r, l, t : LET n == Carrier(a, r, l, t) IN
         n.allocation = a /\ n.range = r /\ n.loan = l /\ n.token = t /\ n.free = FALSE
  BY DEF Carrier
<1>4. ASSUME NEW l \in LoanIds, NEW p \in frame, NEW r \in Range, NEW k \in Kind,
             LoanBegin(l, p, r, k)
      PROVE  MemInv'
  <2> DEFINE n == Carrier(p.allocation, r, l, nextAuthority)
  <2>1. /\ p.loan = NoLoan /\ Covers(p, r) /\ BeginAllowed(loans, l, p.allocation, r, k)
        /\ loans' = BeginLoan(loans, l, p.allocation, r, k, nextAuthority)
        /\ nextAuthority' = nextAuthority + 1 /\ frame' = frame \cup {n}
        /\ UNCHANGED <<memVars, returned>>
    BY <1>4 DEF LoanBegin
  <2>2. /\ n.allocation = p.allocation /\ n.range = r /\ n.loan = l /\ n.token = nextAuthority
        /\ ~n.free
    BY <1>3
  <2>3. n \in Permission BY <1>1, <1>2, CarrierType
  <2> HIDE DEF n
  <2>4. /\ Grants(loans, loans', l, nextAuthority)
        /\ loans'[l].allocation = p.allocation /\ loans'[l].range = r
    BY <1>1, <2>1, BeginGrants
  <2>5. ASSUME NEW x \in StoredPermissions, Stored(x).loan = NoLoan,
               Stored(x).allocation = n.allocation
        PROVE  BytesOf(n.range) = {}
    <3>1. Separate(p, Stored(x)) BY <1>1 DEF Holdings, CrossPart
    <3>2. Stored(x).range = Whole BY <1>1, <2>5 DEF Holdings, StoredPart, Slotted
    <3>3. BytesOf(p.range) = {} BY <2>1, <2>2, <2>5, <3>1, <3>2, WholeBytes DEF Separate
    <3> QED BY <1>2, <2>1, <2>2, <3>3, ContainedBytes DEF Covers
  <2>6. Alive(n.allocation) BY <2>1, <2>2 DEF Covers
  <2> QED BY <2>1, <2>2, <2>3, <2>4, <2>5, <2>6, GrantMem
<1>5. ASSUME NEW l \in LoanIds, NEW p \in frame, NEW r \in Range, NEW k \in Kind,
             LoanReborrow(l, p, r, k)
      PROVE  MemInv'
  <2> DEFINE n == Carrier(p.allocation, r, l, nextAuthority)
  <2>1. /\ p.loan # NoLoan /\ Covers(p, r) /\ ReborrowAllowed(loans, l, p.loan, r, k, p.token)
        /\ loans' = ReborrowLoan(loans, l, p.loan, r, k, nextAuthority)
        /\ nextAuthority' = nextAuthority + 1 /\ frame' = frame \cup {n}
        /\ UNCHANGED <<memVars, returned>>
    BY <1>5 DEF LoanReborrow
  <2>2. /\ n.allocation = p.allocation /\ n.range = r /\ n.loan = l /\ n.token = nextAuthority
        /\ ~n.free
    BY <1>3
  <2>3. n \in Permission BY <1>1, <1>2, CarrierType
  <2> HIDE DEF n
  <2>4. p.loan \in LoanIds /\ p.loan \in LiveLoans(loans) /\ p.allocation = loans[p.loan].allocation
    BY <1>1, <1>2, <2>1, BackedLive DEF Backed
  <2>5. /\ Grants(loans, loans', l, nextAuthority)
        /\ loans'[l].allocation = p.allocation /\ loans'[l].range = r
    BY <1>1, <2>1, <2>4, ReborrowGrants
  <2>6. ASSUME NEW x \in StoredPermissions, Stored(x).loan = NoLoan,
               Stored(x).allocation = n.allocation
        PROVE  BytesOf(n.range) = {}
    <3>1. BytesOf(loans[p.loan].range) = {}
      BY <1>1, <2>2, <2>4, <2>6 DEF Lending, StoredOwnerNotLent
    <3>2. loans[p.loan].range \in Range BY <1>1, <2>4 DEF Table, Loan
    <3>3. Contains(loans[p.loan].range, r) BY <2>1 DEF ReborrowAllowed
    <3> QED BY <2>2, <3>1, <3>2, <3>3, ContainedBytes
  <2>7. Alive(n.allocation) BY <2>1, <2>2 DEF Covers
  <2> QED BY <2>1, <2>2, <2>3, <2>5, <2>6, <2>7, GrantMem
<1>6. ASSUME NEW p \in frame, LoanAlias(p) PROVE MemInv'
  <2> DEFINE n == Carrier(p.allocation, p.range, p.loan, nextAuthority)
  <2>1. /\ p.loan # NoLoan /\ Alive(p.allocation) /\ p.range = loans[p.loan].range
        /\ loans' = AliasLoan(loans, p.loan, nextAuthority)
        /\ nextAuthority' = nextAuthority + 1 /\ frame' = frame \cup {n}
        /\ UNCHANGED <<memVars, returned>>
    BY <1>6 DEF LoanAlias
  <2>2. p.loan \in LoanIds /\ p.loan \in LiveLoans(loans) /\ Backed(p)
    BY <1>1, <1>2, <2>1, BackedLive
  <2>3. /\ n.allocation = p.allocation /\ n.range = p.range /\ n.loan = p.loan
        /\ n.token = nextAuthority /\ ~n.free
    BY <1>3
  <2>4. n \in Permission BY <1>1, <1>2, <2>2, CarrierType
  <2> HIDE DEF n
  <2>5. Grants(loans, loans', p.loan, nextAuthority) BY <1>1, <2>1, <2>2, AliasGrants
  <2>6. loans'[p.loan].allocation = p.allocation /\ loans'[p.loan].range = p.range
    BY <2>1, <2>2, <2>5 DEF Grants, Backed
  <2> QED BY <2>1, <2>2, <2>3, <2>4, <2>5, <2>6, GrantMem
<1>7. ASSUME NEW p \in frame, LoanEnd(p) \/ LoanEndAuthority(p) PROVE MemInv'
  <2>1. /\ p.loan # NoLoan /\ p.token \in loans[p.loan].authorities
        /\ loans' = EndLoan(loans, p.loan, p.token) /\ frame' = frame \ {p}
        /\ UNCHANGED <<nextAuthority, memVars, returned>>
    BY <1>7 DEF LoanEnd, LoanEndAuthority, EndAllowed, EndStoredAllowed
  <2>2. p.loan \in LoanIds BY <1>2, <2>1
  <2>3. Revokes(loans, loans', p.loan, p.token) BY <1>1, <2>1, <2>2, EndRevokes
  <2> QED BY <2>1, <2>2, <2>3, EndMem
<1> QED BY <1>4, <1>5, <1>6, <1>7 DEF LoanStep

\* object_transfer, copying: plain data, or a shared reference under a token of
\* its own.
LEMMA CopyMem ==
    ASSUME MemInv, Invariant', ~returned, NEW p \in frame, NEW q \in frame, NEW b \in Byte,
           NEW c \in Byte, NEW m, ObjectCopy(p, b, q, c, m)
    PROVE  MemInv'
<1> DEFINE a == p.allocation
           d == q.allocation
           z == <<d, c>>
<1>v. PICK v : v = payload[a][b] OBVIOUS
<1>w. PICK w : w = [v EXCEPT !.token = nextAuthority] OBVIOUS
<1>1. /\ Invariant /\ TypeOK /\ Holdings /\ Lending /\ PayloadMatchesBytes /\ loans \in Table
  BY DEF MemInv, Invariant, TypeOK, Table
<1>2. a \in Allocations /\ d \in Allocations BY <1>1, HeldTypes, PermissionFields
<1>3. /\ SlotKind[a][b] \in {"Scalar", "SharedRef"} /\ SlotKind[a][b] = SlotKind[d][c]
      /\ Reading(a, b)
      /\ bytes' = [bytes EXCEPT ![d][c] = bytes[a][b]]
      /\ UNCHANGED <<frame, storage, returned>>
  BY DEF ObjectCopy, Transferable
<1>4. \A x \in Places : bytes'[x[1]][x[2]] = IF x = z THEN bytes[a][b] ELSE bytes[x[1]][x[2]]
  BY <1>1, <1>2, <1>3, PlacePairs DEF TypeOK
<1>5. z \in Places /\ z[1] = d /\ z[2] = c BY <1>2, PlacePairs
<1>6. CASE v = NoPayload
  <2>1. UNCHANGED <<loanVars, payload>> BY <1>v, <1>6 DEF ObjectCopy
  <2>2. SlotKind[d][c] = "Scalar" BY <1>v, <1>3, <1>6 DEF Reading
  <2> HIDE DEF z
  <2>3. \A x \in Places : SlotKind[x[1]][x[2]] # "Scalar"
                                => (Initialized(x[1], x[2])' <=> Initialized(x[1], x[2]))
    BY <1>4, <1>5, <2>2 DEF Initialized
  <2> QED BY <1>3, <2>1, <2>3, ByteStep
<1>7. CASE v # NoPayload
  <2>1. /\ v.loan # NoLoan
        /\ loans' = AliasLoan(loans, v.loan, nextAuthority)
        /\ nextAuthority' = nextAuthority + 1
        /\ payload' = [payload EXCEPT ![d][c] = w]
    BY <1>v, <1>w, <1>7 DEF ObjectCopy
  <2>2. \A x \in Places : Stored(x)' = IF x = z THEN w ELSE Stored(x)
    BY <1>1, <1>2, <2>1, PlacePairs DEF TypeOK, Stored
  <2>3. <<a, b>> \in StoredPermissions /\ Stored(<<a, b>>) = v BY <1>v, <1>2, <1>7, PlaceState
  <2>4. v \in Permission /\ Sound(v) BY <1>1, <2>3, HeldTypes DEF Holdings, StoredPart
  <2>5. v.loan \in LoanIds /\ v.loan \in LiveLoans(loans) /\ Backed(v)
    BY <1>1, <2>1, <2>4, BackedLive DEF Sound
  <2>6. SlotKind[d][c] = "SharedRef" BY <1>v, <1>2, <1>3, <1>7, PlaceState
  <2>7. /\ w.loan = v.loan /\ w.token = nextAuthority /\ w.allocation = v.allocation
        /\ w.range = v.range /\ w.free = v.free /\ w \in Permission
    BY <1>w, <1>1, <2>4 DEF Permission, TypeOK
  <2> HIDE DEF z
  <2>8. Grants(loans, loans', v.loan, nextAuthority) BY <1>1, <2>1, <2>5, AliasGrants
  <2>9. AuthoritiesBelow' /\ \A s \in Permission : Sound(s) => Sound(s)'
    BY <1>1, <1>3, <2>1, <2>5, <2>8, GrantSound DEF Holdings
  <2>10. Sound(w)'
    <3>1. nextAuthority \in loans'[v.loan].authorities BY <2>5, <2>8 DEF Grants
    <3>2. Sound(v)' BY <2>4, <2>9
    <3> QED BY <2>1, <2>7, <3>1, <3>2 DEF Sound, Backed
  <2>11. \A s \in Permission : Sound(s) => Separate(w, s) /\ Separate(s, w)
    BY <1>1, <2>1, <2>7, FreshSeparate DEF Holdings
  <2>12. w # NoPayload BY <2>7, InterpreterAssumption
  <2>13. StoredPermissions' = StoredPermissions \cup {z} /\ Stored(z)' = w
    BY <1>5, <2>2, <2>12 DEF StoredPermissions
  <2>14. \A x \in StoredPermissions' :
            x # z => x \in StoredPermissions /\ Stored(x)' = Stored(x)
                     /\ Stored(x) \in Permission /\ Sound(Stored(x)) /\ Slotted(x)
    BY <1>1, <2>2, <2>13, HeldTypes DEF Holdings, StoredPart, StoredPermissions
  <2>15. FramePart'
    <3>1. \A s \in frame : s \in Permission /\ Sound(s) BY <1>1, HeldTypes DEF Holdings, FramePart
    <3> QED BY <1>1, <1>3, <2>9, <3>1 DEF Holdings, FramePart
  <2>16. StoredPart'
    <3>1. \A x \in StoredPermissions' : Slotted(x)'
      <4>1. Slotted(z)' BY <1>5, <2>1, <2>6, <2>7, <2>13 DEF Slotted
      <4>2. \A x \in StoredPermissions' : x # z => Slotted(x)' BY <1>3, <2>14 DEF Slotted
      <4> QED BY <4>1, <4>2
    <3>2. \A x \in StoredPermissions' : Sound(Stored(x))'
      <4>1. Sound(Stored(z))' BY <2>10, <2>13 DEF Sound, Backed
      <4>2. ASSUME NEW x \in StoredPermissions', x # z PROVE Sound(Stored(x))'
        <5> DEFINE s == Stored(x)
        <5>1. s \in Permission /\ Sound(s) /\ Stored(x)' = s BY <2>14, <4>2
        <5> QED BY <2>9, <5>1 DEF Sound, Backed
      <4> QED BY <4>1, <4>2
    <3>3. \A x, y \in StoredPermissions' : x # y => Separate(Stored(x)', Stored(y)')
      BY <1>1, <2>11, <2>13, <2>14 DEF Holdings, StoredPart
    <3> QED BY <3>1, <3>2, <3>3 DEF StoredPart, Separate, BytesOf
  <2>17. CrossPart'
    <3>1. \A s \in frame : s \in Permission /\ Sound(s) BY <1>1, HeldTypes DEF Holdings, FramePart
    <3>2. \A s \in frame', x \in StoredPermissions' : Separate(s, Stored(x)')
      BY <1>1, <1>3, <2>11, <2>13, <2>14, <3>1 DEF Holdings, CrossPart
    <3> QED BY <3>2 DEF CrossPart, Separate, BytesOf
  <2>18. \A l \in LiveLoans(loans') :
            /\ l \in LiveLoans(loans) /\ loans'[l].allocation = loans[l].allocation
            /\ loans'[l].range = loans[l].range
    BY <1>1, <2>5, <2>8, GrantLent
  <2>19. StoredOwnerNotLent'
    <3> SUFFICES ASSUME NEW x \in StoredPermissions', Stored(x)'.loan = NoLoan,
                        NEW l \in LiveLoans(loans'), loans'[l].allocation = Stored(x)'.allocation
                 PROVE  BytesOf(loans'[l].range) = {}
      BY DEF StoredOwnerNotLent, BytesOf, LiveLoans, Live
    <3>1. x # z BY <2>1, <2>7, <2>13
    <3> QED BY <1>1, <2>14, <2>18, <3>1 DEF Lending, StoredOwnerNotLent
  <2>20. LentStorageAlive' BY <1>1, <1>3, <2>18 DEF Lending, LentStorageAlive, Alive
  <2>21. PayloadMatchesBytes'
    <3>1. bytes[a][b] # Uninit BY <1>3 DEF Reading, Initialized
    <3> QED BY <1>1, <1>4, <1>5, <2>2, <2>6, <2>12, <3>1 DEF PayloadMatchesBytes, Initialized
  <2> QED BY <1>3, <2>9, <2>15, <2>16, <2>17, <2>19, <2>20, <2>21, NotReturned
          DEF MemInv, Holdings, Lending
<1> QED BY <1>6, <1>7

\* object_drop_contents: a stored owner is freed, a stored reference ended.
LEMMA DropMem ==
    ASSUME MemInv, Invariant', ~returned, NEW p \in frame, NEW b \in Byte, ObjectDrop(p, b)
    PROVE  MemInv'
<1> DEFINE a == p.allocation
           z == <<a, b>>
           v == payload[a][b]
<1>1. /\ Invariant /\ TypeOK /\ Holdings /\ Lending /\ PayloadMatchesBytes /\ loans \in Table
  BY DEF MemInv, Invariant, TypeOK, Table
<1>2. a \in Allocations BY <1>1, HeldTypes, PermissionFields
<1>3. /\ SlotKind[a][b] # "Scalar" /\ v # NoPayload
      /\ bytes' = [bytes EXCEPT ![a][b] = Uninit]
      /\ payload' = [payload EXCEPT ![a][b] = NoPayload]
      /\ UNCHANGED <<nextAuthority, frame, returned>>
  BY DEF ObjectDrop, Reading
<1>4. \A x \in Places : /\ Stored(x)' = IF x = z THEN NoPayload ELSE Stored(x)
                        /\ bytes'[x[1]][x[2]] = IF x = z THEN Uninit ELSE bytes[x[1]][x[2]]
  BY <1>1, <1>2, <1>3, PlacePairs DEF TypeOK, Stored
<1>5. z \in Places /\ z[1] = a /\ z[2] = b /\ z \in StoredPermissions /\ Stored(z) = v
  BY <1>2, <1>3, PlacePairs, PlaceState
<1>6. v \in Permission /\ Sound(v) BY <1>1, <1>5, HeldTypes DEF Holdings, StoredPart
<1>c. \/ v.loan = NoLoan /\ storage' = [storage EXCEPT ![v.allocation] = "Dead"] /\ UNCHANGED loans
      \/ /\ v.loan # NoLoan /\ v.token \in loans[v.loan].authorities
         /\ loans' = EndLoan(loans, v.loan, v.token) /\ UNCHANGED storage
  BY DEF ObjectDrop, EndStoredAllowed
<1>o. v.loan = NoLoan => v.range = Whole
  BY <1>1, <1>5 DEF Holdings, StoredPart, Slotted
<1> HIDE DEF z, v
<1>7. \A x \in StoredPermissions' : x \in StoredPermissions /\ x # z /\ Stored(x)' = Stored(x)
  BY <1>4, <1>5 DEF StoredPermissions
<1>8. \A x \in StoredPermissions' : /\ Stored(x) \in Permission /\ Sound(Stored(x)) /\ Slotted(x)
                                    /\ Separate(v, Stored(x))
  BY <1>1, <1>5, <1>7, HeldTypes DEF Holdings, StoredPart
<1>9. \A q \in frame : q \in Permission /\ Sound(q) /\ Separate(v, q)
  BY <1>1, <1>5, HeldTypes, SeparateSym DEF Holdings, FramePart, CrossPart
<1>10. /\ AuthoritiesBelow' /\ LentStorageAlive'
       /\ \A s \in Permission : Sound(s) /\ Separate(v, s) => Sound(s)'
       /\ \A s \in Permission : s.loan = NoLoan /\ s.range = Whole /\ Separate(v, s)
             => storage'[s.allocation] = storage[s.allocation]
       /\ \A m \in LiveLoans(loans') :
             /\ m \in LiveLoans(loans) /\ loans'[m].allocation = loans[m].allocation
             /\ loans'[m].range = loans[m].range
  <2>1. CASE v.loan = NoLoan
    <3>1. storage' = [storage EXCEPT ![v.allocation] = "Dead"] /\ UNCHANGED loans BY <1>c, <2>1
    <3>2. \A l \in LiveLoans(loans) :
             loans[l].allocation = v.allocation => BytesOf(loans[l].range) = {}
      BY <1>1, <1>5, <2>1 DEF Lending, StoredOwnerNotLent
    <3>3. /\ \A s \in Permission : Sound(s) => Sound(s)'
          /\ \A s \in Permission : s.loan = NoLoan /\ s.range = Whole /\ Separate(v, s)
                => storage'[s.allocation] = storage[s.allocation]
          /\ LentStorageAlive'
      BY <1>1, <1>6, <1>o, <2>1, <3>1, <3>2, ReleaseStorage
    <3>4. AuthoritiesBelow' BY <1>1, <1>3, <3>1 DEF Holdings, AuthoritiesBelow
    <3> QED BY <3>1, <3>3, <3>4
  <2>2. CASE v.loan # NoLoan
    <3>1. v.token \in loans[v.loan].authorities /\ loans' = EndLoan(loans, v.loan, v.token)
             /\ UNCHANGED storage
      BY <1>c, <2>2
    <3>2. v.loan \in LoanIds BY <1>6, <2>2, PermissionFields
    <3>3. Revokes(loans, loans', v.loan, v.token) BY <1>1, <3>1, <3>2, EndRevokes
    <3>4. /\ AuthoritiesBelow'
          /\ \A s \in Permission : Sound(s) /\ s.token # v.token => Sound(s)'
      BY <1>1, <1>3, <3>1, <3>2, <3>3, RevokeSound DEF Holdings
    <3>5. \A s : Separate(v, s) => s.token # v.token BY <2>2 DEF Separate
    <3>6. /\ \A m \in LiveLoans(loans') :
                /\ m \in LiveLoans(loans) /\ loans'[m].allocation = loans[m].allocation
                /\ loans'[m].range = loans[m].range
          /\ LentStorageAlive'
      BY <1>1, <3>1, <3>2, <3>3, RevokeLent
    <3> QED BY <3>1, <3>4, <3>5, <3>6
  <2> QED BY <2>1, <2>2
<1>11. FramePart' BY <1>1, <1>3, <1>9, <1>10 DEF Holdings, FramePart
<1>12. StoredPart'
  <2>1. ASSUME NEW x \in StoredPermissions' PROVE Sound(Stored(x))'
    <3> DEFINE s == Stored(x)
    <3>1. s \in Permission /\ Sound(s) /\ Separate(v, s) /\ Stored(x)' = s BY <1>7, <1>8
    <3> QED BY <1>10, <3>1 DEF Sound, Backed
  <2>2. \A x \in StoredPermissions' : Slotted(x)'
    BY <1>7, <1>8, <1>10 DEF Slotted
  <2>3. \A x, y \in StoredPermissions' : x # y => Separate(Stored(x)', Stored(y)')
    BY <1>1, <1>7 DEF Holdings, StoredPart
  <2> QED BY <2>1, <2>2, <2>3 DEF StoredPart, Separate, BytesOf
<1>13. CrossPart'
  <2>1. \A s \in frame', x \in StoredPermissions' : Separate(s, Stored(x)')
    BY <1>1, <1>3, <1>7 DEF Holdings, CrossPart
  <2> QED BY <2>1 DEF CrossPart, Separate, BytesOf
<1>14. StoredOwnerNotLent'
  <2> SUFFICES ASSUME NEW x \in StoredPermissions', Stored(x)'.loan = NoLoan,
                      NEW l \in LiveLoans(loans'), loans'[l].allocation = Stored(x)'.allocation
               PROVE  BytesOf(loans'[l].range) = {}
    BY DEF StoredOwnerNotLent, BytesOf, LiveLoans, Live
  <2> QED BY <1>1, <1>7, <1>10 DEF Lending, StoredOwnerNotLent
<1>15. PayloadMatchesBytes'
  BY <1>1, <1>3, <1>4, <1>5 DEF PayloadMatchesBytes, Initialized
<1> QED BY <1>3, <1>10, <1>11, <1>12, <1>13, <1>14, <1>15, NotReturned
        DEF MemInv, Holdings, Lending

\* The instructions on places for owners and references.
LEMMA PayloadStepMem == MemInv /\ Invariant' /\ ~returned /\ PayloadStep => MemInv'
<1> SUFFICES ASSUME MemInv, Invariant', ~returned, PayloadStep PROVE MemInv' OBVIOUS
<1>1. ASSUME NEW p \in frame, NEW r \in Range, ResourceStorageReset(p, r) PROVE MemInv'
  <2>1. Invariant /\ p.allocation \in Allocations BY HeldTypes, PermissionFields DEF MemInv
  <2>2. \A x \in Places :
           bytes'[x[1]][x[2]] = IF x[1] = p.allocation /\ x[2] \in BytesOf(r) THEN Uninit
                                                                           ELSE bytes[x[1]][x[2]]
    BY <1>1, <2>1, ResetBytes DEF ResourceStorageReset
  <2>3. \A b \in BytesOf(r) : SlotKind[p.allocation][b] # "Scalar" => bytes[p.allocation][b] = Uninit
    BY <1>1 DEF ResourceStorageReset, Initialized
  <2>4. \A x \in Places : SlotKind[x[1]][x[2]] # "Scalar"
                                => (Initialized(x[1], x[2])' <=> Initialized(x[1], x[2]))
    BY <2>2, <2>3 DEF Initialized
  <2> QED BY <1>1, <2>4, ByteStep DEF ResourceStorageReset
<1>2. ASSUME NEW p \in frame, NEW b \in Byte, NEW v \in frame, ResourceInitialize(p, b, v)
      PROVE  MemInv'
  BY <1>2, InitializeMem
<1>3. ASSUME NEW p \in frame, NEW b \in Byte, ResourceTake(p, b) PROVE MemInv' BY <1>3, TakeMem
<1>4. ASSUME NEW p \in frame, NEW b \in Byte, ObjectDrop(p, b) PROVE MemInv' BY <1>4, DropMem
<1>5. ASSUME NEW p \in frame, NEW q \in frame, NEW b \in Byte, NEW c \in Byte, NEW m,
             ObjectCopy(p, b, q, c, m)
      PROVE  MemInv'
  BY <1>5, CopyMem
<1>6. ASSUME NEW p \in frame, NEW q \in frame, NEW b \in Byte, NEW c \in Byte, NEW m,
             ObjectMove(p, b, q, c, m)
      PROVE  MemInv'
  BY <1>6, MoveMem
<1> QED BY <1>1, <1>2, <1>3, <1>4, <1>5, <1>6 DEF PayloadStep

-----------------------------------------------------------------------------
(* Returning, and every step. *)

\* A frame returns with no live loan, so with no stored reference; the owners it
\* leaves in the heap own heap storage, which outlives the frame.
LEMMA ReturnMem == MemInv /\ Invariant' /\ Return => MemInv'
<1> SUFFICES ASSUME MemInv, Invariant', Return PROVE MemInv' OBVIOUS
<1>1. Invariant /\ Holdings /\ Lending /\ PayloadMatchesBytes BY DEF MemInv
<1>2. /\ LiveLoans(loans) = {} /\ frame' = {} /\ returned'
      /\ storage' = [a \in Allocations |-> IF storage[a] = "Local" THEN "Dead" ELSE storage[a]]
      /\ UNCHANGED <<loans, nextAuthority, bytes, payload>>
  BY DEF Return, FinishAllowed, loanVars
<1>3. StoredPermissions' = StoredPermissions /\ \A x : Stored(x)' = Stored(x)
  BY <1>2 DEF StoredPermissions, Stored
<1>4. \A x \in StoredPermissions : /\ Stored(x) \in Permission /\ Stored(x).allocation \in Allocations
                                   /\ Sound(Stored(x)) /\ Slotted(x)
  BY <1>1, HeldTypes, PermissionFields DEF Holdings, StoredPart
<1>5. \A x \in StoredPermissions : Stored(x).loan = NoLoan
  BY <1>1, <1>2, <1>4, BackedLive DEF Sound
<1>6. \A x \in StoredPermissions : storage'[Stored(x).allocation] = "Heap"
                                      /\ storage[Stored(x).allocation] = "Heap"
  BY <1>2, <1>4, <1>5 DEF Slotted
<1>7. StoredPart'
  <2>1. \A x \in StoredPermissions' : Sound(Stored(x))' /\ Slotted(x)'
    BY <1>3, <1>4, <1>5, <1>6 DEF Sound, Slotted
  <2>2. \A x, y \in StoredPermissions : x # y => Separate(Stored(x), Stored(y))
    BY <1>1 DEF Holdings, StoredPart
  <2> QED BY <2>1, <2>2, <1>3 DEF StoredPart, Separate, BytesOf
<1>8. AuthoritiesBelow' /\ FramePart' /\ CrossPart'
  BY <1>1, <1>2 DEF Holdings, AuthoritiesBelow, FramePart, CrossPart
<1>9. LiveLoans(loans') = {} BY <1>2
<1>10. Lending' BY <1>9 DEF Lending, StoredOwnerNotLent, LentStorageAlive
<1>11. PayloadMatchesBytes' BY <1>1, <1>2 DEF PayloadMatchesBytes, Stored, Initialized
<1>12. NothingDangles' BY <1>3, <1>5, <1>6 DEF NothingDangles, Alive
<1> QED BY <1>7, <1>8, <1>10, <1>11, <1>12 DEF MemInv, Holdings

\* A program starts with nothing held.
LEMMA InitMem == Init => MemInv
<1> SUFFICES ASSUME Init PROVE MemInv OBVIOUS
<1>1. Invariant BY InitInv
<1>2. \A x \in Places : Stored(x) = NoPayload /\ ~Initialized(x[1], x[2])
  BY PlacePairs DEF Init, Stored, Initialized
<1>3. frame = {} /\ StoredPermissions = {} /\ returned = FALSE
  BY <1>2 DEF Init, StoredPermissions
<1>4. \A l \in LoanIds : loans[l].authorities = {} BY BlankLoan DEF Init
<1>5. LiveLoans(loans) = {} BY BlankLoan DEF Init, LiveLoans, Live
<1>6. Holdings BY <1>3, <1>4 DEF Holdings, AuthoritiesBelow, FramePart, StoredPart, CrossPart
<1>7. Lending BY <1>5 DEF Lending, StoredOwnerNotLent, LentStorageAlive
<1>8. PayloadMatchesBytes BY <1>2 DEF PayloadMatchesBytes
<1>9. NothingDangles BY <1>3 DEF NothingDangles
<1> QED BY <1>1, <1>6, <1>7, <1>8, <1>9 DEF MemInv

\* Every step preserves the invariant.
LEMMA NextMem == MemInv /\ [Next]_vars => MemInv'
<1> SUFFICES ASSUME MemInv, [Next]_vars PROVE MemInv' OBVIOUS
<1>1. Invariant' BY NextInv DEF MemInv
<1>2. CASE UNCHANGED vars
  <2>1. UNCHANGED <<loans, nextAuthority, frame, storage, bytes, payload, returned>>
    BY <1>2 DEF vars
  <2> QED BY <2>1 DEF MemInv, Invariant, TypeOK, Holdings, AuthoritiesBelow, FramePart, StoredPart,
          CrossPart, Sound, Backed, Slotted, Stored, StoredPermissions, Lending, StoredOwnerNotLent,
          LentStorageAlive, Alive, PayloadMatchesBytes, Initialized, NothingDangles
<1>3. CASE Next
  <2>1. ~returned BY <1>3 DEF Next
  <2>2. CASE StorageStep BY <1>1, <2>1, <2>2, StorageStepMem
  <2>3. CASE ScalarStep BY <1>1, <2>1, <2>3, ScalarStepMem
  <2>4. CASE PayloadStep BY <1>1, <2>1, <2>4, PayloadStepMem
  <2>5. CASE PermissionStep BY <1>1, <2>1, <2>5, PermissionStepMem
  <2>6. CASE LoanStep BY <1>1, <2>1, <2>6, LoanStepMem
  <2>7. CASE BlockStep BY <1>1, <2>1, <2>7, BlockStepMem
  <2>8. CASE Return BY <1>1, <2>8, ReturnMem
  <2> QED BY <1>3, <2>2, <2>3, <2>4, <2>5, <2>6, <2>7, <2>8 DEF Next
<1> QED BY <1>2, <1>3

-----------------------------------------------------------------------------
(* Who may change a byte. *)

\* Byte b of allocation a lies in a range that somebody may write or move.
Writable(a, b) ==
    \E p \in frame, r \in Range, access \in {"Write", "Move"} :
        a = p.allocation /\ b \in BytesOf(r) /\ LoanAccess(p, r, access)

\* Whoever may write or move a byte excludes every shared loan of it: an access
\* check on the writer's own loan is enough.
LEMMA WritersExcludeReaders ==
    ASSUME Invariant, NEW l \in LoanIds, Live(loans, l), loans[l].kind = "Shared",
           NEW b \in BytesOf(loans[l].range)
    PROVE  ~Writable(loans[l].allocation, b)
<1> SUFFICES ASSUME NEW p \in frame, NEW r \in Range, NEW access \in {"Write", "Move"},
                    loans[l].allocation = p.allocation, b \in BytesOf(r), LoanAccess(p, r, access)
             PROVE  FALSE
  BY DEF Writable
<1>1. loans \in Table /\ TableInv(loans) /\ Nested(loans) BY DEF Invariant, TypeOK, Table, TableInv
<1>2. l \in LiveLoans(loans) /\ loans[l].range \in Range BY <1>1 DEF LiveLoans, Table, Loan
<1>3. CheckAccess(loans, p, r, access) BY <1>2 DEF LoanAccess
<1>4. Overlap(r, loans[l].range) BY <1>2, CommonByte
<1>5. p.loan \in LoanIds /\ l \in Chain(loans, p.loan) BY <1>1, <1>2, <1>3, <1>4, AccessIsolation
<1>6. loans[p.loan].activity = "Active" /\ KindAllows(loans[p.loan].kind, access)
  BY <1>3, <1>5 DEF CheckAccess, AuthorityAccess
<1>7. p.loan \in LiveLoans(loans) BY <1>5, <1>6 DEF LiveLoans, Live
<1>8. loans[p.loan].kind = "Mutable"
  <2>1. loans[p.loan].kind \in {"Shared", "Mutable"} BY <1>1, <1>5 DEF Table, Loan, Kind
  <2> QED BY <1>6, <2>1 DEF KindAllows
<1> QED BY <1>1, <1>5, <1>7, <1>8, ChainMutable

\* No step changes a place, its byte or its payload, that nobody may write: every
\* instruction checks the access to all it changes.
LEMMA OnlyWritableChanges ==
    ASSUME Invariant, Next, NEW x \in Places
    PROVE  \/ bytes'[x[1]][x[2]] = bytes[x[1]][x[2]] /\ payload'[x[1]][x[2]] = payload[x[1]][x[2]]
           \/ Writable(x[1], x[2])
<1> DEFINE Same == /\ bytes'[x[1]][x[2]] = bytes[x[1]][x[2]]
                   /\ payload'[x[1]][x[2]] = payload[x[1]][x[2]]
<1>1. TypeOK /\ \A p \in frame : p.allocation \in Allocations
  BY HeldTypes, PermissionFields DEF Invariant
<1>2. x[1] \in Allocations /\ x[2] \in Byte /\ x = <<x[1], x[2]>> BY PlacePairs
<1>3. \A b \in Byte : At(b) \in Range /\ b \in BytesOf(At(b))
  <2>1. ASSUME NEW b \in Byte PROVE b \in BytesOf(At(b))
    <3>1. b \in 0 .. Size - 1 /\ b \in Int BY LoanTableAssumption DEF Byte
    <3>2. At(b).start = b /\ At(b).end = b + 1 BY DEF At
    <3> QED BY <3>1, <3>2 DEF BytesOf
  <2> QED BY <2>1, Ranges
<1>4. ASSUME NEW p \in frame, NEW b \in Byte, NEW access \in {"Write", "Move"},
             LoanAccess(p, At(b), access), x = <<p.allocation, b>>
      PROVE  Writable(x[1], x[2])
  <2>1. x[1] = p.allocation /\ x[2] = b BY <1>1, <1>4, PlacePairs
  <2> QED BY <1>3, <1>4, <2>1 DEF Writable
<1>5. CASE StorageStep BY <1>5 DEF StorageStep, Allocate, LocalStorage, Free
<1>6. CASE PermissionStep
  BY <1>6 DEF PermissionStep, PermissionSplit, PermissionJoin, SliceRange, memVars
<1>7. CASE LoanStep
  BY <1>7 DEF LoanStep, LoanBegin, LoanReborrow, LoanAlias, LoanEnd, LoanEndAuthority, memVars
<1>8. CASE BlockStep \/ Return BY <1>8 DEF BlockStep, EnterBlock, Return, memVars
<1>9. ASSUME NEW p \in frame, NEW b \in Byte, NEW v \in Values, NEW m, WriteScalar(p, b, v, m)
      PROVE  Same \/ Writable(x[1], x[2])
  <2>1. CASE x = <<p.allocation, b>> BY <1>4, <1>9, <2>1 DEF WriteScalar
  <2>2. CASE x # <<p.allocation, b>> BY <1>1, <1>2, <1>9, <2>2 DEF WriteScalar, TypeOK
  <2> QED BY <2>1, <2>2
<1>10. ASSUME NEW p \in frame, NEW r \in Range, LoanAccess(p, r, "Write"), UNCHANGED payload,
              bytes' = [bytes EXCEPT ![p.allocation] =
                          [b \in Byte |-> IF b \in BytesOf(r) THEN Uninit ELSE @[b]]]
       PROVE  Same \/ Writable(x[1], x[2])
  <2>1. CASE x[1] = p.allocation /\ x[2] \in BytesOf(r) BY <1>10, <2>1 DEF Writable
  <2>2. CASE ~(x[1] = p.allocation /\ x[2] \in BytesOf(r))
    BY <1>1, <1>2, <1>10, <2>2 DEF TypeOK
  <2> QED BY <2>1, <2>2
<1>11. ASSUME NEW p \in frame, NEW b \in Byte, NEW v \in frame, ResourceInitialize(p, b, v)
       PROVE  Same \/ Writable(x[1], x[2])
  <2>1. CASE x = <<p.allocation, b>> BY <1>4, <1>11, <2>1 DEF ResourceInitialize
  <2>2. CASE x # <<p.allocation, b>> BY <1>1, <1>2, <1>11, <2>2 DEF ResourceInitialize, TypeOK
  <2> QED BY <2>1, <2>2
<1>12. ASSUME NEW p \in frame, NEW b \in Byte, ResourceTake(p, b)
       PROVE  Same \/ Writable(x[1], x[2])
  <2>1. CASE x = <<p.allocation, b>> BY <1>4, <1>12, <2>1 DEF ResourceTake
  <2>2. CASE x # <<p.allocation, b>> BY <1>1, <1>2, <1>12, <2>2 DEF ResourceTake, TypeOK
  <2> QED BY <2>1, <2>2
<1>13. ASSUME NEW p \in frame, NEW b \in Byte, ObjectDrop(p, b)
       PROVE  Same \/ Writable(x[1], x[2])
  <2>0. /\ LoanAccess(p, At(b), "Write")
        /\ bytes' = [bytes EXCEPT ![p.allocation][b] = Uninit]
        /\ payload' = [payload EXCEPT ![p.allocation][b] = NoPayload]
    BY <1>13 DEF ObjectDrop
  <2>1. CASE x = <<p.allocation, b>> BY <1>4, <2>0, <2>1
  <2>2. CASE x # <<p.allocation, b>> BY <1>1, <1>2, <2>0, <2>2 DEF TypeOK
  <2> QED BY <2>1, <2>2
<1>14. ASSUME NEW p \in frame, NEW q \in frame, NEW b \in Byte, NEW c \in Byte, NEW m,
              ObjectCopy(p, b, q, c, m)
       PROVE  Same \/ Writable(x[1], x[2])
  <2>0. /\ LoanAccess(q, At(c), "Write")
        /\ bytes' = [bytes EXCEPT ![q.allocation][c] = bytes[p.allocation][b]]
        /\ \E w : payload' = [payload EXCEPT ![q.allocation][c] = w] \/ payload' = payload
    BY <1>14 DEF ObjectCopy, Transferable
  <2>1. CASE x = <<q.allocation, c>> BY <1>4, <2>0, <2>1
  <2>2. CASE x # <<q.allocation, c>> BY <1>1, <1>2, <2>0, <2>2 DEF TypeOK
  <2> QED BY <2>1, <2>2
<1>15. ASSUME NEW p \in frame, NEW q \in frame, NEW b \in Byte, NEW c \in Byte, NEW m,
              ObjectMove(p, b, q, c, m)
       PROVE  Same \/ Writable(x[1], x[2])
  <2> DEFINE B == [bytes EXCEPT ![q.allocation][c] = bytes[p.allocation][b]]
             P == [payload EXCEPT ![q.allocation][c] = payload[p.allocation][b]]
  <2>0. /\ LoanAccess(q, At(c), "Write") /\ LoanAccess(p, At(b), "Move")
        /\ bytes' = [B EXCEPT ![p.allocation][b] = Uninit]
        /\ payload' = [P EXCEPT ![p.allocation][b] = NoPayload]
    BY <1>15 DEF ObjectMove, Transferable
  <2>1. CASE x = <<q.allocation, c>> \/ x = <<p.allocation, b>> BY <1>4, <2>0, <2>1
  <2>2. CASE x # <<q.allocation, c>> /\ x # <<p.allocation, b>>
    <3>1. /\ B \in [Allocations -> [Byte -> Values \cup {Uninit, Bits}]]
          /\ P \in [Allocations -> [Byte -> Permission \cup {NoPayload}]]
          /\ B[x[1]][x[2]] = bytes[x[1]][x[2]] /\ P[x[1]][x[2]] = payload[x[1]][x[2]]
      BY <1>1, <1>2, <2>2 DEF TypeOK
    <3> HIDE DEF B, P
    <3> QED BY <1>1, <1>2, <2>0, <2>2, <3>1
  <2> QED BY <2>1, <2>2
<1>16. CASE ScalarStep
  <2>1. ASSUME NEW p \in frame, NEW r \in Range, NEW k, Deinitialize(p, r, k)
        PROVE  Same \/ Writable(x[1], x[2])
    BY <1>10, <2>1 DEF Deinitialize
  <2> QED BY <1>9, <1>16, <2>1 DEF ScalarStep
<1>17. CASE PayloadStep
  <2>1. ASSUME NEW p \in frame, NEW r \in Range, ResourceStorageReset(p, r)
        PROVE  Same \/ Writable(x[1], x[2])
    BY <1>10, <2>1 DEF ResourceStorageReset
  <2> QED BY <1>11, <1>12, <1>13, <1>14, <1>15, <1>17, <2>1 DEF PayloadStep
<1> QED BY <1>5, <1>6, <1>7, <1>8, <1>16, <1>17 DEF Next

-----------------------------------------------------------------------------
(* Theorems. *)

\* The inductive invariant holds along every execution of a frame.
THEOREM MemInvHolds == Spec => []MemInv
BY InitMem, NextMem, PTL DEF Spec

\* Authorities are neither forged nor duplicated, wherever the references that
\* carry them are taken, moved, copied and stored.
THEOREM AuthorityLinearHolds == Spec => []AuthorityLinear
<1>1. MemInv => AuthorityLinear
  BY DEF MemInv, Holdings, FramePart, StoredPart, CrossPart, Sound, Separate, AuthorityLinear
<1> QED BY <1>1, MemInvHolds, PTL

\* Each byte has at most one owner, in the frame or stored in an object.
THEOREM OwnersDisjointHolds == Spec => []OwnersDisjoint
<1>1. MemInv => OwnersDisjoint
  <2> SUFFICES ASSUME MemInv PROVE OwnersDisjoint OBVIOUS
  <2>1. \A x \in StoredPermissions : Stored(x).loan = NoLoan => BytesOf(Stored(x).range) = Byte
    BY WholeBytes DEF MemInv, Holdings, StoredPart, Slotted
  <2>2. \A p, q \in frame : p # q => Separate(p, q) BY DEF MemInv, Holdings, FramePart
  <2>3. \A x, y \in StoredPermissions : x # y => Separate(Stored(x), Stored(y))
    BY DEF MemInv, Holdings, StoredPart
  <2>4. \A p \in frame, x \in StoredPermissions : Separate(p, Stored(x))
    BY DEF MemInv, Holdings, CrossPart
  <2>5. \A x, y \in StoredPermissions :
          /\ Stored(x).loan = NoLoan /\ Stored(y).loan = NoLoan
          /\ Stored(x).allocation = Stored(y).allocation
          => x = y
    BY <2>1, <2>3, WholeBytes DEF Separate
  <2>6. \A p \in frame, x \in StoredPermissions :
          p.loan = NoLoan /\ Stored(x).loan = NoLoan /\ p.allocation = Stored(x).allocation
          => BytesOf(p.range) = {}
    BY <2>1, <2>4, WholeBytes DEF Separate
  <2> QED BY <2>2, <2>5, <2>6 DEF OwnersDisjoint, Separate
<1> QED BY <1>1, MemInvHolds, PTL

\* An owner that sits in an object has none of its bytes lent, so object_drop may
\* free it without looking at the loans.
THEOREM StoredOwnerNotLentHolds == Spec => []StoredOwnerNotLent
<1>1. MemInv => StoredOwnerNotLent BY DEF MemInv, Lending
<1> QED BY <1>1, MemInvHolds, PTL

\* No free, drop or return releases storage while some of its bytes are lent.
THEOREM LentStorageAliveHolds == Spec => []LentStorageAlive
<1>1. MemInv => LentStorageAlive BY DEF MemInv, Lending
<1> QED BY <1>1, MemInvHolds, PTL

\* The bytes and the payload of a place for a pointer come and go together.
THEOREM PayloadMatchesBytesHolds == Spec => []PayloadMatchesBytes
<1>1. MemInv => PayloadMatchesBytes BY DEF MemInv
<1> QED BY <1>1, MemInvHolds, PTL

\* After the return no object holds a reference, and every stored owner still
\* owns live storage.
THEOREM NothingDanglesHolds == Spec => []NothingDangles
<1>1. MemInv => NothingDangles BY DEF MemInv
<1> QED BY <1>1, MemInvHolds, PTL

\* What a shared reference sees does not change while its loan lives, whichever
\* instruction runs and through whichever permission.
THEOREM SharedContentsStableHolds == Spec => SharedContentsStable
<1> DEFINE Stable ==
       \A l \in LoanIds :
          /\ Live(loans, l) /\ Live(loans', l) /\ loans[l].kind = "Shared"
          => \A b \in BytesOf(loans[l].range) :
                /\ bytes'[loans[l].allocation][b] = bytes[loans[l].allocation][b]
                /\ payload'[loans[l].allocation][b] = payload[loans[l].allocation][b]
<1>1. Invariant /\ [Next]_vars => [Stable]_vars
  <2> SUFFICES ASSUME Invariant, Next PROVE Stable OBVIOUS
  <2> SUFFICES ASSUME NEW l \in LoanIds, Live(loans, l), loans[l].kind = "Shared",
                      NEW b \in BytesOf(loans[l].range)
               PROVE  /\ bytes'[loans[l].allocation][b] = bytes[loans[l].allocation][b]
                      /\ payload'[loans[l].allocation][b] = payload[loans[l].allocation][b]
    OBVIOUS
  <2> DEFINE x == <<loans[l].allocation, b>>
  <2>1. loans[l].allocation \in Allocations /\ b \in Byte
    BY WholeBytes DEF Invariant, TypeOK, Loan
  <2>2. x \in Places /\ x[1] = loans[l].allocation /\ x[2] = b BY <2>1, PlacePairs
  <2>3. ~Writable(loans[l].allocation, b) BY WritersExcludeReaders
  <2> HIDE DEF x
  <2> QED BY <2>2, <2>3, OnlyWritableChanges
<1> QED BY <1>1, InvariantHolds, PTL DEF Spec, SharedContentsStable

=============================================================================
