------------------------------ MODULE LoanTable ------------------------------
(***************************************************************************)
(* The loan table of one function invocation, as the interpreter keeps it  *)
(* (RuntimeLoanShadow.loans): a partial map from loan ids to loans.  This  *)
(* module has no variables: every operation of the shadow is a guard on a  *)
(* table and the table it leaves behind, so that each module that keeps a  *)
(* table (one frame, a stack of frames, the verifier's lock-step check)    *)
(* uses the same operations.                                               *)
(*                                                                         *)
(* No operation tells a loan id that was never defined from one whose loan *)
(* has ended, and none reads another field of an ended loan: both have the *)
(* record Blank.  The static metadata of a loan (region, pointee,          *)
(* envelope) is left out: the code only compares it with the same metadata *)
(* of the instruction, which is an input here.                             *)
(***************************************************************************)
EXTENDS Integers, FiniteSets

CONSTANTS
    LoanIds,         \* frame-local loan identities (VirLoanId)
    NoLoan,          \* "no parent" and "no loan authority"
    Allocations,     \* allocation identities
    Size,            \* bytes in an allocation
    MaxActiveLoans,  \* RuntimeLoanLimits.active_loans
    MaxAliases,      \* RuntimeLoanLimits.aliases_per_loan
    MaxDepth         \* RuntimeLoanLimits.reborrow_depth

ASSUME LoanTableAssumption ==
    /\ NoLoan \notin LoanIds
    /\ Allocations # {}
    /\ Size \in Nat
    /\ MaxActiveLoans \in Nat
    /\ MaxAliases \in Nat
    /\ MaxDepth \in Nat

-----------------------------------------------------------------------------
(* Half-open byte ranges. *)

Offsets == 0 .. Size

Range == {r \in [start : Offsets, end : Offsets] : r.start <= r.end}

BytesOf(r) == {b \in 0 .. Size - 1 : r.start <= b /\ b < r.end}

Contains(outer, inner) ==
    outer.start <= inner.start /\ inner.end <= outer.end

Overlap(r, s) == r.start < s.end /\ s.start < r.end

-----------------------------------------------------------------------------
(* Loans. *)

Kind == {"Shared", "Mutable"}

Activity == {"Active", "Suspended", "Ended"}

Loan == [activity : Activity, allocation : Allocations, range : Range,
         kind : Kind, parent : LoanIds \cup {NoLoan}, authorities : SUBSET Nat]

Blank ==
    [activity |-> "Ended", allocation |-> CHOOSE a \in Allocations : TRUE,
     range |-> [start |-> 0, end |-> 0], kind |-> "Shared",
     parent |-> NoLoan, authorities |-> {}]

NewLoan(a, r, k, p, token) ==
    [activity |-> "Active", allocation |-> a, range |-> r, kind |-> k,
     parent |-> p, authorities |-> {token}]

Live(L, l) == L[l].activity # "Ended"

LiveLoans(L) == {l \in LoanIds : Live(L, l)}

ActiveCount(L) == Cardinality(LiveLoans(L))

HasActiveChild(L, p) == \E l \in LoanIds : L[l].parent = p /\ Live(L, l)

\* A set of loans that contains the parent of each of its members.
ParentClosed(L, S) == \A s \in S : L[s].parent \in LoanIds => L[s].parent \in S

\* What the walk along the parent fields collects, starting at l: the smallest
\* parent-closed set with l in it.
Chain(L, l) ==
    {q \in LoanIds :
        \A S \in SUBSET LoanIds : l \in S /\ ParentClosed(L, S) => q \in S}

\* Two kinds may lend the same bytes only when both are shared.
BothShared(k1, k2) == k1 = "Shared" /\ k2 = "Shared"

\* (Mutant: a suspended loan no longer counts.)
CreationConflictActiveOnly(L, a, r, k, ignored) ==
    \E l \in LoanIds \ ignored :
        /\ L[l].activity = "Active"
        /\ L[l].allocation = a
        /\ Overlap(r, L[l].range)
        /\ ~BothShared(L[l].kind, k)

CreationConflict(L, a, r, k, ignored) ==
    \E l \in LoanIds \ ignored :
        /\ Live(L, l)
        /\ L[l].allocation = a
        /\ Overlap(r, L[l].range)
        /\ ~BothShared(L[l].kind, k)

-----------------------------------------------------------------------------
(* Creating loans and aliases. *)

CanCreate(L, l) ==
    /\ ~Live(L, l)
    /\ ActiveCount(L) < MaxActiveLoans
    /\ MaxAliases > 0

BeginAllowed(L, l, a, r, k) ==
    /\ CanCreate(L, l)
    /\ ~CreationConflict(L, a, r, k, {})

BeginLoan(L, l, a, r, k, token) == [L EXCEPT ![l] = NewLoan(a, r, k, NoLoan, token)]

ReborrowAllowed(L, l, p, r, k, held) ==
    /\ CanCreate(L, l)
    /\ Live(L, p)
    /\ held \in L[p].authorities
    /\ Contains(L[p].range, r)
    /\ L[p].kind = "Shared" => k = "Shared"
    /\ Cardinality(Chain(L, p)) <= MaxDepth
    /\ ~CreationConflict(L, L[p].allocation, r, k, Chain(L, p))

\* The parent of an exclusive child is suspended while the child lives.
Suspend(L, p, k) ==
    IF BothShared(L[p].kind, k) THEN L ELSE [L EXCEPT ![p].activity = "Suspended"]

ReborrowLoan(L, l, p, r, k, token) ==
    [Suspend(L, p, k) EXCEPT ![l] = NewLoan(L[p].allocation, r, k, p, token)]

AliasAllowed(L, l, held) ==
    /\ L[l].activity = "Active"
    /\ L[l].kind = "Shared"
    /\ held \in L[l].authorities
    /\ Cardinality(L[l].authorities) < MaxAliases

AliasLoan(L, l, token) == [L EXCEPT ![l].authorities = @ \cup {token}]

-----------------------------------------------------------------------------
(* Ending one authority; the last one ends the loan and gives the parent   *)
(* back what it lent, once no other child of the parent is left.           *)

EndAllowed(L, l, held) ==
    /\ L[l].activity = "Active"
    /\ held \in L[l].authorities
    /\ ~HasActiveChild(L, l)

EndStoredAllowed(L, l, held) ==
    /\ L[l].activity = "Active"
    /\ held \in L[l].authorities
    /\ ~(L[l].authorities = {held} /\ HasActiveChild(L, l))

\* (Mutant: the first child that ends gives the parent back.)
RestoreParentEarly(L, p) ==
    IF p \in LoanIds /\ L[p].activity = "Suspended"
    THEN [L EXCEPT ![p].activity = "Active"]
    ELSE L

RestoreParent(L, p) ==
    IF p \in LoanIds /\ ~HasActiveChild(L, p) /\ L[p].activity = "Suspended"
    THEN [L EXCEPT ![p].activity = "Active"]
    ELSE L

EndLoan(L, l, held) ==
    IF L[l].authorities = {held}
    THEN RestoreParent([L EXCEPT ![l] = Blank], L[l].parent)
    ELSE [L EXCEPT ![l].authorities = @ \ {held}]

-----------------------------------------------------------------------------
(* Permissions and accesses.  A permission value is an owner's (loan =     *)
(* NoLoan) or carries the authority (loan, token) of a loan.               *)

Access == {"Read", "Write", "Move", "Free"}

NoToken == -1

Permission == [allocation : Allocations, range : Range, free : BOOLEAN,
               loan : LoanIds \cup {NoLoan}, token : Nat \cup {NoToken}]

Owner(a, r, f) ==
    [allocation |-> a, range |-> r, free |-> f, loan |-> NoLoan, token |-> NoToken]

\* define_results: the permission of a reference never frees.
Carrier(a, r, l, token) ==
    [allocation |-> a, range |-> r, free |-> FALSE, loan |-> l, token |-> token]

KindAllows(k, access) ==
    access \in (IF k = "Shared" THEN {"Read"} ELSE {"Read", "Write", "Move"})

\* (Mutant: a suspended loan is still used.)
AuthorityAccessSuspended(L, p, r, access) ==
    /\ Live(L, p.loan)
    /\ p.token \in L[p.loan].authorities
    /\ L[p.loan].allocation = p.allocation
    /\ Contains(L[p.loan].range, r)
    /\ KindAllows(L[p.loan].kind, access)

\* An access through a loan looks at that loan alone.
AuthorityAccess(L, p, r, access) ==
    /\ L[p.loan].activity = "Active"
    /\ p.token \in L[p.loan].authorities
    /\ L[p.loan].allocation = p.allocation
    /\ Contains(L[p.loan].range, r)
    /\ KindAllows(L[p.loan].kind, access)

\* (Mutant: a shared loan lets the owner write.)
OwnerAccessUnderShared(L, p, r, access) ==
    \A l \in LoanIds :
        /\ Live(L, l)
        /\ L[l].allocation = p.allocation
        /\ Overlap(r, L[l].range)
        => L[l].kind = "Shared"

\* An access by the owner must not disturb any loan.
OwnerAccess(L, p, r, access) ==
    \A l \in LoanIds :
        /\ Live(L, l)
        /\ L[l].allocation = p.allocation
        /\ Overlap(r, L[l].range)
        => access = "Read" /\ L[l].kind = "Shared"

CheckAccess(L, p, r, access) ==
    IF p.loan \in LoanIds THEN AuthorityAccess(L, p, r, access)
                          ELSE OwnerAccess(L, p, r, access)

\* (Mutant: only exclusive loans must have ended.)
FinishAllowedShared(L) == \A l \in LiveLoans(L) : L[l].kind = "Shared"

\* finish: a frame returns only when every loan has ended.
FinishAllowed(L) == LiveLoans(L) = {}

-----------------------------------------------------------------------------
(* What a loan table must satisfy, stated over a table so that the modules *)
(* that keep tables can share it.                                          *)

\* A loan is live exactly as long as somebody holds an authority over it, and an
\* exclusive loan has a single holder.
Held(L) ==
    \A l \in LoanIds :
        /\ Live(L, l) <=> L[l].authorities # {}
        /\ L[l].kind = "Mutable" => \A t, u \in L[l].authorities : t = u

\* A live child is nested in a live parent: it borrows a part of the parent's
\* bytes and is no stronger than the parent.
Nested(L) ==
    \A l \in LiveLoans(L) : L[l].parent \in LoanIds =>
        LET p == L[l].parent IN
        /\ Live(L, p)
        /\ L[p].allocation = L[l].allocation
        /\ Contains(L[p].range, L[l].range)
        /\ L[p].kind = "Shared" => L[l].kind = "Shared"

\* An exclusive loan is suspended exactly while some child of it is live; a
\* shared loan is never suspended.
SuspendedWhileLent(L) ==
    \A l \in LiveLoans(L) :
        L[l].activity = "Suspended" <=> L[l].kind = "Mutable" /\ HasActiveChild(L, l)

\* Two live loans that share a byte, one of them exclusive, are related: one was
\* reborrowed (directly or not) from the other.
Exclusive(L) ==
    \A l, m \in LiveLoans(L) :
        /\ L[l].allocation = L[m].allocation
        /\ Overlap(L[l].range, L[m].range)
        /\ ~BothShared(L[l].kind, L[m].kind)
        => l \in Chain(L, m) \/ m \in Chain(L, l)

=============================================================================
