--------------------------- MODULE LoanTableProofs ---------------------------
(***************************************************************************)
(* The operations of LoanTable preserve the four properties of a table     *)
(* (Held, Nested, SuspendedWhileLent, Exclusive), whatever the sets of     *)
(* loans, bytes and tokens.  Chain is defined as the smallest parent-closed *)
(* set, so no proof needs an induction along the parent fields: to show    *)
(* that a chain stays inside a set, show that the set is parent-closed.    *)
(***************************************************************************)
EXTENDS LoanTable, TLAPS

Table == [LoanIds -> Loan]

TableInv(L) == Held(L) /\ Nested(L) /\ SuspendedWhileLent(L) /\ Exclusive(L)

-----------------------------------------------------------------------------
(* Chains. *)

\* A chain contains the loan it starts from.
LEMMA ChainSelf ==
    ASSUME NEW L, NEW l \in LoanIds
    PROVE  l \in Chain(L, l)
BY DEF Chain

\* A chain contains the parent of each of its members.
LEMMA ChainClosed ==
    ASSUME NEW L, NEW l \in LoanIds
    PROVE  ParentClosed(L, Chain(L, l))
BY DEF Chain, ParentClosed

\* A chain is inside every parent-closed set of loans that its start is in.
LEMMA ChainLeast ==
    ASSUME NEW L, NEW l \in LoanIds, NEW S \in SUBSET LoanIds, l \in S, ParentClosed(L, S)
    PROVE  Chain(L, l) \subseteq S
BY DEF Chain

\* In a nested table the chain of a live loan consists of live loans.
LEMMA ChainLive ==
    ASSUME NEW L \in Table, Nested(L), NEW l \in LiveLoans(L)
    PROVE  Chain(L, l) \subseteq LiveLoans(L)
<1>1. ParentClosed(L, LiveLoans(L)) BY DEF ParentClosed, Nested, LiveLoans
<1>2. LiveLoans(L) \in SUBSET LoanIds /\ l \in LoanIds BY DEF LiveLoans
<1> QED BY <1>1, <1>2, ChainLeast

\* A chain depends only on the parents of the loans in it.
LEMMA ChainSame ==
    ASSUME NEW L, NEW M, NEW l \in LoanIds,
           \A s \in Chain(L, l) : M[s].parent = L[s].parent
    PROVE  Chain(M, l) = Chain(L, l)
<1> DEFINE A == Chain(L, l)
           B == Chain(M, l)
<1>1. A \in SUBSET LoanIds /\ B \in SUBSET LoanIds BY DEF Chain
<1>2. ParentClosed(M, A) BY ChainClosed DEF ParentClosed
<1>3. B \subseteq A BY <1>1, <1>2, ChainSelf, ChainLeast
<1>4. ParentClosed(L, B)
  <2>1. ParentClosed(M, B) BY ChainClosed
  <2> QED BY <2>1, <1>3 DEF ParentClosed
<1>5. A \subseteq B BY <1>1, <1>4, ChainSelf, ChainLeast
<1> QED BY <1>3, <1>5

\* A loan in the chain of another live loan has a live child.
LEMMA ChainChild ==
    ASSUME NEW L \in Table, Nested(L), NEW m \in LiveLoans(L), NEW l \in Chain(L, m), l # m
    PROVE  HasActiveChild(L, l)
<1> DEFINE S == Chain(L, m) \ {l}
<1>1. S \in SUBSET LoanIds /\ m \in LoanIds /\ m \in S
  BY ChainSelf DEF Chain, LiveLoans
<1>2. ~(Chain(L, m) \subseteq S) OBVIOUS
<1>3. ~ParentClosed(L, S) BY <1>1, <1>2, ChainLeast
<1>4. PICK s \in S : L[s].parent \in LoanIds /\ L[s].parent \notin S BY <1>3 DEF ParentClosed
<1>5. L[s].parent \in Chain(L, m)
  <2>1. ParentClosed(L, Chain(L, m)) BY <1>1, ChainClosed
  <2> QED BY <2>1, <1>4 DEF ParentClosed
<1>6. L[s].parent = l BY <1>4, <1>5
<1>7. s \in LiveLoans(L) BY ChainLive
<1> QED BY <1>6, <1>7 DEF HasActiveChild, LiveLoans

\* What an exclusive loan was reborrowed from is exclusive too.
LEMMA ChainMutable ==
    ASSUME NEW L \in Table, Nested(L), NEW m \in LiveLoans(L), L[m].kind = "Mutable",
           NEW l \in Chain(L, m)
    PROVE  L[l].kind = "Mutable"
<1> DEFINE S == {s \in LiveLoans(L) : L[s].kind = "Mutable"}
<1>1. S \in SUBSET LoanIds /\ m \in S /\ m \in LoanIds BY DEF LiveLoans
<1>2. ParentClosed(L, S)
  <2> SUFFICES ASSUME NEW s \in S, L[s].parent \in LoanIds
               PROVE  L[s].parent \in S
    BY DEF ParentClosed
  <2>1. Live(L, L[s].parent) /\ (L[L[s].parent].kind = "Shared" => L[s].kind = "Shared")
    BY DEF Nested
  <2>2. L[L[s].parent].kind \in {"Shared", "Mutable"} BY DEF Table, Loan, Kind
  <2> QED BY <2>1, <2>2 DEF LiveLoans
<1>3. Chain(L, m) \subseteq S BY <1>1, <1>2, ChainLeast
<1> QED BY <1>3

-----------------------------------------------------------------------------
(* Tables that differ in activity or authorities only. *)

\* Two tables with the same live loans, parents, kinds, bytes.
SameLoans(L, M) ==
    \A l \in LoanIds :
        /\ Live(M, l) <=> Live(L, l)
        /\ M[l].parent = L[l].parent
        /\ M[l].kind = L[l].kind
        /\ M[l].allocation = L[l].allocation
        /\ M[l].range = L[l].range

\* Nesting and exclusion do not depend on who is suspended or who holds what.
LEMMA SameLoansInv ==
    ASSUME NEW L \in Table, NEW M \in Table, SameLoans(L, M), Nested(L), Exclusive(L)
    PROVE  /\ LiveLoans(M) = LiveLoans(L)
           /\ \A x : HasActiveChild(M, x) <=> HasActiveChild(L, x)
           /\ Nested(M)
           /\ Exclusive(M)
<1>1. LiveLoans(M) = LiveLoans(L) BY DEF LiveLoans, SameLoans
<1>2. \A x : HasActiveChild(M, x) <=> HasActiveChild(L, x) BY DEF HasActiveChild, SameLoans
<1>3. \A l \in LoanIds : Chain(M, l) = Chain(L, l)
  <2> SUFFICES ASSUME NEW l \in LoanIds PROVE Chain(M, l) = Chain(L, l) OBVIOUS
  <2>1. \A s \in Chain(L, l) : M[s].parent = L[s].parent BY DEF Chain, SameLoans
  <2> QED BY <2>1, ChainSame
<1>4. Nested(M) BY <1>1 DEF Nested, SameLoans, LiveLoans
<1>5. Exclusive(M)
  <2> SUFFICES ASSUME NEW l \in LiveLoans(M), NEW m \in LiveLoans(M),
                      M[l].allocation = M[m].allocation,
                      Overlap(M[l].range, M[m].range),
                      ~BothShared(M[l].kind, M[m].kind)
               PROVE  l \in Chain(M, m) \/ m \in Chain(M, l)
    BY DEF Exclusive
  <2>1. l \in LoanIds /\ m \in LoanIds BY DEF LiveLoans
  <2>2. l \in Chain(L, m) \/ m \in Chain(L, l) BY <1>1, <2>1 DEF Exclusive, SameLoans
  <2> QED BY <2>1, <2>2, <1>3
<1> QED BY <1>1, <1>2, <1>4, <1>5

-----------------------------------------------------------------------------
(* Adding a loan. *)

\* A new loan under parent p: a loan id that is free, a single authority, inside
\* its parent, and in conflict only with what the parent was reborrowed from.
Addable(L, l, N) ==
    /\ N \in Loan
    /\ N.activity = "Active"
    /\ \E t \in Nat : N.authorities = {t}
    /\ ~Live(L, l)
    /\ N.parent \in LoanIds =>
          /\ Live(L, N.parent)
          /\ L[N.parent].allocation = N.allocation
          /\ Contains(L[N.parent].range, N.range)
          /\ L[N.parent].kind = "Shared" => N.kind = "Shared"
    /\ \A m \in LiveLoans(L) :
          L[m].allocation = N.allocation /\ Overlap(N.range, L[m].range)
             /\ ~BothShared(L[m].kind, N.kind)
          => N.parent \in LoanIds /\ m \in Chain(L, N.parent)

\* Adding such a loan keeps a table held, nested and exclusive.
LEMMA AddLoan ==
    ASSUME NEW L \in Table, NEW l \in LoanIds, NEW N, Addable(L, l, N),
           Held(L), Nested(L), Exclusive(L)
    PROVE  LET M == [L EXCEPT ![l] = N] IN
           /\ M \in Table
           /\ LiveLoans(M) = LiveLoans(L) \cup {l}
           /\ \A x \in LoanIds : HasActiveChild(M, x) <=> HasActiveChild(L, x) \/ x = N.parent
           /\ ~HasActiveChild(M, l)
           /\ Held(M)
           /\ Nested(M)
           /\ Exclusive(M)
<1> DEFINE M == [L EXCEPT ![l] = N]
<1>1. M \in Table BY DEF Table, Addable
<1>2. M[l] = N /\ \A x \in LoanIds : x # l => M[x] = L[x] BY DEF Table
<1>3. LiveLoans(M) = LiveLoans(L) \cup {l} /\ l \notin LiveLoans(L)
  BY <1>2 DEF LiveLoans, Live, Addable
<1>4. N.parent # l BY DEF Addable
<1>5. \A m \in LiveLoans(L) : l \notin Chain(L, m) BY <1>3, ChainLive
<1>6. \A x \in LoanIds : HasActiveChild(M, x) <=> HasActiveChild(L, x) \/ x = N.parent
  BY <1>2, <1>3 DEF HasActiveChild, Live, Addable
<1>7. ~HasActiveChild(L, l) BY <1>3 DEF HasActiveChild, Nested, LiveLoans
<1>8. ~HasActiveChild(M, l) BY <1>4, <1>6, <1>7
<1>9. Held(M)
  <2>1. PICK t \in Nat : N.authorities = {t} BY DEF Addable
  <2> QED BY <1>2, <2>1 DEF Held, Live, Addable
<1>10. Nested(M) BY <1>2, <1>3, <1>4 DEF Nested, Live, LiveLoans, Addable
<1>11. \A m \in LiveLoans(L) : Chain(M, m) = Chain(L, m)
  <2> SUFFICES ASSUME NEW m \in LiveLoans(L) PROVE Chain(M, m) = Chain(L, m) OBVIOUS
  <2>1. m \in LoanIds BY DEF LiveLoans
  <2>2. \A s \in Chain(L, m) : M[s].parent = L[s].parent BY <1>2, <1>5 DEF Chain
  <2> QED BY <2>1, <2>2, ChainSame
<1>12. N.parent \in LoanIds => Chain(L, N.parent) \subseteq Chain(M, l)
  <2> SUFFICES ASSUME N.parent \in LoanIds PROVE Chain(L, N.parent) \subseteq Chain(M, l) OBVIOUS
  <2>1. N.parent \in LiveLoans(L) BY DEF Addable, LiveLoans
  <2>2. N.parent \in Chain(M, l) BY <1>2, ChainSelf, ChainClosed DEF ParentClosed
  <2>3. Chain(M, l) \in SUBSET LoanIds /\ ParentClosed(M, Chain(M, l)) BY ChainClosed DEF Chain
  <2>4. Chain(M, N.parent) \subseteq Chain(M, l) BY <2>2, <2>3, ChainLeast
  <2> QED BY <2>1, <2>4, <1>11
<1>13. Exclusive(M)
  <2> SUFFICES ASSUME NEW x \in LiveLoans(M), NEW y \in LiveLoans(M),
                      M[x].allocation = M[y].allocation,
                      Overlap(M[x].range, M[y].range),
                      ~BothShared(M[x].kind, M[y].kind)
               PROVE  x \in Chain(M, y) \/ y \in Chain(M, x)
    BY DEF Exclusive
  <2>0. x \in LoanIds /\ y \in LoanIds BY DEF LiveLoans
  <2>1. CASE x # l /\ y # l
    <3>1. x \in LiveLoans(L) /\ y \in LiveLoans(L) BY <2>1, <1>3
    <3>2. x \in Chain(L, y) \/ y \in Chain(L, x) BY <3>1, <2>0, <2>1, <1>2 DEF Exclusive
    <3> QED BY <3>1, <3>2, <1>11
  <2>2. CASE x = l /\ y # l
    <3>1. y \in LiveLoans(L) BY <2>2, <1>3
    <3>2. L[y].allocation = N.allocation /\ Overlap(N.range, L[y].range)
             /\ ~BothShared(L[y].kind, N.kind)
      BY <2>0, <2>2, <1>2 DEF BothShared
    <3>3. N.parent \in LoanIds /\ y \in Chain(L, N.parent) BY <3>1, <3>2 DEF Addable
    <3> QED BY <3>3, <1>12, <2>2
  <2>3. CASE x # l /\ y = l
    <3>1. x \in LiveLoans(L) BY <2>3, <1>3
    <3>2. L[x].allocation = N.allocation /\ Overlap(N.range, L[x].range)
             /\ ~BothShared(L[x].kind, N.kind)
      BY <2>0, <2>3, <1>2 DEF BothShared, Overlap
    <3>3. N.parent \in LoanIds /\ x \in Chain(L, N.parent) BY <3>1, <3>2 DEF Addable
    <3> QED BY <3>3, <1>12, <2>3
  <2>4. CASE x = l /\ y = l BY <2>4, ChainSelf
  <2> QED BY <2>1, <2>2, <2>3, <2>4
<1> QED BY <1>1, <1>3, <1>6, <1>8, <1>9, <1>10, <1>13

-----------------------------------------------------------------------------
(* The operations. *)

\* An empty table satisfies the invariant.
LEMMA BlankTable ==
    LET L == [l \in LoanIds |-> Blank] IN L \in Table /\ TableInv(L)
<1> DEFINE L == [l \in LoanIds |-> Blank]
<1>1. Blank \in Loan
  <2>1. (CHOOSE a \in Allocations : TRUE) \in Allocations BY LoanTableAssumption
  <2>2. [start |-> 0, end |-> 0] \in Range BY LoanTableAssumption DEF Range, Offsets
  <2> QED BY <2>1, <2>2 DEF Blank, Loan, Activity, Kind
<1>2. LiveLoans(L) = {} BY DEF LiveLoans, Live, Blank
<1>3. Held(L) BY DEF Held, Live, Blank
<1> QED BY <1>1, <1>2, <1>3 DEF Table, TableInv, Nested, SuspendedWhileLent, Exclusive

\* The record of an ended loan.
LEMMA BlankLoan == Blank \in Loan /\ Blank.activity = "Ended" /\ Blank.authorities = {}
<1>1. (CHOOSE a \in Allocations : TRUE) \in Allocations BY LoanTableAssumption
<1>2. [start |-> 0, end |-> 0] \in Range BY LoanTableAssumption DEF Range, Offsets
<1> QED BY <1>1, <1>2 DEF Blank, Loan, Activity, Kind

\* A new loan without a parent, where none conflicts with it.
LEMMA FirstLoanInv ==
    ASSUME NEW L \in Table, TableInv(L), NEW l \in LoanIds, NEW a \in Allocations,
           NEW r \in Range, NEW k \in Kind, NEW t \in Nat,
           ~Live(L, l), ~CreationConflict(L, a, r, k, {})
    PROVE  BeginLoan(L, l, a, r, k, t) \in Table /\ TableInv(BeginLoan(L, l, a, r, k, t))
<1> DEFINE N == NewLoan(a, r, k, NoLoan, t)
           M == [L EXCEPT ![l] = N]
<1>0. NoLoan \notin LoanIds BY LoanTableAssumption
<1>1. N \in Loan /\ N.activity = "Active" /\ N.authorities = {t} /\ N.parent = NoLoan
         /\ N.allocation = a /\ N.range = r /\ N.kind = k
  BY DEF NewLoan, Loan, Activity
<1> HIDE DEF N
<1>2. Addable(L, l, N)
  <2>1. ~Live(L, l) OBVIOUS
  <2>2. \A m \in LiveLoans(L) : ~(L[m].allocation = a /\ Overlap(r, L[m].range)
                                     /\ ~BothShared(L[m].kind, k))
    BY DEF CreationConflict, LiveLoans
  <2> QED BY <1>0, <1>1, <2>1, <2>2 DEF Addable
<1>3. Held(L) /\ Nested(L) /\ Exclusive(L) /\ SuspendedWhileLent(L) BY DEF TableInv
<1>4. /\ M \in Table /\ Held(M) /\ Nested(M) /\ Exclusive(M)
      /\ LiveLoans(M) = LiveLoans(L) \cup {l} /\ ~HasActiveChild(M, l)
      /\ \A x \in LoanIds : HasActiveChild(M, x) <=> HasActiveChild(L, x) \/ x = N.parent
  BY <1>2, <1>3, AddLoan
<1>5. M[l] = N /\ \A x \in LoanIds : x # l => M[x] = L[x] BY DEF Table
<1>6. SuspendedWhileLent(M)
  <2> SUFFICES ASSUME NEW x \in LiveLoans(M)
               PROVE  M[x].activity = "Suspended" <=> M[x].kind = "Mutable" /\ HasActiveChild(M, x)
    BY DEF SuspendedWhileLent
  <2>1. x \in LoanIds BY DEF LiveLoans
  <2>2. CASE x = l BY <2>2, <1>1, <1>4, <1>5
  <2>3. CASE x # l
    <3>1. x \in LiveLoans(L) BY <2>3, <1>4
    <3>2. HasActiveChild(M, x) <=> HasActiveChild(L, x) BY <2>1, <1>0, <1>1, <1>4
    <3> QED BY <3>1, <3>2, <2>1, <2>3, <1>3, <1>5 DEF SuspendedWhileLent
  <2> QED BY <2>2, <2>3
<1>7. BeginLoan(L, l, a, r, k, t) = M BY DEF BeginLoan, N
<1> QED BY <1>4, <1>6, <1>7 DEF TableInv

\* begin
LEMMA BeginInv ==
    ASSUME NEW L \in Table, TableInv(L), NEW l \in LoanIds, NEW a \in Allocations,
           NEW r \in Range, NEW k \in Kind, NEW t \in Nat, BeginAllowed(L, l, a, r, k)
    PROVE  BeginLoan(L, l, a, r, k, t) \in Table /\ TableInv(BeginLoan(L, l, a, r, k, t))
BY FirstLoanInv DEF BeginAllowed, CanCreate

\* Suspending a live exclusive loan changes no other part of the table.
LEMMA SuspendSame ==
    ASSUME NEW L \in Table, Held(L), NEW p \in LoanIds, Live(L, p), NEW k \in Kind
    PROVE  /\ Suspend(L, p, k) \in Table
           /\ SameLoans(L, Suspend(L, p, k))
           /\ Held(Suspend(L, p, k))
           /\ \A x \in LoanIds : x # p => Suspend(L, p, k)[x] = L[x]
           /\ Suspend(L, p, k)[p].activity =
                 IF BothShared(L[p].kind, k) THEN L[p].activity ELSE "Suspended"
<1>1. CASE BothShared(L[p].kind, k)
  <2>1. Suspend(L, p, k) = L BY <1>1 DEF Suspend
  <2> QED BY <1>1, <2>1 DEF SameLoans
<1>2. CASE ~BothShared(L[p].kind, k)
  <2> DEFINE M == [L EXCEPT ![p].activity = "Suspended"]
  <2>1. Suspend(L, p, k) = M BY <1>2 DEF Suspend
  <2>2. L[p] \in Loan BY DEF Table
  <2>3. M[p] = [L[p] EXCEPT !.activity = "Suspended"] /\ \A x \in LoanIds : x # p => M[x] = L[x]
    BY DEF Table
  <2>4. M[p] \in Loan BY <2>2, <2>3 DEF Loan, Activity
  <2>5. M \in Table BY <2>4 DEF Table
  <2>6. SameLoans(L, M) BY <2>2, <2>3 DEF SameLoans, Live, Loan
  <2>7. Held(M)
    <3>1. M[p].authorities = L[p].authorities BY <2>2, <2>3 DEF Loan
    <3>2. \A x \in LoanIds : M[x].authorities = L[x].authorities BY <3>1, <2>3
    <3>3. \A x \in LoanIds : (Live(M, x) <=> Live(L, x)) /\ M[x].kind = L[x].kind
      BY <2>6 DEF SameLoans
    <3> HIDE DEF M
    <3> QED BY <3>2, <3>3 DEF Held
  <2>8. M[p].activity = "Suspended" BY <2>2, <2>3 DEF Loan
  <2> QED BY <1>2, <2>1, <2>3, <2>5, <2>6, <2>7, <2>8
<1> QED BY <1>1, <1>2

\* reborrow
LEMMA ReborrowInv ==
    ASSUME NEW L \in Table, TableInv(L), NEW l \in LoanIds, NEW p \in LoanIds,
           NEW r \in Range, NEW k \in Kind, NEW h, NEW t \in Nat,
           ReborrowAllowed(L, l, p, r, k, h)
    PROVE  /\ ReborrowLoan(L, l, p, r, k, t) \in Table
           /\ TableInv(ReborrowLoan(L, l, p, r, k, t))
<1> DEFINE N == NewLoan(L[p].allocation, r, k, p, t)
           S == Suspend(L, p, k)
           M == [S EXCEPT ![l] = N]
<1>1. /\ N \in Loan /\ N.activity = "Active" /\ N.authorities = {t} /\ N.parent = p
      /\ N.allocation = L[p].allocation /\ N.range = r /\ N.kind = k
  <2>1. L[p].allocation \in Allocations BY DEF Table, Loan
  <2> QED BY <2>1 DEF NewLoan, Loan, Activity
<1>2. Held(L) /\ Nested(L) /\ Exclusive(L) /\ SuspendedWhileLent(L) BY DEF TableInv
<1>3. Live(L, p) /\ ~Live(L, l) /\ l # p BY DEF ReborrowAllowed, CanCreate
<1>4. /\ S \in Table /\ SameLoans(L, S) /\ Held(S)
      /\ \A x \in LoanIds : x # p => S[x] = L[x]
      /\ S[p].activity = IF BothShared(L[p].kind, k) THEN L[p].activity ELSE "Suspended"
  BY <1>2, <1>3, SuspendSame
<1>5. \A x \in LoanIds : Live(S, x) <=> Live(L, x) BY <1>4 DEF SameLoans
<1>6. /\ S[p].kind = L[p].kind /\ S[p].allocation = L[p].allocation /\ S[p].range = L[p].range
  BY <1>4 DEF SameLoans
<1> HIDE DEF N, S
<1>7. /\ LiveLoans(S) = LiveLoans(L) /\ Nested(S) /\ Exclusive(S)
      /\ \A x : HasActiveChild(S, x) <=> HasActiveChild(L, x)
  BY <1>2, <1>4, SameLoansInv
<1>8. Chain(S, p) = Chain(L, p)
  <2>1. \A s \in Chain(L, p) : S[s].parent = L[s].parent BY <1>4 DEF Chain, SameLoans
  <2> QED BY <2>1, ChainSame
<1>9. Addable(S, l, N)
  <2>1. ~Live(S, l) /\ Live(S, p) BY <1>3, <1>5
  <2>2. Contains(S[p].range, r) /\ (S[p].kind = "Shared" => k = "Shared")
    BY <1>6 DEF ReborrowAllowed
  <2>3. ASSUME NEW m \in LiveLoans(S), S[m].allocation = N.allocation,
               Overlap(N.range, S[m].range), ~BothShared(S[m].kind, N.kind)
        PROVE  m \in Chain(S, p)
    <3>1. m \in LoanIds /\ Live(L, m) BY <2>3, <1>7 DEF LiveLoans
    <3>2. L[m].allocation = L[p].allocation /\ Overlap(r, L[m].range) /\ ~BothShared(L[m].kind, k)
      BY <3>1, <2>3, <1>1, <1>4 DEF SameLoans
    <3>3. m \in Chain(L, p) BY <3>1, <3>2 DEF ReborrowAllowed, CreationConflict
    <3> QED BY <3>3, <1>8
  <2> QED BY <1>1, <1>6, <2>1, <2>2, <2>3 DEF Addable
<1>10. /\ M \in Table /\ Held(M) /\ Nested(M) /\ Exclusive(M)
       /\ LiveLoans(M) = LiveLoans(S) \cup {l} /\ ~HasActiveChild(M, l)
       /\ \A x \in LoanIds : HasActiveChild(M, x) <=> HasActiveChild(S, x) \/ x = N.parent
  BY <1>4, <1>7, <1>9, AddLoan
<1>11. M[l] = N /\ \A x \in LoanIds : x # l => M[x] = S[x] BY <1>4 DEF Table
<1>12. SuspendedWhileLent(M)
  <2> SUFFICES ASSUME NEW x \in LiveLoans(M)
               PROVE  M[x].activity = "Suspended" <=> M[x].kind = "Mutable" /\ HasActiveChild(M, x)
    BY DEF SuspendedWhileLent
  <2>1. x \in LoanIds BY DEF LiveLoans
  <2>2. CASE x = l BY <2>2, <1>1, <1>10, <1>11
  <2>3. CASE x = p
    <3>1. HasActiveChild(M, p) BY <1>1, <1>10
    <3>2. M[p].activity = S[p].activity /\ M[p].kind = L[p].kind BY <1>3, <1>6, <1>11
    <3>3. CASE BothShared(L[p].kind, k)
      <4>1. p \in LiveLoans(L) BY <1>3 DEF LiveLoans
      <4> QED BY <4>1, <3>1, <3>2, <3>3, <2>3, <1>2, <1>4 DEF SuspendedWhileLent, BothShared
    <3>4. CASE ~BothShared(L[p].kind, k)
      <4>1. L[p].kind = "Mutable"
        <5>1. L[p].kind \in {"Shared", "Mutable"} BY DEF Table, Loan, Kind
        <5> QED BY <5>1, <3>4 DEF ReborrowAllowed, BothShared
      <4> QED BY <4>1, <3>1, <3>2, <3>4, <2>3, <1>4
    <3> QED BY <3>3, <3>4
  <2>4. CASE x # l /\ x # p
    <3>1. x \in LiveLoans(L) BY <2>4, <1>7, <1>10
    <3>2. HasActiveChild(M, x) <=> HasActiveChild(L, x) BY <2>1, <2>4, <1>1, <1>7, <1>10
    <3>3. M[x] = L[x] BY <2>1, <2>4, <1>4, <1>11
    <3> QED BY <3>1, <3>2, <3>3, <1>2 DEF SuspendedWhileLent
  <2> QED BY <2>2, <2>3, <2>4
<1>13. ReborrowLoan(L, l, p, r, k, t) = M BY DEF ReborrowLoan, N, S
<1> QED BY <1>10, <1>12, <1>13 DEF TableInv

\* A table in which one live loan got other holders, at least one and at most one
\* if the loan is exclusive.
LEMMA RegrantInv ==
    ASSUME NEW L \in Table, TableInv(L), NEW l \in LoanIds, Live(L, l),
           NEW A \in SUBSET Nat, A # {}, L[l].kind = "Mutable" => \A t, u \in A : t = u
    PROVE  LET M == [L EXCEPT ![l].authorities = A] IN M \in Table /\ TableInv(M)
<1> DEFINE M == [L EXCEPT ![l].authorities = A]
<1>1. Held(L) /\ Nested(L) /\ Exclusive(L) /\ SuspendedWhileLent(L) BY DEF TableInv
<1>2. L[l] \in Loan BY DEF Table
<1>3. M[l] = [L[l] EXCEPT !.authorities = A] /\ \A x \in LoanIds : x # l => M[x] = L[x]
  BY DEF Table
<1>4. M[l] \in Loan BY <1>2, <1>3 DEF Loan
<1>5. M \in Table BY <1>4 DEF Table
<1>6. M[l].authorities = A /\ M[l].activity = L[l].activity BY <1>2, <1>3 DEF Loan
<1>7. SameLoans(L, M) BY <1>2, <1>3 DEF SameLoans, Live, Loan
<1>8. \A x \in LoanIds : (Live(M, x) <=> Live(L, x)) /\ M[x].kind = L[x].kind
  BY <1>7 DEF SameLoans
<1>9. \A x \in LoanIds : M[x].activity = L[x].activity BY <1>3, <1>6
<1> HIDE DEF M
<1>10. LiveLoans(M) = LiveLoans(L) /\ Nested(M) /\ Exclusive(M)
         /\ \A x : HasActiveChild(M, x) <=> HasActiveChild(L, x)
  BY <1>1, <1>5, <1>7, SameLoansInv
<1>11. Held(M)
  <2> SUFFICES ASSUME NEW x \in LoanIds
               PROVE  /\ Live(M, x) <=> M[x].authorities # {}
                      /\ M[x].kind = "Mutable" => \A t, u \in M[x].authorities : t = u
    BY DEF Held
  <2>1. CASE x = l BY <2>1, <1>6, <1>8
  <2>2. CASE x # l
    <3>1. M[x] = L[x] BY <2>2, <1>3
    <3> QED BY <3>1, <1>1, <1>8 DEF Held
  <2> QED BY <2>1, <2>2
<1>12. SuspendedWhileLent(M)
  BY <1>1, <1>8, <1>9, <1>10 DEF SuspendedWhileLent, LiveLoans
<1> QED BY <1>5, <1>10, <1>11, <1>12 DEF TableInv, M

\* alias_shared, alias_stored, alias_authority
LEMMA AliasInv ==
    ASSUME NEW L \in Table, TableInv(L), NEW l \in LoanIds, NEW h, NEW t \in Nat,
           AliasAllowed(L, l, h)
    PROVE  AliasLoan(L, l, t) \in Table /\ TableInv(AliasLoan(L, l, t))
<1> DEFINE A == L[l].authorities \cup {t}
<1>1. Live(L, l) /\ L[l].kind # "Mutable" BY DEF AliasAllowed, Live
<1>2. A \in SUBSET Nat /\ A # {} BY DEF Table, Loan
<1>3. AliasLoan(L, l, t) = [L EXCEPT ![l].authorities = A] BY DEF AliasLoan
<1> HIDE DEF A
<1> QED BY <1>1, <1>2, <1>3, RegrantInv

\* Ending a live loan without live children keeps the rest held, nested and
\* exclusive; only its parent can lose its last child.
LEMMA RemoveLoan ==
    ASSUME NEW L \in Table, TableInv(L), NEW l \in LoanIds, Live(L, l), ~HasActiveChild(L, l)
    PROVE  LET M == [L EXCEPT ![l] = Blank] IN
           /\ M \in Table
           /\ LiveLoans(M) = LiveLoans(L) \ {l}
           /\ \A x \in LoanIds : x # L[l].parent => (HasActiveChild(M, x) <=> HasActiveChild(L, x))
           /\ Held(M)
           /\ Nested(M)
           /\ Exclusive(M)
<1> DEFINE M == [L EXCEPT ![l] = Blank]
<1>0. Held(L) /\ Nested(L) /\ Exclusive(L) BY DEF TableInv
<1>1. M \in Table BY BlankLoan DEF Table
<1>2. M[l] = Blank /\ \A x \in LoanIds : x # l => M[x] = L[x] BY DEF Table
<1>b. Blank.kind = "Shared" BY DEF Blank
<1> HIDE DEF M
<1>3. LiveLoans(M) = LiveLoans(L) \ {l} BY <1>2, BlankLoan DEF LiveLoans, Live
<1>4. \A x \in LiveLoans(M) : L[x].parent # l BY <1>3 DEF HasActiveChild, LiveLoans
<1>5. \A x \in LoanIds : x # L[l].parent => (HasActiveChild(M, x) <=> HasActiveChild(L, x))
  BY <1>2, <1>3, BlankLoan DEF HasActiveChild, Live
<1>6. Held(M) BY <1>0, <1>2, <1>b, BlankLoan DEF Held, Live
<1>7. Nested(M) BY <1>0, <1>2, <1>3, <1>4 DEF Nested, LiveLoans, Live
<1>8. \A m \in LiveLoans(M) : Chain(M, m) = Chain(L, m)
  <2> SUFFICES ASSUME NEW m \in LiveLoans(M) PROVE Chain(M, m) = Chain(L, m) OBVIOUS
  <2>1. m \in LoanIds /\ m \in LiveLoans(L) /\ m # l BY <1>3 DEF LiveLoans
  <2>2. l \notin Chain(L, m) BY <2>1, <1>0, ChainChild
  <2>3. \A s \in Chain(L, m) : M[s].parent = L[s].parent BY <2>2, <1>2 DEF Chain
  <2> QED BY <2>1, <2>3, ChainSame
<1>9. Exclusive(M)
  <2> SUFFICES ASSUME NEW x \in LiveLoans(M), NEW y \in LiveLoans(M),
                      M[x].allocation = M[y].allocation,
                      Overlap(M[x].range, M[y].range),
                      ~BothShared(M[x].kind, M[y].kind)
               PROVE  x \in Chain(M, y) \/ y \in Chain(M, x)
    BY DEF Exclusive
  <2>1. x \in LiveLoans(L) /\ y \in LiveLoans(L) /\ M[x] = L[x] /\ M[y] = L[y]
    BY <1>2, <1>3 DEF LiveLoans
  <2>2. x \in Chain(L, y) \/ y \in Chain(L, x) BY <2>1, <1>0 DEF Exclusive
  <2> QED BY <2>2, <1>8
<1> QED BY <1>1, <1>3, <1>5, <1>6, <1>7, <1>9 DEF M

\* end, end_stored, end_authority
LEMMA EndInv ==
    ASSUME NEW L \in Table, TableInv(L), NEW l \in LoanIds, NEW h,
           EndAllowed(L, l, h) \/ EndStoredAllowed(L, l, h)
    PROVE  EndLoan(L, l, h) \in Table /\ TableInv(EndLoan(L, l, h))
<1>1. Live(L, l) /\ h \in L[l].authorities BY DEF EndAllowed, EndStoredAllowed, Live
<1>2. CASE L[l].authorities # {h}
  <2> DEFINE A == L[l].authorities \ {h}
  <2>1. A \in SUBSET Nat BY DEF Table, Loan
  <2>2. A # {} BY <1>1, <1>2
  <2>3. L[l].kind = "Mutable" => \A t, u \in A : t = u BY DEF TableInv, Held
  <2>4. EndLoan(L, l, h) = [L EXCEPT ![l].authorities = A] BY <1>2 DEF EndLoan
  <2> HIDE DEF A
  <2>5. [L EXCEPT ![l].authorities = A] \in Table /\ TableInv([L EXCEPT ![l].authorities = A])
    BY <1>1, <2>1, <2>2, <2>3, RegrantInv
  <2> QED BY <2>4, <2>5
<1>3. CASE L[l].authorities = {h}
  <2> DEFINE M == [L EXCEPT ![l] = Blank]
             p == L[l].parent
             R == [M EXCEPT ![p].activity = "Active"]
  <2>1. ~HasActiveChild(L, l) BY <1>3 DEF EndAllowed, EndStoredAllowed
  <2>2. /\ M \in Table /\ Held(M) /\ Nested(M) /\ Exclusive(M)
        /\ LiveLoans(M) = LiveLoans(L) \ {l}
        /\ \A x \in LoanIds : x # p => (HasActiveChild(M, x) <=> HasActiveChild(L, x))
    BY <1>1, <2>1, RemoveLoan
  <2>3. \A x \in LoanIds : x # l => M[x] = L[x] BY DEF Table
  <2>4. p \in LoanIds => p \in LiveLoans(L) /\ p # l /\ HasActiveChild(L, p)
    <3>1. p \in LoanIds => p \in LiveLoans(L) /\ HasActiveChild(L, p)
      BY <1>1 DEF TableInv, Nested, LiveLoans, HasActiveChild
    <3> QED BY <3>1, <2>1
  <2>5. EndLoan(L, l, h) = RestoreParent(M, p) BY <1>3 DEF EndLoan
  <2>s. SuspendedWhileLent(L) BY DEF TableInv
  <2>k. \A x \in LoanIds : L[x].kind \in {"Shared", "Mutable"} BY DEF Table, Loan, Kind
  <2> HIDE DEF M
  <2>6. ASSUME NEW x \in LiveLoans(M), x # p
        PROVE  M[x].activity = "Suspended" <=> M[x].kind = "Mutable" /\ HasActiveChild(M, x)
    <3>1. x \in LoanIds /\ x \in LiveLoans(L) /\ M[x] = L[x] BY <2>2, <2>3 DEF LiveLoans
    <3> QED BY <3>1, <2>2, <2>6, <2>s DEF SuspendedWhileLent
  <2>7. CASE p \in LoanIds /\ ~HasActiveChild(M, p) /\ M[p].activity = "Suspended"
    <3>1. RestoreParent(M, p) = R BY <2>7 DEF RestoreParent
    <3>2. M[p] \in Loan BY <2>2, <2>7 DEF Table
    <3>3. R[p] = [M[p] EXCEPT !.activity = "Active"] /\ \A x \in LoanIds : x # p => R[x] = M[x]
      BY <2>2, <2>7 DEF Table
    <3>4. R[p] \in Loan BY <3>2, <3>3 DEF Loan, Activity
    <3>5. R \in Table BY <3>4, <2>2 DEF Table
    <3>6. R[p].activity = "Active" /\ R[p].authorities = M[p].authorities
      BY <3>2, <3>3 DEF Loan
    <3>7. SameLoans(M, R) BY <2>7, <3>2, <3>3 DEF SameLoans, Live, Loan
    <3> HIDE DEF R
    <3>8. /\ LiveLoans(R) = LiveLoans(M) /\ Nested(R) /\ Exclusive(R)
          /\ \A x : HasActiveChild(R, x) <=> HasActiveChild(M, x)
      BY <2>2, <3>5, <3>7, SameLoansInv
    <3>9. Held(R)
      <4>1. \A x \in LoanIds : R[x].authorities = M[x].authorities BY <3>3, <3>6
      <4>2. \A x \in LoanIds : (Live(R, x) <=> Live(M, x)) /\ R[x].kind = M[x].kind
        BY <3>7 DEF SameLoans
      <4> QED BY <4>1, <4>2, <2>2 DEF Held
    <3>10. SuspendedWhileLent(R)
      <4> SUFFICES ASSUME NEW x \in LiveLoans(R)
                   PROVE  R[x].activity = "Suspended" <=> R[x].kind = "Mutable" /\ HasActiveChild(R, x)
        BY DEF SuspendedWhileLent
      <4>1. CASE x = p BY <4>1, <3>6, <3>8, <2>7
      <4>2. CASE x # p
        <5>1. x \in LiveLoans(M) /\ R[x] = M[x] BY <4>2, <3>3, <3>8 DEF LiveLoans
        <5> QED BY <5>1, <4>2, <2>6, <3>8
      <4> QED BY <4>1, <4>2
    <3> QED BY <3>1, <3>5, <3>8, <3>9, <3>10, <2>5 DEF TableInv
  <2>8. CASE ~(p \in LoanIds /\ ~HasActiveChild(M, p) /\ M[p].activity = "Suspended")
    <3>1. RestoreParent(M, p) = M BY <2>8 DEF RestoreParent
    <3>2. SuspendedWhileLent(M)
      <4> SUFFICES ASSUME NEW x \in LiveLoans(M)
                   PROVE  M[x].activity = "Suspended" <=> M[x].kind = "Mutable" /\ HasActiveChild(M, x)
        BY DEF SuspendedWhileLent
      <4>1. CASE x = p
        <5>1. p \in LoanIds BY <4>1 DEF LiveLoans
        <5>2. M[p] = L[p] BY <5>1, <2>3, <2>4
        <5>3. L[p].activity = "Suspended" <=> L[p].kind = "Mutable"
          BY <5>1, <2>4, <2>s DEF SuspendedWhileLent
        <5> QED BY <5>1, <5>2, <5>3, <4>1, <2>8
      <4>2. CASE x # p BY <4>2, <2>6
      <4> QED BY <4>1, <4>2
    <3> QED BY <3>1, <3>2, <2>2, <2>5 DEF TableInv
  <2> QED BY <2>7, <2>8
<1> QED BY <1>2, <1>3

-----------------------------------------------------------------------------
(* What the operations do to the holders of a table. *)

\* M is L with token t added to the holders of loan l; whoever held something
\* still holds the same bytes.
Grants(L, M, l, t) ==
    \A m \in LoanIds :
        /\ M[m].authorities = IF m = l THEN L[m].authorities \cup {t} ELSE L[m].authorities
        /\ L[m].authorities # {} =>
              M[m].allocation = L[m].allocation /\ M[m].range = L[m].range /\ M[m].kind = L[m].kind

\* M is L with token h taken from the holders of loan l; whoever still holds
\* something holds the same bytes.
Revokes(L, M, l, h) ==
    \A m \in LoanIds :
        /\ M[m].authorities = IF m = l THEN L[m].authorities \ {h} ELSE L[m].authorities
        /\ M[m].authorities # {} =>
              M[m].allocation = L[m].allocation /\ M[m].range = L[m].range /\ M[m].kind = L[m].kind

\* begin grants its token on a loan nobody held.
LEMMA BeginGrants ==
    ASSUME NEW L \in Table, Held(L), NEW l \in LoanIds, NEW a, NEW r, NEW k, NEW t,
           BeginAllowed(L, l, a, r, k)
    PROVE  LET M == BeginLoan(L, l, a, r, k, t) IN
           /\ Grants(L, M, l, t)
           /\ M[l].allocation = a /\ M[l].range = r /\ M[l].kind = k
<1> DEFINE M == BeginLoan(L, l, a, r, k, t)
<1>1. L[l].authorities = {} BY DEF BeginAllowed, CanCreate, Held
<1>2. M[l] = NewLoan(a, r, k, NoLoan, t) /\ \A m \in LoanIds : m # l => M[m] = L[m]
  BY DEF BeginLoan, Table
<1>3. /\ M[l].authorities = {t} /\ M[l].allocation = a /\ M[l].range = r /\ M[l].kind = k
  BY <1>2 DEF NewLoan
<1> HIDE DEF M
<1> QED BY <1>1, <1>2, <1>3 DEF Grants, M

\* reborrow grants its token on a loan nobody held, with the parent's allocation;
\* suspending the parent takes nothing from its holders.
LEMMA ReborrowGrants ==
    ASSUME NEW L \in Table, Held(L), NEW l \in LoanIds, NEW p \in LoanIds, NEW r,
           NEW k \in Kind, NEW h, NEW t, ReborrowAllowed(L, l, p, r, k, h)
    PROVE  LET M == ReborrowLoan(L, l, p, r, k, t) IN
           /\ Grants(L, M, l, t)
           /\ M[l].allocation = L[p].allocation /\ M[l].range = r /\ M[l].kind = k
<1> DEFINE M == ReborrowLoan(L, l, p, r, k, t)
           S == Suspend(L, p, k)
<1>1. L[l].authorities = {} BY DEF ReborrowAllowed, CanCreate, Held
<1>2. L[p] \in Loan BY DEF Table
<1>3. S \in Table /\ SameLoans(L, S) /\ \A m \in LoanIds : m # p => S[m] = L[m]
  BY SuspendSame DEF ReborrowAllowed
<1>s. \A m \in LoanIds : /\ S[m].authorities = L[m].authorities
                         /\ S[m].allocation = L[m].allocation
                         /\ S[m].range = L[m].range /\ S[m].kind = L[m].kind
  <2>1. S[p].authorities = L[p].authorities
    <3>1. CASE BothShared(L[p].kind, k) BY <3>1 DEF Suspend
    <3>2. CASE ~BothShared(L[p].kind, k) BY <1>2, <3>2 DEF Suspend, Table, Loan
    <3> QED BY <3>1, <3>2
  <2> HIDE DEF S
  <2> QED BY <2>1, <1>3 DEF SameLoans
<1>4. M[l] = NewLoan(L[p].allocation, r, k, p, t) /\ \A m \in LoanIds : m # l => M[m] = S[m]
  BY <1>3 DEF ReborrowLoan, Table
<1>5. /\ M[l].authorities = {t} /\ M[l].allocation = L[p].allocation /\ M[l].range = r
      /\ M[l].kind = k
  BY <1>4 DEF NewLoan
<1> HIDE DEF M, S
<1> QED BY <1>1, <1>s, <1>4, <1>5 DEF Grants, M

\* An alias grants its token on a loan that others hold too.
LEMMA AliasGrants ==
    ASSUME NEW L \in Table, NEW l \in LoanIds, NEW t
    PROVE  Grants(L, AliasLoan(L, l, t), l, t)
<1> DEFINE M == AliasLoan(L, l, t)
<1>1. L[l] \in Loan BY DEF Table
<1>2. M[l] = [L[l] EXCEPT !.authorities = @ \cup {t}] /\ \A m \in LoanIds : m # l => M[m] = L[m]
  BY DEF AliasLoan, Table
<1>3. /\ M[l].authorities = L[l].authorities \cup {t}
      /\ M[l].allocation = L[l].allocation /\ M[l].range = L[l].range /\ M[l].kind = L[l].kind
  BY <1>1, <1>2 DEF Loan
<1> HIDE DEF M
<1> QED BY <1>2, <1>3 DEF Grants, M

\* Ending one authority revokes that token and no other; restoring the parent
\* gives it no new holder.
LEMMA EndRevokes ==
    ASSUME NEW L \in Table, NEW l \in LoanIds, NEW h, h \in L[l].authorities
    PROVE  Revokes(L, EndLoan(L, l, h), l, h)
<1>1. CASE L[l].authorities # {h}
  <2> DEFINE M == [L EXCEPT ![l].authorities = @ \ {h}]
  <2>1. EndLoan(L, l, h) = M BY <1>1 DEF EndLoan
  <2>2. L[l] \in Loan BY DEF Table
  <2>3. M[l] = [L[l] EXCEPT !.authorities = @ \ {h}] /\ \A m \in LoanIds : m # l => M[m] = L[m]
    BY DEF Table
  <2>4. /\ M[l].authorities = L[l].authorities \ {h}
        /\ M[l].allocation = L[l].allocation /\ M[l].range = L[l].range /\ M[l].kind = L[l].kind
    BY <2>2, <2>3 DEF Loan
  <2> HIDE DEF M
  <2> QED BY <2>1, <2>3, <2>4 DEF Revokes
<1>2. CASE L[l].authorities = {h}
  <2> DEFINE B == [L EXCEPT ![l] = Blank]
             M == RestoreParent(B, L[l].parent)
  <2>1. EndLoan(L, l, h) = M BY <1>2 DEF EndLoan
  <2>2. B \in Table /\ B[l] = Blank /\ \A m \in LoanIds : m # l => B[m] = L[m]
    BY BlankLoan DEF Table
  <2> HIDE DEF B
  <2>3. \A m \in LoanIds : /\ M[m].authorities = B[m].authorities
                           /\ M[m].allocation = B[m].allocation
                           /\ M[m].range = B[m].range /\ M[m].kind = B[m].kind
    <3>1. CASE M = B BY <3>1
    <3>2. CASE L[l].parent \in LoanIds /\ M = [B EXCEPT ![L[l].parent].activity = "Active"]
      BY <3>2, <2>2 DEF Table, Loan
    <3> QED BY <3>1, <3>2 DEF RestoreParent
  <2>4. B[l].authorities = {} BY <2>2, BlankLoan
  <2> HIDE DEF M
  <2> QED BY <1>2, <2>1, <2>2, <2>3, <2>4 DEF Revokes
<1> QED BY <1>1, <1>2

-----------------------------------------------------------------------------
(* What the operations do to the chains of a table. *)

\* A loan in the chain of a live one is live and covers it.
LEMMA ChainInside ==
    ASSUME NEW L \in Table, Nested(L), NEW m \in LiveLoans(L), NEW l \in Chain(L, m)
    PROVE  l \in LiveLoans(L) /\ L[l].allocation = L[m].allocation /\ Contains(L[l].range, L[m].range)
<1> DEFINE S == {s \in LiveLoans(L) : L[s].allocation = L[m].allocation
                                         /\ Contains(L[s].range, L[m].range)}
<1>0. \A s \in LoanIds : L[s].range.start \in Int /\ L[s].range.end \in Int
  <2>1. \A s \in LoanIds : L[s].range \in Range BY DEF Table, Loan
  <2> QED BY <2>1, LoanTableAssumption DEF Range, Offsets
<1>1. m \in LoanIds /\ S \in SUBSET LoanIds BY DEF LiveLoans
<1>2. m \in S BY <1>0, <1>1 DEF Contains
<1>3. ParentClosed(L, S)
  <2> SUFFICES ASSUME NEW s \in S, L[s].parent \in LoanIds
               PROVE  L[s].parent \in S
    BY DEF ParentClosed
  <2>1. /\ Live(L, L[s].parent) /\ L[L[s].parent].allocation = L[s].allocation
        /\ Contains(L[L[s].parent].range, L[s].range)
    BY DEF Nested
  <2>2. Contains(L[L[s].parent].range, L[m].range) BY <1>0, <1>1, <2>1 DEF Contains
  <2> QED BY <2>1, <2>2 DEF LiveLoans
<1> QED BY <1>1, <1>2, <1>3, ChainLeast

\* A reborrow leaves the chains of the live loans as they were and continues the
\* chain of its parent.
LEMMA ReborrowChains ==
    ASSUME NEW L \in Table, TableInv(L), NEW l \in LoanIds, NEW p \in LoanIds, NEW r,
           NEW k \in Kind, NEW h, NEW t, ReborrowAllowed(L, l, p, r, k, h)
    PROVE  LET M == ReborrowLoan(L, l, p, r, k, t) IN
           /\ \A m \in LiveLoans(L) : Chain(M, m) = Chain(L, m)
           /\ Chain(L, p) \subseteq Chain(M, l)
<1> DEFINE M == ReborrowLoan(L, l, p, r, k, t)
           S == Suspend(L, p, k)
<1>1. Held(L) /\ Nested(L) /\ ~Live(L, l) /\ p \in LiveLoans(L)
  BY DEF TableInv, ReborrowAllowed, CanCreate, LiveLoans
<1>2. S \in Table /\ \A m \in LoanIds : S[m].parent = L[m].parent
  BY <1>1, SuspendSame DEF LiveLoans, SameLoans
<1>3. M[l] = NewLoan(L[p].allocation, r, k, p, t) /\ \A m \in LoanIds : m # l => M[m] = S[m]
  BY <1>2 DEF ReborrowLoan, Table
<1>4. M[l].parent = p BY <1>3 DEF NewLoan
<1> HIDE DEF M, S
<1>5. \A m \in LiveLoans(L) : Chain(M, m) = Chain(L, m)
  <2> SUFFICES ASSUME NEW m \in LiveLoans(L) PROVE Chain(M, m) = Chain(L, m) OBVIOUS
  <2>1. m \in LoanIds /\ l \notin Chain(L, m) BY <1>1, ChainLive DEF LiveLoans
  <2>2. \A s \in Chain(L, m) : M[s].parent = L[s].parent BY <1>2, <1>3, <2>1 DEF Chain
  <2> QED BY <2>1, <2>2, ChainSame
<1>6. Chain(L, p) \subseteq Chain(M, l)
  <2>1. p \in Chain(M, l) BY <1>4, ChainSelf, ChainClosed DEF ParentClosed
  <2>2. Chain(M, l) \in SUBSET LoanIds /\ ParentClosed(M, Chain(M, l)) BY ChainClosed DEF Chain
  <2>3. Chain(M, p) \subseteq Chain(M, l) BY <2>1, <2>2, ChainLeast
  <2> QED BY <1>1, <1>5, <2>3
<1> QED BY <1>5, <1>6 DEF M

\* An alias leaves every chain as it was.
LEMMA AliasChains ==
    ASSUME NEW L \in Table, NEW l \in LoanIds, NEW t, NEW m \in LoanIds
    PROVE  Chain(AliasLoan(L, l, t), m) = Chain(L, m)
<1> DEFINE M == AliasLoan(L, l, t)
<1>1. L[l] \in Loan BY DEF Table
<1>2. M[l] = [L[l] EXCEPT !.authorities = @ \cup {t}] /\ \A s \in LoanIds : s # l => M[s] = L[s]
  BY DEF AliasLoan, Table
<1>3. \A s \in LoanIds : M[s].parent = L[s].parent BY <1>1, <1>2 DEF Loan
<1> HIDE DEF M
<1>4. \A s \in Chain(L, m) : M[s].parent = L[s].parent BY <1>3 DEF Chain
<1>5. Chain(M, m) = Chain(L, m) BY <1>4, ChainSame
<1> QED BY <1>5 DEF M

\* Ending an authority leaves the chains of the loans that stay live as they were.
LEMMA EndChains ==
    ASSUME NEW L \in Table, TableInv(L), NEW l \in LoanIds, NEW h,
           EndAllowed(L, l, h) \/ EndStoredAllowed(L, l, h),
           NEW m \in LiveLoans(EndLoan(L, l, h))
    PROVE  m \in LiveLoans(L) /\ Chain(EndLoan(L, l, h), m) = Chain(L, m)
<1>1. Live(L, l) /\ h \in L[l].authorities /\ Nested(L)
  BY DEF EndAllowed, EndStoredAllowed, Live, TableInv
<1>m. m \in LoanIds BY DEF LiveLoans
<1>2. CASE L[l].authorities # {h}
  <2> DEFINE M == [L EXCEPT ![l].authorities = @ \ {h}]
  <2>1. EndLoan(L, l, h) = M BY <1>2 DEF EndLoan
  <2>2. L[l] \in Loan BY DEF Table
  <2>3. M[l] = [L[l] EXCEPT !.authorities = @ \ {h}] /\ \A s \in LoanIds : s # l => M[s] = L[s]
    BY DEF Table
  <2>4. M[l].parent = L[l].parent /\ M[l].activity = L[l].activity BY <2>2, <2>3 DEF Loan
  <2> HIDE DEF M
  <2>5. \A s \in LoanIds : M[s].parent = L[s].parent /\ M[s].activity = L[s].activity
    BY <2>3, <2>4
  <2>6. Chain(M, m) = Chain(L, m)
    <3>1. \A s \in Chain(L, m) : M[s].parent = L[s].parent BY <2>5 DEF Chain
    <3> QED BY <1>m, <3>1, ChainSame
  <2> QED BY <2>1, <2>5, <2>6 DEF LiveLoans, Live
<1>3. CASE L[l].authorities = {h}
  <2> DEFINE B == [L EXCEPT ![l] = Blank]
             M == RestoreParent(B, L[l].parent)
  <2>1. EndLoan(L, l, h) = M BY <1>3 DEF EndLoan
  <2>2. B \in Table /\ B[l] = Blank /\ \A s \in LoanIds : s # l => B[s] = L[s]
    BY BlankLoan DEF Table
  <2> HIDE DEF B
  <2>3. \A s \in LoanIds : M[s].parent = B[s].parent /\ (Live(M, s) <=> Live(B, s))
    <3>1. CASE M = B BY <3>1
    <3>2. CASE /\ L[l].parent \in LoanIds /\ B[L[l].parent].activity = "Suspended"
               /\ M = [B EXCEPT ![L[l].parent].activity = "Active"]
      BY <3>2, <2>2 DEF Table, Loan, Live
    <3> QED BY <3>1, <3>2 DEF RestoreParent
  <2> HIDE DEF M
  <2>4. m \in LiveLoans(L) /\ m # l BY <1>m, <2>1, <2>2, <2>3, BlankLoan DEF LiveLoans, Live
  <2>5. ~HasActiveChild(L, l) BY <1>3 DEF EndAllowed, EndStoredAllowed
  <2>6. l \notin Chain(L, m) BY <1>1, <2>4, <2>5, ChainChild
  <2>7. \A s \in Chain(L, m) : M[s].parent = L[s].parent BY <2>2, <2>3, <2>6 DEF Chain
  <2>8. Chain(M, m) = Chain(L, m) BY <1>m, <2>7, ChainSame
  <2> QED BY <2>1, <2>4, <2>8
<1> QED BY <1>2, <1>3

-----------------------------------------------------------------------------
(* Accesses. *)

\* An access that check_access lets through disturbs no loan but the ones the
\* accessing authority was reborrowed from.
LEMMA AccessIsolation ==
    ASSUME NEW L \in Table, TableInv(L), NEW p, NEW r \in Range, NEW access,
           CheckAccess(L, p, r, access),
           NEW l \in LiveLoans(L), L[l].allocation = p.allocation, Overlap(r, L[l].range)
    PROVE  \/ access = "Read" /\ L[l].kind = "Shared"
           \/ p.loan \in LoanIds /\ l \in Chain(L, p.loan)
<1>0. l \in LoanIds /\ Live(L, l) BY DEF LiveLoans
<1>1. CASE p.loan \notin LoanIds BY <1>0, <1>1 DEF CheckAccess, OwnerAccess
<1>2. CASE p.loan \in LoanIds
  <2> DEFINE m == p.loan
  <2>1. /\ L[m].activity = "Active" /\ L[m].allocation = p.allocation
        /\ Contains(L[m].range, r) /\ KindAllows(L[m].kind, access)
    BY <1>2 DEF CheckAccess, AuthorityAccess
  <2>2. m \in LiveLoans(L) BY <1>2, <2>1 DEF LiveLoans, Live
  <2>3. Overlap(L[m].range, L[l].range)
    <3>1. L[m].range \in Range /\ L[l].range \in Range BY <1>0, <1>2 DEF Table, Loan
    <3>2. \A x \in Range : x.start \in Int /\ x.end \in Int BY LoanTableAssumption DEF Range, Offsets
    <3> QED BY <3>1, <3>2, <2>1 DEF Overlap, Contains
  <2>4. CASE BothShared(L[m].kind, L[l].kind)
    BY <2>4, <2>1 DEF BothShared, KindAllows
  <2>5. CASE ~BothShared(L[m].kind, L[l].kind)
    <3>1. m \in Chain(L, l) \/ l \in Chain(L, m)
      BY <2>1, <2>2, <2>3, <2>5 DEF TableInv, Exclusive
    <3>2. CASE l \in Chain(L, m) BY <3>2, <1>2
    <3>3. CASE m \in Chain(L, l) /\ l # m
      <4>0. Nested(L) /\ SuspendedWhileLent(L) BY DEF TableInv
      <4>1. HasActiveChild(L, m) BY <3>3, <4>0, ChainChild
      <4>2. L[m].kind # "Mutable" BY <4>0, <4>1, <2>1, <2>2 DEF SuspendedWhileLent
      <4>3. L[l].kind # "Mutable" BY <4>0, <4>2, <3>3, ChainMutable
      <4>4. L[m].kind \in {"Shared", "Mutable"} /\ L[l].kind \in {"Shared", "Mutable"}
        BY <1>0, <1>2 DEF Table, Loan, Kind
      <4> QED BY <4>2, <4>3, <4>4, <2>5 DEF BothShared
    <3>4. CASE l = m BY <3>4, <1>2, ChainSelf
    <3> QED BY <3>1, <3>2, <3>3, <3>4
  <2> QED BY <2>4, <2>5
<1> QED BY <1>1, <1>2

\* Two active loans on a common byte are one loan or are both shared: neither was
\* reborrowed from the other.
LEMMA ActiveLoansExclude ==
    ASSUME NEW L \in Table, TableInv(L), NEW l \in LoanIds, NEW m \in LoanIds,
           L[l].activity = "Active", Live(L, m), L[l].allocation = L[m].allocation,
           Overlap(L[l].range, L[m].range), ~BothShared(L[l].kind, L[m].kind)
    PROVE  m \in Chain(L, l)
<1>1. l \in LiveLoans(L) /\ m \in LiveLoans(L) BY DEF LiveLoans, Live
<1>2. Nested(L) /\ Exclusive(L) /\ SuspendedWhileLent(L) BY DEF TableInv
<1>3. l \in Chain(L, m) \/ m \in Chain(L, l) BY <1>1, <1>2 DEF Exclusive
<1>4. CASE l = m BY <1>4, ChainSelf
<1>5. CASE l \in Chain(L, m) /\ l # m
  <2>1. HasActiveChild(L, l) BY <1>1, <1>2, <1>5, ChainChild
  <2>2. L[l].kind # "Mutable" BY <1>1, <1>2, <2>1 DEF SuspendedWhileLent
  <2>3. L[m].kind # "Mutable" BY <1>1, <1>2, <1>5, <2>2, ChainMutable
  <2>4. L[l].kind \in {"Shared", "Mutable"} /\ L[m].kind \in {"Shared", "Mutable"}
    BY DEF Table, Loan, Kind
  <2> QED BY <2>2, <2>3, <2>4 DEF BothShared
<1> QED BY <1>3, <1>4, <1>5

\* A reborrow of an active loan with its own kind conflicts with nothing, so the
\* return of a reference need not look for conflicts.
LEMMA SameKindNoConflict ==
    ASSUME NEW L \in Table, TableInv(L), NEW p \in LoanIds, L[p].activity = "Active",
           NEW r \in Range, Contains(L[p].range, r)
    PROVE  ~CreationConflict(L, L[p].allocation, r, L[p].kind, Chain(L, p))
<1> SUFFICES ASSUME NEW m \in LoanIds \ Chain(L, p), Live(L, m), L[m].allocation = L[p].allocation,
                    Overlap(r, L[m].range), ~BothShared(L[m].kind, L[p].kind)
             PROVE  FALSE
  BY DEF CreationConflict
<1>1. L[p].range \in Range /\ L[m].range \in Range BY DEF Table, Loan
<1>2. \A x \in Range : x.start \in Int /\ x.end \in Int BY LoanTableAssumption DEF Range, Offsets
<1>3. Overlap(L[p].range, L[m].range) BY <1>1, <1>2 DEF Overlap, Contains
<1>4. ~BothShared(L[p].kind, L[m].kind) BY DEF BothShared
<1> QED BY <1>3, <1>4, ActiveLoansExclude

Finite == INSTANCE FiniteSetTheorems

-----------------------------------------------------------------------------
(* A table from which some authorities are missing already. *)

\* A table in which nothing is left of a loan that has ended.
Canonical(L) == L \in Table /\ TableInv(L) /\ \A l \in LoanIds : ~Live(L, l) => L[l] = Blank

\* No token belongs to two loans.
TokensApart(L) ==
    \A l, m \in LoanIds : l # m => L[l].authorities \cap L[m].authorities = {}

SameStatic(x, y) ==
    x.parent = y.parent /\ x.kind = y.kind /\ x.range = y.range /\ x.allocation = y.allocation

\* P is L without the tokens of G.
Reduces(L, P, G) ==
    \A l \in LoanIds :
        /\ P[l].authorities = L[l].authorities \ G
        /\ P[l].authorities # {} => SameStatic(P[l], L[l])

LEMMA CanonicalLoan ==
    ASSUME NEW L, Canonical(L), NEW l \in LoanIds
    PROVE  /\ L[l] \in Loan
           /\ Live(L, l) <=> L[l].authorities # {}
           /\ L[l].activity = IF L[l].authorities = {} THEN "Ended"
                              ELSE IF L[l].kind = "Mutable" /\ HasActiveChild(L, l) THEN "Suspended"
                              ELSE "Active"
           /\ L[l].authorities = {} => L[l] = Blank
           /\ L[l].kind = "Mutable" => \A t, u \in L[l].authorities : t = u
<1>1. L[l] \in Loan BY DEF Canonical, Table
<1>2. Live(L, l) <=> L[l].authorities # {} BY DEF Canonical, TableInv, Held
<1>3. L[l].activity \in Activity BY <1>1 DEF Loan
<1>4. Live(L, l) => (L[l].activity = "Suspended" <=> L[l].kind = "Mutable" /\ HasActiveChild(L, l))
  BY DEF Canonical, TableInv, SuspendedWhileLent, LiveLoans
<1>5. L[l].activity = IF L[l].authorities = {} THEN "Ended"
                      ELSE IF L[l].kind = "Mutable" /\ HasActiveChild(L, l) THEN "Suspended"
                      ELSE "Active"
  BY <1>2, <1>3, <1>4 DEF Live, Activity
<1>6. L[l].authorities = {} => L[l] = Blank BY <1>2 DEF Canonical
<1>7. L[l].kind = "Mutable" => \A t, u \in L[l].authorities : t = u BY DEF Canonical, TableInv, Held
<1> QED BY <1>1, <1>2, <1>5, <1>6, <1>7

\* What is live in the smaller table is live, and a child of the same parent, in
\* the larger one.
LEMMA ReducedLive ==
    ASSUME NEW L, NEW P, NEW G, Canonical(L), Canonical(P), Reduces(L, P, G), NEW l \in LoanIds
    PROVE  /\ Live(P, l) => Live(L, l) /\ SameStatic(P[l], L[l])
           /\ HasActiveChild(P, l) => HasActiveChild(L, l)
           /\ L[l].activity = "Active" /\ Live(P, l) => P[l].activity = "Active"
<1>1. \A m \in LoanIds : Live(P, m) => Live(L, m) /\ SameStatic(P[m], L[m])
  BY CanonicalLoan DEF Reduces
<1>2. HasActiveChild(P, l) => HasActiveChild(L, l) BY <1>1 DEF HasActiveChild, SameStatic
<1>3. ASSUME L[l].activity = "Active", Live(P, l) PROVE P[l].activity = "Active"
  <2>1. ~(L[l].kind = "Mutable" /\ HasActiveChild(L, l)) /\ L[l].authorities # {}
    BY <1>3, CanonicalLoan
  <2>2. P[l].kind = L[l].kind BY <1>1, <1>3 DEF SameStatic
  <2>3. ~(P[l].kind = "Mutable" /\ HasActiveChild(P, l)) BY <2>1, <2>2, <1>2
  <2>4. P[l].authorities # {} BY <1>3, CanonicalLoan
  <2> QED BY <2>3, <2>4, CanonicalLoan
<1> QED BY <1>1, <1>2, <1>3

\* Two tables with the same authorities are the same.
LEMMA CanonicalSame ==
    ASSUME NEW L, NEW P, Canonical(L), Canonical(P), Reduces(L, P, {})
    PROVE  P = L
<1>1. \A l \in LoanIds : P[l].authorities = L[l].authorities /\ (P[l].authorities # {} => SameStatic(P[l], L[l]))
  BY DEF Reduces
<1>2. \A l \in LoanIds : (Live(P, l) <=> Live(L, l))
  BY <1>1, CanonicalLoan
<1>3. \A l \in LoanIds : HasActiveChild(P, l) <=> HasActiveChild(L, l)
  <2>1. \A m \in LoanIds : Live(P, m) => P[m].parent = L[m].parent
    BY <1>1, CanonicalLoan DEF SameStatic
  <2> QED BY <2>1, <1>2 DEF HasActiveChild
<1>4. ASSUME NEW l \in LoanIds PROVE P[l] = L[l]
  <2>1. CASE L[l].authorities = {} BY <2>1, <1>1, CanonicalLoan
  <2>2. CASE L[l].authorities # {}
    <3>1. SameStatic(P[l], L[l]) /\ P[l].authorities = L[l].authorities BY <2>2, <1>1
    <3>2. P[l].activity = L[l].activity
      BY <2>2, <3>1, <1>3, CanonicalLoan DEF SameStatic
    <3>3. P[l] \in Loan /\ L[l] \in Loan BY CanonicalLoan
    <3> QED BY <3>1, <3>2, <3>3 DEF Loan, SameStatic
  <2> QED BY <2>1, <2>2
<1> QED BY <1>4 DEF Canonical, Table

LEMMA LiveSize ==
    ASSUME NEW L, NEW P, IsFiniteSet(LoanIds), \A l \in LoanIds : Live(P, l) => Live(L, l)
    PROVE  ActiveCount(P) <= ActiveCount(L) /\ ActiveCount(P) \in Nat /\ ActiveCount(L) \in Nat
<1>1. LiveLoans(P) \subseteq LiveLoans(L) /\ LiveLoans(L) \subseteq LoanIds BY DEF LiveLoans
<1>2. \A S : (Finite!IsFiniteSet(S) <=> IsFiniteSet(S)) /\ Finite!Cardinality(S) = Cardinality(S)
  BY DEF Finite!IsFiniteSet, IsFiniteSet, Finite!Cardinality, Cardinality
<1>3. IsFiniteSet(LiveLoans(L)) /\ IsFiniteSet(LiveLoans(P)) BY <1>1, <1>2, Finite!FS_Subset
<1> QED BY <1>1, <1>2, <1>3, Finite!FS_Subset, Finite!FS_CardinalityType DEF ActiveCount

LEMMA ReducedNoConflict ==
    ASSUME NEW L, NEW P, NEW G, Canonical(L), Canonical(P), Reduces(L, P, G),
           NEW a, NEW r, NEW k, NEW ignored, ~CreationConflict(L, a, r, k, ignored)
    PROVE  ~CreationConflict(P, a, r, k, ignored)
BY ReducedLive DEF CreationConflict, SameStatic

\* A new loan without a parent.
LEMMA BeginCanonical ==
    ASSUME NEW L, Canonical(L), NEW l \in LoanIds, NEW a \in Allocations,
           NEW r \in Range, NEW k \in Kind, NEW t \in Nat, BeginAllowed(L, l, a, r, k)
    PROVE  LET M == BeginLoan(L, l, a, r, k, t) IN
           /\ Canonical(M) /\ M[l].authorities = {t} /\ M[l].parent = NoLoan
           /\ L[l].authorities = {}
           /\ \A m \in LoanIds : m # l => M[m] = L[m]
<1> DEFINE M == BeginLoan(L, l, a, r, k, t)
<1>1. M \in Table /\ TableInv(M) BY BeginInv DEF Canonical
<1>2. M[l] = NewLoan(a, r, k, NoLoan, t) /\ \A m \in LoanIds : m # l => M[m] = L[m]
  BY DEF BeginLoan, Canonical, Table
<1>3. Live(M, l) BY <1>2 DEF Live, NewLoan
<1>4. \A m \in LoanIds : ~Live(M, m) => M[m] = Blank BY <1>2, <1>3 DEF Canonical, Live
<1>5. M[l].authorities = {t} /\ M[l].parent = NoLoan BY <1>2 DEF NewLoan
<1>6. L[l].authorities = {} BY CanonicalLoan DEF BeginAllowed, CanCreate
<1> QED BY <1>1, <1>2, <1>4, <1>5, <1>6 DEF Canonical

LEMMA BeginReduces ==
    ASSUME NEW L, NEW P, NEW G, Canonical(L), Canonical(P), Reduces(L, P, G), IsFiniteSet(LoanIds),
           NEW l \in LoanIds, NEW a \in Allocations,
           NEW r \in Range, NEW k \in Kind, NEW t \in Nat, BeginAllowed(L, l, a, r, k), t \notin G
    PROVE  /\ BeginAllowed(P, l, a, r, k)
           /\ Canonical(BeginLoan(P, l, a, r, k, t))
           /\ Reduces(BeginLoan(L, l, a, r, k, t), BeginLoan(P, l, a, r, k, t), G)
<1>1. BeginAllowed(P, l, a, r, k)
  <2>1. ~Live(P, l) BY ReducedLive DEF BeginAllowed, CanCreate
  <2>2. ActiveCount(P) <= ActiveCount(L) /\ ActiveCount(P) \in Nat /\ ActiveCount(L) \in Nat
    BY ReducedLive, LiveSize
  <2>3. ActiveCount(L) < MaxActiveLoans /\ MaxAliases > 0 /\ MaxActiveLoans \in Nat
    BY LoanTableAssumption DEF BeginAllowed, CanCreate
  <2>4. ActiveCount(P) < MaxActiveLoans BY <2>2, <2>3
  <2> QED BY <2>1, <2>3, <2>4, ReducedNoConflict DEF BeginAllowed, CanCreate
<1> DEFINE M == BeginLoan(L, l, a, r, k, t)
           Q == BeginLoan(P, l, a, r, k, t)
<1>2. M[l] = NewLoan(a, r, k, NoLoan, t) /\ Q[l] = NewLoan(a, r, k, NoLoan, t)
  BY DEF BeginLoan, Canonical, Table
<1>3. \A m \in LoanIds : m # l => M[m] = L[m] /\ Q[m] = P[m] BY DEF BeginLoan, Canonical, Table
<1>4. Canonical(Q) BY <1>1, BeginCanonical
<1> HIDE DEF M, Q
<1>5. Q[l].authorities = M[l].authorities \ G /\ SameStatic(Q[l], M[l])
  BY <1>2 DEF NewLoan, SameStatic
<1>6. Reduces(M, Q, G) BY <1>3, <1>5 DEF Reduces
<1> QED BY <1>1, <1>4, <1>6 DEF M, Q

\* A child of p.
LEMMA ReborrowCanonical ==
    ASSUME NEW L, Canonical(L), NEW l \in LoanIds, NEW p \in LoanIds,
           NEW r \in Range, NEW k \in Kind, NEW h, NEW t \in Nat,
           ReborrowAllowed(L, l, p, r, k, h)
    PROVE  LET M == ReborrowLoan(L, l, p, r, k, t) IN
           /\ Canonical(M) /\ M[l] = NewLoan(L[p].allocation, r, k, p, t)
           /\ L[l].authorities = {} /\ l # p
           /\ \A m \in LoanIds : m # l => M[m].authorities = L[m].authorities /\ SameStatic(M[m], L[m])
<1> DEFINE M == ReborrowLoan(L, l, p, r, k, t)
           S == Suspend(L, p, k)
<1>1. M \in Table /\ TableInv(M) BY ReborrowInv DEF Canonical
<1>2. l # p /\ ~Live(L, l) /\ Live(L, p) BY DEF ReborrowAllowed, CanCreate
<1>3. S \in Table /\ SameLoans(L, S) /\ \A x \in LoanIds : x # p => S[x] = L[x]
  BY <1>2, SuspendSame DEF Canonical, TableInv
<1>4. \A m \in LoanIds : S[m].authorities = L[m].authorities
  BY DEF Suspend, Canonical, Table, Loan
<1>5. M[l] = NewLoan(L[p].allocation, r, k, p, t) /\ \A m \in LoanIds : m # l => M[m] = S[m]
  BY <1>3 DEF ReborrowLoan, Table
<1>6. \A m \in LoanIds : m # l => M[m].authorities = L[m].authorities /\ SameStatic(M[m], L[m])
  BY <1>3, <1>4, <1>5 DEF SameLoans, SameStatic
<1>7. ASSUME NEW m \in LoanIds, ~Live(M, m) PROVE M[m] = Blank
  <2>1. m # l BY <1>5, <1>7 DEF Live, NewLoan
  <2>2. ~Live(L, m) BY <2>1, <1>3, <1>5, <1>7 DEF SameLoans, Live
  <2>3. m # p BY <1>2, <2>2
  <2> QED BY <2>1, <2>2, <2>3, <1>3, <1>5 DEF Canonical
<1>8. L[l].authorities = {} BY <1>2, CanonicalLoan
<1> QED BY <1>1, <1>2, <1>5, <1>6, <1>7, <1>8 DEF Canonical

LEMMA ReducedChain ==
    ASSUME NEW L, NEW P, NEW G, Canonical(L), Canonical(P), Reduces(L, P, G),
           NEW p \in LoanIds, Live(P, p)
    PROVE  Chain(P, p) = Chain(L, p)
<1>1. p \in LiveLoans(P) BY DEF LiveLoans
<1>2. Chain(P, p) \subseteq LiveLoans(P) BY <1>1, ChainLive DEF Canonical, TableInv
<1>3. \A s \in Chain(P, p) : L[s].parent = P[s].parent
  BY <1>2, ReducedLive DEF LiveLoans, SameStatic
<1> QED BY <1>3, ChainSame

LEMMA ReborrowReduces ==
    ASSUME NEW L, NEW P, NEW G, Canonical(L), Canonical(P), Reduces(L, P, G), IsFiniteSet(LoanIds),
           NEW l \in LoanIds, NEW p \in LoanIds, NEW r \in Range, NEW k \in Kind, NEW h, NEW t \in Nat,
           ReborrowAllowed(L, l, p, r, k, h), t \notin G, h \notin G
    PROVE  /\ ReborrowAllowed(P, l, p, r, k, h)
           /\ Canonical(ReborrowLoan(P, l, p, r, k, t))
           /\ Reduces(ReborrowLoan(L, l, p, r, k, t), ReborrowLoan(P, l, p, r, k, t), G)
<1>0. h \in L[p].authorities /\ h \in P[p].authorities BY DEF ReborrowAllowed, Reduces
<1>1. Live(P, p) /\ SameStatic(P[p], L[p]) BY <1>0, CanonicalLoan DEF Reduces
<1>2. ReborrowAllowed(P, l, p, r, k, h)
  <2>1. ~Live(P, l) BY ReducedLive DEF ReborrowAllowed, CanCreate
  <2>2. ActiveCount(P) <= ActiveCount(L) /\ ActiveCount(P) \in Nat /\ ActiveCount(L) \in Nat
    BY ReducedLive, LiveSize
  <2>3. ActiveCount(L) < MaxActiveLoans /\ MaxAliases > 0 /\ MaxActiveLoans \in Nat
    BY LoanTableAssumption DEF ReborrowAllowed, CanCreate
  <2>4. ActiveCount(P) < MaxActiveLoans BY <2>2, <2>3
  <2>5. Chain(P, p) = Chain(L, p) BY <1>1, ReducedChain
  <2>6. ~CreationConflict(P, P[p].allocation, r, k, Chain(P, p))
    <3>1. ~CreationConflict(L, L[p].allocation, r, k, Chain(L, p)) BY DEF ReborrowAllowed
    <3>2. ~CreationConflict(P, L[p].allocation, r, k, Chain(L, p)) BY <3>1, ReducedNoConflict
    <3> QED BY <3>2, <2>5, <1>1 DEF SameStatic
  <2>7. Contains(P[p].range, r) /\ (P[p].kind = "Shared" => k = "Shared")
    BY <1>1 DEF SameStatic, ReborrowAllowed
  <2>8. Cardinality(Chain(P, p)) <= MaxDepth BY <2>5 DEF ReborrowAllowed
  <2> QED BY <2>1, <2>3, <2>4, <2>6, <2>7, <2>8, <1>0, <1>1 DEF ReborrowAllowed, CanCreate
<1> DEFINE M == ReborrowLoan(L, l, p, r, k, t)
           Q == ReborrowLoan(P, l, p, r, k, t)
<1>3. /\ M[l] = NewLoan(L[p].allocation, r, k, p, t)
      /\ \A m \in LoanIds : m # l => M[m].authorities = L[m].authorities /\ SameStatic(M[m], L[m])
  BY ReborrowCanonical
<1>4. /\ Canonical(Q) /\ Q[l] = NewLoan(P[p].allocation, r, k, p, t)
      /\ \A m \in LoanIds : m # l => Q[m].authorities = P[m].authorities /\ SameStatic(Q[m], P[m])
  BY <1>2, ReborrowCanonical
<1> HIDE DEF M, Q
<1>5. Q[l].authorities = M[l].authorities \ G /\ SameStatic(Q[l], M[l])
  BY <1>1, <1>3, <1>4 DEF NewLoan, SameStatic
<1>6. Reduces(M, Q, G) BY <1>3, <1>4, <1>5 DEF Reduces, SameStatic
<1> QED BY <1>2, <1>4, <1>6 DEF M, Q

\* One more holder.
LEMMA AliasCanonical ==
    ASSUME NEW L, Canonical(L), NEW l \in LoanIds, NEW h, NEW t \in Nat, AliasAllowed(L, l, h)
    PROVE  LET M == AliasLoan(L, l, t) IN
           /\ Canonical(M) /\ M[l].authorities = L[l].authorities \cup {t} /\ SameStatic(M[l], L[l])
           /\ L[l].authorities # {} /\ L[l].kind = "Shared"
           /\ \A m \in LoanIds : m # l => M[m] = L[m]
<1> DEFINE M == AliasLoan(L, l, t)
<1>1. M \in Table /\ TableInv(M) BY AliasInv DEF Canonical
<1>2. L[l] \in Loan BY CanonicalLoan
<1>3. /\ M[l].authorities = L[l].authorities \cup {t} /\ SameStatic(M[l], L[l])
      /\ M[l].activity = L[l].activity
      /\ \A m \in LoanIds : m # l => M[m] = L[m]
  BY <1>2 DEF AliasLoan, Canonical, Table, Loan, SameStatic
<1>4. Live(M, l) BY <1>3 DEF AliasAllowed, Live
<1>5. \A m \in LoanIds : ~Live(M, m) => M[m] = Blank BY <1>3, <1>4 DEF Canonical, Live
<1>6. L[l].authorities # {} /\ L[l].kind = "Shared" BY DEF AliasAllowed
<1> QED BY <1>1, <1>3, <1>5, <1>6 DEF Canonical

LEMMA AliasReduces ==
    ASSUME NEW L, NEW P, NEW G, Canonical(L), Canonical(P), Reduces(L, P, G),
           NEW l \in LoanIds, NEW h, NEW t \in Nat, AliasAllowed(L, l, h), t \notin G, h \notin G,
           IsFiniteSet(L[l].authorities)
    PROVE  /\ AliasAllowed(P, l, h)
           /\ Canonical(AliasLoan(P, l, t))
           /\ Reduces(AliasLoan(L, l, t), AliasLoan(P, l, t), G)
<1>0. h \in L[l].authorities /\ h \in P[l].authorities BY DEF AliasAllowed, Reduces
<1>1. Live(P, l) /\ SameStatic(P[l], L[l]) BY <1>0, CanonicalLoan DEF Reduces
<1>2. AliasAllowed(P, l, h)
  <2>1. P[l].activity = "Active" BY <1>1, ReducedLive DEF AliasAllowed
  <2>2. Cardinality(P[l].authorities) < MaxAliases
    <3>1. P[l].authorities \subseteq L[l].authorities BY DEF Reduces
    <3>2. \A S : (Finite!IsFiniteSet(S) <=> IsFiniteSet(S)) /\ Finite!Cardinality(S) = Cardinality(S)
      BY DEF Finite!IsFiniteSet, IsFiniteSet, Finite!Cardinality, Cardinality
    <3>3. Cardinality(P[l].authorities) <= Cardinality(L[l].authorities)
          /\ Cardinality(P[l].authorities) \in Nat /\ Cardinality(L[l].authorities) \in Nat
      BY <3>1, <3>2, Finite!FS_Subset, Finite!FS_CardinalityType
    <3>4. Cardinality(L[l].authorities) < MaxAliases /\ MaxAliases \in Nat
      BY LoanTableAssumption DEF AliasAllowed
    <3> QED BY <3>3, <3>4
  <2> QED BY <2>1, <2>2, <1>0, <1>1 DEF AliasAllowed, SameStatic
<1> DEFINE M == AliasLoan(L, l, t)
           Q == AliasLoan(P, l, t)
<1>3. /\ M[l].authorities = L[l].authorities \cup {t} /\ SameStatic(M[l], L[l])
      /\ \A m \in LoanIds : m # l => M[m] = L[m]
  BY AliasCanonical
<1>4. /\ Canonical(Q) /\ Q[l].authorities = P[l].authorities \cup {t} /\ SameStatic(Q[l], P[l])
      /\ \A m \in LoanIds : m # l => Q[m] = P[m]
  BY <1>2, AliasCanonical
<1> HIDE DEF M, Q
<1>5. Q[l].authorities = M[l].authorities \ G /\ SameStatic(Q[l], M[l])
  <2>1. P[l].authorities = L[l].authorities \ G BY DEF Reduces
  <2>2. Q[l].authorities = M[l].authorities \ G BY <2>1, <1>3, <1>4
  <2> QED BY <2>2, <1>1, <1>3, <1>4 DEF SameStatic
<1>6. Reduces(M, Q, G) BY <1>3, <1>4, <1>5 DEF Reduces
<1> QED BY <1>2, <1>4, <1>6 DEF M, Q

\* One holder less.
LEMMA EndCanonical ==
    ASSUME NEW L, Canonical(L), NEW l \in LoanIds, NEW h,
           EndAllowed(L, l, h) \/ EndStoredAllowed(L, l, h)
    PROVE  LET M == EndLoan(L, l, h) IN
           /\ Canonical(M) /\ h \in L[l].authorities
           /\ \A m \in LoanIds :
                 /\ M[m].authorities = IF m = l THEN L[m].authorities \ {h} ELSE L[m].authorities
                 /\ M[m].authorities # {} => SameStatic(M[m], L[m])
<1> DEFINE M == EndLoan(L, l, h)
           B == [L EXCEPT ![l] = Blank]
<1>0. L \in Table BY DEF Canonical
<1>1. h \in L[l].authorities BY DEF EndAllowed, EndStoredAllowed
<1>2. M \in Table /\ TableInv(M) BY EndInv DEF Canonical
<1>3. Revokes(L, M, l, h) BY <1>0, <1>1, EndRevokes
<1>4. \A m \in LoanIds : M[m].parent = L[m].parent \/ M[m] = Blank
  <2>1. CASE L[l].authorities # {h}
    <3>1. M = [L EXCEPT ![l].authorities = @ \ {h}] BY <2>1 DEF EndLoan
    <3> QED BY <3>1, <1>0 DEF Table, Loan
  <2>2. CASE L[l].authorities = {h}
    <3>1. M = RestoreParent(B, L[l].parent) BY <2>2 DEF EndLoan
    <3>2. B \in Table /\ B[l] = Blank /\ \A m \in LoanIds : m # l => B[m] = L[m]
      BY <1>0, BlankLoan DEF Table
    <3> HIDE DEF B, M
    <3>3. \A m \in LoanIds : M[m] = B[m] \/ (M[m].parent = B[m].parent /\ Live(B, m))
      BY <3>1, <3>2 DEF RestoreParent, Table, Loan, Live
    <3>4. ~Live(B, l) BY <3>2, BlankLoan DEF Live
    <3> QED BY <3>2, <3>3, <3>4
  <2> QED BY <2>1, <2>2
<1>5. \A m \in LoanIds : M[m].authorities # {} => SameStatic(M[m], L[m])
  BY <1>3, <1>4, BlankLoan DEF Revokes, SameStatic
<1>6. ASSUME NEW m \in LoanIds, ~Live(M, m) PROVE M[m] = Blank
  <2>0. Held(M) BY <1>2 DEF TableInv
  <2>1. M[m].authorities = {} BY <1>6, <2>0 DEF Held
  <2>2. CASE L[m].authorities = {}
    <3>1. m # l BY <2>2, <1>1
    <3>2. L[m] = Blank BY <2>2, CanonicalLoan
    <3>3. CASE L[l].authorities # {h}
      <4>1. M = [L EXCEPT ![l].authorities = @ \ {h}] BY <3>3 DEF EndLoan
      <4> QED BY <4>1, <3>1, <3>2, <1>0 DEF Table
    <3>4. CASE L[l].authorities = {h}
      <4>1. M = RestoreParent(B, L[l].parent) BY <3>4 DEF EndLoan
      <4>2. B \in Table /\ B[m] = Blank BY <1>0, <3>1, <3>2, BlankLoan DEF Table
      <4>3. ~Live(B, m) BY <4>2, BlankLoan DEF Live
      <4> HIDE DEF B, M
      <4> QED BY <4>1, <4>2, <4>3 DEF RestoreParent, Table, Live
    <3> QED BY <3>3, <3>4
  <2>3. CASE L[m].authorities # {}
    <3>1. m = l /\ L[l].authorities = {h} BY <2>1, <2>3, <1>3 DEF Revokes
    <3>2. M = RestoreParent(B, L[l].parent) BY <3>1 DEF EndLoan
    <3>3. B \in Table /\ B[l] = Blank BY <1>0, BlankLoan DEF Table
    <3>4. ~Live(B, l) BY <3>3, BlankLoan DEF Live
    <3> HIDE DEF B, M
    <3> QED BY <3>1, <3>2, <3>3, <3>4 DEF RestoreParent, Table, Live
  <2> QED BY <2>2, <2>3
<1> QED BY <1>1, <1>2, <1>3, <1>5, <1>6 DEF Canonical, Revokes

\* A holder that leaves the smaller table joins the missing tokens.
LEMMA EndReduced ==
    ASSUME NEW L, NEW P, NEW G, Canonical(P), Reduces(L, P, G), TokensApart(L),
           NEW l \in LoanIds, NEW h, EndAllowed(P, l, h) \/ EndStoredAllowed(P, l, h)
    PROVE  Canonical(EndLoan(P, l, h)) /\ Reduces(L, EndLoan(P, l, h), G \cup {h})
<1> DEFINE Q == EndLoan(P, l, h)
<1>1. /\ Canonical(Q) /\ h \in P[l].authorities
      /\ \A m \in LoanIds :
            /\ Q[m].authorities = IF m = l THEN P[m].authorities \ {h} ELSE P[m].authorities
            /\ Q[m].authorities # {} => SameStatic(Q[m], P[m])
  BY EndCanonical
<1> HIDE DEF Q
<1>2. h \in L[l].authorities BY <1>1 DEF Reduces
<1>3. \A m \in LoanIds : m # l => h \notin L[m].authorities BY <1>2 DEF TokensApart
<1>4. \A m \in LoanIds : Q[m].authorities = L[m].authorities \ (G \cup {h}) BY <1>1, <1>3 DEF Reduces
<1>5. \A m \in LoanIds : Q[m].authorities # {} => SameStatic(Q[m], L[m])
  <2> SUFFICES ASSUME NEW m \in LoanIds, Q[m].authorities # {} PROVE SameStatic(Q[m], L[m]) OBVIOUS
  <2>1. P[m].authorities # {} /\ SameStatic(Q[m], P[m]) BY <1>1
  <2>2. SameStatic(P[m], L[m]) BY <2>1 DEF Reduces
  <2> QED BY <2>1, <2>2 DEF SameStatic
<1> QED BY <1>1, <1>4, <1>5 DEF Reduces, Q

\* A holder that leaves the larger table is no longer missing from the smaller one.
LEMMA EndAbsorbed ==
    ASSUME NEW L, NEW P, NEW G, NEW F, Canonical(L), TokensApart(L),
           NEW l \in LoanIds, NEW h, EndAllowed(L, l, h) \/ EndStoredAllowed(L, l, h),
           Reduces(L, P, G), h \in G, F = G \ {h}
    PROVE  Reduces(EndLoan(L, l, h), P, F)
<1> DEFINE M == EndLoan(L, l, h)
<1>1. /\ h \in L[l].authorities
      /\ \A m \in LoanIds :
            /\ M[m].authorities = IF m = l THEN L[m].authorities \ {h} ELSE L[m].authorities
            /\ M[m].authorities # {} => SameStatic(M[m], L[m])
  BY EndCanonical
<1> HIDE DEF M
<1>2. \A m \in LoanIds : m # l => h \notin L[m].authorities BY <1>1 DEF TokensApart
<1>3. \A m \in LoanIds : P[m].authorities = M[m].authorities \ F BY <1>1, <1>2 DEF Reduces
<1>4. \A m \in LoanIds : P[m].authorities # {} => SameStatic(P[m], M[m])
  <2> SUFFICES ASSUME NEW m \in LoanIds, P[m].authorities # {} PROVE SameStatic(P[m], M[m]) OBVIOUS
  <2>1. M[m].authorities # {} BY <1>3
  <2>2. SameStatic(P[m], L[m]) /\ SameStatic(M[m], L[m]) BY <2>1, <1>1 DEF Reduces
  <2> QED BY <2>2 DEF SameStatic
<1> QED BY <1>3, <1>4 DEF Reduces, M

\* The same holder leaves both tables.
LEMMA EndBoth ==
    ASSUME NEW L, NEW P, NEW G, Canonical(L), Canonical(P), Reduces(L, P, G),
           NEW l \in LoanIds, NEW h,
           EndAllowed(L, l, h) \/ EndStoredAllowed(L, l, h),
           EndAllowed(P, l, h) \/ EndStoredAllowed(P, l, h)
    PROVE  /\ Canonical(EndLoan(P, l, h))
           /\ Reduces(EndLoan(L, l, h), EndLoan(P, l, h), G)
<1> DEFINE M == EndLoan(L, l, h)
           Q == EndLoan(P, l, h)
<1>1. \A m \in LoanIds :
         /\ M[m].authorities = IF m = l THEN L[m].authorities \ {h} ELSE L[m].authorities
         /\ M[m].authorities # {} => SameStatic(M[m], L[m])
  BY EndCanonical
<1>2. /\ Canonical(Q)
      /\ \A m \in LoanIds :
            /\ Q[m].authorities = IF m = l THEN P[m].authorities \ {h} ELSE P[m].authorities
            /\ Q[m].authorities # {} => SameStatic(Q[m], P[m])
  BY EndCanonical
<1> HIDE DEF M, Q
<1>3. \A m \in LoanIds : Q[m].authorities = M[m].authorities \ G BY <1>1, <1>2 DEF Reduces
<1>4. \A m \in LoanIds : Q[m].authorities # {} => SameStatic(Q[m], M[m])
  <2> SUFFICES ASSUME NEW m \in LoanIds, Q[m].authorities # {} PROVE SameStatic(Q[m], M[m]) OBVIOUS
  <2>1. M[m].authorities # {} /\ P[m].authorities # {} BY <1>2, <1>3
  <2>2. SameStatic(P[m], L[m]) /\ SameStatic(M[m], L[m]) /\ SameStatic(Q[m], P[m])
    BY <2>1, <1>1, <1>2 DEF Reduces
  <2> QED BY <2>2 DEF SameStatic
<1> QED BY <1>2, <1>3, <1>4 DEF Reduces, M, Q

\* What may be accessed stays accessible: an access looks at no token but its own.
LEMMA AccessReduced ==
    ASSUME NEW L, NEW P, NEW G, Canonical(L), Canonical(P), Reduces(L, P, G),
           NEW v, v.loan \in LoanIds, v.token \notin G, NEW r, NEW access, CheckAccess(L, v, r, access)
    PROVE  CheckAccess(P, v, r, access) /\ P[v.loan].kind = L[v.loan].kind
<1>1. AuthorityAccess(L, v, r, access) BY DEF CheckAccess
<1>2. v.token \in P[v.loan].authorities BY <1>1 DEF AuthorityAccess, Reduces
<1>3. Live(P, v.loan) /\ SameStatic(P[v.loan], L[v.loan]) BY <1>2, CanonicalLoan DEF Reduces
<1>4. P[v.loan].activity = "Active" BY <1>1, <1>3, ReducedLive DEF AuthorityAccess
<1>5. AuthorityAccess(P, v, r, access) BY <1>1, <1>2, <1>3, <1>4 DEF AuthorityAccess, SameStatic
<1> QED BY <1>3, <1>5 DEF CheckAccess, SameStatic

LEMMA OwnerReduced ==
    ASSUME NEW L, NEW P, NEW G, Canonical(L), Canonical(P), Reduces(L, P, G),
           NEW v, NEW r, NEW access, OwnerAccess(L, v, r, access)
    PROVE  OwnerAccess(P, v, r, access)
BY ReducedLive DEF OwnerAccess, SameStatic

=============================================================================
