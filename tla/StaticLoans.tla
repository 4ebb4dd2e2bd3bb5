----------------------------- MODULE StaticLoans -----------------------------
(***************************************************************************)
(* The verifier's loan analysis beside the runtime loan shadow.            *)
(*                                                                         *)
(* cur pairs the abstract state of one control-flow path (abs: what the    *)
(* transfer functions of transfer/loan.rs and the joins of                 *)
(* resource/state.rs know of the loans) with one run of the interpreter    *)
(* that the abstract state stands for (run: its loan table and the         *)
(* authorities its permission values hold).  Every step is one VIR         *)
(* instruction executed by both, or a control-flow edge.  other is the     *)
(* second path of the branch or loop the code is in: Fork leaves a copy    *)
(* behind, Switch turns to the second arm, and Merge projects both paths   *)
(* onto the parameters of the block they meet in and joins them.  A merge  *)
(* without a switch is the back edge of a loop whose head is the fork.     *)
(*                                                                         *)
(* A step of the analysis is taken only when each obligation it raises is  *)
(* Proven: a function with another obligation is not verified, and nothing *)
(* is claimed of its runs.  (So the activity a loan gets after an unproven *)
(* step, and the precision losses that come with an unproven budget, do    *)
(* not occur.)  A run that refuses an instruction stops there: refused.    *)
(*                                                                         *)
(* The owner's permission covers the allocation and is carried along every *)
(* edge.  Offsets are constants, so every overlap question has an answer;  *)
(* initialization, predicates and authorities stored in memory are left    *)
(* out.                                                                    *)
(***************************************************************************)
EXTENDS LoanTable

CONSTANTS
    Names,     \* SSA permission values that carry loan authorities
    Sites,     \* the programs to check: the loan sites each has, and their shape
    Leaks,     \* may an edge leave an available authority behind?
    MaxArm     \* bound: instructions that change the state in an arm of a fork

\* A site is a LoanBegin (root) or a LoanReborrow.
SiteType == [kind : Kind, range : Range, root : BOOLEAN]

ASSUME StaticLoansAssumption ==
    /\ \A s \in Sites : DOMAIN s \subseteq LoanIds /\ s \in [DOMAIN s -> SiteType]
    /\ IsFiniteSet(LoanIds) /\ IsFiniteSet(Names)
    /\ MaxAliases > 0
    /\ Leaks \in BOOLEAN
    /\ MaxArm \in Nat

VARIABLES
    site,      \* kind and range of each loan of the program text
    cur,       \* the path being executed: [abs, run]
    other,     \* the path left at the fork
    stage,     \* "straight", "first" or "second" arm, "returned"
    room       \* instructions the current arm may still have

vars == <<site, cur, other, stage, room>>

-----------------------------------------------------------------------------
(* The abstract state.  An absent loan has no record: its other fields are *)
(* those of Missing.  A permission value is undefined, or has an authority *)
(* (NoLoan is PermissionAuthority::Unknown) and an availability.           *)

AbstractActivity == Activity \cup {"MaybeActive", "Absent"}

AbstractLoan ==
    [activity : AbstractActivity, parent : LoanIds \cup {NoLoan},
     authorities : SUBSET Names]

Availability == {"Undefined", "Available", "Consumed", "MaybeConsumed"}

AbstractPermission ==
    [authority : LoanIds \cup {NoLoan}, availability : Availability]

AbstractState ==
    [loans : [LoanIds -> AbstractLoan], values : [Names -> AbstractPermission],
     lost : BOOLEAN]

Missing == [activity |-> "Absent", parent |-> NoLoan, authorities |-> {}]

Undefined == [authority |-> NoLoan, availability |-> "Undefined"]

Recorded(A, l) == A.loans[l].activity # "Absent"

Gone(A, l) == A.loans[l].activity \in {"Ended", "Absent"}

EmptyState ==
    [loans |-> [l \in LoanIds |-> Missing],
     values |-> [x \in Names |-> Undefined], lost |-> FALSE]

-----------------------------------------------------------------------------
(* A run: its loan table and the token each permission value holds.        *)

Nothing == [loan |-> NoLoan, token |-> NoToken]

Tokens == 0 .. MaxAliases

RunState ==
    [table : [LoanIds -> Loan],
     held : [Names -> [loan : LoanIds \cup {NoLoan}, token : Tokens \cup {NoToken}]],
     refused : BOOLEAN]

EmptyRun ==
    [table |-> [l \in LoanIds |-> Blank], held |-> [x \in Names |-> Nothing],
     refused |-> FALSE]

\* The next token: the shadow counts upwards, only freshness matters.
FreshToken(L, l) == CHOOSE t \in Tokens : t \notin L[l].authorities

Heap == CHOOSE a \in Allocations : TRUE

\* A run executes an instruction: it goes on as next, or refuses.
Execute(R, allowed, next) ==
    IF R.refused THEN R ELSE IF allowed THEN next ELSE [R EXCEPT !.refused = TRUE]

-----------------------------------------------------------------------------
(* What the obligations ask of the abstract state.                         *)

\* tracked_loan_authority_status and the availability of the permission.
HoldsAuthority(A, x) ==
    LET l == A.values[x].authority IN
    /\ A.values[x].availability = "Available"
    /\ l \in LoanIds
    /\ Recorded(A, l)
    /\ x \in A.loans[l].authorities

NoActiveChild(A, p) == \A l \in LoanIds : A.loans[l].parent = p => Gone(A, l)

\* A new loan agrees with every loan that may be live and is not an ancestor,
\* and no join has lost sight of the loans.
CreationCompatible(A, l, ignored) ==
    /\ \A m \in DOMAIN site \ ignored :
        \/ Gone(A, m)
        \/ ~Overlap(site[l].range, site[m].range)
        \/ BothShared(site[l].kind, site[m].kind) /\ A.loans[m].activity # "MaybeActive"
    /\ ~A.lost

\* The previous instance of the loan site has ended, and there is room.
CanCreateStatic(A, l) ==
    /\ Gone(A, l)
    /\ Cardinality({m \in LoanIds : ~Gone(A, m)}) < MaxActiveLoans

OwnerAccessProven(A, r, access) ==
    /\ \A l \in DOMAIN site :
        \/ Gone(A, l)
        \/ ~Overlap(r, site[l].range)
        \/ A.loans[l].activity = "Active" /\ site[l].kind = "Shared" /\ access = "Read"
    /\ ~A.lost

LoanAccessProven(A, x, r, access) ==
    /\ HoldsAuthority(A, x)
    /\ LET l == A.values[x].authority IN
       /\ A.loans[l].activity = "Active"
       /\ Contains(site[l].range, r)
       /\ KindAllows(site[l].kind, access)

-----------------------------------------------------------------------------
(* Changes of the abstract state. *)

\* A name is free for a result when the block does not define it; the name of a
\* consumed value may be taken over, since no use of that value is ever proven.
\* A name that is free but still on record is a parameter of an earlier block,
\* which no instruction defines, unless an edge left an authority behind.
Free(A, y) ==
    /\ A.values[y].availability \in {"Undefined", "Consumed"}
    /\ Leaks \/ \A l \in LoanIds : y \notin A.loans[l].authorities

Define(A, y, l) ==
    [A EXCEPT !.values[y] = [authority |-> l, availability |-> "Available"]]

Consume(A, x) == [A EXCEPT !.values[x].availability = "Consumed"]

NewInstance(A, l, p, y) ==
    Define([A EXCEPT !.loans[l] =
               [activity |-> "Active", parent |-> p, authorities |-> {y}]], y, l)

RestoreParentAfterChild(A, p) ==
    IF p \in LoanIds /\ Recorded(A, p)
    THEN [A EXCEPT !.loans[p].activity =
             CASE @ = "Active" -> "Active"
               [] @ = "Suspended" -> IF NoActiveChild(A, p) THEN "Active" ELSE "Suspended"
               [] OTHER -> "MaybeActive"]
    ELSE A

\* The holder's authority leaves the set; the last one ends the loan.
RemoveAuthority(A, x) ==
    LET l == A.values[x].authority
        B == [Consume(A, x) EXCEPT !.loans[l].authorities = @ \ {x}]
    IN  IF B.loans[l].authorities # {} THEN B
        ELSE RestoreParentAfterChild([B EXCEPT !.loans[l].activity = "Ended"], A.loans[l].parent)

-----------------------------------------------------------------------------
(* The instructions. *)

Init ==
    /\ site \in Sites
    /\ cur = [abs |-> EmptyState, run |-> EmptyRun]
    /\ other = [abs |-> EmptyState, run |-> EmptyRun]
    /\ stage = "straight"
    /\ room = 0

Step(A, allowed, R) ==
    /\ cur' = [abs |-> A, run |-> Execute(cur.run, allowed, R)]
    /\ room' = IF stage = "straight" THEN 0 ELSE room - 1
    /\ UNCHANGED <<site, other, stage>>

Running == stage = "straight" \/ (stage \in {"first", "second"} /\ room > 0)

\* An access changes nothing, unless the run refuses it.
Observe(allowed) ==
    /\ stage # "returned"
    /\ cur' = [cur EXCEPT !.run = Execute(@, allowed, @)]
    /\ UNCHANGED <<site, other, stage, room>>

\* loan_begin: a root loan of the owner's bytes.
LoanBegin(l, y) ==
    LET A == cur.abs  R == cur.run  t == FreshToken(R.table, l) IN
    /\ Running /\ site[l].root /\ Free(A, y)
    /\ CanCreateStatic(A, l)
    /\ CreationCompatible(A, l, {})
    /\ Step(NewInstance(A, l, NoLoan, y),
            BeginAllowed(R.table, l, Heap, site[l].range, site[l].kind),
            [R EXCEPT !.table = BeginLoan(@, l, Heap, site[l].range, site[l].kind, t),
                      !.held[y] = [loan |-> l, token |-> t]])

\* loan_reborrow and loan_reborrow_authority: the parent is the loan whose
\* authority the source carries.
LoanReborrow(l, x, y) ==
    LET A == cur.abs  R == cur.run  p == A.values[x].authority
        t == FreshToken(R.table, l)
        B == IF BothShared(site[p].kind, site[l].kind) THEN A
             ELSE [A EXCEPT !.loans[p].activity = "Suspended"]
    IN
    /\ Running /\ ~site[l].root /\ x # y /\ Free(A, y)
    /\ HoldsAuthority(A, x)
    /\ A.loans[p].activity \in {"Active", "Suspended"}
    /\ Contains(site[p].range, site[l].range)
    /\ site[p].kind = "Shared" => site[l].kind = "Shared"
    /\ Cardinality(Chain(A.loans, p)) <= MaxDepth
    /\ CanCreateStatic(A, l)
    /\ CreationCompatible(A, l, Chain(A.loans, p))
    /\ Step(NewInstance(B, l, p, y),
            R.held[x].loan = p /\ ReborrowAllowed(R.table, l, p, site[l].range, site[l].kind, R.held[x].token),
            [R EXCEPT !.table = ReborrowLoan(@, l, p, site[l].range, site[l].kind, t),
                      !.held[y] = [loan |-> l, token |-> t]])

\* loan_alias_shared and loan_alias_authority.
LoanAlias(x, y) ==
    LET A == cur.abs  R == cur.run  l == A.values[x].authority
        t == FreshToken(R.table, l)
    IN
    /\ Running /\ x # y /\ Free(A, y)
    /\ HoldsAuthority(A, x)
    /\ A.loans[l].activity = "Active"
    /\ site[l].kind = "Shared"
    /\ Cardinality(A.loans[l].authorities) < MaxAliases
    /\ Step(Define([A EXCEPT !.loans[l].authorities = @ \cup {y}], y, l),
            R.held[x].loan = l /\ AliasAllowed(R.table, l, R.held[x].token),
            [R EXCEPT !.table = AliasLoan(@, l, t), !.held[y] = [loan |-> l, token |-> t]])

\* (Mutant: the loan still names the old holder.)
MoveAuthorityForgets(A, x, y) == A

\* move_loan_authority renames the holder of the loan the value carries (always on
\* record if the value is available: TypeOK).  A value that carries one loan or
\* another (Unknown, after a join) renames none.
MoveAuthority(A, x, y) ==
    LET l == A.values[x].authority IN
    IF l \in LoanIds THEN [A EXCEPT !.loans[l].authorities = (@ \ {x}) \cup {y}] ELSE A

\* permission_move asks for an available value, whatever authority it has.
PermissionMove(x, y) ==
    LET A == cur.abs  R == cur.run IN
    /\ Running /\ x # y /\ Free(A, y)
    /\ A.values[x].availability = "Available"
    /\ Step(Define(MoveAuthority(Consume(A, x), x, y), y, A.values[x].authority),
            R.held[x].loan \in LoanIds,
            [R EXCEPT !.held = [@ EXCEPT ![y] = R.held[x], ![x] = Nothing]])

\* loan_end.
LoanEnd(x) ==
    LET A == cur.abs  R == cur.run  l == A.values[x].authority IN
    /\ Running
    /\ HoldsAuthority(A, x)
    /\ A.loans[l].activity = "Active"
    /\ NoActiveChild(A, l)
    /\ Step(RemoveAuthority(A, x),
            R.held[x].loan = l /\ EndAllowed(R.table, l, R.held[x].token),
            [R EXCEPT !.table = EndLoan(@, l, R.held[x].token), !.held[x] = Nothing])

\* loan_end_authority: children matter only to the last holder.
LoanEndAuthority(x) ==
    LET A == cur.abs  R == cur.run  l == A.values[x].authority IN
    /\ Running
    /\ HoldsAuthority(A, x)
    /\ A.loans[l].activity = "Active"
    /\ Cardinality(A.loans[l].authorities) > 1 \/ NoActiveChild(A, l)
    /\ Step(RemoveAuthority(A, x),
            R.held[x].loan = l /\ EndStoredAllowed(R.table, l, R.held[x].token),
            [R EXCEPT !.table = EndLoan(@, l, R.held[x].token), !.held[x] = Nothing])

\* An access touches at least one byte.
Bytes == {r \in Range : r.start < r.end}

\* A memory access by the owner: proven, so the run must not refuse it.
OwnerAccesses(r, access) ==
    /\ OwnerAccessProven(cur.abs, r, access)
    /\ Observe(OwnerAccess(cur.run.table, Owner(Heap, r, TRUE), r, access))

\* A memory access through a reference.
LoanAccesses(x, r, access) ==
    LET h == cur.run.held[x] IN
    /\ LoanAccessProven(cur.abs, x, r, access)
    /\ Observe(/\ h.loan \in LoanIds
               /\ AuthorityAccess(cur.run.table, Carrier(Heap, r, h.loan, h.token), r, access))

-----------------------------------------------------------------------------
(* Control flow.  An edge passes distinct values to the parameters of the  *)
(* next block: rename maps the parameters to the values passed.            *)

Renames == UNION {{f \in [P -> Names] : \A x, y \in P : f[x] = f[y] => x = y} : P \in SUBSET Names}

\* Without leaks, every value that may still hold an authority is passed.
Passable(A, f) ==
    /\ \A x \in DOMAIN f : A.values[f[x]].availability # "Undefined"
    /\ ~Leaks => \A x \in Names :
        A.values[x].availability \in {"Available", "MaybeConsumed"} => \E y \in DOMAIN f : f[y] = x

\* An authority is renamed to the parameter it is passed to; one that is not
\* passed keeps the name of the value that held it.
RenameAuthority(f, x) ==
    IF \E y \in DOMAIN f : f[y] = x THEN CHOOSE y \in DOMAIN f : f[y] = x ELSE x

ProjectEdge(A, f) ==
    [A EXCEPT !.loans = [l \in LoanIds |->
                   [A.loans[l] EXCEPT !.authorities =
                       {RenameAuthority(f, x) : x \in A.loans[l].authorities}]],
              !.values = [x \in Names |-> IF x \in DOMAIN f THEN @[f[x]] ELSE Undefined]]

EnterBlock(R, f) ==
    [R EXCEPT !.held = [x \in Names |-> IF x \in DOMAIN f THEN @[f[x]] ELSE Nothing]]

\* LoanMetadataMismatch: the join fails when a site has two parents.
Joinable(A, B) ==
    \A l \in LoanIds :
        Recorded(A, l) /\ Recorded(B, l) => A.loans[l].parent = B.loans[l].parent

\* (Mutant: a loan with no record on one path is forgotten.)
JoinLoanForgets(a, b) ==
    CASE a.activity = "Absent" \/ b.activity = "Absent" -> Missing
      [] OTHER -> [activity |-> IF a.activity = b.activity THEN a.activity ELSE "MaybeActive",
                   parent |-> a.parent, authorities |-> a.authorities \cup b.authorities]

\* The tombstone of a loan that the other path never began is dropped; a loan
\* that may be live on one path only is kept as MaybeActive.
JoinLoan(a, b) ==
    LET known == IF a.activity = "Absent" THEN b ELSE a IN
    CASE a.activity = "Absent" /\ b.activity = "Absent" -> Missing
      [] a.activity # "Absent" /\ b.activity # "Absent" ->
            [activity |-> IF a.activity = b.activity THEN a.activity ELSE "MaybeActive",
             parent |-> a.parent, authorities |-> a.authorities \cup b.authorities]
      [] OTHER -> IF known.activity = "Ended" THEN Missing
                  ELSE [known EXCEPT !.activity = "MaybeActive"]

\* What the join of two records of a loan loses.
PrecisionLost(a, b) ==
    IF a.activity = "Absent" \/ b.activity = "Absent"
    THEN ~({a.activity, b.activity} \subseteq {"Absent", "Ended"})
    ELSE a # b

JoinPermission(v, w) ==
    IF "Undefined" \in {v.availability, w.availability} THEN Undefined
    ELSE [authority |-> IF v.authority = w.authority THEN v.authority ELSE NoLoan,
          availability |-> IF v.availability = w.availability THEN v.availability
                           ELSE "MaybeConsumed"]

JoinState(A, B) ==
    [loans |-> [l \in LoanIds |-> JoinLoan(A.loans[l], B.loans[l])],
     values |-> [x \in Names |-> JoinPermission(A.values[x], B.values[x])],
     lost |-> \/ A.lost \/ B.lost
              \/ \E l \in LoanIds : PrecisionLost(A.loans[l], B.loans[l])]

\* A branch, or the entry of a loop.
Fork ==
    /\ stage = "straight"
    /\ other' = cur
    /\ stage' = "first" /\ room' = MaxArm
    /\ UNCHANGED <<site, cur>>

\* The first arm is complete: the second starts from the fork.
Switch ==
    /\ stage = "first"
    /\ cur' = other /\ other' = cur
    /\ stage' = "second" /\ room' = MaxArm
    /\ UNCHANGED site

\* Both paths reach the same block; the run came along one of them.  The block's
\* parameters are named after the values the other path passes.
Merge(f) ==
    LET g == [x \in DOMAIN f |-> x]
        A == ProjectEdge(cur.abs, f)
        B == ProjectEdge(other.abs, g)
    IN
    /\ stage \in {"first", "second"}
    /\ Passable(cur.abs, f) /\ Passable(other.abs, g)
    /\ Joinable(A, B)
    /\ \E R \in {EnterBlock(cur.run, f), EnterBlock(other.run, g)} :
        cur' = [abs |-> JoinState(A, B), run |-> R]
    /\ other' = [abs |-> EmptyState, run |-> EmptyRun]
    /\ stage' = "straight" /\ room' = 0
    /\ UNCHANGED site

\* (Mutant: a loan that is only perhaps live does not stop the return.)
ReturnCertain ==
    /\ stage # "returned"
    /\ \A l \in LoanIds : cur.abs.loans[l].activity \notin {"Active", "Suspended"}
    /\ cur' = [cur EXCEPT !.run = Execute(@, FinishAllowed(@.table), @)]
    /\ other' = [abs |-> EmptyState, run |-> EmptyRun]
    /\ stage' = "returned" /\ room' = 0
    /\ UNCHANGED site

\* transfer_return: each loan must have ended; the shadow's finish must agree.
Return ==
    /\ stage # "returned"
    /\ \A l \in LoanIds : Gone(cur.abs, l)
    /\ cur' = [cur EXCEPT !.run = Execute(@, FinishAllowed(@.table), @)]
    /\ other' = [abs |-> EmptyState, run |-> EmptyRun]
    /\ stage' = "returned" /\ room' = 0
    /\ UNCHANGED site

Next ==
    \/ \E l \in DOMAIN site, y \in Names : LoanBegin(l, y)
    \/ \E l \in DOMAIN site, x, y \in Names : LoanReborrow(l, x, y)
    \/ \E x, y \in Names : LoanAlias(x, y)
    \/ \E x, y \in Names : PermissionMove(x, y)
    \/ \E x \in Names : LoanEnd(x)
    \/ \E x \in Names : LoanEndAuthority(x)
    \/ \E r \in Bytes, access \in {"Read", "Write"} : OwnerAccesses(r, access)
    \/ \E x \in Names, r \in Bytes, access \in {"Read", "Write"} : LoanAccesses(x, r, access)
    \/ Fork
    \/ Switch
    \/ \E f \in Renames : Merge(f)
    \/ Return

Spec == Init /\ [][Next]_vars

-----------------------------------------------------------------------------
(* Properties. *)

\* Abstract states and runs keep their shape, and the two halves of an abstract
\* state agree: a loan names every available value that carries its authority.
TypeOK ==
    /\ site \in Sites
    /\ \A path \in {cur, other} :
        /\ path.abs \in AbstractState
        /\ path.run \in RunState
        /\ \A x \in Names :
            LET v == path.abs.values[x] IN
            v.availability = "Available" /\ v.authority \in LoanIds
            => x \in path.abs.loans[v.authority].authorities
    /\ stage \in {"straight", "first", "second", "returned"}
    /\ room \in 0 .. MaxArm

\* Some holder on record can no longer be used, so no instruction removes it and
\* the loan stays on record.
Kept(A, l) ==
    \E x \in A.loans[l].authorities :
        A.values[x] # [authority |-> l, availability |-> "Available"]

\* Every loan that is live in a run is on record in the abstract state that
\* stands for the run, whichever joins and dropped tombstones lie behind it; a
\* loan the analysis calls active is suspended in no run, so that nobody uses a
\* reference while its bytes are lent on; and each holder in the run is a holder
\* on record.  permission_move drops a holder from the record when a join has made
\* its loan unknown, but then the loan has a holder that can never be removed, so
\* that the record of the loan outlives every holder it does not list.
LiveLoansKnown ==
    LET A == cur.abs  R == cur.run IN
    ~R.refused =>
        /\ \A l \in LiveLoans(R.table) :
            /\ ~Gone(A, l)
            /\ A.loans[l].parent = R.table[l].parent
            /\ A.loans[l].activity = "Active" => R.table[l].activity = "Active"
        /\ \A x \in Names : R.held[x].loan \in LoanIds =>
            /\ A.values[x].authority \in {R.held[x].loan, NoLoan}
            /\ \/ x \in A.loans[R.held[x].loan].authorities
               \/ A.values[x].authority = NoLoan /\ Kept(A, R.held[x].loan)

\* In a verified function the loan shadow never refuses an instruction, an
\* access or the return: each run that returns was accepted throughout.
VerifiedRunsAccepted == stage = "returned" => ~cur.run.refused

=============================================================================
