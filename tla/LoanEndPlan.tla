----------------------------- MODULE LoanEndPlan -----------------------------
(***************************************************************************)
(* Where the ends of local borrows are placed (frontend/lower/loan_end.rs).*)
(*                                                                         *)
(* Lowering emits one block: borrows, uses and calls of the local          *)
(* references and, when a local goes out of scope, a pending end of its    *)
(* loan.  plan_block then moves each pending end up to the last use of the *)
(* reference.  The lowering actions emit what lower.rs and lower/call.rs   *)
(* emit for references; Plan is plan_block.  A run of the block, in its    *)
(* lexical or in its planned order, is a run of the loan shadow (LoanTable)*)
(* over one object.                                                        *)
(*                                                                         *)
(* Names stands for the SSA values.  Left out: slices and subobjects (all  *)
(* loans overlap), the region constraints, which only reject a block,      *)
(* zero-width predicate actions, and references returned by calls.         *)
(***************************************************************************)
EXTENDS LoanTable, Sequences

Sets == INSTANCE FiniteSetsExt

CONSTANTS
    MaxInstructions,   \* bound: instructions lowered, pending ends apart; a
                       \* reference the block starts with counts as one
    MaxLocals,         \* bound: locals in scope
    MaxParentDepth     \* MAX_PARENT_DEPTH

\* next_loan counts upwards, so a loan is younger than its parent.
ASSUME LoanEndPlanAssumption ==
    /\ LoanIds \subseteq Nat \ {0} /\ LoanIds # {}
    /\ NoLoan = 0
    /\ MaxInstructions \in Nat
    /\ MaxLocals \in Nat
    /\ MaxParentDepth \in Nat

VARIABLES
    entry,     \* what the block's parameters hold: "Nothing", "Parameter", "Outer"
    draft,     \* the block's draft instructions
    env,       \* locals in scope, in the order of their declaration
    fresh,     \* SSA names given out
    nextLoan,  \* next_loan
    outcome,   \* "Lowering", "Raising", "Planned" or "Rejected"
    planned,   \* the planned boundary of each pending end
    round,     \* rounds of the search for boundaries that respect the parents
    order      \* the planned block: old ordinals in their new order

vars == <<entry, draft, env, fresh, nextLoan, outcome, planned, round, order>>

planVars == <<outcome, planned, round, order>>

-----------------------------------------------------------------------------
(* Drafts.  A reference value is a pointer with its permission. *)

NoName == 0

Names == 0 .. 2 * MaxInstructions + 4

Holder == [pointer : Names, permission : Names]

NoHolder == [pointer |-> NoName, permission |-> NoName]

Fresh == [pointer |-> fresh + 1, permission |-> fresh + 2]

Op == {"LoanBegin", "LoanReborrow", "LoanReborrowAuthority", "LoanAliasShared",
       "LoanAliasAuthority", "Access", "OwnerWrite", "Call", "ResourceInitialize",
       "ResourceTake", "ObjectDrop", "LoanEnd", "LoanEndAuthority"}

Instruction ==
    [op : Op, loan : LoanIds \cup {NoLoan}, parent : LoanIds \cup {NoLoan},
     kind : Kind, at : Holder, new : Holder]

Plain(op, at) ==
    [op |-> op, loan |-> NoLoan, parent |-> NoLoan, kind |-> "Mutable",
     at |-> at, new |-> NoHolder]

\* LoweredLoan: a local knows its loan (Static), finds it in its permission
\* (Authority), or is an object with a place for a reference (Storage).
Local ==
    [form : {"Static", "Authority", "Storage"}, loan : LoanIds \cup {NoLoan},
     parent : LoanIds \cup {NoLoan}, kind : Kind, holder : Holder, full : BOOLEAN]

Static(l, p, k, h) ==
    [form |-> "Static", loan |-> l, parent |-> p, kind |-> k, holder |-> h, full |-> FALSE]

Authority(k, h) ==
    [form |-> "Authority", loan |-> NoLoan, parent |-> NoLoan, kind |-> k,
     holder |-> h, full |-> FALSE]

Storage(k) ==
    [form |-> "Storage", loan |-> NoLoan, parent |-> NoLoan, kind |-> k,
     holder |-> NoHolder, full |-> TRUE]

FirstLoan == CHOOSE l \in LoanIds : \A m \in LoanIds : l <= m

EntryHolder == [pointer |-> 1, permission |-> 2]

\* A block starts with no reference, with a reference parameter of the function,
\* or with a local that an earlier block borrowed.
Init ==
    /\ entry \in {"Nothing", "Parameter", "Outer"}
    /\ draft = <<>>
    /\ env = CASE entry = "Nothing" -> <<>>
               [] entry = "Parameter" -> <<Authority("Mutable", EntryHolder)>>
               [] entry = "Outer" -> <<Static(FirstLoan, NoLoan, "Mutable", EntryHolder)>>
    /\ fresh = 2
    /\ nextLoan = IF entry = "Nothing" THEN FirstLoan ELSE FirstLoan + 1
    /\ outcome = "Lowering"
    /\ planned = <<>>
    /\ round = 0
    /\ order = <<>>

-----------------------------------------------------------------------------
(* Lowering. *)

Pending == {"LoanEnd", "LoanEndAuthority"}

Emitted ==
    Cardinality({n \in DOMAIN draft : draft[n].op \notin Pending})
    + IF entry = "Nothing" THEN 0 ELSE 1

Emit(i) ==
    /\ outcome = "Lowering"
    /\ i.op \in Pending \/ Emitted < MaxInstructions
    /\ draft' = Append(draft, i)
    /\ UNCHANGED <<entry, planVars>>

Declare(local) == Len(env) < MaxLocals /\ env' = Append(env, local)

References == {x \in DOMAIN env : env[x].form # "Storage"}

Without(x) == SubSeq(env, 1, x - 1) \o SubSeq(env, x + 1, Len(env))

\* lower_borrow of the owner's place.
LowerBorrow(k) ==
    /\ nextLoan \in LoanIds
    /\ Emit([op |-> "LoanBegin", loan |-> nextLoan, parent |-> NoLoan, kind |-> k,
             at |-> NoHolder, new |-> Fresh])
    /\ Declare(Static(nextLoan, NoLoan, k, Fresh))
    /\ fresh' = fresh + 2
    /\ nextLoan' = nextLoan + 1

\* lower_borrow of *x: the loan of x is the parent, or is found at run time
\* (lower_authority_reborrow).
LowerReborrow(x, k) ==
    /\ env[x].kind = "Shared" => k = "Shared"
    /\ nextLoan \in LoanIds
    /\ IF env[x].form = "Static"
       THEN /\ Emit([op |-> "LoanReborrow", loan |-> nextLoan, parent |-> env[x].loan,
                     kind |-> k, at |-> env[x].holder, new |-> Fresh])
            /\ Declare(Static(nextLoan, env[x].loan, k, Fresh))
       ELSE /\ Emit([op |-> "LoanReborrowAuthority", loan |-> nextLoan, parent |-> NoLoan,
                     kind |-> k, at |-> env[x].holder, new |-> Fresh])
            /\ Declare(Authority(k, Fresh))
    /\ fresh' = fresh + 2
    /\ nextLoan' = nextLoan + 1

\* apply_local_use_mode: a shared reference is copied.
LowerCopy(x) ==
    /\ env[x].kind = "Shared"
    /\ Emit([op |-> IF env[x].form = "Static" THEN "LoanAliasShared" ELSE "LoanAliasAuthority",
             loan |-> env[x].loan, parent |-> NoLoan, kind |-> "Shared",
             at |-> env[x].holder, new |-> Fresh])
    /\ Declare([env[x] EXCEPT !.holder = Fresh])
    /\ fresh' = fresh + 2
    /\ UNCHANGED nextLoan

\* A load or store through x.
LowerAccess(x) ==
    /\ Emit([Plain("Access", env[x].holder) EXCEPT !.kind = env[x].kind])
    /\ UNCHANGED <<env, fresh, nextLoan>>

\* An assignment to the borrowed object itself.
LowerOwnerWrite ==
    /\ Emit(Plain("OwnerWrite", NoHolder))
    /\ UNCHANGED <<env, fresh, nextLoan>>

\* lower_call with an exclusive reference: the call gives a new permission back.
\* A local that is dead after the call ends there (it is not a parameter).
LowerCall(x, live) ==
    LET restored == [env[x].holder EXCEPT !.permission = fresh + 1]
        called == [Plain("Call", env[x].holder) EXCEPT !.new = restored]
    IN
    /\ env[x].kind = "Mutable"
    /\ outcome = "Lowering" /\ Emitted < MaxInstructions
    /\ \/ /\ live
          /\ draft' = Append(draft, called)
          /\ env' = [env EXCEPT ![x].holder = restored]
       \/ /\ ~live /\ ~(entry = "Parameter" /\ x = 1)
          /\ draft' = draft \o <<called,
                [Plain(IF env[x].form = "Static" THEN "LoanEnd" ELSE "LoanEndAuthority", restored)
                    EXCEPT !.loan = env[x].loan]>>
          /\ env' = Without(x)
    /\ fresh' = fresh + 1
    /\ UNCHANGED <<entry, nextLoan, planVars>>

\* A constructor moves an exclusive reference, or the reference it has just
\* borrowed, into an object (lower_expression_into: ResourceInitialize).
LowerConstruct(x) ==
    /\ \A y \in DOMAIN env : env[y].form # "Storage"
    /\ ~(entry = "Parameter" /\ x = 1)
    /\ env[x].kind = "Shared" =>
          draft # <<>> /\ draft[Len(draft)].new = env[x].holder
    /\ Emit(Plain("ResourceInitialize", env[x].holder))
    /\ env' = Append(Without(x), Storage(env[x].kind))
    /\ UNCHANGED <<fresh, nextLoan>>

\* lower_resource_take: the reference comes out without its loan's name.
LowerTake(x) ==
    /\ env[x].form = "Storage" /\ env[x].full
    /\ Len(env) < MaxLocals
    /\ Emit([Plain("ResourceTake", NoHolder) EXCEPT !.new = Fresh])
    /\ env' = Append([env EXCEPT ![x].full = FALSE], Authority(env[x].kind, Fresh))
    /\ fresh' = fresh + 2
    /\ UNCHANGED nextLoan

\* emit_local_drop: scopes are left in the reverse order of the declarations.
\* A parameter of the function is given back by the return instead.
LocalDrop ==
    LET x == Len(env) IN
    /\ env # <<>>
    /\ ~(entry = "Parameter" /\ x = 1)
    /\ \/ /\ env[x].form = "Static"
          /\ Emit([Plain("LoanEnd", env[x].holder) EXCEPT !.loan = env[x].loan])
       \/ /\ env[x].form = "Authority"
          /\ Emit(Plain("LoanEndAuthority", env[x].holder))
       \/ /\ env[x].form = "Storage" /\ env[x].full
          /\ Emit(Plain("ObjectDrop", NoHolder))
       \/ /\ env[x].form = "Storage" /\ ~env[x].full
          /\ outcome = "Lowering"
          /\ UNCHANGED <<entry, draft, planVars>>
    /\ env' = Without(x)
    /\ UNCHANGED <<fresh, nextLoan>>

-----------------------------------------------------------------------------
(* Planning.  d is the draft; passed are the names the terminator passes on.*)

Ends(d) == {n \in DOMAIN d : d[n].op \in Pending}

Retained(d) == DOMAIN d \ Ends(d)

\* The number of retained instructions before n, n itself not counted.
Boundary(d, n) == Cardinality({m \in Retained(d) : m < n})

NamesOf(h) == {h.pointer, h.permission} \ {NoName}

Results(i) == NamesOf(i.new) \ NamesOf(i.at)

Definers(d, n) == {m \in Retained(d) : Results(d[m]) \cap NamesOf(d[n].at) # {}}

Users(d, n) == {m \in Retained(d) : NamesOf(d[m].at) \cap NamesOf(d[n].at) # {}}

\* (Mutant: counted from one instead of zero.)
LastUseFromOne(d, n) == Sets!Max({Boundary(d, m) + 2 : m \in Definers(d, n) \cup Users(d, n)})

\* (Mutant: the boundary before the last use.)
LastUseBefore(d, n) == Sets!Max({Boundary(d, m) : m \in Definers(d, n) \cup Users(d, n)})

\* The boundary behind the definition and the last use of the ended reference.
LastUse(d, n) == Sets!Max({Boundary(d, m) + 1 : m \in Definers(d, n) \cup Users(d, n)})

\* instruction_escapes_authority: i may leave the reference that e ends with
\* somebody else.  A call that gives back exactly the ended permission does not.
Escapes(i, e) ==
    \/ /\ i.op = "LoanReborrowAuthority"
       /\ i.at.permission \in NamesOf(e.at)
    \/ /\ i.op = "Call"
       /\ ~(i.at.pointer = e.at.pointer /\ i.new.permission = e.at.permission)
    \/ i.op = "ResourceInitialize"

Movable(d, n, passed) ==
    /\ Definers(d, n) # {}
    /\ \A m \in Users(d, n) : ~Escapes(d[m], d[n])
    /\ NamesOf(d[n].at) \cap passed = {}

\* collect_and_check_parents: what the block's reborrows say.
Parent(d, l) ==
    IF \E n \in DOMAIN d : d[n].op = "LoanReborrow" /\ d[n].loan = l
    THEN d[CHOOSE n \in DOMAIN d : d[n].op = "LoanReborrow" /\ d[n].loan = l].parent
    ELSE NoLoan

\* loan_depth: the parents on the walk up from l; an end that does not name its
\* loan has depth 0.
Depth(d, l) ==
    LET up[k \in 0 .. MaxParentDepth] == IF k = 0 THEN l ELSE Parent(d, up[k - 1])
    IN Cardinality({k \in 1 .. MaxParentDepth : up[k] # NoLoan})

\* The ends of the children of the loan that n ends.
ChildEnds(d, n) ==
    {c \in Ends(d) : d[c].loan # NoLoan /\ d[n].loan # NoLoan /\ Parent(d, d[c].loan) = d[n].loan}

\* (Mutant: a parent waits for its children to leave their scopes.)
RaisedLexical(d, boundaries, n) ==
    Sets!Max({boundaries[n]} \cup {Boundary(d, c) : c \in ChildEnds(d, n)})

\* (Mutant: nobody waits.)
RaisedNever(d, boundaries, n) == boundaries[n]

\* An end moves behind the planned ends of its loan's children.
Raised(d, boundaries, n) ==
    Sets!Max({boundaries[n]} \cup {boundaries[c] : c \in ChildEnds(d, n)})

\* The sort key of the ends, and the place of a retained instruction: behind the
\* ends of its boundary.
Key(d, boundaries, n) ==
    IF n \in Ends(d) THEN <<boundaries[n], 0, -Depth(d, d[n].loan), n>>
                     ELSE <<Boundary(d, n), 1, 0, n>>

Less(k1, k2) ==
    \E i \in 1 .. 4 : k1[i] < k2[i] /\ \A j \in 1 .. i - 1 : k1[j] = k2[j]

Sorted(d, boundaries) ==
    [k \in DOMAIN d |-> CHOOSE n \in DOMAIN d :
        Cardinality({m \in DOMAIN d : Less(Key(d, boundaries, m), Key(d, boundaries, n))}) = k - 1]

Passed == UNION {NamesOf(env[x].holder) : x \in DOMAIN env}

\* plan_block, when the block ends and what is still in scope is passed on: an
\* end that may move goes behind the last use, the others stay.
Measure ==
    /\ outcome = "Lowering"
    /\ planned' = [n \in Ends(draft) |->
                      IF Movable(draft, n, Passed) THEN LastUse(draft, n) ELSE Boundary(draft, n)]
    /\ outcome' = IF \E n \in Ends(draft) :
                        Definers(draft, n) # {} /\ LastUse(draft, n) > Boundary(draft, n)
                  THEN "Rejected" ELSE "Raising"
    /\ UNCHANGED <<entry, draft, env, fresh, nextLoan, round, order>>

\* One round of the fixed point over the parents; the last one sorts the ends
\* and writes the block.
Raise ==
    LET next == [n \in Ends(draft) |-> Raised(draft, planned, n)] IN
    /\ outcome = "Raising"
    /\ planned' = next
    /\ round' = round + 1
    /\ \/ /\ \E n \in Ends(draft) : next[n] > Boundary(draft, n)
          /\ outcome' = "Rejected" /\ UNCHANGED order
       \/ /\ \A n \in Ends(draft) : next[n] <= Boundary(draft, n)
          /\ IF next # planned /\ round < MaxParentDepth
             THEN UNCHANGED <<outcome, order>>
             ELSE outcome' = "Planned" /\ order' = Sorted(draft, planned')
    /\ UNCHANGED <<entry, draft, env, fresh, nextLoan>>

Next ==
    \/ \E k \in Kind : LowerBorrow(k)
    \/ \E x \in References :
          \/ \E k \in Kind : LowerReborrow(x, k)
          \/ LowerCopy(x)
          \/ LowerAccess(x)
          \/ \E live \in BOOLEAN : LowerCall(x, live)
          \/ LowerConstruct(x)
    \/ \E x \in DOMAIN env : LowerTake(x)
    \/ LowerOwnerWrite
    \/ LocalDrop
    \/ Measure
    \/ Raise

Spec == Init /\ [][Next]_vars

-----------------------------------------------------------------------------
(* Runs of the block on the loan shadow. *)

Heap == CHOOSE a \in Allocations : TRUE

Whole == [start |-> 0, end |-> Size]

Nothing == Owner(Heap, Whole, FALSE)

HeldBy(R, i) == R.held[i.at.permission]

EntryRun ==
    [table |-> IF entry = "Nothing" THEN [l \in LoanIds |-> Blank]
               ELSE BeginLoan([l \in LoanIds |-> Blank], FirstLoan, Heap, Whole, "Mutable", 2),
     held |-> [x \in Names |->
                  IF entry # "Nothing" /\ x = 2 THEN Carrier(Heap, Whole, FirstLoan, 2)
                                                ELSE Nothing],
     place |-> Nothing,
     refused |-> FALSE]

UseOf(k) == IF k = "Shared" THEN "Read" ELSE "Write"

\* What the shadow asks of each instruction.  A token is named for the
\* permission it was minted for.
Allowed(R, i) ==
    LET v == HeldBy(R, i) T == R.table IN
    CASE i.op = "LoanBegin" -> BeginAllowed(T, i.loan, Heap, Whole, i.kind)
      [] i.op = "LoanReborrow" ->
            v.loan = i.parent /\ ReborrowAllowed(T, i.loan, v.loan, Whole, i.kind, v.token)
      [] i.op = "LoanReborrowAuthority" ->
            v.loan # NoLoan /\ ReborrowAllowed(T, i.loan, v.loan, Whole, i.kind, v.token)
      [] i.op = "LoanAliasShared" -> v.loan = i.loan /\ AliasAllowed(T, v.loan, v.token)
      [] i.op = "LoanAliasAuthority" -> v.loan # NoLoan /\ AliasAllowed(T, v.loan, v.token)
      [] i.op = "Access" -> v.loan # NoLoan /\ CheckAccess(T, v, Whole, UseOf(i.kind))
      [] i.op = "OwnerWrite" -> OwnerAccess(T, Nothing, Whole, "Write")
      [] i.op = "Call" -> v.loan # NoLoan /\ CheckAccess(T, v, Whole, "Write")
      [] i.op = "ResourceInitialize" ->
            v.loan # NoLoan /\ CheckAccess(T, v, Whole,
                                  IF T[v.loan].kind = "Shared" THEN "Read" ELSE "Move")
      [] i.op = "ResourceTake" -> R.place # Nothing
      [] i.op = "ObjectDrop" ->
            R.place # Nothing /\ EndStoredAllowed(T, R.place.loan, R.place.token)
      [] i.op = "LoanEnd" -> v.loan = i.loan /\ EndAllowed(T, v.loan, v.token)
      [] i.op = "LoanEndAuthority" -> v.loan # NoLoan /\ EndStoredAllowed(T, v.loan, v.token)

Effect(R, i) ==
    LET v == HeldBy(R, i) T == R.table new == i.new.permission IN
    CASE i.op = "LoanBegin" ->
            [R EXCEPT !.table = BeginLoan(T, i.loan, Heap, Whole, i.kind, new),
                      !.held[new] = Carrier(Heap, Whole, i.loan, new)]
      [] i.op \in {"LoanReborrow", "LoanReborrowAuthority"} ->
            [R EXCEPT !.table = ReborrowLoan(T, i.loan, v.loan, Whole, i.kind, new),
                      !.held[new] = Carrier(Heap, Whole, i.loan, new)]
      [] i.op \in {"LoanAliasShared", "LoanAliasAuthority"} ->
            [R EXCEPT !.table = AliasLoan(T, v.loan, new),
                      !.held[new] = Carrier(Heap, Whole, v.loan, new)]
      [] i.op \in {"Access", "OwnerWrite"} -> R
      [] i.op = "Call" ->
            [R EXCEPT !.held = [@ EXCEPT ![i.at.permission] = Nothing, ![new] = v]]
      [] i.op = "ResourceInitialize" ->
            [R EXCEPT !.held[i.at.permission] = Nothing, !.place = v]
      [] i.op = "ResourceTake" -> [R EXCEPT !.held[new] = R.place, !.place = Nothing]
      [] i.op = "ObjectDrop" ->
            [R EXCEPT !.table = EndLoan(T, R.place.loan, R.place.token), !.place = Nothing]
      [] i.op \in Pending ->
            [R EXCEPT !.table = EndLoan(T, v.loan, v.token), !.held[i.at.permission] = Nothing]

Step(R, i) ==
    IF R.refused THEN R ELSE IF Allowed(R, i) THEN Effect(R, i) ELSE [R EXCEPT !.refused = TRUE]

Run(d, s) ==
    LET after[k \in 0 .. Len(s)] == IF k = 0 THEN EntryRun ELSE Step(after[k - 1], d[s[k]])
    IN after[Len(s)]

Lexical(d) == Run(d, [k \in DOMAIN d |-> k])

\* The reference placement: whenever a reference has no use left, it ends as soon
\* as the shadow lets it, at the latest with its scope.
Settle(d, S, position) ==
    LET ready(C) == {n \in Ends(d) \ C.done :
                        /\ \A m \in Definers(d, n) \cup Users(d, n) : m <= position
                        /\ Definers(d, n) # {}
                        /\ Allowed(C.run, d[n])}
        endOne(C) ==
            LET candidates == ready(C) IN
            IF candidates = {} THEN C
            ELSE LET n == CHOOSE n \in candidates : TRUE IN
                 [run |-> Effect(C.run, d[n]), done |-> C.done \cup {n}]
        settled[k \in 0 .. Len(d)] == IF k = 0 THEN S ELSE endOne(settled[k - 1])
    IN settled[Cardinality(Ends(d))]

Eager(d) ==
    LET advance(C, k) ==
            IF C.run.refused \/ k \in C.done THEN C
            ELSE Settle(d, [run |-> Step(C.run, d[k]),
                            done |-> C.done \cup ({k} \cap Ends(d))], k)
        after[k \in 0 .. Len(d)] ==
            IF k = 0 THEN [run |-> EntryRun, done |-> {}] ELSE advance(after[k - 1], k)
    IN after[Len(d)].run

-----------------------------------------------------------------------------
(* Properties. *)

TypeOK ==
    /\ draft \in Seq(Instruction)
    /\ env \in Seq(Local)
    /\ fresh \in Names
    /\ nextLoan \in Nat
    /\ outcome \in {"Lowering", "Raising", "Planned", "Rejected"}
    /\ \A n \in DOMAIN planned : planned[n] \in 0 .. Cardinality(Retained(draft))
    /\ round \in 0 .. MaxParentDepth + 1
    /\ order \in Seq(DOMAIN draft)

\* The planned block is the draft with its ends moved and nothing else: every
\* instruction once, the others in their old order, and every end behind the
\* definition and all uses of its reference but never later than its scope's end
\* (plan_block; the ordinals are what the source map is rewritten with).
OnlyEndsMoveUp ==
    outcome = "Planned" =>
        /\ {order[k] : k \in DOMAIN order} = DOMAIN draft /\ Len(order) = Len(draft)
        /\ \A j, k \in DOMAIN order : j < k =>
              /\ order[j] \in Retained(draft) /\ order[k] \in Retained(draft) => order[j] < order[k]
              /\ order[j] \in Ends(draft) =>
                    order[k] \notin Definers(draft, order[j]) \cup Users(draft, order[j])
              /\ order[j] \in Retained(draft) /\ order[k] \in Ends(draft) => order[j] < order[k]

\* A loan is reborrowed after one of its references has left its scope.
ReborrowedLater(d) ==
    \E n \in Ends(d), m \in Retained(d) :
        n < m /\ d[m].op = "LoanReborrow" /\ d[m].parent = d[n].loan

\* A stored reference ends under no name: in the object's drop, or through the
\* permission that was taken out.  Lowering then knows of no end of a reborrow
\* that is stored, and of no end of what is reborrowed from a stored copy.
ChildUnnamed(d) ==
    \E n, m \in DOMAIN d :
        /\ d[n].op = "ResourceInitialize" /\ d[m].new.pointer = d[n].at.pointer
        /\ \/ Parent(d, d[m].loan) # NoLoan
           \/ /\ d[m].op = "LoanAliasShared"
              /\ \E k \in DOMAIN d : k > n /\ d[k].op = "LoanReborrowAuthority"

\* Planning is safe: a block the loan shadow accepts with the ends where the
\* scopes end is accepted as planned, and leaves the same loans behind.  The plan
\* fails (InvalidParentGraph) only for a loan that is reborrowed after one of its
\* references has left its scope: all its ends are made to wait for the child.
PlanAccepted ==
    LET lexical == Lexical(draft) run == Run(draft, order) IN
    outcome \in {"Planned", "Rejected"} /\ ~lexical.refused =>
        \/ outcome = "Planned" /\ ~run.refused /\ run.table = lexical.table
        \/ outcome = "Rejected" /\ ReborrowedLater(draft)

\* Planning is safe for every block in which lowering names each child of a loan
\* whose end it names: plan_block holds a parent back by the named ends of its
\* children only, and where all of them have a name the planned block is accepted
\* whenever the block as lowered is, and leaves the same loans behind.
NamedPlanAccepted == ~ChildUnnamed(draft) => PlanAccepted

\* Planning is as good as ending every reference the moment it is dead: if that
\* makes the block acceptable and no end has to stay, so does the plan (with the
\* same exception).
PlanAsGoodAsEager ==
    /\ outcome \in {"Planned", "Rejected"}
    /\ \A n \in Ends(draft) : Movable(draft, n, Passed)
    /\ ~ReborrowedLater(draft) /\ ~ChildUnnamed(draft)
    /\ ~Eager(draft).refused
    => outcome = "Planned" /\ ~Run(draft, order).refused

=============================================================================
