---------------------------- MODULE BorrowCalls ------------------------------
(***************************************************************************)
(* Calls with reference parameters and reference results.  Each invocation *)
(* has a loan table of its own: a call checks the caller's authorities and *)
(* takes their permissions, the callee imports every parameter as a root   *)
(* loan of its own table, and a return retires those loans and gives the   *)
(* caller its permissions back, together with an alias or a reborrow for a *)
(* returned reference.  Neither the import nor the reborrow at the return  *)
(* looks for conflicting loans: that none exists is what is checked here.  *)
(*                                                                         *)
(* Memory is left out: storage outlives the frames below, and the root     *)
(* frame owns it.  Arguments without a loan authority (scalars, owners)    *)
(* and references inside objects are not modelled here.                    *)
(***************************************************************************)
EXTENDS LoanTable, Sequences

CONSTANTS
    BodyLoans,       \* the loans a function body begins
    ParamLoans,      \* interface_loan_id: the loan of the i-th parameter
    DynamicLoans,    \* the loans a return creates in the caller
    MaxCallDepth,    \* VirInterpreterConfig.max_call_depth
    MaxTokens,       \* bound: tokens minted by one invocation
    MaxInvocations   \* bound: invocations in one execution

VARIABLES
    stack,           \* the frames, the running one last
    nextInvocation   \* fresh_loan_frame

vars == <<stack, nextInvocation>>

ASSUME CallsAssumption ==
    /\ ParamLoans \in Seq(LoanIds)
    /\ BodyLoans \subseteq LoanIds /\ DynamicLoans \subseteq LoanIds
    /\ \A i \in DOMAIN ParamLoans :
          /\ ParamLoans[i] \notin BodyLoans \cup DynamicLoans
          /\ \A j \in DOMAIN ParamLoans : i # j => ParamLoans[i] # ParamLoans[j]
    /\ BodyLoans \cap DynamicLoans = {}
    /\ MaxCallDepth \in Nat /\ MaxTokens \in Nat /\ MaxInvocations \in Nat

-----------------------------------------------------------------------------
(* Frames. *)

\* How a returned reference is related to the parameters: it is a whole
\* parameter, a part of one, or one of several (BorrowResultRelation).
ResultForms == {"None", "Whole", "Projected", "Alternatives"}

Results(n) ==
    {[form |-> "None", params |-> {}]}
    \cup {[form |-> f, params |-> {i}] : f \in {"Whole", "Projected"}, i \in 1 .. n}
    \cup {[form |-> "Alternatives", params |-> S] : S \in (SUBSET (1 .. n)) \ {{}}}

Frame ==
    [invocation : Nat, loans : [LoanIds -> Loan], next : Nat, perms : SUBSET Permission,
     args : Seq(Permission), alias : SUBSET Permission, result : Results(Len(ParamLoans))]

\* Every frame is well-formed, and an authority in it names a token that this
\* very invocation has minted: a token of another frame is never a token here.
TypeOK ==
    /\ stack \in Seq(Frame) /\ nextInvocation \in Nat
    /\ \A k \in DOMAIN stack : LET f == stack[k] IN
          /\ f.invocation < nextInvocation
          /\ \A p \in f.perms : p.loan # NoLoan =>
                p.token \in f.invocation * MaxTokens .. f.invocation * MaxTokens + f.next - 1

Top == stack[Len(stack)]
Caller == stack[Len(stack) - 1]

\* (Mutant: the token is the ordinal alone.)
FreshTokenOrdinal(f) == f.next

\* fresh_authority: a token names its invocation and its ordinal there.
FreshToken(f) == f.invocation * MaxTokens + f.next

CanMint(f) == f.next < MaxTokens

\* The running frame, or its caller once it has returned, continues as f.
Continue(f) == stack' = [stack EXCEPT ![Len(stack)] = f] /\ UNCHANGED nextInvocation
ReturnTo(f) == stack' = Append(SubSeq(stack, 1, Len(stack) - 2), f) /\ UNCHANGED nextInvocation

Minted(f, loans, p) ==
    [f EXCEPT !.loans = loans, !.next = @ + 1, !.perms = @ \cup {p}]

Init ==
    /\ stack = <<[invocation |-> 0, loans |-> [l \in LoanIds |-> Blank], next |-> 0,
                  perms |-> {Owner(a, [start |-> 0, end |-> Size], FALSE) : a \in Allocations},
                  args |-> <<>>, alias |-> {}, result |-> [form |-> "None", params |-> {}]]>>
    /\ nextInvocation = 1

-----------------------------------------------------------------------------
(* The loan instructions of the running function. *)

LoanBegin(l, p, r, k) ==
    /\ p.loan = NoLoan
    /\ Contains(p.range, r)
    /\ CanMint(Top)
    /\ BeginAllowed(Top.loans, l, p.allocation, r, k)
    /\ Continue(Minted(Top, BeginLoan(Top.loans, l, p.allocation, r, k, FreshToken(Top)),
                       Carrier(p.allocation, r, l, FreshToken(Top))))

LoanReborrow(l, p, r, k) ==
    /\ p.loan # NoLoan
    /\ Contains(p.range, r)
    /\ CanMint(Top)
    /\ ReborrowAllowed(Top.loans, l, p.loan, r, k, p.token)
    /\ Continue(Minted(Top, ReborrowLoan(Top.loans, l, p.loan, r, k, FreshToken(Top)),
                       Carrier(p.allocation, r, l, FreshToken(Top))))

LoanAlias(p) ==
    /\ p.loan # NoLoan
    /\ p.range = Top.loans[p.loan].range
    /\ CanMint(Top)
    /\ AliasAllowed(Top.loans, p.loan, p.token)
    /\ Continue(Minted(Top, AliasLoan(Top.loans, p.loan, FreshToken(Top)),
                       [p EXCEPT !.token = FreshToken(Top)]))

LoanEnd(p) ==
    /\ p.loan # NoLoan
    /\ \/ Contains(p.range, Top.loans[p.loan].range) /\ EndAllowed(Top.loans, p.loan, p.token)
       \/ p.range = Top.loans[p.loan].range /\ EndStoredAllowed(Top.loans, p.loan, p.token)
    /\ Continue([Top EXCEPT !.loans = EndLoan(@, p.loan, p.token), !.perms = @ \ {p}])

-----------------------------------------------------------------------------
(* Calls. *)

\* (Mutant: the authority is passed on without a check.)
ArgumentAllowedUnchecked(f, p) == p.loan # NoLoan

\* prepare_call: the transfer of a parameter agrees with the kind of its loan,
\* and the authority could be used for it now.
ArgumentAllowed(f, p) ==
    /\ p.loan # NoLoan
    /\ CheckAccess(f.loans, p, p.range, IF f.loans[p.loan].kind = "Shared" THEN "Read" ELSE "Write")

\* All reference results of alternatives have the kind of their parameters.
ResultAllowed(f, args, result) ==
    /\ result.params \subseteq DOMAIN args
    /\ \A i, j \in result.params : f.loans[args[i].loan].kind = f.loans[args[j].loan].kind

\* A shared reference that comes back whole gets its alias when the call is made.
MintsAlias(f, args, result) ==
    result.form = "Whole" /\ \E i \in result.params : f.loans[args[i].loan].kind = "Shared"

\* (Mutant: every parameter is imported as an exclusive loan.)
ImportedLoansExclusive(f, args, ranges, invocation) ==
    [l \in LoanIds |->
        IF \E i \in DOMAIN args : ParamLoans[i] = l
        THEN LET i == CHOOSE i \in DOMAIN args : ParamLoans[i] = l IN
             NewLoan(args[i].allocation, ranges[i], "Mutable", NoLoan,
                     invocation * MaxTokens + (i - 1))
        ELSE Blank]

\* import_parameters: parameter i becomes a root loan over the bytes the callee
\* sees of it, with the caller's kind.
ImportedLoans(f, args, ranges, invocation) ==
    [l \in LoanIds |->
        IF \E i \in DOMAIN args : ParamLoans[i] = l
        THEN LET i == CHOOSE i \in DOMAIN args : ParamLoans[i] = l IN
             NewLoan(args[i].allocation, ranges[i], f.loans[args[i].loan].kind, NoLoan,
                     invocation * MaxTokens + (i - 1))
        ELSE Blank]

Invocation(f, args, ranges, result, alias) ==
    [invocation |-> nextInvocation,
     loans |-> ImportedLoans(f, args, ranges, nextInvocation),
     next |-> Len(args),
     perms |-> {Carrier(args[i].allocation, ranges[i], ParamLoans[i],
                        nextInvocation * MaxTokens + (i - 1)) : i \in DOMAIN args},
     args |-> args, alias |-> alias, result |-> result]

Call(args, ranges, result) ==
    LET passed == {args[i] : i \in DOMAIN args}
        given == [Top EXCEPT !.perms = @ \ passed]
        source == CHOOSE i \in DOMAIN args : i \in result.params
        aliased == [args[source] EXCEPT !.token = FreshToken(Top)]
    IN
    /\ Len(stack) <= MaxCallDepth
    /\ nextInvocation < MaxInvocations
    /\ Len(args) <= MaxActiveLoans /\ Len(args) <= MaxTokens /\ MaxAliases > 0
    /\ \A i, j \in DOMAIN args : i # j => args[i] # args[j]
    /\ \A i \in DOMAIN args :
          ArgumentAllowed(Top, args[i]) /\ Contains(args[i].range, ranges[i])
    /\ ResultAllowed(Top, args, result)
    /\ IF MintsAlias(Top, args, result)
       THEN /\ CanMint(Top)
            /\ Cardinality(Top.loans[aliased.loan].authorities) < MaxAliases
            /\ stack' = SubSeq(stack, 1, Len(stack) - 1) \o
                  <<[given EXCEPT !.loans = AliasLoan(@, aliased.loan, FreshToken(Top)),
                                  !.next = @ + 1],
                    Invocation(Top, args, ranges, result, {aliased})>>
       ELSE stack' = SubSeq(stack, 1, Len(stack) - 1) \o
                  <<given, Invocation(Top, args, ranges, result, {})>>
    /\ nextInvocation' = nextInvocation + 1

-----------------------------------------------------------------------------
(* Returns.  slots gives back the permission of each parameter; V holds the *)
(* returned reference, if there is one.                                     *)

\* An exclusive reference that is returned whole is not given back besides.
SlotParams(f) ==
    {i \in DOMAIN f.args :
        ~(f.result.form = "Whole" /\ i \in f.result.params
             /\ f.loans[ParamLoans[i]].kind = "Mutable")}

\* (Mutant: any parameter may be the returned one.)
ExportedAny(f, slots, V, i) ==
    {slots[j].token : j \in {i} \cap DOMAIN slots}
    \cup {v.token : v \in {w \in V : w.loan = ParamLoans[i]}}

\* The authorities over parameter i that the returned values carry.
Exported(f, slots, V, i) ==
    {slots[j].token : j \in {i} \cap DOMAIN slots}
    \cup {v.token : v \in {w \in V : i \in f.result.params /\ w.loan = ParamLoans[i]}}

\* A returned reborrow of parameter i, held by nobody else.
Selected(f, V, i) ==
    {v.loan : v \in {w \in V : /\ i \in f.result.params
                               /\ f.loans[w.loan].parent = ParamLoans[i]
                               /\ f.loans[w.loan].activity = "Active"
                               /\ f.loans[w.loan].authorities = {w.token}}}

SlotExport(f, slots, i) ==
    LET loan == f.loans[ParamLoans[i]] s == slots[i] IN
    /\ s.loan = ParamLoans[i] /\ s.token \in loan.authorities
    /\ s.allocation = loan.allocation /\ s.range = loan.range /\ ~s.free

\* export_parameters: every authority over a parameter is handed over, and a
\* suspended parameter was lent to the returned reborrow.
ExportAllowed(f, slots, V) ==
    /\ \A i \in DOMAIN slots : SlotExport(f, slots, i)
    /\ \A v \in V : v.loan # NoLoan /\ v.token \in f.loans[v.loan].authorities
    /\ \A i \in DOMAIN f.args :
          LET loan == f.loans[ParamLoans[i]] IN
          /\ loan.activity # "Ended"
          /\ loan.activity = "Suspended" => Selected(f, V, i) # {}
          /\ f.result.form = "Projected" /\ i \in f.result.params => Selected(f, V, i) # {}
          /\ loan.authorities # {} /\ Exported(f, slots, V, i) = loan.authorities
    /\ \A v \in V : \E i \in DOMAIN f.args :
          \/ v.loan = ParamLoans[i] /\ v.token \in Exported(f, slots, V, i)
          \/ v.loan \in Selected(f, V, i)

Retired(f, V) ==
    [l \in LoanIds |->
        IF \E i \in DOMAIN f.args : l = ParamLoans[i] \/ l \in Selected(f, V, i)
        THEN Blank ELSE f.loans[l]]

Leaves(slots, V) ==
    /\ Len(stack) > 1
    /\ \A i, j \in DOMAIN slots : i # j => slots[i] # slots[j]
    /\ \A i \in DOMAIN slots : slots[i] \notin V
    /\ ExportAllowed(Top, slots, V)
    /\ FinishAllowed(Retired(Top, V))

\* (Mutant: the alias made for the result is forgotten.)
GivenBackArguments(f) == {f.args[i] : i \in DOMAIN f.args}

\* What the caller gets back whatever is returned.
GivenBack(f) == {f.args[i] : i \in DOMAIN f.args} \cup f.alias

Return(slots, V) ==
    /\ Top.result.form \in {"None", "Whole"}
    /\ V = {} <=> Top.result.form = "None"
    /\ Leaves(slots, V)
    /\ ReturnTo([Caller EXCEPT !.perms = @ \cup GivenBack(Top)])

\* The parameter that a reference was derived from (root_loan).
RootParam(f, v) == {i \in DOMAIN f.args : ParamLoans[i] \in Chain(f.loans, v.loan)}

\* activate_conditional_return: what the caller checks of the parameter's loan.
ParentReady(f, p, v) ==
    /\ f.loans[p.loan].activity = "Active"
    /\ p.token \in f.loans[p.loan].authorities
    /\ v.allocation = f.loans[p.loan].allocation
    /\ ~v.free
    /\ Contains(f.loans[p.loan].range, v.range)

ReturnAlias(slots, v, i) ==
    LET p == Top.args[i] loan == Caller.loans[p.loan] IN
    /\ Top.result.form = "Alternatives" /\ loan.kind = "Shared"
    /\ Leaves(slots, {v})
    /\ ParentReady(Caller, p, v) /\ v.range = loan.range
    /\ Cardinality(loan.authorities) < MaxAliases
    /\ CanMint(Caller)
    /\ ReturnTo([Minted(Caller, AliasLoan(Caller.loans, p.loan, FreshToken(Caller)),
                        Carrier(v.allocation, v.range, p.loan, FreshToken(Caller)))
                 EXCEPT !.perms = @ \cup GivenBack(Top)])

ReturnReborrow(slots, v, i, d) ==
    LET p == Top.args[i] loan == Caller.loans[p.loan] IN
    /\ \/ Top.result.form = "Projected"
       \/ Top.result.form = "Alternatives" /\ loan.kind = "Mutable" /\ v.range = loan.range
    /\ Leaves(slots, {v})
    /\ ParentReady(Caller, p, v)
    /\ Cardinality(Chain(Caller.loans, p.loan)) <= MaxDepth
    /\ ActiveCount(Caller.loans) < MaxActiveLoans
    /\ ~Live(Caller.loans, d)
    /\ CanMint(Caller)
    /\ ReturnTo([Minted(Caller,
                        ReborrowLoan(Caller.loans, d, p.loan, v.range, loan.kind, FreshToken(Caller)),
                        Carrier(v.allocation, v.range, d, FreshToken(Caller)))
                 EXCEPT !.perms = @ \cup GivenBack(Top)])

-----------------------------------------------------------------------------
LoanStep ==
    \/ \E l \in BodyLoans, p \in Top.perms, r \in Range, k \in Kind :
          LoanBegin(l, p, r, k) \/ LoanReborrow(l, p, r, k)
    \/ \E p \in Top.perms : LoanAlias(p) \/ LoanEnd(p)

CallStep ==
    \E n \in 1 .. Len(ParamLoans) :
        \E args \in [1 .. n -> Top.perms], ranges \in [1 .. n -> Range], result \in Results(n) :
            Call(args, ranges, result)

ReturnStep ==
    \E slots \in [SlotParams(Top) -> Top.perms] :
        \/ \E V \in {{}} \cup {{v} : v \in Top.perms} : Return(slots, V)
        \/ \E v \in Top.perms : \E i \in RootParam(Top, v) :
              \/ ReturnAlias(slots, v, i)
              \/ \E d \in DynamicLoans : ReturnReborrow(slots, v, i, d)

Next == LoanStep \/ CallStep \/ ReturnStep

Spec == Init /\ [][Next]_vars

-----------------------------------------------------------------------------
(* Properties. *)

\* Every loan table on the stack keeps its properties, although importing the
\* parameters and reborrowing at a return check for no conflict: that the
\* arguments of a call do not overlap follows from the caller's table.
FramesSound ==
    \A k \in DOMAIN stack :
        LET L == stack[k].loans IN
        Held(L) /\ Nested(L) /\ SuspendedWhileLent(L) /\ Exclusive(L)

\* The authorities of a frame are exactly the ones its permissions carry or its
\* callee will give back, each once: a call hands an authority over, a return
\* restores it, and none is lost or doubled on the way.
Holders(k) ==
    stack[k].perms \cup (IF k < Len(stack) THEN GivenBack(stack[k + 1]) ELSE {})

AuthoritiesConserved ==
    \A k \in DOMAIN stack :
        /\ \A l \in LoanIds : stack[k].loans[l].authorities =
              {p.token : p \in {q \in Holders(k) : q.loan = l}}
        /\ \A p, q \in Holders(k) : p.loan # NoLoan /\ p.token = q.token => p = q
        /\ k < Len(stack) => stack[k].perms \cap GivenBack(stack[k + 1]) = {}

\* A callee can only do what its caller could have done with the arguments: an
\* access that the running function's table lets through meets, in its caller's
\* table, shared loans it reads under and loans its argument was reborrowed from.
CalleeConfined ==
    Len(stack) > 1 =>
        \A p \in Top.perms, b \in 0 .. Size - 1, access \in Access :
            LET r == [start |-> b, end |-> b + 1] IN
            /\ p.loan # NoLoan
            /\ CheckAccess(Top.loans, p, r, access)
            => \A l \in LiveLoans(Caller.loans) :
                  /\ Caller.loans[l].allocation = p.allocation
                  /\ b \in BytesOf(Caller.loans[l].range)
                  => \/ access = "Read" /\ Caller.loans[l].kind = "Shared"
                     \/ \E i \in RootParam(Top, p) : l \in Chain(Caller.loans, Top.args[i].loan)

\* A return that the callee's side accepts is accepted by the caller: the loan of
\* the parameter is still active and the returned bytes are its own.  What can
\* still refuse it are the caller's budgets and, where the result is one of
\* several parameters, a view that is narrower than the parameter's loan.
ReturnAccepted ==
    Len(stack) > 1 =>
        \A slots \in [SlotParams(Top) -> Top.perms], v \in Top.perms :
            Leaves(slots, {v}) =>
                \E i \in Top.result.params :
                    i \in RootParam(Top, v) /\ ParentReady(Caller, Top.args[i], v)

=============================================================================
