--------------------------- MODULE MCBorrowCalls ----------------------------
(* Small stacks of calls: nested calls with one parameter, passed with any  *)
(* part of its range, and calls of the root function with two.              *)
EXTENDS BorrowCalls, TLC

LOCAL F == INSTANCE FiniteSetsExt

CONSTANTS
    p1, p2,
    MaxMinted  \* bound: tokens minted by the invocations on the stack

TwoParams == <<p1, p2>>

NestedCalls ==
    \E p \in Top.perms, r \in Range, result \in Results(1) :
        result.form # "Alternatives" /\ Call(<<p>>, <<r>>, result)

WholeCalls ==
    \E args \in [1 .. 2 -> Top.perms], result \in Results(2) :
        /\ Len(stack) = 1
        /\ Cardinality(result.params) # 1 \/ result.form # "Alternatives"
        /\ Call(args, [i \in 1 .. 2 |-> args[i].range], result)

\* A loan of no bytes conflicts with nothing.
SomeBytes(f) == \A p \in f.perms : p.range.start < p.range.end

TokensMinted(frames) == F!FoldSet(LAMBDA k, n : n + frames[k].next, 0, DOMAIN frames)

SmallNext ==
    /\ LoanStep \/ NestedCalls \/ WholeCalls \/ ReturnStep
    /\ SomeBytes(stack'[Len(stack')])
    /\ TokensMinted(stack') <= MaxMinted

SmallSpec == Init /\ [][SmallNext]_vars

BodySymmetry == Permutations(BodyLoans)
=============================================================================
