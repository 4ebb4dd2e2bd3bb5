---------------------------- MODULE MCStaticLoans ----------------------------
(***************************************************************************)
(* Small programs for StaticLoans: up to three loan sites in an allocation *)
(* of two bytes, three permission values, arms of up to two instructions.  *)
(***************************************************************************)
EXTENDS StaticLoans, TLC

CONSTANTS l1, l2, l3, heap

Whole == [start |-> 0, end |-> Size]
FirstHalf == [start |-> 0, end |-> 1]

Begin(k, r) == [kind |-> k, range |-> r, root |-> TRUE]
Reborrow(k, r) == [kind |-> k, range |-> r, root |-> FALSE]

\* An exclusive parent and two shared children; chains of two loans of each
\* kind; two loans of the owner that exclude each other, and two that do not, so
\* that a join can take the one for the other.
AllSites ==
    {l1 :> Begin("Mutable", Whole) @@ l2 :> Reborrow("Shared", FirstHalf) @@ l3 :> Reborrow("Shared", Whole),
     l1 :> Begin("Shared", Whole) @@ l2 :> Reborrow("Shared", FirstHalf),
     l1 :> Begin("Mutable", Whole) @@ l2 :> Reborrow("Mutable", FirstHalf),
     l1 :> Begin("Mutable", Whole) @@ l2 :> Begin("Shared", FirstHalf),
     l1 :> Begin("Shared", Whole) @@ l2 :> Begin("Shared", FirstHalf)}

\* One shared loan.
OneLoan == {l1 :> Begin("Shared", Whole)}

Symmetry == Permutations(Names)
=============================================================================
