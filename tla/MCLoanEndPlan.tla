---------------------------- MODULE MCLoanEndPlan ----------------------------
(* Instances of LoanEndPlan for TLC. *)
EXTENDS LoanEndPlan, TLC

\* The block as it is when every reference in scope is dropped now.
Closed ==
    LET references == SelectSeq(env, LAMBDA x : x.form # "Storage")
        end(x) == [Plain(IF x.form = "Static" THEN "LoanEnd" ELSE "LoanEndAuthority", x.holder)
                      EXCEPT !.loan = x.loan]
    IN draft \o [k \in DOMAIN references |-> end(references[Len(references) + 1 - k])]

\* A block that no placement of its ends can save is not extended.
Acceptable == ~Eager(Closed).refused \/ ~Lexical(draft).refused

BoundedSpec == Init /\ [][(outcome = "Lowering" => Acceptable) /\ Next]_vars
=============================================================================
