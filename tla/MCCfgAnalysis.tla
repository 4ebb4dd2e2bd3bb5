--------------------------- MODULE MCCfgAnalysis ----------------------------
(* Functions of the shapes that lowering produces, with every choice of a   *)
(* few computations, conditions and checks in their blocks.                 *)
EXTENDS CfgAnalysis, TLC

Pass == [drop |-> FALSE, assign |-> FALSE, by |-> 0]
Increment == [Pass EXCEPT !.by = 1]
Drop == [Pass EXCEPT !.drop = TRUE]
Set(n) == [Pass EXCEPT !.assign = TRUE, !.by = n]

Anything == [known |-> FALSE, bound |-> 0]
AtMost(n) == [known |-> TRUE, bound |-> n]

NotOne == {s \in State : s.x # 1}
Small == {s \in State : s.x <= 1}
Owned == {s \in State : s.own}

\* A block without a choice has the default.
Free(default, choice) ==
    {[b \in Blocks |-> IF b \in DOMAIN choice THEN f[b] ELSE default] :
        f \in {g \in [DOMAIN choice -> UNION {choice[b] : b \in DOMAIN choice}] :
                  \A b \in DOMAIN choice : g[b] \in choice[b]}}

Functions(succ, effects, conds, checks) ==
    {[succ |-> [b \in Blocks |-> IF b \in DOMAIN succ THEN succ[b] ELSE <<>>],
      effect |-> e, cond |-> c, check |-> k, seed |-> [own |-> "Own", lo |-> 0, hi |-> 0],
      visits |-> AmpleVisits] :
        e \in Free(Pass, effects), c \in Free(Anything, conds), k \in Free(State, checks)}

\* while: preheader 1, header 2, body 3, exit 4, condition exit 5.
While ==
    Functions(<<<<2>>, <<3, 5>>, <<2>>, <<>>, <<4>>>>,
              (1 :> {Set(0), Set(2)}) @@ (3 :> {Pass, Increment, Set(0), Drop}),
              2 :> {Anything, AtMost(0), AtMost(1)},
              (3 :> {NotOne, Small, Owned}) @@ (4 :> {State, NotOne, Small, Owned}))

\* The body continues from two places and breaks from one.
Branching ==
    Functions(<<<<2>>, <<3, 5>>, <<2, 6>>, <<>>, <<4>>, <<2, 4>>>>,
              (3 :> {Pass, Increment}) @@ (6 :> {Increment, Set(0), Set(2), Drop}),
              (2 :> {Anything, AtMost(1)}) @@ (3 :> {Anything, AtMost(0)}),
              (4 :> {State, NotOne, Owned}) @@ (6 :> {State, Small, Owned}))

\* A join whose id is smaller than that of one of its predecessors, and then
\* a loop.
LateThenLoop ==
    Functions(<<<<3, 4>>, <<6>>, <<2>>, <<2, 5>>, <<2>>, <<6>>>>,
              (3 :> {Set(0), Drop}) @@ (4 :> {Set(2), Set(1)}) @@ (5 :> {Set(1), Drop}),
              <<>>,
              2 :> {NotOne, Small, Owned})

Loops == While \cup Branching \cup LateThenLoop

\* Joins after all of their predecessors: a diamond, then a second one.
Joins ==
    Functions(<<<<2, 3>>, <<4>>, <<4, 5>>, <<5, 6>>, <<6>>, <<>>>>,
              (2 :> {Set(0), Drop, Set(1)}) @@ (3 :> {Set(2), Drop, Pass})
                 @@ (4 :> {Pass, Increment}) @@ (5 :> {Pass, Set(0)}),
              (4 :> {Anything, AtMost(0)}),
              (4 :> {State, NotOne, Owned}) @@ (5 :> {State, NotOne, Owned})
                 @@ (6 :> {NotOne, Small, Owned}))

\* All of them with enough visits, and the loops with too few.
Scanty == {[f EXCEPT !.visits = 7] : f \in While}

Shapes == Loops \cup Joins \cup Scanty

\* match on an unknown integer with three arms: entry 1, join 2, the second
\* test 3 and body 4, the last test 5 and body 6, the last body 7.
Match ==
    Functions(<<<<3, 4>>, <<>>, <<5, 6>>, <<2>>, <<7>>, <<2>>, <<2>>>>,
              (4 :> {Set(0)}) @@ (6 :> {Set(2)}) @@ (7 :> {Set(0), Set(1), Set(2)}),
              <<>>,
              2 :> {State, NotOne})
=============================================================================
