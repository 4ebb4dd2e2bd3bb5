------------------------------ MODULE CallGraph ------------------------------
(* What a strongly connected component of a call graph is: the reference   *)
(* the component search of the summary registry is compared with.          *)
EXTENDS Naturals, FiniteSets

\* No call leads out of S.
CallClosed(calls, S) == \A f \in S : calls[f] \subseteq S

\* The pairs of a function and one it calls, directly or through others: one
\* that no closed set around the direct callees leaves out.
Reached(calls) ==
    LET fs == DOMAIN calls
    IN  {e \in fs \X fs :
            \A S \in SUBSET fs :
                calls[e[1]] \subseteq S /\ CallClosed(calls, S) => e[2] \in S}

Components(calls) ==
    LET reached == Reached(calls)
    IN  {{f} \cup {g \in DOMAIN calls : {<<f, g>>, <<g, f>>} \subseteq reached} :
            f \in DOMAIN calls}

\* A member can be active twice on the call stack.
IsRecursive(calls, C) == \E f \in C : <<f, f>> \in Reached(calls)

CalleesOf(calls, C) == UNION {calls[f] : f \in C}
=============================================================================
