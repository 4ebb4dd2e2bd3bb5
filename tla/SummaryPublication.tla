------------------------- MODULE SummaryPublication -------------------------
(* The promise of the summary registry: a component of the call graph is    *)
(* finished once, after every function it calls, and the summaries of its   *)
(* members are sealed together or not at all, never on top of a function    *)
(* that is not sealed itself.  A call that the analysis does not come to    *)
(* orders the components but leaves no use behind.                           *)
EXTENDS CallGraph

CONSTANT Functions
VARIABLES calls, reached, finished, sealed
vars == <<calls, reached, finished, sealed>>

Init ==
    /\ calls \in [Functions -> SUBSET Functions]
    /\ reached \in [Functions -> SUBSET Functions]
    /\ \A f \in Functions : reached[f] \subseteq calls[f]
    /\ finished = {} /\ sealed = {}

Finish(C) ==
    /\ C \cap finished = {}
    /\ CalleesOf(calls, C) \subseteq finished \cup C
    /\ finished' = finished \cup C
    /\ \/ sealed' = sealed
       \/ /\ CalleesOf(reached, C) \subseteq sealed \cup C
          /\ sealed' = sealed \cup C
    /\ UNCHANGED <<calls, reached>>

Next == \E C \in Components(calls) : Finish(C)

Spec == Init /\ [][Next]_vars
=============================================================================
