----------------------------- MODULE CalleeFirst -----------------------------
(* The promise of the component order: functions are handed to the          *)
(* verifier one strongly connected component at a time, each after every    *)
(* function it calls, until all have been.                                  *)
EXTENDS CallGraph

CONSTANT Functions
VARIABLES calls, done
vars == <<calls, done>>

Init ==
    /\ calls \in [Functions -> SUBSET Functions]
    /\ done = {}

Take(C) ==
    /\ C \cap done = {}
    /\ CalleesOf(calls, C) \subseteq done \cup C
    /\ done' = done \cup C
    /\ UNCHANGED calls

Next == \E C \in Components(calls) : Take(C)

Spec == Init /\ [][Next]_vars /\ WF_vars(Next)
=============================================================================
