---------------------------- MODULE SummaryOrder ----------------------------
(* components() of the summary registry: the strongly connected components *)
(* of the call graph by an iterative form of Kosaraju's algorithm, then a   *)
(* worklist that orders them callees first.  A function is its identifier, *)
(* so the ordered maps of the code iterate in increasing order.            *)
EXTENDS Integers, Sequences, SequencesExt, CallGraph

CONSTANT Functions
ASSUME FunctionsAreIds == Functions \subseteq Nat /\ IsFiniteSet(Functions)

VARIABLES
    calls,      \* graph: the functions each body calls
    pc,         \* "search", "group", "order", "done"
    roots,      \* roots the current search has still to try, in order
    stack,      \* explicit search stack: <<function, expanded>>
    visited,
    finish,     \* functions in the order their search finished
    members,    \* the group being collected
    groups,     \* components found so far, by their least member
    deps,       \* components each unordered component waits for, by key
    ordered     \* the result
vars == <<calls, pc, roots, stack, visited, finish, members, groups, deps, ordered>>

Least(S) == CHOOSE x \in S : \A y \in S : x <= y
Increasing(S) == CHOOSE s \in [1..Cardinality(S) -> S] :
                    \A i, j \in 1..Cardinality(S) : i < j => s[i] < s[j]
Decreasing(S) == Reverse(Increasing(S))

\* (Mutant: a reversed edge names the wrong function.)
CallersShifted(f) == {g + 1 : g \in {h \in Functions : f \in calls[h]}}

\* The map reverse of the code.
Callers(f) == {g \in Functions : f \in calls[g]}

\* owners: the key of the component a function was collected in.
Owner(f) == Least(CHOOSE C \in {groups[k] : k \in DOMAIN groups} : f \in C)

Init ==
    /\ calls \in [Functions -> SUBSET Functions]
    /\ pc = "search" /\ roots = Increasing(Functions)
    /\ stack = <<>> /\ visited = {} /\ finish = <<>>
    /\ members = {} /\ groups = <<>> /\ deps = <<>> /\ ordered = <<>>

-----------------------------------------------------------------------------
(* First search: along the calls, recording when each function finishes.   *)

SearchRoot ==
    /\ pc = "search" /\ stack = <<>> /\ roots # <<>>
    /\ stack' = <<<<Head(roots), FALSE>>>>
    /\ roots' = Tail(roots)
    /\ UNCHANGED <<calls, pc, visited, finish, members, groups, deps, ordered>>

Expanded(f) == <<<<f, TRUE>>>> \o
    [i \in 1..Cardinality(calls[f]) |-> <<Decreasing(calls[f])[i], FALSE>>]

SearchPop ==
    /\ pc = "search" /\ stack # <<>>
    /\ LET f == Last(stack)[1]
           expanded == Last(stack)[2]
           seen == f \in visited
       IN  /\ finish' = IF expanded THEN Append(finish, f) ELSE finish
           /\ stack' = Front(stack) \o
                          (IF expanded \/ seen THEN <<>> ELSE Expanded(f))
           /\ visited' = IF expanded THEN visited ELSE visited \cup {f}
    /\ UNCHANGED <<calls, pc, roots, members, groups, deps, ordered>>

\* (Mutant: the second search takes them in finishing order.)
NoFinishOrder ==
    /\ pc = "search" /\ stack = <<>> /\ roots = <<>>
    /\ pc' = "group" /\ roots' = finish
    /\ visited' = {}
    /\ UNCHANGED <<calls, stack, finish, members, groups, deps, ordered>>

\* The second search takes the functions in reverse finishing order.
SearchEnd ==
    /\ pc = "search" /\ stack = <<>> /\ roots = <<>>
    /\ pc' = "group" /\ roots' = Reverse(finish)
    /\ visited' = {}
    /\ UNCHANGED <<calls, stack, finish, members, groups, deps, ordered>>

-----------------------------------------------------------------------------
(* Second search: against the calls; what it reaches is one component.     *)

GroupRoot ==
    /\ pc = "group" /\ stack = <<>> /\ members = {} /\ roots # <<>>
    /\ roots' = Tail(roots)
    /\ stack' = IF Head(roots) \in visited THEN <<>> ELSE <<<<Head(roots), FALSE>>>>
    /\ UNCHANGED <<calls, pc, visited, finish, members, groups, deps, ordered>>

GroupPop ==
    /\ pc = "group" /\ stack # <<>>
    /\ LET f == Last(stack)[1]
           seen == f \in visited
           above == Callers(f)
       IN  /\ visited' = visited \cup {f}
           /\ members' = IF seen THEN members ELSE members \cup {f}
           /\ stack' = Front(stack) \o
                 (IF seen THEN <<>>
                  ELSE [i \in 1..Cardinality(above) |-> <<Decreasing(above)[i], FALSE>>])
    /\ UNCHANGED <<calls, pc, roots, finish, groups, deps, ordered>>

\* (Mutant: the collected members are not reset.)
GroupKept ==
    /\ pc = "group" /\ stack = <<>> /\ members # {}
    /\ groups' = [k \in DOMAIN groups \cup {Least(members)} |->
                     IF k = Least(members) THEN members ELSE groups[k]]
    /\ UNCHANGED <<calls, pc, roots, stack, visited, finish, members, deps, ordered>>

GroupEnd ==
    /\ pc = "group" /\ stack = <<>> /\ members # {}
    /\ groups' = [k \in DOMAIN groups \cup {Least(members)} |->
                     IF k = Least(members) THEN members ELSE groups[k]]
    /\ members' = {}
    /\ UNCHANGED <<calls, pc, roots, stack, visited, finish, deps, ordered>>

\* Component.recursive.
Recursive(C) == Cardinality(C) > 1 \/ Least(C) \in calls[Least(C)]

\* (Mutant: only the calls of the key function count.)
WaitsForKeyCalls ==
    [k \in DOMAIN groups |-> {Owner(g) : g \in calls[k]} \ {k}]

\* The map deps of the code: the components a component calls into.
Dependencies ==
    [k \in DOMAIN groups |-> {Owner(g) : g \in CalleesOf(calls, groups[k])} \ {k}]

StartOrder ==
    /\ pc = "group" /\ stack = <<>> /\ members = {} /\ roots = <<>>
    /\ pc' = "order" /\ deps' = Dependencies
    /\ UNCHANGED <<calls, roots, stack, visited, finish, members, groups, ordered>>

-----------------------------------------------------------------------------
(* Ordering: the least component that waits for nothing comes next.        *)

Ready == {k \in DOMAIN deps : deps[k] = {}}

OrderNext ==
    /\ pc = "order" /\ Ready # {}
    /\ LET k == Least(Ready)
       IN  /\ ordered' = Append(ordered, [members |-> groups[k],
                                          recursive |-> Recursive(groups[k])])
           /\ groups' = [j \in DOMAIN groups \ {k} |-> groups[j]]
           /\ deps' = [j \in DOMAIN deps \ {k} |-> deps[j] \ {k}]
    /\ UNCHANGED <<calls, pc, roots, stack, visited, finish, members>>

OrderEnd ==
    /\ pc = "order" /\ Ready = {}
    /\ pc' = "done"
    /\ UNCHANGED <<calls, roots, stack, visited, finish, members, groups, deps, ordered>>

Next ==
    \/ SearchRoot \/ SearchPop \/ SearchEnd
    \/ GroupRoot \/ GroupPop \/ GroupEnd \/ StartOrder
    \/ OrderNext \/ OrderEnd

\* components() runs to its end before it returns.
Spec == Init /\ [][Next]_vars /\ WF_vars(Next)

-----------------------------------------------------------------------------
TypeOK ==
    /\ calls \in [Functions -> SUBSET Functions]
    /\ pc \in {"search", "group", "order", "done"}
    /\ roots \in Seq(Functions) /\ finish \in Seq(Functions)
    /\ stack \in Seq(Functions \X BOOLEAN)
    /\ visited \subseteq Functions /\ members \subseteq Functions
    /\ DOMAIN groups \subseteq Functions
    /\ \A k \in DOMAIN groups : groups[k] \subseteq Functions
    /\ DOMAIN deps \subseteq Functions
    /\ ordered \in Seq([members : SUBSET Functions, recursive : BOOLEAN])

Handed == UNION {ordered[i].members : i \in DOMAIN ordered}

\* The two searches find the strongly connected components, neither a part
\* of one nor two merged, whatever the shape of the graph and the order of
\* the identifiers (the comment at registry.rs:184).  When the ordering
\* starts the groups and the components already handed over are them all, and
\* one is analyzed as recursive exactly when a member can call itself.
GroupsAreComponents ==
    /\ {groups[k] : k \in DOMAIN groups} \subseteq Components(calls)
    /\ pc \in {"order", "done"} =>
          {groups[k] : k \in DOMAIN groups} \cup
          {ordered[i].members : i \in DOMAIN ordered} = Components(calls)
    /\ \A i \in DOMAIN ordered :
          ordered[i].recursive = IsRecursive(calls, ordered[i].members)

\* The search and the worklist end on every call graph, and not early: every
\* function has been handed to the verifier (the assertion at registry.rs:289).
Ends == <>(pc = "done" /\ Handed = Functions)

\* The component order implements its promise: whole components, each after
\* everything it calls, until no function is left.
Promise == INSTANCE CalleeFirst WITH done <- Handed
KeepsPromise == Promise!Spec
=============================================================================
