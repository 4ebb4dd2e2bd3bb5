----------------------------- MODULE CfgAnalysis -----------------------------
(***************************************************************************)
(* The verifier's fixed-point analysis of one function and what its answer *)
(* means for the function's executions.  A worklist visits blocks, smallest *)
(* id first; a block's entry is a set of cases (guarded.rs); a block whose *)
(* check stays unknown is replayed on the unmerged cases of its            *)
(* predecessors; cyclic entries are joined and widened; a function with a  *)
(* cycle is audited at the end.  Once the answer is "Checked" the function *)
(* runs, and a check that fails refutes the answer.                        *)
(*                                                                         *)
(* A resource case is cut down to one scalar (an interval) and one         *)
(* resource fact (whether an owner is available).  Path conditions and     *)
(* relations between scalars are left out: the functions meant are those   *)
(* in which they speak of values that no block parameter carries on, the   *)
(* same on every edge.  A block checks a condition, computes, and          *)
(* branches.  Calls, loop invariants (Induction::cut_edges), the work      *)
(* budget of the audit and evidence budgets are left out.                  *)
(***************************************************************************)
EXTENDS Integers, FiniteSets, Sequences

CONSTANTS
    Blocks,               \* VirBlockId, in worklist order
    Entry,                \* the entry block
    MaxWord,              \* the largest scalar (u64::MAX)
    Programs,             \* the functions that are analysed
    NoBlock,              \* nothing runs yet
    MaxCases,             \* max_guarded_cases_per_block
    MaxCuts,              \* max_loop_partition_cuts
    MaxPasses,            \* max_refinement_passes
    MaxRefinementVisits,  \* max_refinement_block_visits
    AmpleVisits,          \* a max_block_visits that is never spent
    WidenAfter            \* widen_after_updates

VARIABLES
    prog,      \* the function under analysis
    loops,     \* loop_blocks: its blocks on a cycle
    cuts,      \* loop_partition_cuts
    entries,   \* entries: what is known at the entry of a block
    edges,     \* incoming_edges, by source and ordinal
    updates,   \* entry_updates
    pending,   \* the worklist
    results,   \* block_results and obligations_by_block
    passes,    \* refinement_passes
    spent,     \* refinement_block_visits
    visits,    \* block_visits
    phase,     \* where the analysis is, or its answer
    pc, state  \* the execution of a checked function

analysis == <<prog, loops, cuts, entries, edges, updates, pending, results, passes, spent, visits, phase>>
execution == <<pc, state>>
vars == <<analysis, execution>>

Word == 0 .. MaxWord

State == [own : BOOLEAN, x : Word]

\* What is known of the owner, and an interval: one resource case.
Case == {c \in [own : {"Own", "Gone", "Maybe"}, lo : Word, hi : Word] : c.lo <= c.hi}

Losses == {"CaseBudget", "LoopPartitionBudget", "LoopWidening"}

Conditional == [cases : SUBSET Case, losses : SUBSET Losses]

Unreachable == [cases |-> {}, losses |-> {}]

\* A block checks its condition, then drops the owner or not and assigns the
\* scalar, then branches on it (or on something unknown), jumps or returns.  With
\* a function comes the number of visits it is given (max_block_visits).
Effect == [drop : BOOLEAN, assign : BOOLEAN, by : Word]
Condition == [known : BOOLEAN, bound : Word]
Program == [succ : [Blocks -> Seq(Blocks)], check : [Blocks -> SUBSET State],
            effect : [Blocks -> Effect], cond : [Blocks -> Condition], seed : Case,
            visits : Nat]

ASSUME AnalysisAssumption ==
    /\ Blocks \subseteq Nat /\ IsFiniteSet(Blocks) /\ Entry \in Blocks /\ NoBlock \notin Blocks
    /\ MaxWord \in Nat
    /\ Programs \subseteq Program
    /\ \A p \in Programs, b \in Blocks : Len(p.succ[b]) <= 2
    /\ MaxCases \in Nat \ {0} /\ MaxCuts \in Nat
    /\ MaxPasses \in Nat /\ MaxRefinementVisits \in Nat /\ AmpleVisits \in Nat
    /\ WidenAfter \in Nat

Gamma(c) ==
    {s \in State : /\ c.lo <= s.x /\ s.x <= c.hi
                   /\ c.own = "Own" => s.own
                   /\ c.own = "Gone" => ~s.own}

-----------------------------------------------------------------------------
(* Joining and reducing cases. *)

Smallest(S) == CHOOSE n \in S : \A m \in S : n <= m
Largest(S) == CHOOSE n \in S : \A m \in S : m <= n

\* collapse_cases: the join of a non-empty set of cases.
Hull(S) ==
    [own |-> IF \E o \in {"Own", "Gone"} : \A c \in S : c.own = o
             THEN CHOOSE o \in {"Own", "Gone"} : \A c \in S : c.own = o ELSE "Maybe",
     lo |-> Smallest({c.lo : c \in S}), hi |-> Largest({c.hi : c \in S})]

\* (Mutant: obligation-directed replay is not bounded.)
NormalizeUnbounded(S, losses, reduction) ==
    [cases |-> IF reduction = "Selective"
               THEN {Hull({d \in S : d.own = c.own}) : c \in S} ELSE S,
     losses |-> losses]

\* normalize: "Selective" merges cases with the same resource facts,
\* "PreserveGuards" only removes duplicates; too many cases become one.
Normalize(S, losses, reduction) ==
    LET kept == IF reduction = "Selective"
                THEN {Hull({d \in S : d.own = c.own}) : c \in S} ELSE S IN
    IF Cardinality(kept) <= MaxCases THEN [cases |-> kept, losses |-> losses]
    ELSE [cases |-> {Hull(kept)}, losses |-> losses \cup {"CaseBudget"}]

\* The partition cell of an interval between the cuts, -1 when it has none.
Cell(c, C) ==
    IF {k \in C : k <= c.lo} = {k \in C : k <= c.hi}
    THEN Cardinality({k \in C : k <= c.lo}) ELSE -1

SamePartition(c, d, C) == c.own = d.own /\ Cell(c, C) = Cell(d, C)

\* (Mutant: bounds move only as far as they have to.)
WidenByJoin(c, d) == Hull({c, d})

\* A bound that moved goes to the limit of the domain.
Widen(c, d) ==
    [own |-> Hull({c, d}).own,
     lo |-> IF d.lo < c.lo THEN 0 ELSE c.lo,
     hi |-> IF d.hi > c.hi THEN MaxWord ELSE c.hi]

\* widen_loop_predicates: but not out of the cell both cases are in.
WidenInCell(c, d, C) ==
    LET w == Widen(c, d)
        below == {k \in C : k <= d.lo}
        above == {k \in C : k > d.hi}
    IN
    IF Cell(d, C) = -1 \/ Cell(c, C) # Cell(d, C) THEN w
    ELSE [w EXCEPT !.lo = Largest({@} \cup below),
                   !.hi = Smallest({@} \cup {k - 1 : k \in above})]

\* merge_loop: cases join within their partition; a spent budget is sticky.
MergeLoop(current, incoming, widening, C) ==
    LET all == current.cases \cup incoming.cases
        losses == current.losses \cup incoming.losses
        joined == {Hull({d \in all : SamePartition(c, d, C)}) : c \in all}
        Previous(c) == {d \in current.cases : SamePartition(c, d, C)}
        Next1(c) == IF widening /\ Previous(c) # {}
                    THEN WidenInCell(Hull(Previous(c)), c, C) ELSE c
    IN
    IF Cardinality(joined) > MaxCases \/ losses \cap {"CaseBudget", "LoopPartitionBudget"} # {}
    THEN [cases |-> {IF widening THEN Widen(Hull(current.cases), Hull(joined)) ELSE Hull(joined)},
          losses |-> losses \cup {"CaseBudget", "LoopPartitionBudget"}
                     \cup (IF widening THEN {"LoopWidening"} ELSE {})]
    ELSE Normalize({Next1(c) : c \in joined},
                   losses \cup (IF \E c \in joined : Next1(c) # c THEN {"LoopWidening"} ELSE {}),
                   "PreserveGuards")

-----------------------------------------------------------------------------
(* Blocks and edges. *)

Ordinals(p, b) == 1 .. Len(p.succ[b])

Edge == Blocks \X {1, 2}

\* A set of blocks that control does not leave.
Closed(p, S) == \A b \in S : \A i \in Ordinals(p, b) : p.succ[b][i] \in S

\* find_loop_blocks: the blocks on a cycle.
LoopBlocks(p) ==
    {b \in Blocks :
        \A S \in SUBSET Blocks :
            Closed(p, S) /\ (\A i \in Ordinals(p, b) : p.succ[b][i] \in S) => b \in S}

\* partitions::discover: the constants that are compared with, and their successors.
Cuts(p) ==
    LET tested == {p.cond[b].bound : b \in {c \in Blocks : p.cond[c].known /\ Len(p.succ[c]) = 2}}
        all == {k \in Word \ {0} : k \in tested \/ k - 1 \in tested}
    IN
    {k \in all : Cardinality({j \in all : j < k}) < MaxCuts}

\* The scalars for which control takes an edge.
Guard(p, b, i) ==
    IF ~p.cond[b].known \/ Len(p.succ[b]) = 1 THEN [lo |-> 0, hi |-> MaxWord]
    ELSE IF i = 1 THEN [lo |-> 0, hi |-> p.cond[b].bound]
    ELSE [lo |-> p.cond[b].bound + 1, hi |-> MaxWord]

\* An addition that overflows stops the execution.
Assigned(e, x) == IF e.assign THEN e.by ELSE x + e.by

\* The case an edge delivers, if the edge is feasible.
EdgeCases(p, b, i, c) ==
    LET e == p.effect[b] g == Guard(p, b, i)
        lo == Assigned(e, c.lo) hi == Assigned(e, c.hi) IN
    {d \in {[own |-> IF e.drop THEN "Gone" ELSE c.own,
             lo |-> IF lo < g.lo THEN g.lo ELSE lo,
             hi |-> IF hi > g.hi THEN g.hi ELSE hi]} : d.lo <= d.hi}

\* The same step of an execution.
EdgeStates(p, b, i, s) ==
    LET e == p.effect[b] g == Guard(p, b, i) x == Assigned(e, s.x) IN
    {t \in {[own |-> s.own /\ ~e.drop, x |-> x]} : g.lo <= x /\ x <= g.hi}

\* (Mutant: one proven case is enough.)
StatusFavorable(p, b, C) ==
    IF \E c \in C.cases : Gamma(c) \subseteq p.check[b] THEN "Proven"
    ELSE IF \E c \in C.cases : Gamma(c) \cap p.check[b] = {} THEN "Refuted"
    ELSE IF C.cases = {} THEN "Proven" ELSE "Unknown"

\* merge_case_obligation: the obligation of a block over all its cases.
Status(p, b, C) ==
    IF \E c \in C.cases : Gamma(c) \cap p.check[b] = {} THEN "Refuted"
    ELSE IF \A c \in C.cases : Gamma(c) \subseteq p.check[b] THEN "Proven"
    ELSE "Unknown"

\* evaluate_conditional_block: what the block sends along its edge i.
Successor(p, b, C, reduction, i) ==
    LET out == UNION {EdgeCases(p, b, i, c) : c \in C.cases} IN
    IF out = {} THEN Unreachable ELSE Normalize(out, C.losses, reduction)

-----------------------------------------------------------------------------
(* The analysis. *)

Preserves(b) == b \in loops /\ cuts # {}

Reduction(preserved) == IF preserved THEN "PreserveGuards" ELSE "Selective"

\* combine_block_inputs
Inputs(E, b) == {e \in Edge : e[2] \in Ordinals(prog, e[1]) /\ prog.succ[e[1]][e[2]] = b /\ E[e] # Unreachable}

Combined(E, b, reduction) ==
    Normalize((IF b = Entry THEN {prog.seed} ELSE {}) \cup UNION {E[e].cases : e \in Inputs(E, b)},
              UNION {E[e].losses : e \in Inputs(E, b)}, reduction)

NoResult == [entry |-> Unreachable, status |-> "Proven", preserved |-> FALSE]

Result == [entry : Conditional, status : {"Proven", "Unknown", "Refuted"}, preserved : BOOLEAN]

Init ==
    /\ prog \in Programs
    /\ loops = LoopBlocks(prog)
    /\ cuts = IF loops = {} THEN {} ELSE Cuts(prog)
    /\ entries = [b \in Blocks |-> IF b = Entry THEN [cases |-> {prog.seed}, losses |-> {}]
                                   ELSE Unreachable]
    /\ edges = [e \in Edge |-> Unreachable]
    /\ updates = [b \in Blocks |-> 0]
    /\ pending = {Entry}
    /\ results = [b \in Blocks |-> NoResult]
    /\ passes = 0 /\ spent = 0 /\ visits = 0
    /\ phase = "Analyzing"
    /\ pc = NoBlock /\ state = [own |-> TRUE, x |-> 0]

\* An unknown check outside loops is replayed when the predecessors have more
\* cases than the merged entry, and the budgets allow it.
Replayed(b) ==
    LET precise == Combined(edges, b, "PreserveGuards") IN
    /\ b \notin loops
    /\ Status(prog, b, entries[b]) = "Unknown"
    /\ Cardinality(precise.cases) > Cardinality(entries[b].cases)
    /\ passes < MaxPasses
    /\ spent + Cardinality(precise.cases) <= MaxRefinementVisits

Evaluated(b) ==
    IF Replayed(b)
    THEN [entry |-> Combined(edges, b, "PreserveGuards"), preserved |-> TRUE,
          status |-> Status(prog, b, Combined(edges, b, "PreserveGuards"))]
    ELSE [entry |-> entries[b], preserved |-> Preserves(b),
          status |-> Status(prog, b, entries[b])]

\* (Mutant: a cyclic entry is replaced like any other.)
MergedReplacing(t, incoming) == incoming

\* merge_successor: the new entry of a target.  An acyclic block takes the
\* combination of its edges; a cyclic one is joined, and widened later on.
Merged(t, incoming) ==
    LET current == entries[t]
        joined == MergeLoop(current, incoming, FALSE, cuts)
    IN
    IF incoming.cases = {} THEN current
    ELSE IF current.cases = {} \/ t \notin loops THEN incoming
    ELSE IF joined = current THEN current
    ELSE IF updates[t] >= WidenAfter THEN MergeLoop(current, joined, TRUE, cuts)
    ELSE joined

\* (Mutant: only a block that was not reached before is visited again.)
RequeuedOnce(t, new) == entries[t].cases = {} /\ new # entries[t]

Requeued(t, new) == new # entries[t]

Visit(b) ==
    /\ phase = "Analyzing" /\ visits < prog.visits
    /\ b \in pending /\ \A c \in pending : b <= c
    /\ LET result == Evaluated(b)
           Sent(i) == IF i \in Ordinals(prog, b)
                      THEN Successor(prog, b, result.entry, Reduction(result.preserved), i)
                      ELSE Unreachable
       IN
       /\ results' = [results EXCEPT ![b] = result]
       /\ edges' = [edges EXCEPT ![<<b, 1>>] = Sent(1), ![<<b, 2>>] = Sent(2)]
    /\ LET affected == {prog.succ[b][i] : i \in {j \in Ordinals(prog, b) :
                           edges[<<b, j>>] # Unreachable \/ edges'[<<b, j>>] # Unreachable}}
           changed == {t \in affected : Requeued(t, entries'[t])}
       IN
       /\ entries' = [t \in Blocks |->
              IF t \in affected THEN Merged(t, Combined(edges', t, Reduction(Preserves(t))))
              ELSE entries[t]]
       /\ updates' = [t \in Blocks |->
              IF t \in changed \cap loops /\ entries[t].cases # {} THEN updates[t] + 1
              ELSE updates[t]]
       /\ pending' = (pending \ {b}) \cup changed
    /\ IF Replayed(b)
       THEN /\ passes' = passes + 1
            /\ spent' = spent + Cardinality(results'[b].entry.cases)
       ELSE UNCHANGED <<passes, spent>>
    /\ visits' = visits + 1
    /\ UNCHANGED <<prog, loops, cuts, phase, execution>>

\* BlockVisitLimitExceeded
GiveUp ==
    /\ phase = "Analyzing" /\ pending # {} /\ visits >= prog.visits
    /\ phase' = "VisitLimit"
    /\ UNCHANGED <<prog, loops, cuts, entries, edges, updates, pending, results, passes, spent, visits, execution>>

\* A case of the entry that includes the whole incoming case.
Includes(c, d) ==
    (c.own = "Maybe" \/ c.own = d.own) /\ c.lo <= d.lo /\ d.hi <= c.hi

Covered(target, incoming) == \A d \in incoming.cases : \E c \in target.cases : Includes(c, d)

AllProven == \A b \in Blocks : results[b].status = "Proven"

\* (Mutant: the obligations are proven again, the edges are not looked at.)
AuditObligations == \A b \in Blocks : Status(prog, b, results[b].entry) = "Proven"

\* closure::audit: the final results are closed under one more evaluation.
Audit ==
    /\ Covered(results[Entry].entry, [cases |-> {prog.seed}, losses |-> {}])
    /\ \A b \in Blocks :
          /\ Status(prog, b, results[b].entry) = "Proven"
          /\ \A i \in Ordinals(prog, b) :
                Covered(results[prog.succ[b][i]].entry,
                        Successor(prog, b, results[b].entry, Reduction(results[b].preserved), i))

\* all_obligations_proven: a function with a cycle also has to pass the audit.
Finish ==
    /\ phase = "Analyzing" /\ pending = {}
    /\ phase' = IF ~AllProven THEN "NotProven"
                ELSE IF loops # {} /\ ~Audit THEN "AuditFailed"
                ELSE "Checked"
    /\ UNCHANGED <<prog, loops, cuts, entries, edges, updates, pending, results, passes, spent, visits, execution>>

-----------------------------------------------------------------------------
(* The execution of a checked function. *)

Start ==
    /\ phase = "Checked" /\ pc = NoBlock
    /\ pc' = Entry
    /\ state' \in Gamma(prog.seed)
    /\ UNCHANGED analysis

Step ==
    /\ pc # NoBlock
    /\ state \in prog.check[pc]
    /\ \E i \in Ordinals(prog, pc) :
          /\ pc' = prog.succ[pc][i]
          /\ state' \in EdgeStates(prog, pc, i, state)
    /\ UNCHANGED analysis

Next == (\E b \in Blocks : Visit(b)) \/ GiveUp \/ Finish \/ Start \/ Step

Spec == Init /\ [][Next]_vars

-----------------------------------------------------------------------------
(* Properties. *)

\* What is kept for a block never exceeds the case budget, and the budgets of
\* the replays are respected.
TypeOK ==
    /\ prog \in Program /\ loops \subseteq Blocks /\ cuts \subseteq Word
    /\ entries \in [Blocks -> Conditional] /\ edges \in [Edge -> Conditional]
    /\ \A b \in Blocks : Cardinality(entries[b].cases) <= MaxCases
                         /\ Cardinality(results[b].entry.cases) <= MaxCases
    /\ updates \in [Blocks -> Nat] /\ pending \subseteq Blocks
    /\ results \in [Blocks -> Result]
    /\ passes \in 0 .. MaxPasses /\ spent \in 0 .. MaxRefinementVisits /\ visits \in 0 .. prog.visits
    /\ phase \in {"Analyzing", "VisitLimit", "NotProven", "AuditFailed", "Checked"}
    /\ pc \in Blocks \cup {NoBlock} /\ state \in State

\* "A condition that is false or cannot be proved prevents a Checked result":
\* no execution of a checked function fails a check.
CheckedRunsSafely == pc # NoBlock => state \in prog.check[pc]

\* The same for the functions that are audited, whatever the order of their
\* block ids and whatever was replayed.
AuditedRunsSafely == loops # {} => CheckedRunsSafely

\* A block that is not waiting was evaluated on all that its predecessors
\* deliver, in whatever order the blocks were visited: convergence of the
\* worklist means a closed set of results.  Blocks replayed on the cases of
\* their predecessors are the exception, and only the audit meets them.
ResultsCurrent ==
    phase # "VisitLimit" =>
        \A b \in Blocks : \A i \in Ordinals(prog, b) :
            LET t == prog.succ[b][i] IN
            t \notin pending /\ (t \in loops \/ ~results[t].preserved)
                => Covered(results[t].entry, edges[<<b, i>>])

\* Widening lets every analysis end before an ample visit budget is spent.
Converges == prog.visits >= AmpleVisits => phase # "VisitLimit"

\* The entry of a cyclic block never loses a case: the iteration ascends.
LoopEntriesAscend ==
    [][\A b \in loops : Covered(entries'[b], entries[b])]_vars

=============================================================================
