------------------------- MODULE RecursiveSummaries -------------------------
(* verify_program: bodies are analyzed one component of the call graph at   *)
(* a time.  A function that calls no member of its own component is         *)
(* analyzed once and its summary closed.  A recursive component is guessed  *)
(* from a baseline, analyzed under the guess until the guess covers what    *)
(* the bodies do, replayed once more and published as a whole, or left with *)
(* its baseline.                                                            *)
(*                                                                          *)
(* A body is a sequence of paths.  A path is taken for an argument n in     *)
(* from..to; it computes base + k, passes it to its callee if it has one    *)
(* and adds to the result, must find the word at most bound (an index, say),*)
(* may write what the caller lent, and returns the word and, where the      *)
(* function returns one, an owner: the argument's, a new one, or what the   *)
(* callee returned.  Which of the paths open to an argument an execution    *)
(* takes depends on data the summaries do not follow.                       *)
EXTENDS Integers, Sequences, SequencesExt, CallGraph

CONSTANTS
    Functions, Entry, NoFunction,
    MaxWord,            \* words are 0..MaxWord and addition wraps
    Programs,           \* functions to paths, and to the bound they require of n
    Depth,              \* calls nested in the executions compared with
    MaxFunctions, MaxIterations, MaxBodies, MaxWorlds, WidenAfter

Words == 0..MaxWord

\* A path of a body, as above.
Paths ==
    {path \in [from : Words, to : Words, callee : Functions \cup {NoFunction},
               base : {"n", "c"}, k : Words, add : Words, bound : Words,
               owner : {"none", "input", "fresh"}, writes : BOOLEAN] :
        path.from <= path.to}

ASSUME SummaryAssumption ==
    /\ IsFiniteSet(Functions) /\ Entry \in Functions /\ NoFunction \notin Functions
    /\ MaxWord \in Nat /\ Depth \in Nat
    /\ {MaxFunctions, MaxIterations, MaxBodies, MaxWorlds, WidenAfter} \subseteq Nat
    /\ Programs \subseteq [body : [Functions -> Seq(Paths)], requires : [Functions -> Words]]

VARIABLES
    prog,
    pc,             \* "next", "trial", "done", "aborted"
    left,           \* functions whose component has not been processed
    registry,       \* entries: the closed summaries, by function
    results,        \* functions: the FunctionVerification of each
    component,      \* members of the component on trial
    fallback,       \* its baseline results
    candidates,     \* its hypotheses
    iterations, bodies, peak, finalPass
vars == <<prog, pc, left, registry, results, component, fallback, candidates,
          iterations, bodies, peak, finalPass>>

-----------------------------------------------------------------------------
(* Words, and what is known of one: an interval, an expression over the     *)
(* argument of the function, and the history of the value, which also ends  *)
(* at the argument.                                                         *)

Wrap(x) == x % (MaxWord + 1)
NoTerm == [base |-> "none", k |-> 0]
Smaller(a, b) == IF a <= b THEN a ELSE b
Greater(a, b) == IF a >= b THEN a ELSE b

\* The elements of a sequence at some of its places.  (SelectSeq, in a form that
\* the proofs can look into.)
Picked(s, places) ==
    LET upTo[k \in 0..Len(s)] ==
            IF k = 0 THEN <<>>
            ELSE IF k \in places THEN Append(upTo[k - 1], s[k]) ELSE upTo[k - 1]
    IN  upTo[Len(s)]

Fact(lo, hi, expr, origin) == [lo |-> lo, hi |-> hi, expr |-> expr, origin |-> origin]
UnknownWord == Fact(0, MaxWord, NoTerm, NoTerm)
Exact(v) == v.lo = v.hi
Within(v, w) == w.lo <= v.lo /\ v.hi <= w.hi

\* The argument of a function that requires n <= bound.
ParameterFact(lo, hi) ==
    Fact(lo, hi, [base |-> "n", k |-> 0], [base |-> "n", k |-> 0])
ConstantFact(c) == Fact(c, c, [base |-> "c", k |-> c], NoTerm)

Shift(t, k) == IF t.base = "none" THEN NoTerm ELSE [t EXCEPT !.k = @ + k]

\* WordAdd with a constant: the expression and the history survive when the
\* addition cannot wrap.
WordAdd(v, k) ==
    IF v.hi + k <= MaxWord
    THEN Fact(v.lo + k, v.hi + k, Shift(v.expr, k), Shift(v.origin, k))
    ELSE IF Exact(v) THEN Fact(Wrap(v.lo + k), Wrap(v.lo + k), NoTerm, NoTerm)
    ELSE UnknownWord

-----------------------------------------------------------------------------
(* A summary: its state, its obligations and its return worlds.  A world is *)
(* kept under the guard of its path; the guard of a candidate is empty.     *)

Always == [lo |-> 0, hi |-> MaxWord]
World(guard, value, owner, writes) ==
    [guard |-> guard, value |-> value, owner |-> owner, writes |-> writes]

\* instantiate: the worlds of a summary the argument does not exclude, with
\* the history of the result refining its interval.
Computed(w, arg) ==
    IF w.value.origin.base = "n" /\ arg.hi + w.value.origin.k <= MaxWord
    THEN [lo |-> arg.lo + w.value.origin.k, hi |-> arg.hi + w.value.origin.k]
    ELSE Always

Result(w, arg) ==
    LET e == w.value.expr
        o == w.value.origin
        c == Computed(w, arg)
        through(t) == IF t.base = "n" THEN Shift(arg.origin, t.k) ELSE NoTerm
    IN  Fact(Greater(w.value.lo, c.lo), Smaller(w.value.hi, c.hi),
             IF e.base = "n" THEN Shift(arg.expr, e.k) ELSE e,
             IF o.base = "none" /\ e.base = "n" /\ arg.hi + e.k <= MaxWord
             THEN through(e) ELSE through(o))

Possible(w, arg) ==
    /\ arg.lo <= w.guard.hi /\ w.guard.lo <= arg.hi
    /\ Result(w, arg).lo <= Result(w, arg).hi

Applicable(summary, arg) ==
    {i \in DOMAIN summary.worlds : Possible(summary.worlds[i], arg)}

-----------------------------------------------------------------------------
(* analyze_one: one body under the summaries of a registry.                 *)

Entries(p, path, f) ==
    ParameterFact(path.from, Smaller(path.to, p.requires[f]))

\* The paths that can be taken at all.
Live(p, f) == {i \in DOMAIN p.body[f] : p.body[f][i].from <= p.requires[f]}

Operand(p, path, f) ==
    IF path.base = "n" THEN WordAdd(Entries(p, path, f), path.k) ELSE ConstantFact(path.k)

Preconditions(p, path, f) ==
    path.callee = NoFunction \/ Operand(p, path, f).hi <= p.requires[path.callee]

\* CallSummaryOutcome of the call of a path.
CallOutcome(p, path, f, reg, assumed) ==
    IF path.callee = NoFunction THEN "None"
    ELSE IF path.callee \notin DOMAIN reg THEN "NotClosed"
    ELSE IF ~Preconditions(p, path, f) THEN "Preconditions"
    ELSE IF Applicable(reg[path.callee], Operand(p, path, f)) = {}
         THEN "UnsupportedMapping"
    ELSE IF path.callee \in assumed THEN "Inductive" ELSE "Applied"

Used(o) == o \in {"None", "Inductive", "Applied"}

\* The cases in which a path reaches its return: the word, and the owner.
CasesOf(p, path, f, reg, assumed) ==
    LET o == CallOutcome(p, path, f, reg, assumed)
        arg == Operand(p, path, f)
        worlds == reg[path.callee].worlds
    IN  IF o = "None" THEN <<[value |-> arg, owner |-> path.owner, writes |-> "no"]>>
        ELSE IF ~Used(o)
        THEN <<[value |-> WordAdd(UnknownWord, path.add), writes |-> "unknown",
                owner |-> IF path.owner = "none" THEN "none" ELSE "unknown"]>>
        ELSE Picked([i \in DOMAIN worlds |->
                        [value |-> WordAdd(Result(worlds[i], arg), path.add),
                         writes |-> worlds[i].writes,
                         owner |-> IF path.owner = "none" THEN "none" ELSE worlds[i].owner]],
                    Applicable(reg[path.callee], arg))

\* (Mutant: an unknown word may be as large as it likes.)
CheckKnownOnly(path, case) == case.value = UnknownWord \/ case.value.hi <= path.bound

ObligationProven(path, case) == case.value.hi <= path.bound

\* The journal of a body is one for all its returns.
Joined(S) == IF "unknown" \in S THEN "unknown" ELSE IF "yes" \in S THEN "yes" ELSE "no"

\* summary_events: the calls the analysis comes to, and what it makes of them.
UsesOf(p, f, reg, assumed) ==
    {<<p.body[f][i].callee, CallOutcome(p, p.body[f][i], f, reg, assumed)>> : i \in Live(p, f)}

VerifiedPath(p, path, f, cases) ==
    Preconditions(p, path, f) /\ \A j \in DOMAIN cases : ObligationProven(path, cases[j])

AnalyzeOne(p, f, reg, assumed) ==
    LET body == p.body[f]
        cases == [i \in Live(p, f) |-> CasesOf(p, body[i], f, reg, assumed)]
        verified == \A i \in Live(p, f) : VerifiedPath(p, body[i], f, cases[i])
        writes == Joined({IF body[i].writes THEN "yes" ELSE "no" : i \in Live(p, f)}
                         \cup UNION {{cases[i][j].writes : j \in DOMAIN cases[i]} :
                                        i \in Live(p, f)})
        worlds(i) == [j \in DOMAIN cases[i] |->
                         World([lo |-> body[i].from, hi |-> body[i].to],
                               cases[i][j].value, cases[i][j].owner, writes)]
    IN  [worlds |-> FlattenSeq([i \in DOMAIN body |->
                                   IF i \in Live(p, f) THEN worlds(i) ELSE <<>>]),
         state |-> IF verified /\ \A u \in UsesOf(p, f, reg, assumed) : Used(u[2])
                   THEN "Candidate" ELSE "Unknown",
         verified |-> verified, uses |-> UsesOf(p, f, reg, assumed), outcome |-> "None"]

-----------------------------------------------------------------------------
(* The hypotheses of a recursive component.                                 *)

Informative(w) ==
    ~(w.value.lo = 0 /\ w.value.hi = MaxWord /\ w.value.expr.base = "none")

\* seed: the baseline worlds without an unknown owner, the informative ones if
\* there are any, with every effect.  <<>>: nothing to start from.
Seed(result) ==
    LET usable == {i \in DOMAIN result.worlds : result.worlds[i].owner # "unknown"}
        informative == {i \in usable : Informative(result.worlds[i])}
        kept == Picked(result.worlds, IF informative = {} THEN usable ELSE informative)
    IN  [i \in DOMAIN kept |-> World(Always, kept[i].value, kept[i].owner, "yes")]

\* (Mutant: only the lower end is compared.)
LowerCovers(a, b) == a.lo <= b.lo /\ (a.expr.base = "none" \/ a.expr = b.expr)

ValueCovers(a, b) == Within(b, a) /\ (a.expr.base = "none" \/ a.expr = b.expr)
EffectsCover(a, b) ==
    /\ a.writes # "unknown" /\ b.writes # "unknown"
    /\ b.writes = "yes" => a.writes = "yes"
SameResources(a, b) == a.owner = b.owner

WorldCovers(a, b) ==
    /\ SameResources(a, b) /\ EffectsCover(a, b) /\ ValueCovers(a.value, b.value)

Covers(as, bs) ==
    /\ as # <<>> /\ bs # <<>>
    /\ \A j \in DOMAIN bs : \E i \in DOMAIN as : WorldCovers(as[i], bs[j])

\* (Mutant: what was observed replaces the hypothesis.)
TakeObserved(a, b, widen) == b

\* join, one observed world at a time: nothing, into the first world with the
\* same resources, or a new one.
JoinValue(a, b, widen) ==
    LET fits == Within(b, a)
    IN  [a EXCEPT !.lo = IF fits THEN a.lo ELSE IF widen THEN 0 ELSE Smaller(a.lo, b.lo),
                  !.hi = IF fits THEN a.hi ELSE IF widen THEN MaxWord
                         ELSE Greater(a.hi, b.hi),
                  !.expr = IF a.expr = b.expr THEN a.expr ELSE NoTerm]

JoinInto(a, b, widen) ==
    [a EXCEPT !.value = JoinValue(a.value, b.value, widen),
              !.writes = Joined({a.writes, b.writes})]

JoinWorld(as, b, widen) ==
    LET same == {i \in DOMAIN as : SameResources(as[i], b)}
        first == CHOOSE i \in same : \A j \in same : i <= j
    IN  IF \E i \in DOMAIN as : WorldCovers(as[i], b) THEN as
        ELSE IF same = {} THEN Append(as, [b EXCEPT !.guard = Always])
        ELSE [as EXCEPT ![first] = JoinInto(as[first], b, widen)]

Join(as, bs, widen) ==
    LET joined[k \in 0..Len(bs)] ==
            IF k = 0 THEN as ELSE JoinWorld(joined[k - 1], bs[k], widen)
    IN  joined[Len(bs)]

-----------------------------------------------------------------------------
(* The registry.                                                            *)

Ready(r) ==
    /\ r.state = "Candidate" /\ r.worlds # <<>>
    /\ \A i \in DOMAIN r.worlds : r.worlds[i].writes # "unknown"

Plus(reg, more) ==
    [f \in DOMAIN reg \cup DOMAIN more |-> IF f \in DOMAIN more THEN more[f] ELSE reg[f]]

\* trial: the published summaries and the hypotheses.
Trial == Plus(registry, [f \in component |-> [worlds |-> candidates[f]]])

\* publish_component: what it checks of the bodies it is given.
Publishable(observed) ==
    /\ iterations > 0 /\ iterations <= MaxIterations
    /\ bodies + Cardinality(component) >= 2 * Cardinality(component)
    /\ bodies + Cardinality(component) <= MaxBodies
    /\ \A f \in component :
          /\ Ready(observed[f]) /\ Covers(candidates[f], observed[f].worlds)
          /\ \A u \in observed[f].uses :
                \/ u[2] = "None"
                \/ u[2] = "Inductive" /\ u[1] \in component
                \/ u[2] = "Applied" /\ u[1] \in DOMAIN registry

-----------------------------------------------------------------------------
(* verify_program.  components() hands out a component whose callees have   *)
(* all been processed; the module SummaryOrder models the order itself.     *)

CallsOf(p) == [f \in Functions |-> {p.body[f][i].callee : i \in DOMAIN p.body[f]}
                                    \ {NoFunction}]

\* (Mutant: a component waits for itself.)
WaitForAll ==
    {C \in Components(CallsOf(prog)) :
        C \subseteq left /\ CalleesOf(CallsOf(prog), C) \cap left = {}}

\* (Mutant: components in any order.)
AnyComponents == {C \in Components(CallsOf(prog)) : C \subseteq left}

NextComponents ==
    {C \in Components(CallsOf(prog)) :
        C \subseteq left /\ CalleesOf(CallsOf(prog), C) \cap left \subseteq C}

\* The calls the analysis can come to.
ReachedOf(p) == [f \in Functions |-> {p.body[f][i].callee : i \in Live(p, f)} \ {NoFunction}]

\* Component.recursive is false: one function that does not call itself.
Alone(C) == \E f \in C : C = {f} /\ f \notin CallsOf(prog)[f]

Init ==
    /\ prog \in Programs
    /\ pc = "next" /\ left = Functions
    /\ registry = <<>> /\ results = <<>>
    /\ component = {} /\ fallback = <<>> /\ candidates = <<>>
    /\ iterations = 0 /\ bodies = 0 /\ peak = 0 /\ finalPass = FALSE

\* (Mutant: the component stays on trial.)
StillOnTrial ==
    /\ UNCHANGED component /\ fallback' = <<>> /\ candidates' = <<>>
    /\ iterations' = 0 /\ bodies' = 0 /\ peak' = 0 /\ finalPass' = FALSE

Idle ==
    /\ component' = {} /\ fallback' = <<>> /\ candidates' = <<>>
    /\ iterations' = 0 /\ bodies' = 0 /\ peak' = 0 /\ finalPass' = FALSE

Closes(r) == Ready(r) /\ \A u \in r.uses : u[2] \in {"None", "Applied"}

\* A component that is not recursive is one function; close() publishes it.
AnalyzeSingle ==
    /\ pc = "next"
    /\ \E C \in NextComponents : \E f \in C :
          /\ Alone(C)
          /\ left' = left \ C
          /\ \E r \in {AnalyzeOne(prog, f, registry, {})} :
                /\ results' = Plus(results, [g \in C |-> r])
                /\ registry' = IF Closes(r) THEN Plus(registry, [g \in C |-> r]) ELSE registry
    /\ Idle /\ UNCHANGED <<prog, pc>>

\* The results a component that does not close is left with.
LeaveBaseline(C, base, why) ==
    /\ pc' = "next" /\ left' = left \ C
    /\ results' = Plus(results, [f \in C |-> [base[f] EXCEPT !.outcome = why]])
    /\ Idle /\ UNCHANGED <<prog, registry>>

\* The baseline, the budget of functions and the seeds.
StartComponent ==
    /\ pc = "next"
    /\ \E C \in NextComponents :
          /\ ~Alone(C)
          /\ \E base \in {[f \in C |-> AnalyzeOne(prog, f, registry, {})]} :
             \E seeds \in {[f \in C |-> Seed(base[f])]} :
                 \/ /\ Cardinality(C) > MaxFunctions
                    /\ LeaveBaseline(C, base, "FunctionBudget")
                 \/ /\ Cardinality(C) <= MaxFunctions
                    /\ \E f \in C : seeds[f] = <<>>
                    /\ LeaveBaseline(C, base, "Unsupported")
                 \/ /\ Cardinality(C) <= MaxFunctions
                    /\ \A f \in C : seeds[f] # <<>>
                    /\ pc' = "trial" /\ component' = C
                    /\ fallback' = base /\ candidates' = seeds
                    /\ UNCHANGED <<prog, left, registry, results,
                                   iterations, bodies, peak, finalPass>>

\* The worlds of all hypotheses, and the most there have been.
WorldCount == Cardinality(UNION {{f} \X DOMAIN candidates[f] : f \in component})
Peak == Greater(peak, WorldCount)

OverState == Peak > MaxWorlds
OverBodies == bodies + Cardinality(component) > MaxBodies
OverIterations == ~finalPass /\ iterations >= MaxIterations

GiveUp ==
    /\ pc = "trial"
    /\ \/ OverState /\ LeaveBaseline(component, fallback, "StateBudget")
       \/ /\ ~OverState /\ OverBodies
          /\ LeaveBaseline(component, fallback, "AnalysisBudget")
       \/ /\ ~OverState /\ ~OverBodies /\ OverIterations
          /\ LeaveBaseline(component, fallback, "IterationBudget")

\* One pass over the bodies, all under the same hypotheses.
Observed(trial) == [f \in component |-> AnalyzeOne(prog, f, trial, component)]

Complete(observed) ==
    \A f \in component : observed[f].state = "Candidate" /\ observed[f].verified

AllCovered(observed) == \A f \in component : Covers(candidates[f], observed[f].worlds)

Count == IF finalPass THEN iterations ELSE iterations + 1

\* (Mutant: the results of the failed pass are kept.)
PassFailsKept(observed) ==
    /\ ~Complete(observed)
    /\ LeaveBaseline(component, observed, "Unsupported")

PassFails(observed) ==
    /\ ~Complete(observed)
    /\ LeaveBaseline(component, fallback, "Unsupported")

Replay(observed) ==
    /\ Complete(observed) /\ AllCovered(observed) /\ ~finalPass
    /\ finalPass' = TRUE
    /\ UNCHANGED candidates

Weaken(observed) ==
    /\ Complete(observed) /\ ~AllCovered(observed) /\ ~finalPass
    /\ candidates' = [f \in component |->
                         Join(candidates[f], observed[f].worlds, Count > WidenAfter)]
    /\ UNCHANGED finalPass

NotCovered(observed) ==
    /\ Complete(observed) /\ finalPass
    /\ ~AllCovered(observed) \/ ~Publishable(observed)
    /\ LeaveBaseline(component, fallback, "NotCovered")

Publish(observed) ==
    /\ Complete(observed) /\ finalPass /\ AllCovered(observed) /\ Publishable(observed)
    /\ LET closed == [f \in component |-> [observed[f] EXCEPT !.outcome = "Closed"]]
       IN  /\ registry' = Plus(registry, closed)
           /\ results' = Plus(results, closed)
    /\ pc' = "next" /\ left' = left \ component
    /\ Idle /\ UNCHANGED prog

Pass ==
    /\ pc = "trial" /\ ~OverState /\ ~OverBodies /\ ~OverIterations
    /\ \E trial \in {Trial} : \E observed \in {Observed(trial)} :
       \/ PassFails(observed) \/ NotCovered(observed) \/ Publish(observed)
       \/ /\ Replay(observed) \/ Weaken(observed)
          /\ iterations' = Count /\ peak' = Peak
          /\ bodies' = bodies + Cardinality(component)
          /\ UNCHANGED <<prog, pc, left, registry, results, component, fallback>>

\* The analysis of a body can fail outright (a budget of the CFG analysis).
\* On a trial this ends the trial, in a baseline the whole verification.
BodyError ==
    \/ /\ pc = "trial" /\ ~OverState /\ ~OverBodies /\ ~OverIterations
       /\ LeaveBaseline(component, fallback, "Unsupported")
    \/ /\ pc = "next" /\ left # {}
       /\ pc' = "aborted"
       /\ UNCHANGED <<prog, left, registry, results, component, fallback, candidates,
                      iterations, bodies, peak, finalPass>>

Report ==
    /\ pc = "next" /\ left = {}
    /\ pc' = "done"
    /\ UNCHANGED <<prog, left, registry, results, component, fallback, candidates,
                   iterations, bodies, peak, finalPass>>

Progress == Report \/ GiveUp \/ AnalyzeSingle \/ StartComponent \/ Pass

Next == Progress \/ BodyError

\* verify_program runs to its end; no body has to fail for it to.
Spec == Init /\ [][Next]_vars /\ WF_vars(Progress)

\* is_memory_checked_core0
MemoryChecked == pc = "done" /\ \A f \in Functions : results[f].verified

-----------------------------------------------------------------------------
(* Executions of the program with at most Depth nested calls.               *)

Faults == [fault |-> TRUE, v |-> 0, owner |-> "none", wrote |-> FALSE]
Finishes(path, v, owner, wrote) ==
    IF v > path.bound THEN Faults
    ELSE [fault |-> FALSE, v |-> v, owner |-> owner, wrote |-> wrote \/ path.writes]

\* One path for the argument n, when the calls it makes have the results e.
Taken(p, path, n, e) ==
    LET arg == IF path.base = "n" THEN Wrap(n + path.k) ELSE path.k
    IN  IF path.callee = NoFunction THEN {Finishes(path, arg, path.owner, FALSE)}
        ELSE IF arg > p.requires[path.callee] THEN {Faults}
        ELSE {IF r.fault THEN Faults
              ELSE Finishes(path, Wrap(r.v + path.add),
                            IF path.owner = "none" THEN "none" ELSE r.owner, r.wrote) :
                 r \in e[path.callee][arg]}

Deeper(p, e) ==
    [f \in Functions |-> [n \in Words |->
        UNION {Taken(p, p.body[f][i], n, e) :
                  i \in {j \in DOMAIN p.body[f] :
                            n \in p.body[f][j].from..p.body[f][j].to}}]]

\* The results of the executions with at most d nested calls.
Nested(p) ==
    LET runs[d \in 0..Depth] ==
            IF d = 0 THEN [f \in Functions |-> [n \in Words |-> {}]]
            ELSE Deeper(p, runs[d - 1])
    IN  runs

Executions(p) == Nested(p)[Depth]

Holds(t, n, v) == (t.base = "n" => v = n + t.k) /\ (t.base = "c" => v = t.k)

Admits(w, n, r) ==
    /\ n \in w.guard.lo..w.guard.hi
    /\ r.v \in w.value.lo..w.value.hi
    /\ Holds(w.value.expr, n, r.v) /\ Holds(w.value.origin, n, r.v)
    /\ r.owner = w.owner
    /\ r.wrote => w.writes = "yes"

-----------------------------------------------------------------------------
Fields(r) == DOMAIN r = {"worlds", "state", "verified", "uses", "outcome"}

TypeOK ==
    /\ prog \in Programs
    /\ pc \in {"next", "trial", "done", "aborted"}
    /\ left \subseteq Functions /\ component \subseteq left
    /\ DOMAIN registry \subseteq DOMAIN results /\ DOMAIN results = Functions \ left
    /\ \A f \in DOMAIN results : Fields(results[f]) /\ results[f].verified \in BOOLEAN
    /\ DOMAIN candidates = component /\ DOMAIN fallback = component
    /\ iterations \in 0..MaxIterations /\ bodies \in 0..MaxBodies /\ peak \in Nat
    /\ finalPass \in BOOLEAN

\* A published summary speaks for every execution: no call that respects the
\* contract faults, and each return is one of the worlds the summary tells the
\* callers about, although the bodies of a recursive component were only
\* analyzed under a guess about each other ("every exit ... is checked again
\* under the hypothesis and must be included before publishing",
\* summary/recursive.rs:140).
SummariesCover ==
    pc \in {"done", "aborted"} =>
        LET runs == Executions(prog)
        IN  \A f \in DOMAIN registry : \A n \in 0..prog.requires[f] :
                \A r \in runs[f][n] :
                    /\ ~r.fault
                    /\ \E i \in DOMAIN registry[f].worlds : Admits(registry[f].worlds[i], n, r)

\* A program reported as checked does not fault, whichever of its components
\* closed and whichever were left with their baseline.
CheckedRunsSafely ==
    MemoryChecked => LET runs == Executions(prog)
                     IN  \A n \in 0..prog.requires[Entry] :
                            \A r \in runs[Entry][n] : ~r.fault

\* Nothing from an unsuccessful trial survives (verify/recursive.rs:186): what
\* is reported of a component that did not close used published summaries
\* only, and it was not published.
NothingProvisional ==
    \A f \in DOMAIN results :
        \/ f \in DOMAIN registry /\ registry[f] = results[f]
        \/ f \notin DOMAIN registry /\ \A u \in results[f].uses : u[2] # "Inductive"

\* A pass only weakens the hypotheses: the next ones cover the last.
HypothesesWeaken ==
    [][pc = "trial" /\ pc' = "trial" =>
          \A f \in component : Covers(candidates'[f], candidates[f])]_vars

\* The budgets end every trial, and verify_program ends.
Terminates == <>(pc \in {"done", "aborted"})

\* The registry keeps its promise: whole components, callees first, sealed
\* together and only on top of sealed ones, as far as their calls are reached.
Promise == INSTANCE SummaryPublication WITH
    calls <- CallsOf(prog), reached <- ReachedOf(prog), finished <- Functions \ left, sealed <- DOMAIN registry
KeepsPromise == Promise!Spec
=============================================================================
