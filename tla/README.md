# Nera: models, checks and proofs of the borrow runtime and the verifier

Nera (this repository) is a Rust compiler for a small systems language with
ownership and borrowing. A program is parsed and typed, lowered to a verified
intermediate representation (VIR), verified by abstract interpretation and,
when the verdict is `Checked`, executed by an interpreter or compiled to
x86-64. The repository's `README.md` says of the verifier that it is not
formally proved. This directory models the places where being wrong is easiest
and testing is least help:

* the **runtime loan shadow** of the VIR interpreter, the dynamic reference
  semantics of borrowing against which everything else is judged, inside one
  function and across calls;
* the **static loan analysis** of the verifier, in lock step with that shadow;
* the **control-flow fixed point** of the verifier, whose answer `Checked` is a
  promise about every execution;
* the **summaries of recursive functions**, guessed, used before they are
  established and then published;
* the **placement of the ends of local borrows** in lowering, which decides what
  the two loan checkers get to see.

## 1. Inventory

| Component | State it keeps | Operations | Interacts with |
|---|---|---|---|
| Runtime loan shadow (`vir/interpreter/loan_shadow.rs`) | per invocation: a map of loans (activity, range, kind, parent, authority tokens), a token counter | begin, reborrow, alias, end, end of a stored authority, access check, permission transform check, finish | called by every instruction of the interpreter that touches memory or permissions |
| Interpreter memory and permissions (`vir/interpreter.rs`, `interpreter/allocation_instance.rs`) | allocations (live, kind, bytes, resource payloads), block frame of SSA values with consumed marks | allocate, local storage, free, scalar writes, resource and object effects, split/join/slice, block entry, return | loan shadow, calls |
| Calls with borrows (`loan_shadow/calls.rs`, `vir/aggregate_abi.rs`) | per call: the arguments, a pre-minted alias, the result relation | prepare, import parameters, export parameters, activate the returned reference | two loan shadows at a time |
| Borrowed fields in calls (`loan_shadow/field_calls.rs`) | as above, per field of a returned object | import/export by field | not modelled |
| CFG fixed point (`verifier/cfg.rs`, `cfg/closure.rs`) | entries, incoming edges, worklist, results and obligations by block, budgets | visit, replay, merge, widen, give up, audit, verdict | guarded states, transfer functions |
| Guarded states (`verifier/guarded.rs`, `guarded/loops.rs`, `resource/loop_partition.rs`) | a set of resource cases and the precision lost | normalize, collapse, merge_loop, widen | abstract resource domain |
| Abstract resource domain (`verifier/resource/*`) | symbolic allocations, loans, scalars, predicates | join, widen, includes | transfer functions |
| Transfer functions (`verifier/transfer.rs`, `transfer/*`) | none of their own | the abstract effect and the obligations of each instruction | domain, summaries |
| Function summaries (`verifier/summary.rs`, `summary/*`, `verify/recursive.rs`) | candidate summaries of a strongly connected component, budgets | seed, iterate, final recheck, publish or fall back | CFG fixed point |
| Component order (`summary/registry.rs`) | two searches with explicit stacks, a worklist | strongly connected components, callees first | function summaries |
| Loan end placement (`frontend/lower/loan_end.rs`, with the emission in `lower.rs`, `lower/call.rs`) | per block: draft instructions, pending ends with their boundaries | emit, measure the last use, raise parents behind children, sort | its output is what the verifier and the interpreter see |
| Loop-invariant candidates (`verifier/cfg.rs`) | candidate rounds | propose, eliminate | CFG fixed point |
| Verdict (`verifier/verify.rs`, `verification.rs`) | results by function | aggregate, fail closed | all of the verifier |
| Frontend (`frontend/*`, `lexer.rs`), backend (`backend/*`), CLI | syntax trees, emitted code, files | sequential translation and I/O | VIR |

`PROJECT.json` lists every component with its status. The compiler has one
thread and stores nothing between runs: there are no crashes, messages or
timeouts to model. What is hard is elsewhere:

* **long sequences of legal instructions** that reach a state the local checks
  do not expect: loans created, lent on, aliased, stored, copied and ended in
  any order;
* **checks that look at one loan only** (`check_access` of a reference) or at
  **none** (`import_parameters`, `activate_conditional_return`, the free inside
  `object_drop_contents`) and are right only because of the whole history;
* **the order in which blocks are visited**: by id, not by control flow, so a
  result is computed before all of its inputs are known and may be stale;
* **hypotheses used before they hold**: a recursive function is analysed under a
  guess about itself, and parts of the guess may reach the published summary
  without ever being checked;
* **two paths joined into one record**: SSA names of holders, loans that ended on
  one path only, a block that defines its names again;
* **instructions moved**: an end that moves up to the last use passes others whose
  meaning depends on it;
* **budgets** that run out in the middle: cases, partitions, replays, visits,
  loans, aliases, reborrow depth.

What makes each part correct:

* loan shadow: the table is a forest of nested loans; no byte is lent
  exclusively and otherwise at once; an access that is permitted disturbs nobody;
* memory: authorities are linear, owners are disjoint, lent storage stays
  alive, borrowed contents do not change, nothing dangles after a return;
* calls: authorities are conserved across the stack, each table stays sound, a
  callee can do no more than its caller could;
* static loans: what a run holds is on record, and a function without an open
  obligation is never refused;
* fixed point: it ends; its results are closed; a `Checked` function fails no check;
* summaries: components are whole and callees come first; a published summary
  admits every execution; nothing provisional is published; the iteration ends;
* end placement: nothing else moves, and the moved block is at least as acceptable.

## 2. Modules

| Module | Models | Proofs |
|---|---|---|
| `LoanTable` | the operations of `RuntimeLoanShadow` as guards and updates on a table; no variables | `LoanTableProofs` |
| `VirInterpreter` | one invocation: memory, payloads, permissions, one loan table | `VirInterpreterProofs` |
| `BorrowCalls` | a stack of invocations, each with its own table | `BorrowCallsProofs` |
| `CfgAnalysis` | the worklist analysis of one function, then its execution | `CfgAnalysisProofs` |
| `StaticLoans` | the verifier's abstract loans beside one run of the shadow, along paths, branches and loops | `StaticLoansProofs` |
| `CallGraph` | what a strongly connected component is; no variables | - |
| `CalleeFirst` | the promise of the component order (abstract specification) | - |
| `SummaryOrder` | `components()`, refines `CalleeFirst` | `SummaryOrderProofs` |
| `SummaryPublication` | the promise of the registry (abstract specification) | - |
| `RecursiveSummaries` | `verify_program` over components, refines `SummaryPublication` | `RecursiveSummariesProofs` |
| `LoanEndPlan` | lowering of the references of one block, and `plan_block` | `LoanEndPlanProofs` |
| `MC...` | the instances for TLC | - |

`VirInterpreter`, `BorrowCalls`, `StaticLoans` and `LoanEndPlan` extend
`LoanTable`: the first two because the same Rust functions serve both, the other
two because their results are judged by it. `SummaryOrder` and
`RecursiveSummaries` extend `CallGraph`, and so do their abstract
specifications. In `CallGraph` a function reaches another if no set that is
closed under calls and contains its callees leaves the other out; that form needs
no recursion, so the proofs can use it. The operators marked "(Mutant: ...)" in a module are
deliberately wrong variants of the definition that follows them; nothing uses
them, and each shows that some property notices the mistake.

### LoanTable

A loan is `[activity, allocation, range, kind, parent, authorities]`. A loan id
that was never defined and one whose loan has ended are the same record
(`Blank`), because no operation of the shadow tells them apart. Each operation
`op` of the code is a guard `OpAllowed` (its error returns) and an update
(`BeginLoan`, `ReborrowLoan`, `AliasLoan`, `EndLoan`). `Chain(L, l)`, the walk
along the parent fields, is the smallest parent-closed set that contains `l`:
the same set, but needing no recursion, which the proofs rely on. Regions,
pointee types and envelopes are left out; the code only compares them with the
same metadata in the instruction.

### VirInterpreter

| Code | Model |
|---|---|
| `RuntimeLoanShadow.loans`, `.next_authority` | `loans`, `nextAuthority` |
| `BlockFrame`, permissions not consumed | `frame` (a set) |
| `Allocation.live/.kind`, `.bytes`, `.resource_payloads` | `storage`, `bytes`, `payload` |
| a runtime error | the action is not enabled |

There is one action per instruction (`Allocate`, `LocalStorage`, `Free`,
`WriteScalar`, `Deinitialize`, `ResourceStorageReset`, `ResourceInitialize`,
`ResourceTake`, `ObjectCopy`, `ObjectMove`, `ObjectDrop`, `PermissionSplit`,
`PermissionJoin`, `SliceRange`, `LoanBegin`, `LoanReborrow`, `LoanAlias`,
`LoanEnd`, `LoanEndAuthority`), block entry (`EnterBlock`) and `Return`. SSA
names are left out: consuming a permission takes it out of the set. Pointers are
freely copyable and grant nothing, so they are inputs. The place at an offset
has one type (`SlotKind`); a byte stands for the smallest object.

### BorrowCalls

The state is the stack of frames; a frame has its table, its token counter, its
permissions and what its caller handed over (`args`, `alias`, `result`). `Call`
is `prepare_call` followed by `import_parameters`; `Return`, `ReturnAlias` and
`ReturnReborrow` are `export_parameters`, `finish` and the activation in the
caller, for whole, alternative and projected results. The loan instructions are
those of `LoanTable`. Memory is left out: storage outlives every frame above
the one that owns it. Owners as arguments and references inside objects are not
modelled.

### CfgAnalysis

A resource case is cut down to one scalar (an interval) and one fact about an
owner (available, gone, unknown). This is enough to make joins lose
precision, loops ascend for as long as the word is wide, partitions have cells
and replays prove what a merged state cannot. The functions analysed are the
constant `Programs`: a graph of blocks, each with a check, an effect and a
branch, and the visits the function is given (`AmpleVisits`, or fewer). `Visit` is one turn of the worklist loop with everything it does
(evaluate, replay, send, merge, widen, queue); `GiveUp` is
`BlockVisitLimitExceeded`; `Finish` is convergence, the closure audit and the
verdict. `Start` and `Step` then execute a function that was reported
`Checked`, from any state its seed describes. Left out: path conditions and
relations between scalars, calls, loop-invariant candidates
(`Induction::cut_edges`), and the budgets of evidence and of the audit itself.

### StaticLoans

`cur` pairs the abstract state of a path with one run that it stands for; every
step is one instruction executed by both. The abstract state has the loans
(activity, parent, set of holder names) and the permission values (authority,
availability). `Fork`, `Switch` and `Merge` are a branch, its second arm and the
join; a `Merge` without a `Switch` is the back edge of a loop. `ProjectEdge`
renames holders as the edge's arguments say, and `JoinState` is
`ResourceState::join` with its dropped tombstones and lost precision. A step is
taken only when its obligations are `Proven`, so the module describes verified
functions. `PermissionMove` asks for an available value and nothing else, as the
code does: when a join has made the loan of the value `Unknown`, the move renames
no holder (`MoveAuthority`), and the run's new holder is not on record. `Free` is
the discipline of SSA names (`vir/validate.rs:893`): no instruction defines a name
that is in use, or the parameter of an earlier block, whose name may still be on
record. `Leaks` says whether an edge may leave an available authority behind.
Left out: initialization, predicates and the permissions that carry them,
references stored in memory, a reference narrowed by taking a part of it (it moves
the authority as `permission_move` does, `pointer.rs:498`), the cases into which
the entry of a block is partitioned, offsets that are not constant.

### SummaryOrder and RecursiveSummaries

`SummaryOrder` takes the two searches of `components()` apart into one action
per turn of their loops, with their explicit stacks, and then the worklist that
hands components out. `RecursiveSummaries` assumes that order and models
`verify_program`: `AnalyzeSingle`, `StartComponent` (baseline and seeds), `Pass`
(replay, weaken, fail or publish), `GiveUp` (state, body and iteration budgets),
`BodyError` and `Report`. A body is a set of guarded paths that compute a word,
may call, may write what was lent and may return an owner; a world of a summary
has the guard, the interval and the symbolic history of the word, the owner and
the effects. `Executions` is the reference: the results of all executions to a
call depth; `Nested(p)[d]`, those to depth `d`, are computed from those to depth
`d - 1`, beginning with none.

In `SummaryPublication` a component rests on the functions its bodies *reach*
(`reached`, which does not change), while the order of components goes by the
calls in their text. The two differ when the analysis finds that no argument
comes to a call: such a call leaves no use behind, and its callee need not be
sealed (instance `Unreached`). The proof of the refinement is what showed that
the promise must be stated this way.

### LoanEndPlan

The lowering actions emit what `lower_borrow`, `lower_authority_reborrow`,
`apply_local_use_mode`, `lower_call`, the constructors, `lower_resource_take` and
`emit_local_drop` emit for references; `Measure` and `Raise` are `plan_block`.
A block starts with no reference, with a reference parameter, or with a local
that an earlier block borrowed, and may end with references in scope, which the
terminator passes on. `Run` executes a block on the loan table in a given
order; `Eager` is the reference placement, which ends each reference at the
first moment it is dead and the shadow lets it. Left out: slices and
subobjects (all loans overlap, the hardest case), region constraints, zero-width
predicate actions, references returned by calls.

## 3. Runs

Runs with `SYMMETRY` permute loan ids (in `static_loans`, the names of permission
values), which no definition or property tells apart; the one action property among them (`SharedContentsStable`) is a safety
property that quantifies over all loans, so the reduction is sound for it.
`CHECK_DEADLOCK FALSE` is set everywhere because these systems stop: an
execution returns or is refused, an analysis gives its answer.

| Run | Instance | Shows |
|---|---|---|
| `vir_object` | one object of 2 bytes; as a local with 3 loans, 4 tokens, depth 2, 2 aliases; on the heap with 2 loans and 3 permissions at once | `LoanForest`, `LoansExclusive`, `AccessIsolated`, `TypeOK`, `OwnersDisjoint`, `LentStorageAlive`: begins, reborrows of reborrows, aliases and ends in every order; split, join, slice, forget and free under loans |
| `vir_holders` | 2 loans, 3 tokens, one data object and two holders: an owner and an exclusive reference, or two shared references | `AuthorityLinear`, `NothingDangles`, `StoredOwnerNotLent`, `PayloadMatchesBytes`, `SharedContentsStable` |
| `borrow_calls` | one parameter or two, 3 invocations, 5 loan ids, 5 tokens minted in all | `TypeOK`, `AuthoritiesConserved`, `FramesSound`, `CalleeConfined`, `ReturnAccepted` |
| `static_loans` | 5 sets of up to 3 loan sites, 2 bytes, 3 names, arms of 2 instructions | `TypeOK`, `LiveLoansKnown`, `VerifiedRunsAccepted` when edges pass every authority |
| `static_loans_leak` | one shared loan, edges may drop an authority | a violation of `VerifiedRunsAccepted`; see section 6 |
| `cfg_shapes` | functions with loops and with joins, 13 values, 20 visits or 7 | `TypeOK`, `AuditedRunsSafely`, `CheckedRunsSafely`, `ResultsCurrent`, `Converges`, `LoopEntriesAscend` |
| `cfg_match` | a three-armed `match`, ids as lowering gives them | a violation of `CheckedRunsSafely`; see section 6 |
| `summary_order` | every call graph of 3 functions | `TypeOK`, `GroupsAreComponents`, `Ends`, `KeepsPromise` (refinement of `CalleeFirst`, fairness included) |
| `summaries_recursion` | a main function and two that may call themselves and each other; 8 words, 3 iterations, 7 bodies, 3 worlds | `TypeOK`, `SummariesCover`, `CheckedRunsSafely`, `NothingProvisional`, `HypothesesWeaken`, `KeepsPromise` (refinement of `SummaryPublication`), `Terminates` |
| `summaries_parameters` | functions that return their parameter, budgets that are not spent | a violation of `SummariesCover`; see section 6 |
| `loan_end_plan` | blocks of 5 instructions and their ends, 3 loans, 3 locals | `TypeOK`, `OnlyEndsMoveUp`, `NamedPlanAccepted`, `PlanAsGoodAsEager` |
| `loan_end_stored` | blocks of 4 instructions | a violation of `PlanAccepted`; see section 6 |

Why the bounds are enough for the interesting cases. Three loans are a chain of
reborrows, or two siblings under a parent, or an unrelated loan beside a
reborrow; with two bytes they can overlap partly, contain each other or be
apart. Two aliases and four tokens let a shared loan have two holders of which
either can end first, and a token be issued after another is retired. Two
holder objects suffice to copy or move a stored reference from one to the
other while a third object is lent. Three invocations are a call
inside a call, or two calls one after the other, so that a token of a finished invocation could be mistaken for a later
one's. In `cfg_shapes` the word is larger than the longest chain of constants in
the functions, so a loop that were not widened would need more than 20 visits;
with 7 visits the loops exceed their budget (`GiveUp` fires). Two arms of two
instructions let a loan begin, be aliased or end on one path only, be moved to
another name, and meet itself again on a back edge. Three functions are the
smallest call graph with a component of two beside a third function, before or
behind it; in `summaries_recursion` some components converge and others exceed
each of the three budgets. Five instructions hold a chain of three loans with a
use of each kind between, or a store and a take. A block that no placement of
its ends can save is not extended (`Acceptable` in `MCLoanEndPlan`): the
properties claim nothing of it.

**Fairness and liveness.** `SummaryOrder` and `RecursiveSummaries` assume weak
fairness of their whole step (of all but an internal error, in the latter): the
code is a loop in one thread that does not wait for anything, so a step that can
be taken is taken. Under it `Ends` and `Terminates` say that both loops finish
and `KeepsPromise` carries the liveness of `CalleeFirst` over. Nothing else
assumes fairness. In `CfgAnalysis` the visit budget guarantees the end; that the
analysis ends *by itself*, long before that, is the invariant `Converges`. An
execution has no scheduler: which instruction comes next is the program's
choice.

## 4. Proofs

TLAPS checks some 24,400 obligations in eight modules. Each theorem holds for
every value of the constants that satisfies the named assumptions, which TLC
evaluates in every run: any number of loans, bytes, frames, blocks, functions.
Besides types, the assumptions say only that ids are not the "none" values,
that what Rust keeps in finite tables is finite, that the loan ids of
parameters, of the body and of call results are different ones (`BorrowCalls`),
that a loan may have an alias (`StaticLoans`), and that loan ids are
positive numbers (`LoanEndPlan`).

**The loan table** (`LoanTableProofs`, `VirInterpreterProofs`; assumptions
`LoanTableAssumption`, `InterpreterAssumption`). `InvariantHolds` shows the
inductive invariant `TypeOK /\ TableInv(loans)` with `TableInv == Held /\
Nested /\ SuspendedWhileLent /\ Exclusive`. None of the four is inductive
alone. `Exclusive` survives a reborrow only because the loans that
`check_creation_conflict` ignores are the ancestors, and the byte ranges of
ancestors contain the child's (`Nested`); it survives an end only because no
live loan's chain runs through the loan that ended, which needs that a loan
with a live child cannot end (`Nested` for the children, and
`SuspendedWhileLent` for the exclusive ones that `end_stored` would otherwise
accept). `SuspendedWhileLent` is what makes the access check, which looks at one
loan, sufficient: an active exclusive loan has no live child, so by `Exclusive`
every other loan of the byte is one of its ancestors. `Held` ties the
authorities to the loan's life. From it follow `TypeCorrect`,
`LoanForestHolds`, `LoansExclusiveHolds` and `AccessIsolatedHolds`. Chains are
handled without induction: to show that a chain stays inside a set, show that
the set is parent-closed (`ChainLeast`).

**Memory** (second part of `VirInterpreterProofs`). `MemInv` adds to the table's
invariant `Holdings` (each permission, in the frame or in a payload, is sound by
itself and separate from every other one), `Lending` (a stored owner is not
lent, lent bytes are alive), `PayloadMatchesBytes` and `NothingDangles`. They
need one another: `free` looks at the permission and at the loans of the
allocation, never at permissions stored elsewhere, so that lent storage stays
alive rests on owners being disjoint; and that owners stay disjoint when a
payload is taken out or overwritten rests on payloads being where the bytes say
they are. `AuthorityLinearHolds`, `OwnersDisjointHolds`,
`StoredOwnerNotLentHolds`, `LentStorageAliveHolds`, `PayloadMatchesBytesHolds`
and `NothingDanglesHolds` are parts or consequences of it;
`SharedContentsStableHolds` is the action property: no instruction writes a byte
that is lent shared.

**Calls** (`BorrowCallsProofs`; `CallsAssumption`). `StackInv` says of each frame
that its table satisfies `TableInv` and accounts for its tokens (in its own
permissions, or as arguments of the frame above), and of each neighbouring pair
that the callee's parameters are the caller's arguments (`Passed`) and all its
loans derive from them (`Rooted`). `import_parameters` and the activation of a
result check nothing; `FramesSoundHolds` is proved from `Passed`: a parameter
still has the bytes and the kind that the caller's own checks admitted. `Rooted`
gives `CalleeConfinedHolds`: what a callee may access, its caller could have
accessed through the argument. `ReturnAcceptedHolds` says that once the callee
finishes, the caller's activation of the result cannot be refused.
`AuthoritiesConservedHolds` and `CallsTypeOK` are parts of the invariant.

**Static loans** (`StaticLoansProofs`; `StaticLoansAssumption`, and the hypothesis
`~Leaks`: edges pass every available authority. Without it the theorems are
false; that is the run `static_loans_leak`). `StaticInv` says that on each path
either the abstract state follows the run (`Follows`), or the run was refused and
the abstract state is `Stuck`, so that no return is ever proved behind it. The
second alternative is needed because after a join the analysis can prove an
instruction that the run refuses (section 5).

`Follows` says that every live loan is on record with its parent, that no name
holds twice, and that each name a loan is held by is `Listed`: on record as a
holder of the loan, or moved when a join had made its loan unknown. The second
case would be unsound by itself, since the record may then list fewer holders than
the run has, and the last one on record would be taken for the last one. It is
sound because of the `Doubts` of a loan: the names on record that are not
available with that loan. No end is proven through such a name, so nothing removes
it, the loan is never taken for ended and no return is proven. A value of unknown
loan that a run holds is or was a doubt of its loan, and the loan keeps one for
good: instructions leave the doubts as they are, so the two arms of a branch have
the same ones (`SameDoubts`, a part of `StaticInv`), and a merge loses no loan's
last one (`MergeDoubts`) although edges rename some names and leave others, that
are no longer available, behind. `Stuck` is that some loan has a doubt. Hence
`VerifiedRunsAcceptedHolds` speaks of runs that return, and `LiveLoansKnownHolds`
of runs not refused so far, with the holder on record or its loan `Kept`.

**The fixed point** (`CfgAnalysisProofs`; assumption `AnalysisAssumption`).

* `BudgetsHold` (`Spec => []TypeOK`): no entry exceeds the case budget and the
  counters stay within theirs, through joins, widening clipped to a partition
  cell, and replays. `TypeOK` is inductive by itself.
* `LoopEntriesAscendHolds`: an entry on a cycle never loses a case, also when
  the partitions are given up, which is what makes the iteration monotone.
* `ResultsCurrentHolds`: blocks are visited by id, so a result may be older than
  what its block has been sent. `CurrentInv` says what is never stale: an entry
  covers what each of its edges last delivered, an edge delivers what the last
  result says, and a block that is not waiting has the result of its entry
  unless it was replayed.
* `AuditedRunsSafelyHolds`: a function with a cycle that is reported `Checked`
  fails no check. The inductive invariant adds `AuditInv`: while the function
  runs, its frozen results pass the audit and cover the state of the execution.
  The lemmas are the usual ones of abstract interpretation: a join includes its
  operands (`HullIncludes`), a reduction forgets no case (`NormalizeCovers`), a
  block's outgoing cases describe every step along the edge (`SuccessorSound`).
  For these functions the proof uses nothing about how the results were computed.
  Whatever the worklist, the replays or the widening do, the audit alone carries
  the promise.
* `UnreplayedRunsSafely`: the same for a function of any shape in which nothing was
  replayed; there `CurrentInv` at convergence implies the audit. Together the two
  theorems confine the finding `cfg_match` to functions without a cycle in which a
  join was replayed.

**Component order** (`SummaryOrderProofs`; the assumption of `SummaryOrder` on its
call graph). `components()` is the two-search algorithm of Kosaraju and Sharir on
explicit stacks; it is proved for every finite call graph. The inductive
invariant `ComponentsInv` has a part for each phase:

* `SearchInv`, the search along calls. A finished function that reaches an open
  one (entered, not finished) shares its component with an open one (`LeadsBack`),
  so the last function of a component to finish finishes no earlier than anything
  that component reaches (`LastOfComponent`).
* `GroupInv`, the search along callers, from the last finished function to the
  first: everything that earlier roots grouped is closed under callers
  (`EarlierClosed`), and what the present root collects reaches it (`FromRoot`).
  With the finishing order, a group is the whole component of its root.
* `OrderInv`, the worklist: every component is in `groups` or has been handed over,
  and after the components of all its callees.

`GroupsAreComponentsHolds` and `CalleesFirst` (every step is a step of `CalleeFirst`
or leaves its variables alone) follow. `NoneLeftOverHolds` is the `debug_assert` that
ends `components()` (`registry.rs:289`): of the components left, take one that
reaches the fewest functions; it calls no other that is left, hence it is ready.

**Recursive summaries** (`RecursiveSummariesProofs`; `SummaryAssumption`).

* `SummaryTypes`, `NothingProvisionalHolds`, `HypothesesWeakenHolds` and
  `KeepsPromiseHolds` (every step of `verify_program` is a step of
  `SummaryPublication` or leaves its variables alone) rest on `SummaryInv`: the
  component on trial is the next one in the order, its fallback results
  were computed from published summaries only, and what is published is
  well-formed and uses published functions.
* `SummariesCoverHolds` and `CheckedProgramsRunSafely`: a published summary admits
  every execution, and a program reported `Checked` fails no check, **if** no
  hypothesis ever claims a history for a result (`NoHistoryGuessed`). Without that
  hypothesis the first is false; that is the run `summaries_parameters`. With it
  the guess-and-check argument goes through: the replay of a component checks
  that its candidates cover what their bodies do under the candidates
  themselves, and induction over the call depth turns this into coverage of all
  executions (`TrialCovers`). All behaviours of the `summaries_recursion`
  instance satisfy the hypothesis. `SoundInv` adds to the registry's coverage
  that a result which was verified and not published (a fallback) faults
  only if a callee does.

**End placement** (`LoanEndPlanProofs`; `LoanEndPlanAssumption`).
`OnlyEndsMoveUpHolds` covers every block that lowering can emit, also the ones
that no placement saves, which the run leaves out. The planned order is a sort,
so the first half is that counting the smaller keys numbers the instructions
(`Ranking`, `SortedOrder`: every ordinal occurs once, in the order of the keys).
The other half is what the keys say. `PlanInv` keeps each boundary between the last
use of the reference and the end of its scope while the rounds of the parent
search raise it. For an end that may not move that needs `LowerInv`: a name is
held by one local in scope at a time, and the names of an end are never used
behind it, through copies, calls that hand a permission back under a new name,
and moves into an object. `PlanTypes` needs the same two.
`ChildrenEndFirstHolds` is what the comment at `loan_end.rs:254` asks for: every
named end of a child comes before every end of its parent, if `loan_depth`
finds the depths (`ParentsInReach`; otherwise the code rejects the block). After
`r` rounds the ends of all loans deeper than `MaxParentDepth - r` have settled
(`OrderInv`, `SettledStep`), so the rounds suffice, and where parent and child
end at the same boundary the depth in the sort key decides (`DepthChild`).
`OnlyEndsRefusedHolds` runs the planned block next to the block as lowered, for a
finite set of loans. `plan_block` moves an end past uses of other references
without asking the loan shadow what they do. The theorem says that this is safe
for everything but the ends: if the block as lowered is accepted, the first
instruction of the planned block that the shadow can refuse is an end (or the
drop of an object with a reference in it), and if it refuses none, the planned
block leaves exactly the same loans. The two runs are compared at equal progress
through the instructions that are no ends. `Sim` says that the planned state is
the lexical one without the references that ended early: the table without their
tokens (`Reduces`), the holders without their permissions. An early end
establishes it for one more reference (`SimEarly`), its place in the draft takes
the reference out again (`SimLate`), and every other instruction preserves it
(`SimStep`), because fewer authorities mean fewer live loans, fewer conflicts,
shorter alias sets and fewer active children (`ReducedNoConflict`,
`ReducedChain`), and because no instruction between the early end and its
place in the draft speaks of the reference (`OnlyEndsMoveUp`). It needs two more
invariants of lowering: `NameInv` (loans are numbered as they are created, an
instruction defines a name of its own, each end ends one name) and `FreshInv` (a
new name is younger than every name used before).

Induction over call depth, over sequences of worlds and over a finite domain is
done by hand, with the least counterexample (`WFMin` and
`NatLessThanWellFounded` of the library), because the library's induction rules
take an operator as a parameter.

**Only model-checked**:

* `NamedPlanAccepted` and `PlanAsGoodAsEager` of `LoanEndPlan`. Of the first,
  `OnlyEndsRefusedHolds` and `ChildrenEndFirstHolds` prove the greater part; what TLC
  checks beyond them is that no planned end is itself refused.
* `CheckedRunsSafely` of `CfgAnalysis`: it holds for the shapes of `cfg_shapes` and is
  false in general (`cfg_match`); the two theorems above are what is true of it.
* `Converges`, a bounded form of termination, which depends on the size of the
  word and the number of visits; termination itself (`Ends`, `Terminates`, and the
  fairness in `KeepsPromise` of `SummaryOrder`) is outside the prover.

## 5. Observations

Not findings, but facts that the models had to get right and a maintainer may
want to know.

* A loan of an empty slice has no bytes and does not keep its allocation alive:
  `free` succeeds beside it. `LentStorageAlive` is stated for loans of bytes.
* Copying over an initialized place that holds a shared reference (`Replace`)
  overwrites its payload without ending its authority; the frame then cannot
  finish (`LoanNotEnded`). Safe, and it fails closed.
* `import_parameters` and `activate_conditional_return` run no conflict check.
  `FramesSound` shows that none is needed for reference arguments.
* An owner passed by move is not checked against the caller's live loans at run
  time (`vir/interpreter.rs:4788`); that rests on the static transfer.
* For a result that is one of several parameters, a view narrower than the
  parameter's loan is refused in the caller after the callee returned it.

* After a join the holders on record for a loan are those of both paths. The test
  "more than one holder left" of `loan_end_authority` (`transfer/loan.rs:645`) can
  then prove an end that a run refuses because of a child loan. Such a loan
  stays on record to the return, where the function fails to verify;
  `VerifiedRunsAccepted` is therefore a statement about functions that are
  verified up to their return, not about each instruction.
* After a join that meets two loans under one name, a permission of that name may
  still be moved: `permission_move` asks for availability only, and
  `move_loan_authority` (`transfer/loan.rs:828-830`) renames no holder. The set of
  holders then no longer names the reference that holds the loan. The function
  still fails to verify at its return, because the name it was moved from stays in
  the set for good; `LiveLoansKnown` states exactly this.
* `plan_block` makes every end of a loan wait for every child of the loan. When a
  shared loan is reborrowed after one of its aliases has left its scope (`let x =
  &v; read(x); let c = &*x;`, where the temporary of the call ends before `c`
  exists), the alias cannot wait, and planning fails with `InvalidParentGraph`,
  although the block is acceptable as it is. The comment at `loan_end.rs:255-256`
  mentions malformed and unexpectedly deep graphs only. `NamedPlanAccepted` and
  `PlanAsGoodAsEager` name exactly this exception (`ReborrowedLater`).
* An end that does not name its loan counts as depth 0 in the sort of ends at one
  boundary. This does not misorder a reborrow through a permission, because such a
  use keeps its source's end where the scope ends (`Escapes`).

## 6. Findings

`PROJECT.json` quotes the lines; each finding is a run that TLC must find violated.

**`cfg_match`.** A join outside loops that was replayed on the cases of the
predecessors known so far keeps its `Proven` result when a later predecessor
delivers a value inside the hull of the earlier ones, because the merged entry
does not change and the join is not queued again. `lower_match` numbers the
join before the later arms, so this order occurs, and the audit that would
notice runs only for functions with a cycle. `docs/language-spec.md:602-604`
says that a condition that cannot be proved prevents a `Checked` result. The
same order of blocks in a function with a cycle is caught by the audit
(`cfg_shapes`, shape `LateThenLoop`; `AuditedRunsSafelyHolds` in general), and
without a replay the order does no harm (`UnreplayedRunsSafely`).
`PROJECT.json` states the condition under which the late edge brings nothing else
that is new.

**`summaries_parameters`.** The comment at `summary/recursive.rs:139-141` says that
seeds are no coverage and everything is checked again before publishing. The
coverage test compares intervals and resources but not the histories of returned
words (`value_origins`), which the analysis of a recursive call uses as facts. A
seed whose history says "the result is the parameter" is assumed to the end and
published, and the summary misses executions. `SummariesCoverHolds` shows that
this is the only way: with no history in any hypothesis, coverage follows.

**`static_loans_leak`.** The abstract holders of a loan are SSA names, and no
obligation asks an edge to pass every available authority. When the back edge of
a loop passes a new alias under the name of the old one and drops the old one, two
holders become one on record; the next end is taken for the last, every obligation
is proven, and the run is refused at its return. It takes VIR with such an edge;
whether lowering emits one is not examined.

**`loan_end_stored`.** `loan_end.rs:254-255` says that every authority of a child
ends before any of its parent. Only ends that name their loan hold a parent back:
a reborrow of a named reference that is moved into an object ends in the
object's drop, and the parent's end moves up to its last use, the reborrow itself.
The planned block is refused where the lexical one is accepted: a valid program is
rejected, no invalid one accepted. There is a second shape, too long for the run's
bounds and found while a proof of `PlanAccepted` was prepared: a copy of a shared
reference `x` is stored and taken out again as `y`, and `c` reborrows `*y`. The loan
of `c` is a child of the loan of `x`, but neither its end nor its
`LoanReborrowAuthority` says so, and the end of `x` may move up over uses of `c`.
`ChildUnnamed` describes both shapes; `NamedPlanAccepted` and `PlanAsGoodAsEager`,
which exclude them, hold. (Random blocks of up to 18 instructions, 7 locals and 7
loans, executed outside TLC, gave no counterexample to either.)

## 7. Not modelled

* Lexer, parser, HIR and instantiation: sequential text processing, name
  resolution and typing over large trees, without interleaving or history.
* Lowering beyond references: places, aggregates, drop flags, region constraints.
* The structural validator of VIR, the capability tables: lists of local rules,
  each of which a property could only repeat.
* The x86-64 backend, the command line and the reports: code generation, calls of
  external tools, formatting, I/O.
* Numeric relations, predicates and proof search: pure procedures over symbolic
  terms, better tested against enumeration.
* Loop-invariant candidates: they need relations between scalars, which the
  one-interval domain of `CfgAnalysis` does not have.
* References inside returned aggregates (`field_calls.rs`) and owners as arguments:
  `BorrowCalls` has no objects.
* The transfer functions other than those of loans, moves and accesses.

These modules cover a small share of the repository's lines. The rest is mostly
translation and tables; the share was not raised by mapping code that the models do
not translate.

## 8. Plan

1. Proof of `NamedPlanAccepted`: on top of `OnlyEndsRefusedHolds`, that a planned end
   is allowed. That needs which references of a loan have a named end, as an
   invariant of lowering together with the run of what was lowered.
2. Owner arguments and borrowed fields in `BorrowCalls` (`field_calls.rs`).
3. Loop-invariant candidates in `CfgAnalysis`, with a relation between two scalars.
