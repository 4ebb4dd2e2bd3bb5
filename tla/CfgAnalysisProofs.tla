------------------------- MODULE CfgAnalysisProofs --------------------------
(***************************************************************************)
(* What the closure audit buys, for every function, every size of the word *)
(* and every budget: a function with a cycle that is reported Checked runs *)
(* without failing a check.  The argument is that of abstract              *)
(* interpretation: the frozen entries cover the seed and are closed under  *)
(* one more evaluation, so they cover every state an execution reaches.    *)
(***************************************************************************)
EXTENDS CfgAnalysis, TLAPS, WellFoundedInduction, FiniteSetTheorems

-----------------------------------------------------------------------------
(* Bounds. *)

\* What the proofs need of the constants most often.
LEMMA WordLimit == MaxWord \in Nat
BY AnalysisAssumption DEF AnalysisAssumption

\* A non-empty set of naturals has a smallest element, and Smallest is it.
LEMMA SmallestIs ==
    ASSUME NEW S, S \subseteq Nat, S # {}
    PROVE Smallest(S) \in S /\ \A m \in S : Smallest(S) <= m
<1> DEFINE R == OpToRel(<, Nat)
<1>1. PICK n \in S : \A m \in S : ~(<<m, n>> \in R)
    BY NatLessThanWellFounded, WFMin, Zenon
<1>2. \A m \in S : ~(m < n)
    BY <1>1 DEF OpToRel
<1>3. \E k \in S : \A m \in S : k <= m
    BY <1>2, SMT
<1>4. QED BY <1>3 DEF Smallest

\* A non-empty set of words has a largest element, and Largest is it.
LEMMA LargestIs ==
    ASSUME NEW S, S \subseteq Word, S # {}
    PROVE Largest(S) \in S /\ \A m \in S : m <= Largest(S)
<1> DEFINE T == {MaxWord - m : m \in S}
<1> USE WordLimit
<1>0. \A m \in S : m \in Nat /\ m <= MaxWord /\ MaxWord - m \in Nat
    BY DEF Word
<1>1. T \subseteq Nat /\ T # {}
    BY <1>0
<1>2. Smallest(T) \in T /\ \A m \in T : Smallest(T) <= m
    BY <1>1, SmallestIs
<1>3. PICK n \in S : Smallest(T) = MaxWord - n
    BY <1>2
<1>4. \A m \in S : m <= n
  <2> TAKE m \in S
  <2>1. MaxWord - n <= MaxWord - m
      BY <1>2, <1>3
  <2>2. QED BY <2>1, <1>0
<1>5. QED BY <1>4 DEF Largest

-----------------------------------------------------------------------------
(* Joins and reductions lose no state. *)

\* Inclusion of cases is a preorder.
LEMMA IncludesSelf ==
    ASSUME NEW c \in Case
    PROVE Includes(c, c)
BY WordLimit DEF Includes, Case, Word

\* And a case included in an included case is included.
LEMMA IncludesTransitive ==
    ASSUME NEW c \in Case, NEW d \in Case, NEW e \in Case, Includes(c, d), Includes(d, e)
    PROVE Includes(c, e)
BY WordLimit DEF Includes, Case, Word

\* A case that includes another describes all of its states.
LEMMA IncludesGamma ==
    ASSUME NEW c \in Case, NEW d \in Case, Includes(c, d), NEW s \in Gamma(d)
    PROVE s \in Gamma(c)
BY WordLimit DEF Includes, Case, Word, Gamma, State

\* The join of cases is a case, and includes each of them (ResourceState::join).
LEMMA HullIncludes ==
    ASSUME NEW S, S \subseteq Case, S # {}
    PROVE Hull(S) \in Case /\ \A c \in S : Includes(Hull(S), c)
<1> DEFINE L == {c.lo : c \in S}  H == {c.hi : c \in S}
<1> USE WordLimit
<1>1. L \subseteq Word /\ L # {} /\ H \subseteq Word /\ H # {}
    BY DEF Case
<1>2. L \subseteq Nat
    BY <1>1 DEF Word
<1>3. Smallest(L) \in L /\ \A m \in L : Smallest(L) <= m
    BY <1>1, <1>2, SmallestIs
<1>4. Largest(H) \in H /\ \A m \in H : m <= Largest(H)
    BY <1>1, LargestIs
<1>5. Hull(S).lo = Smallest(L) /\ Hull(S).hi = Largest(H)
    BY DEF Hull
<1>6. Hull(S).own \in {"Own", "Gone", "Maybe"}
      /\ \A c \in S : Hull(S).own = "Maybe" \/ Hull(S).own = c.own
    BY DEF Hull
<1>7. \A c \in S : Smallest(L) <= c.lo /\ c.hi <= Largest(H) /\ c.lo <= c.hi
                   /\ c.lo \in Int /\ c.hi \in Int
    BY <1>3, <1>4 DEF Case, Word
<1>8. Smallest(L) \in Word /\ Largest(H) \in Word /\ Smallest(L) <= Largest(H)
  <2>1. Smallest(L) \in Word /\ Largest(H) \in Word
      BY <1>1, <1>3, <1>4
  <2>2. PICK c \in S : TRUE
      OBVIOUS
  <2>3. Smallest(L) <= c.lo /\ c.lo <= c.hi /\ c.hi <= Largest(H) /\ c.lo \in Int /\ c.hi \in Int
      BY <1>7
  <2>4. QED BY <2>1, <2>3 DEF Word
<1>9. Hull(S) = [own |-> Hull(S).own, lo |-> Smallest(L), hi |-> Largest(H)]
    BY DEF Hull
<1>10. Hull(S) \in Case
    BY <1>6, <1>8, <1>9 DEF Case
<1>11. QED BY <1>5, <1>6, <1>7, <1>10 DEF Includes

Bounded(C) == C \in Conditional /\ Cardinality(C.cases) <= MaxCases

Reductions == {"Selective", "PreserveGuards"}

\* A single case is within every case budget.
LEMMA SingleBounded ==
    ASSUME NEW c \in Case, NEW losses \in SUBSET Losses
    PROVE Bounded([cases |-> {c}, losses |-> losses])
<1>1. Cardinality({c}) = 1
    BY FS_Singleton
<1>2. 1 <= MaxCases
    BY AnalysisAssumption DEF AnalysisAssumption
<1>3. [cases |-> {c}, losses |-> losses] \in Conditional
    BY DEF Conditional
<1>4. QED BY <1>1, <1>2, <1>3 DEF Bounded

\* normalize keeps within the case budget and forgets no case it was given.
LEMMA NormalizeCovers ==
    ASSUME NEW S, S \subseteq Case, NEW losses \in SUBSET Losses, NEW reduction \in Reductions
    PROVE /\ Bounded(Normalize(S, losses, reduction))
          /\ \A d \in S : \E c \in Normalize(S, losses, reduction).cases : Includes(c, d)
<1> DEFINE kept == IF reduction = "Selective"
                   THEN {Hull({d \in S : d.own = c.own}) : c \in S} ELSE S
<1>1. \A c \in S : /\ Hull({d \in S : d.own = c.own}) \in Case
                   /\ Includes(Hull({d \in S : d.own = c.own}), c)
  <2> TAKE c \in S
  <2> DEFINE P == {d \in S : d.own = c.own}
  <2>1. P \subseteq Case /\ P # {} /\ c \in P
      OBVIOUS
  <2> HIDE DEF P
  <2>2. Hull(P) \in Case /\ Includes(Hull(P), c)
      BY <2>1, HullIncludes
  <2>3. QED BY <2>2 DEF P
<1>2. kept \subseteq Case /\ \A d \in S : \E c \in kept : Includes(c, d)
  <2>1. CASE reduction = "Selective"
      BY <1>1, <2>1
  <2>2. CASE reduction # "Selective"
      BY IncludesSelf, <2>2
  <2>3. QED BY <2>1, <2>2
<1> HIDE DEF kept
<1>3. CASE Cardinality(kept) <= MaxCases
  <2>1. Normalize(S, losses, reduction) = [cases |-> kept, losses |-> losses]
      BY <1>3 DEF Normalize, kept
  <2>2. [cases |-> kept, losses |-> losses] \in Conditional
      BY <1>2 DEF Conditional
  <2>3. QED BY <1>2, <1>3, <2>1, <2>2 DEF Bounded
<1>4. CASE ~(Cardinality(kept) <= MaxCases)
  <2>1. Normalize(S, losses, reduction) =
            [cases |-> {Hull(kept)}, losses |-> losses \cup {"CaseBudget"}]
      BY <1>4 DEF Normalize, kept
  <2>2. kept # {}
    <3>1. Cardinality({}) = 0
        BY FS_EmptySet
    <3>2. 0 <= MaxCases
        BY AnalysisAssumption DEF AnalysisAssumption
    <3>3. QED BY <1>4, <3>1, <3>2
  <2>3. Hull(kept) \in Case /\ \A c \in kept : Includes(Hull(kept), c)
      BY <1>2, <2>2, HullIncludes
  <2>4. losses \cup {"CaseBudget"} \in SUBSET Losses
      BY DEF Losses
  <2>5. Bounded([cases |-> {Hull(kept)}, losses |-> losses \cup {"CaseBudget"}])
      BY <2>3, <2>4, SingleBounded
  <2>6. \A d \in S : Includes(Hull(kept), d)
    <3> TAKE d \in S
    <3>1. PICK c \in kept : Includes(c, d)
        BY <1>2
    <3>2. c \in Case /\ d \in Case /\ Includes(Hull(kept), c)
        BY <1>2, <2>3
    <3>3. QED BY <2>3, <3>1, <3>2, IncludesTransitive
  <2>7. QED BY <2>1, <2>5, <2>6
<1>5. QED BY <1>3, <1>4

\* Widening yields a case that includes both of its arguments (U64Interval::widen).
LEMMA WidenIncludes ==
    ASSUME NEW c \in Case, NEW d \in Case
    PROVE Widen(c, d) \in Case /\ Includes(Widen(c, d), c) /\ Includes(Widen(c, d), d)
<1> USE WordLimit
<1>1. Hull({c, d}) \in Case /\ Includes(Hull({c, d}), c) /\ Includes(Hull({c, d}), d)
    BY HullIncludes, {c, d} \subseteq Case, {c, d} # {}, c \in {c, d}, d \in {c, d}
<1>2. /\ Hull({c, d}).own \in {"Own", "Gone", "Maybe"}
      /\ Hull({c, d}).own = "Maybe" \/ Hull({c, d}).own = c.own
      /\ Hull({c, d}).own = "Maybe" \/ Hull({c, d}).own = d.own
    BY <1>1 DEF Includes, Case
<1>3. /\ c.lo \in 0 .. MaxWord /\ c.hi \in 0 .. MaxWord /\ c.lo <= c.hi
      /\ d.lo \in 0 .. MaxWord /\ d.hi \in 0 .. MaxWord /\ d.lo <= d.hi
    BY DEF Case, Word
<1>4. Widen(c, d) \in Case
    BY <1>2, <1>3 DEF Widen, Case, Word
<1>5. QED BY <1>2, <1>3, <1>4 DEF Widen, Includes

\* Clipping to a partition cell keeps a case, and loses nothing of the new one
\* (widen_loop_predicates: "cell contains next interval").
LEMMA WidenInCellType ==
    ASSUME NEW c \in Case, NEW d \in Case, NEW C, C \subseteq Word
    PROVE WidenInCell(c, d, C) \in Case /\ Includes(WidenInCell(c, d, C), d)
<1> DEFINE w == Widen(c, d)
           B == {w.lo} \cup {k \in C : k <= d.lo}
           A == {w.hi} \cup {k - 1 : k \in {j \in C : j > d.hi}}
<1> USE WordLimit
<1>1. w \in Case /\ Includes(w, d)
    BY WidenIncludes
<1>2. /\ w.lo \in 0 .. MaxWord /\ w.hi \in 0 .. MaxWord /\ w.lo <= d.lo /\ d.hi <= w.hi
      /\ d.lo \in 0 .. MaxWord /\ d.hi \in 0 .. MaxWord /\ d.lo <= d.hi
    BY <1>1 DEF Includes, Case, Word
<1> HIDE DEF w
<1>3. B \subseteq Word /\ B # {} /\ \A k \in B : k <= d.lo
    BY <1>2 DEF Word
<1>4. A \subseteq Word /\ A # {} /\ \A k \in A : d.hi <= k
    BY <1>2 DEF Word
<1>5. A \subseteq Nat
    BY <1>4 DEF Word
<1> HIDE DEF A, B
<1>6. Largest(B) \in Word /\ Largest(B) <= d.lo
    BY <1>3, LargestIs
<1>7. Smallest(A) \in Word /\ d.hi <= Smallest(A)
    BY <1>4, <1>5, SmallestIs
<1>8. Largest(B) <= Smallest(A)
    BY <1>2, <1>6, <1>7 DEF Word
<1>9. [w EXCEPT !.lo = Largest(B), !.hi = Smallest(A)] \in Case
    BY <1>1, <1>6, <1>7, <1>8 DEF Case
<1>10. WidenInCell(c, d, C) \in {w, [w EXCEPT !.lo = Largest(B), !.hi = Smallest(A)]}
    BY DEF WidenInCell, w, A, B
<1>11. Includes([w EXCEPT !.lo = Largest(B), !.hi = Smallest(A)], d)
  <2>1. w.own = "Maybe" \/ w.own = d.own
      BY <1>1 DEF Includes
  <2>2. w = [own |-> w.own, lo |-> w.lo, hi |-> w.hi]
      BY <1>1 DEF Case
  <2>3. QED BY <1>6, <1>7, <2>1, <2>2 DEF Includes
<1>12. QED BY <1>1, <1>9, <1>10, <1>11

\* merge_loop keeps within the case budget.
LEMMA MergeLoopBounded ==
    ASSUME NEW current \in Conditional, current.cases # {}, NEW incoming \in Conditional,
           NEW widening \in BOOLEAN, NEW C, C \subseteq Word
    PROVE Bounded(MergeLoop(current, incoming, widening, C))
<1> DEFINE all == current.cases \cup incoming.cases
           losses == current.losses \cup incoming.losses
           joined == {Hull({d \in all : SamePartition(c, d, C)}) : c \in all}
           Previous(c) == {d \in current.cases : SamePartition(c, d, C)}
           Next1(c) == IF widening /\ Previous(c) # {}
                       THEN WidenInCell(Hull(Previous(c)), c, C) ELSE c
           spill == losses \cup {"CaseBudget", "LoopPartitionBudget"}
                    \cup (IF widening THEN {"LoopWidening"} ELSE {})
           one == IF widening THEN Widen(Hull(current.cases), Hull(joined)) ELSE Hull(joined)
           many == {Next1(c) : c \in joined}
           after == losses \cup (IF \E c \in joined : Next1(c) # c THEN {"LoopWidening"} ELSE {})
<1>1. all \subseteq Case /\ current.cases \subseteq Case /\ losses \in SUBSET Losses
    BY DEF Conditional
<1>2. joined \subseteq Case /\ joined # {}
  <2>1. \A c \in all : Hull({d \in all : SamePartition(c, d, C)}) \in Case
    <3> TAKE c \in all
    <3> DEFINE P == {d \in all : SamePartition(c, d, C)}
    <3>1. P \subseteq Case /\ P # {}
        BY <1>1 DEF SamePartition
    <3> HIDE DEF P
    <3>2. Hull(P) \in Case
        BY <3>1, HullIncludes
    <3>3. QED BY <3>2 DEF P
  <2>2. QED BY <2>1
<1>3. \A c \in Case : Next1(c) \in Case
  <2> TAKE c \in Case
  <2>1. CASE widening /\ Previous(c) # {}
    <3>1. Hull(Previous(c)) \in Case
        BY <1>1, <2>1, HullIncludes, Previous(c) \subseteq Case
    <3>2. QED BY <2>1, <3>1, WidenInCellType
  <2>2. QED BY <2>1
<1> HIDE DEF joined
<1>4. Hull(current.cases) \in Case /\ Hull(joined) \in Case
    BY <1>1, <1>2, HullIncludes
<1>5. Widen(Hull(current.cases), Hull(joined)) \in Case
    BY <1>4, WidenIncludes
<1>6. Bounded([cases |-> {one}, losses |-> spill])
  <2>1. one \in Case
      BY <1>4, <1>5
  <2>2. spill \in SUBSET Losses
      BY <1>1 DEF Losses
  <2> HIDE DEF one, spill
  <2>3. QED BY <2>1, <2>2, SingleBounded
<1>7. Bounded(Normalize(many, after, "PreserveGuards"))
  <2>1. many \subseteq Case
      BY <1>2, <1>3
  <2>2. after \in SUBSET Losses
      BY <1>1 DEF Losses
  <2> HIDE DEF many, after
  <2>3. "PreserveGuards" \in Reductions
      BY DEF Reductions
  <2>4. QED BY <2>1, <2>2, <2>3, NormalizeCovers
<1>8. MergeLoop(current, incoming, widening, C) \in
          {[cases |-> {one}, losses |-> spill], Normalize(many, after, "PreserveGuards")}
    BY DEF MergeLoop, joined
<1>9. QED BY <1>6, <1>7, <1>8

-----------------------------------------------------------------------------
(* Blocks and edges. *)

\* The parts of a program.
LEMMA ProgramParts ==
    ASSUME NEW p \in Program, NEW b \in Blocks
    PROVE /\ p.seed \in Case
          /\ p.check[b] \subseteq State
          /\ p.effect[b].drop \in BOOLEAN /\ p.effect[b].assign \in BOOLEAN
          /\ p.effect[b].by \in 0 .. MaxWord
          /\ p.cond[b].known \in BOOLEAN /\ p.cond[b].bound \in 0 .. MaxWord
          /\ \A i \in Ordinals(p, b) : p.succ[b][i] \in Blocks
          /\ Ordinals(p, b) \subseteq Nat
BY DEF Program, Effect, Condition, Ordinals, Word

\* A guard is an interval of integers that ends inside the word.
LEMMA GuardType ==
    ASSUME NEW p \in Program, NEW b \in Blocks, NEW i
    PROVE Guard(p, b, i).lo \in Nat /\ Guard(p, b, i).hi \in Nat /\ Guard(p, b, i).hi <= MaxWord
BY WordLimit, ProgramParts DEF Guard

\* Assignment and addition are monotone.
LEMMA AssignedMonotone ==
    ASSUME NEW p \in Program, NEW b \in Blocks, NEW x \in Nat, NEW y \in Nat, x <= y
    PROVE /\ Assigned(p.effect[b], x) \in Nat /\ Assigned(p.effect[b], y) \in Nat
          /\ Assigned(p.effect[b], x) <= Assigned(p.effect[b], y)
BY WordLimit, ProgramParts DEF Assigned

\* An edge delivers cases.
LEMMA EdgeCasesType ==
    ASSUME NEW p \in Program, NEW b \in Blocks, NEW i, NEW c \in Case
    PROVE EdgeCases(p, b, i, c) \subseteq Case
<1> DEFINE e == p.effect[b] g == Guard(p, b, i)
           lo == Assigned(e, c.lo) hi == Assigned(e, c.hi)
           d == [own |-> IF e.drop THEN "Gone" ELSE c.own,
                 lo |-> IF lo < g.lo THEN g.lo ELSE lo,
                 hi |-> IF hi > g.hi THEN g.hi ELSE hi]
<1> USE WordLimit
<1>1. g.lo \in Nat /\ g.hi \in Nat /\ g.hi <= MaxWord
    BY GuardType
<1>2. c.lo \in Nat /\ c.hi \in Nat /\ c.lo <= c.hi /\ c.own \in {"Own", "Gone", "Maybe"}
    BY DEF Case, Word
<1>3. lo \in Nat /\ hi \in Nat
    BY <1>2, AssignedMonotone
<1>4. EdgeCases(p, b, i, c) = {x \in {d} : x.lo <= x.hi}
    BY DEF EdgeCases
<1> HIDE DEF e, g, lo, hi
<1>5. d.lo <= d.hi => d \in Case
    BY <1>1, <1>2, <1>3 DEF Case, Word
<1>6. QED BY <1>4, <1>5

\* A step of an execution along an edge is described by the case the edge
\* delivers (transfer_edge and refine_branch are sound).
LEMMA EdgeSound ==
    ASSUME NEW p \in Program, NEW b \in Blocks, NEW i, NEW c \in Case, NEW s \in Gamma(c),
           NEW t \in EdgeStates(p, b, i, s)
    PROVE \E d \in EdgeCases(p, b, i, c) : t \in Gamma(d)
<1> DEFINE e == p.effect[b] g == Guard(p, b, i)
           lo == Assigned(e, c.lo) hi == Assigned(e, c.hi) x == Assigned(e, s.x)
           d == [own |-> IF e.drop THEN "Gone" ELSE c.own,
                 lo |-> IF lo < g.lo THEN g.lo ELSE lo,
                 hi |-> IF hi > g.hi THEN g.hi ELSE hi]
<1> USE WordLimit
<1>1. g.lo \in Nat /\ g.hi \in Nat /\ g.hi <= MaxWord
    BY GuardType
<1>2. /\ c.lo \in Nat /\ c.hi \in Nat /\ s.x \in Nat /\ c.lo <= s.x /\ s.x <= c.hi
      /\ s.own \in BOOLEAN /\ (c.own = "Own" => s.own) /\ (c.own = "Gone" => ~s.own)
    BY DEF Case, Word, Gamma, State
<1>3. lo \in Nat /\ hi \in Nat /\ x \in Nat /\ lo <= x /\ x <= hi
    BY <1>2, AssignedMonotone
<1>4. t = [own |-> s.own /\ ~e.drop, x |-> x] /\ g.lo <= x /\ x <= g.hi
    BY DEF EdgeStates
<1>5. e.drop \in BOOLEAN
    BY ProgramParts
<1>6. EdgeCases(p, b, i, c) = {y \in {d} : y.lo <= y.hi}
    BY DEF EdgeCases
<1> HIDE DEF e, g, lo, hi, x
<1>7. d.lo <= x /\ x <= d.hi /\ d.lo <= d.hi
    BY <1>1, <1>3, <1>4
<1>8. x \in Word
    BY <1>1, <1>3, <1>4 DEF Word
<1>9. (d.own = "Own" => t.own) /\ (d.own = "Gone" => ~t.own) /\ t.own \in BOOLEAN
    BY <1>2, <1>4, <1>5
<1>10. t \in State /\ t.x = x
    BY <1>4, <1>8, <1>9 DEF State
<1>11. t \in Gamma(d)
    BY <1>7, <1>9, <1>10 DEF Gamma
<1>12. QED BY <1>6, <1>7, <1>11

\* What a block sends along an edge is within the case budget and describes
\* every step of an execution along it (evaluate_conditional_block).
LEMMA SuccessorSound ==
    ASSUME NEW p \in Program, NEW b \in Blocks, NEW i, NEW C \in Conditional,
           NEW reduction \in Reductions
    PROVE /\ Bounded(Successor(p, b, C, reduction, i))
          /\ \A c \in C.cases : \A s \in Gamma(c) : \A t \in EdgeStates(p, b, i, s) :
                \E d \in Successor(p, b, C, reduction, i).cases : t \in Gamma(d)
<1> DEFINE out == UNION {EdgeCases(p, b, i, c) : c \in C.cases}
<1>1. C.cases \subseteq Case /\ C.losses \in SUBSET Losses
    BY DEF Conditional
<1>2. out \subseteq Case
    BY <1>1, EdgeCasesType
<1>3. \A c \in C.cases : \A s \in Gamma(c) : \A t \in EdgeStates(p, b, i, s) :
          \E d \in out : t \in Gamma(d)
    BY <1>1, EdgeSound
<1>4. Successor(p, b, C, reduction, i) = IF out = {} THEN Unreachable
                                         ELSE Normalize(out, C.losses, reduction)
    BY DEF Successor
<1> HIDE DEF out
<1>5. CASE out = {}
  <2>1. Cardinality({}) = 0 /\ 0 <= MaxCases
      BY FS_EmptySet, AnalysisAssumption DEF AnalysisAssumption
  <2>2. Bounded(Unreachable)
      BY <2>1 DEF Bounded, Unreachable, Conditional
  <2>3. QED BY <1>3, <1>4, <1>5, <2>2
<1>6. CASE out # {}
  <2>1. Bounded(Normalize(out, C.losses, reduction))
        /\ \A d \in out : \E c \in Normalize(out, C.losses, reduction).cases : Includes(c, d)
      BY <1>1, <1>2, NormalizeCovers
  <2>2. Normalize(out, C.losses, reduction).cases \subseteq Case
      BY <2>1 DEF Bounded, Conditional
  <2>3. QED BY <1>2, <1>3, <1>4, <1>6, <2>1, <2>2, IncludesGamma
<1>7. QED BY <1>5, <1>6

-----------------------------------------------------------------------------
(* The type invariant. *)

\* There are finitely many cases, so a number of them is a number.
LEMMA CasesFinite ==
    ASSUME NEW S, S \subseteq Case
    PROVE Cardinality(S) \in Nat
<1> DEFINE O == {"Own", "Gone", "Maybe"}
           T == O \X (Word \X Word)
           f == [c \in S |-> <<c.own, <<c.lo, c.hi>>>>]
<1>1. IsFiniteSet(Word)
    BY WordLimit, FS_Interval DEF Word
<1>2. IsFiniteSet(O)
  <2>1. IsFiniteSet({"Own"})
      BY FS_Singleton
  <2>2. IsFiniteSet({"Own"} \cup {"Gone"})
      BY <2>1, FS_AddElement
  <2>3. IsFiniteSet(({"Own"} \cup {"Gone"}) \cup {"Maybe"})
      BY <2>2, FS_AddElement
  <2>4. O = ({"Own"} \cup {"Gone"}) \cup {"Maybe"}
      OBVIOUS
  <2> HIDE DEF O
  <2>5. QED BY <2>3, <2>4
<1>3. IsFiniteSet(T)
  <2> HIDE DEF O
  <2>1. QED BY <1>1, <1>2, FS_Product
<1>4. \A c \in S : /\ c = [own |-> c.own, lo |-> c.lo, hi |-> c.hi]
                   /\ c.own \in O /\ c.lo \in Word /\ c.hi \in Word
    BY DEF Case
<1> HIDE DEF O
<1>5. f \in [S -> T]
    BY <1>4
<1>6. \A c, d \in S : f[c] = f[d] => c = d
  <2> TAKE c, d \in S
  <2> HAVE f[c] = f[d]
  <2>1. c.own = d.own /\ c.lo = d.lo /\ c.hi = d.hi
      OBVIOUS
  <2>2. QED BY <1>4, <2>1
<1> HIDE DEF f, T
<1>7. f \in Injection(S, T)
    BY <1>5, <1>6 DEF Injection, IsInjective
<1>8. IsFiniteSet(S)
    BY <1>3, <1>7, FS_Injection
<1>9. QED BY <1>8, FS_CardinalityType

\* The combination of a block's inputs is within the case budget.
LEMMA CombinedBounded ==
    ASSUME prog \in Program, NEW E \in [Edge -> Conditional], NEW b,
           NEW reduction \in Reductions
    PROVE Bounded(Combined(E, b, reduction))
<1> DEFINE S == (IF b = Entry THEN {prog.seed} ELSE {}) \cup UNION {E[e].cases : e \in Inputs(E, b)}
           losses == UNION {E[e].losses : e \in Inputs(E, b)}
<1>1. \A e \in Inputs(E, b) : E[e].cases \subseteq Case /\ E[e].losses \subseteq Losses
    BY DEF Inputs, Conditional
<1>2. prog.seed \in Case
    BY DEF Program
<1>3. S \subseteq Case /\ losses \in SUBSET Losses
    BY <1>1, <1>2
<1>4. Combined(E, b, reduction) = Normalize(S, losses, reduction)
    BY DEF Combined
<1> HIDE DEF S, losses
<1>5. QED BY <1>3, <1>4, NormalizeCovers

\* merge_successor keeps an entry within the case budget.
LEMMA MergedBounded ==
    ASSUME NEW t, Bounded(entries[t]), NEW incoming, Bounded(incoming), cuts \subseteq Word
    PROVE Bounded(Merged(t, incoming))
<1> DEFINE joined == MergeLoop(entries[t], incoming, FALSE, cuts)
           widened == MergeLoop(entries[t], joined, TRUE, cuts)
<1>1. CASE entries[t].cases = {}
    BY <1>1 DEF Merged
<1>2. CASE entries[t].cases # {}
  <2>1. entries[t] \in Conditional /\ incoming \in Conditional
      BY DEF Bounded
  <2>2. Bounded(joined)
      BY <1>2, <2>1, MergeLoopBounded
  <2> HIDE DEF joined
  <2>3. joined \in Conditional
      BY <2>2 DEF Bounded
  <2>4. Bounded(widened)
      BY <1>2, <2>1, <2>3, MergeLoopBounded
  <2> HIDE DEF widened
  <2>5. Merged(t, incoming) \in {entries[t], incoming, joined, widened}
      BY DEF Merged, joined, widened
  <2>6. QED BY <2>2, <2>4, <2>5
<1>3. QED BY <1>1, <1>2

\* The evaluation of a block yields a result within the budgets.
LEMMA EvaluatedType ==
    ASSUME TypeOK, NEW b \in Blocks
    PROVE /\ Evaluated(b) \in Result
          /\ Bounded(Evaluated(b).entry)
          /\ Replayed(b) => spent + Cardinality(Evaluated(b).entry.cases) <= MaxRefinementVisits
<1>1. prog \in Program
    BY AnalysisAssumption DEF AnalysisAssumption, TypeOK
<1>2. Bounded(entries[b])
    BY DEF TypeOK, Bounded
<1>3. Bounded(Combined(edges, b, "PreserveGuards"))
    BY <1>1, CombinedBounded DEF TypeOK, Reductions
<1>4. \A C : Status(prog, b, C) \in {"Proven", "Unknown", "Refuted"}
    BY DEF Status
<1>5. Preserves(b) \in BOOLEAN
    BY DEF Preserves
<1>6. QED BY <1>2, <1>3, <1>4, <1>5 DEF Evaluated, Result, Bounded, Replayed

\* A block visit keeps the types and the budgets.
LEMMA VisitTypes ==
    ASSUME TypeOK, NEW b \in Blocks, Visit(b)
    PROVE TypeOK'
<1> DEFINE result == Evaluated(b)
           Sent(i) == IF i \in Ordinals(prog, b)
                      THEN Successor(prog, b, result.entry, Reduction(result.preserved), i)
                      ELSE Unreachable
<1>1. prog \in Program
    BY AnalysisAssumption DEF AnalysisAssumption, TypeOK
<1>2. /\ result \in Result /\ Bounded(result.entry)
      /\ Replayed(b) => spent + Cardinality(result.entry.cases) <= MaxRefinementVisits
    BY EvaluatedType
<1>3. \A q : Reduction(q) \in Reductions
    BY DEF Reduction, Reductions
<1>4. results' = [results EXCEPT ![b] = result]
      /\ edges' = [edges EXCEPT ![<<b, 1>>] = Sent(1), ![<<b, 2>>] = Sent(2)]
    BY DEF Visit
<1>5. \A i : Sent(i) \in Conditional
  <2>1. Unreachable \in Conditional
      BY DEF Unreachable, Conditional
  <2>2. result.entry \in Conditional
      BY <1>2 DEF Bounded
  <2>3. \A i : Bounded(Successor(prog, b, result.entry, Reduction(result.preserved), i))
      BY <1>1, <1>3, <2>2, SuccessorSound
  <2>4. QED BY <2>1, <2>3 DEF Bounded
<1> HIDE DEF result, Sent
<1>6. edges' \in [Edge -> Conditional]
    BY <1>4, <1>5 DEF TypeOK
<1>7. results' \in [Blocks -> Result]
      /\ \A t \in Blocks : Cardinality(results'[t].entry.cases) <= MaxCases
    BY <1>2, <1>4 DEF TypeOK, Bounded
<1>8. prog' = prog /\ loops' = loops /\ cuts' = cuts /\ phase' = phase /\ pc' = pc /\ state' = state
    BY DEF Visit, execution
<1>9. entries' \in [Blocks -> Conditional]
      /\ \A t \in Blocks : Cardinality(entries'[t].cases) <= MaxCases
  <2>1. \A t \in Blocks : Bounded(entries[t])
      BY DEF TypeOK, Bounded
  <2>2. \A t \in Blocks : Bounded(Combined(edges', t, Reduction(Preserves(t))))
      BY <1>1, <1>3, <1>6, CombinedBounded
  <2>3. \A t \in Blocks : Bounded(Merged(t, Combined(edges', t, Reduction(Preserves(t)))))
      BY <2>1, <2>2, MergedBounded DEF TypeOK
  <2>4. PICK affected : entries' = [t \in Blocks |->
            IF t \in affected THEN Merged(t, Combined(edges', t, Reduction(Preserves(t))))
            ELSE entries[t]]
      BY DEF Visit
  <2>5. \A t \in Blocks : Bounded(entries'[t])
      BY <2>1, <2>3, <2>4
  <2>6. QED BY <2>4, <2>5 DEF Bounded
<1>10. updates' \in [Blocks -> Nat]
  <2>1. PICK S : updates' = [t \in Blocks |-> IF t \in S /\ entries[t].cases # {}
                                             THEN updates[t] + 1 ELSE updates[t]]
      BY DEF Visit
  <2>2. QED BY <2>1 DEF TypeOK
<1>11. pending' \subseteq Blocks
  <2>1. \A i \in Ordinals(prog, b) : prog.succ[b][i] \in Blocks
      BY <1>1, ProgramParts
  <2>2. PICK I, C : /\ C \subseteq {prog.succ[b][i] : i \in {j \in Ordinals(prog, b) : j \in I}}
                    /\ pending' = (pending \ {b}) \cup C
    <3> DEFINE I == {j \in Ordinals(prog, b) :
                        edges[<<b, j>>] # Unreachable \/ edges'[<<b, j>>] # Unreachable}
               affected == {prog.succ[b][i] : i \in I}
               changed == {t \in affected : Requeued(t, entries'[t])}
    <3>1. pending' = (pending \ {b}) \cup changed
        BY DEF Visit
    <3>2. changed \subseteq {prog.succ[b][i] : i \in {j \in Ordinals(prog, b) : j \in I}}
        OBVIOUS
    <3> HIDE DEF changed, I
    <3>3. QED BY <3>1, <3>2
  <2>3. QED BY <2>1, <2>2 DEF TypeOK
<1>12. passes' \in 0 .. MaxPasses /\ spent' \in 0 .. MaxRefinementVisits
  <2>1. CASE Replayed(b)
    <3>1. passes' = passes + 1 /\ spent' = spent + Cardinality(results'[b].entry.cases)
        BY <2>1 DEF Visit
    <3>2. results'[b] = result
        BY <1>4 DEF TypeOK
    <3>3. Cardinality(result.entry.cases) \in Nat
        BY <1>2, CasesFinite DEF Bounded, Conditional
    <3>4. passes < MaxPasses
        BY <2>1 DEF Replayed
    <3>5. QED BY <1>2, <2>1, <3>1, <3>2, <3>3, <3>4, AnalysisAssumption DEF AnalysisAssumption, TypeOK
  <2>2. CASE ~Replayed(b)
      BY <2>2 DEF Visit, TypeOK
  <2>3. QED BY <2>1, <2>2
<1>13. prog' = prog /\ visits' \in 0 .. prog.visits
  <2>1. prog.visits \in Nat
      BY DEF TypeOK, Program
  <2>2. visits \in 0 .. prog.visits
      BY DEF TypeOK
  <2>3. visits < prog.visits /\ visits' = visits + 1 /\ prog' = prog
      BY DEF Visit
  <2>4. QED BY <2>1, <2>2, <2>3
<1>14. QED BY <1>6, <1>7, <1>8, <1>9, <1>10, <1>11, <1>12, <1>13 DEF TypeOK

\* An execution stays inside the function and its states are states.
LEMMA RunTypes ==
    ASSUME TypeOK, Start \/ Step
    PROVE TypeOK'
<1>1. prog \in Program
    BY AnalysisAssumption DEF AnalysisAssumption, TypeOK
<1>2. UNCHANGED analysis
    BY DEF Start, Step
<1>3. pc' \in Blocks \cup {NoBlock} /\ state' \in State
  <2>1. CASE Start
      BY <2>1, AnalysisAssumption DEF AnalysisAssumption, Start, Gamma
  <2>2. CASE Step
    <3>1. pc \in Blocks
        BY <2>2 DEF Step, TypeOK
    <3>2. PICK i \in Ordinals(prog, pc) :
              pc' = prog.succ[pc][i] /\ state' \in EdgeStates(prog, pc, i, state)
        BY <2>2 DEF Step
    <3>3. state.x \in Nat /\ state.own \in BOOLEAN /\ prog.effect[pc].drop \in BOOLEAN
        BY <1>1, <3>1, ProgramParts, WordLimit DEF TypeOK, State, Word
    <3>4. Assigned(prog.effect[pc], state.x) \in Nat
        BY <1>1, <3>1, <3>3, AssignedMonotone
    <3>5. Guard(prog, pc, i).lo \in Nat /\ Guard(prog, pc, i).hi \in Nat
          /\ Guard(prog, pc, i).hi <= MaxWord
        BY <1>1, <3>1, GuardType
    <3>6. state' = [own |-> state.own /\ ~prog.effect[pc].drop,
                    x |-> Assigned(prog.effect[pc], state.x)]
          /\ Assigned(prog.effect[pc], state.x) <= Guard(prog, pc, i).hi
        BY <3>2 DEF EdgeStates
    <3>7. Assigned(prog.effect[pc], state.x) \in Word
        BY <3>4, <3>5, <3>6, WordLimit DEF Word
    <3>8. state' \in State
        BY <3>3, <3>6, <3>7 DEF State
    <3>9. pc' \in Blocks
        BY <1>1, <3>1, <3>2, ProgramParts
    <3>10. QED BY <3>8, <3>9
  <2>3. QED BY <2>1, <2>2
<1>4. QED BY <1>2, <1>3 DEF analysis, TypeOK

\* The analysis starts within its budgets.
LEMMA InitTypes == Init => TypeOK
<1> SUFFICES ASSUME Init PROVE TypeOK
    OBVIOUS
<1>1. prog \in Program
    BY AnalysisAssumption DEF AnalysisAssumption, Init
<1>2. loops \subseteq Blocks /\ cuts \subseteq Word
  <2>1. LoopBlocks(prog) \subseteq Blocks
      BY DEF LoopBlocks
  <2>2. Cuts(prog) \subseteq Word
      BY DEF Cuts
  <2>3. QED BY <2>1, <2>2 DEF Init
<1>3. Cardinality({}) = 0 /\ MaxCases \in Nat
    BY FS_EmptySet, AnalysisAssumption DEF AnalysisAssumption
<1>4. Bounded(Unreachable) /\ Bounded([cases |-> {prog.seed}, losses |-> {}])
  <2>1. Bounded(Unreachable)
      BY <1>3 DEF Bounded, Unreachable, Conditional
  <2>2. prog.seed \in Case /\ {} \in SUBSET Losses
      BY <1>1 DEF Program
  <2>3. QED BY <2>1, <2>2, SingleBounded
<1>5. entries \in [Blocks -> Conditional] /\ \A b \in Blocks : Cardinality(entries[b].cases) <= MaxCases
    BY <1>4 DEF Init, Bounded
<1>6. edges \in [Edge -> Conditional]
    BY <1>4 DEF Init, Bounded
<1>7. results \in [Blocks -> Result] /\ \A b \in Blocks : Cardinality(results[b].entry.cases) <= MaxCases
    BY <1>4 DEF Init, Bounded, NoResult, Result
<1>8. passes \in 0 .. MaxPasses /\ spent \in 0 .. MaxRefinementVisits /\ visits \in 0 .. prog.visits
  <2>1. prog.visits \in Nat
      BY <1>1 DEF Program
  <2>2. QED BY <2>1, AnalysisAssumption DEF AnalysisAssumption, Init
<1>9. pc \in Blocks \cup {NoBlock} /\ state \in State
    BY WordLimit DEF Init, State, Word
<1>10. updates \in [Blocks -> Nat] /\ pending \subseteq Blocks /\ phase = "Analyzing"
    BY AnalysisAssumption DEF AnalysisAssumption, Init
<1>11. QED BY <1>1, <1>2, <1>5, <1>6, <1>7, <1>8, <1>9, <1>10 DEF TypeOK

\* Every step keeps the types.
LEMMA NextTypes == TypeOK /\ [Next]_vars => TypeOK'
<1> SUFFICES ASSUME TypeOK, [Next]_vars PROVE TypeOK'
    OBVIOUS
<1>1. CASE \E b \in Blocks : Visit(b)
    BY <1>1, VisitTypes
<1>2. CASE GiveUp
    BY <1>2 DEF GiveUp, TypeOK, execution
<1>3. CASE Finish
    BY <1>3 DEF Finish, TypeOK, execution
<1>4. CASE Start \/ Step
    BY <1>4, RunTypes
<1>5. CASE UNCHANGED vars
    BY <1>5 DEF vars, analysis, execution, TypeOK
<1>6. QED BY <1>1, <1>2, <1>3, <1>4, <1>5 DEF Next

\* No block ever holds more cases than max_guarded_cases_per_block, and the
\* refinement and visit budgets are never exceeded, whatever is analysed.
THEOREM BudgetsHold == Spec => []TypeOK
BY InitTypes, NextTypes, PTL DEF Spec

-----------------------------------------------------------------------------
(* The iteration ascends. *)

\* merge_loop forgets no case of the entry it updates nor of what comes in,
\* whether it joins, widens inside the partitions or gives the partitions up.
LEMMA MergeLoopCovers ==
    ASSUME NEW current \in Conditional, current.cases # {}, NEW incoming \in Conditional,
           NEW widening \in BOOLEAN, NEW C, C \subseteq Word
    PROVE /\ Covered(MergeLoop(current, incoming, widening, C), current)
          /\ Covered(MergeLoop(current, incoming, widening, C), incoming)
<1> DEFINE all == current.cases \cup incoming.cases
           losses == current.losses \cup incoming.losses
           joined == {Hull({d \in all : SamePartition(c, d, C)}) : c \in all}
           Previous(c) == {d \in current.cases : SamePartition(c, d, C)}
           Next1(c) == IF widening /\ Previous(c) # {}
                       THEN WidenInCell(Hull(Previous(c)), c, C) ELSE c
           spill == losses \cup {"CaseBudget", "LoopPartitionBudget"}
                    \cup (IF widening THEN {"LoopWidening"} ELSE {})
           one == IF widening THEN Widen(Hull(current.cases), Hull(joined)) ELSE Hull(joined)
           many == {Next1(c) : c \in joined}
           after == losses \cup (IF \E c \in joined : Next1(c) # c THEN {"LoopWidening"} ELSE {})
<1>1. all \subseteq Case /\ current.cases \subseteq Case /\ losses \in SUBSET Losses
    BY DEF Conditional
<1>2. joined \subseteq Case /\ \A d \in all : \E c \in joined : Includes(c, d)
  <2>1. \A c \in all : /\ Hull({d \in all : SamePartition(c, d, C)}) \in Case
                       /\ Includes(Hull({d \in all : SamePartition(c, d, C)}), c)
    <3> TAKE c \in all
    <3> DEFINE P == {d \in all : SamePartition(c, d, C)}
    <3>1. P \subseteq Case /\ c \in P
        BY <1>1 DEF SamePartition
    <3> HIDE DEF P
    <3>2. Hull(P) \in Case /\ Includes(Hull(P), c)
        BY <3>1, HullIncludes
    <3>3. QED BY <3>2 DEF P
  <2>2. QED BY <2>1
<1>3. \A c \in Case : Next1(c) \in Case /\ Includes(Next1(c), c)
  <2> TAKE c \in Case
  <2>1. CASE widening /\ Previous(c) # {}
    <3>1. Hull(Previous(c)) \in Case
        BY <1>1, <2>1, HullIncludes, Previous(c) \subseteq Case
    <3>2. QED BY <2>1, <3>1, WidenInCellType
  <2>2. CASE ~(widening /\ Previous(c) # {})
      BY <2>2, IncludesSelf
  <2>3. QED BY <2>1, <2>2
<1> HIDE DEF joined
<1>4. joined # {}
    BY <1>2
<1>5. \A d \in all : Includes(one, d)
  <2> TAKE d \in all
  <2>1. PICK c \in joined : Includes(c, d)
      BY <1>2
  <2>2. Hull(joined) \in Case /\ Includes(Hull(joined), c) /\ Hull(current.cases) \in Case
      BY <1>1, <1>2, <1>4, HullIncludes
  <2>3. Includes(Hull(joined), d)
      BY <1>1, <1>2, <2>1, <2>2, IncludesTransitive
  <2>4. /\ Widen(Hull(current.cases), Hull(joined)) \in Case
        /\ Includes(Widen(Hull(current.cases), Hull(joined)), Hull(joined))
      BY <2>2, WidenIncludes
  <2>5. Includes(Widen(Hull(current.cases), Hull(joined)), d)
      BY <1>1, <2>2, <2>3, <2>4, IncludesTransitive
  <2>6. QED BY <2>3, <2>5
<1>6. \A d \in all : \E c \in Normalize(many, after, "PreserveGuards").cases : Includes(c, d)
  <2> TAKE d \in all
  <2>1. PICK c \in joined : Includes(c, d)
      BY <1>2
  <2>2. Next1(c) \in Case /\ Includes(Next1(c), c) /\ c \in Case /\ d \in Case
      BY <1>1, <1>2, <1>3
  <2>3. Next1(c) \in many /\ many \subseteq Case
      BY <1>2, <1>3
  <2> DEFINE n == Next1(c)
  <2>4. n \in many /\ n \in Case /\ Includes(n, d)
      BY <2>1, <2>2, <2>3, IncludesTransitive
  <2>5. after \in SUBSET Losses /\ "PreserveGuards" \in Reductions
      BY <1>1 DEF Losses, Reductions
  <2> HIDE DEF many, after, n
  <2>6. PICK m \in Normalize(many, after, "PreserveGuards").cases : Includes(m, n)
      BY <2>3, <2>4, <2>5, NormalizeCovers
  <2>7. m \in Case
      BY <2>3, <2>5, NormalizeCovers DEF Bounded, Conditional
  <2>8. Includes(m, d)
      BY <2>2, <2>4, <2>6, <2>7, IncludesTransitive
  <2>9. QED BY <2>8
<1>7. MergeLoop(current, incoming, widening, C) \in
          {[cases |-> {one}, losses |-> spill], Normalize(many, after, "PreserveGuards")}
    BY DEF MergeLoop, joined
<1> HIDE DEF one, many, after, spill
<1>8. QED BY <1>5, <1>6, <1>7 DEF Covered

\* merge_successor only ever adds to the entry of a cyclic block.
LEMMA MergedAscends ==
    ASSUME NEW t \in loops, Bounded(entries[t]), NEW incoming, Bounded(incoming),
           cuts \subseteq Word
    PROVE Covered(Merged(t, incoming), entries[t])
<1> DEFINE joined == MergeLoop(entries[t], incoming, FALSE, cuts)
           widened == MergeLoop(entries[t], joined, TRUE, cuts)
<1>1. entries[t] \in Conditional /\ incoming \in Conditional
    BY DEF Bounded
<1>2. Covered(entries[t], entries[t])
    BY <1>1, IncludesSelf DEF Covered, Conditional
<1>3. CASE entries[t].cases = {}
    BY <1>3 DEF Covered
<1>4. CASE entries[t].cases # {}
  <2>1. Bounded(joined) /\ Covered(joined, entries[t])
      BY <1>1, <1>4, MergeLoopBounded, MergeLoopCovers
  <2> HIDE DEF joined
  <2>2. joined \in Conditional
      BY <2>1 DEF Bounded
  <2>3. Covered(widened, entries[t])
      BY <1>1, <1>4, <2>2, MergeLoopCovers
  <2> HIDE DEF widened
  <2>4. Merged(t, incoming) \in {entries[t], joined, widened}
      BY <1>4 DEF Merged, joined, widened
  <2>5. QED BY <1>2, <2>1, <2>3, <2>4
<1>5. QED BY <1>3, <1>4

\* The iteration on a cycle ascends: no visit takes a case away from the entry
\* of a cyclic block, so an entry can only be revisited finitely often.
THEOREM LoopEntriesAscendHolds == Spec => LoopEntriesAscend
<1> DEFINE Ascends == \A b \in loops : Covered(entries'[b], entries[b])
<1>1. ASSUME TypeOK, TypeOK', [Next]_vars PROVE Ascends
  <2>1. \A t \in Blocks : Bounded(entries[t]) /\ Covered(entries[t], entries[t])
      BY <1>1, IncludesSelf DEF TypeOK, Bounded, Covered, Conditional
  <2>2. loops \subseteq Blocks /\ cuts \subseteq Word
      BY <1>1 DEF TypeOK
  <2>3. CASE entries' = entries
      BY <2>1, <2>2, <2>3
  <2>4. ASSUME NEW v \in Blocks, Visit(v) PROVE Ascends
    <3>1. prog \in Program
        BY <1>1, AnalysisAssumption DEF AnalysisAssumption, TypeOK
    <3>2. edges' \in [Edge -> Conditional]
        BY <1>1 DEF TypeOK
    <3>3. \A t \in Blocks : Bounded(Combined(edges', t, Reduction(Preserves(t))))
        BY <3>1, <3>2, CombinedBounded DEF Reduction, Reductions
    <3>4. \A t \in loops : Covered(Merged(t, Combined(edges', t, Reduction(Preserves(t)))), entries[t])
        BY <2>1, <2>2, <3>3, MergedAscends
    <3>5. PICK affected : entries' = [t \in Blocks |->
              IF t \in affected THEN Merged(t, Combined(edges', t, Reduction(Preserves(t))))
              ELSE entries[t]]
        BY <2>4 DEF Visit
    <3>6. QED BY <2>1, <2>2, <3>4, <3>5
  <2>5. QED BY <1>1, <2>3, <2>4 DEF Next, GiveUp, Finish, Start, Step, vars, analysis
<1>2. TypeOK /\ TypeOK' /\ [Next]_vars => [Ascends]_vars
    BY <1>1
<1>3. QED BY <1>2, BudgetsHold, PTL DEF Spec, LoopEntriesAscend

-----------------------------------------------------------------------------
(* Convergence: what a worklist without waiting blocks means. *)

\* Whatever covers a covering entry covers what that entry covers.
LEMMA CoveredTransitive ==
    ASSUME NEW C \in Conditional, NEW D \in Conditional, NEW E \in Conditional,
           Covered(C, D), Covered(D, E)
    PROVE Covered(C, E)
<1> SUFFICES ASSUME NEW e \in E.cases PROVE \E c \in C.cases : Includes(c, e)
    BY DEF Covered
<1>1. PICK d \in D.cases : Includes(d, e)
    BY DEF Covered
<1>2. PICK c \in C.cases : Includes(c, d)
    BY DEF Covered
<1>3. c \in Case /\ d \in Case /\ e \in Case
    BY DEF Conditional
<1>4. QED BY <1>1, <1>2, <1>3, IncludesTransitive

\* An entry covers itself.
LEMMA CoveredSelf ==
    ASSUME NEW C \in Conditional
    PROVE Covered(C, C)
BY IncludesSelf DEF Covered, Conditional

\* The seed of a function as an entry.
Seeded(p) == [cases |-> {p.seed}, losses |-> {}]

\* The combination of a block's inputs covers each of them.
LEMMA CombinedCovers ==
    ASSUME prog \in Program, NEW E \in [Edge -> Conditional], NEW b,
           NEW reduction \in Reductions
    PROVE /\ \A e \in Edge : e[2] \in Ordinals(prog, e[1]) /\ prog.succ[e[1]][e[2]] = b
                 => Covered(Combined(E, b, reduction), E[e])
          /\ b = Entry => Covered(Combined(E, b, reduction), Seeded(prog))
<1> DEFINE S == (IF b = Entry THEN {prog.seed} ELSE {}) \cup UNION {E[e].cases : e \in Inputs(E, b)}
           losses == UNION {E[e].losses : e \in Inputs(E, b)}
<1>1. \A e \in Inputs(E, b) : E[e].cases \subseteq Case /\ E[e].losses \subseteq Losses
    BY DEF Inputs, Conditional
<1>2. prog.seed \in Case
    BY DEF Program
<1>3. S \subseteq Case /\ losses \in SUBSET Losses
    BY <1>1, <1>2
<1>4. Combined(E, b, reduction) = Normalize(S, losses, reduction)
    BY DEF Combined
<1>5. \A e \in Edge : e[2] \in Ordinals(prog, e[1]) /\ prog.succ[e[1]][e[2]] = b
         => E[e].cases \subseteq S
  <2> TAKE e \in Edge
  <2> HAVE e[2] \in Ordinals(prog, e[1]) /\ prog.succ[e[1]][e[2]] = b
  <2>1. CASE E[e] = Unreachable
      BY <2>1 DEF Unreachable
  <2>2. CASE E[e] # Unreachable
    <3>1. e \in Inputs(E, b)
        BY <2>2 DEF Inputs
    <3>2. QED BY <3>1
  <2>3. QED BY <2>1, <2>2
<1>6. b = Entry => prog.seed \in S
    OBVIOUS
<1> HIDE DEF S, losses
<1>7. \A d \in S : \E c \in Combined(E, b, reduction).cases : Includes(c, d)
    BY <1>3, <1>4, NormalizeCovers
<1>8. QED BY <1>5, <1>6, <1>7 DEF Covered, Seeded

\* merge_successor forgets nothing of what comes in.
LEMMA MergedCovers ==
    ASSUME NEW t, Bounded(entries[t]), NEW incoming, Bounded(incoming), cuts \subseteq Word
    PROVE Covered(Merged(t, incoming), incoming)
<1> DEFINE joined == MergeLoop(entries[t], incoming, FALSE, cuts)
           widened == MergeLoop(entries[t], joined, TRUE, cuts)
<1>1. entries[t] \in Conditional /\ incoming \in Conditional
    BY DEF Bounded
<1>2. CASE incoming.cases = {}
    BY <1>2 DEF Covered
<1>3. CASE incoming.cases # {} /\ (entries[t].cases = {} \/ t \notin loops)
  <2>1. Merged(t, incoming) = incoming
      BY <1>3 DEF Merged
  <2>2. QED BY <1>1, <2>1, CoveredSelf
<1>4. CASE incoming.cases # {} /\ entries[t].cases # {} /\ t \in loops
  <2>1. Bounded(joined) /\ Covered(joined, incoming)
      BY <1>1, <1>4, MergeLoopBounded, MergeLoopCovers
  <2>2. Merged(t, incoming) = IF joined = entries[t] THEN entries[t]
                              ELSE IF updates[t] >= WidenAfter THEN widened ELSE joined
      BY <1>4 DEF Merged
  <2> HIDE DEF joined
  <2>3. joined \in Conditional
      BY <2>1 DEF Bounded
  <2>4. Bounded(widened) /\ Covered(widened, joined)
      BY <1>1, <1>4, <2>3, MergeLoopBounded, MergeLoopCovers
  <2> HIDE DEF widened
  <2>5. Covered(widened, incoming)
      BY <1>1, <2>1, <2>3, <2>4, CoveredTransitive DEF Bounded
  <2>6. QED BY <2>1, <2>2, <2>5
<1>5. QED BY <1>2, <1>3, <1>4

\* The block's result is the one of a replay on the cases of its predecessors.
OfReplay(b) == b \notin loops /\ results[b].preserved

\* The entries cover what every edge delivers; an edge delivers what the last
\* result of its block says; and the last result of a block that is not waiting
\* is the one of its entry, unless it was replayed.
CurrentInv ==
    /\ prog \in Programs
    /\ Covered(entries[Entry], Seeded(prog))
    /\ \A b \in Blocks :
          /\ b \notin pending /\ ~OfReplay(b) => results[b].entry = entries[b]
          /\ passes = 0 => ~OfReplay(b)
          /\ results[b].status = Status(prog, b, results[b].entry)
    /\ \A b \in Blocks : \A i \in Ordinals(prog, b) :
          /\ edges[<<b, i>>] =
                Successor(prog, b, results[b].entry, Reduction(results[b].preserved), i)
          /\ Covered(entries[prog.succ[b][i]], edges[<<b, i>>])

\* A block has at most two edges.
LEMMA EdgesOfBlock ==
    ASSUME prog \in Programs, NEW b \in Blocks, NEW i \in Ordinals(prog, b)
    PROVE i \in {1, 2} /\ <<b, i>> \in Edge /\ prog.succ[b][i] \in Blocks
<1>1. prog \in Program /\ Len(prog.succ[b]) <= 2
    BY AnalysisAssumption DEF AnalysisAssumption
<1>2. prog.succ[b] \in Seq(Blocks)
    BY <1>1 DEF Program
<1>3. i \in 1 .. Len(prog.succ[b]) /\ Len(prog.succ[b]) \in Nat
    BY <1>2 DEF Ordinals
<1>4. i \in {1, 2}
    BY <1>1, <1>3
<1>5. QED BY <1>2, <1>3, <1>4 DEF Edge

\* Nothing has been sent before the first visit.
LEMMA InitCurrent == Init => CurrentInv
<1> SUFFICES ASSUME Init PROVE CurrentInv
    OBVIOUS
<1>1. prog \in Programs /\ prog \in Program
    BY AnalysisAssumption DEF AnalysisAssumption, Init
<1>2. Seeded(prog) \in Conditional /\ entries[Entry] = Seeded(prog)
    BY <1>1, AnalysisAssumption DEF AnalysisAssumption, Init, Seeded, Conditional, Program
<1>3. Covered(entries[Entry], Seeded(prog))
    BY <1>2, CoveredSelf
<1>4. \A b \in Blocks : /\ results[b].entry = Unreachable /\ results[b].status = "Proven"
                        /\ results[b].preserved = FALSE
                        /\ b \notin pending => entries[b] = Unreachable
    BY DEF Init, NoResult
<1>5. \A b \in Blocks : Status(prog, b, Unreachable) = "Proven"
    BY DEF Status, Unreachable
<1>6. ASSUME NEW b \in Blocks, NEW i \in Ordinals(prog, b)
      PROVE /\ edges[<<b, i>>] =
                  Successor(prog, b, results[b].entry, Reduction(results[b].preserved), i)
            /\ Covered(entries[prog.succ[b][i]], edges[<<b, i>>])
  <2>1. edges[<<b, i>>] = Unreachable
      BY <1>1, EdgesOfBlock DEF Init
  <2>2. \A red : Successor(prog, b, Unreachable, red, i) = Unreachable
      BY DEF Successor, Unreachable
  <2>3. QED BY <1>4, <2>1, <2>2 DEF Covered, Unreachable
<1>7. QED BY <1>1, <1>3, <1>4, <1>5, <1>6 DEF CurrentInv, OfReplay

\* What a visit does to the entry of a block and to the worklist.
VisitEntries(b, affected) ==
    /\ \A t \in Blocks :
          entries'[t] = IF t \in affected
                        THEN Merged(t, Combined(edges', t, Reduction(Preserves(t))))
                        ELSE entries[t]
    /\ pending' = (pending \ {b}) \cup {t \in affected : entries'[t] # entries[t]}
    /\ \A i \in Ordinals(prog, b) :
          prog.succ[b][i] \in affected
          \/ (edges[<<b, i>>] = Unreachable /\ edges'[<<b, i>>] = Unreachable)

\* A visit sends its result on and takes in what the targets now get.
LEMMA VisitParts ==
    ASSUME TypeOK, CurrentInv, NEW b \in Blocks, Visit(b)
    PROVE /\ results'[b] = Evaluated(b) /\ \A t \in Blocks : t # b => results'[t] = results[t]
          /\ \A i \in Ordinals(prog, b) :
                edges'[<<b, i>>] = Successor(prog, b, results'[b].entry,
                                             Reduction(results'[b].preserved), i)
          /\ \A t \in Blocks : t # b => \A i \in Ordinals(prog, t) :
                edges'[<<t, i>>] = edges[<<t, i>>]
          /\ \E affected : affected \subseteq Blocks /\ VisitEntries(b, affected)
          /\ UNCHANGED <<prog, loops, cuts, phase>>
<1> DEFINE result == Evaluated(b)
           Sent(i) == IF i \in Ordinals(prog, b)
                      THEN Successor(prog, b, result.entry, Reduction(result.preserved), i)
                      ELSE Unreachable
           affected == {prog.succ[b][i] : i \in {j \in Ordinals(prog, b) :
                           edges[<<b, j>>] # Unreachable \/ edges'[<<b, j>>] # Unreachable}}
<1>1. results' = [results EXCEPT ![b] = result]
      /\ edges' = [edges EXCEPT ![<<b, 1>>] = Sent(1), ![<<b, 2>>] = Sent(2)]
    BY DEF Visit
<1>2. UNCHANGED <<prog, loops, cuts, phase>>
    BY DEF Visit
<1>3. entries' = [t \in Blocks |->
          IF t \in affected THEN Merged(t, Combined(edges', t, Reduction(Preserves(t))))
          ELSE entries[t]]
    BY DEF Visit
<1>4. pending' = (pending \ {b}) \cup {t \in affected : entries'[t] # entries[t]}
    BY DEF Visit, Requeued
<1>5. \A t \in Blocks : \A i \in Ordinals(prog, t) : i \in {1, 2} /\ <<t, i>> \in Edge
                           /\ prog.succ[t][i] \in Blocks
    BY EdgesOfBlock DEF CurrentInv
<1>6. affected \subseteq Blocks
    BY <1>5
<1>7. VisitEntries(b, affected)
  <2>1. ASSUME NEW i \in Ordinals(prog, b)
        PROVE prog.succ[b][i] \in affected
              \/ (edges[<<b, i>>] = Unreachable /\ edges'[<<b, i>>] = Unreachable)
    <3> DEFINE sending == {j \in Ordinals(prog, b) :
                              edges[<<b, j>>] # Unreachable \/ edges'[<<b, j>>] # Unreachable}
    <3>1. i \in sending \/ (edges[<<b, i>>] = Unreachable /\ edges'[<<b, i>>] = Unreachable)
        OBVIOUS
    <3>2. affected = {prog.succ[b][k] : k \in sending}
        OBVIOUS
    <3> HIDE DEF affected, sending
    <3>3. QED BY <3>1, <3>2
  <2> HIDE DEF affected
  <2>2. \A t \in Blocks :
           entries'[t] = IF t \in affected
                         THEN Merged(t, Combined(edges', t, Reduction(Preserves(t))))
                         ELSE entries[t]
      BY <1>3
  <2>3. QED BY <1>4, <2>1, <2>2 DEF VisitEntries
<1> HIDE DEF affected
<1>8. results \in [Blocks -> Result] /\ edges \in [Edge -> Conditional]
    BY DEF TypeOK
<1>9. results'[b] = result /\ \A t \in Blocks : t # b => results'[t] = results[t]
    BY <1>1, <1>8
<1>10. ASSUME NEW i \in Ordinals(prog, b) PROVE edges'[<<b, i>>] = Sent(i)
  <2>1. (i = 1 \/ i = 2) /\ <<b, i>> \in Edge
      BY <1>5
  <2> HIDE DEF Sent
  <2>2. QED BY <1>1, <1>8, <2>1
<1>11. ASSUME NEW t \in Blocks, t # b, NEW i \in Ordinals(prog, t)
       PROVE edges'[<<t, i>>] = edges[<<t, i>>]
  <2>1. <<t, i>> \in Edge /\ <<t, i>> # <<b, 1>> /\ <<t, i>> # <<b, 2>>
      BY <1>5, <1>11
  <2> HIDE DEF Sent
  <2>2. QED BY <1>1, <1>8, <2>1
<1>12. \A i \in Ordinals(prog, b) :
          edges'[<<b, i>>] = Successor(prog, b, results'[b].entry,
                                       Reduction(results'[b].preserved), i)
    BY <1>9, <1>10
<1>13. QED BY <1>2, <1>6, <1>7, <1>9, <1>11, <1>12

\* A visit keeps the results current.
LEMMA VisitCurrent ==
    ASSUME TypeOK, CurrentInv, NEW b \in Blocks, Visit(b)
    PROVE CurrentInv'
<1>1. /\ results'[b] = Evaluated(b) /\ \A t \in Blocks : t # b => results'[t] = results[t]
      /\ \A i \in Ordinals(prog, b) :
            edges'[<<b, i>>] = Successor(prog, b, results'[b].entry,
                                         Reduction(results'[b].preserved), i)
      /\ \A t \in Blocks : t # b => \A i \in Ordinals(prog, t) :
            edges'[<<t, i>>] = edges[<<t, i>>]
      /\ \E affected : affected \subseteq Blocks /\ VisitEntries(b, affected)
      /\ UNCHANGED <<prog, loops, cuts, phase>>
    BY VisitParts
<1>2. PICK affected : affected \subseteq Blocks /\ VisitEntries(b, affected)
    BY <1>1
<1>3. prog \in Programs /\ prog \in Program
    BY AnalysisAssumption DEF AnalysisAssumption, CurrentInv
<1>4. edges' \in [Edge -> Conditional] /\ entries \in [Blocks -> Conditional] /\ cuts \subseteq Word
    BY VisitTypes DEF TypeOK
<1>5. \A t \in Blocks : Reduction(Preserves(t)) \in Reductions
    BY DEF Reduction, Reductions
<1>6. ASSUME NEW t \in Blocks, t \in affected
      PROVE /\ entries'[t] \in Conditional
            /\ Combined(edges', t, Reduction(Preserves(t))) \in Conditional
            /\ Covered(entries'[t], Combined(edges', t, Reduction(Preserves(t))))
  <2>1. Bounded(Combined(edges', t, Reduction(Preserves(t))))
      BY <1>3, <1>4, <1>5, CombinedBounded
  <2>2. Bounded(entries[t])
      BY DEF TypeOK, Bounded
  <2>3. entries'[t] = Merged(t, Combined(edges', t, Reduction(Preserves(t))))
      BY <1>2, <1>6 DEF VisitEntries
  <2>4. Bounded(entries'[t]) /\ Covered(entries'[t], Combined(edges', t, Reduction(Preserves(t))))
      BY <1>4, <2>1, <2>2, <2>3, MergedBounded, MergedCovers
  <2>5. QED BY <2>1, <2>4 DEF Bounded
<1>7. ASSUME NEW c \in Blocks, NEW i \in Ordinals(prog, c)
      PROVE /\ edges'[<<c, i>>] =
                  Successor(prog, c, results'[c].entry, Reduction(results'[c].preserved), i)
            /\ Covered(entries'[prog.succ[c][i]], edges'[<<c, i>>])
  <2> DEFINE t == prog.succ[c][i]
             e == <<c, i>>
  <2>1. t \in Blocks /\ e \in Edge /\ edges'[e] \in Conditional
      BY <1>3, <1>4, EdgesOfBlock
  <2>2. edges'[e] = Successor(prog, c, results'[c].entry, Reduction(results'[c].preserved), i)
      BY <1>1 DEF CurrentInv
  <2>3. CASE t \in affected
    <3>1. e[2] \in Ordinals(prog, e[1]) /\ prog.succ[e[1]][e[2]] = t
        OBVIOUS
    <3> HIDE DEF t, e
    <3>2. Covered(Combined(edges', t, Reduction(Preserves(t))), edges'[e])
        BY <1>3, <1>4, <1>5, <2>1, <3>1, CombinedCovers
    <3>3. Covered(entries'[t], edges'[e])
        BY <1>6, <2>1, <2>3, <3>2, CoveredTransitive
    <3>4. QED BY <2>2, <3>3 DEF t, e
  <2>4. CASE t \notin affected
    <3>1. entries'[t] = entries[t]
        BY <1>2, <2>1, <2>4 DEF VisitEntries
    <3>2. CASE c = b
      <4>1. edges'[e] = Unreachable
          BY <1>2, <2>4, <3>2 DEF VisitEntries
      <4>2. QED BY <2>2, <4>1 DEF Covered, Unreachable
    <3>3. CASE c # b
      <4>1. edges'[e] = edges[e]
          BY <1>1, <3>3
      <4>2. QED BY <2>2, <3>1, <4>1 DEF CurrentInv
    <3>4. QED BY <3>2, <3>3
  <2>5. QED BY <2>3, <2>4
<1>8. Covered(entries'[Entry], Seeded(prog))
  <2>0. Entry \in Blocks
      BY AnalysisAssumption DEF AnalysisAssumption
  <2>1. CASE Entry \in affected
    <3>1. Covered(Combined(edges', Entry, Reduction(Preserves(Entry))), Seeded(prog))
        BY <1>3, <1>4, <1>5, <2>0, CombinedCovers
    <3>2. Seeded(prog) \in Conditional
        BY <1>3 DEF Seeded, Conditional, Program
    <3>3. QED BY <1>6, <2>0, <2>1, <3>1, <3>2, CoveredTransitive
  <2>2. CASE Entry \notin affected
      BY <1>2, <2>0, <2>2 DEF VisitEntries, CurrentInv
  <2>3. QED BY <2>1, <2>2
<1>9. ASSUME NEW t \in Blocks, t \notin pending', ~OfReplay(t)'
      PROVE results'[t].entry = entries'[t]
  <2>1. entries'[t] = entries[t] /\ (t # b => t \notin pending)
      BY <1>2, <1>9 DEF VisitEntries
  <2>2. CASE t = b
    <3>1. Replayed(b) => b \notin loops /\ Evaluated(b).preserved
        BY DEF Replayed, Evaluated
    <3>2. ~Replayed(b)
        BY <1>1, <1>9, <2>2, <3>1 DEF OfReplay
    <3>3. QED BY <1>1, <2>1, <2>2, <3>2 DEF Evaluated
  <2>3. CASE t # b
      BY <1>1, <1>9, <2>1, <2>3 DEF OfReplay, CurrentInv
  <2>4. QED BY <2>2, <2>3
<1>10. ASSUME NEW t \in Blocks, passes' = 0 PROVE ~OfReplay(t)'
  <2>1. passes = 0 /\ ~Replayed(b)
    <3>1. passes \in Nat
        BY DEF TypeOK
    <3>2. Replayed(b) => passes' = passes + 1
        BY DEF Visit
    <3>3. ~Replayed(b) => passes' = passes
        BY DEF Visit
    <3>4. QED BY <1>10, <3>1, <3>2, <3>3
  <2>2. CASE t = b
    <3>1. Evaluated(b).preserved => b \in loops
        BY <2>1 DEF Evaluated, Preserves
    <3>2. QED BY <1>1, <2>2, <3>1 DEF OfReplay
  <2>3. CASE t # b
      BY <1>1, <2>1, <2>3 DEF OfReplay, CurrentInv
  <2>4. QED BY <2>2, <2>3
<1>11. ASSUME NEW t \in Blocks PROVE results'[t].status = Status(prog, t, results'[t].entry)
  <2>1. CASE t = b
      BY <1>1, <2>1 DEF Evaluated
  <2>2. CASE t # b
      BY <1>1, <2>2 DEF CurrentInv
  <2>3. QED BY <2>1, <2>2
<1>12. prog' = prog
    BY <1>1
<1>13. QED BY <1>3, <1>7, <1>8, <1>9, <1>10, <1>11, <1>12 DEF CurrentInv

\* Every step keeps the results current.
LEMMA NextCurrent == TypeOK /\ CurrentInv /\ [Next]_vars => CurrentInv'
<1> SUFFICES ASSUME TypeOK, CurrentInv, [Next]_vars PROVE CurrentInv'
    OBVIOUS
<1>1. ASSUME NEW b \in Blocks, Visit(b) PROVE CurrentInv'
    BY <1>1, VisitCurrent
<1>2. CASE UNCHANGED <<prog, loops, entries, edges, pending, results, passes>>
    BY <1>2 DEF CurrentInv, OfReplay
<1>3. QED BY <1>1, <1>2 DEF Next, GiveUp, Finish, Start, Step, vars, analysis

\* Convergence means closed results: in whatever order the blocks were visited
\* (the worklist of verifier/cfg.rs), a block that is not waiting was evaluated on
\* all that its predecessors deliver, unless it was replayed on their cases.
THEOREM ResultsCurrentHolds == Spec => []ResultsCurrent
<1>1. Init => TypeOK /\ CurrentInv
    BY InitTypes, InitCurrent
<1>2. TypeOK /\ CurrentInv /\ [Next]_vars => (TypeOK /\ CurrentInv)'
    BY NextTypes, NextCurrent
<1>3. TypeOK /\ CurrentInv => ResultsCurrent
  <2> SUFFICES ASSUME TypeOK, CurrentInv, NEW b \in Blocks, NEW i \in Ordinals(prog, b),
                      prog.succ[b][i] \notin pending,
                      prog.succ[b][i] \in loops \/ ~results[prog.succ[b][i]].preserved
               PROVE Covered(results[prog.succ[b][i]].entry, edges[<<b, i>>])
      BY DEF ResultsCurrent
  <2>1. prog.succ[b][i] \in Blocks
      BY EdgesOfBlock DEF CurrentInv
  <2>2. results[prog.succ[b][i]].entry = entries[prog.succ[b][i]]
      BY <2>1 DEF CurrentInv, OfReplay
  <2>3. QED BY <2>2 DEF CurrentInv
<1>4. QED BY <1>1, <1>2, <1>3, PTL DEF Spec

-----------------------------------------------------------------------------
(* The audit. *)

\* The functions whose results are closed: the audit says so, or nothing was
\* replayed and the worklist converged.
Trusted == loops # {} \/ passes = 0

\* While such a function runs, its frozen results are closed under one more
\* evaluation and cover the state the execution is in.
AuditInv ==
    /\ pc # NoBlock => phase = "Checked"
    /\ phase = "Checked" /\ Trusted => Audit
    /\ pc # NoBlock /\ Trusted => \E c \in results[pc].entry.cases : state \in Gamma(c)

\* A covered case's states are described by the covering entry.
LEMMA CoveredStates ==
    ASSUME NEW C \in Conditional, NEW D \in Conditional, Covered(C, D),
           NEW d \in D.cases, NEW s \in Gamma(d)
    PROVE \E c \in C.cases : s \in Gamma(c)
<1>1. PICK c \in C.cases : Includes(c, d)
    BY DEF Covered
<1>2. c \in Case /\ d \in Case
    BY DEF Conditional
<1>3. s \in Gamma(c)
    BY <1>1, <1>2, IncludesGamma
<1>4. QED BY <1>3

\* A checked function starts in a state its audited entry covers.
LEMMA StartCovered ==
    ASSUME TypeOK, AuditInv, Start
    PROVE AuditInv'
<1> DEFINE seed == [cases |-> {prog.seed}, losses |-> {}]
<1>1. UNCHANGED analysis /\ phase = "Checked" /\ pc' = Entry /\ state' \in Gamma(prog.seed)
    BY DEF Start
<1>2. UNCHANGED <<prog, loops, passes, results, phase>> /\ (Trusted' <=> Trusted)
    BY <1>1 DEF analysis, Trusted
<1>3. Audit' <=> Audit
    BY <1>2 DEF Audit, Covered, Successor, Reduction
<1>4. ASSUME Trusted
      PROVE \E c \in results[Entry].entry.cases : state' \in Gamma(c)
  <2>1. Covered(results[Entry].entry, seed)
      BY <1>1, <1>4 DEF AuditInv, Audit
  <2>2. prog.seed \in Case
      BY AnalysisAssumption DEF AnalysisAssumption, TypeOK, Program
  <2>3. seed \in Conditional /\ prog.seed \in seed.cases
      BY <2>2 DEF Conditional
  <2>4. results[Entry].entry \in Conditional
      BY AnalysisAssumption DEF AnalysisAssumption, TypeOK, Result
  <2> HIDE DEF seed
  <2>5. QED BY <1>1, <2>1, <2>3, <2>4, CoveredStates
<1>5. QED BY <1>1, <1>2, <1>3, <1>4 DEF AuditInv

\* One step of a covered execution stays covered: the results are closed.
LEMMA StepCovered ==
    ASSUME TypeOK, AuditInv, Step
    PROVE AuditInv'
<1>1. UNCHANGED analysis /\ pc # NoBlock
    BY DEF Step
<1>2. UNCHANGED <<prog, loops, passes, results, phase>> /\ (Trusted' <=> Trusted)
    BY <1>1 DEF analysis, Trusted
<1>3. Audit' <=> Audit
    BY <1>2 DEF Audit, Covered, Successor, Reduction
<1>4. phase = "Checked"
    BY <1>1 DEF AuditInv
<1>5. ASSUME Trusted
      PROVE \E c \in results[pc'].entry.cases : state' \in Gamma(c)
  <2>1. PICK i \in Ordinals(prog, pc) :
            pc' = prog.succ[pc][i] /\ state' \in EdgeStates(prog, pc, i, state)
      BY DEF Step
  <2>2. PICK c \in results[pc].entry.cases : state \in Gamma(c)
      BY <1>1, <1>5 DEF AuditInv
  <2>3. pc \in Blocks /\ prog \in Program
      BY <1>1, AnalysisAssumption DEF AnalysisAssumption, TypeOK
  <2>4. pc' \in Blocks
      BY <2>1, <2>3, ProgramParts
  <2>5. results[pc].entry \in Conditional /\ results[pc'].entry \in Conditional
      BY <2>3, <2>4 DEF TypeOK, Result
  <2> DEFINE sent == Successor(prog, pc, results[pc].entry, Reduction(results[pc].preserved), i)
  <2>6. Covered(results[pc'].entry, sent)
      BY <1>4, <1>5, <2>1, <2>3 DEF AuditInv, Audit
  <2>7. Reduction(results[pc].preserved) \in Reductions
      BY DEF Reduction, Reductions
  <2>8. sent \in Conditional /\ \E d \in sent.cases : state' \in Gamma(d)
      BY <2>1, <2>2, <2>3, <2>5, <2>7, SuccessorSound DEF Bounded
  <2> HIDE DEF sent
  <2>9. QED BY <2>5, <2>6, <2>8, CoveredStates
<1>6. QED BY <1>1, <1>2, <1>3, <1>4, <1>5 DEF AuditInv

\* Initially nothing runs and nothing is checked.
LEMMA InitAudit == Init => AuditInv
BY DEF Init, AuditInv

\* Without a replay the converged results are what the audit asks for: every
\* block was last evaluated on its entry, and the entries cover the edges.
LEMMA ConvergedAudit ==
    ASSUME TypeOK, CurrentInv, pending = {}, passes = 0, AllProven
    PROVE Audit
<1>1. \A b \in Blocks : results[b].entry = entries[b]
    BY DEF CurrentInv
<1>2. Covered(results[Entry].entry, [cases |-> {prog.seed}, losses |-> {}])
    BY <1>1, AnalysisAssumption DEF AnalysisAssumption, CurrentInv, Seeded
<1>3. ASSUME NEW b \in Blocks PROVE Status(prog, b, results[b].entry) = "Proven"
    BY DEF CurrentInv, AllProven
<1>4. ASSUME NEW b \in Blocks, NEW i \in Ordinals(prog, b)
      PROVE Covered(results[prog.succ[b][i]].entry,
                    Successor(prog, b, results[b].entry, Reduction(results[b].preserved), i))
  <2>1. prog.succ[b][i] \in Blocks
      BY EdgesOfBlock DEF CurrentInv
  <2>2. /\ edges[<<b, i>>] =
              Successor(prog, b, results[b].entry, Reduction(results[b].preserved), i)
        /\ Covered(entries[prog.succ[b][i]], edges[<<b, i>>])
      BY DEF CurrentInv
  <2>3. QED BY <1>1, <2>1, <2>2
<1>5. QED BY <1>2, <1>3, <1>4 DEF Audit

\* Every step keeps the audit invariant.
LEMMA NextAudit == TypeOK /\ CurrentInv /\ AuditInv /\ [Next]_vars => AuditInv'
<1> SUFFICES ASSUME TypeOK, CurrentInv, AuditInv, [Next]_vars PROVE AuditInv'
    OBVIOUS
<1>1. ASSUME NEW b \in Blocks, Visit(b) PROVE AuditInv'
  <2>1. phase' = "Analyzing" /\ phase = "Analyzing" /\ pc' = pc
      BY <1>1 DEF Visit, execution
  <2>2. QED BY <2>1 DEF AuditInv
<1>2. CASE GiveUp
    BY <1>2 DEF GiveUp, AuditInv, execution
<1>3. CASE Finish
  <2>1. /\ pc' = pc /\ phase = "Analyzing" /\ UNCHANGED <<prog, loops, passes, results>>
        /\ pending = {}
        /\ phase' = "Checked" => AllProven /\ (loops # {} => Audit)
      BY <1>3 DEF Finish, execution
  <2>2. phase' = "Checked" /\ Trusted => Audit
      BY <2>1, ConvergedAudit DEF Trusted
  <2>3. (Audit' <=> Audit) /\ (Trusted' <=> Trusted)
      BY <2>1 DEF Audit, Covered, Successor, Reduction, Trusted
  <2>4. QED BY <2>1, <2>2, <2>3 DEF AuditInv
<1>4. CASE UNCHANGED vars
  <2>1. UNCHANGED <<prog, loops, passes, results, phase, pc, state>>
      BY <1>4 DEF vars, analysis, execution
  <2>2. (Audit' <=> Audit) /\ (Trusted' <=> Trusted)
      BY <2>1 DEF Audit, Covered, Successor, Reduction, Trusted
  <2>3. QED BY <2>1, <2>2 DEF AuditInv
<1>5. QED BY <1>1, <1>2, <1>3, <1>4, StartCovered, StepCovered DEF Next

\* A covered state of a block with a proven check satisfies the check.
LEMMA AuditSafe == TypeOK /\ AuditInv /\ Trusted => CheckedRunsSafely
<1> SUFFICES ASSUME TypeOK, AuditInv, Trusted, pc # NoBlock PROVE state \in prog.check[pc]
    BY DEF CheckedRunsSafely
<1>1. PICK c \in results[pc].entry.cases : state \in Gamma(c)
    BY DEF AuditInv
<1>2. pc \in Blocks /\ Audit
    BY DEF TypeOK, AuditInv
<1>3. Status(prog, pc, results[pc].entry) = "Proven"
    BY <1>2 DEF Audit
<1>4. \A d \in results[pc].entry.cases : Gamma(d) \subseteq prog.check[pc]
    BY <1>3 DEF Status
<1>5. QED BY <1>1, <1>4

\* What the three invariants say together is kept by every step.
LEMMA AuditAlways == Spec => [](TypeOK /\ AuditInv)
<1>1. Init => TypeOK /\ CurrentInv /\ AuditInv
    BY InitTypes, InitCurrent, InitAudit
<1>2. TypeOK /\ CurrentInv /\ AuditInv /\ [Next]_vars => (TypeOK /\ CurrentInv /\ AuditInv)'
    BY NextTypes, NextCurrent, NextAudit
<1>3. QED BY <1>1, <1>2, PTL DEF Spec

\* A function with a cycle that is reported Checked never fails a check,
\* whatever its blocks, conditions and computations, whatever was widened,
\* partitioned, replayed or lost to a budget on the way.
THEOREM AuditedRunsSafelyHolds == Spec => []AuditedRunsSafely
<1>1. TypeOK /\ AuditInv => AuditedRunsSafely
    BY AuditSafe DEF AuditedRunsSafely, Trusted
<1>2. QED BY <1>1, AuditAlways, PTL

\* A function that is reported Checked never fails a check when no block was
\* replayed, although nothing audits an acyclic one: the converged worklist is
\* closed by itself.  Only obligation-directed replay, whose result the edges
\* keep when the entry changes later, can break this.
THEOREM UnreplayedRunsSafely == Spec => [](passes = 0 => CheckedRunsSafely)
<1>1. TypeOK /\ AuditInv => (passes = 0 => CheckedRunsSafely)
    BY AuditSafe DEF Trusted
<1>2. QED BY <1>1, AuditAlways, PTL

=============================================================================
