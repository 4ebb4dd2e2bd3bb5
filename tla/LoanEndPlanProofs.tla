-------------------------- MODULE LoanEndPlanProofs --------------------------
(***************************************************************************)
(* plan_block moves the ends of a block up and nothing else, for any block *)
(* that lowering emits, of any length and with any number of loans.        *)
(*                                                                         *)
(* The planned order is a sort, so it keeps what the sort keys say.  What  *)
(* they say rests on two things: a boundary is never lower than the last   *)
(* use of the reference (PlanInv), and where an end stays in its place no  *)
(* later instruction speaks of the reference (LowerInv: lowering uses a    *)
(* name for one local at a time, and never again after its end).  That a   *)
(* child's end comes before its parent's rests on the depths of the loans: *)
(* each round of the search settles the ends of one more depth (OrderInv). *)
(*                                                                         *)
(* The second half runs the planned block next to the block as lowered.    *)
(* Sim says of the two states that the planned one is the other without    *)
(* the references that ended early; it survives each instruction but an    *)
(* end because those references are not used any more, and because fewer   *)
(* references refuse nothing that more references allow (Reduces in        *)
(* LoanTableProofs).                                                       *)
(***************************************************************************)
EXTENDS LoanEndPlan, LoanTableProofs, WellFoundedInduction

Fin == INSTANCE FiniteSetTheorems
Seqs == INSTANCE SequenceTheorems

-----------------------------------------------------------------------------
(* Counting. *)

\* A nonempty set of natural numbers has a least element.
LEMMA LeastElement ==
    ASSUME NEW T \in SUBSET Nat, T # {}
    PROVE \E x \in T : \A y \in T : x <= y
<1> DEFINE R == {ss \in Nat \X Nat : ss[1] < ss[2]}
<1>1. IsWellFoundedOn(R, Nat) BY NatLessThanWellFounded DEF OpToRel
<1> HIDE DEF R
<1>2. PICK x \in T : \A y \in T : <<y, x>> \notin R BY <1>1, WFMin
<1>3. \A y \in T : ~(y < x) BY <1>2 DEF R
<1> QED BY <1>3

\* A bounded one has a greatest element, and it is what Max chooses.
LEMMA MaxProperty ==
    ASSUME NEW T \in SUBSET Nat, T # {}, NEW N \in Nat, \A x \in T : x <= N
    PROVE Sets!Max(T) \in T /\ \A x \in T : x <= Sets!Max(T)
<1> DEFINE U == {u \in Nat : N - u \in T}
<1>1. U # {}
  <2>1. PICK x \in T : TRUE OBVIOUS
  <2>2. N - x \in Nat /\ N - (N - x) = x BY <2>1
  <2> QED BY <2>1, <2>2
<1>2. PICK u \in U : \A v \in U : u <= v BY <1>1, LeastElement
<1>3. N - u \in T BY <1>2
<1>4. ASSUME NEW x \in T PROVE N - u >= x
  <2>1. N - x \in Nat /\ N - (N - x) = x BY <1>4
  <2>2. u <= N - x BY <2>1, <1>2
  <2> QED BY <2>2, <1>4, <1>2
<1>5. \E x \in T : \A y \in T : x >= y BY <1>3, <1>4
<1>6. Sets!Max(T) \in T /\ \A y \in T : Sets!Max(T) >= y BY <1>5 DEF Sets!Max
<1> QED BY <1>6

\* The library's notions of a finite set and of its size are the ones used here.
LEMMA SameSets == \A S : (Fin!IsFiniteSet(S) <=> IsFiniteSet(S)) /\ Fin!Cardinality(S) = Cardinality(S)
BY DEF Fin!IsFiniteSet, IsFiniteSet, Fin!Cardinality, Cardinality

\* A part is not larger than the whole, and smaller if something is missing.
LEMMA PartSize ==
    ASSUME NEW S, IsFiniteSet(S), NEW P \in SUBSET S
    PROVE  /\ IsFiniteSet(P) /\ Cardinality(P) <= Cardinality(S)
           /\ Cardinality(P) \in Nat /\ Cardinality(S) \in Nat
           /\ P # S => Cardinality(P) < Cardinality(S)
<1>1. IsFiniteSet(P) /\ Cardinality(P) <= Cardinality(S)
      /\ (Cardinality(S) = Cardinality(P) => S = P) BY Fin!FS_Subset, SameSets
<1>2. Cardinality(S) \in Nat /\ Cardinality(P) \in Nat BY <1>1, Fin!FS_CardinalityType, SameSets
<1> QED BY <1>1, <1>2

\* The first numbers are finitely many.
LEMMA IntervalSize ==
    ASSUME NEW N \in Nat
    PROVE  /\ IsFiniteSet(1 .. N) /\ Cardinality(1 .. N) = N
           /\ IsFiniteSet(0 .. N - 1) /\ Cardinality(0 .. N - 1) = N
<1>1. IsFiniteSet(1 .. N) /\ Cardinality(1 .. N) = IF 1 > N THEN 0 ELSE N - 1 + 1
  BY Fin!FS_Interval, SameSets
<1>2. IsFiniteSet(0 .. N - 1) /\ Cardinality(0 .. N - 1) = IF 0 > N - 1 THEN 0 ELSE N - 1 - 0 + 1
  BY Fin!FS_Interval, SameSets
<1> QED BY <1>1, <1>2

\* A strict total order of the numbers 1 .. N, and what is below a number in it.
StrictOrder(N, R) ==
    /\ \A m, n \in 1 .. N : m # n => <<m, n>> \in R \/ <<n, m>> \in R
    /\ \A n \in 1 .. N : <<n, n>> \notin R
    /\ \A l, m, n \in 1 .. N : <<l, m>> \in R /\ <<m, n>> \in R => <<l, n>> \in R

Below(N, R, n) == {m \in 1 .. N : <<m, n>> \in R}

\* The ranks in a strict total order are 0, 1, 2 and so on, in that order.
LEMMA Ranking ==
    ASSUME NEW N \in Nat, NEW R, StrictOrder(N, R)
    PROVE  /\ \A n \in 1 .. N : Cardinality(Below(N, R, n)) \in 0 .. N - 1
           /\ \A m, n \in 1 .. N : <<m, n>> \in R <=>
                 Cardinality(Below(N, R, m)) < Cardinality(Below(N, R, n))
           /\ \A k \in 1 .. N : \E n \in 1 .. N : Cardinality(Below(N, R, n)) = k - 1
<1>0. IsFiniteSet(1 .. N) /\ Cardinality(1 .. N) = N BY IntervalSize
<1>1. ASSUME NEW n \in 1 .. N
      PROVE Cardinality(Below(N, R, n)) \in 0 .. N - 1 /\ IsFiniteSet(Below(N, R, n))
  <2>1. Below(N, R, n) \in SUBSET (1 .. N) /\ Below(N, R, n) # 1 .. N
    BY DEF Below, StrictOrder
  <2>2. Cardinality(Below(N, R, n)) \in Nat /\ Cardinality(Below(N, R, n)) < N
        /\ IsFiniteSet(Below(N, R, n))
    BY <2>1, <1>0, PartSize
  <2> QED BY <2>2
<1>2. ASSUME NEW m \in 1 .. N, NEW n \in 1 .. N, <<m, n>> \in R
      PROVE Cardinality(Below(N, R, m)) < Cardinality(Below(N, R, n))
  <2>1. Below(N, R, m) \in SUBSET Below(N, R, n) /\ Below(N, R, m) # Below(N, R, n)
    BY <1>2 DEF Below, StrictOrder
  <2> QED BY <2>1, <1>1, PartSize
<1>3. ASSUME NEW m \in 1 .. N, NEW n \in 1 .. N,
             Cardinality(Below(N, R, m)) < Cardinality(Below(N, R, n))
      PROVE <<m, n>> \in R
  <2>1. Cardinality(Below(N, R, m)) \in Int /\ Cardinality(Below(N, R, n)) \in Int BY <1>1
  <2>2. m # n BY <2>1, <1>3
  <2>3. ~(<<n, m>> \in R) BY <2>1, <1>2, <1>3
  <2> QED BY <2>2, <2>3 DEF StrictOrder
<1>4. ASSUME NEW k \in 1 .. N PROVE \E n \in 1 .. N : Cardinality(Below(N, R, n)) = k - 1
  <2> DEFINE f == [n \in 1 .. N |-> Cardinality(Below(N, R, n))]
  <2>1. f \in [1 .. N -> 0 .. N - 1] BY <1>1
  <2>2. \A m, n \in 1 .. N : f[m] = f[n] => m = n
    <3> SUFFICES ASSUME NEW m \in 1 .. N, NEW n \in 1 .. N, m # n PROVE f[m] # f[n] OBVIOUS
    <3>1. <<m, n>> \in R \/ <<n, m>> \in R BY DEF StrictOrder
    <3>2. f[m] \in Int /\ f[n] \in Int BY <2>1
    <3>3. f[m] < f[n] \/ f[n] < f[m] BY <3>1, <1>2
    <3> QED BY <3>2, <3>3
  <2> HIDE DEF f
  <2>3. f \in Fin!Injection(1 .. N, 0 .. N - 1) BY <2>1, <2>2 DEF Fin!Injection, Fin!IsInjective
  <2>4. IsFiniteSet(0 .. N - 1) /\ Cardinality(0 .. N - 1) = N BY IntervalSize
  <2>5. f \in Fin!Surjection(1 .. N, 0 .. N - 1)
    BY <2>3, <2>4, <1>0, Fin!FS_Injection, SameSets
  <2>6. k - 1 \in 0 .. N - 1 OBVIOUS
  <2>7. PICK n \in 1 .. N : f[n] = k - 1 BY <2>5, <2>6 DEF Fin!Surjection
  <2> QED BY <2>7 DEF f
<1> QED BY <1>1, <1>2, <1>3, <1>4

-----------------------------------------------------------------------------
(* The positions of a draft, and their sort keys. *)

\* A draft's positions are finitely many.
LEMMA Positions ==
    ASSUME NEW d \in Seq(Instruction)
    PROVE  /\ DOMAIN d = 1 .. Len(d) /\ Len(d) \in Nat /\ IsFiniteSet(DOMAIN d)
           /\ Ends(d) \subseteq DOMAIN d /\ Retained(d) \subseteq DOMAIN d
           /\ DOMAIN d = Ends(d) \cup Retained(d) /\ Ends(d) \cap Retained(d) = {}
           /\ IsFiniteSet(Retained(d)) /\ Cardinality(Retained(d)) \in Nat
<1>1. DOMAIN d = 1 .. Len(d) /\ Len(d) \in Nat OBVIOUS
<1>2. IsFiniteSet(DOMAIN d) BY <1>1, IntervalSize
<1>3. Ends(d) \subseteq DOMAIN d /\ Retained(d) \in SUBSET DOMAIN d
      /\ DOMAIN d = Ends(d) \cup Retained(d) /\ Ends(d) \cap Retained(d) = {}
  BY DEF Ends, Retained
<1>4. IsFiniteSet(Retained(d)) /\ Cardinality(Retained(d)) \in Nat BY <1>2, <1>3, PartSize
<1> QED BY <1>1, <1>2, <1>3, <1>4

\* Boundaries grow with the position, and past each retained instruction.
LEMMA Boundaries ==
    ASSUME NEW d \in Seq(Instruction)
    PROVE  /\ \A n \in DOMAIN d : Boundary(d, n) \in 0 .. Cardinality(Retained(d))
           /\ \A m, n \in DOMAIN d : m <= n => Boundary(d, m) <= Boundary(d, n)
           /\ \A m \in Retained(d), n \in DOMAIN d : m < n => Boundary(d, m) + 1 <= Boundary(d, n)
           /\ \A m \in Retained(d) : Boundary(d, m) + 1 <= Cardinality(Retained(d))
<1> DEFINE B(n) == {m \in Retained(d) : m < n}
<1>1. IsFiniteSet(Retained(d)) /\ Cardinality(Retained(d)) \in Nat
      /\ DOMAIN d \subseteq Nat /\ Retained(d) \subseteq DOMAIN d
  <2>1. DOMAIN d = 1 .. Len(d) /\ Len(d) \in Nat BY Positions
  <2>2. DOMAIN d \subseteq Nat BY <2>1
  <2> QED BY <2>2, Positions
<1>2. \A n \in DOMAIN d : B(n) \in SUBSET Retained(d) OBVIOUS
<1>3. \A n \in DOMAIN d : IsFiniteSet(B(n)) /\ Boundary(d, n) \in 0 .. Cardinality(Retained(d))
                          /\ Cardinality(B(n)) = Boundary(d, n)
  <2> SUFFICES ASSUME NEW n \in DOMAIN d
               PROVE  IsFiniteSet(B(n)) /\ Boundary(d, n) \in 0 .. Cardinality(Retained(d))
                      /\ Cardinality(B(n)) = Boundary(d, n)
    OBVIOUS
  <2>1. IsFiniteSet(B(n)) /\ Cardinality(B(n)) <= Cardinality(Retained(d))
        /\ Cardinality(B(n)) \in Nat
    <3> HIDE DEF B
    <3> QED BY <1>1, <1>2, PartSize
  <2>2. Cardinality(B(n)) = Boundary(d, n) BY DEF Boundary
  <2> QED BY <2>1, <2>2, <1>1
<1>4. ASSUME NEW m \in DOMAIN d, NEW n \in DOMAIN d, m <= n
      PROVE Boundary(d, m) <= Boundary(d, n)
  <2>1. B(m) \in SUBSET B(n) BY <1>1, <1>4
  <2>2. Cardinality(B(m)) <= Cardinality(B(n))
    <3> HIDE DEF B
    <3> QED BY <2>1, <1>3, PartSize
  <2> QED BY <2>2, <1>3
<1>5. ASSUME NEW m \in Retained(d), NEW n \in DOMAIN d, m < n
      PROVE Boundary(d, m) + 1 <= Boundary(d, n)
  <2>1. B(m) \in SUBSET B(n) /\ B(m) # B(n) BY <1>1, <1>5
  <2>2. m \in DOMAIN d BY <1>1
  <2>3. Cardinality(B(m)) < Cardinality(B(n))
    <3> HIDE DEF B
    <3> QED BY <2>1, <1>3, PartSize
  <2>4. Boundary(d, m) < Boundary(d, n) /\ Boundary(d, m) \in Int /\ Boundary(d, n) \in Int
    <3> HIDE DEF B
    <3> QED BY <2>2, <2>3, <1>1, <1>3
  <2> QED BY <2>4
<1>6. ASSUME NEW m \in Retained(d) PROVE Boundary(d, m) + 1 <= Cardinality(Retained(d))
  <2>1. B(m) \in SUBSET Retained(d) /\ B(m) # Retained(d) BY <1>1, <1>6
  <2>2. m \in DOMAIN d BY <1>1
  <2>3. Cardinality(B(m)) < Cardinality(Retained(d))
    <3> HIDE DEF B
    <3> QED BY <2>1, <1>1, PartSize
  <2>4. Boundary(d, m) \in Int /\ Boundary(d, m) < Cardinality(Retained(d))
    <3> HIDE DEF B
    <3> QED BY <2>2, <2>3, <1>1, <1>3
  <2> QED BY <2>4, <1>1
<1> QED BY <1>3, <1>4, <1>5, <1>6

\* The walk up takes a number of steps, whatever it meets.
LEMMA DepthType ==
    ASSUME NEW d, NEW l
    PROVE  Depth(d, l) \in Int
<1> DEFINE up[k \in 0 .. MaxParentDepth] == IF k = 0 THEN l ELSE Parent(d, up[k - 1])
           U == {k \in 1 .. MaxParentDepth : up[k] # NoLoan}
<1>1. Depth(d, l) = Cardinality(U) BY DEF Depth
<1> HIDE DEF up
<1>2. U \in SUBSET (1 .. MaxParentDepth) OBVIOUS
<1>3. IsFiniteSet(1 .. MaxParentDepth)
  <2>1. 1 \in Int /\ MaxParentDepth \in Int BY LoanEndPlanAssumption
  <2> QED BY <2>1, Fin!FS_Interval, SameSets
<1>4. Cardinality(U) \in Nat
  <2> HIDE DEF U
  <2> QED BY <1>2, <1>3, PartSize
<1> QED BY <1>1, <1>4

\* Keys are compared lexicographically.
LEMMA LessParts ==
    ASSUME NEW k1, NEW k2
    PROVE  Less(k1, k2) <=>
               \/ k1[1] < k2[1]
               \/ k1[1] = k2[1] /\ k1[2] < k2[2]
               \/ k1[1] = k2[1] /\ k1[2] = k2[2] /\ k1[3] < k2[3]
               \/ k1[1] = k2[1] /\ k1[2] = k2[2] /\ k1[3] = k2[3] /\ k1[4] < k2[4]
<1>1. 1 .. 4 = {1, 2, 3, 4} /\ 1 .. 1 - 1 = {} /\ 1 .. 2 - 1 = {1} /\ 1 .. 3 - 1 = {1, 2}
      /\ 1 .. 4 - 1 = {1, 2, 3} OBVIOUS
<1> QED BY <1>1 DEF Less

\* The keys of a draft are lists of integers, different for different positions.
KeyList(k, n) == k[1] \in Int /\ k[2] \in Int /\ k[3] \in Int /\ k[4] = n

LEMMA KeyType ==
    ASSUME NEW d \in Seq(Instruction), NEW b \in [Ends(d) -> Nat], NEW n \in DOMAIN d
    PROVE  /\ KeyList(Key(d, b, n), n) /\ n \in Int
           /\ n \in Ends(d) => Key(d, b, n)[1] = b[n] /\ Key(d, b, n)[2] = 0
           /\ n \in Retained(d) => /\ Key(d, b, n)[1] = Boundary(d, n) /\ Key(d, b, n)[2] = 1
                                   /\ Key(d, b, n)[3] = 0
<1>1. n \in Int
  <2>1. DOMAIN d = 1 .. Len(d) /\ Len(d) \in Nat BY Positions
  <2> QED BY <2>1
<1>2. Depth(d, d[n].loan) \in Int BY DepthType
<1>3. Boundary(d, n) \in Int BY Boundaries, Positions
<1>4. ASSUME n \in Ends(d)
      PROVE KeyList(Key(d, b, n), n) /\ Key(d, b, n)[1] = b[n] /\ Key(d, b, n)[2] = 0
  <2>1. Key(d, b, n) = <<b[n], 0, -Depth(d, d[n].loan), n>> BY <1>4 DEF Key
  <2>2. b[n] \in Int BY <1>4
  <2>3. PICK z \in Int : z = -Depth(d, d[n].loan) BY <1>2
  <2>4. Key(d, b, n) = <<b[n], 0, z, n>> BY <2>1, <2>3
  <2> QED BY <2>2, <2>4 DEF KeyList
<1>5. ASSUME n \in Retained(d)
      PROVE KeyList(Key(d, b, n), n) /\ Key(d, b, n)[1] = Boundary(d, n) /\ Key(d, b, n)[2] = 1
            /\ Key(d, b, n)[3] = 0
  <2>1. n \notin Ends(d) BY <1>5, Positions
  <2>2. Key(d, b, n) = <<Boundary(d, n), 1, 0, n>> BY <2>1 DEF Key
  <2> QED BY <2>2, <1>3 DEF KeyList
<1>6. n \in Ends(d) \/ n \in Retained(d) BY Positions
<1> QED BY <1>1, <1>4, <1>5, <1>6

\* Such keys are strictly and totally ordered.
LEMMA KeyOrder ==
    ASSUME NEW l \in Int, NEW m \in Int, NEW n \in Int, NEW k, NEW p, NEW q,
           KeyList(k, l), KeyList(p, m), KeyList(q, n)
    PROVE  /\ l # m => Less(k, p) \/ Less(p, k)
           /\ ~Less(k, k)
           /\ Less(k, p) /\ Less(p, q) => Less(k, q)
<1>1. l # m => Less(k, p) \/ Less(p, k) BY LessParts DEF KeyList
<1>2. ~Less(k, k) BY LessParts DEF KeyList
<1>3. Less(k, p) /\ Less(p, q) => Less(k, q) BY LessParts DEF KeyList
<1> QED BY <1>1, <1>2, <1>3

\* A sorted block has every instruction of the draft once, in the order of the keys.
LEMMA SortedOrder ==
    ASSUME NEW d \in Seq(Instruction), NEW b \in [Ends(d) -> Nat], NEW s, s = Sorted(d, b)
    PROVE  /\ s \in [DOMAIN d -> DOMAIN d]
           /\ \A n \in DOMAIN d : \E k \in DOMAIN d : s[k] = n
           /\ \A j, k \in DOMAIN d : j < k => Less(Key(d, b, s[j]), Key(d, b, s[k]))
<1>N. PICK N : N = Len(d) OBVIOUS
<1>1. DOMAIN d = 1 .. N /\ N \in Nat BY <1>N, Positions
<1> DEFINE Rel == {r \in (1 .. N) \X (1 .. N) : Less(Key(d, b, r[1]), Key(d, b, r[2]))}
<1>R. PICK R : R = Rel OBVIOUS
<1>2. \A m, n \in 1 .. N : <<m, n>> \in R <=> Less(Key(d, b, m), Key(d, b, n)) BY <1>R
<1>3. StrictOrder(N, R)
  <2>1. \A n \in 1 .. N : n \in Int /\ KeyList(Key(d, b, n), n) BY <1>1, KeyType
  <2>2. \A l, m, n \in 1 .. N :
          /\ l # m => Less(Key(d, b, l), Key(d, b, m)) \/ Less(Key(d, b, m), Key(d, b, l))
          /\ ~Less(Key(d, b, l), Key(d, b, l))
          /\ Less(Key(d, b, l), Key(d, b, m)) /\ Less(Key(d, b, m), Key(d, b, n))
                => Less(Key(d, b, l), Key(d, b, n))
    BY <2>1, KeyOrder
  <2> QED BY <2>2, <1>2 DEF StrictOrder
<1>4. ASSUME NEW n \in 1 .. N
      PROVE {m \in DOMAIN d : Less(Key(d, b, m), Key(d, b, n))} = Below(N, R, n)
  BY <1>1, <1>2 DEF Below
<1> DEFINE rank(n) == Cardinality(Below(N, R, n))
<1>5. /\ \A n \in 1 .. N : rank(n) \in 0 .. N - 1
      /\ \A m, n \in 1 .. N : <<m, n>> \in R <=> rank(m) < rank(n)
      /\ \A k \in 1 .. N : \E n \in 1 .. N : rank(n) = k - 1
  BY <1>1, <1>3, Ranking
<1>6. DOMAIN s = 1 .. N /\ \A k \in 1 .. N : s[k] = CHOOSE n \in DOMAIN d :
        Cardinality({m \in DOMAIN d : Less(Key(d, b, m), Key(d, b, n))}) = k - 1
  BY <1>1 DEF Sorted
<1>7. ASSUME NEW k \in 1 .. N PROVE s[k] \in 1 .. N /\ rank(s[k]) = k - 1
  <2>1. PICK n \in 1 .. N : rank(n) = k - 1 BY <1>5
  <2>2. Cardinality({m \in DOMAIN d : Less(Key(d, b, m), Key(d, b, n))}) = k - 1 BY <2>1, <1>4
  <2>3. s[k] \in DOMAIN d
        /\ Cardinality({m \in DOMAIN d : Less(Key(d, b, m), Key(d, b, s[k]))}) = k - 1
    BY <2>2, <1>1, <1>6
  <2> QED BY <2>3, <1>1, <1>4
<1> HIDE DEF rank
<1>8. s \in [DOMAIN d -> DOMAIN d]
  <2> DEFINE c(k) == CHOOSE n \in DOMAIN d :
                Cardinality({m \in DOMAIN d : Less(Key(d, b, m), Key(d, b, n))}) = k - 1
  <2>1. s = [k \in DOMAIN d |-> c(k)] BY DEF Sorted
  <2> HIDE DEF c
  <2>2. \A k \in DOMAIN d : c(k) \in DOMAIN d BY <2>1, <1>1, <1>7
  <2> QED BY <2>1, <2>2
<1>9. ASSUME NEW n \in DOMAIN d PROVE \E k \in DOMAIN d : s[k] = n
  <2>1. rank(n) \in 0 .. N - 1 BY <1>1, <1>5
  <2>2. PICK k \in 1 .. N : k - 1 = rank(n)
    <3>1. rank(n) + 1 \in 1 .. N /\ (rank(n) + 1) - 1 = rank(n) BY <2>1, <1>1
    <3> QED BY <3>1
  <2>3. s[k] \in 1 .. N /\ rank(s[k]) = rank(n) BY <1>7, <2>2
  <2>4. ~(rank(s[k]) < rank(n)) /\ ~(rank(n) < rank(s[k])) BY <2>1, <2>3
  <2>5. <<s[k], n>> \notin R /\ <<n, s[k]>> \notin R BY <2>3, <2>4, <1>1, <1>5
  <2>6. s[k] = n BY <2>3, <2>5, <1>1, <1>3 DEF StrictOrder
  <2> QED BY <2>6, <1>1
<1>10. ASSUME NEW j \in DOMAIN d, NEW k \in DOMAIN d, j < k
       PROVE Less(Key(d, b, s[j]), Key(d, b, s[k]))
  <2>1. s[j] \in 1 .. N /\ rank(s[j]) = j - 1 /\ s[k] \in 1 .. N /\ rank(s[k]) = k - 1
    BY <1>1, <1>7
  <2>2. rank(s[j]) < rank(s[k]) BY <2>1, <1>10, <1>1
  <2> QED BY <2>1, <2>2, <1>2, <1>5
<1> QED BY <1>8, <1>9, <1>10

-----------------------------------------------------------------------------
(* Names. *)

\* The names of the locals V have been given out (the first f are), each to one
\* local.
InScope(V, f) ==
    /\ \A x \in DOMAIN V : \A n \in NamesOf(V[x].holder) : n \in Nat /\ n <= f
    /\ \A x, y \in DOMAIN V : x # y => NamesOf(V[x].holder) \cap NamesOf(V[y].holder) = {}

\* No local has a name whose end is pending in d.
Retired(d, V, f) ==
    \A e \in Ends(d) :
        /\ \A n \in NamesOf(d[e].at) : n \in Nat /\ n <= f
        /\ \A x \in DOMAIN V : NamesOf(V[x].holder) \cap NamesOf(d[e].at) = {}

\* An end is behind the definitions and the uses of what it ends.
Behind(d) == \A e \in Ends(d) : \A m \in Definers(d, e) \cup Users(d, e) : m < e

\* The names of y, a local of W, are those of some local of V (its origin, g[y]),
\* and new ones if y is z.
Origin(V, W, g, z, New, y) ==
    LET new == IF y = z THEN New ELSE {} IN
    \/ NamesOf(W[y].holder) \subseteq new
    \/ g[y] \in DOMAIN V /\ NamesOf(W[y].holder) \subseteq NamesOf(V[g[y]].holder) \cup new

Derived(V, W, f, h, g, z, New) ==
    /\ \A n \in New : n \in Nat /\ f < n /\ n <= h
    /\ \A y \in DOMAIN W : Origin(V, W, g, z, New, y)
    /\ \A x, y \in DOMAIN W : x # y => g[x] # g[y]

\* If the locals have different origins and only one has new names, each name
\* still belongs to one local, and the names that ended stay unused.
LEMMA ScopeStep ==
    ASSUME NEW V, NEW W, NEW d, NEW f \in Nat, NEW h \in Nat, f <= h,
           InScope(V, f), Retired(d, V, f),
           NEW g, NEW z, NEW New, Derived(V, W, f, h, g, z, New)
    PROVE  InScope(W, h) /\ Retired(d, W, h)
<1>0. /\ \A n \in New : n \in Nat /\ f < n /\ n <= h
      /\ \A y \in DOMAIN W : Origin(V, W, g, z, New, y)
      /\ \A x, y \in DOMAIN W : x # y => g[x] # g[y]
  BY DEF Derived
<1>1. ASSUME NEW y \in DOMAIN W, NEW n \in NamesOf(W[y].holder)
      PROVE (y = z /\ n \in New) \/ (g[y] \in DOMAIN V /\ n \in NamesOf(V[g[y]].holder))
  BY <1>0, <1>1 DEF Origin
<1>2. ASSUME NEW y \in DOMAIN W, NEW n \in NamesOf(W[y].holder) PROVE n \in Nat /\ n <= h
  BY <1>0, <1>1, <1>2 DEF InScope
<1>3. ASSUME NEW x \in DOMAIN W, NEW y \in DOMAIN W, x # y,
             NEW n \in NamesOf(W[x].holder), n \in NamesOf(W[y].holder)
      PROVE FALSE
  <2>1. (x = z /\ n \in New) \/ (g[x] \in DOMAIN V /\ n \in NamesOf(V[g[x]].holder)) BY <1>1, <1>3
  <2>2. (y = z /\ n \in New) \/ (g[y] \in DOMAIN V /\ n \in NamesOf(V[g[y]].holder)) BY <1>1, <1>3
  <2>3. g[x] # g[y] BY <1>0, <1>3
  <2>4. ~(x = z /\ y = z) BY <1>3
  <2>5. \A u \in DOMAIN V : n \in NamesOf(V[u].holder) => n \notin New BY <1>0 DEF InScope
  <2>6. ~(g[x] \in DOMAIN V /\ g[y] \in DOMAIN V /\ n \in NamesOf(V[g[x]].holder)
          /\ n \in NamesOf(V[g[y]].holder))
    BY <2>3 DEF InScope
  <2> QED BY <2>1, <2>2, <2>4, <2>5, <2>6
<1>4. ASSUME NEW e \in Ends(d), NEW n \in NamesOf(d[e].at) PROVE n \in Nat /\ n <= f /\ n <= h
  <2>1. n \in Nat /\ n <= f BY <1>4 DEF Retired
  <2> QED BY <2>1
<1>5. ASSUME NEW e \in Ends(d), NEW y \in DOMAIN W,
             NEW n \in NamesOf(W[y].holder), n \in NamesOf(d[e].at)
      PROVE FALSE
  <2>1. n \in Nat /\ n <= f BY <1>4, <1>5
  <2>2. n \notin New BY <1>0, <2>1
  <2>3. g[y] \in DOMAIN V /\ n \in NamesOf(V[g[y]].holder) BY <1>1, <1>5, <2>2
  <2> QED BY <2>3, <1>5 DEF Retired
<1>6. InScope(W, h) BY <1>2, <1>3 DEF InScope
<1>7. Retired(d, W, h) BY <1>4, <1>5 DEF Retired
<1> QED BY <1>6, <1>7

\* Draft c is d with one more instruction.
Emitting(c, d, i) == c = Append(d, i)

LEMMA AppendParts ==
    ASSUME NEW d \in Seq(Instruction), NEW i \in Instruction, NEW c, Emitting(c, d, i)
    PROVE  /\ c \in Seq(Instruction) /\ Len(c) = Len(d) + 1
           /\ \A n \in DOMAIN d : c[n] = d[n] /\ n \in Nat /\ n < Len(d) + 1
           /\ c[Len(d) + 1] = i
           /\ DOMAIN c = DOMAIN d \cup {Len(d) + 1} /\ Len(d) + 1 \notin DOMAIN d
           /\ i.op \in Pending => /\ Ends(c) = Ends(d) \cup {Len(d) + 1}
                                  /\ Retained(c) = Retained(d)
           /\ i.op \notin Pending => /\ Ends(c) = Ends(d)
                                     /\ Retained(c) = Retained(d) \cup {Len(d) + 1}
<1>1. c \in Seq(Instruction) /\ Len(c) = Len(d) + 1 /\ c[Len(d) + 1] = i
      /\ \A n \in 1 .. Len(d) : c[n] = d[n]
  BY DEF Emitting
<1>2. DOMAIN d = 1 .. Len(d) /\ Len(d) \in Nat /\ DOMAIN c = 1 .. Len(c) BY <1>1
<1>3. DOMAIN c = DOMAIN d \cup {Len(d) + 1} /\ Len(d) + 1 \notin DOMAIN d
      /\ \A n \in DOMAIN d : n \in Nat /\ n < Len(d) + 1
  BY <1>1, <1>2
<1>4. \A n \in DOMAIN d : c[n] = d[n] BY <1>1, <1>2
<1>5. PICK last : last = Len(d) + 1 OBVIOUS
<1>6. DOMAIN c = DOMAIN d \cup {last} /\ last \notin DOMAIN d /\ c[last] = i BY <1>1, <1>3, <1>5
<1>7. i.op \in Pending => Ends(c) = Ends(d) \cup {last} /\ Retained(c) = Retained(d)
  BY <1>4, <1>6 DEF Ends, Retained
<1>8. i.op \notin Pending => Ends(c) = Ends(d) /\ Retained(c) = Retained(d) \cup {last}
  BY <1>4, <1>6 DEF Ends, Retained
<1> QED BY <1>1, <1>3, <1>4, <1>5, <1>7, <1>8

\* An instruction that is no end, uses the names of a local and defines new ones,
\* says nothing of a name that has ended.
LEMMA Retaining ==
    ASSUME NEW d \in Seq(Instruction), NEW i \in Instruction, i.op \notin Pending,
           NEW V, NEW f \in Nat, Retired(d, V, f), Behind(d),
           NEW W, NEW h, Retired(d, W, h),
           NamesOf(i.at) = {} \/ \E x \in DOMAIN V : i.at = V[x].holder,
           \A n \in Results(i) : n \in Nat /\ f < n,
           NEW c, Emitting(c, d, i)
    PROVE  Behind(c) /\ Retired(c, W, h)
<1>l. PICK last : last = Len(d) + 1 OBVIOUS
<1>a. /\ \A n \in DOMAIN d : c[n] = d[n] /\ n \in Nat /\ n < Len(d) + 1
      /\ c[Len(d) + 1] = i
      /\ Ends(c) = Ends(d) /\ Retained(c) = Retained(d) \cup {Len(d) + 1}
  BY AppendParts
<1>1. /\ Ends(c) = Ends(d) /\ Retained(c) = Retained(d) \cup {last}
      /\ \A n \in DOMAIN d : c[n] = d[n]
      /\ c[last] = i
  BY <1>l, <1>a
<1>2. Ends(d) \subseteq DOMAIN d /\ Retained(d) \subseteq DOMAIN d BY Positions
<1>3. ASSUME NEW e \in Ends(d) PROVE Definers(c, e) = Definers(d, e) /\ Users(c, e) = Users(d, e)
  <2>1. c[e] = d[e] /\ \A m \in Retained(d) : c[m] = d[m] BY <1>1, <1>2, <1>3
  <2>2. Results(c[last]) \cap NamesOf(d[e].at) = {} BY <1>1, <1>3 DEF Retired
  <2>3. NamesOf(c[last].at) \cap NamesOf(d[e].at) = {} BY <1>1, <1>3 DEF Retired
  <2> QED BY <1>1, <2>1, <2>2, <2>3 DEF Definers, Users
<1>4. Behind(c) BY <1>1, <1>3 DEF Behind
<1>5. Retired(c, W, h) BY <1>1, <1>2 DEF Retired
<1> QED BY <1>4, <1>5

\* A new end is behind everything, and its names have left the scope.
LEMMA Ending ==
    ASSUME NEW d \in Seq(Instruction), NEW i \in Instruction, i.op \in Pending, Behind(d),
           NEW W, NEW h, Retired(d, W, h),
           \A n \in NamesOf(i.at) : n \in Nat /\ n <= h,
           \A x \in DOMAIN W : NamesOf(W[x].holder) \cap NamesOf(i.at) = {},
           NEW c, Emitting(c, d, i)
    PROVE  Behind(c) /\ Retired(c, W, h)
<1>l. PICK last : last = Len(d) + 1 OBVIOUS
<1>1. /\ Ends(c) = Ends(d) \cup {last} /\ Retained(c) = Retained(d)
      /\ \A n \in DOMAIN d : c[n] = d[n] /\ n < last
      /\ c[last] = i
  <2>1. /\ \A n \in DOMAIN d : c[n] = d[n] /\ n \in Nat /\ n < Len(d) + 1
        /\ c[Len(d) + 1] = i
        /\ Ends(c) = Ends(d) \cup {Len(d) + 1} /\ Retained(c) = Retained(d)
    BY AppendParts
  <2> QED BY <1>l, <2>1
<1>2. Ends(d) \subseteq DOMAIN d /\ Retained(d) \subseteq DOMAIN d BY Positions
<1>3. ASSUME NEW e \in Ends(d) PROVE Definers(c, e) = Definers(d, e) /\ Users(c, e) = Users(d, e)
  <2>1. c[e] = d[e] /\ \A m \in Retained(d) : c[m] = d[m] BY <1>1, <1>2, <1>3
  <2> QED BY <1>1, <2>1 DEF Definers, Users
<1>4. Definers(c, last) \cup Users(c, last) \subseteq DOMAIN d BY <1>1, <1>2 DEF Definers, Users
<1>5. Behind(c) BY <1>1, <1>3, <1>4 DEF Behind
<1>6. Retired(c, W, h) BY <1>1, <1>2 DEF Retired
<1> QED BY <1>5, <1>6

-----------------------------------------------------------------------------
(* Lowering. *)

\* What the lowered part of a block satisfies: en, d, V, f and nl are the values
\* of entry, draft, env, fresh and nextLoan.
Spent(en, d) == Cardinality(Retained(d)) + IF en = "Nothing" THEN 0 ELSE 1

LowerPart(en, d, V, f, nl) ==
    /\ d \in Seq(Instruction) /\ V \in Seq(Local) /\ f \in Names /\ nl \in Nat
    /\ f <= 2 * Spent(en, d) + 2
    /\ InScope(V, f) /\ Retired(d, V, f) /\ Behind(d)

LowerInv == LowerPart(entry, draft, env, fresh, nextLoan)

\* The instructions lowered so far are the retained ones.
LEMMA EmittedSpent == Emitted = Spent(entry, draft)
<1>1. {n \in DOMAIN draft : draft[n].op \notin Pending} = Retained(draft) BY DEF Retained, Ends
<1> QED BY <1>1 DEF Emitted, Spent

\* Each one counts.
LEMMA SpentMore ==
    ASSUME NEW en, NEW d \in Seq(Instruction), NEW i \in Instruction, NEW c, Emitting(c, d, i)
    PROVE  /\ Spent(en, d) \in Nat /\ Spent(en, c) \in Nat
           /\ i.op \in Pending => Spent(en, c) = Spent(en, d)
           /\ i.op \notin Pending => Spent(en, c) = Spent(en, d) + 1
<1>l. PICK last : last = Len(d) + 1 OBVIOUS
<1>1. /\ Len(d) + 1 \notin DOMAIN d
      /\ i.op \in Pending => Retained(c) = Retained(d)
      /\ i.op \notin Pending => Retained(c) = Retained(d) \cup {Len(d) + 1}
  BY AppendParts
<1>2. IsFiniteSet(Retained(d)) /\ Cardinality(Retained(d)) \in Nat /\ Retained(d) \subseteq DOMAIN d
  BY Positions
<1>3. last \notin Retained(d) BY <1>l, <1>1, <1>2
<1>4. Cardinality(Retained(d) \cup {last}) = Cardinality(Retained(d)) + 1
  BY <1>2, <1>3, Fin!FS_AddElement, SameSets
<1>5. PICK x \in Nat : x = IF en = "Nothing" THEN 0 ELSE 1 OBVIOUS
<1>6. Spent(en, d) = Cardinality(Retained(d)) + x /\ Spent(en, c) = Cardinality(Retained(c)) + x
  BY <1>5 DEF Spent
<1>7. i.op \notin Pending => Cardinality(Retained(c)) = Cardinality(Retained(d)) + 1
  BY <1>l, <1>1, <1>4
<1>8. i.op \in Pending => Cardinality(Retained(c)) = Cardinality(Retained(d)) BY <1>1
<1> QED BY <1>2, <1>5, <1>6, <1>7, <1>8

\* The names that may be given out.
LEMMA NamesType ==
    /\ Names = 0 .. 2 * MaxInstructions + 4 /\ MaxInstructions \in Nat
    /\ NoHolder \in Holder /\ EntryHolder \in Holder
    /\ \A h \in Holder : NamesOf(h) \subseteq Nat
    /\ NamesOf(NoHolder) = {}
BY LoanEndPlanAssumption DEF Names, NoName, NoHolder, EntryHolder, Holder, NamesOf

\* There is room for two more names while there is room for an instruction.
LEMMA RoomForNames ==
    ASSUME NEW en, NEW d \in Seq(Instruction), NEW f \in Names, f <= 2 * Spent(en, d) + 2,
           Spent(en, d) < MaxInstructions
    PROVE  f \in Nat /\ f + 1 \in Names /\ f + 2 \in Names /\ Spent(en, d) \in Nat
<1>0. Cardinality(Retained(d)) \in Nat BY Positions
<1>1. Spent(en, d) \in Nat BY <1>0 DEF Spent
<1> QED BY <1>1, NamesType

\* The effect of one retained instruction on a block.
LEMMA RetainedStep ==
    ASSUME NEW en, NEW d, NEW V, NEW f, NEW nl, LowerPart(en, d, V, f, nl),
           Spent(en, d) < MaxInstructions,
           NEW i \in Instruction, i.op \notin Pending, NEW c, Emitting(c, d, i),
           NamesOf(i.at) = {} \/ \E x \in DOMAIN V : i.at = V[x].holder,
           \A n \in Results(i) : n \in Nat /\ f < n,
           NEW W \in Seq(Local), NEW h \in f .. f + 2, NEW ml \in Nat,
           InScope(W, h), Retired(d, W, h)
    PROVE  LowerPart(en, c, W, h, ml)
<1>1. d \in Seq(Instruction) /\ f \in Names /\ f <= 2 * Spent(en, d) + 2
      /\ Retired(d, V, f) /\ Behind(d)
  BY DEF LowerPart
<1>2. f \in Nat /\ f + 1 \in Names /\ f + 2 \in Names /\ Spent(en, d) \in Nat BY <1>1, RoomForNames
<1>3. Spent(en, c) = Spent(en, d) + 1 BY <1>1, SpentMore
<1>4. h \in Names
  <2>1. Names = 0 .. 2 * MaxInstructions + 4 /\ MaxInstructions \in Nat BY NamesType
  <2> QED BY <2>1, <1>2
<1>5. h <= 2 * Spent(en, c) + 2 BY <1>1, <1>2, <1>3
<1>6. c \in Seq(Instruction) BY <1>1, AppendParts
<1>7. Behind(c) /\ Retired(c, W, h) BY <1>1, <1>2, Retaining
<1> QED BY <1>4, <1>5, <1>6, <1>7 DEF LowerPart

\* The effect of a pending end.
LEMMA EndStep ==
    ASSUME NEW en, NEW d, NEW V, NEW f, NEW nl, LowerPart(en, d, V, f, nl),
           NEW i \in Instruction, i.op \in Pending, NEW c, Emitting(c, d, i),
           NEW W \in Seq(Local), InScope(W, f), Retired(d, W, f),
           \A n \in NamesOf(i.at) : n \in Nat /\ n <= f,
           \A x \in DOMAIN W : NamesOf(W[x].holder) \cap NamesOf(i.at) = {}
    PROVE  LowerPart(en, c, W, f, nl)
<1>1. d \in Seq(Instruction) /\ f \in Names /\ f <= 2 * Spent(en, d) + 2 /\ nl \in Nat
      /\ Behind(d)
  BY DEF LowerPart
<1>3. Spent(en, c) = Spent(en, d) BY <1>1, SpentMore
<1>6. c \in Seq(Instruction) BY <1>1, AppendParts
<1>7. Behind(c) /\ Retired(c, W, f) BY <1>1, Ending
<1> QED BY <1>1, <1>3, <1>6, <1>7 DEF LowerPart

\* Scope W is V with one more local, or without its local x.
Declaring(W, V, a) == W = Append(V, a)
Leaving(W, V, x) == W = SubSeq(V, 1, x - 1) \o SubSeq(V, x + 1, Len(V))

LEMMA DeclaringParts ==
    ASSUME NEW V \in Seq(Local), NEW a \in Local, NEW W, Declaring(W, V, a)
    PROVE  /\ W \in Seq(Local) /\ Len(V) \in Nat
           /\ DOMAIN V = 1 .. Len(V) /\ DOMAIN W = 1 .. Len(V) + 1
           /\ \A y \in 1 .. Len(V) : W[y] = V[y]
           /\ W[Len(V) + 1] = a
<1>1. W \in Seq(Local) /\ Len(W) = Len(V) + 1 /\ W[Len(V) + 1] = a
      /\ \A n \in 1 .. Len(V) : W[n] = V[n]
  BY DEF Declaring
<1>2. DOMAIN V = 1 .. Len(V) /\ Len(V) \in Nat OBVIOUS
<1>3. DOMAIN W = 1 .. Len(W) BY <1>1
<1> QED BY <1>1, <1>2, <1>3

\* The two parts of a list around its element x.
LEMMA SeqParts ==
    ASSUME NEW S, NEW s \in Seq(S), NEW x \in 1 .. Len(s), NEW u, NEW v,
           u = SubSeq(s, 1, x - 1), v = SubSeq(s, x + 1, Len(s))
    PROVE  /\ u \in Seq(S) /\ Len(u) = x - 1 /\ \A y \in 1 .. x - 1 : u[y] = s[y]
           /\ v \in Seq(S) /\ Len(v) = Len(s) - x /\ \A y \in 1 .. Len(s) - x : v[y] = s[x + y]
<1>0. Len(s) \in Nat /\ x \in Nat /\ x >= 1 /\ x <= Len(s) OBVIOUS
<1>1. u \in Seq(S) /\ Len(u) = x - 1 /\ \A y \in 1 .. x - 1 : u[y] = s[y]
  BY <1>0
<1>2. v \in Seq(S) /\ Len(v) = Len(s) - x /\ \A y \in 1 .. Len(s) - x : v[y] = s[x + y]
  BY <1>0
<1> QED BY <1>1, <1>2

Joined(t, u, v) == t = u \o v

LEMMA SeqConcat ==
    ASSUME NEW S, NEW u \in Seq(S), NEW v \in Seq(S), NEW t, Joined(t, u, v)
    PROVE  /\ t \in Seq(S) /\ Len(t) = Len(u) + Len(v) /\ DOMAIN t = 1 .. Len(u) + Len(v)
           /\ \A y \in 1 .. Len(u) + Len(v) : t[y] = IF y <= Len(u) THEN u[y] ELSE v[y - Len(u)]
<1>1. /\ t \in Seq(S) /\ Len(t) = Len(u) + Len(v)
      /\ \A y \in 1 .. Len(u) + Len(v) : t[y] = IF y <= Len(u) THEN u[y] ELSE v[y - Len(u)]
  BY Seqs!ConcatProperties, Zenon DEF Joined
<1>2. DOMAIN t = 1 .. Len(t) BY <1>1
<1> QED BY <1>1, <1>2

\* Where a position of the shortened list was.
Skip(x, y) == IF y < x THEN y ELSE y + 1

LEMMA SkipParts ==
    ASSUME NEW N \in Nat, NEW x \in 1 .. N
    PROVE  /\ \A y \in 1 .. N - 1 : Skip(x, y) \in 1 .. N /\ Skip(x, y) # x
           /\ \A y, z \in 1 .. N - 1 : y # z => Skip(x, y) # Skip(x, z)
BY DEF Skip

LEMMA LeavingParts ==
    ASSUME NEW V \in Seq(Local), NEW x \in 1 .. Len(V), NEW W, Leaving(W, V, x)
    PROVE  /\ W \in Seq(Local) /\ Len(V) \in Nat /\ DOMAIN V = 1 .. Len(V)
           /\ DOMAIN W = 1 .. Len(V) - 1
           /\ \A y \in 1 .. Len(V) - 1 : W[y] = V[Skip(x, y)]
<1>0. Len(V) \in Nat /\ DOMAIN V = 1 .. Len(V) OBVIOUS
<1>n. PICK N \in Nat : N = Len(V) BY <1>0
<1>x. x \in Nat /\ x >= 1 /\ x <= N BY <1>n
<1>u. PICK u : u = SubSeq(V, 1, x - 1) OBVIOUS
<1>v. PICK v : v = SubSeq(V, x + 1, Len(V)) OBVIOUS
<1>1. /\ u \in Seq(Local) /\ Len(u) = x - 1 /\ \A y \in 1 .. x - 1 : u[y] = V[y]
      /\ v \in Seq(Local) /\ Len(v) = N - x /\ \A y \in 1 .. N - x : v[y] = V[x + y]
  BY <1>n, <1>u, <1>v, SeqParts
<1>3. Joined(W, u, v) BY <1>u, <1>v DEF Leaving, Joined
<1>4. /\ W \in Seq(Local) /\ DOMAIN W = 1 .. Len(u) + Len(v)
      /\ \A y \in 1 .. Len(u) + Len(v) : W[y] = IF y <= Len(u) THEN u[y] ELSE v[y - Len(u)]
  <2>1. u \in Seq(Local) /\ v \in Seq(Local) BY <1>1
  <2>2. /\ W \in Seq(Local) /\ Len(W) = Len(u) + Len(v) /\ DOMAIN W = 1 .. Len(u) + Len(v)
        /\ \A y \in 1 .. Len(u) + Len(v) : W[y] = IF y <= Len(u) THEN u[y] ELSE v[y - Len(u)]
    BY <2>1, <1>3, SeqConcat
  <2> QED BY <2>2
<1>5. Len(u) + Len(v) = N - 1 BY <1>1, <1>x
<1>7. ASSUME NEW y \in 1 .. N - 1 PROVE W[y] = V[Skip(x, y)]
  <2>0. y \in Nat /\ y >= 1 /\ y <= N - 1 OBVIOUS
  <2>1. W[y] = IF y <= x - 1 THEN u[y] ELSE v[y - (x - 1)] BY <1>1, <1>4, <1>5
  <2>2. CASE y < x
    <3>1. y \in 1 .. x - 1 /\ y <= x - 1 BY <2>0, <2>2, <1>x
    <3>2. W[y] = u[y] BY <3>1, <2>1
    <3>3. u[y] = V[y] BY <3>1, <1>1
    <3> QED BY <3>2, <3>3, <2>2 DEF Skip
  <2>3. CASE ~(y < x)
    <3>1. PICK w : w = y - (x - 1) OBVIOUS
    <3>2. w \in 1 .. N - x /\ x + w = y + 1 /\ ~(y <= x - 1) BY <3>1, <2>0, <2>3, <1>x
    <3>3. W[y] = v[w] BY <3>1, <3>2, <2>1
    <3>4. v[w] = V[x + w] BY <3>2, <1>1
    <3>5. W[y] = V[y + 1] BY <3>2, <3>3, <3>4
    <3> QED BY <3>5, <2>3 DEF Skip
  <2> QED BY <2>2, <2>3
<1> QED BY <1>0, <1>4, <1>5, <1>7, <1>n

\* A local with new names comes into scope.
LEMMA ScopeNew ==
    ASSUME NEW V \in Seq(Local), NEW d, NEW f \in Nat, InScope(V, f), Retired(d, V, f),
           NEW a \in Local, NamesOf(a.holder) \subseteq {f + 1, f + 2}, NEW W, Declaring(W, V, a)
    PROVE  W \in Seq(Local) /\ InScope(W, f + 2) /\ Retired(d, W, f + 2)
<1> PICK g : g = [y \in Nat |-> y] OBVIOUS
<1> PICK N : N = Len(V) OBVIOUS
<1>0. /\ W \in Seq(Local) /\ N \in Nat /\ DOMAIN V = 1 .. N /\ DOMAIN W = 1 .. N + 1
      /\ \A y \in 1 .. N : W[y] = V[y]
      /\ W[N + 1] = a
  BY DeclaringParts
<1> PICK New : New = {f + 1, f + 2} OBVIOUS
<1>1. \A n \in New : n \in Nat /\ f < n /\ n <= f + 2 OBVIOUS
<1>2. ASSUME NEW y \in DOMAIN W PROVE Origin(V, W, g, N + 1, New, y)
  <2>1. CASE y = N + 1 BY <2>1, <1>0 DEF Origin
  <2>2. CASE y # N + 1
    <3>1. y \in 1 .. N /\ y \in Nat BY <2>2, <1>0
    <3>2. W[y] = V[y] /\ g[y] = y /\ y \in DOMAIN V BY <3>1, <1>0
    <3> QED BY <3>2 DEF Origin
  <2> QED BY <2>1, <2>2
<1>3. \A x, y \in DOMAIN W : x # y => g[x] # g[y] BY <1>0
<1>4. f + 2 \in Nat /\ f <= f + 2 OBVIOUS
<1>d. Derived(V, W, f, f + 2, g, N + 1, New) BY <1>1, <1>2, <1>3 DEF Derived
<1>5. InScope(W, f + 2) /\ Retired(d, W, f + 2) BY <1>d, <1>4, ScopeStep
<1> QED BY <1>0, <1>5

\* A local leaves the scope, and its names with it.
LEMMA ScopeGone ==
    ASSUME NEW V \in Seq(Local), NEW d, NEW f \in Nat, InScope(V, f), Retired(d, V, f),
           NEW h \in Nat, f <= h,
           NEW x \in 1 .. Len(V), NEW W, Leaving(W, V, x)
    PROVE  /\ W \in Seq(Local) /\ InScope(W, h) /\ Retired(d, W, h)
           /\ \A y \in DOMAIN W : NamesOf(W[y].holder) \cap NamesOf(V[x].holder) = {}
           /\ \A y \in DOMAIN W : \A n \in NamesOf(W[y].holder) : n \in Nat /\ n <= f
<1> PICK g : g = [y \in Nat |-> Skip(x, y)] OBVIOUS
<1>n. PICK N : N = Len(V) OBVIOUS
<1>0. /\ W \in Seq(Local) /\ N \in Nat /\ DOMAIN W = 1 .. N - 1 /\ DOMAIN V = 1 .. N
      /\ \A y \in 1 .. N - 1 : W[y] = V[Skip(x, y)]
  BY <1>n, LeavingParts
<1>v. DOMAIN V = 1 .. N BY <1>0
<1>s. /\ \A y \in 1 .. N - 1 : Skip(x, y) \in 1 .. N /\ Skip(x, y) # x
      /\ \A y, z \in 1 .. N - 1 : y # z => Skip(x, y) # Skip(x, z)
  <2>1. N \in Nat /\ x \in 1 .. N BY <1>n, <1>0
  <2> QED BY <2>1, SkipParts
<1>g. \A y \in DOMAIN W : g[y] = Skip(x, y)
  <2>1. \A y \in DOMAIN W : y \in Nat BY <1>0
  <2> QED BY <2>1
<1>1. ASSUME NEW y \in DOMAIN W
      PROVE W[y] = V[g[y]] /\ g[y] \in DOMAIN V /\ g[y] # x
  BY <1>0, <1>s, <1>g
<1>2. ASSUME NEW y \in DOMAIN W PROVE Origin(V, W, g, 0, {}, y) BY <1>1, <1>2 DEF Origin
<1>3. \A y, z \in DOMAIN W : y # z => g[y] # g[z] BY <1>0, <1>s, <1>g
<1>d. Derived(V, W, f, h, g, 0, {}) BY <1>2, <1>3 DEF Derived
<1>4. InScope(W, h) /\ Retired(d, W, h) BY <1>d, ScopeStep
<1>5. x \in DOMAIN V BY <1>v, <1>n
<1>6. \A y \in DOMAIN W : NamesOf(W[y].holder) \cap NamesOf(V[x].holder) = {}
  BY <1>1, <1>5 DEF InScope
<1>7. \A y \in DOMAIN W : \A n \in NamesOf(W[y].holder) : n \in Nat /\ n <= f
  BY <1>1 DEF InScope
<1> QED BY <1>0, <1>4, <1>6, <1>7

\* A local without names comes into scope.
LEMMA ScopeStored ==
    ASSUME NEW V \in Seq(Local), NEW d, NEW f \in Nat, InScope(V, f), Retired(d, V, f),
           NEW a \in Local, NamesOf(a.holder) = {}, NEW W, Declaring(W, V, a)
    PROVE  W \in Seq(Local) /\ InScope(W, f) /\ Retired(d, W, f)
<1> PICK g : g = [y \in Nat |-> y] OBVIOUS
<1> PICK N : N = Len(V) OBVIOUS
<1>0. /\ W \in Seq(Local) /\ N \in Nat /\ DOMAIN V = 1 .. N /\ DOMAIN W = 1 .. N + 1
      /\ \A y \in 1 .. N : W[y] = V[y]
      /\ W[N + 1] = a
  BY DeclaringParts
<1>2. ASSUME NEW y \in DOMAIN W PROVE Origin(V, W, g, 0, {}, y)
  <2>1. CASE y = N + 1 BY <2>1, <1>0 DEF Origin
  <2>2. CASE y # N + 1
    <3>1. y \in 1 .. N /\ y \in Nat BY <2>2, <1>0
    <3>2. W[y] = V[y] /\ g[y] = y /\ y \in DOMAIN V BY <3>1, <1>0
    <3> QED BY <3>2 DEF Origin
  <2> QED BY <2>1, <2>2
<1>3. \A x, y \in DOMAIN W : x # y => g[x] # g[y] BY <1>0
<1>d. Derived(V, W, f, f, g, 0, {}) BY <1>2, <1>3 DEF Derived
<1>4. f <= f OBVIOUS
<1>5. InScope(W, f) /\ Retired(d, W, f) BY <1>d, <1>4, ScopeStep
<1> QED BY <1>0, <1>5

\* A local gets one new name.
LEMMA ScopeRenamed ==
    ASSUME NEW V \in Seq(Local), NEW d, NEW f \in Nat, InScope(V, f), Retired(d, V, f),
           NEW x \in DOMAIN V, NEW W \in Seq(Local), DOMAIN W = DOMAIN V,
           \A y \in DOMAIN V : y # x => W[y] = V[y],
           NamesOf(W[x].holder) \subseteq NamesOf(V[x].holder) \cup {f + 1}
    PROVE  InScope(W, f + 1) /\ Retired(d, W, f + 1)
<1> PICK g : g = [y \in DOMAIN V |-> y] OBVIOUS
<1> PICK New : New = {f + 1} OBVIOUS
<1>1. \A n \in New : n \in Nat /\ f < n /\ n <= f + 1 OBVIOUS
<1>2. ASSUME NEW y \in DOMAIN W PROVE Origin(V, W, g, x, New, y)
  <2>1. CASE y = x BY <2>1 DEF Origin
  <2>2. CASE y # x BY <2>2 DEF Origin
  <2> QED BY <2>1, <2>2
<1>3. \A y, z \in DOMAIN W : y # z => g[y] # g[z] OBVIOUS
<1>4. f + 1 \in Nat /\ f <= f + 1 OBVIOUS
<1>d. Derived(V, W, f, f + 1, g, x, New) BY <1>1, <1>2, <1>3 DEF Derived
<1> QED BY <1>d, <1>4, ScopeStep

\* A local changes, but not its names.
LEMMA ScopeSame ==
    ASSUME NEW V, NEW d, NEW f, InScope(V, f), Retired(d, V, f), NEW W, DOMAIN W = DOMAIN V,
           \A y \in DOMAIN V : W[y].holder = V[y].holder
    PROVE  InScope(W, f) /\ Retired(d, W, f)
BY DEF InScope, Retired

-----------------------------------------------------------------------------
(* Each lowering action. *)

\* The parts of the invariant.
LEMMA LowerFacts ==
    ASSUME LowerInv
    PROVE  /\ draft \in Seq(Instruction) /\ env \in Seq(Local)
           /\ fresh \in Names /\ fresh \in Nat /\ nextLoan \in Nat
           /\ InScope(env, fresh) /\ Retired(draft, env, fresh)
           /\ DOMAIN env = 1 .. Len(env) /\ Len(env) \in Nat
           /\ \A x \in DOMAIN env : env[x] \in Local
<1>1. draft \in Seq(Instruction) /\ env \in Seq(Local) /\ fresh \in Names /\ nextLoan \in Nat
      /\ InScope(env, fresh) /\ Retired(draft, env, fresh)
  BY DEF LowerInv, LowerPart
<1>2. DOMAIN env = 1 .. Len(env) /\ Len(env) \in Nat /\ \A x \in DOMAIN env : env[x] \in Local
  BY <1>1
<1>3. fresh \in Nat BY <1>1, NamesType
<1> QED BY <1>1, <1>2, <1>3

\* A local's fields.
LEMMA LocalFields ==
    ASSUME NEW a \in Local
    PROVE  /\ a.loan \in LoanIds \cup {NoLoan} /\ a.parent \in LoanIds \cup {NoLoan}
           /\ a.kind \in Kind /\ a.holder \in Holder
           /\ a.holder.pointer \in Names /\ a.holder.permission \in Names
BY DEF Local, Holder

\* Fresh names are known to nobody.
LEMMA FreshHolder ==
    ASSUME LowerInv, Emitted < MaxInstructions
    PROVE  /\ Fresh \in Holder /\ NamesOf(Fresh) = {fresh + 1, fresh + 2}
           /\ fresh + 1 \in Names /\ fresh + 2 \in Names /\ Spent(entry, draft) < MaxInstructions
<1>1. draft \in Seq(Instruction) /\ fresh \in Names /\ fresh <= 2 * Spent(entry, draft) + 2
  BY DEF LowerInv, LowerPart
<1>2. Spent(entry, draft) < MaxInstructions BY EmittedSpent
<1>3. fresh \in Nat /\ fresh + 1 \in Names /\ fresh + 2 \in Names BY <1>1, <1>2, RoomForNames
<1>4. fresh + 1 # NoName /\ fresh + 2 # NoName BY <1>3 DEF NoName
<1> QED BY <1>2, <1>3, <1>4 DEF Fresh, Holder, NamesOf

\* An instruction that makes a reference.
LEMMA NewReference ==
    ASSUME LowerInv, Emitted < MaxInstructions,
           NEW i \in Instruction, i.op \notin Pending, i.new = Fresh, draft' = Append(draft, i),
           NamesOf(i.at) = {} \/ \E x \in DOMAIN env : i.at = env[x].holder,
           NEW a \in Local, a.holder = Fresh, env' = Append(env, a),
           fresh' = fresh + 2, nextLoan' \in Nat, entry' = entry
    PROVE  LowerInv'
<1>1. env \in Seq(Local) /\ fresh \in Nat /\ InScope(env, fresh) /\ Retired(draft, env, fresh)
  BY LowerFacts
<1>2. NamesOf(Fresh) = {fresh + 1, fresh + 2} /\ Spent(entry, draft) < MaxInstructions
  BY FreshHolder
<1>3. Emitting(draft', draft, i) BY DEF Emitting
<1>4. Declaring(env', env, a) BY DEF Declaring
<1>5. NamesOf(a.holder) \subseteq {fresh + 1, fresh + 2} BY <1>2
<1>6. PICK W : W = env' OBVIOUS
<1>7. W \in Seq(Local) /\ InScope(W, fresh + 2) /\ Retired(draft, W, fresh + 2)
  BY <1>1, <1>4, <1>5, <1>6, ScopeNew
<1>8. \A n \in Results(i) : n \in Nat /\ fresh < n
  <2>1. Results(i) \subseteq {fresh + 1, fresh + 2} BY <1>2 DEF Results
  <2> QED BY <2>1, <1>1
<1>9. fresh + 2 \in fresh .. fresh + 2 BY <1>1
<1>10. LowerPart(entry, draft, env, fresh, nextLoan) BY DEF LowerInv
<1>11. PICK h, ml : h = fresh + 2 /\ ml = nextLoan' OBVIOUS
<1>12. h \in fresh .. fresh + 2 /\ ml \in Nat /\ InScope(W, h) /\ Retired(draft, W, h)
  BY <1>7, <1>9, <1>11
<1>13. PICK c : c = draft' OBVIOUS
<1>14. Emitting(c, draft, i) BY <1>3, <1>13
<1>15. LowerPart(entry, c, W, h, ml)
  BY <1>2, <1>7, <1>8, <1>10, <1>12, <1>14, RetainedStep
<1> QED BY <1>6, <1>11, <1>13, <1>15 DEF LowerInv

\* What an emission does.
LEMMA EmitParts ==
    ASSUME NEW i, Emit(i)
    PROVE  /\ draft' = Append(draft, i) /\ entry' = entry
           /\ i.op \notin Pending => Emitted < MaxInstructions
BY DEF Emit

LEMMA BorrowStep ==
    ASSUME LowerInv, NEW k \in Kind, LowerBorrow(k)
    PROVE  LowerInv'
<1>1. PICK i : i = [op |-> "LoanBegin", loan |-> nextLoan, parent |-> NoLoan, kind |-> k,
                    at |-> NoHolder, new |-> Fresh] OBVIOUS
<1>2. PICK a : a = Static(nextLoan, NoLoan, k, Fresh) OBVIOUS
<1>3. /\ nextLoan \in LoanIds /\ Emit(i) /\ env' = Append(env, a)
      /\ fresh' = fresh + 2 /\ nextLoan' = nextLoan + 1
  BY <1>1, <1>2 DEF LowerBorrow, Declare
<1>4. i.op \notin Pending /\ i.new = Fresh /\ i.at = NoHolder BY <1>1 DEF Pending
<1>5. draft' = Append(draft, i) /\ entry' = entry /\ Emitted < MaxInstructions
  BY <1>3, <1>4, EmitParts
<1>6. Fresh \in Holder BY <1>5, FreshHolder
<1>7. i \in Instruction BY <1>1, <1>3, <1>6, NamesType DEF Instruction, Op
<1>8. a \in Local /\ a.holder = Fresh BY <1>2, <1>3, <1>6 DEF Static, Local
<1>9. nextLoan' \in Nat BY <1>3, LowerFacts
<1>10. NamesOf(i.at) = {} BY <1>4, NamesType
<1> QED BY <1>3, <1>4, <1>5, <1>7, <1>8, <1>9, <1>10, NewReference

LEMMA ReborrowStep ==
    ASSUME LowerInv, NEW x \in DOMAIN env, NEW k \in Kind, LowerReborrow(x, k)
    PROVE  LowerInv'
<1>0. env[x] \in Local /\ env[x].loan \in LoanIds \cup {NoLoan} /\ env[x].holder \in Holder
  BY LowerFacts, LocalFields
<1>1. \E i \in {[op |-> "LoanReborrow", loan |-> nextLoan, parent |-> env[x].loan,
                 kind |-> k, at |-> env[x].holder, new |-> Fresh],
                [op |-> "LoanReborrowAuthority", loan |-> nextLoan, parent |-> NoLoan,
                 kind |-> k, at |-> env[x].holder, new |-> Fresh]} :
      \E a \in {Static(nextLoan, env[x].loan, k, Fresh), Authority(k, Fresh)} :
         Emit(i) /\ env' = Append(env, a)
  BY DEF LowerReborrow, Declare
<1>2. PICK i, a :
        /\ i \in {[op |-> "LoanReborrow", loan |-> nextLoan, parent |-> env[x].loan,
                 kind |-> k, at |-> env[x].holder, new |-> Fresh],
                [op |-> "LoanReborrowAuthority", loan |-> nextLoan, parent |-> NoLoan,
                 kind |-> k, at |-> env[x].holder, new |-> Fresh]}
        /\ a \in {Static(nextLoan, env[x].loan, k, Fresh), Authority(k, Fresh)}
        /\ Emit(i) /\ env' = Append(env, a)
  BY <1>1
<1>3. nextLoan \in LoanIds /\ fresh' = fresh + 2 /\ nextLoan' = nextLoan + 1 BY DEF LowerReborrow
<1>4. i.op \notin Pending /\ i.new = Fresh /\ i.at = env[x].holder BY <1>2 DEF Pending
<1>5. draft' = Append(draft, i) /\ entry' = entry /\ Emitted < MaxInstructions
  BY <1>2, <1>4, EmitParts
<1>6. Fresh \in Holder BY <1>5, FreshHolder
<1>7. i \in Instruction BY <1>0, <1>2, <1>3, <1>6 DEF Instruction, Op
<1>8. a \in Local /\ a.holder = Fresh
  <2>1. PICK b : b = Static(nextLoan, env[x].loan, k, Fresh) OBVIOUS
  <2>2. b \in Local /\ b.holder = Fresh BY <2>1, <1>0, <1>3, <1>6 DEF Static, Local
  <2>3. PICK c : c = Authority(k, Fresh) OBVIOUS
  <2>4. c \in Local /\ c.holder = Fresh BY <2>3, <1>6 DEF Authority, Local
  <2> QED BY <2>1, <2>2, <2>3, <2>4, <1>2
<1>9. nextLoan' \in Nat BY <1>3, LowerFacts
<1> QED BY <1>2, <1>3, <1>4, <1>5, <1>7, <1>8, <1>9, NewReference

LEMMA CopyStep ==
    ASSUME LowerInv, NEW x \in DOMAIN env, LowerCopy(x)
    PROVE  LowerInv'
<1>0. env[x] \in Local /\ env[x].loan \in LoanIds \cup {NoLoan} /\ env[x].holder \in Holder
      /\ nextLoan \in Nat
  BY LowerFacts, LocalFields
<1>o. PICK o : o = IF env[x].form = "Static" THEN "LoanAliasShared" ELSE "LoanAliasAuthority" OBVIOUS
<1>1. PICK i : i = [op |-> o, loan |-> env[x].loan, parent |-> NoLoan, kind |-> "Shared",
                    at |-> env[x].holder, new |-> Fresh] OBVIOUS
<1>2. PICK a : a = [env[x] EXCEPT !.holder = Fresh] OBVIOUS
<1>3. Emit(i) /\ env' = Append(env, a) /\ fresh' = fresh + 2 /\ nextLoan' = nextLoan
  BY <1>1, <1>2, <1>o DEF LowerCopy, Declare
<1>p. o \in {"LoanAliasShared", "LoanAliasAuthority"} BY <1>o
<1>4. i.op \notin Pending /\ i.new = Fresh /\ i.at = env[x].holder BY <1>1, <1>p DEF Pending
<1>5. draft' = Append(draft, i) /\ entry' = entry /\ Emitted < MaxInstructions
  BY <1>3, <1>4, EmitParts
<1>6. Fresh \in Holder BY <1>5, FreshHolder
<1>7. i \in Instruction BY <1>0, <1>1, <1>p, <1>6 DEF Instruction, Op, Kind
<1>8. a \in Local /\ a.holder = Fresh BY <1>0, <1>2, <1>6 DEF Local
<1>9. nextLoan' \in Nat BY <1>0, <1>3
<1> QED BY <1>3, <1>4, <1>5, <1>7, <1>8, <1>9, NewReference

\* An instruction that makes no reference, and after which other locals may be in
\* scope, with names of the old ones.
LEMMA PlainStep ==
    ASSUME LowerInv, Emitted < MaxInstructions,
           NEW i \in Instruction, i.op \notin Pending, i.new = NoHolder, draft' = Append(draft, i),
           NamesOf(i.at) = {} \/ \E x \in DOMAIN env : i.at = env[x].holder,
           NEW W \in Seq(Local), env' = W, InScope(W, fresh), Retired(draft, W, fresh),
           fresh' = fresh, nextLoan' = nextLoan, entry' = entry
    PROVE  LowerInv'
<1>1. fresh \in Nat /\ nextLoan \in Nat BY LowerFacts
<1>2. Spent(entry, draft) < MaxInstructions BY FreshHolder
<1>3. PICK c : c = draft' OBVIOUS
<1>4. Emitting(c, draft, i) BY <1>3 DEF Emitting
<1>5. \A n \in Results(i) : n \in Nat /\ fresh < n BY NamesType DEF Results
<1>6. fresh \in fresh .. fresh + 2 BY <1>1
<1>7. LowerPart(entry, draft, env, fresh, nextLoan) BY DEF LowerInv
<1>8. LowerPart(entry, c, W, fresh, nextLoan)
  BY <1>1, <1>2, <1>4, <1>5, <1>6, <1>7, RetainedStep
<1> QED BY <1>3, <1>8 DEF LowerInv

LEMMA AccessStep ==
    ASSUME LowerInv, NEW x \in DOMAIN env, LowerAccess(x)
    PROVE  LowerInv'
<1>0. env[x] \in Local /\ env[x].kind \in Kind /\ env[x].holder \in Holder
      /\ env \in Seq(Local) /\ InScope(env, fresh) /\ Retired(draft, env, fresh)
  BY LowerFacts, LocalFields
<1>1. PICK i : i = [Plain("Access", env[x].holder) EXCEPT !.kind = env[x].kind] OBVIOUS
<1>2. Emit(i) /\ env' = env /\ fresh' = fresh /\ nextLoan' = nextLoan BY <1>1 DEF LowerAccess
<1>3. i = [op |-> "Access", loan |-> NoLoan, parent |-> NoLoan, kind |-> env[x].kind,
           at |-> env[x].holder, new |-> NoHolder] BY <1>1 DEF Plain
<1>4. i.op \notin Pending /\ i.new = NoHolder /\ i.at = env[x].holder BY <1>3 DEF Pending
<1>5. i \in Instruction BY <1>0, <1>3, NamesType DEF Instruction, Op
<1>6. draft' = Append(draft, i) /\ entry' = entry /\ Emitted < MaxInstructions
  BY <1>2, <1>4, EmitParts
<1> QED BY <1>0, <1>2, <1>4, <1>5, <1>6, PlainStep

LEMMA OwnerWriteStep ==
    ASSUME LowerInv, LowerOwnerWrite
    PROVE  LowerInv'
<1>0. env \in Seq(Local) /\ InScope(env, fresh) /\ Retired(draft, env, fresh) BY LowerFacts
<1>1. PICK i : i = Plain("OwnerWrite", NoHolder) OBVIOUS
<1>2. Emit(i) /\ env' = env /\ fresh' = fresh /\ nextLoan' = nextLoan BY <1>1 DEF LowerOwnerWrite
<1>3. i = [op |-> "OwnerWrite", loan |-> NoLoan, parent |-> NoLoan, kind |-> "Mutable",
           at |-> NoHolder, new |-> NoHolder] BY <1>1 DEF Plain
<1>4. i.op \notin Pending /\ i.new = NoHolder /\ i.at = NoHolder BY <1>3 DEF Pending
<1>5. i \in Instruction BY <1>3, NamesType DEF Instruction, Op, Kind
<1>6. draft' = Append(draft, i) /\ entry' = entry /\ Emitted < MaxInstructions
  BY <1>2, <1>4, EmitParts
<1>7. NamesOf(i.at) = {} BY <1>4, NamesType
<1> QED BY <1>0, <1>2, <1>4, <1>5, <1>6, <1>7, PlainStep

LEMMA ConstructStep ==
    ASSUME LowerInv, NEW x \in DOMAIN env, LowerConstruct(x)
    PROVE  LowerInv'
<1>0. /\ env[x] \in Local /\ env[x].kind \in Kind /\ env[x].holder \in Holder
      /\ env \in Seq(Local) /\ fresh \in Nat /\ InScope(env, fresh) /\ Retired(draft, env, fresh)
      /\ x \in 1 .. Len(env)
  BY LowerFacts, LocalFields
<1>1. PICK i : i = Plain("ResourceInitialize", env[x].holder) OBVIOUS
<1>2. PICK V : V = Without(x) OBVIOUS
<1>3. PICK a : a = Storage(env[x].kind) OBVIOUS
<1>4. Emit(i) /\ env' = Append(V, a) /\ fresh' = fresh /\ nextLoan' = nextLoan
  BY <1>1, <1>2, <1>3 DEF LowerConstruct
<1>5. i = [op |-> "ResourceInitialize", loan |-> NoLoan, parent |-> NoLoan, kind |-> "Mutable",
           at |-> env[x].holder, new |-> NoHolder] BY <1>1 DEF Plain
<1>6. i.op \notin Pending /\ i.new = NoHolder /\ i.at = env[x].holder BY <1>5 DEF Pending
<1>7. i \in Instruction BY <1>0, <1>5, NamesType DEF Instruction, Op, Kind
<1>8. draft' = Append(draft, i) /\ entry' = entry /\ Emitted < MaxInstructions
  BY <1>4, <1>6, EmitParts
<1>9. a \in Local /\ NamesOf(a.holder) = {}
  <2>1. a.holder = NoHolder BY <1>3 DEF Storage
  <2>2. a \in Local BY <1>0, <1>3, NamesType DEF Storage, Local
  <2> QED BY <2>1, <2>2, NamesType
<1>10. Leaving(V, env, x) BY <1>2 DEF Leaving, Without
<1>11. fresh <= fresh BY <1>0
<1>12. V \in Seq(Local) /\ InScope(V, fresh) /\ Retired(draft, V, fresh)
  BY <1>0, <1>10, <1>11, ScopeGone
<1>13. PICK W : W = env' OBVIOUS
<1>14. Declaring(W, V, a) BY <1>4, <1>13 DEF Declaring
<1>15. W \in Seq(Local) /\ InScope(W, fresh) /\ Retired(draft, W, fresh)
  BY <1>0, <1>9, <1>12, <1>14, ScopeStored
<1> QED BY <1>4, <1>6, <1>7, <1>8, <1>13, <1>15, PlainStep

LEMMA TakeStep ==
    ASSUME LowerInv, NEW x \in DOMAIN env, LowerTake(x)
    PROVE  LowerInv'
<1>0. /\ env[x] \in Local /\ env[x].kind \in Kind
      /\ env \in Seq(Local) /\ fresh \in Nat /\ nextLoan \in Nat
      /\ InScope(env, fresh) /\ Retired(draft, env, fresh)
      /\ DOMAIN env = 1 .. Len(env) /\ Len(env) \in Nat /\ \A y \in DOMAIN env : env[y] \in Local
  BY LowerFacts, LocalFields
<1>1. PICK i : i = [Plain("ResourceTake", NoHolder) EXCEPT !.new = Fresh] OBVIOUS
<1>2. PICK V : V = [env EXCEPT ![x].full = FALSE] OBVIOUS
<1>3. PICK a : a = Authority(env[x].kind, Fresh) OBVIOUS
<1>4. Emit(i) /\ env' = Append(V, a) /\ fresh' = fresh + 2 /\ nextLoan' = nextLoan
  BY <1>1, <1>2, <1>3 DEF LowerTake
<1>5. i = [op |-> "ResourceTake", loan |-> NoLoan, parent |-> NoLoan, kind |-> "Mutable",
           at |-> NoHolder, new |-> Fresh] BY <1>1 DEF Plain
<1>6. i.op \notin Pending /\ i.new = Fresh /\ i.at = NoHolder BY <1>5 DEF Pending
<1>8. draft' = Append(draft, i) /\ entry' = entry /\ Emitted < MaxInstructions
  BY <1>4, <1>6, EmitParts
<1>f. /\ Fresh \in Holder /\ NamesOf(Fresh) = {fresh + 1, fresh + 2}
      /\ Spent(entry, draft) < MaxInstructions
  BY <1>8, FreshHolder
<1>7. i \in Instruction BY <1>5, <1>f, NamesType DEF Instruction, Op, Kind
<1>9. a \in Local /\ a.holder = Fresh BY <1>0, <1>3, <1>f DEF Authority, Local
<1>10. V \in Seq(Local) /\ DOMAIN V = DOMAIN env /\ \A y \in DOMAIN env : V[y].holder = env[y].holder
  <2>1. DOMAIN V = DOMAIN env BY <1>2
  <2>2. ASSUME NEW y \in DOMAIN env PROVE V[y] \in Local /\ V[y].holder = env[y].holder
    <3>1. CASE y = x
      <4>1. V[x] = [env[x] EXCEPT !.full = FALSE] BY <1>2
      <4>2. V[x] \in Local /\ V[x].holder = env[x].holder BY <4>1, <1>0 DEF Local
      <4> QED BY <3>1, <4>2
    <3>2. CASE y # x
      <4>1. V[y] = env[y] BY <3>2, <1>2
      <4> QED BY <4>1, <1>0
    <3> QED BY <3>1, <3>2
  <2>4. V = [y \in DOMAIN V |-> V[y]] BY <1>2
  <2>5. V \in [1 .. Len(env) -> Local] BY <2>1, <2>2, <2>4, <1>0
  <2>3. V \in Seq(Local) BY <2>5, <1>0
  <2> QED BY <2>1, <2>2, <2>3
<1>11. InScope(V, fresh) /\ Retired(draft, V, fresh) BY <1>0, <1>10, ScopeSame
<1>12. PICK W : W = env' OBVIOUS
<1>13. Declaring(W, V, a) BY <1>4, <1>12 DEF Declaring
<1>14. NamesOf(a.holder) \subseteq {fresh + 1, fresh + 2} BY <1>9, <1>f
<1>15. W \in Seq(Local) /\ InScope(W, fresh + 2) /\ Retired(draft, W, fresh + 2)
  BY <1>0, <1>9, <1>10, <1>11, <1>13, <1>14, ScopeNew
<1>16. \A n \in Results(i) : n \in Nat /\ fresh < n
  <2>1. Results(i) \subseteq {fresh + 1, fresh + 2} BY <1>6, <1>f DEF Results
  <2> QED BY <2>1, <1>0
<1>17. NamesOf(i.at) = {} BY <1>6, NamesType
<1>18. LowerPart(entry, draft, env, fresh, nextLoan) BY DEF LowerInv
<1>19. PICK h, c : h = fresh + 2 /\ c = draft' OBVIOUS
<1>20. h \in fresh .. fresh + 2 /\ InScope(W, h) /\ Retired(draft, W, h) BY <1>0, <1>15, <1>19
<1>21. Emitting(c, draft, i) BY <1>8, <1>19 DEF Emitting
<1>22. LowerPart(entry, c, W, h, nextLoan)
  BY <1>0, <1>6, <1>7, <1>f, <1>15, <1>16, <1>17, <1>18, <1>20, <1>21, RetainedStep
<1> QED BY <1>4, <1>8, <1>12, <1>19, <1>22 DEF LowerInv

\* A local is dropped, with or without a pending end of its loan.
LEMMA DropStep ==
    ASSUME LowerInv, LocalDrop
    PROVE  LowerInv'
<1>0. /\ env \in Seq(Local) /\ fresh \in Nat /\ nextLoan \in Nat
      /\ InScope(env, fresh) /\ Retired(draft, env, fresh)
      /\ DOMAIN env = 1 .. Len(env) /\ Len(env) \in Nat
  BY LowerFacts
<1>x. PICK x : x = Len(env) OBVIOUS
<1>1. env # <<>> /\ env' = Without(x) /\ fresh' = fresh /\ nextLoan' = nextLoan
  BY <1>x DEF LocalDrop
<1>2. x \in 1 .. Len(env) /\ x \in DOMAIN env
  <2>1. Len(env) # 0 BY <1>0, <1>1
  <2> QED BY <2>1, <1>0, <1>x
<1>3. env[x] \in Local /\ env[x].loan \in LoanIds \cup {NoLoan} /\ env[x].holder \in Holder
  BY <1>2, LowerFacts, LocalFields
<1>4. PICK W : W = env' OBVIOUS
<1>5. Leaving(W, env, x) BY <1>1, <1>4 DEF Leaving, Without
<1>6. fresh <= fresh BY <1>0
<1>7. /\ W \in Seq(Local) /\ InScope(W, fresh) /\ Retired(draft, W, fresh)
      /\ \A y \in DOMAIN W : NamesOf(W[y].holder) \cap NamesOf(env[x].holder) = {}
  BY <1>0, <1>2, <1>5, <1>6, ScopeGone
<1>8. LowerPart(entry, draft, env, fresh, nextLoan) BY DEF LowerInv
<1>9. ASSUME NEW i \in Instruction, i.op \in Pending, i.at = env[x].holder, Emit(i)
      PROVE  LowerInv'
  <2>1. PICK c : c = draft' OBVIOUS
  <2>2. draft' = Append(draft, i) /\ entry' = entry BY <1>9, EmitParts
  <2>3. Emitting(c, draft, i) BY <2>1, <2>2 DEF Emitting
  <2>4. \A n \in NamesOf(i.at) : n \in Nat /\ n <= fresh BY <1>0, <1>2, <1>9 DEF InScope
  <2>5. \A y \in DOMAIN W : NamesOf(W[y].holder) \cap NamesOf(i.at) = {} BY <1>7, <1>9
  <2>6. LowerPart(entry, c, W, fresh, nextLoan)
    BY <1>7, <1>8, <1>9, <2>3, <2>4, <2>5, EndStep
  <2> QED BY <2>1, <2>2, <2>6, <1>1, <1>4 DEF LowerInv
<1>10. \/ Emit([Plain("LoanEnd", env[x].holder) EXCEPT !.loan = env[x].loan])
       \/ Emit(Plain("LoanEndAuthority", env[x].holder))
       \/ Emit(Plain("ObjectDrop", NoHolder))
       \/ UNCHANGED <<entry, draft, planVars>>
  BY <1>x DEF LocalDrop
<1>11. CASE Emit([Plain("LoanEnd", env[x].holder) EXCEPT !.loan = env[x].loan])
  <2>1. PICK i : i = [Plain("LoanEnd", env[x].holder) EXCEPT !.loan = env[x].loan] OBVIOUS
  <2>2. i = [op |-> "LoanEnd", loan |-> env[x].loan, parent |-> NoLoan, kind |-> "Mutable",
             at |-> env[x].holder, new |-> NoHolder] BY <2>1 DEF Plain
  <2>3. i \in Instruction /\ i.op \in Pending /\ i.at = env[x].holder
    BY <2>2, <1>3, NamesType DEF Instruction, Op, Kind, Pending
  <2> QED BY <2>1, <2>3, <1>9, <1>11
<1>12. CASE Emit(Plain("LoanEndAuthority", env[x].holder))
  <2>1. PICK i : i = Plain("LoanEndAuthority", env[x].holder) OBVIOUS
  <2>2. i = [op |-> "LoanEndAuthority", loan |-> NoLoan, parent |-> NoLoan, kind |-> "Mutable",
             at |-> env[x].holder, new |-> NoHolder] BY <2>1 DEF Plain
  <2>3. i \in Instruction /\ i.op \in Pending /\ i.at = env[x].holder
    BY <2>2, <1>3, NamesType DEF Instruction, Op, Kind, Pending
  <2> QED BY <2>1, <2>3, <1>9, <1>12
<1>13. CASE Emit(Plain("ObjectDrop", NoHolder))
  <2>1. PICK i : i = Plain("ObjectDrop", NoHolder) OBVIOUS
  <2>2. i = [op |-> "ObjectDrop", loan |-> NoLoan, parent |-> NoLoan, kind |-> "Mutable",
             at |-> NoHolder, new |-> NoHolder] BY <2>1 DEF Plain
  <2>3. i \in Instruction /\ i.op \notin Pending /\ i.at = NoHolder /\ i.new = NoHolder
    BY <2>2, NamesType DEF Instruction, Op, Kind, Pending
  <2>4. draft' = Append(draft, i) /\ entry' = entry /\ Emitted < MaxInstructions
    BY <2>1, <2>3, <1>13, EmitParts
  <2>5. NamesOf(i.at) = {} BY <2>3, NamesType
  <2> QED BY <1>1, <1>4, <1>7, <2>3, <2>4, <2>5, PlainStep
<1>14. CASE UNCHANGED <<entry, draft, planVars>>
  <2>1. LowerPart(entry, draft, W, fresh, nextLoan) BY <1>7, <1>8 DEF LowerPart
  <2> QED BY <2>1, <1>1, <1>4, <1>14 DEF LowerInv
<1> QED BY <1>10, <1>11, <1>12, <1>13, <1>14

\* Two more instructions are one and one more.
LEMMA AppendTwo ==
    ASSUME NEW S, NEW s \in Seq(S), NEW a \in S, NEW b \in S
    PROVE  s \o <<a, b>> = Append(Append(s, a), b)
OBVIOUS

LEMMA CallStep ==
    ASSUME LowerInv, NEW x \in DOMAIN env, NEW live \in BOOLEAN, LowerCall(x, live)
    PROVE  LowerInv'
<1>0. /\ env[x] \in Local /\ env[x].loan \in LoanIds \cup {NoLoan} /\ env[x].holder \in Holder
      /\ env \in Seq(Local) /\ fresh \in Nat /\ nextLoan \in Nat
      /\ InScope(env, fresh) /\ Retired(draft, env, fresh) /\ draft \in Seq(Instruction)
      /\ DOMAIN env = 1 .. Len(env) /\ Len(env) \in Nat /\ \A y \in DOMAIN env : env[y] \in Local
  BY LowerFacts, LocalFields
<1>1. PICK restored : restored = [env[x].holder EXCEPT !.permission = fresh + 1] OBVIOUS
<1>2. PICK i : i = [Plain("Call", env[x].holder) EXCEPT !.new = restored] OBVIOUS
<1>3. PICK e : e = [Plain(IF env[x].form = "Static" THEN "LoanEnd" ELSE "LoanEndAuthority", restored)
                       EXCEPT !.loan = env[x].loan] OBVIOUS
<1>4. /\ Emitted < MaxInstructions /\ entry' = entry /\ nextLoan' = nextLoan /\ fresh' = fresh + 1
      /\ \/ draft' = Append(draft, i) /\ env' = [env EXCEPT ![x].holder = restored]
         \/ draft' = draft \o <<i, e>> /\ env' = Without(x)
  BY <1>1, <1>2, <1>3 DEF LowerCall
<1>5. fresh + 1 \in Names /\ Spent(entry, draft) < MaxInstructions BY <1>4, FreshHolder
<1>6. /\ restored = [pointer |-> env[x].holder.pointer, permission |-> fresh + 1]
      /\ restored \in Holder
  BY <1>0, <1>1, <1>5 DEF Holder
<1>7. i = [op |-> "Call", loan |-> NoLoan, parent |-> NoLoan, kind |-> "Mutable",
           at |-> env[x].holder, new |-> restored] BY <1>2 DEF Plain
<1>8. i \in Instruction /\ i.op \notin Pending /\ i.at = env[x].holder /\ i.new = restored
  BY <1>0, <1>6, <1>7 DEF Instruction, Op, Kind, Pending
<1>9. /\ NamesOf(restored) \subseteq NamesOf(env[x].holder) \cup {fresh + 1}
      /\ Results(i) \subseteq {fresh + 1}
  <2>1. NamesOf(restored) \subseteq NamesOf(env[x].holder) \cup {fresh + 1} BY <1>6 DEF NamesOf
  <2>2. Results(i) = NamesOf(restored) \ NamesOf(env[x].holder) BY <1>8 DEF Results
  <2> QED BY <2>1, <2>2
<1>10. \A n \in Results(i) : n \in Nat /\ fresh < n BY <1>0, <1>9
<1>11. LowerPart(entry, draft, env, fresh, nextLoan) BY DEF LowerInv
<1>12. PICK h : h = fresh + 1 OBVIOUS
<1>13. h \in Nat /\ fresh <= h /\ fresh < h /\ h \in fresh .. fresh + 2 BY <1>0, <1>12
<1>14. PICK W : W = env' OBVIOUS
<1>15. PICK c : c = Append(draft, i) OBVIOUS
<1>16. Emitting(c, draft, i) BY <1>15 DEF Emitting
<1>17. ASSUME W \in Seq(Local), InScope(W, h), Retired(draft, W, h)
       PROVE  LowerPart(entry, c, W, h, nextLoan)
  BY <1>0, <1>5, <1>8, <1>10, <1>11, <1>13, <1>16, <1>17, RetainedStep
<1>18. CASE draft' = Append(draft, i) /\ env' = [env EXCEPT ![x].holder = restored]
  <2>1. W = [env EXCEPT ![x].holder = restored] BY <1>14, <1>18
  <2>2. DOMAIN W = DOMAIN env BY <2>1
  <2>3. \A y \in DOMAIN env : y # x => W[y] = env[y] BY <2>1
  <2>4. W[x] = [env[x] EXCEPT !.holder = restored] BY <2>1
  <2>5. W[x] \in Local /\ W[x].holder = restored BY <2>4, <1>0, <1>6 DEF Local
  <2>6. W \in Seq(Local)
    <3>1. \A y \in DOMAIN W : W[y] \in Local BY <2>2, <2>3, <2>5, <1>0
    <3>2. W = [y \in DOMAIN W |-> W[y]] BY <2>1
    <3>3. W \in [1 .. Len(env) -> Local] BY <3>1, <3>2, <2>2, <1>0
    <3> QED BY <3>3, <1>0
  <2>7. NamesOf(W[x].holder) \subseteq NamesOf(env[x].holder) \cup {fresh + 1} BY <2>5, <1>9
  <2>8. InScope(W, fresh + 1) /\ Retired(draft, W, fresh + 1)
    <3> HIDE <1>18
    <3> QED BY <2>2, <2>3, <2>6, <2>7, <1>0, ScopeRenamed
  <2>9. LowerPart(entry, c, W, h, nextLoan) BY <2>6, <2>8, <1>12, <1>17
  <2> QED BY <2>9, <1>4, <1>12, <1>14, <1>15, <1>18 DEF LowerInv
<1>19. CASE draft' = draft \o <<i, e>> /\ env' = Without(x)
  <2>1. Leaving(W, env, x) BY <1>14, <1>19 DEF Leaving, Without
  <2>2. x \in 1 .. Len(env) BY <1>0
  <2>3. /\ W \in Seq(Local) /\ InScope(W, h) /\ Retired(draft, W, h)
        /\ \A y \in DOMAIN W : NamesOf(W[y].holder) \cap NamesOf(env[x].holder) = {}
        /\ \A y \in DOMAIN W : \A n \in NamesOf(W[y].holder) : n \in Nat /\ n <= fresh
    BY <2>1, <2>2, <1>0, <1>13, ScopeGone
  <2>4. LowerPart(entry, c, W, h, nextLoan) BY <2>3, <1>17
  <2>5. e = [op |-> IF env[x].form = "Static" THEN "LoanEnd" ELSE "LoanEndAuthority",
             loan |-> env[x].loan, parent |-> NoLoan, kind |-> "Mutable",
             at |-> restored, new |-> NoHolder] BY <1>3 DEF Plain
  <2>6. e \in Instruction /\ e.op \in Pending /\ e.at = restored
    BY <2>5, <1>0, <1>6, NamesType DEF Instruction, Op, Kind, Pending
  <2>7. PICK b : b = draft' OBVIOUS
  <2>8. b = Append(c, e) BY <2>7, <2>6, <1>0, <1>8, <1>15, <1>19, AppendTwo
  <2>9. Emitting(b, c, e) BY <2>8 DEF Emitting
  <2>10. \A n \in NamesOf(e.at) : n \in Nat /\ n <= h
    <3>1. \A n \in NamesOf(env[x].holder) : n \in Nat /\ n <= fresh BY <1>0 DEF InScope
    <3>2. fresh \in Nat /\ h \in Nat /\ fresh <= h /\ h = fresh + 1 BY <1>0, <1>12, <1>13
    <3>3. \A n \in NamesOf(env[x].holder) : n \in Nat /\ n <= h BY <3>1, <3>2
    <3>4. \A n \in NamesOf(e.at) : n \in NamesOf(env[x].holder) \/ n = h BY <3>2, <2>6, <1>9
    <3>5. h <= h BY <3>2
    <3> QED BY <3>2, <3>3, <3>4, <3>5
  <2>11. \A y \in DOMAIN W : NamesOf(W[y].holder) \cap NamesOf(e.at) = {}
    <3>0. ~(h <= fresh) BY <1>0, <1>12
    <3>1. \A y \in DOMAIN W : h \notin NamesOf(W[y].holder) BY <3>0, <2>3
    <3>2. \A n \in NamesOf(e.at) : n \in NamesOf(env[x].holder) \/ n = h BY <2>6, <1>9, <1>12
    <3> QED BY <3>1, <3>2, <2>3
  <2>12. InScope(W, h) /\ Retired(c, W, h) BY <2>4 DEF LowerPart
  <2>13. LowerPart(entry, b, W, h, nextLoan)
    BY <2>3, <2>4, <2>6, <2>9, <2>10, <2>11, <2>12, EndStep
  <2> QED BY <2>7, <2>13, <1>4, <1>12, <1>14 DEF LowerInv
<1> QED BY <1>4, <1>18, <1>19

\* A block starts with few names, each with one local.
LEMMA FirstLoanType == FirstLoan \in LoanIds /\ \A m \in LoanIds : FirstLoan <= m
<1>1. LoanIds \in SUBSET Nat /\ LoanIds # {} BY LoanEndPlanAssumption
<1>2. \E l \in LoanIds : \A m \in LoanIds : l <= m BY <1>1, LeastElement
<1> QED BY <1>2 DEF FirstLoan

LEMMA LowerInit == Init => LowerInv
<1> SUFFICES ASSUME Init PROVE LowerInv OBVIOUS
<1>1. draft = <<>> /\ fresh = 2 BY DEF Init
<1>2. draft \in Seq(Instruction) /\ DOMAIN draft = {} BY <1>1
<1>3. Ends(draft) = {} /\ Retained(draft) = {} BY <1>2 DEF Ends, Retained
<1>4. Behind(draft) /\ Retired(draft, env, fresh) BY <1>3 DEF Behind, Retired
<1>5. Spent(entry, draft) \in Nat
  <2>1. Cardinality(Retained(draft)) = 0 BY <1>3, Fin!FS_EmptySet, SameSets
  <2> QED BY <2>1 DEF Spent
<1>6. fresh <= 2 * Spent(entry, draft) + 2 BY <1>1, <1>5
<1>7. fresh \in Names BY <1>1, NamesType
<1>8. nextLoan \in Nat
  <2>1. FirstLoan \in Nat BY FirstLoanType, LoanEndPlanAssumption
  <2> QED BY <2>1 DEF Init
<1>9. env = <<>> \/ \E a \in Local : a.holder = EntryHolder /\ env = <<a>>
  <2>1. PICK a : a = Authority("Mutable", EntryHolder) OBVIOUS
  <2>2. a \in Local /\ a.holder = EntryHolder BY <2>1, NamesType DEF Authority, Local, Kind
  <2>3. PICK b : b = Static(FirstLoan, NoLoan, "Mutable", EntryHolder) OBVIOUS
  <2>4. b \in Local /\ b.holder = EntryHolder
    BY <2>3, NamesType, FirstLoanType DEF Static, Local, Kind
  <2>5. env = <<>> \/ env = <<a>> \/ env = <<b>> BY <2>1, <2>3 DEF Init
  <2> QED BY <2>2, <2>4, <2>5
<1>10. env \in Seq(Local) /\ InScope(env, fresh)
  <2>1. CASE env = <<>> BY <2>1 DEF InScope
  <2>2. CASE \E a \in Local : a.holder = EntryHolder /\ env = <<a>>
    <3>1. PICK a \in Local : a.holder = EntryHolder /\ env = <<a>> BY <2>2
    <3>2. env \in Seq(Local) /\ DOMAIN env = {1} /\ env[1] = a BY <3>1
    <3>3. NamesOf(env[1].holder) \subseteq {1, 2} BY <3>1, <3>2 DEF EntryHolder, NamesOf
    <3>4. InScope(env, fresh) BY <1>1, <3>2, <3>3 DEF InScope
    <3> QED BY <3>2, <3>4
  <2> QED BY <1>9, <2>1, <2>2
<1> QED BY <1>2, <1>4, <1>6, <1>7, <1>8, <1>10 DEF LowerInv, LowerPart

\* Lowering is over when planning starts.
LEMMA LowerNext == LowerInv /\ [Next]_vars => LowerInv'
<1> SUFFICES ASSUME LowerInv, [Next]_vars PROVE LowerInv' OBVIOUS
<1>1. ASSUME NEW k \in Kind, LowerBorrow(k) PROVE LowerInv' BY <1>1, BorrowStep
<1>2. ASSUME NEW x \in References, NEW k \in Kind, LowerReborrow(x, k) PROVE LowerInv'
  BY <1>2, ReborrowStep DEF References
<1>3. ASSUME NEW x \in References, LowerCopy(x) PROVE LowerInv' BY <1>3, CopyStep DEF References
<1>4. ASSUME NEW x \in References, LowerAccess(x) PROVE LowerInv'
  BY <1>4, AccessStep DEF References
<1>5. ASSUME NEW x \in References, NEW live \in BOOLEAN, LowerCall(x, live) PROVE LowerInv'
  BY <1>5, CallStep DEF References
<1>6. ASSUME NEW x \in References, LowerConstruct(x) PROVE LowerInv'
  BY <1>6, ConstructStep DEF References
<1>7. ASSUME NEW x \in DOMAIN env, LowerTake(x) PROVE LowerInv' BY <1>7, TakeStep
<1>8. CASE LowerOwnerWrite BY <1>8, OwnerWriteStep
<1>9. CASE LocalDrop BY <1>9, DropStep
<1>10. CASE Measure BY <1>10 DEF Measure, LowerInv
<1>11. CASE Raise BY <1>11 DEF Raise, LowerInv
<1>12. CASE UNCHANGED vars BY <1>12 DEF vars, LowerInv
<1> QED BY <1>1, <1>2, <1>3, <1>4, <1>5, <1>6, <1>7, <1>8, <1>9, <1>10, <1>11, <1>12 DEF Next

-----------------------------------------------------------------------------
(* Planning. *)

\* A plan p for draft d gives each end a boundary of d; a good one puts it behind
\* the definition and the uses of the reference and not behind its scope.
Plan(d, p) == p \in [Ends(d) -> 0 .. Cardinality(Retained(d))]

GoodPlan(d, p) ==
    \A n \in Ends(d) :
        /\ p[n] <= Boundary(d, n)
        /\ \A m \in Definers(d, n) \cup Users(d, n) : Boundary(d, m) + 1 <= p[n]

PlanInv ==
    /\ outcome \in {"Lowering", "Raising", "Planned", "Rejected"} /\ round \in 0 .. MaxParentDepth + 1
    /\ outcome = "Lowering" => planned = <<>> /\ round = 0
    /\ outcome # "Lowering" => Plan(draft, planned)
    /\ outcome \in {"Raising", "Planned"} => GoodPlan(draft, planned)
    /\ outcome = "Raising" => round <= MaxParentDepth
    /\ outcome = "Planned" => order = Sorted(draft, planned)
    /\ outcome # "Planned" => order = <<>>

\* A member of a set of numbers up to c is a number up to c.
LEMMA MemberUpTo ==
    ASSUME NEW c \in Nat, NEW T \in SUBSET Nat, \A t \in T : t <= c, NEW x \in T
    PROVE  x \in 0 .. c
<1>1. x \in Nat /\ x <= c OBVIOUS
<1> QED BY <1>1

\* Two initial segments of the numbers are equal only if they end alike.
LEMMA SameInterval ==
    ASSUME NEW a \in Nat, NEW b \in Nat, 1 .. a = 1 .. b
    PROVE  a = b
<1>1. CASE a < b
  <2>1. b \in 1 .. b /\ b \notin 1 .. a BY <1>1
  <2> QED BY <2>1
<1>2. CASE b < a
  <2>1. a \in 1 .. a /\ a \notin 1 .. b BY <1>2
  <2> QED BY <2>1
<1> QED BY <1>1, <1>2

\* The last use of a reference is where its last user or definer is.
LEMMA LastUseParts ==
    ASSUME NEW d \in Seq(Instruction), NEW n \in Ends(d), Definers(d, n) # {}
    PROVE  /\ LastUse(d, n) \in 0 .. Cardinality(Retained(d))
           /\ \A m \in Definers(d, n) \cup Users(d, n) : Boundary(d, m) + 1 <= LastUse(d, n)
<1> DEFINE M == Definers(d, n) \cup Users(d, n)
           T == {Boundary(d, m) + 1 : m \in M}
<1>1. M \subseteq Retained(d) /\ M # {} BY DEF Definers, Users
<1>2. Cardinality(Retained(d)) \in Nat /\ Retained(d) \subseteq DOMAIN d BY Positions
<1>3. \A m \in Retained(d) : /\ Boundary(d, m) \in 0 .. Cardinality(Retained(d))
                             /\ Boundary(d, m) + 1 <= Cardinality(Retained(d))
  BY <1>2, Boundaries
<1>4. T \in SUBSET Nat /\ T # {} /\ \A t \in T : t <= Cardinality(Retained(d)) BY <1>1, <1>2, <1>3
<1>5. Sets!Max(T) \in T /\ \A t \in T : t <= Sets!Max(T)
  <2> HIDE DEF T
  <2> QED BY <1>2, <1>4, MaxProperty
<1>6. LastUse(d, n) = Sets!Max(T) BY DEF LastUse
<1>7. Sets!Max(T) \in 0 .. Cardinality(Retained(d))
  <2> HIDE DEF T
  <2> QED BY <1>2, <1>4, <1>5, MemberUpTo
<1>8. \A m \in M : Boundary(d, m) + 1 <= Sets!Max(T) BY <1>5
<1> QED BY <1>6, <1>7, <1>8

\* A raised boundary is not lower than before, and still one of the draft.
LEMMA RaisedParts ==
    ASSUME NEW d \in Seq(Instruction), NEW p, Plan(d, p), NEW n \in Ends(d)
    PROVE  Raised(d, p, n) \in 0 .. Cardinality(Retained(d)) /\ p[n] <= Raised(d, p, n)
<1> DEFINE T == {p[n]} \cup {p[c] : c \in ChildEnds(d, n)}
<1>1. Cardinality(Retained(d)) \in Nat BY Positions
<1>2. ChildEnds(d, n) \subseteq Ends(d) BY DEF ChildEnds
<1>3. \A c \in Ends(d) : p[c] \in 0 .. Cardinality(Retained(d)) BY DEF Plan
<1>4. T \in SUBSET Nat /\ T # {} /\ (\A t \in T : t <= Cardinality(Retained(d))) /\ p[n] \in T
  BY <1>1, <1>2, <1>3
<1>5. Sets!Max(T) \in T /\ \A t \in T : t <= Sets!Max(T)
  <2> HIDE DEF T
  <2> QED BY <1>1, <1>4, MaxProperty
<1>6. Raised(d, p, n) = Sets!Max(T) BY DEF Raised
<1>7. Sets!Max(T) \in 0 .. Cardinality(Retained(d)) /\ p[n] <= Sets!Max(T)
  <2> HIDE DEF T
  <2>1. Sets!Max(T) \in 0 .. Cardinality(Retained(d)) BY <1>1, <1>4, <1>5, MemberUpTo
  <2> QED BY <2>1, <1>4, <1>5
<1> QED BY <1>6, <1>7

LEMMA MeasureStep ==
    ASSUME LowerInv, PlanInv, Measure
    PROVE  PlanInv'
<1>0. draft \in Seq(Instruction) /\ Behind(draft) BY DEF LowerInv, LowerPart
<1>1. /\ outcome = "Lowering" /\ draft' = draft /\ round' = round /\ order' = order
      /\ round = 0 /\ order = <<>>
  BY DEF Measure, PlanInv
<1>2. PICK p : p = planned' OBVIOUS
<1>3. p = [n \in Ends(draft) |->
             IF Movable(draft, n, Passed) THEN LastUse(draft, n) ELSE Boundary(draft, n)]
  BY <1>2 DEF Measure
<1>4. /\ outcome' \in {"Rejected", "Raising"}
      /\ outcome' = "Raising" =>
            \A n \in Ends(draft) : Definers(draft, n) # {} => ~(LastUse(draft, n) > Boundary(draft, n))
  BY DEF Measure
<1>5. /\ Ends(draft) \subseteq DOMAIN draft /\ Retained(draft) \subseteq DOMAIN draft
      /\ Cardinality(Retained(draft)) \in Nat
  BY <1>0, Positions
<1>6. \A n \in DOMAIN draft : Boundary(draft, n) \in 0 .. Cardinality(Retained(draft))
  BY <1>0, Boundaries
<1>7. \A n \in Ends(draft) : Movable(draft, n, Passed) => Definers(draft, n) # {} BY DEF Movable
<1>8. \A n \in Ends(draft) : p[n] \in 0 .. Cardinality(Retained(draft))
  <2> SUFFICES ASSUME NEW n \in Ends(draft) PROVE p[n] \in 0 .. Cardinality(Retained(draft)) OBVIOUS
  <2>1. CASE Movable(draft, n, Passed)
    <3>1. p[n] = LastUse(draft, n) BY <2>1, <1>3
    <3> QED BY <3>1, <2>1, <1>0, <1>7, LastUseParts
  <2>2. CASE ~Movable(draft, n, Passed)
    <3>1. p[n] = Boundary(draft, n) BY <2>2, <1>3
    <3> QED BY <3>1, <1>5, <1>6
  <2> QED BY <2>1, <2>2
<1>9. Plan(draft, p)
  <2>1. p = [n \in Ends(draft) |-> p[n]] BY <1>3
  <2> QED BY <2>1, <1>8 DEF Plan
<1>10. ASSUME outcome' = "Raising" PROVE GoodPlan(draft, p)
  <2> SUFFICES ASSUME NEW n \in Ends(draft)
               PROVE  /\ p[n] <= Boundary(draft, n)
                      /\ \A m \in Definers(draft, n) \cup Users(draft, n) :
                            Boundary(draft, m) + 1 <= p[n]
    BY DEF GoodPlan
  <2>0. n \in DOMAIN draft /\ Boundary(draft, n) \in Int BY <1>5, <1>6
  <2>1. CASE Movable(draft, n, Passed)
    <3>1. p[n] = LastUse(draft, n) /\ Definers(draft, n) # {} BY <2>1, <1>3, <1>7
    <3>2. ~(LastUse(draft, n) > Boundary(draft, n)) BY <3>1, <1>4, <1>10
    <3>3. LastUse(draft, n) \in 0 .. Cardinality(Retained(draft))
          /\ \A m \in Definers(draft, n) \cup Users(draft, n) :
                Boundary(draft, m) + 1 <= LastUse(draft, n)
      BY <3>1, <1>0, LastUseParts
    <3>4. LastUse(draft, n) <= Boundary(draft, n) BY <3>2, <3>3, <2>0, <1>5
    <3> QED BY <3>1, <3>3, <3>4
  <2>2. CASE ~Movable(draft, n, Passed)
    <3>1. p[n] = Boundary(draft, n) BY <2>2, <1>3
    <3>2. \A m \in Definers(draft, n) \cup Users(draft, n) : m < n /\ m \in Retained(draft)
      BY <1>0 DEF Behind, Definers, Users
    <3>3. \A m \in Retained(draft) : m < n => Boundary(draft, m) + 1 <= Boundary(draft, n)
      BY <1>0, <2>0, Boundaries
    <3>4. p[n] <= Boundary(draft, n) BY <3>1, <2>0
    <3> QED BY <3>1, <3>2, <3>3, <3>4
  <2> QED BY <2>1, <2>2
<1>11. round' \in 0 .. MaxParentDepth + 1 /\ round' <= MaxParentDepth
  BY <1>1, LoanEndPlanAssumption
<1>12. Plan(draft', planned') /\ (outcome' = "Raising" => GoodPlan(draft', planned'))
  BY <1>1, <1>2, <1>9, <1>10
<1> QED BY <1>1, <1>4, <1>11, <1>12 DEF PlanInv

LEMMA RaiseStep ==
    ASSUME LowerInv, PlanInv, Raise
    PROVE  PlanInv'
<1>0. draft \in Seq(Instruction) BY DEF LowerInv, LowerPart
<1>1. /\ outcome = "Raising" /\ draft' = draft /\ round' = round + 1 /\ order = <<>>
      /\ Plan(draft, planned) /\ GoodPlan(draft, planned)
      /\ round \in 0 .. MaxParentDepth + 1 /\ round <= MaxParentDepth
  BY DEF Raise, PlanInv
<1>2. PICK p : p = [n \in Ends(draft) |-> Raised(draft, planned, n)] OBVIOUS
<1>3. /\ planned' = p
      /\ \/ outcome' = "Rejected" /\ order' = order
         \/ /\ \A n \in Ends(draft) : p[n] <= Boundary(draft, n)
            /\ \/ round < MaxParentDepth /\ outcome' = outcome /\ order' = order
               \/ outcome' = "Planned" /\ order' = Sorted(draft, p)
  BY <1>2 DEF Raise
<1>4. \A n \in Ends(draft) : /\ p[n] \in 0 .. Cardinality(Retained(draft))
                             /\ planned[n] <= p[n]
  BY <1>0, <1>1, <1>2, RaisedParts
<1>5. Plan(draft, p)
  <2>1. p = [n \in Ends(draft) |-> p[n]] BY <1>2
  <2> QED BY <2>1, <1>4 DEF Plan
<1>6. ASSUME \A n \in Ends(draft) : p[n] <= Boundary(draft, n) PROVE GoodPlan(draft, p)
  <2> SUFFICES ASSUME NEW n \in Ends(draft), NEW m \in Definers(draft, n) \cup Users(draft, n)
               PROVE  Boundary(draft, m) + 1 <= p[n]
    BY <1>6 DEF GoodPlan
  <2>1. Boundary(draft, m) + 1 <= planned[n] BY <1>1 DEF GoodPlan
  <2>2. planned[n] <= p[n] BY <1>4
  <2>3. m \in Retained(draft) BY DEF Definers, Users
  <2>4. Cardinality(Retained(draft)) \in Nat /\ m \in DOMAIN draft BY <2>3, <1>0, Positions
  <2>5. Boundary(draft, m) \in 0 .. Cardinality(Retained(draft)) BY <2>4, <1>0, Boundaries
  <2>6. planned[n] \in 0 .. Cardinality(Retained(draft)) BY <1>1 DEF Plan
  <2>7. p[n] \in 0 .. Cardinality(Retained(draft)) BY <1>4
  <2> QED BY <2>1, <2>2, <2>4, <2>5, <2>6, <2>7
<1>7. /\ round' \in 0 .. MaxParentDepth + 1
      /\ round < MaxParentDepth => round' <= MaxParentDepth
  BY <1>1, LoanEndPlanAssumption
<1>8. CASE outcome' = "Rejected" /\ order' = order
  BY <1>1, <1>3, <1>5, <1>7, <1>8 DEF PlanInv
<1>9. CASE /\ \A n \in Ends(draft) : p[n] <= Boundary(draft, n)
           /\ round < MaxParentDepth /\ outcome' = outcome /\ order' = order
  BY <1>1, <1>3, <1>5, <1>6, <1>7, <1>9 DEF PlanInv
<1>10. CASE /\ \A n \in Ends(draft) : p[n] <= Boundary(draft, n)
            /\ outcome' = "Planned" /\ order' = Sorted(draft, p)
  BY <1>1, <1>3, <1>5, <1>6, <1>7, <1>10 DEF PlanInv
<1> QED BY <1>3, <1>8, <1>9, <1>10

\* Lowering leaves the planning variables alone.
LEMMA LoweringKeepsPlan ==
    ASSUME PlanInv, outcome = "Lowering", UNCHANGED planVars
    PROVE  PlanInv'
BY DEF PlanInv, planVars

LEMMA PlanNext == LowerInv /\ PlanInv /\ [Next]_vars => PlanInv'
<1> SUFFICES ASSUME LowerInv, PlanInv, [Next]_vars PROVE PlanInv' OBVIOUS
<1> DEFINE Lowers == outcome = "Lowering" /\ UNCHANGED planVars
<1>e. ASSUME NEW i, Emit(i) PROVE Lowers BY <1>e DEF Emit
<1>1. ASSUME NEW k \in Kind, LowerBorrow(k) PROVE Lowers BY <1>1, <1>e DEF LowerBorrow
<1>2. ASSUME NEW x \in References, NEW k \in Kind, LowerReborrow(x, k) PROVE Lowers
  BY <1>2, <1>e DEF LowerReborrow
<1>3. ASSUME NEW x \in References, LowerCopy(x) PROVE Lowers BY <1>3, <1>e DEF LowerCopy
<1>4. ASSUME NEW x \in References, LowerAccess(x) PROVE Lowers BY <1>4, <1>e DEF LowerAccess
<1>5. ASSUME NEW x \in References, NEW live \in BOOLEAN, LowerCall(x, live) PROVE Lowers
  BY <1>5 DEF LowerCall
<1>6. ASSUME NEW x \in References, LowerConstruct(x) PROVE Lowers BY <1>6, <1>e DEF LowerConstruct
<1>7. ASSUME NEW x \in DOMAIN env, LowerTake(x) PROVE Lowers BY <1>7, <1>e DEF LowerTake
<1>8. ASSUME LowerOwnerWrite PROVE Lowers BY <1>8, <1>e DEF LowerOwnerWrite
<1>9. ASSUME LocalDrop PROVE Lowers BY <1>9, <1>e DEF LocalDrop
<1>10. CASE Measure BY <1>10, MeasureStep
<1>11. CASE Raise BY <1>11, RaiseStep
<1>12. CASE UNCHANGED vars BY <1>12 DEF vars, PlanInv
<1>13. ASSUME Lowers PROVE PlanInv' BY <1>13, LoweringKeepsPlan
<1> HIDE DEF Lowers
<1> QED BY <1>1, <1>2, <1>3, <1>4, <1>5, <1>6, <1>7, <1>8, <1>9, <1>10, <1>11, <1>12, <1>13 DEF Next

LEMMA PlanInit == Init => PlanInv
BY LoanEndPlanAssumption DEF Init, PlanInv

-----------------------------------------------------------------------------
(* Parents. *)

\* The walk up from l.
Walk(d, l, up) == up = [k \in 0 .. MaxParentDepth |-> IF k = 0 THEN l ELSE Parent(d, up[k - 1])]

LEMMA WalkExists ==
    ASSUME NEW d, NEW l
    PROVE  \E up : /\ Walk(d, l, up)
                   /\ Depth(d, l) = Cardinality({k \in 1 .. MaxParentDepth : up[k] # NoLoan})
<1> DEFINE Good(N, up) == up = [k \in 0 .. N |-> IF k = 0 THEN l ELSE Parent(d, up[k - 1])]
           Bad == {N \in Nat : ~\E up : Good(N, up)}
<1>0. MaxParentDepth \in Nat BY LoanEndPlanAssumption
<1>1. ASSUME NEW B \in Bad PROVE FALSE
  <2>1. PICK N \in Bad : \A y \in Bad : N <= y BY <1>1, LeastElement
  <2>2. N \in Nat /\ ~\E up : Good(N, up) OBVIOUS
  <2>3. CASE N = 0
    <3>1. Good(0, [k \in 0 .. 0 |-> l]) OBVIOUS
    <3> QED BY <3>1, <2>2, <2>3
  <2>4. CASE N # 0
    <3>1. N - 1 \in Nat /\ ~(N <= N - 1) BY <2>2, <2>4
    <3>2. N - 1 \notin Bad BY <3>1, <2>1
    <3>3. PICK up : Good(N - 1, up) BY <3>1, <3>2
    <3> DEFINE C == [k \in 0 .. N |-> IF k = N THEN Parent(d, up[N - 1]) ELSE up[k]]
    <3>4. \A k \in 0 .. N - 1 : C[k] = up[k] BY <3>1
    <3>5. \A k \in 0 .. N : C[k] = IF k = 0 THEN l ELSE Parent(d, C[k - 1])
      <4> SUFFICES ASSUME NEW k \in 0 .. N
                   PROVE  C[k] = IF k = 0 THEN l ELSE Parent(d, C[k - 1])
        OBVIOUS
      <4>1. CASE k = N
        <5>1. C[k] = Parent(d, up[N - 1]) BY <4>1
        <5>2. C[N - 1] = up[N - 1] BY <3>4, <3>1
        <5> QED BY <5>1, <5>2, <4>1, <2>4
      <4>2. CASE k # N
        <5>1. k \in 0 .. N - 1 /\ (k # 0 => k - 1 \in 0 .. N - 1) BY <4>2, <2>2
        <5>2. C[k] = up[k] /\ (k # 0 => C[k - 1] = up[k - 1]) BY <5>1, <3>4
        <5>3. up[k] = IF k = 0 THEN l ELSE Parent(d, up[k - 1]) BY <5>1, <3>3
        <5> QED BY <5>2, <5>3
      <4> QED BY <4>1, <4>2
    <3>6. Good(N, C) BY <3>5
    <3> QED BY <3>6, <2>2
  <2> QED BY <2>3, <2>4
<1>2. \E up : Good(MaxParentDepth, up)
  <2> HIDE DEF Good
  <2>1. MaxParentDepth \notin Bad BY <1>1
  <2> QED BY <1>0, <2>1
<1> DEFINE w == CHOOSE up : up = [k \in 0 .. MaxParentDepth |-> IF k = 0 THEN l ELSE Parent(d, up[k - 1])]
<1>3. Walk(d, l, w) BY <1>2 DEF Walk
<1>4. Depth(d, l) = Cardinality({k \in 1 .. MaxParentDepth : w[k] # NoLoan}) BY DEF Depth
<1> QED BY <1>3, <1>4

\* A set of numbers from 1 up without gaps is the interval of its size.
LEMMA NoGaps ==
    ASSUME NEW N \in Nat, NEW T \in SUBSET (1 .. N), \A k \in T : k - 1 \in T \/ k = 1
    PROVE  T = 1 .. Cardinality(T) /\ Cardinality(T) \in 0 .. N
<1> DEFINE X == {k \in Nat : k + 1 \notin T}
<1>1. N \in X
  <2>1. N + 1 \notin 1 .. N OBVIOUS
  <2> QED BY <2>1
<1>2. PICK D \in X : \A y \in X : D <= y BY <1>1, LeastElement
<1>3. D \in Nat /\ D + 1 \notin T /\ D <= N BY <1>1, <1>2
<1>4. ASSUME NEW k \in 1 .. D PROVE k \in T
  <2>1. k - 1 \in Nat /\ ~(D <= k - 1) /\ (k - 1) + 1 = k BY <1>3, <1>4
  <2>2. k - 1 \notin X BY <2>1, <1>2
  <2> QED BY <2>1, <2>2
<1>5. ASSUME NEW k \in T, k > D PROVE FALSE
  <2> DEFINE Y == {j \in Nat : j \in T /\ j > D}
  <2>1. k \in Y BY <1>5
  <2>2. PICK j \in Y : \A y \in Y : j <= y BY <2>1, LeastElement
  <2>3. j \in T /\ j \in Nat /\ j > D /\ ~(j <= j - 1) OBVIOUS
  <2>4. j # 1 => j - 1 \in T /\ j - 1 \in Nat BY <2>3
  <2>5. j # D + 1 BY <2>3, <1>3
  <2>6. j - 1 > D BY <2>3, <2>5, <1>3
  <2>7. j # 1 BY <2>6, <1>3
  <2>8. j - 1 \in Y BY <2>4, <2>6, <2>7
  <2> QED BY <2>2, <2>3, <2>8
<1>6. T = 1 .. D
  <2>1. \A k \in T : k \in 1 .. D BY <1>3, <1>5
  <2> QED BY <2>1, <1>4
<1>7. Cardinality(1 .. D) = D BY <1>3, IntervalSize
<1> QED BY <1>3, <1>6, <1>7

\* Reborrows make loans, not "no loan".
LoansNamed(d) == \A m \in DOMAIN d : d[m].op = "LoanReborrow" => d[m].loan \in LoanIds

\* A walk up does not come back.
LEMMA WalkStops ==
    ASSUME NEW d, LoansNamed(d), NEW l, NEW up, Walk(d, l, up)
    PROVE  /\ \A k \in 1 .. MaxParentDepth : up[k] = Parent(d, up[k - 1])
           /\ up[0] = l
           /\ \A k \in 1 .. MaxParentDepth : up[k - 1] = NoLoan => up[k] = NoLoan
<1>0. MaxParentDepth \in Nat BY LoanEndPlanAssumption
<1>1. \A k \in 0 .. MaxParentDepth : up[k] = IF k = 0 THEN l ELSE Parent(d, up[k - 1])
  BY DEF Walk
<1>2. \A k \in 1 .. MaxParentDepth : k \in 0 .. MaxParentDepth /\ k # 0 BY <1>0
<1>3. 0 \in 0 .. MaxParentDepth BY <1>0
<1>4. Parent(d, NoLoan) = NoLoan
  <2>1. NoLoan \notin LoanIds BY LoanTableAssumption
  <2>2. ~\E m \in DOMAIN d : d[m].op = "LoanReborrow" /\ d[m].loan = NoLoan BY <2>1 DEF LoansNamed
  <2> QED BY <2>2 DEF Parent
<1> QED BY <1>1, <1>2, <1>3, <1>4

LEMMA DepthParts ==
    ASSUME NEW d, LoansNamed(d), NEW l, NEW up, Walk(d, l, up),
           Depth(d, l) = Cardinality({k \in 1 .. MaxParentDepth : up[k] # NoLoan})
    PROVE  /\ Depth(d, l) \in 0 .. MaxParentDepth
           /\ \A k \in 1 .. MaxParentDepth : up[k] # NoLoan <=> k <= Depth(d, l)
<1>0. MaxParentDepth \in Nat BY LoanEndPlanAssumption
<1>1. PICK T : T = {k \in 1 .. MaxParentDepth : up[k] # NoLoan} OBVIOUS
<1>2. \A k \in T : k - 1 \in T \/ k = 1
  <2> SUFFICES ASSUME NEW k \in T, k # 1 PROVE k - 1 \in T OBVIOUS
  <2>1. k \in 1 .. MaxParentDepth /\ up[k] # NoLoan BY <1>1
  <2>2. up[k - 1] # NoLoan BY <2>1, WalkStops
  <2>3. k - 1 \in 1 .. MaxParentDepth BY <2>1, <1>0
  <2> QED BY <2>2, <2>3, <1>1
<1>3. T \in SUBSET (1 .. MaxParentDepth) BY <1>1
<1>4. T = 1 .. Cardinality(T) /\ Cardinality(T) \in 0 .. MaxParentDepth BY <1>0, <1>2, <1>3, NoGaps
<1>5. PICK D : D = Cardinality(T) OBVIOUS
<1>6. Depth(d, l) = D /\ T = 1 .. D /\ D \in 0 .. MaxParentDepth BY <1>1, <1>4, <1>5
<1>7. \A k \in 1 .. MaxParentDepth : k \in T <=> k <= D BY <1>0, <1>6
<1> QED BY <1>1, <1>6, <1>7

\* A child is one deeper than its parent, as far as the walk reaches.
LEMMA DepthChild ==
    ASSUME NEW d, LoansNamed(d), NEW l, NEW p, p = Parent(d, l), p # NoLoan,
           Depth(d, p) < MaxParentDepth
    PROVE  Depth(d, l) = Depth(d, p) + 1
<1>0. MaxParentDepth \in Nat BY LoanEndPlanAssumption
<1>1. PICK u : Walk(d, p, u) /\ Depth(d, p) = Cardinality({k \in 1 .. MaxParentDepth : u[k] # NoLoan})
  BY WalkExists
<1>2. PICK w : Walk(d, l, w) /\ Depth(d, l) = Cardinality({k \in 1 .. MaxParentDepth : w[k] # NoLoan})
  BY WalkExists
<1>3. PICK D : D = Depth(d, p) OBVIOUS
<1>4. PICK E : E = Depth(d, l) OBVIOUS
<1>5. D \in 0 .. MaxParentDepth /\ \A k \in 1 .. MaxParentDepth : u[k] # NoLoan <=> k <= D
  BY <1>1, <1>3, DepthParts
<1>6. E \in 0 .. MaxParentDepth /\ \A k \in 1 .. MaxParentDepth : w[k] # NoLoan <=> k <= E
  BY <1>2, <1>4, DepthParts
<1>7. /\ \A k \in 1 .. MaxParentDepth : u[k] = Parent(d, u[k - 1])
      /\ u[0] = p
  BY <1>1, WalkStops
<1>8. /\ \A k \in 1 .. MaxParentDepth : w[k] = Parent(d, w[k - 1])
      /\ w[0] = l
  BY <1>2, WalkStops
<1>9. D < MaxParentDepth BY <1>3
<1>10. \A k \in 1 .. MaxParentDepth : w[k] = u[k - 1]
  <2> DEFINE X == {k \in Nat : k \in 1 .. MaxParentDepth /\ w[k] # u[k - 1]}
  <2>1. ASSUME NEW z \in X PROVE FALSE
    <3>1. PICK k \in X : \A y \in X : k <= y BY <2>1, LeastElement
    <3>2. k \in 1 .. MaxParentDepth /\ w[k] # u[k - 1] OBVIOUS
    <3>3. w[1] = u[0] BY <1>7, <1>8, <1>9, <1>5, <1>0
    <3>4. k # 1 BY <3>2, <3>3
    <3>5. k - 1 \in 1 .. MaxParentDepth /\ k - 1 \in Nat /\ ~(k <= k - 1) BY <3>2, <3>4, <1>0
    <3>6. k - 1 \notin X BY <3>1, <3>5
    <3>7. w[k - 1] = u[(k - 1) - 1] BY <3>5, <3>6
    <3>8. w[k] = Parent(d, w[k - 1]) /\ u[k - 1] = Parent(d, u[(k - 1) - 1])
      BY <3>2, <3>5, <1>7, <1>8
    <3> QED BY <3>2, <3>7, <3>8
  <2>2. X = {} BY <2>1
  <2> QED BY <2>2
<1>11. w[1] # NoLoan
  <2>1. 1 \in 1 .. MaxParentDepth BY <1>0, <1>5, <1>9
  <2> QED BY <2>1, <1>7, <1>10
<1>12. E # 0 BY <1>0, <1>5, <1>6, <1>9, <1>11
<1>13. ~(E <= D)
  <2> SUFFICES ASSUME E <= D PROVE FALSE OBVIOUS
  <2>1. E + 1 \in 1 .. MaxParentDepth /\ E \in 1 .. MaxParentDepth /\ ~(E + 1 <= E) /\ (E + 1) - 1 = E
    BY <1>0, <1>5, <1>6, <1>9, <1>12
  <2>2. w[E + 1] = u[E] /\ w[E + 1] = NoLoan BY <2>1, <1>6, <1>10
  <2>3. u[E] # NoLoan BY <2>1, <1>5
  <2> QED BY <2>2, <2>3
<1>14. ~(E > D + 1)
  <2> SUFFICES ASSUME E > D + 1 PROVE FALSE OBVIOUS
  <2>1. D + 2 \in 1 .. MaxParentDepth /\ D + 1 \in 1 .. MaxParentDepth /\ D + 2 <= E
        /\ ~(D + 1 <= D) /\ (D + 2) - 1 = D + 1
    BY <1>0, <1>5, <1>6, <1>9
  <2>2. w[D + 2] = u[D + 1] /\ w[D + 2] # NoLoan BY <2>1, <1>6, <1>10
  <2>3. u[D + 1] = NoLoan BY <2>1, <1>5
  <2> QED BY <2>2, <2>3
<1> QED BY <1>3, <1>4, <1>5, <1>6, <1>13, <1>14

\* A raised boundary is that of the end or that of a child's end.
LEMMA RaisedMost ==
    ASSUME NEW d \in Seq(Instruction), NEW p, Plan(d, p), NEW n \in Ends(d)
    PROVE  /\ Raised(d, p, n) \in Nat /\ p[n] <= Raised(d, p, n)
           /\ \A c \in ChildEnds(d, n) : c \in Ends(d) /\ p[c] \in Nat /\ p[c] <= Raised(d, p, n)
           /\ Raised(d, p, n) = p[n] \/ \E c \in ChildEnds(d, n) : Raised(d, p, n) = p[c]
<1> DEFINE T == {p[n]} \cup {p[c] : c \in ChildEnds(d, n)}
<1>1. Cardinality(Retained(d)) \in Nat BY Positions
<1>2. ChildEnds(d, n) \subseteq Ends(d) BY DEF ChildEnds
<1>3. \A c \in Ends(d) : p[c] \in 0 .. Cardinality(Retained(d)) BY DEF Plan
<1>4. T \in SUBSET Nat /\ T # {} /\ (\A t \in T : t <= Cardinality(Retained(d))) /\ p[n] \in T
  BY <1>1, <1>2, <1>3
<1>5. Sets!Max(T) \in T /\ \A t \in T : t <= Sets!Max(T)
  <2> HIDE DEF T
  <2> QED BY <1>1, <1>4, MaxProperty
<1>6. Raised(d, p, n) = Sets!Max(T) BY DEF Raised
<1>7. Raised(d, p, n) \in T /\ \A t \in T : t <= Raised(d, p, n) BY <1>5, <1>6
<1>8. Raised(d, p, n) \in Nat BY <1>4, <1>7
<1>9. \A c \in ChildEnds(d, n) : c \in Ends(d) /\ p[c] \in T /\ p[c] \in Nat BY <1>1, <1>2, <1>3
<1> QED BY <1>4, <1>7, <1>8, <1>9

\* loan_depth finds the depth of every loan whose end may wait for a child's.
ParentsInReach(d) ==
    \A n \in Ends(d) : ChildEnds(d, n) # {} => Depth(d, d[n].loan) < MaxParentDepth

\* After r rounds the ends of the deepest loans have found their places.
Settled(d, p, r) ==
    \A n \in Ends(d) : Depth(d, d[n].loan) + r > MaxParentDepth => Raised(d, p, n) = p[n]

LEMMA SettledStart ==
    ASSUME NEW d, LoansNamed(d), NEW p
    PROVE  Settled(d, p, 0)
<1>1. ASSUME NEW n \in Ends(d) PROVE ~(Depth(d, d[n].loan) + 0 > MaxParentDepth)
  <2>1. PICK u : /\ Walk(d, d[n].loan, u)
                 /\ Depth(d, d[n].loan) = Cardinality({k \in 1 .. MaxParentDepth : u[k] # NoLoan})
    BY WalkExists
  <2>2. PICK D : D = Depth(d, d[n].loan) OBVIOUS
  <2>3. D \in 0 .. MaxParentDepth BY <2>1, <2>2, DepthParts
  <2>4. MaxParentDepth \in Nat BY LoanEndPlanAssumption
  <2> QED BY <2>2, <2>3, <2>4
<1> QED BY <1>1 DEF Settled

LEMMA ChildDepth ==
    ASSUME NEW d, LoansNamed(d), ParentsInReach(d), NEW n \in Ends(d), NEW c \in ChildEnds(d, n)
    PROVE  /\ c \in Ends(d) /\ Depth(d, d[n].loan) \in Int /\ Depth(d, d[c].loan) = Depth(d, d[n].loan) + 1
<1>1. c \in Ends(d) /\ d[n].loan # NoLoan /\ Parent(d, d[c].loan) = d[n].loan BY DEF ChildEnds
<1>2. Depth(d, d[n].loan) < MaxParentDepth BY DEF ParentsInReach
<1>3. Depth(d, d[c].loan) = Depth(d, d[n].loan) + 1 BY <1>1, <1>2, DepthChild
<1> QED BY <1>1, <1>3, DepthType

LEMMA SettledStep ==
    ASSUME NEW d \in Seq(Instruction), LoansNamed(d), ParentsInReach(d), NEW p, Plan(d, p),
           NEW r \in Nat, Settled(d, p, r),
           NEW q, q = [n \in Ends(d) |-> Raised(d, p, n)], Plan(d, q)
    PROVE  Settled(d, q, r + 1)
<1> SUFFICES ASSUME NEW n \in Ends(d), Depth(d, d[n].loan) + (r + 1) > MaxParentDepth
             PROVE  Raised(d, q, n) = q[n]
  BY DEF Settled
<1>1. /\ Raised(d, q, n) \in Nat /\ q[n] <= Raised(d, q, n)
      /\ Raised(d, q, n) = q[n] \/ \E c \in ChildEnds(d, n) : Raised(d, q, n) = q[c]
  BY RaisedMost
<1>2. /\ Raised(d, p, n) \in Nat
      /\ \A c \in ChildEnds(d, n) : p[c] \in Nat /\ p[c] <= Raised(d, p, n)
  BY RaisedMost
<1>3. q[n] = Raised(d, p, n) OBVIOUS
<1>4. ASSUME NEW c \in ChildEnds(d, n) PROVE q[c] = p[c]
  <2>1. c \in Ends(d) /\ Depth(d, d[n].loan) \in Int /\ Depth(d, d[c].loan) = Depth(d, d[n].loan) + 1
    BY ChildDepth
  <2>2. MaxParentDepth \in Nat BY LoanEndPlanAssumption
  <2>3. Depth(d, d[c].loan) + r > MaxParentDepth BY <2>1, <2>2
  <2>4. Raised(d, p, c) = p[c] BY <2>1, <2>3 DEF Settled
  <2> QED BY <2>1, <2>4
<1>5. CASE \E c \in ChildEnds(d, n) : Raised(d, q, n) = q[c]
  <2>1. PICK c \in ChildEnds(d, n) : Raised(d, q, n) = q[c] BY <1>5
  <2>2. Raised(d, q, n) <= q[n] BY <2>1, <1>2, <1>3, <1>4
  <2>3. q[n] \in Nat BY <1>2, <1>3
  <2> QED BY <2>2, <2>3, <1>1
<1> QED BY <1>1, <1>5

\* If nothing has changed, or after one round more than the depth, all have.
LEMMA SettledEnd ==
    ASSUME NEW d, LoansNamed(d), NEW p, Settled(d, p, MaxParentDepth + 1)
    PROVE  \A n \in Ends(d) : Raised(d, p, n) = p[n]
<1>1. ASSUME NEW n \in Ends(d) PROVE Depth(d, d[n].loan) + (MaxParentDepth + 1) > MaxParentDepth
  <2>1. PICK u : /\ Walk(d, d[n].loan, u)
                 /\ Depth(d, d[n].loan) = Cardinality({k \in 1 .. MaxParentDepth : u[k] # NoLoan})
    BY WalkExists
  <2>2. PICK D : D = Depth(d, d[n].loan) OBVIOUS
  <2>3. D \in 0 .. MaxParentDepth BY <2>1, <2>2, DepthParts
  <2>4. MaxParentDepth \in Nat BY LoanEndPlanAssumption
  <2> QED BY <2>2, <2>3, <2>4
<1> QED BY <1>1 DEF Settled

-----------------------------------------------------------------------------
(* The order of the ends. *)

\* The plan has settled as far as the rounds go.
OrderInv ==
    /\ LoansNamed(draft)
    /\ ParentsInReach(draft) =>
          /\ outcome = "Raising" => Settled(draft, planned, round)
          /\ outcome = "Planned" => \A n \in Ends(draft) : Raised(draft, planned, n) = planned[n]

LEMMA OrderRaise ==
    ASSUME LowerInv, PlanInv, PlanInv', OrderInv, Raise
    PROVE  OrderInv'
<1>0. draft \in Seq(Instruction) /\ LoansNamed(draft) BY DEF LowerInv, LowerPart, OrderInv
<1>1. /\ outcome = "Raising" /\ draft' = draft /\ round' = round + 1
      /\ Plan(draft, planned) /\ round \in Nat
  BY DEF Raise, PlanInv
<1>2. PICK p, q : p = planned /\ q = [n \in Ends(draft) |-> Raised(draft, p, n)] OBVIOUS
<1>3. /\ planned' = q
      /\ outcome' \in {"Rejected", "Raising", "Planned"}
      /\ outcome' = "Planned" => q = p \/ ~(round < MaxParentDepth)
  BY <1>1, <1>2 DEF Raise
<1>4. Plan(draft, q)
  <2>1. outcome' # "Lowering" BY <1>3
  <2> QED BY <2>1, <1>1, <1>3 DEF PlanInv
<1>5. ASSUME ParentsInReach(draft) PROVE Settled(draft, q, round + 1)
  <2>1. Settled(draft, p, round) BY <1>1, <1>2, <1>5 DEF OrderInv
  <2> QED BY <2>1, <1>0, <1>1, <1>2, <1>4, <1>5, SettledStep
<1>6. ASSUME ParentsInReach(draft), outcome' = "Planned", NEW n \in Ends(draft)
      PROVE  Raised(draft, q, n) = q[n]
  <2>1. CASE q = p BY <2>1, <1>2
  <2>2. CASE ~(round < MaxParentDepth)
    <3>1. round <= MaxParentDepth BY <1>1 DEF PlanInv
    <3>2. round + 1 = MaxParentDepth + 1 BY <2>2, <3>1, <1>1, LoanEndPlanAssumption
    <3>3. Settled(draft, q, MaxParentDepth + 1) BY <3>2, <1>5, <1>6
    <3> QED BY <3>3, <1>0, <1>6, SettledEnd
  <2> QED BY <2>1, <2>2, <1>3, <1>6
<1>7. LoansNamed(draft') BY <1>0, <1>1
<1> QED BY <1>1, <1>3, <1>5, <1>6, <1>7 DEF OrderInv

\* Lowering appends instructions, and a reborrow among them makes a loan.
LEMMA NamedAppend ==
    ASSUME NEW d \in Seq(Instruction), LoansNamed(d), NEW i, i.op = "LoanReborrow" => i.loan \in LoanIds
    PROVE  LoansNamed(Append(d, i))
<1>1. PICK c : c = Append(d, i) OBVIOUS
<1>2. PICK S : S = Instruction \cup {i} OBVIOUS
<1>3. d \in Seq(S) /\ i \in S BY <1>2, SeqParts
<1>4. /\ \A n \in DOMAIN d : c[n] = d[n]
      /\ c[Len(d) + 1] = i /\ DOMAIN c = 1 .. Len(d) + 1 /\ DOMAIN d = 1 .. Len(d) /\ Len(d) \in Nat
  BY <1>1, <1>3
<1>5. \A n \in DOMAIN c : n \in DOMAIN d \/ n = Len(d) + 1 BY <1>4
<1> QED BY <1>1, <1>4, <1>5 DEF LoansNamed

LEMMA OrderNext == LowerInv /\ LowerInv' /\ PlanInv /\ PlanInv' /\ OrderInv /\ [Next]_vars => OrderInv'
<1> SUFFICES ASSUME LowerInv, LowerInv', PlanInv, PlanInv', OrderInv, [Next]_vars PROVE OrderInv' OBVIOUS
<1>0. draft \in Seq(Instruction) /\ LoansNamed(draft) BY DEF LowerInv, LowerPart, OrderInv
<1> DEFINE Good == outcome' = "Lowering" /\ LoansNamed(draft')
<1>g. ASSUME Good PROVE OrderInv' BY <1>g DEF OrderInv
<1>e. ASSUME NEW i, Emit(i), i.op = "LoanReborrow" => i.loan \in LoanIds PROVE Good
  BY <1>0, <1>e, NamedAppend DEF Emit, planVars
<1> HIDE DEF Good
<1>1. ASSUME NEW k \in Kind, LowerBorrow(k) PROVE Good BY <1>1, <1>e DEF LowerBorrow
<1>2. ASSUME NEW x \in References, NEW k \in Kind, LowerReborrow(x, k) PROVE Good
  <2>1. nextLoan \in LoanIds BY <1>2 DEF LowerReborrow
  <2> QED BY <1>2, <1>e, <2>1 DEF LowerReborrow
<1>3. ASSUME NEW x \in References, LowerCopy(x) PROVE Good
  <2>1. PICK o : o = IF env[x].form = "Static" THEN "LoanAliasShared" ELSE "LoanAliasAuthority" OBVIOUS
  <2>2. o # "LoanReborrow" BY <2>1
  <2>3. Emit([op |-> o, loan |-> env[x].loan, parent |-> NoLoan, kind |-> "Shared",
              at |-> env[x].holder, new |-> Fresh]) BY <1>3, <2>1 DEF LowerCopy
  <2> QED BY <2>2, <2>3, <1>e
<1>4. ASSUME NEW x \in References, LowerAccess(x) PROVE Good BY <1>4, <1>e DEF LowerAccess, Plain
<1>5. ASSUME NEW x \in References, NEW live \in BOOLEAN, LowerCall(x, live) PROVE Good
  <2>1. PICK restored : restored = [env[x].holder EXCEPT !.permission = fresh + 1] OBVIOUS
  <2>2. PICK i : i = [Plain("Call", env[x].holder) EXCEPT !.new = restored] OBVIOUS
  <2>3. PICK o : o = IF env[x].form = "Static" THEN "LoanEnd" ELSE "LoanEndAuthority" OBVIOUS
  <2>4. PICK e : e = [Plain(o, restored) EXCEPT !.loan = env[x].loan] OBVIOUS
  <2>5. /\ outcome = "Lowering" /\ UNCHANGED planVars
        /\ draft' = Append(draft, i) \/ draft' = draft \o <<i, e>>
    BY <1>5, <2>1, <2>2, <2>3, <2>4 DEF LowerCall
  <2>6. i.op # "LoanReborrow" /\ e.op # "LoanReborrow" BY <2>2, <2>3, <2>4 DEF Plain
  <2>7. CASE draft' = Append(draft, i) BY <1>0, <2>5, <2>6, <2>7, NamedAppend DEF Good, planVars
  <2>8. CASE draft' = draft \o <<i, e>>
    <3>1. PICK S : S = Instruction \cup {i, e} OBVIOUS
    <3>2. draft \in Seq(S) /\ i \in S /\ e \in S BY <1>0, <3>1, SeqParts
    <3>3. draft' = Append(Append(draft, i), e) BY <2>8, <3>2, AppendTwo
    <3>4. PICK b : b = Append(draft, i) OBVIOUS
    <3>5. LoansNamed(b) BY <1>0, <2>6, <3>4, NamedAppend
    <3>6. PICK c : c = draft' OBVIOUS
    <3>7. c = Append(b, e) /\ b \in Seq(S) BY <3>2, <3>3, <3>4, <3>6
    <3>8. /\ DOMAIN c = 1 .. Len(b) + 1 /\ DOMAIN b = 1 .. Len(b) /\ Len(b) \in Nat
          /\ c[Len(b) + 1] = e /\ \A n \in DOMAIN b : c[n] = b[n]
      BY <3>2, <3>7
    <3>9. \A n \in DOMAIN c : n \in DOMAIN b \/ n = Len(b) + 1 BY <3>8
    <3>10. LoansNamed(c)
      <4> SUFFICES ASSUME NEW n \in DOMAIN c, c[n].op = "LoanReborrow" PROVE c[n].loan \in LoanIds
        BY DEF LoansNamed
      <4>1. CASE n = Len(b) + 1 BY <4>1, <3>8, <2>6
      <4>2. CASE n \in DOMAIN b BY <4>2, <3>5, <3>8 DEF LoansNamed
      <4> QED BY <4>1, <4>2, <3>9
    <3> QED BY <3>6, <3>10, <2>5 DEF Good, planVars
  <2> QED BY <2>5, <2>7, <2>8
<1>6. ASSUME NEW x \in References, LowerConstruct(x) PROVE Good
  BY <1>6, <1>e DEF LowerConstruct, Plain
<1>7. ASSUME NEW x \in DOMAIN env, LowerTake(x) PROVE Good BY <1>7, <1>e DEF LowerTake, Plain
<1>8. ASSUME LowerOwnerWrite PROVE Good BY <1>8, <1>e DEF LowerOwnerWrite, Plain
<1>9. ASSUME LocalDrop PROVE Good
  <2>1. CASE outcome = "Lowering" /\ UNCHANGED <<entry, draft, planVars>>
    BY <2>1, <1>0 DEF Good, planVars
  <2>2. CASE ~(outcome = "Lowering" /\ UNCHANGED <<entry, draft, planVars>>)
    BY <2>2, <1>9, <1>e DEF LocalDrop, Plain
  <2> QED BY <2>1, <2>2
<1>10. CASE Measure
  <2>1. draft' = draft /\ outcome' \in {"Rejected", "Raising"} /\ outcome = "Lowering" /\ round' = round
    BY <1>10 DEF Measure
  <2>2. round' = 0 BY <2>1 DEF PlanInv
  <2>3. Settled(draft, planned', 0) BY <1>0, SettledStart
  <2> QED BY <1>0, <2>1, <2>2, <2>3 DEF OrderInv
<1>11. CASE Raise BY <1>11, OrderRaise
<1>12. CASE UNCHANGED vars BY <1>12 DEF vars, OrderInv
<1> QED BY <1>g, <1>1, <1>2, <1>3, <1>4, <1>5, <1>6, <1>7, <1>8, <1>9, <1>10, <1>11, <1>12 DEF Next

LEMMA OrderInit == Init => OrderInv
<1> SUFFICES ASSUME Init PROVE OrderInv OBVIOUS
<1>1. DOMAIN draft = {} /\ outcome = "Lowering" BY DEF Init
<1> QED BY <1>1 DEF OrderInv, LoansNamed

-----------------------------------------------------------------------------
(* The theorems. *)

\* The block is well formed, and what its plan rests on holds: names are used by
\* one local at a time and not after their end (LowerInv), and boundaries stay
\* between the last use and the scope's end (PlanInv).
THEOREM BlockInvHolds == Spec => [](LowerInv /\ PlanInv)
<1>1. Init => LowerInv /\ PlanInv BY LowerInit, PlanInit
<1>2. LowerInv /\ PlanInv /\ [Next]_vars => LowerInv' /\ PlanInv' BY LowerNext, PlanNext
<1> QED BY <1>1, <1>2, PTL DEF Spec

\* The names fit, boundaries lie in the block, the search for them takes no more
\* rounds than allowed, and the planned block consists of the draft's ordinals.
THEOREM PlanTypes == Spec => []TypeOK
<1>1. LowerInv /\ PlanInv => TypeOK
  <2> SUFFICES ASSUME LowerInv, PlanInv PROVE TypeOK OBVIOUS
  <2>1. draft \in Seq(Instruction) /\ env \in Seq(Local) /\ fresh \in Names /\ nextLoan \in Nat
    BY LowerFacts
  <2>2. outcome \in {"Lowering", "Raising", "Planned", "Rejected"} /\ round \in 0 .. MaxParentDepth + 1
    BY DEF PlanInv
  <2>3. \A n \in DOMAIN planned : planned[n] \in 0 .. Cardinality(Retained(draft))
    <3>1. CASE outcome = "Lowering"
      <4>1. planned = <<>> BY <3>1 DEF PlanInv
      <4> QED BY <4>1
    <3>2. CASE outcome # "Lowering" BY <3>2 DEF PlanInv, Plan
    <3> QED BY <3>1, <3>2
  <2>4. order \in Seq(DOMAIN draft)
    <3>1. CASE outcome # "Planned"
      <4>1. order = <<>> BY <3>1 DEF PlanInv
      <4> QED BY <4>1
    <3>2. CASE outcome = "Planned"
      <4>1. order = Sorted(draft, planned) /\ Plan(draft, planned) BY <3>2 DEF PlanInv
      <4>2. planned \in [Ends(draft) -> Nat]
        <5>1. Cardinality(Retained(draft)) \in Nat BY <2>1, Positions
        <5> QED BY <5>1, <4>1 DEF Plan
      <4>3. order \in [DOMAIN draft -> DOMAIN draft] BY <4>1, <4>2, <2>1, SortedOrder
      <4>4. DOMAIN draft = 1 .. Len(draft) /\ Len(draft) \in Nat BY <2>1, Positions
      <4> QED BY <4>3, <4>4
    <3> QED BY <3>1, <3>2
  <2> QED BY <2>1, <2>2, <2>3, <2>4 DEF TypeOK
<1> QED BY <1>1, BlockInvHolds, PTL

\* What sorting the boundaries makes of the block.
LEMMA MovedUp == LowerInv /\ PlanInv => OnlyEndsMoveUp
<1> SUFFICES ASSUME LowerInv, PlanInv, outcome = "Planned" PROVE OnlyEndsMoveUp
  BY DEF OnlyEndsMoveUp
<1>1. draft \in Seq(Instruction) BY LowerFacts
<1>2. order = Sorted(draft, planned) /\ Plan(draft, planned) /\ GoodPlan(draft, planned)
  BY DEF PlanInv
<1>3. Cardinality(Retained(draft)) \in Nat /\ DOMAIN draft = 1 .. Len(draft) /\ Len(draft) \in Nat
      /\ Ends(draft) \subseteq DOMAIN draft /\ Retained(draft) \subseteq DOMAIN draft
  BY <1>1, Positions
<1>4. planned \in [Ends(draft) -> Nat] BY <1>2, <1>3 DEF Plan
<1>5. /\ order \in [DOMAIN draft -> DOMAIN draft]
      /\ \A n \in DOMAIN draft : \E k \in DOMAIN draft : order[k] = n
      /\ \A j, k \in DOMAIN draft : j < k =>
            Less(Key(draft, planned, order[j]), Key(draft, planned, order[k]))
  BY <1>1, <1>2, <1>4, SortedOrder
<1>6. DOMAIN order = DOMAIN draft BY <1>5
<1>7. {order[k] : k \in DOMAIN order} = DOMAIN draft BY <1>5, <1>6
<1>8. Len(order) = Len(draft)
  <2>1. order \in Seq(DOMAIN draft) BY <1>3, <1>5
  <2>2. DOMAIN order = 1 .. Len(order) /\ Len(order) \in Nat BY <2>1
  <2>3. 1 .. Len(order) = 1 .. Len(draft) BY <2>2, <1>3, <1>6
  <2> QED BY <2>2, <2>3, <1>3, SameInterval
<1>9. ASSUME NEW j \in DOMAIN order, NEW k \in DOMAIN order, j < k
      PROVE /\ order[j] \in Retained(draft) /\ order[k] \in Retained(draft) => order[j] < order[k]
            /\ order[j] \in Ends(draft) =>
                  order[k] \notin Definers(draft, order[j]) \cup Users(draft, order[j])
            /\ order[j] \in Retained(draft) /\ order[k] \in Ends(draft) => order[j] < order[k]
  <2>1. PICK m \in DOMAIN draft : m = order[j] BY <1>5, <1>6
  <2>2. PICK n \in DOMAIN draft : n = order[k] BY <1>5, <1>6
  <2>3. PICK u, v : u = Key(draft, planned, m) /\ v = Key(draft, planned, n) OBVIOUS
  <2>4. Less(u, v) BY <2>1, <2>2, <2>3, <1>5, <1>6, <1>9
  <2>5. /\ KeyList(u, m) /\ m \in Int
        /\ m \in Ends(draft) => u[1] = planned[m] /\ u[2] = 0
        /\ m \in Retained(draft) => u[1] = Boundary(draft, m) /\ u[2] = 1 /\ u[3] = 0
    BY <2>3, <1>1, <1>4, KeyType
  <2>6. /\ KeyList(v, n) /\ n \in Int
        /\ n \in Ends(draft) => v[1] = planned[n] /\ v[2] = 0
        /\ n \in Retained(draft) => v[1] = Boundary(draft, n) /\ v[2] = 1 /\ v[3] = 0
    BY <2>3, <1>1, <1>4, KeyType
  <2>7. u[1] < v[1] \/ (u[1] = v[1] /\ u[2] < v[2])
        \/ (u[1] = v[1] /\ u[2] = v[2] /\ u[3] < v[3])
        \/ (u[1] = v[1] /\ u[2] = v[2] /\ u[3] = v[3] /\ m < n)
    BY <2>4, <2>5, <2>6, LessParts DEF KeyList
  <2>8. Boundary(draft, m) \in Int /\ Boundary(draft, n) \in Int
        /\ (n <= m => Boundary(draft, n) <= Boundary(draft, m))
    <3>1. /\ Boundary(draft, m) \in 0 .. Cardinality(Retained(draft))
          /\ Boundary(draft, n) \in 0 .. Cardinality(Retained(draft))
          /\ (n <= m => Boundary(draft, n) <= Boundary(draft, m))
      BY <1>1, Boundaries
    <3> QED BY <3>1, <1>3
  <2>9. ASSUME m \in Retained(draft), n \in Retained(draft) PROVE m < n
    BY <2>5, <2>6, <2>7, <2>8, <2>9
  <2>10. ASSUME m \in Ends(draft), n \in Definers(draft, m) \cup Users(draft, m) PROVE FALSE
    <3>1. n \in Retained(draft) BY <2>10 DEF Definers, Users
    <3>2. Boundary(draft, n) + 1 <= planned[m] BY <2>10, <1>2 DEF GoodPlan
    <3>3. planned[m] \in Int BY <2>10, <1>4
    <3>4. planned[m] <= Boundary(draft, n) BY <3>1, <3>3, <2>5, <2>6, <2>7, <2>8, <2>10
    <3> QED BY <3>2, <3>3, <3>4, <2>8
  <2>11. ASSUME m \in Retained(draft), n \in Ends(draft) PROVE m < n
    <3>1. planned[n] <= Boundary(draft, n) BY <2>11, <1>2 DEF GoodPlan
    <3>2. planned[n] \in Int BY <2>11, <1>4
    <3>3. Boundary(draft, m) < planned[n] BY <3>2, <2>5, <2>6, <2>7, <2>8, <2>11
    <3> QED BY <3>1, <3>2, <3>3, <2>5, <2>6, <2>8
  <2> QED BY <2>1, <2>2, <2>9, <2>10, <2>11
<1> QED BY <1>7, <1>8, <1>9 DEF OnlyEndsMoveUp

\* plan_block moves ends up and does nothing else: every instruction is there
\* once, the others in their order, and an end is behind the definition and all
\* uses of its reference and not later than its scope's end.
THEOREM OnlyEndsMoveUpHolds == Spec => []OnlyEndsMoveUp
BY MovedUp, BlockInvHolds, PTL

\* Every named end of every child loan comes before every end of its parent
\* (plan_block, loan_end.rs:254).
ChildrenEndFirst ==
    outcome = "Planned" /\ ParentsInReach(draft) =>
        \A j, k \in DOMAIN order :
            order[k] \in Ends(draft) /\ order[j] \in ChildEnds(draft, order[k]) => j < k

\* The rounds of the search suffice: by the time they are used up the boundaries
\* have settled from the deepest loans upwards, and the sort puts what ends at the
\* same boundary in the order of the depths.
THEOREM ChildrenEndFirstHolds == Spec => []ChildrenEndFirst
<1>1. Init => LowerInv /\ PlanInv /\ OrderInv BY LowerInit, PlanInit, OrderInit
<1>2. LowerInv /\ PlanInv /\ OrderInv /\ [Next]_vars => LowerInv' /\ PlanInv' /\ OrderInv'
  BY LowerNext, PlanNext, OrderNext
<1>3. LowerInv /\ PlanInv /\ OrderInv => ChildrenEndFirst
  <2> SUFFICES ASSUME LowerInv, PlanInv, OrderInv, outcome = "Planned", ParentsInReach(draft),
                      NEW j \in DOMAIN order, NEW k \in DOMAIN order,
                      order[k] \in Ends(draft), order[j] \in ChildEnds(draft, order[k]), ~(j < k)
               PROVE  FALSE
    BY DEF ChildrenEndFirst
  <2>1. draft \in Seq(Instruction) BY LowerFacts
  <2>2. order = Sorted(draft, planned) /\ Plan(draft, planned) BY DEF PlanInv
  <2>3. Cardinality(Retained(draft)) \in Nat /\ DOMAIN draft = 1 .. Len(draft) /\ Len(draft) \in Nat
    BY <2>1, Positions
  <2>4. planned \in [Ends(draft) -> Nat] BY <2>2, <2>3 DEF Plan
  <2>5. /\ order \in [DOMAIN draft -> DOMAIN draft]
        /\ \A u, v \in DOMAIN draft : u < v =>
              Less(Key(draft, planned, order[u]), Key(draft, planned, order[v]))
    BY <2>1, <2>2, <2>4, SortedOrder
  <2>6. j \in DOMAIN draft /\ k \in DOMAIN draft /\ j \in Nat /\ k \in Nat BY <2>3, <2>5
  <2>7. PICK n, c : n = order[k] /\ c = order[j] OBVIOUS
  <2>8. n \in Ends(draft) /\ c \in ChildEnds(draft, n) /\ c \in Ends(draft) BY <2>7 DEF ChildEnds
  <2>9. /\ Depth(draft, draft[n].loan) \in Int
        /\ Depth(draft, draft[c].loan) = Depth(draft, draft[n].loan) + 1
    BY <2>8, ChildDepth DEF OrderInv
  <2>10. c # n
    <3>1. Depth(draft, draft[c].loan) # Depth(draft, draft[n].loan) BY <2>9
    <3> QED BY <3>1
  <2>11. k < j BY <2>6, <2>7, <2>10
  <2>12. Less(Key(draft, planned, n), Key(draft, planned, c)) BY <2>5, <2>6, <2>7, <2>11
  <2>13. planned[c] <= planned[n] /\ planned[c] \in Nat /\ planned[n] \in Nat
    <3>1. planned[c] <= Raised(draft, planned, n) BY <2>1, <2>2, <2>8, RaisedMost
    <3>2. Raised(draft, planned, n) = planned[n] BY <2>8 DEF OrderInv
    <3> QED BY <3>1, <3>2, <2>4, <2>8
  <2>14. /\ Key(draft, planned, n) = <<planned[n], 0, -Depth(draft, draft[n].loan), n>>
         /\ Key(draft, planned, c) = <<planned[c], 0, -Depth(draft, draft[c].loan), c>>
    BY <2>8 DEF Key
  <2>15. PICK D \in Int : D = Depth(draft, draft[n].loan) BY <2>9
  <2>16. PICK u, v : u = Key(draft, planned, n) /\ v = Key(draft, planned, c) OBVIOUS
  <2>17. u = <<planned[n], 0, -D, n>> /\ v = <<planned[c], 0, -(D + 1), c>>
    BY <2>9, <2>14, <2>15, <2>16
  <2>18. /\ u[1] = planned[n] /\ u[2] = 0 /\ u[3] = -D
         /\ v[1] = planned[c] /\ v[2] = 0 /\ v[3] = -(D + 1)
    BY <2>17
  <2>19. u[1] < v[1] \/ u[3] <= v[3] BY <2>12, <2>16, <2>18, LessParts
  <2> QED BY <2>13, <2>15, <2>18, <2>19
<1> QED BY <1>1, <1>2, <1>3, PTL DEF Spec

-----------------------------------------------------------------------------
(* Runs, state by state. *)

\* A[k] is the state behind the first k instructions of d in the order s.
Trace(start, d, s, A) ==
    A = [k \in 0 .. Len(s) |-> IF k = 0 THEN start ELSE Step(A[k - 1], d[s[k]])]

LEMMA TraceExists ==
    ASSUME NEW start, NEW d, NEW s, Len(s) \in Nat
    PROVE  \E A : Trace(start, d, s, A)
<1> DEFINE Good(N, A) == A = [k \in 0 .. N |-> IF k = 0 THEN start ELSE Step(A[k - 1], d[s[k]])]
           Bad == {N \in Nat : ~\E A : Good(N, A)}
<1>1. SUFFICES ASSUME Len(s) \in Bad PROVE FALSE BY DEF Trace
<1>2. PICK N \in Bad : \A y \in Bad : N <= y BY <1>1, LeastElement
<1>3. N \in Nat /\ ~\E A : Good(N, A) OBVIOUS
<1>4. CASE N = 0
  <2>1. Good(0, [k \in 0 .. 0 |-> start]) OBVIOUS
  <2> QED BY <2>1, <1>3, <1>4
<1>5. CASE N # 0
  <2>1. N - 1 \in Nat /\ ~(N <= N - 1) BY <1>3, <1>5
  <2>2. N - 1 \notin Bad BY <2>1, <1>2
  <2>3. PICK B : Good(N - 1, B) BY <2>1, <2>2
  <2> DEFINE C == [k \in 0 .. N |-> IF k = N THEN Step(B[N - 1], d[s[N]]) ELSE B[k]]
  <2>4. \A k \in 0 .. N - 1 : C[k] = B[k] BY <2>1
  <2>5. \A k \in 0 .. N : C[k] = IF k = 0 THEN start ELSE Step(C[k - 1], d[s[k]])
    <3> SUFFICES ASSUME NEW k \in 0 .. N
                 PROVE  C[k] = IF k = 0 THEN start ELSE Step(C[k - 1], d[s[k]])
      OBVIOUS
    <3>1. CASE k = N
      <4>1. C[k] = Step(B[N - 1], d[s[N]]) BY <3>1
      <4>2. C[N - 1] = B[N - 1] BY <2>4, <2>1
      <4> QED BY <4>1, <4>2, <3>1, <1>5
    <3>2. CASE k # N
      <4>1. k \in 0 .. N - 1 /\ (k # 0 => k - 1 \in 0 .. N - 1) BY <3>2, <1>3
      <4>2. C[k] = B[k] /\ (k # 0 => C[k - 1] = B[k - 1]) BY <4>1, <2>4
      <4>3. B[k] = IF k = 0 THEN start ELSE Step(B[k - 1], d[s[k]]) BY <4>1, <2>3
      <4> QED BY <4>2, <4>3
    <3> QED BY <3>1, <3>2
  <2>6. Good(N, C) BY <2>5
  <2> QED BY <2>6, <1>3
<1> QED BY <1>4, <1>5

LEMMA TraceSteps ==
    ASSUME NEW start, NEW d, NEW s, NEW A, Trace(start, d, s, A), Len(s) \in Nat
    PROVE  /\ DOMAIN A = 0 .. Len(s) /\ A[0] = start
           /\ \A k \in 1 .. Len(s) : A[k] = Step(A[k - 1], d[s[k]])
<1>1. \A k \in 0 .. Len(s) : A[k] = IF k = 0 THEN start ELSE Step(A[k - 1], d[s[k]]) BY DEF Trace
<1>2. DOMAIN A = 0 .. Len(s) BY DEF Trace
<1>3. A[0] = start BY <1>1
<1>4. \A k \in 1 .. Len(s) : k \in 0 .. Len(s) /\ k # 0 OBVIOUS
<1> QED BY <1>1, <1>2, <1>3, <1>4

LEMMA RunTrace ==
    ASSUME NEW d, NEW s, Len(s) \in Nat
    PROVE  \E A : Trace(EntryRun, d, s, A) /\ Run(d, s) = A[Len(s)]
<1> DEFINE A == CHOOSE A : Trace(EntryRun, d, s, A)
<1>1. Trace(EntryRun, d, s, A) BY TraceExists
<1>2. Run(d, s) = A[Len(s)] BY DEF Run, Trace
<1> QED BY <1>1, <1>2

-----------------------------------------------------------------------------
(* What the draft and the locals say of each other. *)

Creating == {"LoanBegin", "LoanReborrow", "LoanReborrowAuthority"}

Defining == Creating \cup {"LoanAliasShared", "LoanAliasAuthority", "Call", "ResourceTake"}

IsReference(a) == a.form # "Storage"

LocalNames(V, f, nl) ==
    /\ \A x \in DOMAIN V :
          /\ ~IsReference(V[x]) => V[x].holder = NoHolder
          /\ IsReference(V[x]) => V[x].holder.permission \in 1 .. f
          /\ V[x].form = "Static" => V[x].loan \in LoanIds /\ V[x].loan < nl
          /\ V[x].form = "Authority" => V[x].loan = NoLoan
    /\ \A x, y \in DOMAIN V : ~IsReference(V[x]) /\ ~IsReference(V[y]) => x = y

GoodInstruction(i, f) ==
    /\ i.at.permission \in 0 .. f
    /\ i.op \in Defining => i.new.permission \in Results(i) /\ i.new.permission \in 1 .. f
    /\ i.op \notin Defining => i.new = NoHolder
    /\ i.op = "LoanReborrow" => i.parent \in LoanIds /\ i.parent < i.loan
    /\ i.op \in {"LoanEnd", "LoanAliasShared"} => i.loan \in LoanIds
    /\ i.op = "LoanEndAuthority" => i.loan = NoLoan
    /\ i.op \in Pending => i.at.permission # NoName

\* Loans are numbered as they are created.
LoanNumbers(en, d, nl) ==
    /\ en # "Nothing" => FirstLoan < nl
    /\ \A m \in DOMAIN d : d[m].op \in Creating =>
          /\ d[m].loan \in LoanIds /\ d[m].loan < nl
          /\ en # "Nothing" => d[m].loan # FirstLoan
    /\ \A m, n \in DOMAIN d :
          d[m].op \in Creating /\ d[n].op \in Creating /\ d[m].loan = d[n].loan => m = n

\* A reference that knows its loan stays one that does, under each of its names.
StaticNames(d, V) ==
    /\ \A m \in DOMAIN d, x \in DOMAIN V :
          d[m].op = "LoanReborrow" /\ IsReference(V[x])
             /\ V[x].holder.permission = d[m].at.permission => V[x].form = "Static"
    /\ \A m \in DOMAIN d, n \in Ends(d) :
          d[m].op = "LoanReborrow" /\ d[n].at.permission = d[m].at.permission => d[n].op = "LoanEnd"
    /\ \A m, n \in Ends(d) : d[m].at.permission = d[n].at.permission => m = n
    /\ \A m \in DOMAIN d, x \in DOMAIN V :
          V[x].form = "Static" /\ d[m].op = "LoanReborrow" /\ d[m].loan = V[x].loan =>
             \E n \in DOMAIN d : d[n].new.pointer = V[x].holder.pointer /\ d[n].loan = V[x].loan

NamePart(en, d, V, f, nl) ==
    /\ LocalNames(V, f, nl)
    /\ \A m \in DOMAIN d : GoodInstruction(d[m], f)
    /\ LoanNumbers(en, d, nl)
    /\ StaticNames(d, V)

\* The references of W are old ones, or have a new name.
Carried(V, W, f, h) ==
    \A x \in DOMAIN W : IsReference(W[x]) =>
        \/ W[x].holder.permission \in f + 1 .. h
        \/ \E y \in DOMAIN V :
              W[x].form = V[y].form /\ W[x].holder = V[y].holder /\ W[x].loan = V[y].loan

\* i uses or ends a local of V.
Grounded(V, i) ==
    \/ i.at = NoHolder /\ i.op # "LoanReborrow"
    \/ \E y \in DOMAIN V :
          /\ IsReference(V[y]) /\ i.at = V[y].holder
          /\ i.op = "LoanReborrow" => V[y].form = "Static"
          /\ i.op = "LoanEndAuthority" => V[y].form # "Static"

\* The references with a new name are made by i or from one for the same loan.
Declared(V, W, f, h, i) ==
    \A x \in DOMAIN W : W[x].form = "Static" /\ W[x].holder.permission \in f + 1 .. h =>
        \/ i.new.pointer = W[x].holder.pointer /\ i.loan = W[x].loan
        \/ \E y \in DOMAIN V : /\ V[y].form = "Static" /\ V[y].loan = W[x].loan
                               /\ V[y].holder.pointer = W[x].holder.pointer

Numbered(i, nl, ml) ==
    IF i.op \in Creating THEN i.loan = nl /\ nl \in LoanIds /\ ml = nl + 1 ELSE ml = nl

LEMMA NameGrow ==
    ASSUME NEW en, NEW d \in Seq(Instruction), NEW V \in Seq(Local), NEW f \in Nat, NEW nl \in Nat,
           InScope(V, f), Retired(d, V, f), NamePart(en, d, V, f, nl),
           NEW i \in Instruction, NEW c, Emitting(c, d, i),
           NEW W \in Seq(Local), NEW h \in Nat, f <= h, NEW ml \in Nat,
           LocalNames(W, h, ml), GoodInstruction(i, h), i.at.permission <= f,
           i.op \in Defining => i.new.permission > f,
           Numbered(i, nl, ml), Carried(V, W, f, h), Grounded(V, i), Declared(V, W, f, h, i)
    PROVE  NamePart(en, c, W, h, ml)
<1> DEFINE z == Len(d) + 1
<1>1. /\ c \in Seq(Instruction) /\ Len(d) \in Nat
      /\ \A n \in DOMAIN d : c[n] = d[n] /\ n \in Nat /\ n < z
      /\ c[z] = i /\ DOMAIN c = DOMAIN d \cup {z} /\ z \notin DOMAIN d
      /\ i.op \in Pending => Ends(c) = Ends(d) \cup {z}
      /\ i.op \notin Pending => Ends(c) = Ends(d)
  BY AppendParts, Positions
<1>2. LocalNames(V, f, nl) /\ LoanNumbers(en, d, nl) /\ StaticNames(d, V)
      /\ \A m \in DOMAIN d : GoodInstruction(d[m], f)
  BY DEF NamePart
<1>3. nl <= ml /\ (i.op \in Creating => nl < ml) BY DEF Numbered
<1> HIDE DEF z
<1>4. \A m \in DOMAIN d : GoodInstruction(d[m], h)
  <2>1. 0 .. f \subseteq 0 .. h /\ 1 .. f \subseteq 1 .. h OBVIOUS
  <2> QED BY <2>1, <1>2 DEF GoodInstruction
<1>5. \A m \in DOMAIN c : GoodInstruction(c[m], h) BY <1>1, <1>4
<1>6. LoanNumbers(en, c, ml)
  <2>0. LoanIds \subseteq Nat /\ FirstLoan \in Nat BY LoanEndPlanAssumption, FirstLoanType
  <2>1. en # "Nothing" => FirstLoan < ml BY <1>2, <1>3, <2>0 DEF LoanNumbers
  <2>2. ASSUME NEW m \in DOMAIN c, c[m].op \in Creating
        PROVE c[m].loan \in LoanIds /\ c[m].loan < ml /\ (en # "Nothing" => c[m].loan # FirstLoan)
    <3>1. CASE m \in DOMAIN d
      <4>1. c[m] = d[m] /\ d[m].op \in Creating BY <3>1, <2>2, <1>1
      <4>2. d[m].loan \in LoanIds /\ d[m].loan < nl /\ (en # "Nothing" => d[m].loan # FirstLoan)
        BY <3>1, <4>1, <1>2 DEF LoanNumbers
      <4>3. d[m].loan < ml BY <4>2, <2>0, <1>3
      <4> QED BY <4>1, <4>2, <4>3
    <3>2. CASE m = z
      <4>1. i.op \in Creating BY <3>2, <2>2, <1>1
      <4>2. i.loan = nl /\ nl \in LoanIds /\ ml = nl + 1 BY <4>1 DEF Numbered
      <4> QED BY <4>2, <3>2, <1>1, <1>2, <2>0 DEF LoanNumbers
    <3> QED BY <3>1, <3>2, <1>1
  <2>3. ASSUME NEW m \in DOMAIN c, NEW n \in DOMAIN c,
               c[m].op \in Creating, c[n].op \in Creating, c[m].loan = c[n].loan
        PROVE m = n
    <3>1. i.op \in Creating => i.loan = nl BY DEF Numbered
    <3>2. \A o \in DOMAIN d : d[o].op \in Creating => d[o].loan \in Nat /\ d[o].loan < nl
      BY <1>2, <2>0 DEF LoanNumbers
    <3>3. \A o \in DOMAIN d : d[o].op \in Creating => d[o].loan # nl BY <3>2
    <3> QED BY <3>1, <3>3, <2>3, <1>1, <1>2 DEF LoanNumbers
  <2> QED BY <2>1, <2>2, <2>3 DEF LoanNumbers
<1>7. \A x \in DOMAIN W : IsReference(W[x]) =>
         \/ \A m \in DOMAIN c : c[m].at.permission # W[x].holder.permission
         \/ \E y \in DOMAIN V :
               W[x].form = V[y].form /\ W[x].holder = V[y].holder /\ W[x].loan = V[y].loan
  <2> SUFFICES ASSUME NEW x \in DOMAIN W, W[x].holder.permission \in f + 1 .. h
               PROVE  \A m \in DOMAIN c : c[m].at.permission # W[x].holder.permission
    BY DEF Carried
  <2>1. \A m \in DOMAIN d : d[m].at.permission \in 0 .. f BY <1>2 DEF GoodInstruction
  <2>2. i.at.permission \in 0 .. f BY DEF GoodInstruction
  <2>3. \A m \in DOMAIN c : c[m].at.permission \in 0 .. f BY <2>1, <2>2, <1>1
  <2>4. \A q \in 0 .. f : q # W[x].holder.permission OBVIOUS
  <2> QED BY <2>3, <2>4
<1>8. ASSUME NEW x \in DOMAIN V, NEW y \in DOMAIN V, IsReference(V[x]), IsReference(V[y]),
             V[x].holder.permission = V[y].holder.permission
      PROVE  x = y
  <2>1. V[x].holder.permission \in 1 .. f /\ V[y].holder.permission \in 1 .. f
    BY <1>2, <1>8 DEF LocalNames
  <2>2. V[x].holder.permission # NoName BY <2>1 DEF NoName
  <2>3. V[x].holder.permission \in NamesOf(V[x].holder) \cap NamesOf(V[y].holder)
    BY <2>2, <1>8 DEF NamesOf
  <2> QED BY <2>3 DEF InScope
<1>9. \A x \in DOMAIN V, e \in Ends(d) : IsReference(V[x]) => V[x].holder.permission # d[e].at.permission
  <2> SUFFICES ASSUME NEW x \in DOMAIN V, NEW e \in Ends(d), IsReference(V[x]),
                      V[x].holder.permission = d[e].at.permission
               PROVE  FALSE
    OBVIOUS
  <2>1. V[x].holder.permission \in 1 .. f BY <1>2 DEF LocalNames
  <2>2. V[x].holder.permission # NoName BY <2>1 DEF NoName
  <2>3. V[x].holder.permission \in NamesOf(V[x].holder) \cap NamesOf(d[e].at) BY <2>2 DEF NamesOf
  <2> QED BY <2>3 DEF Retired
<1>10. ASSUME NEW m \in DOMAIN c, NEW x \in DOMAIN W, c[m].op = "LoanReborrow", IsReference(W[x]),
              W[x].holder.permission = c[m].at.permission
       PROVE  W[x].form = "Static"
  <2>1. PICK y \in DOMAIN V :
           W[x].form = V[y].form /\ W[x].holder = V[y].holder /\ W[x].loan = V[y].loan
    BY <1>7, <1>10
  <2>2. IsReference(V[y]) /\ V[y].holder.permission = c[m].at.permission
    BY <2>1, <1>10 DEF IsReference
  <2>3. CASE m \in DOMAIN d BY <2>1, <2>2, <2>3, <1>1, <1>2, <1>10 DEF StaticNames
  <2>4. CASE m = z
    <3>1. PICK u \in DOMAIN V : IsReference(V[u]) /\ i.at = V[u].holder /\ V[u].form = "Static"
      BY <2>4, <1>1, <1>10 DEF Grounded
    <3>2. u = y BY <3>1, <2>2, <2>4, <1>1, <1>8
    <3> QED BY <3>1, <3>2, <2>1
  <2> QED BY <2>3, <2>4, <1>1
<1>11. ASSUME NEW m \in DOMAIN c, NEW n \in Ends(c), c[m].op = "LoanReborrow",
              c[n].at.permission = c[m].at.permission
       PROVE  c[n].op = "LoanEnd"
  <2>0. Ends(d) \subseteq DOMAIN d BY DEF Ends
  <2>1. CASE n \in Ends(d)
    <3>1. CASE m \in DOMAIN d BY <2>0, <2>1, <3>1, <1>1, <1>2, <1>11 DEF StaticNames
    <3>2. CASE m = z
      <4>1. PICK u \in DOMAIN V : IsReference(V[u]) /\ i.at = V[u].holder
        BY <3>2, <1>1, <1>11 DEF Grounded
      <4> QED BY <4>1, <3>2, <2>0, <2>1, <1>1, <1>9, <1>11
    <3> QED BY <3>1, <3>2, <1>1
  <2>2. CASE n \notin Ends(d)
    <3>1. n = z /\ i.op \in Pending BY <2>2, <1>1
    <3>2. i.op # "LoanReborrow" BY <3>1 DEF Pending
    <3>3. m \in DOMAIN d BY <3>2, <1>1, <1>11
    <3>4. i.at.permission # NoName BY <3>1 DEF GoodInstruction
    <3>5. PICK y \in DOMAIN V : IsReference(V[y]) /\ i.at = V[y].holder
                                /\ (i.op = "LoanEndAuthority" => V[y].form # "Static")
      BY <3>4 DEF Grounded, NoHolder
    <3>6. V[y].form = "Static" BY <3>1, <3>3, <3>5, <1>1, <1>2, <1>11 DEF StaticNames
    <3> QED BY <3>1, <3>5, <3>6, <1>1 DEF Pending
  <2> QED BY <2>1, <2>2
<1>12. ASSUME NEW m \in Ends(c), NEW n \in Ends(c), c[m].at.permission = c[n].at.permission
       PROVE  m = n
  <2>0. Ends(d) \subseteq DOMAIN d BY DEF Ends
  <2>1. ASSUME NEW e \in Ends(d), i.op \in Pending PROVE d[e].at.permission # i.at.permission
    <3>1. i.at.permission # NoName BY <2>1 DEF GoodInstruction
    <3>2. PICK y \in DOMAIN V : IsReference(V[y]) /\ i.at = V[y].holder
      BY <3>1 DEF Grounded, NoHolder
    <3> QED BY <3>2, <1>9
  <2> QED BY <2>0, <2>1, <1>1, <1>2, <1>12 DEF StaticNames
<1>13. ASSUME NEW m \in DOMAIN c, NEW x \in DOMAIN W, W[x].form = "Static",
              c[m].op = "LoanReborrow", c[m].loan = W[x].loan
       PROVE  \E n \in DOMAIN c : c[n].new.pointer = W[x].holder.pointer /\ c[n].loan = W[x].loan
  <2>1. CASE i.new.pointer = W[x].holder.pointer /\ i.loan = W[x].loan BY <2>1, <1>1
  <2>2. CASE ~(i.new.pointer = W[x].holder.pointer /\ i.loan = W[x].loan)
    <3>1. PICK y \in DOMAIN V : /\ V[y].form = "Static" /\ V[y].loan = W[x].loan
                                /\ V[y].holder.pointer = W[x].holder.pointer
      <4>1. IsReference(W[x]) BY <1>13 DEF IsReference
      <4> QED BY <4>1, <2>2, <1>13 DEF Carried, Declared
    <3>2. V[y].loan < nl /\ V[y].loan \in Nat BY <3>1, <1>2, LoanEndPlanAssumption DEF LocalNames
    <3>3. m \in DOMAIN d
      <4>1. CASE m = z
        <5>1. i.op = "LoanReborrow" /\ i.loan = V[y].loan BY <4>1, <3>1, <1>1, <1>13
        <5>2. i.loan = nl BY <5>1 DEF Numbered, Creating
        <5> QED BY <5>1, <5>2, <3>2
      <4> QED BY <4>1, <1>1
    <3>4. PICK n \in DOMAIN d : d[n].new.pointer = V[y].holder.pointer /\ d[n].loan = V[y].loan
      <4>1. d[m].op = "LoanReborrow" /\ d[m].loan = V[y].loan BY <3>1, <3>3, <1>1, <1>13
      <4>2. \A m2 \in DOMAIN d, x2 \in DOMAIN V :
               V[x2].form = "Static" /\ d[m2].op = "LoanReborrow" /\ d[m2].loan = V[x2].loan =>
                  \E n \in DOMAIN d : d[n].new.pointer = V[x2].holder.pointer /\ d[n].loan = V[x2].loan
        BY <1>2 DEF StaticNames
      <4> QED BY <4>1, <4>2, <3>1, <3>3
    <3> QED BY <3>1, <3>4, <1>1
  <2> QED BY <2>1, <2>2
<1>14. StaticNames(c, W) BY <1>10, <1>11, <1>12, <1>13 DEF StaticNames
<1> QED BY <1>5, <1>6, <1>14 DEF NamePart

-----------------------------------------------------------------------------
(* The lowering actions, one instruction at a time. *)

NewNames(f) == [pointer |-> f + 1, permission |-> f + 2]

\* A borrow, a reborrow or a copy declares a local.
Makes(d, V, f, nl, c, W, ml, i, a) ==
    /\ i \in Instruction /\ Emitting(c, d, i) /\ a \in Local /\ Declaring(W, V, a)
    /\ i.new = NewNames(f) /\ Numbered(i, nl, ml)
    /\ \/ /\ i.op = "LoanBegin" /\ i.at = NoHolder
          /\ a = Static(i.loan, NoLoan, i.kind, i.new)
       \/ \E x \in DOMAIN V :
             /\ IsReference(V[x]) /\ i.at = V[x].holder
             /\ V[x].kind = "Shared" => i.kind = "Shared"
             /\ \/ /\ i.op = "LoanReborrow" /\ V[x].form = "Static" /\ i.parent = V[x].loan
                   /\ a = Static(i.loan, i.parent, i.kind, i.new)
                \/ /\ i.op = "LoanReborrowAuthority" /\ V[x].form # "Static"
                   /\ a = Authority(i.kind, i.new)
                \/ /\ i.op \in {"LoanAliasShared", "LoanAliasAuthority"}
                   /\ i.op = "LoanAliasShared" <=> V[x].form = "Static"
                   /\ V[x].kind = "Shared" /\ i.loan = V[x].loan
                   /\ a = [V[x] EXCEPT !.holder = i.new]

Uses(d, V, c, i) ==
    /\ i \in Instruction /\ Emitting(c, d, i) /\ i.new = NoHolder
    /\ \/ i.op = "OwnerWrite" /\ i.at = NoHolder
       \/ i.op = "Access" /\ \E x \in DOMAIN V : IsReference(V[x]) /\ i.at = V[x].holder

Calls(d, V, f, c, W, i, x) ==
    /\ i \in Instruction /\ Emitting(c, d, i) /\ x \in DOMAIN V
    /\ i.op = "Call" /\ i.at = V[x].holder
    /\ i.new = [V[x].holder EXCEPT !.permission = f + 1]
    /\ IsReference(V[x]) /\ V[x].kind = "Mutable"
    /\ W = [V EXCEPT ![x].holder = i.new]

Stores(d, V, c, W, i, x) ==
    /\ i \in Instruction /\ Emitting(c, d, i) /\ x \in DOMAIN V
    /\ i.op = "ResourceInitialize" /\ i.at = V[x].holder /\ i.new = NoHolder
    /\ \A y \in DOMAIN V : IsReference(V[y])
    /\ V[x].kind = "Shared" => d # <<>> /\ d[Len(d)].new = V[x].holder
    /\ \E U : Leaving(U, V, x) /\ Declaring(W, U, Storage(V[x].kind))

Takes(d, V, f, c, W, i, x) ==
    /\ i \in Instruction /\ Emitting(c, d, i) /\ x \in DOMAIN V
    /\ i.op = "ResourceTake" /\ i.at = NoHolder /\ i.new = NewNames(f)
    /\ ~IsReference(V[x]) /\ V[x].full
    /\ Declaring(W, [V EXCEPT ![x].full = FALSE], Authority(V[x].kind, i.new))

\* The last local leaves its scope, or one that a call has just given back.
Closes(d, V, c, W, i, x) ==
    /\ i \in Instruction /\ Emitting(c, d, i) /\ x \in DOMAIN V /\ Leaving(W, V, x)
    /\ i.new = NoHolder
    /\ \/ x = Len(V)
       \/ d # <<>> /\ d[Len(d)].op = "Call" /\ d[Len(d)].new = V[x].holder
    /\ \/ i.op = "LoanEnd" /\ V[x].form = "Static" /\ i.at = V[x].holder /\ i.loan = V[x].loan
       \/ i.op = "LoanEndAuthority" /\ V[x].form = "Authority" /\ i.at = V[x].holder /\ i.loan = NoLoan
       \/ i.op = "ObjectDrop" /\ ~IsReference(V[x]) /\ V[x].full /\ i.at = NoHolder

Forgets(V, W, x) == x = Len(V) /\ x \in DOMAIN V /\ Leaving(W, V, x) /\ ~IsReference(V[x]) /\ ~V[x].full

Lowers(d, V, f, nl, c, W, h, ml) ==
    \/ h = f + 2 /\ \E i, a : Makes(d, V, f, nl, c, W, ml, i, a)
    \/ W = V /\ h = f /\ ml = nl /\ \E i : Uses(d, V, c, i)
    \/ h = f + 1 /\ ml = nl /\ \E i, x : Calls(d, V, f, c, W, i, x)
    \/ h = f /\ ml = nl /\ \E i, x : Stores(d, V, c, W, i, x)
    \/ h = f + 2 /\ ml = nl /\ \E i, x : Takes(d, V, f, c, W, i, x)
    \/ h = f /\ ml = nl /\ \E i, x : Closes(d, V, c, W, i, x)
    \/ c = d /\ h = f /\ ml = nl /\ \E x : Forgets(V, W, x)

\* Nothing happens, an instruction is lowered, or a call and the end behind it.
Lowered(en, d, V, f, nl, c, W, h, ml) ==
    \/ c = d /\ W = V /\ h = f /\ ml = nl
    \/ Lowers(d, V, f, nl, c, W, h, ml)
    \/ \E b, U, g : /\ Lowers(d, V, f, nl, b, U, g, nl) /\ LowerPart(en, b, U, g, nl)
                    /\ Lowers(b, U, g, nl, c, W, h, ml)

LEMMA LocalForm ==
    ASSUME NEW a \in Local
    PROVE  /\ a.form \in {"Static", "Authority", "Storage"} /\ a.full \in BOOLEAN
           /\ a.loan \in LoanIds \cup {NoLoan} /\ a.kind \in Kind /\ a.holder \in Holder
BY DEF Local

LEMMA BorrowLowers ==
    ASSUME LowerInv, NEW k \in Kind, LowerBorrow(k)
    PROVE  Lowers(draft, env, fresh, nextLoan, draft', env', fresh', nextLoan')
<1>1. PICK i : i = [op |-> "LoanBegin", loan |-> nextLoan, parent |-> NoLoan, kind |-> k,
                    at |-> NoHolder, new |-> Fresh] OBVIOUS
<1>2. PICK a : a = Static(nextLoan, NoLoan, k, Fresh) OBVIOUS
<1>3. nextLoan \in LoanIds /\ Emit(i) /\ env' = Append(env, a) /\ fresh' = fresh + 2
      /\ nextLoan' = nextLoan + 1
  BY <1>1, <1>2 DEF LowerBorrow, Declare
<1>4. i.op \notin Pending /\ i.new = Fresh /\ i.at = NoHolder BY <1>1 DEF Pending
<1>5. draft' = Append(draft, i) /\ Emitted < MaxInstructions BY <1>3, <1>4, EmitParts
<1>6. Fresh \in Holder BY <1>5, FreshHolder
<1>7. i \in Instruction BY <1>1, <1>3, <1>6, NamesType DEF Instruction, Op
<1>8. a \in Local BY <1>2, <1>3, <1>6 DEF Static, Local
<1>9. i.new = NewNames(fresh) BY <1>4 DEF Fresh, NewNames
<1>10. Numbered(i, nextLoan, nextLoan') BY <1>1, <1>3 DEF Numbered, Creating
<1>11. a = Static(i.loan, NoLoan, i.kind, i.new) /\ i.op = "LoanBegin" BY <1>1, <1>2
<1>12. Makes(draft, env, fresh, nextLoan, draft', env', nextLoan', i, a)
  BY <1>3, <1>4, <1>5, <1>7, <1>8, <1>9, <1>10, <1>11 DEF Makes, Emitting, Declaring
<1> QED BY <1>3, <1>12 DEF Lowers

LEMMA ReborrowLowers ==
    ASSUME LowerInv, NEW x \in References, NEW k \in Kind, LowerReborrow(x, k)
    PROVE  Lowers(draft, env, fresh, nextLoan, draft', env', fresh', nextLoan')
<1>0. /\ x \in DOMAIN env /\ IsReference(env[x]) /\ env[x] \in Local
      /\ env[x].loan \in LoanIds \cup {NoLoan} /\ env[x].holder \in Holder
  BY LowerFacts, LocalFields DEF References, IsReference
<1>1. nextLoan \in LoanIds /\ fresh' = fresh + 2 /\ nextLoan' = nextLoan + 1
      /\ (env[x].kind = "Shared" => k = "Shared")
  BY DEF LowerReborrow
<1>2. CASE env[x].form = "Static"
  <2>1. PICK i : i = [op |-> "LoanReborrow", loan |-> nextLoan, parent |-> env[x].loan,
                 kind |-> k, at |-> env[x].holder, new |-> Fresh] OBVIOUS
  <2>2. PICK a : a = Static(nextLoan, env[x].loan, k, Fresh) OBVIOUS
  <2>3. Emit(i) /\ env' = Append(env, a) BY <2>1, <2>2, <1>2 DEF LowerReborrow, Declare
  <2>4. i.op \notin Pending /\ i.new = Fresh /\ i.at = env[x].holder BY <2>1 DEF Pending
  <2>5. draft' = Append(draft, i) /\ Emitted < MaxInstructions BY <2>3, <2>4, EmitParts
  <2>6. Fresh \in Holder BY <2>5, FreshHolder
  <2>7. i \in Instruction BY <1>0, <1>1, <2>1, <2>6 DEF Instruction, Op
  <2>8. a \in Local BY <1>0, <1>1, <2>2, <2>6 DEF Static, Local
  <2>9. i.new = NewNames(fresh) BY <2>4 DEF Fresh, NewNames
  <2>10. Numbered(i, nextLoan, nextLoan') BY <1>1, <2>1 DEF Numbered, Creating
  <2>11. /\ a = Static(i.loan, i.parent, i.kind, i.new) /\ i.op = "LoanReborrow"
         /\ i.parent = env[x].loan /\ i.kind = k
    BY <2>1, <2>2
  <2>12. Makes(draft, env, fresh, nextLoan, draft', env', nextLoan', i, a)
    BY <1>0, <1>1, <1>2, <2>3, <2>4, <2>5, <2>7, <2>8, <2>9, <2>10, <2>11 DEF Makes, Emitting, Declaring
  <2> QED BY <1>1, <2>12 DEF Lowers
<1>3. CASE env[x].form # "Static"
  <2>1. PICK i : i = [op |-> "LoanReborrowAuthority", loan |-> nextLoan, parent |-> NoLoan,
                 kind |-> k, at |-> env[x].holder, new |-> Fresh] OBVIOUS
  <2>2. PICK a : a = Authority(k, Fresh) OBVIOUS
  <2>3. Emit(i) /\ env' = Append(env, a) BY <2>1, <2>2, <1>3 DEF LowerReborrow, Declare
  <2>4. i.op \notin Pending /\ i.new = Fresh /\ i.at = env[x].holder BY <2>1 DEF Pending
  <2>5. draft' = Append(draft, i) /\ Emitted < MaxInstructions BY <2>3, <2>4, EmitParts
  <2>6. Fresh \in Holder BY <2>5, FreshHolder
  <2>7. i \in Instruction BY <1>0, <1>1, <2>1, <2>6 DEF Instruction, Op
  <2>8. a \in Local BY <1>0, <1>1, <2>2, <2>6 DEF Authority, Local
  <2>9. i.new = NewNames(fresh) BY <2>4 DEF Fresh, NewNames
  <2>10. Numbered(i, nextLoan, nextLoan') BY <1>1, <2>1 DEF Numbered, Creating
  <2>11. /\ a = Authority(i.kind, i.new) /\ i.op = "LoanReborrowAuthority" /\ i.kind = k
    BY <2>1, <2>2
  <2>12. Makes(draft, env, fresh, nextLoan, draft', env', nextLoan', i, a)
    BY <1>0, <1>1, <1>3, <2>3, <2>4, <2>5, <2>7, <2>8, <2>9, <2>10, <2>11 DEF Makes, Emitting, Declaring
  <2> QED BY <1>1, <2>12 DEF Lowers
<1> QED BY <1>2, <1>3

LEMMA CopyLowers ==
    ASSUME LowerInv, NEW x \in References, LowerCopy(x)
    PROVE  Lowers(draft, env, fresh, nextLoan, draft', env', fresh', nextLoan')
<1>0. /\ x \in DOMAIN env /\ IsReference(env[x]) /\ env[x] \in Local
      /\ env[x].loan \in LoanIds \cup {NoLoan} /\ env[x].holder \in Holder
  BY LowerFacts, LocalFields DEF References, IsReference
<1>o. PICK o : o = IF env[x].form = "Static" THEN "LoanAliasShared" ELSE "LoanAliasAuthority" OBVIOUS
<1>1. PICK i : i = [op |-> o, loan |-> env[x].loan, parent |-> NoLoan, kind |-> "Shared",
                    at |-> env[x].holder, new |-> Fresh] OBVIOUS
<1>2. PICK a : a = [env[x] EXCEPT !.holder = Fresh] OBVIOUS
<1>3. Emit(i) /\ env' = Append(env, a) /\ fresh' = fresh + 2 /\ nextLoan' = nextLoan
      /\ env[x].kind = "Shared"
  BY <1>1, <1>2, <1>o DEF LowerCopy, Declare
<1>p. o \in {"LoanAliasShared", "LoanAliasAuthority"} /\ (o = "LoanAliasShared" <=> env[x].form = "Static")
  BY <1>o
<1>4. i.op \notin Pending /\ i.new = Fresh /\ i.at = env[x].holder BY <1>1, <1>p DEF Pending
<1>5. draft' = Append(draft, i) /\ Emitted < MaxInstructions BY <1>3, <1>4, EmitParts
<1>6. Fresh \in Holder BY <1>5, FreshHolder
<1>7. i \in Instruction BY <1>0, <1>1, <1>p, <1>6 DEF Instruction, Op, Kind
<1>8. a \in Local BY <1>0, <1>2, <1>6 DEF Local
<1>9. i.new = NewNames(fresh) BY <1>4 DEF Fresh, NewNames
<1>10. Numbered(i, nextLoan, nextLoan') BY <1>1, <1>p, <1>3 DEF Numbered, Creating
<1>11. a = [env[x] EXCEPT !.holder = i.new] /\ i.op = o /\ i.loan = env[x].loan /\ i.kind = "Shared"
  BY <1>1, <1>2
<1>12. Makes(draft, env, fresh, nextLoan, draft', env', nextLoan', i, a)
  BY <1>0, <1>p, <1>3, <1>4, <1>5, <1>7, <1>8, <1>9, <1>10, <1>11 DEF Makes, Emitting, Declaring
<1> QED BY <1>3, <1>12 DEF Lowers

LEMMA UseLowers ==
    ASSUME LowerInv, LowerOwnerWrite \/ \E x \in References : LowerAccess(x)
    PROVE  Lowers(draft, env, fresh, nextLoan, draft', env', fresh', nextLoan')
<1>1. CASE LowerOwnerWrite
  <2>1. PICK i : i = Plain("OwnerWrite", NoHolder) OBVIOUS
  <2>2. Emit(i) /\ env' = env /\ fresh' = fresh /\ nextLoan' = nextLoan
    BY <1>1, <2>1 DEF LowerOwnerWrite
  <2>3. i.op = "OwnerWrite" /\ i.at = NoHolder /\ i.new = NoHolder /\ i \in Instruction
    BY <2>1, NamesType DEF Plain, Instruction, Op, Kind
  <2>4. draft' = Append(draft, i) BY <2>2, EmitParts
  <2>5. Uses(draft, env, draft', i) BY <2>3, <2>4 DEF Uses, Emitting
  <2> QED BY <2>2, <2>5 DEF Lowers
<1>2. CASE \E x \in References : LowerAccess(x)
  <2>0. PICK x \in References : LowerAccess(x) BY <1>2
  <2>1. PICK i : i = [Plain("Access", env[x].holder) EXCEPT !.kind = env[x].kind] OBVIOUS
  <2>2. Emit(i) /\ env' = env /\ fresh' = fresh /\ nextLoan' = nextLoan
    BY <2>0, <2>1 DEF LowerAccess
  <2>3. x \in DOMAIN env /\ IsReference(env[x]) /\ env[x].holder \in Holder /\ env[x].kind \in Kind
    BY LowerFacts, LocalFields DEF References, IsReference
  <2>4. i.op = "Access" /\ i.at = env[x].holder /\ i.new = NoHolder /\ i \in Instruction
    BY <2>1, <2>3, NamesType DEF Plain, Instruction, Op, Kind
  <2>5. draft' = Append(draft, i) BY <2>2, EmitParts
  <2>6. Uses(draft, env, draft', i) BY <2>3, <2>4, <2>5 DEF Uses, Emitting
  <2> QED BY <2>2, <2>6 DEF Lowers
<1> QED BY <1>1, <1>2

LEMMA StoreLowers ==
    ASSUME LowerInv, NEW x \in References, LowerConstruct(x)
    PROVE  Lowers(draft, env, fresh, nextLoan, draft', env', fresh', nextLoan')
<1>0. /\ x \in DOMAIN env /\ IsReference(env[x]) /\ env[x] \in Local /\ env[x].holder \in Holder
      /\ \A y \in DOMAIN env : IsReference(env[y])
  BY LowerFacts, LocalFields DEF References, IsReference, LowerConstruct
<1>1. PICK i : i = Plain("ResourceInitialize", env[x].holder) OBVIOUS
<1>2. PICK U : U = Without(x) OBVIOUS
<1>3. /\ Emit(i) /\ env' = Append(U, Storage(env[x].kind)) /\ fresh' = fresh /\ nextLoan' = nextLoan
      /\ env[x].kind = "Shared" => draft # <<>> /\ draft[Len(draft)].new = env[x].holder
  BY <1>1, <1>2 DEF LowerConstruct
<1>4. /\ i.op = "ResourceInitialize" /\ i.at = env[x].holder /\ i.new = NoHolder
      /\ i \in Instruction
  BY <1>0, <1>1, NamesType DEF Plain, Instruction, Op, Kind
<1>5. draft' = Append(draft, i) BY <1>3, EmitParts
<1>6. Leaving(U, env, x) /\ Declaring(env', U, Storage(env[x].kind))
  BY <1>2, <1>3 DEF Leaving, Without, Declaring
<1>7. Stores(draft, env, draft', env', i, x)
  BY <1>0, <1>3, <1>4, <1>5, <1>6 DEF Stores, Emitting
<1> QED BY <1>3, <1>7 DEF Lowers

LEMMA TakeLowers ==
    ASSUME LowerInv, NEW x \in DOMAIN env, LowerTake(x)
    PROVE  Lowers(draft, env, fresh, nextLoan, draft', env', fresh', nextLoan')
<1>1. PICK i : i = [Plain("ResourceTake", NoHolder) EXCEPT !.new = Fresh] OBVIOUS
<1>2. PICK V : V = [env EXCEPT ![x].full = FALSE] OBVIOUS
<1>3. /\ Emit(i) /\ env' = Append(V, Authority(env[x].kind, Fresh)) /\ fresh' = fresh + 2
      /\ nextLoan' = nextLoan /\ env[x].form = "Storage" /\ env[x].full
  BY <1>1, <1>2 DEF LowerTake
<1>4. i = [op |-> "ResourceTake", loan |-> NoLoan, parent |-> NoLoan, kind |-> "Mutable",
           at |-> NoHolder, new |-> Fresh] BY <1>1 DEF Plain
<1>5. i.op \notin Pending BY <1>4 DEF Pending
<1>6. draft' = Append(draft, i) /\ Emitted < MaxInstructions BY <1>3, <1>5, EmitParts
<1>7. Fresh \in Holder BY <1>6, FreshHolder
<1>8. i \in Instruction BY <1>4, <1>7, NamesType DEF Instruction, Op, Kind
<1>9. i.op = "ResourceTake" /\ i.at = NoHolder /\ i.new = Fresh /\ Fresh = NewNames(fresh)
  BY <1>4 DEF Fresh, NewNames
<1>10. Declaring(env', [env EXCEPT ![x].full = FALSE], Authority(env[x].kind, i.new))
  BY <1>2, <1>3, <1>9 DEF Declaring
<1>11. Takes(draft, env, fresh, draft', env', i, x)
  BY <1>3, <1>6, <1>8, <1>9, <1>10 DEF Takes, Emitting, IsReference
<1> QED BY <1>3, <1>11 DEF Lowers

LEMMA DropLowers ==
    ASSUME LowerInv, LocalDrop
    PROVE  Lowers(draft, env, fresh, nextLoan, draft', env', fresh', nextLoan')
<1>0. env \in Seq(Local) /\ DOMAIN env = 1 .. Len(env) /\ Len(env) \in Nat BY LowerFacts
<1>x. PICK x : x = Len(env) OBVIOUS
<1>1. env # <<>> /\ env' = Without(x) /\ fresh' = fresh /\ nextLoan' = nextLoan
  BY <1>x DEF LocalDrop
<1>2. x \in 1 .. Len(env) /\ x \in DOMAIN env
  <2>1. Len(env) # 0 BY <1>0, <1>1
  <2> QED BY <2>1, <1>0, <1>x
<1>3. env[x] \in Local /\ env[x].loan \in LoanIds \cup {NoLoan} /\ env[x].holder \in Holder
  BY <1>2, LowerFacts, LocalFields
<1>5. Leaving(env', env, x) BY <1>1 DEF Leaving, Without
<1>6. \/ env[x].form = "Static" /\ Emit([Plain("LoanEnd", env[x].holder) EXCEPT !.loan = env[x].loan])
      \/ env[x].form = "Authority" /\ Emit(Plain("LoanEndAuthority", env[x].holder))
      \/ env[x].form = "Storage" /\ env[x].full /\ Emit(Plain("ObjectDrop", NoHolder))
      \/ env[x].form = "Storage" /\ ~env[x].full /\ UNCHANGED <<entry, draft, planVars>>
  BY <1>x DEF LocalDrop
<1>7. ASSUME NEW i \in Instruction, Emit(i), Closes(draft, env, Append(draft, i), env', i, x)
      PROVE  Lowers(draft, env, fresh, nextLoan, draft', env', fresh', nextLoan')
  <2>1. draft' = Append(draft, i) BY <1>7, EmitParts
  <2> QED BY <2>1, <1>1, <1>7 DEF Lowers
<1>8. CASE env[x].form = "Static" /\ Emit([Plain("LoanEnd", env[x].holder) EXCEPT !.loan = env[x].loan])
  <2>1. PICK i : i = [Plain("LoanEnd", env[x].holder) EXCEPT !.loan = env[x].loan] OBVIOUS
  <2>2. /\ i.op = "LoanEnd" /\ i.loan = env[x].loan /\ i.at = env[x].holder /\ i.new = NoHolder
        /\ i \in Instruction
    BY <2>1, <1>3, NamesType DEF Plain, Instruction, Op, Kind
  <2>3. Closes(draft, env, Append(draft, i), env', i, x)
    BY <2>2, <1>2, <1>5, <1>8, <1>x DEF Closes, Emitting
  <2> QED BY <2>1, <2>2, <2>3, <1>7, <1>8
<1>9. CASE env[x].form = "Authority" /\ Emit(Plain("LoanEndAuthority", env[x].holder))
  <2>1. PICK i : i = Plain("LoanEndAuthority", env[x].holder) OBVIOUS
  <2>2. /\ i.op = "LoanEndAuthority" /\ i.loan = NoLoan /\ i.at = env[x].holder /\ i.new = NoHolder
        /\ i \in Instruction
    BY <2>1, <1>3, NamesType DEF Plain, Instruction, Op, Kind
  <2>3. Closes(draft, env, Append(draft, i), env', i, x)
    BY <2>2, <1>2, <1>5, <1>9, <1>x DEF Closes, Emitting
  <2> QED BY <2>1, <2>2, <2>3, <1>7, <1>9
<1>10. CASE env[x].form = "Storage" /\ env[x].full /\ Emit(Plain("ObjectDrop", NoHolder))
  <2>1. PICK i : i = Plain("ObjectDrop", NoHolder) OBVIOUS
  <2>2. i.op = "ObjectDrop" /\ i.at = NoHolder /\ i.new = NoHolder /\ i \in Instruction
    BY <2>1, NamesType DEF Plain, Instruction, Op, Kind
  <2>3. Closes(draft, env, Append(draft, i), env', i, x)
    BY <2>2, <1>2, <1>5, <1>10, <1>x DEF Closes, Emitting, IsReference
  <2> QED BY <2>1, <2>2, <2>3, <1>7, <1>10
<1>11. CASE env[x].form = "Storage" /\ ~env[x].full /\ UNCHANGED <<entry, draft, planVars>>
  <2>1. Forgets(env, env', x) BY <1>2, <1>5, <1>11, <1>x DEF Forgets, IsReference
  <2> QED BY <2>1, <1>1, <1>11 DEF Lowers
<1> QED BY <1>6, <1>8, <1>9, <1>10, <1>11

\* A call keeps the bookkeeping of the names.
LEMMA CallPart ==
    ASSUME NEW en, NEW d, NEW V, NEW f, NEW nl, LowerPart(en, d, V, f, nl),
           Spent(en, d) < MaxInstructions, NEW c, NEW W, NEW i, NEW x, Calls(d, V, f, c, W, i, x)
    PROVE  LowerPart(en, c, W, f + 1, nl)
<1>0. /\ d \in Seq(Instruction) /\ V \in Seq(Local) /\ f \in Nat /\ nl \in Nat
      /\ InScope(V, f) /\ Retired(d, V, f)
  BY NamesType DEF LowerPart
<1>1. /\ i \in Instruction /\ Emitting(c, d, i) /\ x \in DOMAIN V /\ i.op = "Call"
      /\ i.at = V[x].holder /\ i.new = [V[x].holder EXCEPT !.permission = f + 1]
      /\ W = [V EXCEPT ![x].holder = i.new]
  BY DEF Calls
<1>2. DOMAIN V = 1 .. Len(V) /\ Len(V) \in Nat /\ \A y \in DOMAIN V : V[y] \in Local BY <1>0
<1>3. V[x] \in Local /\ V[x].holder \in Holder /\ i.new \in Holder
  BY <1>1, <1>2, LocalFields DEF Instruction
<1>4. DOMAIN W = DOMAIN V /\ (\A y \in DOMAIN V : y # x => W[y] = V[y])
      /\ W[x] = [V[x] EXCEPT !.holder = i.new]
  BY <1>1
<1>5. W[x] \in Local /\ W[x].holder = i.new BY <1>3, <1>4 DEF Local
<1>6. W \in Seq(Local)
  <2>1. \A y \in DOMAIN W : W[y] \in Local BY <1>2, <1>4, <1>5
  <2>2. W = [y \in DOMAIN W |-> W[y]] BY <1>1
  <2>3. W \in [1 .. Len(V) -> Local] BY <2>1, <2>2, <1>2, <1>4
  <2> QED BY <2>3, <1>2
<1>7. i.new = [pointer |-> V[x].holder.pointer, permission |-> f + 1] BY <1>1, <1>3 DEF Holder
<1>8. NamesOf(i.new) \subseteq NamesOf(V[x].holder) \cup {f + 1} BY <1>7 DEF NamesOf
<1>9. InScope(W, f + 1) /\ Retired(d, W, f + 1)
  <2>1. NamesOf(W[x].holder) \subseteq NamesOf(V[x].holder) \cup {f + 1} BY <1>5, <1>8
  <2> HIDE <1>1
  <2> QED BY <2>1, <1>0, <1>1, <1>4, <1>6, ScopeRenamed
<1>10. Results(i) \subseteq {f + 1} BY <1>1, <1>8 DEF Results
<1>11. \A n \in Results(i) : n \in Nat /\ f < n BY <1>0, <1>10
<1>12. i.op \notin Pending BY <1>1 DEF Pending
<1>13. PICK h : h = f + 1 OBVIOUS
<1>14. h \in f .. f + 2 /\ InScope(W, h) /\ Retired(d, W, h) BY <1>0, <1>9, <1>13
<1>a. i \in Instruction /\ Emitting(c, d, i) /\ \E y \in DOMAIN V : i.at = V[y].holder BY <1>1
<1>15. LowerPart(en, c, W, h, nl)
  <2> HIDE <1>1
  <2> QED BY <1>a, <1>0, <1>6, <1>11, <1>12, <1>14, RetainedStep
<1> QED BY <1>13, <1>15

LEMMA SameSequence ==
    ASSUME NEW S, NEW u \in Seq(S), NEW v \in Seq(S), Len(u) = Len(v),
           \A k \in 1 .. Len(u) : u[k] = v[k]
    PROVE  u = v
<1>1. u \in [1 .. Len(u) -> S] /\ v \in [1 .. Len(u) -> S] OBVIOUS
<1> QED BY <1>1

\* It does not matter what the local was that leaves.
LEMMA LeavingSame ==
    ASSUME NEW V \in Seq(Local), NEW U \in Seq(Local), Len(U) = Len(V),
           NEW x \in 1 .. Len(V), x \in 1 .. Len(U), \A y \in DOMAIN V : y # x => U[y] = V[y], NEW W, Leaving(W, V, x)
    PROVE  Leaving(W, U, x)
<1>0. Len(V) \in Nat /\ DOMAIN V = 1 .. Len(V) /\ x \in 1 .. Len(U) OBVIOUS
<1>1. PICK u, v : u = SubSeq(V, 1, x - 1) /\ v = SubSeq(V, x + 1, Len(V)) OBVIOUS
<1>2. PICK p, q : p = SubSeq(U, 1, x - 1) /\ q = SubSeq(U, x + 1, Len(U)) OBVIOUS
<1>3. /\ u \in Seq(Local) /\ Len(u) = x - 1 /\ \A y \in 1 .. x - 1 : u[y] = V[y]
      /\ v \in Seq(Local) /\ Len(v) = Len(V) - x /\ \A y \in 1 .. Len(V) - x : v[y] = V[x + y]
  <2>1. ASSUME NEW X \in 1 .. Len(V), u = SubSeq(V, 1, X - 1), v = SubSeq(V, X + 1, Len(V))
        PROVE  /\ u \in Seq(Local) /\ Len(u) = X - 1 /\ \A y \in 1 .. X - 1 : u[y] = V[y]
               /\ v \in Seq(Local) /\ Len(v) = Len(V) - X /\ \A y \in 1 .. Len(V) - X : v[y] = V[X + y]
    BY <2>1, SeqParts
  <2> QED BY <1>1, <2>1
<1>4. /\ p \in Seq(Local) /\ Len(p) = x - 1 /\ \A y \in 1 .. x - 1 : p[y] = U[y]
      /\ q \in Seq(Local) /\ Len(q) = Len(U) - x /\ \A y \in 1 .. Len(U) - x : q[y] = U[x + y]
  <2>1. x \in 1 .. Len(U) OBVIOUS
  <2>2. ASSUME NEW X \in 1 .. Len(U), p = SubSeq(U, 1, X - 1), q = SubSeq(U, X + 1, Len(U))
        PROVE  /\ p \in Seq(Local) /\ Len(p) = X - 1 /\ \A y \in 1 .. X - 1 : p[y] = U[y]
               /\ q \in Seq(Local) /\ Len(q) = Len(U) - X /\ \A y \in 1 .. Len(U) - X : q[y] = U[X + y]
    BY <2>2, SeqParts
  <2> QED BY <1>2, <2>1, <2>2
<1>5. \A y \in 1 .. x - 1 : U[y] = V[y] BY <1>0
<1>6. \A y \in 1 .. Len(V) - x : U[x + y] = V[x + y] BY <1>0
<1>7. p = u
  <2>1. \A y \in 1 .. Len(p) : p[y] = u[y] BY <1>3, <1>4, <1>5
  <2> QED BY <2>1, <1>3, <1>4, SameSequence
<1>8. q = v
  <2>1. \A y \in 1 .. Len(q) : q[y] = v[y] BY <1>3, <1>4, <1>6
  <2> QED BY <2>1, <1>3, <1>4, SameSequence
<1> QED BY <1>1, <1>2, <1>7, <1>8 DEF Leaving

LEMMA LastOf ==
    ASSUME NEW d \in Seq(Instruction), NEW i \in Instruction, NEW c, Emitting(c, d, i)
    PROVE  c # <<>> /\ c[Len(c)] = i
<1>1. c \in Seq(Instruction) /\ Len(c) = Len(d) + 1 /\ c[Len(d) + 1] = i /\ Len(d) \in Nat
  BY AppendParts, Positions
<1>2. Len(<<>>) = 0 OBVIOUS
<1> QED BY <1>1, <1>2

LEMMA CallLowers ==
    ASSUME LowerInv, LocalNames(env, fresh, nextLoan), NEW x \in References, NEW live \in BOOLEAN, LowerCall(x, live)
    PROVE  Lowered(entry, draft, env, fresh, nextLoan, draft', env', fresh', nextLoan')
<1>0. /\ env \in Seq(Local) /\ fresh \in Nat /\ nextLoan \in Nat /\ draft \in Seq(Instruction)
      /\ DOMAIN env = 1 .. Len(env) /\ Len(env) \in Nat
      /\ x \in DOMAIN env /\ IsReference(env[x]) /\ env[x] \in Local
      /\ env[x].loan \in LoanIds \cup {NoLoan} /\ env[x].holder \in Holder
      /\ env[x].form \in {"Static", "Authority", "Storage"}
  BY LowerFacts, LocalFields, LocalForm DEF References, IsReference
<1>1. PICK restored : restored = [env[x].holder EXCEPT !.permission = fresh + 1] OBVIOUS
<1>2. PICK i : i = [Plain("Call", env[x].holder) EXCEPT !.new = restored] OBVIOUS
<1>3. PICK e : e = [Plain(IF env[x].form = "Static" THEN "LoanEnd" ELSE "LoanEndAuthority", restored)
                       EXCEPT !.loan = env[x].loan] OBVIOUS
<1>4. /\ Emitted < MaxInstructions /\ entry' = entry /\ nextLoan' = nextLoan /\ fresh' = fresh + 1
      /\ env[x].kind = "Mutable"
      /\ \/ draft' = Append(draft, i) /\ env' = [env EXCEPT ![x].holder = restored]
         \/ draft' = draft \o <<i, e>> /\ env' = Without(x)
  BY <1>1, <1>2, <1>3 DEF LowerCall
<1>5. fresh + 1 \in Names /\ Spent(entry, draft) < MaxInstructions BY <1>4, FreshHolder
<1>6. restored = [pointer |-> env[x].holder.pointer, permission |-> fresh + 1] /\ restored \in Holder
  BY <1>0, <1>1, <1>5 DEF Holder
<1>7. i = [op |-> "Call", loan |-> NoLoan, parent |-> NoLoan, kind |-> "Mutable",
           at |-> env[x].holder, new |-> restored] BY <1>2 DEF Plain
<1>8. i \in Instruction /\ i.op = "Call" /\ i.at = env[x].holder /\ i.new = restored
  BY <1>0, <1>6, <1>7 DEF Instruction, Op, Kind
<1>9. PICK b, U : b = Append(draft, i) /\ U = [env EXCEPT ![x].holder = restored] OBVIOUS
<1>10. Calls(draft, env, fresh, b, U, i, x) BY <1>0, <1>1, <1>4, <1>8, <1>9 DEF Calls, Emitting
<1>11. Lowers(draft, env, fresh, nextLoan, b, U, fresh + 1, nextLoan) BY <1>10 DEF Lowers
<1>12. CASE draft' = Append(draft, i) /\ env' = [env EXCEPT ![x].holder = restored]
  BY <1>4, <1>9, <1>11, <1>12 DEF Lowered
<1>13. CASE draft' = draft \o <<i, e>> /\ env' = Without(x)
  <2>1. LowerPart(entry, b, U, fresh + 1, nextLoan)
    BY <1>5, <1>10, CallPart DEF LowerInv
  <2>2. e = [op |-> IF env[x].form = "Static" THEN "LoanEnd" ELSE "LoanEndAuthority",
             loan |-> env[x].loan, parent |-> NoLoan, kind |-> "Mutable",
             at |-> restored, new |-> NoHolder] BY <1>3 DEF Plain
  <2>3. /\ e \in Instruction /\ e.at = restored /\ e.new = NoHolder /\ e.loan = env[x].loan
        /\ e.op = IF env[x].form = "Static" THEN "LoanEnd" ELSE "LoanEndAuthority"
    BY <2>2, <1>0, <1>6, NamesType DEF Instruction, Op, Kind
  <2>4. draft' = Append(b, e) BY <2>3, <1>0, <1>8, <1>9, <1>13, AppendTwo
  <2>5. /\ U \in Seq(Local) /\ DOMAIN U = DOMAIN env /\ Len(U) = Len(env)
        /\ U[x] = [env[x] EXCEPT !.holder = restored]
        /\ \A y \in DOMAIN env : y # x => U[y] = env[y]
    BY <2>1, <1>0, <1>9 DEF LowerPart
  <2>6. /\ U[x].holder = restored /\ U[x].form = env[x].form /\ U[x].loan = env[x].loan
    BY <2>5, <1>0 DEF Local
  <2>7. Leaving(env', U, x)
    <3>1. Leaving(env', env, x) BY <1>13 DEF Leaving, Without
    <3>2. x \in 1 .. Len(env) /\ x \in 1 .. Len(U) BY <2>5, <1>0
    <3> HIDE <1>13
    <3> QED BY <3>1, <3>2, <2>5, <1>0, LeavingSame
  <2>8. b # <<>> /\ b[Len(b)] = i
    <3>1. Emitting(b, draft, i) BY <1>9 DEF Emitting
    <3> HIDE <1>9, <1>13
    <3> QED BY <3>1, <1>0, <1>8, LastOf
  <2>9. env[x].form = "Authority" => env[x].loan = NoLoan
    BY <1>0 DEF LocalNames
  <2>10. Closes(b, U, draft', env', e, x)
    BY <2>3, <2>4, <2>5, <2>6, <2>7, <2>8, <2>9, <1>0, <1>8 DEF Closes, Emitting, IsReference
  <2>11. Lowers(b, U, fresh + 1, nextLoan, draft', env', fresh + 1, nextLoan) BY <2>10 DEF Lowers
  <2> QED BY <2>1, <2>11, <1>4, <1>11 DEF Lowered
<1> QED BY <1>4, <1>12, <1>13

\* The locals that stay keep what is said of their names.
LEMMA ShorterNames ==
    ASSUME NEW V, NEW W, NEW f \in Nat, NEW h \in Nat, f <= h, NEW nl \in Nat,
           LocalNames(V, f, nl), NEW g,
           \A y \in DOMAIN W : g[y] \in DOMAIN V /\ W[y] = V[g[y]],
           \A x, y \in DOMAIN W : x # y => g[x] # g[y]
    PROVE  LocalNames(W, h, nl)
<1>1. ASSUME NEW x \in DOMAIN W
      PROVE  /\ ~IsReference(W[x]) => W[x].holder = NoHolder
             /\ IsReference(W[x]) => W[x].holder.permission \in 1 .. h
             /\ W[x].form = "Static" => W[x].loan \in LoanIds /\ W[x].loan < nl
             /\ W[x].form = "Authority" => W[x].loan = NoLoan
  <2>1. g[x] \in DOMAIN V /\ W[x] = V[g[x]] BY <1>1
  <2>2. 1 .. f \subseteq 1 .. h OBVIOUS
  <2> QED BY <2>1, <2>2 DEF LocalNames
<1>2. ASSUME NEW x \in DOMAIN W, NEW y \in DOMAIN W, ~IsReference(W[x]), ~IsReference(W[y])
      PROVE  x = y
  <2>1. g[x] = g[y] BY <1>2 DEF LocalNames
  <2> QED BY <2>1
<1> QED BY <1>1, <1>2 DEF LocalNames

LEMMA AtNames ==
    ASSUME NEW V, NEW f \in Nat, NEW nl, InScope(V, f), LocalNames(V, f, nl),
           NEW x \in DOMAIN V, IsReference(V[x])
    PROVE  /\ V[x].holder.permission \in 1 .. f /\ V[x].holder.permission # NoName
           /\ \A n \in NamesOf(V[x].holder) : n \in Nat /\ n <= f
           /\ V[x].holder.permission \in NamesOf(V[x].holder)
<1>1. V[x].holder.permission \in 1 .. f BY DEF LocalNames
<1>2. V[x].holder.permission # NoName BY <1>1 DEF NoName
<1> QED BY <1>1, <1>2 DEF InScope, NamesOf

\* What lowering a borrow, a reborrow or a copy declares.
LEMMA MakesParts ==
    ASSUME NEW d \in Seq(Instruction), NEW V \in Seq(Local), NEW f \in Nat, NEW nl \in Nat,
           InScope(V, f), LocalNames(V, f, nl), NEW c, NEW W, NEW ml \in Nat, NEW i, NEW a,
           Makes(d, V, f, nl, c, W, ml, i, a)
    PROVE  /\ i \in Instruction /\ a \in Local /\ Emitting(c, d, i) /\ Declaring(W, V, a)
           /\ Numbered(i, nl, ml) /\ nl <= ml
           /\ i.op \in Defining \ {"Call", "ResourceTake"}
           /\ i.new.pointer = f + 1 /\ i.new.permission = f + 2
           /\ a.holder = i.new /\ IsReference(a)
           /\ a.form = "Static" => a.loan = i.loan /\ a.loan \in LoanIds /\ a.loan < ml
           /\ a.form # "Static" => a.form = "Authority" /\ a.loan = NoLoan
           /\ a.kind = IF i.op \in Creating THEN i.kind ELSE "Shared"
           /\ i.op \in {"LoanBegin", "LoanReborrow", "LoanAliasShared"} <=> a.form = "Static"
           /\ i.op = "LoanBegin" => i.at = NoHolder
           /\ i.op # "LoanBegin" => \E x \in DOMAIN V :
                 /\ IsReference(V[x]) /\ i.at = V[x].holder
                 /\ V[x].kind = "Shared" => i.kind = "Shared"
                 /\ i.op \in {"LoanReborrow", "LoanAliasShared"} <=> V[x].form = "Static"
                 /\ i.op = "LoanReborrow" => i.parent = V[x].loan
                 /\ i.op \notin Creating => V[x].kind = "Shared" /\ i.loan = V[x].loan
<1>1. /\ i \in Instruction /\ Emitting(c, d, i) /\ a \in Local /\ Declaring(W, V, a)
      /\ i.new = NewNames(f) /\ Numbered(i, nl, ml)
  BY DEF Makes
<1>2. i.new.pointer = f + 1 /\ i.new.permission = f + 2 BY <1>1 DEF NewNames
<1>3. nl <= ml BY <1>1 DEF Numbered
<1>4. CASE i.op = "LoanBegin" /\ i.at = NoHolder /\ a = Static(i.loan, NoLoan, i.kind, i.new)
  <2>1. i.loan = nl /\ nl \in LoanIds /\ ml = nl + 1 BY <1>1, <1>4 DEF Numbered, Creating
  <2>2. a.holder = i.new /\ a.form = "Static" /\ a.loan = i.loan /\ a.kind = i.kind
    BY <1>4 DEF Static
  <2>3. IsReference(a) /\ i.op \in Creating /\ i.op \in Defining \ {"Call", "ResourceTake"}
    BY <1>4, <2>2 DEF IsReference, Creating, Defining
  <2> QED BY <1>1, <1>2, <1>3, <1>4, <2>1, <2>2, <2>3
<1>5. ASSUME NEW x \in DOMAIN V, IsReference(V[x]), i.at = V[x].holder,
             V[x].kind = "Shared" => i.kind = "Shared",
             i.op = "LoanReborrow", V[x].form = "Static", i.parent = V[x].loan,
             a = Static(i.loan, i.parent, i.kind, i.new)
      PROVE  /\ a.holder = i.new /\ IsReference(a) /\ a.form = "Static" /\ a.kind = i.kind
             /\ a.loan = i.loan /\ i.op \in Creating /\ a.loan \in LoanIds /\ a.loan < ml
             /\ i.op \in Defining \ {"Call", "ResourceTake"}
  <2>1. i.loan = nl /\ nl \in LoanIds /\ ml = nl + 1 BY <1>1, <1>5 DEF Numbered, Creating
  <2>2. a.holder = i.new /\ a.form = "Static" /\ a.loan = i.loan /\ a.kind = i.kind
    BY <1>5 DEF Static
  <2> QED BY <1>5, <2>1, <2>2 DEF IsReference, Creating, Defining
<1>6. ASSUME NEW x \in DOMAIN V, i.op = "LoanReborrowAuthority", a = Authority(i.kind, i.new)
      PROVE  /\ a.holder = i.new /\ IsReference(a) /\ a.form = "Authority" /\ a.kind = i.kind
             /\ a.loan = NoLoan /\ i.op \in Creating
             /\ i.op \in Defining \ {"Call", "ResourceTake"}
  <2>2. a.holder = i.new /\ a.form = "Authority" /\ a.loan = NoLoan /\ a.kind = i.kind
    BY <1>6 DEF Authority
  <2> QED BY <1>6, <2>2 DEF IsReference, Creating, Defining
<1>7. ASSUME NEW x \in DOMAIN V, IsReference(V[x]), i.op \in {"LoanAliasShared", "LoanAliasAuthority"},
             V[x].kind = "Shared", i.loan = V[x].loan, a = [V[x] EXCEPT !.holder = i.new]
      PROVE  /\ a.holder = i.new /\ IsReference(a) /\ a.form = V[x].form /\ a.kind = "Shared"
             /\ a.loan = i.loan /\ i.op \notin Creating
             /\ a.form = "Static" => a.loan \in LoanIds /\ a.loan < ml
             /\ a.form # "Static" => a.form = "Authority" /\ a.loan = NoLoan
             /\ i.op \in Defining \ {"Call", "ResourceTake"}
  <2>1. V[x] \in Local /\ V[x].form \in {"Static", "Authority", "Storage"} BY LocalForm
  <2>2. a.holder = i.new /\ a.form = V[x].form /\ a.loan = V[x].loan /\ a.kind = V[x].kind
    BY <1>7, <2>1 DEF Local
  <2>3. V[x].form = "Static" => V[x].loan \in LoanIds /\ V[x].loan < nl BY DEF LocalNames
  <2>4. V[x].form = "Static" => V[x].loan < ml BY <2>3, <1>3, LoanEndPlanAssumption
  <2>5. V[x].form = "Authority" => V[x].loan = NoLoan BY DEF LocalNames
  <2> QED BY <1>7, <2>1, <2>2, <2>3, <2>4, <2>5 DEF IsReference, Creating, Defining
<1>8. CASE ~(i.op = "LoanBegin" /\ i.at = NoHolder /\ a = Static(i.loan, NoLoan, i.kind, i.new))
  <2>1. PICK x \in DOMAIN V :
             /\ IsReference(V[x]) /\ i.at = V[x].holder
             /\ V[x].kind = "Shared" => i.kind = "Shared"
             /\ \/ /\ i.op = "LoanReborrow" /\ V[x].form = "Static" /\ i.parent = V[x].loan
                   /\ a = Static(i.loan, i.parent, i.kind, i.new)
                \/ /\ i.op = "LoanReborrowAuthority" /\ V[x].form # "Static"
                   /\ a = Authority(i.kind, i.new)
                \/ /\ i.op \in {"LoanAliasShared", "LoanAliasAuthority"}
                   /\ i.op = "LoanAliasShared" <=> V[x].form = "Static"
                   /\ V[x].kind = "Shared" /\ i.loan = V[x].loan
                   /\ a = [V[x] EXCEPT !.holder = i.new]
    BY <1>8 DEF Makes
  <2>2. CASE i.op = "LoanReborrow" /\ V[x].form = "Static" /\ i.parent = V[x].loan
             /\ a = Static(i.loan, i.parent, i.kind, i.new)
    BY <2>1, <2>2, <1>1, <1>2, <1>3, <1>5
  <2>3. CASE i.op = "LoanReborrowAuthority" /\ V[x].form # "Static" /\ a = Authority(i.kind, i.new)
    BY <2>1, <2>3, <1>1, <1>2, <1>3, <1>6
  <2>4. CASE i.op \in {"LoanAliasShared", "LoanAliasAuthority"}
             /\ (i.op = "LoanAliasShared" <=> V[x].form = "Static")
             /\ V[x].kind = "Shared" /\ i.loan = V[x].loan
             /\ a = [V[x] EXCEPT !.holder = i.new]
    BY <2>1, <2>4, <1>1, <1>2, <1>3, <1>7
  <2> QED BY <2>1, <2>2, <2>3, <2>4
<1> QED BY <1>4, <1>8

LEMMA MakesNames ==
    ASSUME NEW en, NEW d \in Seq(Instruction), NEW V \in Seq(Local), NEW f \in Nat, NEW nl \in Nat,
           InScope(V, f), Retired(d, V, f), NamePart(en, d, V, f, nl),
           NEW c, NEW W, NEW ml \in Nat, NEW i, NEW a,
           Makes(d, V, f, nl, c, W, ml, i, a)
    PROVE  NamePart(en, c, W, f + 2, ml)
<1>0. LocalNames(V, f, nl) BY DEF NamePart
<1>1. /\ i \in Instruction /\ a \in Local /\ Emitting(c, d, i) /\ Declaring(W, V, a)
      /\ Numbered(i, nl, ml) /\ nl <= ml
      /\ i.op \in Defining \ {"Call", "ResourceTake"}
      /\ i.new.pointer = f + 1 /\ i.new.permission = f + 2
      /\ a.holder = i.new /\ IsReference(a)
      /\ a.form = "Static" => a.loan = i.loan /\ a.loan \in LoanIds /\ a.loan < ml
      /\ a.form # "Static" => a.form = "Authority" /\ a.loan = NoLoan
      /\ i.op = "LoanBegin" => i.at = NoHolder
  BY <1>0, MakesParts
<1>2. i.op # "LoanBegin" => \E x \in DOMAIN V :
         /\ IsReference(V[x]) /\ i.at = V[x].holder
         /\ i.op \in {"LoanReborrow", "LoanAliasShared"} <=> V[x].form = "Static"
         /\ i.op = "LoanReborrow" => i.parent = V[x].loan
  <2> HIDE <1>1
  <2> QED BY <1>0, MakesParts
<1>a. i.op = "LoanAliasShared" => i.loan \in LoanIds
  <2> HIDE <1>1, <1>2
  <2>1. i.op = "LoanAliasShared" => a.form = "Static" BY <1>0, MakesParts
  <2>2. a.form = "Static" => a.loan = i.loan /\ a.loan \in LoanIds BY <1>0, MakesParts
  <2> QED BY <2>1, <2>2
<1>3. /\ W \in Seq(Local) /\ Len(V) \in Nat
      /\ DOMAIN V = 1 .. Len(V) /\ DOMAIN W = 1 .. Len(V) + 1
      /\ \A y \in 1 .. Len(V) : W[y] = V[y]
      /\ W[Len(V) + 1] = a
  BY <1>1, DeclaringParts
<1> DEFINE z == Len(V) + 1
<1>4. z \in DOMAIN W /\ W[z] = a /\ \A y \in DOMAIN W : y # z => y \in DOMAIN V /\ W[y] = V[y]
  BY <1>3
<1>5. i.at.permission \in 0 .. f /\ \A n \in NamesOf(i.at) : n <= f
  <2>1. CASE i.op = "LoanBegin" BY <2>1, <1>1 DEF NoHolder, NamesOf, NoName
  <2>2. CASE i.op # "LoanBegin"
    <3>1. PICK x \in DOMAIN V : IsReference(V[x]) /\ i.at = V[x].holder BY <2>2, <1>2
    <3> QED BY <3>1, <1>0, AtNames
  <2> QED BY <2>1, <2>2
<1> HIDE DEF z
<1>6. LocalNames(W, f + 2, ml)
  <2>1. ASSUME NEW x \in DOMAIN W
        PROVE  /\ ~IsReference(W[x]) => W[x].holder = NoHolder
               /\ IsReference(W[x]) => W[x].holder.permission \in 1 .. f + 2
               /\ W[x].form = "Static" => W[x].loan \in LoanIds /\ W[x].loan < ml
               /\ W[x].form = "Authority" => W[x].loan = NoLoan
    <3>1. CASE x = z BY <3>1, <1>1, <1>4
    <3>2. CASE x # z
      <4>1. x \in DOMAIN V /\ W[x] = V[x] BY <3>2, <1>4
      <4>2. 1 .. f \subseteq 1 .. f + 2 OBVIOUS
      <4>3. V[x].form = "Static" => V[x].loan \in LoanIds /\ V[x].loan < ml
        <5>1. V[x].form = "Static" => V[x].loan \in LoanIds /\ V[x].loan < nl
          BY <4>1, <1>0 DEF LocalNames
        <5>2. nl <= ml /\ LoanIds \subseteq Nat BY <1>1, LoanEndPlanAssumption
        <5>3. \A l \in LoanIds : l < nl => l < ml BY <5>2
        <5> QED BY <5>1, <5>3
      <4> QED BY <4>1, <4>2, <4>3, <1>0 DEF LocalNames
    <3> QED BY <3>1, <3>2
  <2>2. \A x, y \in DOMAIN W : ~IsReference(W[x]) /\ ~IsReference(W[y]) => x = y
    BY <1>0, <1>1, <1>4 DEF LocalNames
  <2> QED BY <2>1, <2>2 DEF LocalNames
<1>7. GoodInstruction(i, f + 2)
  <2>1. i.at.permission \in 0 .. f + 2 BY <1>5
  <2>2. i.new.permission \in Results(i) /\ i.new.permission \in 1 .. f + 2
    <3>1. f + 2 # NoName /\ f + 2 \notin NamesOf(i.at) BY <1>5 DEF NoName
    <3> QED BY <3>1, <1>1 DEF Results, NamesOf
  <2>3. i.op = "LoanReborrow" => i.parent \in LoanIds /\ i.parent < i.loan
    <3> SUFFICES ASSUME i.op = "LoanReborrow" PROVE i.parent \in LoanIds /\ i.parent < i.loan OBVIOUS
    <3>1. PICK x \in DOMAIN V : V[x].form = "Static" /\ i.parent = V[x].loan BY <1>2
    <3>2. i.loan = nl BY <1>1 DEF Numbered, Creating
    <3> QED BY <3>1, <3>2, <1>0 DEF LocalNames
  <2>4. i.op \notin Pending /\ i.op \in Defining BY <1>1 DEF Pending, Defining, Creating
  <2> QED BY <2>1, <2>2, <2>3, <2>4, <1>a DEF GoodInstruction, Pending
<1>8. Carried(V, W, f, f + 2)
  <2> SUFFICES ASSUME NEW x \in DOMAIN W
               PROVE \/ W[x].holder.permission \in f + 1 .. f + 2
                     \/ \E y \in DOMAIN V :
                           W[x].form = V[y].form /\ W[x].holder = V[y].holder /\ W[x].loan = V[y].loan
    BY DEF Carried
  <2>1. CASE x = z BY <2>1, <1>1, <1>4
  <2>2. CASE x # z BY <2>2, <1>4
  <2> QED BY <2>1, <2>2
<1>9. Grounded(V, i)
  <2>1. CASE i.op = "LoanBegin" BY <2>1, <1>1 DEF Grounded
  <2>2. CASE i.op # "LoanBegin"
    <3>1. PICK x \in DOMAIN V :
             /\ IsReference(V[x]) /\ i.at = V[x].holder
             /\ i.op \in {"LoanReborrow", "LoanAliasShared"} <=> V[x].form = "Static"
      BY <2>2, <1>2
    <3>2. i.op # "LoanEndAuthority" BY <1>1 DEF Defining, Creating
    <3> QED BY <3>1, <3>2 DEF Grounded
  <2> QED BY <2>1, <2>2
<1>10. Declared(V, W, f, f + 2, i)
  <2> SUFFICES ASSUME NEW x \in DOMAIN W, W[x].form = "Static", W[x].holder.permission \in f + 1 .. f + 2
               PROVE  i.new.pointer = W[x].holder.pointer /\ i.loan = W[x].loan
    BY DEF Declared
  <2>1. CASE x = z BY <2>1, <1>1, <1>4
  <2>2. CASE x # z
    <3>1. x \in DOMAIN V /\ W[x] = V[x] /\ IsReference(V[x]) BY <2>2, <1>4 DEF IsReference
    <3>2. W[x].holder.permission \in 1 .. f BY <3>1, <1>0 DEF LocalNames
    <3> QED BY <3>2
  <2> QED BY <2>1, <2>2
<1>11. /\ f + 2 \in Nat /\ f <= f + 2 /\ i.at.permission <= f
       /\ i.op \in Defining => i.new.permission > f
  BY <1>1, <1>5
<1>12. PICK h : h = f + 2 OBVIOUS
<1>13. NamePart(en, c, W, h, ml)
  <2>1. /\ h \in Nat /\ f <= h /\ LocalNames(W, h, ml) /\ GoodInstruction(i, h) /\ Carried(V, W, f, h)
        /\ Declared(V, W, f, h, i)
    BY <1>6, <1>7, <1>8, <1>10, <1>11, <1>12
  <2>2. i \in Instruction /\ Emitting(c, d, i) /\ Numbered(i, nl, ml) BY <1>1
  <2> HIDE <1>1
  <2> QED BY <2>1, <2>2, <1>3, <1>9, <1>11, NameGrow
<1> QED BY <1>12, <1>13

LEMMA UsesNames ==
    ASSUME NEW en, NEW d \in Seq(Instruction), NEW V \in Seq(Local), NEW f \in Nat, NEW nl \in Nat,
           InScope(V, f), Retired(d, V, f), NamePart(en, d, V, f, nl),
           NEW c, NEW i, Uses(d, V, c, i)
    PROVE  NamePart(en, c, V, f, nl)
<1>0. LocalNames(V, f, nl) BY DEF NamePart
<1>1. i \in Instruction /\ Emitting(c, d, i) /\ i.new = NoHolder /\ i.op \in {"OwnerWrite", "Access"}
  BY DEF Uses
<1>2. /\ i.at.permission \in 0 .. f
      /\ i.at = NoHolder \/ \E y \in DOMAIN V : IsReference(V[y]) /\ i.at = V[y].holder
  <2>1. CASE i.at = NoHolder BY <2>1 DEF NoHolder, NoName
  <2>2. CASE i.at # NoHolder
    <3>1. PICK x \in DOMAIN V : IsReference(V[x]) /\ i.at = V[x].holder BY <2>2 DEF Uses
    <3> QED BY <3>1, <1>0, AtNames
  <2> QED BY <2>1, <2>2
<1>3. GoodInstruction(i, f) BY <1>1, <1>2 DEF GoodInstruction, Defining, Creating, Pending
<1>4. Carried(V, V, f, f) BY DEF Carried
<1>5. Grounded(V, i) BY <1>1, <1>2 DEF Grounded
<1>6. Declared(V, V, f, f, i) BY DEF Declared
<1>7. Numbered(i, nl, nl) BY <1>1 DEF Numbered, Creating
<1>8. f <= f /\ i.at.permission <= f /\ (i.op \in Defining => i.new.permission > f)
  BY <1>1, <1>2 DEF Defining, Creating
<1>9. i \in Instruction /\ Emitting(c, d, i) BY <1>1
<1> HIDE <1>1
<1> QED BY <1>0, <1>3, <1>4, <1>5, <1>6, <1>7, <1>8, <1>9, NameGrow

LEMMA CallsNames ==
    ASSUME NEW en, NEW d \in Seq(Instruction), NEW V \in Seq(Local), NEW f \in Nat, NEW nl \in Nat,
           InScope(V, f), Retired(d, V, f), NamePart(en, d, V, f, nl),
           NEW c, NEW W \in Seq(Local), NEW i, NEW x, Calls(d, V, f, c, W, i, x)
    PROVE  NamePart(en, c, W, f + 1, nl)
<1>0. LocalNames(V, f, nl) BY DEF NamePart
<1>1. /\ i \in Instruction /\ Emitting(c, d, i) /\ x \in DOMAIN V
      /\ i.op = "Call" /\ i.at = V[x].holder
      /\ i.new = [V[x].holder EXCEPT !.permission = f + 1]
      /\ IsReference(V[x]) /\ W = [V EXCEPT ![x].holder = i.new]
  BY DEF Calls
<1>2. V[x] \in Local /\ V[x].holder \in Holder /\ i.new \in Holder
  <2>1. V[x] \in Local BY <1>1
  <2> QED BY <2>1, <1>1, LocalFields DEF Instruction
<1>3. i.new.permission = f + 1 /\ i.new.pointer = V[x].holder.pointer BY <1>1, <1>2 DEF Holder
<1>4. /\ DOMAIN W = DOMAIN V
      /\ \A y \in DOMAIN V : /\ y # x => W[y] = V[y]
                             /\ W[y].form = V[y].form /\ W[y].loan = V[y].loan
                             /\ IsReference(W[y]) <=> IsReference(V[y])
      /\ W[x].holder = i.new
  <2>1. DOMAIN W = DOMAIN V /\ (\A y \in DOMAIN V : y # x => W[y] = V[y])
        /\ W[x] = [V[x] EXCEPT !.holder = i.new]
    BY <1>1
  <2>2. W[x].holder = i.new /\ W[x].form = V[x].form /\ W[x].loan = V[x].loan
    BY <2>1, <1>2 DEF Local
  <2> QED BY <2>1, <2>2 DEF IsReference
<1>5. V[x].holder.permission \in 1 .. f /\ (\A n \in NamesOf(V[x].holder) : n \in Nat /\ n <= f)
  BY <1>0, <1>1, AtNames
<1>a. /\ i \in Instruction /\ Emitting(c, d, i) /\ x \in DOMAIN V
      /\ i.op = "Call" /\ i.at = V[x].holder /\ IsReference(V[x])
  BY <1>1
<1> HIDE <1>1
<1>6. LocalNames(W, f + 1, nl)
  <2>1. ASSUME NEW y \in DOMAIN W
        PROVE  /\ ~IsReference(W[y]) => W[y].holder = NoHolder
               /\ IsReference(W[y]) => W[y].holder.permission \in 1 .. f + 1
               /\ W[y].form = "Static" => W[y].loan \in LoanIds /\ W[y].loan < nl
               /\ W[y].form = "Authority" => W[y].loan = NoLoan
    <3>1. CASE y = x BY <3>1, <1>a, <1>3, <1>4, <1>0 DEF LocalNames
    <3>2. CASE y # x
      <4>1. 1 .. f \subseteq 1 .. f + 1 OBVIOUS
      <4> QED BY <3>2, <4>1, <1>4, <1>0 DEF LocalNames
    <3> QED BY <3>1, <3>2
  <2>2. \A u, v \in DOMAIN W : ~IsReference(W[u]) /\ ~IsReference(W[v]) => u = v
    BY <1>4, <1>0 DEF LocalNames
  <2> QED BY <2>1, <2>2 DEF LocalNames
<1>7. GoodInstruction(i, f + 1)
  <2>1. i.at.permission \in 0 .. f + 1 BY <1>a, <1>5
  <2>2. i.new.permission \in Results(i) /\ i.new.permission \in 1 .. f + 1
    <3>1. f + 1 # NoName /\ f + 1 \notin NamesOf(i.at) BY <1>a, <1>5 DEF NoName
    <3> QED BY <3>1, <1>3 DEF Results, NamesOf
  <2> QED BY <2>1, <2>2, <1>a DEF GoodInstruction, Pending, Defining, Creating
<1>8. Carried(V, W, f, f + 1)
  <2>1. ASSUME NEW y \in DOMAIN W, IsReference(W[y])
        PROVE  \/ W[y].holder.permission \in f + 1 .. f + 1
               \/ \E v \in DOMAIN V :
                     W[y].form = V[v].form /\ W[y].holder = V[v].holder /\ W[y].loan = V[v].loan
    <3>1. CASE y = x BY <3>1, <1>3, <1>4
    <3>2. CASE y # x BY <3>2, <1>4
    <3> QED BY <3>1, <3>2
  <2> QED BY <2>1 DEF Carried
<1>9. Grounded(V, i) BY <1>a DEF Grounded
<1>10. Declared(V, W, f, f + 1, i)
  <2>1. ASSUME NEW y \in DOMAIN W, W[y].form = "Static"
        PROVE  \E v \in DOMAIN V : /\ V[v].form = "Static" /\ V[v].loan = W[y].loan
                                    /\ V[v].holder.pointer = W[y].holder.pointer
    <3>1. CASE y = x BY <2>1, <3>1, <1>a, <1>3, <1>4
    <3>2. CASE y # x BY <2>1, <3>2, <1>4
    <3> QED BY <3>1, <3>2
  <2> QED BY <2>1 DEF Declared
<1>11. PICK h : h = f + 1 OBVIOUS
<1>12. /\ h \in Nat /\ f <= h /\ LocalNames(W, h, nl) /\ GoodInstruction(i, h) /\ Carried(V, W, f, h)
       /\ Declared(V, W, f, h, i)
  BY <1>6, <1>7, <1>8, <1>10, <1>11
<1>13. /\ i.at.permission <= f /\ (i.op \in Defining => i.new.permission > f)
       /\ Numbered(i, nl, nl)
  BY <1>a, <1>3, <1>5 DEF Numbered, Creating
<1>14. NamePart(en, c, W, h, nl)
  <2>1. i \in Instruction /\ Emitting(c, d, i) BY <1>a
  <2> HIDE <1>a
  <2> QED BY <2>1, <1>9, <1>12, <1>13, NameGrow
<1> QED BY <1>11, <1>14

LEMMA StoresNames ==
    ASSUME NEW en, NEW d \in Seq(Instruction), NEW V \in Seq(Local), NEW f \in Nat, NEW nl \in Nat,
           InScope(V, f), Retired(d, V, f), NamePart(en, d, V, f, nl),
           NEW c, NEW W \in Seq(Local), NEW i, NEW x, Stores(d, V, c, W, i, x)
    PROVE  NamePart(en, c, W, f, nl)
<1>0. LocalNames(V, f, nl) BY DEF NamePart
<1>1. /\ i \in Instruction /\ Emitting(c, d, i) /\ x \in DOMAIN V
      /\ i.op = "ResourceInitialize" /\ i.at = V[x].holder /\ i.new = NoHolder
      /\ \A y \in DOMAIN V : IsReference(V[y])
  BY DEF Stores
<1>2. PICK U : Leaving(U, V, x) /\ Declaring(W, U, Storage(V[x].kind)) BY DEF Stores
<1>3. DOMAIN V = 1 .. Len(V) /\ Len(V) \in Nat OBVIOUS
<1>4. x \in 1 .. Len(V) /\ V[x].kind \in Kind BY <1>1, <1>3, LocalForm
<1>5. /\ U \in Seq(Local) /\ DOMAIN U = 1 .. Len(V) - 1
      /\ \A y \in 1 .. Len(V) - 1 : U[y] = V[Skip(x, y)]
  BY <1>2, <1>4, LeavingParts
<1>6. PICK s : s = Storage(V[x].kind) OBVIOUS
<1>7. s \in Local /\ s.form = "Storage" /\ s.holder = NoHolder /\ ~IsReference(s)
  BY <1>4, <1>6, NamesType DEF Storage, Local, IsReference
<1>8. /\ DOMAIN U = 1 .. Len(U) /\ DOMAIN W = 1 .. Len(U) + 1 /\ Len(U) \in Nat
      /\ \A y \in 1 .. Len(U) : W[y] = U[y]
      /\ W[Len(U) + 1] = s
  BY <1>2, <1>5, <1>6, <1>7, DeclaringParts
<1>9. PICK z : z = Len(U) + 1 OBVIOUS
<1>10. /\ z \in DOMAIN W /\ W[z] = s
       /\ \A y \in DOMAIN W : y # z => Skip(x, y) \in DOMAIN V /\ W[y] = V[Skip(x, y)]
  <2>1. z \in DOMAIN W /\ W[z] = s BY <1>8, <1>9
  <2>2. ASSUME NEW y \in DOMAIN W, y # z PROVE Skip(x, y) \in DOMAIN V /\ W[y] = V[Skip(x, y)]
    <3>1. y \in 1 .. Len(U) BY <2>2, <1>8, <1>9
    <3>2. y \in 1 .. Len(V) - 1 /\ W[y] = V[Skip(x, y)] BY <3>1, <1>5, <1>8
    <3> QED BY <3>2, <1>3, <1>4, SkipParts
  <2> QED BY <2>1, <2>2
<1>a. i \in Instruction /\ Emitting(c, d, i) /\ i.op = "ResourceInitialize" /\ i.new = NoHolder
      /\ i.at = V[x].holder /\ x \in DOMAIN V /\ IsReference(V[x])
      /\ \A y \in DOMAIN V : IsReference(V[y])
  BY <1>1
<1> HIDE <1>1, <1>2
<1>11. LocalNames(W, f, nl)
  <2>1. ASSUME NEW y \in DOMAIN W
        PROVE  /\ ~IsReference(W[y]) => W[y].holder = NoHolder
               /\ IsReference(W[y]) => W[y].holder.permission \in 1 .. f
               /\ W[y].form = "Static" => W[y].loan \in LoanIds /\ W[y].loan < nl
               /\ W[y].form = "Authority" => W[y].loan = NoLoan
    <3>1. CASE y = z BY <3>1, <1>7, <1>10
    <3>2. CASE y # z BY <3>2, <1>10, <1>0 DEF LocalNames
    <3> QED BY <3>1, <3>2
  <2>2. \A u \in DOMAIN W : ~IsReference(W[u]) => u = z BY <1>a, <1>10
  <2> QED BY <2>1, <2>2 DEF LocalNames
<1>12. V[x].holder.permission \in 1 .. f BY <1>a, <1>0, AtNames
<1>13. GoodInstruction(i, f) BY <1>a, <1>12 DEF GoodInstruction, Defining, Creating, Pending
<1>14. Carried(V, W, f, f)
  <2>1. ASSUME NEW y \in DOMAIN W, IsReference(W[y])
        PROVE  \E v \in DOMAIN V :
                     W[y].form = V[v].form /\ W[y].holder = V[v].holder /\ W[y].loan = V[v].loan
    <3>1. y # z BY <2>1, <1>7, <1>10
    <3> QED BY <3>1, <1>10
  <2> QED BY <2>1 DEF Carried
<1>15. Grounded(V, i) BY <1>a DEF Grounded
<1>16. Declared(V, W, f, f, i)
  <2>1. ASSUME NEW y \in DOMAIN W, W[y].form = "Static"
        PROVE  \E v \in DOMAIN V : /\ V[v].form = "Static" /\ V[v].loan = W[y].loan
                                    /\ V[v].holder.pointer = W[y].holder.pointer
    <3>1. y # z BY <2>1, <1>7, <1>10
    <3> QED BY <2>1, <3>1, <1>10
  <2> QED BY <2>1 DEF Declared
<1>17. /\ f <= f /\ i.at.permission <= f /\ (i.op \in Defining => i.new.permission > f)
       /\ Numbered(i, nl, nl) /\ i \in Instruction /\ Emitting(c, d, i)
  BY <1>a, <1>12 DEF Numbered, Creating, Defining
<1> HIDE <1>a
<1> QED BY <1>11, <1>13, <1>14, <1>15, <1>16, <1>17, NameGrow

LEMMA TakesNames ==
    ASSUME NEW en, NEW d \in Seq(Instruction), NEW V \in Seq(Local), NEW f \in Nat, NEW nl \in Nat,
           InScope(V, f), Retired(d, V, f), NamePart(en, d, V, f, nl),
           NEW c, NEW W \in Seq(Local), NEW i, NEW x, Takes(d, V, f, c, W, i, x)
    PROVE  NamePart(en, c, W, f + 2, nl)
<1>0. LocalNames(V, f, nl) BY DEF NamePart
<1>1. /\ i \in Instruction /\ Emitting(c, d, i) /\ x \in DOMAIN V
      /\ i.op = "ResourceTake" /\ i.at = NoHolder /\ i.new = NewNames(f) /\ ~IsReference(V[x])
  BY DEF Takes
<1>2. PICK U, a : U = [V EXCEPT ![x].full = FALSE] /\ a = Authority(V[x].kind, i.new) OBVIOUS
<1>3. Declaring(W, U, a) BY <1>2 DEF Takes
<1>4. DOMAIN V = 1 .. Len(V) /\ Len(V) \in Nat OBVIOUS
<1>5. /\ DOMAIN U = DOMAIN V /\ Len(U) = Len(V) /\ U \in Seq(Local)
      /\ \A y \in DOMAIN V : /\ U[y].form = V[y].form /\ U[y].loan = V[y].loan
                             /\ U[y].holder = V[y].holder
  <2>1. DOMAIN U = DOMAIN V /\ (\A y \in DOMAIN V : y # x => U[y] = V[y])
        /\ U[x] = [V[x] EXCEPT !.full = FALSE]
    BY <1>1, <1>2
  <2>2. V[x] \in Local BY <1>1, LocalForm
  <2>3. /\ U[x] \in Local /\ U[x].form = V[x].form /\ U[x].loan = V[x].loan
        /\ U[x].holder = V[x].holder
    BY <2>1, <2>2 DEF Local
  <2>4. U \in Seq(Local) /\ Len(U) = Len(V)
    <3>1. U = [y \in DOMAIN U |-> U[y]] BY <1>2
    <3>2. \A y \in 1 .. Len(V) : V[y] \in Local OBVIOUS
    <3>3. \A y \in 1 .. Len(V) : U[y] \in Local BY <2>1, <2>3, <3>2, <1>4
    <3>4. U \in [1 .. Len(V) -> Local] BY <2>1, <3>1, <3>3, <1>4
    <3> QED BY <3>4, <1>4
  <2> QED BY <2>1, <2>3, <2>4
<1>6. /\ a \in Local /\ a.form = "Authority" /\ a.loan = NoLoan /\ a.holder = i.new
      /\ IsReference(a)
  <2>1. V[x].kind \in Kind /\ i.new \in Holder BY <1>1, LocalForm DEF Instruction
  <2> QED BY <2>1, <1>2 DEF Authority, Local, IsReference
<1>7. /\ DOMAIN W = 1 .. Len(U) + 1
      /\ \A y \in 1 .. Len(U) : W[y] = U[y]
      /\ W[Len(U) + 1] = a
  BY <1>3, <1>5, <1>6, DeclaringParts
<1>8. PICK z : z = Len(U) + 1 OBVIOUS
<1>9. /\ z \in DOMAIN W /\ W[z] = a
      /\ \A y \in DOMAIN W : y # z =>
            /\ y \in DOMAIN V /\ W[y].form = V[y].form /\ W[y].loan = V[y].loan
            /\ W[y].holder = V[y].holder /\ (IsReference(W[y]) <=> IsReference(V[y]))
  BY <1>4, <1>5, <1>7, <1>8 DEF IsReference
<1>10. i.new.permission = f + 2 BY <1>1 DEF NewNames
<1>a. /\ i \in Instruction /\ Emitting(c, d, i)
      /\ i.op = "ResourceTake" /\ i.at = NoHolder
  BY <1>1
<1> HIDE <1>1, <1>2, <1>3
<1>11. LocalNames(W, f + 2, nl)
  <2>1. ASSUME NEW y \in DOMAIN W
        PROVE  /\ ~IsReference(W[y]) => W[y].holder = NoHolder
               /\ IsReference(W[y]) => W[y].holder.permission \in 1 .. f + 2
               /\ W[y].form = "Static" => W[y].loan \in LoanIds /\ W[y].loan < nl
               /\ W[y].form = "Authority" => W[y].loan = NoLoan
    <3>1. CASE y = z BY <3>1, <1>6, <1>9, <1>10
    <3>2. CASE y # z
      <4>1. 1 .. f \subseteq 1 .. f + 2 OBVIOUS
      <4> QED BY <3>2, <4>1, <1>9, <1>0 DEF LocalNames
    <3> QED BY <3>1, <3>2
  <2>2. \A u, v \in DOMAIN W : ~IsReference(W[u]) /\ ~IsReference(W[v]) => u = v
    BY <1>6, <1>9, <1>0 DEF LocalNames
  <2> QED BY <2>1, <2>2 DEF LocalNames
<1>12. i.at.permission = 0 /\ NamesOf(i.at) = {} BY <1>a DEF NoHolder, NamesOf, NoName
<1>13. GoodInstruction(i, f + 2)
  <2>1. f + 2 \in Results(i) BY <1>10, <1>12 DEF Results, NamesOf, NoName
  <2> QED BY <2>1, <1>a, <1>10, <1>12 DEF GoodInstruction, Pending, Defining, Creating
<1>14. Carried(V, W, f, f + 2)
  <2>1. ASSUME NEW y \in DOMAIN W, IsReference(W[y])
        PROVE  \/ W[y].holder.permission \in f + 1 .. f + 2
               \/ \E v \in DOMAIN V :
                     W[y].form = V[v].form /\ W[y].holder = V[v].holder /\ W[y].loan = V[v].loan
    <3>1. CASE y = z BY <3>1, <1>6, <1>9, <1>10
    <3>2. CASE y # z BY <3>2, <1>9
    <3> QED BY <3>1, <3>2
  <2> QED BY <2>1 DEF Carried
<1>15. Grounded(V, i) BY <1>a DEF Grounded
<1>16. Declared(V, W, f, f + 2, i)
  <2>1. ASSUME NEW y \in DOMAIN W, W[y].form = "Static"
        PROVE  \E v \in DOMAIN V : /\ V[v].form = "Static" /\ V[v].loan = W[y].loan
                                    /\ V[v].holder.pointer = W[y].holder.pointer
    <3>1. y # z BY <2>1, <1>6, <1>9
    <3> QED BY <2>1, <3>1, <1>9
  <2> QED BY <2>1 DEF Declared
<1>17. /\ f <= f + 2 /\ f + 2 \in Nat /\ i.at.permission <= f /\ (i.op \in Defining => i.new.permission > f)
       /\ Numbered(i, nl, nl) /\ i \in Instruction /\ Emitting(c, d, i)
  BY <1>a, <1>10, <1>12 DEF Numbered, Creating
<1>18. PICK h : h = f + 2 OBVIOUS
<1>19. /\ h \in Nat /\ f <= h /\ LocalNames(W, h, nl) /\ GoodInstruction(i, h) /\ Carried(V, W, f, h)
       /\ Declared(V, W, f, h, i)
  BY <1>11, <1>13, <1>14, <1>16, <1>17, <1>18
<1>20. NamePart(en, c, W, h, nl)
  <2> HIDE <1>a
  <2> QED BY <1>15, <1>17, <1>19, NameGrow
<1> QED BY <1>18, <1>20

LEMMA ClosesNames ==
    ASSUME NEW en, NEW d \in Seq(Instruction), NEW V \in Seq(Local), NEW f \in Nat, NEW nl \in Nat,
           InScope(V, f), Retired(d, V, f), NamePart(en, d, V, f, nl),
           NEW c, NEW W \in Seq(Local), NEW i, NEW x, Closes(d, V, c, W, i, x)
    PROVE  NamePart(en, c, W, f, nl)
<1>0. LocalNames(V, f, nl) BY DEF NamePart
<1>1. /\ i \in Instruction /\ Emitting(c, d, i) /\ x \in DOMAIN V /\ Leaving(W, V, x)
      /\ i.new = NoHolder
      /\ \/ i.op = "LoanEnd" /\ V[x].form = "Static" /\ i.at = V[x].holder /\ i.loan = V[x].loan
         \/ i.op = "LoanEndAuthority" /\ V[x].form = "Authority" /\ i.at = V[x].holder /\ i.loan = NoLoan
         \/ i.op = "ObjectDrop" /\ ~IsReference(V[x]) /\ V[x].full /\ i.at = NoHolder
  BY DEF Closes
<1>2. DOMAIN V = 1 .. Len(V) /\ Len(V) \in Nat OBVIOUS
<1>3. /\ DOMAIN W = 1 .. Len(V) - 1
      /\ \A y \in 1 .. Len(V) - 1 : W[y] = V[Skip(x, y)]
  BY <1>1, <1>2, LeavingParts
<1>4. PICK g : g = [y \in 1 .. Len(V) - 1 |-> Skip(x, y)] OBVIOUS
<1>5. /\ \A y \in DOMAIN W : g[y] \in DOMAIN V /\ W[y] = V[g[y]]
      /\ \A u, v \in DOMAIN W : u # v => g[u] # g[v]
  <2>1. x \in 1 .. Len(V) BY <1>1, <1>2
  <2>2. /\ \A y \in 1 .. Len(V) - 1 : Skip(x, y) \in 1 .. Len(V) /\ Skip(x, y) # x
        /\ \A y, z \in 1 .. Len(V) - 1 : y # z => Skip(x, y) # Skip(x, z)
    BY <2>1, <1>2, SkipParts
  <2> QED BY <2>2, <1>2, <1>3, <1>4
<1>6. LocalNames(W, f, nl)
  <2>1. PICK U : U = W OBVIOUS
  <2>2. /\ f <= f /\ \A y \in DOMAIN U : g[y] \in DOMAIN V /\ U[y] = V[g[y]]
        /\ \A u, v \in DOMAIN U : u # v => g[u] # g[v]
    BY <2>1, <1>5
  <2>3. LocalNames(U, f, nl)
    <3> HIDE <1>1, <1>3, <1>4, <2>1
    <3> QED BY <2>2, <1>0, ShorterNames
  <2> QED BY <2>1, <2>3
<1>7. i.at.permission \in 0 .. f /\ (i.op \in Pending => i.at.permission # NoName)
  <2>1. CASE i.op = "ObjectDrop" BY <2>1, <1>1 DEF NoHolder, NoName, Pending
  <2>2. CASE i.op # "ObjectDrop"
    <3>1. IsReference(V[x]) /\ i.at = V[x].holder BY <2>2, <1>1 DEF IsReference
    <3> QED BY <3>1, <1>0, <1>1, AtNames
  <2> QED BY <2>1, <2>2
<1>8. GoodInstruction(i, f)
  <2>1. i.op \notin Defining /\ i.op \notin {"LoanReborrow", "LoanAliasShared"} BY <1>1 DEF Defining, Creating
  <2>2. i.op = "LoanEnd" => i.loan \in LoanIds BY <1>0, <1>1 DEF LocalNames
  <2>3. i.op = "LoanEndAuthority" => i.loan = NoLoan BY <1>1
  <2>4. i.new = NoHolder BY <1>1
  <2> QED BY <2>1, <2>2, <2>3, <2>4, <1>7 DEF GoodInstruction
<1>9. Carried(V, W, f, f) BY <1>5 DEF Carried
<1>10. Grounded(V, i) BY <1>1 DEF Grounded, IsReference
<1>11. Declared(V, W, f, f, i) BY <1>5 DEF Declared
<1>12. /\ f <= f /\ i.at.permission <= f /\ (i.op \in Defining => i.new.permission > f)
       /\ Numbered(i, nl, nl) /\ i \in Instruction /\ Emitting(c, d, i)
  BY <1>1, <1>7 DEF Numbered, Creating, Defining
<1> HIDE <1>1
<1> QED BY <1>6, <1>8, <1>9, <1>10, <1>11, <1>12, NameGrow

LEMMA ForgetsNames ==
    ASSUME NEW en, NEW d, NEW V \in Seq(Local), NEW f \in Nat, NEW nl \in Nat,
           NamePart(en, d, V, f, nl), NEW W, NEW x, Forgets(V, W, x)
    PROVE  NamePart(en, d, W, f, nl)
<1>0. LocalNames(V, f, nl) /\ StaticNames(d, V) BY DEF NamePart
<1>1. DOMAIN V = 1 .. Len(V) /\ Len(V) \in Nat OBVIOUS
<1>2. x \in 1 .. Len(V) /\ Leaving(W, V, x) BY <1>1 DEF Forgets
<1>3. /\ DOMAIN W = 1 .. Len(V) - 1
      /\ \A y \in 1 .. Len(V) - 1 : W[y] = V[Skip(x, y)]
  BY <1>2, LeavingParts
<1>4. PICK g : g = [y \in 1 .. Len(V) - 1 |-> Skip(x, y)] OBVIOUS
<1>5. /\ \A y \in DOMAIN W : g[y] \in DOMAIN V /\ W[y] = V[g[y]]
      /\ \A u, v \in DOMAIN W : u # v => g[u] # g[v]
  <2>2. /\ \A y \in 1 .. Len(V) - 1 : Skip(x, y) \in 1 .. Len(V) /\ Skip(x, y) # x
        /\ \A y, z \in 1 .. Len(V) - 1 : y # z => Skip(x, y) # Skip(x, z)
    BY <1>1, <1>2, SkipParts
  <2> QED BY <2>2, <1>1, <1>3, <1>4
<1>6. LocalNames(W, f, nl)
  <2>1. f <= f OBVIOUS
  <2> QED BY <2>1, <1>0, <1>5, ShorterNames
<1>7. StaticNames(d, W) BY <1>0, <1>5 DEF StaticNames
<1> QED BY <1>6, <1>7 DEF NamePart

LEMMA NameStep ==
    ASSUME NEW en, NEW d, NEW V, NEW f, NEW nl, LowerPart(en, d, V, f, nl), NamePart(en, d, V, f, nl),
           NEW c, NEW W, NEW h, NEW ml, LowerPart(en, c, W, h, ml), Lowers(d, V, f, nl, c, W, h, ml)
    PROVE  NamePart(en, c, W, h, ml)
<1>1. /\ d \in Seq(Instruction) /\ V \in Seq(Local) /\ f \in Nat /\ nl \in Nat
      /\ InScope(V, f) /\ Retired(d, V, f)
      /\ W \in Seq(Local) /\ ml \in Nat
  BY NamesType DEF LowerPart
<1>2. CASE h = f + 2 /\ \E i, a : Makes(d, V, f, nl, c, W, ml, i, a) BY <1>1, <1>2, MakesNames
<1>3. CASE W = V /\ h = f /\ ml = nl /\ \E i : Uses(d, V, c, i) BY <1>1, <1>3, UsesNames
<1>4. CASE h = f + 1 /\ ml = nl /\ \E i, x : Calls(d, V, f, c, W, i, x) BY <1>1, <1>4, CallsNames
<1>5. CASE h = f /\ ml = nl /\ \E i, x : Stores(d, V, c, W, i, x) BY <1>1, <1>5, StoresNames
<1>6. CASE h = f + 2 /\ ml = nl /\ \E i, x : Takes(d, V, f, c, W, i, x) BY <1>1, <1>6, TakesNames
<1>7. CASE h = f /\ ml = nl /\ \E i, x : Closes(d, V, c, W, i, x) BY <1>1, <1>7, ClosesNames
<1>8. CASE c = d /\ h = f /\ ml = nl /\ \E x : Forgets(V, W, x) BY <1>1, <1>8, ForgetsNames
<1> QED BY <1>2, <1>3, <1>4, <1>5, <1>6, <1>7, <1>8 DEF Lowers

LEMMA NextLowers ==
    ASSUME LowerInv, LocalNames(env, fresh, nextLoan), [Next]_vars
    PROVE  /\ Lowered(entry, draft, env, fresh, nextLoan, draft', env', fresh', nextLoan')
           /\ entry' = entry
<1>1. ASSUME Lowers(draft, env, fresh, nextLoan, draft', env', fresh', nextLoan')
      PROVE  Lowered(entry, draft, env, fresh, nextLoan, draft', env', fresh', nextLoan')
  BY <1>1 DEF Lowered
<1>2. CASE \E k \in Kind : LowerBorrow(k)
  BY <1>1, <1>2, BorrowLowers DEF LowerBorrow, Emit
<1>3. CASE \E x \in References, k \in Kind : LowerReborrow(x, k)
  <2>1. PICK x \in References, k \in Kind : LowerReborrow(x, k) BY <1>3
  <2>2. entry' = entry BY <2>1 DEF LowerReborrow, Emit
  <2> QED BY <1>1, <2>1, <2>2, ReborrowLowers
<1>4. CASE \E x \in References : LowerCopy(x)
  BY <1>1, <1>4, CopyLowers DEF LowerCopy, Emit
<1>5. CASE LowerOwnerWrite \/ \E x \in References : LowerAccess(x)
  BY <1>1, <1>5, UseLowers DEF LowerOwnerWrite, LowerAccess, Emit
<1>6. CASE \E x \in References, live \in BOOLEAN : LowerCall(x, live)
  BY <1>6, CallLowers DEF LowerCall
<1>7. CASE \E x \in References : LowerConstruct(x)
  BY <1>1, <1>7, StoreLowers DEF LowerConstruct, Emit
<1>8. CASE \E x \in DOMAIN env : LowerTake(x)
  BY <1>1, <1>8, TakeLowers DEF LowerTake, Emit
<1>9. CASE LocalDrop
  <2>1. entry' = entry BY <1>9 DEF LocalDrop, Emit
  <2> QED BY <2>1, <1>1, <1>9, DropLowers
<1>10. CASE Measure \/ Raise
  BY <1>10 DEF Measure, Raise, Lowered
<1>11. CASE UNCHANGED vars BY <1>11 DEF vars, Lowered
<1> QED BY <1>2, <1>3, <1>4, <1>5, <1>6, <1>7, <1>8, <1>9, <1>10, <1>11 DEF Next

NameInv == NamePart(entry, draft, env, fresh, nextLoan)

LEMMA NameInit == Init => NameInv
<1> SUFFICES ASSUME Init PROVE NameInv OBVIOUS
<1>1. /\ draft = <<>> /\ fresh = 2 /\ entry \in {"Nothing", "Parameter", "Outer"}
      /\ nextLoan = IF entry = "Nothing" THEN FirstLoan ELSE FirstLoan + 1
      /\ env = CASE entry = "Nothing" -> <<>>
                 [] entry = "Parameter" -> <<Authority("Mutable", EntryHolder)>>
                 [] entry = "Outer" -> <<Static(FirstLoan, NoLoan, "Mutable", EntryHolder)>>
  BY DEF Init
<1>2. DOMAIN draft = {} /\ Ends(draft) = {} BY <1>1 DEF Ends
<1>3. FirstLoan \in LoanIds /\ FirstLoan \in Nat /\ FirstLoan < FirstLoan + 1
  BY FirstLoanType, LoanEndPlanAssumption
<1>4. LocalNames(env, fresh, nextLoan)
  <2>1. CASE entry = "Nothing"
    <3>1. DOMAIN env = {} BY <2>1, <1>1
    <3> QED BY <3>1 DEF LocalNames
  <2>2. CASE entry = "Parameter"
    <3>1. DOMAIN env = {1} /\ env[1] = Authority("Mutable", EntryHolder) BY <2>2, <1>1
    <3>2. /\ IsReference(env[1]) /\ env[1].form = "Authority" /\ env[1].loan = NoLoan
          /\ env[1].holder.permission = 2
      BY <3>1 DEF Authority, EntryHolder, IsReference
    <3>3. 2 \in 1 .. fresh BY <1>1
    <3> QED BY <3>1, <3>2, <3>3 DEF LocalNames
  <2>3. CASE entry = "Outer"
    <3>1. DOMAIN env = {1} /\ env[1] = Static(FirstLoan, NoLoan, "Mutable", EntryHolder) BY <2>3, <1>1
    <3>2. /\ IsReference(env[1]) /\ env[1].form = "Static" /\ env[1].loan = FirstLoan
          /\ env[1].holder.permission = 2
      BY <3>1 DEF Static, EntryHolder, IsReference
    <3>3. 2 \in 1 .. fresh /\ nextLoan = FirstLoan + 1 BY <1>1, <2>3
    <3> QED BY <3>1, <3>2, <3>3, <1>3 DEF LocalNames
  <2> QED BY <1>1, <2>1, <2>2, <2>3
<1>5. LoanNumbers(entry, draft, nextLoan) BY <1>1, <1>2, <1>3 DEF LoanNumbers
<1>6. StaticNames(draft, env) BY <1>2 DEF StaticNames
<1> QED BY <1>2, <1>4, <1>5, <1>6 DEF NameInv, NamePart

LEMMA NameNext == LowerInv /\ NameInv /\ LowerInv' /\ [Next]_vars => NameInv'
<1> SUFFICES ASSUME LowerInv, NameInv, LowerInv', [Next]_vars PROVE NameInv' OBVIOUS
<1>0. LocalNames(env, fresh, nextLoan) BY DEF NameInv, NamePart
<1>1. /\ Lowered(entry, draft, env, fresh, nextLoan, draft', env', fresh', nextLoan')
      /\ entry' = entry
  BY <1>0, NextLowers
<1>2. /\ LowerPart(entry, draft, env, fresh, nextLoan)
      /\ NamePart(entry, draft, env, fresh, nextLoan)
      /\ LowerPart(entry, draft', env', fresh', nextLoan')
  BY <1>1 DEF LowerInv, NameInv
<1>3. PICK c, W, h, ml : c = draft' /\ W = env' /\ h = fresh' /\ ml = nextLoan' OBVIOUS
<1>4. NamePart(entry, c, W, h, ml)
  <2>1. Lowered(entry, draft, env, fresh, nextLoan, c, W, h, ml) /\ LowerPart(entry, c, W, h, ml)
    BY <1>1, <1>2, <1>3
  <2>2. CASE c = draft /\ W = env /\ h = fresh /\ ml = nextLoan BY <2>2, <1>2
  <2>3. CASE Lowers(draft, env, fresh, nextLoan, c, W, h, ml) BY <2>1, <2>3, <1>2, NameStep
  <2>4. ASSUME NEW b, NEW U, NEW g,
               Lowers(draft, env, fresh, nextLoan, b, U, g, nextLoan),
               LowerPart(entry, b, U, g, nextLoan),
               Lowers(b, U, g, nextLoan, c, W, h, ml)
        PROVE  NamePart(entry, c, W, h, ml)
    <3>1. NamePart(entry, b, U, g, nextLoan) BY <2>4, <1>2, NameStep
    <3> QED BY <3>1, <2>1, <2>4, NameStep
  <2> QED BY <2>1, <2>2, <2>3, <2>4 DEF Lowered
<1> QED BY <1>1, <1>3, <1>4 DEF NameInv

-----------------------------------------------------------------------------
(* A new name is younger than every name used before. *)

FreshNames(en, d, f) ==
    /\ 2 <= f
    /\ \A n \in DOMAIN d : d[n].op \in Defining =>
          /\ 2 < d[n].new.permission
          /\ \A m \in DOMAIN d : m < n => d[m].new.permission < d[n].new.permission

LEMMA FreshStep ==
    ASSUME NEW en, NEW d, NEW V, NEW f, NEW nl, LowerPart(en, d, V, f, nl), NamePart(en, d, V, f, nl),
           FreshNames(en, d, f),
           NEW c, NEW W, NEW h, NEW ml, Lowers(d, V, f, nl, c, W, h, ml)
    PROVE  FreshNames(en, c, h)
<1>1. d \in Seq(Instruction) /\ f \in Nat BY NamesType DEF LowerPart
<1>2. \A m \in DOMAIN d : d[m].new.permission \in 0 .. f
  <2>1. 1 .. f \subseteq 0 .. f /\ NoHolder.permission = 0 BY <1>1 DEF NoHolder, NoName
  <2> QED BY <1>1, <2>1 DEF NamePart, GoodInstruction
<1>3. ASSUME NEW i \in Instruction, Emitting(c, d, i), f <= h, h \in Nat,
             i.op \in Defining => f < i.new.permission
      PROVE  FreshNames(en, c, h)
  <2>0. /\ \A n \in DOMAIN d : c[n] = d[n] /\ n \in Nat /\ n < Len(d) + 1
        /\ c[Len(d) + 1] = i /\ DOMAIN c = DOMAIN d \cup {Len(d) + 1}
    BY <1>1, <1>3, AppendParts
  <2>1. PICK z : z = Len(d) + 1 OBVIOUS
  <2>2. /\ \A n \in DOMAIN d : c[n] = d[n] /\ n \in Nat /\ n < z
        /\ c[z] = i /\ DOMAIN c = DOMAIN d \cup {z} /\ z \in Nat
    BY <1>1, <2>0, <2>1, Positions
  <2>3. 2 <= f /\ 2 <= h BY <1>1, <1>3 DEF FreshNames
  <2>4. i.new.permission \in Nat BY <1>3, NamesType DEF Instruction, Holder
  <2>5. ASSUME NEW n \in DOMAIN c, c[n].op \in Defining
        PROVE  /\ 2 < c[n].new.permission
               /\ \A m \in DOMAIN c : m < n => c[m].new.permission < c[n].new.permission
    <3>1. CASE n \in DOMAIN d
      <4>1. \A m \in DOMAIN c : m < n => m \in DOMAIN d BY <3>1, <2>2
      <4> QED BY <4>1, <3>1, <2>2, <2>5 DEF FreshNames
    <3>2. CASE n = z
      <4>1. f < i.new.permission BY <3>2, <2>2, <2>5, <1>3
      <4>2. \A m \in DOMAIN c : m < n => m \in DOMAIN d BY <3>2, <2>2
      <4>3. \A m \in DOMAIN d : d[m].new.permission < i.new.permission BY <4>1, <1>1, <1>2, <2>4
      <4> QED BY <4>1, <4>2, <4>3, <3>2, <2>2, <2>3, <2>4, <1>1
    <3> QED BY <3>1, <3>2, <2>2
  <2> QED BY <2>3, <2>5 DEF FreshNames
<1>4. f + 2 \in Nat /\ f + 1 \in Nat /\ f <= f + 2 /\ f <= f + 1 /\ f < f + 2 /\ f < f + 1 /\ f <= f BY <1>1
<1>5. CASE h = f + 2 /\ \E i, a : Makes(d, V, f, nl, c, W, ml, i, a)
  <2>1. PICK i, a : Makes(d, V, f, nl, c, W, ml, i, a) BY <1>5
  <2>2. i \in Instruction /\ Emitting(c, d, i) /\ i.new.permission = f + 2
    BY <2>1 DEF Makes, NewNames
  <2> QED BY <2>2, <1>3, <1>4, <1>5
<1>6. CASE W = V /\ h = f /\ ml = nl /\ \E i : Uses(d, V, c, i)
  <2>1. PICK i : Uses(d, V, c, i) BY <1>6
  <2>2. i \in Instruction /\ Emitting(c, d, i) /\ i.op \notin Defining
    BY <2>1 DEF Uses, Defining, Creating
  <2> QED BY <2>2, <1>1, <1>3, <1>4, <1>6
<1>7. CASE h = f + 1 /\ ml = nl /\ \E i, x : Calls(d, V, f, c, W, i, x)
  <2>1. PICK i, x : Calls(d, V, f, c, W, i, x) BY <1>7
  <2>2. i \in Instruction /\ Emitting(c, d, i) /\ i.new = [V[x].holder EXCEPT !.permission = f + 1]
        /\ x \in DOMAIN V
    BY <2>1 DEF Calls
  <2>3. V[x].holder \in Holder BY <2>2, LocalFields DEF LowerPart
  <2>4. i.new.permission = f + 1 BY <2>2, <2>3 DEF Holder
  <2> QED BY <2>2, <2>4, <1>3, <1>4, <1>7
<1>8. CASE h = f /\ ml = nl /\ \E i, x : Stores(d, V, c, W, i, x)
  <2>1. PICK i, x : Stores(d, V, c, W, i, x) BY <1>8
  <2>2. i \in Instruction /\ Emitting(c, d, i) /\ i.op \notin Defining
    BY <2>1 DEF Stores, Defining, Creating
  <2> QED BY <2>2, <1>1, <1>3, <1>4, <1>8
<1>9. CASE h = f + 2 /\ ml = nl /\ \E i, x : Takes(d, V, f, c, W, i, x)
  <2>1. PICK i, x : Takes(d, V, f, c, W, i, x) BY <1>9
  <2>2. i \in Instruction /\ Emitting(c, d, i) /\ i.new.permission = f + 2
    BY <2>1 DEF Takes, NewNames
  <2> QED BY <2>2, <1>3, <1>4, <1>9
<1>10. CASE h = f /\ ml = nl /\ \E i, x : Closes(d, V, c, W, i, x)
  <2>1. PICK i, x : Closes(d, V, c, W, i, x) BY <1>10
  <2>2. i \in Instruction /\ Emitting(c, d, i) /\ i.op \notin Defining
    BY <2>1 DEF Closes, Defining, Creating
  <2> QED BY <2>2, <1>1, <1>3, <1>4, <1>10
<1>11. CASE c = d /\ h = f /\ ml = nl /\ \E x : Forgets(V, W, x) BY <1>11
<1> QED BY <1>5, <1>6, <1>7, <1>8, <1>9, <1>10, <1>11 DEF Lowers

FreshInv == FreshNames(entry, draft, fresh)

LEMMA FreshInit == Init => FreshInv
<1> SUFFICES ASSUME Init PROVE FreshInv OBVIOUS
<1>1. DOMAIN draft = {} /\ fresh = 2 BY DEF Init
<1> QED BY <1>1 DEF FreshInv, FreshNames

LEMMA FreshNext == LowerInv /\ NameInv /\ FreshInv /\ [Next]_vars => FreshInv'
<1> SUFFICES ASSUME LowerInv, NameInv, FreshInv, [Next]_vars PROVE FreshInv' OBVIOUS
<1>0. LocalNames(env, fresh, nextLoan) BY DEF NameInv, NamePart
<1>1. /\ Lowered(entry, draft, env, fresh, nextLoan, draft', env', fresh', nextLoan')
      /\ entry' = entry
  BY <1>0, NextLowers
<1>2. /\ LowerPart(entry, draft, env, fresh, nextLoan)
      /\ NamePart(entry, draft, env, fresh, nextLoan)
      /\ FreshNames(entry, draft, fresh)
  BY DEF LowerInv, NameInv, FreshInv
<1>3. PICK c, W, h, ml : c = draft' /\ W = env' /\ h = fresh' /\ ml = nextLoan' OBVIOUS
<1>4. FreshNames(entry, c, h)
  <2>1. Lowered(entry, draft, env, fresh, nextLoan, c, W, h, ml) BY <1>1, <1>3
  <2>2. CASE c = draft /\ W = env /\ h = fresh /\ ml = nextLoan BY <2>2, <1>2
  <2>3. CASE Lowers(draft, env, fresh, nextLoan, c, W, h, ml) BY <2>3, <1>2, FreshStep
  <2>4. ASSUME NEW b, NEW U, NEW g,
               Lowers(draft, env, fresh, nextLoan, b, U, g, nextLoan),
               LowerPart(entry, b, U, g, nextLoan),
               Lowers(b, U, g, nextLoan, c, W, h, ml)
        PROVE  FreshNames(entry, c, h)
    <3>1. NamePart(entry, b, U, g, nextLoan) BY <2>4, <1>2, NameStep
    <3>2. FreshNames(entry, b, g) BY <2>4, <1>2, FreshStep
    <3> QED BY <3>1, <3>2, <2>4, FreshStep
  <2> QED BY <2>1, <2>2, <2>3, <2>4 DEF Lowered
<1> QED BY <1>1, <1>3, <1>4 DEF FreshInv

-----------------------------------------------------------------------------
(* The states of a run. *)

Value == {Nothing} \cup {Carrier(Heap, Whole, l, t) : l \in LoanIds, t \in Nat}

States == [table : Table, held : [Names -> Value], place : Value, refused : {FALSE}]

Running == {R \in States : Canonical(R.table)}

LEMMA ValueParts ==
    /\ Nothing \in Value /\ Nothing.loan = NoLoan
    /\ \A l, t : /\ Carrier(Heap, Whole, l, t).loan = l /\ Carrier(Heap, Whole, l, t).token = t
                 /\ l \in LoanIds /\ t \in Nat =>
                       Carrier(Heap, Whole, l, t) \in Value /\ Carrier(Heap, Whole, l, t) # Nothing
    /\ \A v \in Value : v # Nothing =>
          v.loan \in LoanIds /\ v.token \in Nat /\ v = Carrier(Heap, Whole, v.loan, v.token)
    /\ \A v \in Value : v # Nothing <=> v.loan # NoLoan
    /\ \A v \in Value : v # Nothing <=> v.loan \in LoanIds
<1>0. NoLoan \notin LoanIds BY LoanTableAssumption
<1>1. Nothing \in Value /\ Nothing.loan = NoLoan BY DEF Value, Nothing, Owner
<1>2. \A l, t : Carrier(Heap, Whole, l, t).loan = l /\ Carrier(Heap, Whole, l, t).token = t
  BY DEF Carrier
<1>3. \A l \in LoanIds, t \in Nat : Carrier(Heap, Whole, l, t) \in Value BY DEF Value
<1>4. \A l \in LoanIds, t \in Nat : Carrier(Heap, Whole, l, t) # Nothing BY <1>0, <1>1, <1>2
<1>5. \A v \in Value : v # Nothing =>
          v.loan \in LoanIds /\ v.token \in Nat /\ v = Carrier(Heap, Whole, v.loan, v.token)
  <2> SUFFICES ASSUME NEW v \in Value, v # Nothing
               PROVE  v.loan \in LoanIds /\ v.token \in Nat /\ v = Carrier(Heap, Whole, v.loan, v.token)
    OBVIOUS
  <2>1. PICK l \in LoanIds, t \in Nat : v = Carrier(Heap, Whole, l, t) BY DEF Value
  <2> QED BY <2>1, <1>2
<1> QED BY <1>0, <1>1, <1>2, <1>3, <1>4, <1>5

LEMMA HeapParts ==
    Heap \in Allocations /\ Whole \in Range
<1>1. Heap \in Allocations BY LoanTableAssumption DEF Heap
<1>2. Whole \in Range BY LoanTableAssumption DEF Whole, Range, Offsets
<1> QED BY <1>1, <1>2

LEMMA RunningParts ==
    ASSUME NEW R \in Running
    PROVE  /\ R \in States /\ R.table \in Table /\ R.held \in [Names -> Value] /\ R.place \in Value
           /\ R.refused = FALSE /\ Canonical(R.table)
           /\ \A p \in Names : R.held[p] \in Value
<1>1. R \in States /\ Canonical(R.table) BY DEF Running
<1>2. R.table \in Table /\ R.held \in [Names -> Value] /\ R.place \in Value /\ R.refused = FALSE
  BY <1>1 DEF States
<1> QED BY <1>1, <1>2

\* S is R but for p, which holds v.
Holds(R, p, v, S) == \A q \in Names : S.held[q] = IF q = p THEN v ELSE R.held[q]

-----------------------------------------------------------------------------
(* Who holds what. *)

\* The authorities are named by names of B, and each is in one place at most.
Facts(R, B) ==
    /\ R \in Running /\ TokensApart(R.table)
    /\ \A l \in LoanIds : R.table[l].authorities \subseteq B
    /\ \A p \in Names : R.held[p] # Nothing =>
          p \in B /\ R.held[p].token \in R.table[R.held[p].loan].authorities
    /\ R.place # Nothing => R.place.token \in R.table[R.place.loan].authorities
    /\ \A p, q \in Names :
          R.held[p] # Nothing /\ R.held[q] # Nothing /\ R.held[p].token = R.held[q].token => p = q
    /\ \A p \in Names : R.held[p] # Nothing /\ R.place # Nothing => R.held[p].token # R.place.token

Bases(B) == B \subseteq Names \ {NoName}

LEMMA FactsFinite ==
    ASSUME NEW R, NEW B, Bases(B), Facts(R, B), NEW l \in LoanIds
    PROVE  IsFiniteSet(R.table[l].authorities)
<1>1. PICK N \in Nat : N = 2 * MaxInstructions + 5 BY NamesType
<1>2. IsFiniteSet(0 .. N - 1) BY IntervalSize
<1>3. Names = 0 .. N - 1 BY <1>1, NamesType
<1>4. R.table[l].authorities \in SUBSET (0 .. N - 1) BY <1>3 DEF Facts, Bases
<1> QED BY <1>2, <1>4, PartSize

\* A new authority under a new name.
LEMMA FactsMint ==
    ASSUME NEW R, NEW B, Bases(B), Facts(R, B), NEW t \in Names, t \notin B, t # NoName,
           NEW l \in LoanIds, NEW S \in Running,
           \A m \in LoanIds : S.table[m].authorities =
              IF m = l THEN R.table[m].authorities \cup {t} ELSE R.table[m].authorities,
           Holds(R, t, Carrier(Heap, Whole, l, t), S), S.place = R.place
    PROVE  Facts(S, B \cup {t})
<1>0. R \in Running /\ R.held \in [Names -> Value] /\ R.place \in Value BY RunningParts DEF Facts
<1>1. t \in Nat BY NamesType
<1>2. PICK w : w = Carrier(Heap, Whole, l, t) OBVIOUS
<1>3. w.loan = l /\ w.token = t /\ w # Nothing BY <1>1, <1>2, ValueParts
<1>4. \A p \in Names : S.held[p] = IF p = t THEN w ELSE R.held[p] BY <1>0, <1>2 DEF Holds
<1>5. \A v \in Value : v # Nothing => v.loan \in LoanIds BY ValueParts
<1>6. \A m \in LoanIds : t \notin R.table[m].authorities BY DEF Facts
<1>7. \A p \in Names : R.held[p] # Nothing => R.held[p].token # t /\ R.held[p].loan \in LoanIds
  BY <1>0, <1>5, <1>6 DEF Facts
<1>8. R.place # Nothing => R.place.token # t /\ R.place.loan \in LoanIds BY <1>0, <1>5, <1>6 DEF Facts
<1>9. TokensApart(S.table)
  <2>1. TokensApart(R.table) BY DEF Facts
  <2> QED BY <1>6, <2>1 DEF TokensApart
<1>10. \A m \in LoanIds : S.table[m].authorities \subseteq B \cup {t} BY DEF Facts
<1>11. ASSUME NEW p \in Names, S.held[p] # Nothing
       PROVE  p \in B \cup {t} /\ S.held[p].token \in S.table[S.held[p].loan].authorities
  <2>1. CASE p = t BY <2>1, <1>3, <1>4
  <2>2. CASE p # t
    <3>1. S.held[p] = R.held[p] /\ R.held[p] # Nothing BY <2>2, <1>4, <1>11
    <3>2. p \in B /\ R.held[p].token \in R.table[R.held[p].loan].authorities BY <3>1 DEF Facts
    <3>3. R.held[p].loan \in LoanIds BY <3>1, <1>7
    <3> QED BY <3>1, <3>2, <3>3
  <2> QED BY <2>1, <2>2
<1>12. S.place # Nothing => S.place.token \in S.table[S.place.loan].authorities BY <1>8 DEF Facts
<1>13. \A p, q \in Names :
          S.held[p] # Nothing /\ S.held[q] # Nothing /\ S.held[p].token = S.held[q].token => p = q
  BY <1>3, <1>4, <1>7 DEF Facts
<1>14. \A p \in Names : S.held[p] # Nothing /\ S.place # Nothing => S.held[p].token # S.place.token
  BY <1>3, <1>4, <1>8 DEF Facts
<1> QED BY <1>9, <1>10, <1>11, <1>12, <1>13, <1>14 DEF Facts

\* An authority ends where it is held.
LEMMA FactsEnd ==
    ASSUME NEW R, NEW B, Facts(R, B), NEW p \in Names, R.held[p] # Nothing, NEW S \in Running,
           \A m \in LoanIds : S.table[m].authorities =
              IF m = R.held[p].loan THEN R.table[m].authorities \ {R.held[p].token} ELSE R.table[m].authorities,
           Holds(R, p, Nothing, S), S.place = R.place
    PROVE  Facts(S, B)
<1>0. R \in Running /\ R.held \in [Names -> Value] /\ R.place \in Value BY RunningParts DEF Facts
<1>4. \A q \in Names : S.held[q] = IF q = p THEN Nothing ELSE R.held[q] BY DEF Holds
<1>5. \A v \in Value : v # Nothing => v.loan \in LoanIds BY ValueParts
<1>9. TokensApart(S.table)
  <2>1. TokensApart(R.table) BY DEF Facts
  <2> QED BY <2>1 DEF TokensApart
<1>10. \A m \in LoanIds : S.table[m].authorities \subseteq B BY DEF Facts
<1>6. \A q \in Names : R.held[q] # Nothing => R.held[q].loan \in LoanIds BY <1>0, <1>5
<1>11. ASSUME NEW q \in Names, S.held[q] # Nothing
       PROVE  q \in B /\ S.held[q].token \in S.table[S.held[q].loan].authorities
  <2>1. q # p /\ S.held[q] = R.held[q] /\ R.held[q] # Nothing BY <1>4, <1>11
  <2>2. R.held[q].token # R.held[p].token BY <2>1 DEF Facts
  <2>3. q \in B /\ R.held[q].token \in R.table[R.held[q].loan].authorities BY <2>1 DEF Facts
  <2>4. R.held[q].loan \in LoanIds BY <2>1, <1>6
  <2> QED BY <2>1, <2>2, <2>3, <2>4
<1>12. S.place # Nothing => S.place.token \in S.table[S.place.loan].authorities
  <2> SUFFICES ASSUME R.place # Nothing PROVE R.place.token \in S.table[R.place.loan].authorities OBVIOUS
  <2>1. R.place.token # R.held[p].token BY DEF Facts
  <2>2. R.place.token \in R.table[R.place.loan].authorities BY DEF Facts
  <2>3. R.place.loan \in LoanIds BY <1>0, <1>5
  <2> QED BY <2>1, <2>2, <2>3
<1>13. \A u, q \in Names :
          S.held[u] # Nothing /\ S.held[q] # Nothing /\ S.held[u].token = S.held[q].token => u = q
  BY <1>4 DEF Facts
<1>14. \A q \in Names : S.held[q] # Nothing /\ S.place # Nothing => S.held[q].token # S.place.token
  BY <1>4 DEF Facts
<1> QED BY <1>9, <1>10, <1>11, <1>12, <1>13, <1>14 DEF Facts

\* The stored one ends.
LEMMA FactsDrop ==
    ASSUME NEW R, NEW B, Facts(R, B), R.place # Nothing, NEW S \in Running,
           \A m \in LoanIds : S.table[m].authorities =
              IF m = R.place.loan THEN R.table[m].authorities \ {R.place.token} ELSE R.table[m].authorities,
           \A q \in Names : S.held[q] = R.held[q], S.place = Nothing
    PROVE  Facts(S, B)
<1>0. R \in Running /\ R.held \in [Names -> Value] /\ R.place \in Value BY RunningParts DEF Facts
<1>5. \A v \in Value : v # Nothing => v.loan \in LoanIds BY ValueParts
<1>9. TokensApart(S.table)
  <2>1. TokensApart(R.table) BY DEF Facts
  <2> QED BY <2>1 DEF TokensApart
<1>10. \A m \in LoanIds : S.table[m].authorities \subseteq B BY DEF Facts
<1>6. \A q \in Names : R.held[q] # Nothing => R.held[q].loan \in LoanIds BY <1>0, <1>5
<1>11. ASSUME NEW q \in Names, S.held[q] # Nothing
       PROVE  q \in B /\ S.held[q].token \in S.table[S.held[q].loan].authorities
  <2>2. R.held[q].token # R.place.token BY <1>11 DEF Facts
  <2>3. q \in B /\ R.held[q].token \in R.table[R.held[q].loan].authorities BY <1>11 DEF Facts
  <2>4. R.held[q].loan \in LoanIds BY <1>11, <1>6
  <2> QED BY <2>2, <2>3, <2>4
<1> QED BY <1>9, <1>10, <1>11 DEF Facts

\* An authority gets a new name.
LEMMA FactsMove ==
    ASSUME NEW R, NEW B, Facts(R, B), NEW p \in Names, NEW q \in Names, NEW S \in Running, S.table = R.table, S.place = R.place,
           \A u \in Names : S.held[u] = IF u = q THEN R.held[p] ELSE IF u = p THEN Nothing ELSE R.held[u]
    PROVE  Facts(S, B \cup {q})
<1>0. R \in Running /\ R.held \in [Names -> Value] /\ R.place \in Value BY RunningParts DEF Facts
<1>1. \A u \in Names : S.held[u] = IF u = q THEN R.held[p] ELSE IF u = p THEN Nothing ELSE R.held[u]
  OBVIOUS
<1>2. \A u \in Names : S.held[u] # Nothing =>
          u \in B \cup {q} /\ S.held[u].token \in S.table[S.held[u].loan].authorities
  BY <1>1 DEF Facts
<1>3. \A u, w \in Names :
          S.held[u] # Nothing /\ S.held[w] # Nothing /\ S.held[u].token = S.held[w].token => u = w
  BY <1>1 DEF Facts
<1>4. \A u \in Names : S.held[u] # Nothing /\ S.place # Nothing => S.held[u].token # S.place.token
  BY <1>1 DEF Facts
<1> QED BY <1>2, <1>3, <1>4 DEF Facts

\* An authority is stored.
LEMMA FactsStore ==
    ASSUME NEW R, NEW B, Facts(R, B), NEW p \in Names, NEW S \in Running, S.table = R.table, S.place = R.held[p],
           Holds(R, p, Nothing, S)
    PROVE  Facts(S, B)
<1>0. R \in Running /\ R.held \in [Names -> Value] BY RunningParts DEF Facts
<1>1. \A u \in Names : S.held[u] = IF u = p THEN Nothing ELSE R.held[u] BY DEF Holds
<1>2. \A u \in Names : S.held[u] # Nothing =>
          u \in B /\ S.held[u].token \in S.table[S.held[u].loan].authorities
  BY <1>1 DEF Facts
<1>3. S.place # Nothing => S.place.token \in S.table[S.place.loan].authorities BY DEF Facts
<1>4. \A u, w \in Names :
          S.held[u] # Nothing /\ S.held[w] # Nothing /\ S.held[u].token = S.held[w].token => u = w
  BY <1>1 DEF Facts
<1>5. \A u \in Names : S.held[u] # Nothing /\ S.place # Nothing => S.held[u].token # S.place.token
  BY <1>1 DEF Facts
<1> QED BY <1>2, <1>3, <1>4, <1>5 DEF Facts

\* A stored authority is taken out.
LEMMA FactsTake ==
    ASSUME NEW R, NEW B, Facts(R, B), NEW q \in Names, R.place # Nothing,
           NEW S \in Running, S.table = R.table, S.place = Nothing,
           Holds(R, q, R.place, S)
    PROVE  Facts(S, B \cup {q})
<1>0. R \in Running /\ R.held \in [Names -> Value] BY RunningParts DEF Facts
<1>1. \A u \in Names : S.held[u] = IF u = q THEN R.place ELSE R.held[u] BY DEF Holds
<1>2. \A u \in Names : S.held[u] # Nothing =>
          u \in B \cup {q} /\ S.held[u].token \in S.table[S.held[u].loan].authorities
  BY <1>1 DEF Facts
<1>3. \A u, w \in Names :
          S.held[u] # Nothing /\ S.held[w] # Nothing /\ S.held[u].token = S.held[w].token => u = w
  BY <1>1 DEF Facts
<1> QED BY <1>2, <1>3 DEF Facts

-----------------------------------------------------------------------------
(* One step of a run. *)

\* i fits a run whose names are those of B.
Fits(i, B) ==
    /\ i \in Instruction
    /\ i.op \in Defining => i.new.permission \notin B /\ i.new.permission # NoName
    /\ i.op \in Creating => i.loan \in LoanIds
    /\ i.op = "LoanReborrow" => i.parent \in LoanIds
    /\ i.op \in {"LoanEnd", "LoanAliasShared"} => i.loan \in LoanIds

More(i, B) == IF i.op \in Defining THEN B \cup {i.new.permission} ELSE B

LEMMA FactsRunning ==
    ASSUME NEW R, NEW B, Facts(R, B)
    PROVE  R \in Running /\ Canonical(R.table) /\ R.held \in [Names -> Value] /\ R.place \in Value
  BY RunningParts DEF Facts

LEMMA FitsNames ==
    ASSUME NEW i \in Instruction
    PROVE  /\ i.at.permission \in Names /\ i.new.permission \in Names /\ i.new.permission \in Nat
           /\ i.at.permission \in Nat /\ i.kind \in Kind /\ i.op \in Op
           /\ i.loan \in LoanIds \cup {NoLoan}
<1>1. i.at \in Holder /\ i.new \in Holder /\ i.kind \in Kind /\ i.op \in Op
      /\ i.loan \in LoanIds \cup {NoLoan} BY DEF Instruction
<1>2. Names \subseteq Nat BY NamesType
<1> QED BY <1>1, <1>2 DEF Holder

\* The effects, by what the instruction does.
LEMMA EffectBegin ==
    ASSUME NEW R \in Running, NEW i, i.op = "LoanBegin", i.new.permission \in Names,
           Canonical(BeginLoan(R.table, i.loan, Heap, Whole, i.kind, i.new.permission)),
           Carrier(Heap, Whole, i.loan, i.new.permission) \in Value
    PROVE  LET S == Effect(R, i) IN
           /\ S \in Running
           /\ S.table = BeginLoan(R.table, i.loan, Heap, Whole, i.kind, i.new.permission)
           /\ S.place = R.place
           /\ Holds(R, i.new.permission, Carrier(Heap, Whole, i.loan, i.new.permission), S)
<1>1. R \in States BY DEF Running
<1>2. BeginLoan(R.table, i.loan, Heap, Whole, i.kind, i.new.permission) \in Table BY DEF Canonical
<1>3. /\ Effect(R, i) \in States
      /\ Effect(R, i).table = BeginLoan(R.table, i.loan, Heap, Whole, i.kind, i.new.permission)
      /\ Effect(R, i).place = R.place
      /\ Effect(R, i).held = [R.held EXCEPT ![i.new.permission] = Carrier(Heap, Whole, i.loan, i.new.permission)]
  BY <1>1, <1>2 DEF States, Effect, HeldBy, Pending
<1> QED BY <1>1, <1>3 DEF Running, Holds, States

LEMMA EffectReborrow ==
    ASSUME NEW R \in Running, NEW i, i.op \in {"LoanReborrow", "LoanReborrowAuthority"},
           i.new.permission \in Names,
           Canonical(ReborrowLoan(R.table, i.loan, R.held[i.at.permission].loan, Whole, i.kind, i.new.permission)),
           Carrier(Heap, Whole, i.loan, i.new.permission) \in Value
    PROVE  LET S == Effect(R, i) IN
           /\ S \in Running
           /\ S.table = ReborrowLoan(R.table, i.loan, R.held[i.at.permission].loan, Whole, i.kind, i.new.permission)
           /\ S.place = R.place
           /\ Holds(R, i.new.permission, Carrier(Heap, Whole, i.loan, i.new.permission), S)
<1>1. R \in States BY DEF Running
<1>2. ReborrowLoan(R.table, i.loan, R.held[i.at.permission].loan, Whole, i.kind, i.new.permission) \in Table
  BY DEF Canonical
<1>3. /\ Effect(R, i) \in States
      /\ Effect(R, i).table = ReborrowLoan(R.table, i.loan, R.held[i.at.permission].loan, Whole, i.kind, i.new.permission)
      /\ Effect(R, i).place = R.place
      /\ Effect(R, i).held = [R.held EXCEPT ![i.new.permission] = Carrier(Heap, Whole, i.loan, i.new.permission)]
  BY <1>1, <1>2 DEF States, Effect, HeldBy, Pending
<1> QED BY <1>1, <1>3 DEF Running, Holds, States

LEMMA EffectAlias ==
    ASSUME NEW R \in Running, NEW i, i.op \in {"LoanAliasShared", "LoanAliasAuthority"},
           i.new.permission \in Names,
           Canonical(AliasLoan(R.table, R.held[i.at.permission].loan, i.new.permission)),
           Carrier(Heap, Whole, R.held[i.at.permission].loan, i.new.permission) \in Value
    PROVE  LET S == Effect(R, i) IN
           /\ S \in Running
           /\ S.table = AliasLoan(R.table, R.held[i.at.permission].loan, i.new.permission)
           /\ S.place = R.place
           /\ Holds(R, i.new.permission, Carrier(Heap, Whole, R.held[i.at.permission].loan, i.new.permission), S)
<1>1. R \in States BY DEF Running
<1>2. AliasLoan(R.table, R.held[i.at.permission].loan, i.new.permission) \in Table BY DEF Canonical
<1>3. /\ Effect(R, i) \in States
      /\ Effect(R, i).table = AliasLoan(R.table, R.held[i.at.permission].loan, i.new.permission)
      /\ Effect(R, i).place = R.place
      /\ Effect(R, i).held = [R.held EXCEPT ![i.new.permission] =
                                 Carrier(Heap, Whole, R.held[i.at.permission].loan, i.new.permission)]
  BY <1>1, <1>2 DEF States, Effect, HeldBy, Pending
<1> QED BY <1>1, <1>3 DEF Running, Holds, States

LEMMA EffectUse ==
    ASSUME NEW R, NEW i, i.op \in {"Access", "OwnerWrite"}
    PROVE  Effect(R, i) = R
  BY DEF Effect, Pending

LEMMA EffectCall ==
    ASSUME NEW R \in Running, NEW i, i.op = "Call", i.new.permission \in Names, i.at.permission \in Names
    PROVE  LET S == Effect(R, i) IN
           /\ S \in Running /\ S.table = R.table /\ S.place = R.place
           /\ \A u \in Names : S.held[u] =
                 IF u = i.new.permission THEN R.held[i.at.permission]
                 ELSE IF u = i.at.permission THEN Nothing ELSE R.held[u]
<1>1. R \in States /\ Canonical(R.table) /\ Nothing \in Value /\ R.held[i.at.permission] \in Value
  BY ValueParts, RunningParts DEF Running
<1>2. /\ Effect(R, i) \in States /\ Effect(R, i).table = R.table /\ Effect(R, i).place = R.place
      /\ Effect(R, i).held = [R.held EXCEPT ![i.at.permission] = Nothing,
                                            ![i.new.permission] = R.held[i.at.permission]]
  BY <1>1 DEF States, Effect, HeldBy, Pending
<1>3. R.held \in [Names -> Value] BY <1>1 DEF States
<1> QED BY <1>1, <1>2, <1>3 DEF Running

LEMMA EffectStore ==
    ASSUME NEW R \in Running, NEW i, i.op = "ResourceInitialize", i.at.permission \in Names
    PROVE  LET S == Effect(R, i) IN
           /\ S \in Running /\ S.table = R.table /\ S.place = R.held[i.at.permission]
           /\ Holds(R, i.at.permission, Nothing, S)
<1>1. R \in States /\ Canonical(R.table) /\ Nothing \in Value /\ R.held[i.at.permission] \in Value
  BY ValueParts, RunningParts DEF Running
<1>2. /\ Effect(R, i) \in States /\ Effect(R, i).table = R.table
      /\ Effect(R, i).place = R.held[i.at.permission]
      /\ Effect(R, i).held = [R.held EXCEPT ![i.at.permission] = Nothing]
  BY <1>1 DEF States, Effect, HeldBy, Pending
<1> QED BY <1>1, <1>2 DEF Running, Holds, States

LEMMA EffectTake ==
    ASSUME NEW R \in Running, NEW i, i.op = "ResourceTake", i.new.permission \in Names
    PROVE  LET S == Effect(R, i) IN
           /\ S \in Running /\ S.table = R.table /\ S.place = Nothing
           /\ Holds(R, i.new.permission, R.place, S)
<1>1. R \in States /\ Canonical(R.table) /\ Nothing \in Value /\ R.place \in Value
  BY ValueParts, RunningParts DEF Running
<1>2. /\ Effect(R, i) \in States /\ Effect(R, i).table = R.table /\ Effect(R, i).place = Nothing
      /\ Effect(R, i).held = [R.held EXCEPT ![i.new.permission] = R.place]
  BY <1>1 DEF States, Effect, HeldBy, Pending
<1> QED BY <1>1, <1>2 DEF Running, Holds, States

LEMMA EffectDrop ==
    ASSUME NEW R \in Running, NEW i, i.op = "ObjectDrop",
           Canonical(EndLoan(R.table, R.place.loan, R.place.token))
    PROVE  LET S == Effect(R, i) IN
           /\ S \in Running /\ S.table = EndLoan(R.table, R.place.loan, R.place.token)
           /\ S.place = Nothing /\ \A q \in Names : S.held[q] = R.held[q]
<1>1. R \in States /\ Nothing \in Value BY ValueParts DEF Running
<1>2. EndLoan(R.table, R.place.loan, R.place.token) \in Table BY DEF Canonical
<1>3. /\ Effect(R, i) \in States /\ Effect(R, i).table = EndLoan(R.table, R.place.loan, R.place.token)
      /\ Effect(R, i).place = Nothing /\ Effect(R, i).held = R.held
  BY <1>1, <1>2 DEF States, Effect, HeldBy, Pending
<1> QED BY <1>3 DEF Running

LEMMA EffectEnd ==
    ASSUME NEW R \in Running, NEW i, i.op \in Pending, i.at.permission \in Names,
           Canonical(EndLoan(R.table, R.held[i.at.permission].loan, R.held[i.at.permission].token))
    PROVE  LET S == Effect(R, i) IN
           /\ S \in Running
           /\ S.table = EndLoan(R.table, R.held[i.at.permission].loan, R.held[i.at.permission].token)
           /\ S.place = R.place /\ Holds(R, i.at.permission, Nothing, S)
<1>1. R \in States /\ Nothing \in Value BY ValueParts DEF Running
<1>2. EndLoan(R.table, R.held[i.at.permission].loan, R.held[i.at.permission].token) \in Table
  BY DEF Canonical
<1>3. /\ Effect(R, i) \in States
      /\ Effect(R, i).table = EndLoan(R.table, R.held[i.at.permission].loan, R.held[i.at.permission].token)
      /\ Effect(R, i).place = R.place
      /\ Effect(R, i).held = [R.held EXCEPT ![i.at.permission] = Nothing]
  BY <1>1, <1>2 DEF States, Effect, HeldBy, Pending
<1> QED BY <1>1, <1>3 DEF Running, Holds, States


LEMMA FactsMore ==
    ASSUME NEW R, NEW B, NEW C, Facts(R, B), B \subseteq C
    PROVE  Facts(R, C)
<1>1. \A l \in LoanIds : R.table[l].authorities \subseteq C BY DEF Facts
<1>2. \A p \in Names : R.held[p] # Nothing =>
          p \in C /\ R.held[p].token \in R.table[R.held[p].loan].authorities BY DEF Facts
<1> QED BY <1>1, <1>2 DEF Facts

\* The value that an allowed instruction uses.
LEMMA UsedValue ==
    ASSUME NEW R, NEW B, Facts(R, B), NEW p \in Names, R.held[p].loan # NoLoan \/ R.held[p].loan \in LoanIds
    PROVE  /\ R.held[p] \in Value /\ R.held[p] # Nothing /\ R.held[p].loan \in LoanIds
           /\ R.held[p].token \in Nat
           /\ R.held[p].token \in R.table[R.held[p].loan].authorities
<1>1. R.held[p] \in Value BY FactsRunning
<1>2. NoLoan \notin LoanIds BY LoanTableAssumption
<1>3. R.held[p] # Nothing BY <1>1, <1>2, ValueParts
<1>4. R.held[p].loan \in LoanIds /\ R.held[p].token \in Nat BY <1>1, <1>3, ValueParts
<1>5. R.held[p].token \in R.table[R.held[p].loan].authorities BY <1>3 DEF Facts
<1> QED BY <1>1, <1>3, <1>4, <1>5


LEMMA FactsStep ==
    ASSUME NEW R, NEW B, Bases(B), Facts(R, B), NEW i, Fits(i, B), Allowed(R, i)
    PROVE  Facts(Effect(R, i), More(i, B))
<1>0. /\ R \in Running /\ Canonical(R.table) /\ R.held \in [Names -> Value] /\ R.place \in Value
      /\ i \in Instruction
  BY FactsRunning DEF Fits
<1>1. PICK t : t = i.new.permission OBVIOUS
<1>2. PICK p : p = i.at.permission OBVIOUS
<1>3. PICK S : S = Effect(R, i) OBVIOUS
<1>4. t \in Names /\ t \in Nat /\ p \in Names /\ i.kind \in Kind /\ i.op \in Op
  BY <1>0, <1>1, <1>2, FitsNames
<1>5. PICK v : v = R.held[p] OBVIOUS
<1>6. Heap \in Allocations /\ Whole \in Range /\ Nothing \in Value BY HeapParts, ValueParts
<1>7. v \in Value BY <1>0, <1>4, <1>5
<1>8. v.loan # NoLoan \/ v.loan \in LoanIds => v # Nothing /\ v.loan \in LoanIds /\ v.token \in Nat
  BY <1>7, ValueParts
<1>9. i.op \in Defining => t \notin B /\ t # NoName /\ More(i, B) = B \cup {t}
  BY <1>1 DEF Fits, More
<1>10. i.op \notin Defining => More(i, B) = B BY DEF More
<1>a. v = R.held[i.at.permission] BY <1>2, <1>5
<1>11. CASE i.op = "LoanBegin"
  <2>1. PICK l : l = i.loan OBVIOUS
  <2>2. l \in LoanIds /\ i.op \in Defining BY <1>11, <2>1 DEF Fits, Creating, Defining
  <2>3. PICK M : M = BeginLoan(R.table, l, Heap, Whole, i.kind, t) OBVIOUS
  <2>4. BeginAllowed(R.table, l, Heap, Whole, i.kind) BY <1>11, <1>a, <2>1 DEF Allowed, HeldBy
  <2>5. /\ Canonical(M) /\ M[l].authorities = {t} /\ R.table[l].authorities = {}
        /\ \A m \in LoanIds : m # l => M[m] = R.table[m]
    BY <1>0, <1>4, <1>6, <2>2, <2>3, <2>4, BeginCanonical
  <2>6. Carrier(Heap, Whole, l, t) \in Value BY <1>4, <2>2, ValueParts
  <2>7. S \in Running /\ S.table = M /\ S.place = R.place
        /\ Holds(R, t, Carrier(Heap, Whole, l, t), S)
    BY <1>0, <1>1, <1>3, <1>4, <1>11, <2>1, <2>3, <2>5, <2>6, EffectBegin
  <2>8. \A m \in LoanIds : S.table[m].authorities =
              IF m = l THEN R.table[m].authorities \cup {t} ELSE R.table[m].authorities
    BY <2>5, <2>7
  <2>9. Facts(S, B \cup {t}) BY <1>4, <1>9, <2>2, <2>7, <2>8, FactsMint
  <2> QED BY <1>3, <1>9, <2>2, <2>9
<1>12. CASE i.op \in {"LoanReborrow", "LoanReborrowAuthority"}
  <2>1. PICK l : l = i.loan OBVIOUS
  <2>2. l \in LoanIds /\ i.op \in Defining BY <1>12, <2>1 DEF Fits, Creating, Defining
  <2>3. PICK M : M = ReborrowLoan(R.table, l, v.loan, Whole, i.kind, t) OBVIOUS
  <2>4. /\ ReborrowAllowed(R.table, l, v.loan, Whole, i.kind, v.token)
        /\ i.op = "LoanReborrow" => v.loan = i.parent
        /\ i.op = "LoanReborrowAuthority" => v.loan # NoLoan
    BY <1>12, <1>a, <2>1 DEF Allowed, HeldBy
  <2>5. v.loan \in LoanIds BY <1>8, <1>12, <2>4 DEF Fits
  <2>6. /\ Canonical(M) /\ M[l] = NewLoan(R.table[v.loan].allocation, Whole, i.kind, v.loan, t)
        /\ R.table[l].authorities = {}
        /\ \A m \in LoanIds : m # l => M[m].authorities = R.table[m].authorities
    BY <1>0, <1>4, <1>6, <2>2, <2>3, <2>4, <2>5, ReborrowCanonical
  <2>7. M[l].authorities = {t} BY <2>6 DEF NewLoan
  <2>8. Carrier(Heap, Whole, l, t) \in Value BY <1>4, <2>2, ValueParts
  <2>9. S \in Running /\ S.table = M /\ S.place = R.place
        /\ Holds(R, t, Carrier(Heap, Whole, l, t), S)
    <3>1. M = ReborrowLoan(R.table, i.loan, R.held[i.at.permission].loan, Whole, i.kind, i.new.permission)
      BY <1>1, <1>a, <2>1, <2>3
    <3>2. i.new.permission \in Names /\ Carrier(Heap, Whole, i.loan, i.new.permission) \in Value
      BY <1>1, <1>4, <2>1, <2>8
    <3>3. /\ S \in Running
          /\ S.table = ReborrowLoan(R.table, i.loan, R.held[i.at.permission].loan, Whole, i.kind, i.new.permission)
          /\ S.place = R.place
          /\ Holds(R, i.new.permission, Carrier(Heap, Whole, i.loan, i.new.permission), S)
      <4> HIDE <1>a
      <4>1. Canonical(ReborrowLoan(R.table, i.loan, R.held[i.at.permission].loan, Whole, i.kind, i.new.permission))
        BY <2>6, <3>1
      <4> QED BY <1>0, <1>3, <1>12, <3>2, <4>1, EffectReborrow
    <3> QED BY <1>1, <2>1, <3>1, <3>3
  <2>10. \A m \in LoanIds : S.table[m].authorities =
              IF m = l THEN R.table[m].authorities \cup {t} ELSE R.table[m].authorities
    BY <2>6, <2>7, <2>9
  <2>11. Facts(S, B \cup {t}) BY <1>4, <1>9, <2>2, <2>9, <2>10, FactsMint
  <2> QED BY <1>3, <1>9, <2>2, <2>11
<1>13. CASE i.op \in {"LoanAliasShared", "LoanAliasAuthority"}
  <2>1. i.op \in Defining BY <1>13 DEF Defining
  <2>2. PICK l : l = v.loan OBVIOUS
  <2>3. PICK M : M = AliasLoan(R.table, l, t) OBVIOUS
  <2>4. /\ AliasAllowed(R.table, l, v.token)
        /\ i.op = "LoanAliasShared" => v.loan = i.loan
        /\ i.op = "LoanAliasAuthority" => v.loan # NoLoan
    BY <1>13, <1>a, <2>2 DEF Allowed, HeldBy
  <2>5. l \in LoanIds BY <1>8, <1>13, <2>2, <2>4 DEF Fits
  <2>6. /\ Canonical(M) /\ M[l].authorities = R.table[l].authorities \cup {t}
        /\ \A m \in LoanIds : m # l => M[m] = R.table[m]
    BY <1>0, <1>4, <2>3, <2>4, <2>5, AliasCanonical
  <2>7. Carrier(Heap, Whole, l, t) \in Value BY <1>4, <2>5, ValueParts
  <2>8. S \in Running /\ S.table = M /\ S.place = R.place
        /\ Holds(R, t, Carrier(Heap, Whole, l, t), S)
    <3>1. M = AliasLoan(R.table, R.held[i.at.permission].loan, i.new.permission)
      BY <1>1, <1>a, <2>2, <2>3
    <3>2. /\ i.new.permission \in Names
          /\ Carrier(Heap, Whole, R.held[i.at.permission].loan, i.new.permission) \in Value
      BY <1>1, <1>4, <1>a, <2>2, <2>7
    <3>3. /\ S \in Running
          /\ S.table = AliasLoan(R.table, R.held[i.at.permission].loan, i.new.permission)
          /\ S.place = R.place
          /\ Holds(R, i.new.permission, Carrier(Heap, Whole, R.held[i.at.permission].loan, i.new.permission), S)
      <4>1. Canonical(AliasLoan(R.table, R.held[i.at.permission].loan, i.new.permission))
        BY <2>6, <3>1
      <4> QED BY <1>0, <1>3, <1>13, <3>2, <4>1, EffectAlias
    <3> QED BY <1>1, <1>a, <2>2, <3>1, <3>3
  <2>9. \A m \in LoanIds : S.table[m].authorities =
              IF m = l THEN R.table[m].authorities \cup {t} ELSE R.table[m].authorities
    BY <2>6, <2>8
  <2>10. Facts(S, B \cup {t}) BY <1>4, <1>9, <2>1, <2>5, <2>8, <2>9, FactsMint
  <2> QED BY <1>3, <1>9, <2>1, <2>10
<1>14. CASE i.op \in {"Access", "OwnerWrite"}
  <2>1. S = R BY <1>3, <1>14, EffectUse
  <2>2. i.op \notin Defining BY <1>14 DEF Defining, Creating
  <2> QED BY <2>1, <2>2, <1>3, <1>10
<1>15. CASE i.op = "Call"
  <2>1. i.op \in Defining BY <1>15 DEF Defining
  <2>3. S \in Running /\ S.table = R.table /\ S.place = R.place
        /\ \A u \in Names : S.held[u] = IF u = t THEN R.held[p] ELSE IF u = p THEN Nothing ELSE R.held[u]
    BY <1>0, <1>1, <1>2, <1>3, <1>4, <1>15, EffectCall
  <2>4. Facts(S, B \cup {t}) BY <1>4, <2>3, FactsMove
  <2> QED BY <1>3, <1>9, <2>1, <2>4
<1>16. CASE i.op = "ResourceInitialize"
  <2>1. i.op \notin Defining BY <1>16 DEF Defining, Creating
  <2>3. S \in Running /\ S.table = R.table /\ S.place = R.held[p] /\ Holds(R, p, Nothing, S)
    BY <1>0, <1>2, <1>3, <1>4, <1>16, EffectStore
  <2>4. Facts(S, B) BY <1>4, <2>3, FactsStore
  <2> QED BY <1>3, <1>10, <2>1, <2>4
<1>17. CASE i.op = "ResourceTake"
  <2>1. i.op \in Defining BY <1>17 DEF Defining
  <2>2. R.place # Nothing BY <1>17, <1>a DEF Allowed, HeldBy
  <2>3. S \in Running /\ S.table = R.table /\ S.place = Nothing /\ Holds(R, t, R.place, S)
    BY <1>0, <1>1, <1>3, <1>4, <1>17, EffectTake
  <2>4. Facts(S, B \cup {t}) BY <1>4, <2>2, <2>3, FactsTake
  <2> QED BY <1>3, <1>9, <2>1, <2>4
<1>18. CASE i.op = "ObjectDrop"
  <2>1. i.op \notin Defining BY <1>18 DEF Defining, Creating
  <2>2. PICK M : M = EndLoan(R.table, R.place.loan, R.place.token) OBVIOUS
  <2>3. R.place # Nothing /\ EndStoredAllowed(R.table, R.place.loan, R.place.token)
    BY <1>18, <1>a DEF Allowed, HeldBy
  <2>4. R.place.loan \in LoanIds BY <1>0, <2>3, ValueParts
  <2>5. /\ Canonical(M)
        /\ \A m \in LoanIds : M[m].authorities =
              IF m = R.place.loan THEN R.table[m].authorities \ {R.place.token} ELSE R.table[m].authorities
    <3>1. PICK l, h, T : l = R.place.loan /\ h = R.place.token /\ T = R.table OBVIOUS
    <3>2. M = EndLoan(T, l, h) /\ EndStoredAllowed(T, l, h) /\ l \in LoanIds /\ Canonical(T)
      BY <1>0, <2>2, <2>3, <2>4, <3>1
    <3>3. /\ Canonical(EndLoan(T, l, h))
          /\ \A m \in LoanIds : EndLoan(T, l, h)[m].authorities =
                IF m = l THEN T[m].authorities \ {h} ELSE T[m].authorities
      <4> HIDE <3>1
      <4> QED BY <3>2, EndCanonical
    <3> QED BY <3>1, <3>2, <3>3
  <2>6. S \in Running /\ S.table = M /\ S.place = Nothing /\ \A q \in Names : S.held[q] = R.held[q]
    BY <1>0, <1>3, <1>18, <2>2, <2>5, EffectDrop
  <2>7. Facts(S, B) BY <2>3, <2>5, <2>6, FactsDrop
  <2> QED BY <1>3, <1>10, <2>1, <2>7
<1>19. CASE i.op \in Pending
  <2>1. i.op \notin Defining BY <1>19 DEF Defining, Creating, Pending
  <2>2. PICK M : M = EndLoan(R.table, v.loan, v.token) OBVIOUS
  <2>3. /\ i.op = "LoanEnd" => v.loan = i.loan /\ EndAllowed(R.table, v.loan, v.token)
        /\ i.op = "LoanEndAuthority" => v.loan # NoLoan /\ EndStoredAllowed(R.table, v.loan, v.token)
    BY <1>19, <1>a DEF Allowed, HeldBy, Pending
  <2>4. v # Nothing /\ v.loan \in LoanIds BY <1>8, <1>19, <2>3 DEF Pending, Fits
  <2>5. EndAllowed(R.table, v.loan, v.token) \/ EndStoredAllowed(R.table, v.loan, v.token)
    BY <1>19, <2>3 DEF Pending
  <2>6. /\ Canonical(M)
        /\ \A m \in LoanIds : M[m].authorities =
              IF m = v.loan THEN R.table[m].authorities \ {v.token} ELSE R.table[m].authorities
    <3>1. PICK l, h, T : l = v.loan /\ h = v.token /\ T = R.table OBVIOUS
    <3>2. M = EndLoan(T, l, h) /\ (EndAllowed(T, l, h) \/ EndStoredAllowed(T, l, h))
          /\ l \in LoanIds /\ Canonical(T)
      BY <1>0, <2>2, <2>4, <2>5, <3>1
    <3>3. /\ Canonical(EndLoan(T, l, h))
          /\ \A m \in LoanIds : EndLoan(T, l, h)[m].authorities =
                IF m = l THEN T[m].authorities \ {h} ELSE T[m].authorities
      <4> HIDE <3>1
      <4> QED BY <3>2, EndCanonical
    <3> QED BY <3>1, <3>2, <3>3
  <2>7. S \in Running /\ S.table = M /\ S.place = R.place /\ Holds(R, p, Nothing, S)
    BY <1>0, <1>2, <1>3, <1>4, <1>5, <1>19, <2>2, <2>6, EffectEnd
  <2>8. Facts(S, B)
    <3>1. R.held[p] # Nothing BY <1>5, <2>4
    <3>2. \A m \in LoanIds : S.table[m].authorities =
             IF m = R.held[p].loan THEN R.table[m].authorities \ {R.held[p].token} ELSE R.table[m].authorities
      BY <1>5, <2>6, <2>7
    <3> QED BY <1>4, <2>7, <3>1, <3>2, FactsEnd
  <2> QED BY <1>3, <1>10, <2>1, <2>8
<1> QED BY <1>4, <1>11, <1>12, <1>13, <1>14, <1>15, <1>16, <1>17, <1>18, <1>19 DEF Op, Pending

-----------------------------------------------------------------------------
(* A run in which some references have ended already. *)

\* The tokens of the references of X.
Gone(L, X) == {L.held[p].token : p \in X}

\* P is L without the references of X.
Sim(L, X, P) ==
    /\ L \in Running /\ P \in Running /\ X \subseteq Names
    /\ P.place = L.place
    /\ \A p \in Names : P.held[p] = IF p \in X THEN Nothing ELSE L.held[p]
    /\ \A p \in X : L.held[p] # Nothing
    /\ Reduces(L.table, P.table, Gone(L, X))

LEMMA GoneTokens ==
    ASSUME NEW L, NEW B, Facts(L, B), NEW X, NEW P, Sim(L, X, P)
    PROVE  /\ \A p \in Names : L.held[p] # Nothing /\ p \notin X => L.held[p].token \notin Gone(L, X)
           /\ L.place # Nothing => L.place.token \notin Gone(L, X)
           /\ Gone(L, X) \subseteq B
           /\ Canonical(L.table) /\ Canonical(P.table)
           /\ Reduces(L.table, P.table, Gone(L, X))
<1>1. \A p \in X : p \in Names /\ L.held[p] # Nothing BY DEF Sim
<1>2. ASSUME NEW p \in Names, L.held[p] # Nothing, p \notin X PROVE L.held[p].token \notin Gone(L, X)
  <2>1. ASSUME L.held[p].token \in Gone(L, X) PROVE FALSE
    <3>1. PICK q \in X : L.held[p].token = L.held[q].token BY <2>1 DEF Gone
    <3>2. p = q BY <1>1, <1>2, <3>1 DEF Facts
    <3> QED BY <3>2, <1>2
  <2> QED BY <2>1
<1>3. ASSUME L.place # Nothing PROVE L.place.token \notin Gone(L, X)
  <2>1. ASSUME L.place.token \in Gone(L, X) PROVE FALSE
    <3>1. PICK q \in X : L.place.token = L.held[q].token BY <2>1 DEF Gone
    <3> QED BY <1>1, <1>3, <3>1 DEF Facts
  <2> QED BY <2>1
<1>4. ASSUME NEW p \in X PROVE L.held[p].token \in B
  <2>1. L.held[p] \in Value /\ L.held[p] # Nothing /\ p \in Names BY <1>1, FactsRunning
  <2>2. L.held[p].loan \in LoanIds BY <2>1, ValueParts
  <2> QED BY <2>1, <2>2 DEF Facts
<1>5. Gone(L, X) \subseteq B BY <1>4 DEF Gone
<1> QED BY <1>2, <1>3, <1>5 DEF Sim, Running

\* Both runs change alike.
LEMMA SimSame ==
    ASSUME NEW L, NEW X, NEW P, Sim(L, X, P), NEW M \in Running, NEW Q \in Running,
           \A q \in X : M.held[q] = L.held[q] /\ Q.held[q] = P.held[q],
           \A q \in Names \ X : Q.held[q] = M.held[q],
           Q.place = M.place, Reduces(M.table, Q.table, Gone(L, X))
    PROVE  Sim(M, X, Q)
<1>1. Gone(M, X) = Gone(L, X) BY DEF Gone
<1>2. X \subseteq Names /\ \A p \in X : L.held[p] # Nothing BY DEF Sim
<1>3. \A p \in X : Q.held[p] = Nothing BY <1>2 DEF Sim
<1>4. \A p \in Names : Q.held[p] = IF p \in X THEN Nothing ELSE M.held[p] BY <1>3
<1> QED BY <1>1, <1>2, <1>4 DEF Sim

LEMMA SimPut ==
    ASSUME NEW L, NEW X, NEW P, Sim(L, X, P), NEW M \in Running, NEW Q \in Running,
           NEW t, t \notin X, NEW v, Holds(L, t, v, M), Holds(P, t, v, Q),
           Q.place = M.place, Reduces(M.table, Q.table, Gone(L, X))
    PROVE  Sim(M, X, Q)
<1>1. X \subseteq Names /\ \A q \in Names \ X : P.held[q] = L.held[q] BY DEF Sim
<1>2. \A q \in X : M.held[q] = L.held[q] /\ Q.held[q] = P.held[q] BY <1>1 DEF Holds
<1>3. \A q \in Names \ X : Q.held[q] = M.held[q] BY <1>1 DEF Holds
<1> QED BY <1>2, <1>3, SimSame

LEMMA SimBegin ==
    ASSUME IsFiniteSet(LoanIds), NEW L, NEW B, Bases(B), Facts(L, B), NEW X, NEW P, Sim(L, X, P),
           NEW i, Fits(i, B), i.op = "LoanBegin", Allowed(L, i), i.new.permission \notin X
    PROVE  Allowed(P, i) /\ Sim(Effect(L, i), X, Effect(P, i))
<1>1. PICK t, l : t = i.new.permission /\ l = i.loan OBVIOUS
<1>2. t \in Names /\ t \in Nat /\ l \in LoanIds /\ i.kind \in Kind /\ t \notin B /\ t \notin X
  BY <1>1, FitsNames DEF Fits, Creating, Defining
<1>3. t \notin Gone(L, X) /\ Canonical(L.table) /\ Canonical(P.table)
      /\ Reduces(L.table, P.table, Gone(L, X))
  BY <1>2, GoneTokens
<1>4. L \in Running /\ P \in Running /\ P.place = L.place BY DEF Sim
<1>5. Heap \in Allocations /\ Whole \in Range /\ Carrier(Heap, Whole, l, t) \in Value
  BY <1>2, HeapParts, ValueParts
<1>6. BeginAllowed(L.table, l, Heap, Whole, i.kind) BY <1>1 DEF Allowed, HeldBy
<1>7. /\ Canonical(BeginLoan(L.table, l, Heap, Whole, i.kind, t))
      /\ BeginAllowed(P.table, l, Heap, Whole, i.kind)
      /\ Canonical(BeginLoan(P.table, l, Heap, Whole, i.kind, t))
      /\ Reduces(BeginLoan(L.table, l, Heap, Whole, i.kind, t),
                 BeginLoan(P.table, l, Heap, Whole, i.kind, t), Gone(L, X))
  BY <1>2, <1>3, <1>5, <1>6, BeginCanonical, BeginReduces
<1>8. Allowed(P, i) BY <1>1, <1>7 DEF Allowed, HeldBy
<1>9. ASSUME NEW R \in Running, Canonical(BeginLoan(R.table, l, Heap, Whole, i.kind, t))
      PROVE  /\ Effect(R, i) \in Running /\ Effect(R, i).place = R.place
             /\ Effect(R, i).table = BeginLoan(R.table, l, Heap, Whole, i.kind, t)
             /\ Holds(R, t, Carrier(Heap, Whole, l, t), Effect(R, i))
  BY <1>1, <1>2, <1>5, <1>9, EffectBegin
<1>10. PICK M, Q : M = Effect(L, i) /\ Q = Effect(P, i) OBVIOUS
<1>11. /\ M \in Running /\ M.place = L.place /\ Holds(L, t, Carrier(Heap, Whole, l, t), M)
       /\ M.table = BeginLoan(L.table, l, Heap, Whole, i.kind, t)
  BY <1>4, <1>7, <1>9, <1>10
<1>12. /\ Q \in Running /\ Q.place = P.place /\ Holds(P, t, Carrier(Heap, Whole, l, t), Q)
       /\ Q.table = BeginLoan(P.table, l, Heap, Whole, i.kind, t)
  BY <1>4, <1>7, <1>9, <1>10
<1>13. Sim(M, X, Q) BY <1>2, <1>4, <1>7, <1>11, <1>12, SimPut
<1> QED BY <1>8, <1>10, <1>13

LEMMA SimReborrow ==
    ASSUME IsFiniteSet(LoanIds), NEW L, NEW B, Bases(B), Facts(L, B), NEW X, NEW P, Sim(L, X, P),
           NEW i, Fits(i, B), i.op \in {"LoanReborrow", "LoanReborrowAuthority"}, Allowed(L, i),
           i.new.permission \notin X, i.at.permission \notin X
    PROVE  Allowed(P, i) /\ Sim(Effect(L, i), X, Effect(P, i))
<1>1. PICK t, l : t = i.new.permission /\ l = i.loan OBVIOUS
<1>2. /\ t \in Names /\ t \in Nat /\ l \in LoanIds /\ i.kind \in Kind /\ t \notin B /\ t \notin X
      /\ i.at.permission \in Names
  BY <1>1, FitsNames DEF Fits, Creating, Defining
<1>3. t \notin Gone(L, X) /\ Canonical(L.table) /\ Canonical(P.table)
      /\ Reduces(L.table, P.table, Gone(L, X))
  BY <1>2, GoneTokens
<1>4. L \in Running /\ P \in Running /\ P.place = L.place BY DEF Sim
<1>5. Heap \in Allocations /\ Whole \in Range /\ Carrier(Heap, Whole, l, t) \in Value
  BY <1>2, HeapParts, ValueParts
<1>a. P.held[i.at.permission] = L.held[i.at.permission] BY <1>2 DEF Sim
<1>6. /\ ReborrowAllowed(L.table, l, L.held[i.at.permission].loan, Whole, i.kind, L.held[i.at.permission].token)
      /\ i.op = "LoanReborrow" => L.held[i.at.permission].loan = i.parent
      /\ i.op = "LoanReborrowAuthority" => L.held[i.at.permission].loan # NoLoan
  BY <1>1 DEF Allowed, HeldBy
<1>b. L.held[i.at.permission].loan # NoLoan \/ L.held[i.at.permission].loan \in LoanIds
  BY <1>6 DEF Fits
<1>c. PICK p, h : p = L.held[i.at.permission].loan /\ h = L.held[i.at.permission].token OBVIOUS
<1>d. p \in LoanIds /\ L.held[i.at.permission] # Nothing BY <1>2, <1>b, <1>c, UsedValue
<1>e. h \notin Gone(L, X) BY <1>2, <1>c, <1>d, GoneTokens
<1>7. /\ Canonical(ReborrowLoan(L.table, l, p, Whole, i.kind, t))
      /\ ReborrowAllowed(P.table, l, p, Whole, i.kind, h)
      /\ Canonical(ReborrowLoan(P.table, l, p, Whole, i.kind, t))
      /\ Reduces(ReborrowLoan(L.table, l, p, Whole, i.kind, t),
                 ReborrowLoan(P.table, l, p, Whole, i.kind, t), Gone(L, X))
  <2>1. ReborrowAllowed(L.table, l, p, Whole, i.kind, h) BY <1>6, <1>c
  <2> QED BY <2>1, <1>2, <1>3, <1>5, <1>d, <1>e, ReborrowCanonical, ReborrowReduces
<1>8. Allowed(P, i) BY <1>1, <1>6, <1>7, <1>a, <1>c DEF Allowed, HeldBy
<1>9. ASSUME NEW R \in Running, R.held[i.at.permission].loan = p,
             Canonical(ReborrowLoan(R.table, l, p, Whole, i.kind, t))
      PROVE  /\ Effect(R, i) \in Running /\ Effect(R, i).place = R.place
             /\ Effect(R, i).table = ReborrowLoan(R.table, l, p, Whole, i.kind, t)
             /\ Holds(R, t, Carrier(Heap, Whole, l, t), Effect(R, i))
  <2>1. Canonical(ReborrowLoan(R.table, i.loan, R.held[i.at.permission].loan, Whole, i.kind, i.new.permission))
    BY <1>1, <1>9
  <2>2. i.new.permission \in Names /\ Carrier(Heap, Whole, i.loan, i.new.permission) \in Value
    BY <1>1, <1>2, <1>5
  <2>3. /\ Effect(R, i) \in Running /\ Effect(R, i).place = R.place
        /\ Effect(R, i).table = ReborrowLoan(R.table, i.loan, R.held[i.at.permission].loan, Whole, i.kind, i.new.permission)
        /\ Holds(R, i.new.permission, Carrier(Heap, Whole, i.loan, i.new.permission), Effect(R, i))
    BY <2>1, <2>2, EffectReborrow
  <2> QED BY <2>3, <1>1, <1>9
<1>10. PICK M, Q : M = Effect(L, i) /\ Q = Effect(P, i) OBVIOUS
<1>11. /\ M \in Running /\ M.place = L.place /\ Holds(L, t, Carrier(Heap, Whole, l, t), M)
       /\ M.table = ReborrowLoan(L.table, l, p, Whole, i.kind, t)
  BY <1>4, <1>7, <1>9, <1>10, <1>c
<1>12. /\ Q \in Running /\ Q.place = P.place /\ Holds(P, t, Carrier(Heap, Whole, l, t), Q)
       /\ Q.table = ReborrowLoan(P.table, l, p, Whole, i.kind, t)
  BY <1>4, <1>7, <1>9, <1>10, <1>a, <1>c
<1>13. Sim(M, X, Q) BY <1>2, <1>4, <1>7, <1>11, <1>12, SimPut
<1> QED BY <1>8, <1>10, <1>13

LEMMA SimAlias ==
    ASSUME NEW L, NEW B, Bases(B), Facts(L, B), NEW X, NEW P, Sim(L, X, P),
           NEW i, Fits(i, B), i.op \in {"LoanAliasShared", "LoanAliasAuthority"}, Allowed(L, i),
           i.new.permission \notin X, i.at.permission \notin X
    PROVE  Allowed(P, i) /\ Sim(Effect(L, i), X, Effect(P, i))
<1>1. PICK t : t = i.new.permission OBVIOUS
<1>2. /\ t \in Names /\ t \in Nat /\ t \notin B /\ t \notin X
      /\ i.at.permission \in Names
  BY <1>1, FitsNames DEF Fits, Creating, Defining
<1>3. t \notin Gone(L, X) /\ Canonical(L.table) /\ Canonical(P.table)
      /\ Reduces(L.table, P.table, Gone(L, X))
  BY <1>2, GoneTokens
<1>4. L \in Running /\ P \in Running /\ P.place = L.place BY DEF Sim
<1>a. P.held[i.at.permission] = L.held[i.at.permission] BY <1>2 DEF Sim
<1>6. /\ AliasAllowed(L.table, L.held[i.at.permission].loan, L.held[i.at.permission].token)
      /\ i.op = "LoanAliasShared" => L.held[i.at.permission].loan = i.loan
      /\ i.op = "LoanAliasAuthority" => L.held[i.at.permission].loan # NoLoan
  BY DEF Allowed, HeldBy
<1>b. L.held[i.at.permission].loan # NoLoan \/ L.held[i.at.permission].loan \in LoanIds
  BY <1>6 DEF Fits
<1>c. PICK p, h : p = L.held[i.at.permission].loan /\ h = L.held[i.at.permission].token OBVIOUS
<1>d. p \in LoanIds /\ L.held[i.at.permission] # Nothing BY <1>2, <1>b, <1>c, UsedValue
<1>e. h \notin Gone(L, X) BY <1>2, <1>c, <1>d, GoneTokens
<1>5. Carrier(Heap, Whole, p, t) \in Value BY <1>2, <1>d, ValueParts
<1>f. IsFiniteSet(L.table[p].authorities) BY <1>d, FactsFinite
<1>7. /\ Canonical(AliasLoan(L.table, p, t))
      /\ AliasAllowed(P.table, p, h)
      /\ Canonical(AliasLoan(P.table, p, t))
      /\ Reduces(AliasLoan(L.table, p, t), AliasLoan(P.table, p, t), Gone(L, X))
  <2>1. AliasAllowed(L.table, p, h) BY <1>6, <1>c
  <2> QED BY <2>1, <1>2, <1>3, <1>d, <1>e, <1>f, AliasCanonical, AliasReduces
<1>8. Allowed(P, i) BY <1>1, <1>6, <1>7, <1>a, <1>c DEF Allowed, HeldBy
<1>9. ASSUME NEW R \in Running, R.held[i.at.permission].loan = p, Canonical(AliasLoan(R.table, p, t))
      PROVE  /\ Effect(R, i) \in Running /\ Effect(R, i).place = R.place
             /\ Effect(R, i).table = AliasLoan(R.table, p, t)
             /\ Holds(R, t, Carrier(Heap, Whole, p, t), Effect(R, i))
  <2>1. Canonical(AliasLoan(R.table, R.held[i.at.permission].loan, i.new.permission)) BY <1>1, <1>9
  <2>2. i.new.permission \in Names /\ Carrier(Heap, Whole, R.held[i.at.permission].loan, i.new.permission) \in Value
    BY <1>1, <1>2, <1>5, <1>9
  <2>3. /\ Effect(R, i) \in Running /\ Effect(R, i).place = R.place
        /\ Effect(R, i).table = AliasLoan(R.table, R.held[i.at.permission].loan, i.new.permission)
        /\ Holds(R, i.new.permission, Carrier(Heap, Whole, R.held[i.at.permission].loan, i.new.permission), Effect(R, i))
    BY <2>1, <2>2, EffectAlias
  <2> QED BY <2>3, <1>1, <1>9
<1>10. PICK M, Q : M = Effect(L, i) /\ Q = Effect(P, i) OBVIOUS
<1>11. /\ M \in Running /\ M.place = L.place /\ Holds(L, t, Carrier(Heap, Whole, p, t), M)
       /\ M.table = AliasLoan(L.table, p, t)
  BY <1>4, <1>7, <1>9, <1>10, <1>c
<1>12. /\ Q \in Running /\ Q.place = P.place /\ Holds(P, t, Carrier(Heap, Whole, p, t), Q)
       /\ Q.table = AliasLoan(P.table, p, t)
  BY <1>4, <1>7, <1>9, <1>10, <1>a, <1>c
<1>13. Sim(M, X, Q) BY <1>2, <1>4, <1>7, <1>11, <1>12, SimPut
<1> QED BY <1>8, <1>10, <1>13

\* An access, a call or a store uses a reference that has not ended.
LEMMA SimAccess ==
    ASSUME NEW L, NEW B, Facts(L, B), NEW X, NEW P, Sim(L, X, P),
           NEW i \in Instruction, i.op \in {"Access", "Call", "ResourceInitialize"}, Allowed(L, i),
           i.at.permission \notin X
    PROVE  Allowed(P, i) /\ L.held[i.at.permission] # Nothing
<1>1. i.at.permission \in Names BY FitsNames
<1>2. PICK v : v = L.held[i.at.permission] OBVIOUS
<1>3. P.held[i.at.permission] = v BY <1>1, <1>2 DEF Sim
<1>4. v.loan # NoLoan BY <1>2 DEF Allowed, HeldBy
<1>5. v # Nothing /\ v.loan \in LoanIds BY <1>1, <1>2, <1>4, UsedValue
<1>6. v.token \notin Gone(L, X) /\ Canonical(L.table) /\ Canonical(P.table)
      /\ Reduces(L.table, P.table, Gone(L, X))
  BY <1>1, <1>2, <1>5, GoneTokens
<1>7. \A a : CheckAccess(L.table, v, Whole, a) =>
         CheckAccess(P.table, v, Whole, a) /\ P.table[v.loan].kind = L.table[v.loan].kind
  BY <1>5, <1>6, AccessReduced
<1>8. CASE i.op = "Access"
  <2>1. CheckAccess(L.table, v, Whole, UseOf(i.kind)) BY <1>2, <1>8 DEF Allowed, HeldBy
  <2> QED BY <2>1, <1>3, <1>4, <1>7, <1>8, <1>2, <1>5 DEF Allowed, HeldBy
<1>9. CASE i.op = "Call"
  <2>1. CheckAccess(L.table, v, Whole, "Write") BY <1>2, <1>9 DEF Allowed, HeldBy
  <2> QED BY <2>1, <1>3, <1>4, <1>7, <1>9, <1>2, <1>5 DEF Allowed, HeldBy
<1>10. CASE i.op = "ResourceInitialize"
  <2>1. PICK a : a = IF L.table[v.loan].kind = "Shared" THEN "Read" ELSE "Move" OBVIOUS
  <2>2. CheckAccess(L.table, v, Whole, a) BY <1>2, <1>10, <2>1 DEF Allowed, HeldBy
  <2>3. CheckAccess(P.table, v, Whole, a) /\ a = IF P.table[v.loan].kind = "Shared" THEN "Read" ELSE "Move"
    BY <2>1, <2>2, <1>7
  <2> QED BY <2>3, <1>3, <1>4, <1>10, <1>2, <1>5 DEF Allowed, HeldBy
<1> QED BY <1>8, <1>9, <1>10

LEMMA SimUse ==
    ASSUME NEW L, NEW B, Bases(B), Facts(L, B), NEW X, NEW P, Sim(L, X, P),
           NEW i, Fits(i, B), Allowed(L, i), i.at.permission \notin X, i.new.permission \notin X,
           i.op \in {"Access", "OwnerWrite", "Call", "ResourceInitialize", "ResourceTake"}
    PROVE  Allowed(P, i) /\ Sim(Effect(L, i), X, Effect(P, i))
<1>1. i \in Instruction /\ i.at.permission \in Names /\ i.new.permission \in Names
  BY FitsNames DEF Fits
<1>2. /\ L \in Running /\ P \in Running /\ P.place = L.place /\ X \subseteq Names
      /\ P.held[i.at.permission] = L.held[i.at.permission]
      /\ \A q \in Names \ X : P.held[q] = L.held[q]
      /\ Reduces(L.table, P.table, Gone(L, X)) /\ Canonical(L.table) /\ Canonical(P.table)
  BY <1>1, GoneTokens DEF Sim
<1>3. PICK M, Q : M = Effect(L, i) /\ Q = Effect(P, i) OBVIOUS
<1>4. CASE i.op \in {"Access", "OwnerWrite"}
  <2>1. M = L /\ Q = P BY <1>3, <1>4, EffectUse
  <2>2. i.op = "OwnerWrite" => Allowed(P, i)
    <3> SUFFICES ASSUME i.op = "OwnerWrite" PROVE Allowed(P, i) OBVIOUS
    <3>1. OwnerAccess(L.table, Nothing, Whole, "Write") BY DEF Allowed
    <3>2. OwnerAccess(P.table, Nothing, Whole, "Write") BY <3>1, <1>2, OwnerReduced
    <3> QED BY <3>2 DEF Allowed
  <2>3. i.op = "Access" => Allowed(P, i) BY <1>1, SimAccess
  <2> QED BY <2>1, <2>2, <2>3, <1>3, <1>4
<1>5. CASE i.op = "Call"
  <2>1. Allowed(P, i) BY <1>1, <1>5, SimAccess
  <2>2. /\ M \in Running /\ M.table = L.table /\ M.place = L.place
        /\ \A u \in Names : M.held[u] =
              IF u = i.new.permission THEN L.held[i.at.permission]
              ELSE IF u = i.at.permission THEN Nothing ELSE L.held[u]
    BY <1>1, <1>2, <1>3, <1>5, EffectCall
  <2>3. /\ Q \in Running /\ Q.table = P.table /\ Q.place = P.place
        /\ \A u \in Names : Q.held[u] =
              IF u = i.new.permission THEN P.held[i.at.permission]
              ELSE IF u = i.at.permission THEN Nothing ELSE P.held[u]
    BY <1>1, <1>2, <1>3, <1>5, EffectCall
  <2>4. \A q \in X : M.held[q] = L.held[q] /\ Q.held[q] = P.held[q] BY <1>2, <2>2, <2>3
  <2>5. \A q \in Names \ X : Q.held[q] = M.held[q] BY <1>2, <2>2, <2>3
  <2>6. Sim(M, X, Q) BY <1>2, <2>2, <2>3, <2>4, <2>5, SimSame
  <2> QED BY <2>1, <2>6, <1>3
<1>6. CASE i.op = "ResourceInitialize"
  <2>1. Allowed(P, i) BY <1>1, <1>6, SimAccess
  <2>2. /\ M \in Running /\ M.table = L.table /\ M.place = L.held[i.at.permission]
        /\ Holds(L, i.at.permission, Nothing, M)
    BY <1>1, <1>2, <1>3, <1>6, EffectStore
  <2>3. /\ Q \in Running /\ Q.table = P.table /\ Q.place = P.held[i.at.permission]
        /\ Holds(P, i.at.permission, Nothing, Q)
    BY <1>1, <1>2, <1>3, <1>6, EffectStore
  <2>4. Sim(M, X, Q) BY <1>2, <2>2, <2>3, SimPut
  <2> QED BY <2>1, <2>4, <1>3
<1>7. CASE i.op = "ResourceTake"
  <2>1. Allowed(P, i) BY <1>2, <1>7 DEF Allowed
  <2>2. /\ M \in Running /\ M.table = L.table /\ M.place = Nothing
        /\ Holds(L, i.new.permission, L.place, M)
    BY <1>1, <1>2, <1>3, <1>7, EffectTake
  <2>3. /\ Q \in Running /\ Q.table = P.table /\ Q.place = Nothing
        /\ Holds(P, i.new.permission, L.place, Q)
    BY <1>1, <1>2, <1>3, <1>7, EffectTake
  <2>4. Sim(M, X, Q) BY <1>2, <2>2, <2>3, SimPut
  <2> QED BY <2>1, <2>4, <1>3
<1> QED BY <1>4, <1>5, <1>6, <1>7

\* The stored reference ends in both.
LEMMA SimDrop ==
    ASSUME NEW L, NEW B, Facts(L, B), NEW X, NEW P, Sim(L, X, P),
           NEW i, i.op = "ObjectDrop", Allowed(L, i), Allowed(P, i)
    PROVE  Sim(Effect(L, i), X, Effect(P, i))
<1>1. /\ L \in Running /\ P \in Running /\ P.place = L.place /\ X \subseteq Names
      /\ \A q \in Names \ X : P.held[q] = L.held[q]
      /\ Reduces(L.table, P.table, Gone(L, X)) /\ Canonical(L.table) /\ Canonical(P.table)
  BY GoneTokens DEF Sim
<1>2. PICK M, Q : M = Effect(L, i) /\ Q = Effect(P, i) OBVIOUS
<1>3. PICK l, h : l = L.place.loan /\ h = L.place.token OBVIOUS
<1>4. L.place # Nothing /\ EndStoredAllowed(L.table, l, h) /\ EndStoredAllowed(P.table, l, h)
  BY <1>1, <1>3 DEF Allowed
<1>5. l \in LoanIds BY <1>3, <1>4, FactsRunning, ValueParts
<1>6. /\ Canonical(EndLoan(L.table, l, h)) /\ Canonical(EndLoan(P.table, l, h))
      /\ Reduces(EndLoan(L.table, l, h), EndLoan(P.table, l, h), Gone(L, X))
  BY <1>1, <1>4, <1>5, EndBoth, EndCanonical
<1>7. /\ M \in Running /\ M.table = EndLoan(L.table, l, h)
      /\ M.place = Nothing /\ \A q \in Names : M.held[q] = L.held[q]
  <2>1. Canonical(EndLoan(L.table, L.place.loan, L.place.token)) BY <1>3, <1>6
  <2>2. /\ M \in Running /\ M.table = EndLoan(L.table, L.place.loan, L.place.token)
        /\ M.place = Nothing /\ \A q \in Names : M.held[q] = L.held[q]
    BY <2>1, <1>1, <1>2, EffectDrop
  <2> QED BY <2>2, <1>3
<1>8. /\ Q \in Running /\ Q.table = EndLoan(P.table, l, h)
      /\ Q.place = Nothing /\ \A q \in Names : Q.held[q] = P.held[q]
  <2>1. Canonical(EndLoan(P.table, P.place.loan, P.place.token)) BY <1>1, <1>3, <1>6
  <2>2. /\ Q \in Running /\ Q.table = EndLoan(P.table, P.place.loan, P.place.token)
        /\ Q.place = Nothing /\ \A q \in Names : Q.held[q] = P.held[q]
    BY <2>1, <1>1, <1>2, EffectDrop
  <2> QED BY <2>2, <1>1, <1>3
<1>9. \A q \in X : M.held[q] = L.held[q] /\ Q.held[q] = P.held[q] BY <1>1, <1>7, <1>8
<1>10. \A q \in Names \ X : Q.held[q] = M.held[q] BY <1>1, <1>7, <1>8
<1>11. Sim(M, X, Q) BY <1>6, <1>7, <1>8, <1>9, <1>10, SimSame
<1> QED BY <1>2, <1>11

\* A named end.
LEMMA EndParts ==
    ASSUME NEW R \in Running, NEW i \in Instruction, i.op \in Pending, Allowed(R, i),
           i.op = "LoanEnd" => i.loan \in LoanIds
    PROVE  LET v == R.held[i.at.permission] IN
           /\ v \in Value /\ v # Nothing /\ v.loan \in LoanIds /\ i.at.permission \in Names
           /\ EndAllowed(R.table, v.loan, v.token) \/ EndStoredAllowed(R.table, v.loan, v.token)
           /\ Effect(R, i) \in Running /\ Effect(R, i).table = EndLoan(R.table, v.loan, v.token)
           /\ Effect(R, i).place = R.place
           /\ Holds(R, i.at.permission, Nothing, Effect(R, i))
<1>1. i.at.permission \in Names BY FitsNames
<1>2. R.held[i.at.permission] \in Value /\ Canonical(R.table) BY <1>1, RunningParts
<1>3. /\ i.op = "LoanEnd" => R.held[i.at.permission].loan = i.loan
            /\ EndAllowed(R.table, R.held[i.at.permission].loan, R.held[i.at.permission].token)
      /\ i.op = "LoanEndAuthority" => R.held[i.at.permission].loan # NoLoan
            /\ EndStoredAllowed(R.table, R.held[i.at.permission].loan, R.held[i.at.permission].token)
  BY DEF Allowed, HeldBy
<1>4. R.held[i.at.permission] # Nothing /\ R.held[i.at.permission].loan \in LoanIds
  BY <1>2, <1>3, ValueParts, LoanTableAssumption DEF Pending
<1>5. \/ EndAllowed(R.table, R.held[i.at.permission].loan, R.held[i.at.permission].token)
      \/ EndStoredAllowed(R.table, R.held[i.at.permission].loan, R.held[i.at.permission].token)
  BY <1>3 DEF Pending
<1>6. Canonical(EndLoan(R.table, R.held[i.at.permission].loan, R.held[i.at.permission].token))
  <2>1. PICK l, h, T : /\ l = R.held[i.at.permission].loan /\ h = R.held[i.at.permission].token
                       /\ T = R.table OBVIOUS
  <2>2. Canonical(T) /\ l \in LoanIds /\ (EndAllowed(T, l, h) \/ EndStoredAllowed(T, l, h))
    BY <2>1, <1>2, <1>4, <1>5
  <2>3. Canonical(EndLoan(T, l, h))
    <3> HIDE <2>1
    <3> QED BY <2>2, EndCanonical
  <2> QED BY <2>1, <2>3
<1>7. /\ Effect(R, i) \in Running
      /\ Effect(R, i).table = EndLoan(R.table, R.held[i.at.permission].loan, R.held[i.at.permission].token)
      /\ Effect(R, i).place = R.place /\ Holds(R, i.at.permission, Nothing, Effect(R, i))
  BY <1>1, <1>6, EffectEnd
<1> QED BY <1>1, <1>2, <1>4, <1>5, <1>7

\* The reference ends early.
LEMMA SimEarly ==
    ASSUME NEW L, NEW B, Facts(L, B), NEW X, NEW P, Sim(L, X, P),
           NEW i \in Instruction, i.op \in Pending, Allowed(P, i), i.op = "LoanEnd" => i.loan \in LoanIds
    PROVE  /\ i.at.permission \notin X
           /\ Sim(L, X \cup {i.at.permission}, Effect(P, i))
<1>1. PICK p : p = i.at.permission OBVIOUS
<1>2. PICK Q : Q = Effect(P, i) OBVIOUS
<1>3. PICK l, h : l = P.held[p].loan /\ h = P.held[p].token OBVIOUS
<1>4. P \in Running /\ L \in Running /\ X \subseteq Names BY DEF Sim
<1>5. /\ P.held[p] # Nothing /\ l \in LoanIds /\ p \in Names
      /\ EndAllowed(P.table, l, h) \/ EndStoredAllowed(P.table, l, h)
      /\ Q \in Running /\ Q.table = EndLoan(P.table, l, h) /\ Q.place = P.place
      /\ Holds(P, p, Nothing, Q)
  <2>1. LET v == P.held[i.at.permission] IN
           /\ v \in Value /\ v # Nothing /\ v.loan \in LoanIds /\ i.at.permission \in Names
           /\ EndAllowed(P.table, v.loan, v.token) \/ EndStoredAllowed(P.table, v.loan, v.token)
           /\ Effect(P, i) \in Running /\ Effect(P, i).table = EndLoan(P.table, v.loan, v.token)
           /\ Effect(P, i).place = P.place
           /\ Holds(P, i.at.permission, Nothing, Effect(P, i))
    BY <1>4, EndParts
  <2> QED BY <2>1, <1>1, <1>2, <1>3
<1>6. p \notin X /\ L.held[p] = P.held[p] BY <1>5 DEF Sim
<1>7. Gone(L, X \cup {p}) = Gone(L, X) \cup {h} BY <1>3, <1>6 DEF Gone
<1>8. Canonical(P.table) /\ Reduces(L.table, P.table, Gone(L, X)) /\ TokensApart(L.table)
  BY GoneTokens DEF Facts
<1>9. Reduces(L.table, Q.table, Gone(L, X) \cup {h}) BY <1>5, <1>8, EndReduced
<1>10. \A q \in Names : Q.held[q] = IF q \in X \cup {p} THEN Nothing ELSE L.held[q]
  BY <1>5 DEF Sim, Holds
<1>11. /\ \A q \in X \cup {p} : L.held[q] # Nothing
       /\ X \cup {p} \subseteq Names /\ Q.place = L.place
  BY <1>4, <1>5, <1>6 DEF Sim
<1>12. Sim(L, X \cup {p}, Q) BY <1>4, <1>5, <1>7, <1>9, <1>10, <1>11 DEF Sim
<1> QED BY <1>1, <1>2, <1>6, <1>12

\* A reference that has ended early ends.
LEMMA SimLate ==
    ASSUME NEW L, NEW B, Facts(L, B), NEW X, NEW P, Sim(L, X, P),
           NEW i \in Instruction, i.op \in Pending, Allowed(L, i), i.op = "LoanEnd" => i.loan \in LoanIds,
           i.at.permission \in X
    PROVE  Sim(Effect(L, i), X \ {i.at.permission}, P)
<1>1. PICK p : p = i.at.permission OBVIOUS
<1>2. PICK M : M = Effect(L, i) OBVIOUS
<1>3. PICK l, h : l = L.held[p].loan /\ h = L.held[p].token OBVIOUS
<1>4. P \in Running /\ L \in Running /\ X \subseteq Names /\ p \in X BY <1>1 DEF Sim
<1>5. /\ L.held[p] # Nothing /\ l \in LoanIds /\ p \in Names
      /\ EndAllowed(L.table, l, h) \/ EndStoredAllowed(L.table, l, h)
      /\ M \in Running /\ M.table = EndLoan(L.table, l, h) /\ M.place = L.place
      /\ Holds(L, p, Nothing, M)
  <2>1. LET v == L.held[i.at.permission] IN
           /\ v \in Value /\ v # Nothing /\ v.loan \in LoanIds /\ i.at.permission \in Names
           /\ EndAllowed(L.table, v.loan, v.token) \/ EndStoredAllowed(L.table, v.loan, v.token)
           /\ Effect(L, i) \in Running /\ Effect(L, i).table = EndLoan(L.table, v.loan, v.token)
           /\ Effect(L, i).place = L.place
           /\ Holds(L, i.at.permission, Nothing, Effect(L, i))
    BY <1>4, EndParts
  <2> QED BY <2>1, <1>1, <1>2, <1>3
<1>6. \A q \in X \ {p} : M.held[q] = L.held[q] /\ L.held[q] # Nothing /\ L.held[q].token # h
  <2>1. \A q \in X : q \in Names /\ L.held[q] # Nothing BY DEF Sim
  <2> QED BY <2>1, <1>3, <1>4, <1>5 DEF Facts, Holds
<1>7. Gone(M, X \ {p}) = Gone(L, X) \ {h} /\ h \in Gone(L, X)
  <2>1. h \in Gone(L, X) BY <1>3, <1>4 DEF Gone
  <2>2. Gone(M, X \ {p}) \subseteq Gone(L, X) \ {h} BY <1>6 DEF Gone
  <2>3. ASSUME NEW t \in Gone(L, X), t # h PROVE t \in Gone(M, X \ {p})
    <3>1. PICK q \in X : t = L.held[q].token BY DEF Gone
    <3>2. q # p BY <3>1, <2>3, <1>3
    <3> QED BY <3>1, <3>2, <1>6 DEF Gone
  <2> QED BY <2>1, <2>2, <2>3
<1>8. Canonical(L.table) /\ Reduces(L.table, P.table, Gone(L, X)) /\ TokensApart(L.table)
  BY GoneTokens DEF Facts
<1>9. Reduces(M.table, P.table, Gone(L, X) \ {h}) BY <1>5, <1>7, <1>8, EndAbsorbed
<1>10. \A q \in Names : P.held[q] = IF q \in X \ {p} THEN Nothing ELSE M.held[q]
  BY <1>4, <1>5 DEF Sim, Holds
<1>11. /\ \A q \in X \ {p} : M.held[q] # Nothing
       /\ X \ {p} \subseteq Names /\ P.place = M.place
  BY <1>4, <1>5, <1>6 DEF Sim
<1>12. Sim(M, X \ {p}, P) BY <1>4, <1>5, <1>7, <1>9, <1>10, <1>11 DEF Sim
<1> QED BY <1>1, <1>2, <1>12

\* No reference is missing any more.
LEMMA SimDone ==
    ASSUME NEW L, NEW P, Sim(L, {}, P)
    PROVE  P.table = L.table
<1>1. Gone(L, {}) = {} BY DEF Gone
<1>2. Canonical(L.table) /\ Canonical(P.table) /\ Reduces(L.table, P.table, {})
  BY <1>1 DEF Sim, Running
<1> QED BY <1>2, CanonicalSame

\* An instruction that ends nothing.
LEMMA SimStep ==
    ASSUME IsFiniteSet(LoanIds), NEW L, NEW B, Bases(B), Facts(L, B), NEW X, NEW P, Sim(L, X, P),
           NEW i, Fits(i, B), Allowed(L, i), i.at.permission \notin X, i.new.permission \notin X,
           i.op \notin Pending, i.op = "ObjectDrop" => Allowed(P, i)
    PROVE  Allowed(P, i) /\ Sim(Effect(L, i), X, Effect(P, i))
<1>1. i.op \in Op BY FitsNames DEF Fits
<1>2. CASE i.op = "LoanBegin" BY <1>2, SimBegin
<1>3. CASE i.op \in {"LoanReborrow", "LoanReborrowAuthority"} BY <1>3, SimReborrow
<1>4. CASE i.op \in {"LoanAliasShared", "LoanAliasAuthority"} BY <1>4, SimAlias
<1>5. CASE i.op \in {"Access", "OwnerWrite", "Call", "ResourceInitialize", "ResourceTake"} BY <1>5, SimUse
<1>6. CASE i.op = "ObjectDrop" BY <1>6, SimDrop
<1> QED BY <1>1, <1>2, <1>3, <1>4, <1>5, <1>6 DEF Op, Pending

-----------------------------------------------------------------------------
(* The block as it was lowered. *)

\* The names that are older than every definition behind n.
Before(d, n) ==
    {x \in Names \ {NoName} :
        \A m \in DOMAIN d : n < m /\ d[m].op \in Defining => x < d[m].new.permission}

\* Each instruction fits the run up to it; each end ends a name of its own.
Block(d) ==
    /\ d \in Seq(Instruction)
    /\ \A n \in DOMAIN d : Fits(d[n], Before(d, n - 1)) /\ More(d[n], Before(d, n - 1)) \subseteq Before(d, n)
    /\ \A e \in Ends(d) : d[e].at.permission # NoName /\ (d[e].op = "LoanEnd" => d[e].loan \in LoanIds)
    /\ \A m, n \in Ends(d) : d[m].at.permission = d[n].at.permission => m = n
    /\ \A n \in Retained(d), e \in Ends(d) :
          n \notin Definers(d, e) \cup Users(d, e) =>
             d[n].at.permission # d[e].at.permission /\ d[n].new.permission # d[e].at.permission

LEMMA BlockHolds ==
    ASSUME LowerInv, NameInv, FreshInv
    PROVE  Block(draft)
<1>d. PICK d, f : d = draft /\ f = fresh OBVIOUS
<1>1. /\ d \in Seq(Instruction) /\ f \in Nat /\ \A m \in DOMAIN d : GoodInstruction(d[m], f)
      /\ LoanNumbers(entry, d, nextLoan) /\ StaticNames(d, env) /\ FreshNames(entry, d, f)
  BY <1>d, NamesType DEF LowerInv, LowerPart, NameInv, NamePart, FreshInv
<1>2. DOMAIN d = 1 .. Len(d) /\ Len(d) \in Nat BY <1>1, Positions
<1>3. \A m \in DOMAIN d : d[m] \in Instruction /\ d[m].new.permission \in Names /\ d[m].new.permission \in Nat
  <2>1. \A m \in DOMAIN d : d[m] \in Instruction BY <1>1
  <2> QED BY <2>1, FitsNames
<1>4. ASSUME NEW n \in DOMAIN d
      PROVE  Fits(d[n], Before(d, n - 1)) /\ More(d[n], Before(d, n - 1)) \subseteq Before(d, n)
  <2>1. PICK i, x : i = d[n] /\ x = d[n].new.permission OBVIOUS
  <2>2. i \in Instruction /\ x \in Names /\ x \in Nat /\ GoodInstruction(i, f) /\ n - 1 < n /\ n \in Nat
    BY <1>1, <1>2, <1>3, <2>1
  <2>3. i.op \in Defining => x \in 1 .. f BY <2>1, <2>2 DEF GoodInstruction
  <2>4. i.op \in Defining => x # NoName BY <2>3 DEF NoName
  <2>5. i.op \in Defining => x \notin Before(d, n - 1)
    <3>1. ASSUME i.op \in Defining, x \in Before(d, n - 1) PROVE FALSE
      <4>1. x < x BY <2>1, <2>2, <3>1 DEF Before
      <4> QED BY <4>1, <2>2
    <3> QED BY <3>1
  <2>6. i.op \in Creating => i.loan \in LoanIds BY <1>1, <2>1 DEF LoanNumbers
  <2>7. Fits(i, Before(d, n - 1)) BY <2>1, <2>2, <2>4, <2>5, <2>6 DEF Fits, GoodInstruction
  <2>8. ASSUME NEW y \in Before(d, n - 1) PROVE y \in Before(d, n)
    <3>1. \A m \in DOMAIN d : n < m => n - 1 < m BY <1>2
    <3> QED BY <3>1 DEF Before
  <2>9. i.op \in Defining => x \in Before(d, n)
    <3> SUFFICES ASSUME i.op \in Defining PROVE x \in Before(d, n) OBVIOUS
    <3>1. \A m \in DOMAIN d : n < m /\ d[m].op \in Defining => x < d[m].new.permission
      BY <1>1, <2>1 DEF FreshNames
    <3> QED BY <3>1, <2>2, <2>4 DEF Before
  <2> QED BY <2>1, <2>7, <2>8, <2>9 DEF More
<1>5. \A e \in Ends(d) : d[e].at.permission # NoName /\ (d[e].op = "LoanEnd" => d[e].loan \in LoanIds)
  BY <1>1 DEF Ends, GoodInstruction
<1>6. \A m, n \in Ends(d) : d[m].at.permission = d[n].at.permission => m = n BY <1>1 DEF StaticNames
<1>7. ASSUME NEW n \in Retained(d), NEW e \in Ends(d), n \notin Definers(d, e) \cup Users(d, e)
      PROVE  d[n].at.permission # d[e].at.permission /\ d[n].new.permission # d[e].at.permission
  <2>1. n \in DOMAIN d /\ d[e].at.permission # NoName BY <1>5 DEF Retained
  <2>2. d[e].at.permission \in NamesOf(d[e].at) BY <2>1 DEF NamesOf
  <2>3. d[n].at.permission # d[e].at.permission
    <3>1. ASSUME d[n].at.permission = d[e].at.permission PROVE FALSE
      <4>1. d[n].at.permission \in NamesOf(d[n].at) BY <3>1, <2>1 DEF NamesOf
      <4> QED BY <4>1, <3>1, <2>2, <1>7 DEF Users
    <3> QED BY <3>1
  <2>4. d[n].new.permission # d[e].at.permission
    <3>1. ASSUME d[n].new.permission = d[e].at.permission PROVE FALSE
      <4>1. d[n].op \in Defining BY <3>1, <2>1, <1>1 DEF GoodInstruction, NoHolder
      <4>2. d[n].new.permission \in Results(d[n]) BY <4>1, <2>1, <1>1 DEF GoodInstruction
      <4> QED BY <4>2, <3>1, <2>2, <1>7 DEF Definers
    <3> QED BY <3>1
  <2> QED BY <2>3, <2>4
<1> QED BY <1>d, <1>1, <1>4, <1>5, <1>6, <1>7 DEF Block

LEMMA EntryTable ==
    LET T == [l \in LoanIds |-> Blank]
        M == BeginLoan(T, FirstLoan, Heap, Whole, "Mutable", 2)
    IN  /\ Canonical(T) /\ \A l \in LoanIds : T[l].authorities = {}
        /\ Canonical(M) /\ \A l \in LoanIds : M[l].authorities = IF l = FirstLoan THEN {2} ELSE {}
<1> DEFINE T == [l \in LoanIds |-> Blank]
           M == BeginLoan(T, FirstLoan, Heap, Whole, "Mutable", 2)
<1>1. \A l \in LoanIds : T[l] = Blank /\ T[l].authorities = {} /\ ~Live(T, l) BY BlankLoan DEF Live
<1>2. T \in Table /\ TableInv(T) BY BlankTable
<1>3. Canonical(T) BY <1>1, <1>2 DEF Canonical
<1>4. FirstLoan \in LoanIds /\ Heap \in Allocations /\ Whole \in Range BY FirstLoanType, HeapParts
<1>5. ~CreationConflict(T, Heap, Whole, "Mutable", {}) BY <1>1 DEF CreationConflict
<1>6. M \in Table /\ TableInv(M) BY <1>1, <1>2, <1>4, <1>5, FirstLoanInv DEF Kind
<1>7. M[FirstLoan] = NewLoan(Heap, Whole, "Mutable", NoLoan, 2)
      /\ \A m \in LoanIds : m # FirstLoan => M[m] = T[m]
  BY <1>2, <1>4 DEF BeginLoan, Table
<1>8. Live(M, FirstLoan) BY <1>7 DEF Live, NewLoan
<1>9. \A m \in LoanIds : ~Live(M, m) => M[m] = Blank BY <1>1, <1>7, <1>8 DEF Live
<1>10. Canonical(M) BY <1>6, <1>9 DEF Canonical
<1>11. \A l \in LoanIds : M[l].authorities = IF l = FirstLoan THEN {2} ELSE {} BY <1>1, <1>7 DEF NewLoan
<1> QED BY <1>1, <1>3, <1>10, <1>11

LEMMA EntryFacts ==
    ASSUME LowerInv, FreshInv
    PROVE  Facts(EntryRun, Before(draft, 0))
<1>1. 2 \in Before(draft, 0)
  <2>1. 2 \in Names \ {NoName} BY NamesType DEF NoName
  <2>2. \A m \in DOMAIN draft : draft[m].op \in Defining => 2 < draft[m].new.permission
    BY DEF FreshInv, FreshNames
  <2> QED BY <2>1, <2>2 DEF Before
<1>2. PICK R, B : R = EntryRun /\ B = Before(draft, 0) OBVIOUS
<1>3. 2 \in B BY <1>1, <1>2
<1>4. FirstLoan \in LoanIds BY FirstLoanType
<1>5. Nothing \in Value /\ Nothing.loan = NoLoan BY ValueParts
<1>6. CASE entry = "Nothing"
  <2>1. PICK T : T = [l \in LoanIds |-> Blank] OBVIOUS
  <2>2. Canonical(T) /\ \A l \in LoanIds : T[l].authorities = {} BY <2>1, EntryTable
  <2>3. T \in Table BY <2>2 DEF Canonical
  <2>4. /\ EntryRun \in States /\ EntryRun.table = T /\ EntryRun.place = Nothing
        /\ \A x \in Names : EntryRun.held[x] = Nothing
    BY <1>5, <1>6, <2>1, <2>3 DEF EntryRun, States
  <2>5. R \in Running BY <1>2, <2>2, <2>4 DEF Running
  <2>6. TokensApart(R.table) /\ \A l \in LoanIds : R.table[l].authorities \subseteq B
    BY <1>2, <2>2, <2>4 DEF TokensApart
  <2>7. Facts(R, B) BY <1>2, <2>4, <2>5, <2>6 DEF Facts
  <2> QED BY <2>7, <1>2
<1>7. CASE entry # "Nothing"
  <2>1. PICK M : M = BeginLoan([l \in LoanIds |-> Blank], FirstLoan, Heap, Whole, "Mutable", 2) OBVIOUS
  <2>2. PICK v : v = Carrier(Heap, Whole, FirstLoan, 2) OBVIOUS
  <2>3. Canonical(M) /\ \A l \in LoanIds : M[l].authorities = IF l = FirstLoan THEN {2} ELSE {}
    BY <2>1, EntryTable
  <2>4. v \in Value /\ v # Nothing /\ v.loan = FirstLoan /\ v.token = 2 BY <2>2, <1>4, ValueParts
  <2>5. M \in Table BY <2>3 DEF Canonical
  <2>6. /\ EntryRun \in States /\ EntryRun.table = M /\ EntryRun.place = Nothing
        /\ \A x \in Names : EntryRun.held[x] = IF x = 2 THEN v ELSE Nothing
    BY <1>5, <1>7, <2>1, <2>2, <2>4, <2>5 DEF EntryRun, States
  <2>7. R \in Running BY <1>2, <2>3, <2>6 DEF Running
  <2>8. TokensApart(R.table) /\ \A l \in LoanIds : R.table[l].authorities \subseteq B
    BY <1>2, <1>3, <2>3, <2>6 DEF TokensApart
  <2>9. \A p \in Names : R.held[p] # Nothing =>
          p \in B /\ R.held[p].token \in R.table[R.held[p].loan].authorities
    BY <1>2, <1>3, <1>4, <2>3, <2>4, <2>6
  <2>10. \A p, q \in Names : R.held[p] # Nothing /\ R.held[q] # Nothing => p = q
    BY <1>2, <2>6
  <2>11. R.place = Nothing BY <1>2, <2>6
  <2>12. Facts(R, B) BY <2>7, <2>8, <2>9, <2>10, <2>11 DEF Facts
  <2> QED BY <2>12, <1>2
<1> QED BY <1>6, <1>7

\* A is the run of d, and nothing in it is refused.
Accepted(d, A) ==
    \A n \in DOMAIN d : Allowed(A[n - 1], d[n]) /\ A[n] = Effect(A[n - 1], d[n])

LEMMA RefusedStays ==
    ASSUME NEW R, NEW i, R.refused
    PROVE  Step(R, i) = R
BY DEF Step

\* What is not refused in the end was never refused.
LEMMA RefusedNever ==
    ASSUME NEW N \in Nat, NEW A, NEW a,
           \A k \in 1 .. N : A[k] = Step(A[k - 1], a[k]), ~A[N].refused
    PROVE  \A k \in 0 .. N : ~A[k].refused
<1> DEFINE Bad == {e \in Nat : e <= N /\ A[N - e].refused}
<1>1. SUFFICES ASSUME NEW k \in 0 .. N, A[k].refused PROVE FALSE OBVIOUS
<1>2. N - k \in Nat /\ N - (N - k) = k /\ N - k <= N OBVIOUS
<1>3. N - k \in Bad BY <1>1, <1>2
<1>4. PICK e \in Bad : \A y \in Bad : e <= y
  <2>1. Bad \subseteq Nat OBVIOUS
  <2> HIDE DEF Bad
  <2> QED BY <1>3, <2>1, LeastElement
<1>5. e \in Nat /\ e <= N /\ A[N - e].refused OBVIOUS
<1>6. CASE e = 0 BY <1>5, <1>6
<1>7. CASE e # 0
  <2>1. PICK m : m = N - e + 1 OBVIOUS
  <2>2. m \in 1 .. N /\ m - 1 = N - e /\ N - (e - 1) = m /\ e - 1 \in Nat /\ e - 1 <= N
    BY <2>1, <1>5, <1>7
  <2>3. A[m] = Step(A[m - 1], a[m]) BY <2>2
  <2>4. A[m - 1].refused BY <2>2, <1>5
  <2>5. A[m] = A[m - 1] BY <2>3, <2>4, RefusedStays
  <2>6. A[m].refused BY <2>4, <2>5
  <2>7. A[N - (e - 1)].refused BY <2>2, <2>6
  <2>8. e - 1 \in Bad BY <2>2, <2>7
  <2> QED BY <2>8, <1>4, <1>5
<1> QED BY <1>6, <1>7

LEMMA StepParts ==
    ASSUME NEW R \in Running, NEW i
    PROVE  /\ Allowed(R, i) => Step(R, i) = Effect(R, i)
           /\ ~Allowed(R, i) => Step(R, i).refused
<1>1. R \in States /\ ~R.refused BY RunningParts
<1>2. Allowed(R, i) => Step(R, i) = Effect(R, i) BY <1>1 DEF Step
<1>3. ASSUME ~Allowed(R, i) PROVE Step(R, i).refused
  <2>1. Step(R, i) = [R EXCEPT !.refused = TRUE] BY <1>1, <1>3 DEF Step
  <2>2. [R EXCEPT !.refused = TRUE].refused BY <1>1 DEF States
  <2> QED BY <2>1, <2>2
<1> QED BY <1>2, <1>3

LEMMA LexicalFacts ==
    ASSUME NEW d, Block(d), Facts(EntryRun, Before(d, 0)), ~Lexical(d).refused
    PROVE  \E A : /\ Accepted(d, A) /\ A[0] = EntryRun /\ A[Len(d)] = Lexical(d)
                  /\ \A n \in 0 .. Len(d) : Facts(A[n], Before(d, n))
<1>1. d \in Seq(Instruction) /\ DOMAIN d = 1 .. Len(d) /\ Len(d) \in Nat BY Positions DEF Block
<1>2. PICK s : s = [k \in DOMAIN d |-> k] OBVIOUS
<1>3. Len(s) = Len(d) /\ \A k \in DOMAIN d : s[k] = k BY <1>1, <1>2
<1>4. PICK A : Trace(EntryRun, d, s, A) /\ Run(d, s) = A[Len(s)] BY <1>1, <1>3, RunTrace
<1>5. A[Len(d)] = Lexical(d) BY <1>2, <1>3, <1>4 DEF Lexical
<1>6. A[0] = EntryRun /\ \A k \in 1 .. Len(d) : A[k] = Step(A[k - 1], d[k])
  <2>1. A[0] = EntryRun /\ \A k \in 1 .. Len(s) : A[k] = Step(A[k - 1], d[s[k]])
    BY <1>1, <1>3, <1>4, TraceSteps
  <2> QED BY <2>1, <1>1, <1>3
<1>7. \A k \in 0 .. Len(d) : ~A[k].refused
  <2>1. PICK N : N = Len(d) OBVIOUS
  <2>2. N \in Nat /\ ~A[N].refused /\ \A k \in 1 .. N : A[k] = Step(A[k - 1], d[k])
    BY <1>1, <1>5, <1>6, <2>1
  <2>3. \A k \in 0 .. N : ~A[k].refused
    <3> HIDE <2>1
    <3> QED BY <2>2, RefusedNever
  <2> QED BY <2>1, <2>3
<1> DEFINE P(n) == n <= Len(d) => Facts(A[n], Before(d, n))
           Bad == {n \in Nat : ~P(n)}
<1>8. ASSUME NEW n \in DOMAIN d, Facts(A[n - 1], Before(d, n - 1))
      PROVE  Allowed(A[n - 1], d[n]) /\ A[n] = Effect(A[n - 1], d[n]) /\ Facts(A[n], Before(d, n))
  <2>1. n \in 1 .. Len(d) /\ n \in 0 .. Len(d) BY <1>1
  <2>2. A[n - 1] \in Running BY <1>8, FactsRunning
  <2>3. A[n] = Step(A[n - 1], d[n]) /\ ~A[n].refused BY <1>6, <1>7, <2>1
  <2>4. Allowed(A[n - 1], d[n]) BY <2>2, <2>3, StepParts
  <2>5. A[n] = Effect(A[n - 1], d[n]) BY <2>2, <2>3, <2>4, StepParts
  <2>6. Fits(d[n], Before(d, n - 1)) /\ More(d[n], Before(d, n - 1)) \subseteq Before(d, n) BY DEF Block
  <2>7. Bases(Before(d, n - 1)) BY DEF Bases, Before
  <2>8. Facts(Effect(A[n - 1], d[n]), More(d[n], Before(d, n - 1)))
    BY <1>8, <2>4, <2>6, <2>7, FactsStep
  <2>9. Facts(Effect(A[n - 1], d[n]), Before(d, n)) BY <2>6, <2>8, FactsMore
  <2> QED BY <2>4, <2>5, <2>9
<1>9. \A n \in Nat : P(n)
  <2> SUFFICES ASSUME Bad # {} PROVE FALSE OBVIOUS
  <2>1. PICK n \in Bad : \A y \in Bad : n <= y
    <3>1. Bad \subseteq Nat /\ \E y \in Bad : TRUE OBVIOUS
    <3> HIDE DEF Bad
    <3> QED BY <3>1, LeastElement
  <2>2. n \in Nat /\ n <= Len(d) /\ ~Facts(A[n], Before(d, n)) OBVIOUS
  <2>3. CASE n = 0 BY <2>2, <2>3, <1>6
  <2>4. CASE n # 0
    <3>1. n - 1 \in Nat /\ ~(n <= n - 1) /\ n - 1 <= Len(d) /\ n \in DOMAIN d BY <2>2, <2>4, <1>1
    <3>2. n - 1 \notin Bad BY <3>1, <2>1
    <3>3. Facts(A[n - 1], Before(d, n - 1)) BY <3>1, <3>2
    <3> QED BY <3>1, <3>3, <2>2, <1>8
  <2> QED BY <2>3, <2>4
<1>10. \A n \in 0 .. Len(d) : Facts(A[n], Before(d, n)) BY <1>9, <1>1
<1>11. Accepted(d, A)
  <2>1. \A n \in DOMAIN d : n - 1 \in 0 .. Len(d) BY <1>1
  <2> QED BY <2>1, <1>8, <1>10 DEF Accepted
<1> QED BY <1>5, <1>6, <1>10, <1>11

-----------------------------------------------------------------------------
(* The block as it was lowered and the block as planned, side by side. *)

\* s is the order of d with some ends moved up.
Moved(d, s) ==
    /\ s \in [DOMAIN d -> DOMAIN d] /\ Len(s) = Len(d)
    /\ \A n \in DOMAIN d : \E k \in DOMAIN d : s[k] = n
    /\ \A j, k \in DOMAIN d : j < k =>
          /\ s[j] # s[k]
          /\ s[j] \in Retained(d) => s[j] < s[k]
          /\ s[j] \in Ends(d) => s[k] \notin Definers(d, s[j]) \cup Users(d, s[j])

\* What the first k instructions of the plan are.
Done(s, k) == {s[q] : q \in 1 .. k}

\* The references that the first k instructions of the plan end, and the first j
\* of the draft do not.
Early(d, s, j, k) == {d[e].at.permission : e \in {m \in Ends(d) \cap Done(s, k) : j < m}}

\* The plan is ahead of the draft in ends only.
At(d, s, A, C, j, k) ==
    /\ j \in 0 .. Len(d) /\ 1 .. j \subseteq Done(s, k)
    /\ \A m \in Retained(d) \cap Done(s, k) : m <= j
    /\ Sim(A[j], Early(d, s, j, k), C[k])

\* Both runs: A of the draft, which is accepted, and C of the plan.
Runs(d, s, A, C) ==
    /\ Block(d) /\ Moved(d, s) /\ Accepted(d, A)
    /\ \A n \in 0 .. Len(d) : Facts(A[n], Before(d, n))
    /\ \A k \in 1 .. Len(d) : C[k] = Step(C[k - 1], d[s[k]])

LEMMA RunsParts ==
    ASSUME NEW d, NEW s, NEW A, NEW C, Runs(d, s, A, C)
    PROVE  /\ d \in Seq(Instruction) /\ DOMAIN d = 1 .. Len(d) /\ Len(d) \in Nat
           /\ Ends(d) \subseteq DOMAIN d /\ Retained(d) = DOMAIN d \ Ends(d)
           /\ \A n \in DOMAIN d : d[n] \in Instruction
           /\ \A e \in Ends(d) : d[e].op \in Pending /\ (d[e].op = "LoanEnd" => d[e].loan \in LoanIds)
           /\ \A m, n \in Ends(d) : d[m].at.permission = d[n].at.permission => m = n
<1>1. d \in Seq(Instruction) BY DEF Runs, Block
<1>2. DOMAIN d = 1 .. Len(d) /\ Len(d) \in Nat BY <1>1, Positions
<1>3. \A n \in DOMAIN d : d[n] \in Instruction BY <1>1
<1>4. \A e \in Ends(d) : e \in DOMAIN d /\ d[e].op \in Pending BY DEF Ends
<1>5. Retained(d) = DOMAIN d \ Ends(d) BY DEF Retained
<1>6. /\ \A e \in Ends(d) : d[e].op = "LoanEnd" => d[e].loan \in LoanIds
      /\ \A m, n \in Ends(d) : d[m].at.permission = d[n].at.permission => m = n
  BY DEF Runs, Block
<1> QED BY <1>1, <1>2, <1>3, <1>4, <1>5, <1>6

\* The draft comes to an end that the plan has behind it.
LEMMA CatchUp ==
    ASSUME NEW d, NEW s, NEW A, NEW C, Runs(d, s, A, C), NEW j, NEW k, At(d, s, A, C, j, k),
           j + 1 \in Ends(d) \cap Done(s, k)
    PROVE  At(d, s, A, C, j + 1, k)
<1>1. PICK n : n = j + 1 OBVIOUS
<1>2. PICK i, p : i = d[n] /\ p = i.at.permission OBVIOUS
<1>3. PICK X, Y : X = Early(d, s, j, k) /\ Y = Early(d, s, n, k) OBVIOUS
<1>4. /\ n \in Ends(d) /\ n \in Done(s, k) /\ j \in Nat /\ n \in DOMAIN d /\ n \in 0 .. Len(d)
      /\ j \in 0 .. Len(d) /\ n - 1 = j /\ \A m \in DOMAIN d : (j < m <=> m = n \/ n < m)
  BY <1>1, RunsParts DEF At
<1>5. i \in Instruction /\ i.op \in Pending /\ (i.op = "LoanEnd" => i.loan \in LoanIds)
  BY <1>2, <1>4, RunsParts
<1>6. Facts(A[j], Before(d, j)) /\ Allowed(A[j], i) /\ A[n] = Effect(A[j], i) /\ Sim(A[j], X, C[k])
  BY <1>2, <1>3, <1>4 DEF Runs, Accepted, At
<1>7. p \in X BY <1>1, <1>2, <1>3, <1>4 DEF Early
<1>8. Sim(A[n], X \ {p}, C[k])
  <2>1. Sim(Effect(A[j], i), X \ {i.at.permission}, C[k]) BY <1>2, <1>5, <1>6, <1>7, SimLate
  <2> QED BY <2>1, <1>2, <1>6
<1>9. Y = X \ {p}
  <2>1. ASSUME NEW q \in Y PROVE q \in X \ {p}
    <3>1. PICK e \in Ends(d) \cap Done(s, k) : n < e /\ q = d[e].at.permission BY <1>3 DEF Early
    <3>2. e \in DOMAIN d /\ j < e /\ e # n BY <3>1, <1>4, RunsParts
    <3>3. q # p BY <3>1, <3>2, <1>2, <1>4, RunsParts
    <3> QED BY <3>1, <3>2, <3>3, <1>3 DEF Early
  <2>2. ASSUME NEW q \in X \ {p} PROVE q \in Y
    <3>1. PICK e \in Ends(d) \cap Done(s, k) : j < e /\ q = d[e].at.permission BY <1>3 DEF Early
    <3>2. e \in DOMAIN d /\ e # n BY <3>1, <1>2, RunsParts
    <3>3. n < e BY <3>1, <3>2, <1>4
    <3> QED BY <3>1, <3>3, <1>3 DEF Early
  <2> QED BY <2>1, <2>2
<1>10. 1 .. n \subseteq Done(s, k)
  <2>1. \A m \in 1 .. n : m = n \/ m \in 1 .. j BY <1>1, <1>4
  <2> QED BY <2>1, <1>4 DEF At
<1>11. \A m \in Retained(d) \cap Done(s, k) : m <= n
  <2>1. \A m \in Retained(d) \cap Done(s, k) : m <= j /\ m \in DOMAIN d BY RunsParts DEF At
  <2>2. \A m \in DOMAIN d : m <= j => m <= n BY <1>1, <1>4, RunsParts
  <2> QED BY <2>1, <2>2
<1>12. At(d, s, A, C, n, k) BY <1>3, <1>4, <1>8, <1>9, <1>10, <1>11 DEF At
<1> QED BY <1>1, <1>12

\* The draft comes to the end of a row of ends that the plan has behind it.
LEMMA CatchUpTo ==
    ASSUME NEW d, NEW s, NEW A, NEW C, Runs(d, s, A, C), NEW j, NEW k, At(d, s, A, C, j, k),
           NEW N \in j .. Len(d), j + 1 .. N \subseteq Ends(d) \cap Done(s, k)
    PROVE  At(d, s, A, C, N, k)
<1>1. j \in Nat /\ Len(d) \in Nat /\ N \in Nat /\ j <= N BY RunsParts DEF At
<1> DEFINE Bad == {m \in Nat : j + m <= N /\ ~At(d, s, A, C, j + m, k)}
<1>2. SUFFICES ASSUME N - j \in Bad PROVE FALSE
  <2>1. N - j \in Nat /\ j + (N - j) = N BY <1>1
  <2> QED BY <2>1, <1>1
<1>3. PICK m \in Bad : \A y \in Bad : m <= y
  <2>1. Bad \subseteq Nat OBVIOUS
  <2> HIDE DEF Bad
  <2> QED BY <1>2, <2>1, LeastElement
<1>4. m \in Nat /\ j + m <= N /\ ~At(d, s, A, C, j + m, k) OBVIOUS
<1>5. m # 0
  <2>1. ASSUME m = 0 PROVE FALSE
    <3>1. j + m = j BY <2>1, <1>1
    <3> QED BY <3>1, <1>4
  <2> QED BY <2>1
<1>6. m - 1 \in Nat /\ ~(m <= m - 1) /\ j + (m - 1) <= N /\ j + m = (j + (m - 1)) + 1
      /\ j + m \in j + 1 .. N
  BY <1>1, <1>4, <1>5
<1>7. At(d, s, A, C, j + (m - 1), k)
  <2>1. m - 1 \notin Bad BY <1>3, <1>6
  <2> QED BY <2>1, <1>6
<1>8. PICK n : n = j + (m - 1) OBVIOUS
<1>9. At(d, s, A, C, n, k) /\ n + 1 \in Ends(d) \cap Done(s, k) /\ ~At(d, s, A, C, n + 1, k)
  BY <1>4, <1>6, <1>7, <1>8
<1> HIDE DEF Bad
<1> QED BY <1>9, CatchUp

LEMMA DoneMore ==
    ASSUME NEW d, NEW s, NEW A, NEW C, Runs(d, s, A, C), NEW k \in 0 .. Len(d) - 1
    PROVE  /\ s[k + 1] \in DOMAIN d /\ s[k + 1] \notin Done(s, k)
           /\ Done(s, k + 1) = Done(s, k) \cup {s[k + 1]} /\ Done(s, k) \subseteq DOMAIN d
           /\ C[k + 1] = Step(C[k], d[s[k + 1]])
<1>1. DOMAIN d = 1 .. Len(d) /\ Len(d) \in Nat BY RunsParts
<1>2. k + 1 \in DOMAIN d /\ (k + 1) - 1 = k /\ \A q \in 1 .. k : q \in DOMAIN d /\ q < k + 1
      /\ q \in 1 .. k + 1
  BY <1>1
<1>3. s \in [DOMAIN d -> DOMAIN d] /\ \A q \in DOMAIN d : q < k + 1 => s[q] # s[k + 1]
  BY <1>2 DEF Runs, Moved
<1>4. C[k + 1] = Step(C[k], d[s[k + 1]]) BY <1>1, <1>2 DEF Runs
<1>5. \A q \in 1 .. k + 1 : q = k + 1 \/ q \in 1 .. k OBVIOUS
<1>6. Done(s, k + 1) = Done(s, k) \cup {s[k + 1]}
  <2>1. Done(s, k + 1) \subseteq Done(s, k) \cup {s[k + 1]} BY <1>5 DEF Done
  <2>2. Done(s, k) \subseteq Done(s, k + 1) BY <1>2 DEF Done
  <2>3. s[k + 1] \in Done(s, k + 1)
    <3>1. k + 1 \in 1 .. k + 1 OBVIOUS
    <3> QED BY <3>1 DEF Done
  <2> QED BY <2>1, <2>2, <2>3
<1> QED BY <1>2, <1>3, <1>4, <1>6 DEF Done

\* The plan ends a reference early.
LEMMA EndsEarly ==
    ASSUME NEW d, NEW s, NEW A, NEW C, Runs(d, s, A, C), NEW k \in 0 .. Len(d) - 1,
           NEW j, At(d, s, A, C, j, k), s[k + 1] \in Ends(d), Allowed(C[k], d[s[k + 1]])
    PROVE  At(d, s, A, C, j, k + 1)
<1>1. PICK n : n = s[k + 1] OBVIOUS
<1>2. PICK i, p : i = d[n] /\ p = i.at.permission OBVIOUS
<1>3. PICK X, Y : X = Early(d, s, j, k) /\ Y = Early(d, s, j, k + 1) OBVIOUS
<1>4. /\ n \in DOMAIN d /\ n \notin Done(s, k) /\ Done(s, k + 1) = Done(s, k) \cup {n}
      /\ C[k + 1] = Step(C[k], i) /\ n \in Ends(d)
  BY <1>1, <1>2, DoneMore
<1>5. i \in Instruction /\ i.op \in Pending /\ (i.op = "LoanEnd" => i.loan \in LoanIds)
  BY <1>2, <1>4, RunsParts
<1>6. j \in 0 .. Len(d) /\ 1 .. j \subseteq Done(s, k) /\ Sim(A[j], X, C[k])
      /\ Facts(A[j], Before(d, j))
  BY <1>3 DEF At, Runs
<1>7. j < n BY <1>4, <1>6, RunsParts
<1>8. C[k + 1] = Effect(C[k], i)
  <2>1. C[k] \in Running BY <1>6 DEF Sim
  <2> QED BY <2>1, <1>1, <1>2, <1>4, StepParts
<1>9. Sim(A[j], X \cup {p}, C[k + 1])
  <2>1. Allowed(C[k], i) BY <1>1, <1>2
  <2>2. Sim(A[j], X \cup {i.at.permission}, Effect(C[k], i)) BY <2>1, <1>5, <1>6, SimEarly
  <2> QED BY <2>2, <1>2, <1>8
<1>10. Y = X \cup {p}
  <2>1. Y \subseteq X \cup {p}
    <3> SUFFICES ASSUME NEW q \in Y, q \notin X PROVE q = p OBVIOUS
    <3>1. PICK e \in Ends(d) \cap Done(s, k + 1) : j < e /\ q = d[e].at.permission BY <1>3 DEF Early
    <3>2. e \notin Done(s, k) BY <3>1, <1>3 DEF Early
    <3>3. e = n BY <3>1, <3>2, <1>4
    <3> QED BY <3>1, <3>3, <1>2
  <2>2. X \subseteq Y BY <1>3, <1>4 DEF Early
  <2>3. p \in Y BY <1>2, <1>3, <1>4, <1>7 DEF Early
  <2> QED BY <2>1, <2>2, <2>3
<1>11. 1 .. j \subseteq Done(s, k + 1) BY <1>4, <1>6
<1>12. \A m \in Retained(d) \cap Done(s, k + 1) : m <= j BY <1>4, RunsParts DEF At
<1> QED BY <1>3, <1>6, <1>9, <1>10, <1>11, <1>12 DEF At

\* What the plan does next but end a reference, the draft does next, once it has
\* come to the ends between.
LEMMA Together ==
    ASSUME IsFiniteSet(LoanIds),
           NEW d, NEW s, NEW A, NEW C, Runs(d, s, A, C), NEW k \in 0 .. Len(d) - 1,
           NEW j, At(d, s, A, C, j, k), s[k + 1] \in Retained(d),
           d[s[k + 1]].op = "ObjectDrop" => Allowed(C[k], d[s[k + 1]])
    PROVE  Allowed(C[k], d[s[k + 1]]) /\ At(d, s, A, C, s[k + 1], k + 1)
<1>1. PICK n : n = s[k + 1] OBVIOUS
<1>2. PICK i : i = d[n] OBVIOUS
<1>3. PICK X : X = Early(d, s, n - 1, k) OBVIOUS
<1>4. /\ n \in DOMAIN d /\ n \notin Done(s, k) /\ Done(s, k + 1) = Done(s, k) \cup {n}
      /\ C[k + 1] = Step(C[k], i) /\ n \in Retained(d) /\ n \notin Ends(d)
      /\ Done(s, k) \subseteq DOMAIN d
  BY <1>1, <1>2, DoneMore, RunsParts
<1>5. DOMAIN d = 1 .. Len(d) /\ Len(d) \in Nat BY RunsParts
<1>6. i \in Instruction /\ i.op \notin Pending BY <1>2, <1>4, RunsParts DEF Ends
<1>7. j \in 0 .. Len(d) /\ 1 .. j \subseteq Done(s, k) /\ \A m \in Retained(d) \cap Done(s, k) : m <= j
  BY DEF At
<1>8. j <= n - 1 /\ n - 1 \in 0 .. Len(d) /\ n - 1 \in j .. Len(d) BY <1>4, <1>5, <1>7
<1>9. k + 1 \in DOMAIN d /\ \A q \in DOMAIN d : q <= k => q < k + 1 /\ q \in 1 .. k BY <1>5
<1>10. ASSUME NEW m \in DOMAIN d, m < n PROVE m \in Done(s, k)
  <2>1. PICK q \in DOMAIN d : s[q] = m BY DEF Runs, Moved
  <2>2. q # k + 1 BY <2>1, <1>1, <1>5, <1>10
  <2>3. ~(k + 1 < q)
    <3>1. ASSUME k + 1 < q PROVE FALSE
      <4>1. n < m BY <3>1, <2>1, <1>1, <1>4, <1>9 DEF Runs, Moved
      <4> QED BY <4>1, <1>10, <1>4, <1>5
    <3> QED BY <3>1
  <2>4. q \in 1 .. k BY <2>2, <2>3, <1>5
  <2> QED BY <2>1, <2>4 DEF Done
<1>11. j + 1 .. n - 1 \subseteq Ends(d) \cap Done(s, k)
  <2> SUFFICES ASSUME NEW m \in j + 1 .. n - 1 PROVE m \in Ends(d) \cap Done(s, k) OBVIOUS
  <2>1. m \in DOMAIN d /\ m < n /\ ~(m <= j) BY <1>4, <1>5, <1>7
  <2>2. m \in Done(s, k) BY <2>1, <1>10
  <2>3. m \notin Retained(d) BY <2>1, <2>2, <1>7
  <2> QED BY <2>1, <2>2, <2>3, RunsParts
<1>12. At(d, s, A, C, n - 1, k)
  <2>1. PICK N : N = n - 1 OBVIOUS
  <2>2. N \in j .. Len(d) /\ j + 1 .. N \subseteq Ends(d) \cap Done(s, k) BY <2>1, <1>8, <1>11
  <2>3. At(d, s, A, C, N, k) BY <2>2, CatchUpTo
  <2> QED BY <2>1, <2>3
<1>13. Sim(A[n - 1], X, C[k]) BY <1>3, <1>12 DEF At
<1>14. i.at.permission \notin X /\ i.new.permission \notin X
  <2>1. ASSUME NEW x \in X PROVE i.at.permission # x /\ i.new.permission # x
    <3>1. PICK e \in Ends(d) \cap Done(s, k) : x = d[e].at.permission BY <1>3 DEF Early
    <3>2. PICK q \in 1 .. k : e = s[q] BY <3>1 DEF Done
    <3>3. q \in DOMAIN d /\ q < k + 1 BY <1>5, <3>2
    <3>4. n \notin Definers(d, e) \cup Users(d, e) BY <3>1, <3>2, <3>3, <1>1, <1>9 DEF Runs, Moved
    <3> QED BY <3>1, <3>4, <1>2, <1>4 DEF Runs, Block
  <2> QED BY <2>1
<1>15. /\ Facts(A[n - 1], Before(d, n - 1)) /\ Fits(i, Before(d, n - 1))
       /\ Allowed(A[n - 1], i) /\ A[n] = Effect(A[n - 1], i)
  BY <1>2, <1>4, <1>8 DEF Runs, Block, Accepted
<1>16. Allowed(C[k], i) /\ Sim(Effect(A[n - 1], i), X, Effect(C[k], i))
  <2>1. Bases(Before(d, n - 1)) BY DEF Bases, Before
  <2>2. i.op = "ObjectDrop" => Allowed(C[k], i) BY <1>1, <1>2
  <2> QED BY <2>1, <2>2, <1>6, <1>13, <1>14, <1>15, SimStep
<1>17. C[k + 1] = Effect(C[k], i)
  <2>1. C[k] \in Running BY <1>13 DEF Sim
  <2> QED BY <2>1, <1>4, <1>16, StepParts
<1>18. Early(d, s, n, k + 1) = X
  <2>1. \A e \in Ends(d) : e \in Done(s, k + 1) <=> e \in Done(s, k) BY <1>4
  <2>2. \A e \in Ends(d) : n < e <=> n - 1 < e
    <3>1. \A e \in Ends(d) : e \in DOMAIN d /\ e # n BY <1>4, RunsParts
    <3> QED BY <3>1, <1>4, <1>5
  <2> QED BY <2>1, <2>2, <1>3 DEF Early
<1>19. 1 .. n \subseteq Done(s, k + 1)
  <2>1. \A m \in 1 .. n : m = n \/ (m \in DOMAIN d /\ m < n) BY <1>4, <1>5
  <2> QED BY <2>1, <1>4, <1>10
<1>20. \A m \in Retained(d) \cap Done(s, k + 1) : m <= n
  <2>1. \A m \in DOMAIN d : m <= j => m <= n BY <1>4, <1>5, <1>7
  <2>2. n <= n BY <1>4, <1>5
  <2> QED BY <2>1, <2>2, <1>4, <1>7
<1>21. At(d, s, A, C, n, k + 1)
  <2>1. Sim(A[n], Early(d, s, n, k + 1), C[k + 1]) BY <1>15, <1>16, <1>17, <1>18
  <2>2. n \in 0 .. Len(d) BY <1>4, <1>5
  <2> QED BY <2>1, <2>2, <1>19, <1>20 DEF At
<1> QED BY <1>1, <1>2, <1>16, <1>21

\* i ends a reference: one with a name, or the one that is stored.
IsEnd(i) == i.op \in Pending \/ i.op = "ObjectDrop"

\* The plan goes on until it is refused an end.
LEMMA GoesOn ==
    ASSUME IsFiniteSet(LoanIds),
           NEW d, NEW s, NEW A, NEW C, Runs(d, s, A, C), A[0] = C[0],
           \A k \in DOMAIN d : IsEnd(d[s[k]]) /\ ~C[k - 1].refused => Allowed(C[k - 1], d[s[k]]),
           NEW N \in 0 .. Len(d)
    PROVE  \E j : At(d, s, A, C, j, N)
<1>1. DOMAIN d = 1 .. Len(d) /\ Len(d) \in Nat BY RunsParts
<1> DEFINE Bad == {k \in Nat : k <= Len(d) /\ ~\E j : At(d, s, A, C, j, k)}
<1>2. SUFFICES ASSUME N \in Bad PROVE FALSE BY <1>1
<1>3. PICK k \in Bad : \A y \in Bad : k <= y
  <2>1. Bad \subseteq Nat OBVIOUS
  <2> HIDE DEF Bad
  <2> QED BY <1>2, <2>1, LeastElement
<1>4. k \in Nat /\ k <= Len(d) /\ ~\E j : At(d, s, A, C, j, k) OBVIOUS
<1>5. CASE k = 0
  <2>1. Done(s, 0) = {} BY DEF Done
  <2>2. Early(d, s, 0, 0) = {} BY <2>1 DEF Early
  <2>3. 0 \in 0 .. Len(d) /\ 1 .. 0 = {} BY <1>1
  <2>4. Facts(A[0], Before(d, 0)) BY <2>3 DEF Runs
  <2>5. PICK R : R = A[0] OBVIOUS
  <2>6. R \in Running /\ Reduces(R.table, R.table, {})
    <3>1. R \in Running /\ Canonical(R.table) BY <2>4, <2>5, FactsRunning
    <3> QED BY <3>1 DEF Reduces, SameStatic
  <2>7. Sim(A[0], {}, C[0])
    <3>1. Gone(R, {}) = {} BY DEF Gone
    <3>2. Sim(R, {}, R) BY <2>6, <3>1 DEF Sim
    <3> QED BY <3>2, <2>5
  <2>8. At(d, s, A, C, 0, 0) BY <2>1, <2>2, <2>3, <2>7 DEF At
  <2> QED BY <2>8, <1>4, <1>5
<1>6. CASE k # 0
  <2>1. PICK h : h = k - 1 OBVIOUS
  <2>2. h \in Nat /\ ~(k <= h) /\ h <= Len(d) /\ h \in 0 .. Len(d) - 1 /\ h + 1 = k /\ k \in DOMAIN d
    BY <2>1, <1>1, <1>4, <1>6
  <2>3. PICK j : At(d, s, A, C, j, h)
    <3>1. h \notin Bad BY <2>2, <1>3
    <3> QED BY <3>1, <2>2
  <2>4. ~C[h].refused BY <2>3, RunningParts DEF At, Sim
  <2>5. IsEnd(d[s[h + 1]]) => Allowed(C[h], d[s[h + 1]]) BY <2>1, <2>2, <2>4
  <2>6. s[h + 1] \in DOMAIN d BY <2>2, DoneMore
  <2>7. CASE s[h + 1] \in Ends(d)
    <3>1. IsEnd(d[s[h + 1]]) BY <2>7, RunsParts DEF IsEnd
    <3>2. At(d, s, A, C, j, h + 1) BY <3>1, <2>2, <2>3, <2>5, <2>7, EndsEarly
    <3> QED BY <3>2, <2>2, <1>4
  <2>8. CASE s[h + 1] \notin Ends(d)
    <3>1. s[h + 1] \in Retained(d) BY <2>6, <2>8, RunsParts
    <3>2. d[s[h + 1]].op = "ObjectDrop" => Allowed(C[h], d[s[h + 1]]) BY <2>5 DEF IsEnd
    <3>3. At(d, s, A, C, s[h + 1], h + 1) BY <3>1, <3>2, <2>2, <2>3, Together
    <3> QED BY <3>3, <2>2, <1>4
  <2> QED BY <2>7, <2>8
<1> QED BY <1>5, <1>6

LEMMA PlanMoved ==
    ASSUME LowerInv, PlanInv, outcome = "Planned"
    PROVE  Moved(draft, order)
<1>1. draft \in Seq(Instruction) /\ DOMAIN draft = 1 .. Len(draft) /\ Len(draft) \in Nat
      /\ Ends(draft) \subseteq DOMAIN draft /\ Retained(draft) = DOMAIN draft \ Ends(draft)
  BY LowerFacts, Positions DEF Retained, Ends
<1>2. order = Sorted(draft, planned) /\ Plan(draft, planned) BY DEF PlanInv
<1>3. planned \in [Ends(draft) -> Nat]
  <2>1. Cardinality(Retained(draft)) \in Nat BY <1>1, Positions
  <2> QED BY <2>1, <1>2 DEF Plan
<1>4. /\ order \in [DOMAIN draft -> DOMAIN draft]
      /\ \A n \in DOMAIN draft : \E k \in DOMAIN draft : order[k] = n
      /\ \A j, k \in DOMAIN draft : j < k =>
            Less(Key(draft, planned, order[j]), Key(draft, planned, order[k]))
  <2>1. draft \in Seq(Instruction) BY <1>1
  <2>2. order = Sorted(draft, planned) BY <1>2
  <2> QED BY <2>1, <2>2, <1>3, SortedOrder
<1>5. /\ Len(order) = Len(draft) /\ DOMAIN order = DOMAIN draft
      /\ \A j, k \in DOMAIN order : j < k =>
            /\ order[j] \in Retained(draft) /\ order[k] \in Retained(draft) => order[j] < order[k]
            /\ order[j] \in Ends(draft) =>
                  order[k] \notin Definers(draft, order[j]) \cup Users(draft, order[j])
            /\ order[j] \in Retained(draft) /\ order[k] \in Ends(draft) => order[j] < order[k]
  <2>1. OnlyEndsMoveUp BY MovedUp
  <2> QED BY <2>1, <1>4 DEF OnlyEndsMoveUp
<1>6. ASSUME NEW j \in DOMAIN draft, NEW k \in DOMAIN draft, j < k PROVE order[j] # order[k]
  <2>1. PICK m \in DOMAIN draft : m = order[j] BY <1>4
  <2>2. PICK u : u = Key(draft, planned, m) OBVIOUS
  <2>3. m \in Int /\ KeyList(u, m) BY <2>2, <1>1, <1>3, KeyType
  <2>4. ~Less(u, u) BY <2>3, KeyOrder
  <2>5. ASSUME order[j] = order[k] PROVE FALSE
    <3>1. Less(Key(draft, planned, order[j]), Key(draft, planned, order[k])) BY <1>4, <1>6
    <3> QED BY <3>1, <2>1, <2>2, <2>4, <2>5
  <2> QED BY <2>5
<1>7. ASSUME NEW j \in DOMAIN draft, NEW k \in DOMAIN draft, j < k, order[j] \in Retained(draft)
      PROVE  order[j] < order[k]
  <2>1. order[k] \in Retained(draft) \/ order[k] \in Ends(draft) BY <1>1, <1>4
  <2> QED BY <2>1, <1>5, <1>7
<1> QED BY <1>4, <1>5, <1>6, <1>7 DEF Moved

\* The first instructions of an order run as they do in the whole of it.
LEMMA PrefixRun ==
    ASSUME NEW d, NEW S, NEW s \in Seq(S), NEW C, C[0] = EntryRun,
           \A k \in 1 .. Len(s) : C[k] = Step(C[k - 1], d[s[k]]),
           NEW x \in 1 .. Len(s)
    PROVE  Run(d, SubSeq(s, 1, x - 1)) = C[x - 1]
<1>1. PICK u : u = SubSeq(s, 1, x - 1) OBVIOUS
<1>2. Len(s) \in Nat /\ x \in Nat /\ 1 <= x /\ x <= Len(s) OBVIOUS
<1>3. Len(u) = x - 1 /\ (\A y \in 1 .. x - 1 : u[y] = s[y]) BY <1>1, SeqParts
<1>4. Len(u) \in Nat BY <1>2, <1>3
<1>5. PICK B : Trace(EntryRun, d, u, B) /\ Run(d, u) = B[Len(u)] BY <1>4, RunTrace
<1>6. B[0] = EntryRun /\ \A k \in 1 .. x - 1 : B[k] = Step(B[k - 1], d[s[k]])
  <2>1. Len(u) \in Nat BY <1>4
  <2>2. Trace(EntryRun, d, u, B) BY <1>5
  <2>3. B[0] = EntryRun /\ \A k \in 1 .. Len(u) : B[k] = Step(B[k - 1], d[u[k]])
    BY <2>1, <2>2, TraceSteps
  <2> QED BY <2>3, <1>3
<1> DEFINE Bad == {k \in Nat : k <= x - 1 /\ B[k] # C[k]}
<1>7. SUFFICES ASSUME x - 1 \in Bad PROVE FALSE
  <2>1. x - 1 \in Nat /\ x - 1 <= x - 1 BY <1>2
  <2>2. B[x - 1] = C[x - 1] BY <2>1
  <2> QED BY <2>2, <1>1, <1>3, <1>5
<1>8. PICK k \in Bad : \A y \in Bad : k <= y
  <2>1. Bad \subseteq Nat OBVIOUS
  <2> HIDE DEF Bad
  <2> QED BY <1>7, <2>1, LeastElement
<1>9. k \in Nat /\ k <= x - 1 /\ B[k] # C[k] OBVIOUS
<1>10. k # 0 BY <1>6, <1>9
<1>11. k - 1 \in Nat /\ k - 1 <= x - 1 /\ ~(k <= k - 1) /\ k \in 1 .. x - 1 /\ k \in 1 .. Len(s)
  BY <1>2, <1>9, <1>10
<1>12. B[k - 1] = C[k - 1]
  <2>1. k - 1 \notin Bad BY <1>8, <1>11
  <2> QED BY <2>1, <1>11
<1> QED BY <1>6, <1>9, <1>11, <1>12

\* At the end of the block the plan and the draft are in the same place.
LEMMA SameEnd ==
    ASSUME NEW d, NEW s, NEW A, NEW C, Runs(d, s, A, C),
           NEW j, At(d, s, A, C, j, Len(d))
    PROVE  ~C[Len(d)].refused /\ C[Len(d)].table = A[Len(d)].table
<1>1. PICK N : N = Len(d) OBVIOUS
<1>2. DOMAIN d = 1 .. N /\ N \in Nat /\ j \in 0 .. N BY <1>1, RunsParts DEF At
<1>3. DOMAIN d \subseteq Done(s, N)
  <2> SUFFICES ASSUME NEW n \in DOMAIN d PROVE n \in Done(s, N) OBVIOUS
  <2>1. PICK k \in DOMAIN d : s[k] = n BY DEF Runs, Moved
  <2> QED BY <2>1, <1>2 DEF Done
<1>4. j + 1 .. N \subseteq Ends(d) \cap Done(s, N)
  <2> SUFFICES ASSUME NEW n \in j + 1 .. N PROVE n \in Ends(d) \cap Done(s, N) OBVIOUS
  <2>1. n \in DOMAIN d /\ ~(n <= j) BY <1>2
  <2>2. n \in Done(s, N) BY <2>1, <1>3
  <2>3. n \notin Retained(d) BY <2>1, <2>2, <1>1 DEF At
  <2> QED BY <2>1, <2>2, <2>3, RunsParts
<1>5. At(d, s, A, C, N, N)
  <2>1. N \in j .. Len(d) BY <1>1, <1>2
  <2>2. At(d, s, A, C, j, N) BY <1>1
  <2> QED BY <2>1, <2>2, <1>4, CatchUpTo
<1>6. Early(d, s, N, N) = {}
  <2>1. \A e \in Ends(d) : ~(N < e)
    <3>1. \A e \in DOMAIN d : ~(N < e) BY <1>2
    <3> QED BY <3>1, RunsParts
  <2> QED BY <2>1 DEF Early
<1>7. Sim(A[N], {}, C[N]) BY <1>5, <1>6 DEF At
<1>8. C[N].table = A[N].table BY <1>7, SimDone
<1>9. ~C[N].refused BY <1>7, RunningParts DEF Sim
<1> QED BY <1>1, <1>8, <1>9

\* Moving the ends up is safe for everything but the ends themselves: whenever the
\* loan shadow accepts the block as lowered, the first thing it can refuse in the
\* planned block is an end (of a reference, or of the one that is stored), and if
\* it refuses none, the planned block leaves exactly the loans of the block as
\* lowered (plan_block moves an end past uses of other references without asking
\* the loan shadow what they do).
OnlyEndsRefused ==
    outcome = "Planned" /\ ~Lexical(draft).refused =>
        \/ ~Run(draft, order).refused /\ Run(draft, order).table = Lexical(draft).table
        \/ \E k \in DOMAIN order :
              LET run == Run(draft, SubSeq(order, 1, k - 1)) IN
              IsEnd(draft[order[k]]) /\ ~run.refused /\ ~Allowed(run, draft[order[k]])

LEMMA PlanRuns ==
    ASSUME IsFiniteSet(LoanIds), LowerInv, PlanInv, NameInv, FreshInv
    PROVE  OnlyEndsRefused
<1>1. SUFFICES ASSUME outcome = "Planned", ~Lexical(draft).refused,
                      \A k \in DOMAIN order :
                         LET run == Run(draft, SubSeq(order, 1, k - 1)) IN
                         ~(IsEnd(draft[order[k]]) /\ ~run.refused /\ ~Allowed(run, draft[order[k]]))
               PROVE  ~Run(draft, order).refused /\ Run(draft, order).table = Lexical(draft).table
  BY DEF OnlyEndsRefused
<1>2. PICK d, s : d = draft /\ s = order OBVIOUS
<1>3. Block(d) /\ Facts(EntryRun, Before(d, 0)) /\ Moved(d, s)
  BY <1>1, <1>2, BlockHolds, EntryFacts, PlanMoved
<1>4. PICK A : /\ Accepted(d, A) /\ A[0] = EntryRun /\ A[Len(d)] = Lexical(d)
               /\ \A n \in 0 .. Len(d) : Facts(A[n], Before(d, n))
  BY <1>1, <1>2, <1>3, LexicalFacts
<1>5. DOMAIN d = 1 .. Len(d) /\ Len(d) \in Nat /\ s \in Seq(DOMAIN d) /\ Len(s) = Len(d) /\ DOMAIN s = DOMAIN d
  <2>1. d \in Seq(Instruction) BY <1>3 DEF Block
  <2>2. DOMAIN d = 1 .. Len(d) /\ Len(d) \in Nat BY <2>1, Positions
  <2>3. s \in [DOMAIN d -> DOMAIN d] /\ Len(s) = Len(d) BY <1>3 DEF Moved
  <2>4. s \in Seq(DOMAIN d) BY <2>2, <2>3
  <2> QED BY <2>2, <2>3, <2>4
<1>6. PICK C : Trace(EntryRun, d, s, C) /\ Run(d, s) = C[Len(s)] BY <1>5, RunTrace
<1>7. C[0] = EntryRun /\ \A k \in 1 .. Len(s) : C[k] = Step(C[k - 1], d[s[k]])
  <2>1. Len(s) \in Nat BY <1>5
  <2>2. Trace(EntryRun, d, s, C) BY <1>6
  <2> QED BY <2>1, <2>2, TraceSteps
<1>8. Runs(d, s, A, C) BY <1>3, <1>4, <1>5, <1>7 DEF Runs
<1>9. \A k \in DOMAIN d : IsEnd(d[s[k]]) /\ ~C[k - 1].refused => Allowed(C[k - 1], d[s[k]])
  <2> SUFFICES ASSUME NEW k \in DOMAIN d, IsEnd(d[s[k]]), ~C[k - 1].refused
               PROVE  Allowed(C[k - 1], d[s[k]])
    OBVIOUS
  <2>1. Run(d, SubSeq(s, 1, k - 1)) = C[k - 1]
    <3>1. s \in Seq(DOMAIN d) /\ k \in 1 .. Len(s) BY <1>5
    <3> QED BY <3>1, <1>7, PrefixRun
  <2> QED BY <2>1, <1>1, <1>2, <1>5
<1>10. PICK j : At(d, s, A, C, j, Len(d))
  <2>1. Len(d) \in 0 .. Len(d) /\ A[0] = C[0] BY <1>4, <1>5, <1>7
  <2> QED BY <2>1, <1>8, <1>9, GoesOn
<1>11. ~C[Len(d)].refused /\ C[Len(d)].table = A[Len(d)].table BY <1>8, <1>10, SameEnd
<1> QED BY <1>2, <1>4, <1>5, <1>6, <1>11

\* The runs of both orders are compared instruction by instruction: the loans of
\* the planned run are those of the lexical one without the references that have
\* ended early, no instruction but their ends refers to those any more, and fewer
\* references allow whatever more references allow - but for an end.
THEOREM OnlyEndsRefusedHolds == IsFiniteSet(LoanIds) => (Spec => []OnlyEndsRefused)
<1> SUFFICES ASSUME IsFiniteSet(LoanIds) PROVE Spec => []OnlyEndsRefused OBVIOUS
<1>1. Init => LowerInv /\ PlanInv /\ NameInv /\ FreshInv BY LowerInit, PlanInit, NameInit, FreshInit
<1>2. LowerInv /\ PlanInv /\ NameInv /\ FreshInv /\ [Next]_vars
        => LowerInv' /\ PlanInv' /\ NameInv' /\ FreshInv'
  BY LowerNext, PlanNext, NameNext, FreshNext
<1>3. LowerInv /\ PlanInv /\ NameInv /\ FreshInv => OnlyEndsRefused BY PlanRuns
<1> QED BY <1>1, <1>2, <1>3, PTL DEF Spec

=============================================================================
