------------------------- MODULE SummaryOrderProofs -------------------------
(***************************************************************************)
(* components() finds the strongly connected components of any call graph  *)
(* and hands them over callees first, none left out.                       *)
(*                                                                         *)
(* The argument is Kosaraju's, put as an inductive invariant.  During the  *)
(* first search a function is finished (it is in finish) or open (it is on *)
(* the stack, expanded).  A finished function that reaches an open one is  *)
(* in a cycle with an open one (LeadsBack), so whatever a finished         *)
(* function reaches finishes no later than the last function of its own    *)
(* component (LastOfComponent).  The second search takes the functions     *)
(* from the last finished to the first and goes against the calls: what it *)
(* newly reaches from a root is therefore the component of that root.      *)
(***************************************************************************)
EXTENDS SummaryOrder, TLAPS, WellFoundedInduction

Fin == INSTANCE FiniteSetTheorems

\* g is f or one of the functions f calls, directly or through others.
To(c, f, g) == f = g \/ <<f, g>> \in Reached(c)

\* Two functions of one component.
Same(c, f, g) == To(c, f, g) /\ To(c, g, f)

ComponentOf(c, f) == {g \in DOMAIN c : Same(c, f, g)}

Holds(s, x) == \E i \in DOMAIN s : s[i] = x

Finished(f) == Holds(finish, f)
Open(f) == Holds(stack, <<f, TRUE>>)
Waiting(f) == Holds(stack, <<f, FALSE>>)

-----------------------------------------------------------------------------
(* The first search. *)

\* No function is forgotten.
NoneForgotten == \A f \in Functions : f \in visited \/ Holds(roots, f) \/ Waiting(f)

VisitedStates == \A f \in Functions : f \in visited <=> Finished(f) \/ Open(f)

\* An open function reaches whatever is above it on the stack.
StackReached ==
    \A i, j \in DOMAIN stack : i < j /\ stack[i][2] => To(calls, stack[i][1], stack[j][1])

\* A callee that has not been visited waits above its caller.
CalleesWait ==
    \A f \in visited : \A g \in calls[f] :
        g \in visited \/ \E i, j \in DOMAIN stack :
                            i < j /\ stack[i] = <<f, TRUE>> /\ stack[j] = <<g, FALSE>>

LeadsBack ==
    \A h, g \in Functions : Finished(h) /\ Open(g) /\ To(calls, h, g) =>
        \E o \in Functions : Open(o) /\ Same(calls, h, o)

LastOfComponent ==
    \A i, j \in DOMAIN finish : To(calls, finish[i], finish[j]) =>
        \/ \E k \in DOMAIN finish : k >= j /\ Same(calls, finish[i], finish[k])
        \/ \E o \in Functions : Open(o) /\ Same(calls, finish[i], o)

SearchInv ==
    /\ NoneForgotten /\ VisitedStates /\ StackReached
    /\ CalleesWait /\ LeadsBack /\ LastOfComponent
    /\ members = {} /\ groups = <<>>

-----------------------------------------------------------------------------
(* The second search. *)

AllFinished == \A f \in Functions : Finished(f)

FinishOrder ==
    \A i, j \in DOMAIN finish : To(calls, finish[i], finish[j]) =>
        \E k \in DOMAIN finish : k >= j /\ Same(calls, finish[i], finish[k])

\* The roots left are the first of finish, from the last of them down.
RootsLeft ==
    /\ Len(roots) <= Len(finish)
    /\ \A i \in DOMAIN roots : roots[i] = finish[Len(roots) + 1 - i]

\* What earlier roots have reached, and the root of the present group.
Earlier == visited \ members
Collecting == stack # <<>> \/ members # {}
Root == finish[Len(roots) + 1]

\* Every later finished function is in an earlier group.
LaterGrouped ==
    \A k \in DOMAIN finish :
        k > Len(roots) + (IF Collecting THEN 1 ELSE 0) => finish[k] \in Earlier

\* The search from the root: what it has collected and what waits reach the root.
FromRoot ==
    Collecting =>
        /\ Len(roots) < Len(finish) /\ Root \notin Earlier
        /\ Root \in members \/ (members = {} /\ stack = <<<<Root, FALSE>>>>)
        /\ \A f \in members : To(calls, f, Root)
        /\ \A i \in DOMAIN stack : To(calls, stack[i][1], Root)

\* The callers of a visited function are visited or wait.
CallersWait ==
    \A f \in visited : \A g \in Callers(f) :
        g \in visited \/ (f \in members /\ Waiting(g))

EarlierClosed == \A f \in Earlier : Callers(f) \subseteq Earlier

\* The groups so far, each under its least member, are the components of Earlier.
GroupsByKey ==
    \A k \in DOMAIN groups :
        /\ groups[k] \in Components(calls)
        /\ k = Least(groups[k])

EarlierGrouped == \A f \in Functions : f \in Earlier <=> \E k \in DOMAIN groups : f \in groups[k]

GroupInv ==
    /\ AllFinished /\ FinishOrder /\ RootsLeft
    /\ LaterGrouped /\ FromRoot /\ CallersWait /\ EarlierClosed
    /\ GroupsByKey /\ EarlierGrouped /\ members \subseteq visited

-----------------------------------------------------------------------------
(* The ordering. *)

\* Every component is left or has been handed over, and not both.
AllOrdered ==
    /\ \A C \in Components(calls) :
          (\E k \in DOMAIN groups : groups[k] = C) \/ \E i \in DOMAIN ordered : ordered[i].members = C
    /\ \A i \in DOMAIN ordered :
          /\ ordered[i].members \in Components(calls)
          /\ ordered[i].recursive = IsRecursive(calls, ordered[i].members)
          /\ \A k \in DOMAIN groups : groups[k] # ordered[i].members

\* A component waits for others that it calls into, and for all of those left.
Dependent ==
    /\ DOMAIN deps = DOMAIN groups
    /\ \A k \in DOMAIN groups : \A j \in deps[k] :
          j \in DOMAIN groups \ {k} /\ \E f \in groups[k] : \E g \in groups[j] : g \in calls[f]
    /\ \A k \in DOMAIN groups : \A g \in CalleesOf(calls, groups[k]) :
          g \in groups[k] \/ g \in Handed \/ \E j \in deps[k] : g \in groups[j]

OrderInv == GroupsByKey /\ AllOrdered /\ Dependent

ComponentsInv ==
    /\ TypeOK
    /\ pc = "search" => SearchInv
    /\ pc = "group" => GroupInv
    /\ pc \in {"search", "group"} => ordered = <<>> /\ deps = <<>>
    /\ pc \in {"order", "done"} => OrderInv
    /\ pc = "done" => Ready = {}

-----------------------------------------------------------------------------
(* Reachability. *)

\* A closed set contains whatever a member reaches.
LEMMA ClosedForward ==
    ASSUME NEW c \in [Functions -> SUBSET Functions], NEW S \in SUBSET Functions,
           CallClosed(c, S), NEW f \in S, NEW g, To(c, f, g)
    PROVE  g \in S
<1>1. CASE f = g BY <1>1
<1>2. CASE <<f, g>> \in Reached(c)
  <2>1. DOMAIN c = Functions OBVIOUS
  <2>2. \A T \in SUBSET Functions : c[f] \subseteq T /\ CallClosed(c, T) => g \in T
    BY <1>2, <2>1 DEF Reached
  <2>3. c[f] \subseteq S BY DEF CallClosed
  <2> QED BY <2>2, <2>3
<1> QED BY <1>1, <1>2 DEF To

\* Reached, without its pairs.
LEMMA ReachedPair ==
    ASSUME NEW c \in [Functions -> SUBSET Functions], NEW f \in Functions, NEW g \in Functions
    PROVE  <<f, g>> \in Reached(c) <=>
              \A S \in SUBSET Functions : c[f] \subseteq S /\ CallClosed(c, S) => g \in S
<1>1. DOMAIN c = Functions OBVIOUS
<1> QED BY <1>1 DEF Reached

LEMMA ReachedIds ==
    ASSUME NEW c \in [Functions -> SUBSET Functions], NEW f, NEW g, <<f, g>> \in Reached(c)
    PROVE  f \in Functions /\ g \in Functions
<1>1. DOMAIN c = Functions OBVIOUS
<1> QED BY <1>1 DEF Reached

LEMMA ToCallee ==
    ASSUME NEW c \in [Functions -> SUBSET Functions], NEW f \in Functions, NEW g \in c[f]
    PROVE  To(c, f, g) /\ <<f, g>> \in Reached(c) /\ g \in Functions
<1>1. g \in Functions OBVIOUS
<1>2. <<f, g>> \in Reached(c) BY <1>1, ReachedPair
<1> QED BY <1>1, <1>2 DEF To

LEMMA ToTransitive ==
    ASSUME NEW c \in [Functions -> SUBSET Functions], NEW f, NEW g, NEW h,
           To(c, f, g), To(c, g, h)
    PROVE  To(c, f, h)
<1>1. CASE f = g \/ g = h BY <1>1 DEF To
<1>2. CASE <<f, g>> \in Reached(c) /\ <<g, h>> \in Reached(c)
  <2>1. f \in Functions /\ g \in Functions /\ h \in Functions BY <1>2, ReachedIds
  <2>2. ASSUME NEW S \in SUBSET Functions, c[f] \subseteq S, CallClosed(c, S) PROVE h \in S
    <3>1. g \in S BY <2>1, <2>2, <1>2, ReachedPair
    <3> QED BY <3>1, <2>2, ClosedForward
  <2>3. <<f, h>> \in Reached(c) BY <2>1, <2>2, ReachedPair
  <2> QED BY <2>3 DEF To
<1> QED BY <1>1, <1>2 DEF To

\* A set closed under callers contains whatever reaches a member.
LEMMA ClosedBackward ==
    ASSUME NEW c \in [Functions -> SUBSET Functions], NEW S \in SUBSET Functions,
           \A f \in Functions : \A g \in c[f] : g \in S => f \in S,
           NEW g \in S, NEW f \in Functions, To(c, f, g)
    PROVE  f \in S
<1> SUFFICES ASSUME f \notin S PROVE FALSE OBVIOUS
<1>1. PICK T : T = Functions \ S OBVIOUS
<1>2. T \in SUBSET Functions /\ f \in T BY <1>1
<1>3. CallClosed(c, T) BY <1>1 DEF CallClosed
<1>4. g \in T BY <1>2, <1>3, ClosedForward
<1> QED BY <1>1, <1>4

LEMMA SameRelation ==
    ASSUME NEW c \in [Functions -> SUBSET Functions]
    PROVE  /\ \A f : Same(c, f, f)
           /\ \A f, g : Same(c, f, g) => Same(c, g, f)
           /\ \A f, g, h : Same(c, f, g) /\ Same(c, g, h) => Same(c, f, h)
<1>1. \A f : Same(c, f, f) BY DEF Same, To
<1>2. \A f, g : Same(c, f, g) => Same(c, g, f) BY DEF Same
<1>3. \A f, g, h : Same(c, f, g) /\ Same(c, g, h) => Same(c, f, h) BY ToTransitive DEF Same
<1> QED BY <1>1, <1>2, <1>3

\* The components are the classes of that relation.
LEMMA ComponentsAre ==
    ASSUME NEW c \in [Functions -> SUBSET Functions]
    PROVE  Components(c) = {ComponentOf(c, f) : f \in Functions}
<1>1. DOMAIN c = Functions OBVIOUS
<1> DEFINE K(f) == {f} \cup {g \in DOMAIN c : {<<f, g>>, <<g, f>>} \subseteq Reached(c)}
<1>2. \A f \in Functions : K(f) = ComponentOf(c, f) BY <1>1 DEF ComponentOf, Same, To
<1>3. Components(c) = {K(f) : f \in DOMAIN c} BY Zenon DEF Components
<1> HIDE DEF K
<1> QED BY <1>1, <1>2, <1>3

LEMMA ComponentMembers ==
    ASSUME NEW c \in [Functions -> SUBSET Functions], NEW C \in Components(c)
    PROVE  /\ C \subseteq Functions /\ C # {}
           /\ \A f \in C : \A g \in Functions : g \in C <=> Same(c, f, g)
           /\ \A f \in C : C = ComponentOf(c, f)
<1>1. DOMAIN c = Functions OBVIOUS
<1>2. PICK r \in Functions : C = ComponentOf(c, r) BY ComponentsAre
<1>3. C \subseteq Functions /\ \A g \in Functions : g \in C <=> Same(c, r, g)
  BY <1>1, <1>2 DEF ComponentOf
<1>4. r \in C BY <1>3, SameRelation
<1>5. \A f \in C : \A g \in Functions : g \in C <=> Same(c, f, g) BY <1>3, SameRelation
<1>6. \A f \in C : C = ComponentOf(c, f) BY <1>1, <1>3, <1>5 DEF ComponentOf
<1> QED BY <1>3, <1>4, <1>5, <1>6

\* Different components have no function in common, and every function has one.
LEMMA ComponentsApart ==
    ASSUME NEW c \in [Functions -> SUBSET Functions]
    PROVE  /\ \A C, D \in Components(c) : C = D \/ C \cap D = {}
           /\ \A f \in Functions : f \in ComponentOf(c, f) /\ ComponentOf(c, f) \in Components(c)
<1>1. \A C, D \in Components(c) : C = D \/ C \cap D = {}
  <2> SUFFICES ASSUME NEW C \in Components(c), NEW D \in Components(c), NEW f, f \in C, f \in D
               PROVE  C = D OBVIOUS
  <2>1. C = ComponentOf(c, f) /\ D = ComponentOf(c, f) BY ComponentMembers
  <2> QED BY <2>1
<1>2. \A f \in Functions : f \in ComponentOf(c, f)
  <2>1. DOMAIN c = Functions OBVIOUS
  <2> QED BY <2>1, SameRelation DEF ComponentOf
<1>3. \A f \in Functions : ComponentOf(c, f) \in Components(c) BY ComponentsAre
<1> QED BY <1>1, <1>2, <1>3

-----------------------------------------------------------------------------
(* The ordered sets of the code as sequences. *)

\* A nonempty set of identifiers has a least one.
LEMMA LeastElement ==
    ASSUME NEW T \in SUBSET Nat, T # {}
    PROVE  Least(T) \in T /\ \A y \in T : Least(T) <= y
<1> DEFINE R == {ss \in Nat \X Nat : ss[1] < ss[2]}
<1>1. IsWellFoundedOn(R, Nat) BY NatLessThanWellFounded DEF OpToRel
<1> HIDE DEF R
<1>2. PICK x \in T : \A y \in T : <<y, x>> \notin R BY <1>1, WFMin
<1>3. \A y \in T : ~(y < x) BY <1>2 DEF R
<1>4. \A y \in T : x <= y BY <1>3
<1> QED BY <1>4 DEF Least

LEMMA SameSets == \A S : (Fin!IsFiniteSet(S) <=> IsFiniteSet(S)) /\ Fin!Cardinality(S) = Cardinality(S)
BY DEF Fin!IsFiniteSet, IsFiniteSet, Fin!Cardinality, Cardinality

LEMMA Size ==
    ASSUME NEW S, IsFiniteSet(S)
    PROVE  Cardinality(S) \in Nat /\ (Cardinality(S) = 0 <=> S = {})
BY Fin!FS_CardinalityType, Fin!FS_EmptySet, SameSets

LEMMA PartSize ==
    ASSUME NEW S, IsFiniteSet(S), NEW P \in SUBSET S
    PROVE  /\ IsFiniteSet(P) /\ Cardinality(P) \in Nat /\ Cardinality(S) \in Nat
           /\ P # S => Cardinality(P) < Cardinality(S)
<1>1. IsFiniteSet(P) /\ Cardinality(P) <= Cardinality(S)
      /\ (Cardinality(S) = Cardinality(P) => S = P) BY Fin!FS_Subset, SameSets
<1>2. Cardinality(S) \in Nat /\ Cardinality(P) \in Nat BY <1>1, Fin!FS_CardinalityType, SameSets
<1> QED BY <1>1, <1>2

\* s lists elements of S, each larger than the one before.
Lists(s, S, n) == s \in [1..n -> S] /\ \A i, j \in 1..n : i < j => s[i] < s[j]

LEMMA ListExists ==
    ASSUME NEW S \in SUBSET Nat, IsFiniteSet(S)
    PROVE  \E s : Lists(s, S, Cardinality(S))
<1> DEFINE Bad(n) == \E T \in SUBSET Nat : /\ IsFiniteSet(T) /\ Cardinality(T) = n
                                           /\ ~\E s : Lists(s, T, n)
           B == {n \in Nat : Bad(n)}
<1>1. ASSUME B # {} PROVE FALSE
  <2>1. PICK n \in B : \A m \in B : n <= m
    <3>1. B \in SUBSET Nat OBVIOUS
    <3> HIDE DEF B
    <3> QED BY <1>1, <3>1, LeastElement
  <2>2. PICK T \in SUBSET Nat : /\ IsFiniteSet(T) /\ Cardinality(T) = n
                                /\ ~\E s : Lists(s, T, n) BY <2>1
  <2>3. n \in Nat BY <2>1
  <2>4. CASE n = 0
    <3>1. Lists([i \in 1..0 |-> 0], T, 0) BY DEF Lists
    <3> QED BY <3>1, <2>2, <2>4
  <2>5. CASE n # 0
    <3>1. T # {} BY <2>2, <2>5, Size
    <3>2. PICK x \in T : \A y \in T : x <= y BY <3>1, LeastElement
    <3>3. PICK U : U = T \ {x} OBVIOUS
    <3>4. IsFiniteSet(U) /\ Cardinality(U) = n - 1
      BY <2>2, <3>3, Fin!FS_RemoveElement, SameSets
    <3>5. n - 1 \in Nat /\ n - 1 < n BY <2>3, <2>5
    <3>6. n - 1 \notin B BY <3>5, <2>1, <2>3
    <3>7. PICK s : Lists(s, U, n - 1) BY <3>3, <3>4, <3>5, <3>6
    <3> DEFINE t == [i \in 1..n |-> IF i = 1 THEN x ELSE s[i - 1]]
    <3>8. \A i \in 1..n : i # 1 => i - 1 \in 1..(n - 1) BY <2>3
    <3>9. \A i \in 1..n : i # 1 => s[i - 1] \in U /\ s[i - 1] \in T /\ x < s[i - 1]
      <4>1. \A i \in 1..n : i # 1 => s[i - 1] \in U BY <3>7, <3>8 DEF Lists
      <4>2. \A y \in U : y \in T /\ x < y BY <3>2, <3>3
      <4> QED BY <4>1, <4>2
    <3>10. t \in [1..n -> T] BY <3>9, <3>2
    <3>11. ASSUME NEW i \in 1..n, NEW j \in 1..n, i < j PROVE t[i] < t[j]
      <4>1. j # 1 /\ t[j] = s[j - 1] BY <3>11, <2>3
      <4>2. CASE i = 1 BY <4>1, <4>2, <3>9
      <4>3. CASE i # 1
        <5>1. i - 1 \in 1..(n - 1) /\ j - 1 \in 1..(n - 1) /\ i - 1 < j - 1
          BY <4>1, <4>3, <3>8, <3>11, <2>3
        <5> QED BY <5>1, <4>1, <4>3, <3>7 DEF Lists
      <4> QED BY <4>2, <4>3
    <3> HIDE DEF t
    <3>12. Lists(t, T, n) BY <3>10, <3>11 DEF Lists
    <3> QED BY <3>12, <2>2
  <2> QED BY <2>4, <2>5
<1>2. Cardinality(S) \in Nat BY Size
<1> QED BY <1>1, <1>2

\* s is a sequence of exactly the elements of S.
Covers(s, S) == s \in Seq(S) /\ \A x \in S : Holds(s, x)

LEMMA IncreasingCovers ==
    ASSUME NEW S \in SUBSET Nat, IsFiniteSet(S)
    PROVE  Covers(Increasing(S), S) /\ Len(Increasing(S)) = Cardinality(S)
<1>1. PICK n : n = Cardinality(S) OBVIOUS
<1>2. n \in Nat BY <1>1, Size
<1>3. PICK s : s = Increasing(S) OBVIOUS
<1>4. s \in [1..n -> S] /\ \A i, j \in 1..n : i < j => s[i] < s[j]
  <2>1. \E t \in [1..n -> S] : \A i, j \in 1..n : i < j => t[i] < t[j]
    BY <1>1, ListExists DEF Lists
  <2> QED BY <2>1, <1>1, <1>3 DEF Increasing
<1>5. s \in Seq(S) /\ Len(s) = n /\ DOMAIN s = 1..n BY <1>2, <1>4
<1>6. \A i, j \in 1..n : s[i] = s[j] => i = j
  <2> SUFFICES ASSUME NEW i \in 1..n, NEW j \in 1..n, i # j PROVE s[i] # s[j] OBVIOUS
  <2>1. i < j \/ j < i BY <1>2
  <2>2. s[i] \in Nat /\ s[j] \in Nat BY <1>4
  <2>3. s[i] < s[j] \/ s[j] < s[i] BY <2>1, <1>4
  <2> QED BY <2>2, <2>3
<1>7. s \in Fin!Injection(1..n, S) BY <1>4, <1>6 DEF Fin!Injection, Fin!IsInjective
<1>8. Cardinality(1..n) = n /\ IsFiniteSet(1..n)
  <2>1. IsFiniteSet(1..n) /\ Cardinality(1..n) = IF 1 > n THEN 0 ELSE n - 1 + 1
    BY <1>2, Fin!FS_Interval, SameSets
  <2> QED BY <2>1, <1>2
<1>9. s \in Fin!Surjection(1..n, S) BY <1>1, <1>7, <1>8, Fin!FS_Injection, SameSets
<1>10. \A x \in S : Holds(s, x) BY <1>5, <1>9 DEF Fin!Surjection, Holds
<1> QED BY <1>1, <1>3, <1>5, <1>10 DEF Covers

LEMMA ReverseCovers ==
    ASSUME NEW S, NEW s, Covers(s, S)
    PROVE  Covers(Reverse(s), S) /\ Len(Reverse(s)) = Len(s)
<1>1. PICK n : n = Len(s) OBVIOUS
<1>2. n \in Nat /\ DOMAIN s = 1..n /\ \A i \in 1..n : s[i] \in S BY <1>1 DEF Covers
<1>3. PICK r : r = Reverse(s) OBVIOUS
<1>4. r = [i \in 1..n |-> s[(n - i) + 1]] BY <1>1, <1>3 DEF Reverse
<1>5. \A i \in 1..n : (n - i) + 1 \in 1..n BY <1>2
<1>6. r \in Seq(S) /\ Len(r) = n /\ DOMAIN r = 1..n BY <1>2, <1>4, <1>5
<1>7. ASSUME NEW x \in S PROVE Holds(r, x)
  <2>1. PICK i \in 1..n : s[i] = x BY <1>2 DEF Covers, Holds
  <2>2. (n - i) + 1 \in 1..n /\ (n - ((n - i) + 1)) + 1 = i BY <1>2
  <2>3. r[(n - i) + 1] = x BY <2>1, <2>2, <1>4
  <2> QED BY <2>2, <2>3, <1>6 DEF Holds
<1> QED BY <1>1, <1>3, <1>6, <1>7 DEF Covers

LEMMA DecreasingCovers ==
    ASSUME NEW S \in SUBSET Functions
    PROVE  Covers(Decreasing(S), S) /\ Len(Decreasing(S)) = Cardinality(S) /\ Cardinality(S) \in Nat
<1>1. S \in SUBSET Nat /\ IsFiniteSet(S) /\ Cardinality(S) \in Nat
  BY FunctionsAreIds, PartSize
<1>2. Covers(Increasing(S), S) /\ Len(Increasing(S)) = Cardinality(S) BY <1>1, IncreasingCovers
<1> QED BY <1>1, <1>2, ReverseCovers DEF Decreasing

\* The stack entries a set is pushed as.
Entries(S) == [i \in 1..Cardinality(S) |-> <<Decreasing(S)[i], FALSE>>]

LEMMA EntriesHold ==
    ASSUME NEW S \in SUBSET Functions
    PROVE  /\ Entries(S) \in Seq(Functions \X BOOLEAN)
           /\ \A i \in DOMAIN Entries(S) : \E x \in S : Entries(S)[i] = <<x, FALSE>>
           /\ \A x \in S : Holds(Entries(S), <<x, FALSE>>)
<1>1. PICK d : d = Decreasing(S) OBVIOUS
<1>2. PICK n : n = Cardinality(S) OBVIOUS
<1>3. d \in Seq(S) /\ (\A x \in S : Holds(d, x)) /\ Len(d) = n /\ n \in Nat
  BY <1>1, <1>2, DecreasingCovers DEF Covers
<1>4. PICK e : e = Entries(S) OBVIOUS
<1>5. e = [i \in 1..n |-> <<d[i], FALSE>>] BY <1>1, <1>2, <1>4 DEF Entries
<1>6. DOMAIN d = 1..n /\ \A i \in 1..n : d[i] \in S BY <1>3
<1>7. DOMAIN e = 1..n /\ e \in Seq(Functions \X BOOLEAN)
  <2>1. \A i \in 1..n : <<d[i], FALSE>> \in Functions \X BOOLEAN BY <1>6
  <2>2. e \in [1..n -> Functions \X BOOLEAN] BY <2>1, <1>5
  <2> QED BY <2>2, <1>3
<1>8. \A i \in DOMAIN e : \E x \in S : e[i] = <<x, FALSE>> BY <1>5, <1>6, <1>7
<1>9. \A x \in S : Holds(e, <<x, FALSE>>) BY <1>3, <1>5, <1>6, <1>7 DEF Holds
<1> QED BY <1>4, <1>7, <1>8, <1>9

-----------------------------------------------------------------------------
(* The search stacks. *)

\* t is s with its top, at n, replaced by the entries of p.
Replaces(s, t, p, n) ==
    /\ DOMAIN s \subseteq Nat /\ DOMAIN t \subseteq Nat /\ n \in DOMAIN s
    /\ \A i \in DOMAIN s : i = n \/ (i < n /\ i \in DOMAIN t /\ t[i] = s[i])
    /\ \A j \in DOMAIN t :
          \/ j < n /\ j \in DOMAIN s /\ t[j] = s[j]
          \/ j >= n /\ \E k \in DOMAIN p : t[j] = p[k] /\ (k = 1 <=> j = n)
    /\ \A k \in DOMAIN p : \E j \in DOMAIN t : j >= n /\ t[j] = p[k] /\ (k = 1 <=> j = n)

LEMMA ReplacesArith ==
    ASSUME NEW n \in Nat, n # 0, NEW m \in Nat, NEW s, NEW t, NEW p,
           DOMAIN s = 1..n, DOMAIN p = 1..m, DOMAIN t = 1..((n - 1) + m),
           \A i \in 1..(n - 1) : t[i] = s[i],
           \A k \in 1..m : t[(n - 1) + k] = p[k]
    PROVE  Replaces(s, t, p, n)
<1>1. DOMAIN s \subseteq Nat /\ DOMAIN t \subseteq Nat /\ n \in DOMAIN s
  <2>1. \A i \in 1..n : i \in Nat OBVIOUS
  <2>2. \A i \in 1..((n - 1) + m) : i \in Nat OBVIOUS
  <2>3. n \in 1..n OBVIOUS
  <2> QED BY <2>1, <2>2, <2>3
<1>2. ASSUME NEW i \in DOMAIN s PROVE i = n \/ (i < n /\ i \in DOMAIN t /\ t[i] = s[i])
  <2>1. i = n \/ (i < n /\ i \in 1..(n - 1) /\ i \in 1..((n - 1) + m)) OBVIOUS
  <2> QED BY <2>1
<1>3. ASSUME NEW j \in DOMAIN t
      PROVE  \/ j < n /\ j \in DOMAIN s /\ t[j] = s[j]
             \/ j >= n /\ \E k \in DOMAIN p : t[j] = p[k] /\ (k = 1 <=> j = n)
  <2>1. CASE j < n
    <3>1. j \in 1..(n - 1) /\ j \in 1..n BY <2>1
    <3> QED BY <3>1, <2>1
  <2>2. CASE j >= n
    <3>1. PICK k \in Int : k = j - (n - 1) OBVIOUS
    <3>2. k \in 1..m /\ (n - 1) + k = j /\ (k = 1 <=> j = n) BY <3>1, <2>2
    <3> QED BY <3>2, <2>2
  <2>3. j < n \/ j >= n OBVIOUS
  <2> QED BY <2>1, <2>2, <2>3
<1>4. ASSUME NEW k \in DOMAIN p
      PROVE \E j \in DOMAIN t : j >= n /\ t[j] = p[k] /\ (k = 1 <=> j = n)
  <2>1. PICK j \in Int : j = (n - 1) + k OBVIOUS
  <2>2. j >= n /\ (k = 1 <=> j = n) /\ j \in DOMAIN t BY <2>1
  <2> QED BY <2>1, <2>2
<1> QED BY <1>1, <1>2, <1>3, <1>4 DEF Replaces

LEMMA FrontFacts ==
    ASSUME NEW E, NEW s \in Seq(E), s # <<>>
    PROVE  /\ Front(s) \in Seq(E) /\ Len(Front(s)) = Len(s) - 1
           /\ Len(s) \in Nat /\ Len(s) # 0 /\ DOMAIN s = 1..Len(s)
           /\ \A i \in 1..(Len(s) - 1) : Front(s)[i] = s[i]
           /\ Last(s) = s[Len(s)] /\ Last(s) \in E
<1>1. PICK n : n = Len(s) OBVIOUS
<1>2. n \in Nat /\ n # 0 /\ DOMAIN s = 1..n BY <1>1
<1>3. Front(s) = SubSeq(s, 1, n - 1) BY <1>1 DEF Front
<1>4. n - 1 \in Nat /\ n - 1 <= n BY <1>2
<1>5. SubSeq(s, 1, n - 1) \in Seq(E) /\ Len(SubSeq(s, 1, n - 1)) = n - 1
      /\ \A i \in 1..(n - 1) : SubSeq(s, 1, n - 1)[i] = s[i]
  BY <1>1, <1>2, <1>4
<1>6. Last(s) = s[n] /\ s[n] \in E BY <1>1, <1>2 DEF Last
<1> QED BY <1>1, <1>2, <1>3, <1>5, <1>6

Concatenates(E, q, p, t) ==
    /\ t \in Seq(E) /\ Len(q) \in Nat /\ Len(p) \in Nat /\ DOMAIN p = 1..Len(p)
    /\ DOMAIN t = 1..(Len(q) + Len(p))
    /\ \A i \in 1..Len(q) : t[i] = q[i]
    /\ \A k \in 1..Len(p) : t[Len(q) + k] = p[k]

LEMMA CatFacts ==
    ASSUME NEW E, NEW q \in Seq(E), NEW p \in Seq(E), NEW t, t = q \o p
    PROVE  Concatenates(E, q, p, t)
<1>1. PICK u : u = q \o p OBVIOUS
<1>2. /\ u \in Seq(E) /\ Len(q) \in Nat /\ Len(p) \in Nat /\ DOMAIN p = 1..Len(p)
      /\ DOMAIN u = 1..(Len(q) + Len(p))
      /\ \A i \in 1..Len(q) : u[i] = q[i]
      /\ \A k \in 1..Len(p) : u[Len(q) + k] = p[k]
  BY <1>1
<1> QED BY <1>1, <1>2 DEF Concatenates

LEMMA FrontPush ==
    ASSUME NEW E, NEW s \in Seq(E), s # <<>>, NEW p \in Seq(E)
    PROVE  /\ Front(s) \o p \in Seq(E) /\ Replaces(s, Front(s) \o p, p, Len(s))
           /\ Last(s) = s[Len(s)] /\ Last(s) \in E
<1>1. PICK q : q = Front(s) OBVIOUS
<1>2. PICK t : t = q \o p OBVIOUS
<1>3. PICK n : n = Len(s) OBVIOUS
<1>4. PICK m : m = Len(p) OBVIOUS
<1>5. /\ q \in Seq(E) /\ Len(q) = n - 1 /\ n \in Nat /\ n # 0 /\ DOMAIN s = 1..n
      /\ \A i \in 1..(n - 1) : q[i] = s[i]
      /\ Last(s) = s[n] /\ Last(s) \in E
  BY <1>1, <1>3, FrontFacts
<1>6. /\ t \in Seq(E) /\ m \in Nat /\ DOMAIN p = 1..m
      /\ DOMAIN t = 1..((n - 1) + m)
      /\ \A i \in 1..(n - 1) : t[i] = q[i]
      /\ \A k \in 1..m : t[(n - 1) + k] = p[k]
  <2>1. Concatenates(E, q, p, t) BY <1>2, <1>5, CatFacts
  <2> QED BY ONLY <2>1, <1>4, <1>5 DEF Concatenates
<1>7. \A i \in 1..(n - 1) : t[i] = s[i] BY <1>5, <1>6
<1>8. Replaces(s, t, p, n)
  <2> HIDE <1>1, <1>2, <1>3, <1>4
  <2> QED BY <1>5, <1>6, <1>7, ReplacesArith
<1> QED BY <1>1, <1>2, <1>3, <1>5, <1>6, <1>8

\* The entries a function is expanded into: itself, then its callees.
LEMMA ExpandedFacts ==
    ASSUME calls \in [Functions -> SUBSET Functions], NEW f \in Functions
    PROVE  /\ Expanded(f) \in Seq(Functions \X BOOLEAN)
           /\ 1 \in DOMAIN Expanded(f) /\ Expanded(f)[1] = <<f, TRUE>>
           /\ \A k \in DOMAIN Expanded(f) : k # 1 => \E x \in calls[f] : Expanded(f)[k] = <<x, FALSE>>
           /\ \A x \in calls[f] : \E k \in DOMAIN Expanded(f) : k # 1 /\ Expanded(f)[k] = <<x, FALSE>>
<1>1. calls[f] \in SUBSET Functions OBVIOUS
<1>2. PICK e : e = Entries(calls[f]) OBVIOUS
<1>3. /\ e \in Seq(Functions \X BOOLEAN)
      /\ \A i \in DOMAIN e : \E x \in calls[f] : e[i] = <<x, FALSE>>
      /\ \A x \in calls[f] : Holds(e, <<x, FALSE>>)
  BY <1>1, <1>2, EntriesHold
<1>4. PICK h : h = <<f, TRUE>> OBVIOUS
<1>5. h \in Functions \X BOOLEAN BY <1>4
<1>6. PICK p : p = <<h>> \o e OBVIOUS
<1>7. Expanded(f) = p BY <1>2, <1>4, <1>6 DEF Expanded, Entries
<1>8. PICK m : m = Len(e) OBVIOUS
<1>9. m \in Nat /\ DOMAIN e = 1..m BY <1>3, <1>8
<1>10. p \in Seq(Functions \X BOOLEAN) /\ Len(p) = m + 1 BY <1>3, <1>5, <1>6, <1>8
<1>11. DOMAIN p = 1..(m + 1) BY <1>10
<1>12. p[1] = h /\ 1 \in DOMAIN p BY <1>6, <1>9, <1>11, <1>3
<1>13. \A k \in 1..m : p[k + 1] = e[k] /\ k + 1 \in DOMAIN p /\ k + 1 # 1 BY <1>3, <1>6, <1>8, <1>9, <1>11
<1>14. \A k \in DOMAIN p : k # 1 => \E x \in calls[f] : p[k] = <<x, FALSE>>
  <2> SUFFICES ASSUME NEW k \in DOMAIN p, k # 1 PROVE \E x \in calls[f] : p[k] = <<x, FALSE>> OBVIOUS
  <2>1. k - 1 \in 1..m /\ (k - 1) + 1 = k BY <1>9, <1>11
  <2>2. p[k] = e[k - 1] BY <2>1, <1>13
  <2> QED BY <2>1, <2>2, <1>3, <1>9
<1>15. \A x \in calls[f] : \E k \in DOMAIN p : k # 1 /\ p[k] = <<x, FALSE>>
  <2> SUFFICES ASSUME NEW x \in calls[f] PROVE \E k \in DOMAIN p : k # 1 /\ p[k] = <<x, FALSE>> OBVIOUS
  <2>1. PICK i \in 1..m : e[i] = <<x, FALSE>> BY <1>3, <1>9 DEF Holds
  <2> QED BY <2>1, <1>13
<1> QED BY <1>4, <1>7, <1>10, <1>12, <1>14, <1>15

LEMMA DropTop ==
    ASSUME NEW s, NEW t, NEW n, Replaces(s, t, <<>>, n)
    PROVE  /\ DOMAIN s \subseteq Nat /\ DOMAIN t \subseteq Nat /\ n \in DOMAIN s
           /\ \A i \in DOMAIN s : i = n \/ (i < n /\ i \in DOMAIN t /\ t[i] = s[i])
           /\ \A j \in DOMAIN t : j < n /\ j \in DOMAIN s /\ t[j] = s[j]
<1>1. DOMAIN <<>> = {} OBVIOUS
<1> QED BY <1>1 DEF Replaces

\* t is s with x added, at l.
Appends(s, t, x, l) ==
    /\ DOMAIN s \subseteq Nat /\ DOMAIN t \subseteq Nat /\ l \in DOMAIN t /\ t[l] = x
    /\ \A i \in DOMAIN s : i < l /\ i \in DOMAIN t /\ t[i] = s[i]
    /\ \A i \in DOMAIN t : i = l \/ (i \in DOMAIN s /\ t[i] = s[i])

LEMMA AppendFacts ==
    ASSUME NEW E, NEW s \in Seq(E), NEW x \in E, NEW t, t = Append(s, x)
    PROVE  t \in Seq(E) /\ Appends(s, t, x, Len(s) + 1)
<1>1. PICK n : n = Len(s) OBVIOUS
<1>2. n \in Nat /\ DOMAIN s = 1..n BY <1>1
<1>3. PICK u : u = Append(s, x) OBVIOUS
<1>4. u \in Seq(E) /\ DOMAIN u = 1..(n + 1) /\ u[n + 1] = x /\ \A i \in 1..n : u[i] = s[i]
  BY <1>1, <1>2, <1>3
<1>5. /\ \A i \in 1..n : i \in Nat /\ i < n + 1 /\ i \in 1..(n + 1)
      /\ \A i \in 1..(n + 1) : i \in Nat /\ (i = n + 1 \/ i \in 1..n)
      /\ n + 1 \in 1..(n + 1)
  BY <1>2
<1>6. Appends(s, u, x, n + 1) BY ONLY <1>2, <1>4, <1>5 DEF Appends
<1> QED BY <1>1, <1>3, <1>4, <1>6

-----------------------------------------------------------------------------
(* The steps of the first search. *)

\* An open function is finished.
Finishes(f, n, l) ==
    /\ stack[n] = <<f, TRUE>> /\ Replaces(stack, stack', <<>>, n)
    /\ Appends(finish, finish', f, l) /\ visited' = visited

\* A function that has been visited is dropped.
Skips(f, n) ==
    /\ stack[n] = <<f, FALSE>> /\ Replaces(stack, stack', <<>>, n)
    /\ f \in visited /\ finish' = finish /\ visited' = visited

\* A function is opened.
Opens(f, n) ==
    /\ stack[n] = <<f, FALSE>> /\ Replaces(stack, stack', Expanded(f), n)
    /\ f \notin visited /\ finish' = finish /\ visited' = visited \cup {f}

LEMMA SearchPopStep ==
    ASSUME TypeOK, SearchPop
    PROVE  /\ stack' \in Seq(Functions \X BOOLEAN) /\ finish' \in Seq(Functions)
           /\ visited' \subseteq Functions
           /\ \E f \in Functions : \E n, l : Finishes(f, n, l) \/ Skips(f, n) \/ Opens(f, n)
<1>t. /\ stack \in Seq(Functions \X BOOLEAN) /\ stack # <<>> /\ finish \in Seq(Functions)
      /\ calls \in [Functions -> SUBSET Functions] /\ visited \subseteq Functions
  BY DEF TypeOK, SearchPop
<1>1. PICK n : n = Len(stack) OBVIOUS
<1>e. <<>> \in Seq(Functions \X BOOLEAN) OBVIOUS
<1>2. Last(stack) = stack[n] /\ Last(stack) \in Functions \X BOOLEAN
  BY <1>t, <1>e, <1>1, FrontPush
<1>3. PICK f \in Functions, e \in BOOLEAN : stack[n] = <<f, e>> /\ Last(stack) = <<f, e>> BY <1>2
<1>4. /\ finish' = IF e THEN Append(finish, f) ELSE finish
      /\ stack' = Front(stack) \o (IF e \/ f \in visited THEN <<>> ELSE Expanded(f))
      /\ visited' = IF e THEN visited ELSE visited \cup {f}
  <2>1. Last(stack)[1] = f /\ Last(stack)[2] = e BY <1>3
  <2> QED BY <2>1 DEF SearchPop
<1>5. CASE e
  <2>1. stack' = Front(stack) \o <<>> BY <1>4, <1>5
  <2>2. stack' \in Seq(Functions \X BOOLEAN) /\ Replaces(stack, stack', <<>>, n)
    BY <2>1, <1>1, <1>t, <1>e, FrontPush
  <2>3. finish' \in Seq(Functions) /\ Appends(finish, finish', f, Len(finish) + 1)
    BY <1>4, <1>5, <1>t, AppendFacts
  <2>4. visited' = visited /\ stack[n] = <<f, TRUE>> BY <1>3, <1>4, <1>5
  <2> QED BY <2>2, <2>3, <2>4, <1>t DEF Finishes
<1>6. CASE ~e /\ f \in visited
  <2>1. stack' = Front(stack) \o <<>> BY <1>4, <1>6
  <2>2. stack' \in Seq(Functions \X BOOLEAN) /\ Replaces(stack, stack', <<>>, n)
    BY <2>1, <1>1, <1>t, <1>e, FrontPush
  <2>3. visited' = visited /\ finish' = finish /\ stack[n] = <<f, FALSE>> BY <1>3, <1>4, <1>6
  <2> QED BY <2>2, <2>3, <1>t, <1>6 DEF Skips
<1>7. CASE ~e /\ f \notin visited
  <2>1. stack' = Front(stack) \o Expanded(f) BY <1>4, <1>7
  <2>2. Expanded(f) \in Seq(Functions \X BOOLEAN) BY <1>t, ExpandedFacts
  <2>3. stack' \in Seq(Functions \X BOOLEAN) /\ Replaces(stack, stack', Expanded(f), n)
    BY <2>1, <2>2, <1>1, <1>t, FrontPush
  <2>4. visited' = visited \cup {f} /\ finish' = finish /\ stack[n] = <<f, FALSE>>
    BY <1>3, <1>4, <1>7
  <2> QED BY <2>3, <2>4, <1>t, <1>7 DEF Opens
<1> QED BY <1>5, <1>6, <1>7

LEMMA EntriesDiffer == \A f, g : <<f, TRUE>> # <<g, FALSE>>
<1>1. \A f : <<f, TRUE>>[2] = TRUE OBVIOUS
<1>2. \A g : <<g, FALSE>>[2] = FALSE OBVIOUS
<1> QED BY <1>1, <1>2, Zenon

\* What a search step leaves alone.
Rest == calls' = calls /\ roots' = roots /\ members' = members /\ groups' = groups

LEMMA FinishKeeps ==
    ASSUME TypeOK, SearchInv, Rest, NEW f \in Functions, NEW n, NEW l, Finishes(f, n, l)
    PROVE  SearchInv'
<1>c. calls \in [Functions -> SUBSET Functions] BY DEF TypeOK
<1>r. calls' = calls /\ roots' = roots /\ members' = members /\ groups' = groups BY DEF Rest
<1>f. stack[n] = <<f, TRUE>> /\ visited' = visited BY DEF Finishes
<1>s. /\ DOMAIN stack \subseteq Nat /\ DOMAIN stack' \subseteq Nat /\ n \in DOMAIN stack
      /\ \A i \in DOMAIN stack : i = n \/ (i < n /\ i \in DOMAIN stack' /\ stack'[i] = stack[i])
      /\ \A j \in DOMAIN stack' : j < n /\ j \in DOMAIN stack /\ stack'[j] = stack[j]
  BY DropTop DEF Finishes
<1>a. /\ DOMAIN finish \subseteq Nat /\ DOMAIN finish' \subseteq Nat
      /\ l \in DOMAIN finish' /\ finish'[l] = f
      /\ \A i \in DOMAIN finish : i < l /\ i \in DOMAIN finish' /\ finish'[i] = finish[i]
      /\ \A i \in DOMAIN finish' : i = l \/ (i \in DOMAIN finish /\ finish'[i] = finish[i])
  BY DEF Finishes, Appends
<1>i. /\ NoneForgotten /\ VisitedStates /\ StackReached /\ CalleesWait /\ LeadsBack
      /\ LastOfComponent /\ members = {} /\ groups = <<>> BY DEF SearchInv
<1>1. \A g : Waiting(g)' <=> Waiting(g) BY <1>f, <1>s, EntriesDiffer DEF Waiting, Holds
<1>2. \A g : /\ Open(g)' => Open(g) /\ To(calls, g, f)
             /\ Open(g) => Open(g)' \/ g = f
  <2>1. ASSUME NEW g, Open(g)' PROVE Open(g) /\ To(calls, g, f)
    <3>1. PICK i \in DOMAIN stack' : stack'[i] = <<g, TRUE>> BY <2>1 DEF Open, Holds
    <3>2. i < n /\ i \in DOMAIN stack /\ stack[i] = <<g, TRUE>> BY <3>1, <1>s
    <3>3. Open(g) BY <3>2 DEF Open, Holds
    <3>4. stack[i][2] /\ stack[i][1] = g /\ stack[n][1] = f BY <3>2, <1>f
    <3>5. To(calls, g, f) BY <3>2, <3>4, <1>s, <1>i DEF StackReached
    <3> QED BY <3>3, <3>5
  <2>2. ASSUME NEW g, Open(g) PROVE Open(g)' \/ g = f
    <3>1. PICK i \in DOMAIN stack : stack[i] = <<g, TRUE>> BY <2>2 DEF Open, Holds
    <3>2. CASE i = n BY <3>1, <3>2, <1>f
    <3>3. CASE i < n /\ i \in DOMAIN stack' /\ stack'[i] = stack[i]
      BY <3>1, <3>3 DEF Open, Holds
    <3> QED BY <3>2, <3>3, <1>s
  <2> QED BY <2>1, <2>2
<1>3. \A g : /\ Finished(g)' => Finished(g) \/ g = f
             /\ Finished(g) \/ g = f => Finished(g)'
  BY <1>a DEF Finished, Holds
<1>4. Open(f) BY <1>f, <1>s DEF Open, Holds
<1>5. NoneForgotten' BY <1>1, <1>f, <1>r, <1>i DEF NoneForgotten
<1>6. VisitedStates' BY <1>2, <1>3, <1>4, <1>f, <1>i DEF VisitedStates
<1>7. StackReached'
  <2> SUFFICES ASSUME NEW i \in DOMAIN stack', NEW j \in DOMAIN stack', i < j, stack'[i][2]
               PROVE  To(calls', stack'[i][1], stack'[j][1]) BY DEF StackReached
  <2>1. i \in DOMAIN stack /\ j \in DOMAIN stack /\ stack[i][2] BY <1>s
  <2>2. To(calls, stack[i][1], stack[j][1]) BY <2>1, <1>i DEF StackReached
  <2> QED BY <2>2, <1>s, <1>r
<1>8. CalleesWait'
  <2> SUFFICES ASSUME NEW h \in visited', NEW g \in calls'[h], g \notin visited'
               PROVE  \E i, j \in DOMAIN stack' :
                         i < j /\ stack'[i] = <<h, TRUE>> /\ stack'[j] = <<g, FALSE>>
    BY DEF CalleesWait
  <2>1. PICK i \in DOMAIN stack, j \in DOMAIN stack :
           i < j /\ stack[i] = <<h, TRUE>> /\ stack[j] = <<g, FALSE>>
    BY <1>f, <1>r, <1>i DEF CalleesWait
  <2>2. j # n BY <2>1, <1>f, EntriesDiffer
  <2>3. j < n /\ j \in DOMAIN stack' /\ stack'[j] = stack[j] BY <2>2, <1>s
  <2>4. i # n BY <2>1, <2>3, <1>s
  <2>5. i \in DOMAIN stack' /\ stack'[i] = stack[i] BY <2>4, <1>s
  <2> QED BY <2>1, <2>3, <2>5
<1>9. LeadsBack'
  <2> SUFFICES ASSUME NEW h \in Functions, NEW g \in Functions,
                      Finished(h)', Open(g)', To(calls, h, g)
               PROVE  \E o \in Functions : Open(o)' /\ Same(calls, h, o)
    BY <1>r DEF LeadsBack
  <2>1. Open(g) /\ To(calls, g, f) BY <1>2
  <2>2. CASE h = f
    <3>1. Same(calls, h, g) BY <2>1, <2>2 DEF Same
    <3> QED BY <3>1
  <2>3. CASE Finished(h)
    <3>1. PICK o \in Functions : Open(o) /\ Same(calls, h, o) BY <2>1, <2>3, <1>i DEF LeadsBack
    <3>2. CASE o = f
      <4>1. To(calls, f, h) BY <3>1, <3>2 DEF Same
      <4>2. To(calls, g, h) BY <4>1, <2>1, <1>c, ToTransitive
      <4> QED BY <4>2 DEF Same
    <3> QED BY <3>1, <3>2, <1>2
  <2> QED BY <2>2, <2>3, <1>3
<1>10. LastOfComponent'
  <2> SUFFICES ASSUME NEW i \in DOMAIN finish', NEW j \in DOMAIN finish',
                      To(calls, finish'[i], finish'[j])
               PROVE  \/ \E k \in DOMAIN finish' : k >= j /\ Same(calls, finish'[i], finish'[k])
                      \/ \E o \in Functions : Open(o)' /\ Same(calls, finish'[i], o)
    BY <1>r DEF LastOfComponent
  <2>1. l >= j BY <1>a
  <2>2. Same(calls, finish'[i], f) =>
            \E k \in DOMAIN finish' : k >= j /\ Same(calls, finish'[i], finish'[k])
    BY <2>1, <1>a
  <2>3. CASE i = l
    <3>1. Same(calls, finish'[i], f) BY <2>3, <1>a, <1>c, SameRelation
    <3> QED BY <3>1, <2>2
  <2>4. CASE i \in DOMAIN finish /\ finish'[i] = finish[i]
    <3>1. CASE j = l
      <4>1. finish[i] \in Functions /\ Finished(finish[i])
        BY <2>4 DEF TypeOK, Finished, Holds
      <4>2. PICK o \in Functions : Open(o) /\ Same(calls, finish[i], o)
        BY <4>1, <2>4, <3>1, <1>4, <1>a, <1>i DEF LeadsBack
      <4> QED BY <4>2, <2>2, <2>4, <1>2
    <3>2. CASE j \in DOMAIN finish /\ finish'[j] = finish[j]
      <4>1. \/ \E k \in DOMAIN finish : k >= j /\ Same(calls, finish[i], finish[k])
            \/ \E o \in Functions : Open(o) /\ Same(calls, finish[i], o)
        BY <2>4, <3>2, <1>i DEF LastOfComponent
      <4>2. ASSUME NEW k \in DOMAIN finish, k >= j, Same(calls, finish[i], finish[k])
            PROVE \E m \in DOMAIN finish' : m >= j /\ Same(calls, finish'[i], finish'[m])
        BY <4>2, <2>4, <1>a
      <4>3. ASSUME NEW o \in Functions, Open(o), Same(calls, finish[i], o)
            PROVE Open(o)' \/ Same(calls, finish'[i], f)
        BY <4>3, <2>4, <1>2
      <4> QED BY <4>1, <4>2, <4>3, <2>2, <2>4
    <3> QED BY <3>1, <3>2, <1>a
  <2> QED BY <2>3, <2>4, <1>a
<1> QED BY <1>5, <1>6, <1>7, <1>8, <1>9, <1>10, <1>i, <1>r DEF SearchInv

LEMMA SkipKeeps ==
    ASSUME TypeOK, SearchInv, Rest, NEW f \in Functions, NEW n, Skips(f, n)
    PROVE  SearchInv'
<1>r. calls' = calls /\ roots' = roots /\ members' = members /\ groups' = groups BY DEF Rest
<1>f. stack[n] = <<f, FALSE>> /\ f \in visited /\ visited' = visited /\ finish' = finish BY DEF Skips
<1>s. /\ DOMAIN stack \subseteq Nat /\ DOMAIN stack' \subseteq Nat /\ n \in DOMAIN stack
      /\ \A i \in DOMAIN stack : i = n \/ (i < n /\ i \in DOMAIN stack' /\ stack'[i] = stack[i])
      /\ \A j \in DOMAIN stack' : j < n /\ j \in DOMAIN stack /\ stack'[j] = stack[j]
  BY DropTop DEF Skips
<1>i. /\ NoneForgotten /\ VisitedStates /\ StackReached /\ CalleesWait /\ LeadsBack
      /\ LastOfComponent /\ members = {} /\ groups = <<>> BY DEF SearchInv
<1>1. \A g : Waiting(g) => Waiting(g)' \/ g = f
  <2> SUFFICES ASSUME NEW g, Waiting(g) PROVE Waiting(g)' \/ g = f OBVIOUS
  <2>1. PICK i \in DOMAIN stack : stack[i] = <<g, FALSE>> BY DEF Waiting, Holds
  <2>2. CASE i = n
    <3>1. stack[i][1] = g /\ stack[n][1] = f BY <2>1, <1>f
    <3> QED BY <3>1, <2>2
  <2>3. CASE i < n /\ i \in DOMAIN stack' /\ stack'[i] = stack[i] BY <2>1, <2>3 DEF Waiting, Holds
  <2> QED BY <2>2, <2>3, <1>s
<1>2. \A g : Open(g)' <=> Open(g) BY <1>f, <1>s, EntriesDiffer DEF Open, Holds
<1>3. \A g : Finished(g)' <=> Finished(g) BY <1>f DEF Finished
<1>5. NoneForgotten' BY <1>1, <1>f, <1>r, <1>i DEF NoneForgotten
<1>6. VisitedStates' BY <1>2, <1>3, <1>f, <1>i DEF VisitedStates
<1>7. StackReached'
  <2> SUFFICES ASSUME NEW i \in DOMAIN stack', NEW j \in DOMAIN stack', i < j, stack'[i][2]
               PROVE  To(calls', stack'[i][1], stack'[j][1]) BY DEF StackReached
  <2>1. i \in DOMAIN stack /\ j \in DOMAIN stack /\ stack[i][2] BY <1>s
  <2>2. To(calls, stack[i][1], stack[j][1]) BY <2>1, <1>i DEF StackReached
  <2> QED BY <2>2, <1>s, <1>r
<1>8. CalleesWait'
  <2> SUFFICES ASSUME NEW h \in visited', NEW g \in calls'[h], g \notin visited'
               PROVE  \E i, j \in DOMAIN stack' :
                         i < j /\ stack'[i] = <<h, TRUE>> /\ stack'[j] = <<g, FALSE>>
    BY DEF CalleesWait
  <2>1. PICK i \in DOMAIN stack, j \in DOMAIN stack :
           i < j /\ stack[i] = <<h, TRUE>> /\ stack[j] = <<g, FALSE>>
    BY <1>f, <1>r, <1>i DEF CalleesWait
  <2>2. j # n /\ i # n
    <3>1. i # n BY <2>1, <1>f, EntriesDiffer
    <3>2. stack[j][1] = g /\ stack[n][1] = f /\ g # f BY <2>1, <1>f
    <3> QED BY <3>1, <3>2
  <2>3. /\ j \in DOMAIN stack' /\ stack'[j] = stack[j]
        /\ i \in DOMAIN stack' /\ stack'[i] = stack[i] BY <2>2, <1>s
  <2> QED BY <2>1, <2>3
<1>9. LeadsBack' BY <1>2, <1>3, <1>r, <1>i DEF LeadsBack
<1>10. LastOfComponent' BY <1>2, <1>f, <1>r, <1>i DEF LastOfComponent
<1> QED BY <1>5, <1>6, <1>7, <1>8, <1>9, <1>10, <1>i, <1>r DEF SearchInv

\* A finished function that reaches one not yet visited reaches an open one.
LEMMA ReachesOpen ==
    ASSUME TypeOK, VisitedStates, CalleesWait,
           NEW h \in Functions, Finished(h), NEW f \in Functions, f \notin visited, To(calls, h, f)
    PROVE  \E g \in Functions : Open(g) /\ To(calls, h, g)
<1>c. calls \in [Functions -> SUBSET Functions] /\ visited \subseteq Functions BY DEF TypeOK
<1> SUFFICES ASSUME \A g \in Functions : To(calls, h, g) => ~Open(g) PROVE FALSE OBVIOUS
<1>1. PICK X : X = {x \in visited : To(calls, h, x)} OBVIOUS
<1>2. X \in SUBSET Functions BY <1>1, <1>c
<1>3. CallClosed(calls, X)
  <2> SUFFICES ASSUME NEW x \in X, NEW y \in calls[x] PROVE y \in X BY DEF CallClosed
  <2>1. x \in visited /\ x \in Functions /\ To(calls, h, x) BY <1>1, <1>2
  <2>2. ~Open(x) BY <2>1
  <2>3. y \in visited BY <2>1, <2>2 DEF CalleesWait, Open, Holds
  <2>4. To(calls, x, y) BY <2>1, <1>c, ToCallee
  <2>5. To(calls, h, y) BY <2>1, <2>4, <1>c, ToTransitive
  <2> QED BY <2>3, <2>5, <1>1
<1>4. h \in X BY <1>1, <1>c, SameRelation DEF VisitedStates, Same
<1>5. f \in X BY <1>2, <1>3, <1>4, <1>c, ClosedForward
<1> QED BY <1>1, <1>5

LEMMA OpenKeeps ==
    ASSUME TypeOK, SearchInv, Rest, NEW f \in Functions, NEW n, Opens(f, n)
    PROVE  SearchInv'
<1>c. calls \in [Functions -> SUBSET Functions] /\ visited \subseteq Functions BY DEF TypeOK
<1>r. calls' = calls /\ roots' = roots /\ members' = members /\ groups' = groups BY DEF Rest
<1>f. stack[n] = <<f, FALSE>> /\ f \notin visited /\ visited' = visited \cup {f} /\ finish' = finish
  BY DEF Opens
<1>p. PICK p : p = Expanded(f) OBVIOUS
<1>e. /\ 1 \in DOMAIN p /\ p[1] = <<f, TRUE>>
      /\ \A k \in DOMAIN p : k # 1 => \E x \in calls[f] : p[k] = <<x, FALSE>>
      /\ \A x \in calls[f] : \E k \in DOMAIN p : k # 1 /\ p[k] = <<x, FALSE>>
  BY <1>p, <1>c, ExpandedFacts
<1>q. Replaces(stack, stack', p, n) BY <1>p DEF Opens
<1>s. /\ DOMAIN stack \subseteq Nat /\ DOMAIN stack' \subseteq Nat /\ n \in DOMAIN stack
      /\ \A i \in DOMAIN stack : i = n \/ (i < n /\ i \in DOMAIN stack' /\ stack'[i] = stack[i])
  BY <1>q DEF Replaces
<1>u. /\ \A j \in DOMAIN stack' :
            \/ j < n /\ j \in DOMAIN stack /\ stack'[j] = stack[j]
            \/ j = n /\ stack'[j] = <<f, TRUE>>
            \/ j > n /\ \E x \in calls[f] : stack'[j] = <<x, FALSE>>
      /\ n \in DOMAIN stack' /\ stack'[n] = <<f, TRUE>>
      /\ \A x \in calls[f] : \E j \in DOMAIN stack' : j > n /\ stack'[j] = <<x, FALSE>>
  <2>1. ASSUME NEW j \in DOMAIN stack'
        PROVE  \/ j < n /\ j \in DOMAIN stack /\ stack'[j] = stack[j]
               \/ j = n /\ stack'[j] = <<f, TRUE>>
               \/ j > n /\ \E x \in calls[f] : stack'[j] = <<x, FALSE>>
    <3>1. \/ j < n /\ j \in DOMAIN stack /\ stack'[j] = stack[j]
          \/ j >= n /\ \E k \in DOMAIN p : stack'[j] = p[k] /\ (k = 1 <=> j = n)
      BY <1>q DEF Replaces
    <3>2. CASE j >= n /\ \E k \in DOMAIN p : stack'[j] = p[k] /\ (k = 1 <=> j = n)
      <4>1. PICK k \in DOMAIN p : stack'[j] = p[k] /\ (k = 1 <=> j = n) BY <3>2
      <4>2. CASE j = n BY <4>1, <4>2, <1>e
      <4>3. CASE j # n
        <5>1. j > n BY <4>3, <3>2, <1>s
        <5> QED BY <5>1, <4>1, <4>3, <1>e
      <4> QED BY <4>2, <4>3
    <3> QED BY <3>1, <3>2
  <2>2. n \in DOMAIN stack' /\ stack'[n] = <<f, TRUE>>
    <3>1. PICK j \in DOMAIN stack' : stack'[j] = p[1] /\ j = n BY <1>e, <1>q DEF Replaces
    <3> QED BY <3>1, <1>e
  <2>3. ASSUME NEW x \in calls[f] PROVE \E j \in DOMAIN stack' : j > n /\ stack'[j] = <<x, FALSE>>
    <3>1. PICK k \in DOMAIN p : k # 1 /\ p[k] = <<x, FALSE>> BY <1>e
    <3>2. PICK j \in DOMAIN stack' : j >= n /\ stack'[j] = p[k] /\ j # n BY <3>1, <1>q DEF Replaces
    <3>3. j > n BY <3>2, <1>s
    <3> QED BY <3>1, <3>2, <3>3
  <2> QED BY <2>1, <2>2, <2>3
<1>i. /\ NoneForgotten /\ VisitedStates /\ StackReached /\ CalleesWait /\ LeadsBack
      /\ LastOfComponent /\ members = {} /\ groups = <<>> BY DEF SearchInv
<1>1. \A g : Waiting(g) => Waiting(g)' \/ g = f
  <2> SUFFICES ASSUME NEW g, Waiting(g) PROVE Waiting(g)' \/ g = f OBVIOUS
  <2>1. PICK i \in DOMAIN stack : stack[i] = <<g, FALSE>> BY DEF Waiting, Holds
  <2>2. CASE i = n
    <3>1. stack[i][1] = g /\ stack[n][1] = f BY <2>1, <1>f
    <3> QED BY <3>1, <2>2
  <2>3. CASE i < n /\ i \in DOMAIN stack' /\ stack'[i] = stack[i] BY <2>1, <2>3 DEF Waiting, Holds
  <2> QED BY <2>2, <2>3, <1>s
<1>2. \A g : Open(g)' <=> Open(g) \/ g = f
  <2>1. ASSUME NEW g, Open(g)' PROVE Open(g) \/ g = f
    <3>1. PICK j \in DOMAIN stack' : stack'[j] = <<g, TRUE>> BY <2>1 DEF Open, Holds
    <3>2. CASE j < n /\ j \in DOMAIN stack /\ stack'[j] = stack[j] BY <3>1, <3>2 DEF Open, Holds
    <3>3. CASE stack'[j] = <<f, TRUE>> BY <3>1, <3>3
    <3>4. CASE \E x \in calls[f] : stack'[j] = <<x, FALSE>> BY <3>1, <3>4, EntriesDiffer
    <3> QED BY <3>2, <3>3, <3>4, <1>u
  <2>2. ASSUME NEW g, Open(g) PROVE Open(g)'
    <3>1. PICK i \in DOMAIN stack : stack[i] = <<g, TRUE>> BY <2>2 DEF Open, Holds
    <3>2. i # n BY <3>1, <1>f, EntriesDiffer
    <3> QED BY <3>1, <3>2, <1>s DEF Open, Holds
  <2>3. Open(f)' BY <1>u DEF Open, Holds
  <2> QED BY <2>1, <2>2, <2>3
<1>3. \A g : Finished(g)' <=> Finished(g) BY <1>f DEF Finished
<1>5. NoneForgotten' BY <1>1, <1>f, <1>r, <1>i DEF NoneForgotten
<1>6. VisitedStates' BY <1>2, <1>3, <1>f, <1>i DEF VisitedStates
<1>7. StackReached'
  <2> SUFFICES ASSUME NEW i \in DOMAIN stack', NEW j \in DOMAIN stack', i < j, stack'[i][2]
               PROVE  To(calls, stack'[i][1], stack'[j][1]) BY <1>r DEF StackReached
  <2>1. \A x \in calls[f] : To(calls, f, x) BY <1>c, ToCallee
  <2>2. j >= n => To(calls, f, stack'[j][1])
    <3>1. CASE j = n /\ stack'[j] = <<f, TRUE>> BY <3>1 DEF To
    <3>2. CASE j > n /\ \E x \in calls[f] : stack'[j] = <<x, FALSE>> BY <3>2, <2>1
    <3>3. CASE j < n BY <3>3, <1>s
    <3> QED BY <3>1, <3>2, <3>3, <1>u
  <2>3. CASE i < n /\ i \in DOMAIN stack /\ stack'[i] = stack[i]
    <3>1. To(calls, stack[i][1], f)
      <4>1. stack[i][2] /\ stack[n][1] = f BY <2>3, <1>f
      <4> QED BY <4>1, <2>3, <1>s, <1>i DEF StackReached
    <3>2. CASE j < n /\ j \in DOMAIN stack /\ stack'[j] = stack[j]
      BY <2>3, <3>2, <1>i DEF StackReached
    <3>3. CASE j >= n BY <3>1, <3>3, <2>2, <2>3, <1>c, ToTransitive
    <3>5. (j < n /\ j \in DOMAIN stack /\ stack'[j] = stack[j]) \/ j >= n BY <1>q DEF Replaces
    <3> QED BY <3>2, <3>3, <3>5
  <2>4. CASE i = n /\ stack'[i] = <<f, TRUE>>
    <3>1. stack'[i][1] = f /\ j >= n BY <2>4, <1>s
    <3> QED BY <3>1, <2>2
  <2>5. CASE \E x \in calls[f] : stack'[i] = <<x, FALSE>>
    BY <2>5
  <2> QED BY <2>3, <2>4, <2>5, <1>u
<1>8. CalleesWait'
  <2> SUFFICES ASSUME NEW h \in visited', NEW g \in calls[h], g \notin visited'
               PROVE  \E i, j \in DOMAIN stack' :
                         i < j /\ stack'[i] = <<h, TRUE>> /\ stack'[j] = <<g, FALSE>>
    BY <1>r DEF CalleesWait
  <2>1. CASE h = f
    <3>1. PICK j \in DOMAIN stack' : j > n /\ stack'[j] = <<g, FALSE>> BY <2>1, <1>u
    <3>2. n < j BY <3>1, <1>s
    <3> QED BY <3>1, <3>2, <2>1, <1>u
  <2>2. CASE h \in visited
    <3>1. PICK i \in DOMAIN stack, j \in DOMAIN stack :
             i < j /\ stack[i] = <<h, TRUE>> /\ stack[j] = <<g, FALSE>>
      BY <2>2, <1>f, <1>i DEF CalleesWait
    <3>2. i # n BY <3>1, <1>f, EntriesDiffer
    <3>3. j # n
      <4>1. stack[j][1] = g BY <3>1
      <4>2. stack[n][1] = f /\ f \in visited' BY <1>f
      <4> QED BY <4>1, <4>2
    <3>4. /\ j \in DOMAIN stack' /\ stack'[j] = stack[j]
          /\ i \in DOMAIN stack' /\ stack'[i] = stack[i] BY <3>2, <3>3, <1>s
    <3> QED BY <3>1, <3>4
  <2> QED BY <2>1, <2>2, <1>f
<1>9. LeadsBack'
  <2> SUFFICES ASSUME NEW h \in Functions, NEW g \in Functions,
                      Finished(h), Open(g)', To(calls, h, g)
               PROVE  \E o \in Functions : Open(o) /\ Same(calls, h, o)
    BY <1>2, <1>3, <1>r DEF LeadsBack
  <2>1. \E o \in Functions : Open(o) /\ To(calls, h, o)
    <3>1. CASE g = f BY <3>1, <1>f, <1>i, ReachesOpen
    <3>2. CASE Open(g) BY <3>2
    <3> QED BY <3>1, <3>2, <1>2
  <2> QED BY <2>1, <1>i DEF LeadsBack
<1>10. LastOfComponent' BY <1>2, <1>f, <1>r, <1>i DEF LastOfComponent
<1> QED BY <1>5, <1>6, <1>7, <1>8, <1>9, <1>10, <1>i, <1>r DEF SearchInv

LEMMA TailFacts ==
    ASSUME NEW E, NEW s \in Seq(E), s # <<>>
    PROVE  /\ Tail(s) \in Seq(E) /\ Len(Tail(s)) = Len(s) - 1 /\ Len(s) \in Nat /\ Len(s) # 0
           /\ Head(s) = s[1] /\ Head(s) \in E /\ DOMAIN Tail(s) = 1..(Len(s) - 1)
           /\ \A i \in 1..(Len(s) - 1) : Tail(s)[i] = s[i + 1]
           /\ \A x : Holds(s, x) => x = Head(s) \/ Holds(Tail(s), x)
<1>1. PICK n : n = Len(s) OBVIOUS
<1>2. PICK t : t = Tail(s) OBVIOUS
<1>3. /\ t \in Seq(E) /\ Len(t) = n - 1 /\ n \in Nat /\ n # 0 /\ DOMAIN s = 1..n
      /\ Head(s) = s[1] /\ s[1] \in E /\ DOMAIN t = 1..(n - 1)
      /\ \A i \in 1..(n - 1) : t[i] = s[i + 1]
  BY <1>1, <1>2
<1>4. ASSUME NEW x, Holds(s, x) PROVE x = s[1] \/ Holds(t, x)
  <2>1. PICK i \in 1..n : s[i] = x BY <1>3, <1>4 DEF Holds
  <2>2. CASE i = 1 BY <2>1, <2>2
  <2>3. CASE i # 1
    <3>1. i - 1 \in 1..(n - 1) /\ (i - 1) + 1 = i BY <2>3, <1>3
    <3>2. t[i - 1] = x BY <3>1, <2>1, <1>3
    <3> QED BY <3>1, <3>2, <1>3 DEF Holds
  <2> QED BY <2>2, <2>3
<1> QED BY <1>1, <1>2, <1>3, <1>4

LEMMA NoEntries == /\ \A x : ~Holds(<<>>, x)
                   /\ \A x, y : Holds(<<y>>, x) <=> x = y
<1>1. \A x : ~Holds(<<>>, x)
  <2>1. DOMAIN <<>> = {} OBVIOUS
  <2> QED BY <2>1 DEF Holds
<1>2. ASSUME NEW x, NEW y PROVE Holds(<<y>>, x) <=> x = y
  <2>1. DOMAIN <<y>> = {1} /\ <<y>>[1] = y OBVIOUS
  <2> QED BY <2>1 DEF Holds
<1> QED BY <1>1, <1>2

\* A stack with one entry, and an empty one.
LEMMA OneWaiting ==
    ASSUME NEW s, NEW r, s = <<<<r, FALSE>>>>
    PROVE  /\ \A g : ~Holds(s, <<g, TRUE>>) /\ (Holds(s, <<g, FALSE>>) <=> g = r)
           /\ DOMAIN s = {1} /\ s[1] = <<r, FALSE>>
<1>1. \A x : Holds(s, x) <=> x = <<r, FALSE>> BY NoEntries
<1>2. \A g : <<g, FALSE>> = <<r, FALSE>> => g = r
  <2>1. \A g : <<g, FALSE>>[1] = g OBVIOUS
  <2> QED BY <2>1, Zenon
<1>3. DOMAIN s = {1} /\ s[1] = <<r, FALSE>>
  <2>1. PICK e : e = <<r, FALSE>> OBVIOUS
  <2>2. DOMAIN <<e>> = {1} /\ <<e>>[1] = e OBVIOUS
  <2> QED BY <2>1, <2>2
<1> QED BY <1>1, <1>2, <1>3, EntriesDiffer

LEMMA NothingOnStack ==
    ASSUME stack = <<>>
    PROVE  /\ \A g : ~Open(g) /\ ~Waiting(g)
           /\ DOMAIN stack = {}
<1>1. DOMAIN stack = {} OBVIOUS
<1> QED BY <1>1, NoEntries DEF Open, Waiting

LEMMA SearchRootKeeps ==
    ASSUME TypeOK, SearchInv, SearchRoot
    PROVE  SearchInv' /\ TypeOK'
<1>r. /\ stack = <<>> /\ stack' = <<<<Head(roots), FALSE>>>> /\ roots' = Tail(roots) /\ roots # <<>>
      /\ calls' = calls /\ visited' = visited /\ finish' = finish
      /\ members' = members /\ groups' = groups /\ pc' = pc /\ deps' = deps /\ ordered' = ordered
  BY DEF SearchRoot
<1>i. /\ NoneForgotten /\ VisitedStates /\ StackReached /\ CalleesWait /\ LeadsBack
      /\ LastOfComponent /\ members = {} /\ groups = <<>> BY DEF SearchInv
<1>t. roots \in Seq(Functions) BY DEF TypeOK
<1>1. PICK r : r = Head(roots) OBVIOUS
<1>2. roots' \in Seq(Functions) /\ r \in Functions
      /\ \A x : Holds(roots, x) => x = r \/ Holds(roots', x)
  BY <1>1, <1>r, <1>t, TailFacts
<1>3. \A g : ~Open(g) /\ ~Waiting(g) BY <1>r, NothingOnStack
<1>4. (\A g : ~Open(g) /\ (Waiting(g) <=> g = r))' /\ DOMAIN stack' = {1}
  <2>1. stack' = <<<<r, FALSE>>>> BY <1>1, <1>r
  <2> QED BY <2>1, OneWaiting DEF Open, Waiting
<1>5. NoneForgotten' BY <1>2, <1>3, <1>4, <1>r, <1>i DEF NoneForgotten
<1>6. VisitedStates' BY <1>3, <1>4, <1>r, <1>i DEF VisitedStates, Finished
<1>7. StackReached' BY <1>4 DEF StackReached
<1>8. CalleesWait' BY <1>3, <1>r, <1>i DEF CalleesWait, Open, Holds
<1>9. LeadsBack' BY <1>4 DEF LeadsBack
<1>10. LastOfComponent' BY <1>3, <1>r, <1>i DEF LastOfComponent
<1>11. stack' \in Seq(Functions \X BOOLEAN)
  <2>1. <<r, FALSE>> \in Functions \X BOOLEAN BY <1>2
  <2>2. PICK e : e = <<r, FALSE>> OBVIOUS
  <2>3. <<e>> \in Seq(Functions \X BOOLEAN) BY <2>1, <2>2
  <2> QED BY <2>2, <2>3, <1>1, <1>r
<1>12. TypeOK' BY <1>2, <1>11, <1>r DEF TypeOK
<1> QED BY <1>5, <1>6, <1>7, <1>8, <1>9, <1>10, <1>12, <1>i, <1>r DEF SearchInv

LEMMA SearchPopKeeps ==
    ASSUME TypeOK, SearchInv, SearchPop
    PROVE  SearchInv' /\ TypeOK'
<1>1. Rest /\ pc' = pc /\ deps' = deps /\ ordered' = ordered BY DEF SearchPop, Rest
<1>2. SearchInv'
  <2>0. PICK f \in Functions : \E n, l : Finishes(f, n, l) \/ Skips(f, n) \/ Opens(f, n) BY SearchPopStep
  <2>1. PICK n, l : Finishes(f, n, l) \/ Skips(f, n) \/ Opens(f, n) BY <2>0
  <2> QED BY <2>1, <1>1, FinishKeeps, SkipKeeps, OpenKeeps
<1>3. TypeOK' BY <1>1, SearchPopStep DEF TypeOK, Rest
<1> QED BY <1>2, <1>3

LEMMA SearchEndKeeps ==
    ASSUME TypeOK, SearchInv, SearchEnd
    PROVE  GroupInv' /\ TypeOK'
<1>r. /\ stack = <<>> /\ stack' = <<>> /\ roots = <<>> /\ roots' = Reverse(finish)
      /\ calls' = calls /\ visited' = {} /\ finish' = finish /\ pc' = "group"
      /\ members' = members /\ groups' = groups /\ deps' = deps /\ ordered' = ordered
  BY DEF SearchEnd
<1>i. /\ NoneForgotten /\ VisitedStates /\ LastOfComponent /\ members = {} /\ groups = <<>>
  BY DEF SearchInv
<1>t. finish \in Seq(Functions) BY DEF TypeOK
<1>1. \A g : ~Open(g) /\ ~Waiting(g) BY <1>r, NothingOnStack
<1>2. \A x : ~Holds(roots, x) BY <1>r, NoEntries
<1>3. AllFinished' BY <1>1, <1>2, <1>r, <1>i DEF AllFinished, NoneForgotten, VisitedStates, Finished
<1>4. FinishOrder' BY <1>1, <1>r, <1>i DEF FinishOrder, LastOfComponent
<1>5. PICK n : n = Len(finish) OBVIOUS
<1>6. n \in Nat /\ DOMAIN finish = 1..n /\ \A i \in 1..n : finish[i] \in Functions BY <1>5, <1>t
<1>7. roots' = [i \in 1..n |-> finish[(n - i) + 1]] BY <1>5, <1>r DEF Reverse
<1>8. roots' \in Seq(Functions) /\ Len(roots') = n /\ DOMAIN roots' = 1..n
  <2>1. \A i \in 1..n : (n - i) + 1 \in 1..n BY <1>6
  <2>2. roots' \in [1..n -> Functions] BY <2>1, <1>6, <1>7
  <2> QED BY <2>2, <1>6
<1>9. RootsLeft'
  <2>1. \A i \in 1..n : (n - i) + 1 = n + 1 - i BY <1>6
  <2>2. \A i \in 1..n : roots'[i] = finish[n + 1 - i] BY <2>1, <1>7
  <2>3. n <= n BY <1>6
  <2> QED BY <2>2, <2>3, <1>5, <1>8, <1>r DEF RootsLeft
<1>10. ~Collecting' BY <1>r, <1>i DEF Collecting
<1>11. LaterGrouped'
  <2>1. \A k \in 1..n : ~(k > n + 0) BY <1>6
  <2> QED BY <2>1, <1>6, <1>8, <1>10, <1>r DEF LaterGrouped
<1>12. FromRoot' BY <1>10 DEF FromRoot
<1>13. CallersWait' /\ EarlierClosed' BY <1>r DEF CallersWait, EarlierClosed, Earlier
<1>14. DOMAIN groups' = {} BY <1>i, <1>r
<1>15. GroupsByKey' /\ EarlierGrouped' BY <1>14, <1>r DEF GroupsByKey, EarlierGrouped, Earlier
<1>16. members' \subseteq visited' BY <1>i, <1>r
<1>17. TypeOK' BY <1>8, <1>r DEF TypeOK
<1> QED BY <1>3, <1>4, <1>9, <1>11, <1>12, <1>13, <1>15, <1>16, <1>17 DEF GroupInv

-----------------------------------------------------------------------------
(* The steps of the second search. *)

LEMMA GroupRootKeeps ==
    ASSUME TypeOK, GroupInv, GroupRoot
    PROVE  GroupInv' /\ TypeOK'
<1>r. /\ stack = <<>> /\ members = {} /\ roots # <<>> /\ roots' = Tail(roots)
      /\ stack' = IF Head(roots) \in visited THEN <<>> ELSE <<<<Head(roots), FALSE>>>>
      /\ calls' = calls /\ visited' = visited /\ finish' = finish /\ pc' = pc
      /\ members' = members /\ groups' = groups /\ deps' = deps /\ ordered' = ordered
  BY DEF GroupRoot
<1>i. /\ AllFinished /\ FinishOrder /\ RootsLeft /\ LaterGrouped /\ FromRoot /\ CallersWait
      /\ EarlierClosed /\ GroupsByKey /\ EarlierGrouped /\ members \subseteq visited
  BY DEF GroupInv
<1>t. roots \in Seq(Functions) /\ finish \in Seq(Functions) BY DEF TypeOK
<1>1. PICK n : n = Len(roots) OBVIOUS
<1>2. PICK r : r = Head(roots) OBVIOUS
<1>3. /\ roots' \in Seq(Functions) /\ Len(roots') = n - 1 /\ n \in Nat /\ n # 0
      /\ r = roots[1] /\ r \in Functions /\ DOMAIN roots' = 1..(n - 1)
      /\ \A i \in 1..(n - 1) : roots'[i] = roots[i + 1]
  BY <1>1, <1>2, <1>r, <1>t, TailFacts
<1>m. PICK m : m = Len(finish) OBVIOUS
<1>4. m \in Nat /\ DOMAIN finish = 1..m /\ DOMAIN roots = 1..n BY <1>m, <1>1, <1>t
<1>5. n <= m /\ \A i \in 1..n : roots[i] = finish[n + 1 - i] BY <1>m, <1>1, <1>4, <1>i DEF RootsLeft
<1>6. r = finish[n]
  <2>1. 1 \in 1..n /\ n + 1 - 1 = n BY <1>3
  <2> QED BY <2>1, <1>3, <1>5
<1>7. RootsLeft'
  <2>1. ASSUME NEW i \in 1..(n - 1) PROVE roots'[i] = finish[(n - 1) + 1 - i]
    <3>1. i + 1 \in 1..n /\ n + 1 - (i + 1) = (n - 1) + 1 - i BY <1>3
    <3> QED BY <3>1, <1>3, <1>5
  <2>2. n - 1 <= m BY <1>3, <1>4, <1>5
  <2> QED BY <2>1, <2>2, <1>3, <1>m, <1>r DEF RootsLeft
<1>8. Earlier' = visited /\ Earlier = visited BY <1>r DEF Earlier
<1>9. \A k \in 1..m : k > n => finish[k] \in visited
  <2>1. ~Collecting BY <1>r DEF Collecting
  <2>2. \A k \in 1..m : k > n + 0 => finish[k] \in visited BY <2>1, <1>1, <1>4, <1>8, <1>i DEF LaterGrouped
  <2>3. n + 0 = n BY <1>3
  <2> QED BY <2>2, <2>3
<1>10. LaterGrouped' /\ FromRoot'
  <2>1. CASE r \in visited
    <3>1. ~Collecting' BY <2>1, <1>2, <1>r DEF Collecting
    <3>2. \A k \in 1..m : k > (n - 1) + 0 => finish[k] \in visited
      <4>1. \A k \in 1..m : k > (n - 1) + 0 => k = n \/ k > n BY <1>3, <1>4
      <4> QED BY <4>1, <2>1, <1>6, <1>9
    <3>3. LaterGrouped' BY <3>1, <3>2, <1>3, <1>4, <1>8, <1>r DEF LaterGrouped
    <3> QED BY <3>1, <3>3 DEF FromRoot
  <2>2. CASE r \notin visited
    <3>1. stack' = <<<<r, FALSE>>>> BY <2>2, <1>2, <1>r
    <3>2. DOMAIN stack' = {1} /\ stack'[1] = <<r, FALSE>> BY <3>1, OneWaiting
    <3>3. Collecting'
      <4>1. stack' # <<>>
        <5>1. DOMAIN <<>> = {} OBVIOUS
        <5> QED BY <5>1, <3>2
      <4> QED BY <4>1 DEF Collecting
    <3>4. \A k \in 1..m : k > (n - 1) + 1 => finish[k] \in visited
      <4>1. (n - 1) + 1 = n BY <1>3
      <4> QED BY <4>1, <1>9
    <3>5. LaterGrouped' BY <3>3, <3>4, <1>3, <1>4, <1>8, <1>r DEF LaterGrouped
    <3>6. Root' = r
      <4>1. (n - 1) + 1 = n BY <1>3
      <4> QED BY <4>1, <1>3, <1>6, <1>r DEF Root
    <3>7. Len(roots') < Len(finish') BY <1>3, <1>4, <1>5, <1>m, <1>r
    <3>8. \A i \in DOMAIN stack' : To(calls', stack'[i][1], Root') BY <3>2, <3>6 DEF To
    <3>9. FromRoot' BY <3>1, <3>6, <3>7, <3>8, <2>2, <1>8, <1>r DEF FromRoot
    <3> QED BY <3>5, <3>9
  <2> QED BY <2>1, <2>2
<1>11. CallersWait' BY <1>r, <1>i DEF CallersWait, Callers
<1>12. EarlierClosed' BY <1>8, <1>r, <1>i DEF EarlierClosed, Callers
<1>13. GroupsByKey' BY <1>r, <1>i DEF GroupsByKey
<1>14. EarlierGrouped' BY <1>8, <1>r, <1>i DEF EarlierGrouped
<1>15. AllFinished' /\ FinishOrder' BY <1>r, <1>i DEF AllFinished, FinishOrder, Finished
<1>16. members' \subseteq visited' BY <1>r
<1>17. stack' \in Seq(Functions \X BOOLEAN)
  <2>1. <<r, FALSE>> \in Functions \X BOOLEAN BY <1>3
  <2>2. PICK e : e = <<r, FALSE>> OBVIOUS
  <2>3. <<e>> \in Seq(Functions \X BOOLEAN) /\ <<>> \in Seq(Functions \X BOOLEAN) BY <2>1, <2>2
  <2> QED BY <2>2, <2>3, <1>2, <1>r
<1>18. TypeOK' BY <1>3, <1>17, <1>r DEF TypeOK
<1> QED BY <1>7, <1>10, <1>11, <1>12, <1>13, <1>14, <1>15, <1>16, <1>18 DEF GroupInv

\* A function that has been visited is dropped, another is collected.
Drops(f, n) ==
    /\ stack[n][1] = f /\ Replaces(stack, stack', <<>>, n)
    /\ f \in visited /\ members' = members /\ visited' = visited

Collects(f, n) ==
    /\ stack[n][1] = f /\ Replaces(stack, stack', Entries(Callers(f)), n)
    /\ f \notin visited /\ members' = members \cup {f} /\ visited' = visited \cup {f}

LEMMA GroupPopStep ==
    ASSUME TypeOK, GroupPop
    PROVE  /\ stack' \in Seq(Functions \X BOOLEAN)
           /\ visited' \subseteq Functions /\ members' \subseteq Functions
           /\ \E f \in Functions : \E n : Drops(f, n) \/ Collects(f, n)
<1>t. /\ stack \in Seq(Functions \X BOOLEAN) /\ stack # <<>>
      /\ visited \subseteq Functions /\ members \subseteq Functions
  BY DEF TypeOK, GroupPop
<1>1. PICK n : n = Len(stack) OBVIOUS
<1>e. <<>> \in Seq(Functions \X BOOLEAN) OBVIOUS
<1>2. Last(stack) = stack[n] /\ Last(stack) \in Functions \X BOOLEAN
  BY <1>t, <1>e, <1>1, FrontPush
<1>3. PICK f \in Functions : f = Last(stack)[1] BY <1>2
<1>4. /\ visited' = visited \cup {f}
      /\ members' = IF f \in visited THEN members ELSE members \cup {f}
      /\ stack' = Front(stack) \o (IF f \in visited THEN <<>> ELSE Entries(Callers(f)))
  BY <1>3 DEF GroupPop, Entries
<1>5. CASE f \in visited
  <2>1. stack' = Front(stack) \o <<>> BY <1>4, <1>5
  <2>2. stack' \in Seq(Functions \X BOOLEAN) /\ Replaces(stack, stack', <<>>, n)
    BY <2>1, <1>1, <1>t, <1>e, FrontPush
  <2>3. visited' = visited /\ members' = members /\ stack[n][1] = f BY <1>2, <1>3, <1>4, <1>5
  <2> QED BY <2>2, <2>3, <1>t, <1>5 DEF Drops
<1>6. CASE f \notin visited
  <2>1. stack' = Front(stack) \o Entries(Callers(f)) BY <1>4, <1>6
  <2>2. Entries(Callers(f)) \in Seq(Functions \X BOOLEAN)
    <3>1. Callers(f) \in SUBSET Functions BY DEF Callers
    <3> QED BY <3>1, EntriesHold
  <2>3. stack' \in Seq(Functions \X BOOLEAN) /\ Replaces(stack, stack', Entries(Callers(f)), n)
    BY <2>1, <2>2, <1>1, <1>t, FrontPush
  <2>4. members' = members \cup {f} /\ visited' = visited \cup {f} /\ stack[n][1] = f
    BY <1>2, <1>3, <1>4, <1>6
  <2> QED BY <2>3, <2>4, <1>t, <1>6 DEF Collects
<1> QED BY <1>5, <1>6

\* What a step of the second search leaves alone.
GroupRest ==
    /\ calls' = calls /\ roots' = roots /\ finish' = finish /\ groups' = groups

LEMMA DropKeeps ==
    ASSUME TypeOK, GroupInv, GroupRest, stack # <<>>, NEW f \in Functions, NEW n, Drops(f, n)
    PROVE  GroupInv'
<1>r. calls' = calls /\ roots' = roots /\ finish' = finish /\ groups' = groups BY DEF GroupRest
<1>i. /\ AllFinished /\ FinishOrder /\ RootsLeft /\ LaterGrouped /\ FromRoot /\ CallersWait
      /\ EarlierClosed /\ GroupsByKey /\ EarlierGrouped /\ members \subseteq visited
  BY DEF GroupInv
<1>f. stack[n][1] = f /\ f \in visited /\ members' = members /\ visited' = visited BY DEF Drops
<1>s. /\ n \in DOMAIN stack
      /\ \A i \in DOMAIN stack : i = n \/ (i < n /\ i \in DOMAIN stack' /\ stack'[i] = stack[i])
      /\ \A j \in DOMAIN stack' : j < n /\ j \in DOMAIN stack /\ stack'[j] = stack[j]
  BY DropTop DEF Drops
<1>1. Collecting BY DEF Collecting
<1>2. /\ Len(roots) < Len(finish) /\ Root \notin Earlier
      /\ Root \in members \/ (members = {} /\ stack = <<<<Root, FALSE>>>>)
      /\ \A g \in members : To(calls, g, Root)
      /\ \A i \in DOMAIN stack : To(calls, stack[i][1], Root)
  BY <1>1, <1>i DEF FromRoot
<1>3. Root \in members
  <2> SUFFICES ASSUME members = {}, stack = <<<<Root, FALSE>>>> PROVE FALSE BY <1>2
  <2>1. DOMAIN stack = {1} /\ stack[1] = <<Root, FALSE>> BY OneWaiting
  <2>2. f = Root BY <2>1, <1>f, <1>s
  <2> QED BY <2>2, <1>2, <1>f DEF Earlier
<1>4. Collecting' /\ Root' = Root /\ Earlier' = Earlier BY <1>3, <1>f, <1>r DEF Collecting, Root, Earlier
<1>5. \A g : Waiting(g) => Waiting(g)' \/ g = f
  <2> SUFFICES ASSUME NEW g, Waiting(g) PROVE Waiting(g)' \/ g = f OBVIOUS
  <2>1. PICK i \in DOMAIN stack : stack[i] = <<g, FALSE>> BY DEF Waiting, Holds
  <2>2. CASE i = n
    <3>1. stack[i][1] = g BY <2>1
    <3> QED BY <3>1, <2>2, <1>f
  <2>3. CASE i < n /\ i \in DOMAIN stack' /\ stack'[i] = stack[i] BY <2>1, <2>3 DEF Waiting, Holds
  <2> QED BY <2>2, <2>3, <1>s
<1>6. LaterGrouped' BY <1>1, <1>4, <1>r, <1>i DEF LaterGrouped
<1>7. FromRoot' BY <1>2, <1>3, <1>4, <1>f, <1>s, <1>r DEF FromRoot
<1>8. CallersWait' BY <1>5, <1>f, <1>r, <1>i DEF CallersWait, Callers
<1>9. EarlierClosed' BY <1>4, <1>r, <1>i DEF EarlierClosed, Callers
<1>10. GroupsByKey' /\ EarlierGrouped' BY <1>4, <1>r, <1>i DEF GroupsByKey, EarlierGrouped
<1>11. AllFinished' /\ FinishOrder' /\ RootsLeft'
  BY <1>r, <1>i DEF AllFinished, FinishOrder, Finished, RootsLeft
<1>12. members' \subseteq visited' BY <1>f, <1>i
<1> QED BY <1>6, <1>7, <1>8, <1>9, <1>10, <1>11, <1>12 DEF GroupInv

LEMMA CollectKeeps ==
    ASSUME TypeOK, GroupInv, GroupRest, stack # <<>>, NEW f \in Functions, NEW n, Collects(f, n)
    PROVE  GroupInv'
<1>c. calls \in [Functions -> SUBSET Functions] BY DEF TypeOK
<1>r. calls' = calls /\ roots' = roots /\ finish' = finish /\ groups' = groups BY DEF GroupRest
<1>i. /\ AllFinished /\ FinishOrder /\ RootsLeft /\ LaterGrouped /\ FromRoot /\ CallersWait
      /\ EarlierClosed /\ GroupsByKey /\ EarlierGrouped /\ members \subseteq visited
  BY DEF GroupInv
<1>f. stack[n][1] = f /\ f \notin visited /\ members' = members \cup {f} /\ visited' = visited \cup {f}
  BY DEF Collects
<1>p. PICK p : p = Entries(Callers(f)) OBVIOUS
<1>e. /\ \A i \in DOMAIN p : \E x \in Callers(f) : p[i] = <<x, FALSE>>
      /\ \A x \in Callers(f) : Holds(p, <<x, FALSE>>)
  <2>1. Callers(f) \in SUBSET Functions BY DEF Callers
  <2> QED BY <2>1, <1>p, EntriesHold
<1>q. Replaces(stack, stack', p, n) BY <1>p DEF Collects
<1>s. /\ n \in DOMAIN stack
      /\ \A i \in DOMAIN stack : i = n \/ (i < n /\ i \in DOMAIN stack' /\ stack'[i] = stack[i])
  BY <1>q DEF Replaces
<1>u. /\ \A j \in DOMAIN stack' :
            \/ j \in DOMAIN stack /\ stack'[j] = stack[j]
            \/ \E x \in Callers(f) : stack'[j] = <<x, FALSE>>
      /\ \A x \in Callers(f) : Waiting(x)'
  <2>1. \A j \in DOMAIN stack' : \/ j \in DOMAIN stack /\ stack'[j] = stack[j]
                                 \/ \E k \in DOMAIN p : stack'[j] = p[k]
    BY <1>q DEF Replaces
  <2>2. \A k \in DOMAIN p : \E j \in DOMAIN stack' : stack'[j] = p[k] BY <1>q DEF Replaces
  <2>3. \A x \in Callers(f) : Waiting(x)' BY <2>2, <1>e DEF Waiting, Holds
  <2> QED BY <2>1, <2>3, <1>e
<1>1. Collecting BY DEF Collecting
<1>2. /\ Len(roots) < Len(finish) /\ Root \notin Earlier
      /\ Root \in members \/ (members = {} /\ stack = <<<<Root, FALSE>>>>)
      /\ \A g \in members : To(calls, g, Root)
      /\ \A i \in DOMAIN stack : To(calls, stack[i][1], Root)
  BY <1>1, <1>i DEF FromRoot
<1>3. Root \in members'
  <2>1. CASE Root \in members BY <2>1, <1>f
  <2>2. CASE stack = <<<<Root, FALSE>>>>
    <3>1. DOMAIN stack = {1} /\ stack[1] = <<Root, FALSE>> BY <2>2, OneWaiting
    <3>2. f = Root BY <3>1, <1>f, <1>s
    <3> QED BY <3>2, <1>f
  <2> QED BY <2>1, <2>2, <1>2
<1>4. Collecting' /\ Root' = Root /\ Earlier' = Earlier
  <2>1. Earlier' = Earlier BY <1>f, <1>i DEF Earlier
  <2> QED BY <2>1, <1>3, <1>r DEF Collecting, Root
<1>5. \A g : Waiting(g) => Waiting(g)' \/ g = f
  <2> SUFFICES ASSUME NEW g, Waiting(g) PROVE Waiting(g)' \/ g = f OBVIOUS
  <2>1. PICK i \in DOMAIN stack : stack[i] = <<g, FALSE>> BY DEF Waiting, Holds
  <2>2. CASE i = n
    <3>1. stack[i][1] = g BY <2>1
    <3> QED BY <3>1, <2>2, <1>f
  <2>3. CASE i < n /\ i \in DOMAIN stack' /\ stack'[i] = stack[i] BY <2>1, <2>3 DEF Waiting, Holds
  <2> QED BY <2>2, <2>3, <1>s
<1>6. LaterGrouped' BY <1>1, <1>4, <1>r, <1>i DEF LaterGrouped
<1>7. FromRoot'
  <2>1. To(calls, f, Root) BY <1>2, <1>f, <1>s
  <2>2. \A g \in members' : To(calls, g, Root) BY <2>1, <1>2, <1>f
  <2>3. ASSUME NEW x \in Callers(f) PROVE To(calls, x, Root)
    <3>1. x \in Functions /\ f \in calls[x] BY DEF Callers
    <3>2. To(calls, x, f) BY <3>1, <1>c, ToCallee
    <3> QED BY <3>2, <2>1, <1>c, ToTransitive
  <2>4. ASSUME NEW j \in DOMAIN stack' PROVE To(calls, stack'[j][1], Root)
    <3>1. CASE j \in DOMAIN stack /\ stack'[j] = stack[j] BY <3>1, <1>2
    <3>2. CASE \E x \in Callers(f) : stack'[j] = <<x, FALSE>> BY <3>2, <2>3
    <3> QED BY <3>1, <3>2, <1>u
  <2> QED BY <2>2, <2>4, <1>2, <1>3, <1>4, <1>r DEF FromRoot
<1>8. CallersWait'
  <2> SUFFICES ASSUME NEW h \in visited', NEW g \in Callers(h), g \notin visited'
               PROVE  h \in members' /\ Waiting(g)'
    BY <1>r DEF CallersWait, Callers
  <2>1. CASE h = f BY <2>1, <1>u, <1>f
  <2>2. CASE h \in visited BY <2>2, <1>5, <1>f, <1>i DEF CallersWait
  <2> QED BY <2>1, <2>2, <1>f
<1>9. EarlierClosed' BY <1>4, <1>r, <1>i DEF EarlierClosed, Callers
<1>10. GroupsByKey' /\ EarlierGrouped' BY <1>4, <1>r, <1>i DEF GroupsByKey, EarlierGrouped
<1>11. AllFinished' /\ FinishOrder' /\ RootsLeft'
  BY <1>r, <1>i DEF AllFinished, FinishOrder, Finished, RootsLeft
<1>12. members' \subseteq visited' BY <1>f, <1>i
<1> QED BY <1>6, <1>7, <1>8, <1>9, <1>10, <1>11, <1>12 DEF GroupInv

LEMMA GroupPopKeeps ==
    ASSUME TypeOK, GroupInv, GroupPop
    PROVE  GroupInv' /\ TypeOK'
<1>1. GroupRest /\ pc' = pc /\ deps' = deps /\ ordered' = ordered /\ stack # <<>>
  BY DEF GroupPop, GroupRest
<1>f. PICK f \in Functions : \E n : Drops(f, n) \/ Collects(f, n) BY GroupPopStep
<1>2. PICK n : Drops(f, n) \/ Collects(f, n) BY <1>f
<1>3. GroupInv' BY <1>1, <1>2, DropKeeps, CollectKeeps
<1>4. TypeOK' BY <1>1, GroupPopStep DEF TypeOK, GroupRest
<1> QED BY <1>3, <1>4

\* When the search from a root ends, it has collected the component of the root.
LEMMA GroupFound ==
    ASSUME TypeOK, GroupInv, stack = <<>>, members # {}
    PROVE  /\ Root \in Functions /\ Root \in members /\ members = ComponentOf(calls, Root)
           /\ \A f \in visited : Callers(f) \subseteq visited
<1>c. /\ calls \in [Functions -> SUBSET Functions] /\ visited \subseteq Functions
      /\ finish \in Seq(Functions) /\ roots \in Seq(Functions) BY DEF TypeOK
<1>i. /\ AllFinished /\ FinishOrder /\ LaterGrouped /\ FromRoot /\ CallersWait
      /\ EarlierClosed /\ members \subseteq visited
  BY DEF GroupInv
<1>1. Collecting BY DEF Collecting
<1>2. /\ Len(roots) < Len(finish) /\ Root \notin Earlier /\ Root \in members
      /\ \A f \in members : To(calls, f, Root)
  BY <1>1, <1>i DEF FromRoot
<1>3. Root \in Functions BY <1>2, <1>i, <1>c
<1>4. \A f \in visited : Callers(f) \subseteq visited
  BY <1>i, NothingOnStack DEF CallersWait
<1>5. PICK j : j = Len(roots) + 1 OBVIOUS
<1>6. j \in DOMAIN finish /\ j \in Nat /\ DOMAIN finish \subseteq Nat
  <2>1. Len(roots) \in Nat /\ Len(finish) \in Nat /\ DOMAIN finish = 1..Len(finish) BY <1>c
  <2> QED BY <2>1, <1>2, <1>5
<1>7. Root = finish[j] BY <1>5 DEF Root
<1>8. \A k \in DOMAIN finish : k > j => finish[k] \in Earlier BY <1>1, <1>5, <1>i DEF LaterGrouped
<1>9. Earlier \in SUBSET Functions BY <1>c DEF Earlier
<1>10. \A f \in Functions : \A g \in calls[f] : g \in Earlier => f \in Earlier
  BY <1>i DEF EarlierClosed, Callers
<1>11. \A f \in Functions : \A g \in calls[f] : g \in visited => f \in visited
  BY <1>4 DEF Callers
<1>12. ASSUME NEW h \in Functions, Same(calls, Root, h) PROVE h \in members
  <2>1. To(calls, h, Root) /\ To(calls, Root, h) BY <1>12 DEF Same
  <2>2. h \in visited BY <2>1, <1>2, <1>11, <1>i, <1>c, ClosedBackward
  <2>3. h \notin Earlier BY <2>1, <1>2, <1>3, <1>9, <1>10, <1>c, ClosedBackward
  <2> QED BY <2>2, <2>3 DEF Earlier
<1>13. ASSUME NEW h \in members PROVE Same(calls, Root, h)
  <2>1. h \in Functions /\ To(calls, h, Root) /\ h \notin Earlier
    BY <1>2, <1>i, <1>c DEF Earlier
  <2>2. PICK i \in DOMAIN finish : finish[i] = h BY <2>1, <1>i DEF AllFinished, Finished, Holds
  <2>3. PICK k \in DOMAIN finish : k >= j /\ Same(calls, h, finish[k])
    BY <2>1, <2>2, <1>6, <1>7, <1>i DEF FinishOrder
  <2>4. CASE k = j BY <2>3, <2>4, <1>7, <1>c, SameRelation
  <2>5. CASE k # j
    <3>1. finish[k] \in Earlier BY <2>3, <2>5, <1>6, <1>8
    <3>2. To(calls, h, finish[k]) BY <2>3 DEF Same
    <3>3. h \in Earlier BY <3>1, <3>2, <2>1, <1>9, <1>10, <1>c, ClosedBackward
    <3> QED BY <3>3, <2>1
  <2> QED BY <2>4, <2>5
<1>14. members = ComponentOf(calls, Root)
  <2>1. DOMAIN calls = Functions BY <1>c
  <2>2. members \subseteq Functions BY <1>i, <1>c
  <2> QED BY <2>1, <2>2, <1>12, <1>13 DEF ComponentOf
<1> QED BY <1>2, <1>3, <1>4, <1>14

\* The least member of a component is one of its functions.
LEMMA LeastMember ==
    ASSUME NEW C \in SUBSET Functions, C # {}
    PROVE  Least(C) \in C /\ \A f \in C : Least(C) <= f
BY FunctionsAreIds, LeastElement

\* A key is in its group, so different keys have different groups.
LEMMA KeysFit ==
    ASSUME TypeOK, GroupsByKey
    PROVE  /\ \A k \in DOMAIN groups : k \in groups[k] /\ groups[k] # {}
           /\ \A j, k \in DOMAIN groups : j # k => groups[j] # groups[k] /\ groups[j] \cap groups[k] = {}
<1>c. calls \in [Functions -> SUBSET Functions] BY DEF TypeOK
<1>1. ASSUME NEW k \in DOMAIN groups PROVE k \in groups[k] /\ groups[k] # {}
  <2>1. groups[k] \in SUBSET Functions /\ groups[k] # {} BY <1>c, ComponentMembers DEF GroupsByKey
  <2> QED BY <2>1, LeastMember DEF GroupsByKey
<1>2. ASSUME NEW j \in DOMAIN groups, NEW k \in DOMAIN groups, j # k
      PROVE  groups[j] # groups[k] /\ groups[j] \cap groups[k] = {}
  <2>1. groups[j] # groups[k] BY <1>2 DEF GroupsByKey
  <2> QED BY <2>1, <1>c, ComponentsApart DEF GroupsByKey
<1> QED BY <1>1, <1>2

LEMMA GroupEndKeeps ==
    ASSUME TypeOK, GroupInv, GroupEnd
    PROVE  GroupInv' /\ TypeOK'
<1>r. /\ stack = <<>> /\ members # {} /\ members' = {} /\ stack' = stack
      /\ groups' = [k \in DOMAIN groups \cup {Least(members)} |->
                       IF k = Least(members) THEN members ELSE groups[k]]
      /\ calls' = calls /\ visited' = visited /\ finish' = finish /\ pc' = pc
      /\ roots' = roots /\ deps' = deps /\ ordered' = ordered
  BY DEF GroupEnd
<1>c. calls \in [Functions -> SUBSET Functions] /\ visited \subseteq Functions
      /\ members \subseteq Functions BY DEF TypeOK
<1>i. /\ AllFinished /\ FinishOrder /\ RootsLeft /\ LaterGrouped /\ FromRoot /\ CallersWait
      /\ EarlierClosed /\ GroupsByKey /\ EarlierGrouped /\ members \subseteq visited
  BY DEF GroupInv
<1>1. /\ Root \in Functions /\ Root \in members /\ members = ComponentOf(calls, Root)
      /\ \A f \in visited : Callers(f) \subseteq visited
  BY <1>r, GroupFound
<1>2. members \in Components(calls) BY <1>1, <1>c, ComponentsApart
<1>3. PICK K : K = Least(members) OBVIOUS
<1>4. K \in members /\ K \in Functions BY <1>3, <1>r, <1>c, LeastMember
<1>5. K \notin DOMAIN groups
  <2> SUFFICES ASSUME K \in DOMAIN groups PROVE FALSE OBVIOUS
  <2>1. K \in groups[K] BY <1>i, KeysFit
  <2>2. K \in Earlier BY <2>1, <1>4, <1>i DEF EarlierGrouped
  <2> QED BY <2>2, <1>4 DEF Earlier
<1>6. /\ DOMAIN groups' = DOMAIN groups \cup {K} /\ groups'[K] = members
      /\ \A k \in DOMAIN groups : groups'[k] = groups[k]
  BY <1>3, <1>5, <1>r
<1>7. Earlier' = visited /\ Earlier = visited \ members BY <1>r DEF Earlier
<1>8. ~Collecting' /\ Collecting BY <1>r DEF Collecting
<1>9. GroupsByKey' BY <1>2, <1>3, <1>6, <1>r, <1>i DEF GroupsByKey
<1>10. EarlierGrouped'
  <2>1. \A f \in Functions : f \in visited <=> f \in Earlier \/ f \in members BY <1>7, <1>i
  <2>2. \A f \in Functions : f \in Earlier <=> \E k \in DOMAIN groups : f \in groups[k]
    BY <1>i DEF EarlierGrouped
  <2>3. \A f : (\E k \in DOMAIN groups' : f \in groups'[k]) <=>
                   (\E k \in DOMAIN groups : f \in groups[k]) \/ f \in members
    BY <1>6
  <2> QED BY <2>1, <2>2, <2>3, <1>7 DEF EarlierGrouped
<1>11. LaterGrouped'
  <2>1. PICK n : n = Len(roots) OBVIOUS
  <2>2. n \in Nat /\ DOMAIN finish \subseteq Nat
    <3>1. roots \in Seq(Functions) /\ finish \in Seq(Functions) BY DEF TypeOK
    <3> QED BY <3>1, <2>1
  <2>3. \A k \in DOMAIN finish : k > n + 1 => finish[k] \in Earlier BY <2>1, <1>8, <1>i DEF LaterGrouped
  <2>4. finish[n + 1] \in members BY <2>1, <1>1 DEF Root
  <2>5. ASSUME NEW k \in DOMAIN finish, k > n + 0 PROVE finish[k] \in visited
    <3>1. k = n + 1 \/ k > n + 1 BY <2>2, <2>5
    <3> QED BY <3>1, <2>3, <2>4, <1>7, <1>i
  <2> QED BY <2>1, <2>5, <1>7, <1>8, <1>r DEF LaterGrouped
<1>12. FromRoot' BY <1>8 DEF FromRoot
<1>13. CallersWait' BY <1>1, <1>r DEF CallersWait, Callers
<1>14. EarlierClosed' BY <1>1, <1>7, <1>r DEF EarlierClosed, Callers
<1>15. AllFinished' /\ FinishOrder' /\ RootsLeft'
  BY <1>r, <1>i DEF AllFinished, FinishOrder, Finished, RootsLeft
<1>16. TypeOK' BY <1>4, <1>6, <1>r, <1>c DEF TypeOK
<1> QED BY <1>9, <1>10, <1>11, <1>12, <1>13, <1>14, <1>15, <1>16, <1>r DEF GroupInv

-----------------------------------------------------------------------------
(* The ordering. *)

LEMMA OwnerFits ==
    ASSUME GroupsByKey, NEW g, \E k \in DOMAIN groups : g \in groups[k]
    PROVE  Owner(g) \in DOMAIN groups /\ g \in groups[Owner(g)]
<1>1. PICK C : C = CHOOSE D \in {groups[k] : k \in DOMAIN groups} : g \in D OBVIOUS
<1>2. C \in {groups[k] : k \in DOMAIN groups} /\ g \in C BY <1>1
<1>3. PICK k \in DOMAIN groups : C = groups[k] BY <1>2
<1>4. Owner(g) = Least(C) BY <1>1 DEF Owner
<1>5. Owner(g) = k BY <1>3, <1>4 DEF GroupsByKey
<1> QED BY <1>2, <1>3, <1>5

LEMMA StartOrderKeeps ==
    ASSUME TypeOK, GroupInv, StartOrder, ordered = <<>>
    PROVE  OrderInv' /\ TypeOK'
<1>r. /\ stack = <<>> /\ members = {} /\ roots = <<>> /\ deps' = Dependencies /\ pc' = "order"
      /\ calls' = calls /\ visited' = visited /\ finish' = finish /\ members' = members
      /\ roots' = roots /\ groups' = groups /\ ordered' = ordered /\ stack' = stack
  BY DEF StartOrder
<1>c. calls \in [Functions -> SUBSET Functions] /\ finish \in Seq(Functions) BY DEF TypeOK
<1>i. AllFinished /\ LaterGrouped /\ GroupsByKey /\ EarlierGrouped BY DEF GroupInv
<1>1. ASSUME NEW f \in Functions PROVE \E k \in DOMAIN groups : f \in groups[k]
  <2>1. ~Collecting BY <1>r DEF Collecting
  <2>2. PICK i \in DOMAIN finish : finish[i] = f BY <1>i DEF AllFinished, Finished, Holds
  <2>3. Len(roots) = 0 BY <1>r
  <2>4. i > 0 + 0
    <3>1. DOMAIN finish = 1..Len(finish) /\ Len(finish) \in Nat BY <1>c
    <3> QED BY <3>1
  <2>5. f \in Earlier BY <2>1, <2>2, <2>3, <2>4, <1>i DEF LaterGrouped
  <2> QED BY <2>5, <1>i DEF EarlierGrouped
<1>2. GroupsByKey' BY <1>r, <1>i DEF GroupsByKey
<1>3. AllOrdered'
  <2>1. ASSUME NEW C \in Components(calls) PROVE \E k \in DOMAIN groups : groups[k] = C
    <3>1. PICK f \in C : f \in Functions BY <1>c, ComponentMembers
    <3>2. PICK k \in DOMAIN groups : f \in groups[k] BY <3>1, <1>1
    <3>3. groups[k] = C BY <3>1, <3>2, <1>c, <1>i, ComponentsApart DEF GroupsByKey
    <3> QED BY <3>3
  <2>2. DOMAIN ordered = {} OBVIOUS
  <2> QED BY <2>1, <2>2, <1>r DEF AllOrdered
<1>4. /\ DOMAIN deps' = DOMAIN groups
      /\ \A k \in DOMAIN groups :
            deps'[k] = {Owner(g) : g \in CalleesOf(calls, groups[k])} \ {k}
  BY <1>r DEF Dependencies
<1>5. \A k \in DOMAIN groups : \A g \in CalleesOf(calls, groups[k]) :
         /\ Owner(g) \in DOMAIN groups /\ g \in groups[Owner(g)]
         /\ \E f \in groups[k] : g \in calls[f]
  <2> SUFFICES ASSUME NEW k \in DOMAIN groups, NEW g \in CalleesOf(calls, groups[k])
               PROVE  /\ Owner(g) \in DOMAIN groups /\ g \in groups[Owner(g)]
                      /\ \E f \in groups[k] : g \in calls[f] OBVIOUS
  <2>1. PICK f \in groups[k] : g \in calls[f] BY DEF CalleesOf
  <2>2. groups[k] \subseteq Functions BY DEF TypeOK
  <2>3. g \in Functions BY <2>1, <2>2, <1>c
  <2> QED BY <2>1, <2>3, <1>1, <1>i, OwnerFits
<1>6. Dependent'
  <2>1. ASSUME NEW k \in DOMAIN groups, NEW j \in deps'[k]
        PROVE  j \in DOMAIN groups \ {k} /\ \E f \in groups[k] : \E g \in groups[j] : g \in calls[f]
    <3>1. PICK g \in CalleesOf(calls, groups[k]) : j = Owner(g) /\ j # k BY <1>4
    <3> QED BY <3>1, <1>5
  <2>2. ASSUME NEW k \in DOMAIN groups, NEW g \in CalleesOf(calls, groups[k])
        PROVE  g \in groups[k] \/ \E j \in deps'[k] : g \in groups[j]
    BY <1>4, <1>5
  <2> QED BY <2>1, <2>2, <1>4, <1>r DEF Dependent
<1>7. TypeOK' BY <1>4, <1>r DEF TypeOK
<1> QED BY <1>2, <1>3, <1>6, <1>7 DEF OrderInv

\* A function that a callee of f reaches is reached from f, and no other is.
LEMMA ReachedFrom ==
    ASSUME NEW c \in [Functions -> SUBSET Functions], NEW f \in Functions, NEW h \in Functions
    PROVE  <<f, h>> \in Reached(c) <=> \E g \in c[f] : To(c, g, h)
<1>1. ASSUME NEW g \in c[f], To(c, g, h) PROVE <<f, h>> \in Reached(c)
  <2>1. ASSUME NEW S \in SUBSET Functions, c[f] \subseteq S, CallClosed(c, S) PROVE h \in S
    <3>1. g \in S BY <2>1
    <3> QED BY <3>1, <2>1, <1>1, ClosedForward
  <2> QED BY <2>1, ReachedPair
<1>2. ASSUME <<f, h>> \in Reached(c) PROVE \E g \in c[f] : To(c, g, h)
  <2>1. PICK S : S = {x \in Functions : \E g \in c[f] : To(c, g, x)} OBVIOUS
  <2>2. S \in SUBSET Functions BY <2>1
  <2>3. c[f] \subseteq S
    <3>1. \A g \in c[f] : g \in Functions /\ To(c, g, g) BY DEF To
    <3> QED BY <3>1, <2>1
  <2>4. CallClosed(c, S)
    <3> SUFFICES ASSUME NEW x \in S, NEW y \in c[x] PROVE y \in S BY DEF CallClosed
    <3>1. PICK g \in c[f] : To(c, g, x) BY <2>1
    <3>2. x \in Functions BY <2>2
    <3>3. To(c, x, y) /\ y \in Functions BY <3>2, ToCallee
    <3>4. To(c, g, y) BY <3>1, <3>3, ToTransitive
    <3> QED BY <3>3, <3>4, <2>1
  <2>5. h \in S BY <2>2, <2>3, <2>4, <1>2, ReachedPair
  <2> QED BY <2>1, <2>5
<1> QED BY <1>1, <1>2

\* The test of the code finds the components in which a function can call itself.
LEMMA RecursiveAgrees ==
    ASSUME TypeOK, NEW C \in Components(calls)
    PROVE  Recursive(C) = IsRecursive(calls, C) /\ Recursive(C) \in BOOLEAN
<1>c. calls \in [Functions -> SUBSET Functions] BY DEF TypeOK
<1>1. /\ C \in SUBSET Functions /\ C # {}
      /\ \A f \in C : \A g \in Functions : g \in C <=> Same(calls, f, g)
  BY <1>c, ComponentMembers
<1>2. IsFiniteSet(C) BY <1>1, FunctionsAreIds, PartSize
<1>3. PICK k : k = Least(C) OBVIOUS
<1>4. k \in C /\ k \in Functions BY <1>1, <1>3, LeastMember
<1>5. ASSUME Cardinality(C) > 1 PROVE IsRecursive(calls, C)
  <2>1. PICK f \in C : f # k
    <3>1. Cardinality({k}) = 1 BY Fin!FS_Singleton, SameSets
    <3>2. C # {k} BY <3>1, <1>5
    <3> QED BY <3>2, <1>4
  <2>2. f \in Functions /\ To(calls, k, f) /\ To(calls, f, k) BY <2>1, <1>1, <1>4 DEF Same
  <2>3. <<k, f>> \in Reached(calls) BY <2>1, <2>2 DEF To
  <2>4. PICK g \in calls[k] : To(calls, g, f) BY <2>2, <2>3, <1>4, <1>c, ReachedFrom
  <2>5. To(calls, g, k) BY <2>2, <2>4, <1>c, ToTransitive
  <2>6. <<k, k>> \in Reached(calls) BY <2>5, <1>4, <1>c, ReachedFrom
  <2> QED BY <2>6, <1>4 DEF IsRecursive
<1>6. ASSUME k \in calls[k] PROVE IsRecursive(calls, C)
  <2>1. <<k, k>> \in Reached(calls) BY <1>4, <1>6, <1>c, ToCallee
  <2> QED BY <2>1, <1>4 DEF IsRecursive
<1>7. ASSUME IsRecursive(calls, C), ~(Cardinality(C) > 1) PROVE k \in calls[k]
  <2>1. C = {k}
    <3>1. Cardinality({k}) = 1 BY Fin!FS_Singleton, SameSets
    <3>2. {k} \in SUBSET C BY <1>4
    <3>3. Cardinality(C) \in Nat /\ ({k} # C => Cardinality({k}) < Cardinality(C))
      BY <3>2, <1>2, PartSize
    <3> QED BY <3>1, <3>3, <1>7
  <2>2. <<k, k>> \in Reached(calls) BY <2>1, <1>7 DEF IsRecursive
  <2>3. PICK g \in calls[k] : To(calls, g, k) BY <2>2, <1>4, <1>c, ReachedFrom
  <2>4. g \in Functions /\ To(calls, k, g) BY <1>4, <1>c, ToCallee
  <2>5. g \in C BY <2>3, <2>4, <1>1, <1>4 DEF Same
  <2> QED BY <2>1, <2>3, <2>5
<1>8. Recursive(C) = (Cardinality(C) > 1 \/ k \in calls[k]) BY <1>3 DEF Recursive
<1>9. IsRecursive(calls, C) \in BOOLEAN BY DEF IsRecursive
<1> QED BY <1>5, <1>6, <1>7, <1>8, <1>9

\* A step of the ordering, with the key of the component it takes.
LEMMA OrderNextStep ==
    ASSUME TypeOK, OrderInv, OrderNext
    PROVE  \E k \in DOMAIN groups :
              /\ deps[k] = {} /\ ordered' = Append(ordered, [members |-> groups[k],
                                                 recursive |-> IsRecursive(calls, groups[k])])
              /\ [members |-> groups[k], recursive |-> IsRecursive(calls, groups[k])]
                    \in [members : SUBSET Functions, recursive : BOOLEAN]
              /\ groups' = [j \in DOMAIN groups \ {k} |-> groups[j]]
              /\ deps' = [j \in DOMAIN deps \ {k} |-> deps[j] \ {k}]
<1>1. PICK k : k = Least(Ready) OBVIOUS
<1>2. Ready # {} /\ Ready \in SUBSET Functions BY DEF OrderNext, Ready, TypeOK
<1>3. k \in Ready BY <1>1, <1>2, LeastMember
<1>4. k \in DOMAIN groups /\ deps[k] = {} BY <1>3 DEF Ready, OrderInv, Dependent
<1>5. groups[k] \in Components(calls) BY <1>4 DEF OrderInv, GroupsByKey
<1>6. Recursive(groups[k]) = IsRecursive(calls, groups[k]) /\ Recursive(groups[k]) \in BOOLEAN
  BY <1>5, RecursiveAgrees
<1>7. groups[k] \in SUBSET Functions BY <1>4 DEF TypeOK
<1>8. [members |-> groups[k], recursive |-> IsRecursive(calls, groups[k])]
         \in [members : SUBSET Functions, recursive : BOOLEAN] BY <1>6, <1>7
<1>9. /\ ordered' = Append(ordered, [members |-> groups[k], recursive |-> IsRecursive(calls, groups[k])])
      /\ groups' = [j \in DOMAIN groups \ {k} |-> groups[j]]
      /\ deps' = [j \in DOMAIN deps \ {k} |-> deps[j] \ {k}]
  BY <1>1, <1>6 DEF OrderNext
<1> QED BY <1>4, <1>8, <1>9

\* What has been handed over, after the component C.
LEMMA HandedGrows ==
    ASSUME NEW l, NEW x, Appends(ordered, ordered', x, l)
    PROVE  Handed' = Handed \cup x.members
<1>1. ASSUME NEW f, f \in Handed' PROVE f \in Handed \cup x.members
  <2>1. PICK i \in DOMAIN ordered' : f \in ordered'[i].members BY <1>1 DEF Handed
  <2> QED BY <2>1 DEF Handed, Appends
<1>2. ASSUME NEW f, f \in Handed \cup x.members PROVE f \in Handed'
  <2>1. CASE f \in x.members BY <2>1 DEF Handed, Appends
  <2>2. CASE f \in Handed
    <3>1. PICK i \in DOMAIN ordered : f \in ordered[i].members BY <2>2 DEF Handed
    <3> QED BY <3>1 DEF Handed, Appends
  <2> QED BY <2>1, <2>2, <1>2
<1> QED BY <1>1, <1>2

LEMMA OrderNextKeeps ==
    ASSUME TypeOK, OrderInv, OrderNext
    PROVE  /\ OrderInv' /\ TypeOK'
           /\ \E k \in DOMAIN groups : Handed' = Handed \cup groups[k] /\ deps[k] = {}
<1>r. /\ calls' = calls /\ pc' = pc /\ roots' = roots /\ stack' = stack /\ visited' = visited
      /\ finish' = finish /\ members' = members BY DEF OrderNext
<1>c. calls \in [Functions -> SUBSET Functions]
      /\ ordered \in Seq([members : SUBSET Functions, recursive : BOOLEAN]) BY DEF TypeOK
<1>i. GroupsByKey /\ AllOrdered /\ Dependent BY DEF OrderInv
<1>1. PICK k \in DOMAIN groups :
              /\ deps[k] = {} /\ ordered' = Append(ordered, [members |-> groups[k],
                                                 recursive |-> IsRecursive(calls, groups[k])])
              /\ [members |-> groups[k], recursive |-> IsRecursive(calls, groups[k])]
                    \in [members : SUBSET Functions, recursive : BOOLEAN]
              /\ groups' = [j \in DOMAIN groups \ {k} |-> groups[j]]
              /\ deps' = [j \in DOMAIN deps \ {k} |-> deps[j] \ {k}]
  BY OrderNextStep
<1>2. PICK x : x = [members |-> groups[k], recursive |-> IsRecursive(calls, groups[k])] OBVIOUS
<1>3. x.members = groups[k] /\ x.recursive = IsRecursive(calls, groups[k]) BY <1>2
<1>4. PICK l : l = Len(ordered) + 1 OBVIOUS
<1>5. ordered' \in Seq([members : SUBSET Functions, recursive : BOOLEAN])
      /\ Appends(ordered, ordered', x, l)
  BY <1>1, <1>2, <1>4, <1>c, AppendFacts
<1>6. Handed' = Handed \cup groups[k] BY <1>3, <1>5, HandedGrows
<1>7. /\ l \in DOMAIN ordered' /\ ordered'[l] = x
      /\ \A i \in DOMAIN ordered : i \in DOMAIN ordered' /\ ordered'[i] = ordered[i]
      /\ \A i \in DOMAIN ordered' : i = l \/ (i \in DOMAIN ordered /\ ordered'[i] = ordered[i])
  BY <1>5 DEF Appends
<1>8. DOMAIN groups' = DOMAIN groups \ {k} /\ \A j \in DOMAIN groups' : groups'[j] = groups[j]
  BY <1>1
<1>9. DOMAIN deps' = DOMAIN groups' /\ \A j \in DOMAIN groups' : deps'[j] = deps[j] \ {k}
  BY <1>1, <1>8, <1>i DEF Dependent
<1>10. GroupsByKey' BY <1>8, <1>r, <1>i DEF GroupsByKey
<1>11. \A j, m \in DOMAIN groups : j # m => groups[j] # groups[m] BY <1>i, KeysFit
<1>12. AllOrdered'
  <2>1. ASSUME NEW C \in Components(calls)
        PROVE  \/ \E j \in DOMAIN groups' : groups'[j] = C
               \/ \E i \in DOMAIN ordered' : ordered'[i].members = C
    <3>1. CASE \E j \in DOMAIN groups : groups[j] = C
      <4>1. PICK j \in DOMAIN groups : groups[j] = C BY <3>1
      <4>2. CASE j = k BY <4>1, <4>2, <1>3, <1>7
      <4>3. CASE j # k BY <4>1, <4>3, <1>8
      <4> QED BY <4>2, <4>3
    <3>2. CASE \E i \in DOMAIN ordered : ordered[i].members = C BY <3>2, <1>7
    <3> QED BY <3>1, <3>2, <1>i DEF AllOrdered
  <2>2. ASSUME NEW i \in DOMAIN ordered'
        PROVE  /\ ordered'[i].members \in Components(calls)
               /\ ordered'[i].recursive = IsRecursive(calls, ordered'[i].members)
               /\ \A j \in DOMAIN groups' : groups'[j] # ordered'[i].members
    <3>1. CASE i = l
      <4>1. ordered'[i].members = groups[k] /\ ordered'[i].recursive = IsRecursive(calls, groups[k])
        BY <3>1, <1>3, <1>7
      <4> QED BY <4>1, <1>8, <1>11, <1>i DEF GroupsByKey
    <3>2. CASE i \in DOMAIN ordered /\ ordered'[i] = ordered[i]
      BY <3>2, <1>8, <1>i DEF AllOrdered
    <3> QED BY <3>1, <3>2, <1>7
  <2> QED BY <2>1, <2>2, <1>r DEF AllOrdered
<1>13. Dependent'
  <2>1. ASSUME NEW j \in DOMAIN groups', NEW m \in deps'[j]
        PROVE  m \in DOMAIN groups' \ {j} /\ \E f \in groups'[j] : \E g \in groups'[m] : g \in calls[f]
    BY <1>8, <1>9, <1>i DEF Dependent
  <2>2. ASSUME NEW j \in DOMAIN groups', NEW g \in CalleesOf(calls, groups'[j])
        PROVE  g \in groups'[j] \/ g \in Handed' \/ \E m \in deps'[j] : g \in groups'[m]
    <3>1. j \in DOMAIN groups /\ groups'[j] = groups[j] BY <1>8
    <3>2. CASE g \in groups[j] \/ g \in Handed BY <3>1, <3>2, <1>6
    <3>3. CASE \E m \in deps[j] : g \in groups[m]
      <4>1. PICK m \in deps[j] : g \in groups[m] BY <3>3
      <4>2. m \in DOMAIN groups BY <3>1, <1>i DEF Dependent
      <4>3. CASE m = k BY <4>1, <4>3, <1>6
      <4>4. CASE m # k BY <4>1, <4>2, <4>4, <1>8, <1>9
      <4> QED BY <4>3, <4>4
    <3> QED BY <3>1, <3>2, <3>3, <1>i DEF Dependent
  <2> QED BY <2>1, <2>2, <1>9, <1>r DEF Dependent
<1>14. TypeOK' BY <1>5, <1>8, <1>9, <1>r DEF TypeOK
<1> QED BY <1>1, <1>6, <1>10, <1>12, <1>13, <1>14 DEF OrderInv

\* While components are left, one of them waits for nothing: of those left, the
\* one that reaches the fewest functions.
LEMMA SomeReady ==
    ASSUME TypeOK, OrderInv, DOMAIN groups # {}
    PROVE  Ready # {}
<1>c. calls \in [Functions -> SUBSET Functions] /\ DOMAIN groups \subseteq Functions
      /\ \A k \in DOMAIN groups : groups[k] \subseteq Functions BY DEF TypeOK
<1>i. GroupsByKey /\ Dependent BY DEF OrderInv
<1>d. DOMAIN deps = DOMAIN groups BY <1>i DEF Dependent
<1> DEFINE R(k) == {x \in Functions : To(calls, k, x)}
           Sizes == {Cardinality(R(k)) : k \in DOMAIN groups}
<1>1. \A k \in DOMAIN groups : IsFiniteSet(R(k)) /\ Cardinality(R(k)) \in Nat
  <2> SUFFICES ASSUME NEW k \in DOMAIN groups
               PROVE  IsFiniteSet(R(k)) /\ Cardinality(R(k)) \in Nat OBVIOUS
  <2>1. R(k) \in SUBSET Functions OBVIOUS
  <2> HIDE DEF R
  <2> QED BY <2>1, FunctionsAreIds, PartSize
<1>2. PICK k \in DOMAIN groups : \A j \in DOMAIN groups : Cardinality(R(k)) <= Cardinality(R(j))
  <2>1. Sizes \in SUBSET Nat /\ Sizes # {} BY <1>1
  <2>2. PICK z \in Sizes : \A y \in Sizes : z <= y
    <3> HIDE DEF Sizes
    <3> QED BY <2>1, LeastElement
  <2> HIDE DEF R
  <2> QED BY <2>2
<1>3. deps[k] = {}
  <2> SUFFICES ASSUME NEW j \in deps[k] PROVE FALSE OBVIOUS
  <2>1. PICK f \in groups[k], g \in groups[j] : g \in calls[f] BY <1>i DEF Dependent
  <2>2. j \in DOMAIN groups /\ j # k BY <1>i DEF Dependent
  <2>3. k \in groups[k] /\ j \in groups[j] /\ groups[j] \cap groups[k] = {}
    BY <2>2, <1>i, KeysFit
  <2>4. groups[k] \in Components(calls) /\ groups[j] \in Components(calls)
    BY <2>2, <1>i DEF GroupsByKey
  <2>5. k \in Functions /\ j \in Functions /\ f \in Functions /\ g \in Functions
    BY <2>1, <2>2, <1>c
  <2>6. To(calls, k, f) BY <2>1, <2>3, <2>4, <2>5, <1>c, ComponentMembers DEF Same
  <2>7. To(calls, g, j) BY <2>1, <2>3, <2>4, <2>5, <1>c, ComponentMembers DEF Same
  <2>8. To(calls, f, g) BY <2>1, <2>5, <1>c, ToCallee
  <2>9. To(calls, k, j)
    <3>1. To(calls, k, g) BY <2>6, <2>8, <1>c, ToTransitive
    <3> QED BY <3>1, <2>7, <1>c, ToTransitive
  <2>10. ~To(calls, j, k)
    <3> SUFFICES ASSUME To(calls, j, k) PROVE FALSE OBVIOUS
    <3>1. Same(calls, k, j) BY <2>9 DEF Same
    <3>2. j \in groups[k] BY <3>1, <2>3, <2>4, <2>5, <1>c, ComponentMembers
    <3> QED BY <3>2, <2>3
  <2>11. R(j) \in SUBSET R(k) BY <2>9, <1>c, ToTransitive
  <2>12. k \in R(k) /\ k \notin R(j) BY <2>5, <2>10 DEF To
  <2>13. Cardinality(R(j)) < Cardinality(R(k))
    <3> HIDE DEF R
    <3> QED BY <2>11, <2>12, <1>1, PartSize
  <2>14. Cardinality(R(j)) \in Nat /\ Cardinality(R(k)) \in Nat
         /\ Cardinality(R(k)) <= Cardinality(R(j))
    <3> HIDE DEF R
    <3> QED BY <2>2, <1>1, <1>2
  <2> HIDE DEF R
  <2> QED BY <2>13, <2>14
<1> QED BY <1>3, <1>d DEF Ready

-----------------------------------------------------------------------------
(* The theorems. *)

LEMMA InitComponents ==
    ASSUME Init
    PROVE  ComponentsInv
<1>r. /\ calls \in [Functions -> SUBSET Functions] /\ pc = "search" /\ roots = Increasing(Functions)
      /\ stack = <<>> /\ visited = {} /\ finish = <<>>
      /\ members = {} /\ groups = <<>> /\ deps = <<>> /\ ordered = <<>> BY DEF Init
<1>1. Covers(roots, Functions) BY <1>r, FunctionsAreIds, IncreasingCovers
<1>2. roots \in Seq(Functions) /\ \A f \in Functions : Holds(roots, f) BY <1>1 DEF Covers
<1>3. DOMAIN stack = {} /\ DOMAIN finish = {} /\ DOMAIN groups = {} /\ DOMAIN deps = {} BY <1>r
<1>4. \A g : ~Open(g) /\ ~Finished(g) BY <1>3 DEF Open, Finished, Holds
<1>5. SearchInv
  <2>1. NoneForgotten BY <1>2 DEF NoneForgotten
  <2>2. VisitedStates BY <1>4, <1>r DEF VisitedStates
  <2>3. StackReached /\ CalleesWait /\ LastOfComponent
    BY <1>3, <1>r DEF StackReached, CalleesWait, LastOfComponent
  <2>4. LeadsBack BY <1>4 DEF LeadsBack
  <2> QED BY <2>1, <2>2, <2>3, <2>4, <1>r DEF SearchInv
<1>6. TypeOK
  <2>1. /\ finish \in Seq(Functions) /\ stack \in Seq(Functions \X BOOLEAN)
        /\ ordered \in Seq([members : SUBSET Functions, recursive : BOOLEAN]) BY <1>r
  <2> QED BY <2>1, <1>2, <1>3, <1>r DEF TypeOK
<1> QED BY <1>5, <1>6, <1>r DEF ComponentsInv

LEMMA NextComponents ==
    ASSUME ComponentsInv, [Next]_vars
    PROVE  ComponentsInv'
<1>t. TypeOK BY DEF ComponentsInv
<1>1. CASE SearchRoot
  <2>1. pc = "search" /\ pc' = "search" /\ ordered' = ordered /\ deps' = deps BY <1>1 DEF SearchRoot
  <2>2. SearchInv' /\ TypeOK' BY <2>1, <1>1, SearchRootKeeps DEF ComponentsInv
  <2> QED BY <2>1, <2>2 DEF ComponentsInv
<1>2. CASE SearchPop
  <2>1. pc = "search" /\ pc' = "search" /\ ordered' = ordered /\ deps' = deps BY <1>2 DEF SearchPop
  <2>2. SearchInv' /\ TypeOK' BY <2>1, <1>2, SearchPopKeeps DEF ComponentsInv
  <2> QED BY <2>1, <2>2 DEF ComponentsInv
<1>3. CASE SearchEnd
  <2>1. pc = "search" /\ pc' = "group" /\ ordered' = ordered /\ deps' = deps BY <1>3 DEF SearchEnd
  <2>2. GroupInv' /\ TypeOK' BY <2>1, <1>3, SearchEndKeeps DEF ComponentsInv
  <2> QED BY <2>1, <2>2 DEF ComponentsInv
<1>4. CASE GroupRoot
  <2>1. pc = "group" /\ pc' = "group" /\ ordered' = ordered /\ deps' = deps BY <1>4 DEF GroupRoot
  <2>2. GroupInv' /\ TypeOK' BY <2>1, <1>4, GroupRootKeeps DEF ComponentsInv
  <2> QED BY <2>1, <2>2 DEF ComponentsInv
<1>5. CASE GroupPop
  <2>1. pc = "group" /\ pc' = "group" /\ ordered' = ordered /\ deps' = deps BY <1>5 DEF GroupPop
  <2>2. GroupInv' /\ TypeOK' BY <2>1, <1>5, GroupPopKeeps DEF ComponentsInv
  <2> QED BY <2>1, <2>2 DEF ComponentsInv
<1>6. CASE GroupEnd
  <2>1. pc = "group" /\ pc' = "group" /\ ordered' = ordered /\ deps' = deps BY <1>6 DEF GroupEnd
  <2>2. GroupInv' /\ TypeOK' BY <2>1, <1>6, GroupEndKeeps DEF ComponentsInv
  <2> QED BY <2>1, <2>2 DEF ComponentsInv
<1>7. CASE StartOrder
  <2>1. pc = "group" /\ pc' = "order" BY <1>7 DEF StartOrder
  <2>2. OrderInv' /\ TypeOK' BY <2>1, <1>7, StartOrderKeeps DEF ComponentsInv
  <2> QED BY <2>1, <2>2 DEF ComponentsInv
<1>8. CASE OrderNext
  <2>1. pc = "order" /\ pc' = "order" BY <1>8 DEF OrderNext
  <2>2. OrderInv' /\ TypeOK' BY <2>1, <1>8, OrderNextKeeps DEF ComponentsInv
  <2> QED BY <2>1, <2>2 DEF ComponentsInv
<1>9. CASE OrderEnd
  <2>1. /\ pc = "order" /\ pc' = "done" /\ Ready = {} /\ calls' = calls /\ groups' = groups
        /\ deps' = deps /\ ordered' = ordered /\ roots' = roots /\ stack' = stack
        /\ visited' = visited /\ finish' = finish /\ members' = members
    BY <1>9 DEF OrderEnd
  <2>2. OrderInv BY <2>1 DEF ComponentsInv
  <2>3. OrderInv' BY <2>1, <2>2 DEF OrderInv, GroupsByKey, AllOrdered, Dependent, Handed
  <2>4. Ready' = {} BY <2>1 DEF Ready
  <2>5. TypeOK' BY <2>1, <1>t DEF TypeOK
  <2> QED BY <2>1, <2>3, <2>4, <2>5 DEF ComponentsInv
<1>10. CASE UNCHANGED vars
  <2>1. /\ calls' = calls /\ pc' = pc /\ roots' = roots /\ stack' = stack /\ visited' = visited
        /\ finish' = finish /\ members' = members /\ groups' = groups /\ deps' = deps
        /\ ordered' = ordered BY <1>10 DEF vars
  <2>2. TypeOK' = TypeOK BY <2>1 DEF TypeOK
  <2>3. SearchInv' = SearchInv
    BY <2>1 DEF SearchInv, NoneForgotten, VisitedStates, StackReached, CalleesWait, LeadsBack,
                LastOfComponent, Finished, Open, Waiting
  <2>4. GroupInv' = GroupInv
    BY <2>1 DEF GroupInv, AllFinished, FinishOrder, RootsLeft, LaterGrouped, FromRoot, CallersWait,
                EarlierClosed, GroupsByKey, EarlierGrouped, Earlier, Collecting, Root, Callers,
                Finished, Waiting
  <2>5. OrderInv' = OrderInv BY <2>1 DEF OrderInv, GroupsByKey, AllOrdered, Dependent, Handed
  <2>6. Ready' = Ready BY <2>1 DEF Ready
  <2> QED BY <2>1, <2>2, <2>3, <2>4, <2>5, <2>6 DEF ComponentsInv
<1> QED BY <1>1, <1>2, <1>3, <1>4, <1>5, <1>6, <1>7, <1>8, <1>9, <1>10 DEF Next

LEMMA ComponentsInvariant == Spec => []ComponentsInv
<1>1. Init => ComponentsInv BY InitComponents
<1>2. ComponentsInv /\ [Next]_vars => ComponentsInv' BY NextComponents
<1> QED BY <1>1, <1>2, PTL DEF Spec

\* components() keeps its stacks, lists and maps over the functions of the program.
THEOREM OrderTypes == Spec => []TypeOK
<1>1. ComponentsInv => TypeOK BY DEF ComponentsInv
<1> QED BY <1>1, ComponentsInvariant, PTL

\* For any call graph and any identifiers, each group components() collects is
\* one whole strongly connected component; when the ordering starts all have been
\* found; and a component is marked recursive exactly when a member can call itself.
THEOREM GroupsAreComponentsHolds == Spec => []GroupsAreComponents
<1>1. ASSUME ComponentsInv PROVE GroupsAreComponents
  <2>1. pc \in {"search", "group", "order", "done"} BY <1>1 DEF ComponentsInv, TypeOK
  <2>2. CASE pc = "search"
    <3>1. DOMAIN groups = {} /\ DOMAIN ordered = {} BY <2>2, <1>1 DEF ComponentsInv, SearchInv
    <3> QED BY <3>1, <2>2 DEF GroupsAreComponents
  <2>3. CASE pc = "group"
    <3>1. DOMAIN ordered = {} BY <2>3, <1>1 DEF ComponentsInv
    <3>2. GroupsByKey BY <2>3, <1>1 DEF ComponentsInv, GroupInv
    <3> QED BY <3>1, <3>2, <2>3 DEF GroupsAreComponents, GroupsByKey
  <2>4. CASE pc \in {"order", "done"}
    <3>1. GroupsByKey /\ AllOrdered BY <2>4, <1>1 DEF ComponentsInv, OrderInv
    <3>2. {groups[k] : k \in DOMAIN groups} \subseteq Components(calls) BY <3>1 DEF GroupsByKey
    <3>3. {ordered[i].members : i \in DOMAIN ordered} \subseteq Components(calls)
      BY <3>1 DEF AllOrdered
    <3>4. Components(calls) \subseteq {groups[k] : k \in DOMAIN groups} \cup
                                      {ordered[i].members : i \in DOMAIN ordered}
      BY <3>1 DEF AllOrdered
    <3>5. \A i \in DOMAIN ordered : ordered[i].recursive = IsRecursive(calls, ordered[i].members)
      BY <3>1 DEF AllOrdered
    <3> QED BY <3>2, <3>3, <3>4, <3>5 DEF GroupsAreComponents
  <2> QED BY <2>1, <2>2, <2>3, <2>4
<1> QED BY <1>1, ComponentsInvariant, PTL

\* The worklist never stops early: when components() returns, every function has
\* been handed over (the assertion that ends it).
NoneLeftOver == pc = "done" => Handed = Functions

\* The debug_assert at the end of components() never fails, for any call graph:
\* among the components left some one has no callee among the others.
THEOREM NoneLeftOverHolds == Spec => []NoneLeftOver
<1>1. ASSUME ComponentsInv, pc = "done" PROVE Handed = Functions
  <2>c. calls \in [Functions -> SUBSET Functions] BY <1>1 DEF ComponentsInv, TypeOK
  <2>1. OrderInv /\ Ready = {} /\ TypeOK BY <1>1 DEF ComponentsInv
  <2>2. DOMAIN groups = {} BY <2>1, SomeReady
  <2>3. AllOrdered BY <2>1 DEF OrderInv
  <2>4. ASSUME NEW f \in Functions PROVE f \in Handed
    <3>1. f \in ComponentOf(calls, f) /\ ComponentOf(calls, f) \in Components(calls)
      BY <2>c, ComponentsApart
    <3>2. PICK i \in DOMAIN ordered : ordered[i].members = ComponentOf(calls, f)
      BY <3>1, <2>2, <2>3 DEF AllOrdered
    <3> QED BY <3>1, <3>2 DEF Handed
  <2>5. ASSUME NEW f \in Handed PROVE f \in Functions
    <3>1. PICK i \in DOMAIN ordered : f \in ordered[i].members BY DEF Handed
    <3>2. ordered[i].members \subseteq Functions BY <2>3, <2>c, ComponentMembers DEF AllOrdered
    <3> QED BY <3>1, <3>2
  <2> QED BY <2>4, <2>5
<1>2. ComponentsInv => NoneLeftOver BY <1>1 DEF NoneLeftOver
<1> QED BY <1>2, ComponentsInvariant, PTL

\* The promise speaks of the same graph.
LEMMA SameGraph ==
    ASSUME NEW c
    PROVE  /\ Promise!Components(c) = Components(c)
           /\ \A C : Promise!CalleesOf(c, C) = CalleesOf(c, C)
<1>1. Promise!Components(c) = Components(c)
  BY Zenon DEF Components, Promise!Components, Reached, Promise!Reached, CallClosed, Promise!CallClosed
<1>2. QED BY <1>1 DEF CalleesOf, Promise!CalleesOf

\* Every step of components() is a step of the promise or leaves it alone: a
\* component is handed over whole, once, and after every function it calls.
THEOREM CalleesFirst == Spec => Promise!Init /\ [][Promise!Next]_Promise!vars
<1>1. Init => Promise!Init
  <2> SUFFICES ASSUME Init PROVE Promise!Init OBVIOUS
  <2>1. calls \in [Functions -> SUBSET Functions] /\ ordered = <<>> BY DEF Init
  <2>2. DOMAIN ordered = {} BY <2>1
  <2>3. Handed = {} BY <2>2 DEF Handed
  <2> QED BY <2>1, <2>3 DEF Promise!Init
<1>2. ASSUME ComponentsInv, [Next]_vars PROVE [Promise!Next]_Promise!vars
  <2>t. TypeOK /\ calls \in [Functions -> SUBSET Functions] BY <1>2 DEF ComponentsInv, TypeOK
  <2>1. CASE OrderNext
    <3>1. OrderInv BY <2>1, <1>2 DEF ComponentsInv, OrderNext
    <3>2. PICK k \in DOMAIN groups : Handed' = Handed \cup groups[k] /\ deps[k] = {}
      BY <3>1, <2>1, <2>t, OrderNextKeeps
    <3>3. calls' = calls BY <2>1 DEF OrderNext
    <3>4. groups[k] \in Components(calls) BY <3>1 DEF OrderInv, GroupsByKey
    <3>5. groups[k] \cap Handed = {}
      <4> SUFFICES ASSUME NEW f \in groups[k], f \in Handed PROVE FALSE OBVIOUS
      <4>1. PICK i \in DOMAIN ordered : f \in ordered[i].members BY DEF Handed
      <4>2. ordered[i].members \in Components(calls) /\ groups[k] # ordered[i].members
        BY <3>1 DEF OrderInv, AllOrdered
      <4> QED BY <4>1, <4>2, <3>4, <2>t, ComponentsApart
    <3>6. CalleesOf(calls, groups[k]) \subseteq Handed \cup groups[k]
      BY <3>1, <3>2 DEF OrderInv, Dependent
    <3>7. Promise!Take(groups[k]) BY <3>2, <3>3, <3>5, <3>6, SameGraph DEF Promise!Take
    <3> QED BY <3>4, <3>7, SameGraph DEF Promise!Next
  <2>2. CASE ordered' = ordered /\ calls' = calls
    <3>1. Handed' = Handed BY <2>2 DEF Handed
    <3> QED BY <3>1, <2>2 DEF Promise!vars
  <2>3. (ordered' = ordered /\ calls' = calls) \/ OrderNext
    BY <1>2 DEF Next, vars, SearchRoot, SearchPop, SearchEnd, GroupRoot, GroupPop, GroupEnd,
                StartOrder, OrderEnd
  <2> QED BY <2>1, <2>2, <2>3
<1> QED BY <1>1, <1>2, ComponentsInvariant, PTL DEF Spec

=============================================================================
