-------------------------- MODULE StaticLoansProofs --------------------------
(***************************************************************************)
(* What the verifier's loan analysis promises about runs, for any number   *)
(* of loan sites, permission values, branches and loops, provided no edge  *)
(* leaves an available authority behind (~Leaks).                          *)
(*                                                                         *)
(* The argument is a simulation: the abstract state of a path stands for   *)
(* the run that took it (Follows).  It is not enough by itself.  A join    *)
(* adds up the holders that two paths know of a loan, so the analysis may  *)
(* count a holder that the run has already lost, and then prove an         *)
(* instruction that the run refuses.  A join may also make the loan of a   *)
(* value unknown; a move of that value renames no holder, so that the run  *)
(* holds what the analysis has on record for nobody.  What saves the       *)
(* promise is that such a loan keeps a holder that no instruction can      *)
(* remove (Doubts), so it stays on record and no return is proven behind   *)
(* it.  Instructions neither add nor remove such holders, so the two paths *)
(* that meet have the same ones (SameDoubts), and a loan that has one on   *)
(* either path has one behind the join.                                    *)
(***************************************************************************)
EXTENDS StaticLoans, LoanTableProofs

\* The value may still hold an authority.
May(A, x) == A.values[x].availability \in {"Available", "MaybeConsumed"}

\* The value holds the authority of a loan that the analysis can name.
Certain(A, x) ==
    A.values[x].availability = "Available" /\ A.values[x].authority \in LoanIds

\* The two halves of an abstract state agree on who holds what.
Shape(A) ==
    /\ A \in AbstractState
    /\ \A l \in LoanIds : \A x \in A.loans[l].authorities :
          Certain(A, x) => A.values[x].authority = l
    /\ \A x \in Names : Certain(A, x) => x \in A.loans[A.values[x].authority].authorities
    /\ \A l \in LoanIds : Gone(A, l) => A.loans[l].authorities = {}

\* The holders on record of loan l that can never be used, and so never end it.
Doubts(A, l) == {x \in A.loans[l].authorities : ~Certain(A, x)}

SameDoubts(A, B) == \A l \in LoanIds : Doubts(A, l) = Doubts(B, l)

Stuck(A) == \E l \in LoanIds : Doubts(A, l) # {}

\* The live loans of table T are loans of the program text s that A has on record.
Records(s, A, T) ==
    \A l \in LiveLoans(T) :
        /\ l \in DOMAIN s
        /\ T[l].range = s[l].range /\ T[l].kind = s[l].kind /\ T[l].allocation = Heap
        /\ ~Gone(A, l)
        /\ A.loans[l].parent = T[l].parent
        /\ A.loans[l].activity = "Active" => T[l].activity = "Active"

\* Value x is on record as a holder of loan l, or it was moved when its loan was
\* unknown; then the record of l keeps a holder that can never be used.
Listed(A, l, x) ==
    x \in A.loans[l].authorities \/ (A.values[x].authority = NoLoan /\ Doubts(A, l) # {})

\* What a value holds in the run is what A has on record for it.
KnowsValue(A, held, x) ==
    /\ held[x].loan \in LoanIds =>
          /\ A.values[x].authority \in {held[x].loan, NoLoan} /\ May(A, x)
          /\ Listed(A, held[x].loan, x)
    /\ A.values[x].availability = "Available" => held[x].loan \in LoanIds
    /\ Certain(A, x) => held[x].loan = A.values[x].authority

Knows(A, held) == \A x \in Names : KnowsValue(A, held, x)

\* The authorities of a table are the ones that the values hold, each one once.
Holding(T, held) ==
    /\ \A l \in LoanIds :
          T[l].authorities = {held[x].token : x \in {y \in Names : held[y].loan = l}}
    /\ \A x, y \in Names : held[x].loan \in LoanIds /\ held[x] = held[y] => x = y

\* A stands for run R of program text s.
Follows(s, A, R) ==
    TableInv(R.table) /\ Records(s, A, R.table) /\ Knows(A, R.held) /\ Holding(R.table, R.held)

\* A path: the analysis stands for the run, or will never get rid of a holder.
PathInv(s, A, R) ==
    /\ Shape(A) /\ R \in RunState
    /\ R.refused => Stuck(A)
    /\ ~R.refused => Follows(s, A, R)

StaticInv ==
    /\ site \in Sites
    /\ cur \in [abs : AbstractState, run : RunState]
    /\ other \in [abs : AbstractState, run : RunState]
    /\ PathInv(site, cur.abs, cur.run) /\ PathInv(site, other.abs, other.run)
    /\ stage \in {"first", "second"} => SameDoubts(cur.abs, other.abs)
    /\ stage \in {"straight", "first", "second", "returned"}
    /\ room \in 0 .. MaxArm
    /\ stage = "returned" => ~cur.run.refused

-----------------------------------------------------------------------------
(* Who holds what in the abstract state. *)

\* B is A with value y as a new holder of loan l.
Gains(A, B, l, y) ==
    /\ B \in AbstractState
    /\ B.values[y].authority = l /\ B.values[y].availability = "Available"
    /\ \A x \in Names : x # y => B.values[x] = A.values[x]
    /\ B.loans[l].authorities = A.loans[l].authorities \cup {y} /\ ~Gone(B, l)
    /\ \A m \in LoanIds : m # l =>
          B.loans[m].authorities = A.loans[m].authorities /\ (Gone(B, m) => Gone(A, m))

\* B is A without x as a holder of loan l.
Loses(A, B, l, x) ==
    /\ B \in AbstractState
    /\ B.values[x].availability = "Consumed"
    /\ \A y \in Names : y # x => B.values[y] = A.values[y]
    /\ B.loans[l].authorities = A.loans[l].authorities \ {x}
    /\ Gone(B, l) => A.loans[l].authorities \ {x} = {}
    /\ \A m \in LoanIds : m # l =>
          B.loans[m].authorities = A.loans[m].authorities /\ (Gone(B, m) => Gone(A, m))

\* Paths with the same doubts are stuck together.
LEMMA DoubtsStick ==
    ASSUME NEW A, NEW B, SameDoubts(A, B)
    PROVE  Stuck(A) => Stuck(B)
BY DEF SameDoubts, Stuck

\* Taking a free name for a new holder keeps the shape and the doubts.
LEMMA GainShape ==
    ASSUME ~Leaks, NEW A, Shape(A), NEW B, NEW l \in LoanIds, NEW y \in Names, Free(A, y),
           Gains(A, B, l, y)
    PROVE  Shape(B) /\ SameDoubts(A, B)
<1>2. \A m \in LoanIds : y \notin A.loans[m].authorities BY DEF Free
<1>3. Certain(B, y) BY DEF Gains, Certain
<1>4. \A x \in Names : x # y => (Certain(B, x) <=> Certain(A, x)) BY DEF Gains, Certain
<1>5. \A m \in LoanIds : A.loans[m].authorities \subseteq Names
  BY DEF Shape, AbstractState, AbstractLoan
<1>6. \A m \in LoanIds : \A x \in B.loans[m].authorities :
         \/ x = y /\ m = l
         \/ x # y /\ x \in A.loans[m].authorities
  BY <1>2 DEF Gains
<1>7. \A m \in LoanIds : A.loans[m].authorities \subseteq B.loans[m].authorities BY DEF Gains
<1>8. ASSUME NEW m \in LoanIds, NEW x \in B.loans[m].authorities, Certain(B, x)
      PROVE  B.values[x].authority = m
  <2>1. CASE x = y /\ m = l BY <2>1 DEF Gains
  <2>2. CASE x # y /\ x \in A.loans[m].authorities
    <3>1. x \in Names /\ B.values[x] = A.values[x] BY <2>2, <1>5 DEF Gains
    <3> QED BY <3>1, <2>2, <1>4, <1>8 DEF Shape
  <2> QED BY <1>6, <2>1, <2>2
<1>9. ASSUME NEW x \in Names, Certain(B, x)
      PROVE  x \in B.loans[B.values[x].authority].authorities
  <2>1. CASE x = y BY <2>1 DEF Gains
  <2>2. CASE x # y
    <3>1. B.values[x] = A.values[x] /\ Certain(A, x) BY <2>2, <1>4, <1>9 DEF Gains
    <3> QED BY <3>1, <1>7 DEF Shape, Certain
  <2> QED BY <2>1, <2>2
<1>10. \A m \in LoanIds : Gone(B, m) => B.loans[m].authorities = {} BY DEF Gains, Shape
<1>11. Shape(B) BY <1>8, <1>9, <1>10 DEF Shape, Gains
<1>12. ASSUME NEW m \in LoanIds PROVE Doubts(A, m) = Doubts(B, m)
  <2>1. ASSUME NEW x \in Doubts(A, m) PROVE x \in Doubts(B, m)
    <3>1. x \in A.loans[m].authorities /\ ~Certain(A, x) BY DEF Doubts
    <3>2. x # y /\ x \in Names /\ x \in B.loans[m].authorities BY <3>1, <1>2, <1>5, <1>7
    <3> QED BY <3>1, <3>2, <1>4 DEF Doubts
  <2>2. ASSUME NEW x \in Doubts(B, m) PROVE x \in Doubts(A, m)
    <3>1. x \in B.loans[m].authorities /\ ~Certain(B, x) BY DEF Doubts
    <3>2. x # y /\ x \in A.loans[m].authorities /\ x \in Names BY <3>1, <1>3, <1>5, <1>6
    <3> QED BY <3>1, <3>2, <1>4 DEF Doubts
  <2> QED BY <2>1, <2>2
<1> QED BY <1>11, <1>12 DEF SameDoubts

\* Taking the authority from a value that certainly has it keeps the shape and
\* the doubts.
LEMMA LoseShape ==
    ASSUME NEW A, Shape(A), NEW B, NEW x \in Names, Certain(A, x),
           Loses(A, B, A.values[x].authority, x)
    PROVE  Shape(B) /\ SameDoubts(A, B)
<1>l. PICK l \in LoanIds : l = A.values[x].authority BY DEF Certain
<1>1. Loses(A, B, l, x) BY <1>l
<1>2. ~Certain(B, x) BY DEF Loses, Certain
<1>3. \A y \in Names : y # x => (Certain(B, y) <=> Certain(A, y)) BY DEF Loses, Certain
<1>4. \A m \in LoanIds : A.loans[m].authorities \subseteq Names
  BY DEF Shape, AbstractState, AbstractLoan
<1>5. \A m \in LoanIds : x \in A.loans[m].authorities => m = l BY <1>l DEF Shape
<1>6. \A m \in LoanIds : B.loans[m].authorities = A.loans[m].authorities \ {x}
  BY <1>1, <1>5 DEF Loses
<1>7. ASSUME NEW m \in LoanIds, NEW y \in B.loans[m].authorities, Certain(B, y)
      PROVE  B.values[y].authority = m
  <2>1. y # x /\ y \in A.loans[m].authorities /\ y \in Names BY <1>4, <1>6
  <2>2. B.values[y] = A.values[y] BY <2>1 DEF Loses
  <2> QED BY <2>1, <2>2, <1>3, <1>7 DEF Shape
<1>8. ASSUME NEW y \in Names, Certain(B, y)
      PROVE  y \in B.loans[B.values[y].authority].authorities
  <2>1. y # x BY <1>2, <1>8
  <2>2. B.values[y] = A.values[y] /\ Certain(A, y) BY <2>1, <1>3, <1>8 DEF Loses
  <2>3. A.values[y].authority \in LoanIds /\ y \in A.loans[A.values[y].authority].authorities
    BY <2>2 DEF Shape, Certain
  <2> QED BY <2>1, <2>2, <2>3, <1>6
<1>9. \A m \in LoanIds : Gone(B, m) => B.loans[m].authorities = {}
  BY <1>1, <1>6 DEF Loses, Shape
<1>10. Shape(B) BY <1>7, <1>8, <1>9 DEF Shape, Loses
<1>11. \A m \in LoanIds : Doubts(A, m) = Doubts(B, m) BY <1>3, <1>4, <1>6 DEF Doubts
<1> QED BY <1>10, <1>11 DEF SameDoubts

-----------------------------------------------------------------------------
(* Who holds what in a run. *)

HeldValue == [loan : LoanIds \cup {NoLoan}, token : Tokens \cup {NoToken}]

\* Value y holds h from now on.
With(held, y, h) == [held EXCEPT ![y] = h]

\* What the values hold after the change.
LEMMA WithAt ==
    ASSUME NEW held \in [Names -> HeldValue], NEW y \in Names, NEW h \in HeldValue
    PROVE  /\ With(held, y, h) \in [Names -> HeldValue] /\ With(held, y, h)[y] = h
           /\ \A x \in Names : x # y => With(held, y, h)[x] = held[x]
BY DEF With

LEMMA WithGives ==
    ASSUME NEW held \in [Names -> HeldValue], NEW y \in Names, NEW h \in HeldValue,
           NEW g, g = With(held, y, h)
    PROVE  /\ g \in [Names -> HeldValue] /\ g[y] = h
           /\ \A x \in Names : x # y => g[x] = held[x]
BY WithAt

\* An empty hand.
LEMMA NothingHeld == Nothing \in HeldValue /\ Nothing.loan \notin LoanIds
BY LoanTableAssumption DEF Nothing, HeldValue

\* Whoever holds something of a loan has one of its authorities.
LEMMA HeldIsLive ==
    ASSUME NEW T, Held(T), NEW held, Holding(T, held), NEW x \in Names,
           held[x].loan \in LoanIds
    PROVE  held[x].token \in T[held[x].loan].authorities /\ Live(T, held[x].loan)
<1>1. held[x].token \in T[held[x].loan].authorities BY DEF Holding
<1> QED BY <1>1 DEF Held

\* A token that is granted is held by the value it is given to.
LEMMA HoldGain ==
    ASSUME NEW T \in Table, NEW M, NEW held \in [Names -> HeldValue], Holding(T, held),
           NEW l \in LoanIds, NEW t \in Tokens, t \notin T[l].authorities, Grants(T, M, l, t),
           NEW y \in Names, held[y].loan \notin LoanIds,
           NEW g, g = With(held, y, [loan |-> l, token |-> t])
    PROVE  Holding(M, g)
<1>h. PICK h : h = [loan |-> l, token |-> t] OBVIOUS
<1>1. h \in HeldValue /\ h.loan = l /\ h.token = t BY <1>h DEF HeldValue
<1>2. g[y] = h /\ \A x \in Names : x # y => g[x] = held[x] BY <1>1, <1>h, WithAt
<1>3. \A x \in Names : held[x].loan = l => held[x].token # t BY DEF Holding
<1>4. ASSUME NEW m \in LoanIds
      PROVE  M[m].authorities = {g[x].token : x \in {z \in Names : g[z].loan = m}}
  <2>1. T[m].authorities = {held[x].token : x \in {z \in Names : held[z].loan = m}}
    BY DEF Holding
  <2>2. M[m].authorities = IF m = l THEN T[m].authorities \cup {t} ELSE T[m].authorities
    BY DEF Grants
  <2>3. CASE m = l
    <3>1. {z \in Names : g[z].loan = m} = {z \in Names : held[z].loan = m} \cup {y}
      BY <1>1, <1>2, <2>3
    <3>2. \A x \in {z \in Names : held[z].loan = m} : g[x].token = held[x].token BY <1>2
    <3> QED BY <1>1, <1>2, <2>1, <2>2, <2>3, <3>1, <3>2
  <2>4. CASE m # l
    <3>1. {z \in Names : g[z].loan = m} = {z \in Names : held[z].loan = m} BY <1>1, <1>2, <2>4
    <3>2. \A x \in {z \in Names : held[z].loan = m} : g[x].token = held[x].token BY <1>2
    <3> QED BY <2>1, <2>2, <2>4, <3>1, <3>2
  <2> QED BY <2>3, <2>4
<1>5. ASSUME NEW x \in Names, NEW z \in Names, g[x].loan \in LoanIds, g[x] = g[z]
      PROVE  x = z
  <2>1. CASE x = y /\ z # y BY <2>1, <1>1, <1>2, <1>3, <1>5
  <2>2. CASE x # y /\ z = y BY <2>2, <1>1, <1>2, <1>3, <1>5
  <2>3. CASE x # y /\ z # y BY <2>3, <1>2, <1>5 DEF Holding
  <2> QED BY <2>1, <2>2, <2>3
<1> QED BY <1>4, <1>5 DEF Holding

\* A token that is revoked is the one of the value that gives it up.
LEMMA HoldLose ==
    ASSUME NEW T \in Table, NEW M, NEW held \in [Names -> HeldValue], Holding(T, held),
           NEW x \in Names, held[x].loan \in LoanIds,
           Revokes(T, M, held[x].loan, held[x].token),
           NEW g, g = With(held, x, Nothing)
    PROVE  Holding(M, g)
<1>l. PICK l \in LoanIds : l = held[x].loan OBVIOUS
<1>t. PICK t : t = held[x].token OBVIOUS
<1>r. Revokes(T, M, l, t) BY <1>l, <1>t
<1>1. Nothing \in HeldValue /\ Nothing.loan \notin LoanIds BY NothingHeld
<1>2. g[x] = Nothing /\ \A y \in Names : y # x => g[y] = held[y] BY <1>1, WithAt
<1>3. \A y \in Names : held[y].loan = l /\ held[y].token = t => y = x
  <2> SUFFICES ASSUME NEW y \in Names, held[y].loan = l, held[y].token = t PROVE y = x
    OBVIOUS
  <2>1. held[y] = held[x] BY <1>l, <1>t DEF HeldValue
  <2> QED BY <2>1 DEF Holding
<1>4. ASSUME NEW m \in LoanIds
      PROVE  M[m].authorities = {g[y].token : y \in {z \in Names : g[z].loan = m}}
  <2>1. T[m].authorities = {held[y].token : y \in {z \in Names : held[z].loan = m}}
    BY DEF Holding
  <2>2. M[m].authorities = IF m = l THEN T[m].authorities \ {t} ELSE T[m].authorities
    BY <1>r DEF Revokes
  <2>3. {z \in Names : g[z].loan = m} = {z \in Names : held[z].loan = m} \ {x}
    BY <1>1, <1>2
  <2>4. \A y \in {z \in Names : held[z].loan = m} \ {x} : g[y].token = held[y].token BY <1>2
  <2>5. CASE m = l BY <1>3, <1>t, <2>1, <2>2, <2>3, <2>4, <2>5
  <2>6. CASE m # l
    <3>1. {z \in Names : held[z].loan = m} \ {x} = {z \in Names : held[z].loan = m}
      BY <1>l, <2>6
    <3> QED BY <2>1, <2>2, <2>3, <2>4, <2>6, <3>1
  <2> QED BY <2>5, <2>6
<1>5. ASSUME NEW y \in Names, NEW z \in Names, g[y].loan \in LoanIds, g[y] = g[z]
      PROVE  y = z
  <2>1. y # x /\ z # x BY <1>1, <1>2, <1>5
  <2> QED BY <2>1, <1>2, <1>5 DEF Holding
<1> QED BY <1>4, <1>5 DEF Holding

\* A free name holds nothing.
LEMMA FreeHoldsNothing ==
    ASSUME NEW A, Shape(A), NEW held, Knows(A, held), NEW y \in Names, Free(A, y)
    PROVE  held[y].loan \notin LoanIds
BY DEF Free, May, Knows, KnowsValue

\* What is known of a value that a step does not touch.
LEMMA KnowsSame ==
    ASSUME NEW A, NEW B, SameDoubts(A, B), NEW held, Knows(A, held), NEW g,
           NEW x \in Names, g[x] = held[x], B.values[x] = A.values[x],
           \A m \in LoanIds : x \in A.loans[m].authorities => x \in B.loans[m].authorities
    PROVE  KnowsValue(B, g, x)
BY DEF Knows, KnowsValue, Listed, May, Certain, SameDoubts

\* The analysis knows the new holder.
LEMMA KnowGain ==
    ASSUME NEW A, NEW B, NEW held \in [Names -> HeldValue], Knows(A, held), SameDoubts(A, B),
           NEW l \in LoanIds, NEW y \in Names, Gains(A, B, l, y),
           NEW t \in Tokens, NEW g, g = With(held, y, [loan |-> l, token |-> t])
    PROVE  Knows(B, g)
<1>h. PICK h : h = [loan |-> l, token |-> t] OBVIOUS
<1>1. h \in HeldValue /\ h.loan = l BY <1>h DEF HeldValue
<1>2. g[y] = h /\ \A x \in Names : x # y => g[x] = held[x] BY <1>1, <1>h, WithAt
<1>3. \A m \in LoanIds : A.loans[m].authorities \subseteq B.loans[m].authorities BY DEF Gains
<1>4. ASSUME NEW x \in Names PROVE KnowsValue(B, g, x)
  <2>1. CASE x = y BY <2>1, <1>1, <1>2 DEF Gains, KnowsValue, Listed, May
  <2>2. CASE x # y
    <3>1. g[x] = held[x] /\ B.values[x] = A.values[x] BY <2>2, <1>2 DEF Gains
    <3> QED BY <3>1, <1>3, KnowsSame
  <2> QED BY <2>1, <2>2
<1> QED BY <1>4 DEF Knows

\* The analysis knows that the old holder is gone.
LEMMA KnowLose ==
    ASSUME NEW A, NEW B, NEW held \in [Names -> HeldValue], Knows(A, held),
           SameDoubts(A, B), NEW x \in Names, NEW l \in LoanIds, Loses(A, B, l, x),
           NEW g, g = With(held, x, Nothing)
    PROVE  Knows(B, g)
<1>1. Nothing \in HeldValue /\ Nothing.loan \notin LoanIds BY NothingHeld
<1>2. g[x] = Nothing /\ \A y \in Names : y # x => g[y] = held[y] BY <1>1, WithAt
<1>3. ASSUME NEW y \in Names PROVE KnowsValue(B, g, y)
  <2>1. CASE y = x BY <2>1, <1>1, <1>2 DEF Loses, Certain, KnowsValue
  <2>2. CASE y # x
    <3>1. g[y] = held[y] /\ B.values[y] = A.values[y] BY <2>2, <1>2 DEF Loses
    <3>2. \A m \in LoanIds : y \in A.loans[m].authorities => y \in B.loans[m].authorities
      BY <2>2 DEF Loses
    <3> QED BY <3>1, <3>2, KnowsSame
  <2> QED BY <2>1, <2>2
<1> QED BY <1>3 DEF Knows

-----------------------------------------------------------------------------
(* Counting. *)

Sets == INSTANCE FiniteSetTheorems

\* The library's notions of a finite set and of its size are the ones used here.
LEMMA SameSets == \A S : (Sets!IsFiniteSet(S) <=> IsFiniteSet(S)) /\ Sets!Cardinality(S) = Cardinality(S)
BY DEF Sets!IsFiniteSet, IsFiniteSet, Sets!Cardinality, Cardinality

\* A part is not larger than the whole.
LEMMA PartSize ==
    ASSUME NEW S, IsFiniteSet(S), NEW P \in SUBSET S
    PROVE  /\ IsFiniteSet(P) /\ Cardinality(P) <= Cardinality(S)
           /\ Cardinality(P) \in Nat /\ Cardinality(S) \in Nat
<1>1. IsFiniteSet(P) /\ Cardinality(P) <= Cardinality(S) BY Sets!FS_Subset, SameSets
<1>2. Cardinality(S) \in Nat /\ Cardinality(P) \in Nat BY <1>1, Sets!FS_CardinalityType, SameSets
<1> QED BY <1>1, <1>2

\* The values of a function are at most as many as its arguments.
LEMMA ImageSize ==
    ASSUME NEW S, IsFiniteSet(S), NEW T, NEW f \in [S -> T], \A t \in T : \E s \in S : f[s] = t
    PROVE  IsFiniteSet(T) /\ Cardinality(T) <= Cardinality(S) /\ Cardinality(T) \in Nat
<1>1. f \in Sets!Surjection(S, T) BY DEF Sets!Surjection
<1>2. IsFiniteSet(T) /\ Cardinality(T) <= Cardinality(S) BY <1>1, Sets!FS_Surjection, SameSets
<1>3. Cardinality(T) \in Nat BY <1>2, Sets!FS_CardinalityType, SameSets
<1> QED BY <1>2, <1>3

\* A set with more than one element has an element besides any given one.
LEMMA AnotherElement ==
    ASSUME NEW S, IsFiniteSet(S), Cardinality(S) > 1, NEW x \in S
    PROVE  \E y \in S : y # x
<1>1. S # {x}
  <2>1. Cardinality({x}) = 1 BY Sets!FS_Singleton, SameSets
  <2> QED BY <2>1
<1> QED BY <1>1

\* The run has no more live loans than the analysis counts.
LEMMA LoansCounted ==
    ASSUME NEW A, NEW T, Records(site, A, T), Cardinality({m \in LoanIds : ~Gone(A, m)}) < MaxActiveLoans
    PROVE  ActiveCount(T) < MaxActiveLoans
<1>n. PICK N : N = {m \in LoanIds : ~Gone(A, m)} OBVIOUS
<1>l. PICK L : L = LiveLoans(T) OBVIOUS
<1>1. N \in SUBSET LoanIds BY <1>n
<1>2. IsFiniteSet(N) BY <1>1, PartSize, StaticLoansAssumption
<1>3. L \in SUBSET N BY <1>n, <1>l DEF Records, LiveLoans
<1>4. Cardinality(L) <= Cardinality(N) /\ Cardinality(L) \in Nat /\ Cardinality(N) \in Nat
  BY <1>2, <1>3, PartSize
<1>5. Cardinality(N) < MaxActiveLoans BY <1>n
<1>6. Cardinality(L) < MaxActiveLoans BY <1>4, <1>5, LoanTableAssumption
<1> QED BY <1>6, <1>l DEF ActiveCount

\* A loan has finitely many authorities in the run and holders in the analysis.
LEMMA HoldersFinite ==
    ASSUME NEW A, Shape(A), NEW T \in Table, NEW held \in [Names -> HeldValue],
           Holding(T, held), NEW l \in LoanIds
    PROVE  /\ IsFiniteSet(T[l].authorities) /\ IsFiniteSet(A.loans[l].authorities)
           /\ Cardinality(T[l].authorities) \in Nat /\ Cardinality(A.loans[l].authorities) \in Nat
<1>h. PICK S : S = {y \in Names : held[y].loan = l} OBVIOUS
<1>b. PICK B : B = A.loans[l].authorities OBVIOUS
<1>a. PICK Q : Q = T[l].authorities OBVIOUS
<1>1. B \in SUBSET Names /\ S \in SUBSET Names
  BY <1>b, <1>h DEF Shape, AbstractState, AbstractLoan
<1>2. IsFiniteSet(B) /\ IsFiniteSet(S) /\ Cardinality(B) \in Nat
  BY <1>1, PartSize, StaticLoansAssumption
<1>3. Q = {held[x].token : x \in S} BY <1>a, <1>h DEF Holding
<1>f. PICK f : f = [x \in S |-> held[x].token] OBVIOUS
<1>4. f \in [S -> Q] /\ \A t \in Q : \E x \in S : f[x] = t BY <1>3, <1>f
<1>5. IsFiniteSet(Q) /\ Cardinality(Q) \in Nat BY <1>2, <1>4, ImageSize
<1> QED BY <1>2, <1>5, <1>a, <1>b

\* A loan without doubts has no more authorities in the run than holders in the
\* analysis.
LEMMA HoldersCounted ==
    ASSUME NEW A, Shape(A), NEW T \in Table, NEW held \in [Names -> HeldValue],
           Knows(A, held), Holding(T, held), NEW l \in LoanIds, Doubts(A, l) = {}
    PROVE  /\ Cardinality(T[l].authorities) \in Nat /\ Cardinality(A.loans[l].authorities) \in Nat
           /\ Cardinality(T[l].authorities) <= Cardinality(A.loans[l].authorities)
<1>h. PICK S : S = {y \in Names : held[y].loan = l} OBVIOUS
<1>b. PICK B : B = A.loans[l].authorities OBVIOUS
<1>a. PICK Q : Q = T[l].authorities OBVIOUS
<1>1. B \in SUBSET Names BY <1>b DEF Shape, AbstractState, AbstractLoan
<1>2. IsFiniteSet(B) BY <1>1, PartSize, StaticLoansAssumption
<1>3. S \in SUBSET B BY <1>h, <1>b DEF Knows, KnowsValue, Listed
<1>4. /\ IsFiniteSet(S) /\ Cardinality(S) <= Cardinality(B)
      /\ Cardinality(S) \in Nat /\ Cardinality(B) \in Nat
  BY <1>2, <1>3, PartSize
<1>5. Q = {held[x].token : x \in S} BY <1>a, <1>h DEF Holding
<1>f. PICK f : f = [x \in S |-> held[x].token] OBVIOUS
<1>6. f \in [S -> Q] /\ \A t \in Q : \E x \in S : f[x] = t BY <1>5, <1>f
<1>7. IsFiniteSet(Q) /\ Cardinality(Q) <= Cardinality(S) /\ Cardinality(Q) \in Nat
  BY <1>4, <1>6, ImageSize
<1>8. Cardinality(Q) <= Cardinality(B) BY <1>4, <1>7
<1> QED BY <1>2, <1>4, <1>7, <1>8, <1>a, <1>b

\* There is a token left, and the next one is new.
LEMMA FreshIsFresh ==
    ASSUME NEW T, NEW l, IsFiniteSet(T[l].authorities),
           Cardinality(T[l].authorities) \in Nat, Cardinality(T[l].authorities) <= MaxAliases
    PROVE  FreshToken(T, l) \in Tokens /\ FreshToken(T, l) \notin T[l].authorities
<1>q. PICK Q : Q = T[l].authorities OBVIOUS
<1>1. MaxAliases \in Nat /\ 0 \in Int BY LoanTableAssumption
<1>2. Cardinality(Tokens) = MaxAliases + 1
  BY <1>1, Sets!FS_Interval, SameSets DEF Tokens
<1>3. ~(Tokens \in SUBSET Q)
  <2>1. Tokens \in SUBSET Q => Cardinality(Tokens) <= Cardinality(Q)
    BY <1>q, PartSize
  <2>2. Cardinality(Q) \in Nat /\ Cardinality(Q) <= MaxAliases BY <1>q
  <2> QED BY <1>1, <1>2, <2>1, <2>2
<1>4. \E t \in Tokens : t \notin Q BY <1>3
<1> QED BY <1>4, <1>q DEF FreshToken

-----------------------------------------------------------------------------
(* The instructions on the abstract state. *)

\* S with another record of loan l and another value y.
Updated(S, l, n, y, v) == [[S EXCEPT !.loans[l] = n] EXCEPT !.values[y] = v]

\* Such a state.
LEMMA UpdatedState ==
    ASSUME NEW S \in AbstractState, NEW l \in LoanIds, NEW n \in AbstractLoan,
           NEW y \in Names, NEW v \in AbstractPermission,
           NEW B, B = Updated(S, l, n, y, v)
    PROVE  /\ B \in AbstractState
           /\ B.loans[l] = n /\ \A m \in LoanIds : m # l => B.loans[m] = S.loans[m]
           /\ B.values[y] = v /\ \A x \in Names : x # y => B.values[x] = S.values[x]
<1>1. S.loans \in [LoanIds -> AbstractLoan] /\ S.values \in [Names -> AbstractPermission]
  BY DEF AbstractState
<1>m. PICK M : M = [S.loans EXCEPT ![l] = n] OBVIOUS
<1>v. PICK V : V = [S.values EXCEPT ![y] = v] OBVIOUS
<1>2. M \in [LoanIds -> AbstractLoan] /\ V \in [Names -> AbstractPermission]
  BY <1>1, <1>m, <1>v
<1>3. B = [S EXCEPT !.loans = M, !.values = V]
  BY <1>m, <1>v DEF AbstractState, Updated
<1>5. B \in AbstractState /\ B.loans = M /\ B.values = V BY <1>2, <1>3 DEF AbstractState
<1>6. M[l] = n /\ \A m \in LoanIds : m # l => M[m] = S.loans[m] BY <1>1, <1>m
<1>7. V[y] = v /\ \A x \in Names : x # y => V[x] = S.values[x] BY <1>1, <1>v
<1> QED BY <1>5, <1>6, <1>7

\* In B a new instance of loan l has begun; the other loans are as in S.
Starts(S, B, l, p) ==
    /\ B.loans[l].activity = "Active" /\ B.loans[l].parent = p
    /\ \A m \in LoanIds : m # l => B.loans[m] = S.loans[m]

\* A new instance of a loan that is gone, in a state that differs from A in the
\* activity of loans on record at most.
LEMMA InstanceGains ==
    ASSUME NEW A, Shape(A), NEW S \in AbstractState, S.values = A.values,
           \A m \in LoanIds : S.loans[m].authorities = A.loans[m].authorities
                                 /\ (Gone(S, m) => Gone(A, m)),
           NEW l \in LoanIds, Gone(A, l), NEW p \in LoanIds \cup {NoLoan}, NEW y \in Names,
           NEW B, B = NewInstance(S, l, p, y)
    PROVE  Gains(A, B, l, y) /\ Starts(S, B, l, p)
<1>n. PICK n : n = [activity |-> "Active", parent |-> p, authorities |-> {y}] OBVIOUS
<1>v. PICK v : v = [authority |-> l, availability |-> "Available"] OBVIOUS
<1>1. n \in AbstractLoan /\ n.activity = "Active" /\ n.parent = p /\ n.authorities = {y}
  BY <1>n DEF AbstractLoan, AbstractActivity, Activity
<1>2. v \in AbstractPermission /\ v.authority = l /\ v.availability = "Available"
  BY <1>v DEF AbstractPermission, Availability
<1>3. B = Updated(S, l, n, y, v)
  BY <1>n, <1>v DEF NewInstance, Define, Updated
<1>4. B \in AbstractState BY <1>1, <1>2, <1>3, UpdatedState
<1>5. B.loans[l] = n /\ \A m \in LoanIds : m # l => B.loans[m] = S.loans[m]
  BY <1>1, <1>2, <1>3, UpdatedState
<1>6. B.values[y] = v /\ \A x \in Names : x # y => B.values[x] = A.values[x]
  BY <1>1, <1>2, <1>3, UpdatedState
<1>7. A.loans[l].authorities = {} BY DEF Shape
<1>8. ~Gone(B, l) BY <1>1, <1>5 DEF Gone
<1>9. \A m \in LoanIds : m # l => (Gone(B, m) => Gone(A, m)) BY <1>5 DEF Gone
<1>10. Gains(A, B, l, y) BY <1>1, <1>2, <1>4, <1>5, <1>6, <1>7, <1>8, <1>9 DEF Gains
<1> QED BY <1>1, <1>5, <1>10 DEF Starts

\* A with y as a further holder of loan l.
AliasState(A, l, y) == Define([A EXCEPT !.loans[l].authorities = @ \cup {y}], y, l)

\* An alias is a further holder of a loan on record.
LEMMA AliasStateGains ==
    ASSUME NEW A \in AbstractState, NEW l \in LoanIds, ~Gone(A, l), NEW y \in Names,
           NEW B, B = AliasState(A, l, y)
    PROVE  /\ Gains(A, B, l, y)
           /\ \A m \in LoanIds : B.loans[m].activity = A.loans[m].activity
                                    /\ B.loans[m].parent = A.loans[m].parent
<1>v. PICK v : v = [authority |-> l, availability |-> "Available"] OBVIOUS
<1>n. PICK n : n = [A.loans[l] EXCEPT !.authorities = A.loans[l].authorities \cup {y}] OBVIOUS
<1>2. v \in AbstractPermission /\ v.authority = l /\ v.availability = "Available"
  BY <1>v DEF AbstractPermission, Availability
<1>1. A.loans[l] \in AbstractLoan BY DEF AbstractState
<1>3. /\ n \in AbstractLoan /\ n.activity = A.loans[l].activity /\ n.parent = A.loans[l].parent
      /\ n.authorities = A.loans[l].authorities \cup {y}
  BY <1>n, <1>1 DEF AbstractLoan
<1>4. B = Updated(A, l, n, y, v)
  BY <1>n, <1>v DEF AliasState, Define, AbstractState, Updated
<1>5. B \in AbstractState BY <1>2, <1>3, <1>4, UpdatedState
<1>6. B.loans[l] = n /\ \A m \in LoanIds : m # l => B.loans[m] = A.loans[m]
  BY <1>2, <1>3, <1>4, UpdatedState
<1>7. B.values[y] = v /\ \A x \in Names : x # y => B.values[x] = A.values[x]
  BY <1>2, <1>3, <1>4, UpdatedState
<1>8. \A m \in LoanIds : B.loans[m].activity = A.loans[m].activity
                            /\ B.loans[m].parent = A.loans[m].parent
  BY <1>3, <1>6
<1>9. \A m \in LoanIds : Gone(B, m) <=> Gone(A, m) BY <1>8 DEF Gone
<1> QED BY <1>2, <1>3, <1>5, <1>6, <1>7, <1>8, <1>9 DEF Gains

\* A without x as a holder of loan l, and nothing else changed.
Dropped(A, l, x) == [Consume(A, x) EXCEPT !.loans[l].authorities = @ \ {x}]

\* B is A but for the holders of loan l.
SameRecords(A, B, l) ==
    /\ \A m \in LoanIds : m # l => B.loans[m] = A.loans[m]
    /\ B.loans[l].activity = A.loans[l].activity /\ B.loans[l].parent = A.loans[l].parent

\* The state that has lost a holder.
LEMMA DroppedLoses ==
    ASSUME NEW A \in AbstractState, NEW l \in LoanIds, ~Gone(A, l), NEW x \in Names,
           NEW B, B = Dropped(A, l, x)
    PROVE  Loses(A, B, l, x) /\ SameRecords(A, B, l)
<1>v. PICK v : v = [A.values[x] EXCEPT !.availability = "Consumed"] OBVIOUS
<1>n. PICK n : n = [A.loans[l] EXCEPT !.authorities = A.loans[l].authorities \ {x}] OBVIOUS
<1>1. A.loans[l] \in AbstractLoan /\ A.values[x] \in AbstractPermission BY DEF AbstractState
<1>2. v \in AbstractPermission /\ v.availability = "Consumed"
  BY <1>v, <1>1 DEF AbstractPermission, Availability
<1>3. /\ n \in AbstractLoan /\ n.activity = A.loans[l].activity /\ n.parent = A.loans[l].parent
      /\ n.authorities = A.loans[l].authorities \ {x}
  BY <1>n, <1>1 DEF AbstractLoan
<1>m. PICK M : M = [A.loans EXCEPT ![l] = n] OBVIOUS
<1>w. PICK V : V = [A.values EXCEPT ![x] = v] OBVIOUS
<1>4. B = Updated(A, l, n, x, v)
  <2>1. B = [A EXCEPT !.loans = M, !.values = V]
    BY <1>n, <1>v, <1>m, <1>w DEF Dropped, Consume, AbstractState
  <2>2. Updated(A, l, n, x, v) = [A EXCEPT !.loans = M, !.values = V]
    BY <1>m, <1>w DEF AbstractState, Updated
  <2> QED BY <2>1, <2>2
<1>5. B \in AbstractState BY <1>2, <1>3, <1>4, UpdatedState
<1>6. B.loans[l] = n /\ \A m \in LoanIds : m # l => B.loans[m] = A.loans[m]
  BY <1>2, <1>3, <1>4, UpdatedState
<1>7. B.values[x] = v /\ \A y \in Names : y # x => B.values[y] = A.values[y]
  BY <1>2, <1>3, <1>4, UpdatedState
<1>8. Gone(B, l) <=> Gone(A, l) BY <1>3, <1>6 DEF Gone
<1>9. \A m \in LoanIds : m # l => (Gone(B, m) <=> Gone(A, m)) BY <1>6 DEF Gone
<1> QED BY <1>2, <1>3, <1>5, <1>6, <1>7, <1>8, <1>9 DEF Loses, SameRecords

-----------------------------------------------------------------------------
(* The instructions that create holders. *)

\* R with another table and other values.
RunWith(R, T, held) == [R EXCEPT !.table = T, !.held = held]

\* Such a run.
LEMMA RunWithState ==
    ASSUME NEW R \in RunState, NEW T \in Table, NEW held \in [Names -> HeldValue],
           NEW Q, Q = RunWith(R, T, held)
    PROVE  Q \in RunState /\ Q.table = T /\ Q.held = held /\ Q.refused = R.refused
BY DEF RunWith, RunState, Table, HeldValue

\* The parts of a run.
LEMMA RunFields ==
    ASSUME NEW R \in RunState
    PROVE  R.table \in Table /\ R.held \in [Names -> HeldValue] /\ R.refused \in BOOLEAN
BY DEF RunState, Table, HeldValue

\* A loan of the program text.
LEMMA SiteFields ==
    ASSUME site \in Sites, NEW l \in DOMAIN site
    PROVE  /\ l \in LoanIds /\ site[l].range \in Range /\ site[l].kind \in Kind
           /\ site[l].root \in BOOLEAN /\ Heap \in Allocations
<1>1. DOMAIN site \subseteq LoanIds /\ site[l] \in SiteType BY StaticLoansAssumption
<1>2. Heap \in Allocations BY LoanTableAssumption DEF Heap
<1> QED BY <1>1, <1>2 DEF SiteType

\* After an instruction that gave a token of loan l to value y, the analysis
\* still stands for the run.
LEMMA GainFollows ==
    ASSUME ~Leaks, NEW A, NEW R \in RunState, ~R.refused, Follows(site, A, R),
           NEW B, NEW l \in LoanIds, NEW y \in Names, Shape(A), Free(A, y), Gains(A, B, l, y),
           NEW t \in Tokens, t \notin R.table[l].authorities,
           NEW M \in Table, TableInv(M), Grants(R.table, M, l, t), Records(site, B, M),
           NEW g, g = With(R.held, y, [loan |-> l, token |-> t]),
           NEW Q, Q = RunWith(R, M, g)
    PROVE  PathInv(site, B, Q)
<1>1. R.table \in Table /\ R.held \in [Names -> HeldValue] BY RunFields
<1>2. Knows(A, R.held) /\ Holding(R.table, R.held) BY DEF Follows
<1>3. R.held[y].loan \notin LoanIds BY <1>2, FreeHoldsNothing
<1>4. Holding(M, g) BY <1>1, <1>2, <1>3, HoldGain
<1>8. Shape(B) /\ SameDoubts(A, B) BY GainShape
<1>5. Knows(B, g) BY <1>1, <1>2, <1>8, KnowGain
<1>6. g \in [Names -> HeldValue]
  <2>1. [loan |-> l, token |-> t] \in HeldValue BY DEF HeldValue
  <2> QED BY <1>1, <2>1, WithAt
<1>7. Q \in RunState /\ Q.table = M /\ Q.held = g /\ Q.refused = FALSE
  BY <1>1, <1>6, RunFields, RunWithState
<1> QED BY <1>4, <1>5, <1>7, <1>8 DEF PathInv, Follows

\* A run that has been refused stays so, and its path stuck.
LEMMA RefusedPath ==
    ASSUME NEW A, NEW R, PathInv(site, A, R), R.refused, NEW B, Shape(B), Stuck(A) => Stuck(B)
    PROVE  PathInv(site, B, R)
BY DEF PathInv

\* The run after loan_begin.
Begun(R, l, y) ==
    [R EXCEPT !.table = BeginLoan(@, l, Heap, site[l].range, site[l].kind, FreshToken(R.table, l)),
              !.held[y] = [loan |-> l, token |-> FreshToken(R.table, l)]]

\* A loan that the analysis lets begin is not refused.
LEMMA BeginPath ==
    ASSUME ~Leaks, site \in Sites, NEW A, NEW R, PathInv(site, A, R), NEW l \in DOMAIN site,
           NEW y \in Names, Free(A, y), CanCreateStatic(A, l), CreationCompatible(A, l, {}),
           NEW B, B = NewInstance(A, l, NoLoan, y), NEW Q,
           Q = Execute(R, BeginAllowed(R.table, l, Heap, site[l].range, site[l].kind), Begun(R, l, y))
    PROVE  PathInv(site, B, Q) /\ SameDoubts(A, B)
<1>1. Shape(A) /\ A \in AbstractState /\ R \in RunState BY DEF PathInv, Shape
<1>2. /\ l \in LoanIds /\ site[l].range \in Range /\ site[l].kind \in Kind /\ Heap \in Allocations
  BY SiteFields
<1>3. /\ Gains(A, B, l, y) /\ B.loans[l].activity = "Active" /\ B.loans[l].parent = NoLoan
      /\ \A m \in LoanIds : m # l => B.loans[m] = A.loans[m]
  <2>1. Gone(A, l) BY DEF CanCreateStatic
  <2>2. NoLoan \in LoanIds \cup {NoLoan} OBVIOUS
  <2>3. Gains(A, B, l, y) /\ Starts(A, B, l, NoLoan) BY <1>1, <1>2, <2>1, <2>2, InstanceGains
  <2> QED BY <2>3 DEF Starts
<1>4. Shape(B) /\ SameDoubts(A, B) BY <1>1, <1>2, <1>3, GainShape
<1>5. CASE R.refused
  <2>1. Q = R BY <1>5 DEF Execute
  <2> QED BY <2>1, <1>4, <1>5, DoubtsStick, RefusedPath
<1>6. CASE ~R.refused
  <2>T. PICK T : T = R.table OBVIOUS
  <2>t. PICK t : t = FreshToken(T, l) OBVIOUS
  <2>M. PICK M : M = BeginLoan(T, l, Heap, site[l].range, site[l].kind, t) OBVIOUS
  <2>g. PICK g : g = With(R.held, y, [loan |-> l, token |-> t]) OBVIOUS
  <2>1. Follows(site, A, R) /\ T \in Table /\ TableInv(T) /\ Records(site, A, T)
    BY <1>1, <1>6, <2>T, RunFields DEF PathInv, Follows
  <2>2. ~Live(T, l) /\ T[l].authorities = {}
    <3>1. l \notin LiveLoans(T) BY <2>1 DEF Records, CanCreateStatic
    <3>2. ~Live(T, l) BY <3>1, <1>2 DEF LiveLoans
    <3> QED BY <3>2, <1>2, <2>1 DEF TableInv, Held
  <2>3. BeginAllowed(T, l, Heap, site[l].range, site[l].kind)
    <3>1. ActiveCount(T) < MaxActiveLoans BY <2>1, LoansCounted DEF CanCreateStatic
    <3>2. CanCreate(T, l) BY <2>2, <3>1, StaticLoansAssumption DEF CanCreate
    <3>3. ASSUME NEW m \in LoanIds, Live(T, m), Overlap(site[l].range, T[m].range)
          PROVE  BothShared(T[m].kind, site[l].kind)
      <4>1. m \in DOMAIN site /\ T[m].range = site[m].range /\ T[m].kind = site[m].kind /\ ~Gone(A, m)
        BY <2>1, <3>3 DEF Records, LiveLoans
      <4>2. BothShared(site[l].kind, site[m].kind) BY <3>3, <4>1 DEF CreationCompatible
      <4> QED BY <4>1, <4>2 DEF BothShared
    <3> QED BY <3>2, <3>3 DEF BeginAllowed, CreationConflict
  <2>4. t \in Tokens /\ t \notin T[l].authorities
    <3>1. IsFiniteSet({}) /\ Cardinality({}) = 0 BY Sets!FS_EmptySet, SameSets
    <3>2. /\ IsFiniteSet(T[l].authorities) /\ Cardinality(T[l].authorities) \in Nat
          /\ Cardinality(T[l].authorities) <= MaxAliases
      BY <3>1, <2>2, LoanTableAssumption
    <3>3. FreshToken(T, l) \in Tokens /\ FreshToken(T, l) \notin T[l].authorities
      BY <3>2, FreshIsFresh
    <3> QED BY <3>3, <2>t
  <2>5. t \in Nat BY <2>4, LoanTableAssumption DEF Tokens
  <2>6. M \in Table /\ TableInv(M) BY <1>2, <2>1, <2>3, <2>5, <2>M, BeginInv
  <2>7. Grants(T, M, l, t) BY <1>2, <2>1, <2>3, <2>M, BeginGrants DEF TableInv
  <2>8. M[l] = NewLoan(Heap, site[l].range, site[l].kind, NoLoan, t)
           /\ \A m \in LoanIds : m # l => M[m] = T[m]
    BY <1>2, <2>1, <2>M DEF BeginLoan, Table
  <2>9. Records(site, B, M)
    <3> SUFFICES ASSUME NEW m \in LiveLoans(M)
                 PROVE  /\ m \in DOMAIN site
                        /\ M[m].range = site[m].range /\ M[m].kind = site[m].kind
                        /\ M[m].allocation = Heap
                        /\ ~Gone(B, m)
                        /\ B.loans[m].parent = M[m].parent
                        /\ B.loans[m].activity = "Active" => M[m].activity = "Active"
      BY DEF Records
    <3>1. CASE m = l BY <3>1, <1>3, <2>8 DEF NewLoan, Gone
    <3>2. CASE m # l
      <4>1. m \in LoanIds BY DEF LiveLoans
      <4>2. M[m] = T[m] /\ B.loans[m] = A.loans[m] /\ m \in LiveLoans(T)
        BY <3>2, <4>1, <1>3, <2>8 DEF LiveLoans, Live
      <4> QED BY <4>2, <2>1 DEF Records, Gone
    <3> QED BY <3>1, <3>2
  <2>10. Q = RunWith(R, M, g)
    <3>1. Q = Begun(R, l, y) BY <1>6, <2>3, <2>T DEF Execute
    <3> QED BY <3>1, <1>1, <2>T, <2>t, <2>M, <2>g DEF Begun, RunWith, With, RunState
  <2> QED
    BY <1>1, <1>2, <1>3, <1>4, <1>6, <2>1, <2>4, <2>6, <2>7, <2>9, <2>10, <2>g, <2>T, GainFollows
<1> QED BY <1>4, <1>5, <1>6

\* What the use of an authority that the analysis proves finds in the run.
LEMMA CertainIsHeld ==
    ASSUME NEW A, NEW R \in RunState, Follows(site, A, R), NEW x \in Names, HoldsAuthority(A, x)
    PROVE  LET l == A.values[x].authority IN
           /\ Certain(A, x) /\ l \in LoanIds /\ l \in LiveLoans(R.table)
           /\ R.held[x].loan = l /\ R.held[x].token \in R.table[l].authorities
           /\ l \in DOMAIN site
<1>1. Certain(A, x) BY DEF HoldsAuthority, Certain
<1>l. PICK l : l = A.values[x].authority OBVIOUS
<1>2. l \in LoanIds /\ R.held[x].loan = l BY <1>1, <1>l DEF Certain, Follows, Knows, KnowsValue
<1>3. Held(R.table) /\ Holding(R.table, R.held) BY DEF Follows, TableInv
<1>4. R.held[x].token \in R.table[l].authorities /\ Live(R.table, l) BY <1>2, <1>3, HeldIsLive
<1>5. l \in LiveLoans(R.table) BY <1>2, <1>4 DEF LiveLoans
<1>6. l \in DOMAIN site BY <1>5 DEF Follows, Records
<1> QED BY <1>1, <1>2, <1>4, <1>5, <1>6, <1>l

\* Where the analysis knows a loan and its ancestors, it finds the same chain.
LEMMA ChainKnown ==
    ASSUME NEW A, NEW T \in Table, Nested(T), Records(site, A, T), NEW p \in LiveLoans(T)
    PROVE  Chain(A.loans, p) = Chain(T, p)
<1>1. Chain(T, p) \subseteq LiveLoans(T) /\ p \in LoanIds BY ChainLive DEF LiveLoans
<1>2. \A s \in Chain(T, p) : A.loans[s].parent = T[s].parent BY <1>1 DEF Records
<1> QED BY <1>1, <1>2, ChainSame

\* The abstract state with parent p suspended for an exclusive child l.
Lent(A, p, l) ==
    IF BothShared(site[p].kind, site[l].kind) THEN A ELSE [A EXCEPT !.loans[p].activity = "Suspended"]

\* Suspending a parent changes its activity only.
LEMMA LentState ==
    ASSUME NEW A \in AbstractState, NEW p \in LoanIds, NEW l, NEW S, S = Lent(A, p, l),
           A.loans[p].activity \in {"Active", "Suspended"}
    PROVE  /\ S \in AbstractState /\ S.values = A.values
           /\ \A m \in LoanIds : S.loans[m].authorities = A.loans[m].authorities
                                    /\ (Gone(S, m) => Gone(A, m))
           /\ \A m \in LoanIds : /\ S.loans[m].parent = A.loans[m].parent
                                 /\ Gone(A, m) => Gone(S, m)
                                 /\ m # p => S.loans[m] = A.loans[m]
           /\ ~BothShared(site[p].kind, site[l].kind) => S.loans[p].activity = "Suspended"
           /\ BothShared(site[p].kind, site[l].kind) => S.loans[p] = A.loans[p]
<1>1. CASE BothShared(site[p].kind, site[l].kind)
  <2>1. S = A BY <1>1 DEF Lent
  <2> QED BY <2>1, <1>1
<1>2. CASE ~BothShared(site[p].kind, site[l].kind)
  <2>n. PICK n : n = [A.loans[p] EXCEPT !.activity = "Suspended"] OBVIOUS
  <2>m. PICK M : M = [A.loans EXCEPT ![p] = n] OBVIOUS
  <2>1. A.loans[p] \in AbstractLoan /\ A.loans \in [LoanIds -> AbstractLoan] BY DEF AbstractState
  <2>2. /\ n \in AbstractLoan /\ n.activity = "Suspended" /\ n.parent = A.loans[p].parent
        /\ n.authorities = A.loans[p].authorities
    BY <2>1, <2>n DEF AbstractLoan, AbstractActivity, Activity
  <2>3. /\ M \in [LoanIds -> AbstractLoan] /\ M[p] = n
        /\ \A m \in LoanIds : m # p => M[m] = A.loans[m]
    BY <2>1, <2>2, <2>m
  <2>4. S = [A EXCEPT !.loans = M] BY <1>2, <2>n, <2>m DEF Lent, AbstractState
  <2>5. S \in AbstractState /\ S.values = A.values /\ S.loans = M BY <2>3, <2>4 DEF AbstractState
  <2>6. ~Gone(S, p) /\ ~Gone(A, p) BY <2>2, <2>3, <2>5 DEF Gone
  <2>7. \A m \in LoanIds : m # p => (Gone(S, m) <=> Gone(A, m)) BY <2>3, <2>5 DEF Gone
  <2> QED BY <1>2, <2>2, <2>3, <2>5, <2>6, <2>7
<1> QED BY <1>1, <1>2

\* The run after loan_reborrow.
Reborrowed(R, l, p, y) ==
    [R EXCEPT !.table = ReborrowLoan(@, l, p, site[l].range, site[l].kind, FreshToken(R.table, l)),
              !.held[y] = [loan |-> l, token |-> FreshToken(R.table, l)]]

\* A reborrow that the analysis lets begin is not refused.
LEMMA ReborrowPath ==
    ASSUME ~Leaks, site \in Sites, NEW A, NEW R, PathInv(site, A, R), NEW l \in DOMAIN site,
           NEW x \in Names, NEW y \in Names, x # y, Free(A, y), HoldsAuthority(A, x),
           NEW p, p = A.values[x].authority,
           A.loans[p].activity \in {"Active", "Suspended"},
           Contains(site[p].range, site[l].range),
           site[p].kind = "Shared" => site[l].kind = "Shared",
           Cardinality(Chain(A.loans, p)) <= MaxDepth,
           CanCreateStatic(A, l), CreationCompatible(A, l, Chain(A.loans, p)),
           NEW S, S = Lent(A, p, l), NEW B, B = NewInstance(S, l, p, y), NEW Q,
           Q = Execute(R, R.held[x].loan = p
                             /\ ReborrowAllowed(R.table, l, p, site[l].range, site[l].kind, R.held[x].token),
                       Reborrowed(R, l, p, y))
    PROVE  PathInv(site, B, Q) /\ SameDoubts(A, B)
<1>1. Shape(A) /\ A \in AbstractState /\ R \in RunState BY DEF PathInv, Shape
<1>2. /\ l \in LoanIds /\ site[l].range \in Range /\ site[l].kind \in Kind /\ Heap \in Allocations
  BY SiteFields
<1>p. p \in LoanIds /\ p \in LoanIds \cup {NoLoan} BY DEF HoldsAuthority
<1>g. Gone(A, l) BY DEF CanCreateStatic
<1>s. /\ S \in AbstractState /\ S.values = A.values
      /\ \A m \in LoanIds : S.loans[m].authorities = A.loans[m].authorities
                               /\ (Gone(S, m) => Gone(A, m))
  BY <1>1, <1>p, LentState
<1>3. Gains(A, B, l, y) /\ Starts(S, B, l, p) BY <1>1, <1>2, <1>p, <1>g, <1>s, InstanceGains
<1>4. Shape(B) /\ SameDoubts(A, B) BY <1>1, <1>2, <1>3, GainShape
<1>5. CASE R.refused
  <2>1. Q = R BY <1>5 DEF Execute
  <2> QED BY <2>1, <1>4, <1>5, DoubtsStick, RefusedPath
<1>6. CASE ~R.refused
  <2>T. PICK T : T = R.table OBVIOUS
  <2>h. PICK h : h = R.held[x].token OBVIOUS
  <2>t. PICK t : t = FreshToken(T, l) OBVIOUS
  <2>M. PICK M : M = ReborrowLoan(T, l, p, site[l].range, site[l].kind, t) OBVIOUS
  <2>g. PICK g : g = With(R.held, y, [loan |-> l, token |-> t]) OBVIOUS
  <2>1. Follows(site, A, R) /\ T \in Table /\ TableInv(T) /\ Held(T) /\ Nested(T) /\ Records(site, A, T)
    BY <1>1, <1>6, <2>T, RunFields DEF PathInv, Follows, TableInv
  <2>2. ~Live(T, l) /\ T[l].authorities = {}
    <3>1. l \notin LiveLoans(T) BY <1>g, <2>1 DEF Records
    <3>2. ~Live(T, l) BY <3>1, <1>2 DEF LiveLoans
    <3> QED BY <3>2, <1>2, <2>1 DEF Held
  <2>3. /\ p \in LiveLoans(T) /\ Live(T, p) /\ R.held[x].loan = p /\ h \in T[p].authorities
        /\ p \in DOMAIN site /\ T[p].range = site[p].range /\ T[p].kind = site[p].kind
        /\ T[p].allocation = Heap
    <3>1. p \in LiveLoans(T) /\ R.held[x].loan = p /\ h \in T[p].authorities /\ p \in DOMAIN site
      BY <1>1, <2>1, <2>T, <2>h, CertainIsHeld
    <3> QED BY <3>1, <2>1 DEF Records, LiveLoans
  <2>c. Chain(A.loans, p) = Chain(T, p) BY <2>1, <2>3, ChainKnown
  <2>4. ReborrowAllowed(T, l, p, site[l].range, site[l].kind, h)
    <3>1. ActiveCount(T) < MaxActiveLoans BY <2>1, LoansCounted DEF CanCreateStatic
    <3>2. CanCreate(T, l) BY <2>2, <3>1, StaticLoansAssumption DEF CanCreate
    <3>3. ASSUME NEW m \in LoanIds \ Chain(T, p), Live(T, m), Overlap(site[l].range, T[m].range)
          PROVE  BothShared(T[m].kind, site[l].kind)
      <4>1. m \in DOMAIN site /\ T[m].range = site[m].range /\ T[m].kind = site[m].kind /\ ~Gone(A, m)
        BY <2>1, <3>3 DEF Records, LiveLoans
      <4>2. BothShared(site[l].kind, site[m].kind)
        BY <3>3, <4>1, <2>c DEF CreationCompatible
      <4> QED BY <4>1, <4>2 DEF BothShared
    <3>4. ~CreationConflict(T, T[p].allocation, site[l].range, site[l].kind, Chain(T, p))
      BY <3>3 DEF CreationConflict
    <3>5. Cardinality(Chain(T, p)) <= MaxDepth BY <2>c
    <3> QED BY <3>2, <3>4, <3>5, <2>3 DEF ReborrowAllowed
  <2>5. t \in Tokens /\ t \notin T[l].authorities /\ t \in Nat
    <3>1. IsFiniteSet({}) /\ Cardinality({}) = 0 BY Sets!FS_EmptySet, SameSets
    <3>2. /\ IsFiniteSet(T[l].authorities) /\ Cardinality(T[l].authorities) \in Nat
          /\ Cardinality(T[l].authorities) <= MaxAliases
      BY <3>1, <2>2, LoanTableAssumption
    <3>3. FreshToken(T, l) \in Tokens /\ FreshToken(T, l) \notin T[l].authorities
      BY <3>2, FreshIsFresh
    <3> QED BY <3>3, <2>t, LoanTableAssumption DEF Tokens
  <2>6. M \in Table /\ TableInv(M) BY <1>2, <1>p, <2>1, <2>4, <2>5, <2>M, ReborrowInv
  <2>7. Grants(T, M, l, t) BY <1>2, <1>p, <2>1, <2>4, <2>M, ReborrowGrants
  <2>8. /\ M[l] = NewLoan(Heap, site[l].range, site[l].kind, p, t)
        /\ \A m \in LoanIds : m # l =>
              /\ M[m].parent = T[m].parent /\ M[m].kind = T[m].kind /\ M[m].range = T[m].range
              /\ M[m].allocation = T[m].allocation /\ (Live(M, m) <=> Live(T, m))
              /\ m # p \/ BothShared(T[p].kind, site[l].kind) => M[m].activity = T[m].activity
    <3>P. PICK P : P = Suspend(T, p, site[l].kind) OBVIOUS
    <3>1. /\ P \in Table /\ SameLoans(T, P) /\ \A m \in LoanIds : m # p => P[m] = T[m]
          /\ P[p].activity = IF BothShared(T[p].kind, site[l].kind) THEN T[p].activity ELSE "Suspended"
      BY <1>2, <1>p, <2>1, <2>3, <3>P, SuspendSame
    <3>2. M[l] = NewLoan(Heap, site[l].range, site[l].kind, p, t)
             /\ \A m \in LoanIds : m # l => M[m] = P[m]
      BY <1>2, <2>3, <2>M, <3>1, <3>P DEF ReborrowLoan, Table
    <3> QED BY <3>1, <3>2 DEF SameLoans, Live
  <2>9. Records(site, B, M)
    <3> SUFFICES ASSUME NEW m \in LiveLoans(M)
                 PROVE  /\ m \in DOMAIN site
                        /\ M[m].range = site[m].range /\ M[m].kind = site[m].kind
                        /\ M[m].allocation = Heap
                        /\ ~Gone(B, m)
                        /\ B.loans[m].parent = M[m].parent
                        /\ B.loans[m].activity = "Active" => M[m].activity = "Active"
      BY DEF Records
    <3>1. CASE m = l
      <4>1. /\ M[l].range = site[l].range /\ M[l].kind = site[l].kind /\ M[l].allocation = Heap
            /\ M[l].parent = p /\ M[l].activity = "Active"
        BY <2>8 DEF NewLoan
      <4>2. B.loans[l].activity = "Active" /\ B.loans[l].parent = p BY <1>3 DEF Starts
      <4>3. ~Gone(B, l) BY <4>2 DEF Gone
      <4> QED BY <3>1, <4>1, <4>2, <4>3
    <3>2. CASE m # l
      <4>1. m \in LoanIds BY DEF LiveLoans
      <4>2. m \in LiveLoans(T) /\ B.loans[m] = S.loans[m]
        BY <3>2, <4>1, <1>3, <2>8 DEF LiveLoans, Starts
      <4>3. S.loans[m].parent = A.loans[m].parent /\ (Gone(S, m) => Gone(A, m))
        BY <1>1, <1>p, <4>1, LentState
      <4>4. ~Gone(B, m) BY <4>2, <4>3, <2>1 DEF Records, Gone
      <4>5. ASSUME B.loans[m].activity = "Active" PROVE M[m].activity = "Active"
        <5>1. CASE m = p /\ ~BothShared(site[p].kind, site[l].kind)
          <6>1. S.loans[p].activity = "Suspended" BY <5>1, <1>1, <1>p, LentState
          <6> QED BY <6>1, <5>1, <4>2, <4>5
        <5>2. CASE m # p \/ BothShared(site[p].kind, site[l].kind)
          <6>1. S.loans[m] = A.loans[m] BY <5>2, <1>1, <1>p, <4>1, LentState
          <6>2. M[m].activity = T[m].activity BY <5>2, <4>1, <3>2, <2>3, <2>8
          <6> QED BY <6>1, <6>2, <4>2, <4>5, <2>1 DEF Records
        <5> QED BY <5>1, <5>2
      <4>6. /\ m \in DOMAIN site /\ T[m].range = site[m].range /\ T[m].kind = site[m].kind
            /\ T[m].allocation = Heap /\ A.loans[m].parent = T[m].parent
        BY <4>2, <2>1 DEF Records
      <4>7. /\ M[m].parent = T[m].parent /\ M[m].kind = T[m].kind /\ M[m].range = T[m].range
            /\ M[m].allocation = T[m].allocation
        BY <4>1, <3>2, <2>8
      <4>8. B.loans[m].parent = M[m].parent BY <4>2, <4>3, <4>6, <4>7
      <4> QED BY <4>4, <4>5, <4>6, <4>7, <4>8
    <3> QED BY <3>1, <3>2
  <2>10. Q = RunWith(R, M, g)
    <3>1. Q = Reborrowed(R, l, p, y) BY <1>6, <2>3, <2>4, <2>T, <2>h DEF Execute
    <3> QED BY <3>1, <1>1, <2>T, <2>t, <2>M, <2>g DEF Reborrowed, RunWith, With, RunState
  <2> QED
    BY <1>1, <1>2, <1>3, <1>4, <1>6, <2>1, <2>5, <2>6, <2>7, <2>9, <2>10, <2>g, <2>T, GainFollows
<1> QED BY <1>4, <1>5, <1>6

\* The run after loan_alias_shared.
AliasedRun(R, l, y) ==
    [R EXCEPT !.table = AliasLoan(@, l, FreshToken(R.table, l)),
              !.held[y] = [loan |-> l, token |-> FreshToken(R.table, l)]]

\* An alias that the analysis lets pass is not refused.
LEMMA AliasPath ==
    ASSUME ~Leaks, site \in Sites, NEW A, NEW R, PathInv(site, A, R),
           NEW x \in Names, NEW y \in Names, x # y, Free(A, y), HoldsAuthority(A, x),
           NEW l, l = A.values[x].authority, A.loans[l].activity = "Active",
           site[l].kind = "Shared", Cardinality(A.loans[l].authorities) < MaxAliases,
           NEW B, B = AliasState(A, l, y), NEW Q,
           Q = Execute(R, R.held[x].loan = l /\ AliasAllowed(R.table, l, R.held[x].token),
                       AliasedRun(R, l, y))
    PROVE  PathInv(site, B, Q) /\ SameDoubts(A, B)
<1>1. Shape(A) /\ A \in AbstractState /\ R \in RunState BY DEF PathInv, Shape
<1>2. l \in LoanIds /\ ~Gone(A, l) BY DEF HoldsAuthority, Gone
<1>3. Gains(A, B, l, y) BY <1>1, <1>2, AliasStateGains
<1>k. \A m \in LoanIds : B.loans[m].activity = A.loans[m].activity
                            /\ B.loans[m].parent = A.loans[m].parent
  BY <1>1, <1>2, AliasStateGains
<1>4. Shape(B) /\ SameDoubts(A, B) BY <1>1, <1>2, <1>3, GainShape
<1>5. CASE R.refused
  <2>1. Q = R BY <1>5 DEF Execute
  <2> QED BY <2>1, <1>4, <1>5, DoubtsStick, RefusedPath
<1>6. CASE ~R.refused
  <2>T. PICK T : T = R.table OBVIOUS
  <2>h. PICK h : h = R.held[x].token OBVIOUS
  <2>t. PICK t : t = FreshToken(T, l) OBVIOUS
  <2>M. PICK M : M = AliasLoan(T, l, t) OBVIOUS
  <2>g. PICK g : g = With(R.held, y, [loan |-> l, token |-> t]) OBVIOUS
  <2>1. /\ Follows(site, A, R) /\ T \in Table /\ TableInv(T) /\ Records(site, A, T)
        /\ Knows(A, R.held) /\ Holding(T, R.held) /\ R.held \in [Names -> HeldValue]
    BY <1>1, <1>6, <2>T, RunFields DEF PathInv, Follows
  <2>3. l \in LiveLoans(T) /\ R.held[x].loan = l /\ h \in T[l].authorities /\ l \in DOMAIN site
    BY <1>1, <2>1, <2>T, <2>h, CertainIsHeld
  <2>d. T[l].activity = "Active" /\ T[l].kind = "Shared" BY <2>1, <2>3 DEF Records
  <2>n. CASE ~AliasAllowed(T, l, h)
    <3>1. ~(Cardinality(T[l].authorities) < MaxAliases) BY <2>3, <2>d, <2>n DEF AliasAllowed
    <3>2. Doubts(A, l) # {}
      <4> SUFFICES ASSUME Doubts(A, l) = {} PROVE FALSE OBVIOUS
      <4>1. /\ Cardinality(T[l].authorities) \in Nat /\ Cardinality(A.loans[l].authorities) \in Nat
            /\ Cardinality(T[l].authorities) <= Cardinality(A.loans[l].authorities)
        BY <1>1, <1>2, <2>1, HoldersCounted
      <4> QED BY <4>1, <3>1, LoanTableAssumption, SMTT(30)
    <3>3. Stuck(B) BY <3>2, <1>2, <1>4 DEF Stuck, SameDoubts
    <3>4. Q = [R EXCEPT !.refused = TRUE] BY <1>6, <2>n, <2>T, <2>h DEF Execute
    <3>5. Q \in RunState /\ Q.refused BY <3>4, <1>1 DEF RunState
    <3> QED BY <3>3, <3>5, <1>4 DEF PathInv
  <2>4. CASE AliasAllowed(T, l, h)
    <3>5. t \in Tokens /\ t \notin T[l].authorities /\ t \in Nat
      <4>1. IsFiniteSet(T[l].authorities) /\ Cardinality(T[l].authorities) \in Nat
        BY <1>1, <1>2, <2>1, HoldersFinite
      <4>2. Cardinality(T[l].authorities) <= MaxAliases
        <5>1. Cardinality(T[l].authorities) < MaxAliases BY <2>4 DEF AliasAllowed
        <5> QED BY <4>1, <5>1, LoanTableAssumption, SMTT(30)
      <4>3. FreshToken(T, l) \in Tokens /\ FreshToken(T, l) \notin T[l].authorities
        BY <4>1, <4>2, FreshIsFresh
      <4> QED BY <4>3, <2>t, LoanTableAssumption DEF Tokens
    <3>6. M \in Table /\ TableInv(M) BY <1>2, <2>1, <2>4, <3>5, <2>M, AliasInv
    <3>7. Grants(T, M, l, t) BY <1>2, <2>1, <2>M, AliasGrants
    <3>8. \A m \in LoanIds :
             /\ M[m].parent = T[m].parent /\ M[m].kind = T[m].kind /\ M[m].range = T[m].range
             /\ M[m].allocation = T[m].allocation /\ M[m].activity = T[m].activity
      BY <1>2, <2>1, <2>M DEF AliasLoan, Table, Loan
    <3>9. Records(site, B, M)
      <4> SUFFICES ASSUME NEW m \in LiveLoans(M)
                   PROVE  /\ m \in DOMAIN site
                          /\ M[m].range = site[m].range /\ M[m].kind = site[m].kind
                          /\ M[m].allocation = Heap
                          /\ ~Gone(B, m)
                          /\ B.loans[m].parent = M[m].parent
                          /\ B.loans[m].activity = "Active" => M[m].activity = "Active"
        BY DEF Records
      <4>1. m \in LoanIds /\ m \in LiveLoans(T) BY <3>8 DEF LiveLoans, Live
      <4>2. Gone(B, m) <=> Gone(A, m) BY <4>1, <1>k DEF Gone
      <4> QED BY <4>1, <4>2, <1>k, <2>1, <3>8 DEF Records
    <3>10. Q = RunWith(R, M, g)
      <4>1. Q = AliasedRun(R, l, y) BY <1>6, <2>3, <2>4, <2>T, <2>h DEF Execute
      <4> QED BY <4>1, <1>1, <2>T, <2>t, <2>M, <2>g DEF AliasedRun, RunWith, With, RunState
    <3> QED
      BY <1>1, <1>2, <1>3, <1>4, <1>6, <2>1, <3>5, <3>6, <3>7, <3>9, <3>10, <2>g, <2>T, GainFollows
  <2> QED BY <2>n, <2>4
<1> QED BY <1>4, <1>5, <1>6

-----------------------------------------------------------------------------
(* permission_move. *)

\* A with y in the place of x as a holder of loan l.
Moved(A, l, x, y) ==
    Define([Consume(A, x) EXCEPT !.loans[l].authorities = (@ \ {x}) \cup {y}], y, l)

\* A move drops the old holder and adds the new one.
LEMMA MovedState ==
    ASSUME NEW A \in AbstractState, NEW l \in LoanIds, NEW x \in Names, NEW y \in Names
    PROVE  Moved(A, l, x, y) = AliasState(Dropped(A, l, x), l, y)
<1>c. PICK C : C = Consume(A, x) OBVIOUS
<1>1. C \in AbstractState
  <2>1. A.values[x] \in AbstractPermission /\ A.values \in [Names -> AbstractPermission]
    BY DEF AbstractState
  <2>2. [A.values[x] EXCEPT !.availability = "Consumed"] \in AbstractPermission
    BY <2>1 DEF AbstractPermission, Availability
  <2>3. PICK V : V = [A.values EXCEPT ![x] = [A.values[x] EXCEPT !.availability = "Consumed"]]
    OBVIOUS
  <2>4. V \in [Names -> AbstractPermission] BY <2>1, <2>2, <2>3
  <2>5. C = [A EXCEPT !.values = V] BY <1>c, <2>3 DEF Consume, AbstractState
  <2> QED BY <2>4, <2>5 DEF AbstractState
<1>d. PICK D : D = Dropped(A, l, x) OBVIOUS
<1>a. PICK a : a = C.loans[l].authorities OBVIOUS
<1>2. C.loans[l] \in AbstractLoan /\ C.loans \in [LoanIds -> AbstractLoan] BY <1>1 DEF AbstractState
<1>n. PICK n : n = [C.loans[l] EXCEPT !.authorities = a \ {x}] OBVIOUS
<1>k. PICK k : k = [C.loans[l] EXCEPT !.authorities = (a \ {x}) \cup {y}] OBVIOUS
<1>3. n.authorities = a \ {x} /\ [n EXCEPT !.authorities = (a \ {x}) \cup {y}] = k
  BY <1>2, <1>n, <1>k DEF AbstractLoan
<1>N. PICK N : N = [C.loans EXCEPT ![l] = n] OBVIOUS
<1>K. PICK K : K = [C.loans EXCEPT ![l] = k] OBVIOUS
<1>4. D = [C EXCEPT !.loans = N]
  BY <1>1, <1>c, <1>d, <1>a, <1>n, <1>N DEF Dropped, AbstractState
<1>5. N[l] = n /\ [N EXCEPT ![l] = k] = K BY <1>2, <1>N, <1>K
<1>6. [D EXCEPT !.loans[l].authorities = @ \cup {y}] = [C EXCEPT !.loans = K]
  <2>1. D.loans = N BY <1>1, <1>4 DEF AbstractState
  <2>2. [D EXCEPT !.loans[l].authorities = @ \cup {y}]
           = [D EXCEPT !.loans = [N EXCEPT ![l] = [N[l] EXCEPT !.authorities = n.authorities \cup {y}]]]
    BY <2>1, <1>1, <1>4, <1>5 DEF AbstractState
  <2>3. [N[l] EXCEPT !.authorities = n.authorities \cup {y}] = k BY <1>3, <1>5
  <2>4. [D EXCEPT !.loans = K] = [C EXCEPT !.loans = K] BY <1>1, <1>4 DEF AbstractState
  <2> QED BY <2>2, <2>3, <2>4, <1>5
<1>7. [C EXCEPT !.loans[l].authorities = (@ \ {x}) \cup {y}] = [C EXCEPT !.loans = K]
  BY <1>1, <1>a, <1>k, <1>K DEF AbstractState
<1> QED BY <1>6, <1>7, <1>c, <1>d DEF Moved, AliasState

\* What the values hold after a move.
LEMMA HoldMove ==
    ASSUME NEW T, NEW held \in [Names -> HeldValue], Holding(T, held),
           NEW x \in Names, NEW y \in Names, x # y, held[y].loan \notin LoanIds,
           NEW k, k = With(held, y, held[x]), NEW g, g = With(k, x, Nothing)
    PROVE  g \in [Names -> HeldValue] /\ Holding(T, g)
<1>1. Nothing \in HeldValue /\ Nothing.loan \notin LoanIds /\ held[x] \in HeldValue BY NothingHeld
<1>2. /\ k \in [Names -> HeldValue] /\ k[y] = held[x]
      /\ \A z \in Names : z # y => k[z] = held[z]
  BY <1>1, WithAt
<1>3. /\ g \in [Names -> HeldValue] /\ g[x] = Nothing
      /\ \A z \in Names : z # x => g[z] = k[z]
  <2>1. k \in [Names -> HeldValue] /\ Nothing \in HeldValue BY <1>1, <1>2
  <2> QED BY <2>1, WithGives, Z3T(30)
<1>4. ASSUME NEW l \in LoanIds
      PROVE  T[l].authorities = {g[z].token : z \in {w \in Names : g[w].loan = l}}
  <2>1. T[l].authorities = {held[z].token : z \in {w \in Names : held[w].loan = l}}
    BY DEF Holding
  <2>2. ASSUME NEW z \in Names, held[z].loan = l
        PROVE  \E w \in Names : g[w].loan = l /\ g[w].token = held[z].token
    <3>1. CASE z = x BY <3>1, <2>2, <1>2, <1>3
    <3>2. CASE z # x BY <3>2, <2>2, <1>2, <1>3
    <3> QED BY <3>1, <3>2
  <2>3. ASSUME NEW w \in Names, g[w].loan = l
        PROVE  \E z \in Names : held[z].loan = l /\ g[w].token = held[z].token
    BY <2>3, <1>1, <1>2, <1>3
  <2> QED BY <2>1, <2>2, <2>3
<1>5. ASSUME NEW z \in Names, NEW w \in Names, g[z].loan \in LoanIds, g[z] = g[w]
      PROVE  z = w
  <2>1. z # x /\ w # x BY <1>1, <1>3, <1>5
  <2>2. g[z] = k[z] /\ g[w] = k[w] BY <2>1, <1>3
  <2>3. CASE z = y /\ w # y
    <3>1. held[x] = held[w] /\ held[x].loan \in LoanIds BY <2>2, <2>3, <1>2, <1>5
    <3> QED BY <3>1, <2>1 DEF Holding
  <2>4. CASE z # y /\ w = y
    <3>1. held[x] = held[z] /\ held[x].loan \in LoanIds BY <2>2, <2>4, <1>2, <1>5
    <3> QED BY <3>1, <2>1 DEF Holding
  <2>5. CASE z # y /\ w # y
    <3>1. g[z] = held[z] /\ g[w] = held[w] BY <2>2, <2>5, <1>2
    <3> QED BY <3>1, <1>5 DEF Holding
  <2> QED BY <2>3, <2>4, <2>5
<1> QED BY <1>3, <1>4, <1>5 DEF Holding

\* The run after permission_move.
MovedRun(R, x, y) == [R EXCEPT !.held = [@ EXCEPT ![y] = R.held[x], ![x] = Nothing]]

\* A move that the analysis lets pass is not refused.
LEMMA MovePath ==
    ASSUME ~Leaks, site \in Sites, NEW A, NEW R, PathInv(site, A, R),
           NEW x \in Names, NEW y \in Names, x # y, Free(A, y), HoldsAuthority(A, x),
           NEW l, l = A.values[x].authority,
           NEW B, B = Moved(A, l, x, y), NEW Q,
           Q = Execute(R, R.held[x].loan \in LoanIds, MovedRun(R, x, y))
    PROVE  PathInv(site, B, Q) /\ SameDoubts(A, B)
<1>1. Shape(A) /\ A \in AbstractState /\ R \in RunState BY DEF PathInv, Shape
<1>2. l \in LoanIds /\ Certain(A, x) /\ x \in A.loans[l].authorities
  BY DEF HoldsAuthority, Certain
<1>3. ~Gone(A, l) BY <1>1, <1>2 DEF Shape
<1>d. PICK D : D = Dropped(A, l, x) OBVIOUS
<1>r. Loses(A, D, l, x) /\ SameRecords(A, D, l) BY <1>1, <1>2, <1>3, <1>d, DroppedLoses
<1>4. /\ D \in AbstractState /\ Loses(A, D, l, x)
      /\ \A m \in LoanIds : m # l => D.loans[m] = A.loans[m]
      /\ D.loans[l].activity = A.loans[l].activity /\ D.loans[l].parent = A.loans[l].parent
      /\ \A z \in Names : z # x => D.values[z] = A.values[z]
  BY <1>r DEF Loses, SameRecords
<1>5. Shape(D) /\ SameDoubts(A, D) BY <1>1, <1>2, <1>4, LoseShape
<1>6. Free(D, y)
  <2>1. \A m \in LoanIds : y \notin D.loans[m].authorities BY <1>4 DEF Free, Loses
  <2> QED BY <2>1, <1>4 DEF Free
<1>7. \A m \in LoanIds : D.loans[m].activity = A.loans[m].activity
                            /\ D.loans[m].parent = A.loans[m].parent
  BY <1>4
<1>8. ~Gone(D, l) BY <1>2, <1>3, <1>7 DEF Gone
<1>9. B = AliasState(D, l, y) BY <1>1, <1>2, <1>d, MovedState
<1>10. Gains(D, B, l, y) BY <1>2, <1>4, <1>8, <1>9, AliasStateGains
<1>k. \A m \in LoanIds : B.loans[m].activity = D.loans[m].activity
                            /\ B.loans[m].parent = D.loans[m].parent
  BY <1>2, <1>4, <1>8, <1>9, AliasStateGains
<1>11. Shape(B) /\ SameDoubts(A, B)
  <2>1. Shape(B) /\ SameDoubts(D, B) BY <1>2, <1>5, <1>6, <1>10, GainShape
  <2> QED BY <2>1, <1>5 DEF SameDoubts
<1>12. CASE R.refused
  <2>1. Q = R BY <1>12 DEF Execute
  <2> QED BY <2>1, <1>11, <1>12, DoubtsStick, RefusedPath
<1>13. CASE ~R.refused
  <2>T. PICK T : T = R.table OBVIOUS
  <2>h. PICK held : held = R.held OBVIOUS
  <2>1. /\ Follows(site, A, R) /\ T \in Table /\ TableInv(T) /\ Records(site, A, T)
        /\ Knows(A, held) /\ Holding(T, held) /\ held \in [Names -> HeldValue]
    BY <1>1, <1>13, <2>T, <2>h, RunFields DEF PathInv, Follows
  <2>2. held[x].loan = l /\ held[x] \in HeldValue BY <1>2, <2>1 DEF Knows, KnowsValue
  <2>3. held[y].loan \notin LoanIds BY <1>1, <2>1, FreeHoldsNothing
  <2>k. PICK k : k = With(held, y, held[x]) OBVIOUS
  <2>g. PICK g : g = With(k, x, Nothing) OBVIOUS
  <2>4. g \in [Names -> HeldValue] /\ Holding(T, g) BY <2>1, <2>3, <2>k, <2>g, HoldMove
  <2>5. /\ g[y] = held[x] /\ g[x].loan \notin LoanIds
        /\ \A z \in Names : z # x /\ z # y => g[z] = held[z]
    <3>1. k \in [Names -> HeldValue] /\ k[y] = held[x] /\ \A z \in Names : z # y => k[z] = held[z]
      BY <2>1, <2>2, <2>k, WithAt
    <3>2. g[x] = Nothing /\ \A z \in Names : z # x => g[z] = k[z]
      BY <3>1, <2>g, NothingHeld, WithAt
    <3> QED BY <3>1, <3>2, NothingHeld
  <2>6. Knows(B, g)
    <3> SUFFICES ASSUME NEW z \in Names PROVE KnowsValue(B, g, z)
      BY DEF Knows
    <3>1. CASE z = y
      <4>1. /\ B.values[y].authority = l /\ B.values[y].availability = "Available"
            /\ y \in B.loans[l].authorities
        BY <1>10 DEF Gains
      <4> QED BY <4>1, <3>1, <1>2, <2>2, <2>5 DEF KnowsValue, Listed, May
    <3>2. CASE z = x
      <4>1. B.values[x].availability = "Consumed" BY <1>4, <1>10 DEF Gains, Loses
      <4> QED BY <4>1, <3>2, <2>5 DEF KnowsValue, Certain
    <3>3. CASE z # x /\ z # y
      <4>1. B.values[z] = A.values[z] /\ g[z] = held[z] BY <3>3, <1>4, <1>10, <2>5 DEF Gains
      <4>2. \A m \in LoanIds : z \in A.loans[m].authorities => z \in B.loans[m].authorities
        <5> SUFFICES ASSUME NEW m \in LoanIds, z \in A.loans[m].authorities
                     PROVE  z \in B.loans[m].authorities
          OBVIOUS
        <5>1. z \in D.loans[m].authorities BY <3>3, <1>4 DEF Loses
        <5>2. \/ B.loans[m].authorities = D.loans[m].authorities
              \/ B.loans[m].authorities = D.loans[m].authorities \cup {y}
          BY <1>10 DEF Gains
        <5> QED BY <5>1, <5>2
      <4> QED BY <4>1, <4>2, <2>1, <1>11, KnowsSame
    <3> QED BY <3>1, <3>2, <3>3
  <2>7. Records(site, B, T)
    <3>1. \A m \in LiveLoans(T) : m \in LoanIds BY DEF LiveLoans
    <3>2. \A m \in LoanIds : Gone(B, m) <=> Gone(A, m) BY <1>7, <1>k DEF Gone
    <3> QED BY <3>1, <3>2, <1>7, <1>k, <2>1 DEF Records
  <2>8. Q = RunWith(R, T, g)
    <3>1. Q = MovedRun(R, x, y) BY <1>13, <1>2, <2>2, <2>h DEF Execute
    <3> QED BY <3>1, <1>1, <2>T, <2>h, <2>k, <2>g DEF MovedRun, RunWith, With, RunState
  <2>9. Q \in RunState /\ Q.table = T /\ Q.held = g /\ Q.refused = FALSE
    BY <1>1, <1>13, <2>1, <2>4, <2>8, RunFields, RunWithState
  <2> QED BY <1>11, <2>1, <2>4, <2>6, <2>7, <2>9 DEF PathInv, Follows
<1> QED BY <1>11, <1>12, <1>13

\* A move of a value whose loan is unknown: y has what x had, no loan changes.
MovedUnknown(A, x, y) == Define(Consume(A, x), y, NoLoan)

\* Such a state.
LEMMA MovedUnknownState ==
    ASSUME NEW A \in AbstractState, NEW x \in Names, NEW y \in Names, x # y,
           A.values[x].authority = NoLoan, NEW B, B = MovedUnknown(A, x, y)
    PROVE  /\ B \in AbstractState /\ B.loans = A.loans
           /\ B.values[x] = [authority |-> NoLoan, availability |-> "Consumed"]
           /\ B.values[y] = [authority |-> NoLoan, availability |-> "Available"]
           /\ \A z \in Names : z # x /\ z # y => B.values[z] = A.values[z]
<1>u. PICK u : u = [authority |-> NoLoan, availability |-> "Consumed"] OBVIOUS
<1>v. PICK v : v = [authority |-> NoLoan, availability |-> "Available"] OBVIOUS
<1>1. A.values \in [Names -> AbstractPermission] /\ A.values[x] \in AbstractPermission
  BY DEF AbstractState
<1>2. u \in AbstractPermission /\ v \in AbstractPermission
  BY <1>u, <1>v DEF AbstractPermission, Availability
<1>3. [A.values[x] EXCEPT !.availability = "Consumed"] = u
  BY <1>1, <1>u DEF AbstractPermission
<1>w. PICK W : W = [A.values EXCEPT ![x] = u] OBVIOUS
<1>z. PICK Z : Z = [W EXCEPT ![y] = v] OBVIOUS
<1>4. W \in [Names -> AbstractPermission] /\ W[x] = u
         /\ \A z \in Names : z # x => W[z] = A.values[z]
  BY <1>1, <1>2, <1>w
<1>5. Z \in [Names -> AbstractPermission] /\ Z[x] = u /\ Z[y] = v
         /\ \A z \in Names : z # x /\ z # y => Z[z] = A.values[z]
  BY <1>2, <1>4, <1>z
<1>c. PICK C : C = Consume(A, x) OBVIOUS
<1>6. C = [A EXCEPT !.values = W] BY <1>3, <1>c, <1>w DEF Consume, AbstractState
<1>7. C \in AbstractState /\ C.values = W /\ C.loans = A.loans BY <1>4, <1>6 DEF AbstractState
<1>8. B = [C EXCEPT !.values = Z]
  BY <1>7, <1>c, <1>v, <1>z DEF MovedUnknown, Define, AbstractState
<1>9. B \in AbstractState /\ B.values = Z /\ B.loans = A.loans
  BY <1>5, <1>7, <1>8 DEF AbstractState
<1> QED BY <1>5, <1>9, <1>u, <1>v

\* A value whose loan is unknown can be moved: no loan names its new holder, but
\* the loan that the run holds keeps a holder that can never be used.
LEMMA MoveUnknownPath ==
    ASSUME site \in Sites, NEW A, NEW R, PathInv(site, A, R),
           NEW x \in Names, NEW y \in Names, x # y, Free(A, y),
           A.values[x].availability = "Available", A.values[x].authority \notin LoanIds,
           NEW B, B = MovedUnknown(A, x, y), NEW Q,
           Q = Execute(R, R.held[x].loan \in LoanIds, MovedRun(R, x, y))
    PROVE  PathInv(site, B, Q) /\ SameDoubts(A, B)
<1>1. Shape(A) /\ A \in AbstractState /\ R \in RunState BY DEF PathInv, Shape
<1>2. A.values[x].authority = NoLoan BY <1>1 DEF AbstractState, AbstractPermission
<1>3. /\ B \in AbstractState /\ B.loans = A.loans
      /\ B.values[x] = [authority |-> NoLoan, availability |-> "Consumed"]
      /\ B.values[y] = [authority |-> NoLoan, availability |-> "Available"]
      /\ \A z \in Names : z # x /\ z # y => B.values[z] = A.values[z]
  BY <1>1, <1>2, MovedUnknownState
<1>4. /\ B.values[x].authority = NoLoan /\ B.values[x].availability = "Consumed"
      /\ B.values[y].authority = NoLoan /\ B.values[y].availability = "Available"
  BY <1>3
<1>5. ~Certain(A, x) /\ ~Certain(A, y) /\ ~Certain(B, x) /\ ~Certain(B, y)
  BY <1>4, LoanTableAssumption DEF Certain, Free
<1>6. \A z \in Names : /\ Certain(B, z) <=> Certain(A, z)
                       /\ Certain(B, z) => B.values[z] = A.values[z]
  BY <1>3, <1>5 DEF Certain
<1>7. \A l \in LoanIds : A.loans[l].authorities \subseteq Names
  BY <1>1 DEF AbstractState, AbstractLoan
<1>8. Shape(B)
  <2>1. ASSUME NEW l \in LoanIds, NEW z \in B.loans[l].authorities, Certain(B, z)
        PROVE  B.values[z].authority = l
    <3>1. z \in Names /\ z \in A.loans[l].authorities BY <1>3, <1>7
    <3> QED BY <3>1, <2>1, <1>1, <1>6 DEF Shape
  <2>2. ASSUME NEW z \in Names, Certain(B, z)
        PROVE  z \in B.loans[B.values[z].authority].authorities
    BY <2>2, <1>1, <1>3, <1>6 DEF Shape
  <2>3. \A l \in LoanIds : Gone(B, l) => B.loans[l].authorities = {}
    BY <1>1, <1>3 DEF Shape, Gone
  <2> QED BY <2>1, <2>2, <2>3, <1>3 DEF Shape
<1>9. SameDoubts(A, B) BY <1>3, <1>6, <1>7 DEF SameDoubts, Doubts
<1>10. CASE R.refused
  <2>1. Q = R BY <1>10 DEF Execute
  <2> QED BY <2>1, <1>8, <1>9, <1>10, DoubtsStick, RefusedPath
<1>11. CASE ~R.refused
  <2>T. PICK T : T = R.table OBVIOUS
  <2>h. PICK held : held = R.held OBVIOUS
  <2>m. PICK m : m = held[x].loan OBVIOUS
  <2>1. /\ Follows(site, A, R) /\ T \in Table /\ TableInv(T) /\ Records(site, A, T)
        /\ Knows(A, held) /\ Holding(T, held) /\ held \in [Names -> HeldValue]
    BY <1>1, <1>11, <2>T, <2>h, RunFields DEF PathInv, Follows
  <2>2. m \in LoanIds /\ held[x] \in HeldValue /\ Listed(A, m, x)
    BY <2>1, <2>m DEF Knows, KnowsValue
  <2>3. Doubts(A, m) # {} BY <2>2, <1>5 DEF Listed, Doubts
  <2>4. held[y].loan \notin LoanIds BY <1>1, <2>1, FreeHoldsNothing
  <2>k. PICK k : k = With(held, y, held[x]) OBVIOUS
  <2>g. PICK g : g = With(k, x, Nothing) OBVIOUS
  <2>5. g \in [Names -> HeldValue] /\ Holding(T, g) BY <2>1, <2>4, <2>k, <2>g, HoldMove
  <2>6. /\ g[y] = held[x] /\ g[x].loan \notin LoanIds
        /\ \A z \in Names : z # x /\ z # y => g[z] = held[z]
    <3>1. k \in [Names -> HeldValue] /\ k[y] = held[x] /\ \A z \in Names : z # y => k[z] = held[z]
      BY <2>1, <2>2, <2>k, WithAt
    <3>2. g[x] = Nothing /\ \A z \in Names : z # x => g[z] = k[z]
      BY <3>1, <2>g, NothingHeld, WithAt
    <3> QED BY <3>1, <3>2, NothingHeld
  <2>7. ASSUME NEW z \in Names PROVE KnowsValue(B, g, z)
    <3>1. CASE z = y
      <4>1. Doubts(B, m) # {} BY <2>2, <2>3, <1>9 DEF SameDoubts
      <4>2. g[y].loan = m BY <2>6, <2>m
      <4> QED BY <4>1, <4>2, <3>1, <2>2, <1>4, <1>5 DEF KnowsValue, Listed, May
    <3>2. CASE z = x BY <3>2, <2>6, <1>4, <1>5 DEF KnowsValue
    <3>3. CASE z # x /\ z # y
      <4>1. B.values[z] = A.values[z] /\ g[z] = held[z] BY <3>3, <1>3, <2>6
      <4> QED BY <4>1, <2>1, <1>3, <1>9, KnowsSame
    <3> QED BY <3>1, <3>2, <3>3
  <2>8. Knows(B, g) BY <2>7 DEF Knows
  <2>9. Records(site, B, T) BY <2>1, <1>3 DEF Records, Gone
  <2>10. Q = RunWith(R, T, g)
    <3>1. Q = MovedRun(R, x, y) BY <1>11, <2>2, <2>h, <2>m DEF Execute
    <3> QED BY <3>1, <1>1, <2>T, <2>h, <2>k, <2>g DEF MovedRun, RunWith, With, RunState
  <2>11. Q \in RunState /\ Q.table = T /\ Q.held = g /\ Q.refused = FALSE
    BY <1>1, <1>11, <2>1, <2>5, <2>10, RunFields, RunWithState
  <2> QED BY <1>8, <1>9, <2>1, <2>5, <2>8, <2>9, <2>11 DEF PathInv, Follows
<1> QED BY <1>9, <1>10, <1>11

-----------------------------------------------------------------------------
(* loan_end and loan_end_authority. *)

\* B is E after parent p may have got back what it lent.
Restored(E, B, p) ==
    /\ B \in AbstractState /\ B.values = E.values
    /\ \A m \in LoanIds :
          /\ B.loans[m].authorities = E.loans[m].authorities
          /\ B.loans[m].parent = E.loans[m].parent
          /\ Gone(B, m) => Gone(E, m)
          /\ B.loans[m].activity = "Active" =>
                E.loans[m].activity = "Active" \/ (m = p /\ NoActiveChild(E, p))

\* The parent is active again only once no child of it may be live.
LEMMA RestoredState ==
    ASSUME NEW E \in AbstractState, NEW p, NEW B, B = RestoreParentAfterChild(E, p)
    PROVE  Restored(E, B, p)
<1>1. CASE ~(p \in LoanIds /\ Recorded(E, p))
  <2>1. B = E BY <1>1 DEF RestoreParentAfterChild
  <2> QED BY <2>1 DEF Restored
<1>2. CASE p \in LoanIds /\ Recorded(E, p)
  <2>a. PICK a : a = CASE E.loans[p].activity = "Active" -> "Active"
                       [] E.loans[p].activity = "Suspended" ->
                             IF NoActiveChild(E, p) THEN "Active" ELSE "Suspended"
                       [] OTHER -> "MaybeActive"
    OBVIOUS
  <2>n. PICK n : n = [E.loans[p] EXCEPT !.activity = a] OBVIOUS
  <2>m. PICK M : M = [E.loans EXCEPT ![p] = n] OBVIOUS
  <2>1. E.loans[p] \in AbstractLoan /\ E.loans \in [LoanIds -> AbstractLoan]
    BY <1>2 DEF AbstractState
  <2>2. /\ a \in {"Active", "Suspended", "MaybeActive"}
        /\ a = "Active" => E.loans[p].activity = "Active" \/ NoActiveChild(E, p)
    BY <2>a
  <2>3. /\ n \in AbstractLoan /\ n.activity = a /\ n.parent = E.loans[p].parent
        /\ n.authorities = E.loans[p].authorities
    BY <2>1, <2>2, <2>n DEF AbstractLoan, AbstractActivity, Activity
  <2>4. /\ M \in [LoanIds -> AbstractLoan] /\ M[p] = n
        /\ \A m \in LoanIds : m # p => M[m] = E.loans[m]
    BY <1>2, <2>1, <2>3, <2>m
  <2>5. B = [E EXCEPT !.loans = M]
    BY <1>2, <2>a, <2>n, <2>m DEF RestoreParentAfterChild, AbstractState
  <2>6. B \in AbstractState /\ B.values = E.values /\ B.loans = M
    BY <2>4, <2>5 DEF AbstractState
  <2>7. ASSUME NEW m \in LoanIds
        PROVE  /\ B.loans[m].authorities = E.loans[m].authorities
               /\ B.loans[m].parent = E.loans[m].parent
               /\ Gone(B, m) => Gone(E, m)
               /\ B.loans[m].activity = "Active" =>
                     E.loans[m].activity = "Active" \/ (m = p /\ NoActiveChild(E, p))
    <3>1. CASE m = p BY <3>1, <2>2, <2>3, <2>4, <2>6 DEF Gone
    <3>2. CASE m # p BY <3>2, <2>4, <2>6 DEF Gone
    <3> QED BY <3>1, <3>2
  <2> QED BY <2>6, <2>7 DEF Restored
<1> QED BY <1>1, <1>2

\* What A and B have in common after a holder of loan l is removed: a loan is on
\* record as before, and it got active only if no child of it is left.
Removed(A, B, l, x) ==
    /\ \A m \in LoanIds :
          /\ B.loans[m].parent = A.loans[m].parent
          /\ m # l \/ A.loans[l].authorities \ {x} # {} => (Gone(B, m) => Gone(A, m))
    /\ \A m \in LoanIds : m # l \/ A.loans[l].authorities \ {x} # {} =>
          (B.loans[m].activity = "Active" =>
              \/ A.loans[m].activity = "Active"
              \/ /\ A.loans[l].authorities \ {x} = {}
                 /\ m = A.loans[l].parent
                 /\ \A c \in LoanIds \ {l} : A.loans[c].parent = m => Gone(A, c))

\* The last holder ends the loan; any other leaves it.
LEMMA RemovedState ==
    ASSUME NEW A \in AbstractState, NEW x \in Names, NEW l \in LoanIds,
           l = A.values[x].authority, ~Gone(A, l), NEW B, B = RemoveAuthority(A, x)
    PROVE  Loses(A, B, l, x) /\ Removed(A, B, l, x)
<1>d. PICK D : D = Dropped(A, l, x) OBVIOUS
<1>1. Loses(A, D, l, x) /\ SameRecords(A, D, l) BY <1>d, DroppedLoses
<1>2. D \in AbstractState /\ D.loans[l].authorities = A.loans[l].authorities \ {x}
  BY <1>1 DEF Loses
<1>3. \A m \in LoanIds : D.loans[m].activity = A.loans[m].activity
                            /\ D.loans[m].parent = A.loans[m].parent
  BY <1>1 DEF SameRecords
<1>4. CASE D.loans[l].authorities # {}
  <2>1. B = D BY <1>4, <1>d DEF RemoveAuthority, Dropped
  <2> QED BY <2>1, <1>1, <1>2, <1>3, <1>4 DEF Removed, Gone
<1>5. CASE D.loans[l].authorities = {}
  <2>p. PICK p : p = A.loans[l].parent OBVIOUS
  <2>e. PICK E : E = [D EXCEPT !.loans[l].activity = "Ended"] OBVIOUS
  <2>n. PICK n : n = [D.loans[l] EXCEPT !.activity = "Ended"] OBVIOUS
  <2>m. PICK M : M = [D.loans EXCEPT ![l] = n] OBVIOUS
  <2>1. D.loans[l] \in AbstractLoan /\ D.loans \in [LoanIds -> AbstractLoan]
    BY <1>2 DEF AbstractState
  <2>2. /\ n \in AbstractLoan /\ n.activity = "Ended" /\ n.parent = D.loans[l].parent
        /\ n.authorities = D.loans[l].authorities
    BY <2>1, <2>n DEF AbstractLoan, AbstractActivity, Activity
  <2>3. /\ M \in [LoanIds -> AbstractLoan] /\ M[l] = n
        /\ \A m \in LoanIds : m # l => M[m] = D.loans[m]
    BY <2>1, <2>2, <2>m
  <2>4. E = [D EXCEPT !.loans = M] BY <1>2, <2>e, <2>n, <2>m DEF AbstractState
  <2>5. E \in AbstractState /\ E.values = D.values /\ E.loans = M
    BY <1>2, <2>3, <2>4 DEF AbstractState
  <2>6. B = RestoreParentAfterChild(E, p)
    BY <1>5, <1>d, <2>e, <2>p DEF RemoveAuthority, Dropped
  <2>7. Restored(E, B, p) BY <2>5, <2>6, RestoredState
  <2>8. \A m \in LoanIds : m # l => E.loans[m] = A.loans[m]
    BY <1>1, <2>3, <2>5 DEF SameRecords
  <2>9. Loses(A, B, l, x)
    <3>1. B \in AbstractState /\ B.values = D.values BY <2>5, <2>7 DEF Restored
    <3>2. B.loans[l].authorities = A.loans[l].authorities \ {x}
      BY <1>2, <2>2, <2>3, <2>5, <2>7 DEF Restored
    <3>3. \A m \in LoanIds : m # l =>
             B.loans[m].authorities = A.loans[m].authorities /\ (Gone(B, m) => Gone(A, m))
      BY <2>7, <2>8 DEF Restored, Gone
    <3>4. A.loans[l].authorities \ {x} = {} BY <1>2, <1>5
    <3> QED BY <1>1, <3>1, <3>2, <3>3, <3>4 DEF Loses
  <2>10. A.loans[l].authorities \ {x} = {} BY <1>2, <1>5
  <2>11. \A m \in LoanIds : B.loans[m].parent = A.loans[m].parent
    BY <1>3, <2>2, <2>3, <2>5, <2>7 DEF Restored
  <2>12. ASSUME NEW m \in LoanIds, m # l, B.loans[m].activity = "Active",
                A.loans[m].activity # "Active"
         PROVE  m = p /\ \A c \in LoanIds \ {l} : A.loans[c].parent = m => Gone(A, c)
    <3>1. m = p /\ NoActiveChild(E, p) BY <2>7, <2>8, <2>12 DEF Restored
    <3> QED BY <3>1, <2>8 DEF NoActiveChild, Gone
  <2>13. \A m \in LoanIds : m # l => (Gone(B, m) => Gone(A, m)) BY <2>9 DEF Loses
  <2> QED BY <2>9, <2>10, <2>11, <2>12, <2>13, <2>p DEF Removed
<1> QED BY <1>4, <1>5

\* What is left of a table after one authority has ended.
LEMMA EndRecords ==
    ASSUME NEW T \in Table, NEW l \in LoanIds, NEW h, NEW M, M = EndLoan(T, l, h),
           NEW m \in LiveLoans(M)
    PROVE  /\ m \in LiveLoans(T) /\ M[m].parent = T[m].parent
           /\ M[m].range = T[m].range /\ M[m].kind = T[m].kind
           /\ M[m].allocation = T[m].allocation
           /\ T[m].activity = "Active" => M[m].activity = "Active"
           /\ m = l => T[l].authorities # {h}
<1>m. m \in LoanIds /\ Live(M, m) BY DEF LiveLoans
<1>1. CASE T[l].authorities # {h}
  <2>1. M = [T EXCEPT ![l].authorities = @ \ {h}] BY <1>1 DEF EndLoan
  <2>2. T[l] \in Loan /\ M[l] = [T[l] EXCEPT !.authorities = @ \ {h}]
           /\ \A s \in LoanIds : s # l => M[s] = T[s]
    BY <2>1 DEF Table
  <2>3. M[l].parent = T[l].parent /\ M[l].activity = T[l].activity /\ M[l].range = T[l].range
          /\ M[l].kind = T[l].kind /\ M[l].allocation = T[l].allocation
    BY <2>2 DEF Loan
  <2> QED BY <1>m, <1>1, <2>2, <2>3 DEF LiveLoans, Live
<1>2. CASE T[l].authorities = {h}
  <2>b. PICK B : B = [T EXCEPT ![l] = Blank] OBVIOUS
  <2>1. B \in Table /\ B[l] = Blank /\ \A s \in LoanIds : s # l => B[s] = T[s]
    BY <2>b, BlankLoan DEF Table
  <2>2. M = RestoreParent(B, T[l].parent) BY <1>2, <2>b DEF EndLoan
  <2>3. /\ M[m].parent = B[m].parent /\ M[m].range = B[m].range /\ M[m].kind = B[m].kind
        /\ M[m].allocation = B[m].allocation /\ (Live(M, m) <=> Live(B, m))
        /\ B[m].activity = "Active" => M[m].activity = "Active"
    <3>1. CASE M = B BY <3>1
    <3>2. CASE /\ T[l].parent \in LoanIds /\ B[T[l].parent].activity = "Suspended"
               /\ M = [B EXCEPT ![T[l].parent].activity = "Active"]
      BY <3>2, <1>m, <2>1 DEF Table, Loan, Live
    <3> QED BY <3>1, <3>2, <2>2 DEF RestoreParent
  <2>4. m # l BY <1>m, <2>1, <2>3, BlankLoan DEF Live
  <2> QED BY <1>m, <2>1, <2>3, <2>4 DEF LiveLoans, Live
<1> QED BY <1>1, <1>2

\* After the end of an authority the analysis still stands for the run.
LEMMA EndFollows ==
    ASSUME NEW A, NEW R, PathInv(site, A, R), ~R.refused, NEW x \in Names, HoldsAuthority(A, x),
           NEW l, l = A.values[x].authority, NEW h, h = R.held[x].token,
           NEW B, Shape(B), SameDoubts(A, B), Loses(A, B, l, x), Removed(A, B, l, x),
           EndAllowed(R.table, l, h) \/ EndStoredAllowed(R.table, l, h),
           NEW M, M = EndLoan(R.table, l, h), NEW g, g = With(R.held, x, Nothing),
           NEW Q, Q = RunWith(R, M, g)
    PROVE  PathInv(site, B, Q)
<1>T. PICK T : T = R.table OBVIOUS
<1>h. PICK held : held = R.held OBVIOUS
<1>1. /\ Follows(site, A, R) /\ T \in Table /\ TableInv(T) /\ Records(site, A, T)
      /\ Knows(A, held) /\ Holding(T, held) /\ held \in [Names -> HeldValue] /\ R \in RunState
  BY <1>T, <1>h, RunFields DEF PathInv, Follows
<1>2. l \in LoanIds /\ held[x].loan = l /\ h \in T[l].authorities /\ held[x].token = h
  BY <1>1, <1>T, <1>h, CertainIsHeld
<1>c. Certain(A, x) BY <1>1, CertainIsHeld
<1>3. M \in Table /\ TableInv(M) BY <1>1, <1>2, <1>T, EndInv
<1>4. Revokes(T, M, l, h) BY <1>1, <1>2, <1>T, EndRevokes
<1>5. Holding(M, g) BY <1>1, <1>2, <1>4, <1>h, HoldLose
<1>6. Knows(B, g) BY <1>1, <1>2, <1>h, KnowLose
<1>7. g \in [Names -> HeldValue] BY <1>1, <1>h, NothingHeld, WithAt
<1>8. A.loans[l].authorities \ {x} = {} => T[l].authorities = {h}
  <2> SUFFICES ASSUME A.loans[l].authorities \ {x} = {} PROVE T[l].authorities = {h}
    OBVIOUS
  <2>0. Doubts(A, l) = {} BY <1>c DEF Doubts
  <2>1. \A y \in Names : held[y].loan = l => y \in A.loans[l].authorities
    BY <1>1, <1>2, <2>0 DEF Knows, KnowsValue, Listed
  <2>2. T[l].authorities = {held[y].token : y \in {z \in Names : held[z].loan = l}}
    BY <1>1, <1>2 DEF Holding
  <2> QED BY <2>1, <2>2, <1>2, SMTT(30)
<1>9. ASSUME NEW m \in LiveLoans(M)
      PROVE  /\ m \in DOMAIN site
             /\ M[m].range = site[m].range /\ M[m].kind = site[m].kind
             /\ M[m].allocation = Heap
             /\ ~Gone(B, m)
             /\ B.loans[m].parent = M[m].parent
             /\ B.loans[m].activity = "Active" => M[m].activity = "Active"
  <2>m. m \in LoanIds /\ Live(M, m) BY DEF LiveLoans
  <2>1. /\ m \in LiveLoans(T) /\ M[m].parent = T[m].parent
        /\ M[m].range = T[m].range /\ M[m].kind = T[m].kind
        /\ M[m].allocation = T[m].allocation
        /\ T[m].activity = "Active" => M[m].activity = "Active"
        /\ m = l => T[l].authorities # {h}
    <3>1. T \in Table /\ l \in LoanIds BY <1>1, <1>2
    <3>2. M = EndLoan(T, l, h) BY <1>T
    <3> QED BY <3>1, <3>2, EndRecords
  <2>2. m # l \/ A.loans[l].authorities \ {x} # {} BY <2>1, <1>8
  <2>3. ~Gone(B, m) BY <2>m, <2>1, <2>2, <1>1 DEF Removed, Records
  <2>4. B.loans[m].parent = M[m].parent BY <2>m, <2>1, <1>1 DEF Removed, Records
  <2>5. ASSUME B.loans[m].activity = "Active" PROVE M[m].activity = "Active"
    <3>1. CASE A.loans[m].activity = "Active" BY <3>1, <2>1, <1>1 DEF Records
    <3>2. CASE /\ A.loans[l].authorities \ {x} = {} /\ m = A.loans[l].parent
               /\ \A c \in LoanIds \ {l} : A.loans[c].parent = m => Gone(A, c)
      <4>1. ASSUME NEW c \in LoanIds, M[c].parent = m, Live(M, c) PROVE FALSE
        <5>0. c \in LiveLoans(M) BY <4>1 DEF LiveLoans
        <5>1. /\ c \in LiveLoans(T) /\ M[c].parent = T[c].parent
              /\ c = l => T[l].authorities # {h}
          BY <5>0, <1>1, <1>2, <1>T, EndRecords
        <5>2. A.loans[c].parent = m /\ ~Gone(A, c) BY <5>1, <4>1, <1>1 DEF Records
        <5> QED BY <5>1, <5>2, <3>2, <1>8
      <4>2. ~HasActiveChild(M, m) BY <4>1 DEF HasActiveChild
      <4>3. M[m].activity # "Suspended" BY <4>2, <1>3 DEF TableInv, SuspendedWhileLent
      <4>4. M[m].activity \in Activity /\ M[m].activity # "Ended"
        BY <2>m, <1>3 DEF Table, Loan, Live
      <4> QED BY <4>3, <4>4 DEF Activity
    <3> QED BY <3>1, <3>2, <2>m, <2>2, <2>5 DEF Removed
  <2> QED BY <2>1, <2>3, <2>4, <2>5, <1>1 DEF Records
<1>10. Records(site, B, M) BY <1>9 DEF Records
<1>11. Q \in RunState /\ Q.table = M /\ Q.held = g /\ Q.refused = FALSE
  BY <1>1, <1>3, <1>7, RunFields, RunWithState
<1> QED BY <1>3, <1>5, <1>6, <1>10, <1>11 DEF PathInv, Follows

\* The run after the end of one authority.
EndedRun(R, l, x) ==
    [R EXCEPT !.table = EndLoan(@, l, R.held[x].token), !.held[x] = Nothing]

\* No child in the analysis, no child in the run.
LEMMA ChildrenKnown ==
    ASSUME NEW A, NEW T, Records(site, A, T), NEW l, NoActiveChild(A, l)
    PROVE  ~HasActiveChild(T, l)
BY DEF HasActiveChild, NoActiveChild, Records, LiveLoans

\* An end that the analysis lets pass is not refused, unless the analysis counts a
\* holder that the run has lost.
LEMMA EndPath ==
    ASSUME site \in Sites, NEW A, NEW R, PathInv(site, A, R),
           NEW x \in Names, HoldsAuthority(A, x),
           NEW l, l = A.values[x].authority, A.loans[l].activity = "Active",
           NEW stored \in BOOLEAN,
           \/ NoActiveChild(A, l)
           \/ stored /\ Cardinality(A.loans[l].authorities) > 1,
           NEW B, B = RemoveAuthority(A, x), NEW Q,
           Q = Execute(R, R.held[x].loan = l
                             /\ IF stored THEN EndStoredAllowed(R.table, l, R.held[x].token)
                                          ELSE EndAllowed(R.table, l, R.held[x].token),
                       EndedRun(R, l, x))
    PROVE  PathInv(site, B, Q) /\ SameDoubts(A, B)
<1>1. Shape(A) /\ A \in AbstractState /\ R \in RunState BY DEF PathInv, Shape
<1>2. l \in LoanIds /\ Certain(A, x) /\ x \in A.loans[l].authorities /\ ~Gone(A, l)
  BY DEF HoldsAuthority, Certain, Gone
<1>3. Loses(A, B, l, x) /\ Removed(A, B, l, x) BY <1>1, <1>2, RemovedState
<1>4. Shape(B) /\ SameDoubts(A, B) BY <1>1, <1>2, <1>3, LoseShape
<1>5. CASE R.refused
  <2>1. Q = R BY <1>5 DEF Execute
  <2> QED BY <2>1, <1>4, <1>5, DoubtsStick, RefusedPath
<1>6. CASE ~R.refused
  <2>T. PICK T : T = R.table OBVIOUS
  <2>q. PICK held : held = R.held OBVIOUS
  <2>h. PICK h : h = R.held[x].token OBVIOUS
  <2>1. /\ Follows(site, A, R) /\ T \in Table /\ TableInv(T) /\ Records(site, A, T)
        /\ Knows(A, held) /\ Holding(T, held) /\ held \in [Names -> HeldValue]
    BY <1>1, <1>6, <2>T, <2>q, RunFields DEF PathInv, Follows
  <2>2. l \in LiveLoans(T) /\ R.held[x].loan = l /\ h \in T[l].authorities
    BY <1>1, <2>1, <2>T, <2>h, CertainIsHeld
  <2>3. T[l].activity = "Active" BY <2>1, <2>2 DEF Records
  <2>4. CASE IF stored THEN EndStoredAllowed(T, l, h) ELSE EndAllowed(T, l, h)
    <3>M. PICK M : M = EndLoan(T, l, h) OBVIOUS
    <3>g. PICK g : g = With(R.held, x, Nothing) OBVIOUS
    <3>1. Q = RunWith(R, M, g)
      <4>1. Q = EndedRun(R, l, x) BY <1>6, <2>2, <2>4, <2>T, <2>h DEF Execute
      <4> QED BY <4>1, <1>1, <2>T, <2>h, <3>M, <3>g DEF EndedRun, RunWith, With, RunState
    <3>2. EndAllowed(T, l, h) \/ EndStoredAllowed(T, l, h) BY <2>4
    <3> QED BY <3>1, <3>2, <3>M, <3>g, <2>T, <2>h, <1>3, <1>4, <1>6, EndFollows
  <2>5. CASE ~(IF stored THEN EndStoredAllowed(T, l, h) ELSE EndAllowed(T, l, h))
    <3>1. ~NoActiveChild(A, l)
      BY <2>1, <2>2, <2>3, <2>5, ChildrenKnown DEF EndStoredAllowed, EndAllowed
    <3>2. stored /\ Cardinality(A.loans[l].authorities) > 1 BY <3>1
    <3>3. T[l].authorities = {h} BY <2>2, <2>3, <2>5, <3>2 DEF EndStoredAllowed
    <3>4. IsFiniteSet(A.loans[l].authorities) BY <1>1, <1>2, <2>1, HoldersFinite
    <3>5. PICK y \in A.loans[l].authorities : y # x
      <4>1. \A Y : IsFiniteSet(Y) /\ Cardinality(Y) > 1 /\ x \in Y => \E y \in Y : y # x
        BY AnotherElement
      <4>2. Cardinality(A.loans[l].authorities) > 1 /\ x \in A.loans[l].authorities BY <3>2, <1>2
      <4> QED BY <4>1, <4>2, <3>4
    <3>y. y \in Names BY <1>1, <1>2 DEF AbstractState, AbstractLoan
    <3>6. ~Certain(A, y)
      <4> SUFFICES ASSUME Certain(A, y) PROVE FALSE OBVIOUS
      <4>1. A.values[y].authority = l BY <1>1, <1>2, <3>5 DEF Shape
      <4>2. held[y].loan = l /\ held[x].loan = l BY <4>1, <3>y, <2>1, <2>2, <2>q DEF Knows, KnowsValue
      <4>3. held[y].token \in T[l].authorities BY <4>2, <3>y, <1>2, <2>1 DEF Holding
      <4>4. held[y] = held[x] BY <4>2, <4>3, <3>3, <3>y, <2>1, <2>h, <2>q DEF HeldValue
      <4> QED BY <4>2, <4>4, <3>5, <3>y, <1>2, <2>1 DEF Holding
    <3>7. Stuck(B)
      <4>1. y \in Doubts(A, l) BY <3>5, <3>6 DEF Doubts
      <4> QED BY <4>1, <1>2, <1>4 DEF Stuck, SameDoubts
    <3>8. Q = [R EXCEPT !.refused = TRUE] BY <1>6, <2>5, <2>T, <2>h DEF Execute
    <3>9. Q \in RunState /\ Q.refused BY <3>8, <1>1 DEF RunState
    <3> QED BY <3>7, <3>9, <1>4 DEF PathInv
  <2> QED BY <2>4, <2>5
<1> QED BY <1>4, <1>5, <1>6

-----------------------------------------------------------------------------
(* Accesses and the return. *)

\* An access of the owner that the analysis lets pass is not refused.
LEMMA OwnerPath ==
    ASSUME NEW A, NEW R, NEW r, NEW access,
           PathInv(site, A, R), ~R.refused, OwnerAccessProven(A, r, access)
    PROVE  OwnerAccess(R.table, Owner(Heap, r, TRUE), r, access)
<1>1. Records(site, A, R.table) BY DEF PathInv, Follows
<1>2. ASSUME NEW l \in LoanIds, Live(R.table, l), Overlap(r, R.table[l].range)
      PROVE  access = "Read" /\ R.table[l].kind = "Shared"
  <2>1. l \in DOMAIN site /\ ~Gone(A, l) /\ R.table[l].range = site[l].range
           /\ R.table[l].kind = site[l].kind
    BY <1>1, <1>2 DEF Records, LiveLoans
  <2> QED BY <2>1, <1>2 DEF OwnerAccessProven
<1> QED BY <1>2 DEF OwnerAccess

\* An access through a reference that the analysis lets pass is not refused.
LEMMA LoanPath ==
    ASSUME NEW A, NEW R, NEW x \in Names, NEW r, NEW access, NEW h,
           PathInv(site, A, R), ~R.refused, LoanAccessProven(A, x, r, access), h = R.held[x]
    PROVE  /\ h.loan \in LoanIds
           /\ AuthorityAccess(R.table, Carrier(Heap, r, h.loan, h.token), r, access)
<1>T. PICK T : T = R.table OBVIOUS
<1>l. PICK l : l = A.values[x].authority OBVIOUS
<1>1. Follows(site, A, R) /\ R \in RunState /\ Records(site, A, T)
  BY <1>T DEF PathInv, Follows
<1>2. HoldsAuthority(A, x) /\ A.loans[l].activity = "Active" /\ Contains(site[l].range, r)
         /\ KindAllows(site[l].kind, access)
  BY <1>l DEF LoanAccessProven
<1>3. l \in LoanIds /\ l \in LiveLoans(T) /\ h.loan = l /\ h.token \in T[l].authorities
  BY <1>1, <1>2, <1>l, <1>T, CertainIsHeld
<1>4. T[l].activity = "Active" /\ T[l].allocation = Heap /\ T[l].range = site[l].range
         /\ T[l].kind = site[l].kind
  BY <1>1, <1>2, <1>3 DEF Records
<1>5. AuthorityAccess(T, Carrier(Heap, r, h.loan, h.token), r, access)
  BY <1>2, <1>3, <1>4 DEF AuthorityAccess, Carrier
<1> QED BY <1>3, <1>5, <1>T

\* Behind a proven return no holder is left, and the run has no live loan.
LEMMA ReturnPath ==
    ASSUME NEW A, NEW R, PathInv(site, A, R), \A l \in LoanIds : Gone(A, l),
           NEW Q, Q = Execute(R, FinishAllowed(R.table), R)
    PROVE  Q = R /\ ~R.refused
<1>1. ~Stuck(A) BY DEF PathInv, Shape, Stuck, Doubts
<1>2. ~R.refused /\ Records(site, A, R.table) BY <1>1 DEF PathInv, Follows
<1>3. FinishAllowed(R.table) BY <1>2 DEF FinishAllowed, Records, LiveLoans
<1> QED BY <1>2, <1>3 DEF Execute

-----------------------------------------------------------------------------
(* Edges. *)

\* B is A seen by a block whose parameters are given values by f.
Projected(A, B, f) ==
    /\ B \in AbstractState
    /\ \A l \in LoanIds :
          /\ B.loans[l].activity = A.loans[l].activity /\ B.loans[l].parent = A.loans[l].parent
          /\ B.loans[l].authorities = {RenameAuthority(f, x) : x \in A.loans[l].authorities}
    /\ \A x \in Names : B.values[x] = IF x \in DOMAIN f THEN A.values[f[x]] ELSE Undefined

\* The parts of a renaming.
LEMMA RenameFields ==
    ASSUME NEW f \in Renames
    PROVE  /\ DOMAIN f \subseteq Names /\ \A x \in DOMAIN f : f[x] \in Names
           /\ \A x, y \in DOMAIN f : f[x] = f[y] => x = y
<1>1. PICK P \in SUBSET Names : f \in {h \in [P -> Names] : \A x, y \in P : h[x] = h[y] => x = y}
  BY DEF Renames
<1>2. f \in [P -> Names] /\ \A x, y \in P : f[x] = f[y] => x = y BY <1>1
<1>3. DOMAIN f = P BY <1>2
<1> QED BY <1>1, <1>2, <1>3

\* What an edge does to the abstract state.
LEMMA EdgeState ==
    ASSUME NEW A \in AbstractState, NEW f \in Renames, NEW B, B = ProjectEdge(A, f)
    PROVE  Projected(A, B, f)
<1>1. /\ DOMAIN f \subseteq Names /\ \A x \in DOMAIN f : f[x] \in Names
  BY RenameFields
<1> DEFINE M == [l \in LoanIds |->
                  [A.loans[l] EXCEPT !.authorities =
                      {RenameAuthority(f, x) : x \in A.loans[l].authorities}]]
           V == [x \in Names |-> IF x \in DOMAIN f THEN A.values[f[x]] ELSE Undefined]
<1>7. B = [A EXCEPT !.loans = M, !.values = V] BY DEF ProjectEdge
<1>m. M = [l \in LoanIds |->
              [A.loans[l] EXCEPT !.authorities =
                  {RenameAuthority(f, x) : x \in A.loans[l].authorities}]]
  OBVIOUS
<1>v. V = [x \in Names |-> IF x \in DOMAIN f THEN A.values[f[x]] ELSE Undefined]
  OBVIOUS
<1> HIDE DEF M, V
<1>2. ASSUME NEW l \in LoanIds
      PROVE  /\ M[l] \in AbstractLoan
             /\ M[l].activity = A.loans[l].activity /\ M[l].parent = A.loans[l].parent
             /\ M[l].authorities = {RenameAuthority(f, x) : x \in A.loans[l].authorities}
  <2>1. A.loans[l] \in AbstractLoan BY DEF AbstractState
  <2>2. M[l] = [A.loans[l] EXCEPT !.authorities =
                    {RenameAuthority(f, x) : x \in A.loans[l].authorities}]
    BY <1>m
  <2>s. PICK S : S = {RenameAuthority(f, x) : x \in A.loans[l].authorities} OBVIOUS
  <2>3. S \in SUBSET Names
    <3> SUFFICES ASSUME NEW x \in A.loans[l].authorities PROVE RenameAuthority(f, x) \in Names
      BY <2>s
    <3>1. x \in Names BY <2>1 DEF AbstractLoan
    <3>2. CASE \E y \in DOMAIN f : f[y] = x BY <3>2, <1>1 DEF RenameAuthority
    <3>3. CASE ~\E y \in DOMAIN f : f[y] = x BY <3>1, <3>3 DEF RenameAuthority
    <3> QED BY <3>2, <3>3
  <2>4. M[l] = [A.loans[l] EXCEPT !.authorities = S] BY <2>2, <2>s
  <2> QED BY <2>1, <2>3, <2>4, <2>s DEF AbstractLoan
<1>3. \A x \in Names : V[x] = IF x \in DOMAIN f THEN A.values[f[x]] ELSE Undefined BY <1>v
<1>4. M \in [LoanIds -> AbstractLoan] BY <1>2, <1>m
<1>5. Undefined \in AbstractPermission BY DEF Undefined, AbstractPermission, Availability
<1>6. V \in [Names -> AbstractPermission] BY <1>1, <1>3, <1>5, <1>v DEF AbstractState
<1>8. B \in AbstractState /\ B.loans = M /\ B.values = V BY <1>4, <1>6, <1>7 DEF AbstractState
<1> QED BY <1>2, <1>3, <1>8 DEF Projected

\* A holder that is passed is renamed, and one that is left behind keeps its name;
\* when no available authority is left behind, that one can no longer be used.
EdgeHolders(A, B, f) ==
    \A l \in LoanIds :
        /\ \A y \in DOMAIN f : f[y] \in A.loans[l].authorities => y \in B.loans[l].authorities
        /\ \A x \in A.loans[l].authorities :
              (\A y \in DOMAIN f : f[y] # x) => x \in B.loans[l].authorities /\ ~May(A, x)
        /\ \A y \in B.loans[l].authorities :
              \/ y \in DOMAIN f /\ f[y] \in A.loans[l].authorities
              \/ y \in A.loans[l].authorities /\ ~May(A, y)

\* The renaming of the authorities along an edge.
LEMMA EdgeRenames ==
    ASSUME NEW A \in AbstractState, NEW f \in Renames, Passable(A, f), ~Leaks,
           NEW B, Projected(A, B, f)
    PROVE  EdgeHolders(A, B, f)
<1>1. /\ DOMAIN f \subseteq Names /\ \A x \in DOMAIN f : f[x] \in Names
      /\ \A x, y \in DOMAIN f : f[x] = f[y] => x = y
  BY RenameFields
<1>2. ASSUME NEW l \in LoanIds, NEW x \in A.loans[l].authorities
      PROVE  \/ RenameAuthority(f, x) \in DOMAIN f /\ f[RenameAuthority(f, x)] = x
             \/ RenameAuthority(f, x) = x /\ (\A y \in DOMAIN f : f[y] # x) /\ ~May(A, x)
  <2>1. x \in Names BY DEF AbstractState, AbstractLoan
  <2>2. CASE \E y \in DOMAIN f : f[y] = x BY <2>2 DEF RenameAuthority
  <2>3. CASE ~\E y \in DOMAIN f : f[y] = x
    BY <2>1, <2>3 DEF RenameAuthority, Passable, May
  <2> QED BY <2>2, <2>3
<1>3. ASSUME NEW l \in LoanIds
      PROVE  /\ \A y \in DOMAIN f : f[y] \in A.loans[l].authorities => y \in B.loans[l].authorities
             /\ \A x \in A.loans[l].authorities :
                   (\A y \in DOMAIN f : f[y] # x) => x \in B.loans[l].authorities /\ ~May(A, x)
             /\ \A y \in B.loans[l].authorities :
                   \/ y \in DOMAIN f /\ f[y] \in A.loans[l].authorities
                   \/ y \in A.loans[l].authorities /\ ~May(A, y)
  <2>1. B.loans[l].authorities = {RenameAuthority(f, x) : x \in A.loans[l].authorities}
    BY DEF Projected
  <2>2. ASSUME NEW y \in DOMAIN f, f[y] \in A.loans[l].authorities
        PROVE  y \in B.loans[l].authorities
    <3>1. RenameAuthority(f, f[y]) = y BY <1>1, <1>2, <2>2
    <3> QED BY <3>1, <2>1, <2>2
  <2>3. ASSUME NEW x \in A.loans[l].authorities, \A y \in DOMAIN f : f[y] # x
        PROVE  x \in B.loans[l].authorities /\ ~May(A, x)
    <3>1. RenameAuthority(f, x) = x /\ ~May(A, x) BY <1>2, <2>3
    <3> QED BY <3>1, <2>1
  <2>4. ASSUME NEW y \in B.loans[l].authorities
        PROVE  \/ y \in DOMAIN f /\ f[y] \in A.loans[l].authorities
               \/ y \in A.loans[l].authorities /\ ~May(A, y)
    <3>1. PICK x \in A.loans[l].authorities : y = RenameAuthority(f, x) BY <2>1
    <3> QED BY <3>1, <1>2
  <2> QED BY <2>2, <2>3, <2>4
<1> QED BY <1>3 DEF EdgeHolders

\* The values of a run behind an edge.
LEMMA EnterFields ==
    ASSUME NEW R \in RunState, NEW f \in Renames, NEW Q, Q = EnterBlock(R, f)
    PROVE  /\ Q \in RunState /\ Q.table = R.table /\ Q.refused = R.refused
           /\ \A x \in Names : Q.held[x] = IF x \in DOMAIN f THEN R.held[f[x]] ELSE Nothing
<1>1. DOMAIN f \subseteq Names /\ \A x \in DOMAIN f : f[x] \in Names BY RenameFields
<1> DEFINE g == [x \in Names |-> IF x \in DOMAIN f THEN R.held[f[x]] ELSE Nothing]
<1>2. Q = [R EXCEPT !.held = g] BY DEF EnterBlock
<1>3. \A x \in Names : g[x] = IF x \in DOMAIN f THEN R.held[f[x]] ELSE Nothing OBVIOUS
<1>4. R.held \in [Names -> HeldValue] BY RunFields
<1>5. g \in [Names -> HeldValue] BY <1>1, <1>4, NothingHeld
<1> HIDE DEF g
<1> QED BY <1>2, <1>3, <1>5 DEF RunState, HeldValue

-----------------------------------------------------------------------------
(* Joins. *)

\* C knows less than A: it may count more holders and be less sure of them.
Widens(A, C) ==
    /\ \A l \in LoanIds :
          /\ A.loans[l].authorities \subseteq C.loans[l].authorities
          /\ ~Gone(A, l) =>
                /\ ~Gone(C, l)
                /\ C.loans[l].parent = A.loans[l].parent
                /\ C.loans[l].activity = "Active" => A.loans[l].activity = "Active"
    /\ \A x \in Names :
          /\ C.values[x].authority \in {A.values[x].authority, NoLoan}
          /\ C.values[x].availability = "Available" => A.values[x].availability = "Available"
          /\ May(A, x) => May(C, x)
          /\ Certain(C, x) => Certain(A, x) /\ C.values[x].authority = A.values[x].authority

\* C has a doubtful holder of each loan that A has one of.
DoubtsKept(A, C) == \A l \in LoanIds : Doubts(A, l) # {} => Doubts(C, l) # {}

\* B is A behind an edge; a state C that knows less than B, but has the doubts of
\* A, stands for the run that has taken the edge.
LEMMA ThroughPath ==
    ASSUME ~Leaks, NEW A, NEW R, PathInv(site, A, R), NEW f \in Renames, Passable(A, f),
           NEW B, Projected(A, B, f), EdgeHolders(A, B, f),
           NEW C, Shape(C), Widens(B, C), DoubtsKept(A, C), NEW Q, Q = EnterBlock(R, f)
    PROVE  PathInv(site, C, Q)
<1>1. Shape(A) /\ A \in AbstractState /\ R \in RunState BY DEF PathInv, Shape
<1>2. Stuck(A) => Stuck(C) BY DEF Stuck, DoubtsKept
<1>3. /\ Q \in RunState /\ Q.table = R.table /\ Q.refused = R.refused
      /\ \A x \in Names : Q.held[x] = IF x \in DOMAIN f THEN R.held[f[x]] ELSE Nothing
  BY <1>1, EnterFields
<1>4. CASE R.refused BY <1>2, <1>3, <1>4 DEF PathInv
<1>5. CASE ~R.refused
  <2>T. PICK T : T = R.table OBVIOUS
  <2>h. PICK held : held = R.held OBVIOUS
  <2>g. PICK g : g = Q.held OBVIOUS
  <2>1. /\ TableInv(T) /\ Records(site, A, T) /\ Knows(A, held) /\ Holding(T, held)
    BY <1>5, <2>T, <2>h DEF PathInv, Follows
  <2>2. /\ DOMAIN f \subseteq Names /\ \A x \in DOMAIN f : f[x] \in Names
        /\ \A x, y \in DOMAIN f : f[x] = f[y] => x = y
    BY RenameFields
  <2>3. /\ \A x \in DOMAIN f : g[x] = held[f[x]]
        /\ \A x \in Names \ DOMAIN f : g[x].loan \notin LoanIds
    BY <2>2, <2>h, <2>g, <1>3, NothingHeld
  <2>4. Records(site, C, T)
    <3> SUFFICES ASSUME NEW l \in LiveLoans(T)
                 PROVE  /\ ~Gone(C, l)
                        /\ C.loans[l].parent = T[l].parent
                        /\ C.loans[l].activity = "Active" => T[l].activity = "Active"
      BY <2>1 DEF Records
    <3>1. /\ l \in LoanIds /\ ~Gone(A, l) /\ A.loans[l].parent = T[l].parent
          /\ A.loans[l].activity = "Active" => T[l].activity = "Active"
      BY <2>1 DEF Records, LiveLoans
    <3>2. B.loans[l].activity = A.loans[l].activity /\ B.loans[l].parent = A.loans[l].parent
      BY <3>1 DEF Projected
    <3>3. ~Gone(B, l) BY <3>1, <3>2 DEF Gone
    <3> QED BY <3>1, <3>2, <3>3 DEF Widens
  <2>5. ASSUME NEW x \in Names PROVE KnowsValue(C, g, x)
    <3>1. CASE x \in DOMAIN f
      <4>y. PICK y \in Names : y = f[x] BY <3>1, <2>2
      <4>1. B.values[x] = A.values[y] /\ g[x] = held[y] BY <3>1, <2>3, <4>y DEF Projected
      <4>2. KnowsValue(A, held, y) BY <2>1 DEF Knows
      <4>3. (Certain(B, x) <=> Certain(A, y)) /\ (May(B, x) <=> May(A, y))
        BY <4>1 DEF Certain, May
      <4>4. ASSUME g[x].loan \in LoanIds
            PROVE  /\ C.values[x].authority \in {g[x].loan, NoLoan} /\ May(C, x)
                   /\ Listed(C, g[x].loan, x)
        <5>m. PICK m \in LoanIds : m = g[x].loan BY <4>4
        <5>1. /\ A.values[y].authority \in {m, NoLoan} /\ May(A, y) /\ Listed(A, m, y)
          BY <4>1, <4>2, <5>m DEF KnowsValue
        <5>2. C.values[x].authority \in {A.values[y].authority, NoLoan} /\ May(C, x)
          BY <5>1, <4>1, <4>3 DEF Widens
        <5>3. CASE y \in A.loans[m].authorities
          <6>1. x \in B.loans[m].authorities BY <5>3, <3>1, <4>y DEF EdgeHolders
          <6> QED BY <6>1, <5>1, <5>2, <5>m DEF Listed, Widens
        <5>4. CASE A.values[y].authority = NoLoan /\ Doubts(A, m) # {}
          <6>1. C.values[x].authority = NoLoan /\ Doubts(C, m) # {}
            BY <5>2, <5>4 DEF DoubtsKept
          <6> QED BY <6>1, <5>2, <5>m DEF Listed
        <5> QED BY <5>1, <5>3, <5>4 DEF Listed
      <4>5. C.values[x].availability = "Available" => g[x].loan \in LoanIds
        BY <4>1, <4>2 DEF Widens, KnowsValue
      <4>6. Certain(C, x) => g[x].loan = C.values[x].authority
        BY <4>1, <4>2, <4>3 DEF Widens, KnowsValue
      <4> QED BY <4>4, <4>5, <4>6 DEF KnowsValue
    <3>2. CASE x \notin DOMAIN f
      <4>1. B.values[x].availability = "Undefined" BY <3>2 DEF Projected, Undefined
      <4>2. C.values[x].availability # "Available" BY <4>1 DEF Widens
      <4> QED BY <4>2, <3>2, <2>3 DEF KnowsValue, Certain
    <3> QED BY <3>1, <3>2
  <2>6. Knows(C, g) BY <2>5 DEF Knows
  <2>7. \A y \in Names : held[y].loan \in LoanIds => \E x \in DOMAIN f : f[x] = y
    BY <2>1 DEF Knows, KnowsValue, May, Passable
  <2>8. ASSUME NEW l \in LoanIds
        PROVE  T[l].authorities = {g[x].token : x \in {z \in Names : g[z].loan = l}}
    <3>a. PICK S : S = {y \in Names : held[y].loan = l} OBVIOUS
    <3>b. PICK P : P = {z \in Names : g[z].loan = l} OBVIOUS
    <3>1. T[l].authorities = {held[x].token : x \in S} BY <3>a, <2>1 DEF Holding
    <3>2. \A x \in P : x \in DOMAIN f /\ f[x] \in S /\ g[x].token = held[f[x]].token
      BY <3>a, <3>b, <2>2, <2>3
    <3>3. \A y \in S : \E x \in P : g[x].token = held[y].token
      BY <3>a, <3>b, <2>2, <2>3, <2>7
    <3>4. T[l].authorities = {g[x].token : x \in P} BY <3>1, <3>2, <3>3
    <3> QED BY <3>4, <3>b
  <2>9. ASSUME NEW x \in Names, NEW y \in Names, g[x].loan \in LoanIds, g[x] = g[y]
        PROVE  x = y
    <3>1. x \in DOMAIN f /\ y \in DOMAIN f BY <2>3, <2>9
    <3>2. held[f[x]].loan \in LoanIds /\ held[f[x]] = held[f[y]] BY <3>1, <2>3, <2>9
    <3>3. f[x] = f[y] BY <3>1, <3>2, <2>1, <2>2 DEF Holding
    <3> QED BY <3>1, <3>3, <2>2
  <2>10. Holding(T, g) BY <2>8, <2>9 DEF Holding
  <2> QED BY <2>1, <2>4, <2>6, <2>10, <2>T, <2>g, <1>3, <1>5 DEF PathInv, Follows
<1> QED BY <1>4, <1>5, <1>1 DEF RunState

\* A record of a loan.
GoneLoan(a) == a.activity \in {"Ended", "Absent"}

\* c is the join of the records a and b.
LoanJoined(a, b, c) ==
    /\ c \in AbstractLoan /\ c.authorities = a.authorities \cup b.authorities
    /\ GoneLoan(c) => GoneLoan(a) /\ GoneLoan(b)
    /\ \A d \in {a, b} : ~GoneLoan(d) =>
          c.parent = d.parent /\ (c.activity = "Active" => d.activity = "Active")

\* The join of two records.
LEMMA JoinLoanResult ==
    ASSUME NEW a \in AbstractLoan, NEW b \in AbstractLoan,
           GoneLoan(a) => a.authorities = {}, GoneLoan(b) => b.authorities = {},
           a.activity # "Absent" /\ b.activity # "Absent" => a.parent = b.parent,
           NEW c, c = JoinLoan(a, b)
    PROVE  LoanJoined(a, b, c)
<1>0. /\ Missing \in AbstractLoan /\ Missing.activity = "Absent" /\ Missing.authorities = {}
  BY DEF Missing, AbstractLoan, AbstractActivity, Activity
<1>1. CASE a.activity = "Absent" /\ b.activity = "Absent"
  <2>1. c = Missing BY <1>1 DEF JoinLoan
  <2> QED BY <2>1, <1>0, <1>1 DEF LoanJoined, GoneLoan
<1>2. CASE a.activity # "Absent" /\ b.activity # "Absent"
  <2>1. c = [activity |-> IF a.activity = b.activity THEN a.activity ELSE "MaybeActive",
             parent |-> a.parent, authorities |-> a.authorities \cup b.authorities]
    BY <1>2 DEF JoinLoan
  <2>2. /\ c.activity = IF a.activity = b.activity THEN a.activity ELSE "MaybeActive"
        /\ c.parent = a.parent /\ c.authorities = a.authorities \cup b.authorities
        /\ c \in AbstractLoan
    BY <2>1 DEF AbstractLoan, AbstractActivity, Activity
  <2> QED BY <2>2, <1>2 DEF LoanJoined, GoneLoan
<1>3. ASSUME NEW k \in {a, b}, NEW o \in {a, b}, {k, o} = {a, b},
             k.activity # "Absent", o.activity = "Absent",
             c = IF k.activity = "Ended" THEN Missing ELSE [k EXCEPT !.activity = "MaybeActive"]
      PROVE  LoanJoined(a, b, c)
  <2>1. a.authorities \cup b.authorities = k.authorities
    <3>1. o.authorities = {} BY <1>3 DEF GoneLoan
    <3> QED BY <3>1, <1>3
  <2>2. CASE k.activity = "Ended"
    <3>1. c = Missing /\ k.authorities = {} /\ GoneLoan(a) /\ GoneLoan(b)
      BY <2>2, <1>3 DEF GoneLoan
    <3> QED BY <3>1, <2>1, <1>0 DEF LoanJoined, GoneLoan
  <2>3. CASE k.activity # "Ended"
    <3>1. c = [k EXCEPT !.activity = "MaybeActive"] /\ k \in AbstractLoan BY <2>3, <1>3
    <3>2. c.activity = "MaybeActive" /\ c.parent = k.parent /\ c.authorities = k.authorities
             /\ c \in AbstractLoan
      BY <3>1 DEF AbstractLoan, AbstractActivity
    <3> QED BY <3>2, <2>1, <1>3 DEF LoanJoined, GoneLoan
  <2> QED BY <2>2, <2>3
<1>4. CASE a.activity = "Absent" /\ b.activity # "Absent"
  <2>1. c = IF b.activity = "Ended" THEN Missing ELSE [b EXCEPT !.activity = "MaybeActive"]
    BY <1>4 DEF JoinLoan
  <2> QED BY <2>1, <1>4, <1>3
<1>5. CASE a.activity # "Absent" /\ b.activity = "Absent"
  <2>1. c = IF a.activity = "Ended" THEN Missing ELSE [a EXCEPT !.activity = "MaybeActive"]
    BY <1>5 DEF JoinLoan
  <2> QED BY <2>1, <1>5, <1>3
<1> QED BY <1>1, <1>2, <1>4, <1>5

\* u is the join of the permission values v and w.
PermissionJoined(v, w, u) ==
    /\ u \in AbstractPermission
    /\ u.authority \in {v.authority, NoLoan} /\ u.authority \in {w.authority, NoLoan}
    /\ u.availability = "Available" => v.availability = "Available" /\ w.availability = "Available"
    /\ {v.availability, w.availability} \cap {"Available", "MaybeConsumed"} # {} =>
          u.availability \in {"Available", "MaybeConsumed"}

\* The join of two values that are both defined or both not.
LEMMA JoinPermissionResult ==
    ASSUME NEW v \in AbstractPermission, NEW w \in AbstractPermission,
           v.availability = "Undefined" <=> w.availability = "Undefined",
           NEW u, u = JoinPermission(v, w)
    PROVE  PermissionJoined(v, w, u)
<1>1. CASE "Undefined" \in {v.availability, w.availability}
  <2>1. u = Undefined BY <1>1 DEF JoinPermission
  <2>2. u \in AbstractPermission /\ u.authority = NoLoan /\ u.availability = "Undefined"
    BY <2>1 DEF Undefined, AbstractPermission, Availability
  <2> QED BY <2>2, <1>1 DEF PermissionJoined
<1>2. CASE "Undefined" \notin {v.availability, w.availability}
  <2>1. u = [authority |-> IF v.authority = w.authority THEN v.authority ELSE NoLoan,
             availability |-> IF v.availability = w.availability THEN v.availability
                              ELSE "MaybeConsumed"]
    BY <1>2 DEF JoinPermission
  <2>2. /\ u.authority = IF v.authority = w.authority THEN v.authority ELSE NoLoan
        /\ u.availability = IF v.availability = w.availability THEN v.availability
                            ELSE "MaybeConsumed"
        /\ u \in AbstractPermission
    BY <2>1 DEF AbstractPermission, Availability
  <2> QED BY <2>2, <1>2 DEF PermissionJoined
<1> QED BY <1>1, <1>2

\* Both states have the same values defined.
SameNames(A, B) ==
    \A x \in Names : A.values[x].availability = "Undefined" <=> B.values[x].availability = "Undefined"

\* The parts of a joined state.
JoinedStates(A, B, C) ==
    /\ C \in AbstractState
    /\ \A l \in LoanIds : LoanJoined(A.loans[l], B.loans[l], C.loans[l])
    /\ \A x \in Names : PermissionJoined(A.values[x], B.values[x], C.values[x])

\* A loan that is gone has no holder on record.
Tidy(A) == A \in AbstractState /\ \A l \in LoanIds : Gone(A, l) => A.loans[l].authorities = {}

\* So it is behind an edge.
LEMMA EdgeTidy ==
    ASSUME NEW A, Tidy(A), NEW f \in Renames, NEW B, Projected(A, B, f)
    PROVE  Tidy(B)
<1>1. ASSUME NEW l \in LoanIds, Gone(B, l) PROVE B.loans[l].authorities = {}
  <2>1. A.loans[l].authorities = {} BY <1>1 DEF Projected, Gone, Tidy
  <2>2. B.loans[l].authorities = {RenameAuthority(f, x) : x \in A.loans[l].authorities}
    BY DEF Projected
  <2> QED BY <2>1, <2>2
<1> QED BY <1>1 DEF Tidy, Projected

\* What a join makes of two states.
LEMMA JoinResult ==
    ASSUME NEW A, Tidy(A), NEW B, Tidy(B), Joinable(A, B), SameNames(A, B),
           NEW C, C = JoinState(A, B)
    PROVE  JoinedStates(A, B, C)
<1>1. A \in AbstractState /\ B \in AbstractState BY DEF Tidy
<1> DEFINE M == [l \in LoanIds |-> JoinLoan(A.loans[l], B.loans[l])]
           V == [x \in Names |-> JoinPermission(A.values[x], B.values[x])]
           lost == \/ A.lost \/ B.lost
                   \/ \E l \in LoanIds : PrecisionLost(A.loans[l], B.loans[l])
<1>2. C = [loans |-> M, values |-> V, lost |-> lost] BY DEF JoinState
<1>3. ASSUME NEW l \in LoanIds PROVE LoanJoined(A.loans[l], B.loans[l], M[l])
  <2>1. A.loans[l] \in AbstractLoan /\ B.loans[l] \in AbstractLoan BY <1>1 DEF AbstractState
  <2>2. /\ GoneLoan(A.loans[l]) => A.loans[l].authorities = {}
        /\ GoneLoan(B.loans[l]) => B.loans[l].authorities = {}
    BY DEF Tidy, Gone, GoneLoan
  <2>3. A.loans[l].activity # "Absent" /\ B.loans[l].activity # "Absent"
           => A.loans[l].parent = B.loans[l].parent
    BY DEF Joinable, Recorded
  <2>4. M[l] = JoinLoan(A.loans[l], B.loans[l]) OBVIOUS
  <2> HIDE DEF M
  <2> QED BY <2>1, <2>2, <2>3, <2>4, JoinLoanResult
<1>4. ASSUME NEW x \in Names PROVE PermissionJoined(A.values[x], B.values[x], V[x])
  <2>1. A.values[x] \in AbstractPermission /\ B.values[x] \in AbstractPermission
    BY <1>1 DEF AbstractState
  <2>2. V[x] = JoinPermission(A.values[x], B.values[x]) OBVIOUS
  <2> HIDE DEF V
  <2> QED BY <2>1, <2>2, JoinPermissionResult DEF SameNames
<1>5. M \in [LoanIds -> AbstractLoan]
  <2>1. \A l \in LoanIds : M[l] \in AbstractLoan BY <1>3 DEF LoanJoined
  <2> QED BY <2>1
<1>6. V \in [Names -> AbstractPermission]
  <2>1. \A x \in Names : V[x] \in AbstractPermission BY <1>4 DEF PermissionJoined
  <2> QED BY <2>1
<1>7. lost \in BOOLEAN OBVIOUS
<1> HIDE DEF M, V, lost
<1>8. C \in AbstractState /\ C.loans = M /\ C.values = V BY <1>2, <1>5, <1>6, <1>7 DEF AbstractState
<1> QED BY <1>3, <1>4, <1>8 DEF JoinedStates

\* A join knows less than either path.
LEMMA JoinWidens ==
    ASSUME NEW A, NEW B, NEW C, JoinedStates(A, B, C)
    PROVE  Widens(A, C) /\ Widens(B, C)
<1>1. \A l \in LoanIds : LoanJoined(A.loans[l], B.loans[l], C.loans[l]) BY DEF JoinedStates
<1>2. \A x \in Names : PermissionJoined(A.values[x], B.values[x], C.values[x])
  BY DEF JoinedStates
<1>3. \A l \in LoanIds : C.loans[l].authorities = A.loans[l].authorities \cup B.loans[l].authorities
  BY <1>1 DEF LoanJoined
<1>4. ASSUME NEW x \in Names
      PROVE  /\ C.values[x].authority \in {A.values[x].authority, NoLoan}
             /\ C.values[x].authority \in {B.values[x].authority, NoLoan}
             /\ C.values[x].availability = "Available" =>
                   A.values[x].availability = "Available" /\ B.values[x].availability = "Available"
             /\ Certain(C, x) => /\ Certain(A, x) /\ C.values[x].authority = A.values[x].authority
                                 /\ Certain(B, x) /\ C.values[x].authority = B.values[x].authority
             /\ May(A, x) \/ May(B, x) => May(C, x)
  <2>1. NoLoan \notin LoanIds BY LoanTableAssumption
  <2> QED BY <1>2, <2>1 DEF PermissionJoined, Certain, May
<1>5. \A l \in LoanIds :
         /\ Gone(C, l) => Gone(A, l) /\ Gone(B, l)
         /\ ~Gone(A, l) => C.loans[l].parent = A.loans[l].parent
                              /\ (C.loans[l].activity = "Active" => A.loans[l].activity = "Active")
         /\ ~Gone(B, l) => C.loans[l].parent = B.loans[l].parent
                              /\ (C.loans[l].activity = "Active" => B.loans[l].activity = "Active")
  BY <1>1 DEF LoanJoined, Gone, GoneLoan
<1>6. Widens(A, C) BY <1>3, <1>4, <1>5 DEF Widens
<1>7. Widens(B, C) BY <1>3, <1>4, <1>5 DEF Widens
<1> QED BY <1>6, <1>7

\* What Merge finds: B0 passes its values under their own names.
Meeting(A0, B0, f, g, A, B, C) ==
    /\ f \in Renames /\ g \in Renames
    /\ DOMAIN g = DOMAIN f /\ \A x \in DOMAIN g : g[x] = x
    /\ Projected(A0, A, f) /\ EdgeHolders(A0, A, f)
    /\ Projected(B0, B, g) /\ EdgeHolders(B0, B, g)
    /\ JoinedStates(A, B, C) /\ Widens(A, C) /\ Widens(B, C)

\* A value that is certain behind a merge was so on both paths, where it was passed.
LEMMA MeetingCertain ==
    ASSUME NEW A0, NEW B0, NEW f, NEW g, NEW A, NEW B, NEW C, Meeting(A0, B0, f, g, A, B, C),
           NEW x \in Names, Certain(C, x)
    PROVE  /\ x \in DOMAIN f /\ f[x] \in Names
           /\ Certain(A0, f[x]) /\ C.values[x].authority = A0.values[f[x]].authority
           /\ Certain(B0, x) /\ C.values[x].authority = B0.values[x].authority
<1>1. /\ Certain(A, x) /\ C.values[x].authority = A.values[x].authority
      /\ Certain(B, x) /\ C.values[x].authority = B.values[x].authority
  BY DEF Meeting, Widens
<1>2. x \in DOMAIN f BY <1>1 DEF Meeting, Projected, Certain, Undefined
<1>3. f[x] \in Names BY <1>2, RenameFields DEF Meeting
<1>4. A.values[x] = A0.values[f[x]] BY <1>2 DEF Meeting, Projected
<1>5. B.values[x] = B0.values[x]
  <2>1. x \in DOMAIN g /\ g[x] = x BY <1>2 DEF Meeting
  <2> QED BY <2>1 DEF Meeting, Projected
<1> QED BY <1>1, <1>2, <1>3, <1>4, <1>5 DEF Certain

\* A merge keeps the shape.
LEMMA MergeShape ==
    ASSUME NEW A0, Shape(A0), NEW B0, Shape(B0), SameDoubts(A0, B0),
           NEW f, NEW g, NEW A, NEW B, NEW C, Meeting(A0, B0, f, g, A, B, C)
    PROVE  Shape(C)
<1>1. C \in AbstractState BY DEF Meeting, JoinedStates
<1>2. \A l \in LoanIds : LoanJoined(A.loans[l], B.loans[l], C.loans[l])
  BY DEF Meeting, JoinedStates
<1>3. \A l \in LoanIds : C.loans[l].authorities = A.loans[l].authorities \cup B.loans[l].authorities
  BY <1>2 DEF LoanJoined
<1>4. ASSUME NEW l \in LoanIds, NEW x \in C.loans[l].authorities, Certain(C, x)
      PROVE  C.values[x].authority = l
  <2>1. x \in Names BY <1>1 DEF AbstractState, AbstractLoan
  <2>2. /\ Certain(A0, f[x]) /\ C.values[x].authority = A0.values[f[x]].authority
        /\ Certain(B0, x) /\ C.values[x].authority = B0.values[x].authority
        /\ x \in DOMAIN f
    BY <2>1, <1>4, MeetingCertain
  <2>3. CASE x \in A.loans[l].authorities
    <3>1. \/ f[x] \in A0.loans[l].authorities
          \/ x \in A0.loans[l].authorities /\ ~May(A0, x)
      BY <2>3 DEF Meeting, EdgeHolders
    <3>2. CASE f[x] \in A0.loans[l].authorities BY <3>2, <2>2 DEF Shape
    <3>3. CASE x \in A0.loans[l].authorities /\ ~May(A0, x)
      <4>1. x \in Doubts(A0, l) BY <3>3 DEF Doubts, Certain, May
      <4>2. x \in Doubts(B0, l) BY <4>1 DEF SameDoubts
      <4> QED BY <4>2, <2>2 DEF Doubts
    <3> QED BY <3>1, <3>2, <3>3
  <2>4. CASE x \in B.loans[l].authorities
    <3>1. x \in B0.loans[l].authorities BY <2>4 DEF Meeting, EdgeHolders
    <3> QED BY <3>1, <2>2 DEF Shape
  <2> QED BY <1>3, <2>3, <2>4
<1>5. ASSUME NEW x \in Names, Certain(C, x)
      PROVE  x \in C.loans[C.values[x].authority].authorities
  <2>1. /\ Certain(A0, f[x]) /\ C.values[x].authority = A0.values[f[x]].authority
        /\ x \in DOMAIN f /\ f[x] \in Names
    BY <1>5, MeetingCertain
  <2>l. PICK l \in LoanIds : l = A0.values[f[x]].authority BY <2>1 DEF Certain
  <2>2. f[x] \in A0.loans[l].authorities BY <2>1, <2>l DEF Shape
  <2>3. x \in A.loans[l].authorities BY <2>1, <2>2 DEF Meeting, EdgeHolders
  <2> QED BY <2>1, <2>3, <2>l, <1>3
<1>6. ASSUME NEW l \in LoanIds, Gone(C, l) PROVE C.loans[l].authorities = {}
  <2>1. Gone(A, l) /\ Gone(B, l) BY <1>2, <1>6 DEF LoanJoined, Gone, GoneLoan
  <2>2. Gone(A0, l) /\ Gone(B0, l) BY <2>1 DEF Meeting, Projected, Gone
  <2>3. A0.loans[l].authorities = {} /\ B0.loans[l].authorities = {} BY <2>2 DEF Shape
  <2> QED BY <2>3, <1>3 DEF Meeting, EdgeHolders
<1> QED BY <1>1, <1>4, <1>5, <1>6 DEF Shape

\* A merge gets rid of no doubt.
LEMMA MergeDoubts ==
    ASSUME NEW A0, Shape(A0), NEW B0, Shape(B0), SameDoubts(A0, B0),
           NEW f, NEW g, NEW A, NEW B, NEW C, Meeting(A0, B0, f, g, A, B, C)
    PROVE  DoubtsKept(A0, C) /\ DoubtsKept(B0, C)
<1>1. C \in AbstractState BY DEF Meeting, JoinedStates
<1>2. \A l \in LoanIds : /\ A.loans[l].authorities \subseteq C.loans[l].authorities
                         /\ B.loans[l].authorities \subseteq C.loans[l].authorities
  BY DEF Meeting, Widens
<1>3. \A l \in LoanIds : A0.loans[l].authorities \subseteq Names
  BY DEF Shape, AbstractState, AbstractLoan
<1>4. ASSUME NEW l \in LoanIds, NEW d \in Doubts(A0, l) PROVE Doubts(C, l) # {}
  <2>1. /\ d \in Names /\ d \in A0.loans[l].authorities /\ ~Certain(A0, d) /\ ~Certain(B0, d)
    BY <1>3, <1>4 DEF Doubts, SameDoubts
  <2>2. CASE \E y \in DOMAIN f : f[y] = d
    <3>1. PICK y \in DOMAIN f : f[y] = d BY <2>2
    <3>2. y \in A.loans[l].authorities /\ y \in Names
      BY <3>1, <2>1, RenameFields DEF Meeting, EdgeHolders
    <3>3. ~Certain(C, y) BY <3>1, <3>2, <2>1, MeetingCertain
    <3> QED BY <3>2, <3>3, <1>2 DEF Doubts
  <2>3. CASE \A y \in DOMAIN f : f[y] # d
    <3>1. d \in A.loans[l].authorities BY <2>1, <2>3 DEF Meeting, EdgeHolders
    <3>2. ~Certain(C, d) BY <2>1, MeetingCertain
    <3> QED BY <3>1, <3>2, <1>2 DEF Doubts
  <2> QED BY <2>2, <2>3
<1>5. DoubtsKept(A0, C) BY <1>4 DEF DoubtsKept
<1> QED BY <1>5 DEF DoubtsKept, SameDoubts

\* Where two paths with the same doubts meet, the joined state stands for the run
\* of either one.
LEMMA MergePath ==
    ASSUME ~Leaks, NEW A0, NEW R0, PathInv(site, A0, R0), NEW B0, NEW S0, PathInv(site, B0, S0),
           SameDoubts(A0, B0), NEW f \in Renames, NEW g, g = [x \in DOMAIN f |-> x],
           Passable(A0, f), Passable(B0, g),
           NEW A, A = ProjectEdge(A0, f), NEW B, B = ProjectEdge(B0, g), Joinable(A, B),
           NEW C, C = JoinState(A, B), NEW Q, Q \in {EnterBlock(R0, f), EnterBlock(S0, g)}
    PROVE  PathInv(site, C, Q)
<1>1. DOMAIN f \subseteq Names BY RenameFields
<1>2. g \in Renames /\ DOMAIN g = DOMAIN f /\ \A x \in DOMAIN g : g[x] = x
  <2>1. /\ DOMAIN g \in SUBSET Names /\ g \in [DOMAIN g -> Names] /\ DOMAIN g = DOMAIN f
        /\ \A x, y \in DOMAIN g : g[x] = g[y] => x = y
        /\ \A x \in DOMAIN g : g[x] = x
    BY <1>1
  <2> QED BY <2>1 DEF Renames
<1>3. Shape(A0) /\ Shape(B0) /\ A0 \in AbstractState /\ B0 \in AbstractState
  BY DEF PathInv, Shape
<1>4. Projected(A0, A, f) /\ Projected(B0, B, g) BY <1>2, <1>3, EdgeState
<1>5. EdgeHolders(A0, A, f) /\ EdgeHolders(B0, B, g) BY <1>2, <1>3, <1>4, EdgeRenames
<1>6. SameNames(A, B)
  <2> SUFFICES ASSUME NEW x \in Names
               PROVE  A.values[x].availability = "Undefined" <=> B.values[x].availability = "Undefined"
    BY DEF SameNames
  <2>1. CASE x \in DOMAIN f
    <3>1. A.values[x] = A0.values[f[x]] /\ B.values[x] = B0.values[g[x]]
      BY <2>1, <1>2, <1>4 DEF Projected
    <3>2. A0.values[f[x]].availability # "Undefined" /\ B0.values[g[x]].availability # "Undefined"
      BY <2>1, <1>2 DEF Passable
    <3> QED BY <3>1, <3>2
  <2>2. CASE x \notin DOMAIN f
    <3>1. A.values[x] = Undefined /\ B.values[x] = Undefined BY <2>2, <1>2, <1>4 DEF Projected
    <3> QED BY <3>1
  <2> QED BY <2>1, <2>2
<1>7. Tidy(A) /\ Tidy(B)
  <2>1. Tidy(A0) /\ Tidy(B0) BY <1>3 DEF Shape, Tidy
  <2> QED BY <2>1, <1>2, <1>4, EdgeTidy
<1>8. JoinedStates(A, B, C) BY <1>6, <1>7, JoinResult
<1>9. Widens(A, C) /\ Widens(B, C) BY <1>8, JoinWidens
<1>10. Meeting(A0, B0, f, g, A, B, C) BY <1>2, <1>4, <1>5, <1>8, <1>9 DEF Meeting
<1>11. Shape(C) /\ DoubtsKept(A0, C) /\ DoubtsKept(B0, C)
  BY <1>3, <1>10, MergeShape, MergeDoubts
<1>12. CASE Q = EnterBlock(R0, f) BY <1>12, <1>4, <1>5, <1>9, <1>11, ThroughPath
<1>13. CASE Q = EnterBlock(S0, g) BY <1>13, <1>2, <1>4, <1>5, <1>9, <1>11, ThroughPath
<1> QED BY <1>12, <1>13

-----------------------------------------------------------------------------
(* The invariant. *)

\* Nothing is known before the first instruction, and nothing is there to know.
LEMMA EmptyPath ==
    PathInv(site, EmptyState, EmptyRun) /\ EmptyState \in AbstractState /\ EmptyRun \in RunState
<1>T. PICK T : T = [l \in LoanIds |-> Blank] OBVIOUS
<1>h. PICK held : held = [x \in Names |-> Nothing] OBVIOUS
<1>A. PICK A : A = EmptyState OBVIOUS
<1>1. T \in Table /\ TableInv(T) BY <1>T, BlankTable
<1>2. Nothing \in HeldValue /\ Nothing.loan \notin LoanIds BY NothingHeld
<1>3. held \in [Names -> HeldValue] /\ \A x \in Names : held[x].loan \notin LoanIds BY <1>h, <1>2
<1>4. EmptyRun \in RunState /\ EmptyRun.table = T /\ EmptyRun.held = held /\ ~EmptyRun.refused
  BY <1>T, <1>h, <1>1, <1>3 DEF EmptyRun, RunState, Table, HeldValue
<1>5. Missing \in AbstractLoan /\ Undefined \in AbstractPermission
  BY DEF Missing, Undefined, AbstractLoan, AbstractPermission, AbstractActivity, Activity, Availability
<1>6. /\ A \in AbstractState
      /\ \A l \in LoanIds : A.loans[l].authorities = {}
      /\ \A x \in Names : A.values[x].availability = "Undefined" /\ ~Certain(A, x)
  BY <1>A, <1>5 DEF EmptyState, AbstractState, Missing, Undefined, Certain
<1>7. Shape(A) BY <1>6 DEF Shape
<1>8. \A l \in LoanIds : T[l].authorities = {} /\ ~Live(T, l) BY <1>T DEF Blank, Live
<1>9. Records(site, A, T) BY <1>8 DEF Records, LiveLoans
<1>10. Knows(A, held) BY <1>3, <1>6 DEF Knows, KnowsValue
<1>11. Holding(T, held) BY <1>3, <1>8 DEF Holding
<1> QED BY <1>1, <1>4, <1>6, <1>7, <1>9, <1>10, <1>11, <1>A DEF PathInv, Follows

\* What a step on the current path must show.
LEMMA CurrentPath ==
    ASSUME StaticInv, NEW B, NEW Q, PathInv(site, B, Q), SameDoubts(cur.abs, B), stage # "returned",
           cur' = [abs |-> B, run |-> Q], UNCHANGED <<site, other, stage>>, room' \in 0 .. MaxArm
    PROVE  StaticInv'
<1>1. B \in AbstractState /\ Q \in RunState BY DEF PathInv, Shape
<1>2. cur' \in [abs : AbstractState, run : RunState] /\ cur'.abs = B /\ cur'.run = Q BY <1>1
<1>3. stage \in {"first", "second"} => SameDoubts(B, other.abs) BY DEF StaticInv, SameDoubts
<1> QED BY <1>2, <1>3 DEF StaticInv

\* The instructions an arm may still have after one more.
LEMMA RoomLeft ==
    ASSUME StaticInv, Running
    PROVE  (IF stage = "straight" THEN 0 ELSE room - 1) \in 0 .. MaxArm
BY StaticLoansAssumption DEF StaticInv, Running

\* The parts of the current path.
LEMMA CurrentFields ==
    ASSUME StaticInv, NEW A, A = cur.abs, NEW R, R = cur.run
    PROVE  PathInv(site, A, R) /\ site \in Sites /\ cur = [abs |-> A, run |-> R]
BY DEF StaticInv

\* An instruction executed by the analysis and the run.
LEMMA StepInv ==
    ASSUME StaticInv, Running, NEW B, NEW allowed, NEW N, Step(B, allowed, N),
           NEW Q, Q = Execute(cur.run, allowed, N), PathInv(site, B, Q), SameDoubts(cur.abs, B)
    PROVE  StaticInv'
<1>1. cur' = [abs |-> B, run |-> Q] /\ UNCHANGED <<site, other, stage>> BY DEF Step
<1>2. room' \in 0 .. MaxArm BY RoomLeft DEF Step
<1>3. stage # "returned" BY DEF Running
<1> QED BY <1>1, <1>2, <1>3, CurrentPath

\* An access.
LEMMA ObserveInv ==
    ASSUME StaticInv, NEW allowed, Observe(allowed), Execute(cur.run, allowed, cur.run) = cur.run
    PROVE  StaticInv'
<1>1. cur' = cur
  <2>1. cur' = [cur EXCEPT !.run = cur.run] BY DEF Observe
  <2> QED BY <2>1 DEF StaticInv
<1> QED BY <1>1 DEF Observe, StaticInv

\* loan_begin keeps the invariant.
LEMMA LoanBeginInv ==
    ASSUME ~Leaks, StaticInv, NEW l \in DOMAIN site, NEW y \in Names, LoanBegin(l, y)
    PROVE  StaticInv'
<1>A. PICK A : A = cur.abs OBVIOUS
<1>R. PICK R : R = cur.run OBVIOUS
<1>B. PICK B : B = NewInstance(A, l, NoLoan, y) OBVIOUS
<1>N. PICK N : N = Begun(R, l, y) OBVIOUS
<1>a. PICK allowed : allowed = BeginAllowed(R.table, l, Heap, site[l].range, site[l].kind) OBVIOUS
<1>Q. PICK Q : Q = Execute(R, allowed, N) OBVIOUS
<1>1. /\ Running /\ Free(A, y) /\ CanCreateStatic(A, l) /\ CreationCompatible(A, l, {})
      /\ Step(B, allowed, N)
  BY <1>A, <1>R, <1>B, <1>N, <1>a DEF LoanBegin, Begun
<1>2. PathInv(site, A, R) /\ site \in Sites BY <1>A, <1>R, CurrentFields
<1>3. Q = Execute(R, BeginAllowed(R.table, l, Heap, site[l].range, site[l].kind), Begun(R, l, y))
  BY <1>Q, <1>a, <1>N
<1>4. PathInv(site, B, Q) /\ SameDoubts(A, B) BY <1>1, <1>2, <1>3, <1>B, BeginPath
<1> QED BY <1>1, <1>4, <1>Q, <1>A, <1>R, StepInv

\* loan_reborrow keeps the invariant.
LEMMA LoanReborrowInv ==
    ASSUME ~Leaks, StaticInv, NEW l \in DOMAIN site, NEW x \in Names, NEW y \in Names,
           LoanReborrow(l, x, y)
    PROVE  StaticInv'
<1>A. PICK A : A = cur.abs OBVIOUS
<1>R. PICK R : R = cur.run OBVIOUS
<1>p. PICK p : p = A.values[x].authority OBVIOUS
<1>S. PICK S : S = Lent(A, p, l) OBVIOUS
<1>B. PICK B : B = NewInstance(S, l, p, y) OBVIOUS
<1>N. PICK N : N = Reborrowed(R, l, p, y) OBVIOUS
<1>a. PICK allowed :
         allowed = (R.held[x].loan = p
                      /\ ReborrowAllowed(R.table, l, p, site[l].range, site[l].kind, R.held[x].token))
  OBVIOUS
<1>Q. PICK Q : Q = Execute(R, allowed, N) OBVIOUS
<1>1. /\ Running /\ x # y /\ Free(A, y) /\ HoldsAuthority(A, x)
      /\ A.loans[p].activity \in {"Active", "Suspended"}
      /\ Contains(site[p].range, site[l].range)
      /\ site[p].kind = "Shared" => site[l].kind = "Shared"
      /\ Cardinality(Chain(A.loans, p)) <= MaxDepth
      /\ CanCreateStatic(A, l) /\ CreationCompatible(A, l, Chain(A.loans, p))
  BY <1>A, <1>p DEF LoanReborrow
<1>s. Step(B, allowed, N)
  BY <1>A, <1>R, <1>p, <1>S, <1>B, <1>N, <1>a DEF LoanReborrow, Reborrowed, Lent
<1>2. PathInv(site, A, R) /\ site \in Sites BY <1>A, <1>R, CurrentFields
<1>3. Q = Execute(R, R.held[x].loan = p
                        /\ ReborrowAllowed(R.table, l, p, site[l].range, site[l].kind, R.held[x].token),
                  Reborrowed(R, l, p, y))
  BY <1>Q, <1>a, <1>N
<1>4. PathInv(site, B, Q) /\ SameDoubts(A, B) BY <1>1, <1>2, <1>3, <1>p, <1>S, <1>B, ReborrowPath
<1> QED BY <1>1, <1>s, <1>4, <1>Q, <1>A, <1>R, StepInv

\* loan_alias_shared and loan_alias_authority keep the invariant.
LEMMA LoanAliasInv ==
    ASSUME ~Leaks, StaticInv, NEW x \in Names, NEW y \in Names, LoanAlias(x, y)
    PROVE  StaticInv'
<1>A. PICK A : A = cur.abs OBVIOUS
<1>R. PICK R : R = cur.run OBVIOUS
<1>l. PICK l : l = A.values[x].authority OBVIOUS
<1>B. PICK B : B = AliasState(A, l, y) OBVIOUS
<1>N. PICK N : N = AliasedRun(R, l, y) OBVIOUS
<1>a. PICK allowed :
         allowed = (R.held[x].loan = l /\ AliasAllowed(R.table, l, R.held[x].token))
  OBVIOUS
<1>Q. PICK Q : Q = Execute(R, allowed, N) OBVIOUS
<1>1. /\ Running /\ x # y /\ Free(A, y) /\ HoldsAuthority(A, x)
      /\ A.loans[l].activity = "Active" /\ site[l].kind = "Shared"
      /\ Cardinality(A.loans[l].authorities) < MaxAliases
  BY <1>A, <1>l DEF LoanAlias
<1>s. Step(B, allowed, N)
  BY <1>A, <1>R, <1>l, <1>B, <1>N, <1>a DEF LoanAlias, AliasedRun, AliasState
<1>2. PathInv(site, A, R) /\ site \in Sites BY <1>A, <1>R, CurrentFields
<1>3. Q = Execute(R, R.held[x].loan = l /\ AliasAllowed(R.table, l, R.held[x].token),
                  AliasedRun(R, l, y))
  BY <1>Q, <1>a, <1>N
<1>4. PathInv(site, B, Q) /\ SameDoubts(A, B) BY <1>1, <1>2, <1>3, <1>l, <1>B, AliasPath
<1> QED BY <1>1, <1>s, <1>4, <1>Q, <1>A, <1>R, StepInv

\* permission_move keeps the invariant.
LEMMA PermissionMoveInv ==
    ASSUME ~Leaks, StaticInv, NEW x \in Names, NEW y \in Names, PermissionMove(x, y)
    PROVE  StaticInv'
<1>A. PICK A : A = cur.abs OBVIOUS
<1>R. PICK R : R = cur.run OBVIOUS
<1>l. PICK l : l = A.values[x].authority OBVIOUS
<1>N. PICK N : N = MovedRun(R, x, y) OBVIOUS
<1>a. PICK allowed : allowed = (R.held[x].loan \in LoanIds) OBVIOUS
<1>Q. PICK Q : Q = Execute(R, allowed, N) OBVIOUS
<1>1. Running /\ x # y /\ Free(A, y) /\ A.values[x].availability = "Available"
  BY <1>A DEF PermissionMove
<1>s. Step(Define(MoveAuthority(Consume(A, x), x, y), y, l), allowed, N)
  BY <1>A, <1>R, <1>l, <1>N, <1>a DEF PermissionMove, MovedRun
<1>2. PathInv(site, A, R) /\ site \in Sites BY <1>A, <1>R, CurrentFields
<1>3. Q = Execute(R, R.held[x].loan \in LoanIds, MovedRun(R, x, y)) BY <1>Q, <1>a, <1>N
<1>4. A \in AbstractState /\ Shape(A) BY <1>2 DEF PathInv, Shape
<1>5. Consume(A, x).values[x].authority = l BY <1>4, <1>l DEF Consume, AbstractState, AbstractPermission
<1>6. CASE l \in LoanIds
  <2>B. PICK B : B = Moved(A, l, x, y) OBVIOUS
  <2>1. Step(B, allowed, N) BY <1>s, <1>5, <1>6, <2>B DEF MoveAuthority, Moved
  <2>2. HoldsAuthority(A, x)
    <3>1. x \in A.loans[l].authorities BY <1>1, <1>4, <1>6, <1>l DEF Shape, Certain
    <3>2. Recorded(A, l) BY <3>1, <1>4, <1>6 DEF Shape, Recorded, Gone
    <3> QED BY <3>1, <3>2, <1>1, <1>6, <1>l DEF HoldsAuthority
  <2>3. PathInv(site, B, Q) /\ SameDoubts(A, B) BY <1>1, <1>2, <1>3, <1>l, <2>B, <2>2, MovePath
  <2> QED BY <1>1, <2>1, <2>3, <1>Q, <1>A, <1>R, StepInv
<1>7. CASE l \notin LoanIds
  <2>B. PICK B : B = MovedUnknown(A, x, y) OBVIOUS
  <2>1. l = NoLoan BY <1>4, <1>7, <1>l DEF AbstractState, AbstractPermission
  <2>2. Step(B, allowed, N) BY <1>s, <1>5, <1>7, <2>1, <2>B DEF MoveAuthority, MovedUnknown
  <2>3. PathInv(site, B, Q) /\ SameDoubts(A, B)
    BY <1>1, <1>2, <1>3, <1>7, <1>l, <2>B, MoveUnknownPath
  <2> QED BY <1>1, <2>2, <2>3, <1>Q, <1>A, <1>R, StepInv
<1> QED BY <1>6, <1>7

\* loan_end and loan_end_authority keep the invariant.
LEMMA LoanEndInv ==
    ASSUME StaticInv, NEW x \in Names, LoanEnd(x) \/ LoanEndAuthority(x)
    PROVE  StaticInv'
<1>A. PICK A : A = cur.abs OBVIOUS
<1>R. PICK R : R = cur.run OBVIOUS
<1>l. PICK l : l = A.values[x].authority OBVIOUS
<1>B. PICK B : B = RemoveAuthority(A, x) OBVIOUS
<1>N. PICK N : N = EndedRun(R, l, x) OBVIOUS
<1>1. /\ Running /\ HoldsAuthority(A, x) /\ A.loans[l].activity = "Active"
      /\ LoanEnd(x) => NoActiveChild(A, l)
      /\ LoanEndAuthority(x) => Cardinality(A.loans[l].authorities) > 1 \/ NoActiveChild(A, l)
  BY <1>A, <1>l DEF LoanEnd, LoanEndAuthority
<1>2. PathInv(site, A, R) /\ site \in Sites BY <1>A, <1>R, CurrentFields
<1>3. CASE LoanEnd(x)
  <2>a. PICK allowed : allowed = (R.held[x].loan = l /\ EndAllowed(R.table, l, R.held[x].token))
    OBVIOUS
  <2>Q. PICK Q : Q = Execute(R, allowed, N) OBVIOUS
  <2>s. Step(B, allowed, N)
    BY <1>3, <1>A, <1>R, <1>l, <1>B, <1>N, <2>a DEF LoanEnd, EndedRun
  <2>b. PICK stored \in BOOLEAN : ~stored OBVIOUS
  <2>1. Q = Execute(R, R.held[x].loan = l
                          /\ IF stored THEN EndStoredAllowed(R.table, l, R.held[x].token)
                                       ELSE EndAllowed(R.table, l, R.held[x].token),
                    EndedRun(R, l, x))
    BY <2>a, <2>b, <2>Q, <1>N
  <2>2. NoActiveChild(A, l) BY <1>1, <1>3
  <2>3. PathInv(site, B, Q) /\ SameDoubts(A, B)
    BY <1>1, <1>2, <2>1, <2>2, <1>l, <1>B, EndPath
  <2> QED BY <1>1, <2>s, <2>3, <2>Q, <1>A, <1>R, StepInv
<1>4. CASE LoanEndAuthority(x)
  <2>a. PICK allowed :
           allowed = (R.held[x].loan = l /\ EndStoredAllowed(R.table, l, R.held[x].token))
    OBVIOUS
  <2>Q. PICK Q : Q = Execute(R, allowed, N) OBVIOUS
  <2>s. Step(B, allowed, N)
    BY <1>4, <1>A, <1>R, <1>l, <1>B, <1>N, <2>a DEF LoanEndAuthority, EndedRun
  <2>b. PICK stored \in BOOLEAN : stored OBVIOUS
  <2>1. Q = Execute(R, R.held[x].loan = l
                          /\ IF stored THEN EndStoredAllowed(R.table, l, R.held[x].token)
                                       ELSE EndAllowed(R.table, l, R.held[x].token),
                    EndedRun(R, l, x))
    BY <2>a, <2>b, <2>Q, <1>N
  <2>2. NoActiveChild(A, l) \/ (stored /\ Cardinality(A.loans[l].authorities) > 1)
    BY <1>1, <1>4, <2>b
  <2>3. PathInv(site, B, Q) /\ SameDoubts(A, B)
    BY <1>1, <1>2, <2>1, <2>2, <1>l, <1>B, EndPath
  <2> QED BY <1>1, <2>s, <2>3, <2>Q, <1>A, <1>R, StepInv
<1> QED BY <1>3, <1>4

\* An access keeps the invariant.
LEMMA AccessInv ==
    ASSUME StaticInv, NEW r, NEW access,
           OwnerAccesses(r, access) \/ \E x \in Names : LoanAccesses(x, r, access)
    PROVE  StaticInv'
<1>A. PICK A : A = cur.abs OBVIOUS
<1>R. PICK R : R = cur.run OBVIOUS
<1>1. PathInv(site, A, R) BY <1>A, <1>R, CurrentFields
<1>2. CASE OwnerAccesses(r, access)
  <2>a. PICK allowed : allowed = OwnerAccess(R.table, Owner(Heap, r, TRUE), r, access) OBVIOUS
  <2>1. OwnerAccessProven(A, r, access) /\ Observe(allowed)
    BY <1>2, <1>A, <1>R, <2>a DEF OwnerAccesses
  <2>2. R.refused \/ allowed BY <1>1, <2>1, <2>a, OwnerPath
  <2>3. Execute(R, allowed, R) = R BY <2>2 DEF Execute
  <2> QED BY <2>1, <2>3, <1>R, ObserveInv
<1>3. ASSUME NEW x \in Names, LoanAccesses(x, r, access) PROVE StaticInv'
  <2>h. PICK h : h = R.held[x] OBVIOUS
  <2>a. PICK allowed :
           allowed = (/\ h.loan \in LoanIds
                      /\ AuthorityAccess(R.table, Carrier(Heap, r, h.loan, h.token), r, access))
    OBVIOUS
  <2>1. LoanAccessProven(A, x, r, access) /\ Observe(allowed)
    BY <1>3, <1>A, <1>R, <2>h, <2>a DEF LoanAccesses
  <2>2. R.refused \/ allowed BY <1>1, <2>1, <2>a, <2>h, LoanPath
  <2>3. Execute(R, allowed, R) = R BY <2>2 DEF Execute
  <2> QED BY <2>1, <2>3, <1>R, ObserveInv
<1> QED BY <1>2, <1>3

\* A fork and a switch copy paths.
LEMMA ForkSwitchInv ==
    ASSUME StaticInv, Fork \/ Switch
    PROVE  StaticInv'
<1>1. MaxArm \in 0 .. MaxArm BY StaticLoansAssumption
<1>2. CASE Fork
  <2>1. SameDoubts(cur.abs, cur.abs) BY DEF SameDoubts
  <2> QED BY <1>1, <1>2, <2>1 DEF Fork, StaticInv
<1>3. CASE Switch
  <2>1. SameDoubts(other.abs, cur.abs) BY <1>3 DEF Switch, StaticInv, SameDoubts
  <2> QED BY <1>1, <1>3, <2>1 DEF Switch, StaticInv
<1> QED BY <1>2, <1>3

\* What is left on the other path where two paths have met.
LEMMA OtherEmpty ==
    ASSUME StaticInv, NEW B, NEW Q, PathInv(site, B, Q), NEW s, s \in {"straight", "returned"},
           s = "returned" => ~Q.refused,
           cur' = [abs |-> B, run |-> Q], other' = [abs |-> EmptyState, run |-> EmptyRun],
           stage' = s, room' = 0, UNCHANGED site
    PROVE  StaticInv'
<1>1. B \in AbstractState /\ Q \in RunState BY DEF PathInv, Shape
<1>2. cur' \in [abs : AbstractState, run : RunState] /\ cur'.abs = B /\ cur'.run = Q BY <1>1
<1>3. PICK e : e = EmptyState OBVIOUS
<1>4. PICK o : o = EmptyRun OBVIOUS
<1>5. PathInv(site, e, o) /\ e \in AbstractState /\ o \in RunState BY <1>3, <1>4, EmptyPath
<1>6. /\ other' \in [abs : AbstractState, run : RunState]
      /\ other'.abs = e /\ other'.run = o
  BY <1>3, <1>4, <1>5
<1>7. 0 \in 0 .. MaxArm BY StaticLoansAssumption
<1> QED BY <1>2, <1>5, <1>6, <1>7 DEF StaticInv

\* A merge keeps the invariant.
LEMMA MergeInv ==
    ASSUME ~Leaks, StaticInv, NEW f \in Renames, Merge(f)
    PROVE  StaticInv'
<1>A. PICK A0 : A0 = cur.abs OBVIOUS
<1>R. PICK R0 : R0 = cur.run OBVIOUS
<1>B. PICK B0 : B0 = other.abs OBVIOUS
<1>S. PICK S0 : S0 = other.run OBVIOUS
<1>g. PICK g : g = [x \in DOMAIN f |-> x] OBVIOUS
<1>a. PICK A : A = ProjectEdge(A0, f) OBVIOUS
<1>b. PICK B : B = ProjectEdge(B0, g) OBVIOUS
<1>c. PICK C : C = JoinState(A, B) OBVIOUS
<1>1. /\ Passable(A0, f) /\ Passable(B0, g) /\ Joinable(A, B)
      /\ \E Q \in {EnterBlock(R0, f), EnterBlock(S0, g)} : cur' = [abs |-> C, run |-> Q]
      /\ other' = [abs |-> EmptyState, run |-> EmptyRun] /\ stage' = "straight" /\ room' = 0
      /\ UNCHANGED site
  BY <1>A, <1>R, <1>B, <1>S, <1>g, <1>a, <1>b, <1>c DEF Merge
<1>2. PathInv(site, A0, R0) /\ PathInv(site, B0, S0) /\ SameDoubts(A0, B0)
  BY <1>A, <1>R, <1>B, <1>S DEF StaticInv, Merge
<1>3. PICK Q \in {EnterBlock(R0, f), EnterBlock(S0, g)} : cur' = [abs |-> C, run |-> Q] BY <1>1
<1>4. PathInv(site, C, Q) BY <1>1, <1>2, <1>g, <1>a, <1>b, <1>c, MergePath
<1> QED BY <1>1, <1>3, <1>4, OtherEmpty

\* A return keeps the invariant.
LEMMA ReturnInv ==
    ASSUME StaticInv, Return
    PROVE  StaticInv'
<1>A. PICK A : A = cur.abs OBVIOUS
<1>R. PICK R : R = cur.run OBVIOUS
<1>1. PathInv(site, A, R) /\ cur = [abs |-> A, run |-> R] BY <1>A, <1>R, CurrentFields
<1>Q. PICK Q : Q = Execute(R, FinishAllowed(R.table), R) OBVIOUS
<1>2. \A l \in LoanIds : Gone(A, l) BY <1>A DEF Return
<1>3. Q = R /\ ~R.refused BY <1>1, <1>2, <1>Q, ReturnPath
<1>4. cur' = [cur EXCEPT !.run = Q] BY <1>R, <1>Q DEF Return
<1>5. cur' = [abs |-> A, run |-> R] BY <1>1, <1>3, <1>4
<1> QED BY <1>1, <1>3, <1>5, OtherEmpty DEF Return

\* Every step keeps the invariant.
LEMMA StaticStep ==
    ASSUME ~Leaks, StaticInv, [Next]_vars
    PROVE  StaticInv'
<1>1. ASSUME NEW l \in DOMAIN site, NEW y \in Names, LoanBegin(l, y) PROVE StaticInv'
  BY <1>1, LoanBeginInv
<1>2. ASSUME NEW l \in DOMAIN site, NEW x \in Names, NEW y \in Names, LoanReborrow(l, x, y)
      PROVE  StaticInv'
  BY <1>2, LoanReborrowInv
<1>3. ASSUME NEW x \in Names, NEW y \in Names, LoanAlias(x, y) PROVE StaticInv'
  BY <1>3, LoanAliasInv
<1>4. ASSUME NEW x \in Names, NEW y \in Names, PermissionMove(x, y) PROVE StaticInv'
  BY <1>4, PermissionMoveInv
<1>5. ASSUME NEW x \in Names, LoanEnd(x) \/ LoanEndAuthority(x) PROVE StaticInv'
  BY <1>5, LoanEndInv
<1>6. ASSUME NEW r \in Bytes, NEW access \in {"Read", "Write"},
             OwnerAccesses(r, access) \/ \E x \in Names : LoanAccesses(x, r, access)
      PROVE  StaticInv'
  BY <1>6, AccessInv
<1>7. CASE Fork \/ Switch BY <1>7, ForkSwitchInv
<1>8. ASSUME NEW f \in Renames, Merge(f) PROVE StaticInv' BY <1>8, MergeInv
<1>9. CASE Return BY <1>9, ReturnInv
<1>10. CASE UNCHANGED vars BY <1>10 DEF vars, StaticInv
<1> QED BY <1>1, <1>2, <1>3, <1>4, <1>5, <1>6, <1>7, <1>8, <1>9, <1>10 DEF Next

\* The analysis stands for every run of a verified function, on both paths of
\* the branch or loop it is in, or can no longer prove a return.
THEOREM StaticInvHolds == ASSUME ~Leaks PROVE Spec => []StaticInv
<1>1. Init => StaticInv
  <2> SUFFICES ASSUME Init PROVE StaticInv OBVIOUS
  <2>e. PICK e : e = EmptyState OBVIOUS
  <2>o. PICK o : o = EmptyRun OBVIOUS
  <2>1. PathInv(site, e, o) /\ e \in AbstractState /\ o \in RunState BY <2>e, <2>o, EmptyPath
  <2>2. cur = [abs |-> e, run |-> o] /\ other = [abs |-> e, run |-> o] BY <2>e, <2>o DEF Init
  <2>3. 0 \in 0 .. MaxArm BY StaticLoansAssumption
  <2> QED BY <2>1, <2>2, <2>3 DEF Init, StaticInv
<1>2. StaticInv /\ [Next]_vars => StaticInv' BY StaticStep
<1> QED BY <1>1, <1>2, PTL DEF Spec

\* Abstract states and runs keep their shape; a loan names every available value
\* that carries its authority (authorities of the tracked loan, resource/state.rs).
THEOREM StaticTypeOK == ASSUME ~Leaks PROVE Spec => []TypeOK
<1>1. StaticInv => TypeOK
  <2> SUFFICES ASSUME StaticInv PROVE TypeOK OBVIOUS
  <2>1. ASSUME NEW path \in {cur, other}
        PROVE  /\ path.abs \in AbstractState /\ path.run \in RunState
               /\ \A x \in Names :
                     path.abs.values[x].availability = "Available"
                        /\ path.abs.values[x].authority \in LoanIds
                     => x \in path.abs.loans[path.abs.values[x].authority].authorities
    BY DEF StaticInv, PathInv, Shape, Certain
  <2> QED BY <2>1 DEF TypeOK, StaticInv
<1> QED BY <1>1, StaticInvHolds, PTL

\* Every live loan of a run that is still accepted is on record in the analysis,
\* with its parent, whatever joins lie behind it, and so are its holders, but for
\* those that were moved when their loan was unknown; such a loan stays on record,
\* since a holder of it on record can never be removed (join of the tracked loans,
\* resource/state.rs; loan_begin to loan_end, move_loan_authority, transfer/loan.rs).
THEOREM LiveLoansKnownHolds == ASSUME ~Leaks PROVE Spec => []LiveLoansKnown
<1>1. StaticInv => LiveLoansKnown
  <2> SUFFICES ASSUME StaticInv, ~cur.run.refused PROVE LiveLoansKnown BY DEF LiveLoansKnown
  <2>A. PICK A : A = cur.abs OBVIOUS
  <2>R. PICK R : R = cur.run OBVIOUS
  <2>1. Follows(site, A, R) BY <2>A, <2>R DEF StaticInv, PathInv
  <2>2. \A l \in LoanIds : Doubts(A, l) # {} => Kept(A, l)
    <3> SUFFICES ASSUME NEW l \in LoanIds, NEW d \in Doubts(A, l) PROVE Kept(A, l)
      OBVIOUS
    <3>1. d \in A.loans[l].authorities /\ ~Certain(A, d) BY DEF Doubts
    <3>2. A.values[d] # [authority |-> l, availability |-> "Available"] BY <3>1 DEF Certain
    <3> QED BY <3>1, <3>2 DEF Kept
  <2>3. ASSUME NEW l \in LiveLoans(R.table)
        PROVE  /\ ~Gone(A, l) /\ A.loans[l].parent = R.table[l].parent
               /\ A.loans[l].activity = "Active" => R.table[l].activity = "Active"
    BY <2>1 DEF Follows, Records
  <2>4. ASSUME NEW x \in Names, R.held[x].loan \in LoanIds
        PROVE  /\ A.values[x].authority \in {R.held[x].loan, NoLoan}
               /\ \/ x \in A.loans[R.held[x].loan].authorities
                  \/ A.values[x].authority = NoLoan /\ Kept(A, R.held[x].loan)
    BY <2>1, <2>2, <2>4 DEF Follows, Knows, KnowsValue, Listed
  <2> QED BY <2>3, <2>4, <2>A, <2>R DEF LiveLoansKnown
<1> QED BY <1>1, StaticInvHolds, PTL

\* A run that returns from a verified function was refused nowhere by the loan
\* shadow: no instruction, no access and not the return (LoanShadow::finish).
THEOREM VerifiedRunsAcceptedHolds == ASSUME ~Leaks PROVE Spec => []VerifiedRunsAccepted
<1>1. StaticInv => VerifiedRunsAccepted BY DEF StaticInv, VerifiedRunsAccepted
<1> QED BY <1>1, StaticInvHolds, PTL

=============================================================================
