---------------------- MODULE RecursiveSummariesProofs ----------------------
(* Theorems about RecursiveSummaries.                                       *)
EXTENDS RecursiveSummaries, FiniteSetTheorems, WellFoundedInduction, TLAPS

\* A set of natural numbers that is not empty has a least element.
LEMMA LeastElement ==
    ASSUME NEW T \in SUBSET Nat, T # {}
    PROVE \E x \in T : \A y \in T : x <= y
<1> DEFINE R == {ss \in Nat \X Nat : ss[1] < ss[2]}
<1>1. IsWellFoundedOn(R, Nat)
    BY NatLessThanWellFounded DEF OpToRel
<1> HIDE DEF R
<1>2. PICK x \in T : \A y \in T : <<y, x>> \notin R
    BY <1>1, WFMin
<1>3. \A y \in T : ~(y < x)
    BY <1>2 DEF R
<1>4. QED BY <1>3

\* Induction: a set that contains 0 and with n also n + 1 contains every number.
LEMMA Induction ==
    ASSUME NEW S, 0 \in S, \A n \in Nat : n \in S => n + 1 \in S
    PROVE Nat \subseteq S
<1> SUFFICES ASSUME Nat \ S # {} PROVE FALSE
    OBVIOUS
<1>1. PICK x \in Nat \ S : \A y \in Nat \ S : x <= y
    BY LeastElement
<1>2. x - 1 \in Nat /\ x - 1 \in S
    BY <1>1
<1>3. QED BY <1>1, <1>2

\* N steps that stay in S, and the values they lead through from a.
StepsIn(N, S, step) == \A k \in 1..N, x \in S : step[k][x] \in S

Iteration(g, N, S, a, step) ==
    g \in [0..N -> S] /\ g[0] = a /\ \A k \in 1..N : g[k] = step[k][g[k - 1]]

\* An iteration over finitely many steps exists.
LEMMA IterationExists ==
    ASSUME NEW N \in Nat, NEW S, NEW a \in S, NEW step, StepsIn(N, S, step)
    PROVE \E g : Iteration(g, N, S, a, step)
<1> DEFINE Upto(n) == \E g \in [0..n -> S] : g[0] = a /\ \A k \in 1..n : g[k] = step[k][g[k - 1]]
           T == {n \in Nat : n <= N => Upto(n)}
<1>1. 0 \in T
  <2>1. [k \in 0..0 |-> a] \in [0..0 -> S] /\ [k \in 0..0 |-> a][0] = a
      OBVIOUS
  <2>2. \A k \in 1..0 : FALSE
      OBVIOUS
  <2>3. QED BY <2>1, <2>2
<1>2. ASSUME NEW n \in Nat, n \in T PROVE n + 1 \in T
  <2> SUFFICES ASSUME n + 1 <= N PROVE Upto(n + 1)
      OBVIOUS
  <2>1. PICK g \in [0..n -> S] : g[0] = a /\ \A k \in 1..n : g[k] = step[k][g[k - 1]]
      BY <1>2
  <2> DEFINE h == [k \in 0..(n + 1) |-> IF k = n + 1 THEN step[n + 1][g[n]] ELSE g[k]]
  <2>2. h \in [0..(n + 1) -> S] /\ h[0] = a
      BY <2>1 DEF StepsIn
  <2>3. ASSUME NEW k \in 1..(n + 1) PROVE h[k] = step[k][h[k - 1]]
      BY <2>1
  <2>4. QED BY <2>2, <2>3
<1>3. N \in T
  <2> HIDE DEF T
  <2>1. QED BY <1>1, <1>2, Induction
<1>4. QED BY <1>3 DEF Iteration

-----------------------------------------------------------------------------
(* Sequences that are computed element by element. *)

\* What Picked has after k elements of s.
PickedSoFar(s, places, u, k) ==
    /\ \A j \in DOMAIN u[k] : \E i \in 1..k : i \in places /\ u[k][j] = s[i]
    /\ \A i \in 1..k : i \in places => \E j \in DOMAIN u[k] : u[k][j] = s[i]

\* Picked returns the elements at the given places and no others.
LEMMA PickedElements ==
    ASSUME NEW S, NEW s \in Seq(S), NEW places
    PROVE /\ Picked(s, places) \in Seq(S)
          /\ \A j \in DOMAIN Picked(s, places) :
                \E i \in DOMAIN s : i \in places /\ Picked(s, places)[j] = s[i]
          /\ \A i \in DOMAIN s : i \in places =>
                \E j \in DOMAIN Picked(s, places) : Picked(s, places)[j] = s[i]
<1> DEFINE N == Len(s)
           F(u) == [k \in 0..N |-> IF k = 0 THEN <<>>
                                   ELSE IF k \in places THEN Append(u[k - 1], s[k])
                                   ELSE u[k - 1]]
           step == [k \in 1..N |-> [x \in Seq(S) |->
                                       IF k \in places THEN Append(x, s[k]) ELSE x]]
           u0 == CHOOSE u : u = F(u)
<1>1. N \in Nat /\ DOMAIN s = 1..N /\ \A k \in 1..N : s[k] \in S
    OBVIOUS
<1>2. \E u : u = F(u)
  <2>1. \A k \in 1..N, x \in Seq(S) : step[k][x] \in Seq(S)
      BY <1>1
  <2>2. <<>> \in Seq(S)
      OBVIOUS
  <2> DEFINE Q == Seq(S)
             none == <<>>
  <2> HIDE DEF N, step, Q, none
  <2>a. PICK g : Iteration(g, N, Q, none, step)
    <3>1. none \in Q /\ StepsIn(N, Q, step)
        BY <2>1, <2>2 DEF Q, none, StepsIn
    <3>2. QED BY <1>1, <3>1, IterationExists
  <2>3. /\ g \in [0..N -> Seq(S)]
        /\ g[0] = <<>> /\ \A k \in 1..N : g[k] = step[k][g[k - 1]]
      BY <2>a DEF Q, none, Iteration
  <2>4. ASSUME NEW k \in 0..N PROVE g[k] = F(g)[k]
    <3>1. CASE k = 0
        BY <2>3, <3>1
    <3>2. CASE k # 0
      <4>1. k \in 1..N /\ k - 1 \in 0..N /\ g[k - 1] \in Seq(S)
          BY <1>1, <2>3, <3>2
      <4>2. g[k] = step[k][g[k - 1]]
          BY <2>3, <4>1
      <4>3. QED BY <4>1, <4>2 DEF step
    <3>3. QED BY <3>1, <3>2
  <2>5. g = F(g)
      BY <2>3, <2>4
  <2>6. QED BY <2>5
<1>3. u0 = F(u0)
    BY <1>2
<1>4. Picked(s, places) = u0[N]
    BY DEF Picked
<1> HIDE DEF u0
<1> DEFINE T == {k \in Nat : k <= N => u0[k] \in Seq(S) /\ PickedSoFar(s, places, u0, k)}
<1>5. 0 \in T
  <2>1. u0[0] = <<>>
      BY <1>1, <1>3
  <2>2. DOMAIN u0[0] = {} /\ u0[0] \in Seq(S) /\ \A i \in 1..0 : FALSE
      BY <2>1
  <2>3. QED BY <2>2 DEF PickedSoFar
<1>6. ASSUME NEW n \in Nat, n \in T PROVE n + 1 \in T
  <2> SUFFICES ASSUME n + 1 <= N
               PROVE u0[n + 1] \in Seq(S) /\ PickedSoFar(s, places, u0, n + 1)
      OBVIOUS
  <2>1. u0[n] \in Seq(S) /\ PickedSoFar(s, places, u0, n) /\ n + 1 \in 1..N
      BY <1>1, <1>6
  <2>2. u0[n + 1] = IF n + 1 \in places THEN Append(u0[n], s[n + 1]) ELSE u0[n]
    <3>1. \A k \in 0..N : u0[k] = F(u0)[k]
        BY <1>3
    <3>2. n + 1 \in 0..N /\ n + 1 # 0 /\ (n + 1) - 1 = n
        BY <1>1, <2>1
    <3>3. QED BY <3>1, <3>2
  <2> HIDE DEF N
  <2>3. CASE n + 1 \notin places
      BY <2>1, <2>2, <2>3 DEF PickedSoFar
  <2>4. CASE n + 1 \in places
    <3>1. u0[n + 1] = Append(u0[n], s[n + 1]) /\ s[n + 1] \in S
        BY <1>1, <2>1, <2>2, <2>4
    <3>2. u0[n + 1] \in Seq(S) /\ DOMAIN u0[n + 1] = 1..(Len(u0[n]) + 1)
          /\ u0[n + 1][Len(u0[n]) + 1] = s[n + 1]
          /\ \A j \in 1..Len(u0[n]) : u0[n + 1][j] = u0[n][j]
        BY <2>1, <3>1
    <3>3. DOMAIN u0[n] = 1..Len(u0[n]) /\ Len(u0[n]) \in Nat
        BY <2>1
    <3>4. ASSUME NEW j \in DOMAIN u0[n + 1]
          PROVE \E i \in 1..(n + 1) : i \in places /\ u0[n + 1][j] = s[i]
      <4>1. CASE j = Len(u0[n]) + 1
          BY <2>4, <3>2, <4>1
      <4>2. CASE j # Len(u0[n]) + 1
        <5>1. j \in DOMAIN u0[n] /\ u0[n + 1][j] = u0[n][j]
            BY <3>2, <3>3, <4>2
        <5>2. PICK i \in 1..n : i \in places /\ u0[n][j] = s[i]
            BY <2>1, <5>1 DEF PickedSoFar
        <5>3. QED BY <5>1, <5>2
      <4>3. QED BY <4>1, <4>2
    <3>5. ASSUME NEW i \in 1..(n + 1), i \in places
          PROVE \E j \in DOMAIN u0[n + 1] : u0[n + 1][j] = s[i]
      <4>1. CASE i = n + 1
          BY <3>2, <3>3, <4>1
      <4>2. CASE i # n + 1
        <5>1. PICK j \in DOMAIN u0[n] : u0[n][j] = s[i]
            BY <2>1, <3>5, <4>2 DEF PickedSoFar
        <5>2. j \in 1..Len(u0[n]) /\ j \in 1..(Len(u0[n]) + 1)
            BY <3>3, <5>1
        <5>3. j \in DOMAIN u0[n + 1] /\ u0[n + 1][j] = u0[n][j]
            BY <3>2, <5>2
        <5>4. QED BY <5>1, <5>3
      <4>3. QED BY <4>1, <4>2
    <3>6. QED BY <3>2, <3>4, <3>5 DEF PickedSoFar
  <2>5. QED BY <2>3, <2>4
<1>7. N \in T
  <2> HIDE DEF T
  <2>1. QED BY <1>1, <1>5, <1>6, Induction
<1>8. u0[N] \in Seq(S) /\ PickedSoFar(s, places, u0, N)
    BY <1>1, <1>7
<1>9. QED BY <1>1, <1>4, <1>8 DEF PickedSoFar

\* What FlattenSeq has after k of the sequences.
FlatSoFar(seqs, u, k) ==
    /\ \A j \in DOMAIN u[k] : \E i \in 1..k : \E m \in DOMAIN seqs[i] : u[k][j] = seqs[i][m]
    /\ \A i \in 1..k : \A m \in DOMAIN seqs[i] : \E j \in DOMAIN u[k] : u[k][j] = seqs[i][m]

\* The concatenation of sequences has their elements and no others.
LEMMA FlattenElements ==
    ASSUME NEW S, NEW seqs \in Seq(Seq(S))
    PROVE /\ FlattenSeq(seqs) \in Seq(S)
          /\ \A j \in DOMAIN FlattenSeq(seqs) : \E i \in DOMAIN seqs : \E m \in DOMAIN seqs[i] :
                FlattenSeq(seqs)[j] = seqs[i][m]
          /\ \A i \in DOMAIN seqs : \A m \in DOMAIN seqs[i] : \E j \in DOMAIN FlattenSeq(seqs) :
                FlattenSeq(seqs)[j] = seqs[i][m]
<1> DEFINE N == Len(seqs)
           F(u) == [i \in 1..N |-> IF i = 1 THEN seqs[i] ELSE u[i - 1] \o seqs[i]]
           step == [k \in 1..N |-> [x \in Seq(S) |-> x \o seqs[k]]]
           u0 == CHOOSE u : u = F(u)
<1>1. N \in Nat /\ DOMAIN seqs = 1..N /\ \A k \in 1..N : seqs[k] \in Seq(S)
    OBVIOUS
<1>2. \E u : u = F(u)
  <2>1. \A k \in 1..N, x \in Seq(S) : step[k][x] \in Seq(S)
      BY <1>1
  <2> DEFINE Q == Seq(S)
             none == <<>>
  <2> HIDE DEF N, step, Q, none
  <2>2. PICK g : Iteration(g, N, Q, none, step)
    <3>1. none \in Q /\ StepsIn(N, Q, step)
        BY <2>1 DEF Q, none, StepsIn
    <3>2. QED BY <1>1, <3>1, IterationExists
  <2>3. /\ g \in [0..N -> Seq(S)]
        /\ g[0] = <<>> /\ \A k \in 1..N : g[k] = step[k][g[k - 1]]
      BY <2>2 DEF Q, none, Iteration
  <2> DEFINE h == [k \in 1..N |-> g[k]]
  <2>4. ASSUME NEW k \in 1..N PROVE h[k] = F(h)[k]
    <3>0. k - 1 \in 0..N /\ seqs[k] \in Seq(S)
        BY <1>1
    <3>1. k - 1 \in 0..N /\ g[k - 1] \in Seq(S) /\ seqs[k] \in Seq(S)
        BY <2>3, <3>0
    <3>2. g[k] = g[k - 1] \o seqs[k]
        BY <2>3, <3>1 DEF step
    <3>3. CASE k = 1
      <4>1. g[k - 1] = <<>>
          BY <2>3, <3>3
      <4>2. g[k] = seqs[k]
          BY <3>1, <3>2, <4>1
      <4>3. QED BY <3>3, <4>2
    <3>4. CASE k # 1
      <4>1. k - 1 \in 1..N /\ h[k - 1] = g[k - 1]
          BY <1>1, <3>4
      <4>2. QED BY <3>2, <3>4, <4>1
    <3>5. QED BY <3>3, <3>4
  <2>5. h = F(h)
      BY <2>4
  <2>6. QED BY <2>5
<1>3. u0 = F(u0)
    BY <1>2
<1>4. CASE N = 0
  <2>1. FlattenSeq(seqs) = seqs
      BY <1>4 DEF FlattenSeq
  <2>2. seqs = <<>>
      BY <1>1, <1>4
  <2>3. FlattenSeq(seqs) = <<>> /\ DOMAIN seqs = {}
      BY <2>1, <2>2
  <2>4. QED BY <2>3
<1>5. CASE N # 0
  <2>1. FlattenSeq(seqs) = u0[N]
      BY <1>5 DEF FlattenSeq
  <2> HIDE DEF u0
  <2> DEFINE T == {k \in Nat : k + 1 <= N => u0[k + 1] \in Seq(S) /\ FlatSoFar(seqs, u0, k + 1)}
  <2>2. 0 \in T
    <3>1. u0[1] = seqs[1] /\ seqs[1] \in Seq(S)
        BY <1>1, <1>3, <1>5
    <3>2. 1 \in 1..1 /\ \A i \in 1..1 : i = 1
        OBVIOUS
    <3>3. u0[1] \in Seq(S) /\ FlatSoFar(seqs, u0, 1)
        BY <3>1, <3>2 DEF FlatSoFar
    <3>4. QED BY <3>3
  <2>3. ASSUME NEW n \in Nat, n \in T PROVE n + 1 \in T
    <3> DEFINE k == n + 1
    <3> SUFFICES ASSUME k + 1 <= N
                 PROVE u0[k + 1] \in Seq(S) /\ FlatSoFar(seqs, u0, k + 1)
        OBVIOUS
    <3>1. u0[k] \in Seq(S) /\ FlatSoFar(seqs, u0, k) /\ k + 1 \in 1..N /\ k \in Nat \ {0}
        BY <1>1, <2>3
    <3> HIDE DEF k
    <3>2. u0[k + 1] = u0[k] \o seqs[k + 1]
      <4>1. \A i \in 1..N : u0[i] = F(u0)[i]
          BY <1>3
      <4>2. k + 1 # 1 /\ (k + 1) - 1 = k
          BY <3>1
      <4>3. QED BY <3>1, <4>1, <4>2
    <3> HIDE DEF N
    <3> DEFINE a == u0[k]
               b == seqs[k + 1]
               c == u0[k + 1]
    <3>3. a \in Seq(S) /\ b \in Seq(S) /\ c = a \o b
        BY <1>1, <3>1, <3>2
    <3>4. /\ c \in Seq(S) /\ DOMAIN c = 1..(Len(a) + Len(b))
          /\ Len(a) \in Nat /\ Len(b) \in Nat /\ DOMAIN a = 1..Len(a) /\ DOMAIN b = 1..Len(b)
          /\ \A j \in 1..Len(a) : c[j] = a[j]
          /\ \A j \in 1..Len(b) : c[Len(a) + j] = b[j]
      <4> HIDE DEF a, b, c
      <4>1. c \in Seq(S) /\ Len(c) = Len(a) + Len(b)
          BY <3>3
      <4>2. /\ \A j \in 1..Len(a) : c[j] = a[j]
            /\ \A j \in 1..Len(b) : c[Len(a) + j] = b[j]
          BY <3>3
      <4>3. QED BY <3>3, <4>1, <4>2
    <3> HIDE DEF a, b, c
    <3>5. ASSUME NEW j \in DOMAIN c
          PROVE \E i \in 1..(k + 1) : \E m \in DOMAIN seqs[i] : c[j] = seqs[i][m]
      <4>1. CASE j \in 1..Len(a)
        <5>1. PICK i \in 1..k : \E m \in DOMAIN seqs[i] : a[j] = seqs[i][m]
            BY <3>1, <3>4, <4>1 DEF FlatSoFar, a
        <5>2. i \in 1..(k + 1) /\ c[j] = a[j]
            BY <3>1, <3>4, <4>1
        <5>3. QED BY <5>1, <5>2
      <4>2. CASE j \notin 1..Len(a)
        <5>1. j - Len(a) \in DOMAIN b /\ Len(a) + (j - Len(a)) = j
            BY <3>4, <4>2
        <5>2. c[j] = b[j - Len(a)]
            BY <3>4, <5>1
        <5>3. QED BY <3>1, <5>1, <5>2 DEF b
      <4>3. QED BY <4>1, <4>2
    <3>6. ASSUME NEW i \in 1..(k + 1), NEW m \in DOMAIN seqs[i]
          PROVE \E j \in DOMAIN c : c[j] = seqs[i][m]
      <4>1. CASE i = k + 1
        <5>1. m \in 1..Len(b) /\ Len(a) + m \in DOMAIN c /\ b[m] = seqs[i][m]
            BY <3>4, <4>1 DEF b
        <5>2. QED BY <3>4, <5>1
      <4>2. CASE i # k + 1
        <5>1. i \in 1..k
            BY <3>1, <4>2
        <5>2. PICK j \in DOMAIN a : a[j] = seqs[i][m]
            BY <3>1, <5>1 DEF FlatSoFar, a
        <5>3. QED BY <3>4, <5>2
      <4>3. QED BY <4>1, <4>2
    <3>7. QED BY <3>4, <3>5, <3>6 DEF FlatSoFar, c
  <2>4. N - 1 \in T
    <3>1. N - 1 \in Nat
        BY <1>1, <1>5
    <3> HIDE DEF T
    <3>2. QED BY <2>2, <2>3, <3>1, Induction
  <2>5. u0[N] \in Seq(S) /\ FlatSoFar(seqs, u0, N)
    <3>1. (N - 1) + 1 = N /\ N <= N
        BY <1>1
    <3>2. QED BY <2>4, <3>1
  <2> DEFINE flat == FlattenSeq(seqs)
             last == N
  <2>6. flat = u0[last] /\ DOMAIN seqs = 1..last /\ flat \in Seq(S) /\ FlatSoFar(seqs, u0, last)
      BY <1>1, <2>1, <2>5
  <2> HIDE DEF flat, last, N
  <2>7. /\ flat \in Seq(S)
        /\ \A j \in DOMAIN flat : \E i \in DOMAIN seqs : \E m \in DOMAIN seqs[i] : flat[j] = seqs[i][m]
        /\ \A i \in DOMAIN seqs : \A m \in DOMAIN seqs[i] : \E j \in DOMAIN flat : flat[j] = seqs[i][m]
    <3>1. \A j \in DOMAIN u0[last] : \E i \in 1..last : \E m \in DOMAIN seqs[i] :
             u0[last][j] = seqs[i][m]
        BY <2>6 DEF FlatSoFar
    <3>2. \A i \in 1..last : \A m \in DOMAIN seqs[i] : \E j \in DOMAIN u0[last] :
             u0[last][j] = seqs[i][m]
        BY <2>6 DEF FlatSoFar
    <3>a. u0[last] = flat /\ 1..last = DOMAIN seqs
        BY <2>6
    <3>3. \A j \in DOMAIN flat : \E i \in DOMAIN seqs : \E m \in DOMAIN seqs[i] : flat[j] = seqs[i][m]
        BY ONLY <3>1, <3>a, Zenon
    <3>4. \A i \in DOMAIN seqs : \A m \in DOMAIN seqs[i] : \E j \in DOMAIN flat : flat[j] = seqs[i][m]
        BY ONLY <3>2, <3>a, Zenon
    <3>5. QED BY <2>6, <3>3, <3>4
  <2>8. QED BY <2>7 DEF flat
<1>6. QED BY <1>4, <1>5

-----------------------------------------------------------------------------
(* What the analysis computes has its type. *)

Terms == [base : {"none", "n", "c"}, k : Nat]
Facts == [lo : Nat, hi : Words, expr : Terms, origin : Terms]
Guards == [lo : Words, hi : Words]
Owners == {"none", "input", "fresh", "unknown"}
Effects == {"yes", "no", "unknown"}
Worlds == [guard : Guards, value : Facts, owner : Owners, writes : Effects]
Cases == [value : Facts, owner : Owners, writes : Effects]

\* The summaries of a registry are sequences of worlds.
Typed(reg) == \A g \in DOMAIN reg : reg[g].worlds \in Seq(Worlds)

\* The parts of a program and of a path.
LEMMA ProgramParts ==
    ASSUME NEW p \in Programs, NEW f \in Functions
    PROVE /\ p.requires[f] \in Words
          /\ p.body[f] \in Seq(Paths)
          /\ \A i \in DOMAIN p.body[f] : p.body[f][i] \in Paths
<1>1. p \in [body : [Functions -> Seq(Paths)], requires : [Functions -> Words]]
    BY SummaryAssumption DEF SummaryAssumption
<1>2. QED BY <1>1

\* The fields of a path.
LEMMA PathParts ==
    ASSUME NEW path \in Paths
    PROVE /\ path.from \in Words /\ path.to \in Words /\ path.from <= path.to
          /\ path.callee \in Functions \cup {NoFunction} /\ path.base \in {"n", "c"}
          /\ path.k \in Words /\ path.add \in Words /\ path.bound \in Words
          /\ path.owner \in {"none", "input", "fresh"} /\ path.writes \in BOOLEAN
BY DEF Paths

\* A word is a natural number up to MaxWord.
LEMMA WordsAreNumbers ==
    /\ MaxWord \in Nat
    /\ \A x : x \in Words <=> x \in Nat /\ x <= MaxWord
BY SummaryAssumption DEF SummaryAssumption, Words

\* Addition wraps into a word, and does nothing to a sum that is one.
LEMMA WrapWord ==
    ASSUME NEW x \in Nat
    PROVE Wrap(x) \in Words /\ (x <= MaxWord => Wrap(x) = x)
<1>1. MaxWord \in Nat
    BY WordsAreNumbers
<1>2. x % (MaxWord + 1) \in 0..MaxWord
    BY <1>1
<1>3. x <= MaxWord => x % (MaxWord + 1) = x
    BY <1>1
<1>4. QED BY <1>2, <1>3 DEF Wrap, Words

\* The terms that a shift leads to.
LEMMA ShiftTerm ==
    ASSUME NEW t \in Terms, NEW k \in Nat
    PROVE /\ Shift(t, k) \in Terms /\ NoTerm \in Terms
          /\ Shift(t, k).base = t.base
          /\ t.base # "none" => Shift(t, k).k = t.k + k
BY DEF Shift, Terms, NoTerm

\* Sums of facts are facts.
LEMMA WordAddFact ==
    ASSUME NEW v \in Facts, NEW k \in Words
    PROVE WordAdd(v, k) \in Facts /\ UnknownWord \in Facts
<1>1. MaxWord \in Nat /\ k \in Nat /\ v.lo \in Nat /\ v.hi \in Nat /\ v.hi <= MaxWord
    BY WordsAreNumbers DEF Facts
<1>2. NoTerm \in Terms /\ Shift(v.expr, k) \in Terms /\ Shift(v.origin, k) \in Terms
    BY <1>1, ShiftTerm DEF Facts
<1>3. UnknownWord \in Facts
    BY <1>1, <1>2, WordsAreNumbers DEF UnknownWord, Fact, Facts
<1>4. v.hi + k <= MaxWord => Fact(v.lo + k, v.hi + k, Shift(v.expr, k), Shift(v.origin, k)) \in Facts
    BY <1>1, <1>2, WordsAreNumbers DEF Fact, Facts
<1>5. Fact(Wrap(v.lo + k), Wrap(v.lo + k), NoTerm, NoTerm) \in Facts
  <2>1. Wrap(v.lo + k) \in Words
      BY <1>1, WrapWord
  <2>2. QED BY <1>2, <2>1, WordsAreNumbers DEF Fact, Facts
<1>6. QED BY <1>3, <1>4, <1>5 DEF WordAdd

\* The operand of a live path is a fact.
LEMMA OperandFact ==
    ASSUME NEW p \in Programs, NEW f \in Functions, NEW i \in Live(p, f)
    PROVE Operand(p, p.body[f][i], f) \in Facts
<1> DEFINE path == p.body[f][i]
<1>1. path \in Paths /\ p.requires[f] \in Words
    BY ProgramParts DEF Live
<1> HIDE DEF path
<1>2. /\ path.from \in Words /\ path.to \in Words /\ path.k \in Words
      /\ MaxWord \in Nat
    BY <1>1, PathParts, WordsAreNumbers
<1>3. Entries(p, path, f) \in Facts
    BY <1>1, <1>2, WordsAreNumbers DEF Entries, ParameterFact, Fact, Facts, Terms, Smaller
<1>4. ConstantFact(path.k) \in Facts
    BY <1>2, WordsAreNumbers DEF ConstantFact, Fact, Facts, Terms, NoTerm
<1>5. Operand(p, path, f) \in Facts
    BY <1>2, <1>3, <1>4, WordAddFact DEF Operand
<1>6. QED BY <1>5 DEF path

\* The result of a call is a fact.
LEMMA ResultFact ==
    ASSUME NEW w \in Worlds, NEW arg \in Facts
    PROVE Result(w, arg) \in Facts
<1> DEFINE c == Computed(w, arg)
           v == w.value
           through(t) == IF t.base = "n" THEN Shift(arg.origin, t.k) ELSE NoTerm
<1>1. /\ v \in Facts /\ v.expr \in Terms /\ v.origin \in Terms
      /\ arg.expr \in Terms /\ arg.origin \in Terms
      /\ v.lo \in Nat /\ v.hi \in Words /\ arg.lo \in Nat /\ arg.hi \in Words
      /\ MaxWord \in Nat
    BY WordsAreNumbers DEF Worlds, Facts
<1>2. \A t \in Terms : t.k \in Nat
    BY DEF Terms
<1>3. c.lo \in Nat /\ c.hi \in Words
    BY <1>1, <1>2, WordsAreNumbers DEF Computed, Always
<1>4. \A t \in Terms : through(t) \in Terms /\ Shift(arg.expr, t.k) \in Terms
    BY <1>1, <1>2, ShiftTerm
<1> HIDE DEF c
<1>5. Greater(v.lo, c.lo) \in Nat /\ Smaller(v.hi, c.hi) \in Words
    BY <1>1, <1>3, WordsAreNumbers DEF Greater, Smaller
<1>6. QED BY <1>1, <1>4, <1>5 DEF Result, Fact, Facts, c

\* A function on 1..n is a sequence.
LEMMA FunctionIsSequence ==
    ASSUME NEW S, NEW n \in Nat, NEW s \in [1..n -> S]
    PROVE s \in Seq(S) /\ Len(s) = n
OBVIOUS

\* What the analysis makes of the return of a callee's world.
CaseOf(path, w, arg) ==
    [value |-> WordAdd(Result(w, arg), path.add), writes |-> w.writes,
     owner |-> IF path.owner = "none" THEN "none" ELSE w.owner]

\* The same, world by world.
CasesFrom(path, worlds, arg) == [i \in DOMAIN worlds |-> CaseOf(path, worlds[i], arg)]

\* The three ways in which a path comes to its cases.
LEMMA CasesByOutcome ==
    ASSUME NEW p, NEW path, NEW f, NEW reg, NEW assumed
    PROVE LET o == CallOutcome(p, path, f, reg, assumed)
              arg == Operand(p, path, f)
              cases == CasesOf(p, path, f, reg, assumed)
          IN  /\ o = "None" => cases = <<[value |-> arg, owner |-> path.owner, writes |-> "no"]>>
              /\ ~Used(o) =>
                    cases = <<[value |-> WordAdd(UnknownWord, path.add), writes |-> "unknown",
                               owner |-> IF path.owner = "none" THEN "none" ELSE "unknown"]>>
              /\ Used(o) /\ o # "None" =>
                    cases = Picked(CasesFrom(path, reg[path.callee].worlds, arg),
                                   Applicable(reg[path.callee], arg))
BY DEF CasesOf, CasesFrom, CaseOf, Used

\* When the summary of a callee is used there is one, and it applies.
LEMMA UsedOutcome ==
    ASSUME NEW p, NEW path, NEW f, NEW reg, NEW assumed,
           Used(CallOutcome(p, path, f, reg, assumed)), path.callee # NoFunction
    PROVE /\ path.callee \in DOMAIN reg
          /\ CallOutcome(p, path, f, reg, assumed) # "None"
          /\ Preconditions(p, path, f)
BY DEF CallOutcome, Used

LEMMA OutcomeNone ==
    ASSUME NEW p, NEW path, NEW f, NEW reg, NEW assumed
    PROVE CallOutcome(p, path, f, reg, assumed) = "None" <=> path.callee = NoFunction
BY DEF CallOutcome

\* The cases of a path are cases.
LEMMA CasesTyped ==
    ASSUME NEW p \in Programs, NEW f \in Functions, NEW i \in Live(p, f),
           NEW reg, Typed(reg), NEW assumed
    PROVE CasesOf(p, p.body[f][i], f, reg, assumed) \in Seq(Cases)
<1> DEFINE path == p.body[f][i]
           arg == Operand(p, path, f)
           o == CallOutcome(p, path, f, reg, assumed)
           worlds == reg[path.callee].worlds
           cases == CasesOf(p, path, f, reg, assumed)
<1>1. path \in Paths /\ arg \in Facts
    BY ProgramParts, OperandFact DEF Live
<1>2. path.owner \in Owners /\ path.add \in Words
    BY <1>1, PathParts DEF Owners
<1>3. WordAdd(UnknownWord, path.add) \in Facts
    BY <1>1, <1>2, WordAddFact
<1> HIDE DEF path, arg, o, worlds, cases
<1>4. CASE o = "None"
  <2>1. cases = <<[value |-> arg, owner |-> path.owner, writes |-> "no"]>>
      BY <1>4, CasesByOutcome DEF path, arg, o, cases
  <2>2. [value |-> arg, owner |-> path.owner, writes |-> "no"] \in Cases
      BY <1>1, <1>2 DEF Cases, Effects
  <2>3. cases \in Seq(Cases)
      BY <2>1, <2>2
  <2>4. QED BY <2>3 DEF cases, path
<1>5. CASE ~Used(o)
  <2> DEFINE c == [value |-> WordAdd(UnknownWord, path.add), writes |-> "unknown",
                   owner |-> IF path.owner = "none" THEN "none" ELSE "unknown"]
  <2>1. cases = <<c>>
      BY <1>5, CasesByOutcome DEF path, o, cases
  <2>2. c \in Cases
      BY <1>3 DEF Cases, Effects, Owners
  <2>3. cases \in Seq(Cases)
      BY <2>1, <2>2
  <2>4. QED BY <2>3 DEF cases, path
<1>6. CASE Used(o) /\ o # "None"
  <2>1. path.callee # NoFunction /\ path.callee \in DOMAIN reg
      BY <1>6, UsedOutcome, OutcomeNone DEF path, o
  <2>2. worlds \in Seq(Worlds)
      BY <2>1 DEF Typed, worlds, path
  <2>3. \A j \in DOMAIN worlds : CaseOf(path, worlds[j], arg) \in Cases
    <3> SUFFICES ASSUME NEW w \in Worlds PROVE CaseOf(path, w, arg) \in Cases
        BY <2>2
    <3>1. WordAdd(Result(w, arg), path.add) \in Facts
        BY <1>1, <1>2, ResultFact, WordAddFact
    <3>2. w.writes \in Effects /\ w.owner \in Owners
        BY DEF Worlds
    <3>3. QED BY <3>1, <3>2 DEF CaseOf, Cases, Owners
  <2>4. CasesFrom(path, worlds, arg) \in Seq(Cases)
    <3>1. DOMAIN worlds = 1..Len(worlds) /\ Len(worlds) \in Nat
        BY <2>2
    <3>2. CasesFrom(path, worlds, arg) \in [1..Len(worlds) -> Cases]
        BY <2>3, <3>1 DEF CasesFrom
    <3>3. QED BY <3>1, <3>2, FunctionIsSequence
  <2>5. cases = Picked(CasesFrom(path, worlds, arg), Applicable(reg[path.callee], arg))
      BY <1>6, CasesByOutcome DEF path, arg, o, worlds, cases
  <2>6. cases \in Seq(Cases)
      BY <2>4, <2>5, PickedElements
  <2>7. QED BY <2>6 DEF cases, path
<1>7. QED BY <1>4, <1>5, <1>6

\* The cases of the paths of a body.
BodyCases(p, f, reg, assumed) ==
    [i \in Live(p, f) |-> CasesOf(p, p.body[f][i], f, reg, assumed)]

\* What the journal of a body says of its writes.
JournalOf(p, f, cases) ==
    Joined({IF p.body[f][i].writes THEN "yes" ELSE "no" : i \in Live(p, f)}
           \cup UNION {{cases[i][j].writes : j \in DOMAIN cases[i]} : i \in Live(p, f)})

GuardOf(path) == [lo |-> path.from, hi |-> path.to]

\* The worlds that one path contributes.
WorldsOf(path, cases, writes) ==
    [j \in DOMAIN cases |-> World(GuardOf(path), cases[j].value, cases[j].owner, writes)]

VerifiedBody(p, f, cases) == \A i \in Live(p, f) : VerifiedPath(p, p.body[f][i], f, cases[i])

\* The worlds of each path, and of the whole body.
WorldsByPath(p, f, cases) ==
    [i \in DOMAIN p.body[f] |->
        IF i \in Live(p, f) THEN WorldsOf(p.body[f][i], cases[i], JournalOf(p, f, cases)) ELSE <<>>]

\* The result of analyzing a body, part by part.
LEMMA AnalysisParts ==
    ASSUME NEW p, NEW f, NEW reg, NEW assumed
    PROVE LET r == AnalyzeOne(p, f, reg, assumed)
              cases == BodyCases(p, f, reg, assumed)
          IN  /\ Fields(r)
              /\ r.worlds = FlattenSeq(WorldsByPath(p, f, cases))
              /\ r.verified = VerifiedBody(p, f, cases)
              /\ r.uses = UsesOf(p, f, reg, assumed)
              /\ r.outcome = "None"
              /\ r.state = IF VerifiedBody(p, f, cases)
                              /\ \A u \in UsesOf(p, f, reg, assumed) : Used(u[2])
                           THEN "Candidate" ELSE "Unknown"
<1> DEFINE cases == BodyCases(p, f, reg, assumed)
           worlds == FlattenSeq(WorldsByPath(p, f, cases))
           verified == VerifiedBody(p, f, cases)
           uses == UsesOf(p, f, reg, assumed)
           state == IF verified /\ \A u \in uses : Used(u[2]) THEN "Candidate" ELSE "Unknown"
<1>1. AnalyzeOne(p, f, reg, assumed) =
          [worlds |-> worlds, state |-> state, verified |-> verified, uses |-> uses,
           outcome |-> "None"]
    BY Zenon DEF AnalyzeOne, WorldsByPath, WorldsOf, JournalOf, GuardOf, VerifiedBody, BodyCases
<1> HIDE DEF worlds, verified, uses, state
<1>2. /\ Fields(AnalyzeOne(p, f, reg, assumed))
      /\ AnalyzeOne(p, f, reg, assumed).worlds = worlds
      /\ AnalyzeOne(p, f, reg, assumed).verified = verified
      /\ AnalyzeOne(p, f, reg, assumed).uses = uses
      /\ AnalyzeOne(p, f, reg, assumed).outcome = "None"
      /\ AnalyzeOne(p, f, reg, assumed).state = state
    BY <1>1 DEF Fields
<1>3. QED BY <1>2, Zenon DEF worlds, verified, uses, state

\* An effect is one of the three.
LEMMA JoinedEffect ==
    ASSUME NEW S
    PROVE /\ Joined(S) \in Effects
          /\ Joined(S) # "unknown" => "unknown" \notin S
          /\ Joined(S) = "no" => "yes" \notin S
BY DEF Joined, Effects

\* The worlds of a body are the cases of its paths, each under the guard of
\* its path and with the effects of the whole body.
LEMMA AnalysisWorlds ==
    ASSUME NEW p \in Programs, NEW f \in Functions, NEW reg, Typed(reg), NEW assumed
    PROVE LET worlds == AnalyzeOne(p, f, reg, assumed).worlds
              cases == BodyCases(p, f, reg, assumed)
              effect == JournalOf(p, f, cases)
          IN  /\ worlds \in Seq(Worlds)
              /\ effect \in Effects
              /\ \A m \in DOMAIN worlds : \E i \in Live(p, f) : \E j \in DOMAIN cases[i] :
                    worlds[m] = World(GuardOf(p.body[f][i]), cases[i][j].value, cases[i][j].owner, effect)
              /\ \A i \in Live(p, f) : \A j \in DOMAIN cases[i] : \E m \in DOMAIN worlds :
                    worlds[m] = World(GuardOf(p.body[f][i]), cases[i][j].value, cases[i][j].owner, effect)
<1> DEFINE worlds == AnalyzeOne(p, f, reg, assumed).worlds
           cases == BodyCases(p, f, reg, assumed)
           effect == JournalOf(p, f, cases)
           byPath == WorldsByPath(p, f, cases)
           body == p.body[f]
           live == Live(p, f)
           made(i, j) == World(GuardOf(body[i]), cases[i][j].value, cases[i][j].owner, effect)
<1>1. /\ body \in Seq(Paths) /\ live \subseteq DOMAIN body /\ DOMAIN body = 1..Len(body)
      /\ Len(body) \in Nat /\ \A i \in live : body[i] \in Paths
    BY ProgramParts DEF Live
<1>2. \A i \in live : cases[i] \in Seq(Cases)
    BY CasesTyped DEF BodyCases
<1>3. effect \in Effects
    BY JoinedEffect DEF JournalOf
<1>4. worlds = FlattenSeq(byPath)
    BY AnalysisParts
<1>5. /\ DOMAIN byPath = DOMAIN body
      /\ \A i \in DOMAIN body : byPath[i] = IF i \in live THEN WorldsOf(body[i], cases[i], effect)
                                            ELSE <<>>
    BY DEF WorldsByPath
<1> HIDE DEF worlds, cases, effect, byPath, body, live
<1>6. ASSUME NEW i \in live
      PROVE /\ byPath[i] \in Seq(Worlds) /\ DOMAIN byPath[i] = DOMAIN cases[i]
            /\ \A j \in DOMAIN cases[i] : byPath[i][j] = made(i, j)
  <2>1. byPath[i] = WorldsOf(body[i], cases[i], effect)
      BY <1>1, <1>5
  <2>2. /\ DOMAIN byPath[i] = DOMAIN cases[i]
        /\ \A j \in DOMAIN cases[i] : byPath[i][j] = made(i, j)
      BY <2>1 DEF WorldsOf
  <2>3. DOMAIN cases[i] = 1..Len(cases[i]) /\ Len(cases[i]) \in Nat
      BY <1>2
  <2>4. \A j \in DOMAIN cases[i] : made(i, j) \in Worlds
    <3>1. GuardOf(body[i]) \in Guards
        BY <1>1, PathParts DEF GuardOf, Guards
    <3>2. \A j \in DOMAIN cases[i] : cases[i][j].value \in Facts /\ cases[i][j].owner \in Owners
      <4>1. \A j \in DOMAIN cases[i] : cases[i][j] \in Cases
          BY <1>2, <2>3
      <4>2. QED BY <4>1 DEF Cases
    <3>3. QED BY <1>3, <3>1, <3>2 DEF World, Worlds
  <2>5. byPath[i] \in [1..Len(cases[i]) -> Worlds]
    <3>1. byPath[i] = [j \in DOMAIN cases[i] |-> byPath[i][j]]
        BY <2>1 DEF WorldsOf
    <3>2. QED BY <2>2, <2>3, <2>4, <3>1
  <2>6. QED BY <2>2, <2>3, <2>5, FunctionIsSequence
<1>7. byPath \in Seq(Seq(Worlds))
  <2>1. ASSUME NEW i \in DOMAIN body PROVE byPath[i] \in Seq(Worlds)
    <3>1. CASE i \in live
        BY <1>6, <3>1
    <3>2. CASE i \notin live
      <4>1. byPath[i] = <<>>
          BY <1>5, <3>2
      <4>2. QED BY <4>1
    <3>3. QED BY <3>1, <3>2
  <2>2. byPath = [i \in DOMAIN body |-> byPath[i]]
      BY <1>5 DEF WorldsByPath, byPath, body
  <2>3. byPath \in [1..Len(body) -> Seq(Worlds)]
      BY <1>1, <2>1, <2>2
  <2> DEFINE Q == Seq(Worlds)
             n == Len(body)
  <2>4. n \in Nat /\ byPath \in [1..n -> Q]
      BY <1>1, <2>3
  <2> HIDE DEF Q, n
  <2>5. byPath \in Seq(Q)
      BY <2>4, FunctionIsSequence
  <2>6. QED BY <2>5 DEF Q
<1>8. /\ worlds \in Seq(Worlds)
      /\ \A m \in DOMAIN worlds : \E i \in DOMAIN byPath : \E j \in DOMAIN byPath[i] :
            worlds[m] = byPath[i][j]
      /\ \A i \in DOMAIN byPath : \A j \in DOMAIN byPath[i] : \E m \in DOMAIN worlds :
            worlds[m] = byPath[i][j]
    BY <1>4, <1>7, FlattenElements
<1>9. ASSUME NEW m \in DOMAIN worlds
      PROVE \E i \in live : \E j \in DOMAIN cases[i] : worlds[m] = made(i, j)
  <2>0. PICK i \in DOMAIN byPath : \E j \in DOMAIN byPath[i] : worlds[m] = byPath[i][j]
      BY <1>8
  <2>1. PICK j \in DOMAIN byPath[i] : worlds[m] = byPath[i][j]
      BY <2>0
  <2>2. i \in live
    <3>1. CASE i \notin live
      <4>1. byPath[i] = <<>>
          BY <1>5, <2>1, <3>1
      <4>2. QED BY <2>1, <4>1
    <3>2. QED BY <3>1
  <2>3. j \in DOMAIN cases[i] /\ worlds[m] = made(i, j)
      BY <1>6, <2>1, <2>2
  <2>4. QED BY <2>2, <2>3
<1>10. ASSUME NEW i \in live, NEW j \in DOMAIN cases[i]
       PROVE \E m \in DOMAIN worlds : worlds[m] = made(i, j)
  <2>1. i \in DOMAIN byPath /\ j \in DOMAIN byPath[i] /\ byPath[i][j] = made(i, j)
      BY <1>1, <1>5, <1>6
  <2>2. QED BY <1>8, <2>1
<1>11. QED BY <1>3, <1>8, <1>9, <1>10 DEF worlds, cases, effect, body, live

\* What seeding returns.
LEMMA SeedWorlds ==
    ASSUME NEW r, r.worlds \in Seq(Worlds)
    PROVE /\ Seed(r) \in Seq(Worlds)
          /\ \A i \in DOMAIN Seed(r) :
                /\ Seed(r)[i].guard = Always /\ Seed(r)[i].writes = "yes"
                /\ Seed(r)[i].owner # "unknown"
<1> DEFINE usable == {i \in DOMAIN r.worlds : r.worlds[i].owner # "unknown"}
           informative == {i \in usable : Informative(r.worlds[i])}
           places == IF informative = {} THEN usable ELSE informative
           kept == Picked(r.worlds, places)
           out == [i \in DOMAIN kept |-> World(Always, kept[i].value, kept[i].owner, "yes")]
<1>1. Seed(r) = out
    BY DEF Seed
<1>2. places \subseteq usable
    OBVIOUS
<1> HIDE DEF places
<1>3. /\ kept \in Seq(Worlds)
      /\ \A j \in DOMAIN kept : \E i \in DOMAIN r.worlds : i \in places /\ kept[j] = r.worlds[i]
    BY PickedElements
<1>4. \A j \in DOMAIN kept : kept[j].owner # "unknown" /\ kept[j] \in Worlds
    BY <1>2, <1>3
<1>5. DOMAIN kept = 1..Len(kept) /\ Len(kept) \in Nat
    BY <1>3
<1> HIDE DEF kept, usable, informative
<1>6. Always \in Guards
    BY WordsAreNumbers DEF Always, Guards
<1>7. \A j \in DOMAIN kept :
         LET w == World(Always, kept[j].value, kept[j].owner, "yes")
         IN  w \in Worlds /\ w.guard = Always /\ w.writes = "yes" /\ w.owner # "unknown"
    BY <1>4, <1>6 DEF World, Worlds, Effects
<1>8. out \in [1..Len(kept) -> Worlds]
    BY <1>5, <1>7
<1>9. out \in Seq(Worlds)
    BY <1>5, <1>8, FunctionIsSequence
<1>10. QED BY <1>1, <1>7, <1>9

-----------------------------------------------------------------------------
(* What a pass does to the hypotheses. *)

\* Hypotheses: worlds without a guard and with their effects known.
Hypotheses ==
    {hyp \in Seq(Worlds) : \A i \in DOMAIN hyp : hyp[i].guard = Always /\ hyp[i].writes # "unknown"}

\* Nothing of hyp is lost in bs: each world covers the one it comes from.
Weakened(hyp, bs) ==
    DOMAIN hyp \subseteq DOMAIN bs /\ \A i \in DOMAIN hyp : WorldCovers(bs[i], hyp[i])

\* A world covers itself, and what is covered by one that it covers.
LEMMA CoversReflexive ==
    ASSUME NEW a \in Worlds, a.writes # "unknown"
    PROVE WorldCovers(a, a)
<1>1. a.value \in Facts /\ a.value.lo \in Nat /\ a.value.hi \in Nat
    BY WordsAreNumbers DEF Worlds, Facts
<1>2. QED BY <1>1 DEF WorldCovers, SameResources, EffectsCover, ValueCovers, Within

LEMMA CoversTransitive ==
    ASSUME NEW a \in Worlds, NEW b \in Worlds, NEW c \in Worlds,
           WorldCovers(a, b), WorldCovers(b, c)
    PROVE WorldCovers(a, c)
<1>1. \A w \in Worlds : w.value.lo \in Nat /\ w.value.hi \in Nat
    BY WordsAreNumbers DEF Worlds, Facts
<1>2. Within(c.value, a.value)
    BY <1>1 DEF WorldCovers, ValueCovers, Within
<1>3. QED BY <1>2 DEF WorldCovers, SameResources, EffectsCover, ValueCovers

\* A joined value is a value and is wider than the hypothesis.
LEMMA JoinValueWider ==
    ASSUME NEW a \in Facts, NEW b \in Facts, NEW widen
    PROVE JoinValue(a, b, widen) \in Facts /\ ValueCovers(JoinValue(a, b, widen), a)
<1> DEFINE fits == Within(b, a)
           lo == IF fits THEN a.lo ELSE IF widen THEN 0 ELSE Smaller(a.lo, b.lo)
           hi == IF fits THEN a.hi ELSE IF widen THEN MaxWord ELSE Greater(a.hi, b.hi)
           expr == IF a.expr = b.expr THEN a.expr ELSE NoTerm
           c == JoinValue(a, b, widen)
<1>1. c = [a EXCEPT !.lo = lo, !.hi = hi, !.expr = expr]
    BY DEF JoinValue
<1>2. /\ MaxWord \in Nat /\ a.lo \in Nat /\ b.lo \in Nat /\ a.hi \in Nat /\ b.hi \in Nat
      /\ a.hi <= MaxWord /\ b.hi <= MaxWord
    BY WordsAreNumbers DEF Facts
<1>3. /\ lo \in Nat /\ lo <= a.lo
      /\ hi \in Nat /\ hi <= MaxWord /\ a.hi <= hi
    BY <1>2 DEF Smaller, Greater
<1>4. expr \in Terms /\ (expr.base = "none" \/ expr = a.expr)
    BY DEF Facts, Terms, NoTerm
<1>5. hi \in Words
    BY <1>3, WordsAreNumbers
<1> HIDE DEF lo, hi, expr, c
<1>6. c \in Facts /\ c.lo = lo /\ c.hi = hi /\ c.expr = expr
    BY <1>1, <1>3, <1>4, <1>5 DEF Facts
<1>7. ValueCovers(c, a)
    BY <1>3, <1>4, <1>6 DEF ValueCovers, Within
<1>8. QED BY <1>6, <1>7 DEF c

LEMMA JoinIntoCovers ==
    ASSUME NEW a \in Worlds, NEW b \in Worlds, a.writes # "unknown", b.writes # "unknown",
           NEW widen
    PROVE LET c == JoinInto(a, b, widen)
          IN  /\ c \in Worlds /\ WorldCovers(c, a)
              /\ c.guard = a.guard /\ c.writes # "unknown"
<1> DEFINE c == JoinInto(a, b, widen)
           v == JoinValue(a.value, b.value, widen)
           e == Joined({a.writes, b.writes})
<1>1. a.value \in Facts /\ b.value \in Facts /\ a.writes \in Effects /\ b.writes \in Effects
    BY DEF Worlds
<1>2. v \in Facts /\ ValueCovers(v, a.value)
    BY <1>1, JoinValueWider
<1>3. e \in Effects /\ e # "unknown" /\ (a.writes = "yes" => e = "yes")
    BY <1>1 DEF Joined, Effects
<1>4. c = [a EXCEPT !.value = v, !.writes = e]
    BY DEF JoinInto
<1> HIDE DEF c, v, e
<1>5. /\ c \in Worlds /\ c.value = v /\ c.writes = e /\ c.owner = a.owner /\ c.guard = a.guard
    BY <1>2, <1>3, <1>4 DEF Worlds
<1>6. WorldCovers(c, a)
    BY <1>2, <1>3, <1>5 DEF WorldCovers, SameResources, EffectsCover
<1>7. QED BY <1>3, <1>5, <1>6 DEF c

\* What makes worlds hypotheses.
LEMMA HypothesisParts ==
    ASSUME NEW hyp \in Hypotheses
    PROVE /\ hyp \in Seq(Worlds) /\ Len(hyp) \in Nat /\ DOMAIN hyp = 1..Len(hyp)
          /\ \A i \in DOMAIN hyp : hyp[i] \in Worlds /\ hyp[i].guard = Always /\ hyp[i].writes # "unknown"
<1>1. hyp \in Seq(Worlds) /\ \A i \in DOMAIN hyp : hyp[i].guard = Always /\ hyp[i].writes # "unknown"
    BY Zenon DEF Hypotheses
<1>a. hyp \in Seq(Worlds)
    BY <1>1
<1>2. Len(hyp) \in Nat /\ DOMAIN hyp = 1..Len(hyp) /\ \A i \in DOMAIN hyp : hyp[i] \in Worlds
    BY <1>a
<1>3. QED BY <1>1, <1>2

\* A sequence that is not empty has a first element.
LEMMA FirstElement ==
    ASSUME NEW S, NEW s \in Seq(S), s # <<>>
    PROVE 1 \in DOMAIN s
<1>1. Len(s) \in Nat /\ DOMAIN s = 1..Len(s)
    OBVIOUS
<1>2. Len(s) # 0
    OBVIOUS
<1>3. QED BY <1>1, <1>2

\* Appending to a sequence, and replacing an element.
LEMMA AppendElements ==
    ASSUME NEW S, NEW s \in Seq(S), NEW x \in S
    PROVE /\ Append(s, x) \in Seq(S)
          /\ DOMAIN s \subseteq DOMAIN Append(s, x)
          /\ \A i \in DOMAIN s : Append(s, x)[i] = s[i]
          /\ \A i \in DOMAIN Append(s, x) : i \in DOMAIN s \/ Append(s, x)[i] = x
<1>1. Len(s) \in Nat /\ DOMAIN s = 1..Len(s)
    OBVIOUS
<1>2. /\ Append(s, x) \in Seq(S) /\ DOMAIN Append(s, x) = 1..(Len(s) + 1)
      /\ Append(s, x)[Len(s) + 1] = x /\ \A i \in 1..Len(s) : Append(s, x)[i] = s[i]
    OBVIOUS
<1>3. \A i \in 1..(Len(s) + 1) : i \in 1..Len(s) \/ i = Len(s) + 1
    BY <1>1
<1>4. 1..Len(s) \subseteq 1..(Len(s) + 1)
    BY <1>1
<1>5. QED BY <1>1, <1>2, <1>3, <1>4

LEMMA ReplaceElement ==
    ASSUME NEW S, NEW s \in Seq(S), NEW i \in DOMAIN s, NEW x \in S
    PROVE /\ [s EXCEPT ![i] = x] \in Seq(S)
          /\ DOMAIN [s EXCEPT ![i] = x] = DOMAIN s
          /\ [s EXCEPT ![i] = x][i] = x
          /\ \A j \in DOMAIN s : j # i => [s EXCEPT ![i] = x][j] = s[j]
<1>1. Len(s) \in Nat /\ DOMAIN s = 1..Len(s) /\ s \in [1..Len(s) -> S]
    OBVIOUS
<1>2. [s EXCEPT ![i] = x] \in [1..Len(s) -> S]
    BY <1>1
<1>3. [s EXCEPT ![i] = x] \in Seq(S)
    BY <1>1, <1>2, FunctionIsSequence
<1>4. QED BY <1>1, <1>3

\* One observed world is joined.
LEMMA JoinWorldWeakens ==
    ASSUME NEW hyp \in Hypotheses, NEW b \in Worlds, b.writes # "unknown", NEW widen
    PROVE JoinWorld(hyp, b, widen) \in Hypotheses /\ Weakened(hyp, JoinWorld(hyp, b, widen))
<1> DEFINE same == {i \in DOMAIN hyp : SameResources(hyp[i], b)}
           first == CHOOSE i \in same : \A j \in same : i <= j
           out == JoinWorld(hyp, b, widen)
<1>1. /\ hyp \in Seq(Worlds) /\ DOMAIN hyp = 1..Len(hyp) /\ Len(hyp) \in Nat
      /\ \A i \in DOMAIN hyp : hyp[i] \in Worlds /\ hyp[i].guard = Always /\ hyp[i].writes # "unknown"
    BY HypothesisParts
<1>2. \A i \in DOMAIN hyp : WorldCovers(hyp[i], hyp[i])
    BY <1>1, CoversReflexive
<1>3. CASE \E i \in DOMAIN hyp : WorldCovers(hyp[i], b)
  <2>1. out = hyp
      BY <1>3 DEF JoinWorld
  <2>2. QED BY <1>2, <2>1 DEF Weakened
<1>4. CASE ~(\E i \in DOMAIN hyp : WorldCovers(hyp[i], b)) /\ same = {}
  <2> DEFINE w == [b EXCEPT !.guard = Always]
  <2>1. out = Append(hyp, w)
      BY <1>4 DEF JoinWorld
  <2>2. w \in Worlds /\ w.guard = Always /\ w.writes # "unknown"
      BY WordsAreNumbers DEF Worlds, Guards, Always
  <2> HIDE DEF w, out
  <2>3. out \in Seq(Worlds) /\ DOMAIN hyp \subseteq DOMAIN out /\ \A i \in DOMAIN hyp : out[i] = hyp[i]
      BY <1>1, <2>1, <2>2, AppendElements
  <2>4. \A i \in DOMAIN out : i \in DOMAIN hyp \/ out[i] = w
      BY <1>1, <2>1, <2>2, AppendElements
  <2>5. out \in Hypotheses
      BY <1>1, <2>2, <2>3, <2>4 DEF Hypotheses
  <2>6. Weakened(hyp, out)
      BY <1>1, <1>2, <2>3 DEF Weakened
  <2>7. QED BY <2>5, <2>6 DEF out
<1>5. CASE ~(\E i \in DOMAIN hyp : WorldCovers(hyp[i], b)) /\ same # {}
  <2>1. first \in same
    <3>1. same \in SUBSET Nat
      <4>0. Len(hyp) \in Nat
          BY <1>1
      <4>1. 1..Len(hyp) \subseteq Nat
          BY <4>0
      <4>2. QED BY <1>1, <4>1
    <3>2. \E i \in same : \A j \in same : i <= j
        BY <1>5, <3>1, LeastElement
    <3>3. QED BY <3>2
  <2> DEFINE c == JoinInto(hyp[first], b, widen)
  <2>2. out = [hyp EXCEPT ![first] = c]
      BY <1>5 DEF JoinWorld
  <2> HIDE DEF first
  <2>3. first \in DOMAIN hyp
      BY <2>1
  <2>4. /\ c \in Worlds /\ WorldCovers(c, hyp[first])
        /\ c.guard = Always /\ c.writes # "unknown"
    <3>1. hyp[first] \in Worlds /\ hyp[first].guard = Always /\ hyp[first].writes # "unknown"
        BY <1>1, <2>3
    <3>2. QED BY <3>1, JoinIntoCovers
  <2> HIDE DEF c, same, out
  <2>5. /\ out \in Seq(Worlds) /\ DOMAIN out = DOMAIN hyp /\ out[first] = c
        /\ \A i \in DOMAIN hyp : i # first => out[i] = hyp[i]
      BY <1>1, <2>2, <2>3, <2>4, ReplaceElement
  <2>6. out \in Hypotheses
      BY <1>1, <2>4, <2>5 DEF Hypotheses
  <2>7. Weakened(hyp, out)
      BY <1>2, <2>4, <2>5 DEF Weakened
  <2>8. QED BY <2>6, <2>7 DEF out
<1>6. QED BY <1>3, <1>4, <1>5

\* All observed worlds are joined: the hypotheses only weaken.
LEMMA JoinWeakens ==
    ASSUME NEW hyp \in Hypotheses, NEW bs \in Seq(Worlds),
           \A k \in DOMAIN bs : bs[k].writes # "unknown", NEW widen
    PROVE Join(hyp, bs, widen) \in Hypotheses /\ Weakened(hyp, Join(hyp, bs, widen))
<1> DEFINE N == Len(bs)
           F(u) == [k \in 0..N |-> IF k = 0 THEN hyp ELSE JoinWorld(u[k - 1], bs[k], widen)]
           step == [k \in 1..N |-> [x \in Hypotheses |-> JoinWorld(x, bs[k], widen)]]
           u0 == CHOOSE u : u = F(u)
<1>1. N \in Nat /\ DOMAIN bs = 1..N /\ \A k \in 1..N : bs[k] \in Worlds /\ bs[k].writes # "unknown"
    OBVIOUS
<1>2. \E u : u = F(u)
  <2>1. StepsIn(N, Hypotheses, step)
      BY <1>1, JoinWorldWeakens DEF StepsIn
  <2> HIDE DEF N, step
  <2>2. PICK g : Iteration(g, N, Hypotheses, hyp, step)
      BY <1>1, <2>1, IterationExists
  <2>3. /\ g \in [0..N -> Hypotheses] /\ g[0] = hyp
        /\ \A k \in 1..N : g[k] = step[k][g[k - 1]]
      BY <2>2 DEF Iteration
  <2>4. ASSUME NEW k \in 0..N PROVE g[k] = F(g)[k]
    <3>1. CASE k = 0
        BY <2>3, <3>1
    <3>2. CASE k # 0
      <4>1. k \in 1..N /\ k - 1 \in 0..N /\ g[k - 1] \in Hypotheses
          BY <1>1, <2>3, <3>2
      <4>2. g[k] = JoinWorld(g[k - 1], bs[k], widen)
          BY <2>3, <4>1 DEF step
      <4>3. QED BY <3>2, <4>1, <4>2
    <3>3. QED BY <3>1, <3>2
  <2>5. g = F(g)
      BY <2>3, <2>4
  <2>6. QED BY <2>5
<1>3. u0 = F(u0)
    BY <1>2
<1>4. Join(hyp, bs, widen) = u0[N]
    BY DEF Join
<1>a. \A k \in 0..N : u0[k] = F(u0)[k]
    BY <1>3
<1> HIDE DEF u0, N
<1> DEFINE Good(k) == u0[k] \in Hypotheses /\ Weakened(hyp, u0[k])
           T == {k \in Nat : k <= N => Good(k)}
<1>5. 0 \in T
  <2>1. u0[0] = hyp
    <3>1. 0 \in 0..N
        BY <1>1
    <3>2. QED BY <1>a, <3>1
  <2>2. \A i \in DOMAIN hyp : hyp[i] \in Worlds /\ hyp[i].writes # "unknown"
      BY HypothesisParts
  <2>3. Weakened(hyp, hyp)
      BY <2>2, CoversReflexive DEF Weakened
  <2>4. Good(0)
      BY <2>1, <2>3
  <2> HIDE DEF Good
  <2>5. QED BY <2>4
<1>6. ASSUME NEW n \in Nat, n \in T PROVE n + 1 \in T
  <2> HIDE DEF Good
  <2> SUFFICES ASSUME n + 1 <= N PROVE Good(n + 1)
      OBVIOUS
  <2>0. Good(n) /\ n + 1 \in 1..N
      BY <1>1, <1>6
  <2> USE DEF Good
  <2>1. u0[n] \in Hypotheses /\ Weakened(hyp, u0[n]) /\ n + 1 \in 1..N
      BY <2>0
  <2>2. u0[n + 1] = JoinWorld(u0[n], bs[n + 1], widen)
    <3>2. n + 1 \in 0..N /\ n + 1 # 0 /\ (n + 1) - 1 = n
        BY <1>1, <2>1
    <3>3. QED BY <1>a, <3>2
  <2>3. u0[n + 1] \in Hypotheses /\ Weakened(u0[n], u0[n + 1])
      BY <1>1, <2>1, <2>2, JoinWorldWeakens
  <2>4. \A i \in DOMAIN hyp : WorldCovers(u0[n + 1][i], hyp[i]) /\ i \in DOMAIN u0[n + 1]
    <3> SUFFICES ASSUME NEW i \in DOMAIN hyp
                 PROVE WorldCovers(u0[n + 1][i], hyp[i]) /\ i \in DOMAIN u0[n + 1]
        OBVIOUS
    <3>1. i \in DOMAIN u0[n] /\ i \in DOMAIN u0[n + 1]
        BY <2>1, <2>3 DEF Weakened
    <3>2. hyp[i] \in Worlds /\ u0[n][i] \in Worlds /\ u0[n + 1][i] \in Worlds
        BY <2>1, <2>3, <3>1, HypothesisParts
    <3>3. WorldCovers(u0[n][i], hyp[i]) /\ WorldCovers(u0[n + 1][i], u0[n][i])
        BY <2>1, <2>3, <3>1 DEF Weakened
    <3>4. QED BY <3>1, <3>2, <3>3, CoversTransitive
  <2>5. QED BY <2>3, <2>4 DEF Weakened
<1>7. N \in T
  <2> HIDE DEF T
  <2>1. QED BY <1>1, <1>5, <1>6, Induction
<1>8. Good(N)
  <2> HIDE DEF Good
  <2>1. QED BY <1>1, <1>7
<1>9. QED BY <1>4, <1>8

\* Every effect in a registry is known.
Known(reg) == \A g \in DOMAIN reg : \A i \in DOMAIN reg[g].worlds : reg[g].worlds[i].writes # "unknown"

\* A body whose result is a candidate: every path is verified and the summary
\* of every callee is used.
LEMMA CandidatePaths ==
    ASSUME NEW p, NEW f, NEW reg, NEW assumed,
           AnalyzeOne(p, f, reg, assumed).state = "Candidate", NEW i \in Live(p, f)
    PROVE /\ VerifiedPath(p, p.body[f][i], f, BodyCases(p, f, reg, assumed)[i])
          /\ Used(CallOutcome(p, p.body[f][i], f, reg, assumed))
<1> DEFINE cases == BodyCases(p, f, reg, assumed)
           uses == UsesOf(p, f, reg, assumed)
           r == AnalyzeOne(p, f, reg, assumed)
<1>1. r.state = IF VerifiedBody(p, f, cases) /\ \A u \in uses : Used(u[2])
                THEN "Candidate" ELSE "Unknown"
    BY AnalysisParts
<1> HIDE DEF cases, uses, r
<1>2. VerifiedBody(p, f, cases) /\ \A u \in uses : Used(u[2])
    BY <1>1 DEF r
<1>3. <<p.body[f][i].callee, CallOutcome(p, p.body[f][i], f, reg, assumed)>> \in uses
    BY DEF uses, UsesOf
<1>4. QED BY <1>2, <1>3 DEF VerifiedBody, cases

\* Under known effects a candidate has known effects.
LEMMA CandidateEffects ==
    ASSUME NEW p \in Programs, NEW f \in Functions, NEW reg, Typed(reg), Known(reg), NEW assumed,
           AnalyzeOne(p, f, reg, assumed).state = "Candidate"
    PROVE \A m \in DOMAIN AnalyzeOne(p, f, reg, assumed).worlds :
             AnalyzeOne(p, f, reg, assumed).worlds[m].writes # "unknown"
<1> DEFINE worlds == AnalyzeOne(p, f, reg, assumed).worlds
           cases == BodyCases(p, f, reg, assumed)
           effect == JournalOf(p, f, cases)
<1>1. ASSUME NEW i \in Live(p, f), NEW j \in DOMAIN cases[i]
      PROVE cases[i][j].writes # "unknown"
  <2> DEFINE path == p.body[f][i]
             arg == Operand(p, path, f)
             o == CallOutcome(p, path, f, reg, assumed)
             ws == reg[path.callee].worlds
  <2>1. cases[i] = CasesOf(p, path, f, reg, assumed) /\ Used(o)
      BY CandidatePaths DEF BodyCases
  <2> HIDE DEF path, arg, o, ws, cases
  <2>2. CASE o = "None"
    <3>1. cases[i] = <<[value |-> arg, owner |-> path.owner, writes |-> "no"]>>
        BY <2>1, <2>2, CasesByOutcome DEF path, arg, o
    <3>2. QED BY <1>1, <3>1
  <2>3. CASE o # "None"
    <3>1. path.callee \in DOMAIN reg
        BY <2>1, <2>3, UsedOutcome, OutcomeNone DEF o
    <3>2. ws \in Seq(Worlds) /\ \A k \in DOMAIN ws : ws[k].writes # "unknown"
        BY <3>1 DEF Typed, Known, ws
    <3>3. cases[i] = Picked(CasesFrom(path, ws, arg), Applicable(reg[path.callee], arg))
        BY <2>1, <2>3, CasesByOutcome DEF arg, o, ws
    <3> DEFINE all == CasesFrom(path, ws, arg)
    <3>4. /\ all \in Seq({all[k] : k \in DOMAIN all}) /\ DOMAIN all = DOMAIN ws
          /\ \A k \in DOMAIN all : all[k].writes = ws[k].writes
      <4>1. ws \in Seq(Worlds)
          BY <3>2
      <4>2. Len(ws) \in Nat /\ DOMAIN ws = 1..Len(ws)
          BY <4>1
      <4>3. DOMAIN all = DOMAIN ws /\ \A k \in DOMAIN all : all[k].writes = ws[k].writes
          BY DEF CasesFrom, CaseOf
      <4>4. all \in [1..Len(ws) -> {all[k] : k \in DOMAIN all}]
          BY <4>2, <4>3 DEF CasesFrom
      <4> DEFINE R == {all[k] : k \in DOMAIN all}
                 n == Len(ws)
      <4>5. n \in Nat /\ all \in [1..n -> R]
          BY <4>2, <4>4
      <4> HIDE DEF all, R, n
      <4>6. all \in Seq(R)
          BY <4>5, FunctionIsSequence
      <4>7. QED BY <4>3, <4>6 DEF R, all
    <3> HIDE DEF all
    <3>5. PICK k \in DOMAIN all : cases[i][j] = all[k]
        BY <1>1, <3>3, <3>4, PickedElements DEF all
    <3>6. QED BY <3>2, <3>4, <3>5
  <2>4. QED BY <2>2, <2>3
<1>2. effect # "unknown"
  <2>1. \A i \in Live(p, f) : (IF p.body[f][i].writes THEN "yes" ELSE "no") # "unknown"
      OBVIOUS
  <2> HIDE DEF cases
  <2>2. "unknown" \notin UNION {{cases[i][j].writes : j \in DOMAIN cases[i]} : i \in Live(p, f)}
      BY <1>1
  <2>3. QED BY <2>1, <2>2 DEF JournalOf, Joined
<1>3. \A m \in DOMAIN worlds : \E i \in Live(p, f) : \E j \in DOMAIN cases[i] :
         worlds[m] = World(GuardOf(p.body[f][i]), cases[i][j].value, cases[i][j].owner, effect)
    BY AnalysisWorlds
<1> HIDE DEF worlds, cases, effect
<1>4. \A m \in DOMAIN worlds : worlds[m].writes = effect
    BY <1>3 DEF World
<1>5. QED BY <1>2, <1>4 DEF worlds

-----------------------------------------------------------------------------
(* The invariant of verify_program. *)

\* A result that rests on published summaries only.
Direct(r) == \A u \in r.uses : u[2] # "Inductive"

Reported(r) == Fields(r) /\ r.verified \in BOOLEAN /\ r.worlds \in Seq(Worlds)
Baseline(r) == Reported(r) /\ Direct(r)

\* The component on trial is the next one; it has hypotheses to start from, and
\* its baseline rests on published summaries.
TrialSound ==
    /\ pc = "done" => left = {}
    /\ pc # "trial" => component = {}
    /\ pc = "trial" => component \in NextComponents
    /\ \A f \in component : /\ Baseline(fallback[f])
                            /\ candidates[f] \in Hypotheses /\ candidates[f] # <<>>

RegistrySound == Typed(registry) /\ Known(registry)

SummaryInv == TypeOK /\ TrialSound /\ RegistrySound /\ NothingProvisional

\* Plus, entry by entry.
LEMMA PlusParts ==
    ASSUME NEW reg, NEW more
    PROVE /\ DOMAIN Plus(reg, more) = DOMAIN reg \cup DOMAIN more
          /\ \A f \in DOMAIN more : Plus(reg, more)[f] = more[f]
          /\ \A f \in DOMAIN reg : f \notin DOMAIN more => Plus(reg, more)[f] = reg[f]
BY DEF Plus

\* No call of a registry without hypotheses is inductive.
LEMMA BaselineAnalysis ==
    ASSUME NEW p \in Programs, NEW f \in Functions, NEW reg, Typed(reg)
    PROVE Baseline(AnalyzeOne(p, f, reg, {}))
<1> DEFINE r == AnalyzeOne(p, f, reg, {})
<1>1. Fields(r) /\ r.verified = VerifiedBody(p, f, BodyCases(p, f, reg, {})) /\ r.uses = UsesOf(p, f, reg, {})
    BY AnalysisParts
<1>2. r.worlds \in Seq(Worlds)
    BY AnalysisWorlds
<1>3. \A path : CallOutcome(p, path, f, reg, {}) # "Inductive"
    BY DEF CallOutcome
<1>4. \A u \in UsesOf(p, f, reg, {}) : u[2] # "Inductive"
    BY <1>3 DEF UsesOf
<1> HIDE DEF r
<1>5. r.verified \in BOOLEAN
    BY <1>1 DEF VerifiedBody
<1>6. QED BY <1>1, <1>2, <1>4, <1>5 DEF Baseline, Reported, Direct, r

\* The initial states.
LEMMA SummaryInit == Init => SummaryInv
<1> SUFFICES ASSUME Init PROVE SummaryInv
    OBVIOUS
<1>1. DOMAIN <<>> = {}
    OBVIOUS
<1>2. 0 \in 0..MaxIterations /\ 0 \in 0..MaxBodies /\ 0 \in Nat
    BY SummaryAssumption DEF SummaryAssumption
<1>3. TypeOK
    BY <1>1, <1>2 DEF Init, TypeOK
<1>4. TrialSound /\ RegistrySound /\ NothingProvisional
    BY <1>1 DEF Init, TrialSound, RegistrySound, Typed, Known, NothingProvisional
<1>5. QED BY <1>3, <1>4 DEF SummaryInv

\* What a component that is finished leaves behind.
LEMMA FinishKeeps ==
    ASSUME SummaryInv, NEW C \in SUBSET left, NEW more, DOMAIN more = C,
           \A f \in C : Reported(more[f]),
           results' = Plus(results, more), left' = left \ C, pc' = "next", prog' = prog, Idle,
           \/ registry' = registry /\ \A f \in C : Direct(more[f])
           \/ /\ registry' = Plus(registry, more)
              /\ \A f \in C : \A i \in DOMAIN more[f].worlds : more[f].worlds[i].writes # "unknown"
    PROVE SummaryInv'
<1>1. /\ TypeOK /\ TrialSound /\ RegistrySound /\ NothingProvisional
    BY DEF SummaryInv
<1>2. /\ DOMAIN results' = DOMAIN results \cup C
      /\ \A f \in C : results'[f] = more[f]
      /\ \A f \in DOMAIN results : f \notin C => results'[f] = results[f]
    BY PlusParts
<1>3. /\ DOMAIN registry \subseteq DOMAIN results /\ DOMAIN results = Functions \ left
      /\ C \subseteq left /\ left \subseteq Functions
    BY <1>1 DEF TypeOK
<1>4. \A f \in C : f \notin DOMAIN registry /\ f \notin DOMAIN results
    BY <1>3
<1>5. \/ /\ registry' = registry /\ \A f \in C : Direct(more[f])
      \/ /\ DOMAIN registry' = DOMAIN registry \cup C
         /\ \A f \in C : registry'[f] = more[f]
         /\ \A f \in DOMAIN registry : registry'[f] = registry[f]
         /\ \A f \in C : \A i \in DOMAIN more[f].worlds : more[f].worlds[i].writes # "unknown"
  <2>1. CASE registry' = Plus(registry, more)
    <3>1. /\ DOMAIN registry' = DOMAIN registry \cup C
          /\ \A f \in C : registry'[f] = more[f]
          /\ \A f \in DOMAIN registry : f \notin C => registry'[f] = registry[f]
      <4>1. /\ DOMAIN Plus(registry, more) = DOMAIN registry \cup DOMAIN more
            /\ \A f \in DOMAIN more : Plus(registry, more)[f] = more[f]
            /\ \A f \in DOMAIN registry : f \notin DOMAIN more => Plus(registry, more)[f] = registry[f]
          BY PlusParts
      <4>2. QED BY ONLY <2>1, <4>1, DOMAIN more = C, Zenon
    <3>2. CASE registry' = registry /\ \A f \in C : Direct(more[f])
        BY <3>2
    <3>3. CASE \A f \in C : \A i \in DOMAIN more[f].worlds : more[f].worlds[i].writes # "unknown"
        BY <1>4, <3>1, <3>3
    <3>4. QED BY <3>2, <3>3
  <2>2. QED BY <2>1
<1>6. TypeOK'
  <2>1. DOMAIN <<>> = {} /\ 0 \in 0..MaxIterations /\ 0 \in 0..MaxBodies /\ 0 \in Nat
      BY SummaryAssumption DEF SummaryAssumption
  <2>2. left' \subseteq Functions /\ component' \subseteq left'
      BY <1>3 DEF Idle
  <2>3. DOMAIN registry' \subseteq DOMAIN results' /\ DOMAIN results' = Functions \ left'
      BY <1>2, <1>3, <1>5
  <2>4. \A f \in DOMAIN results' : Fields(results'[f]) /\ results'[f].verified \in BOOLEAN
      BY <1>1, <1>2 DEF TypeOK, Reported
  <2>5. prog' \in Programs
      BY <1>1 DEF TypeOK
  <2>6. QED BY <2>1, <2>2, <2>3, <2>4, <2>5 DEF TypeOK, Idle
<1>7. TrialSound'
    BY DEF TrialSound, Idle
<1>8. RegistrySound'
    BY <1>1, <1>5 DEF RegistrySound, Typed, Known, Reported
<1>9. NothingProvisional'
  <2>1. ASSUME NEW f \in DOMAIN results'
        PROVE \/ f \in DOMAIN registry' /\ registry'[f] = results'[f]
              \/ f \notin DOMAIN registry' /\ Direct(results'[f])
    <3>1. CASE f \in C
        BY <1>2, <1>4, <1>5, <3>1
    <3>2. CASE f \notin C
      <4>1. f \in DOMAIN results /\ results'[f] = results[f]
          BY <1>2, <3>2
      <4>2. \/ f \in DOMAIN registry /\ registry[f] = results[f]
            \/ f \notin DOMAIN registry /\ Direct(results[f])
          BY <1>1, <4>1 DEF NothingProvisional, Direct
      <4>3. QED BY <1>5, <3>2, <4>1, <4>2
    <3>3. QED BY <3>1, <3>2
  <2>2. QED BY <2>1 DEF NothingProvisional, Direct
<1>10. QED BY <1>6, <1>7, <1>8, <1>9 DEF SummaryInv

LEMMA LeaveKeeps ==
    ASSUME SummaryInv, NEW C \in SUBSET left, NEW base, \A f \in C : Baseline(base[f]), NEW why,
           LeaveBaseline(C, base, why)
    PROVE SummaryInv'
<1> DEFINE more == [f \in C |-> [base[f] EXCEPT !.outcome = why]]
<1>1. DOMAIN more = C
    OBVIOUS
<1>2. \A f \in C : Reported(more[f]) /\ Direct(more[f])
    BY DEF Baseline, Reported, Direct, Fields
<1>3. /\ results' = Plus(results, more) /\ left' = left \ C /\ pc' = "next" /\ prog' = prog
      /\ Idle /\ registry' = registry
    BY DEF LeaveBaseline
<1> HIDE DEF more
<1>4. QED BY <1>1, <1>2, <1>3, FinishKeeps

LEMMA SingleKeeps ==
    ASSUME SummaryInv, AnalyzeSingle
    PROVE SummaryInv'
<1>1. PICK C \in NextComponents : \E f \in C :
          /\ Alone(C)
          /\ left' = left \ C
          /\ \E r \in {AnalyzeOne(prog, f, registry, {})} :
                /\ results' = Plus(results, [g \in C |-> r])
                /\ registry' = IF Closes(r) THEN Plus(registry, [g \in C |-> r]) ELSE registry
    BY DEF AnalyzeSingle
<1>2. PICK f \in C :
          /\ left' = left \ C
          /\ \E r \in {AnalyzeOne(prog, f, registry, {})} :
                /\ results' = Plus(results, [g \in C |-> r])
                /\ registry' = IF Closes(r) THEN Plus(registry, [g \in C |-> r]) ELSE registry
    BY <1>1
<1> DEFINE r == AnalyzeOne(prog, f, registry, {})
           more == [g \in C |-> r]
<1>3. /\ results' = Plus(results, more)
      /\ registry' = IF Closes(r) THEN Plus(registry, more) ELSE registry
      /\ left' = left \ C
    BY <1>2
<1>4. C \in SUBSET left /\ f \in Functions /\ prog \in Programs /\ Typed(registry)
    BY DEF NextComponents, SummaryInv, TypeOK, RegistrySound
<1>5. Baseline(r)
    BY <1>4, BaselineAnalysis
<1> HIDE DEF r
<1>6. DOMAIN more = C /\ \A g \in C : more[g] = r
    OBVIOUS
<1>7. \A g \in C : Reported(more[g]) /\ Direct(more[g])
    BY <1>5, <1>6 DEF Baseline
<1>8. Closes(r) => \A g \in C : \A i \in DOMAIN more[g].worlds : more[g].worlds[i].writes # "unknown"
    BY <1>6 DEF Closes, Ready
<1> HIDE DEF more
<1>9. pc' = "next" /\ prog' = prog /\ Idle
    BY DEF AnalyzeSingle
<1>10. QED BY <1>3, <1>4, <1>6, <1>7, <1>8, <1>9, FinishKeeps

\* Components are finite, and so is the number of their worlds.
LEMMA CountsAreNumbers ==
    ASSUME SummaryInv
    PROVE Cardinality(component) \in Nat /\ WorldCount \in Nat /\ Peak \in Nat
<1>1. component \subseteq Functions /\ \A f \in component : candidates[f] \in Hypotheses
    BY DEF SummaryInv, TypeOK, TrialSound
<1>2. IsFiniteSet(component)
    BY <1>1, SummaryAssumption, FS_Subset DEF SummaryAssumption
<1>3. Cardinality(component) \in Nat
    BY <1>2, FS_CardinalityType
<1> DEFINE D(f) == {f} \X DOMAIN candidates[f]
           all == {D(f) : f \in component}
<1>4. IsFiniteSet(all)
  <2> DEFINE image == [f \in component |-> D(f)]
  <2>1. image \in Surjection(component, all)
      BY DEF Surjection
  <2>2. QED BY <1>2, <2>1, FS_Surjection DEF ExistsSurjection
<1>5. \A f \in component : IsFiniteSet(D(f))
  <2> SUFFICES ASSUME NEW f \in component PROVE IsFiniteSet(D(f))
      OBVIOUS
  <2>1. Len(candidates[f]) \in Nat /\ DOMAIN candidates[f] = 1..Len(candidates[f])
      BY <1>1, HypothesisParts
  <2>2. IsFiniteSet(1..Len(candidates[f]))
      BY <2>1, FS_Interval
  <2>3. IsFiniteSet({f})
      BY FS_Singleton
  <2>4. QED BY <2>1, <2>2, <2>3, FS_Product
<1>6. IsFiniteSet(UNION all)
    BY <1>4, <1>5, FS_UNION
<1>7. WorldCount \in Nat
    BY <1>6, FS_CardinalityType DEF WorldCount
<1>8. QED BY <1>3, <1>7 DEF Peak, Greater, SummaryInv, TypeOK

LEMMA StartKeeps ==
    ASSUME SummaryInv, StartComponent
    PROVE SummaryInv'
<1> DEFINE Base(C) == [f \in C |-> AnalyzeOne(prog, f, registry, {})]
           Seeds(C) == [f \in C |-> Seed(Base(C)[f])]
<1>1. PICK C \in NextComponents :
         \/ LeaveBaseline(C, Base(C), "FunctionBudget")
         \/ LeaveBaseline(C, Base(C), "Unsupported")
         \/ /\ \A f \in C : Seeds(C)[f] # <<>>
            /\ pc' = "trial" /\ component' = C
            /\ fallback' = Base(C) /\ candidates' = Seeds(C)
            /\ UNCHANGED <<prog, left, registry, results, iterations, bodies, peak, finalPass>>
  <2>1. PICK C \in NextComponents :
          \E base \in {Base(C)} : \E seeds \in {[f \in C |-> Seed(base[f])]} :
                 \/ LeaveBaseline(C, base, "FunctionBudget")
                 \/ LeaveBaseline(C, base, "Unsupported")
                 \/ /\ \A f \in C : seeds[f] # <<>>
                    /\ pc' = "trial" /\ component' = C
                    /\ fallback' = base /\ candidates' = seeds
                    /\ UNCHANGED <<prog, left, registry, results,
                                   iterations, bodies, peak, finalPass>>
      BY Zenon DEF StartComponent
  <2>2. QED BY <2>1
<1>2. /\ C \in SUBSET left /\ C \subseteq Functions /\ prog \in Programs /\ Typed(registry)
    BY DEF NextComponents, SummaryInv, TypeOK, RegistrySound
<1>3. \A f \in C : Base(C)[f] = AnalyzeOne(prog, f, registry, {}) /\ Baseline(Base(C)[f])
    BY <1>2, BaselineAnalysis
<1>4. CASE LeaveBaseline(C, Base(C), "FunctionBudget") \/ LeaveBaseline(C, Base(C), "Unsupported")
  <2> DEFINE base == Base(C)
  <2>1. \A f \in C : Baseline(base[f])
      BY <1>3
  <2>2. LeaveBaseline(C, base, "FunctionBudget") \/ LeaveBaseline(C, base, "Unsupported")
      BY <1>4
  <2> HIDE DEF base
  <2>3. QED BY <1>2, <2>1, <2>2, LeaveKeeps
<1>5. CASE /\ \A f \in C : Seeds(C)[f] # <<>>
           /\ pc' = "trial" /\ component' = C
           /\ fallback' = Base(C) /\ candidates' = Seeds(C)
           /\ UNCHANGED <<prog, left, registry, results, iterations, bodies, peak, finalPass>>
  <2>1. DOMAIN fallback' = C /\ DOMAIN candidates' = C /\ component' = C
      BY <1>5
  <2>2. ASSUME NEW f \in C
        PROVE Baseline(fallback'[f]) /\ candidates'[f] \in Hypotheses /\ candidates'[f] # <<>>
    <3>1. Baseline(fallback'[f]) /\ candidates'[f] = Seed(fallback'[f]) /\ candidates'[f] # <<>>
        BY <1>3, <1>5
    <3>2. fallback'[f].worlds \in Seq(Worlds)
        BY <3>1 DEF Baseline, Reported
    <3>3. candidates'[f] \in Hypotheses
        BY <3>1, <3>2, SeedWorlds DEF Hypotheses
    <3>4. QED BY <3>1, <3>3
  <2>3. TypeOK'
      BY <1>2, <1>5, <2>1 DEF TypeOK, SummaryInv
  <2>4. TrialSound'
    <3>1. NextComponents' = NextComponents
        BY <1>5 DEF NextComponents, CallsOf
    <3>2. QED BY <1>5, <2>1, <2>2, <3>1 DEF TrialSound
  <2>5. RegistrySound' /\ NothingProvisional'
      BY <1>5 DEF SummaryInv, RegistrySound, NothingProvisional, Typed, Known
  <2>6. QED BY <2>3, <2>4, <2>5 DEF SummaryInv
<1>6. QED BY <1>1, <1>4, <1>5

\* The summaries a pass works with.
LEMMA TrialRegistry ==
    ASSUME SummaryInv
    PROVE /\ DOMAIN Trial = DOMAIN registry \cup component
          /\ \A f \in component : Trial[f].worlds = candidates[f]
          /\ \A f \in DOMAIN registry : f \notin component => Trial[f] = registry[f]
          /\ Typed(Trial) /\ Known(Trial)
          /\ \A f \in component : f \notin DOMAIN registry
<1> DEFINE more == [f \in component |-> [worlds |-> candidates[f]]]
<1>1. DOMAIN more = component /\ \A f \in component : more[f].worlds = candidates[f]
    OBVIOUS
<1>2. Trial = Plus(registry, more)
    BY DEF Trial
<1> HIDE DEF more
<1>3. /\ DOMAIN Trial = DOMAIN registry \cup component
      /\ \A f \in component : Trial[f] = more[f]
      /\ \A f \in DOMAIN registry : f \notin component => Trial[f] = registry[f]
  <2>1. /\ DOMAIN Plus(registry, more) = DOMAIN registry \cup DOMAIN more
        /\ \A f \in DOMAIN more : Plus(registry, more)[f] = more[f]
        /\ \A f \in DOMAIN registry : f \notin DOMAIN more => Plus(registry, more)[f] = registry[f]
      BY PlusParts
  <2>2. QED BY <1>1, <1>2, <2>1, Zenon
<1>4. \A f \in component : Trial[f].worlds = candidates[f]
    BY <1>1, <1>3
<1>5. \A f \in component : candidates[f] \in Seq(Worlds) /\ \A i \in DOMAIN candidates[f] : candidates[f][i].writes # "unknown"
    BY HypothesisParts DEF SummaryInv, TrialSound
<1>6. Typed(registry) /\ Known(registry)
    BY DEF SummaryInv, RegistrySound
<1>7. Typed(Trial) /\ Known(Trial)
    BY <1>3, <1>4, <1>5, <1>6 DEF Typed, Known
<1>8. \A f \in component : f \notin DOMAIN registry
    BY DEF SummaryInv, TypeOK
<1>9. QED BY <1>3, <1>4, <1>7, <1>8

\* What the bodies of the component return under the hypotheses.
LEMMA ObservedWorlds ==
    ASSUME SummaryInv, NEW f \in component
    PROVE LET r == Observed(Trial)[f]
          IN  /\ r = AnalyzeOne(prog, f, Trial, component)
              /\ Reported(r)
              /\ r.state = "Candidate" =>
                    \A i \in DOMAIN r.worlds : r.worlds[i].writes # "unknown"
<1> DEFINE r == AnalyzeOne(prog, f, Trial, component)
<1>1. Observed(Trial)[f] = r
    BY DEF Observed
<1>2. prog \in Programs /\ f \in Functions /\ Typed(Trial) /\ Known(Trial)
    BY TrialRegistry DEF SummaryInv, TypeOK
<1>3. Fields(r) /\ r.verified = VerifiedBody(prog, f, BodyCases(prog, f, Trial, component))
    BY AnalysisParts
<1>4. r.worlds \in Seq(Worlds)
    BY <1>2, AnalysisWorlds
<1>5. r.state = "Candidate" => \A i \in DOMAIN r.worlds : r.worlds[i].writes # "unknown"
    BY <1>2, CandidateEffects
<1> HIDE DEF r
<1>6. Reported(r)
    BY <1>3, <1>4 DEF Reported, VerifiedBody
<1>7. QED BY <1>1, <1>5, <1>6 DEF r

\* The alternatives of a pass.
PassGoesOn ==
    /\ Replay(Observed(Trial)) \/ Weaken(Observed(Trial))
    /\ iterations' = Count /\ peak' = Peak
    /\ bodies' = bodies + Cardinality(component)
    /\ UNCHANGED <<prog, pc, left, registry, results, component, fallback>>

LEMMA PassCases ==
    ASSUME Pass
    PROVE /\ pc = "trial" /\ ~OverState /\ ~OverBodies /\ ~OverIterations
          /\ \/ PassFails(Observed(Trial)) \/ NotCovered(Observed(Trial))
             \/ Publish(Observed(Trial)) \/ PassGoesOn
BY Zenon DEF Pass, PassGoesOn

\* Going on with weaker hypotheses, or once more with the same ones.
LEMMA GoingOn ==
    ASSUME SummaryInv, Pass, PassGoesOn
    PROVE /\ SummaryInv'
          /\ \A f \in component : Weakened(candidates[f], candidates'[f])
<1> DEFINE observed == Observed(Trial)
<1>1. /\ pc = "trial" /\ ~OverState /\ ~OverBodies /\ ~OverIterations
    BY PassCases
<1>2. /\ TypeOK /\ TrialSound /\ RegistrySound /\ NothingProvisional
    BY DEF SummaryInv
<1>3. /\ DOMAIN candidates' = component /\ finalPass' \in BOOLEAN
      /\ \A f \in component : candidates'[f] \in Hypotheses /\ Weakened(candidates[f], candidates'[f])
  <2>1. CASE Replay(observed)
    <3>1. finalPass' = TRUE /\ candidates' = candidates
        BY <2>1 DEF Replay
    <3>2. DOMAIN candidates = component /\ \A f \in component : candidates[f] \in Hypotheses
        BY <1>2 DEF TypeOK, TrialSound
    <3>3. \A f \in component : Weakened(candidates[f], candidates[f])
        BY <3>2, HypothesisParts, CoversReflexive DEF Weakened
    <3>4. QED BY <3>1, <3>2, <3>3
  <2>2. CASE Weaken(observed)
    <3>1. /\ finalPass' = finalPass /\ Complete(observed)
          /\ candidates' = [f \in component |-> Join(candidates[f], observed[f].worlds, Count > WidenAfter)]
        BY <2>2 DEF Weaken
    <3>2. DOMAIN candidates' = component /\ finalPass' \in BOOLEAN
        BY <1>2, <3>1 DEF TypeOK
    <3> DEFINE widen == Count > WidenAfter
    <3>3. \A f \in component : candidates'[f] = Join(candidates[f], observed[f].worlds, widen)
        BY <3>1
    <3> HIDE DEF observed, widen
    <3>4. ASSUME NEW f \in component
          PROVE candidates'[f] \in Hypotheses /\ Weakened(candidates[f], candidates'[f])
      <4>1. /\ observed[f].worlds \in Seq(Worlds)
            /\ \A i \in DOMAIN observed[f].worlds : observed[f].worlds[i].writes # "unknown"
          BY <3>1, ObservedWorlds DEF Complete, Reported, observed
      <4>2. candidates[f] \in Hypotheses
          BY <1>2 DEF TrialSound
      <4>3. QED BY <3>3, <4>1, <4>2, JoinWeakens
    <3>5. QED BY <3>2, <3>4
  <2>3. QED BY <2>1, <2>2 DEF PassGoesOn
<1>4. iterations' \in 0..MaxIterations /\ bodies' \in 0..MaxBodies /\ peak' \in Nat
  <2>1. iterations \in 0..MaxIterations /\ bodies \in 0..MaxBodies /\ finalPass \in BOOLEAN
        /\ MaxIterations \in Nat /\ MaxBodies \in Nat
      BY <1>2, SummaryAssumption DEF TypeOK, SummaryAssumption
  <2>2. iterations' \in 0..MaxIterations
      BY <1>1, <2>1 DEF PassGoesOn, Count, OverIterations
  <2>3. bodies' \in 0..MaxBodies
      BY <1>1, <2>1, CountsAreNumbers DEF PassGoesOn, OverBodies
  <2>4. QED BY <2>2, <2>3, CountsAreNumbers DEF PassGoesOn
<1>5. TypeOK'
    BY <1>2, <1>3, <1>4 DEF TypeOK, PassGoesOn
<1>6. ASSUME NEW f \in component PROVE candidates'[f] # <<>>
  <2>1. candidates[f] \in Hypotheses /\ candidates[f] # <<>> /\ Weakened(candidates[f], candidates'[f])
      BY <1>2, <1>3 DEF TrialSound
  <2>2. candidates[f] \in Seq(Worlds)
      BY <2>1, HypothesisParts
  <2>3. DOMAIN candidates[f] # {}
      BY <2>1, <2>2, FirstElement
  <2>4. DOMAIN candidates'[f] # {}
      BY <2>1, <2>3 DEF Weakened
  <2>5. QED BY <2>4
<1>7. TrialSound'
  <2>1. NextComponents' = NextComponents
      BY DEF NextComponents, CallsOf, PassGoesOn
  <2>2. QED BY <1>1, <1>2, <1>3, <1>6, <2>1 DEF TrialSound, PassGoesOn
<1>8. RegistrySound' /\ NothingProvisional'
    BY <1>2 DEF RegistrySound, NothingProvisional, Typed, Known, PassGoesOn
<1>9. QED BY <1>3, <1>5, <1>7, <1>8 DEF SummaryInv

LEMMA PublishKeeps ==
    ASSUME SummaryInv, Publish(Observed(Trial))
    PROVE SummaryInv'
<1> DEFINE observed == Observed(Trial)
           closed == [f \in component |-> [observed[f] EXCEPT !.outcome = "Closed"]]
<1>1. /\ registry' = Plus(registry, closed) /\ results' = Plus(results, closed)
      /\ pc' = "next" /\ left' = left \ component /\ Idle /\ prog' = prog
      /\ Complete(observed)
    BY DEF Publish
<1>2. component \in SUBSET left /\ DOMAIN closed = component
    BY DEF SummaryInv, TypeOK
<1>3. ASSUME NEW f \in component
      PROVE /\ Reported(closed[f])
            /\ \A i \in DOMAIN closed[f].worlds : closed[f].worlds[i].writes # "unknown"
  <2>1. /\ Reported(observed[f])
        /\ \A i \in DOMAIN observed[f].worlds : observed[f].worlds[i].writes # "unknown"
      BY <1>1, ObservedWorlds DEF Complete
  <2> HIDE DEF observed
  <2>2. closed[f] = [observed[f] EXCEPT !.outcome = "Closed"]
      OBVIOUS
  <2>3. closed[f].worlds = observed[f].worlds /\ Reported(closed[f])
      BY <2>1, <2>2 DEF Reported, Fields
  <2>4. QED BY <2>1, <2>3
<1> HIDE DEF closed
<1>4. QED BY <1>1, <1>2, <1>3, FinishKeeps

\* Ending a trial without a result.
LEMMA EndKeeps ==
    ASSUME SummaryInv, NEW why, LeaveBaseline(component, fallback, why)
    PROVE SummaryInv'
<1>1. component \in SUBSET left /\ \A f \in component : Baseline(fallback[f])
    BY DEF SummaryInv, TypeOK, TrialSound
<1>2. QED BY <1>1, LeaveKeeps

\* Every step preserves the invariant.
LEMMA SummaryStep == SummaryInv /\ [Next]_vars => SummaryInv'
<1> SUFFICES ASSUME SummaryInv, [Next]_vars PROVE SummaryInv'
    OBVIOUS
<1>1. CASE AnalyzeSingle
    BY <1>1, SingleKeeps
<1>2. CASE StartComponent
    BY <1>2, StartKeeps
<1>3. CASE GiveUp
    BY <1>3, EndKeeps DEF GiveUp
<1>4. CASE Pass
  <2>1. CASE PassFails(Observed(Trial)) \/ NotCovered(Observed(Trial))
      BY <2>1, EndKeeps DEF PassFails, NotCovered
  <2>2. CASE Publish(Observed(Trial))
      BY <2>2, PublishKeeps
  <2>3. CASE PassGoesOn
      BY <1>4, <2>3, GoingOn
  <2>4. QED BY <1>4, <2>1, <2>2, <2>3, PassCases
<1>5. CASE \/ Report \/ UNCHANGED vars
           \/ /\ pc = "next" /\ left # {} /\ pc' = "aborted"
              /\ UNCHANGED <<prog, left, registry, results, component, fallback, candidates,
                             iterations, bodies, peak, finalPass>>
  <2>1. /\ UNCHANGED <<prog, left, registry, results, component, fallback, candidates,
                       iterations, bodies, peak, finalPass>>
        /\ pc' = pc \/ (pc = "next" /\ pc' = "aborted") \/ (pc = "next" /\ left = {} /\ pc' = "done")
      BY <1>5 DEF Report, vars
  <2>2. TypeOK'
      BY <2>1 DEF SummaryInv, TypeOK
  <2>3. TrialSound'
    <3>1. NextComponents' = NextComponents
        BY <2>1 DEF NextComponents, CallsOf
    <3>2. QED BY <2>1, <3>1 DEF SummaryInv, TrialSound
  <2>4. RegistrySound' /\ NothingProvisional'
      BY <2>1 DEF SummaryInv, RegistrySound, NothingProvisional, Typed, Known
  <2>5. QED BY <2>2, <2>3, <2>4 DEF SummaryInv
<1>6. CASE BodyError
    BY <1>5, <1>6, EndKeeps DEF BodyError
<1>7. QED BY <1>1, <1>2, <1>3, <1>4, <1>5, <1>6 DEF Next, Progress

LEMMA SummaryAlways == Spec => []SummaryInv
<1>1. QED BY SummaryInit, SummaryStep, PTL DEF Spec

\* The registry, the results and the state of a trial have their types in every
\* state of verify_program: every processed function has a result, and the
\* counters of a trial stay within their budgets.
THEOREM SummaryTypes == Spec => []TypeOK
<1>1. SummaryInv => TypeOK
    BY DEF SummaryInv
<1>2. QED BY <1>1, SummaryAlways, PTL

\* Nothing from an unsuccessful trial survives (verify/recursive.rs:186): what is
\* reported of a component that did not close used published summaries only, and
\* nothing of it was published.
THEOREM NothingProvisionalHolds == Spec => []NothingProvisional
<1>1. SummaryInv => NothingProvisional
    BY DEF SummaryInv
<1>2. QED BY <1>1, SummaryAlways, PTL

\* A pass only weakens the hypotheses (summary/recursive.rs, join): the worlds
\* tried next cover the ones tried last, place by place, whatever was observed
\* and whether or not the join widens.
THEOREM HypothesesWeakenHolds == Spec => HypothesesWeaken
<1> DEFINE Weaker == pc = "trial" /\ pc' = "trial" =>
                        \A f \in component : Covers(candidates'[f], candidates[f])
<1>1. SummaryInv /\ [Next]_vars => [Weaker]_vars
  <2> SUFFICES ASSUME SummaryInv, Next, pc = "trial", pc' = "trial", NEW f \in component
               PROVE Covers(candidates'[f], candidates[f])
      OBVIOUS
  <2>1. Pass /\ PassGoesOn
    <3>1. ~Report /\ ~AnalyzeSingle /\ ~StartComponent
        BY DEF Report, AnalyzeSingle, StartComponent
    <3>2. \A C, base, why : ~LeaveBaseline(C, base, why)
        BY DEF LeaveBaseline
    <3>3. ~GiveUp /\ ~BodyError
        BY <3>2 DEF GiveUp, BodyError
    <3>4. Pass
        BY <3>1, <3>3 DEF Next, Progress
    <3>5. ~PassFails(Observed(Trial)) /\ ~NotCovered(Observed(Trial)) /\ ~Publish(Observed(Trial))
        BY <3>2 DEF PassFails, NotCovered, Publish
    <3>6. QED BY <3>4, <3>5, PassCases
  <2>2. Weakened(candidates[f], candidates'[f]) /\ SummaryInv' /\ component' = component
      BY <2>1, GoingOn DEF PassGoesOn
  <2>3. candidates[f] # <<>> /\ candidates'[f] # <<>>
      BY <2>2 DEF SummaryInv, TrialSound
  <2>4. QED BY <2>2, <2>3 DEF Weakened, Covers
<1>2. QED BY <1>1, SummaryAlways, PTL DEF Spec, HypothesesWeaken

-----------------------------------------------------------------------------
(* The registry implements the promise of SummaryPublication. *)

\* The promise means the same components and callees.
LEMMA SameGraph ==
    ASSUME NEW calls
    PROVE /\ Promise!Components(calls) = Components(calls)
          /\ \A C : Promise!CalleesOf(calls, C) = CalleesOf(calls, C)
<1>1. Promise!Components(calls) = Components(calls)
    BY Zenon DEF Components, Promise!Components, Reached, Promise!Reached, CallClosed,
                 Promise!CallClosed
<1>2. QED BY <1>1 DEF CalleesOf, Promise!CalleesOf

\* The call graph of a program.
LEMMA GraphTypes ==
    ASSUME NEW p \in Programs
    PROVE /\ CallsOf(p) \in [Functions -> SUBSET Functions]
          /\ ReachedOf(p) \in [Functions -> SUBSET Functions]
          /\ \A f \in Functions : ReachedOf(p)[f] \subseteq CallsOf(p)[f]
<1>1. \A f \in Functions : \A i \in DOMAIN p.body[f] : p.body[f][i].callee \in Functions \cup {NoFunction}
    BY ProgramParts, PathParts
<1>2. \A f \in Functions : Live(p, f) \subseteq DOMAIN p.body[f]
    BY DEF Live
<1>3. QED BY <1>1, <1>2 DEF CallsOf, ReachedOf

\* A component of the order that is finished, and perhaps sealed.
LEMMA FinishesPromise ==
    ASSUME SummaryInv, NEW C \in NextComponents, left' = left \ C, prog' = prog,
           \/ DOMAIN registry' = DOMAIN registry
           \/ /\ DOMAIN registry' = DOMAIN registry \cup C
              /\ \A f \in C : ReachedOf(prog)[f] \subseteq DOMAIN registry \cup C
    PROVE Promise!Next
<1> DEFINE calls == CallsOf(prog)
           reached == ReachedOf(prog)
<1>1. prog \in Programs /\ left \subseteq Functions
    BY DEF SummaryInv, TypeOK
<1>2. /\ calls \in [Functions -> SUBSET Functions] /\ reached \in [Functions -> SUBSET Functions]
    BY <1>1, GraphTypes
<1>3. C \in Components(calls) /\ C \subseteq left /\ CalleesOf(calls, C) \cap left \subseteq C
    BY DEF NextComponents
<1>4. C \cap (Functions \ left) = {}
    BY <1>3
<1> HIDE DEF calls, reached
<1>5. CalleesOf(calls, C) \subseteq (Functions \ left) \cup C
  <2>1. CalleesOf(calls, C) \subseteq Functions
      BY <1>1, <1>2, <1>3 DEF CalleesOf
  <2>2. QED BY <1>3, <2>1
<1>6. (Functions \ left)' = (Functions \ left) \cup C
    BY <1>1, <1>3
<1>7. \/ DOMAIN registry' = DOMAIN registry
      \/ /\ CalleesOf(reached, C) \subseteq DOMAIN registry \cup C
         /\ DOMAIN registry' = DOMAIN registry \cup C
    BY DEF CalleesOf, reached
<1>8. CallsOf(prog)' = CallsOf(prog) /\ ReachedOf(prog)' = ReachedOf(prog)
    BY DEF CallsOf, ReachedOf, Live
<1>9. Promise!Finish(C)
    BY <1>4, <1>5, <1>6, <1>7, <1>8, SameGraph DEF Promise!Finish, calls, reached
<1>10. QED BY <1>3, <1>9, SameGraph DEF Promise!Next, calls

\* What a body uses is published or assumed.
LEMMA UsesReach ==
    ASSUME NEW p, NEW f \in Functions, NEW reg, NEW assumed, NEW g \in ReachedOf(p)[f]
    PROVE \E u \in UsesOf(p, f, reg, assumed) : 
             /\ u[1] = g /\ u[2] # "None"
             /\ u[2] = "Applied" => g \in DOMAIN reg
<1>1. PICK i \in Live(p, f) : g = p.body[f][i].callee /\ g # NoFunction
    BY DEF ReachedOf
<1> DEFINE u == <<p.body[f][i].callee, CallOutcome(p, p.body[f][i], f, reg, assumed)>>
<1>2. u \in UsesOf(p, f, reg, assumed)
    BY DEF UsesOf
<1>3. u[1] = g /\ u[2] # "None" /\ (u[2] = "Applied" => g \in DOMAIN reg)
    BY <1>1 DEF CallOutcome
<1>4. QED BY <1>2, <1>3

\* Every step is one of the promise, or none.
LEMMA PromiseStep ==
    ASSUME SummaryInv, [Next]_vars
    PROVE [Promise!Next]_Promise!vars
<1>1. CASE AnalyzeSingle
  <2>1. PICK C \in NextComponents : \E f \in C :
            /\ Alone(C)
            /\ left' = left \ C
            /\ \E r \in {AnalyzeOne(prog, f, registry, {})} :
                  registry' = IF Closes(r) THEN Plus(registry, [g \in C |-> r]) ELSE registry
      BY <1>1 DEF AnalyzeSingle
  <2>2. PICK f \in C :
            /\ Alone(C)
            /\ left' = left \ C
            /\ \E r \in {AnalyzeOne(prog, f, registry, {})} :
                  registry' = IF Closes(r) THEN Plus(registry, [g \in C |-> r]) ELSE registry
      BY <2>1
  <2> DEFINE r == AnalyzeOne(prog, f, registry, {})
             more == [g \in C |-> r]
  <2>3. registry' = IF Closes(r) THEN Plus(registry, more) ELSE registry
      BY <2>2
  <2>4. C = {f} /\ f \in Functions /\ r.uses = UsesOf(prog, f, registry, {}) /\ prog' = prog
      BY <1>1, <2>2, AnalysisParts DEF Alone, NextComponents, SummaryInv, TypeOK, AnalyzeSingle
  <2> HIDE DEF r
  <2>5. DOMAIN more = C
      OBVIOUS
  <2> HIDE DEF more
  <2>6. CASE Closes(r)
    <3>1. DOMAIN registry' = DOMAIN registry \cup C
        BY <2>3, <2>5, <2>6, PlusParts
    <3>2. \A u \in UsesOf(prog, f, registry, {}) : u[2] \in {"None", "Applied"}
        BY <2>4, <2>6 DEF Closes
    <3>3. \A g \in ReachedOf(prog)[f] : g \in DOMAIN registry
        BY <2>4, <3>2, UsesReach
    <3>4. QED BY <2>2, <2>4, <3>1, <3>3, FinishesPromise
  <2>7. CASE ~Closes(r)
      BY <2>2, <2>3, <2>4, <2>7, FinishesPromise
  <2>8. QED BY <2>6, <2>7
<1>2. ASSUME NEW C \in NextComponents, NEW base, NEW why, LeaveBaseline(C, base, why)
      PROVE Promise!Next
    BY <1>2, FinishesPromise DEF LeaveBaseline
<1>3. CASE StartComponent
  <2>1. \/ \E C \in NextComponents : \E base : \E why : LeaveBaseline(C, base, why)
        \/ UNCHANGED <<prog, left, registry>>
      BY <1>3 DEF StartComponent
  <2>2. QED BY <1>2, <2>1 DEF Promise!vars, CallsOf, ReachedOf, Live
<1>4. pc = "trial" => component \in NextComponents
    BY DEF SummaryInv, TrialSound
<1>5. CASE GiveUp
    BY <1>2, <1>4, <1>5 DEF GiveUp
<1>6. CASE Pass
  <2>1. CASE PassFails(Observed(Trial)) \/ NotCovered(Observed(Trial))
      BY <1>2, <1>4, <1>6, <2>1, PassCases DEF PassFails, NotCovered
  <2>2. CASE PassGoesOn
      BY <2>2 DEF PassGoesOn, Promise!vars, CallsOf, ReachedOf, Live
  <2>3. CASE Publish(Observed(Trial))
    <3> DEFINE observed == Observed(Trial)
               closed == [f \in component |-> [observed[f] EXCEPT !.outcome = "Closed"]]
    <3>1. /\ registry' = Plus(registry, closed) /\ left' = left \ component /\ prog' = prog
          /\ Publishable(observed)
        BY <2>3 DEF Publish
    <3>2. DOMAIN closed = component
        OBVIOUS
    <3> HIDE DEF closed
    <3>3. DOMAIN registry' = DOMAIN registry \cup component
        BY <3>1, <3>2, PlusParts
    <3>4. ASSUME NEW f \in component, NEW g \in ReachedOf(prog)[f]
          PROVE g \in DOMAIN registry \cup component
      <4>1. observed[f].uses = UsesOf(prog, f, Trial, component) /\ f \in Functions
          BY AnalysisParts, ObservedWorlds DEF SummaryInv, TypeOK
      <4>a. \E u \in UsesOf(prog, f, Trial, component) :
               u[1] = g /\ u[2] # "None" /\ (u[2] = "Applied" => g \in DOMAIN Trial)
        <5>1. f \in Functions /\ g \in ReachedOf(prog)[f]
            BY <3>4, <4>1
        <5> HIDE DEF observed
        <5>2. QED BY <5>1, UsesReach
      <4>2. PICK u \in observed[f].uses : u[1] = g /\ u[2] # "None"
          BY <4>1, <4>a, Zenon
      <4>3. \/ u[2] = "Inductive" /\ u[1] \in component
            \/ u[2] = "Applied" /\ u[1] \in DOMAIN registry
        <5>1. Publishable(observed) =>
                 \A h \in component : \A w \in observed[h].uses :
                    \/ w[2] = "None"
                    \/ w[2] = "Inductive" /\ w[1] \in component
                    \/ w[2] = "Applied" /\ w[1] \in DOMAIN registry
            BY Zenon DEF Publishable
        <5> HIDE DEF observed
        <5>2. QED BY <3>1, <4>2, <5>1
      <4>4. QED BY <4>2, <4>3
    <3>5. component \in NextComponents
        BY <1>4, <1>6, PassCases
    <3>6. QED BY <3>1, <3>3, <3>4, <3>5, FinishesPromise
  <2>4. QED BY <1>6, <2>1, <2>2, <2>3, PassCases
<1>7. CASE Report \/ UNCHANGED vars
    BY <1>7 DEF Report, vars, Promise!vars, CallsOf, ReachedOf, Live
<1>8. CASE BodyError
    BY <1>2, <1>4, <1>8 DEF BodyError, Promise!vars, CallsOf, ReachedOf, Live
<1>9. QED BY <1>1, <1>3, <1>5, <1>6, <1>7, <1>8 DEF Next, Progress

\* verify_program keeps the promise of the registry: components are finished
\* whole, callees first, and the summaries of one are sealed together and only
\* on top of sealed ones (registry.rs, publish_component and close).
THEOREM KeepsPromiseHolds == Spec => KeepsPromise
<1>1. Init => Promise!Init
  <2> SUFFICES ASSUME Init PROVE Promise!Init
      OBVIOUS
  <2>1. prog \in Programs /\ Functions \ left = {} /\ DOMAIN registry = {}
      BY DEF Init
  <2>2. QED BY <2>1, GraphTypes DEF Promise!Init
<1>2. SummaryInv /\ [Next]_vars => [Promise!Next]_Promise!vars
    BY PromiseStep
<1>3. QED BY <1>1, <1>2, SummaryAlways, PTL DEF Spec, KeepsPromise, Promise!Spec

-----------------------------------------------------------------------------
(* What the analysis knows of a word is true of it. *)

\* The fact v is true of the word x in a function called with n.
Describes(v, n, x) == v.lo <= x /\ x <= v.hi /\ Holds(v.expr, n, x) /\ Holds(v.origin, n, x)

\* A shifted term holds of the shifted word.
LEMMA ShiftHolds ==
    ASSUME NEW t \in Terms, NEW k \in Nat, NEW n \in Nat, NEW x \in Nat, Holds(t, n, x)
    PROVE Holds(Shift(t, k), n, x + k) /\ Holds(NoTerm, n, x)
<1>1. t.k \in Nat
    BY DEF Terms
<1>2. Shift(t, k).base = t.base /\ (t.base # "none" => Shift(t, k).k = t.k + k)
    BY ShiftTerm
<1>3. NoTerm.base = "none"
    BY DEF NoTerm
<1>4. QED BY <1>1, <1>2, <1>3 DEF Holds

\* Addition of a constant.
LEMMA WordAddSound ==
    ASSUME NEW v \in Facts, NEW k \in Words, NEW n \in Words, NEW x \in Words, Describes(v, n, x)
    PROVE Describes(WordAdd(v, k), n, Wrap(x + k))
<1>1. /\ MaxWord \in Nat /\ k \in Nat /\ n \in Nat /\ x \in Nat /\ v.lo \in Nat /\ v.hi \in Nat
      /\ v.hi <= MaxWord /\ v.expr \in Terms /\ v.origin \in Terms
    BY WordsAreNumbers DEF Facts
<1>2. Wrap(x + k) \in Words /\ (x + k <= MaxWord => Wrap(x + k) = x + k)
    BY <1>1, WrapWord
<1>3. Holds(NoTerm, n, Wrap(x + k))
    BY DEF Holds, NoTerm
<1>4. CASE v.hi + k <= MaxWord
  <2>1. WordAdd(v, k) = Fact(v.lo + k, v.hi + k, Shift(v.expr, k), Shift(v.origin, k))
      BY <1>4 DEF WordAdd
  <2>2. Wrap(x + k) = x + k /\ v.lo + k <= x + k /\ x + k <= v.hi + k
      BY <1>1, <1>2, <1>4 DEF Describes
  <2>3. Holds(Shift(v.expr, k), n, x + k) /\ Holds(Shift(v.origin, k), n, x + k)
      BY <1>1, ShiftHolds DEF Describes
  <2>4. QED BY <2>1, <2>2, <2>3 DEF Describes, Fact
<1>5. CASE ~(v.hi + k <= MaxWord) /\ Exact(v)
  <2>1. WordAdd(v, k) = Fact(Wrap(v.lo + k), Wrap(v.lo + k), NoTerm, NoTerm)
      BY <1>5 DEF WordAdd
  <2>2. x = v.lo
      BY <1>1, <1>5 DEF Describes, Exact
  <2>3. Wrap(x + k) \in Nat
      BY <1>2, WordsAreNumbers
  <2>4. QED BY <1>3, <2>1, <2>2, <2>3 DEF Describes, Fact
<1>6. CASE ~(v.hi + k <= MaxWord) /\ ~Exact(v)
  <2>1. WordAdd(v, k) = UnknownWord
      BY <1>6 DEF WordAdd
  <2>2. Wrap(x + k) \in Nat /\ Wrap(x + k) <= MaxWord
      BY <1>2, WordsAreNumbers
  <2>3. QED BY <1>3, <2>1, <2>2 DEF Describes, UnknownWord, Fact
<1>7. QED BY <1>4, <1>5, <1>6

\* Nothing is known of a word, and that is true of every word.
LEMMA UnknownDescribes ==
    ASSUME NEW n, NEW x \in Words
    PROVE Describes(UnknownWord, n, x)
BY WordsAreNumbers DEF Describes, UnknownWord, Fact, Holds, NoTerm

\* The operand of a path in a call with n, and what is known of it.
ArgumentOf(path, n) == IF path.base = "n" THEN Wrap(n + path.k) ELSE path.k

LEMMA OperandSound ==
    ASSUME NEW p \in Programs, NEW f \in Functions, NEW i \in DOMAIN p.body[f],
           NEW n \in Words, n <= p.requires[f], p.body[f][i].from <= n, n <= p.body[f][i].to
    PROVE /\ i \in Live(p, f)
          /\ ArgumentOf(p.body[f][i], n) \in Words
          /\ Describes(Operand(p, p.body[f][i], f), n, ArgumentOf(p.body[f][i], n))
<1> DEFINE path == p.body[f][i]
           entry == Entries(p, path, f)
<1>1. path \in Paths /\ p.requires[f] \in Words
    BY ProgramParts
<1>2. path.from \in Words /\ path.to \in Words /\ path.k \in Words /\ path.base \in {"n", "c"}
    BY <1>1, PathParts
<1>3. /\ path.from \in Nat /\ path.to \in Nat /\ n \in Nat /\ p.requires[f] \in Nat /\ path.k \in Nat
      /\ path.from <= n /\ n <= path.to
    BY <1>1, <1>2, WordsAreNumbers
<1>4. i \in Live(p, f)
    BY <1>3 DEF Live
<1> HIDE DEF path
<1>5. /\ entry = Fact(path.from, Smaller(path.to, p.requires[f]),
                      [base |-> "n", k |-> 0], [base |-> "n", k |-> 0])
      /\ Smaller(path.to, p.requires[f]) \in Words /\ n <= Smaller(path.to, p.requires[f])
    BY <1>1, <1>2, <1>3 DEF Entries, ParameterFact, Smaller
<1>6. entry \in Facts /\ Describes(entry, n, n)
    BY <1>3, <1>5 DEF Fact, Facts, Terms, Describes, Holds
<1>7. CASE path.base = "n"
  <2>1. Operand(p, path, f) = WordAdd(entry, path.k) /\ ArgumentOf(path, n) = Wrap(n + path.k)
      BY <1>7 DEF Operand, ArgumentOf
  <2> HIDE DEF entry
  <2>2. Describes(WordAdd(entry, path.k), n, Wrap(n + path.k))
      BY <1>2, <1>6, WordAddSound
  <2>3. Wrap(n + path.k) \in Words
      BY <1>3, WrapWord
  <2>4. QED BY <1>4, <2>1, <2>2, <2>3 DEF path
<1>8. CASE path.base # "n"
  <2>1. Operand(p, path, f) = ConstantFact(path.k) /\ ArgumentOf(path, n) = path.k
      BY <1>8 DEF Operand, ArgumentOf
  <2>2. Describes(ConstantFact(path.k), n, path.k)
      BY <1>3 DEF ConstantFact, Fact, Describes, Holds, NoTerm
  <2>3. QED BY <1>2, <1>4, <2>1, <2>2 DEF path
<1>9. QED BY <1>7, <1>8

\* A world that admits a return of the callee is applied, and what the caller
\* then knows of the result is true.
LEMMA ResultSound ==
    ASSUME NEW w \in Worlds, NEW arg \in Facts, NEW n \in Words, NEW a \in Words,
           Describes(arg, n, a), NEW r, r.v \in Words, Admits(w, a, r)
    PROVE Possible(w, arg) /\ Describes(Result(w, arg), n, r.v)
<1> DEFINE v == w.value
           e == v.expr
           o == v.origin
           c == Computed(w, arg)
           x == r.v
           res == Result(w, arg)
           through(t) == IF t.base = "n" THEN Shift(arg.origin, t.k) ELSE NoTerm
<1>1. /\ v \in Facts /\ e \in Terms /\ o \in Terms /\ e.k \in Nat /\ o.k \in Nat
      /\ arg.expr \in Terms /\ arg.origin \in Terms
      /\ v.lo \in Nat /\ v.hi \in Nat /\ arg.lo \in Nat /\ arg.hi \in Nat
      /\ w.guard.lo \in Nat /\ w.guard.hi \in Nat
      /\ MaxWord \in Nat /\ n \in Nat /\ a \in Nat /\ x \in Nat /\ x <= MaxWord
    BY WordsAreNumbers DEF Worlds, Facts, Terms, Guards
<1>2. /\ w.guard.lo <= a /\ a <= w.guard.hi /\ v.lo <= x /\ x <= v.hi
      /\ Holds(e, a, x) /\ Holds(o, a, x)
    BY <1>1 DEF Admits
<1>3. arg.lo <= a /\ a <= arg.hi /\ Holds(arg.expr, n, a) /\ Holds(arg.origin, n, a)
    BY DEF Describes
<1>4. c.lo \in Nat /\ c.hi \in Nat /\ c.lo <= x /\ x <= c.hi
    BY <1>1, <1>2, <1>3 DEF Computed, Always, Holds
<1> HIDE DEF v, c, x
<1>5. Greater(v.lo, c.lo) <= x /\ x <= Smaller(v.hi, c.hi)
      /\ Greater(v.lo, c.lo) \in Nat /\ Smaller(v.hi, c.hi) \in Nat
    BY <1>1, <1>2, <1>4 DEF Greater, Smaller
<1>6. ASSUME NEW t \in Terms, Holds(t, a, x) PROVE Holds(through(t), n, x)
  <2>1. t.k \in Nat
      BY DEF Terms
  <2>2. CASE t.base = "n"
    <3>1. x = a + t.k
        BY <1>6, <2>2 DEF Holds
    <3>2. Holds(Shift(arg.origin, t.k), n, a + t.k)
        BY <1>1, <1>3, <2>1, ShiftHolds
    <3>3. QED BY <2>2, <3>1, <3>2
  <2>3. CASE t.base # "n"
      BY <2>3 DEF Holds, NoTerm
  <2>4. QED BY <2>2, <2>3
<1>7. Holds(IF e.base = "n" THEN Shift(arg.expr, e.k) ELSE e, n, x)
  <2>1. CASE e.base = "n"
    <3>1. x = a + e.k
        BY <1>2, <2>1 DEF Holds
    <3>2. Holds(Shift(arg.expr, e.k), n, a + e.k)
        BY <1>1, <1>3, ShiftHolds
    <3>3. QED BY <2>1, <3>1, <3>2
  <2>2. CASE e.base # "n"
      BY <1>2, <2>2 DEF Holds
  <2>3. QED BY <2>1, <2>2
<1>8. Holds(through(e), n, x) /\ Holds(through(o), n, x)
    BY <1>1, <1>2, <1>6
<1>9. res = Fact(Greater(v.lo, c.lo), Smaller(v.hi, c.hi),
                 IF e.base = "n" THEN Shift(arg.expr, e.k) ELSE e,
                 IF o.base = "none" /\ e.base = "n" /\ arg.hi + e.k <= MaxWord
                 THEN through(e) ELSE through(o))
    BY DEF Result, v, c
<1>10. Describes(res, n, x) /\ res.lo <= res.hi
  <2>1. /\ res.lo = Greater(v.lo, c.lo) /\ res.hi = Smaller(v.hi, c.hi)
        /\ res.expr = IF e.base = "n" THEN Shift(arg.expr, e.k) ELSE e
        /\ res.origin = through(e) \/ res.origin = through(o)
      BY <1>9 DEF Fact
  <2> HIDE DEF res
  <2>2. Holds(res.expr, n, x)
      BY <1>7, <2>1
  <2>3. Holds(res.origin, n, x)
    <3> HIDE DEF e, o
    <3>1. QED BY <1>8, <2>1
  <2>4. QED BY <1>1, <1>5, <2>1, <2>2, <2>3 DEF Describes
<1>11. Possible(w, arg)
    BY <1>1, <1>2, <1>3, <1>10 DEF Possible
<1>12. QED BY <1>10, <1>11 DEF x

-----------------------------------------------------------------------------
(* Executions. *)

Run == [fault : BOOLEAN, v : Words, owner : {"none", "input", "fresh"}, wrote : BOOLEAN]
Runs == [Functions -> [Words -> SUBSET Run]]

LEMMA FinishesRun ==
    ASSUME NEW path \in Paths, NEW v \in Words, NEW owner \in {"none", "input", "fresh"},
           NEW wrote \in BOOLEAN
    PROVE /\ Finishes(path, v, owner, wrote) \in Run
          /\ Faults \in Run
          /\ v <= path.bound => /\ ~Finishes(path, v, owner, wrote).fault
                                /\ Finishes(path, v, owner, wrote).v = v
                                /\ Finishes(path, v, owner, wrote).owner = owner
                                /\ Finishes(path, v, owner, wrote).wrote = (wrote \/ path.writes)
<1>1. path.writes \in BOOLEAN /\ path.bound \in Nat /\ v \in Nat /\ 0 \in Words
    BY PathParts, WordsAreNumbers
<1>2. Faults \in Run
    BY <1>1 DEF Faults, Run
<1> DEFINE fine == [fault |-> FALSE, v |-> v, owner |-> owner, wrote |-> wrote \/ path.writes]
<1>3. (wrote \/ path.writes) \in BOOLEAN
    OBVIOUS
<1>4. fine \in Run /\ ~fine.fault /\ fine.v = v /\ fine.owner = owner /\ fine.wrote = (wrote \/ path.writes)
    BY <1>3 DEF Run
<1>5. Finishes(path, v, owner, wrote) = IF v > path.bound THEN Faults ELSE fine
    BY DEF Finishes
<1> HIDE DEF fine
<1>6. CASE v > path.bound
    BY <1>1, <1>2, <1>5, <1>6
<1>7. CASE ~(v > path.bound)
  <2>1. Finishes(path, v, owner, wrote) = fine
      BY <1>5, <1>7
  <2>2. QED BY <1>2, <1>4, <2>1
<1>8. QED BY <1>6, <1>7

\* What a path makes of a return of its callee.
ReturnOf(path, r) ==
    IF r.fault THEN Faults
    ELSE Finishes(path, Wrap(r.v + path.add), IF path.owner = "none" THEN "none" ELSE r.owner,
                  r.wrote)

\* How a result of a path with the operand a comes about.
TakenAs(p, path, a, e, r) ==
    \/ path.callee = NoFunction /\ r = Finishes(path, a, path.owner, FALSE)
    \/ path.callee # NoFunction /\ a > p.requires[path.callee] /\ r = Faults
    \/ /\ path.callee # NoFunction /\ ~(a > p.requires[path.callee])
       /\ \E s \in e[path.callee][a] : r = ReturnOf(path, s)

LEMMA TakenResults ==
    ASSUME NEW p, NEW path, NEW n, NEW e, NEW r \in Taken(p, path, n, e)
    PROVE TakenAs(p, path, ArgumentOf(path, n), e, r)
BY DEF Taken, TakenAs, ArgumentOf, ReturnOf

\* One path leads to runs.
LEMMA TakenRuns ==
    ASSUME NEW p \in Programs, NEW f \in Functions, NEW i \in DOMAIN p.body[f], NEW n \in Words,
           NEW e \in Runs
    PROVE Taken(p, p.body[f][i], n, e) \subseteq Run
<1> DEFINE path == p.body[f][i]
           a == ArgumentOf(path, n)
<1>1. path \in Paths
    BY ProgramParts
<1> HIDE DEF path
<1>2. /\ path.k \in Words /\ path.add \in Words /\ path.owner \in {"none", "input", "fresh"}
      /\ path.callee \in Functions \cup {NoFunction} /\ n \in Nat /\ path.k \in Nat /\ path.add \in Nat
    BY <1>1, PathParts, WordsAreNumbers
<1>3. a \in Words
    BY <1>2, WrapWord DEF ArgumentOf
<1> HIDE DEF a
<1>4. Faults \in Run /\ Finishes(path, a, path.owner, FALSE) \in Run
    BY <1>1, <1>2, <1>3, FinishesRun
<1>5. ASSUME NEW s \in Run PROVE ReturnOf(path, s) \in Run
  <2>1. s.v \in Nat /\ s.owner \in {"none", "input", "fresh"} /\ s.wrote \in BOOLEAN
      BY WordsAreNumbers DEF Run
  <2>2. Wrap(s.v + path.add) \in Words
      BY <1>2, <2>1, WrapWord
  <2> DEFINE x == Wrap(s.v + path.add)
             own == IF path.owner = "none" THEN "none" ELSE s.owner
  <2>3. x \in Words /\ own \in {"none", "input", "fresh"}
      BY <2>1, <2>2
  <2>4. ReturnOf(path, s) = IF s.fault THEN Faults ELSE Finishes(path, x, own, s.wrote)
      BY DEF ReturnOf
  <2> HIDE DEF x, own
  <2>5. Finishes(path, x, own, s.wrote) \in Run
      BY <1>1, <2>1, <2>3, FinishesRun
  <2>6. QED BY <1>4, <2>4, <2>5
<1>6. ASSUME NEW r \in Taken(p, path, n, e) PROVE r \in Run
  <2>0. TakenAs(p, path, a, e, r)
      BY TakenResults DEF a
  <2>1. \/ path.callee = NoFunction /\ r = Finishes(path, a, path.owner, FALSE)
        \/ r = Faults
        \/ path.callee # NoFunction /\ \E s \in e[path.callee][a] : r = ReturnOf(path, s)
      BY <2>0 DEF TakenAs
  <2>2. CASE path.callee # NoFunction /\ \E s \in e[path.callee][a] : r = ReturnOf(path, s)
    <3>1. path.callee \in Functions
        BY <1>2, <2>2
    <3>2. e[path.callee] \in [Words -> SUBSET Run]
        BY <3>1 DEF Runs
    <3>3. e[path.callee][a] \subseteq Run
        BY <1>3, <3>2
    <3>4. QED BY <1>5, <2>2, <3>3
  <2>3. QED BY <1>4, <2>1, <2>2
<1>7. QED BY <1>6 DEF path

\* One level of calls more leads to runs.
LEMMA DeeperRuns ==
    ASSUME NEW p \in Programs, NEW e \in Runs
    PROVE /\ Deeper(p, e) \in Runs
          /\ \A f \in Functions, n \in Words : \A r \in Deeper(p, e)[f][n] :
                \E i \in DOMAIN p.body[f] :
                    /\ p.body[f][i].from <= n /\ n <= p.body[f][i].to
                    /\ r \in Taken(p, p.body[f][i], n, e)
<1> DEFINE open(f, n) == {j \in DOMAIN p.body[f] : n \in p.body[f][j].from..p.body[f][j].to}
           at(f, n) == UNION {Taken(p, p.body[f][i], n, e) : i \in open(f, n)}
<1>1. Deeper(p, e) = [f \in Functions |-> [n \in Words |-> at(f, n)]]
    BY DEF Deeper
<1>2. ASSUME NEW f \in Functions, NEW n \in Words
      PROVE /\ at(f, n) \subseteq Run
            /\ \A r \in at(f, n) : \E i \in DOMAIN p.body[f] :
                  /\ p.body[f][i].from <= n /\ n <= p.body[f][i].to
                  /\ r \in Taken(p, p.body[f][i], n, e)
  <2> SUFFICES ASSUME NEW r \in at(f, n)
               PROVE r \in Run /\ \E i \in DOMAIN p.body[f] :
                                     /\ p.body[f][i].from <= n /\ n <= p.body[f][i].to
                                     /\ r \in Taken(p, p.body[f][i], n, e)
      OBVIOUS
  <2>1. PICK i \in open(f, n) : r \in Taken(p, p.body[f][i], n, e)
      OBVIOUS
  <2>2. i \in DOMAIN p.body[f] /\ n \in p.body[f][i].from..p.body[f][i].to
      BY <2>1
  <2>3. p.body[f][i].from \in Nat /\ p.body[f][i].to \in Nat
      BY <2>2, ProgramParts, PathParts, WordsAreNumbers
  <2>4. r \in Run
      BY <2>1, <2>2, TakenRuns
  <2>5. QED BY <2>1, <2>2, <2>3, <2>4
<1> HIDE DEF at
<1>3. \A f \in Functions : [n \in Words |-> at(f, n)] \in [Words -> SUBSET Run]
    BY <1>2
<1>4. Deeper(p, e) \in Runs
    BY <1>1, <1>3 DEF Runs
<1>5. \A f \in Functions, n \in Words : Deeper(p, e)[f][n] = at(f, n)
    BY <1>1
<1>6. QED BY <1>2, <1>4, <1>5

NoRuns == [f \in Functions |-> [n \in Words |-> {}]]

\* The levels of calls, one after the other.
LEMMA NestedLevels ==
    ASSUME NEW p \in Programs
    PROVE /\ \A d \in 0..Depth : Nested(p)[d] \in Runs
          /\ Nested(p)[0] = NoRuns
          /\ \A d \in 1..Depth : Nested(p)[d] = Deeper(p, Nested(p)[d - 1])
<1> DEFINE F(u) == [d \in 0..Depth |-> IF d = 0 THEN NoRuns ELSE Deeper(p, u[d - 1])]
           step == [k \in 1..Depth |-> [x \in Runs |-> Deeper(p, x)]]
           u0 == CHOOSE u : u = F(u)
<1>1. Depth \in Nat /\ NoRuns \in Runs
    BY SummaryAssumption DEF SummaryAssumption, NoRuns, Runs
<1>2. \E u : u = F(u)
  <2>1. StepsIn(Depth, Runs, step)
      BY DeeperRuns DEF StepsIn
  <2> HIDE DEF step
  <2>2. PICK g : Iteration(g, Depth, Runs, NoRuns, step)
      BY <1>1, <2>1, IterationExists
  <2>3. /\ g \in [0..Depth -> Runs] /\ g[0] = NoRuns
        /\ \A k \in 1..Depth : g[k] = step[k][g[k - 1]]
      BY <2>2 DEF Iteration
  <2>4. ASSUME NEW k \in 0..Depth PROVE g[k] = F(g)[k]
    <3>1. CASE k = 0
        BY <2>3, <3>1
    <3>2. CASE k # 0
      <4>1. k \in 1..Depth /\ k - 1 \in 0..Depth /\ g[k - 1] \in Runs
          BY <1>1, <2>3, <3>2
      <4>2. g[k] = Deeper(p, g[k - 1])
          BY <2>3, <4>1 DEF step
      <4>3. QED BY <3>2, <4>1, <4>2
    <3>3. QED BY <3>1, <3>2
  <2>5. g = F(g)
      BY <2>3, <2>4
  <2>6. QED BY <2>5
<1>3. u0 = F(u0)
    BY <1>2
<1>4. Nested(p) = u0
    BY DEF Nested, NoRuns
<1> HIDE DEF u0
<1>5. \A d \in 0..Depth : u0[d] = IF d = 0 THEN NoRuns ELSE Deeper(p, u0[d - 1])
    BY <1>3
<1>6. u0[0] = NoRuns /\ \A d \in 1..Depth : u0[d] = Deeper(p, u0[d - 1])
    BY <1>1, <1>5
<1> DEFINE T == {d \in Nat : d <= Depth => u0[d] \in Runs}
<1>7. 0 \in T
    BY <1>1, <1>6
<1>8. ASSUME NEW d \in Nat, d \in T PROVE d + 1 \in T
  <2> SUFFICES ASSUME d + 1 <= Depth PROVE u0[d + 1] \in Runs
      OBVIOUS
  <2>1. u0[d] \in Runs /\ d + 1 \in 1..Depth /\ (d + 1) - 1 = d
      BY <1>1, <1>8
  <2>2. u0[d + 1] = Deeper(p, u0[d])
      BY <1>6, <2>1
  <2>3. QED BY <2>1, <2>2, DeeperRuns
<1>9. \A d \in 0..Depth : d \in T
  <2> HIDE DEF T
  <2>1. Nat \subseteq T
      BY <1>7, <1>8, Induction
  <2>2. QED BY <1>1, <2>1
<1>10. \A d \in 0..Depth : u0[d] \in Runs
    BY <1>1, <1>9
<1>11. QED BY <1>4, <1>6, <1>10

-----------------------------------------------------------------------------
(* What the analysis says of a body is true of its executions. *)

\* The runs of one call are among the worlds of a summary, without a fault.
CoveredRuns(worlds, n, runs) ==
    \A r \in runs : ~r.fault /\ \E i \in DOMAIN worlds : Admits(worlds[i], n, r)

\* The summaries of a registry speak for the runs e.
CoveredBy(p, reg, e) ==
    \A g \in DOMAIN reg : \A n \in 0..p.requires[g] : CoveredRuns(reg[g].worlds, n, e[g][n])

\* No call within its contract faults.
NoFaults(p, e) == \A g \in Functions : \A n \in 0..p.requires[g] : \A r \in e[g][n] : ~r.fault

\* A case that allows a run.
CaseAllows(path, case, n, r) ==
    /\ Describes(case.value, n, r.v) /\ r.owner = case.owner
    /\ r.wrote => path.writes \/ case.writes = "yes"

\* The case of an applied world is among the cases of the path.
LEMMA CaseOfWorld ==
    ASSUME NEW p, NEW path, NEW f, NEW reg, NEW assumed,
           reg[path.callee].worlds \in Seq(Worlds),
           Used(CallOutcome(p, path, f, reg, assumed)), path.callee # NoFunction,
           NEW k \in Applicable(reg[path.callee], Operand(p, path, f))
    PROVE \E j \in DOMAIN CasesOf(p, path, f, reg, assumed) :
             CasesOf(p, path, f, reg, assumed)[j] =
                 CaseOf(path, reg[path.callee].worlds[k], Operand(p, path, f))
<1> DEFINE ws == reg[path.callee].worlds
           arg == Operand(p, path, f)
           places == Applicable(reg[path.callee], arg)
           cases == CasesOf(p, path, f, reg, assumed)
           all == CasesFrom(path, ws, arg)
<1>1. cases = Picked(all, places)
    BY CasesByOutcome, UsedOutcome
<1>2. k \in places /\ places \subseteq DOMAIN ws
    BY DEF Applicable
<1>3. ws \in Seq(Worlds)
    OBVIOUS
<1> HIDE DEF ws, arg, places, cases
<1>4. Len(ws) \in Nat /\ DOMAIN ws = 1..Len(ws)
    BY <1>3
<1>5. DOMAIN all = DOMAIN ws /\ \A i \in DOMAIN ws : all[i] = CaseOf(path, ws[i], arg)
    BY DEF CasesFrom
<1> DEFINE R == {all[i] : i \in DOMAIN all}
           len == Len(ws)
<1>6. all \in [1..len -> R] /\ len \in Nat
    BY <1>4, <1>5 DEF CasesFrom
<1> HIDE DEF all, R, len
<1>7. all \in Seq(R)
    BY <1>6, FunctionIsSequence
<1>8. \E j \in DOMAIN cases : cases[j] = all[k]
    BY <1>1, <1>2, <1>5, <1>7, PickedElements
<1>9. QED BY <1>2, <1>5, <1>8 DEF ws, arg, cases

\* A verified path does not fault and, where the analysis knows its callee, has
\* a case for every return.  A callee it knows nothing of must not fault.
LEMMA PathSound ==
    ASSUME NEW p \in Programs, NEW f \in Functions, NEW i \in DOMAIN p.body[f],
           NEW n \in Words, n <= p.requires[f], p.body[f][i].from <= n, n <= p.body[f][i].to,
           NEW reg, Typed(reg), NEW assumed, NEW e \in Runs, CoveredBy(p, reg, e),
           VerifiedPath(p, p.body[f][i], f, CasesOf(p, p.body[f][i], f, reg, assumed)),
           Used(CallOutcome(p, p.body[f][i], f, reg, assumed)) \/ NoFaults(p, e),
           NEW r \in Taken(p, p.body[f][i], n, e)
    PROVE /\ ~r.fault
          /\ Used(CallOutcome(p, p.body[f][i], f, reg, assumed)) =>
                \E j \in DOMAIN CasesOf(p, p.body[f][i], f, reg, assumed) :
                    CaseAllows(p.body[f][i], CasesOf(p, p.body[f][i], f, reg, assumed)[j], n, r)
<1> DEFINE path == p.body[f][i]
           op == Operand(p, path, f)
           a == ArgumentOf(path, n)
           o == CallOutcome(p, path, f, reg, assumed)
           cases == CasesOf(p, path, f, reg, assumed)
           Allowed == \E j \in DOMAIN cases : CaseAllows(path, cases[j], n, r)
<1>1. path \in Paths /\ i \in Live(p, f) /\ a \in Words /\ Describes(op, n, a)
    BY ProgramParts, OperandSound
<1>2. op \in Facts
    BY <1>1, OperandFact
<1>3. TakenAs(p, path, a, e, r)
    BY TakenResults
<1>4. cases \in Seq(Cases) /\ Preconditions(p, path, f)
      /\ \A j \in DOMAIN cases : ObligationProven(path, cases[j])
    BY <1>1, CasesTyped DEF VerifiedPath
<1>5. Used(o) \/ NoFaults(p, e)
    OBVIOUS
<1> SUFFICES ~r.fault /\ (Used(o) => Allowed)
    OBVIOUS
<1> HIDE DEF path, op, a, o, cases
<1>6. /\ path.add \in Words /\ path.owner \in {"none", "input", "fresh"} /\ path.bound \in Nat
      /\ path.callee \in Functions \cup {NoFunction} /\ a \in Nat /\ op.hi \in Nat /\ a <= op.hi
      /\ path.add \in Nat /\ path.writes \in BOOLEAN
    BY <1>1, <1>2, PathParts, WordsAreNumbers DEF Facts, Describes
<1>7. CASE path.callee = NoFunction
  <2>1. o = "None" /\ Used(o)
      BY <1>7 DEF o, CallOutcome, Used
  <2> DEFINE c == [value |-> op, owner |-> path.owner, writes |-> "no"]
  <2>2. cases = <<c>>
      BY <2>1, CasesByOutcome DEF cases, op, o
  <2>3. 1 \in DOMAIN cases /\ cases[1] = c
      BY <2>2
  <2>4. op.hi <= path.bound
      BY <1>4, <2>3 DEF ObligationProven
  <2>5. r = Finishes(path, a, path.owner, FALSE)
      BY <1>3, <1>7 DEF TakenAs
  <2>6. a <= path.bound
      BY <1>6, <2>4
  <2>7. ~r.fault /\ r.v = a /\ r.owner = path.owner /\ r.wrote = (FALSE \/ path.writes)
    <3> DEFINE no == FALSE
               own == path.owner
    <3>1. r = Finishes(path, a, own, no) /\ no \in BOOLEAN /\ own \in {"none", "input", "fresh"}
        BY <1>6, <2>5
    <3> HIDE DEF no, own
    <3>2. ~r.fault /\ r.v = a /\ r.owner = own /\ r.wrote = (no \/ path.writes)
        BY <1>1, <2>6, <3>1, FinishesRun
    <3>3. QED BY <3>2 DEF no, own
  <2>8. CaseAllows(path, c, n, r)
      BY <1>1, <2>7 DEF CaseAllows
  <2>9. QED BY <2>3, <2>7, <2>8
<1>8. CASE path.callee # NoFunction
  <2> DEFINE g == path.callee
  <2>1. g \in Functions /\ p.requires[g] \in Nat /\ a <= p.requires[g] /\ a \in 0..p.requires[g]
    <3>1. g \in Functions
        BY <1>6, <1>8
    <3>2. p.requires[g] \in Nat
        BY <3>1, ProgramParts, WordsAreNumbers
    <3>3. op.hi <= p.requires[g]
        BY <1>4, <1>8 DEF Preconditions, op
    <3>4. QED BY <1>6, <3>1, <3>2, <3>3
  <2>2. PICK s \in e[g][a] : r = ReturnOf(path, s)
    <3>1. ~(a > p.requires[g])
        BY <1>6, <2>1
    <3>2. QED BY <1>3, <1>8, <3>1 DEF TakenAs
  <2>3. s \in Run
    <3>1. e[g] \in [Words -> SUBSET Run]
        BY <2>1 DEF Runs
    <3>2. QED BY <1>1, <3>1
  <2>4. s.v \in Words /\ s.v \in Nat /\ s.owner \in {"none", "input", "fresh"} /\ s.wrote \in BOOLEAN
        /\ s.fault \in BOOLEAN
      BY <2>3, WordsAreNumbers DEF Run
  <2> DEFINE x == Wrap(s.v + path.add)
             own == IF path.owner = "none" THEN "none" ELSE s.owner
  <2>5. x \in Words /\ x \in Nat /\ own \in {"none", "input", "fresh"}
      BY <1>6, <2>4, WrapWord, WordsAreNumbers
  <2>6. ASSUME ~s.fault, x <= path.bound
        PROVE ~r.fault /\ r.v = x /\ r.owner = own /\ r.wrote = (s.wrote \/ path.writes)
    <3>1. r = Finishes(path, x, own, s.wrote)
        BY <2>2, <2>6 DEF ReturnOf
    <3> HIDE DEF x, own
    <3>2. QED BY <1>1, <2>4, <2>5, <2>6, <3>1, FinishesRun
  <2>7. CASE Used(o)
    <3>1. g \in DOMAIN reg /\ reg[g].worlds \in Seq(Worlds)
        BY <1>8, <2>7, UsedOutcome DEF o, Typed
    <3> DEFINE ws == reg[g].worlds
    <3>2. ~s.fault /\ \E k \in DOMAIN ws : Admits(ws[k], a, s)
      <4>1. CoveredRuns(ws, a, e[g][a])
          BY <2>1, <3>1 DEF CoveredBy
      <4>2. QED BY <4>1 DEF CoveredRuns
    <3>3. PICK k \in DOMAIN ws : Admits(ws[k], a, s)
        BY <3>2
    <3>4. ws[k] \in Worlds
        BY <3>1
    <3>5. Possible(ws[k], op) /\ Describes(Result(ws[k], op), n, s.v) /\ Result(ws[k], op) \in Facts
      <4>1. Possible(ws[k], op) /\ Describes(Result(ws[k], op), n, s.v)
          BY <1>1, <1>2, <2>4, <3>3, <3>4, ResultSound
      <4>2. QED BY <1>2, <3>4, <4>1, ResultFact
    <3>6. k \in Applicable(reg[g], op)
        BY <3>5 DEF Applicable
    <3>7. PICK j \in DOMAIN cases : cases[j] = CaseOf(path, ws[k], op)
        BY <1>8, <2>7, <3>1, <3>6, CaseOfWorld DEF cases, op, o
    <3> DEFINE c == CaseOf(path, ws[k], op)
    <3>8. /\ c.value = WordAdd(Result(ws[k], op), path.add) /\ c.writes = ws[k].writes
          /\ c.owner = IF path.owner = "none" THEN "none" ELSE ws[k].owner
        BY DEF CaseOf
    <3>9. Describes(c.value, n, x)
        BY <1>6, <2>4, <3>5, <3>8, WordAddSound
    <3>10. c.value.hi <= path.bound /\ c.value.hi \in Nat
      <4>1. cases[j] \in Cases
          BY <1>4, <3>7
      <4>2. c.value.hi \in Words
          BY <3>7, <4>1 DEF Cases, Facts
      <4>3. QED BY <1>4, <3>7, <4>2, WordsAreNumbers DEF ObligationProven
    <3>11. x <= path.bound
      <4> HIDE DEF x, c
      <4>1. x <= c.value.hi
          BY <3>9 DEF Describes
      <4>2. x \in Nat /\ path.bound \in Nat
          BY <1>6, <2>5
      <4>3. QED BY <3>10, <4>1, <4>2
    <3>12. ~r.fault /\ r.v = x /\ r.owner = own /\ r.wrote = (s.wrote \/ path.writes)
        BY <2>6, <3>2, <3>11
    <3>13. s.owner = ws[k].owner /\ (s.wrote => ws[k].writes = "yes")
        BY <3>3 DEF Admits
    <3>14. CaseAllows(path, c, n, r)
      <4>1. r.owner = c.owner
          BY <3>8, <3>12, <3>13
      <4>2. r.wrote => path.writes \/ c.writes = "yes"
          BY <3>8, <3>12, <3>13
      <4> HIDE DEF c, x
      <4>3. QED BY <3>9, <3>12, <4>1, <4>2 DEF CaseAllows
    <3>15. QED BY <3>7, <3>12, <3>14
  <2>8. CASE ~Used(o)
    <3>1. ~s.fault
        BY <1>5, <2>1, <2>8 DEF NoFaults
    <3> DEFINE c == [value |-> WordAdd(UnknownWord, path.add), writes |-> "unknown",
                     owner |-> IF path.owner = "none" THEN "none" ELSE "unknown"]
    <3>2. cases = <<c>>
        BY <2>8, CasesByOutcome DEF cases, o
    <3>3. 1 \in DOMAIN cases /\ cases[1].value = WordAdd(UnknownWord, path.add)
        BY <3>2
    <3>4. UnknownWord \in Facts /\ WordAdd(UnknownWord, path.add) \in Facts
        BY <1>2, <1>6, WordAddFact
    <3>5. Describes(WordAdd(UnknownWord, path.add), n, x)
        BY <1>6, <2>4, <3>4, UnknownDescribes, WordAddSound
    <3>6. WordAdd(UnknownWord, path.add).hi <= path.bound /\ WordAdd(UnknownWord, path.add).hi \in Nat
        BY <1>4, <3>3, <3>4, WordsAreNumbers DEF ObligationProven, Facts
    <3>7. x <= path.bound
        BY <1>6, <2>5, <3>5, <3>6 DEF Describes
    <3>8. QED BY <2>6, <2>8, <3>1, <3>7
  <2>9. QED BY <2>7, <2>8
<1>9. QED BY <1>7, <1>8

\* A body whose result is a candidate: its worlds speak for the runs of the
\* body, if the summaries it rests on speak for the runs of its callees.
LEMMA CandidateSound ==
    ASSUME NEW p \in Programs, NEW f \in Functions, NEW reg, Typed(reg), Known(reg), NEW assumed,
           NEW e \in Runs, CoveredBy(p, reg, e),
           AnalyzeOne(p, f, reg, assumed).state = "Candidate", NEW n \in 0..p.requires[f]
    PROVE CoveredRuns(AnalyzeOne(p, f, reg, assumed).worlds, n, Deeper(p, e)[f][n])
<1> DEFINE worlds == AnalyzeOne(p, f, reg, assumed).worlds
           cases == BodyCases(p, f, reg, assumed)
           effect == JournalOf(p, f, cases)
<1>1. n \in Words /\ n <= p.requires[f] /\ n \in Nat
    BY ProgramParts, WordsAreNumbers
<1> SUFFICES ASSUME NEW r \in Deeper(p, e)[f][n]
             PROVE ~r.fault /\ \E m \in DOMAIN worlds : Admits(worlds[m], n, r)
    BY DEF CoveredRuns
<1>2. PICK i \in DOMAIN p.body[f] : /\ p.body[f][i].from <= n /\ n <= p.body[f][i].to
                                    /\ r \in Taken(p, p.body[f][i], n, e)
    BY <1>1, DeeperRuns
<1> DEFINE path == p.body[f][i]
<1>3. i \in Live(p, f) /\ path \in Paths
    BY <1>1, <1>2, OperandSound, ProgramParts
<1>4. cases[i] = CasesOf(p, path, f, reg, assumed)
    BY <1>3 DEF BodyCases
<1>5. VerifiedPath(p, path, f, cases[i]) /\ Used(CallOutcome(p, path, f, reg, assumed))
    BY <1>3, CandidatePaths
<1>6. ~r.fault /\ \E j \in DOMAIN cases[i] : CaseAllows(path, cases[i][j], n, r)
    BY <1>1, <1>2, <1>4, <1>5, PathSound
<1>7. PICK j \in DOMAIN cases[i] : CaseAllows(path, cases[i][j], n, r)
    BY <1>6
<1>8. PICK m \in DOMAIN worlds :
         worlds[m] = World(GuardOf(path), cases[i][j].value, cases[i][j].owner, effect)
    BY <1>3, AnalysisWorlds
<1>9. worlds[m].writes # "unknown"
    BY CandidateEffects
<1> HIDE DEF worlds, cases, path
<1>10. /\ worlds[m].guard = GuardOf(path) /\ worlds[m].value = cases[i][j].value
       /\ worlds[m].owner = cases[i][j].owner /\ worlds[m].writes = effect
    BY <1>8 DEF World
<1>11. r.wrote => effect = "yes"
  <2> SUFFICES ASSUME r.wrote PROVE effect = "yes"
      OBVIOUS
  <2> DEFINE S == {IF p.body[f][k].writes THEN "yes" ELSE "no" : k \in Live(p, f)}
                  \cup UNION {{cases[k][l].writes : l \in DOMAIN cases[k]} : k \in Live(p, f)}
  <2>1. "yes" \in S
    <3>1. CASE path.writes
        BY <1>3, <3>1 DEF path
    <3>2. CASE cases[i][j].writes = "yes"
        BY <1>3, <3>2
    <3>3. QED BY <1>7, <3>1, <3>2 DEF CaseAllows
  <2>2. effect = Joined(S)
      BY DEF JournalOf
  <2> HIDE DEF S
  <2>3. effect # "unknown"
      BY <1>9, <1>10
  <2>4. QED BY <2>1, <2>2, <2>3 DEF Joined
<1> HIDE DEF effect
<1>12. n \in worlds[m].guard.lo..worlds[m].guard.hi
  <2>1. path.from \in Nat /\ path.to \in Nat /\ path.from <= n /\ n <= path.to
      BY <1>2, <1>3, PathParts, WordsAreNumbers DEF path
  <2>2. QED BY <1>1, <1>10, <2>1 DEF GuardOf
<1>13. r.v \in worlds[m].value.lo..worlds[m].value.hi
  <2>1. cases[i] \in Seq(Cases)
      BY <1>3, <1>4, CasesTyped DEF path
  <2>2. cases[i][j] \in Cases
      BY <1>7, <2>1
  <2>3. cases[i][j].value.lo \in Nat /\ cases[i][j].value.hi \in Nat
      BY <2>2, WordsAreNumbers DEF Cases, Facts
  <2>4. r.v \in Nat
    <3>1. r \in Run
      <4>1. Taken(p, path, n, e) \subseteq Run
          BY <1>1, <1>2, TakenRuns DEF path
      <4>2. QED BY <1>2, <4>1 DEF path
    <3>2. QED BY <3>1, WordsAreNumbers DEF Run
  <2>5. cases[i][j].value.lo <= r.v /\ r.v <= cases[i][j].value.hi
      BY <1>7 DEF CaseAllows, Describes
  <2>6. QED BY <1>10, <2>3, <2>4, <2>5
<1>14. Admits(worlds[m], n, r)
    BY <1>7, <1>10, <1>11, <1>12, <1>13 DEF Admits, CaseAllows, Describes
<1>15. QED BY <1>6, <1>14

\* A verified body does not fault if no callee does, whatever of their
\* summaries it could use.
LEMMA VerifiedSound ==
    ASSUME NEW p \in Programs, NEW f \in Functions, NEW reg, Typed(reg), NEW assumed,
           NEW e \in Runs, CoveredBy(p, reg, e), NoFaults(p, e),
           AnalyzeOne(p, f, reg, assumed).verified, NEW n \in 0..p.requires[f],
           NEW r \in Deeper(p, e)[f][n]
    PROVE ~r.fault
<1>1. n \in Words /\ n <= p.requires[f] /\ n \in Nat
    BY ProgramParts, WordsAreNumbers
<1>2. PICK i \in DOMAIN p.body[f] : /\ p.body[f][i].from <= n /\ n <= p.body[f][i].to
                                    /\ r \in Taken(p, p.body[f][i], n, e)
    BY <1>1, DeeperRuns
<1>3. i \in Live(p, f)
    BY <1>1, <1>2, OperandSound
<1>4. VerifiedBody(p, f, BodyCases(p, f, reg, assumed))
    BY AnalysisParts
<1>5. VerifiedPath(p, p.body[f][i], f, CasesOf(p, p.body[f][i], f, reg, assumed))
    BY <1>3, <1>4 DEF VerifiedBody, BodyCases
<1>6. QED BY <1>1, <1>2, <1>5, PathSound

-----------------------------------------------------------------------------
(* What is published speaks for every execution. *)

\* No hypothesis speaks of the history of a result.  (covers() compares the
\* intervals and the expressions of two worlds and not their histories.)
NoHistoryGuessed ==
    \A f \in component : \A i \in DOMAIN candidates[f] : candidates[f][i].value.origin = NoTerm

\* The registry speaks for the executions of every depth.
RegistryCovers == \A d \in 0..Depth : CoveredBy(prog, registry, Nested(prog)[d])

\* A function that is not published does not fault if its callees do not.
SafeAbove(p, f) ==
    \A d \in 1..Depth : NoFaults(p, Nested(p)[d - 1]) =>
        \A n \in 0..p.requires[f] : \A r \in Nested(p)[d][f][n] : ~r.fault

ResultsSafe ==
    /\ \A f \in DOMAIN results :
          results[f].verified => f \in DOMAIN registry \/ SafeAbove(prog, f)
    /\ \A f \in component : fallback[f].verified => SafeAbove(prog, f)

SoundInv == RegistryCovers /\ ResultsSafe

\* A baseline rests on the published summaries.
LEMMA BaselineSafe ==
    ASSUME SummaryInv, RegistryCovers, NEW f \in Functions,
           AnalyzeOne(prog, f, registry, {}).verified
    PROVE SafeAbove(prog, f)
<1>1. prog \in Programs /\ Typed(registry)
    BY DEF SummaryInv, TypeOK, RegistrySound
<1> SUFFICES ASSUME NEW d \in 1..Depth, NoFaults(prog, Nested(prog)[d - 1]),
                    NEW n \in 0..prog.requires[f], NEW r \in Nested(prog)[d][f][n]
             PROVE ~r.fault
    BY DEF SafeAbove
<1> DEFINE e == Nested(prog)[d - 1]
<1>2. d - 1 \in 0..Depth /\ Depth \in Nat
    BY SummaryAssumption DEF SummaryAssumption
<1>3. e \in Runs /\ Nested(prog)[d] = Deeper(prog, e)
    BY <1>1, <1>2, NestedLevels
<1>4. CoveredBy(prog, registry, e) /\ NoFaults(prog, e)
    BY <1>2 DEF RegistryCovers
<1>5. r \in Deeper(prog, e)[f][n]
    BY <1>3
<1> HIDE DEF e
<1>6. QED BY <1>1, <1>3, <1>4, <1>5, VerifiedSound

\* A summary that rests on others which speak for every depth does so too.
LEMMA NextDepth ==
    ASSUME SummaryInv, NEW f \in Functions, NEW reg, Typed(reg), Known(reg), NEW assumed,
           AnalyzeOne(prog, f, reg, assumed).state = "Candidate", NEW d \in 0..Depth,
           d > 0 => CoveredBy(prog, reg, Nested(prog)[d - 1]), NEW n \in 0..prog.requires[f]
    PROVE CoveredRuns(AnalyzeOne(prog, f, reg, assumed).worlds, n, Nested(prog)[d][f][n])
<1>0. prog \in Programs /\ Depth \in Nat
    BY SummaryAssumption DEF SummaryInv, TypeOK, SummaryAssumption
<1>1. prog \in Programs /\ Depth \in Nat /\ n \in Words
    BY <1>0, ProgramParts, WordsAreNumbers
<1>2. CASE d = 0
  <2>1. Nested(prog)[d][f][n] = {}
      BY <1>1, <1>2, NestedLevels DEF NoRuns
  <2>2. QED BY <2>1 DEF CoveredRuns
<1>3. CASE d > 0
  <2> DEFINE e == Nested(prog)[d - 1]
  <2>1. d \in 1..Depth /\ d - 1 \in 0..Depth
      BY <1>1, <1>3
  <2>2. e \in Runs /\ Nested(prog)[d] = Deeper(prog, e) /\ CoveredBy(prog, reg, e)
      BY <1>1, <1>3, <2>1, NestedLevels
  <2> HIDE DEF e
  <2>3. QED BY <1>1, <2>2, CandidateSound
<1>4. QED BY <1>2, <1>3

\* A hypothesis that covers an observed world admits what that world admits.
LEMMA CoveringAdmits ==
    ASSUME NEW a \in Worlds, NEW b \in Worlds, WorldCovers(a, b), a.guard = Always,
           a.value.origin = NoTerm, NEW n \in Words, NEW r, Admits(b, n, r)
    PROVE Admits(a, n, r)
<1>1. /\ a.value.lo \in Nat /\ a.value.hi \in Nat /\ b.value.lo \in Nat /\ b.value.hi \in Nat
      /\ n \in Nat /\ n <= MaxWord /\ MaxWord \in Nat
    BY WordsAreNumbers DEF Worlds, Facts
<1>2. n \in a.guard.lo..a.guard.hi
    BY <1>1 DEF Always
<1>3. r.v \in a.value.lo..a.value.hi
    BY <1>1 DEF Admits, WorldCovers, ValueCovers, Within
<1>4. Holds(a.value.expr, n, r.v) /\ Holds(a.value.origin, n, r.v)
    BY DEF Admits, WorldCovers, ValueCovers, Holds, NoTerm
<1>5. r.owner = a.owner /\ (r.wrote => a.writes = "yes")
    BY DEF Admits, WorldCovers, SameResources, EffectsCover
<1>6. QED BY <1>2, <1>3, <1>4, <1>5 DEF Admits

\* Hypotheses that cover what was observed under them speak for every depth:
\* for the calls of one depth, and therefore for those of the next.
LEMMA TrialCovers ==
    ASSUME SummaryInv, RegistryCovers, NoHistoryGuessed,
           Complete(Observed(Trial)), AllCovered(Observed(Trial))
    PROVE \A d \in 0..Depth : CoveredBy(prog, Trial, Nested(prog)[d])
<1> DEFINE Good(d) == CoveredBy(prog, Trial, Nested(prog)[d])
           T == {d \in Nat : d <= Depth => Good(d)}
<1>1. prog \in Programs /\ Depth \in Nat /\ component \subseteq Functions
    BY SummaryAssumption DEF SummaryInv, TypeOK, SummaryAssumption
<1>2. /\ DOMAIN Trial = DOMAIN registry \cup component
      /\ \A f \in component : Trial[f].worlds = candidates[f]
      /\ \A f \in DOMAIN registry : f \notin component => Trial[f] = registry[f]
      /\ Typed(Trial) /\ Known(Trial)
    BY TrialRegistry
<1>3. ASSUME NEW d \in 0..Depth, d > 0 => CoveredBy(prog, Trial, Nested(prog)[d - 1])
      PROVE Good(d)
  <2> SUFFICES ASSUME NEW g \in DOMAIN Trial, NEW n \in 0..prog.requires[g]
               PROVE CoveredRuns(Trial[g].worlds, n, Nested(prog)[d][g][n])
      BY DEF CoveredBy
  <2>1. CASE g \notin component
      BY <1>2, <2>1 DEF RegistryCovers, CoveredBy
  <2>2. CASE g \in component
    <3> DEFINE seen == AnalyzeOne(prog, g, Trial, component)
               runs == Nested(prog)[d][g][n]
    <3>1. /\ Observed(Trial)[g] = seen /\ g \in Functions /\ seen.worlds \in Seq(Worlds)
          /\ seen.state = "Candidate"
        BY <1>1, <2>2, ObservedWorlds DEF Reported, Complete
    <3>2. CoveredRuns(seen.worlds, n, runs)
        BY <1>2, <1>3, <3>1, NextDepth
    <3>3. Covers(candidates[g], seen.worlds)
        BY <2>2, <3>1 DEF AllCovered
    <3>4. candidates[g] \in Hypotheses /\ Trial[g].worlds = candidates[g]
        BY <1>2, <2>2 DEF SummaryInv, TrialSound
    <3>5. n \in Words
        BY <1>1, <3>1, ProgramParts, WordsAreNumbers
    <3> HIDE DEF seen, runs
    <3>6. ASSUME NEW r \in runs
          PROVE ~r.fault /\ \E i \in DOMAIN candidates[g] : Admits(candidates[g][i], n, r)
      <4>1. PICK j \in DOMAIN seen.worlds : Admits(seen.worlds[j], n, r) /\ ~r.fault
          BY <3>2 DEF CoveredRuns
      <4>2. PICK i \in DOMAIN candidates[g] : WorldCovers(candidates[g][i], seen.worlds[j])
          BY <3>3 DEF Covers
      <4>3. seen.worlds[j] \in Worlds
          BY <3>1
      <4>4. candidates[g][i] \in Worlds /\ candidates[g][i].guard = Always
          BY <3>4, HypothesisParts
      <4>5. candidates[g][i].value.origin = NoTerm
          BY <2>2 DEF NoHistoryGuessed
      <4>6. Admits(candidates[g][i], n, r)
          BY <3>5, <4>1, <4>2, <4>3, <4>4, <4>5, CoveringAdmits
      <4>7. QED BY <4>1, <4>6
    <3>7. QED BY <3>4, <3>6 DEF CoveredRuns, runs
  <2>3. QED BY <2>1, <2>2
<1> HIDE DEF Good
<1>4. 0 \in T
    BY <1>1, <1>3
<1>5. ASSUME NEW d \in Nat, d \in T PROVE d + 1 \in T
  <2> SUFFICES ASSUME d + 1 <= Depth PROVE Good(d + 1)
      OBVIOUS
  <2>1. d + 1 \in 0..Depth /\ (d + 1) - 1 = d /\ Good(d)
      BY <1>1, <1>5
  <2>2. CoveredBy(prog, Trial, Nested(prog)[(d + 1) - 1])
      BY <2>1 DEF Good
  <2>3. QED BY <1>3, <2>1, <2>2
<1>6. \A d \in 0..Depth : d \in T
  <2> HIDE DEF T
  <2>1. Nat \subseteq T
      BY <1>4, <1>5, Induction
  <2>2. QED BY <1>1, <2>1
<1>7. \A d \in 0..Depth : Good(d)
    BY <1>1, <1>6
<1>8. QED BY <1>7 DEF Good

\* Summaries that speak for every depth may be added to the registry.
LEMMA RegistryGrows ==
    ASSUME RegistryCovers, NEW more, prog' = prog,
           \/ registry' = registry
           \/ /\ registry' = Plus(registry, more)
              /\ \A f \in DOMAIN more : \A d \in 0..Depth : \A n \in 0..prog.requires[f] :
                    CoveredRuns(more[f].worlds, n, Nested(prog)[d][f][n])
    PROVE RegistryCovers'
<1>1. CASE registry' = registry
    BY <1>1 DEF RegistryCovers
<1>2. CASE /\ registry' = Plus(registry, more)
           /\ \A f \in DOMAIN more : \A d \in 0..Depth : \A n \in 0..prog.requires[f] :
                 CoveredRuns(more[f].worlds, n, Nested(prog)[d][f][n])
  <2>1. /\ DOMAIN Plus(registry, more) = DOMAIN registry \cup DOMAIN more
        /\ \A f \in DOMAIN more : Plus(registry, more)[f] = more[f]
        /\ \A f \in DOMAIN registry : f \notin DOMAIN more => Plus(registry, more)[f] = registry[f]
      BY PlusParts
  <2>2. /\ DOMAIN registry' = DOMAIN registry \cup DOMAIN more
        /\ \A f \in DOMAIN more : registry'[f] = more[f]
        /\ \A f \in DOMAIN registry : f \notin DOMAIN more => registry'[f] = registry[f]
      BY <1>2, <2>1, Zenon
  <2>3. ASSUME NEW d \in 0..Depth, NEW g \in DOMAIN registry', NEW n \in 0..prog.requires[g]
        PROVE CoveredRuns(registry'[g].worlds, n, Nested(prog)[d][g][n])
    <3>1. CASE g \in DOMAIN more
        BY <1>2, <2>2, <3>1
    <3>2. CASE g \notin DOMAIN more
        BY <2>2, <3>2 DEF RegistryCovers, CoveredBy
    <3>3. QED BY <3>1, <3>2
  <2>4. QED BY <2>3 DEF RegistryCovers, CoveredBy
<1>3. QED BY <1>1, <1>2

LEMMA ResultsGrow ==
    ASSUME ResultsSafe, prog' = prog, NEW more, results' = Plus(results, more), Idle,
           DOMAIN registry \subseteq DOMAIN registry',
           \A f \in DOMAIN more :
               more[f].verified => f \in DOMAIN registry' \/ SafeAbove(prog, f)
    PROVE ResultsSafe'
<1>1. /\ DOMAIN Plus(results, more) = DOMAIN results \cup DOMAIN more
      /\ \A f \in DOMAIN more : Plus(results, more)[f] = more[f]
      /\ \A f \in DOMAIN results : f \notin DOMAIN more => Plus(results, more)[f] = results[f]
    BY PlusParts
<1>2. /\ DOMAIN results' = DOMAIN results \cup DOMAIN more
      /\ \A f \in DOMAIN more : results'[f] = more[f]
      /\ \A f \in DOMAIN results : f \notin DOMAIN more => results'[f] = results[f]
    BY <1>1, Zenon
<1>3. ASSUME NEW f \in DOMAIN results', results'[f].verified
      PROVE f \in DOMAIN registry' \/ SafeAbove(prog, f)
  <2>1. CASE f \in DOMAIN more
      BY <1>2, <1>3, <2>1
  <2>2. CASE f \notin DOMAIN more
      BY <1>2, <1>3, <2>2 DEF ResultsSafe
  <2>3. QED BY <2>1, <2>2
<1>4. component' = {}
    BY DEF Idle
<1>5. QED BY <1>3, <1>4 DEF ResultsSafe

LEMMA LeaveSound ==
    ASSUME SoundInv, NEW C, NEW base, NEW why, LeaveBaseline(C, base, why),
           \A f \in C : base[f].verified => SafeAbove(prog, f),
           \A f \in C : Baseline(base[f])
    PROVE SoundInv'
<1> DEFINE more == [f \in C |-> [base[f] EXCEPT !.outcome = why]]
<1>1. DOMAIN more = C
    OBVIOUS
<1>2. \A f \in C : more[f].verified = base[f].verified
    BY DEF Baseline, Reported, Fields
<1>3. results' = Plus(results, more) /\ prog' = prog /\ Idle /\ registry' = registry
    BY DEF LeaveBaseline
<1> HIDE DEF more
<1>4. ResultsSafe'
    BY <1>1, <1>2, <1>3, ResultsGrow DEF SoundInv
<1>5. RegistryCovers'
    BY <1>3, RegistryGrows DEF SoundInv
<1>6. QED BY <1>4, <1>5 DEF SoundInv

LEMMA SingleSound ==
    ASSUME SummaryInv, SoundInv, AnalyzeSingle
    PROVE SoundInv'
<1>1. PICK C \in NextComponents : \E f \in C :
          /\ Alone(C)
          /\ \E r \in {AnalyzeOne(prog, f, registry, {})} :
                /\ results' = Plus(results, [g \in C |-> r])
                /\ registry' = IF Closes(r) THEN Plus(registry, [g \in C |-> r]) ELSE registry
    BY DEF AnalyzeSingle
<1>2. PICK f \in C :
          /\ Alone(C)
          /\ \E r \in {AnalyzeOne(prog, f, registry, {})} :
                /\ results' = Plus(results, [g \in C |-> r])
                /\ registry' = IF Closes(r) THEN Plus(registry, [g \in C |-> r]) ELSE registry
    BY <1>1
<1> DEFINE r == AnalyzeOne(prog, f, registry, {})
           more == [g \in C |-> r]
<1>3. /\ results' = Plus(results, more)
      /\ registry' = IF Closes(r) THEN Plus(registry, more) ELSE registry
    BY <1>2
<1>4. C = {f} /\ f \in Functions /\ Typed(registry) /\ Known(registry) /\ RegistryCovers /\ ResultsSafe
    BY <1>2 DEF Alone, NextComponents, SummaryInv, TypeOK, RegistrySound, SoundInv
<1>5. r.verified => SafeAbove(prog, f)
    BY <1>4, BaselineSafe
<1>6. ASSUME r.state = "Candidate", NEW d \in 0..Depth, NEW n \in 0..prog.requires[f]
      PROVE CoveredRuns(r.worlds, n, Nested(prog)[d][f][n])
  <2>1. d > 0 => d - 1 \in 0..Depth
      BY SummaryAssumption DEF SummaryAssumption
  <2>2. d > 0 => CoveredBy(prog, registry, Nested(prog)[d - 1])
      BY <1>4, <2>1 DEF RegistryCovers
  <2>3. QED BY <1>4, <1>6, <2>2, NextDepth
<1> HIDE DEF r
<1>7. DOMAIN more = C /\ \A g \in C : more[g] = r
    OBVIOUS
<1> HIDE DEF more
<1>8. prog' = prog /\ Idle
    BY DEF AnalyzeSingle
<1>9. RegistryCovers'
  <2>1. CASE Closes(r)
    <3>1. r.state = "Candidate" /\ registry' = Plus(registry, more)
        BY <1>3, <2>1 DEF Closes, Ready
    <3>2. \A g \in DOMAIN more : \A d \in 0..Depth : \A n \in 0..prog.requires[g] :
             CoveredRuns(more[g].worlds, n, Nested(prog)[d][g][n])
        BY <1>4, <1>6, <1>7, <3>1
    <3>3. QED BY <1>4, <1>8, <3>1, <3>2, RegistryGrows
  <2>2. CASE ~Closes(r)
      BY <1>3, <1>4, <1>8, <2>2, RegistryGrows
  <2>3. QED BY <2>1, <2>2
<1>10. DOMAIN registry \subseteq DOMAIN registry'
  <2>1. DOMAIN Plus(registry, more) = DOMAIN registry \cup DOMAIN more
      BY PlusParts
  <2>2. QED BY <1>3, <2>1
<1>11. ResultsSafe'
  <2>1. \A g \in DOMAIN more : more[g].verified => SafeAbove(prog, g)
      BY <1>4, <1>5, <1>7
  <2>2. QED BY <1>3, <1>4, <1>8, <1>10, <2>1, ResultsGrow
<1>12. QED BY <1>9, <1>11 DEF SoundInv

LEMMA PublishSound ==
    ASSUME SummaryInv, SoundInv, NoHistoryGuessed, Publish(Observed(Trial))
    PROVE SoundInv'
<1> DEFINE observed == Observed(Trial)
           more == [f \in component |-> [observed[f] EXCEPT !.outcome = "Closed"]]
<1>1. /\ registry' = Plus(registry, more) /\ results' = Plus(results, more)
      /\ Idle /\ prog' = prog /\ Complete(observed) /\ AllCovered(observed)
    BY DEF Publish
<1>2. DOMAIN more = component /\ component \subseteq Functions /\ RegistryCovers /\ ResultsSafe
    BY DEF SummaryInv, TypeOK, SoundInv
<1>3. ASSUME NEW f \in component PROVE more[f].worlds = AnalyzeOne(prog, f, Trial, component).worlds
  <2>1. Fields(observed[f]) /\ observed[f] = AnalyzeOne(prog, f, Trial, component)
      BY ObservedWorlds DEF Reported
  <2> HIDE DEF observed
  <2>2. more[f] = [observed[f] EXCEPT !.outcome = "Closed"]
      OBVIOUS
  <2>3. more[f].worlds = observed[f].worlds
      BY <2>1, <2>2 DEF Fields
  <2>4. QED BY <2>1, <2>3
<1>4. \A d \in 0..Depth : CoveredBy(prog, Trial, Nested(prog)[d])
    BY <1>1, <1>2, TrialCovers
<1>5. ASSUME NEW f \in component, NEW d \in 0..Depth, NEW n \in 0..prog.requires[f]
      PROVE CoveredRuns(more[f].worlds, n, Nested(prog)[d][f][n])
  <2>1. f \in Functions /\ Typed(Trial) /\ Known(Trial)
      BY <1>2, TrialRegistry
  <2>2. AnalyzeOne(prog, f, Trial, component).state = "Candidate"
      BY <1>1, ObservedWorlds DEF Complete
  <2>3. d > 0 => d - 1 \in 0..Depth
      BY SummaryAssumption DEF SummaryAssumption
  <2>4. d > 0 => CoveredBy(prog, Trial, Nested(prog)[d - 1])
      BY <1>4, <2>3
  <2> HIDE DEF more
  <2>5. QED BY <1>3, <2>1, <2>2, <2>4, NextDepth
<1> HIDE DEF more
<1>6. RegistryCovers'
    BY <1>1, <1>2, <1>5, RegistryGrows
<1>7. DOMAIN registry' = DOMAIN registry \cup component
  <2>1. DOMAIN Plus(registry, more) = DOMAIN registry \cup DOMAIN more
      BY PlusParts
  <2>2. QED BY <1>1, <1>2, <2>1
<1>8. ResultsSafe'
    BY <1>1, <1>2, <1>7, ResultsGrow
<1>9. QED BY <1>6, <1>8 DEF SoundInv

\* The baseline of the component on trial is left behind.
LEMMA EndSound ==
    ASSUME SummaryInv, SoundInv, NEW why, LeaveBaseline(component, fallback, why)
    PROVE SoundInv'
<1>1. \A f \in component : Baseline(fallback[f]) /\ (fallback[f].verified => SafeAbove(prog, f))
    BY DEF SummaryInv, TrialSound, SoundInv, ResultsSafe
<1>2. QED BY <1>1, LeaveSound

LEMMA StartSound ==
    ASSUME SummaryInv, SoundInv, StartComponent
    PROVE SoundInv'
<1> DEFINE Base(C) == [f \in C |-> AnalyzeOne(prog, f, registry, {})]
<1>1. PICK C \in NextComponents :
         \/ \E why : LeaveBaseline(C, Base(C), why)
         \/ /\ component' = C /\ fallback' = Base(C)
            /\ UNCHANGED <<prog, left, registry, results>>
    BY Zenon DEF StartComponent
<1>2. C \subseteq Functions /\ Typed(registry) /\ prog \in Programs /\ RegistryCovers
    BY DEF NextComponents, SummaryInv, TypeOK, RegistrySound, SoundInv
<1>3. \A f \in C : /\ Base(C)[f] = AnalyzeOne(prog, f, registry, {})
                   /\ Baseline(Base(C)[f])
                   /\ Base(C)[f].verified => SafeAbove(prog, f)
    BY <1>2, BaselineAnalysis, BaselineSafe
<1> DEFINE base == Base(C)
<1>4. /\ \A f \in C : Baseline(base[f]) /\ (base[f].verified => SafeAbove(prog, f))
      /\ \/ \E why : LeaveBaseline(C, base, why)
         \/ /\ component' = C /\ fallback' = base
            /\ UNCHANGED <<prog, left, registry, results>>
    BY <1>1, <1>3
<1> HIDE DEF base
<1>5. CASE \E why : LeaveBaseline(C, base, why)
    BY <1>4, <1>5, LeaveSound
<1>6. CASE component' = C /\ fallback' = base /\ UNCHANGED <<prog, left, registry, results>>
    BY <1>4, <1>6 DEF SoundInv, RegistryCovers, ResultsSafe
<1>7. QED BY <1>4, <1>5, <1>6

\* Every step keeps what is published sound.
LEMMA SoundStep == SummaryInv /\ SoundInv /\ NoHistoryGuessed /\ [Next]_vars => SoundInv'
<1> SUFFICES ASSUME SummaryInv, SoundInv, NoHistoryGuessed, [Next]_vars PROVE SoundInv'
    OBVIOUS
<1>1. CASE AnalyzeSingle
    BY <1>1, SingleSound
<1>2. CASE StartComponent
    BY <1>2, StartSound
<1>3. CASE GiveUp
    BY <1>3, EndSound DEF GiveUp
<1>4. CASE UNCHANGED <<prog, registry, results, component, fallback>>
    BY <1>4 DEF SoundInv, RegistryCovers, ResultsSafe
<1>5. CASE Pass
  <2>1. CASE PassFails(Observed(Trial)) \/ NotCovered(Observed(Trial))
      BY <2>1, EndSound DEF PassFails, NotCovered
  <2>2. CASE Publish(Observed(Trial))
      BY <2>2, PublishSound
  <2>3. CASE PassGoesOn
      BY <1>4, <2>3 DEF PassGoesOn
  <2>4. QED BY <1>5, <2>1, <2>2, <2>3, PassCases
<1>6. CASE BodyError
    BY <1>4, <1>6, EndSound DEF BodyError
<1>7. CASE Report \/ UNCHANGED vars
    BY <1>4, <1>7 DEF Report, vars
<1>8. QED BY <1>1, <1>2, <1>3, <1>5, <1>6, <1>7 DEF Next, Progress

LEMMA SoundAlways == Spec /\ []NoHistoryGuessed => []SoundInv
<1>1. Init => SoundInv
    BY DEF Init, SoundInv, RegistryCovers, CoveredBy, ResultsSafe
<1>2. QED BY <1>1, SoundStep, SummaryAlways, PTL DEF Spec

\* A published summary speaks for every execution, of any number of nested
\* calls, although the bodies of a recursive component were only analyzed under
\* a guess about each other (summary/recursive.rs:140): as long as no guess is
\* about the history of a value, which the covering check leaves out.
THEOREM SummariesCoverHolds == Spec /\ []NoHistoryGuessed => []SummariesCover
<1>1. SummaryInv /\ SoundInv => SummariesCover
  <2> SUFFICES ASSUME SummaryInv, SoundInv, NEW f \in DOMAIN registry,
                      NEW n \in 0..prog.requires[f], NEW r \in Executions(prog)[f][n]
               PROVE ~r.fault /\ \E i \in DOMAIN registry[f].worlds : Admits(registry[f].worlds[i], n, r)
      BY Zenon DEF SummariesCover
  <2>1. Depth \in 0..Depth
      BY SummaryAssumption DEF SummaryAssumption
  <2>2. CoveredBy(prog, registry, Executions(prog))
      BY <2>1 DEF SoundInv, RegistryCovers, Executions
  <2>3. CoveredRuns(registry[f].worlds, n, Executions(prog)[f][n])
      BY <2>2 DEF CoveredBy
  <2>4. QED BY <2>3 DEF CoveredRuns
<1>2. QED BY <1>1, SummaryAlways, SoundAlways, PTL

\* When every function is verified no call within its contract faults, at any
\* depth.
LEMMA CheckedDepths ==
    ASSUME SummaryInv, SoundInv, MemoryChecked
    PROVE \A d \in 0..Depth : NoFaults(prog, Nested(prog)[d])
<1> DEFINE Good(d) == NoFaults(prog, Nested(prog)[d])
           T == {d \in Nat : d <= Depth => Good(d)}
<1>1. prog \in Programs /\ Depth \in Nat
    BY SummaryAssumption DEF SummaryInv, TypeOK, SummaryAssumption
<1>2. DOMAIN results = Functions /\ \A f \in Functions : results[f].verified
    BY DEF MemoryChecked, SummaryInv, TypeOK, TrialSound
<1>3. \A f \in Functions : f \in DOMAIN registry \/ SafeAbove(prog, f)
    BY <1>2 DEF SoundInv, ResultsSafe
<1>4. Good(0)
  <2>1. \A g \in Functions : 0..prog.requires[g] \subseteq Words
      BY <1>1, ProgramParts, WordsAreNumbers
  <2>2. \A g \in Functions : \A n \in 0..prog.requires[g] : Nested(prog)[0][g][n] = {}
      BY <1>1, <2>1, NestedLevels DEF NoRuns
  <2>3. QED BY <2>2 DEF NoFaults
<1>5. ASSUME NEW d \in 1..Depth, Good(d - 1) PROVE Good(d)
  <2> SUFFICES ASSUME NEW g \in Functions, NEW n \in 0..prog.requires[g], NEW r \in Nested(prog)[d][g][n]
               PROVE ~r.fault
      BY DEF NoFaults
  <2>1. CASE SafeAbove(prog, g)
      BY <1>5, <2>1 DEF SafeAbove
  <2>2. CASE g \in DOMAIN registry
    <3>1. d \in 0..Depth
        BY <1>1
    <3>2. CoveredBy(prog, registry, Nested(prog)[d])
        BY <3>1 DEF SoundInv, RegistryCovers
    <3>3. CoveredRuns(registry[g].worlds, n, Nested(prog)[d][g][n])
        BY <2>2, <3>2 DEF CoveredBy
    <3>4. QED BY <3>3 DEF CoveredRuns
  <2>3. QED BY <1>3, <2>1, <2>2
<1> HIDE DEF Good
<1>6. 0 \in T
    BY <1>4
<1>7. ASSUME NEW d \in Nat, d \in T PROVE d + 1 \in T
  <2> SUFFICES ASSUME d + 1 <= Depth PROVE Good(d + 1)
      OBVIOUS
  <2>1. d + 1 \in 1..Depth /\ (d + 1) - 1 = d /\ Good(d)
      BY <1>1, <1>7
  <2>2. Good((d + 1) - 1)
      BY <2>1
  <2>3. QED BY <1>5, <2>1, <2>2
<1>8. \A d \in 0..Depth : d \in T
  <2> HIDE DEF T
  <2>1. Nat \subseteq T
      BY <1>6, <1>7, Induction
  <2>2. QED BY <1>1, <2>1
<1>9. \A d \in 0..Depth : Good(d)
    BY <1>1, <1>8
<1>10. QED BY <1>9 DEF Good

\* A program that verify_program reports as checked does not fault, whichever of
\* its components closed and whichever were left with their baseline, under the
\* same condition.
THEOREM CheckedProgramsRunSafely == Spec /\ []NoHistoryGuessed => []CheckedRunsSafely
<1>1. SummaryInv /\ SoundInv => CheckedRunsSafely
  <2> SUFFICES ASSUME SummaryInv, SoundInv, MemoryChecked, NEW n \in 0..prog.requires[Entry],
                      NEW r \in Executions(prog)[Entry][n]
               PROVE ~r.fault
      BY Zenon DEF CheckedRunsSafely
  <2>1. Depth \in 0..Depth /\ Entry \in Functions
      BY SummaryAssumption DEF SummaryAssumption
  <2>2. NoFaults(prog, Executions(prog))
      BY <2>1, CheckedDepths DEF Executions
  <2>3. QED BY <2>1, <2>2 DEF NoFaults
<1>2. QED BY <1>1, SummaryAlways, SoundAlways, PTL

=============================================================================
