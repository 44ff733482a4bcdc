--------------------------- MODULE LeastNumbers ----------------------------
(***************************************************************************)
(* The least-number principle, induction and recursion, over the naturals *)
(* and over the subsets of a finite set, as facts about sets.  The rules   *)
(* of the library take the property, or the step, as an operator; here a   *)
(* property is the set of what has it, and a step is a function.           *)
(***************************************************************************)
EXTENDS FiniteSetTheorems, TLAPS

\* the intervals from 0 are ordered by inclusion as their ends are by size
LEMMA LeastNatural ==
  ASSUME NEW T, T \subseteq Nat, T # {}
  PROVE  \E x \in T : \A y \in T : x <= y
<1> DEFINE Below == {0..n : n \in T}
<1>1. \A n \in T : 0..n \in FiniteSubsetsOf(Nat)
  BY FS_Interval DEF FiniteSubsetsOf
<1>2. Below \subseteq FiniteSubsetsOf(Nat) /\ Below # {}
  BY <1>1
<1>3. PICK B \in Below : \A A \in Below : <<A, B>> \notin StrictSubsetOrdering(Nat)
  <2> HIDE DEF Below
  <2> QED
    BY <1>2, WFMin, FS_StrictSubsetOrderingWellFounded
<1>4. PICK x \in T : B = 0..x
  OBVIOUS
<1>5. ASSUME NEW y \in T, y < x PROVE FALSE
  <2>1. 0..y \in Below /\ 0..y \subseteq 0..x /\ 0..y # 0..x
    BY <1>5
  <2>2. <<0..y, 0..x>> \in StrictSubsetOrdering(Nat)
    BY <2>1 DEF StrictSubsetOrdering
  <2> QED
    BY <1>3, <1>4, <2>1, <2>2
<1> QED
  BY <1>5

LEMMA NaturalsBySteps ==
  ASSUME NEW S, 0 \in S, \A n \in Nat : n \in S => n + 1 \in S
  PROVE  Nat \subseteq S
<1> SUFFICES ASSUME Nat \ S # {} PROVE FALSE
  OBVIOUS
<1>1. PICK x \in Nat \ S : \A y \in Nat \ S : x <= y
  BY LeastNatural
<1>2. x # 0 /\ x - 1 \in Nat /\ x - 1 \in S
  BY <1>1
<1> QED
  BY <1>1, <1>2

\* A function may be iterated: what it reaches from a is a function of the
\* number of steps.
LEMMA IterationExists ==
  ASSUME NEW S, NEW a \in S, NEW g \in [S -> S]
  PROVE  \E f \in [Nat -> S] :
           f[0] = a /\ \A k \in Nat : f[k+1] = g[f[k]]
<1> DEFINE Runs(n) == {f \in [0..n -> S] :
                         f[0] = a /\ \A k \in 1..n : f[k] = g[f[k-1]]}
           Agree(n) == \A e, f \in Runs(n) : e = f
           Good == {n \in Nat : Runs(n) # {} /\ Agree(n)}
<1>1. 0 \in Good
  <2>1. [k \in 0..0 |-> a] \in Runs(0)
    OBVIOUS
  <2>2. Agree(0)
    OBVIOUS
  <2> QED
    BY <2>1, <2>2
<1>2. ASSUME NEW n \in Nat, n \in Good
      PROVE  n + 1 \in Good
  <2>1. PICK f \in Runs(n) : TRUE
    BY <1>2
  <2> DEFINE e == [k \in 0..(n+1) |-> IF k = n + 1 THEN g[f[n]] ELSE f[k]]
  <2>2. e \in Runs(n + 1)
    <3>1. /\ f \in [0..n -> S] /\ f[0] = a
          /\ \A k \in 1..n : f[k] = g[f[k-1]]
      BY <2>1
    <3>2. e \in [0..(n+1) -> S]
      BY <3>1
    <3>3. e[0] = a
      BY <3>1
    <3>4. ASSUME NEW k \in 1..(n+1) PROVE e[k] = g[e[k-1]]
      <4>1. CASE k = n + 1
        BY <4>1
      <4>2. CASE k \in 1..n
        BY <3>1, <4>2
      <4> QED
        BY <4>1, <4>2
    <3> QED
      BY <3>2, <3>3, <3>4
  <2>3. ASSUME NEW d \in Runs(n + 1)
        PROVE  /\ [k \in 0..n |-> d[k]] \in Runs(n)
               /\ d[n+1] = g[d[n]]
    OBVIOUS
  <2>4. ASSUME NEW c \in Runs(n + 1), NEW d \in Runs(n + 1)
        PROVE  c = d
    <3>1. [k \in 0..n |-> c[k]] = [k \in 0..n |-> d[k]]
      BY <1>2, <2>3
    <3>2. \A k \in 0..n : c[k] = d[k]
      BY <3>1
    <3>3. c[n+1] = d[n+1]
      BY <2>3, <3>2
    <3>4. \A k \in 0..(n+1) : c[k] = d[k]
      BY <3>2, <3>3
    <3>5. c \in [0..(n+1) -> S] /\ d \in [0..(n+1) -> S]
      OBVIOUS
    <3> QED
      BY <3>4, <3>5
  <2> QED
    BY <2>2, <2>4
<1>3. Nat \subseteq Good
  <2> HIDE DEF Good
  <2> QED
    BY <1>1, <1>2, NaturalsBySteps
<1> DEFINE run[n \in Nat] == CHOOSE f \in Runs(n) : TRUE
           h == [n \in Nat |-> run[n][n]]
<1>4. \A n \in Nat : run[n] \in Runs(n) /\ Agree(n)
  BY <1>3
<1> HIDE DEF run
<1>5. h \in [Nat -> S]
  BY <1>4
<1>6. \A n \in Nat : run[n][0] = a /\ h[0] = a
  BY <1>4
<1>7. ASSUME NEW n \in Nat PROVE h[n+1] = g[h[n]]
  <2>1. [k \in 0..n |-> run[n+1][k]] \in Runs(n)
    BY <1>4
  <2>2. [k \in 0..n |-> run[n+1][k]] = run[n]
    <3>1. Agree(n) /\ run[n] \in Runs(n)
      BY <1>4
    <3> HIDE DEF Runs
    <3> QED
      BY <2>1, <3>1
  <2>3. run[n+1][n] = run[n][n]
    BY <2>2
  <2> QED
    BY <1>4, <2>3
<1>8. h[0] = a
  BY <1>6
<1> HIDE DEF h
<1> QED
  BY <1>5, <1>7, <1>8

Iterates(S, a, g) == CHOOSE f \in [Nat -> S] :
                       f[0] = a /\ \A k \in Nat : f[k+1] = g[f[k]]

LEMMA IteratesSteps ==
  ASSUME NEW S, NEW a \in S, NEW g \in [S -> S]
  PROVE  /\ Iterates(S, a, g) \in [Nat -> S]
         /\ Iterates(S, a, g)[0] = a
         /\ \A k \in Nat : Iterates(S, a, g)[k+1] = g[Iterates(S, a, g)[k]]
<1>1. \E f \in [Nat -> S] : f[0] = a /\ \A k \in Nat : f[k+1] = g[f[k]]
  BY IterationExists
<1> QED
  BY <1>1 DEF Iterates

\* Finite sets may be emptied one element at a time.
LEMMA SubsetsBySteps ==
  ASSUME NEW M, IsFiniteSet(M), NEW P, {} \in P,
         \A S \in SUBSET M : S # {} /\ (\A x \in S : S \ {x} \in P) => S \in P
  PROVE  SUBSET M \subseteq P
<1> DEFINE Sizes == {n \in Nat : \A S \in SUBSET M : Cardinality(S) = n => S \in P}
<1>1. \A S \in SUBSET M : IsFiniteSet(S) /\ Cardinality(S) \in Nat
  BY FS_Subset, FS_CardinalityType
<1>2. 0 \in Sizes
  BY <1>1, FS_EmptySet
<1>3. ASSUME NEW n \in Nat, n \in Sizes PROVE n + 1 \in Sizes
  <2> SUFFICES ASSUME NEW S \in SUBSET M, Cardinality(S) = n + 1 PROVE S \in P
    OBVIOUS
  <2>1. S # {}
    <3>1. n + 1 # 0
      OBVIOUS
    <3> QED
      BY <3>1, FS_EmptySet, Zenon
  <2>2. ASSUME NEW x \in S PROVE S \ {x} \in P
    <3>1. Cardinality(S \ {x}) = n
      BY <1>1, FS_RemoveElement
    <3> QED
      BY <1>3, <3>1
  <2> QED
    BY <2>1, <2>2
<1>4. Nat \subseteq Sizes
  <2> HIDE DEF Sizes
  <2> QED
    BY <1>2, <1>3, NaturalsBySteps
<1> QED
  BY <1>1, <1>4

\* A function may be defined on the subsets of a finite set by what is left
\* without one chosen element.
Picks(pick, M) == \A S \in SUBSET M : S # {} => pick[S] \in S

Recurs(f, M, a, pick, g) ==
  /\ f[{}] = a
  /\ \A S \in SUBSET M : S # {} => f[S] = g[<<pick[S], f[S \ {pick[S]}]>>]

LEMMA SubsetRecursion ==
  ASSUME NEW M, IsFiniteSet(M), NEW X, NEW a \in X,
         NEW pick, Picks(pick, M),
         NEW g \in [M \X X -> X]
  PROVE  \E f \in [SUBSET M -> X] : Recurs(f, M, a, pick, g)
<1> DEFINE Fns == [SUBSET M -> X]
           step(h) == [S \in SUBSET M |-> IF S = {} THEN a
                                          ELSE g[<<pick[S], h[S \ {pick[S]}]>>]]
           G == [h \in Fns |-> step(h)]
           start == [S \in SUBSET M |-> a]
           run == Iterates(Fns, start, G)
           f == [S \in SUBSET M |-> run[Cardinality(S)][S]]
<1>1. start \in Fns
  OBVIOUS
<1>2. ASSUME NEW h \in Fns PROVE step(h) \in Fns
  <2>1. ASSUME NEW S \in SUBSET M, S # {}
        PROVE  g[<<pick[S], h[S \ {pick[S]}]>>] \in X
    <3>1. pick[S] \in M /\ h[S \ {pick[S]}] \in X
      BY <2>1 DEF Picks
    <3> QED
      BY <3>1
  <2> QED
    BY <2>1
<1>3. G \in [Fns -> Fns]
  BY <1>2
<1>4. /\ run \in [Nat -> Fns] /\ run[0] = start
      /\ \A k \in Nat : run[k+1] = G[run[k]]
  <2> HIDE DEF Fns, G, start
  <2> QED
    BY <1>1, <1>3, IteratesSteps
<1> HIDE DEF run
<1>5. \A S \in SUBSET M : IsFiniteSet(S) /\ Cardinality(S) \in Nat
  BY FS_Subset, FS_CardinalityType
<1>6. f \in Fns
  BY <1>4, <1>5
<1>7. f[{}] = a
  BY <1>4, FS_EmptySet
<1>8. ASSUME NEW S \in SUBSET M, S # {}
      PROVE  f[S] = g[<<pick[S], f[S \ {pick[S]}]>>]
  <2> DEFINE n == Cardinality(S)
             L == S \ {pick[S]}
  <2>1. n \in Nat \ {0} /\ Cardinality(L) = n - 1 /\ L \in SUBSET M
    BY <1>5, <1>8, FS_RemoveElement, FS_EmptySet DEF Picks
  <2> HIDE DEF n
  <2>2. run[n] = step(run[n-1])
    <3>1. n - 1 \in Nat /\ (n - 1) + 1 = n
      BY <2>1
    <3> QED
      BY <1>4, <3>1
  <2>3. run[n][S] = g[<<pick[S], run[n-1][L]>>]
    BY <1>8, <2>2
  <2> QED
    BY <2>1, <2>3 DEF n
<1> HIDE DEF f
<1>9. Recurs(f, M, a, pick, g)
  BY <1>7, <1>8 DEF Recurs
<1> QED
  BY <1>6, <1>9

OnSubsets(M, X, a, pick, g) ==
  CHOOSE f \in [SUBSET M -> X] : Recurs(f, M, a, pick, g)

LEMMA OnSubsetsSteps ==
  ASSUME NEW M, IsFiniteSet(M), NEW X, NEW a \in X,
         NEW pick, Picks(pick, M), NEW g \in [M \X X -> X]
  PROVE  /\ OnSubsets(M, X, a, pick, g) \in [SUBSET M -> X]
         /\ Recurs(OnSubsets(M, X, a, pick, g), M, a, pick, g)
<1>1. \E f \in [SUBSET M -> X] : Recurs(f, M, a, pick, g)
  BY SubsetRecursion
<1> QED
  BY <1>1 DEF OnSubsets

\* A function may be defined on the naturals, each value by the number and the
\* value before.
StepsOn(g, S) == \A k \in Nat, x \in S : g[<<k, x>>] \in S

Climbs(f, a, g) == f[0] = a /\ \A k \in Nat : f[k+1] = g[<<k + 1, f[k]>>]

OnNaturals(S, a, g) == CHOOSE f \in [Nat -> S] : Climbs(f, a, g)

LEMMA OnNaturalsSteps ==
  ASSUME NEW S, NEW a \in S, NEW g, StepsOn(g, S)
  PROVE  OnNaturals(S, a, g) \in [Nat -> S] /\ Climbs(OnNaturals(S, a, g), a, g)
<1> DEFINE Counted == Nat \X S
           start == <<0, a>>
           next == [p \in Counted |-> <<p[1] + 1, g[<<p[1] + 1, p[2]>>]>>]
           run == Iterates(Counted, start, next)
           f == [k \in Nat |-> run[k][2]]
           T == {k \in Nat : run[k][1] = k}
<1>1. start \in Counted /\ next \in [Counted -> Counted]
  BY DEF StepsOn
<1>2. /\ run \in [Nat -> Counted] /\ run[0] = start
      /\ \A k \in Nat : run[k+1] = next[run[k]]
  <2> HIDE DEF Counted, start, next
  <2> QED
    BY <1>1, IteratesSteps
<1> HIDE DEF run
<1>3. \A k \in Nat : /\ run[k+1][1] = run[k][1] + 1
                     /\ run[k+1][2] = g[<<run[k][1] + 1, run[k][2]>>]
  <2> SUFFICES ASSUME NEW k \in Nat
               PROVE  /\ run[k+1][1] = run[k][1] + 1
                      /\ run[k+1][2] = g[<<run[k][1] + 1, run[k][2]>>]
    OBVIOUS
  <2>1. run[k] \in Counted /\ run[k+1] = next[run[k]]
    BY <1>2
  <2> QED
    BY <2>1
<1>4. Nat \subseteq T
  <2>1. 0 \in T
    BY <1>2
  <2>2. ASSUME NEW k \in Nat, k \in T PROVE k + 1 \in T
    <3>1. run[k][1] = k
      BY <2>2
    <3>2. k + 1 \in Nat
      OBVIOUS
    <3>3. run[k+1][1] = run[k][1] + 1
      BY <1>3
    <3> QED
      BY <3>1, <3>2, <3>3
  <2> HIDE DEF T
  <2> QED
    BY <2>1, <2>2, NaturalsBySteps
<1>5. f \in [Nat -> S] /\ Climbs(f, a, g)
  <2>1. f \in [Nat -> S] /\ f[0] = a
    BY <1>2
  <2>2. \A k \in Nat : f[k+1] = g[<<k + 1, f[k]>>]
    BY <1>3, <1>4
  <2> QED
    BY <2>1, <2>2 DEF Climbs
<1> HIDE DEF f
<1> QED
  BY <1>5 DEF OnNaturals

\* The same up to some number, which is all that a loop over a sequence needs.
StepsTo(g, n, S) == \A i \in 1..n, x \in S : g[<<i, x>>] \in S

ClimbsTo(f, n, a, g) == f[0] = a /\ \A i \in 1..n : f[i] = g[<<i, f[i-1]>>]

LEMMA LoopExists ==
  ASSUME NEW n \in Nat, NEW S, NEW a \in S, NEW g, StepsTo(g, n, S)
  PROVE  \E f \in [0..n -> S] : ClimbsTo(f, n, a, g)
<1> DEFINE e == [p \in Nat \X S |-> IF p[1] \in 1..n THEN g[p] ELSE a]
           h == OnNaturals(S, a, e)
           f == [i \in 0..n |-> h[i]]
<1>1. StepsOn(e, S)
  BY DEF StepsOn, StepsTo
<1>2. h \in [Nat -> S] /\ Climbs(h, a, e)
  <2> HIDE DEF e
  <2> QED
    BY <1>1, OnNaturalsSteps
<1> HIDE DEF h
<1>3. f \in [0..n -> S] /\ f[0] = a
  BY <1>2 DEF Climbs
<1>4. ASSUME NEW i \in 1..n PROVE f[i] = g[<<i, f[i-1]>>]
  <2>1. i - 1 \in Nat /\ (i - 1) + 1 = i /\ i - 1 \in 0..n /\ i \in 0..n
    OBVIOUS
  <2>2. h[i-1] \in S
    BY <1>2, <2>1
  <2>3. h[i] = e[<<i, h[i-1]>>]
    BY <1>2, <2>1 DEF Climbs
  <2>4. e[<<i, h[i-1]>>] = g[<<i, h[i-1]>>]
    BY <2>1, <2>2
  <2> HIDE DEF e
  <2> QED
    BY <2>1, <2>3, <2>4
<1>5. ClimbsTo(f, n, a, g)
  BY <1>3, <1>4 DEF ClimbsTo
<1> HIDE DEF f
<1> QED
  BY <1>3, <1>5

LEMMA LoopEnds ==
  ASSUME NEW n \in Nat, NEW S, NEW f, f[0] \in S,
         \A i \in 1..n : f[i-1] \in S => f[i] \in S
  PROVE  f[n] \in S
<1> DEFINE T == {i \in Nat : i <= n => f[i] \in S}
<1>1. 0 \in T
  OBVIOUS
<1>2. ASSUME NEW i \in Nat, i \in T PROVE i + 1 \in T
  <2> SUFFICES ASSUME i + 1 <= n PROVE f[i+1] \in S
    OBVIOUS
  <2>1. i + 1 \in 1..n /\ (i + 1) - 1 = i /\ f[i] \in S
    BY <1>2
  <2> QED
    BY <2>1
<1>3. Nat \subseteq T
  <2> HIDE DEF T
  <2> QED
    BY <1>1, <1>2, NaturalsBySteps
<1> QED
  BY <1>3
=============================================================================
