------------------------- MODULE AllocationProofs --------------------------
(***************************************************************************)
(* Proofs about the allocation, for any team, tasks, places and schedule.  *)
(*                                                                         *)
(* The matching is a recursion over the open tasks in the order of their   *)
(* rank.  Its invariant is that of deferred acceptance: the tasks that had *)
(* their turn are matched without justified envy among themselves, and a   *)
(* vehicle that is taken stays taken by a task of higher rank than any     *)
(* that is still to come.                                                  *)
(***************************************************************************)
EXTENDS Allocation, NetworkProofs

(***************************************************************************)
(* Distances, delivery rates and scores are integers.                      *)
(***************************************************************************)

Gap(p, q) == IF p > q THEN p - q ELSE q - p

LEMMA PairDistance ==
  ASSUME NEW a \in Nodes, NEW b \in Nodes, a # b, NEW places \in [UAVs -> 0..FarEnd]
  PROVE  /\ Distance({a, b}, places) = Gap(Place(a, places), Place(b, places))
         /\ Distance({a, b}, places) \in Nat
<1> DEFINE end == CHOOSE n \in {a, b} : TRUE
           other == CHOOSE n \in {a, b} : n # end
<1>1. end \in {a, b} /\ other \in {a, b} /\ other # end
  OBVIOUS
<1>2. \A n \in Nodes : Place(n, places) \in Nat
  BY NetworkAssumption DEF Place, Nodes
<1> DEFINE p == Place(end, places)
           q == Place(other, places)
<1>3. Distance({a, b}, places) = IF p > q THEN p - q ELSE q - p
  BY DEF Distance
<1>4. p \in Nat /\ q \in Nat
  BY <1>1, <1>2
<1> HIDE DEF end, other
<1>5. CASE end = a
  <2>1. p = Place(a, places) /\ q = Place(b, places)
    BY <1>1, <1>5
  <2> HIDE DEF p, q
  <2> QED
    BY <1>3, <1>4, <2>1 DEF Gap
<1>6. CASE end = b
  <2>1. p = Place(b, places) /\ q = Place(a, places)
    BY <1>1, <1>6
  <2> HIDE DEF p, q
  <2> QED
    BY <1>3, <1>4, <2>1 DEF Gap
<1> QED
  BY <1>1, <1>5, <1>6

\* The delivery rate of a route is an integer, hop by hop.
LEMMA PdrIsInteger ==
  ASSUME NEW n, NEW route, NEW links, RouteFrom(n, route, links),
         NEW places \in [UAVs -> 0..FarEnd]
  PROVE  RoutePdr(route, places) \in Int
<1> DEFINE N == Len(route) - 1
           Hop(i) == MaxRange + Distance({route[i], route[i+1]}, places)
           body(f) == [i \in 0..N |-> IF i = 0 THEN 1000
                                      ELSE (f[i-1] * MaxRange) \div Hop(i)]
           g == [p \in (1..N) \X Int |-> (p[2] * MaxRange) \div Hop(p[1])]
           S == Int
           first == 1000
<1>1. N \in Nat /\ route # None
  BY NetworkAssumption DEF RouteFrom
<1>2. ASSUME NEW i \in 1..N PROVE Hop(i) \in Nat \ {0}
  <2>1. route[i] \in Nodes /\ route[i+1] \in Nodes /\ route[i] # route[i+1]
    BY <1>1 DEF RouteFrom
  <2>2. Distance({route[i], route[i+1]}, places) \in Nat
    BY <2>1, PairDistance
  <2> QED
    BY <2>2, NetworkAssumption
<1>3. \A i \in 1..N : \A x \in Int : (x * MaxRange) \div Hop(i) \in Int
  <2>1. \A x, y \in Int : \A d \in Nat \ {0} : (x * y) \div d \in Int
    OBVIOUS
  <2> HIDE DEF N, Hop
  <2> QED
    BY <1>2, <2>1, NetworkAssumption
<1> HIDE DEF N, Hop
<1>4. \E f \in [0..N -> S] : ClimbsTo(f, N, first, g)
  <2>1. first \in S /\ StepsTo(g, N, S)
    BY <1>3 DEF StepsTo
  <2> HIDE DEF g, S, first
  <2> QED
    BY <1>1, <2>1, LoopExists
<1>5. PICK f \in [0..N -> Int] : ClimbsTo(f, N, 1000, g)
  BY <1>4
<1>6. f = body(f)
  <2>1. f[0] = 1000
    BY <1>5 DEF ClimbsTo
  <2>2. \A i \in 1..N : i - 1 \in 0..N
    BY <1>1
  <2>3. \A i \in 1..N : f[i] = g[<<i, f[i-1]>>]
    BY <1>5 DEF ClimbsTo
  <2>4. \A i \in 1..N : f[i] = (f[i-1] * MaxRange) \div Hop(i)
    BY <2>2, <2>3
  <2>5. \A i \in 0..N : i # 0 => i \in 1..N
    BY <1>1
  <2> HIDE DEF g
  <2> QED
    BY <2>1, <2>4, <2>5
<1> DEFINE pdr == CHOOSE e : e = body(e)
<1>7. pdr = body(pdr)
  <2> HIDE DEF body
  <2> QED
    BY <1>6
<1>8. RoutePdr(route, places) = pdr[N]
  BY <1>1 DEF RoutePdr, N, Hop
<1> HIDE DEF pdr
<1>9. pdr[0] \in S
  BY <1>1, <1>7
<1>10. ASSUME NEW i \in 1..N, pdr[i-1] \in S PROVE pdr[i] \in S
  <2>1. pdr[i] = (pdr[i-1] * MaxRange) \div Hop(i)
    BY <1>1, <1>7
  <2> QED
    BY <1>3, <1>10, <2>1
<1> HIDE DEF S
<1>11. pdr[N] \in S
  BY <1>1, <1>9, <1>10, LoopEnds
<1> QED
  BY <1>8, <1>11 DEF S

LEMMA DecayIsInteger == \A hops \in Nat : Decay[hops] \in Int
<1> DEFINE body(f) == [hops \in Nat |-> IF hops <= 1 THEN 1000
                                        ELSE (f[hops - 1] * HopDecay) \div 1000]
           g == [p \in Nat \X Int |-> IF p[1] <= 1 THEN 1000
                                      ELSE (p[2] * HopDecay) \div 1000]
<1>1. \A x \in Int : (x * HopDecay) \div 1000 \in Int
  BY AllocationAssumption
<1>2. StepsOn(g, Int)
  BY <1>1 DEF StepsOn
<1> DEFINE S == Int
           first == 1000
           h == OnNaturals(S, first, g)
<1>3. h \in [Nat -> S] /\ Climbs(h, first, g)
  <2>1. first \in S /\ StepsOn(g, S)
    BY <1>2
  <2> HIDE DEF S, first, g
  <2> QED
    BY <2>1, OnNaturalsSteps
<1> HIDE DEF h
<1>4. h = body(h)
  <2>1. ASSUME NEW k \in Nat
        PROVE  h[k] = IF k <= 1 THEN 1000 ELSE (h[k-1] * HopDecay) \div 1000
    <3>1. CASE k = 0
      BY <1>3, <3>1 DEF Climbs
    <3>2. CASE k # 0
      <4>1. k - 1 \in Nat /\ (k - 1) + 1 = k
        BY <3>2
      <4>2. h[k-1] \in Int
        BY <1>3, <4>1
      <4>3. h[k] = g[<<k, h[k-1]>>]
        BY <1>3, <4>1 DEF Climbs
      <4> QED
        BY <4>2, <4>3
    <3> QED
      BY <3>1, <3>2
  <2> HIDE DEF g
  <2> QED
    BY <1>3, <2>1
<1>5. Decay = CHOOSE e : e = body(e)
  BY DEF Decay
<1>6. Decay = body(Decay)
  <2> HIDE DEF body
  <2> QED
    BY <1>4, <1>5
<1> DEFINE T == {k \in Nat : Decay[k] \in Int}
<1>7. Nat \subseteq T
  <2>1. 0 \in T
    BY <1>6
  <2>2. ASSUME NEW k \in Nat, k \in T PROVE k + 1 \in T
    <3>1. k + 1 \in Nat /\ (k + 1) - 1 = k /\ Decay[k] \in Int
      BY <2>2
    <3>2. Decay[k+1] = IF k + 1 <= 1 THEN 1000 ELSE (Decay[k] * HopDecay) \div 1000
      BY <1>6, <3>1
    <3> QED
      BY <1>1, <3>1, <3>2
  <2> HIDE DEF T
  <2> QED
    BY <2>1, <2>2, NaturalsBySteps
<1> QED
  BY <1>7

LEMMA FactorIsInteger ==
  ASSUME NEW u \in UAVs, NEW links \in SUBSET Pairs, NEW places \in [UAVs -> 0..FarEnd]
  PROVE  LET route == ShortestRoute(u, links)
         IN  Factor(route, RoutePdr(route, places)) \in Int
<1> DEFINE route == ShortestRoute(u, links)
           pdr == RoutePdr(route, places)
           share == (pdr * Decay[Len(route) - 1]) \div 1000
<1>1. MinFactor \in Int
  BY AllocationAssumption
<1>2. CASE route = None
  BY <1>1, <1>2 DEF Factor
<1>3. CASE route # None
  <2>1. RouteFrom(u, route, links)
    BY <1>3, ShortestRouteFound DEF Nodes
  <2>2. pdr \in Int
    BY <2>1, PdrIsInteger
  <2>3. Len(route) - 1 \in Nat
    BY <2>1 DEF RouteFrom
  <2>4. Decay[Len(route) - 1] \in Int
    BY <2>3, DecayIsInteger
  <2>5. share \in Int
    BY <2>2, <2>4
  <2> HIDE DEF route, pdr, share
  <2>6. Max({MinFactor, share}) \in {MinFactor, share}
    <3>1. \E m \in {MinFactor, share} : \A y \in {MinFactor, share} : m >= y
      BY <1>1, <2>5
    <3> QED
      BY <3>1 DEF Max
  <2>7. Factor(route, pdr) = Max({MinFactor, share})
    BY <1>3 DEF Factor, share
  <2> QED
    BY <1>1, <2>5, <2>6, <2>7 DEF route, pdr
<1> QED
  BY <1>2, <1>3

LEMMA DampedIsInteger ==
  ASSUME NEW score \in Int, NEW factor \in Int PROVE Damped(score, factor) \in Int
<1>1. (score * factor) \div 1000 \in Int /\ (-score * (2000 - factor)) \div 1000 \in Int
  <2>1. \A x, y \in Int : (x * y) \div 1000 \in Int
    OBVIOUS
  <2>2. -score \in Int /\ 2000 - factor \in Int
    OBVIOUS
  <2> QED
    BY <2>1, <2>2
<1> QED
  BY <1>1 DEF Damped

LEMMA UtilityIsInteger ==
  ASSUME NetworkTypeOK, NEW u \in UAVs, NEW t \in Tasks
  PROVE  Utility(u, t) \in Int
<1>1. at[u] \in Int /\ TaskPlace[t] \in Int /\ Priority[t] \in Int
  BY NetworkAssumption, AllocationAssumption DEF NetworkTypeOK
<1>2. PriorityWeight \in Int /\ TravelWeight \in Int
  BY AllocationAssumption
<1>3. Away(u, t) \in Int
  BY <1>1 DEF Away
<1>4. \A x, y \in Int : x * y \in Int
  OBVIOUS
<1>5. PriorityWeight * Priority[t] \in Int /\ TravelWeight * Away(u, t) \in Int
  BY <1>1, <1>2, <1>3, <1>4
<1> QED
  BY <1>5 DEF Utility

LEMMA LinksArePairs == ASSUME NEW places PROVE LinksAt(places) \in SUBSET Pairs
BY DEF LinksAt

LEMMA ScoreIsInteger ==
  ASSUME NetworkTypeOK, NEW u \in UAVs, NEW t \in Tasks
  PROVE  Score(u, t) \in Int \cup {None}
<1>1. Utility(u, t) \in Int
  BY UtilityIsInteger
<1>2. at \in [UAVs -> 0..FarEnd] /\ AtTask(u, t) \in [UAVs -> 0..FarEnd]
  BY AllocationAssumption DEF NetworkTypeOK, AtTask
<1>3. Links \in SUBSET Pairs /\ LinksAt(AtTask(u, t)) \in SUBSET Pairs
  BY LinksArePairs DEF Links
<1> DEFINE here == ShortestRoute(u, Links)
           there == ShortestRoute(u, LinksAt(AtTask(u, t)))
<1>4. /\ Factor(here, RoutePdr(here, at)) \in Int
      /\ Factor(there, RoutePdr(there, AtTask(u, t))) \in Int
  BY <1>2, <1>3, FactorIsInteger
<1> HIDE DEF here, there
<1>5. /\ Damped(Utility(u, t), Factor(here, RoutePdr(here, at))) \in Int
      /\ Damped(Utility(u, t), Factor(there, RoutePdr(there, AtTask(u, t)))) \in Int
  BY <1>1, <1>4, DampedIsInteger
<1> QED
  BY <1>1, <1>5 DEF Score, here, there

(***************************************************************************)
(* The rank of a task.                                                     *)
(***************************************************************************)

LEMMA BeforeIsOrder ==
  /\ \A s, t \in Tasks : s # t => Before(s, t) \/ Before(t, s)
  /\ \A s, t \in Tasks : Before(s, t) => ~Before(t, s)
  /\ \A r, s, t \in Tasks : Before(r, s) /\ Before(s, t) => Before(r, t)
<1>1. Tasks \subseteq Nat /\ Priority \in [Tasks -> Nat]
  BY AllocationAssumption
<1>2. \A t \in Tasks : Urgency(t) \in Int /\ t \in Int
  <2> SUFFICES ASSUME NEW t \in Tasks PROVE Urgency(t) \in Int
    BY <1>1
  <2>1. Priority[t] \in Nat
    BY <1>1
  <2> QED
    BY <2>1 DEF Urgency
<1>3. \A s, t \in Tasks : s # t => Before(s, t) \/ Before(t, s)
  BY <1>2 DEF Before
<1>4. \A s, t \in Tasks : Before(s, t) => ~Before(t, s)
  BY <1>2 DEF Before
<1>5. \A r, s, t \in Tasks : Before(r, s) /\ Before(s, t) => Before(r, t)
  BY <1>2 DEF Before
<1> QED
  BY <1>3, <1>4, <1>5

LEMMA OpenIsFinite == Open \subseteq Tasks /\ IsFiniteSet(Open)
<1>1. Open \subseteq Tasks
  BY DEF Open
<1>2. IsFiniteSet(Tasks)
  BY AllocationAssumption
<1> QED
  BY <1>1, <1>2, FS_Subset

LEMMA SomeoneIsLast ==
  ASSUME NEW tasks \in SUBSET Open, tasks # {}
  PROVE  /\ LastOf(tasks) \in tasks
         /\ \A s \in tasks \ {LastOf(tasks)} : Before(s, LastOf(tasks))
<1> DEFINE IsLast(S, u) == \A w \in S \ {u} : Before(w, u)
           P == {S \in SUBSET Open : S = {} \/ \E u \in S : IsLast(S, u)}
<1>1. ASSUME NEW S \in SUBSET Open, S # {}, \A x \in S : S \ {x} \in P
      PROVE  S \in P
  <2>1. PICK x \in S : TRUE
    BY <1>1
  <2>2. CASE S = {x}
    BY <2>2
  <2>3. CASE S # {x}
    <3>1. PICK u \in S \ {x} : IsLast(S \ {x}, u)
      BY <1>1, <2>3
    <3>2. S \subseteq Tasks
      BY OpenIsFinite
    <3>3. CASE Before(x, u)
      BY <3>1, <3>3
    <3>4. CASE Before(u, x)
      <4>1. IsLast(S, x)
        BY <3>1, <3>2, <3>4, BeforeIsOrder
      <4> QED
        BY <4>1
    <3> QED
      BY <3>1, <3>2, <3>3, <3>4, BeforeIsOrder
  <2> QED
    BY <2>2, <2>3
<1>2. SUBSET Open \subseteq P
  <2>1. {} \in P
    OBVIOUS
  <2> HIDE DEF P
  <2> QED
    BY <1>1, <2>1, OpenIsFinite, SubsetsBySteps
<1> QED
  BY <1>2 DEF LastOf

(***************************************************************************)
(* The matching.                                                           *)
(***************************************************************************)

Scores == [UAVs -> [Tasks -> Int \cup {None}]]
Plans == [UAVs -> Tasks \cup {None}]

LEMMA NoneIsNothing == None \notin Tasks /\ None \notin Int
<1>1. None \notin Int
  BY AllocationAssumption
<1>2. Tasks \subseteq Int
  BY AllocationAssumption
<1> QED
  BY <1>1, <1>2, Zenon

LEMMA EligibleAreVehicles ==
  ASSUME NetworkTypeOK
  PROVE  /\ Eligible \subseteq UAVs /\ IsFiniteSet(Eligible)
         /\ \A u \in Eligible : duty[u] = None /\ u \notin relaying
<1>1. Eligible \subseteq UAVs
  BY DEF Eligible, NetworkTypeOK
<1> QED
  BY <1>1, NetworkAssumption, FS_Subset DEF Eligible

LEMMA SuitorsAreScored ==
  ASSUME NetworkTypeOK, NEW t \in Tasks, NEW plan \in Plans, NEW score \in Scores
  PROVE  /\ Suitors(t, plan, score) \subseteq Eligible
         /\ \A u \in Suitors(t, plan, score) : plan[u] = None /\ score[u][t] \in Int
<1>1. \A u \in UAVs : score[u][t] \in Int \cup {None}
  BY DEF Scores
<1> QED
  BY <1>1, EligibleAreVehicles DEF Suitors

\* The first of some suitors is well defined.
LEMMA SomeoneIsBest ==
  ASSUME NetworkTypeOK, NEW S \in SUBSET Eligible, S # {}, NEW t \in Tasks,
         NEW score, \A u \in S : score[u][t] \in Int
  PROVE  /\ Best(S, t, score) \in S
         /\ \A v \in S : score[Best(S, t, score)][t] >= score[v][t]
<1> DEFINE Beats(u, v) == \/ score[u][t] > score[v][t]
                          \/ score[u][t] = score[v][t] /\ u <= v
           P == {R \in SUBSET S : R = {} \/ \E u \in R : \A v \in R : Beats(u, v)}
<1>1. S \subseteq Nat /\ IsFiniteSet(S)
  BY EligibleAreVehicles, NetworkAssumption, FS_Subset
<1>2. /\ \A u \in S : Beats(u, u)
      /\ \A u, v \in S : Beats(u, v) \/ Beats(v, u)
      /\ \A u, v, w \in S : Beats(u, v) /\ Beats(v, w) => Beats(u, w)
  <2>1. \A u \in S : u \in Int /\ score[u][t] \in Int
    BY <1>1
  <2>2. \A i, j \in Int : i > j \/ j > i \/ i = j
    OBVIOUS
  <2>3. \A u \in S : Beats(u, u)
    BY <2>1
  <2>4. \A u, v \in S : Beats(u, v) \/ Beats(v, u)
    BY <2>1
  <2>5. \A u, v, w \in S : Beats(u, v) /\ Beats(v, w) => Beats(u, w)
    BY <2>1
  <2> QED
    BY <2>3, <2>4, <2>5
<1> HIDE DEF Beats
<1>3. ASSUME NEW R \in SUBSET S, R # {}, \A x \in R : R \ {x} \in P
      PROVE  R \in P
  <2>1. PICK x \in R : TRUE
    BY <1>3
  <2>2. CASE R = {x}
    BY <1>2, <2>2
  <2>3. CASE R # {x}
    <3>1. PICK u \in R \ {x} : \A v \in R \ {x} : Beats(u, v)
      BY <1>3, <2>3
    <3>2. CASE Beats(u, x)
      BY <3>1, <3>2
    <3>3. CASE Beats(x, u)
      <4>1. \A v \in R : Beats(x, v)
        BY <1>2, <3>1, <3>3
      <4> QED
        BY <4>1
    <3> QED
      BY <1>2, <3>1, <3>2, <3>3
  <2> QED
    BY <2>2, <2>3
<1>4. SUBSET S \subseteq P
  <2>1. {} \in P
    OBVIOUS
  <2> HIDE DEF P
  <2> QED
    BY <1>1, <1>3, <2>1, SubsetsBySteps
<1>5. \E u \in S : \A v \in S : Beats(u, v)
  BY <1>4
<1>6. Best(S, t, score) \in S /\ \A v \in S : Beats(Best(S, t, score), v)
  BY <1>5 DEF Best, Beats
<1>7. \A u, v \in S : Beats(u, v) => score[u][t] >= score[v][t]
  BY DEF Beats
<1> QED
  BY <1>6, <1>7

\* What one task does to the plan.
LEMMA OneIsMatched ==
  ASSUME NetworkTypeOK, NEW t \in Tasks, NEW plan \in Plans, NEW score \in Scores
  PROVE  /\ Match(plan, t, score) \in Plans
         /\ \/ /\ \A u \in Eligible : plan[u] = None => score[u][t] = None
               /\ Match(plan, t, score) = plan
            \/ \E b \in Eligible :
                 /\ plan[b] = None /\ score[b][t] \in Int
                 /\ \A u \in Eligible : plan[u] = None /\ score[u][t] # None
                                        => score[b][t] >= score[u][t]
                 /\ Match(plan, t, score) = [plan EXCEPT ![b] = t]
<1> DEFINE S == Suitors(t, plan, score)
           b == Best(S, t, score)
<1>1. /\ S \subseteq Eligible
      /\ \A u \in S : plan[u] = None /\ score[u][t] \in Int
      /\ Eligible \subseteq UAVs
  BY SuitorsAreScored, EligibleAreVehicles
<1>2. \A u \in Eligible : u \in S <=> plan[u] = None /\ score[u][t] # None
  BY DEF Suitors
<1>3. Match(plan, t, score) = IF S = {} THEN plan ELSE [plan EXCEPT ![b] = t]
  BY DEF Match
<1> HIDE DEF S
<1>4. CASE S = {}
  BY <1>2, <1>3, <1>4
<1>5. CASE S # {}
  <2>1. b \in S /\ \A v \in S : score[b][t] >= score[v][t]
    BY <1>1, <1>5, SomeoneIsBest
  <2> HIDE DEF b
  <2>2. [plan EXCEPT ![b] = t] \in Plans
    BY <1>1, <2>1 DEF Plans
  <2> QED
    BY <1>1, <1>2, <1>3, <1>5, <2>1, <2>2
<1> QED
  BY <1>4, <1>5

Nobody == [u \in UAVs |-> None]

\* The recursion of Matching is a function of the tasks that had their turn.
InTurns(plan, score) ==
  /\ plan[{}] = Nobody
  /\ \A tasks \in SUBSET Open : tasks # {} =>
       plan[tasks] = Match(plan[tasks \ {LastOf(tasks)}], LastOf(tasks), score)

LEMMA TurnsAreTaken ==
  ASSUME NetworkTypeOK, NEW score \in Scores
  PROVE  \E plan : InTurns(plan, score) /\ Matching(score) = plan[Open]
<1> DEFINE pick == [tasks \in SUBSET Open |-> LastOf(tasks)]
           g == [p \in Open \X Plans |-> Match(p[2], p[1], score)]
           body(e) == [tasks \in SUBSET Open |->
                         IF tasks = {} THEN [u \in UAVs |-> None]
                         ELSE Match(e[tasks \ {LastOf(tasks)}], LastOf(tasks), score)]
<1>1. g \in [Open \X Plans -> Plans]
  BY OneIsMatched, OpenIsFinite
<1>2. Nobody \in Plans
  BY DEF Nobody, Plans
<1>3. Picks(pick, Open)
  BY SomeoneIsLast DEF Picks
<1> DEFINE h == OnSubsets(Open, Plans, Nobody, pick, g)
<1>4. h \in [SUBSET Open -> Plans] /\ Recurs(h, Open, Nobody, pick, g)
  <2>1. IsFiniteSet(Open)
    BY OpenIsFinite
  <2> HIDE DEF pick, g
  <2> QED
    BY <1>1, <1>2, <1>3, <2>1, OnSubsetsSteps
<1> HIDE DEF h
<1>5. h = body(h)
  <2>1. ASSUME NEW tasks \in SUBSET Open, tasks # {}
        PROVE  h[tasks] = Match(h[tasks \ {LastOf(tasks)}], LastOf(tasks), score)
    <3>1. LastOf(tasks) \in Open /\ h[tasks \ {LastOf(tasks)}] \in Plans
      BY <1>4, <2>1, SomeoneIsLast
    <3>2. h[tasks] = g[<<LastOf(tasks), h[tasks \ {LastOf(tasks)}]>>]
      BY <1>4, <2>1 DEF Recurs
    <3> QED
      BY <3>1, <3>2
  <2>2. h[{}] = [u \in UAVs |-> None]
    BY <1>4 DEF Recurs, Nobody
  <2> HIDE DEF g, pick
  <2> QED
    BY <1>4, <2>1, <2>2
<1> DEFINE plan == CHOOSE e : e = body(e)
<1>6. plan = body(plan)
  <2> HIDE DEF body
  <2> QED
    BY <1>5
<1>7. Matching(score) = plan[Open]
  BY DEF Matching
<1> HIDE DEF plan
<1>8. InTurns(plan, score)
  BY <1>6 DEF InTurns, Nobody
<1> QED
  BY <1>7, <1>8

\* The invariant of the turns.  Who is taken is fit for the task and taken once;
\* and nobody has a justified envy among the tasks that had their turn.
Holders(t, plan) == {v \in Eligible : plan[v] = t}

Envies(u, t, plan, score) ==
  /\ score[u][t] # None /\ u \notin Holders(t, plan)
  /\ \A v \in Holders(t, plan) : score[u][t] > score[v][t]

Stable(tasks, plan, score) ==
  \A t \in tasks, u \in Eligible :
    Envies(u, t, plan, score) => plan[u] # None /\ Before(plan[u], t)

Fits(tasks, plan, score) ==
  /\ plan \in Plans
  /\ \A u \in UAVs : plan[u] # None =>
       u \in Eligible /\ plan[u] \in tasks /\ score[u][plan[u]] # None
  /\ \A u, v \in UAVs : plan[u] # None /\ plan[u] = plan[v] => u = v

LEMMA TurnFits ==
  ASSUME NetworkTypeOK, NEW score \in Scores, NEW tasks, NEW plan, Fits(tasks, plan, score),
         NEW t \in Tasks \ tasks
  PROVE  Fits(tasks \cup {t}, Match(plan, t, score), score)
<1> DEFINE after == Match(plan, t, score)
<1>1. plan \in Plans
  BY DEF Fits
<1>2. CASE after = plan
  BY <1>2 DEF Fits
<1>3. ASSUME NEW b \in Eligible, plan[b] = None, score[b][t] \in Int,
             after = [plan EXCEPT ![b] = t], after \in Plans
      PROVE  Fits(tasks \cup {t}, after, score)
  <2> HIDE DEF after
  <2>1. /\ b \in UAVs /\ after[b] = t /\ score[b][t] # None
        /\ \A u \in UAVs \ {b} : after[u] = plan[u]
    BY <1>1, <1>3, EligibleAreVehicles, NoneIsNothing DEF Plans
  <2>2. \A u \in UAVs : plan[u] # t
    BY NoneIsNothing DEF Fits
  <2>3. \A u \in UAVs : after[u] # None =>
          u \in Eligible /\ after[u] \in tasks \cup {t} /\ score[u][after[u]] # None
    BY <2>1 DEF Fits
  <2>4. \A u, v \in UAVs : after[u] # None /\ after[u] = after[v] => u = v
    BY <2>1, <2>2 DEF Fits
  <2> QED
    BY <1>3, <2>3, <2>4 DEF Fits
<1>4. CASE \E b \in Eligible : /\ plan[b] = None /\ score[b][t] \in Int
                               /\ after = [plan EXCEPT ![b] = t]
  <2>1. PICK b \in Eligible : /\ plan[b] = None /\ score[b][t] \in Int
                             /\ after = [plan EXCEPT ![b] = t]
    BY <1>4
  <2>2. after \in Plans
    BY <1>1, OneIsMatched
  <2> HIDE DEF after
  <2>3. Fits(tasks \cup {t}, after, score)
    BY <1>3, <2>1, <2>2
  <2> QED
    BY <2>3 DEF after
<1> QED
  BY <1>1, <1>2, <1>4, OneIsMatched

LEMMA TurnIsStable ==
  ASSUME NetworkTypeOK, NEW score \in Scores, NEW tasks \in SUBSET Tasks, NEW plan,
         Fits(tasks, plan, score), Stable(tasks, plan, score),
         NEW t \in Tasks \ tasks, \A s \in tasks : Before(s, t)
  PROVE  Stable(tasks \cup {t}, Match(plan, t, score), score)
<1> DEFINE after == Match(plan, t, score)
<1>1. plan \in Plans /\ Eligible \subseteq UAVs
  BY EligibleAreVehicles DEF Fits
<1>2. \A u \in Eligible : plan[u] # None => plan[u] \in tasks /\ Before(plan[u], t)
  BY <1>1 DEF Fits
<1>3. CASE after = plan /\ \A u \in Eligible : plan[u] = None => score[u][t] = None
  BY <1>2, <1>3 DEF Stable, Envies
<1>4. ASSUME NEW b \in Eligible, plan[b] = None, score[b][t] \in Int,
             \A u \in Eligible : plan[u] = None /\ score[u][t] # None
                                 => score[b][t] >= score[u][t],
             after = [plan EXCEPT ![b] = t]
      PROVE  Stable(tasks \cup {t}, after, score)
  <2> HIDE DEF after
  <2> SUFFICES ASSUME NEW s \in tasks \cup {t}, NEW u \in Eligible,
                      Envies(u, s, after, score)
               PROVE  after[u] # None /\ Before(after[u], s)
    BY DEF Stable
  <2>1. after[b] = t /\ \A v \in UAVs \ {b} : after[v] = plan[v]
    BY <1>1, <1>4 DEF Plans
  <2>2. CASE s = t
    <3>1. b \in Holders(t, after)
      BY <2>1 DEF Holders
    <3>2. u # b /\ score[u][t] # None /\ score[u][t] > score[b][t]
      BY <2>2, <3>1 DEF Envies
    <3>3. score[u][t] \in Int
      BY <1>1, <3>2 DEF Scores
    <3>4. plan[u] # None
      BY <1>4, <3>2, <3>3
    <3> QED
      BY <1>1, <1>2, <2>1, <2>2, <3>2, <3>4
  <2>3. CASE s # t
    <3>1. s \in tasks /\ s # None
      BY <2>3, NoneIsNothing
    <3>2. Holders(s, after) = Holders(s, plan)
      BY <1>1, <1>4, <2>1, <2>3, <3>1 DEF Holders
    <3>3. Envies(u, s, plan, score)
      BY <3>2 DEF Envies
    <3>4. plan[u] # None /\ Before(plan[u], s)
      BY <3>1, <3>3 DEF Stable
    <3>5. u # b
      BY <1>4, <3>4
    <3> QED
      BY <1>1, <2>1, <3>4, <3>5
  <2> QED
    BY <2>2, <2>3
<1>5. CASE \E b \in Eligible :
             /\ plan[b] = None /\ score[b][t] \in Int
             /\ \A u \in Eligible : plan[u] = None /\ score[u][t] # None
                                    => score[b][t] >= score[u][t]
             /\ after = [plan EXCEPT ![b] = t]
  <2>1. PICK b \in Eligible :
             /\ plan[b] = None /\ score[b][t] \in Int
             /\ \A u \in Eligible : plan[u] = None /\ score[u][t] # None
                                    => score[b][t] >= score[u][t]
             /\ after = [plan EXCEPT ![b] = t]
    BY <1>5
  <2> HIDE DEF after
  <2>2. Stable(tasks \cup {t}, after, score)
    BY <1>4, <2>1
  <2> QED
    BY <2>2 DEF after
<1> QED
  BY <1>1, <1>3, <1>5, OneIsMatched

LEMMA MatchingIsStable ==
  ASSUME NetworkTypeOK, NEW score \in Scores
  PROVE  Fits(Open, Matching(score), score) /\ Stable(Open, Matching(score), score)
<1>1. PICK plan : InTurns(plan, score) /\ Matching(score) = plan[Open]
  BY TurnsAreTaken
<1> DEFINE P == {tasks \in SUBSET Open : /\ Fits(tasks, plan[tasks], score)
                                         /\ Stable(tasks, plan[tasks], score)}
<1>2. {} \in P
  <2>1. plan[{}] = Nobody
    BY <1>1 DEF InTurns
  <2>2. Fits({}, Nobody, score)
    BY DEF Fits, Nobody, Plans
  <2> QED
    BY <2>1, <2>2 DEF Stable
<1>3. ASSUME NEW tasks \in SUBSET Open, tasks # {}, \A x \in tasks : tasks \ {x} \in P
      PROVE  tasks \in P
  <2> DEFINE t == LastOf(tasks)
             rest == tasks \ {t}
             before == plan[rest]
  <2>1. t \in tasks /\ \A s \in rest : Before(s, t)
    BY <1>3, SomeoneIsLast
  <2>2. t \in Tasks \ rest /\ rest \in SUBSET Tasks /\ tasks = rest \cup {t}
    BY <2>1, OpenIsFinite
  <2>3. Fits(rest, before, score) /\ Stable(rest, before, score)
    BY <1>3, <2>1
  <2>4. plan[tasks] = Match(before, t, score)
    BY <1>1, <1>3 DEF InTurns
  <2> HIDE DEF t, rest, before
  <2>5. Fits(rest \cup {t}, Match(before, t, score), score)
    BY <2>2, <2>3, TurnFits
  <2>6. Stable(rest \cup {t}, Match(before, t, score), score)
    BY <2>1, <2>2, <2>3, TurnIsStable
  <2> QED
    BY <2>2, <2>4, <2>5, <2>6
<1>4. SUBSET Open \subseteq P
  <2> HIDE DEF P
  <2> QED
    BY <1>2, <1>3, OpenIsFinite, SubsetsBySteps
<1> QED
  BY <1>1, <1>4

(***************************************************************************)
(* The steps.                                                              *)
(***************************************************************************)

\* The scores of a pass, and the plan made of them.
PassScores == [u \in UAVs |-> [t \in Tasks |->
             IF u \in Eligible /\ t \in Open THEN Score(u, t) ELSE None]]

LEMMA ScoresAreTyped == ASSUME NetworkTypeOK PROVE PassScores \in Scores
<1>1. \A u \in UAVs, t \in Tasks : Score(u, t) \in Int \cup {None}
  BY ScoreIsInteger
<1> QED
  BY <1>1 DEF PassScores, Scores

LEMMA AllocateMatches ==
  ASSUME NetworkTypeOK, Allocate
  PROVE  \E plan \in Plans :
           /\ Fits(Open, plan, PassScores) /\ Stable(Open, plan, PassScores)
           /\ duty' = [u \in UAVs |-> IF plan[u] = None THEN duty[u] ELSE plan[u]]
           /\ to' = [u \in UAVs |-> IF plan[u] = None THEN to[u] ELSE TaskPlace[plan[u]]]
           /\ status' = [t \in Tasks |-> IF t \in Range(plan) THEN "assigned"
                                         ELSE status[t]]
<1>1. Fits(Open, Matching(PassScores), PassScores) /\ Stable(Open, Matching(PassScores), PassScores)
  BY ScoresAreTyped, MatchingIsStable
<1>2. Matching(PassScores) \in Plans
  BY <1>1 DEF Fits
<1> DEFINE plan == Matching(PassScores)
<1>3. /\ duty' = [u \in UAVs |-> IF plan[u] = None THEN duty[u] ELSE plan[u]]
      /\ to' = [u \in UAVs |-> IF plan[u] = None THEN to[u] ELSE TaskPlace[plan[u]]]
      /\ status' = [t \in Tasks |-> IF t \in Range(plan) THEN "assigned"
                                    ELSE status[t]]
  <2> HIDE DEF Matching
  <2> QED
    BY DEF Allocate, PassScores
<1> HIDE DEF plan
<1> QED
  BY <1>1, <1>2, <1>3 DEF plan

\* A pass leaves no justified envy.
LEMMA PassHasNoEnvy ==
  ASSUME NetworkTypeOK, Allocate, NEW t \in Open, NEW u \in Eligible, Envious(u, t)
  PROVE  duty'[u] # None /\ Before(duty'[u], t)
<1>1. PICK plan \in Plans :
           /\ Stable(Open, plan, PassScores)
           /\ duty' = [v \in UAVs |-> IF plan[v] = None THEN duty[v] ELSE plan[v]]
  BY AllocateMatches
<1>2. \A v \in Eligible : v \in UAVs /\ duty'[v] = plan[v]
  BY <1>1, EligibleAreVehicles
<1>3. \A v \in Eligible : PassScores[v][t] = Score(v, t)
  BY <1>2, OpenIsFinite DEF PassScores
<1>4. Holders(t, plan) = Holding(t)
  BY <1>2 DEF Holders, Holding
<1>5. Envies(u, t, plan, PassScores)
  BY <1>3, <1>4 DEF Envies, Holders, Envious
<1> QED
  BY <1>1, <1>2, <1>5 DEF Stable

(***************************************************************************)
(* The coordinator.                                                        *)
(***************************************************************************)

Ingresses == [status : {"DEPLOYING", "COMPLETE"}, relays : Seq(UAVs),
              surveyors : Seq(UAVs)]
Places == 0..FarEnd \cup {None}
OrderSets == [UAVs -> Places]
SendPlans == [orders : OrderSets, connected : SUBSET Nodes]

LEMMA SomeOrder ==
  ASSUME NEW S \in SUBSET UAVs
  PROVE  InOrder(S) \in [1..Cardinality(S) -> S] /\ Cardinality(S) \in Nat
<1> DEFINE Increasing(R, s) == \A i, j \in 1..Cardinality(R) : i < j => s[i] < s[j]
           P == {R \in SUBSET UAVs : \E s \in [1..Cardinality(R) -> R] : Increasing(R, s)}
<1>1. UAVs \subseteq Nat /\ IsFiniteSet(UAVs)
  BY NetworkAssumption
<1>2. \A R \in SUBSET UAVs : IsFiniteSet(R) /\ Cardinality(R) \in Nat
  BY <1>1, FS_Subset, FS_CardinalityType
<1>3. {} \in P
  <2>1. Cardinality({}) = 0 /\ 1..0 = {}
    BY FS_EmptySet
  <2>2. [i \in {} |-> i] \in [1..Cardinality({}) -> {}]
    BY <2>1
  <2> QED
    BY <2>1, <2>2
<1>4. ASSUME NEW R \in SUBSET UAVs, R # {}, \A x \in R : R \ {x} \in P
      PROVE  R \in P
  <2>1. PICK x \in R : \A y \in R : x <= y
    BY <1>1, <1>4, LeastNatural
  <2> DEFINE Rest == R \ {x}
             n == Cardinality(Rest)
  <2>2. n \in Nat /\ Cardinality(R) = n + 1
    <3>1. Cardinality(Rest) = Cardinality(R) - 1 /\ Cardinality(Rest) \in Nat
      BY <1>2, <2>1, FS_RemoveElement
    <3> QED
      BY <1>2, <3>1
  <2>3. PICK s \in [1..n -> Rest] : Increasing(Rest, s)
    BY <1>4, <2>1
  <2> HIDE DEF n
  <2> DEFINE r == [i \in 1..(n+1) |-> IF i = 1 THEN x ELSE s[i-1]]
  <2>4. \A i \in 1..(n+1) : i # 1 => i - 1 \in 1..n
    BY <2>2
  <2>5. r \in [1..Cardinality(R) -> R]
    BY <2>1, <2>2, <2>3, <2>4
  <2>6. ASSUME NEW i \in 1..(n+1), NEW j \in 1..(n+1), i < j PROVE r[i] < r[j]
    <3>1. j # 1 /\ j - 1 \in 1..n /\ r[j] = s[j-1] /\ s[j-1] \in Rest
      BY <2>2, <2>3, <2>4, <2>6
    <3>2. CASE i = 1
      <4>1. x <= s[j-1] /\ x # s[j-1] /\ x \in Nat /\ s[j-1] \in Nat
        BY <1>1, <2>1, <3>1
      <4> QED
        BY <3>1, <3>2, <4>1
    <3>3. CASE i # 1
      <4>1. i - 1 \in 1..n /\ r[i] = s[i-1] /\ i - 1 < j - 1
        BY <2>2, <2>4, <2>6, <3>3
      <4> QED
        BY <2>3, <3>1, <4>1 DEF n
    <3> QED
      BY <3>2, <3>3
  <2> QED
    BY <2>2, <2>5, <2>6
<1>5. SUBSET UAVs \subseteq P
  <2> HIDE DEF P
  <2> QED
    BY <1>1, <1>3, <1>4, SubsetsBySteps
<1>6. \E s \in [1..Cardinality(S) -> S] : Increasing(S, s)
  BY <1>5
<1> QED
  BY <1>2, <1>6 DEF InOrder

LEMMA RecruitedIsTyped ==
  ASSUME up \subseteq UAVs, ingress \in Ingresses
  PROVE  Recruited \in Ingresses /\ Recruited.status = ingress.status
<1> DEFINE team == InOrder(up)
<1>1. team \in [1..Cardinality(up) -> up] /\ Cardinality(up) \in Nat
  BY SomeOrder
<1>2. team \in Seq(UAVs)
  <2>1. team \in [1..Cardinality(up) -> UAVs]
    BY <1>1
  <2> HIDE DEF team
  <2> QED
    BY <1>1, <2>1
<1>3. up # {} => 1 \in 1..Len(team)
  <2>1. up # {} => Cardinality(up) # 0
    BY NetworkAssumption, FS_Subset, FS_EmptySet
  <2>2. Len(team) = Cardinality(up)
    <3> HIDE DEF team
    <3> QED
      BY <1>1
  <2> QED
    BY <1>1, <2>1, <2>2
<1> HIDE DEF team
<1>4. SubSeq(team, 2, Len(team)) \in Seq(UAVs)
  BY <1>2
<1>5. (IF up = {} THEN <<>> ELSE <<team[1]>>) \in Seq(UAVs)
  <2>1. CASE up = {}
    BY <2>1
  <2>2. CASE up # {}
    <3>1. team[1] \in UAVs
      BY <1>2, <1>3, <2>2
    <3> QED
      BY <2>2, <3>1
  <2> QED
    BY <2>1, <2>2
<1>6. Recruited = IF ingress.relays # <<>> THEN ingress
                  ELSE [ingress EXCEPT !.relays = SubSeq(team, 2, Len(team)),
                                       !.surveyors = IF up = {} THEN <<>> ELSE <<team[1]>>]
  BY DEF Recruited, team
<1> QED
  BY <1>4, <1>5, <1>6 DEF Ingresses

LEMMA SentIsTyped ==
  ASSUME NEW plan \in SendPlans, NEW u \in UAVs, NEW place \in 0..FarEnd, NEW peers
  PROVE  Sent(plan, u, place, peers) \in SendPlans
<1>1. Reach(u, place) \in SUBSET Nodes
  BY ComponentClosed DEF Reach, Reachable, Nodes
<1>2. /\ plan.orders \in OrderSets /\ plan.connected \in SUBSET Nodes
  BY DEF SendPlans
<1>3. [plan.orders EXCEPT ![u] = place] \in OrderSets
  BY <1>2 DEF OrderSets, Places
<1> QED
  BY <1>1, <1>3 DEF Sent, SendPlans

LEMMA ChainIsTyped ==
  ASSUME NEW team \in Ingresses
  PROVE  /\ Manned(team) \in Nat
         /\ \A i \in 1..Manned(team) : team.relays[i] \in UAVs /\ Chain[i] \in 0..FarEnd
         /\ Len(team.surveyors) \in Nat
         /\ \A i \in 1..Len(team.surveyors) : team.surveyors[i] \in UAVs
<1>1. team.relays \in Seq(UAVs) /\ team.surveyors \in Seq(UAVs) /\ Chain \in Seq(0..FarEnd)
  BY IngressAssumption DEF Ingresses
<1>2. /\ Manned(team) \in Nat
      /\ Manned(team) <= Len(team.relays) /\ Manned(team) <= Len(Chain)
  <2>1. Len(team.relays) \in Nat /\ Len(Chain) \in Nat
    BY <1>1
  <2> QED
    BY <2>1 DEF Manned
<1>3. \A i \in 1..Manned(team) : i \in 1..Len(team.relays) /\ i \in 1..Len(Chain)
  BY <1>1, <1>2
<1>4. \A i \in 1..Manned(team) : team.relays[i] \in UAVs
  BY <1>1, <1>3
<1>5. \A i \in 1..Manned(team) : Chain[i] \in 0..FarEnd
  <2> DEFINE Spots == 0..FarEnd
  <2>1. Chain \in Seq(Spots)
    BY <1>1
  <2> HIDE DEF Spots
  <2>2. \A i \in 1..Len(Chain) : Chain[i] \in Spots
    BY <2>1
  <2> QED
    BY <1>3, <2>2 DEF Spots
<1>6. /\ Len(team.surveyors) \in Nat
      /\ \A i \in 1..Len(team.surveyors) : team.surveyors[i] \in UAVs
  BY <1>1
<1> QED
  BY <1>2, <1>4, <1>5, <1>6

LEMMA RelayOrdersAreTyped ==
  ASSUME NEW team \in Ingresses
  PROVE  RelayOrders(team) \in SendPlans
<1> DEFINE N == Manned(team)
           peers == Range(team.relays) \cup Range(team.surveyors)
           first == [orders |-> [u \in UAVs |-> None], connected |-> Connected]
           next(i, plan) == Sent(plan, team.relays[i], Chain[i], peers)
           body(e) == [i \in 0..N |-> IF i = 0 THEN first ELSE next(i, e[i-1])]
           g == [p \in (1..N) \X SendPlans |-> next(p[1], p[2])]
<1>1. N \in Nat
  BY ChainIsTyped
<1>2. \A i \in 1..N, plan \in SendPlans : next(i, plan) \in SendPlans
  BY ChainIsTyped, SentIsTyped
<1>3. first \in SendPlans
  <2>1. Connected \in SUBSET Nodes
    BY ComponentClosed DEF Connected, Reachable, Nodes
  <2> QED
    BY <2>1 DEF SendPlans, OrderSets, Places
<1>4. RelayOrders(team) = (CHOOSE e : e = body(e))[N]
  BY DEF RelayOrders
<1> HIDE DEF N, first, next
<1>5. StepsTo(g, N, SendPlans)
  BY <1>2 DEF StepsTo
<1>6. PICK f \in [0..N -> SendPlans] : ClimbsTo(f, N, first, g)
  <2> HIDE DEF g
  <2> QED
    BY <1>1, <1>3, <1>5, LoopExists
<1>7. f = body(f)
  <2>1. f[0] = first
    BY <1>6 DEF ClimbsTo
  <2>2. \A i \in 1..N : i - 1 \in 0..N
    BY <1>1
  <2>3. \A i \in 1..N : f[i] = g[<<i, f[i-1]>>]
    BY <1>6 DEF ClimbsTo
  <2>4. \A i \in 1..N : f[i] = next(i, f[i-1])
    BY <1>6, <2>2, <2>3
  <2>5. \A i \in 0..N : i # 0 => i \in 1..N
    BY <1>1
  <2> HIDE DEF g
  <2> QED
    BY <1>6, <2>1, <2>4, <2>5
<1> DEFINE plan == CHOOSE e : e = body(e)
<1>8. plan = body(plan)
  <2> HIDE DEF body
  <2> QED
    BY <1>7
<1>9. RelayOrders(team) = plan[N]
  BY <1>4
<1> HIDE DEF plan
<1>10. plan[0] \in SendPlans
  BY <1>1, <1>3, <1>8
<1>11. ASSUME NEW i \in 1..N, plan[i-1] \in SendPlans PROVE plan[i] \in SendPlans
  <2>1. plan[i] = next(i, plan[i-1])
    BY <1>1, <1>8
  <2> HIDE DEF body
  <2> QED
    BY <1>2, <1>11, <2>1
<1>12. plan[N] \in SendPlans
  <2> HIDE DEF body
  <2> QED
    BY <1>1, <1>10, <1>11, LoopEnds
<1> QED
  BY <1>9, <1>12

LEMMA OrdersAreTyped ==
  ASSUME NEW team \in Ingresses
  PROVE  Orders(team) \in OrderSets
<1> DEFINE N == Len(team.surveyors)
           relays == RelayOrders(team)
           first == relays.orders
           next(i, orders) == Sent([relays EXCEPT !.orders = orders], team.surveyors[i],
                                   HoldAt, Range(team.relays)).orders
           body(e) == [i \in 0..N |-> IF i = 0 THEN first ELSE next(i, e[i-1])]
           g == [p \in (1..N) \X OrderSets |-> next(p[1], p[2])]
<1>1. N \in Nat
  BY ChainIsTyped
<1>2. relays \in SendPlans
  BY RelayOrdersAreTyped
<1>3. Orders(team) = (CHOOSE e : e = body(e))[N]
  BY DEF Orders
<1> HIDE DEF relays
<1>4. ASSUME NEW i \in 1..N, NEW orders \in OrderSets PROVE next(i, orders) \in OrderSets
  <2>1. [relays EXCEPT !.orders = orders] \in SendPlans
    BY <1>2 DEF SendPlans
  <2>2. team.surveyors[i] \in UAVs /\ HoldAt \in 0..FarEnd
    BY ChainIsTyped, IngressAssumption
  <2>3. Sent([relays EXCEPT !.orders = orders], team.surveyors[i],
             HoldAt, Range(team.relays)) \in SendPlans
    BY <2>1, <2>2, SentIsTyped
  <2> QED
    BY <2>3 DEF SendPlans
<1>5. first \in OrderSets
  BY <1>2 DEF SendPlans
<1> HIDE DEF N, first, next
<1>6. StepsTo(g, N, OrderSets)
  BY <1>4 DEF StepsTo
<1>7. PICK f \in [0..N -> OrderSets] : ClimbsTo(f, N, first, g)
  <2> HIDE DEF g
  <2> QED
    BY <1>1, <1>5, <1>6, LoopExists
<1>8. f = body(f)
  <2>1. f[0] = first
    BY <1>7 DEF ClimbsTo
  <2>2. \A i \in 1..N : i - 1 \in 0..N
    BY <1>1
  <2>3. \A i \in 1..N : f[i] = g[<<i, f[i-1]>>]
    BY <1>7 DEF ClimbsTo
  <2>4. \A i \in 1..N : f[i] = next(i, f[i-1])
    BY <1>7, <2>2, <2>3
  <2>5. \A i \in 0..N : i # 0 => i \in 1..N
    BY <1>1
  <2> HIDE DEF g
  <2> QED
    BY <1>7, <2>1, <2>4, <2>5
<1> DEFINE orders == CHOOSE e : e = body(e)
<1>9. orders = body(orders)
  <2> HIDE DEF body
  <2> QED
    BY <1>8
<1>10. Orders(team) = orders[N]
  BY <1>3
<1> HIDE DEF orders
<1>11. orders[0] \in OrderSets
  BY <1>1, <1>5, <1>9
<1>12. ASSUME NEW i \in 1..N, orders[i-1] \in OrderSets PROVE orders[i] \in OrderSets
  <2>1. orders[i] = next(i, orders[i-1])
    BY <1>1, <1>9
  <2> HIDE DEF body
  <2> QED
    BY <1>4, <1>12, <2>1
<1>13. orders[N] \in OrderSets
  <2> HIDE DEF body
  <2> QED
    BY <1>1, <1>11, <1>12, LoopEnds
<1> QED
  BY <1>10, <1>13

(***************************************************************************)
(* The inductive invariant.  A vehicle and its task know of each other,    *)
(* and no task is given out before the coordinator has finished, so that   *)
(* it never sends a vehicle away from the task it holds.                   *)
(***************************************************************************)

InTouch ==
  /\ status \in [Tasks -> {"pending", "assigned", "done"}]
  /\ duty \in [UAVs -> Tasks \cup {None}]
  /\ \A u, v \in UAVs : duty[u] # None /\ duty[u] = duty[v] => u = v
  /\ \A u \in UAVs : duty[u] # None => status[duty[u]] = "assigned"
  /\ \A t \in Tasks : status[t] = "assigned" => \E u \in UAVs : duty[u] = t

OnTheWay ==
  \A u \in UAVs : duty[u] # None => to[u] = TaskPlace[duty[u]] /\ u \notin relaying

IngressFirst == ingress.status = "DEPLOYING" => \A u \in UAVs : duty[u] = None

AllocationInv ==
  /\ NetworkTypeOK
  /\ ingress \in Ingresses /\ relaying \subseteq UAVs /\ to \in OrderSets
  /\ InTouch /\ OnTheWay /\ IngressFirst

LEMMA CountOne ==
  ASSUME AllocationInv
  PROVE  \A t \in Tasks : Cardinality({u \in UAVs : duty[u] = t}) =
                          IF status[t] = "assigned" THEN 1 ELSE 0
<1> SUFFICES ASSUME NEW t \in Tasks
             PROVE  Cardinality({u \in UAVs : duty[u] = t}) =
                    IF status[t] = "assigned" THEN 1 ELSE 0
  OBVIOUS
<1>1. t # None
  BY NoneIsNothing
<1>2. CASE status[t] = "assigned"
  <2>1. PICK u \in UAVs : duty[u] = t
    BY <1>2 DEF AllocationInv, InTouch
  <2>2. {v \in UAVs : duty[v] = t} = {u}
    BY <1>1, <2>1 DEF AllocationInv, InTouch
  <2> QED
    BY <1>2, <2>2, FS_Singleton
<1>3. CASE status[t] # "assigned"
  <2>1. {v \in UAVs : duty[v] = t} = {}
    BY <1>1, <1>3 DEF AllocationInv, InTouch
  <2> QED
    BY <1>3, <2>1, FS_EmptySet
<1> QED
  BY <1>2, <1>3

LEMMA InvTypes == AllocationInv => AllocationTypeOK
<1> SUFFICES ASSUME AllocationInv PROVE AllocationTypeOK
  OBVIOUS
<1>1. \A s \in Seq(UAVs) : Range(s) \subseteq UAVs
  BY DEF Range
<1>2. /\ ingress.status \in {"DEPLOYING", "COMPLETE"}
      /\ ingress.relays \in Seq(UAVs) /\ ingress.surveyors \in Seq(UAVs)
  BY DEF AllocationInv, Ingresses
<1>3. IngressTypeOK
  BY <1>1, <1>2 DEF IngressTypeOK, AllocationInv, OrderSets, Places
<1> QED
  BY <1>3, CountOne DEF AllocationTypeOK, AllocationInv, InTouch, OnTheWay

LEMMA InvInit == AllocationInit => AllocationInv
<1> SUFFICES ASSUME AllocationInit PROVE AllocationInv
  OBVIOUS
<1>1. at \in [UAVs -> 0..FarEnd]
  BY DEF AllocationInit
<1>2. NetworkTypeOK
  BY <1>1, NetworkAssumption DEF AllocationInit, NetworkTypeOK
<1>3. ingress \in Ingresses
  BY DEF AllocationInit, Ingresses
<1>4. to \in OrderSets /\ relaying \subseteq UAVs
  BY DEF AllocationInit, OrderSets, Places
<1>5. InTouch
  BY DEF AllocationInit, InTouch
<1> QED
  BY <1>2, <1>3, <1>4, <1>5 DEF AllocationInv, AllocationInit, OnTheWay, IngressFirst

LEMMA PlanIngressKeeps == AllocationInv /\ PlanIngress => AllocationInv'
<1> SUFFICES ASSUME AllocationInv, PlanIngress PROVE AllocationInv'
  OBVIOUS
<1>1. UNCHANGED <<at, up, now, status, duty>>
  BY DEF PlanIngress, networkVars
<1>2. \A u \in UAVs : duty[u] = None
  BY DEF AllocationInv, IngressFirst, PlanIngress
<1>3. NetworkTypeOK' /\ InTouch' /\ OnTheWay' /\ IngressFirst'
  BY <1>1, <1>2 DEF AllocationInv, NetworkTypeOK, InTouch, OnTheWay, IngressFirst
<1>4. ingress' \in Ingresses /\ relaying' \subseteq UAVs /\ to' \in OrderSets
  <2>1. CASE UNCHANGED ingressVars
    BY <2>1 DEF ingressVars, AllocationInv
  <2>2. CASE Deploy
    <3>1. up \subseteq UAVs /\ ingress \in Ingresses /\ at \in [UAVs -> 0..FarEnd]
      BY DEF AllocationInv, NetworkTypeOK
    <3>2. Recruited \in Ingresses
      BY <3>1, RecruitedIsTyped
    <3>3. Orders(Recruited) \in OrderSets
      BY <3>2, OrdersAreTyped
    <3> DEFINE team == Recruited
               recruits == Range(team.relays) \ Range(ingress.relays)
               orders == Orders(team)
    <3>4. recruits \subseteq UAVs
      BY <3>2 DEF Ingresses, Range
    <3>5. /\ \E done : ingress' = [team EXCEPT !.status = IF done THEN "COMPLETE" ELSE @]
          /\ relaying' = relaying \cup recruits
          /\ to' = [u \in UAVs |-> IF orders[u] # None THEN orders[u]
                                   ELSE IF u \in recruits THEN at[u] ELSE to[u]]
      BY <2>2 DEF Deploy
    <3> HIDE DEF team, orders, recruits
    <3>6. ingress' \in Ingresses
      BY <3>2, <3>5 DEF Ingresses, team
    <3>7. to' \in OrderSets
      BY <3>1, <3>3, <3>5 DEF orders, team, AllocationInv, OrderSets, Places
    <3> QED
      BY <3>4, <3>5, <3>6, <3>7 DEF AllocationInv
  <2> QED
    BY <2>1, <2>2 DEF PlanIngress
<1> QED
  BY <1>3, <1>4 DEF AllocationInv

LEMMA AllocateKeeps == AllocationInv /\ Allocate => AllocationInv'
<1> SUFFICES ASSUME AllocationInv, Allocate PROVE AllocationInv'
  OBVIOUS
<1>1. PICK plan \in Plans :
           /\ Fits(Open, plan, PassScores)
           /\ duty' = [u \in UAVs |-> IF plan[u] = None THEN duty[u] ELSE plan[u]]
           /\ to' = [u \in UAVs |-> IF plan[u] = None THEN to[u] ELSE TaskPlace[plan[u]]]
           /\ status' = [t \in Tasks |-> IF t \in Range(plan) THEN "assigned"
                                         ELSE status[t]]
  BY AllocateMatches DEF AllocationInv
<1>2. \A u \in UAVs : plan[u] # None =>
        /\ u \in Eligible /\ plan[u] \in Tasks /\ plan[u] \in Range(plan)
        /\ status[plan[u]] = "pending" /\ duty[u] = None /\ u \notin relaying
  <2>1. \A u \in UAVs : plan[u] \in Range(plan)
    BY <1>1 DEF Plans, Range
  <2> QED
    BY <1>1, <2>1 DEF Fits, Open, Eligible
<1>3. \A t \in Tasks : t # None /\ (t \in Range(plan) => \E u \in UAVs : plan[u] = t)
  BY <1>1, NoneIsNothing DEF Plans, Range
<1>4. UNCHANGED <<at, up, now, ingress, relaying>> /\ ingress.status # "DEPLOYING"
  BY DEF Allocate, networkVars
<1>5. NetworkTypeOK' /\ IngressFirst'
  BY <1>4 DEF AllocationInv, NetworkTypeOK, IngressFirst
<1>6. to' \in OrderSets
  <2>1. \A t \in Tasks : TaskPlace[t] \in 0..FarEnd
    BY AllocationAssumption
  <2> QED
    BY <1>1, <1>2, <2>1 DEF AllocationInv, OrderSets, Places
<1>7. InTouch'
  <2>1. InTouch
    BY DEF AllocationInv
  <2>2. status' \in [Tasks -> {"pending", "assigned", "done"}]
    BY <1>1, <2>1 DEF InTouch
  <2>3. duty' \in [UAVs -> Tasks \cup {None}]
    BY <1>1, <1>2, <2>1 DEF InTouch
  <2>4. \A u \in UAVs : duty'[u] = IF plan[u] = None THEN duty[u] ELSE plan[u]
    BY <1>1
  <2>5. ASSUME NEW u \in UAVs, NEW v \in UAVs, duty'[u] # None, duty'[u] = duty'[v]
        PROVE  u = v
    <3>1. CASE plan[u] # None /\ plan[v] # None
      BY <1>1, <2>4, <2>5, <3>1 DEF Fits
    <3>2. CASE plan[u] = None /\ plan[v] = None
      BY <2>1, <2>4, <2>5, <3>2 DEF InTouch
    <3>3. CASE plan[u] # None /\ plan[v] = None
      BY <1>2, <2>1, <2>4, <2>5, <3>3 DEF InTouch
    <3>4. CASE plan[u] = None /\ plan[v] # None
      BY <1>2, <2>1, <2>4, <2>5, <3>4 DEF InTouch
    <3> QED
      BY <3>1, <3>2, <3>3, <3>4
  <2>6. ASSUME NEW u \in UAVs, duty'[u] # None PROVE status'[duty'[u]] = "assigned"
    BY <1>1, <1>2, <2>1, <2>4, <2>6 DEF InTouch
  <2>7. ASSUME NEW t \in Tasks, status'[t] = "assigned"
        PROVE  \E u \in UAVs : duty'[u] = t
    <3>1. CASE t \in Range(plan)
      BY <1>3, <2>4, <3>1
    <3>2. CASE t \notin Range(plan)
      <4>1. status[t] = "assigned"
        BY <1>1, <2>7, <3>2
      <4>2. PICK u \in UAVs : duty[u] = t
        BY <2>1, <4>1 DEF InTouch
      <4> QED
        BY <1>2, <1>3, <2>4, <4>2
    <3> QED
      BY <3>1, <3>2
  <2> QED
    BY <2>2, <2>3, <2>5, <2>6, <2>7 DEF InTouch
<1>8. OnTheWay'
  BY <1>1, <1>2, <1>4 DEF AllocationInv, OnTheWay
<1> QED
  BY <1>4, <1>5, <1>6, <1>7, <1>8 DEF AllocationInv

LEMMA WorkKeeps == AllocationInv /\ Work => AllocationInv'
<1> SUFFICES ASSUME AllocationInv, Work PROVE AllocationInv'
  OBVIOUS
<1>1. /\ duty' = [u \in UAVs |-> IF u \in OnSite THEN None ELSE duty[u]]
      /\ to' = [u \in UAVs |-> IF u \in OnSite THEN None ELSE to[u]]
      /\ status' = [t \in Tasks |-> IF \E u \in OnSite : duty[u] = t THEN "done"
                                    ELSE status[t]]
      /\ at' = [u \in UAVs |-> Step(u)]
      /\ PassTime /\ UNCHANGED <<up, ingress, relaying>>
  BY DEF Work
<1>2. /\ at \in [UAVs -> 0..FarEnd] /\ up \subseteq UAVs /\ now \in 0..Horizon
      /\ to \in [UAVs -> Places]
      /\ InTouch /\ OnTheWay /\ IngressFirst
  BY DEF AllocationInv, NetworkTypeOK, OrderSets
<1>3. NetworkTypeOK'
  <2>1. ASSUME NEW u \in UAVs PROVE Step(u) \in 0..FarEnd
    <3>1. at[u] \in 0..FarEnd /\ FarEnd \in Nat
      BY <1>2, NetworkAssumption
    <3>2. to[u] = None \/ to[u] \in 0..FarEnd
      BY <1>2 DEF Places
    <3> QED
      BY <3>1, <3>2 DEF Step
  <2>2. now' \in 0..Horizon
    BY <1>1, <1>2, NetworkAssumption DEF PassTime
  <2> QED
    BY <1>1, <1>2, <2>1, <2>2 DEF NetworkTypeOK
<1>4. to' \in OrderSets
  BY <1>1, <1>2 DEF OrderSets, Places
<1>5. OnSite \subseteq UAVs /\ \A u \in OnSite : duty[u] # None
  BY <1>2 DEF OnSite
<1>6. InTouch'
  <2>1. status' \in [Tasks -> {"pending", "assigned", "done"}]
    BY <1>1, <1>2 DEF InTouch
  <2>2. duty' \in [UAVs -> Tasks \cup {None}]
    BY <1>1, <1>2 DEF InTouch
  <2>3. \A u \in UAVs : duty'[u] = IF u \in OnSite THEN None ELSE duty[u]
    BY <1>1
  <2>4. ASSUME NEW u \in UAVs, NEW v \in UAVs, duty'[u] # None, duty'[u] = duty'[v]
        PROVE  u = v
    BY <1>2, <2>3, <2>4 DEF InTouch
  <2>5. ASSUME NEW u \in UAVs, duty'[u] # None PROVE status'[duty'[u]] = "assigned"
    <3>1. u \notin OnSite /\ duty'[u] = duty[u] /\ duty[u] \in Tasks
      BY <1>2, <2>3, <2>5 DEF InTouch
    <3>2. ~\E v \in OnSite : duty[v] = duty[u]
      BY <1>2, <1>5, <3>1 DEF InTouch
    <3>3. status[duty[u]] = "assigned"
      BY <1>2, <2>5, <3>1 DEF InTouch
    <3> QED
      BY <1>1, <3>1, <3>2, <3>3
  <2>6. ASSUME NEW t \in Tasks, status'[t] = "assigned"
        PROVE  \E u \in UAVs : duty'[u] = t
    <3>1. status[t] = "assigned" /\ ~\E u \in OnSite : duty[u] = t
      BY <1>1, <2>6
    <3>2. PICK u \in UAVs : duty[u] = t
      BY <1>2, <3>1 DEF InTouch
    <3> QED
      BY <2>3, <3>1, <3>2
  <2> QED
    BY <2>1, <2>2, <2>4, <2>5, <2>6 DEF InTouch
<1>7. OnTheWay' /\ IngressFirst'
  BY <1>1, <1>2 DEF OnTheWay, IngressFirst
<1> QED
  BY <1>1, <1>3, <1>4, <1>6, <1>7 DEF AllocationInv

LEMMA FailKeeps == ASSUME AllocationInv, NEW u \in UAVs, Fail(u) PROVE AllocationInv'
<1>1. /\ duty' = [duty EXCEPT ![u] = None]
      /\ to' = IF duty[u] = None THEN to ELSE [to EXCEPT ![u] = None]
      /\ status' = [t \in Tasks |-> IF t = duty[u] THEN "pending" ELSE status[t]]
      /\ up' = up \ {u} /\ UNCHANGED <<at, now, ingress, relaying>>
  BY DEF Fail, FailVehicle, Reopened
<1>2. /\ NetworkTypeOK /\ to \in [UAVs -> Places] /\ InTouch /\ OnTheWay /\ IngressFirst
  BY DEF AllocationInv, OrderSets
<1>3. NetworkTypeOK'
  BY <1>1, <1>2 DEF NetworkTypeOK
<1>4. to' \in OrderSets
  BY <1>1, <1>2 DEF OrderSets, Places
<1>5. duty'[u] = None /\ \A v \in UAVs \ {u} : duty'[v] = duty[v]
  BY <1>1, <1>2 DEF InTouch
<1>6. InTouch'
  <2>1. status' \in [Tasks -> {"pending", "assigned", "done"}]
    BY <1>1, <1>2 DEF InTouch
  <2>2. duty' \in [UAVs -> Tasks \cup {None}]
    BY <1>1, <1>2 DEF InTouch
  <2>3. ASSUME NEW v \in UAVs, NEW w \in UAVs, duty'[v] # None, duty'[v] = duty'[w]
        PROVE  v = w
    BY <1>2, <1>5, <2>3 DEF InTouch
  <2>4. ASSUME NEW v \in UAVs, duty'[v] # None PROVE status'[duty'[v]] = "assigned"
    <3>1. v # u /\ duty'[v] = duty[v] /\ duty[v] \in Tasks
      BY <1>2, <1>5, <2>4 DEF InTouch
    <3>2. duty[v] # duty[u] /\ status[duty[v]] = "assigned"
      BY <1>2, <2>4, <3>1 DEF InTouch
    <3> QED
      BY <1>1, <3>1, <3>2
  <2>5. ASSUME NEW t \in Tasks, status'[t] = "assigned"
        PROVE  \E v \in UAVs : duty'[v] = t
    <3>1. t # duty[u] /\ status[t] = "assigned"
      BY <1>1, <2>5
    <3>2. PICK v \in UAVs : duty[v] = t
      BY <1>2, <3>1 DEF InTouch
    <3> QED
      BY <1>5, <3>1, <3>2
  <2> QED
    BY <2>1, <2>2, <2>3, <2>4, <2>5 DEF InTouch
<1>7. OnTheWay'
  <2>1. \A v \in UAVs \ {u} : to'[v] = to[v]
    BY <1>1, <1>2
  <2> QED
    BY <1>1, <1>2, <1>5, <2>1 DEF OnTheWay
<1>8. IngressFirst'
  BY <1>1, <1>2, <1>5 DEF IngressFirst
<1> QED
  BY <1>1, <1>3, <1>4, <1>6, <1>7, <1>8 DEF AllocationInv

LEMMA RecoverKeeps == ASSUME AllocationInv, NEW u \in UAVs, Recover(u) PROVE AllocationInv'
<1>1. /\ up' = up \cup {u} /\ relaying' = relaying \ {u}
      /\ UNCHANGED <<at, now, ingress, to, status, duty>>
  BY DEF Recover, RecoverVehicle
<1> QED
  BY <1>1 DEF AllocationInv, NetworkTypeOK, InTouch, OnTheWay, IngressFirst

LEMMA InvNext == AllocationInv /\ [AllocationNext]_vars => AllocationInv'
<1> SUFFICES ASSUME AllocationInv, [AllocationNext]_vars PROVE AllocationInv'
  OBVIOUS
<1>1. CASE UNCHANGED vars
  BY <1>1 DEF vars, networkVars, ingressVars, AllocationInv, NetworkTypeOK, InTouch,
              OnTheWay, IngressFirst
<1> QED
  BY <1>1, PlanIngressKeeps, AllocateKeeps, WorkKeeps, FailKeeps, RecoverKeeps
     DEF AllocationNext

\* A step from the planning of a tick to its flight is one of two.
LEMMA PassIsPlanned ==
  ASSUME [AllocationNext]_vars, stage = "plan", stage' = "fly"
  PROVE  PlanIngress \/ Allocate
<1>1. ~UNCHANGED vars
  BY DEF vars
<1>2. ~Work
  BY DEF Work
<1>3. \A u \in UAVs : ~Fail(u) /\ ~Recover(u)
  BY DEF Fail, Recover
<1> QED
  BY <1>1, <1>2, <1>3 DEF AllocationNext

\* When all but one lose touch with the ground station, that one has to be in
\* its range.
LEMMA GatewayIsNeeded ==
  ASSUME NetworkTypeOK, NEW u \in UAVs, NEW t \in Tasks, Gateways = {u},
         u \in Reachable(LinksAt(AtTask(u, t)))
  PROVE  TaskPlace[t] <= MaxRange
<1> DEFINE places == AtTask(u, t)
           links == LinksAt(places)
<1>1. /\ at \in [UAVs -> 0..FarEnd] /\ places \in [UAVs -> 0..FarEnd]
      /\ places[u] = TaskPlace[t] /\ TaskPlace[t] \in Nat
      /\ \A v \in UAVs \ {u} : places[v] = at[v]
  BY AllocationAssumption, NetworkAssumption DEF NetworkTypeOK, AtTask
<1>2. GCS \in Nodes /\ UAVs \subseteq Nodes /\ Nodes \subseteq UAVs \cup {GCS}
  BY DEF Nodes
<1>3. \A v \in UAVs : v # GCS
  BY NetworkAssumption
<1> SUFFICES ASSUME TaskPlace[t] > MaxRange PROVE FALSE
  BY <1>1, NetworkAssumption
<1> HIDE DEF places
<1>4. ASSUME NEW m \in Nodes, m # GCS, {GCS, m} \in links PROVE FALSE
  <2>1. m \in UAVs /\ m \in up /\ Distance({GCS, m}, places) <= MaxRange
    <3>1. m \in UAVs /\ m \in Available
      BY <1>2, <1>4 DEF LinksAt
    <3>2. Distance({GCS, m}, places) <= MaxRange
      BY <1>4 DEF LinksAt
    <3> QED
      BY <1>4, <3>1, <3>2 DEF Available
  <2>2. /\ Distance({GCS, m}, places) = Gap(0, places[m])
        /\ Distance({GCS, m}, at) = Gap(0, at[m])
    <3>1. /\ Distance({GCS, m}, places) = Gap(Place(GCS, places), Place(m, places))
          /\ Distance({GCS, m}, at) = Gap(Place(GCS, at), Place(m, at))
      BY <1>1, <1>2, <1>4, PairDistance
    <3> QED
      BY <1>4, <3>1 DEF Place
  <2>3. CASE m = u
    <3>1. Gap(0, TaskPlace[t]) = TaskPlace[t]
      BY <1>1 DEF Gap
    <3> QED
      BY <1>1, <2>1, <2>2, <2>3, <3>1, NetworkAssumption
  <2>4. CASE m # u
    <3>1. Distance({GCS, m}, at) <= MaxRange
      BY <1>1, <2>1, <2>2, <2>4
    <3>2. {GCS, m} \in Links
      BY <1>4, <3>1 DEF Links, LinksAt
    <3>3. {m, GCS} \in Links
      <4>1. {m, GCS} = {GCS, m}
        OBVIOUS
      <4> QED
        BY <3>2, <4>1
    <3>4. m \in Gateways
      BY <2>1, <3>3 DEF Gateways
    <3> QED
      BY <2>4, <3>4
  <2> QED
    BY <2>3, <2>4
<1>5. Neighbours(GCS, links) = {}
  BY <1>4 DEF Neighbours
<1>6. ComponentOf(GCS, links) \subseteq {GCS}
  <2> HIDE DEF links
  <2> QED
    BY <1>2, <1>5, ComponentLeast
<1> QED
  BY <1>3, <1>6 DEF Reachable, places

(***************************************************************************)
(* The theorems.                                                           *)
(***************************************************************************)

LEMMA InvHolds == AllocationSpec => []AllocationInv
<1> QED
  BY InvInit, InvNext, PTL DEF AllocationSpec

\* A task is assigned exactly when one vehicle holds it, and that one flies to it.
\* (TaskAllocator, IngressCoordinator, the assignment of the state store)
THEOREM AllocationTyped == AllocationSpec => []AllocationTypeOK
BY InvHolds, InvTypes, PTL

\* Every pass of the allocator ends in a matching without justified envy,
\* whatever the team, the tasks, the scores and the level.
\* (TaskAllocator.allocate, A1CommAwareAllocator.allocate)
THEOREM PassesAreStable == AllocationSpec => NoJustifiedEnvy
<1> DEFINE Pass == stage = "plan" /\ stage' = "fly" /\ ingress.status # "DEPLOYING" =>
             \A t \in Open, u \in Eligible :
               Envious(u, t) => duty'[u] # None /\ Before(duty'[u], t)
<1>1. AllocationInv /\ [AllocationNext]_vars => [Pass]_vars
  <2> SUFFICES ASSUME AllocationInv, [AllocationNext]_vars,
                      stage = "plan", stage' = "fly", ingress.status # "DEPLOYING",
                      NEW t \in Open, NEW u \in Eligible, Envious(u, t)
               PROVE  duty'[u] # None /\ Before(duty'[u], t)
    OBVIOUS
  <2>1. Allocate
    BY PassIsPlanned DEF PlanIngress
  <2>2. NetworkTypeOK
    BY DEF AllocationInv
  <2> QED
    BY <2>1, <2>2, PassHasNoEnvy
<1>2. AllocationSpec => [][Pass]_vars
  <2> HIDE DEF Pass
  <2> QED
    BY <1>1, InvHolds, PTL DEF AllocationSpec
<1> QED
  BY <1>2 DEF NoJustifiedEnvy

\* The destination-aware allocator never sends the only gateway out of the range
\* of the ground station, whatever the network.
\* (_evaluate_swarm_connectivity_preservation of a1_allocator.py)
THEOREM TheGatewayStays == AllocationSpec => GatewayStays
<1> DEFINE Pass == stage = "plan" /\ stage' = "fly" /\ level = "destination" =>
             \A u \in Eligible :
               duty'[u] # None /\ Gateways = {u} => TaskPlace[duty'[u]] <= MaxRange
<1>1. AllocationInv /\ [AllocationNext]_vars => [Pass]_vars
  <2> SUFFICES ASSUME AllocationInv, [AllocationNext]_vars,
                      stage = "plan", stage' = "fly", level = "destination",
                      NEW u \in Eligible, duty'[u] # None, Gateways = {u}
               PROVE  TaskPlace[duty'[u]] <= MaxRange
    OBVIOUS
  <2>1. u \in UAVs /\ duty[u] = None /\ NetworkTypeOK
    BY EligibleAreVehicles DEF AllocationInv
  <2>2. ~PlanIngress
    BY <2>1 DEF PlanIngress
  <2>3. Allocate
    BY <2>2, PassIsPlanned
  <2>4. PICK plan \in Plans :
           /\ Fits(Open, plan, PassScores)
           /\ duty' = [v \in UAVs |-> IF plan[v] = None THEN duty[v] ELSE plan[v]]
    BY <2>1, <2>3, AllocateMatches
  <2> DEFINE t == duty'[u]
  <2>5. t = plan[u] /\ plan[u] # None
    BY <2>1, <2>4
  <2>6. t \in Open /\ PassScores[u][t] # None
    BY <2>1, <2>4, <2>5 DEF Fits
  <2> HIDE DEF t
  <2>7. t \in Tasks /\ PassScores[u][t] = Score(u, t)
    BY <2>1, <2>6, OpenIsFinite DEF PassScores
  <2>8. Preserves(u, Reachable(LinksAt(AtTask(u, t))) \ {GCS})
    BY <2>6, <2>7 DEF Score
  <2>9. u \in Reachable(LinksAt(AtTask(u, t)))
    BY <2>8 DEF Preserves
  <2>10. TaskPlace[t] <= MaxRange
    BY <2>1, <2>7, <2>9, GatewayIsNeeded
  <2> QED
    BY <2>10 DEF t
<1>2. AllocationSpec => [][Pass]_vars
  <2> HIDE DEF Pass
  <2> QED
    BY <1>1, InvHolds, PTL DEF AllocationSpec
<1> QED
  BY <1>2 DEF GatewayStays
=============================================================================
