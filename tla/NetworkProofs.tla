--------------------------- MODULE NetworkProofs ---------------------------
(***************************************************************************)
(* Proofs about the analysis of the network, for any fleet, any positions  *)
(* and any schedule of disturbances: the components partition the nodes    *)
(* that are up, the breadth-first routing finds a valid route for whoever  *)
(* is in the component of the ground station, with no more hops than it    *)
(* takes, and both routings return the lexicographically least of the best *)
(* simple paths, with the fewest hops for the one and the least cost for   *)
(* the other.                                                              *)
(*                                                                         *)
(* Every computation is iterated as often as there are vehicles.  That this *)
(* is often enough is where the size of the fleet comes in: a set of nodes *)
(* gains one with every round until it gains none for good, be it a ball,  *)
(* the nodes whose cost is final or those a tight path leads to, and a     *)
(* path without a loop has visited every node.                             *)
(***************************************************************************)
EXTENDS Network, LeastNumbers

LEMMA NodesFinite ==
  /\ Nodes \subseteq Nat /\ IsFiniteSet(Nodes)
  /\ Cardinality(Nodes) = Cardinality(UAVs) + 1
  /\ Cardinality(UAVs) \in Nat
  /\ None \notin Nodes
<1>1. UAVs \subseteq Nat \ {GCS} /\ IsFiniteSet(UAVs) /\ GCS \in Nat
  BY NetworkAssumption DEF GCS
<1> QED
  BY <1>1, NetworkAssumption, FS_AddElement, FS_CardinalityType DEF Nodes

LEMMA NeighboursOf ==
  ASSUME NEW links, NEW n \in Nodes, NEW m \in Nodes
  PROVE  /\ m \in Neighbours(n, links) <=> n \in Neighbours(m, links)
         /\ m \in Neighbours(n, links) <=> m # n /\ {n, m} \in links
<1>1. {n, m} = {m, n}
  OBVIOUS
<1> QED
  BY <1>1 DEF Neighbours

(***************************************************************************)
(* Balls.                                                                  *)
(***************************************************************************)

LEMMA SpreadNodes ==
  ASSUME NEW links, NEW S \in SUBSET Nodes
  PROVE  /\ Spread(S, links) \in SUBSET Nodes
         /\ S \subseteq Spread(S, links)
         /\ \A x \in Nodes : x \in Spread(S, links) <=>
              x \in S \/ \E y \in S : x \in Neighbours(y, links)
BY DEF Spread, Neighbours

\* The recursion of Ball defines a function, and this is what it computes.
LEMMA BallSteps ==
  ASSUME NEW links, NEW n \in Nodes
  PROVE  /\ Ball(n, links) \in [Nat -> SUBSET Nodes]
         /\ Ball(n, links)[0] = {n}
         /\ \A k \in Nat :
              Ball(n, links)[k+1] = Spread(Ball(n, links)[k], links)
<1> DEFINE S == SUBSET Nodes
           Steps(f) == f = [k \in Nat |-> IF k = 0 THEN {n}
                                          ELSE Spread(f[k-1], links)]
           a == {n}
           g == [X \in S |-> Spread(X, links)]
<1>1. a \in S /\ g \in [S -> S] /\ \A X \in S : g[X] = Spread(X, links)
  BY SpreadNodes
<1> HIDE DEF g, S, a
<1> DEFINE f == Iterates(S, a, g)
<1>2. f \in [Nat -> S] /\ f[0] = a /\ \A k \in Nat : f[k+1] = g[f[k]]
  BY <1>1, IteratesSteps
<1> HIDE DEF f
<1>3. Steps(f)
  <2>1. ASSUME NEW k \in Nat
        PROVE  f[k] = IF k = 0 THEN {n} ELSE Spread(f[k-1], links)
    <3>1. CASE k = 0
      BY <1>2, <3>1 DEF a
    <3>2. CASE k # 0
      <4>1. k - 1 \in Nat /\ (k - 1) + 1 = k
        BY <3>2
      <4>2. f[k] = g[f[k-1]] /\ f[k-1] \in S
        BY <1>2, <4>1
      <4> QED
        BY <1>1, <3>2, <4>2
    <3> QED
      BY <3>1, <3>2
  <2> QED
    BY <1>2, <2>1
<1> USE DEF S
<1>4. Ball(n, links) = CHOOSE b : Steps(b)
  BY DEF Ball
<1> DEFINE b == Ball(n, links)
<1>5. Steps(b)
  <2> HIDE DEF Steps
  <2> QED
    BY <1>3, <1>4
<1> HIDE DEF b
<1>6. b[0] = {n} /\ \A k \in Nat : b[k+1] = Spread(b[k], links)
  <2>1. ASSUME NEW k \in Nat PROVE b[k+1] = Spread(b[k], links)
    <3>1. k + 1 \in Nat /\ k + 1 # 0 /\ (k + 1) - 1 = k
      OBVIOUS
    <3> QED
      BY <1>5, <3>1
  <2> QED
    BY <1>5, <2>1
<1>7. Nat \subseteq {k \in Nat : b[k] \in SUBSET Nodes}
  <2> DEFINE T == {k \in Nat : b[k] \in SUBSET Nodes}
  <2>1. 0 \in T
    BY <1>6
  <2>2. \A k \in Nat : k \in T => k + 1 \in T
    BY <1>6, SpreadNodes
  <2> HIDE DEF T
  <2>3. Nat \subseteq T
    BY <2>1, <2>2, NaturalsBySteps
  <2> QED
    BY <2>3 DEF T
<1>8. b = [k \in Nat |-> b[k]]
  BY <1>5
<1> QED
  BY <1>6, <1>7, <1>8 DEF b

\* A ball grows and, after as many steps as there are vehicles, no longer does.
LEMMA BallGrows ==
  ASSUME NEW links, NEW n \in Nodes
  PROVE  \A j, k \in Nat : j <= k => Ball(n, links)[j] \subseteq Ball(n, links)[k]
<1> DEFINE b == Ball(n, links)
           T == {k \in Nat : \A j \in Nat : j <= k => b[j] \subseteq b[k]}
<1>1. b \in [Nat -> SUBSET Nodes] /\ \A k \in Nat : b[k] \subseteq b[k+1]
  BY BallSteps, SpreadNodes
<1> HIDE DEF b
<1>2. 0 \in T
  OBVIOUS
<1>3. ASSUME NEW k \in Nat, k \in T PROVE k + 1 \in T
  <2> SUFFICES ASSUME NEW j \in Nat, j <= k + 1 PROVE b[j] \subseteq b[k+1]
    OBVIOUS
  <2>1. CASE j = k + 1
    BY <2>1
  <2>2. CASE j <= k
    BY <1>1, <1>3, <2>2
  <2> QED
    BY <2>1, <2>2
<1>4. Nat \subseteq T
  <2> HIDE DEF T
  <2> QED
    BY <1>2, <1>3, NaturalsBySteps
<1> QED
  BY <1>4 DEF b

\* A growing chain of sets of nodes that stops growing for good once it has
\* not grown in a step has stopped after as many steps as there are vehicles.
LEMMA ChainStops ==
  ASSUME NEW b \in [Nat -> SUBSET Nodes], b[0] # {},
         \A k \in Nat : b[k] \subseteq b[k+1],
         \A k \in Nat : b[k+1] = b[k] => b[(k+1)+1] = b[k+1]
  PROVE  b[Cardinality(UAVs) + 1] = b[Cardinality(UAVs)]
<1> DEFINE N == Cardinality(UAVs)
           T == {k \in Nat : b[k+1] = b[k] \/ Cardinality(b[k]) >= k + 1}
<1>1. N \in Nat /\ IsFiniteSet(Nodes) /\ Cardinality(Nodes) = N + 1
  BY NodesFinite
<1> HIDE DEF N
<1>2. \A k \in Nat : IsFiniteSet(b[k]) /\ Cardinality(b[k]) \in Nat
  BY <1>1, FS_Subset, FS_CardinalityType
<1>3. 0 \in T
  <2>1. Cardinality(b[0]) # 0
    BY <1>2, FS_EmptySet
  <2>2. Cardinality(b[0]) >= 0 + 1
    BY <1>2, <2>1
  <2> QED
    BY <2>2
<1>4. ASSUME NEW k \in Nat, k \in T PROVE k + 1 \in T
  <2>1. CASE b[k+1] = b[k]
    BY <2>1
  <2>2. CASE b[k+1] # b[k] /\ Cardinality(b[k]) >= k + 1
    <3>1. /\ b[k] \subseteq b[k+1] /\ IsFiniteSet(b[k+1])
          /\ Cardinality(b[k]) \in Nat /\ Cardinality(b[k+1]) \in Nat
      BY <1>2
    <3>2. /\ Cardinality(b[k]) <= Cardinality(b[k+1])
          /\ Cardinality(b[k]) # Cardinality(b[k+1])
      BY <2>2, <3>1, FS_Subset
    <3>3. Cardinality(b[k+1]) >= (k + 1) + 1
      BY <2>2, <3>1, <3>2
    <3> QED
      BY <3>3
  <2> QED
    BY <1>4, <2>1, <2>2
<1>5. N \in T
  <2> HIDE DEF T
  <2> QED
    BY <1>1, <1>3, <1>4, NaturalsBySteps
<1>6. b[N+1] = b[N]
  <2>1. CASE b[N+1] = b[N]
    BY <2>1
  <2>2. CASE Cardinality(b[N]) >= N + 1
    <3>1. b[N] \in SUBSET Nodes /\ b[N+1] \in SUBSET Nodes /\ b[N] \subseteq b[N+1]
      BY <1>1
    <3>2. Cardinality(b[N]) <= Cardinality(Nodes)
      BY <1>1, <3>1, FS_Subset
    <3>3. b[N] = Nodes
      BY <1>1, <1>2, <2>2, <3>1, <3>2, FS_Subset
    <3> QED
      BY <3>1, <3>3
  <2> QED
    BY <1>5, <2>1, <2>2
<1> QED
  BY <1>6 DEF N

LEMMA BallCloses ==
  ASSUME NEW links, NEW n \in Nodes
  PROVE  Spread(ComponentOf(n, links), links) = ComponentOf(n, links)
<1> DEFINE b == Ball(n, links)
           N == Cardinality(UAVs)
<1>1. /\ b \in [Nat -> SUBSET Nodes] /\ b[0] = {n} /\ N \in Nat
      /\ \A k \in Nat : b[k+1] = Spread(b[k], links)
  BY BallSteps, NodesFinite
<1> HIDE DEF b
<1>2. \A k \in Nat : b[k] \subseteq b[k+1]
  BY <1>1, SpreadNodes
<1>3. \A k \in Nat : b[k+1] = b[k] => b[(k+1)+1] = b[k+1]
  BY <1>1
<1>4. b[N+1] = b[N]
  BY <1>1, <1>2, <1>3, ChainStops
<1> QED
  BY <1>1, <1>4 DEF b, ComponentOf

\* What a component is: the least set around its node that no link leaves.
LEMMA ComponentClosed ==
  ASSUME NEW links, NEW n \in Nodes
  PROVE  /\ ComponentOf(n, links) \in SUBSET Nodes
         /\ n \in ComponentOf(n, links)
         /\ \A x \in ComponentOf(n, links) :
              Neighbours(x, links) \subseteq ComponentOf(n, links)
<1> DEFINE C == ComponentOf(n, links)
<1>1. Cardinality(UAVs) \in Nat
  BY NodesFinite
<1>2. C \in SUBSET Nodes /\ n \in C
  BY <1>1, BallSteps, BallGrows DEF ComponentOf
<1>3. Spread(C, links) = C
  BY BallCloses
<1>4. \A x \in C : Neighbours(x, links) \subseteq C
  <2> HIDE DEF C
  <2> SUFFICES ASSUME NEW x \in C, NEW y \in Neighbours(x, links)
               PROVE  y \in Spread(C, links)
    BY <1>3
  <2> QED
    BY DEF Spread
<1> QED
  BY <1>2, <1>4

LEMMA ComponentLeast ==
  ASSUME NEW links, NEW n \in Nodes, NEW S, n \in S,
         \A x \in S \cap Nodes : Neighbours(x, links) \subseteq S
  PROVE  ComponentOf(n, links) \subseteq S
<1> DEFINE b == Ball(n, links)
           T == {k \in Nat : b[k] \subseteq S}
<1>1. /\ b \in [Nat -> SUBSET Nodes] /\ b[0] = {n}
      /\ \A k \in Nat : b[k+1] = Spread(b[k], links)
  BY BallSteps
<1> HIDE DEF b
<1>2. 0 \in T
  BY <1>1
<1>3. ASSUME NEW k \in Nat, k \in T PROVE k + 1 \in T
  <2>1. b[k] \in SUBSET Nodes /\ b[k] \subseteq S
    BY <1>1, <1>3
  <2>2. Spread(b[k], links) \subseteq S
    BY <2>1 DEF Spread
  <2> QED
    BY <1>1, <2>2
<1>4. Nat \subseteq T
  <2> HIDE DEF T
  <2> QED
    BY <1>2, <1>3, NaturalsBySteps
<1> QED
  BY <1>4, NodesFinite DEF b, ComponentOf

\* Links have no direction, so neither has being connected.
LEMMA ComponentsEqual ==
  ASSUME NEW links, NEW n \in Nodes, NEW m \in ComponentOf(n, links)
  PROVE  ComponentOf(m, links) = ComponentOf(n, links)
<1> DEFINE C(x) == ComponentOf(x, links)
           S == {x \in C(n) : n \in C(x)}
<1>1. m \in Nodes /\ C(m) \subseteq C(n)
  <2>1. m \in Nodes
    BY ComponentClosed
  <2> QED
    BY <2>1, ComponentClosed, ComponentLeast
<1>2. \A x \in S \cap Nodes : Neighbours(x, links) \subseteq S
  <2> SUFFICES ASSUME NEW x \in S, x \in Nodes,
                      NEW y \in Neighbours(x, links)
               PROVE  y \in C(n) /\ n \in C(y)
    OBVIOUS
  <2>1. y \in Nodes /\ x \in Neighbours(y, links)
    BY NeighboursOf DEF Neighbours
  <2>2. y \in C(n) /\ x \in C(y)
    BY <2>1, ComponentClosed
  <2>3. C(x) \subseteq C(y)
    BY <2>1, <2>2, ComponentClosed, ComponentLeast
  <2> QED
    BY <2>2, <2>3
<1>3. n \in S
  BY ComponentClosed
<1>4. n \in C(m)
  <2> HIDE DEF S
  <2>1. C(n) \subseteq S
    BY <1>2, <1>3, ComponentLeast
  <2> QED
    BY <2>1 DEF S
<1>5. C(n) \subseteq C(m)
  BY <1>1, <1>4, ComponentClosed, ComponentLeast
<1> QED
  BY <1>1, <1>5

(***************************************************************************)
(* Routes.                                                                 *)
(***************************************************************************)

RouteValues == Seq(Nodes) \cup {None}

LEMMA MinLeast ==
  ASSUME NEW S, S \subseteq Nat, S # {}
  PROVE  Min(S) \in S /\ \A x \in S : Min(S) <= x
<1>1. \E h \in S : \A m \in S : h <= m
  BY LeastNatural
<1> QED
  BY <1>1 DEF Min

LEMMA NextHopLeast ==
  ASSUME NEW near, near \subseteq Nodes, near # {}
  PROVE  NextHop(near) \in near /\ \A m \in near : NextHop(near) <= m
BY NodesFinite, MinLeast DEF NextHop

LEMMA Prepending ==
  ASSUME NEW n \in Nodes, NEW r \in Seq(Nodes)
  PROVE  /\ <<n>> \o r \in Seq(Nodes)
         /\ Len(<<n>> \o r) = Len(r) + 1
         /\ (<<n>> \o r)[1] = n
         /\ \A i \in 1..Len(r) : (<<n>> \o r)[i+1] = r[i]
OBVIOUS

\* What a round of the breadth-first search does: it leaves the routes it has
\* and gives a node next to one that has a route the route through the
\* smallest of those.
LEMMA ExtendedRoutes ==
  ASSUME NEW links, NEW found \in [Nodes -> RouteValues]
  PROVE  /\ Extended(found, links) \in [Nodes -> RouteValues]
         /\ \A n \in Nodes :
              IF found[n] # None \/ Known(n, found, links) = {}
              THEN Extended(found, links)[n] = found[n]
              ELSE \E h \in Known(n, found, links) :
                     /\ found[h] \in Seq(Nodes)
                     /\ \A m \in Known(n, found, links) : h <= m
                     /\ Extended(found, links)[n] = <<n>> \o found[h]
<1> SUFFICES ASSUME NEW n \in Nodes
             PROVE  /\ Extended(found, links)[n] \in RouteValues
                    /\ IF found[n] # None \/ Known(n, found, links) = {}
                       THEN Extended(found, links)[n] = found[n]
                       ELSE \E h \in Known(n, found, links) :
                              /\ found[h] \in Seq(Nodes)
                              /\ \A m \in Known(n, found, links) : h <= m
                              /\ Extended(found, links)[n] = <<n>> \o found[h]
  BY DEF Extended
<1> DEFINE near == Known(n, found, links)
<1>1. CASE found[n] # None \/ near = {}
  BY <1>1 DEF Extended
<1>2. CASE found[n] = None /\ near # {}
  <2>1. near \subseteq Nodes /\ \A m \in near : found[m] \in Seq(Nodes)
    BY DEF Known, Neighbours, RouteValues
  <2>2. NextHop(near) \in near /\ \A m \in near : NextHop(near) <= m
    BY <1>2, <2>1, NextHopLeast
  <2>3. Extended(found, links)[n] = <<n>> \o found[NextHop(near)]
    BY <1>2 DEF Extended
  <2>4. <<n>> \o found[NextHop(near)] \in Seq(Nodes)
    BY <2>1, <2>2, Prepending
  <2> QED
    BY <1>2, <2>1, <2>2, <2>3, <2>4 DEF RouteValues
<1> QED
  BY <1>1, <1>2

LEMMA RoutesSteps ==
  ASSUME NEW links
  PROVE  /\ Routes(links) \in [Nat -> [Nodes -> RouteValues]]
         /\ Routes(links)[0] = Unrouted
         /\ \A k \in Nat : Routes(links)[k+1] = Extended(Routes(links)[k], links)
<1> DEFINE S == [Nodes -> RouteValues]
           Steps(f) == f = [k \in Nat |-> IF k = 0 THEN Unrouted
                                          ELSE Extended(f[k-1], links)]
           g == [found \in S |-> Extended(found, links)]
<1>1. g \in [S -> S]
  BY ExtendedRoutes
<1>2. Unrouted \in S
  BY DEF Unrouted, RouteValues, Nodes, GCS
<1>3. \A found \in S : g[found] = Extended(found, links)
  OBVIOUS
<1> HIDE DEF S, g
<1> DEFINE f == Iterates(S, Unrouted, g)
<1>4. f \in [Nat -> S] /\ f[0] = Unrouted /\ \A k \in Nat : f[k+1] = g[f[k]]
  BY <1>1, <1>2, IteratesSteps
<1> HIDE DEF f
<1>5. Steps(f)
  <2>1. ASSUME NEW k \in Nat
        PROVE  f[k] = IF k = 0 THEN Unrouted ELSE Extended(f[k-1], links)
    <3>1. CASE k = 0
      BY <1>4, <3>1
    <3>2. CASE k # 0
      <4>1. k - 1 \in Nat /\ (k - 1) + 1 = k
        BY <3>2
      <4>2. f[k] = g[f[k-1]] /\ f[k-1] \in S
        BY <1>4, <4>1
      <4> QED
        BY <1>3, <3>2, <4>2
    <3> QED
      BY <3>1, <3>2
  <2> QED
    BY <1>4, <2>1
<1>6. Routes(links) = CHOOSE r : Steps(r)
  BY DEF Routes
<1> DEFINE r == Routes(links)
<1>7. Steps(r)
  <2> HIDE DEF Steps
  <2> QED
    BY <1>5, <1>6
<1> HIDE DEF r
<1>8. r[0] = Unrouted /\ \A k \in Nat : r[k+1] = Extended(r[k], links)
  <2>1. ASSUME NEW k \in Nat PROVE r[k+1] = Extended(r[k], links)
    <3>1. k + 1 \in Nat /\ k + 1 # 0 /\ (k + 1) - 1 = k
      OBVIOUS
    <3> QED
      BY <1>7, <3>1
  <2> QED
    BY <1>7, <2>1
<1>9. Nat \subseteq {k \in Nat : r[k] \in S}
  <2> DEFINE T == {k \in Nat : r[k] \in S}
  <2>1. 0 \in T
    BY <1>2, <1>8
  <2>2. \A k \in Nat : k \in T => k + 1 \in T
    BY <1>8, ExtendedRoutes DEF S
  <2> HIDE DEF T
  <2>3. Nat \subseteq T
    BY <2>1, <2>2, NaturalsBySteps
  <2> QED
    BY <2>3 DEF T
<1>10. r = [k \in Nat |-> r[k]]
  BY <1>7
<1> QED
  BY <1>8, <1>9, <1>10 DEF r, S

\* A route from n to the ground station over the links, without a loop.
RouteFrom(n, r, links) ==
  /\ r \in Seq(Nodes) /\ Len(r) >= 1
  /\ r[1] = n /\ r[Len(r)] = GCS
  /\ \A i, j \in 1..Len(r) : r[i] = r[j] => i = j
  /\ \A i \in 1..(Len(r) - 1) : {r[i], r[i+1]} \in links

\* Within k rounds, exactly the nodes at most k hops away have a route, over
\* such nodes, and as long as the nodes are far.
SearchInv(k, links) ==
  LET near == Ball(GCS, links)
      route == Routes(links)[k]
  IN  \A n \in Nodes :
        /\ route[n] # None <=> n \in near[k]
        /\ route[n] # None =>
             /\ RouteFrom(n, route[n], links)
             /\ \A i \in 1..Len(route[n]) : route[n][i] \in near[k]
             /\ \A j \in 0..k : Len(route[n]) <= j + 1 <=> n \in near[j]

LEMMA SearchStarts ==
  ASSUME NEW links PROVE SearchInv(0, links)
<1> DEFINE near == Ball(GCS, links)
           route == Routes(links)[0]
<1>1. GCS \in Nodes /\ near[0] = {GCS} /\ route = Unrouted
  BY BallSteps, RoutesSteps DEF Nodes
<1> HIDE DEF near, route
<1>2. \A n \in Nodes : route[n] = IF n = GCS THEN <<GCS>> ELSE None
  BY <1>1 DEF Unrouted
<1>3. /\ <<GCS>> # None /\ <<GCS>> \in Seq(Nodes)
      /\ Len(<<GCS>>) = 1 /\ <<GCS>>[1] = GCS
  <2>1. <<GCS>> \in Seq(Nodes)
    BY <1>1
  <2>2. <<GCS>> # None
    BY <2>1, NetworkAssumption
  <2> QED
    BY <2>1, <2>2
<1>4. RouteFrom(GCS, <<GCS>>, links)
  BY <1>1 DEF RouteFrom
<1>5. ASSUME NEW n \in Nodes
      PROVE  /\ route[n] # None <=> n \in near[0]
             /\ route[n] # None =>
                  /\ RouteFrom(n, route[n], links)
                  /\ \A i \in 1..Len(route[n]) : route[n][i] \in near[0]
                  /\ \A j \in 0..0 : Len(route[n]) <= j + 1 <=> n \in near[j]
  <2>1. CASE n = GCS
    <3>1. route[n] = <<GCS>> /\ n \in near[0]
      BY <1>1, <1>2, <2>1
    <3>2. /\ \A i \in 1..Len(route[n]) : route[n][i] \in near[0]
          /\ \A j \in 0..0 : Len(route[n]) <= j + 1 <=> n \in near[j]
      BY <1>1, <1>3, <3>1
    <3> QED
      BY <1>3, <1>4, <2>1, <3>1, <3>2
  <2>2. CASE n # GCS
    BY <1>1, <1>2, <2>2
  <2> QED
    BY <2>1, <2>2
<1> QED
  BY <1>5 DEF SearchInv, near, route

\* A node in front of a route it is not on makes a route.
LEMMA RoutePrepended ==
  ASSUME NEW links, NEW n \in Nodes, NEW h \in Nodes, NEW r,
         RouteFrom(h, r, links), n \in Neighbours(h, links),
         \A i \in 1..Len(r) : r[i] # n
  PROVE  RouteFrom(n, <<n>> \o r, links)
<1> DEFINE s == <<n>> \o r
<1>1. /\ r \in Seq(Nodes) /\ Len(r) \in Nat /\ Len(r) >= 1
      /\ r[1] = h /\ r[Len(r)] = GCS
      /\ \A i, j \in 1..Len(r) : r[i] = r[j] => i = j
      /\ \A i \in 1..(Len(r) - 1) : {r[i], r[i+1]} \in links
  BY DEF RouteFrom
<1>2. /\ s \in Seq(Nodes) /\ Len(s) = Len(r) + 1 /\ s[1] = n
      /\ \A i \in 1..Len(r) : s[i+1] = r[i]
  BY <1>1, Prepending
<1> HIDE DEF s
<1>3. \A i \in 1..Len(s) : i # 1 => i - 1 \in 1..Len(r) /\ s[i] = r[i-1]
  <2> SUFFICES ASSUME NEW i \in 1..Len(s), i # 1
               PROVE  i - 1 \in 1..Len(r) /\ s[i] = r[i-1]
    OBVIOUS
  <2>1. i - 1 \in 1..Len(r) /\ (i - 1) + 1 = i
    BY <1>1, <1>2
  <2> QED
    BY <1>2, <2>1
<1>4. s[Len(s)] = GCS
  BY <1>1, <1>2
<1>5. \A i, j \in 1..Len(s) : s[i] = s[j] => i = j
  <2> SUFFICES ASSUME NEW i \in 1..Len(s), NEW j \in 1..Len(s), s[i] = s[j]
               PROVE  i = j
    OBVIOUS
  <2>1. CASE i = 1 \/ j = 1
    BY <1>2, <1>3, <2>1
  <2>2. CASE i # 1 /\ j # 1
    <3>1. i - 1 = j - 1
      BY <1>1, <1>3, <2>2
    <3> QED
      BY <1>1, <1>2, <3>1
  <2> QED
    BY <2>1, <2>2
<1>6. \A i \in 1..(Len(s) - 1) : {s[i], s[i+1]} \in links
  <2> SUFFICES ASSUME NEW i \in 1..(Len(s) - 1) PROVE {s[i], s[i+1]} \in links
    OBVIOUS
  <2>1. CASE i = 1
    <3>1. s[i] = n /\ s[i+1] = h
      BY <1>1, <1>2, <2>1
    <3>2. {n, h} \in links
      BY NeighboursOf
    <3> QED
      BY <3>1, <3>2
  <2>2. CASE i # 1
    <3>1. i - 1 \in 1..(Len(r) - 1) /\ i \in 1..Len(r) /\ i \in 1..Len(s)
      BY <1>1, <1>2, <2>2
    <3>2. s[i] = r[i-1] /\ s[i+1] = r[i] /\ (i - 1) + 1 = i
      BY <1>2, <1>3, <2>2, <3>1
    <3>3. {r[i-1], r[(i-1)+1]} \in links
      BY <1>1, <3>1
    <3> QED
      BY <3>2, <3>3
  <2> QED
    BY <2>1, <2>2
<1>7. RouteFrom(n, s, links)
  <2>1. Len(s) >= 1
    BY <1>1, <1>2
  <2> QED
    BY <1>2, <1>4, <1>5, <1>6, <2>1 DEF RouteFrom
<1> QED
  BY <1>7 DEF s

LEMMA SearchSteps ==
  ASSUME NEW links, NEW k \in Nat, SearchInv(k, links)
  PROVE  SearchInv(k + 1, links)
<1> DEFINE near == Ball(GCS, links)
           found == Routes(links)[k]
           route == Routes(links)[k+1]
<1>1. GCS \in Nodes
  BY DEF Nodes
<1>2. /\ \A j \in Nat : near[j] \in SUBSET Nodes
      /\ near[k+1] = Spread(near[k], links)
      /\ \A i, j \in Nat : i <= j => near[i] \subseteq near[j]
      /\ \A j \in Nat : near[j+1] = Spread(near[j], links)
  BY <1>1, BallSteps, BallGrows
<1>3. found \in [Nodes -> RouteValues] /\ route = Extended(found, links)
  BY RoutesSteps
<1>4. \A n \in Nodes :
        /\ found[n] # None <=> n \in near[k]
        /\ found[n] # None =>
             /\ RouteFrom(n, found[n], links)
             /\ \A i \in 1..Len(found[n]) : found[n][i] \in near[k]
             /\ \A j \in 0..k : Len(found[n]) <= j + 1 <=> n \in near[j]
  BY DEF SearchInv
<1> HIDE DEF near, found, route
<1> SUFFICES ASSUME NEW n \in Nodes
             PROVE  /\ route[n] # None <=> n \in near[k+1]
                    /\ route[n] # None =>
                         /\ RouteFrom(n, route[n], links)
                         /\ \A i \in 1..Len(route[n]) : route[n][i] \in near[k+1]
                         /\ \A j \in 0..(k+1) : Len(route[n]) <= j + 1 <=> n \in near[j]
  BY DEF SearchInv, near, route
<1>5. near[k] \subseteq near[k+1]
  BY <1>2
<1>6. Known(n, found, links) = Neighbours(n, links) \cap near[k]
  BY <1>4 DEF Known, Neighbours
<1>7. n \in near[k+1] <=> n \in near[k] \/ Known(n, found, links) # {}
  <2>1. n \in near[k+1] <=> n \in near[k] \/ \E m \in near[k] : n \in Neighbours(m, links)
    BY <1>2, SpreadNodes
  <2>2. \A m \in near[k] : n \in Neighbours(m, links) <=> m \in Neighbours(n, links)
    BY <1>2, NeighboursOf
  <2> QED
    BY <1>6, <2>1, <2>2
<1>8. CASE n \in near[k]
  <2>1. route[n] = found[n] /\ found[n] # None
    <3>1. found[n] # None
      BY <1>4, <1>8
    <3>2. Extended(found, links)[n] = found[n]
      BY <1>3, <3>1, ExtendedRoutes
    <3> QED
      BY <1>3, <3>1, <3>2
  <2>2. RouteFrom(n, route[n], links)
        /\ \A i \in 1..Len(route[n]) : route[n][i] \in near[k+1]
    BY <1>4, <1>5, <2>1
  <2>3. ASSUME NEW j \in 0..(k+1) PROVE Len(route[n]) <= j + 1 <=> n \in near[j]
    <3>1. Len(route[n]) \in Nat /\ Len(route[n]) <= k + 1
      BY <1>4, <1>8, <2>1 DEF RouteFrom
    <3>2. CASE j = k + 1
      BY <1>5, <1>8, <3>1, <3>2
    <3>3. CASE j \in 0..k
      BY <1>4, <2>1, <3>3
    <3> QED
      BY <3>2, <3>3
  <2> QED
    BY <1>5, <1>8, <2>1, <2>2, <2>3
<1>9. CASE n \notin near[k] /\ Known(n, found, links) = {}
  <2>1. route[n] = None
    BY <1>3, <1>4, <1>9, ExtendedRoutes
  <2> QED
    BY <1>7, <1>9, <2>1
<1>10. CASE n \notin near[k] /\ Known(n, found, links) # {}
  <2>1. PICK h \in Known(n, found, links) : route[n] = <<n>> \o found[h]
    BY <1>3, <1>4, <1>10, ExtendedRoutes
  <2>2. h \in Nodes /\ h \in near[k] /\ n \in Neighbours(h, links)
    BY <1>6, NeighboursOf DEF Neighbours
  <2> DEFINE r == found[h]
  <2>3. /\ RouteFrom(h, r, links)
        /\ \A i \in 1..Len(r) : r[i] \in near[k]
        /\ \A j \in 0..k : Len(r) <= j + 1 <=> h \in near[j]
    BY <1>4, <2>2
  <2>4. r \in Seq(Nodes) /\ Len(r) \in Nat /\ Len(r) >= 1
    BY <2>3 DEF RouteFrom
  <2>5. /\ route[n] \in Seq(Nodes) /\ Len(route[n]) = Len(r) + 1
        /\ route[n][1] = n
        /\ \A i \in 1..Len(r) : route[n][i+1] = r[i]
    BY <2>1, <2>4, Prepending
  <2>6. route[n] # None
    BY <2>5, NetworkAssumption
  <2>7. RouteFrom(n, route[n], links)
    BY <1>10, <2>1, <2>2, <2>3, RoutePrepended
  <2> HIDE DEF r
  <2>8. n \in near[k+1]
    BY <1>7, <1>10
  <2>9. \A i \in 1..Len(route[n]) : route[n][i] \in near[k+1]
    <3> SUFFICES ASSUME NEW i \in 1..Len(route[n]) PROVE route[n][i] \in near[k+1]
      OBVIOUS
    <3>1. CASE i = 1
      BY <2>5, <2>8, <3>1
    <3>2. CASE i # 1
      <4>1. i - 1 \in 1..Len(r) /\ (i - 1) + 1 = i
        BY <2>4, <2>5, <3>2
      <4> QED
        BY <1>5, <2>3, <2>5, <4>1
    <3> QED
      BY <3>1, <3>2
  <2>10. Len(r) = k + 1
    <3>1. Len(r) <= k + 1
      BY <2>2, <2>3
    <3>2. CASE k = 0
      <4>1. \A l \in Nat : l >= 1 /\ l <= 0 + 1 => l = 0 + 1
        OBVIOUS
      <4> QED
        BY <2>4, <3>1, <3>2, <4>1
    <3>3. CASE k # 0
      <4>1. k - 1 \in 0..k /\ (k - 1) + 1 = k /\ k - 1 \in Nat
        BY <3>3
      <4>2. h \notin near[k-1]
        <5> SUFFICES ASSUME h \in near[k-1] PROVE FALSE
          OBVIOUS
        <5>1. near[k] = Spread(near[k-1], links) /\ near[k-1] \in SUBSET Nodes
          BY <1>2, <4>1
        <5>2. n \in near[k]
          BY <2>2, <5>1, SpreadNodes
        <5> QED
          BY <1>10, <5>2
      <4>3. ~(Len(r) <= k)
        BY <2>3, <4>1, <4>2
      <4> QED
        BY <2>4, <3>1, <4>3
    <3> QED
      BY <3>2, <3>3
  <2>11. ASSUME NEW j \in 0..(k+1) PROVE Len(route[n]) <= j + 1 <=> n \in near[j]
    <3>1. Len(route[n]) = k + 2
      BY <2>5, <2>10
    <3>2. CASE j = k + 1
      BY <2>8, <3>1, <3>2
    <3>3. CASE j \in 0..k
      <4>1. n \notin near[j]
        BY <1>2, <1>10, <3>3
      <4> QED
        BY <3>1, <3>3, <4>1
    <3> QED
      BY <3>2, <3>3
  <2> QED
    BY <2>6, <2>7, <2>8, <2>9, <2>11
<1> QED
  BY <1>8, <1>9, <1>10

LEMMA SearchHolds ==
  ASSUME NEW links, NEW k \in Nat PROVE SearchInv(k, links)
<1> DEFINE T == {j \in Nat : SearchInv(j, links)}
<1>1. 0 \in T
  BY SearchStarts
<1>2. \A j \in Nat : j \in T => j + 1 \in T
  BY SearchSteps
<1>3. Nat \subseteq T
  <2> HIDE DEF T
  <2> QED
    BY <1>1, <1>2, NaturalsBySteps
<1> QED
  BY <1>3

\* What ShortestRoute returns: for the nodes in the component of the ground
\* station, and for no other, a route with as many links as the hop count says.
LEMMA ShortestRouteFound ==
  ASSUME NEW links \in SUBSET Pairs, NEW n \in Nodes
  PROVE  /\ ShortestRoute(n, links) # None <=> n \in Reachable(links)
         /\ ShortestRoute(n, links) # None =>
              /\ RouteFrom(n, ShortestRoute(n, links), links)
              /\ Len(ShortestRoute(n, links)) <= Cardinality(UAVs) + 1
              /\ \A j \in 0..Cardinality(UAVs) :
                   Len(ShortestRoute(n, links)) <= j + 1 <=> n \in Ball(GCS, links)[j]
<1> DEFINE N == Cardinality(UAVs)
<1>1. N \in Nat
  BY NodesFinite
<1>2. ShortestRoute(n, links) = Routes(links)[N][n]
  BY DEF ShortestRoute, ShortestRoutes
<1>3. SearchInv(N, links)
  BY <1>1, SearchHolds
<1>4. Reachable(links) = Ball(GCS, links)[N]
  BY DEF Reachable, ComponentOf
<1> DEFINE r == Routes(links)[N][n]
<1>5. /\ r # None <=> n \in Ball(GCS, links)[N]
      /\ r # None => /\ RouteFrom(n, r, links)
                     /\ \A j \in 0..N : Len(r) <= j + 1 <=> n \in Ball(GCS, links)[j]
  BY <1>3 DEF SearchInv
<1> HIDE DEF r, N
<1>6. r # None => Len(r) <= N + 1
  <2> SUFFICES ASSUME r # None PROVE Len(r) <= N + 1
    OBVIOUS
  <2>1. N \in 0..N
    BY <1>1
  <2> QED
    BY <1>5, <2>1
<1> QED
  BY <1>2, <1>4, <1>5, <1>6 DEF r, N

(***************************************************************************)
(* The analysis.                                                           *)
(***************************************************************************)

LEMMA LinksOfAvailable ==
  /\ Links \in SUBSET Pairs
  /\ \A p \in Links : p \subseteq Available
BY DEF Links, LinksAt

LEMMA ReachableAvailable ==
  ASSUME NEW n \in Available, up \subseteq UAVs
  PROVE  ComponentOf(n, Links) \subseteq Available
<1>1. n \in Nodes
  BY DEF Available, Nodes
<1>2. \A x \in Available \cap Nodes : Neighbours(x, Links) \subseteq Available
  BY LinksOfAvailable DEF Neighbours
<1> QED
  BY <1>1, <1>2, ComponentLeast

\* A route in the sense of these proofs is a valid one.
LEMMA RouteValid ==
  ASSUME NEW u \in UAVs, NEW r, RouteFrom(u, r, Links)
  PROVE  ValidRoute(u, r)
<1>1. /\ r \in Seq(Nodes) /\ Len(r) \in Nat /\ Len(r) >= 1
      /\ r[1] = u /\ r[Len(r)] = GCS
      /\ \A i, j \in 1..Len(r) : r[i] = r[j] => i = j
      /\ \A i \in 1..(Len(r) - 1) : {r[i], r[i+1]} \in Links
  BY DEF RouteFrom
<1>2. Len(r) >= 2
  <2>1. Len(r) # 1
    BY <1>1, NetworkAssumption
  <2>2. \A l \in Nat : l >= 1 /\ l # 1 => l >= 2
    OBVIOUS
  <2> QED
    BY <1>1, <2>1, <2>2
<1>3. DOMAIN r = 1..Len(r)
  BY <1>1
<1>4. IsInjective(r)
  BY <1>1, <1>3 DEF IsInjective
<1>5. Hops(r) \subseteq Links
  BY <1>1 DEF Hops
<1> QED
  BY <1>1, <1>2, <1>4, <1>5 DEF ValidRoute, Last

\* A route is penalised at most once for each of its links.
LEMMA LatencyBounded ==
  ASSUME NEW n, NEW r, NEW links, RouteFrom(n, r, links),
         Len(r) <= Cardinality(UAVs) + 1
  PROVE  RouteLatency(r) \in 1..(1 + Cardinality(UAVs))
<1> DEFINE I == 1..(Len(r) - 1)
           f == [i \in I |-> {r[i], r[i+1]}]
           slow == {hop \in Hops(r) : Slow(hop) = 1}
<1>1. Len(r) \in Nat /\ Len(r) >= 1 /\ Cardinality(UAVs) \in Nat
  BY NodesFinite DEF RouteFrom
<1>2. IsFiniteSet(I) /\ Cardinality(I) <= Cardinality(UAVs)
  <2>1. 1 \in Int /\ Len(r) - 1 \in Int
    BY <1>1
  <2>2. /\ IsFiniteSet(I)
        /\ Cardinality(I) = IF 1 > Len(r) - 1 THEN 0 ELSE (Len(r) - 1) - 1 + 1
    BY <2>1, FS_Interval
  <2> QED
    BY <1>1, <2>2
<1>3. f \in Surjection(I, Hops(r))
  BY DEF Hops, Surjection
<1>4. IsFiniteSet(Hops(r)) /\ Cardinality(Hops(r)) <= Cardinality(I)
  <2> HIDE DEF f, I
  <2> QED
    BY <1>2, <1>3, FS_Surjection
<1>5. IsFiniteSet(slow) /\ Cardinality(slow) <= Cardinality(Hops(r))
  BY <1>4, FS_Subset
<1>6. /\ Cardinality(slow) \in Nat /\ Cardinality(Hops(r)) \in Nat
      /\ Cardinality(I) \in Nat
  BY <1>2, <1>4, <1>5, FS_CardinalityType
<1> QED
  BY <1>1, <1>2, <1>4, <1>5, <1>6 DEF RouteLatency

LEMMA ContractHolds ==
  ASSUME up \subseteq UAVs
  PROVE  AnalysisContract
<1> DEFINE C(n) == ComponentOf(n, Links)
<1>1. Available \subseteq Nodes /\ GCS \in Available /\ GCS \in Nodes /\ GCS \notin UAVs
  BY NetworkAssumption DEF Available, Nodes
<1>2. \A n \in Available : C(n) \subseteq Available /\ n \in C(n)
  BY <1>1, ReachableAvailable, ComponentClosed
<1>3. Connected \subseteq up
  BY <1>1, <1>2 DEF Connected, Reachable, Available
<1>4. ComponentOf(GCS, Links) \ {GCS} = Connected
  BY DEF Connected, Reachable
<1>5. UNION Components = Available
  BY <1>2 DEF Components
<1>6. \A c, d \in Components : c = d \/ c \cap d = {}
  <2> SUFFICES ASSUME NEW c \in Components, NEW d \in Components, NEW x \in c \cap d
               PROVE  c = d
    OBVIOUS
  <2>1. PICK n \in Available, m \in Available : c = C(n) /\ d = C(m)
    BY DEF Components
  <2>2. n \in Nodes /\ m \in Nodes /\ x \in C(n) /\ x \in C(m)
    BY <1>1, <2>1
  <2>3. C(x) = C(n) /\ C(x) = C(m)
    BY <2>2, ComponentsEqual
  <2> QED
    BY <2>1, <2>3
<1>7. \A p \in Links : \E c \in Components : p \subseteq c
  <2> SUFFICES ASSUME NEW p \in Links PROVE \E c \in Components : p \subseteq c
    OBVIOUS
  <2>1. PICK a \in Nodes, b \in Nodes : p = {a, b} /\ p \subseteq Available /\ a # b
    BY LinksOfAvailable DEF Pairs
  <2>2. a \in Available /\ a \in C(a) /\ b \in C(a)
    <3>1. a \in Available /\ b \in Neighbours(a, Links)
      BY <2>1 DEF Neighbours
    <3> QED
      BY <2>1, <3>1, ComponentClosed
  <2> QED
    BY <2>1, <2>2 DEF Components
<1>8. ASSUME NEW u \in Connected
      PROVE  /\ ValidRoute(u, ShortestRoute(u, Links))
             /\ \A k \in 0..Cardinality(UAVs) :
                  u \in Ball(GCS, Links)[k] <=> Len(ShortestRoute(u, Links)) <= k + 1
  <2>1. u \in UAVs /\ u \in Nodes /\ u \in Reachable(Links)
    BY <1>3 DEF Connected, Nodes
  <2> QED
    BY <2>1, LinksOfAvailable, ShortestRouteFound, RouteValid
<1>9. ASSUME NEW u \in Disconnected PROVE ShortestRoute(u, Links) = None
  <2>1. u \in Nodes /\ u \notin Reachable(Links)
    BY <1>1 DEF Connected, Disconnected, Nodes
  <2> QED
    BY <2>1, LinksOfAvailable, ShortestRouteFound
<1> QED
  BY <1>3, <1>4, <1>5, <1>6, <1>7, <1>8, <1>9 DEF AnalysisContract

(***************************************************************************)
(* The shortest routes are the lexicographically least ones.               *)
(***************************************************************************)

\* A route goes through the smallest neighbour that is one hop nearer.
HopByHop(route, links) ==
  \A n \in Nodes \ {GCS} : route[n] # None =>
    \E h \in Neighbours(n, links) :
      /\ route[h] \in Seq(Nodes) /\ Len(route[h]) + 1 = Len(route[n])
      /\ route[n] = <<n>> \o route[h]
      /\ \A m \in Neighbours(n, links) :
           route[m] # None /\ Len(route[m]) + 1 = Len(route[n]) => h <= m

LEMMA HopByHopSteps ==
  ASSUME NEW links, NEW k \in Nat, HopByHop(Routes(links)[k], links)
  PROVE  HopByHop(Routes(links)[k+1], links)
<1> DEFINE near == Ball(GCS, links)
           found == Routes(links)[k]
           route == Routes(links)[k+1]
<1>1. found \in [Nodes -> RouteValues] /\ route = Extended(found, links)
  BY RoutesSteps
<1>2. \A n \in Nodes :
        /\ found[n] # None <=> n \in near[k]
        /\ found[n] # None => /\ found[n] \in Seq(Nodes) /\ Len(found[n]) \in Nat
                              /\ Len(found[n]) <= k + 1
  <2>1. k \in 0..k
    OBVIOUS
  <2> QED
    BY <2>1, SearchHolds DEF SearchInv, RouteFrom
<1>3. \A n \in Nodes : route[n] # None =>
        /\ route[n] \in Seq(Nodes) /\ Len(route[n]) \in Nat
        /\ Len(route[n]) <= k + 1 <=> n \in near[k]
  <2>1. k \in 0..(k+1)
    OBVIOUS
  <2>2. SearchInv(k + 1, links)
    BY SearchHolds
  <2> QED
    BY <2>1, <2>2 DEF SearchInv, RouteFrom
<1>4. HopByHop(found, links)
  OBVIOUS
<1> HIDE DEF near, found, route
<1>5. ASSUME NEW m \in Nodes, found[m] # None PROVE route[m] = found[m]
  BY <1>1, <1>5, ExtendedRoutes
<1>6. ASSUME NEW n \in Nodes \ {GCS}, NEW m \in Neighbours(n, links), route[m] # None,
             Len(route[m]) <= k + 1
      PROVE  m \in Known(n, found, links)
  <2>1. m \in Nodes
    BY DEF Neighbours
  <2>2. found[m] # None
    BY <1>2, <1>3, <1>6, <2>1
  <2> QED
    BY <2>2 DEF Known
<1> SUFFICES ASSUME NEW n \in Nodes \ {GCS}, route[n] # None
             PROVE  \E h \in Neighbours(n, links) :
                      /\ route[h] \in Seq(Nodes) /\ Len(route[h]) + 1 = Len(route[n])
                      /\ route[n] = <<n>> \o route[h]
                      /\ \A m \in Neighbours(n, links) :
                           route[m] # None /\ Len(route[m]) + 1 = Len(route[n]) => h <= m
  BY DEF HopByHop, route
<1>7. CASE found[n] # None
  <2>1. route[n] = found[n] /\ Len(found[n]) <= k + 1 /\ Len(found[n]) \in Nat
    BY <1>2, <1>5, <1>7
  <2>2. PICK h \in Neighbours(n, links) :
          /\ found[h] \in Seq(Nodes) /\ Len(found[h]) + 1 = Len(found[n])
          /\ found[n] = <<n>> \o found[h]
          /\ \A m \in Neighbours(n, links) :
               found[m] # None /\ Len(found[m]) + 1 = Len(found[n]) => h <= m
    BY <1>4, <1>7 DEF HopByHop
  <2>3. h \in Nodes /\ found[h] # None
    BY <2>2, NetworkAssumption DEF Neighbours
  <2>4. route[h] = found[h]
    BY <1>5, <2>3
  <2>5. ASSUME NEW m \in Neighbours(n, links), route[m] # None,
               Len(route[m]) + 1 = Len(route[n])
        PROVE  h <= m
    <3>1. m \in Nodes /\ Len(route[m]) \in Nat
      BY <1>3, <2>5 DEF Neighbours
    <3>2. Len(route[m]) <= k + 1
      BY <2>1, <2>5, <3>1
    <3>3. found[m] # None
      BY <1>6, <2>5, <3>2 DEF Known
    <3>4. route[m] = found[m]
      BY <1>5, <3>1, <3>3
    <3> QED
      BY <2>1, <2>2, <2>5, <3>3, <3>4
  <2> QED
    BY <2>1, <2>2, <2>4, <2>5
<1>8. CASE found[n] = None
  <2>1. Known(n, found, links) # {}
    BY <1>1, <1>8, ExtendedRoutes
  <2>2. PICK h \in Known(n, found, links) :
          /\ found[h] \in Seq(Nodes)
          /\ \A m \in Known(n, found, links) : h <= m
          /\ route[n] = <<n>> \o found[h]
    BY <1>1, <1>8, <2>1, ExtendedRoutes
  <2>3. h \in Neighbours(n, links) /\ h \in Nodes /\ found[h] # None
    BY DEF Known, Neighbours
  <2>4. route[h] = found[h] /\ Len(found[h]) <= k + 1 /\ Len(found[h]) \in Nat
    BY <1>2, <1>5, <2>3
  <2>5. Len(route[n]) = Len(found[h]) + 1
    BY <2>2, Prepending
  <2>6. ASSUME NEW m \in Neighbours(n, links), route[m] # None,
               Len(route[m]) + 1 = Len(route[n])
        PROVE  h <= m
    <3>1. Len(route[m]) \in Nat
      BY <1>3, <2>6 DEF Neighbours
    <3>2. Len(route[m]) <= k + 1
      BY <2>4, <2>5, <2>6, <3>1
    <3> QED
      BY <1>6, <2>2, <2>6, <3>2
  <2> QED
    BY <2>2, <2>3, <2>4, <2>5, <2>6
<1> QED
  BY <1>7, <1>8

LEMMA HopByHopHolds ==
  ASSUME NEW links, NEW k \in Nat PROVE HopByHop(Routes(links)[k], links)
<1> DEFINE T == {j \in Nat : HopByHop(Routes(links)[j], links)}
<1>1. 0 \in T
  BY RoutesSteps DEF HopByHop, Unrouted
<1>2. \A j \in Nat : j \in T => j + 1 \in T
  BY HopByHopSteps
<1>3. Nat \subseteq T
  <2> HIDE DEF T
  <2> QED
    BY <1>1, <1>2, NaturalsBySteps
<1> QED
  BY <1>3

\* A path from n to the ground station over the links, with or without loops.
PathFrom(n, p, links) ==
  /\ p \in Seq(Nodes) /\ Len(p) >= 1
  /\ p[1] = n /\ p[Len(p)] = GCS
  /\ \A i \in 1..(Len(p) - 1) : {p[i], p[i+1]} \in links

LEMMA PathTail ==
  ASSUME NEW links \in SUBSET Pairs, NEW n \in Nodes, NEW p,
         PathFrom(n, p, links), Len(p) >= 2
  PROVE  /\ p[2] \in Neighbours(n, links)
         /\ PathFrom(p[2], [i \in 1..(Len(p) - 1) |-> p[i+1]], links)
         /\ Len([i \in 1..(Len(p) - 1) |-> p[i+1]]) = Len(p) - 1
<1> DEFINE q == [i \in 1..(Len(p) - 1) |-> p[i+1]]
<1>1. /\ p \in Seq(Nodes) /\ Len(p) \in Nat
      /\ p[1] = n /\ p[Len(p)] = GCS
      /\ \A i \in 1..(Len(p) - 1) : {p[i], p[i+1]} \in links
  BY DEF PathFrom
<1>2. \A i \in 1..Len(p) : p[i] \in Nodes
  BY <1>1
<1>3. Len(p) - 1 \in Nat /\ \A i \in 1..(Len(p) - 1) : i + 1 \in 1..Len(p)
  BY <1>1
<1>4. q \in Seq(Nodes) /\ Len(q) = Len(p) - 1
  BY <1>2, <1>3
<1>5. \A i \in 1..Len(q) : q[i] = p[i+1]
  BY <1>4
<1> HIDE DEF q
<1>6. p[2] \in Neighbours(n, links)
  <2>1. 1 \in 1..(Len(p) - 1) /\ 1 + 1 = 2 /\ 2 \in 1..Len(p)
    BY <1>1
  <2>2. {n, p[2]} \in links /\ p[2] \in Nodes
    BY <1>1, <1>2, <2>1
  <2>3. p[2] # n
    BY <2>2 DEF Pairs
  <2> QED
    BY <2>2, <2>3 DEF Neighbours
<1>7. q[1] = p[2] /\ q[Len(q)] = GCS
  <2>1. 1 \in 1..Len(q) /\ Len(q) \in 1..Len(q) /\ Len(q) + 1 = Len(p) /\ 1 + 1 = 2
    BY <1>1, <1>4
  <2> QED
    BY <1>1, <1>5, <2>1
<1>8. \A i \in 1..(Len(q) - 1) : {q[i], q[i+1]} \in links
  <2> SUFFICES ASSUME NEW i \in 1..(Len(q) - 1) PROVE {q[i], q[i+1]} \in links
    OBVIOUS
  <2>1. /\ i \in 1..Len(q) /\ i + 1 \in 1..Len(q)
        /\ i + 1 \in 1..(Len(p) - 1)
    BY <1>1, <1>4
  <2>2. {p[i+1], p[(i+1)+1]} \in links
    BY <1>1, <2>1
  <2>3. q[i] = p[i+1] /\ q[i+1] = p[(i+1)+1]
    BY <1>5, <2>1
  <2> QED
    BY <2>2, <2>3
<1>9. Len(q) >= 1
  BY <1>1, <1>4
<1> QED
  BY <1>4, <1>6, <1>7, <1>8, <1>9 DEF PathFrom, q

\* A path of k links leads to a node at most k hops away.
LEMMA PathInBall ==
  ASSUME NEW links \in SUBSET Pairs
  PROVE  \A k \in Nat : \A n \in Nodes : \A p :
           PathFrom(n, p, links) /\ Len(p) = k + 1 => n \in Ball(GCS, links)[k]
<1> DEFINE near == Ball(GCS, links)
           T == {k \in Nat : \A n \in Nodes : \A p :
                   PathFrom(n, p, links) /\ Len(p) = k + 1 => n \in near[k]}
<1>1. /\ near[0] = {GCS} /\ \A k \in Nat : near[k] \in SUBSET Nodes
      /\ \A k \in Nat : near[k+1] = Spread(near[k], links)
  BY BallSteps DEF Nodes
<1> HIDE DEF near
<1>2. 0 \in T
  BY <1>1 DEF PathFrom
<1>3. ASSUME NEW k \in Nat, k \in T PROVE k + 1 \in T
  <2> SUFFICES ASSUME NEW n \in Nodes, NEW p, PathFrom(n, p, links),
                      Len(p) = (k + 1) + 1
               PROVE  n \in near[k+1]
    OBVIOUS
  <2>1. Len(p) >= 2 /\ Len(p) - 1 = k + 1
    OBVIOUS
  <2> DEFINE q == [i \in 1..(Len(p) - 1) |-> p[i+1]]
             m == p[2]
  <2>2. m \in Neighbours(n, links) /\ PathFrom(m, q, links) /\ Len(q) = k + 1
    BY <2>1, PathTail
  <2> HIDE DEF q, m
  <2>3. m \in Nodes /\ n \in Neighbours(m, links)
    BY <2>2, NeighboursOf DEF Neighbours
  <2>4. m \in near[k]
    BY <1>3, <2>2, <2>3
  <2>5. near[k] \in SUBSET Nodes /\ near[k+1] = Spread(near[k], links)
    BY <1>1
  <2> QED
    BY <2>3, <2>4, <2>5, SpreadNodes
<1>4. Nat \subseteq T
  <2> HIDE DEF T
  <2> QED
    BY <1>2, <1>3, NaturalsBySteps
<1> QED
  BY <1>4 DEF near

LEMMA LexLessPrepended ==
  ASSUME NEW n \in Nodes, NEW r \in Seq(Nodes), NEW p \in Seq(Nodes),
         Len(p) = Len(r) + 1, p[1] = n,
         LexLess(r, [i \in 1..(Len(p) - 1) |-> p[i+1]])
  PROVE  LexLess(<<n>> \o r, p)
<1> DEFINE q == [i \in 1..(Len(p) - 1) |-> p[i+1]]
           s == <<n>> \o r
<1>1. /\ Len(r) \in Nat /\ s \in Seq(Nodes) /\ Len(s) = Len(r) + 1 /\ s[1] = n
      /\ \A i \in 1..Len(r) : s[i+1] = r[i]
  BY Prepending
<1>2. DOMAIN q = 1..Len(r) /\ \A i \in 1..Len(r) : q[i] = p[i+1]
  BY <1>1
<1>3. DOMAIN r = 1..Len(r) /\ DOMAIN s = 1..(Len(r) + 1) /\ DOMAIN p = 1..(Len(r) + 1)
  BY <1>1
<1> HIDE DEF s, q
<1>4. PICK i \in 1..Len(r) : r[i] < q[i] /\ \A j \in 1..(i-1) : r[j] = q[j]
  BY <1>2, <1>3 DEF LexLess, q
<1>5. i + 1 \in 1..(Len(r) + 1) /\ s[i+1] < p[i+1]
  BY <1>1, <1>2, <1>4
<1>6. \A j \in 1..((i+1)-1) : s[j] = p[j]
  <2> SUFFICES ASSUME NEW j \in 1..i PROVE s[j] = p[j]
    OBVIOUS
  <2>1. CASE j = 1
    BY <1>1, <2>1
  <2>2. CASE j # 1
    <3>1. j - 1 \in 1..(i-1) /\ j - 1 \in 1..Len(r) /\ (j - 1) + 1 = j
      BY <1>1, <1>4, <2>2
    <3>2. r[j-1] = q[j-1] /\ s[(j-1)+1] = r[j-1] /\ q[j-1] = p[(j-1)+1]
      BY <1>1, <1>2, <1>4, <3>1
    <3> QED
      BY <3>1, <3>2
  <2> QED
    BY <2>1, <2>2
<1> QED
  BY <1>3, <1>5, <1>6 DEF LexLess, s

\* Of the paths with as many links as the route has, the route is the least.
LEMMA RouteIsLeast ==
  ASSUME NEW links \in SUBSET Pairs
  PROVE  \A k \in Nat : \A n \in Nodes : \A p :
           /\ PathFrom(n, p, links) /\ Len(p) = k + 1
           /\ ShortestRoute(n, links) # None /\ Len(ShortestRoute(n, links)) = k + 1
           => p = ShortestRoute(n, links) \/ LexLess(ShortestRoute(n, links), p)
<1> DEFINE N == Cardinality(UAVs)
           near == Ball(GCS, links)
           R == [n \in Nodes |-> ShortestRoute(n, links)]
           T == {k \in Nat : \A n \in Nodes : \A p :
                   /\ PathFrom(n, p, links) /\ Len(p) = k + 1
                   /\ R[n] # None /\ Len(R[n]) = k + 1
                   => p = R[n] \/ LexLess(R[n], p)}
<1>1. N \in Nat
  BY NodesFinite
<1>2. R = Routes(links)[N] /\ HopByHop(R, links)
  <2>1. Routes(links)[N] \in [Nodes -> RouteValues] /\ HopByHop(Routes(links)[N], links)
    BY <1>1, RoutesSteps, HopByHopHolds
  <2>2. \A n \in Nodes : R[n] = Routes(links)[N][n]
    BY DEF ShortestRoute, ShortestRoutes
  <2>3. R = Routes(links)[N]
    BY <2>1, <2>2
  <2> QED
    BY <2>1, <2>3
<1>3. \A n \in Nodes :
        /\ R[n] # None <=> n \in near[N]
        /\ R[n] # None =>
             /\ R[n] \in Seq(Nodes) /\ Len(R[n]) \in Nat
             /\ Len(R[n]) >= 1 /\ Len(R[n]) <= N + 1 /\ R[n][1] = n
             /\ \A j \in 0..N : Len(R[n]) <= j + 1 <=> n \in near[j]
  <2> SUFFICES ASSUME NEW n \in Nodes
               PROVE  /\ R[n] # None <=> n \in near[N]
                      /\ R[n] # None =>
                           /\ R[n] \in Seq(Nodes) /\ Len(R[n]) \in Nat
                           /\ Len(R[n]) >= 1 /\ Len(R[n]) <= N + 1 /\ R[n][1] = n
                           /\ \A j \in 0..N : Len(R[n]) <= j + 1 <=> n \in near[j]
    OBVIOUS
  <2> DEFINE r == ShortestRoute(n, links)
  <2>1. Reachable(links) = near[N]
    BY DEF Reachable, ComponentOf
  <2>2. R[n] = r
    OBVIOUS
  <2>3. /\ r # None <=> n \in Reachable(links)
        /\ r # None => /\ RouteFrom(n, r, links) /\ Len(r) <= N + 1
                       /\ \A j \in 0..N : Len(r) <= j + 1 <=> n \in near[j]
    BY ShortestRouteFound
  <2>4. r # None => r \in Seq(Nodes) /\ Len(r) \in Nat /\ Len(r) >= 1 /\ r[1] = n
    BY <2>3 DEF RouteFrom
  <2> HIDE DEF r, R, N, near
  <2> QED
    BY <2>1, <2>2, <2>3, <2>4
<1>4. /\ near[0] = {GCS} /\ \A k \in Nat : near[k] \in SUBSET Nodes
      /\ \A k \in Nat : near[k+1] = Spread(near[k], links)
      /\ \A i, j \in Nat : i <= j => near[i] \subseteq near[j]
  BY BallSteps, BallGrows DEF Nodes
<1> HIDE DEF N, near, R
<1>5. 0 \in T
  <2> SUFFICES ASSUME NEW n \in Nodes, NEW p, PathFrom(n, p, links), Len(p) = 1,
                      R[n] # None, Len(R[n]) = 1
               PROVE  p = R[n]
    OBVIOUS
  <2>1. p \in Seq(Nodes) /\ p[1] = n /\ R[n] \in Seq(Nodes) /\ R[n][1] = n
    BY <1>3 DEF PathFrom
  <2> QED
    BY <2>1
<1>6. ASSUME NEW k \in Nat, k \in T PROVE k + 1 \in T
  <2> SUFFICES ASSUME NEW n \in Nodes, NEW p, PathFrom(n, p, links),
                      Len(p) = (k + 1) + 1,
                      R[n] # None, Len(R[n]) = (k + 1) + 1
               PROVE  p = R[n] \/ LexLess(R[n], p)
    OBVIOUS
  <2> DEFINE q == [i \in 1..(Len(p) - 1) |-> p[i+1]]
             m == p[2]
  <2>1. p \in Seq(Nodes) /\ p[1] = n
    BY DEF PathFrom
  <2>2. /\ m \in Neighbours(n, links) /\ PathFrom(m, q, links) /\ Len(q) = k + 1
        /\ DOMAIN q = 1..(k + 1) /\ \A i \in 1..(k + 1) : q[i] = p[i+1]
    BY PathTail
  <2> HIDE DEF q, m
  <2>3. m \in Nodes /\ n \in Neighbours(m, links)
    BY <2>2, NeighboursOf DEF Neighbours
  <2>4. k \in 0..N /\ k + 1 <= N
    BY <1>1, <1>3
  <2>5. n # GCS
    <3>1. GCS \in near[0] /\ 0 \in 0..N
      BY <1>1, <1>4
    <3> QED
      BY <1>3, <3>1
  <2>6. R[m] # None /\ Len(R[m]) <= k + 1
    <3>1. m \in near[k]
      BY <2>2, <2>3, PathInBall DEF near
    <3>2. m \in near[N]
      <4>1. k <= N
        BY <1>1, <2>4
      <4>2. near[k] \subseteq near[N]
        BY <1>1, <1>4, <4>1
      <4> QED
        BY <3>1, <4>2
    <3> QED
      BY <1>3, <2>3, <2>4, <3>1, <3>2
  <2>7. Len(R[m]) = k + 1
    <3> SUFFICES ASSUME Len(R[m]) # k + 1 PROVE FALSE
      OBVIOUS
    <3>1. Len(R[m]) \in Nat /\ Len(R[m]) >= 1
      BY <1>3, <2>3, <2>6
    <3>2. k - 1 \in Nat /\ k - 1 \in 0..N /\ Len(R[m]) <= (k - 1) + 1 /\ (k - 1) + 1 = k
      <4>1. \A l \in Nat : l >= 1 /\ l <= k + 1 /\ l # k + 1 => l <= k /\ k >= 1
        OBVIOUS
      <4>2. Len(R[m]) <= k /\ k >= 1
        BY <2>6, <3>1, <4>1
      <4> QED
        BY <1>1, <2>4, <4>2
    <3>3. m \in near[k-1]
      BY <1>3, <2>3, <2>6, <3>2
    <3>4. n \in near[k]
      <4>1. near[k] = Spread(near[k-1], links) /\ near[k-1] \in SUBSET Nodes
        BY <1>4, <3>2
      <4> QED
        BY <2>3, <3>3, <4>1, SpreadNodes
    <3> QED
      BY <1>3, <2>4, <3>4
  <2>8. PICK h \in Neighbours(n, links) :
          /\ R[h] \in Seq(Nodes) /\ Len(R[h]) + 1 = Len(R[n])
          /\ R[n] = <<n>> \o R[h]
          /\ \A x \in Neighbours(n, links) :
               R[x] # None /\ Len(R[x]) + 1 = Len(R[n]) => h <= x
    BY <1>2, <2>5 DEF HopByHop
  <2>9. h <= m /\ h \in Nodes /\ R[h] # None /\ h \in Nat /\ m \in Nat
    BY <2>2, <2>3, <2>6, <2>7, <2>8, NetworkAssumption, NodesFinite DEF Neighbours
  <2>10. Len(R[h]) = k + 1
    <3>1. \A l \in Nat : l + 1 = (k + 1) + 1 => l = k + 1
      OBVIOUS
    <3> QED
      BY <1>3, <2>8, <2>9, <3>1
  <2>11. /\ R[n] \in Seq(Nodes) /\ R[n][1] = n /\ R[h][1] = h
         /\ \A i \in 1..(k + 1) : R[n][i+1] = R[h][i]
    BY <1>3, <2>8, <2>9, <2>10, Prepending
  <2>12. CASE h < m
    <3>1. 2 \in DOMAIN R[n] \cap DOMAIN p
      BY <2>1, <2>11
    <3>2. R[n][2] = h /\ p[2] = m
      <4>1. 1 \in 1..(k + 1) /\ 1 + 1 = 2
        OBVIOUS
      <4> QED
        BY <2>11, <4>1 DEF m
    <3>3. \A j \in 1..(2-1) : R[n][j] = p[j]
      BY <2>1, <2>11
    <3> QED
      BY <2>12, <3>1, <3>2, <3>3 DEF LexLess
  <2>13. CASE h = m
    <3>1. q = R[h] \/ LexLess(R[h], q)
      BY <1>6, <2>2, <2>3, <2>6, <2>7, <2>13
    <3>2. CASE q = R[h]
      <4>1. \A i \in 1..((k + 1) + 1) : p[i] = R[n][i]
        <5> SUFFICES ASSUME NEW i \in 1..((k + 1) + 1) PROVE p[i] = R[n][i]
          OBVIOUS
        <5>1. CASE i = 1
          BY <2>1, <2>11, <5>1
        <5>2. CASE i # 1
          <6>1. i - 1 \in 1..(k + 1) /\ (i - 1) + 1 = i
            BY <5>2
          <6> QED
            BY <2>2, <2>11, <3>2, <6>1
        <5> QED
          BY <5>1, <5>2
      <4>2. p = R[n]
        BY <2>1, <2>11, <4>1
      <4> QED
        BY <4>2
    <3>3. CASE LexLess(R[h], q)
      <4>1. Len(p) = Len(R[h]) + 1
        BY <2>10
      <4>2. LexLess(<<n>> \o R[h], p)
        BY <2>1, <2>8, <3>3, <4>1, LexLessPrepended DEF q
      <4> QED
        BY <2>8, <4>2
    <3> QED
      BY <3>1, <3>2, <3>3
  <2> QED
    BY <2>9, <2>12, <2>13
<1>7. Nat \subseteq T
  <2> HIDE DEF T
  <2> QED
    BY <1>5, <1>6, NaturalsBySteps
<1> QED
  BY <1>7 DEF R

LEMMA SimplePathIsPath ==
  ASSUME NEW u \in UAVs, NEW path \in SimplePaths(u)
  PROVE  PathFrom(u, path, Links)
<1> DEFINE others == UAVs \ {u}
<1>1. Cardinality(others) \in Nat
  BY NetworkAssumption, FS_Subset, FS_CardinalityType
<1>2. PICK s \in Seq(others) : path = <<u>> \o s \o <<GCS>> /\ Hops(path) \subseteq Links
  <2> DEFINE middles == UNION {{m \in [1..j -> others] : IsInjective(m)} :
                                 j \in 0..Cardinality(others)}
  <2>1. SimplePaths(u) = {p \in {<<u>> \o m \o <<GCS>> : m \in middles} :
                            Hops(p) \subseteq Links}
    BY DEF SimplePaths
  <2> HIDE DEF middles
  <2>2. PICK s \in middles : path = <<u>> \o s \o <<GCS>>
    BY <2>1
  <2>3. Hops(path) \subseteq Links
    BY <2>1
  <2>4. PICK k \in 0..Cardinality(others) : s \in [1..k -> others]
    BY DEF middles
  <2>5. s \in Seq(others)
    BY <1>1, <2>4
  <2> QED
    BY <2>2, <2>3, <2>5
<1>3. u \in Nodes /\ GCS \in Nodes /\ s \in Seq(Nodes)
  BY <1>1 DEF Nodes
<1>4. /\ path \in Seq(Nodes) /\ Len(path) = Len(s) + 2 /\ Len(s) \in Nat
      /\ path[1] = u /\ path[Len(path)] = GCS
  BY <1>2, <1>3
<1>5. \A i \in 1..(Len(path) - 1) : {path[i], path[i+1]} \in Links
  BY <1>2 DEF Hops
<1>6. Len(path) >= 1
  BY <1>4
<1> QED
  BY <1>4, <1>5, <1>6 DEF PathFrom

LEMMA LeastHolds ==
  ASSUME up \subseteq UAVs
  PROVE  ShortestAreLeast
<1> SUFFICES ASSUME NEW u \in Connected, NEW path \in SimplePaths(u)
             PROVE  LET r == ShortestRoute(u, Links)
                    IN  \/ Len(r) < Len(path)
                        \/ Len(r) = Len(path) /\ (path = r \/ LexLess(r, path))
  BY DEF ShortestAreLeast
<1> DEFINE r == ShortestRoute(u, Links)
           N == Cardinality(UAVs)
<1>1. u \in UAVs /\ u \in Nodes /\ u \in Reachable(Links)
  <2>1. AnalysisContract
    BY ContractHolds
  <2> QED
    BY <2>1 DEF AnalysisContract, Connected, Nodes
<1>2. PathFrom(u, path, Links)
  BY <1>1, SimplePathIsPath
<1>3. Len(path) \in Nat /\ Len(path) >= 1 /\ N \in Nat
  BY <1>2, NodesFinite DEF PathFrom
<1>4. /\ r # None /\ Len(r) \in Nat /\ Len(r) <= N + 1
      /\ \A j \in 0..N : Len(r) <= j + 1 <=> u \in Ball(GCS, Links)[j]
  BY <1>1, LinksOfAvailable, ShortestRouteFound DEF RouteFrom
<1> HIDE DEF r, N
<1>5. Len(path) - 1 \in Nat /\ (Len(path) - 1) + 1 = Len(path)
  BY <1>3
<1>6. u \in Ball(GCS, Links)[Len(path) - 1]
  BY <1>1, <1>2, <1>5, LinksOfAvailable, PathInBall
<1>7. Len(r) <= Len(path)
  <2>1. CASE Len(path) - 1 \in 0..N
    BY <1>4, <1>5, <1>6, <2>1
  <2>2. CASE Len(path) - 1 \notin 0..N
    BY <1>3, <1>4, <1>5, <2>2
  <2> QED
    BY <2>1, <2>2
<1>8. CASE Len(r) < Len(path)
  BY <1>8 DEF r
<1>9. CASE Len(r) = Len(path)
  BY <1>1, <1>2, <1>4, <1>5, <1>9, LinksOfAvailable, RouteIsLeast DEF r
<1> QED
  BY <1>3, <1>4, <1>7, <1>8, <1>9

(***************************************************************************)
(* The reliability-aware routes: least costs.                              *)
(***************************************************************************)

LEMMA CostNatural ==
  ASSUME at \in [UAVs -> 0..FarEnd], NEW n \in Nodes, NEW m \in Nodes, n # m
  PROVE  Cost({n, m}) \in Nat /\ Cost({n, m}) <= FarEnd + 1
<1>1. \A x \in Nodes : Place(x, at) \in 0..FarEnd
  BY NetworkAssumption DEF Place, Nodes
<1> DEFINE end == CHOOSE x \in {n, m} : TRUE
           other == CHOOSE x \in {n, m} : x # end
<1>2. end \in {n, m}
  OBVIOUS
<1>3. Slow({n, m}) \in 0..1
  BY DEF Slow
<1>4. other \in {n, m}
  <2> HIDE DEF end
  <2>1. \E x \in {n, m} : x # end
    BY <1>2
  <2> QED
    BY <2>1
<1>5. Place(end, at) \in 0..FarEnd /\ Place(other, at) \in 0..FarEnd
  BY <1>1, <1>2, <1>4
<1>6. Distance({n, m}, at) \in 0..FarEnd
  <2>1. Distance({n, m}, at) = IF Place(end, at) > Place(other, at)
                               THEN Place(end, at) - Place(other, at)
                               ELSE Place(other, at) - Place(end, at)
    BY DEF Distance
  <2> HIDE DEF end, other
  <2> QED
    BY <1>5, <2>1, NetworkAssumption
<1> QED
  BY <1>3, <1>6, NetworkAssumption DEF Cost

Amounts == [Nodes -> Nat]

\* What a round of the search for least costs does.
LEMMA RelaxedCosts ==
  ASSUME at \in [UAVs -> 0..FarEnd], NEW links, NEW cost \in Amounts
  PROVE  /\ Relaxed(cost, links) \in Amounts
         /\ \A n \in Nodes :
              /\ Relaxed(cost, links)[n] <= cost[n]
              /\ \A m \in Neighbours(n, links) :
                   Relaxed(cost, links)[n] <= Cost({n, m}) + cost[m]
              /\ \/ Relaxed(cost, links)[n] = cost[n]
                 \/ \E m \in Neighbours(n, links) :
                      Relaxed(cost, links)[n] = Cost({n, m}) + cost[m]
<1> SUFFICES ASSUME NEW n \in Nodes
             PROVE  /\ Relaxed(cost, links)[n] \in Nat
                    /\ Relaxed(cost, links)[n] <= cost[n]
                    /\ \A m \in Neighbours(n, links) :
                         Relaxed(cost, links)[n] <= Cost({n, m}) + cost[m]
                    /\ \/ Relaxed(cost, links)[n] = cost[n]
                       \/ \E m \in Neighbours(n, links) :
                            Relaxed(cost, links)[n] = Cost({n, m}) + cost[m]
  BY DEF Relaxed, Amounts
<1> DEFINE through == {Cost({n, m}) + cost[m] : m \in Neighbours(n, links)}
           S == {cost[n]} \cup through
<1>1. \A m \in Neighbours(n, links) : Cost({n, m}) + cost[m] \in Nat
  <2> SUFFICES ASSUME NEW m \in Neighbours(n, links)
               PROVE  Cost({n, m}) + cost[m] \in Nat
    OBVIOUS
  <2>1. m \in Nodes /\ n # m
    BY DEF Neighbours
  <2>2. Cost({n, m}) \in Nat
    BY <2>1, CostNatural
  <2> QED
    BY <2>1, <2>2 DEF Amounts
<1>2. S \subseteq Nat /\ S # {}
  BY <1>1 DEF Amounts
<1>3. Relaxed(cost, links)[n] = Min(S)
  BY DEF Relaxed
<1>4. Min(S) \in S /\ \A x \in S : Min(S) <= x
  <2> HIDE DEF S
  <2> QED
    BY <1>2, MinLeast
<1> QED
  BY <1>2, <1>3, <1>4

Unpriced == [n \in Nodes |-> IF n = GCS THEN 0 ELSE TooMuch]

LEMMA CostsSteps ==
  ASSUME at \in [UAVs -> 0..FarEnd], NEW links
  PROVE  /\ Costs(links) \in [Nat -> Amounts]
         /\ Costs(links)[0] = Unpriced
         /\ \A k \in Nat : Costs(links)[k+1] = Relaxed(Costs(links)[k], links)
<1> DEFINE S == Amounts
           Steps(f) == f = [k \in Nat |-> IF k = 0 THEN Unpriced
                                          ELSE Relaxed(f[k-1], links)]
           g == [cost \in S |-> Relaxed(cost, links)]
<1>1. g \in [S -> S] /\ \A cost \in S : g[cost] = Relaxed(cost, links)
  BY RelaxedCosts
<1>2. Unpriced \in S
  <2>1. TooMuch \in Nat
    <3>1. Cardinality(Nodes) \in Nat /\ FarEnd + 1 \in Nat
      BY NodesFinite, NetworkAssumption
    <3> QED
      BY <3>1 DEF TooMuch
  <2> QED
    BY <2>1 DEF Unpriced, Amounts
<1> HIDE DEF S, g
<1> DEFINE f == Iterates(S, Unpriced, g)
<1>3. f \in [Nat -> S] /\ f[0] = Unpriced /\ \A k \in Nat : f[k+1] = g[f[k]]
  BY <1>1, <1>2, IteratesSteps
<1> HIDE DEF f
<1>4. Steps(f)
  <2>1. ASSUME NEW k \in Nat
        PROVE  f[k] = IF k = 0 THEN Unpriced ELSE Relaxed(f[k-1], links)
    <3>1. CASE k = 0
      BY <1>3, <3>1
    <3>2. CASE k # 0
      <4>1. k - 1 \in Nat /\ (k - 1) + 1 = k
        BY <3>2
      <4>2. f[k] = g[f[k-1]] /\ f[k-1] \in S
        BY <1>3, <4>1
      <4> QED
        BY <1>1, <3>2, <4>2
    <3> QED
      BY <3>1, <3>2
  <2> QED
    BY <1>3, <2>1
<1>5. Costs(links) = CHOOSE c : Steps(c)
  BY DEF Costs, Unpriced
<1> DEFINE c == Costs(links)
<1>6. Steps(c)
  <2> HIDE DEF Steps
  <2> QED
    BY <1>4, <1>5
<1> HIDE DEF c
<1>7. c[0] = Unpriced /\ \A k \in Nat : c[k+1] = Relaxed(c[k], links)
  <2>1. ASSUME NEW k \in Nat PROVE c[k+1] = Relaxed(c[k], links)
    <3>1. k + 1 \in Nat /\ k + 1 # 0 /\ (k + 1) - 1 = k
      OBVIOUS
    <3> QED
      BY <1>6, <3>1
  <2> QED
    BY <1>6, <2>1
<1>8. Nat \subseteq {k \in Nat : c[k] \in S}
  <2> DEFINE T == {k \in Nat : c[k] \in S}
  <2>1. 0 \in T
    BY <1>2, <1>7
  <2>2. \A k \in Nat : k \in T => k + 1 \in T
    BY <1>7, RelaxedCosts DEF S
  <2> HIDE DEF T
  <2>3. Nat \subseteq T
    BY <2>1, <2>2, NaturalsBySteps
  <2> QED
    BY <2>3 DEF T
<1>9. c = [k \in Nat |-> c[k]]
  BY <1>6
<1> QED
  BY <1>7, <1>8, <1>9 DEF c, S

LEMMA CostsFall ==
  ASSUME at \in [UAVs -> 0..FarEnd], NEW links, NEW n \in Nodes
  PROVE  \A j, k \in Nat : j <= k => Costs(links)[k][n] <= Costs(links)[j][n]
<1> DEFINE c == Costs(links)
           T == {k \in Nat : \A j \in Nat : j <= k => c[k][n] <= c[j][n]}
<1>1. /\ \A k \in Nat : c[k][n] \in Nat
      /\ \A k \in Nat : c[k+1][n] <= c[k][n]
  <2>1. /\ \A k \in Nat : c[k] \in Amounts
        /\ \A k \in Nat : c[k+1] = Relaxed(c[k], links)
    BY CostsSteps
  <2> HIDE DEF c
  <2> QED
    BY <2>1, RelaxedCosts DEF Amounts
<1> HIDE DEF c
<1>2. 0 \in T
  <2>1. \A j \in Nat : j <= 0 => j = 0
    OBVIOUS
  <2> QED
    BY <1>1, <2>1
<1>3. ASSUME NEW k \in Nat, k \in T PROVE k + 1 \in T
  <2> SUFFICES ASSUME NEW j \in Nat, j <= k + 1 PROVE c[k+1][n] <= c[j][n]
    OBVIOUS
  <2>1. CASE j = k + 1
    BY <1>1, <2>1
  <2>2. CASE j <= k
    <3>1. c[k][n] <= c[j][n] /\ c[k+1][n] <= c[k][n]
      BY <1>1, <1>3, <2>2
    <3>2. c[k][n] \in Nat /\ c[j][n] \in Nat /\ c[k+1][n] \in Nat
      BY <1>1
    <3> QED
      BY <3>1, <3>2
  <2> QED
    BY <2>1, <2>2
<1>4. Nat \subseteq T
  <2> HIDE DEF T
  <2> QED
    BY <1>2, <1>3, NaturalsBySteps
<1> QED
  BY <1>4 DEF c

\* The number of rounds is enough: a further round, or a link, saves nothing.
\* The nodes whose cost is final are a chain of sets that gains none only once
\* there is none left to gain.
LEMMA LeastCostFinal ==
  ASSUME at \in [UAVs -> 0..FarEnd], NEW links
  PROVE  /\ LeastCost(links) \in Amounts
         /\ LeastCost(links)[GCS] = 0
         /\ \A k \in Nat : \A n \in Nodes :
              LeastCost(links)[n] <= Costs(links)[k][n]
         /\ \A n \in Nodes : \A m \in Neighbours(n, links) :
              LeastCost(links)[n] <= Cost({n, m}) + LeastCost(links)[m]
<1> DEFINE c == Costs(links)
           N == Cardinality(UAVs)
           Seen(n) == {c[k][n] : k \in Nat}
           L == [n \in Nodes |-> Min(Seen(n))]
           b == [k \in Nat |-> {n \in Nodes : c[k][n] = L[n]}]
<1>1. /\ \A k \in Nat : c[k] \in Amounts
      /\ c[0] = Unpriced
      /\ \A k \in Nat : c[k+1] = Relaxed(c[k], links)
  BY CostsSteps
<1>2. N \in Nat /\ GCS \in Nodes
  BY NodesFinite DEF Nodes
<1>3. \A n \in Nodes : \A j, k \in Nat : j <= k => c[k][n] <= c[j][n]
  BY CostsFall
<1>4. LeastCost(links) = c[N]
  BY DEF LeastCost
<1> HIDE DEF c, N
<1>5. \A k \in Nat : \A n \in Nodes :
        /\ c[k][n] \in Nat
        /\ \A m \in Neighbours(n, links) : c[k+1][n] <= Cost({n, m}) + c[k][m]
        /\ \/ c[k+1][n] = c[k][n]
           \/ \E m \in Neighbours(n, links) : c[k+1][n] = Cost({n, m}) + c[k][m]
  <2> SUFFICES ASSUME NEW k \in Nat, NEW n \in Nodes
               PROVE  /\ c[k][n] \in Nat
                      /\ \A m \in Neighbours(n, links) : c[k+1][n] <= Cost({n, m}) + c[k][m]
                      /\ \/ c[k+1][n] = c[k][n]
                         \/ \E m \in Neighbours(n, links) :
                              c[k+1][n] = Cost({n, m}) + c[k][m]
    OBVIOUS
  <2>1. c[k] \in Amounts /\ c[k+1] = Relaxed(c[k], links)
    BY <1>1
  <2>2. c[k][n] \in Nat
    BY <2>1 DEF Amounts
  <2> DEFINE e == c[k]
  <2>3. /\ \A m \in Neighbours(n, links) :
             Relaxed(e, links)[n] <= Cost({n, m}) + e[m]
        /\ \/ Relaxed(e, links)[n] = e[n]
           \/ \E m \in Neighbours(n, links) :
                Relaxed(e, links)[n] = Cost({n, m}) + e[m]
    <3>1. e \in Amounts
      BY <2>1
    <3> HIDE DEF e
    <3> QED
      BY <3>1, RelaxedCosts, ZenonT(30)
  <2> QED
    BY <2>1, <2>2, <2>3
<1>6. \A n \in Nodes : /\ L[n] \in Nat
                       /\ \A k \in Nat : L[n] <= c[k][n]
                       /\ \E k \in Nat : L[n] = c[k][n]
  <2> SUFFICES ASSUME NEW n \in Nodes
               PROVE  /\ L[n] \in Nat
                      /\ \A k \in Nat : L[n] <= c[k][n]
                      /\ \E k \in Nat : L[n] = c[k][n]
    OBVIOUS
  <2>1. Seen(n) \subseteq Nat /\ Seen(n) # {}
    <3>1. c[0][n] \in Seen(n)
      OBVIOUS
    <3> QED
      BY <1>5, <3>1
  <2>2. Min(Seen(n)) \in Seen(n) /\ \A x \in Seen(n) : Min(Seen(n)) <= x
    <3> HIDE DEF Seen
    <3> QED
      BY <2>1, MinLeast
  <2> QED
    BY <2>1, <2>2
<1> HIDE DEF L, Seen
<1>7. ASSUME NEW n \in Nodes, NEW m \in Neighbours(n, links)
      PROVE  /\ m \in Nodes /\ Cost({n, m}) \in Nat
             /\ L[n] <= Cost({n, m}) + L[m]
  <2>1. m \in Nodes /\ n # m
    BY DEF Neighbours
  <2>2. Cost({n, m}) \in Nat
    BY <2>1, CostNatural
  <2>3. PICK k \in Nat : L[m] = c[k][m]
    BY <1>6, <2>1
  <2>4. c[k+1][n] <= Cost({n, m}) + c[k][m] /\ L[n] <= c[k+1][n]
    BY <1>5, <1>6
  <2>5. c[k+1][n] \in Nat
    <3>1. k + 1 \in Nat
      OBVIOUS
    <3> QED
      BY <1>5, <3>1
  <2> QED
    BY <1>6, <2>1, <2>2, <2>3, <2>4, <2>5
<1>8. ASSUME NEW n \in Nodes, NEW j \in Nat, NEW k \in Nat, j <= k, c[j][n] = L[n]
      PROVE  c[k][n] = L[n]
  <2>1. c[k][n] <= c[j][n] /\ L[n] <= c[k][n] /\ c[k][n] \in Nat /\ L[n] \in Nat
    BY <1>3, <1>5, <1>6, <1>8
  <2> QED
    BY <1>8, <2>1
<1>9. ASSUME NEW k \in Nat, NEW n \in Nodes, c[k+1][n] = L[n]
      PROVE  \/ c[k][n] = L[n]
             \/ \E m \in Neighbours(n, links) :
                  c[k][m] = L[m] /\ L[n] = Cost({n, m}) + L[m]
  <2>1. CASE c[k+1][n] = c[k][n]
    BY <1>9, <2>1
  <2>2. CASE \E m \in Neighbours(n, links) : c[k+1][n] = Cost({n, m}) + c[k][m]
    <3>1. PICK m \in Neighbours(n, links) : L[n] = Cost({n, m}) + c[k][m]
      BY <1>9, <2>2
    <3>2. m \in Nodes /\ Cost({n, m}) \in Nat /\ L[n] <= Cost({n, m}) + L[m]
      BY <1>7
    <3>3. L[m] <= c[k][m] /\ L[m] \in Nat /\ c[k][m] \in Nat
      BY <1>5, <1>6, <3>2
    <3>4. c[k][m] = L[m]
      BY <3>1, <3>2, <3>3
    <3> QED
      BY <3>1, <3>4
  <2> QED
    BY <1>5, <2>1, <2>2
<1>10. b \in [Nat -> SUBSET Nodes]
  OBVIOUS
<1>11. b[0] # {}
  <2>1. c[0][GCS] = 0
    BY <1>1, <1>2 DEF Unpriced
  <2>2. L[GCS] <= 0 /\ L[GCS] \in Nat
    BY <1>2, <1>6, <2>1
  <2>3. GCS \in b[0]
    BY <1>2, <2>1, <2>2
  <2> QED
    BY <2>3
<1>12. ASSUME NEW j \in Nat, NEW k \in Nat, j <= k PROVE b[j] \subseteq b[k]
  BY <1>8, <1>12
<1>13. ASSUME NEW k \in Nat, b[k+1] = b[k] PROVE b[(k+1)+1] = b[k+1]
  <2>1. k + 1 \in Nat /\ (k + 1) + 1 \in Nat
    OBVIOUS
  <2>2. b[k+1] \subseteq b[(k+1)+1]
    BY <1>12, <2>1
  <2>3. ASSUME NEW n \in b[(k+1)+1] PROVE n \in b[k+1]
    <3>1. n \in Nodes /\ c[(k+1)+1][n] = L[n]
      BY <2>1
    <3>2. CASE c[k+1][n] = L[n]
      BY <2>1, <3>1, <3>2
    <3>3. CASE \E m \in Neighbours(n, links) :
                 c[k+1][m] = L[m] /\ L[n] = Cost({n, m}) + L[m]
      <4>1. PICK m \in Neighbours(n, links) :
              c[k+1][m] = L[m] /\ L[n] = Cost({n, m}) + L[m]
        BY <3>3
      <4>2. m \in Nodes
        BY DEF Neighbours
      <4>3. m \in b[k]
        BY <1>13, <2>1, <4>1, <4>2
      <4>4. c[k][m] = L[m]
        BY <4>3
      <4>5. c[k+1][n] <= L[n]
        BY <1>5, <3>1, <4>1, <4>4
      <4>6. L[n] <= c[k+1][n] /\ c[k+1][n] \in Nat /\ L[n] \in Nat
        BY <1>5, <1>6, <2>1, <3>1
      <4>7. c[k+1][n] = L[n]
        BY <4>5, <4>6
      <4> QED
        BY <2>1, <3>1, <4>7
    <3> QED
      BY <1>9, <2>1, <3>1, <3>2, <3>3
  <2> QED
    BY <2>2, <2>3
<1>14. b[N+1] = b[N]
  <2>1. \A k \in Nat : b[k] \subseteq b[k+1]
    BY <1>12
  <2> HIDE DEF b
  <2> QED
    BY <1>10, <1>11, <1>13, <2>1, ChainStops DEF N
<1>15. ASSUME NEW k \in Nat PROVE b[k] \subseteq b[N]
  <2> DEFINE T == {j \in Nat : b[N+j] = b[N] /\ b[(N+j)+1] = b[N+j]}
  <2>1. 0 \in T
    <3>1. N + 0 = N
      BY <1>2
    <3> HIDE DEF b
    <3> QED
      BY <1>14, <3>1
  <2>2. ASSUME NEW j \in Nat, j \in T PROVE j + 1 \in T
    <3>1. N + (j + 1) = (N + j) + 1 /\ N + j \in Nat
      BY <1>2
    <3> HIDE DEF b
    <3>2. b[((N+j)+1)+1] = b[(N+j)+1]
      BY <1>13, <2>2, <3>1
    <3> QED
      BY <2>2, <3>1, <3>2
  <2>3. k \in T
    <3> HIDE DEF T
    <3> QED
      BY <2>1, <2>2, NaturalsBySteps
  <2>4. N + k \in Nat /\ k <= N + k
    BY <1>2
  <2> HIDE DEF b
  <2> QED
    BY <1>12, <2>3, <2>4
<1>16. \A n \in Nodes : c[N][n] = L[n]
  <2> SUFFICES ASSUME NEW n \in Nodes PROVE c[N][n] = L[n]
    OBVIOUS
  <2>1. PICK k \in Nat : L[n] = c[k][n]
    BY <1>6
  <2>2. n \in b[k]
    BY <2>1
  <2>3. n \in b[N]
    BY <1>15, <2>2
  <2> QED
    BY <1>2, <2>3
<1>17. c[N][GCS] = 0
  <2>1. c[0][GCS] = 0 /\ c[N][GCS] <= c[0][GCS] /\ c[N][GCS] \in Nat
    BY <1>1, <1>2, <1>3, <1>5 DEF Unpriced
  <2> QED
    BY <2>1
<1>18. c[N] \in Amounts
  BY <1>1, <1>2
<1>19. \A n \in Nodes : \A m \in Neighbours(n, links) : c[N][n] <= Cost({n, m}) + c[N][m]
  BY <1>7, <1>16
<1>20. \A k \in Nat : \A n \in Nodes : c[N][n] <= c[k][n]
  BY <1>6, <1>16
<1> QED
  BY <1>4, <1>17, <1>18, <1>19, <1>20 DEF c

\* Who is in the component of the ground station can be reached at a cost.
LEMMA ReachablePriced ==
  ASSUME at \in [UAVs -> 0..FarEnd], NEW links, NEW n \in Reachable(links)
  PROVE  n \in Nodes /\ LeastCost(links)[n] < TooMuch
<1> DEFINE near == Ball(GCS, links)
           c == Costs(links)
           N == Cardinality(UAVs)
           A == FarEnd + 1
           T == {k \in Nat : \A m \in near[k] : c[k][m] <= k * A}
<1>1. /\ \A k \in Nat : near[k] \in SUBSET Nodes
      /\ near[0] = {GCS}
      /\ \A k \in Nat : near[k+1] = Spread(near[k], links)
  BY BallSteps DEF Nodes
<1>2. /\ \A k \in Nat : c[k] \in Amounts
      /\ c[0] = Unpriced
      /\ \A k \in Nat : c[k+1] = Relaxed(c[k], links)
  BY CostsSteps
<1>3. N \in Nat /\ Cardinality(Nodes) = N + 1 /\ A \in Nat \ {0}
  BY NodesFinite, NetworkAssumption
<1>4. n \in near[N]
  BY DEF Reachable, ComponentOf
<1>5. LeastCost(links)[n] = c[N][n]
  BY DEF LeastCost
<1>6. TooMuch = (N + 1) * A
  BY <1>3 DEF TooMuch
<1> HIDE DEF near, c, N
<1>7. 0 \in T
  <2>1. c[0][GCS] = 0
    BY <1>2 DEF Unpriced, Nodes
  <2>2. 0 * A = 0
    BY <1>3
  <2> HIDE DEF A
  <2> QED
    BY <1>1, <2>1, <2>2
<1>8. ASSUME NEW k \in Nat, k \in T PROVE k + 1 \in T
  <2> SUFFICES ASSUME NEW m \in near[k+1] PROVE c[k+1][m] <= (k + 1) * A
    OBVIOUS
  <2> DEFINE e == c[k]
  <2>1. /\ e \in Amounts /\ c[k+1] = Relaxed(e, links)
        /\ near[k] \in SUBSET Nodes /\ near[k+1] = Spread(near[k], links)
    BY <1>1, <1>2
  <2>2. \A x \in near[k] : e[x] <= k * A
    BY <1>8
  <2> HIDE DEF e
  <2>3. \A x \in Nodes : /\ Relaxed(e, links) \in Amounts
                         /\ Relaxed(e, links)[x] <= e[x]
                         /\ \A y \in Neighbours(x, links) :
                              Relaxed(e, links)[x] <= Cost({x, y}) + e[y]
    BY <2>1, RelaxedCosts, ZenonT(30)
  <2>4. m \in Nodes /\ (m \in near[k] \/ \E y \in near[k] : m \in Neighbours(y, links))
    BY <2>1, SpreadNodes
  <2>5. (k + 1) * A = k * A + A /\ k * A \in Nat
    BY <1>3
  <2>6. c[k+1][m] \in Nat /\ e[m] \in Nat
    BY <2>1, <2>3, <2>4 DEF Amounts
  <2>7. CASE m \in near[k]
    <3>1. c[k+1][m] <= e[m] /\ e[m] <= k * A
      BY <2>1, <2>2, <2>3, <2>4, <2>7
    <3> QED
      BY <1>3, <2>5, <2>6, <3>1
  <2>8. CASE \E y \in near[k] : m \in Neighbours(y, links)
    <3>1. PICK y \in near[k] : m \in Neighbours(y, links)
      BY <2>8
    <3>2. y \in Nodes /\ y \in Neighbours(m, links) /\ m # y
      BY <2>1, <2>4, <3>1, NeighboursOf DEF Neighbours
    <3>3. c[k+1][m] <= Cost({m, y}) + e[y] /\ e[y] <= k * A
      BY <2>1, <2>2, <2>3, <2>4, <3>1, <3>2
    <3>4. Cost({m, y}) \in Nat /\ Cost({m, y}) <= A
      BY <2>4, <3>2, CostNatural
    <3>5. e[y] \in Nat
      BY <2>1, <3>2 DEF Amounts
    <3> HIDE DEF A
    <3> QED
      BY <1>3, <2>5, <2>6, <3>3, <3>4, <3>5
  <2> QED
    BY <2>4, <2>7, <2>8
<1>9. N \in T
  <2> HIDE DEF T
  <2> QED
    BY <1>3, <1>7, <1>8, NaturalsBySteps
<1>10. n \in Nodes
  BY <1>1, <1>3, <1>4
<1>11. c[N][n] <= N * A /\ c[N][n] \in Nat
  BY <1>2, <1>3, <1>4, <1>9, <1>10 DEF Amounts
<1>12. (N + 1) * A = N * A + A /\ N * A \in Nat
  BY <1>3
<1> HIDE DEF A
<1> QED
  BY <1>3, <1>5, <1>6, <1>10, <1>11, <1>12

(***************************************************************************)
(* Reaching the ground station over tight edges.                           *)
(***************************************************************************)

LEMMA OnwardNodes ==
  ASSUME NEW tight, NEW visited, NEW S \in SUBSET Nodes
  PROVE  /\ Onward(S, visited, tight) \in SUBSET Nodes
         /\ S \subseteq Onward(S, visited, tight)
         /\ \A x \in Nodes : x \in Onward(S, visited, tight) <=>
              x \in S \/ (x \notin visited /\ \E y \in S : <<y, x>> \in tight)
BY DEF Onward

LEMMA ReachedSteps ==
  ASSUME NEW tight, NEW visited, NEW n \in Nodes
  PROVE  /\ Reached(n, visited, tight) \in [Nat -> SUBSET Nodes]
         /\ Reached(n, visited, tight)[0] = {n}
         /\ \A k \in Nat : Reached(n, visited, tight)[k+1] =
                             Onward(Reached(n, visited, tight)[k], visited, tight)
<1> DEFINE S == SUBSET Nodes
           Steps(f) == f = [k \in Nat |-> IF k = 0 THEN {n}
                                          ELSE Onward(f[k-1], visited, tight)]
           a == {n}
           g == [X \in S |-> Onward(X, visited, tight)]
<1>1. a \in S /\ g \in [S -> S] /\ \A X \in S : g[X] = Onward(X, visited, tight)
  BY OnwardNodes
<1> HIDE DEF g, S, a
<1> DEFINE f == Iterates(S, a, g)
<1>2. f \in [Nat -> S] /\ f[0] = a /\ \A k \in Nat : f[k+1] = g[f[k]]
  BY <1>1, IteratesSteps
<1> HIDE DEF f
<1>3. Steps(f)
  <2>1. ASSUME NEW k \in Nat
        PROVE  f[k] = IF k = 0 THEN {n} ELSE Onward(f[k-1], visited, tight)
    <3>1. CASE k = 0
      BY <1>2, <3>1 DEF a
    <3>2. CASE k # 0
      <4>1. k - 1 \in Nat /\ (k - 1) + 1 = k
        BY <3>2
      <4>2. f[k] = g[f[k-1]] /\ f[k-1] \in S
        BY <1>2, <4>1
      <4> QED
        BY <1>1, <3>2, <4>2
    <3> QED
      BY <3>1, <3>2
  <2> QED
    BY <1>2, <2>1
<1> USE DEF S
<1>4. Reached(n, visited, tight) = CHOOSE b : Steps(b)
  BY DEF Reached
<1> DEFINE b == Reached(n, visited, tight)
<1>5. Steps(b)
  <2> HIDE DEF Steps
  <2> QED
    BY <1>3, <1>4
<1> HIDE DEF b
<1>6. b[0] = {n} /\ \A k \in Nat : b[k+1] = Onward(b[k], visited, tight)
  <2>1. ASSUME NEW k \in Nat PROVE b[k+1] = Onward(b[k], visited, tight)
    <3>1. k + 1 \in Nat /\ k + 1 # 0 /\ (k + 1) - 1 = k
      OBVIOUS
    <3> QED
      BY <1>5, <3>1
  <2> QED
    BY <1>5, <2>1
<1>7. Nat \subseteq {k \in Nat : b[k] \in SUBSET Nodes}
  <2> DEFINE T == {k \in Nat : b[k] \in SUBSET Nodes}
  <2>1. 0 \in T
    BY <1>6
  <2>2. \A k \in Nat : k \in T => k + 1 \in T
    BY <1>6, OnwardNodes
  <2> HIDE DEF T
  <2>3. Nat \subseteq T
    BY <2>1, <2>2, NaturalsBySteps
  <2> QED
    BY <2>3 DEF T
<1>8. b = [k \in Nat |-> b[k]]
  BY <1>5
<1> QED
  BY <1>6, <1>7, <1>8 DEF b

\* The nodes there is a tight path to: the least set around the first one that
\* no tight edge leaves, but to a visited node.
Found(n, visited, tight) == Reached(n, visited, tight)[Cardinality(UAVs)]

LEMMA FoundClosed ==
  ASSUME NEW tight, NEW visited, NEW n \in Nodes
  PROVE  /\ Found(n, visited, tight) \in SUBSET Nodes
         /\ n \in Found(n, visited, tight)
         /\ \A x \in Found(n, visited, tight) : \A y \in Nodes \ visited :
              <<x, y>> \in tight => y \in Found(n, visited, tight)
<1> DEFINE b == Reached(n, visited, tight)
           N == Cardinality(UAVs)
<1>1. /\ b \in [Nat -> SUBSET Nodes] /\ b[0] = {n}
      /\ \A k \in Nat : b[k+1] = Onward(b[k], visited, tight)
  BY ReachedSteps
<1>2. N \in Nat
  BY NodesFinite
<1> HIDE DEF b
<1>3. \A k \in Nat : b[k] \subseteq b[k+1]
  BY <1>1, OnwardNodes
<1>4. \A k \in Nat : b[k+1] = b[k] => b[(k+1)+1] = b[k+1]
  BY <1>1
<1>5. b[N+1] = b[N]
  BY <1>1, <1>3, <1>4, ChainStops
<1> HIDE DEF N
<1>6. \A k \in Nat : n \in b[k]
  <2> DEFINE T == {k \in Nat : n \in b[k]}
  <2>1. 0 \in T
    BY <1>1
  <2>2. \A k \in Nat : k \in T => k + 1 \in T
    BY <1>3
  <2>3. Nat \subseteq T
    <3> HIDE DEF T
    <3> QED
      BY <2>1, <2>2, NaturalsBySteps
  <2> QED
    BY <2>3
<1>7. b[N] = Onward(b[N], visited, tight) /\ b[N] \in SUBSET Nodes
  BY <1>1, <1>2, <1>5
<1>8. \A x \in b[N] : \A y \in Nodes \ visited : <<x, y>> \in tight => y \in b[N]
  BY <1>7, OnwardNodes
<1> QED
  BY <1>2, <1>6, <1>7, <1>8 DEF Found, b, N

LEMMA FoundLeast ==
  ASSUME NEW tight, NEW visited, NEW n \in Nodes, NEW S, n \in S,
         \A x \in S \cap Nodes : \A y \in Nodes \ visited : <<x, y>> \in tight => y \in S
  PROVE  Found(n, visited, tight) \subseteq S
<1> DEFINE b == Reached(n, visited, tight)
           T == {k \in Nat : b[k] \subseteq S}
<1>1. /\ b \in [Nat -> SUBSET Nodes] /\ b[0] = {n}
      /\ \A k \in Nat : b[k+1] = Onward(b[k], visited, tight)
  BY ReachedSteps
<1> HIDE DEF b
<1>2. 0 \in T
  BY <1>1
<1>3. ASSUME NEW k \in Nat, k \in T PROVE k + 1 \in T
  <2>1. b[k] \in SUBSET Nodes /\ b[k] \subseteq S
    BY <1>1, <1>3
  <2>2. Onward(b[k], visited, tight) \subseteq S
    BY <2>1 DEF Onward
  <2> QED
    BY <1>1, <2>2
<1>4. Nat \subseteq T
  <2> HIDE DEF T
  <2> QED
    BY <1>2, <1>3, NaturalsBySteps
<1> QED
  BY <1>4, NodesFinite DEF b, Found

LEMMA FinishFound ==
  ASSUME NEW tight, NEW visited, NEW n
  PROVE  CanFinish(n, visited, tight) <=> GCS \in Found(n, visited, tight)
BY DEF CanFinish, Found

\* Before a node one can finish from, over a tight edge, one can finish too ...
LEMMA FinishBefore ==
  ASSUME NEW tight, NEW visited, NEW n \in Nodes, NEW m \in Nodes \ visited,
         <<n, m>> \in tight, CanFinish(m, visited, tight)
  PROVE  CanFinish(n, visited, tight)
<1> DEFINE F == Found(n, visited, tight)
<1>1. /\ m \in F
      /\ \A x \in F : \A y \in Nodes \ visited : <<x, y>> \in tight => y \in F
  BY FoundClosed
<1> HIDE DEF F
<1>2. Found(m, visited, tight) \subseteq F
  BY <1>1, FoundLeast
<1> QED
  BY <1>2, FinishFound DEF F

\* ... and after one, over some tight edge and without coming back to it.
LEMMA FinishAfter ==
  ASSUME NEW tight, NEW visited, NEW n \in Nodes \ visited, n # GCS,
         CanFinish(n, visited, tight)
  PROVE  \E m \in Nodes \ (visited \cup {n}) :
           <<n, m>> \in tight /\ CanFinish(m, visited \cup {n}, tight)
<1> DEFINE V == visited \cup {n}
           next == {m \in Nodes \ V : <<n, m>> \in tight}
           F(m) == Found(m, V, tight)
           X == {n} \cup UNION {F(m) : m \in next}
<1>1. \A m \in next : /\ m \in F(m)
                      /\ \A x \in F(m) : \A y \in Nodes \ V :
                           <<x, y>> \in tight => y \in F(m)
  <2> SUFFICES ASSUME NEW m \in next
               PROVE  /\ m \in F(m)
                      /\ \A x \in F(m) : \A y \in Nodes \ V :
                           <<x, y>> \in tight => y \in F(m)
    OBVIOUS
  <2> QED
    BY FoundClosed
<1> HIDE DEF F
<1>2. ASSUME NEW x \in X, NEW y \in Nodes \ visited, <<x, y>> \in tight
      PROVE  y \in X
  <2>1. CASE y = n
    BY <2>1
  <2>2. CASE y # n /\ x = n
    <3>1. y \in next
      BY <1>2, <2>2
    <3> QED
      BY <1>1, <3>1
  <2>3. CASE y # n /\ x # n
    <3>1. PICK m \in next : x \in F(m)
      BY <2>3
    <3>2. y \in F(m)
      BY <1>1, <1>2, <2>3, <3>1
    <3> QED
      BY <3>2
  <2> QED
    BY <2>1, <2>2, <2>3
<1>3. n \in X
  OBVIOUS
<1>4. Found(n, visited, tight) \subseteq X
  <2> HIDE DEF X
  <2> QED
    BY <1>2, <1>3, FoundLeast
<1>5. PICK m \in next : GCS \in F(m)
  BY <1>4, FinishFound
<1> QED
  BY <1>5, FinishFound DEF F

\* Along tight edges, everybody in the component of the ground station can get
\* there.  Zero costs make cycles of tight edges, so it is not the cost but
\* the round in which it was found that leads there.
LEMMA ReachableFinishes ==
  ASSUME at \in [UAVs -> 0..FarEnd], NEW links, NEW n \in Reachable(links)
  PROVE  CanFinish(n, {}, Tight(links))
<1> DEFINE c == Costs(links)
           L == LeastCost(links)
           tight == Tight(links)
           T == {k \in Nat : \A m \in Nodes :
                   c[k][m] = L[m] /\ L[m] < TooMuch => CanFinish(m, {}, tight)}
<1>1. /\ \A k \in Nat : c[k] \in Amounts
      /\ c[0] = Unpriced
      /\ \A k \in Nat : c[k+1] = Relaxed(c[k], links)
  BY CostsSteps
<1>2. /\ L \in Amounts
      /\ \A k \in Nat : \A m \in Nodes : L[m] <= c[k][m]
      /\ \A m \in Nodes : \A x \in Neighbours(m, links) : L[m] <= Cost({m, x}) + L[x]
  BY LeastCostFinal
<1>3. \A m \in Nodes \ {GCS} : \A x \in Neighbours(m, links) :
        L[m] = Cost({m, x}) + L[x] => <<m, x>> \in tight
  BY DEF Tight, Neighbours
<1>4. n \in Nodes /\ L[n] < TooMuch
  BY ReachablePriced
<1>5. Cardinality(UAVs) \in Nat /\ c[Cardinality(UAVs)] = L
  BY NodesFinite DEF LeastCost
<1>6. GCS \in Nodes /\ CanFinish(GCS, {}, tight)
  <2>1. GCS \in Nodes
    BY DEF Nodes
  <2> HIDE DEF tight
  <2> QED
    BY <2>1, FoundClosed, FinishFound
<1> HIDE DEF c, L, tight
<1>7. 0 \in T
  <2> SUFFICES ASSUME NEW m \in Nodes, c[0][m] < TooMuch PROVE m = GCS
    BY <1>6
  <2>1. TooMuch \in Nat
    <3>1. Cardinality(Nodes) \in Nat /\ FarEnd + 1 \in Nat
      BY NodesFinite, NetworkAssumption
    <3> QED
      BY <3>1 DEF TooMuch
  <2> QED
    BY <1>1, <2>1 DEF Unpriced
<1>8. ASSUME NEW k \in Nat, k \in T PROVE k + 1 \in T
  <2> SUFFICES ASSUME NEW m \in Nodes, c[k+1][m] = L[m], L[m] < TooMuch
               PROVE  CanFinish(m, {}, tight)
    OBVIOUS
  <2> DEFINE e == c[k]
  <2>1. /\ e \in Amounts /\ c[k+1] = Relaxed(e, links)
        /\ \A x \in Nodes : e[x] = L[x] /\ L[x] < TooMuch => CanFinish(x, {}, tight)
        /\ \A x \in Nodes : L[x] <= e[x]
    BY <1>1, <1>2, <1>8
  <2> HIDE DEF e
  <2>2. \/ Relaxed(e, links)[m] = e[m]
        \/ \E x \in Neighbours(m, links) : Relaxed(e, links)[m] = Cost({m, x}) + e[x]
    <3>1. e \in Amounts
      BY <2>1
    <3> QED
      BY <3>1, RelaxedCosts, ZenonT(30)
  <2>3. CASE c[k+1][m] = e[m]
    BY <2>1, <2>3
  <2>4. CASE m = GCS
    BY <1>6, <2>4
  <2>5. ASSUME m # GCS, NEW x \in Neighbours(m, links), c[k+1][m] = Cost({m, x}) + e[x]
        PROVE  CanFinish(m, {}, tight)
    <3>1. x \in Nodes /\ m # x
      BY DEF Neighbours
    <3>2. Cost({m, x}) \in Nat
      BY <3>1, CostNatural
    <3>3. L[m] \in Nat /\ L[x] \in Nat /\ e[x] \in Nat
      BY <1>2, <2>1, <3>1 DEF Amounts
    <3>4. L[x] <= e[x] /\ L[m] <= Cost({m, x}) + L[x]
      BY <1>2, <2>1, <3>1
    <3>5. TooMuch \in Nat
      <4>1. Cardinality(Nodes) \in Nat /\ FarEnd + 1 \in Nat
        BY NodesFinite, NetworkAssumption
      <4> QED
        BY <4>1 DEF TooMuch
    <3>6. e[x] = L[x] /\ L[x] < TooMuch /\ L[m] = Cost({m, x}) + L[x]
      BY <2>5, <3>2, <3>3, <3>4, <3>5
    <3>7. CanFinish(x, {}, tight) /\ <<m, x>> \in tight
      BY <1>3, <2>1, <2>5, <3>1, <3>6
    <3> QED
      BY <3>1, <3>7, FinishBefore
  <2> QED
    BY <2>1, <2>2, <2>3, <2>4, <2>5
<1>9. Cardinality(UAVs) \in T
  <2> HIDE DEF T
  <2> QED
    BY <1>5, <1>7, <1>8, NaturalsBySteps
<1> QED
  BY <1>4, <1>5, <1>9 DEF tight

(***************************************************************************)
(* The route rebuilt.                                                      *)
(***************************************************************************)

\* The first i nodes of a path, and the nodes it may go to from the last of them.
Trail(p, i) == {p[j] : j \in 1..i}

Ways(p, i, tight) == {m \in Nodes \ Trail(p, i) : /\ <<p[i], m>> \in tight
                                                  /\ CanFinish(m, Trail(p, i), tight)}

\* A path from u along tight edges, without a loop, each time to the least node
\* it may go to, that has not come to a dead end.
LeastPaths(u, tight) ==
  {p \in Seq(Nodes) :
     /\ Len(p) >= 1 /\ p[1] = u
     /\ \A i, j \in 1..Len(p) : p[i] = p[j] => i = j
     /\ \A i \in 1..(Len(p) - 1) :
          /\ <<p[i], p[i+1]>> \in tight
          /\ \A m \in Ways(p, i, tight) : p[i+1] <= m
     /\ p[Len(p)] = GCS \/ Ways(p, Len(p), tight) # {}}

LEMMA TrailIsRange ==
  ASSUME NEW p \in Seq(Nodes) PROVE Range(p) = Trail(p, Len(p))
BY DEF Range, Trail

LEMMA PathLengthened ==
  ASSUME NEW u \in Nodes, NEW tight, NEW p \in LeastPaths(u, tight)
  PROVE  /\ Lengthened(p, tight) \in LeastPaths(u, tight)
         /\ \/ p[Len(p)] = GCS /\ Lengthened(p, tight) = p
            \/ Len(Lengthened(p, tight)) = Len(p) + 1
<1> DEFINE n == Len(p)
           W == Ways(p, n, tight)
<1>1. /\ p \in Seq(Nodes) /\ n \in Nat /\ n >= 1 /\ p[1] = u
      /\ \A i, j \in 1..n : p[i] = p[j] => i = j
      /\ \A i \in 1..(n - 1) : /\ <<p[i], p[i+1]>> \in tight
                               /\ \A m \in Ways(p, i, tight) : p[i+1] <= m
      /\ p[n] = GCS \/ W # {}
  BY DEF LeastPaths
<1>2. Last(p) = p[n] /\ Range(p) = Trail(p, n)
  BY <1>1, TrailIsRange DEF Last
<1>3. CASE p[n] = GCS
  BY <1>2, <1>3 DEF Lengthened
<1>4. CASE p[n] # GCS
  <2> DEFINE h == Min(W)
             q == Append(p, h)
  <2>1. W \subseteq Nodes /\ W # {}
    BY <1>1, <1>4 DEF Ways
  <2>2. h \in W /\ \A m \in W : h <= m
    <3>1. W \subseteq Nat
      BY <2>1, NodesFinite
    <3> HIDE DEF W
    <3> QED
      BY <2>1, <3>1, MinLeast
  <2>3. Lengthened(p, tight) = q
    BY <1>2, <1>4 DEF Lengthened, NextTight, Ways
  <2>4. /\ h \in Nodes /\ h \notin Trail(p, n) /\ <<p[n], h>> \in tight
        /\ CanFinish(h, Trail(p, n), tight)
    BY <2>2 DEF Ways
  <2> HIDE DEF h
  <2>5. /\ q \in Seq(Nodes) /\ Len(q) = n + 1 /\ q[n+1] = h
        /\ \A i \in 1..n : q[i] = p[i]
    BY <1>1, <2>4
  <2> HIDE DEF q
  <2>6. \A i \in 0..n : Trail(q, i) = Trail(p, i)
    BY <1>1, <2>5 DEF Trail
  <2>7. \A i \in 1..n : Ways(q, i, tight) = Ways(p, i, tight)
    BY <1>1, <2>5, <2>6 DEF Ways
  <2>8. Len(q) >= 1 /\ q[1] = u
    BY <1>1, <2>5
  <2>9. \A i, j \in 1..(n+1) : q[i] = q[j] => i = j
    <3> SUFFICES ASSUME NEW i \in 1..(n+1), NEW j \in 1..(n+1), q[i] = q[j]
                 PROVE  i = j
      OBVIOUS
    <3>1. \A k \in 1..n : p[k] # h
      BY <2>4 DEF Trail
    <3>2. CASE i \in 1..n /\ j \in 1..n
      BY <1>1, <2>5, <3>2
    <3>3. CASE i = n + 1 /\ j \in 1..n
      BY <2>5, <3>1, <3>3
    <3>4. CASE j = n + 1 /\ i \in 1..n
      BY <2>5, <3>1, <3>4
    <3>5. CASE i = n + 1 /\ j = n + 1
      BY <3>5
    <3> QED
      BY <1>1, <3>2, <3>3, <3>4, <3>5
  <2>10. ASSUME NEW i \in 1..n
         PROVE  /\ <<q[i], q[i+1]>> \in tight
                /\ \A m \in Ways(q, i, tight) : q[i+1] <= m
    <3>1. CASE i = n
      BY <1>1, <2>2, <2>4, <2>5, <2>7, <3>1 DEF h
    <3>2. CASE i # n
      <4>1. i \in 1..(n - 1) /\ i + 1 \in 1..n
        BY <1>1, <3>2
      <4> QED
        BY <1>1, <2>5, <2>7, <4>1
    <3> QED
      BY <3>1, <3>2
  <2>11. q[n+1] = GCS \/ Ways(q, n + 1, tight) # {}
    <3> SUFFICES ASSUME h # GCS PROVE Ways(q, n + 1, tight) # {}
      BY <2>5
    <3>1. Trail(q, n + 1) = Trail(p, n) \cup {h}
      BY <1>1, <2>5, <2>6 DEF Trail
    <3>2. PICK m \in Nodes \ (Trail(p, n) \cup {h}) :
            <<h, m>> \in tight /\ CanFinish(m, Trail(p, n) \cup {h}, tight)
      BY <2>4, FinishAfter
    <3> QED
      BY <2>5, <3>1, <3>2 DEF Ways
  <2>12. q \in LeastPaths(u, tight)
    <3>1. Len(q) - 1 = n
      BY <1>1, <2>5
    <3> QED
      BY <2>5, <2>8, <2>9, <2>10, <2>11, <3>1 DEF LeastPaths
  <2> QED
    BY <2>3, <2>5, <2>12
<1> QED
  BY <1>3, <1>4

LEMMA PathBegun ==
  ASSUME NEW tight, NEW u \in Nodes \ {GCS}, CanFinish(u, {}, tight)
  PROVE  <<u>> \in LeastPaths(u, tight)
<1> DEFINE p == <<u>>
<1>1. p \in Seq(Nodes) /\ Len(p) = 1 /\ p[1] = u
  OBVIOUS
<1> HIDE DEF p
<1>2. PICK m \in Nodes \ ({} \cup {u}) : <<u, m>> \in tight /\ CanFinish(m, {} \cup {u}, tight)
  BY FinishAfter
<1>3. Trail(p, 1) = {u} /\ {} \cup {u} = {u}
  BY <1>1 DEF Trail
<1>4. m \in Ways(p, 1, tight)
  BY <1>1, <1>2, <1>3 DEF Ways
<1>5. \A i, j \in 1..1 : p[i] = p[j] => i = j
  OBVIOUS
<1>6. \A i \in 1..(Len(p) - 1) : FALSE
  BY <1>1
<1>7. Len(p) >= 1 /\ Ways(p, Len(p), tight) # {}
  BY <1>1, <1>4
<1>8. \A i, j \in 1..Len(p) : p[i] = p[j] => i = j
  BY <1>1, <1>5
<1>9. p \in LeastPaths(u, tight)
  BY <1>1, <1>6, <1>7, <1>8 DEF LeastPaths
<1> QED
  BY <1>9 DEF p

LEMMA RebuiltSteps ==
  ASSUME NEW tight, NEW u \in Nodes, <<u>> \in LeastPaths(u, tight)
  PROVE  /\ Rebuilt(u, tight) \in [Nat -> LeastPaths(u, tight)]
         /\ Rebuilt(u, tight)[0] = <<u>>
         /\ \A k \in Nat : Rebuilt(u, tight)[k+1] = Lengthened(Rebuilt(u, tight)[k], tight)
<1> DEFINE S == LeastPaths(u, tight)
           a == <<u>>
           Steps(f) == f = [k \in Nat |-> IF k = 0 THEN a
                                          ELSE Lengthened(f[k-1], tight)]
           g == [p \in S |-> Lengthened(p, tight)]
<1>1. a \in S /\ g \in [S -> S] /\ \A p \in S : g[p] = Lengthened(p, tight)
  BY PathLengthened
<1>2. Rebuilt(u, tight) = CHOOSE r : Steps(r)
  BY DEF Rebuilt
<1> HIDE DEF S, g, a
<1> DEFINE f == Iterates(S, a, g)
<1>3. f \in [Nat -> S] /\ f[0] = a /\ \A k \in Nat : f[k+1] = g[f[k]]
  BY <1>1, IteratesSteps
<1> HIDE DEF f
<1>4. Steps(f)
  <2>1. ASSUME NEW k \in Nat
        PROVE  f[k] = IF k = 0 THEN a ELSE Lengthened(f[k-1], tight)
    <3>1. CASE k = 0
      BY <1>3, <3>1
    <3>2. CASE k # 0
      <4>1. k - 1 \in Nat /\ (k - 1) + 1 = k
        BY <3>2
      <4>2. f[k] = g[f[k-1]] /\ f[k-1] \in S
        BY <1>3, <4>1
      <4> QED
        BY <1>1, <3>2, <4>2
    <3> QED
      BY <3>1, <3>2
  <2> QED
    BY <1>3, <2>1
<1> DEFINE r == Rebuilt(u, tight)
<1>5. Steps(r)
  <2> HIDE DEF Steps
  <2> QED
    BY <1>2, <1>4
<1> HIDE DEF r
<1>6. r[0] = a /\ \A k \in Nat : r[k+1] = Lengthened(r[k], tight)
  <2>1. ASSUME NEW k \in Nat PROVE r[k+1] = Lengthened(r[k], tight)
    <3>1. k + 1 \in Nat /\ k + 1 # 0 /\ (k + 1) - 1 = k
      OBVIOUS
    <3> QED
      BY <1>5, <3>1
  <2> QED
    BY <1>5, <2>1
<1>7. Nat \subseteq {k \in Nat : r[k] \in S}
  <2> DEFINE T == {k \in Nat : r[k] \in S}
  <2>1. 0 \in T
    BY <1>1, <1>6
  <2>2. ASSUME NEW k \in Nat, k \in T PROVE k + 1 \in T
    <3>1. r[k] \in S /\ r[k+1] = g[r[k]]
      BY <1>1, <1>6, <2>2
    <3> QED
      BY <1>1, <3>1
  <2> HIDE DEF T
  <2>3. Nat \subseteq T
    BY <2>1, <2>2, NaturalsBySteps
  <2> QED
    BY <2>3 DEF T
<1>8. r = [k \in Nat |-> r[k]]
  BY <1>5
<1> QED
  BY <1>6, <1>7, <1>8 DEF r, S, a

\* Without a loop, a path is at the ground station after as many steps as
\* there are vehicles.
LEMMA RebuiltEnds ==
  ASSUME NEW tight, NEW u \in Nodes, <<u>> \in LeastPaths(u, tight)
  PROVE  LET r == Rebuilt(u, tight)[Cardinality(UAVs)]
         IN  r \in LeastPaths(u, tight) /\ r[Len(r)] = GCS
<1> DEFINE r == Rebuilt(u, tight)
           N == Cardinality(UAVs)
           T == {k \in Nat : r[k][Len(r[k])] = GCS \/ Len(r[k]) = k + 1}
<1>1. /\ r \in [Nat -> LeastPaths(u, tight)] /\ r[0] = <<u>>
      /\ \A k \in Nat : r[k+1] = Lengthened(r[k], tight)
  BY RebuiltSteps
<1>2. N \in Nat /\ IsFiniteSet(Nodes) /\ Cardinality(Nodes) = N + 1
  BY NodesFinite
<1> HIDE DEF r, N
<1>3. 0 \in T
  BY <1>1
<1>4. ASSUME NEW k \in Nat, k \in T PROVE k + 1 \in T
  <2> DEFINE p == r[k]
             q == r[k+1]
  <2>1. /\ p \in LeastPaths(u, tight) /\ q = Lengthened(p, tight)
        /\ p[Len(p)] = GCS \/ Len(p) = k + 1
    BY <1>1, <1>4
  <2> HIDE DEF p, q
  <2>2. \/ p[Len(p)] = GCS /\ q = p
        \/ Len(q) = Len(p) + 1
    BY <2>1, PathLengthened
  <2>3. CASE p[Len(p)] = GCS
    <3>1. q = p
      BY <2>1, <2>3, TrailIsRange DEF Lengthened, Last, LeastPaths
    <3> QED
      BY <2>3, <3>1 DEF q
  <2>4. CASE p[Len(p)] # GCS
    <3>1. Len(q) = (k + 1) + 1
      BY <2>1, <2>2, <2>4
    <3> QED
      BY <3>1 DEF q
  <2> QED
    BY <2>3, <2>4
<1>5. N \in T
  <2> HIDE DEF T
  <2> QED
    BY <1>2, <1>3, <1>4, NaturalsBySteps
<1> DEFINE p == r[N]
<1>6. p \in LeastPaths(u, tight) /\ (p[Len(p)] = GCS \/ Len(p) = N + 1)
  BY <1>1, <1>2, <1>5
<1> HIDE DEF p
<1>7. CASE Len(p) = N + 1
  <2> SUFFICES ASSUME p[Len(p)] # GCS PROVE FALSE
    BY <1>6 DEF p, r, N
  <2>1. /\ p \in Seq(Nodes)
        /\ \A i, j \in 1..Len(p) : p[i] = p[j] => i = j
        /\ Ways(p, Len(p), tight) # {}
    BY <1>6 DEF LeastPaths
  <2>2. PICK m \in Nodes : m \notin Trail(p, Len(p))
    BY <2>1 DEF Ways
  <2> DEFINE I == 1..(N+1)
             R == Nodes \ {m}
             f == [i \in I |-> p[i]]
  <2>3. IsFiniteSet(I) /\ Cardinality(I) = N + 1
    <3>1. 1 \in Int /\ N + 1 \in Int
      BY <1>2
    <3>2. /\ IsFiniteSet(I)
          /\ Cardinality(I) = IF 1 > N + 1 THEN 0 ELSE (N + 1) - 1 + 1
      BY <3>1, FS_Interval
    <3> QED
      BY <1>2, <3>2
  <2>4. IsFiniteSet(R) /\ Cardinality(R) = N
    <3>1. IsFiniteSet(R) /\ Cardinality(R) = Cardinality(Nodes) - 1
      BY <1>2, FS_RemoveElement
    <3> QED
      BY <1>2, <3>1
  <2>5. f \in [I -> R]
    BY <1>7, <2>1, <2>2 DEF Trail
  <2>6. \E x, y \in I : x # y /\ f[x] = f[y]
    <3>1. Cardinality(I) > Cardinality(R)
      BY <1>2, <2>3, <2>4
    <3> HIDE DEF I, R, f
    <3> QED
      BY <2>3, <2>4, <2>5, <3>1, FS_PigeonHole
  <2> QED
    BY <1>7, <2>1, <2>6
<1>8. CASE p[Len(p)] = GCS
  BY <1>6, <1>8 DEF p, r, N
<1> QED
  BY <1>6, <1>7, <1>8

(***************************************************************************)
(* The cost of a path.                                                     *)
(***************************************************************************)

LEMMA PathCostSteps ==
  ASSUME at \in [UAVs -> 0..FarEnd], NEW p \in Seq(Nodes), Len(p) >= 1,
         \A i \in 1..(Len(p) - 1) : p[i] # p[i+1]
  PROVE  \E c \in [0..(Len(p) - 1) -> Nat] :
           /\ c[0] = 0 /\ c[Len(p) - 1] = PathCost(p)
           /\ \A i \in 1..(Len(p) - 1) : c[i] = c[i-1] + Cost({p[i], p[i+1]})
<1> DEFINE n == Len(p) - 1
           d == [i \in 1..n |-> Cost({p[i], p[i+1]})]
           g == [x \in (1..n) \X Nat |-> x[2] + d[x[1]]]
           Steps(f) == f = [i \in 0..n |-> IF i = 0 THEN 0
                                           ELSE f[i-1] + Cost({p[i], p[i+1]})]
<1>1. n \in Nat /\ \A i \in 1..n : i \in 1..Len(p) /\ i + 1 \in 1..Len(p)
  OBVIOUS
<1>2. \A i \in 1..n : d[i] = Cost({p[i], p[i+1]}) /\ d[i] \in Nat
  <2> SUFFICES ASSUME NEW i \in 1..n PROVE Cost({p[i], p[i+1]}) \in Nat
    BY DEF d
  <2>1. p[i] \in Nodes /\ p[i+1] \in Nodes /\ p[i] # p[i+1]
    BY <1>1
  <2> QED
    BY <2>1, CostNatural
<1>3. PathCost(p) = (CHOOSE f : Steps(f))[n]
  BY DEF PathCost
<1> HIDE DEF n, d
<1>4. StepsTo(g, n, Nat)
  <2> SUFFICES ASSUME NEW i \in 1..n, NEW x \in Nat PROVE g[<<i, x>>] \in Nat
    BY DEF StepsTo
  <2>1. g[<<i, x>>] = x + d[i] /\ d[i] \in Nat
    BY <1>2
  <2> QED
    BY <2>1
<1>5. PICK e \in [0..n -> Nat] : ClimbsTo(e, n, 0, g)
  <2> HIDE DEF g
  <2> QED
    BY <1>1, <1>4, LoopExists
<1>6. e[0] = 0 /\ \A i \in 1..n : e[i] = e[i-1] + Cost({p[i], p[i+1]})
  <2> SUFFICES ASSUME NEW i \in 1..n PROVE e[i] = e[i-1] + Cost({p[i], p[i+1]})
    BY <1>5 DEF ClimbsTo
  <2>1. e[i] = g[<<i, e[i-1]>>] /\ e[i-1] \in Nat
    <3>1. i - 1 \in 0..n
      BY <1>1
    <3> HIDE DEF g
    <3> QED
      BY <1>5, <3>1 DEF ClimbsTo
  <2> QED
    BY <1>2, <2>1
<1>7. Steps(e)
  <2>1. \A i \in 0..n : i # 0 => i \in 1..n
    BY <1>1
  <2>2. \A i \in 0..n : e[i] = IF i = 0 THEN 0 ELSE e[i-1] + Cost({p[i], p[i+1]})
    BY <1>6, <2>1
  <2> QED
    BY <1>5, <2>2
<1> DEFINE c == CHOOSE f : Steps(f)
<1>8. Steps(c)
  <2> HIDE DEF Steps
  <2> QED
    BY <1>7
<1> HIDE DEF c
<1>9. \A i \in 0..n : c[i] = IF i = 0 THEN 0 ELSE c[i-1] + Cost({p[i], p[i+1]})
  BY <1>8
<1>10. \A i \in 1..n : i \in 0..n /\ i # 0
  BY <1>1
<1>11. c[0] = 0 /\ \A i \in 1..n : c[i] = c[i-1] + Cost({p[i], p[i+1]})
  <2>1. 0 \in 0..n
    BY <1>1
  <2> QED
    BY <1>9, <1>10, <2>1
<1>12. \A i \in 0..n : c[i] \in Nat
  <2> SUFFICES ASSUME NEW k \in 0..n PROVE c[k] \in Nat
    OBVIOUS
  <2>1. ASSUME NEW i \in 1..k, c[i-1] \in Nat PROVE c[i] \in Nat
    <3>1. i \in 1..n
      BY <1>1
    <3>2. c[i] = c[i-1] + d[i] /\ d[i] \in Nat
      BY <1>2, <1>11, <3>1
    <3> QED
      BY <2>1, <3>2
  <2>2. k \in Nat /\ c[0] \in Nat
    BY <1>11
  <2> QED
    BY <2>1, <2>2, LoopEnds
<1>13. c = [i \in 0..n |-> c[i]]
  BY <1>8
<1>14. c \in [0..n -> Nat]
  BY <1>12, <1>13
<1> QED
  BY <1>3, <1>11, <1>14 DEF c, n

Attained(p, i, least) == least[p[i]] = Cost({p[i], p[i+1]}) + least[p[i+1]]

\* No path is cheaper than the least cost, and one that is as cheap attains it
\* with every step.
LEMMA PathCostLeast ==
  ASSUME at \in [UAVs -> 0..FarEnd], NEW links \in SUBSET Pairs,
         NEW u \in Nodes, NEW p, PathFrom(u, p, links)
  PROVE  /\ PathCost(p) \in Nat /\ LeastCost(links)[u] \in Nat
         /\ LeastCost(links)[u] <= PathCost(p)
         /\ PathCost(p) = LeastCost(links)[u] <=>
              \A i \in 1..(Len(p) - 1) : Attained(p, i, LeastCost(links))
<1> DEFINE L == LeastCost(links)
           n == Len(p) - 1
<1>1. /\ p \in Seq(Nodes) /\ Len(p) >= 1 /\ p[1] = u /\ p[Len(p)] = GCS
      /\ \A i \in 1..n : {p[i], p[i+1]} \in links
      /\ n \in Nat /\ n + 1 = Len(p)
  BY DEF PathFrom
<1>2. L \in Amounts /\ L[GCS] = 0
      /\ \A x \in Nodes : \A y \in Neighbours(x, links) : L[x] <= Cost({x, y}) + L[y]
  BY LeastCostFinal
<1>3. \A i \in 0..n : i + 1 \in 1..Len(p) /\ p[i+1] \in Nodes
  BY <1>1
<1>4. \A i \in 1..n : /\ p[i] \in Nodes /\ p[i+1] \in Nodes /\ p[i] # p[i+1]
                      /\ p[i+1] \in Neighbours(p[i], links)
  <2> SUFFICES ASSUME NEW i \in 1..n
               PROVE  /\ p[i] \in Nodes /\ p[i+1] \in Nodes /\ p[i] # p[i+1]
                      /\ p[i+1] \in Neighbours(p[i], links)
    OBVIOUS
  <2>1. i \in 1..Len(p) /\ i + 1 \in 1..Len(p)
    BY <1>1
  <2>2. p[i] \in Nodes /\ p[i+1] \in Nodes /\ {p[i], p[i+1]} \in links
    BY <1>1, <2>1
  <2>3. p[i] # p[i+1]
    BY <2>2 DEF Pairs
  <2> QED
    BY <2>2, <2>3 DEF Neighbours
<1>5. PICK c \in [0..n -> Nat] :
        /\ c[0] = 0 /\ c[n] = PathCost(p)
        /\ \A i \in 1..n : c[i] = c[i-1] + Cost({p[i], p[i+1]})
  BY <1>1, <1>4, PathCostSteps
<1> DEFINE e == [i \in 0..n |-> c[i] + L[p[i+1]]]
           T == {j \in Nat : j <= n =>
                   /\ e[0] <= e[j]
                   /\ e[j] = e[0] <=> \A i \in 1..j : Attained(p, i, L)}
<1> HIDE DEF L, n
<1>6. \A i \in 0..n : e[i] \in Nat
  BY <1>2, <1>3, <1>5 DEF Amounts
<1>7. ASSUME NEW j \in 1..n
      PROVE  /\ j - 1 \in 0..n /\ j \in 0..n
             /\ e[j-1] <= e[j]
             /\ e[j] = e[j-1] <=> Attained(p, j, L)
  <2>1. j - 1 \in 0..n /\ j \in 0..n /\ (j - 1) + 1 = j
    BY <1>1
  <2>2. e[j-1] = c[j-1] + L[p[j]] /\ e[j] = c[j] + L[p[j+1]]
    BY <2>1
  <2>3. c[j] = c[j-1] + Cost({p[j], p[j+1]}) /\ c[j-1] \in Nat
    BY <1>5, <2>1
  <2>4. L[p[j]] <= Cost({p[j], p[j+1]}) + L[p[j+1]]
    BY <1>2, <1>4
  <2>5. L[p[j]] \in Nat /\ L[p[j+1]] \in Nat
    BY <1>2, <1>4 DEF Amounts
  <2>6. Cost({p[j], p[j+1]}) \in Nat
    BY <1>4, CostNatural
  <2> DEFINE d == Cost({p[j], p[j+1]})
             x == L[p[j]]
             y == L[p[j+1]]
  <2>7. /\ e[j-1] = c[j-1] + x /\ e[j] = (c[j-1] + d) + y
        /\ x <= d + y /\ c[j-1] \in Nat /\ x \in Nat /\ y \in Nat /\ d \in Nat
        /\ Attained(p, j, L) <=> x = d + y
    BY <2>2, <2>3, <2>4, <2>5, <2>6 DEF Attained
  <2> HIDE DEF e, d, x, y
  <2> QED
    BY <2>1, <2>7
<1>8. e[0] = L[u] /\ e[n] = PathCost(p)
  <2>1. 0 \in 0..n /\ n \in 0..n /\ 0 + 1 = 1
    BY <1>1
  <2>2. e[0] = 0 + L[u] /\ e[n] = PathCost(p) + L[GCS]
    BY <1>1, <1>5, <2>1
  <2>3. L[u] \in Nat /\ PathCost(p) \in Nat
    BY <1>2, <1>5, <2>1 DEF Amounts
  <2>4. L[GCS] = 0
    BY <1>2
  <2> HIDE DEF e
  <2> QED
    BY <2>2, <2>3, <2>4
<1> HIDE DEF e
<1>9. 0 \in T
  <2>1. 0 \in 0..n /\ e[0] \in Nat
    BY <1>1, <1>6
  <2> QED
    BY <2>1
<1>10. ASSUME NEW j \in Nat, j \in T PROVE j + 1 \in T
  <2> SUFFICES ASSUME j + 1 <= n
               PROVE  /\ e[0] <= e[j+1]
                      /\ e[j+1] = e[0] <=> \A i \in 1..(j+1) : Attained(p, i, L)
    OBVIOUS
  <2>1. j <= n /\ j + 1 \in 1..n /\ (j + 1) - 1 = j
    BY <1>1
  <2>2. e[0] <= e[j] /\ (e[j] = e[0] <=> \A i \in 1..j : Attained(p, i, L))
    BY <1>10, <2>1
  <2>3. e[j] <= e[j+1] /\ (e[j+1] = e[j] <=> Attained(p, j+1, L))
    BY <1>7, <2>1
  <2>4. e[0] \in Nat /\ e[j] \in Nat /\ e[j+1] \in Nat
    <3>1. 0 \in 0..n /\ j \in 0..n /\ j + 1 \in 0..n
      BY <1>1, <2>1
    <3> QED
      BY <1>6, <3>1
  <2>5. (\A i \in 1..(j+1) : Attained(p, i, L)) <=>
          (\A i \in 1..j : Attained(p, i, L)) /\ Attained(p, j+1, L)
    <3>1. 1..(j+1) = (1..j) \cup {j+1}
      OBVIOUS
    <3> QED
      BY <3>1
  <2>6. e[j+1] = e[0] <=> e[j] = e[0] /\ e[j+1] = e[j]
    BY <2>2, <2>3, <2>4
  <2>7. e[0] <= e[j+1]
    BY <2>2, <2>3, <2>4
  <2> QED
    BY <2>2, <2>3, <2>5, <2>6, <2>7
<1>11. n \in T
  <2> HIDE DEF T
  <2> QED
    BY <1>1, <1>9, <1>10, NaturalsBySteps
<1>12. n <= n /\ 0 \in 0..n /\ n \in 0..n
  BY <1>1
<1>13. e[0] <= e[n] /\ (e[n] = e[0] <=> \A i \in 1..n : Attained(p, i, L))
  BY <1>11, <1>12
<1> QED
  BY <1>6, <1>8, <1>12, <1>13 DEF L, n

\* A simple path visits nobody twice.
LEMMA SimplePathIsSimple ==
  ASSUME NEW u \in UAVs, NEW path \in SimplePaths(u)
  PROVE  \A i, j \in 1..Len(path) : path[i] = path[j] => i = j
<1> DEFINE others == UAVs \ {u}
           middles == UNION {{m \in [1..k -> others] : IsInjective(m)} :
                               k \in 0..Cardinality(others)}
<1>1. Cardinality(others) \in Nat
  BY NetworkAssumption, FS_Subset, FS_CardinalityType
<1>2. PICK s \in middles : path = <<u>> \o s \o <<GCS>>
  <2>1. SimplePaths(u) = {p \in {<<u>> \o m \o <<GCS>> : m \in middles} :
                            Hops(p) \subseteq Links}
    BY DEF SimplePaths
  <2> HIDE DEF middles
  <2> QED
    BY <2>1
<1>3. PICK k \in Nat : s \in [1..k -> others] /\ IsInjective(s)
  BY <1>1
<1>4. s \in Seq(others) /\ Len(s) = k /\ \A i, j \in 1..k : s[i] = s[j] => i = j
  BY <1>3 DEF IsInjective
<1> HIDE DEF middles
<1>5. /\ Len(path) = k + 2 /\ path[1] = u /\ path[k+2] = GCS
      /\ \A i \in 2..(k+1) : path[i] = s[i-1]
  BY <1>2, <1>4
<1>6. \A i \in 2..(k+1) : i - 1 \in 1..k /\ path[i] \in UAVs /\ path[i] # u
  BY <1>4, <1>5
<1>7. u # GCS /\ \A x \in UAVs : x # GCS
  BY NetworkAssumption
<1> SUFFICES ASSUME NEW i \in 1..(k+2), NEW j \in 1..(k+2), path[i] = path[j]
             PROVE  i = j
  BY <1>5
<1>8. /\ i = 1 \/ i \in 2..(k+1) \/ i = k + 2
      /\ j = 1 \/ j \in 2..(k+1) \/ j = k + 2
  OBVIOUS
<1>9. CASE i \in 2..(k+1) /\ j \in 2..(k+1)
  <2>1. s[i-1] = s[j-1] /\ i - 1 \in 1..k /\ j - 1 \in 1..k
    BY <1>5, <1>6, <1>9
  <2>2. i - 1 = j - 1
    BY <1>4, <2>1
  <2> QED
    BY <2>2
<1> QED
  BY <1>5, <1>6, <1>7, <1>8, <1>9

(***************************************************************************)
(* The route rebuilt is lexicographically the least of the tight ones.     *)
(***************************************************************************)

\* What is left of a tight path finishes without its beginning.
LEMMA RestFinishes ==
  ASSUME NEW tight, NEW p \in Seq(Nodes), Len(p) >= 1, p[Len(p)] = GCS,
         \A i, j \in 1..Len(p) : p[i] = p[j] => i = j,
         \A i \in 1..(Len(p) - 1) : <<p[i], p[i+1]>> \in tight,
         NEW k \in 1..Len(p)
  PROVE  \A i \in (k+1)..Len(p) : CanFinish(p[i], Trail(p, k), tight)
<1> DEFINE n == Len(p)
           V == Trail(p, k)
           T == {d \in Nat : \A i \in (k+1)..n : i + d = n => CanFinish(p[i], V, tight)}
<1>1. n \in Nat /\ \A i \in 1..n : p[i] \in Nodes
  OBVIOUS
<1>2. \A i \in (k+1)..n : p[i] \notin V
  <2> SUFFICES ASSUME NEW i \in (k+1)..n, NEW j \in 1..k, p[i] = p[j] PROVE FALSE
    BY DEF Trail
  <2>1. i \in 1..n /\ j \in 1..n
    OBVIOUS
  <2> QED
    BY <2>1
<1>3. 0 \in T
  <2> SUFFICES ASSUME NEW i \in (k+1)..n, i + 0 = n PROVE CanFinish(p[i], V, tight)
    OBVIOUS
  <2>1. p[i] = GCS /\ p[i] \in Nodes
    BY <1>1
  <2> HIDE DEF V
  <2> QED
    BY <2>1, FoundClosed, FinishFound
<1>4. ASSUME NEW d \in Nat, d \in T PROVE d + 1 \in T
  <2> SUFFICES ASSUME NEW i \in (k+1)..n, i + (d + 1) = n
               PROVE  CanFinish(p[i], V, tight)
    OBVIOUS
  <2>1. i + 1 \in (k+1)..n /\ (i + 1) + d = n /\ i \in 1..(n - 1) /\ i + 1 \in 1..n /\ i \in 1..n
    BY <1>1
  <2>2. CanFinish(p[i+1], V, tight) /\ <<p[i], p[i+1]>> \in tight
    BY <1>4, <2>1
  <2>3. p[i] \in Nodes /\ p[i+1] \in Nodes \ V
    BY <1>1, <1>2, <2>1
  <2> HIDE DEF V
  <2> QED
    BY <2>2, <2>3, FinishBefore
<1>5. Nat \subseteq T
  <2> HIDE DEF T
  <2> QED
    BY <1>3, <1>4, NaturalsBySteps
<1> SUFFICES ASSUME NEW i \in (k+1)..n PROVE CanFinish(p[i], V, tight)
  OBVIOUS
<1>6. n - i \in Nat /\ i + (n - i) = n
  BY <1>1
<1> QED
  BY <1>5, <1>6

LEMMA RebuiltIsLeast ==
  ASSUME NEW u \in Nodes, NEW tight, NEW r \in LeastPaths(u, tight), r[Len(r)] = GCS,
         NEW p \in Seq(Nodes), Len(p) >= 1, p[1] = u, p[Len(p)] = GCS,
         \A i, j \in 1..Len(p) : p[i] = p[j] => i = j,
         \A i \in 1..(Len(p) - 1) : <<p[i], p[i+1]>> \in tight
  PROVE  p = r \/ LexLess(r, p)
<1>1. /\ r \in Seq(Nodes) /\ Len(r) >= 1 /\ r[1] = u
      /\ \A i, j \in 1..Len(r) : r[i] = r[j] => i = j
      /\ \A i \in 1..(Len(r) - 1) : \A m \in Ways(r, i, tight) : r[i+1] <= m
  BY DEF LeastPaths
<1>2. Len(r) \in Nat /\ Len(p) \in Nat
  BY <1>1
<1> DEFINE T == {i \in Nat : i \in 1..Len(r) /\ i \in 1..Len(p) /\ r[i] # p[i]}
<1>3. CASE T = {}
  <2>1. \A i \in 1..Len(r) : i \in 1..Len(p) => r[i] = p[i]
    BY <1>3
  <2>2. Len(r) = Len(p)
    <3>1. CASE Len(r) < Len(p)
      <4>1. Len(r) \in 1..Len(r) /\ Len(r) \in 1..Len(p) /\ Len(p) \in 1..Len(p)
        BY <1>1, <1>2, <3>1
      <4>2. p[Len(r)] = p[Len(p)]
        BY <2>1, <4>1
      <4> QED
        BY <4>1, <4>2
    <3>2. CASE Len(p) < Len(r)
      <4>1. Len(p) \in 1..Len(r) /\ Len(p) \in 1..Len(p) /\ Len(r) \in 1..Len(r)
        BY <1>1, <1>2, <3>2
      <4>2. r[Len(p)] = r[Len(r)]
        BY <2>1, <4>1
      <4> QED
        BY <1>1, <4>1, <4>2
    <3> QED
      BY <1>2, <3>1, <3>2
  <2>3. p = r
    BY <1>1, <2>1, <2>2
  <2> QED
    BY <2>3
<1>4. CASE T # {}
  <2>1. PICK i \in T : \A j \in T : i <= j
    <3>1. T \subseteq Nat
      OBVIOUS
    <3> HIDE DEF T
    <3> QED
      BY <1>4, <3>1, LeastNatural
  <2>2. i \in Nat /\ i \in 1..Len(r) /\ i \in 1..Len(p) /\ r[i] # p[i]
    OBVIOUS
  <2>3. \A j \in 1..(i - 1) : r[j] = p[j]
    <3> SUFFICES ASSUME NEW j \in 1..(i - 1), r[j] # p[j] PROVE FALSE
      OBVIOUS
    <3>1. j \in T
      BY <2>2
    <3> QED
      BY <2>1, <2>2, <3>1
  <2>4. i # 1
    BY <1>1, <2>2
  <2> DEFINE k == i - 1
  <2>5. /\ k \in 1..Len(p) /\ k \in 1..(Len(r) - 1) /\ k \in 1..(Len(p) - 1)
        /\ k + 1 = i /\ i \in (k+1)..Len(p) /\ k \in 1..(i - 1)
    BY <1>2, <2>2, <2>4
  <2> HIDE DEF k
  <2>6. Trail(r, k) = Trail(p, k)
    BY <2>3, <2>5 DEF Trail, k
  <2>7. CanFinish(p[i], Trail(p, k), tight)
    BY <2>5, RestFinishes
  <2>8. p[i] \in Nodes /\ p[i] \notin Trail(p, k)
    <3>1. \A j \in 1..k : j \in 1..Len(p) /\ j # i
      BY <1>2, <2>2, <2>5
    <3> QED
      BY <2>2, <3>1 DEF Trail
  <2>9. <<r[k], p[i]>> \in tight
    BY <2>3, <2>5
  <2>10. p[i] \in Ways(r, k, tight)
    BY <2>6, <2>7, <2>8, <2>9 DEF Ways
  <2>11. r[i] <= p[i]
    BY <1>1, <2>5, <2>10
  <2>12. r[i] \in Nat /\ p[i] \in Nat
    <3>1. r[i] \in Nodes /\ p[i] \in Nodes
      BY <1>1, <2>2
    <3> QED
      BY <3>1, NodesFinite
  <2>13. r[i] < p[i]
    BY <2>2, <2>11, <2>12
  <2>14. i \in DOMAIN r \cap DOMAIN p
    BY <1>1, <2>2
  <2> QED
    BY <2>3, <2>13, <2>14 DEF LexLess
<1> QED
  BY <1>3, <1>4

\* Both halves of what the docstring of reliability_aware_routes promises.
LEMMA ReliableHolds ==
  ASSUME at \in [UAVs -> 0..FarEnd], up \subseteq UAVs
  PROVE  ReliableAreLeast
<1> SUFFICES ASSUME NEW u \in Connected
             PROVE  LET r == ReliableRoute(u, Links)
                    IN  /\ ValidRoute(u, r)
                        /\ \A p \in SimplePaths(u) :
                             \/ PathCost(r) < PathCost(p)
                             \/ PathCost(r) = PathCost(p) /\ (p = r \/ LexLess(r, p))
  BY DEF ReliableAreLeast
<1> DEFINE links == Links
           tight == Tight(links)
           L == LeastCost(links)
           r == Rebuilt(u, tight)[Cardinality(UAVs)]
<1>1. links \in SUBSET Pairs
  BY LinksOfAvailable
<1>2. u \in UAVs /\ u \in Nodes \ {GCS} /\ u \in Reachable(links)
  <2>1. AnalysisContract
    BY ContractHolds
  <2>2. u \in up /\ u \in Reachable(links)
    BY <2>1 DEF AnalysisContract, Connected
  <2> QED
    BY <2>2, NetworkAssumption DEF Nodes
<1>3. ReliableRoute(u, Links) = r
  BY <1>2 DEF ReliableRoute
<1>4. \A n, m \in Nodes : <<n, m>> \in tight <=>
        n # GCS /\ {n, m} \in links /\ L[n] = Cost({n, m}) + L[m]
  BY DEF Tight
<1>5. r \in LeastPaths(u, tight) /\ r[Len(r)] = GCS
  <2> HIDE DEF tight, links
  <2>1. CanFinish(u, {}, tight)
    BY <1>2, ReachableFinishes DEF tight
  <2> QED
    BY <1>2, <2>1, PathBegun, RebuiltEnds
<1> HIDE DEF tight, L, r
<1>6. /\ r \in Seq(Nodes) /\ Len(r) >= 1 /\ r[1] = u /\ r[Len(r)] = GCS
      /\ \A i, j \in 1..Len(r) : r[i] = r[j] => i = j
      /\ \A i \in 1..(Len(r) - 1) : <<r[i], r[i+1]>> \in tight
  BY <1>5 DEF LeastPaths
<1>7. \A i \in 1..(Len(r) - 1) : {r[i], r[i+1]} \in links /\ Attained(r, i, L)
  <2> SUFFICES ASSUME NEW i \in 1..(Len(r) - 1)
               PROVE  {r[i], r[i+1]} \in links /\ Attained(r, i, L)
    OBVIOUS
  <2>1. r[i] \in Nodes /\ r[i+1] \in Nodes
    <3>1. i \in 1..Len(r) /\ i + 1 \in 1..Len(r)
      BY <1>6
    <3> QED
      BY <1>6, <3>1
  <2> QED
    BY <1>4, <1>6, <2>1 DEF Attained
<1>8. RouteFrom(u, r, links) /\ PathFrom(u, r, links)
  BY <1>6, <1>7 DEF RouteFrom, PathFrom
<1>9. ValidRoute(u, r)
  BY <1>2, <1>8, RouteValid
<1>10. PathCost(r) = L[u]
  BY <1>1, <1>2, <1>7, <1>8, PathCostLeast DEF L
<1>11. ASSUME NEW p \in SimplePaths(u)
       PROVE  \/ PathCost(r) < PathCost(p)
              \/ PathCost(r) = PathCost(p) /\ (p = r \/ LexLess(r, p))
  <2>1. PathFrom(u, p, links)
    BY <1>2, SimplePathIsPath
  <2>2. /\ PathCost(p) \in Nat /\ L[u] \in Nat /\ L[u] <= PathCost(p)
        /\ PathCost(p) = L[u] <=> \A i \in 1..(Len(p) - 1) : Attained(p, i, L)
    BY <1>1, <1>2, <2>1, PathCostLeast DEF L
  <2>3. CASE PathCost(p) # L[u]
    BY <1>10, <2>2, <2>3
  <2>4. CASE PathCost(p) = L[u]
    <3>1. /\ p \in Seq(Nodes) /\ Len(p) >= 1 /\ p[1] = u /\ p[Len(p)] = GCS
          /\ \A i \in 1..(Len(p) - 1) : {p[i], p[i+1]} \in links
      BY <2>1 DEF PathFrom
    <3>2. \A i, j \in 1..Len(p) : p[i] = p[j] => i = j
      BY <1>2, SimplePathIsSimple
    <3>3. ASSUME NEW i \in 1..(Len(p) - 1) PROVE <<p[i], p[i+1]>> \in tight
      <4>1. i \in 1..Len(p) /\ i + 1 \in 1..Len(p) /\ Len(p) \in 1..Len(p) /\ i # Len(p)
        BY <3>1
      <4>2. p[i] \in Nodes /\ p[i+1] \in Nodes /\ p[i] # GCS
        BY <3>1, <3>2, <4>1
      <4>3. Attained(p, i, L)
        BY <2>2, <2>4
      <4> QED
        BY <1>4, <3>1, <4>2, <4>3 DEF Attained
    <3>4. p = r \/ LexLess(r, p)
      BY <1>2, <1>5, <3>1, <3>2, <3>3, RebuiltIsLeast
    <3> QED
      BY <1>10, <2>4, <3>4
  <2> QED
    BY <2>3, <2>4
<1> QED
  BY <1>3, <1>9, <1>11
=============================================================================
