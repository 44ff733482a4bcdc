------------------------------ MODULE Network ------------------------------
(***************************************************************************)
(* The communication stack (communication/*.py): which links exist, who    *)
(* reaches the ground station, over which routes, and the NetworkAnalysis  *)
(* handed to every other component.                                        *)
(*                                                                         *)
(* The arena is a line: a place is a number of steps east of the ground    *)
(* station, and distance, cost and range are counted in steps.  What moves *)
(* the vehicles, fails them or recovers them is not part of this module.   *)
(***************************************************************************)
EXTENDS Integers, Sequences, FiniteSets, FiniteSetsExt, SequencesExt

CONSTANTS UAVs,      \* ids, numbered in the order of their names
          None,
          FarEnd,    \* the easternmost place
          MaxRange,  \* config.max_range
          Schedule,  \* scenario_conditions: [pair, start, end, effect]
          Horizon    \* bound: no condition ends later

GCS == 0   \* "gcs" sorts before every vehicle id
Nodes == UAVs \cup {GCS}
Pairs == {{a, b} : a, b \in Nodes} \ {{a} : a \in Nodes}
Effects == {"outage", "lossy", "slow"}

ASSUME NetworkAssumption ==
  /\ UAVs \subseteq Nat \ {GCS} /\ IsFiniteSet(UAVs)
  /\ None \notin Nodes /\ None \notin Seq(Nodes) \* neither a node nor a route
  /\ FarEnd \in Nat /\ MaxRange \in Nat \ {0} /\ Horizon \in Nat
ASSUME ScheduleAssumption ==
  /\ \A c \in Schedule : /\ c.pair \in Pairs /\ c.effect \in Effects
                         /\ c.start \in 0..Horizon /\ c.end \in c.start..Horizon
  /\ \A c, d \in Schedule : \* two conditions of one pair never overlap
       (c # d /\ c.pair = d.pair) => (c.end <= d.start \/ d.end <= c.start)

VARIABLES at,   \* position of a vehicle
          up,   \* vehicles that are active and not FAILED
          now   \* simulation_time, up to Horizon

networkVars == <<at, up, now>>

NetworkTypeOK == /\ at \in [UAVs -> 0..FarEnd]
                 /\ up \subseteq UAVs
                 /\ now \in 0..Horizon

-----------------------------------------------------------------------------
(* Links.  Some components ask what they would be if vehicles were at       *)
(* other places than they are.                                             *)

Place(n, places) == IF n = GCS THEN 0 ELSE places[n]
Distance(pair, places) ==
  LET end == CHOOSE n \in pair : TRUE
      other == CHOOSE n \in pair : n # end
      p == Place(end, places)
      q == Place(other, places)
  IN  IF p > q THEN p - q ELSE q - p

\* the effects in force on a pair, at most one
Conditions(pair) ==
  {c.effect : c \in {d \in Schedule : d.pair = pair /\ d.start <= now /\ now < d.end}}

Available == up \cup {GCS}

\* mutant of LinksAt: a failed vehicle still relays
MutLinksAt(places) == {p \in Pairs : /\ Distance(p, places) <= MaxRange
                                    /\ Conditions(p) \cap {"outage", "lossy"} = {}}

\* a packet loss override of 1 leaves no usable link, like an outage
LinksAt(places) == {p \in Pairs : /\ p \subseteq Available
                                 /\ Distance(p, places) <= MaxRange
                                 /\ Conditions(p) \cap {"outage", "lossy"} = {}}
Links == LinksAt(at)

Slow(pair) == IF "slow" \in Conditions(pair) THEN 1 ELSE 0
Cost(pair) == Distance(pair, at) + Slow(pair)

-----------------------------------------------------------------------------
(* Connectivity.  An operator that needs the links several times takes     *)
(* them as an argument.                                                    *)

Neighbours(n, links) == {m \in Nodes \ {n} : {n, m} \in links}

Spread(S, links) == S \cup UNION {Neighbours(n, links) : n \in S}

\* Ball(n, links)[k]: the nodes at most k hops from n
Ball(n, links) ==
  LET ball[k \in Nat] == IF k = 0 THEN {n} ELSE Spread(ball[k-1], links)
  IN  ball

ComponentOf(n, links) == Ball(n, links)[Cardinality(UAVs)]
Components == {ComponentOf(n, Links) : n \in Available}

Reachable(links) == ComponentOf(GCS, links)
Connected == Reachable(Links) \ {GCS}
Disconnected == up \ Connected

-----------------------------------------------------------------------------
(* Routes: sequences of nodes from a vehicle to the ground station *)

\* mutant of NextHop: the largest neighbour
MutNextHopLargest(near) == Max(near)

NextHop(near) == Min(near)

\* shortest_hop_routes.  The breadth-first search and next_hop in one: a node
\* reached for the first time in a round has its neighbours of one hop less
\* among those reached in the round before, and none that is nearer.
Known(n, found, links) == {m \in Neighbours(n, links) : found[m] # None}

Extended(found, links) ==
  [n \in Nodes |-> IF found[n] # None \/ Known(n, found, links) = {} THEN found[n]
                   ELSE <<n>> \o found[NextHop(Known(n, found, links))]]

Unrouted == [n \in Nodes |-> IF n = GCS THEN <<GCS>> ELSE None]

\* Routes(links)[k]: the routes found within k rounds
Routes(links) ==
  LET routes[k \in Nat] == IF k = 0 THEN Unrouted ELSE Extended(routes[k-1], links)
  IN  routes

ShortestRoutes[links \in SUBSET Pairs] == Routes(links)[Cardinality(UAVs)]

ShortestRoute(u, links) == ShortestRoutes[links][u]

\* single_source_dijkstra_path_length of the costs
Relaxed(cost, links) ==
  [n \in Nodes |-> Min({cost[n]} \cup
                      {Cost({n, m}) + cost[m] : m \in Neighbours(n, links)})]

\* Costs(links)[k]: those over at most k hops, and TooMuch without such a path
TooMuch == Cardinality(Nodes) * (FarEnd + 1)

Costs(links) ==
  LET cost[k \in Nat] == IF k = 0 THEN [n \in Nodes |-> IF n = GCS THEN 0 ELSE TooMuch]
                         ELSE Relaxed(cost[k-1], links)
  IN  cost

LeastCost(links) == Costs(links)[Cardinality(UAVs)]

\* the edges along which the least cost to the ground station is attained
Tight(links) ==
  LET least == LeastCost(links)
  IN  {e \in (Nodes \ {GCS}) \X Nodes :
         {e[1], e[2]} \in links /\ least[e[1]] = Cost({e[1], e[2]}) + least[e[2]]}

\* has_path to the ground station over the tight edges between other nodes
Onward(S, visited, tight) ==
  S \cup {m \in Nodes \ visited : \E o \in S : <<o, m>> \in tight}

Reached(n, visited, tight) ==
  LET reached[k \in Nat] == IF k = 0 THEN {n} ELSE Onward(reached[k-1], visited, tight)
  IN  reached

CanFinish(n, visited, tight) == GCS \in Reached(n, visited, tight)[Cardinality(UAVs)]

NextTight(path, tight) ==
  Min({m \in Nodes \ Range(path) : /\ <<Last(path), m>> \in tight
                                   /\ CanFinish(m, Range(path), tight)})

Lengthened(path, tight) ==
  IF Last(path) = GCS THEN path ELSE Append(path, NextTight(path, tight))

Rebuilt(u, tight) ==
  LET route[k \in Nat] == IF k = 0 THEN <<u>> ELSE Lengthened(route[k-1], tight)
  IN  route

\* reliability_aware_routes
ReliableRoute(u, links) ==
  IF u \in Reachable(links) THEN Rebuilt(u, Tight(links))[Cardinality(UAVs)] ELSE None

Hops(route) == {{route[i], route[i+1]} : i \in 1..(Len(route) - 1)}

\* route_pdr, per mille: a link over the distance d delivers a share of
\* 1 / (1 + d / max_range)
RoutePdr(route, places) ==
  LET pdr[i \in 0..(Len(route) - 1)] ==
        IF i = 0 THEN 1000
        ELSE (pdr[i-1] * MaxRange) \div
             (MaxRange + Distance({route[i], route[i+1]}, places))
  IN  IF route = None THEN 0 ELSE pdr[Len(route) - 1]

\* route_latency_ms, in ticks and rounded up: the links take a few milliseconds
\* each, which is more than nothing, and a slow one takes a tick longer
RouteLatency(route) == 1 + Cardinality({hop \in Hops(route) : Slow(hop) = 1})

-----------------------------------------------------------------------------
(* The world the analysis is made of *)

NetworkInit == at = [u \in UAVs |-> 0] /\ up = UAVs /\ now = 0

Fly(u) == /\ u \in up
          /\ \E p \in 0..FarEnd : /\ p \in {at[u] - 1, at[u] + 1}
                                  /\ at' = [at EXCEPT ![u] = p]
          /\ UNCHANGED <<up, now>>

FailVehicle(u) == u \in up /\ up' = up \ {u} /\ UNCHANGED <<at, now>>
RecoverVehicle(u) == u \in UAVs \ up /\ up' = up \cup {u} /\ UNCHANGED <<at, now>>

World == \E u \in UAVs : Fly(u) \/ FailVehicle(u) \/ RecoverVehicle(u)

PassTime == now' = IF now < Horizon THEN now + 1 ELSE now

-----------------------------------------------------------------------------
(* Properties *)

\* The vehicles with a shortest route are those in the component of the ground
\* station; that route runs over existing links between available vehicles,
\* without a loop, and has as many links as the hop count says; the components
\* cover the available nodes and no link crosses them.
\* (NetworkAnalysis.__post_init__)
ValidRoute(u, route) ==
  /\ Len(route) >= 2 /\ route[1] = u /\ Last(route) = GCS
  /\ IsInjective(route)
  /\ Hops(route) \subseteq Links

AnalysisContract ==
  LET links == Links
      near == Ball(GCS, links)
      components == Components
  IN  /\ Connected \subseteq up
      /\ ComponentOf(GCS, links) \ {GCS} = Connected
      /\ UNION components = Available
      /\ \A c, d \in components : c = d \/ c \cap d = {}
      /\ \A p \in links : \E c \in components : p \subseteq c
      /\ \A u \in Connected : /\ ValidRoute(u, ShortestRoute(u, links))
                              /\ \A k \in 0..Cardinality(UAVs) :
                                   u \in near[k] <=> Len(ShortestRoute(u, links)) <= k + 1
      /\ \A u \in Disconnected : ShortestRoute(u, links) = None

\* Both routings return the lexicographically smallest of the best simple
\* paths, where best is fewest hops and least cost, though they pick one node
\* at a time and free links make cycles; and what the second returns is a route,
\* over existing links and without a loop.  (docstrings of routing.py)
SimplePaths(u) ==
  LET others == UAVs \ {u}
      middles == UNION {{s \in [1..k -> others] : IsInjective(s)} :
                          k \in 0..Cardinality(others)}
  IN  {path \in {<<u>> \o s \o <<GCS>> : s \in middles} : Hops(path) \subseteq Links}

LexLess(p, q) == \E i \in DOMAIN p \cap DOMAIN q :
                   p[i] < q[i] /\ \A j \in 1..(i-1) : p[j] = q[j]

PathCost(path) ==
  LET cost[i \in 0..(Len(path) - 1)] ==
        IF i = 0 THEN 0 ELSE cost[i-1] + Cost({path[i], path[i+1]})
  IN  cost[Len(path) - 1]

ShortestAreLeast ==
  \A u \in Connected :
    LET shortest == ShortestRoute(u, Links)
    IN  \A path \in SimplePaths(u) :
          \/ Len(shortest) < Len(path)
          \/ Len(shortest) = Len(path) /\ (path = shortest \/ LexLess(shortest, path))

ReliableAreLeast ==
  \A u \in Connected :
    LET reliable == ReliableRoute(u, Links)
    IN  /\ ValidRoute(u, reliable)
        /\ \A path \in SimplePaths(u) :
             \/ PathCost(reliable) < PathCost(path)
             \/ /\ PathCost(reliable) = PathCost(path)
                /\ path = reliable \/ LexLess(reliable, path)

RoutesAreLeast == ShortestAreLeast /\ ReliableAreLeast
=============================================================================
