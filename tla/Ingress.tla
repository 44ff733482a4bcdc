------------------------------ MODULE Ingress ------------------------------
(***************************************************************************)
(* The ingress coordinator (autonomy/ingress_coordinator.py): before any   *)
(* task is given out, the team flies to a chain of relay positions with    *)
(* the surveyors behind it, and nobody is sent where it has no route or    *)
(* where it takes the route of a vehicle that has one.                     *)
(*                                                                         *)
(* Teams are those of less than five vehicles; for larger ones the code    *)
(* has a list of names.  A mission without coordinator is one whose        *)
(* deployment is complete from the start.                                  *)
(***************************************************************************)
EXTENDS Network

CONSTANTS Chain,   \* target_chain
          HoldAt   \* where surveyors wait for the deployment

ASSUME IngressAssumption ==
  Chain \in Seq(0..FarEnd) /\ HoldAt \in 0..FarEnd /\ Cardinality(UAVs) < 5

VARIABLES ingress,   \* status, assigned_relays and surveyors
          relaying,  \* vehicles with role RELAY
          to         \* target_position

ingressVars == <<ingress, relaying, to>>

IngressTypeOK ==
  /\ ingress.status \in {"DEPLOYING", "COMPLETE"}
  /\ Range(ingress.relays) \cup Range(ingress.surveyors) \subseteq UAVs
  /\ relaying \subseteq UAVs
  /\ to \in [UAVs -> 0..FarEnd \cup {None}]

\* the first vehicle surveys, the others relay, until somebody relays
InOrder(S) == CHOOSE s \in [1..Cardinality(S) -> S] :
                \A i, j \in 1..Cardinality(S) : i < j => s[i] < s[j]

Recruited == LET team == InOrder(up)
             IN  IF ingress.relays # <<>> THEN ingress
                 ELSE [ingress EXCEPT !.relays = SubSeq(team, 2, Len(team)),
                                      !.surveyors = IF up = {} THEN <<>> ELSE <<team[1]>>]

\* the vehicles with a route once u is at a place and all others where they are
Reach(u, place) == Reachable(LinksAt([at EXCEPT ![u] = place])) \ {GCS}

\* mutant of Safe: a route over the other vehicles does not count
MutSafe(u, place, connected, peers) ==
  /\ {u, GCS} \in LinksAt([at EXCEPT ![u] = place])
  /\ (peers \ {u}) \cap connected \subseteq Reach(u, place)

Safe(u, place, connected, peers) ==
  /\ u \in Reach(u, place)
  /\ (peers \ {u}) \cap connected \subseteq Reach(u, place)

\* one round of a loop: u is sent to its place, if it is safe to
Sent(plan, u, place, peers) ==
  IF at[u] # place /\ to[u] # place /\ Safe(u, place, plan.connected, peers)
    THEN [orders |-> [plan.orders EXCEPT ![u] = place], connected |-> Reach(u, place)]
    ELSE plan

Manned(team) == IF Len(team.relays) < Len(Chain) THEN Len(team.relays) ELSE Len(Chain)

RelayOrders(team) ==
  LET peers == Range(team.relays) \cup Range(team.surveyors)
      plan[i \in 0..Manned(team)] ==
        IF i = 0 THEN [orders |-> [u \in UAVs |-> None], connected |-> Connected]
        ELSE Sent(plan[i-1], team.relays[i], Chain[i], peers)
  IN  plan[Manned(team)]

\* surveyors are judged by what the relays' orders have left
Orders(team) ==
  LET relays == RelayOrders(team)
      orders[i \in 0..Len(team.surveyors)] ==
        IF i = 0 THEN relays.orders
        ELSE Sent([relays EXCEPT !.orders = orders[i-1]], team.surveyors[i], HoldAt,
                  Range(team.relays)).orders
  IN  orders[Len(team.surveyors)]

InPosition(team) ==
  /\ \A i \in 1..Manned(team) : at[team.relays[i]] = Chain[i]
  /\ \A u \in Range(team.surveyors) : at[u] = HoldAt

\* plan of the coordinator, and what the store makes of its commands
Deploy ==
  LET team == Recruited
      recruits == Range(team.relays) \ Range(ingress.relays)
      orders == Orders(team)
      quiet == recruits = {} /\ \A u \in UAVs : orders[u] = None
  IN  /\ ingress' = [team EXCEPT !.status = IF quiet /\ InPosition(team) THEN "COMPLETE" ELSE @]
      /\ relaying' = relaying \cup recruits
      /\ to' = [u \in UAVs |-> IF orders[u] # None THEN orders[u]
                               ELSE IF u \in recruits THEN at[u] ELSE to[u]]
=============================================================================
