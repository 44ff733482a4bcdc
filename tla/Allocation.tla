----------------------------- MODULE Allocation -----------------------------
(***************************************************************************)
(* Task allocation over the network: the allocator A0                      *)
(* (autonomy/task_allocator.py), the communication-aware A1 on top of it   *)
(* (autonomy/a1_allocator.py) and the adapter that feeds them, which lets  *)
(* the ingress coordinator finish first, with the flight and the service   *)
(* of a mission without relay manager between two passes.                  *)
(*                                                                         *)
(* A1 looks at a vehicle as it is now ("current") or, by default, as it    *)
(* would be at the task ("destination").  Scores are integers,             *)
(* communication factors are per mille; battery and locks are left to the  *)
(* component that keeps them, so that a vehicle is fit when it is up.      *)
(***************************************************************************)
EXTENDS Ingress

CONSTANTS Tasks,          \* numbered in the order of their ids
          TaskPlace,
          Priority,
          Emergency,      \* tasks with the flag
          Deadline,       \* 0: none
          PriorityWeight, \* weights.wP
          TravelWeight,   \* weights.wT
          MinFactor,      \* config.min_comm_factor
          HopDecay,       \* config.hop_decay
          Levels,         \* allocators considered
          MaxFailures     \* bound on failures

ASSUME AllocationAssumption ==
  /\ Tasks \subseteq Nat /\ IsFiniteSet(Tasks) /\ Emergency \subseteq Tasks
  /\ None \notin Int
  /\ TaskPlace \in [Tasks -> 0..FarEnd]
  /\ Priority \in [Tasks -> Nat] /\ Deadline \in [Tasks -> 0..Horizon]
  /\ PriorityWeight \in Nat /\ TravelWeight \in Nat
  /\ MinFactor \in 1..1000 /\ HopDecay \in 0..1000 /\ MaxFailures \in Nat
  /\ Levels \subseteq {"A0", "current", "destination"}

VARIABLES level,    \* the allocator the mission was started with
          status,   \* of a task
          duty,     \* assigned_task_id
          stage,    \* of the tick
          failures  \* so far

vars == <<networkVars, ingressVars, level, status, duty, stage, failures>>

-----------------------------------------------------------------------------
(* Scores *)

Away(u, t) == IF at[u] > TaskPlace[t] THEN at[u] - TaskPlace[t]
              ELSE TaskPlace[t] - at[u]

\* A0: compute_utility
Utility(u, t) == PriorityWeight * Priority[t] - TravelWeight * Away(u, t)

Decay[hops \in Nat] == IF hops <= 1 THEN 1000
                       ELSE (Decay[hops - 1] * HopDecay) \div 1000

\* compute_communication_factor, of a vehicle with that route and delivery rate
Factor(route, pdr) ==
  IF route = None THEN MinFactor
  ELSE Max({MinFactor, (pdr * Decay[Len(route) - 1]) \div 1000})

Damped(score, factor) ==
  IF score >= 0 THEN (score * factor) \div 1000
  ELSE -((-score * (2000 - factor)) \div 1000)

AtTask(u, t) == [at EXCEPT ![u] = TaskPlace[t]]

\* mutant of Preserves: a vehicle out of contact is not moved
MutPreserves(u, after) == u \in Connected /\ Connected \subseteq after

\* mutant of Preserves: only the others count
MutPreservesPeers(u, after) == Connected \ {u} \subseteq after

\* _evaluate_swarm_connectivity_preservation: the candidate has a route at the
\* task, and nobody else who has one now loses it
Preserves(u, after) == u \in after /\ Connected \ {u} \subseteq after

\* the score of the level; None is minus infinity
Score(u, t) ==
  CASE level = "A0"      -> Utility(u, t)
    [] level = "current" ->
         LET route == ShortestRoute(u, Links)
         IN  Damped(Utility(u, t), Factor(route, RoutePdr(route, at)))
    [] OTHER ->
         LET links == LinksAt(AtTask(u, t))
             route == ShortestRoute(u, links)
         IN  IF Preserves(u, Reachable(links) \ {GCS})
               THEN Damped(Utility(u, t), Factor(route, RoutePdr(route, AtTask(u, t))))
               ELSE None

-----------------------------------------------------------------------------
(* Matching: task by task, the best vehicle that is left *)

Eligible == {u \in up \ relaying : duty[u] = None}

Expired(t) == Deadline[t] > 0 /\ now >= Deadline[t]
Open == {t \in Tasks : status[t] = "pending" /\ ~Expired(t)}

Urgency(t) == 2 * Priority[t] + (IF t \in Emergency THEN 1 ELSE 0)
Before(t1, t2) == \/ Urgency(t1) > Urgency(t2)
                  \/ Urgency(t1) = Urgency(t2) /\ t1 < t2

Suitors(t, plan, score) ==
  {u \in Eligible : plan[u] = None /\ score[u][t] # None}

\* mutant of Best: the nearest id wins over the score
MutBest(S, t, score) == Min(S)

Best(S, t, score) ==
  CHOOSE u \in S : \A v \in S : \/ score[u][t] > score[v][t]
                                \/ score[u][t] = score[v][t] /\ u <= v

Match(plan, t, score) ==
  LET suitors == Suitors(t, plan, score)
  IN  IF suitors = {} THEN plan ELSE [plan EXCEPT ![Best(suitors, t, score)] = t]

\* the plan when the tasks of a set have had their turn
LastOf(tasks) == CHOOSE t \in tasks : \A s \in tasks \ {t} : Before(s, t)

Matching(score) ==
  LET plan[tasks \in SUBSET Open] ==
        IF tasks = {} THEN [u \in UAVs |-> None]
        ELSE Match(plan[tasks \ {LastOf(tasks)}], LastOf(tasks), score)
  IN  plan[Open]

-----------------------------------------------------------------------------
(* The tick *)

\* the adapter's plan, when the coordinator has not finished
PlanIngress ==
  /\ stage = "plan" /\ stage' = "fly"
  /\ ingress.status = "DEPLOYING"
  /\ IF \E t \in Tasks : status[t] = "pending" THEN Deploy ELSE UNCHANGED ingressVars
  /\ UNCHANGED <<networkVars, level, status, duty, failures>>

Allocate ==
  /\ stage = "plan" /\ stage' = "fly"
  /\ ingress.status # "DEPLOYING"
  /\ UNCHANGED <<networkVars, ingress, relaying, level, failures>>
  /\ \E score \in {[u \in UAVs |-> [t \in Tasks |->
                     IF u \in Eligible /\ t \in Open THEN Score(u, t) ELSE None]]} :
     \E plan \in {Matching(score)} :
       /\ duty' = [u \in UAVs |-> IF plan[u] = None THEN duty[u] ELSE plan[u]]
       /\ to' = [u \in UAVs |-> IF plan[u] = None THEN to[u] ELSE TaskPlace[plan[u]]]
       /\ status' = [t \in Tasks |-> IF t \in Range(plan) THEN "assigned" ELSE status[t]]

OnSite == {u \in up : duty[u] # None /\ at[u] = to[u]}

Step(u) == IF u \notin up \/ to[u] = None \/ to[u] = at[u] THEN at[u]
           ELSE IF to[u] > at[u] THEN at[u] + 1 ELSE at[u] - 1

\* service, then flight; the work of a tick is enough
Work ==
  /\ stage = "fly" /\ stage' = "plan"
  /\ duty' = [u \in UAVs |-> IF u \in OnSite THEN None ELSE duty[u]]
  /\ to' = [u \in UAVs |-> IF u \in OnSite THEN None ELSE to[u]]
  /\ status' = [t \in Tasks |-> IF \E u \in OnSite : duty[u] = t THEN "done" ELSE status[t]]
  /\ at' = [u \in UAVs |-> Step(u)]
  /\ PassTime
  /\ UNCHANGED <<up, ingress, relaying, level, failures>>

\* mutant of Reopened: the task of a vehicle that fails stays assigned
MutReopened(u) == status

Reopened(u) == [t \in Tasks |-> IF t = duty[u] THEN "pending" ELSE status[t]]

Fail(u) ==
  /\ stage = "plan" /\ failures < MaxFailures /\ failures' = failures + 1
  /\ FailVehicle(u)
  /\ duty' = [duty EXCEPT ![u] = None]
  /\ to' = IF duty[u] = None THEN to ELSE [to EXCEPT ![u] = None]
  /\ status' = Reopened(u)
  /\ UNCHANGED <<ingress, relaying, level, stage>>

\* a relay that recovers is no relay any more
Recover(u) == /\ stage = "plan" /\ RecoverVehicle(u)
              /\ relaying' = relaying \ {u}
              /\ UNCHANGED <<ingress, to, level, status, duty, stage, failures>>

\* a scenario puts the vehicles anywhere; those with a coordinator start in the
\* range of the ground station
AllocationInit ==
  /\ up = UAVs /\ now = 0
  /\ level \in Levels
  /\ \E start \in {"DEPLOYING", "COMPLETE"} :
       /\ ingress = [status |-> start, relays |-> <<>>, surveyors |-> <<>>]
       /\ at \in [UAVs -> {p \in 0..FarEnd : start = "DEPLOYING" => p <= MaxRange}]
  /\ relaying = {} /\ to = [u \in UAVs |-> None]
  /\ status = [t \in Tasks |-> "pending"]
  /\ duty = [u \in UAVs |-> None]
  /\ stage = "plan" /\ failures = 0

AllocationNext == \/ PlanIngress \/ Allocate \/ Work
                  \/ \E u \in UAVs : Fail(u) \/ Recover(u)

\* the loop of ticks goes on
AllocationSpec == /\ AllocationInit /\ [][AllocationNext]_vars
                  /\ []<><<TRUE>>_vars

-----------------------------------------------------------------------------
(* Properties *)

\* A task is assigned exactly when one vehicle, and only one, holds it, and flies
\* to it; a relay of the deployment holds none.
AllocationTypeOK ==
  /\ NetworkTypeOK /\ IngressTypeOK
  /\ status \in [Tasks -> {"pending", "assigned", "done"}]
  /\ duty \in [UAVs -> Tasks \cup {None}]
  /\ \A t \in Tasks : Cardinality({u \in UAVs : duty[u] = t}) =
                      IF status[t] = "assigned" THEN 1 ELSE 0
  /\ \A u \in UAVs : duty[u] # None => to[u] = TaskPlace[duty[u]] /\ u \notin relaying

\* who holds a task of those that had none, and who would have suited it better
Holding(t) == {v \in Eligible : duty'[v] = t}
Envious(u, t) == /\ Score(u, t) # None /\ u \notin Holding(t)
                 /\ \A v \in Holding(t) : Score(u, t) > Score(v, t)

\* The outcome of a pass has no justified envy.  When a task goes to a vehicle
\* or stays open, every vehicle that would have suited it better has a task of
\* higher rank; so does, when it stays open, every vehicle fit for it at all.
NoJustifiedEnvy ==
  [][stage = "plan" /\ stage' = "fly" /\ ingress.status # "DEPLOYING" =>
       \A t \in Open, u \in Eligible :
         Envious(u, t) => duty'[u] # None /\ Before(duty'[u], t)]_vars

\* Looking at destinations, the only vehicle in touch with the ground station
\* is not sent out of its range while others are connected through it.
\* (tests/autonomy/test_a1_destination_aware.py)
Gateways == {u \in up : {u, GCS} \in Links}

GatewayStays ==
  [][stage = "plan" /\ stage' = "fly" /\ level = "destination" =>
       \A u \in Eligible :
         duty'[u] # None /\ Gateways = {u} => TaskPlace[duty'[u]] <= MaxRange]_vars

\* The allocators do not deadlock: once everybody is deployed, a task in the
\* range of the ground station is not left open for ever while a vehicle is up
\* that does not relay, though A1 refuses moves that would cut somebody off.
\* (docstring of a1_allocator.py)
Staffed == ingress.status # "DEPLOYING" /\ up \ relaying # {}

NearTasksServed ==
  \A t \in Tasks : TaskPlace[t] <= MaxRange /\ Deadline[t] = 0 =>
    (status[t] = "pending" /\ Staffed ~> status[t] # "pending" \/ ~Staffed)

\* The deployment comes to its end, whoever fails on the way, when the whole team
\* was recruited and everybody who failed has recovered: each vehicle waits for
\* others to give it a route, and none may take the route of another, but they do
\* not wait for each other.  (class docstring of ingress_coordinator.py)
TeamIsUp == up = UAVs /\ UAVs = Range(ingress.relays) \cup Range(ingress.surveyors)

DeploymentEnds == <>[]TeamIsUp => <>(ingress.status = "COMPLETE")
=============================================================================
