------------------------- MODULE ConnectivityMission -------------------------
(***************************************************************************)
(* The tick of a mission with relays: the step of the relay manager, the   *)
(* connectivity-aware planner (autonomy/connectivity_planner.py), service  *)
(* and completion of tasks, and the world (simulation/runner.py).          *)
(*                                                                         *)
(* Allocation is reassessed in every tick.  Of the endurance check of the  *)
(* planner remains that a ready vehicle passes it, a used one may and a    *)
(* weary one does not; the utility of the allocator, which ranks the       *)
(* feasible vehicles, and the priorities of the tasks are left open.       *)
(* Vehicles fly one place a tick.                                          *)
(***************************************************************************)
EXTENDS RelayManager, FiniteSets

CONSTANTS MultiSortie, \* allow_multi_sortie: landed vehicles recharge
          Tolerance,   \* disconnected_replan_tolerance_s, in ticks
          MaxEvents    \* bound on discoveries and incidents together

ASSUME MissionAssumption ==
  MultiSortie \in BOOLEAN /\ Tolerance \in Nat \ {0} /\ MaxEvents \in Nat

VARIABLES lost,       \* _disconnected_time
          events      \* discoveries and incidents so far

vars == <<fleet, task, batch, mgr, stage, agenda, lost, events>>

\* the loops of a tick in their order, and where a batch is applied
Loops == <<"world", "struck", "chains", "singles", "relays", "surveyors", "idle", "relayed",
           "monitor", "monitored", "plan", "planned", "serve", "served",
           "recall", "fly">>
Obeying == {"relayed", "monitored", "planned", "served"}

(***************************************************************************)
(* Monitoring the active surveyors.                                        *)
(***************************************************************************)
ActiveSurveyors == {s \in UAVs : /\ Active(s) /\ fleet[s].task # None
                                 /\ fleet[s].role = "SURVEYOR"}

ChainOf(s) == IF mgr.chainOf[s] = None THEN None ELSE mgr.chains[mgr.chainOf[s]]

InPlace(c, i) == LET u == c.relays[i]
                 IN  OnMission(u) /\ Connected(u) /\ fleet[u].at = i

\* is_chain_physically_ready
PhysicallyReady(c) == /\ OnMission(c.surveyor) /\ Connected(c.surveyor)
                      /\ \A i \in Stations(c) : InPlace(c, i)

\* mutant of Staging: a relay waits for those up to its own station
MutStaging(c, i) == IF \A j \in 1..i : InPlace(c, j) THEN i ELSE 0

\* a relay leaves the holding area when those before it are in place
Staging(c, i) == IF \A j \in 1..(i - 1) : InPlace(c, j) THEN i ELSE 0

StagingCommands(c) ==
  FlattenSeq([i \in Stations(c) |->
    LET u == c.relays[i]
    IN  IF Active(u) /\ fleet[u].to # Staging(c, i)
          THEN SetTarget(u, Staging(c, i)) ELSE <<>>])

\* the relay a surveyor counts on is gone
RelayGone(s) ==
  LET r == mgr.terminal[s] IN
  /\ r # None
  /\ ~Active(r) \/ (fleet[r].condition = "returning" /\ fleet[r].role # "RELAY")

Overdue(s, ticks) == ticks >= Tolerance /\ fleet[s].at > 1

\* mutant of Severed: only time without a connection counts
MutSevered(s, c, ticks, forming) == Overdue(s, ticks) /\ ~forming

\* the task is given up: a relay went without replacement, or the surveyor was
\* out of contact too long
Severed(s, c, ticks, forming) ==
  \/ IF c = None THEN RelayGone(s) ELSE c.status = "DEGRADED"
  \/ Overdue(s, ticks) /\ ~forming

Redirect(s, place) == IF fleet[s].to = place THEN <<>> ELSE SetTarget(s, place)

\* mutant of Hold: the surveyor is sent to its task whatever the chain
MutHold(s, ready) == Redirect(s, fleet[s].task)

Hold(s, ready) == Redirect(s, IF ready THEN fleet[s].task ELSE 0)

\* monitor_active_tasks, for surveyor s
MonitorSurveyor ==
  /\ stage = "monitor" /\ agenda # {}
  /\ Rest
  /\ LET s == Turn
         c == ChainOf(s)
         t == mgr.chainOf[s]
         out == IF Connected(s) THEN 0
                ELSE IF lost[s] < Tolerance THEN lost[s] + 1 ELSE Tolerance
         forming == c # None /\ c.status = "FORMING"
         ready == c = None \/ PhysicallyReady(c)
         staging == IF forming THEN StagingCommands(c) ELSE <<>>
     IN  IF Severed(s, c, out, forming /\ ~ready)
           THEN /\ lost' = [lost EXCEPT ![s] = 0]
                /\ mgr' \in IF c = None THEN {mgr} ELSE Teardown(mgr, t)
                /\ Send(staging \o ReleaseTask(s) \o StartRTH(s)
                         \o (IF c = None THEN <<>> ELSE TeardownCommands(mgr, t)))
           ELSE /\ lost' = [lost EXCEPT ![s] = out]
                /\ mgr' = IF forming /\ ready THEN Marked(mgr, t, "ACTIVE") ELSE mgr
                /\ Send(staging \o Hold(s, ready))
  /\ UNCHANGED <<fleet, task, stage, events>>

(***************************************************************************)
(* Planning.                                                               *)
(***************************************************************************)
\* vehicles that got something to do earlier in this pass
Enlisted == {batch[i].uav : i \in DOMAIN batch}

Candidates == {u \in UAVs \ Enlisted :
                 OnMission(u) /\ fleet[u].task = None /\ fleet[u].role # "RELAY"}

Covered(t) == \E r \in UAVs : /\ fleet[r].role = "RELAY"
                              /\ OnMission(r) /\ Connected(r)
                              /\ Gap(fleet[r].at, t) <= 1

Busy == {u \in UAVs : fleet[u].task # None}

TeamFor(u, t) == IF t <= 1 \/ Covered(t) THEN <<>>
                 ELSE Team(mgr, u, t - 1, Enlisted \union Busy)

\* check_task_connectivity_feasibility
Feasible(u, t) == Fit(u) /\ TeamFor(u, t) # None

Muster(team, s) ==
  FlattenSeq([i \in DOMAIN team |->
    AssignRelay(team[i], i, s) \o SetTarget(team[i], IF i = 1 THEN 1 ELSE 0)])

\* the tasks in the order of their priority, which may be any
PlanTask ==
  /\ stage = "plan"
  /\ \E t \in agenda :
     /\ agenda' = agenda \ {t}
     /\ \/ /\ \A u \in Candidates : fleet[u].condition = "ready" => ~Feasible(u, t)
           /\ UNCHANGED <<batch, mgr>>
        \/ \E u \in Candidates :
             /\ Feasible(u, t)
             /\ LET team == TeamFor(u, t) IN
                IF team = <<>>
                  THEN Send(AssignTask(u, t)) /\ UNCHANGED mgr
                  ELSE /\ mgr' = Register(mgr, t, u, team)
                       /\ Send(Muster(team, u) \o AssignTask(u, t)
                                 \o SetTarget(u, fleet[u].at))
  /\ UNCHANGED <<fleet, task, stage, lost, events>>

(***************************************************************************)
(* Service.  A completed task ends the chain of its surveyor, which is not *)
(* always the chain of the task: TASK_COMPLETED carries no task_id, so the *)
(* runner finds a chain through surveyor_to_chain only.                    *)
(***************************************************************************)
Workers == {u \in UAVs : fleet[u].task # None /\ fleet[u].at = fleet[u].task}

Serve ==
  /\ stage = "serve" /\ agenda # {}
  /\ Rest
  /\ UNCHANGED <<stage, lost, events>>
  /\ LET u == Turn
         t == mgr.chainOf[u]
     IN  \/ UNCHANGED <<fleet, task, batch, mgr>>
         \/ /\ fleet' = [fleet EXCEPT ![u].task = None, ![u].role = "IDLE"]
            /\ task' = [task EXCEPT ![fleet[u].task] = "done"]
            /\ mgr' \in IF ChainOf(u) = None THEN {mgr} ELSE Teardown(mgr, t)
            /\ Send(Release(u) \o SetTarget(u, 0)
                     \o (IF ChainOf(u) = None THEN <<>> ELSE TeardownCommands(mgr, t)))

\* sent back to the holding area and there, or not fresh any more
Recyclable(u) == IF fleet[u].at = 0 THEN fleet[u].to = 0
                 ELSE fleet[u].condition \in {"used", "weary"}

\* a task still hidden is not in the store, so it does not count
AllDone == LET known == {t \in Tasks : task[t] # "hidden"}
           IN  known # {} /\ \A t \in known : task[t] = "done"

\* when every task is done everybody returns; before that, where landed vehicles
\* recharge, those who have nothing to do
Recalled ==
  IF AllDone THEN {u \in UAVs : OnMission(u)}
  ELSE {u \in UAVs : /\ MultiSortie /\ OnMission(u)
                     /\ fleet[u].role = "IDLE" /\ fleet[u].task = None
                     /\ Unchained(u) /\ Recyclable(u)}

Recall ==
  /\ stage = "recall" /\ agenda # {}
  /\ Rest
  /\ fleet' = [fleet EXCEPT ![Turn] = Homeward(@)]
  /\ UNCHANGED <<task, batch, mgr, stage, lost, events>>

(***************************************************************************)
(* The physical step and what happens to the fleet.                        *)
(***************************************************************************)
Toward(r) == IF r.to = None \/ r.to = r.at THEN r.at
             ELSE IF r.to > r.at THEN r.at + 1 ELSE r.at - 1

\* a vehicle back at its base is ready again when it is charged
Charged(r) == [r EXCEPT !.condition = "ready", !.role = "IDLE", !.to = None]

Flown(r) ==
  CASE r.condition = "home" -> r
    [] r.condition = "returning" /\ r.at = 0 ->
         [r EXCEPT !.condition = "home", !.role = "IDLE", !.to = None]
    [] OTHER -> [r EXCEPT !.at = Toward(r)]

Pass == /\ stage' = "world" /\ agenda' = {}
        /\ UNCHANGED <<task, batch, mgr, lost>>

\* vehicles the separation rules may hold back, and those that may be charged
Holdable == {u \in UAVs : OnMission(u) /\ Toward(fleet[u]) # fleet[u].at}
Chargeable == {u \in UAVs : MultiSortie /\ ~fleet[u].failed /\ fleet[u].condition = "home"}

Fly ==
  /\ stage = "fly"
  /\ Pass
  /\ \E held \in SUBSET Holdable, charged \in SUBSET Chargeable :
       /\ events' = events + Cardinality(held)
       /\ events' <= MaxEvents
       /\ fleet' = [u \in UAVs |-> IF u \in held \/ fleet[u].failed THEN fleet[u]
                                   ELSE IF u \in charged THEN Charged(fleet[u])
                                   ELSE Flown(fleet[u])]

\* any number of incidents at the beginning of a tick
Incident == /\ stage = "world" /\ UNCHANGED <<batch, mgr, stage, agenda, lost>>
            /\ events < MaxEvents /\ events' = events + 1

Fail(u) == /\ Incident /\ Active(u)
           /\ Write(u, Lost(fleet[u]))
           /\ task' = Dropped(u)

Recover(u) == /\ Incident /\ fleet[u].failed
              /\ Write(u, [fleet[u] EXCEPT !.failed = FALSE, !.role = "IDLE"])
              /\ UNCHANGED task

Tire(u) == /\ Incident /\ Active(u) /\ fleet[u].at > 0
           /\ \E now \in {"used", "weary"} \ {fleet[u].condition} :
                /\ Fit(u)
                /\ Write(u, [fleet[u] EXCEPT !.condition = now])
           /\ UNCHANGED task

Discover(t) == /\ Incident /\ task[t] = "hidden"
               /\ task' = [task EXCEPT ![t] = "open"]
               /\ UNCHANGED fleet

\* after them the safety assessor sends vehicles home, again any number
TriggerRTH(u) == /\ stage \in {"world", "struck"} /\ stage' = "struck"
                 /\ UNCHANGED <<batch, mgr, agenda, lost, events>>
                 /\ Active(u) /\ fleet[u].condition = "weary"
                 /\ Write(u, Homeward(fleet[u]))
                 /\ task' = Dropped(u)

World == \/ \E u \in UAVs : Fail(u) \/ Recover(u) \/ Tire(u) \/ TriggerRTH(u)
         \/ \E t \in Tasks : Discover(t)

(***************************************************************************)
(* The tick: loop after loop, those with nothing to visit left out.        *)
(***************************************************************************)
\* chains that have something to visit
Visited == {t \in Live(mgr) : ChainVisits(t) # {}}

\* the agendas a loop may have; chains are visited in the order of their
\* registration, which is any, everybody else in the order of the ids
Agendas(loop) ==
  CASE loop = "chains"    -> {UNION {{turn[t]} \X {t} \X ChainVisits(t) : t \in Visited} :
                                turn \in Injection(Visited, 1..Cardinality(Visited))}
    [] loop = "singles"   -> {SingleVisits}
    [] loop = "relays"    -> {RelayVisits}
    [] loop = "surveyors" -> {StrandedSurveyors}
    [] loop = "idle"      -> {IdleRelays}
    [] loop = "monitor"   -> {ActiveSurveyors}
    [] loop = "plan"      -> {{t \in Tasks : task[t] = "open"}}
    [] loop = "serve"     -> {Workers}
    [] loop = "recall"    -> {Recalled}
    [] OTHER              -> {{}}

HasWork(loop) == \/ loop = "fly"
                 \/ loop \in Obeying /\ batch # <<>>
                 \/ \E a \in Agendas(loop) : a # {}

Proceed ==
  /\ agenda = {} /\ stage # "fly"
  /\ stage \in Obeying => batch = <<>>
  /\ LET here  == CHOOSE i \in DOMAIN Loops : Loops[i] = stage
         later == {i \in DOMAIN Loops : i > here /\ HasWork(Loops[i])}
         loop  == Loops[CHOOSE i \in later : \A j \in later : i <= j]
     IN  /\ stage' = loop
         /\ agenda' \in Agendas(loop)
  /\ UNCHANGED <<fleet, task, batch, mgr, lost, events>>

Init ==
  /\ ManagerInit
  /\ fleet = [u \in UAVs |-> [condition |-> "ready", failed |-> FALSE,
                             role |-> "IDLE", task |-> None, at |-> 0,
                             to |-> None, relayFor |-> None]]
  /\ task = [t \in Tasks |-> "hidden"]
  /\ batch = <<>>
  /\ stage = "world" /\ agenda = {}
  /\ lost = [u \in UAVs |-> 0] /\ events = 0

Next == \/ StepRelays /\ UNCHANGED <<lost, events>>
        \/ stage \in Obeying /\ Obey /\ UNCHANGED <<mgr, stage, agenda, lost, events>>
        \/ MonitorSurveyor \/ PlanTask \/ Serve \/ Recall \/ Fly \/ World \/ Proceed

Spec == Init /\ [][Next]_vars /\ []<><<TRUE>>_vars

(***************************************************************************)
(* Properties.                                                             *)
(***************************************************************************)
Status(t) == IF mgr.chains[t] = None THEN None ELSE mgr.chains[t].status

\* every chain kept for a task has one relay per station, and a task is
\* taken exactly when a vehicle holds it
RelayTypeOK ==
  /\ fleet \in [UAVs -> Vehicle]
  /\ task \in [Tasks -> {"hidden", "open", "taken", "done"}]
  /\ \A t \in Tasks : (task[t] = "taken") <=> (\E u \in UAVs : fleet[u].task = t)
  /\ \A t \in Live(mgr) : mgr.chains[t] \in ChainFor(t)

\* the vehicles that hold station i of chain c or are on the way to it
Posted(c, i) == {c.relays[i]} \union
                (IF c.pending[i] = None THEN {} ELSE {c.pending[i].replacement})

\* each station has a vehicle of its own, and so has every handoff
Apart(c) ==
  \A i \in Stations(c) :
    /\ c.surveyor \notin Posted(c, i)
    /\ c.pending[i] # None => c.pending[i].replacement # c.relays[i]
    /\ \A j \in Stations(c) : i # j => Posted(c, i) \intersect Posted(c, j) = {}

\* Every station of a chain has a vehicle of its own, and so has every handoff:
\* however often relays are replaced, by candidates taken one after the other
\* from one snapshot, nobody is posted at two stations of a chain, relieves
\* itself, or is the surveyor the chain is for.
StaffedApart == \A t \in Live(mgr) : Apart(mgr.chains[t])

\* Nobody is called away from work: from the moment the manager or the planner
\* picks a vehicle from the snapshot until the store has carried the command
\* out, whoever is told to be a relay has no task, although the planner gives
\* out tasks in the same batch.
CalledAreFree ==
  \A c \in Range(batch) : c.type = "AssignRelayRole" => fleet[c.uav].task = None

\* at its task t vehicle s has a link to the ground station without a chain of its own
WithinReach(s, t) == \/ t <= 1
                     \/ \E r \in UAVs \ {s} : Connected(r) /\ Gap(fleet[r].at, t) <= 1

\* the chain vehicle s counts on lost a relay that nobody could replace
Degraded(s) == ChainOf(s) # None /\ ChainOf(s).status = "DEGRADED"

\* A chain that lost a relay without replacement is given up: when the fleet
\* flies, no surveyor at work is still behind a degraded chain and needs it,
\* also one that lost its task to a handoff and got another in the same tick.
NoneWorksDegraded ==
  stage = "fly" => \A s \in ActiveSurveyors :
                     Degraded(s) => WithinReach(s, fleet[s].task)

Occupied(p) == \E u \in UAVs : Active(u) /\ fleet[u].at = p

\* A surveyor with a chain flies outward only over occupied stations of it, up to
\* the place it heads for, whatever failures, handoffs and second duties happen
\* meanwhile.
AdvancesBehindRelays ==
  [][stage = "fly" => \A s \in ActiveSurveyors :
       ChainOf(s) # None /\ fleet'[s].at > fleet[s].at =>
         \A i \in Stations(ChainOf(s)) : i < fleet[s].to => Occupied(i)]_vars

\* A chain that forms comes to an end of it: it becomes operational, or is
\* handed over, or is given up.
FormingEnds == \A t \in Tasks : Status(t) = "FORMING" ~> Status(t) # "FORMING"

(***************************************************************************)
(* Claims of the documentation the code does not keep.                     *)
(***************************************************************************)
\* the stations vehicle u holds or is on the way to, in any chain
Posts(u) == {i \in Places : \E t \in Live(mgr) : i \in Stations(mgr.chains[t])
                                              /\ u \in Posted(mgr.chains[t], i)}

\* One vehicle has one duty: nobody is posted at two stations, and the surveyor
\* of a chain is no relay of one.
OneDuty ==
  /\ \A u \in UAVs : Cardinality(Posts(u)) <= 1
  /\ \A t \in Live(mgr) : Posts(mgr.chains[t].surveyor) = {}

\* Once all tasks are done no vehicle is sent out as a relay.
NobodyConscripted ==
  [][(\A t \in Tasks : task[t] = "done") =>
       \A u \in UAVs : fleet'[u].role = "RELAY" => fleet[u].role = "RELAY"]_vars

\* A teardown releases relays no surveyor needs any longer: never one that is
\* a relay of another chain.
SharedRelaysStay ==
  [][\A t \in Live(mgr), u \in UAVs :
       u \in Range(mgr.chains[t].relays) /\ Status(t) = "ACTIVE" /\ OnMission(u)
       /\ mgr'.chains[t] # None
         => mgr'.member[u] # None \/ u \notin Range(mgr'.chains[t].relays)]_vars

=============================================================================
