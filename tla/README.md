# AetherSwarm in TLA+

TLA+ models of the mission core of AetherSwarm (`src/src/ares_swarm`), a
deterministic, single-threaded simulator of a UAV swarm: the state store and its
commands, the tick of the mission runner, the ground departure sequencer, the
communication network with telemetry, the relay manager with the connectivity
planner, the initial deployment, the allocators, and the physical step under the geofence and the
separation rules. TLC checks them on small fleets; TLAPS proves the safety
properties of store, tick, departure sequencer, network analysis, telemetry,
relays, allocation and separation for every fleet and every set of tasks.

There are no threads here. What makes the code hard is that one tick is a dozen
phases, each of which decides on a snapshot and hands a batch of commands to the
store, which sorts the batch and applies the commands one by one; that several
components keep their own records of a vehicle next to the store's; and that
failures and recoveries fall between any two ticks.

## 1. The system

| Component (source) | State | Operations | Modelled |
| --- | --- | --- | --- |
| State store (`core/state_store.py`, `commands.py`, `models.py`) | UAV and task records | `apply`, one branch for each of 17 commands; `snapshot`; clock | `StateStore`, complete |
| Mission runner (`simulation/runner.py`, `core/simulator.py`) | news flags, time of the last allocation | the phases of `step`, `run` | `MissionLoop` without relays, `ConnectivityMission` with them |
| Event scheduler (`core/event_scheduler.py`) | list of failures and recoveries | `due_events` | as a free choice |
| Discovery (`simulation/discovery.py`) | hidden POIs, discovered ids | `step` | in `MissionLoop` |
| Allocators A0, A1 (`autonomy/task_allocator.py`, `a1_allocator.py`, `a0_adapter.py`) | none | `plan`, `allocate` | `Allocation` without endurance; free scores in `MissionLoop` |
| Safety assessor (`safety/safety_assessor.py`) | flight records, violations | `assess_snapshot`, `evaluate_rth_triggers` | in `MissionLoop` |
| RTH router (`safety/rth_router.py`) | lane of each vehicle | `step` | in `MissionLoop` |
| Departure sequencer (`safety/departure.py`) | queue, slot, phase and target of each vehicle | `step` | `DepartureSequencer`, complete |
| Relay manager (`autonomy/relay_manager.py`) | chains, reference counts, pending handoffs | `step`, `register_chain`, `teardown_chain` | `RelayManager`, complete up to energies |
| Connectivity planner (`autonomy/connectivity_planner.py`) | disconnection timers | `monitor_active_tasks`, `plan` | `ConnectivityMission`, utility left open |
| Ingress coordinator (`autonomy/ingress_coordinator.py`) | status, relays and surveyors of the deployment | `plan` | `Ingress`, teams of less than five |
| Telemetry (`telemetry/manager.py`) | detected tasks, reports, pending queue | `step_perception`, `step_telemetry` | `Telemetry`, complete |
| Communication (`communication/*`) | none | `analyze`: links, components, routes | `Network`, on a line |
| Separation, geofence (`safety/separation.py`, `geofence.py`) | counters | `enforce_step`, `compute_effective_movement` | `Separation`, `Geofence`, on a grid |
| Metrics, scenario, replay, Webots, scripts | reports, set-up | | not modelled |

**How they interact.** `MissionRunner.step` calls the components in a fixed
order. A component reads `state_store.snapshot()` and returns commands; the
runner passes them to `state_store.apply`, which is the only thing that changes
a vehicle or a task. The assessor's flight records, the sequencer's tables, the
dictionaries of the relay manager, the planner's timers, the reports and the
runner's flags are the only other state, and each is updated at its own point of
the tick. The analysis of the network is made once a tick and given to planner,
relay manager, allocator A1 and telemetry.

**What is hard.** Batches are applied in the order of (uav id, class name), not
in the order the phases wrote them. A command is checked again when its turn
comes, on the state the ones before left. The pair `assigned_task_id` /
`assigned_uav_id` is written by nine branches. Flight records and departure
phases lag behind the store. The relay manager keeps six dictionaries about who
relays for whom, written in a dozen places of one loop. Moves are approved one
vehicle after the other. A vehicle may fail in any state of its sortie and
recover in any later one. `PROJECT.json` lists the hazards, each at its line.

**What makes each part correct.** Store: the two records of who serves what
agree, completed work is kept. Tick: no command of a phase has become illegal
when it is applied, whoever holds a task can fly to it, low batteries go home,
vehicles land on their pad, the run ends with everybody home, and everything
started ends. Sequencer: its tables agree, held vehicles stay, nobody waits for
ever. Network and telemetry: the analysis is consistent, routes are least, every
report has one author and one verdict, in time. Relays: a vehicle of its own
for each station of a chain, nobody called away from work, surveyors that fly behind
complete chains and do not work behind broken ones.
Allocation: the deployment before it ends, nobody with a better claim goes
without, no move cuts off others, no near task starves. Physical step: every pair keeps its distance throughout the
step, and everybody arrives without leaving the airspace.

## 2. Modules

```
StateStore ----- MCStateStore            the store alone, any commands
   |
MissionLoop ---- MissionProofs           one tick on top of the store; theorems on both
   |                    |
DepartureSequencer - SequencerProofs     the tick with the sequencer in it
                        |
                  LeastNumbers           induction, recursion
                        |
Network -------- NetworkProofs           what the analysis computes
   |                    |
   |-- Telemetry -- TelemetryProofs      reports over a changing network
   |        |    \- MCTelemetry
   |        \ implements Reporting       (INSTANCE ... WITH)
   |
   \-- Ingress -- Allocation -- MCAllocation  deployment, A0 and A1 on that network
                        \------ AllocationProofs

RelayFleet ----- RelayManager -- ConnectivityMission   a tick with relays
                                         \------ RelayProofs

Geofence ------- Separation -- MCSeparation   the physical step on a grid
                        \----- SeparationProofs
```

**`StateStore`.** `uav` and `task` are the dictionaries of the store, `inbox` is
what is left of the batch of the current call of `apply`. `ApplyNext` is one
iteration of the loop: it takes the least command by `Precedes` (the sort key)
and either applies it (`Accepts`, then one operator per branch) or rejects it.
`StoreSpec` lets the caller submit any set of commands, so what holds of it is
what the store guarantees whoever calls it; what the callers have to guarantee is
said of the tick. Abstractions: positions are
regions (launch pad, staging corridor, arena, one region per task site); a
battery is *low* (enough for the way back only) or not; `service_progress`
counts down; HIDDEN stands for a POI that is not in the store yet;
`failure_state` is NORMAL or FAILED, the values the scheduled events use;
`role` and `rth_state` leave out values no command sets (SCOUT,
EMERGENCY_SCOUT, REQUIRED); `assignment_lock_until` is never set by a command
and left out; events, versions and reasons are left out, except for the events
the runner reacts to (in `MissionLoop`). A batch is a set, so two
equal commands in one batch would be one; no phase sends any.

**`MissionLoop`.** `phase` is the program counter of `step`; each phase is one
action that reads the store and submits its batch through `Emit`, and
`ApplyCommand` handles one command. The next phase runs when the batch is empty.
`airborne` and `landed` are the flight records of the assessor, `reassess` is
`_newly_freed_uav or _new_task_visible`, `since` counts ticks since the last
allocation, `finished` holds the TASK_COMPLETED events the runner turns into
releases, `expired` the tasks whose deadline has passed. What depends on
coordinates and energies is a choice within what the code allows: which
vehicles see a hidden task, which pairs the greedy allocation makes
(`Matchings`: it stops when it runs out of tasks or of vehicles), how far a
vehicle gets in a tick (`Ahead`: to any region on the way to its target, or
nowhere), when a battery becomes low or full. `low` stands for the battery
trigger of `evaluate_rth_triggers`. Of the two energy conditions of
`is_task_feasible`, the one on `estimated_rth_energy` never excludes anybody, since
`UAVState` has no such field; the other (15 %) may hold of a low battery or not, so
that `Allocate` may pass over a low vehicle or take it. Phase 5.5 (`Depart`) may give vehicles of the
staging area any target the sequencer could.

**`DepartureSequencer`.** The four tables of the class and `Sequence`, one call
of `step`, in the order of its sections: recalled and restaged vehicles, the
slot holder by how far east it is (`Zones`), the queue, the release, the
commands. It replaces `Depart` and is checked to implement `MissionLoop`
(property `MissionSpec`). The queue is sorted after every insertion, so a set
and `First` stand for it.

**`Network`.** The line stands for the arena: a place is a number of steps from
the ground station, and range, cost and latency are counted in steps. `Links` is
what `ChannelModel.evaluate` and `build_network_graph` make of positions, failed
nodes and the conditions of the scenario (`outage`, `lossy`, `slow` for a pair
and an interval; two conditions of a pair do not overlap). The link budget is
one constant, `MaxRange`. The components are what a flood from a node reaches
(`Ball`, `ComponentOf`). `Routes` is the search of `shortest_path_routing`, level
by level: the routes `Known` so far are each `Extended` by the unrouted
neighbours in the order of their ids, which is the order the queue of the code
gives; the latency of a route (`RouteLatency`) is the base latency, one unit, and
one more for each slow link; `ReliableRoute` rebuilds a route from tight edges as
`reliability_aware_routes` does. `World` flies, fails and recovers vehicles at
any time.

**`Telemetry`, `Reporting`.** `Tick` is the end of a step: the analysis, then
`step_perception` (`Perceived`), then `step_telemetry` (`Disseminated`). A vehicle
perceives when it is `Airborne`, that is, active and off its base: the flight
records of the assessor say so of exactly these, and COMPLETE it is on its pad only.
A report keeps its age in ticks instead of the time of its detection. `Reporting` is the
abstract specification, what the ground station is promised: one author and one
verdict for each site, nothing delivered late, nothing open for longer than a
bound. `Promise` in `Telemetry` instantiates it with a refinement mapping from
`report`, and the run checks `Promise!Spec` and, under fairness of `Tick`,
`Promise!EveryReportCloses`.

**`RelayFleet`, `RelayManager`, `ConnectivityMission`.** The map is a line
measured in hops: the k-th relay of a chain stands at place k, and place 0 is the
ground station, its pads and the holding area at the mouth of the corridor. A
command has the fields the store reads, `Obey` applies a batch in the order of
`Rank`. `mgr` holds the dictionaries of the class under short names, listed in
the module. Each loop of `step`, of the planner and of the tick is an *agenda*,
and one action handles one item of it: `ChainVisits` is the loop over the
stations of the chains (handoffs under way, lost relays, relays near their
return), `SingleVisits` and `RelayVisits` the ones over relays without a chain,
`StrandedSurveyors` and `IdleRelays` the rest. Loops with nothing to do are
skipped, which saves states and hides nothing. Battery and sortie clock are what
the code asks of them: a vehicle is `ready`, or `used` (less than 70 % or 300 s
left: it ranks lower as a relay, the endurance check of a task may exclude it, and
it is recalled when it has nothing to do), or `weary` (near its return and not
eligible for new work), then `returning`, then `home`, where it may be charged and
become `ready` again, after any number of ticks. It tires at any time, and any
number of failures, recoveries and tirings, and then of return-to-home triggers,
fall into one tick. The utility that ranks feasible vehicles and the priorities
that rank the tasks are left open, and so is which of its surveyors a shared relay
serves after a teardown (`Heirs`: the first of a Python set). Place 0 stands for pads
and holding area both, so an idle vehicle there counts as being at staging when
it was sent there (`Recyclable`; runner, line 732). A completed task ends the chain
of its surveyor (`Serve`), not the one made for the task, because the payload of
TASK_COMPLETED names the vehicle only (runner, lines 633 and 654).

**`Ingress`, `Allocation`.** `Deploy` is `plan` of the coordinator with what the
store makes of its commands: `Recruited` names the team, `Orders` walks through
relays and surveyors with the network each order leaves (`LinksAt(places)` are
the links with vehicles at other places than they are). It runs in the place of the allocator
until it is complete (`PlanIngress`); a mission without coordinator starts with
the deployment complete, one with it starts in the range of the ground station.
Its chain and holding place are constants on the line, one place for all
surveyors (a team of less than five has one). The status is never set to HOLDING
or ABORTED by the code. `Score` is the utility of A0 or its damped form of A1, with
integers and per mille; A1 looks at destinations with `LinksAt`, too. `Matching` is the
greedy pass in the order of `Before`. Service and flight between two passes are one action.
Locks, battery and endurance are not part of it.

**`Geofence`, `Separation`.** A grid: the corridor with the pads west of x = 0,
the wider arena east of it. A step is two units in each direction it has, in the
eight headings of the grid; `Portal` is the steering through the mouth, with the
crossing point computed exactly. `MovesAfter` gives each of a set of vehicles its
`Approved` move in order of priority, as the loop of `enforce_step` does; `Nears` is the exact minimum of the
quadratic in `min_continuous_separation`. A vehicle gets all, half or none of its
move (the bisection on this grid), or the best detour at 45 or 90 degrees. All of
the corridor is staging area, where vehicles that have failed, have landed or
have no target are exempt (`is_landed_at_gcs`). Targets lie inside, so the
truncation at the borders never applies; a failed vehicle never recovers here.

## 3. Runs

| Run | Shows |
| --- | --- |
| `StateStore` | Any single commands, valid or not, in any order to a store with two vehicles and two tasks: `HeldIsOwned`, `OwnerMatchesStatus`, `ServiceIsKept`. |
| `MissionMulti` | The tick with recharging: `OwnedIsHeld`, `WorkerFit`, `LowReturns`, `SnapshotStillValid`, `LandsOnPad`. |
| `MissionSingle` | The tick with one sortie, a deadline and the early end of `run`: `EndsAtHome`. |
| `Departure` | The sequencer in the tick: `QueueIsQueued`, `StagedStays`, it implements the abstract phase (`MissionSpec`), and under fairness `QueueDrains`. |
| `DepartureLive` | Under fairness, a vehicle in the tick with the sequencer that fails and recovers, in the slot too, between two tasks: `ReturnsHome`, `NoStarvedTask`, and `AssignmentResolves`, every assignment is served or given back, unless the sequencer has led the vehicle to the site of an earlier task (`Misled`). |
| `Telemetry` | Three vehicles on a network that changes: `AnalysisContract` (links, components, routes and connected vehicles agree), `RoutesAreLeast` (both routings against the least of all simple paths), the refinement `ReportsAsPromised`, `EveryReportCloses`, and `NoneLeftBehind` (a report is lost or waits for a reason of its own only). |
| `Relay` | Four vehicles, two tasks behind one and two relays: `StaffedApart` (a vehicle of its own for each station of a chain and each handoff), `CalledAreFree` (nobody is called away from work), `NoneWorksDegraded` (a chain that lost a relay for good is given up before the fleet flies), `AdvancesBehindRelays` (a surveyor flies outward over occupied stations only), and under fairness `FormingEnds`. |
| `Allocation` | A0 and both forms of A1 from any positions of three vehicles: `NoJustifiedEnvy`, `GatewayStays`, and under fairness `NearTasksServed`; with a deployment first, `DeploymentEnds`. |
| `Separation` | Three vehicles between a column of pads and a site on the border: `KeepsDistance`, `OnlyDetoursLeave`, `SteeringArrives`. |
| `RelayOrphan`, `RelayShared`, `SeparationDetour` | Where the code does not keep what its documentation says; see section 7. |

**Bounds.** *Store, tick, sequencer.* Two vehicles and one or two tasks: every
property relates at most two vehicles (an owner and a contender, a slot holder
and one that waits) and two tasks (the one held and the one offered).
`MaxEvents` = 2 scheduled failures and recoveries: one failure and one recovery
of the same vehicle, or the failures of both, at any two points (4 in `DepartureLive`, for one
vehicle and two tasks: it fails and recovers twice, which leads it to a wrong
site and away from it again). `MaxDrains` = 1 battery
that becomes low (0 in `Departure`, which stays small enough that way).
`Cadence` = 1: the allocator runs in every tick in which it has something to do;
2 in `Departure`, so that a vehicle can wait in the queue without a task and leave
it again.
`Service` = 1 tick of work, 2 in `StateStore` and `DepartureLive`, where a task
is also IN_PROGRESS between two commands. The theorems of section 5 hold for every value of
these. `MCStateStore` sends batches of one command: every order of commands is
reached, and the order inside a batch is exercised by the runs of `MissionLoop`.
`MissionSingle` switches deadlock checking off because `run` really stops.

*Telemetry.* Four places, a range of two and three vehicles: routes of one, two
and three hops, ties between them, and a link that breaks and is mended within
the deadline. `Delay` = 1 and `Deadline` = 3 make a report wait, expire, and
arrive late by its latency alone, of a route with slow links or without.

*Relay.* Tasks two and three hops away need one and two relays; four vehicles
man one of the chains with spares, or both with a shared relay (registered for
two surveyors). `MaxEvents` = 3 discoveries, failures, recoveries, tirings and
held moves in all, in one tick or in several, so both tasks and one incident, or
one task and two incidents, also in the same tick. Landed vehicles recharge and fly
again (`MultiSortie`). `Tolerance` = 2 ticks. With the same bounds the violation runs reach
their states.

*Allocation.* Five places and a range of two: a far task needs a vehicle on the
way, a near one does not; negative and equal scores occur. The deployment is a
chain of two relays, of which the first recruited has to wait for the second, and
a surveyor that has to wait for both. Three failures, so that also nobody may be
left when the team is recruited, and any number of recoveries.

*Separation.* Three vehicles, the least number in which one vehicle is between
two others that both wait for it; `MinSep` = 3 against a step of 2, so a step
may pass another vehicle without either end being near. `MaxEvents` = 3 targets,
recalls and failures. Distances are sampled eight times in a step and compared
exactly.

## 4. Fairness

`step` is called in a loop and never waits: weak fairness of the next step. A
vehicle with a target moves by `speed * dt` every tick, so it does not stay in
one region for ever: `Progresses(u)` (strong fairness, since the phase that moves
vehicles is enabled again and again, never continuously). The separation
enforcer may stop a vehicle in a tick; that it lets it through in the end is an
assumption of `DepartureLive`, and the freezes recorded in
`docs/SORTIE_ROTATION.md` are what it does not cover. A charging battery fills
linearly: `FillsUp(u)`. Nothing is assumed about failures, recoveries, drains,
discovery or the allocator's choices. `Departure` checks `QueueDrains` under less
(`DepartingSpec`): steps go on, and the holder of the slot, alone, gets through.

`Telemetry` assumes weak fairness of `Tick`, the end of each step, and nothing
about links or vehicles. `ConnectivityMission` and `Allocation` assume only that
steps go on (`[]<><<TRUE>>_vars`, the loop of `run`): their actions are taken in
a fixed order, and each tick ends after finitely many of them.

## 5. Proofs

`MissionProofs`, first the store: for any finite set of vehicles, any tasks, any
service time and any caller:

- `StoreTypeCorrect`: `StoreSpec => []StoreTypeOK`.
- `StoreOwnership`: `StoreSpec => []HeldIsOwned`, and `StoreOwnersMatch`:
  `StoreSpec => []OwnerMatchesStatus`. Neither is inductive by itself: an
  accepted `AssignTask` overwrites the owner of its task, so that no other
  vehicle holds it has to follow from its status being open, which is the other
  conjunct (an open task has no owner). Together with the types they are.
- `StoreKeepsService`: the action property `ServiceIsKept`.

Then the tick, for any values of the constants allowed by the assumptions:

- `MissionTypeCorrect`: `MissionSpec => []MissionTypeOK`.
- `MissionOwnership`: `MissionSpec => [](HeldIsOwned /\ OwnedIsHeld)`.
- `MissionWorkersFit`: `MissionSpec => []WorkerFit`.

`OwnedIsHeld` and `WorkerFit` do not hold of the store (an `AssignTask` to a
vehicle that already has a task is accepted), so their inductive invariant
`MissionInv` has to say what a batch may still contain. `BatchFits`: the batch
holds no relay command except the release of a role; a vehicle named by an
`AssignTask` or `BeginLanding` still in it has no task; and a batch with an
`AssignTask` holds only those, one for each vehicle. Every phase establishes it
(`PhaseStep` and one lemma for each phase), every command keeps it for the ones
behind it (`HandleAdvances`, by cases on the branch).

Its second half adds to `MissionInv` what the other safety properties
rest on (`SafetyInv`):

- `MissionSnapshotsValid`: `MissionSpec => []SnapshotStillValid`, no command of a
  phase is illegal when its turn comes;
- `MissionLandsOnPad`: `MissionSpec => LandsOnPad`;
- `MissionEndsAtHome`: `MissionSpec => []EndsAtHome`;
- `MissionLowReturns`: `MissionSpec => []LowReturns` when `SingleSortie` is
  FALSE; with single sorties the code does not keep it (section 7, 8.).

`BatchReady` says of every command still in the batch that it is legal now and
that no other command of the batch can change that: two commands of a batch name
different tasks, or different vehicles, or are of types that do not disturb each
other. So the order of the batch is not needed, only that the phases send such
batches. `Docked` ties the return of a vehicle to where it is and where it is
sent: whoever has landed or charges is on its pad, and only a vehicle called home
is on its way to it. `NoneUnreachable` (no phase gives a task up), `LowCalled`
(between the triggers and the end of their batch, every vehicle low and out has
its call in the batch) and `DoneAtHome` are what is left. Each phase and each
command is one lemma.

`SequencerProofs`, when the sequencer is switched on (`Sequenced`) and the sites
of `is_in_staging_area` are pad and corridor (`SitesStaged`, as in
`airspace.py`):

- `SequencerTypeCorrect`: `SequencerSpec => []SequencerTypeOK`;
- `SequencerTablesAgree`: `SequencerSpec => []QueueIsQueued`;
- `SequencerImplementsMission`: `SequencerSpec => MissionSpec`: every call of
  `step` is a `Depart`, so all of the above holds under the sequencer too;
- `SequencerHolds`: `SequencerSpec => StagedStays`.

They need each other (`SequencerInv`). The sequencer keeps its own phase of a
vehicle and looks at the store once a tick; a call of `step` is a `Depart` only
if the vehicles it counts as waiting still are in the staging area. `Parked` says
so, and also that they have nowhere to go when the physics run, or a command in
the batch that takes their target away; `Noticed` that a queued vehicle that was
called home leaves the queue before the return is completed.

`LeastNumbers`: a set of naturals that is not empty has a least member, and
induction and recursion, over the naturals and over the subsets of a finite set,
stated with sets and functions (`NaturalsBySteps`, `IteratesSteps`,
`SubsetsBySteps`, `OnSubsetsSteps`, `LoopExists`, `LoopEnds`). With these a recursive function of the models
can be unfolded, and what holds of it proved by induction.

`NetworkProofs`, for any available vehicles at any places under any schedule:

- `ContractHolds`: `AnalysisContract`. A flood that has not closed its component
  gains a node in each round, so it is closed after as many rounds as there are
  nodes; components are therefore equal or disjoint. `SearchInv` is the invariant
  of the search: after k levels the routed nodes are those within k hops, each
  with a valid route of that length. Cutting a route short leaves the route of
  the node before (`HopByHopHolds`).
- `LeastHolds`: `ShortestAreLeast`. Of two simple paths of equal length the one
  that is lexicographically smaller up to its last link is smaller, by the level
  of the search in which it was found (`RouteIsLeast`).
- `ReliableHolds`: `ReliableAreLeast`, about the other routing, whose links cost
  their length and a penalty. A link between two vehicles at one place can be
  free, so that the edges its routes are rebuilt from (`Tight`) can make cycles.
  As many rounds of relaxation as there are nodes price every reachable node with
  the cost of its best path (`LeastCostFinal`). The rebuilding goes on to the
  least onward node that can still finish without the trail so far; its invariant
  is that there is one (`RestFinishes`), so after as many steps as there are
  vehicles it stands at the ground station (`RebuiltEnds`); its cost is that of
  its first node, and a simple path that were smaller at the first place where
  they differ would have been an onward node there (`RebuiltIsLeast`).

`TelemetryProofs`, for any fleet that flies, fails and recovers at any time:

- `TelemetryTypeCorrect`: `TelemetrySpec => []TelemetryTypeOK`, where the age of a
  report is bounded;
- `AnalysisCorrect`: `TelemetrySpec => []AnalysisContract`, and `RoutesLeast`:
  `TelemetrySpec => []RoutesAreLeast`, both routings;
- `ReportsOnlyLateForCause`: `TelemetrySpec => NoneLeftBehind`;
- `TelemetryKeepsPromise`: `TelemetrySpec => ReportsAsPromised`, the refinement of
  `Reporting`. The invariant adds `Attributed` (a report has an author exactly
  when it is open or decided) to the types; `Serving` says what one pass of
  dissemination does with one report, and from it every `Tick` is a tick of the
  promise and every step of the world a stutter.

`SeparationProofs`, for any fleet in any airspace with any separation:

- `SeparationKeeps`: `SeparationSpec => KeepsDistance`. The invariant of the loop
  over the vehicles is that the moves given so far, with those of all others zero,
  keep every airborne pair apart (`AllSafe`): to stand still is then safe for
  whoever is next, so that every outcome of `Approved` is, and since the order is
  strict (`SomeoneIsLast`) nobody has two turns. `NotNearIsApart` is the
  arithmetic of the quadratic test: it holds at every eighth of the step if the
  test passes.
- `GeofenceContains`: `SeparationSpec => OnlyDetoursLeave`. The airspace is not
  convex, and headings are rounded, so that a vehicle may fly steeper than the line
  to its target. A step goes no farther than the target in either coordinate,
  which settles the moves inside corridor or arena and those to an edge of the
  mouth; on a line through the mouth it can miss the mouth only by what it rises
  in one step, and that is bounded by where the line meets the interface
  (`LeavingCorridor`, `EnteringCorridor`). Targets lie inside (`TargetsInside`).

`RelayProofs`, for any fleet, any tasks, any tolerance and any number of failures:

- `RelayTyped`: `Spec => []RelayTypeOK`;
- `StationsApart`: `Spec => []StaffedApart`;
- `CallsFindTheFree`: `Spec => []CalledAreFree`;
- `NobodyBehindDegraded`: `Spec => []NoneWorksDegraded`;
- `RelaysLead`: `Spec => AdvancesBehindRelays`.

The first three share the inductive invariant `RelayInv`. `Held`: a task is taken exactly
when a vehicle holds it, and by one. `AllApart` is `StaffedApart` itself; it is
kept because a chain changes in few ways (`Becomes`): a post goes to a candidate
that is in no chain and no handoff (`SelectedIsFree`, `ReservedPosts`) or to the
replacement that was waiting for it, an incumbent leaves the books, a team is
registered whose members were chosen one after the other and are therefore all
different (`TeamIsApart`, induction over the stations), or a chain ends
(`TeardownEnds`). `BatchSound` is what makes `CalledAreFree` inductive, which is
about vehicles and tasks that change while the batch is applied: every command
that gives a task *or* a relay role waits for a vehicle without a task, and no
vehicle is given two tasks. The planner is the only phase that gives tasks, each
to a vehicle that is not in the batch yet, and when a task is taken, the order of
the batch (`FirstIsWaiting`) says that no call of the same vehicle is behind it.
`Scheduled` says what of the snapshot an agenda was made from is still true when
its items have their turn: the chains to visit still exist and have the station,
the handoffs to visit are still open, who is monitored or served still has a
task, and who is recalled has none.

The other two are about the part of a tick from the monitoring to the flight
(`Late`), in which nobody moves or fails (`Steady`) and no chain becomes degraded
(`NoneDegrades`). That a completed task may leave its chain in the books, degraded
too, takes nothing away from them: what counts is the chain a surveyor is behind
when the fleet flies. They need no invariant that ties the six dictionaries to each
other, only that a chain a surveyor is in is in the books and that a relay has no
task (`RelaysAreFree`).

- `BackedInv`: every surveyor still at work, but those whose monitoring is still
  to come, and every vehicle a task is waiting for, is behind no degraded chain or
  reaches the task without one. The monitoring gives up the tasks of the others;
  whoever the planner picks gets a new chain (`RegisteredForms`) or is covered, and
  may then be in the books of a degraded chain of an earlier task.
- `SteeredInv`: the place a target in the batch leads to has only occupied stations
  of the vehicle's chain before it (`Guarded`); so has the place a surveyor heads
  for, unless a target for it or the end of its task is still in the batch (`Told`);
  a task waits together with such a target or leads to such a place. The chain is
  the one in the books then: the planner makes chains only for vehicles nothing was
  sent to yet, and `TakeTask` (rank 2) comes before `SetTarget` (rank 14), which
  corrects where the task leads. Since no loop is left before its batch is empty
  (`NextLoop`, `Emptied`), nothing but what a surveyor heads for counts at the
  flight.

Both properties were first stated more strongly, and the attempt at a proof showed
why they fail on larger fleets than the run has, because of vehicles with two
duties (item 9 of section 7).

`AllocationProofs`, for any team of less than five, any tasks, places and
schedule, and every level of the allocator:

- `AllocationTyped`: `AllocationSpec => []AllocationTypeOK`, so that a task is
  assigned exactly when one vehicle holds it, flies to it and does not relay. The
  invariant (`AllocationInv`) adds that vehicles and tasks name each other
  (`InTouch`) and that nobody holds a task while the deployment goes on
  (`IngressFirst`): that is why the coordinator's orders never take a vehicle
  away from its task;
- `PassesAreStable`: `AllocationSpec => NoJustifiedEnvy`. The invariant of the
  recursion over the open tasks is that who is taken is fit for its task and taken
  once (`Fits`), and that the tasks that had their turn are matched without
  justified envy among themselves (`Stable`). A later task takes nobody who is
  taken, and every task before it has a higher rank, so its turn creates no envy
  (`TurnIsStable`). Scores are integers, whatever the route (`ScoreIsInteger`), so
  there is always a best suitor (`SomeoneIsBest`);
- `TheGatewayStays`: `AllocationSpec => GatewayStays`. With the gateway out of its
  range the ground station has no neighbour, so its component, the least closed
  set, is itself alone and the move does not pass `Preserves` (`GatewayIsNeeded`).

The first two attempts at `AllocationTyped` failed for reasons of the model, and
the model was corrected: `Recruited` took the first of nobody when all vehicles
had failed before the team was named (the code names no surveyor), and a vehicle
could start east of the arena when the range was longer than it.

Assumptions: only the named `ASSUME`s of the modules (ids are positive naturals
in a finite set, `None` is neither vehicle nor task, nor a node, a route, a
score, nor a chain or a pending handoff, the range of the radio is not zero
(`channel.py` divides by it), the conditions of a pair of nodes do not overlap,
the bounds are naturals), which every run evaluates, and the three hypotheses
named above (several sorties for `MissionLowReturns`, `Sequenced` and
`SitesStaged` for the sequencer), which are the constants of the runs of these
properties.

## 6. Only model-checked

Liveness and everything under fairness: `ReturnsHome`, `AssignmentResolves`,
`NoStarvedTask`, `QueueDrains`, `EveryReportCloses`, `FormingEnds`,
`NearTasksServed`, `DeploymentEnds`.

Of the safety properties only `SteeringArrives`. It says that a recursion on the
number of steps comes to its end within a bound, from every place the separation
rules may put a vehicle, and it does not hold for all values of the constants:
a detour may put a vehicle anywhere outside, so no bound in the dimensions of the
airspace is right in general, and with a margin of three or more the eight
headings of the grid can turn a steep approach to the mouth into a loop. Both are
artefacts of the grid, so that it is a check of this instance.

Where a function is defined by recursion on the naturals or on sets (the flood
and the search of `Network`, the turns of `Separation` and of `Matching`, the
loops of the coordinator) the induction is carried out with `LeastNumbers`; folds
of the community modules, `SortSeq` and recursion over sequences themselves
would need induction over data with an operator as a parameter,
which is out of the prover's reach.

## 7. Disagreements between code and documentation

Three are runs that TLC refutes, with the lines in `PROJECT.json`:

1. `RelayOrphan`: a failed relay that was replaced in its chain keeps its role
   and belongs to no chain any more. The loop over relays without a chain
   replaces it again in every tick, for the surveyor it last served, also when
   all tasks are complete and everybody should go home.
2. `RelayShared`: a replacement is entered into its chain but not into the
   reference counts. When another chain shares it, the first teardown releases
   it, although the other chain still counts on it.
3. `SeparationDetour`: a detour turns a move after the geofence has checked it,
   and the airspace check behind it is switched off because the runner passes no
   flight phases. In the program, with default bounds and both enforcers on, a
   vehicle at (500, 998) flying east past one that hovers at (522, 998) is sent
   to y = 1007.7, outside of the arena.

The other six are about store, tick, sequencer and relays. The properties
remain in the modules, and a configuration with the constants named here that
checks one of them refutes it:

4. `OneLeaves` (`DepartureSequencer`, two vehicles, two tasks, two events): a
   vehicle that fails while taxiing keeps its phase. The slot is given to the next
   one, and when the first has recovered it leaves, too, next to the holder.
5. `TurnsToItsTask` (`DepartureSequencer`, one vehicle, two tasks, two events): a
   vehicle that fails and recovers between two ticks while it holds the slot, and
   is given another task, is steered to the old site: the target of the first
   assignment is still in `_intended_targets`, and it is only replaced in the
   staging area. There the vehicle hovers until it fails, is recalled or gets a
   task anew, so that its task is neither served nor given back.
   `AssignmentResolves` has this as its only exception (`Misled`); without it
   `DepartureLive` fails.
6. `RejectionIsClean` (`StateStore`): a rejected `MarkTaskUnreachableCommand` has
   changed its task.
7. `LandedIsDisarmed` (`MissionLoop`, several sorties): a vehicle recovered on the
   pad is active while LANDED.
8. `LowReturns` (`MissionLoop`, `SingleSortie` = TRUE): with single sorties, a
   vehicle that failed and recovered in the air is no longer called home on a low
   battery.
9. `OneDuty` (`ConnectivityMission`, five vehicles, three events): a vehicle may
   be a relay of one chain and the surveyor of another, against the "Integrity
   Invariant" of `docs/DYNAMIC_RELAY_ROLES.md` ("Active `RELAY` UAVs are excluded
   ... preventing POI task allocation from pulling relays off critical
   communication bridges."). Two chains share a relay, and it fails. The first
   chain replaces it; the second finds nobody and is DEGRADED, and in the same
   step the loop over relays without a chain, which excludes only the failed
   relay itself (line 893), sends the replacement to the surveyor of the second
   chain and overwrites `relay_to_surveyor`. When that chain is given up and its
   surveyor goes home, line 1028 finds no surveyor that depends on the
   replacement and releases it with the role of a surveyor, though it is on its
   post in the first chain, and the planner gives it the task. It takes five
   vehicles, which is one more than the run `Relay` has.
   What such a vehicle does is why two properties say what they say. The teardown
   of one chain releases its role also while it holds a task of the other: it is
   IDLE then, is not monitored, and flies to its task behind empty stations (nine
   vehicles, a tolerance of five, 13 events); `AdvancesBehindRelays` is about
   vehicles in the role of a surveyor. And it may be in the books of a degraded
   chain of an earlier task for the rest of the tick in which it gets another, and
   then give that one up though nothing is wrong with it; `NoneWorksDegraded`
   therefore asks whether somebody else reaches the task.

Four more observations that contradict no document. The runner reads a `task_id` from
TASK_COMPLETED that the store does not put there, so that the second way to find
the chain of a completed task (runner, line 656) is never taken. The deployment waits for
every vehicle it recruited, and nobody is given a task before it is complete: a
vehicle that fails for good, or a failure before the team is recruited, so that
its chain is too short to be reached, keeps every task open; so can vehicles that
start out of the range of the ground station with crossing ways. `DeploymentEnds`
therefore assumes the whole team up and recruited. Two moves of one A1 pass are
each checked against the same snapshot, so together they may cut off a vehicle
that neither cuts off alone; and with destinations A1 never serves a task out of
the range of everybody who stays behind. When the incumbent of a handoff fails in
the very tick its replacement arrives, the chain is handed over and still
DEGRADED, and the planner gives its task up.

## 8. Not modelled

Border truncation of the geofence and detours at other angles than the grid has;
the freezes of the corridor, which depend on finer geometry. Named teams
of five or more in the ingress coordinator. Energy arithmetic and sortie clocks (`low`, `weary` stand for them)
and the link budget. How A1 infers the settings of the channel. The list of the
event scheduler: any schedule is a choice of when things fail. Metrics, scenario
parsing, replay, the Webots bridge and scripts: no state a tick changes.
`SimulationEngine.start_rth`, `check_battery_rth`, `progress_arrived_tasks` and
`step_uav` are not called by the runner. `MissionRunner.reset` recreates the
engine; one model behaviour is one run. Neither the departure sequencer nor single
sorties are combined with the relay mission.

## 9. Plan

Done: all modules of section 2 with their runs; theorems about store, tick,
sequencer, network, telemetry, relays, separation and allocation, for every safety
property of the runs but `SteeringArrives`. What could follow: the sequencer in the
mission with relays, and the weakest bound on detours under which
`SteeringArrives` holds in general.
