----------------------------- MODULE MissionLoop -----------------------------
(***************************************************************************)
(* One tick of MissionRunner.step (simulation/runner.py), phase by phase,  *)
(* on top of the state store.  A phase reads a snapshot, submits one batch *)
(* to StateStore.apply and the next phase starts when the whole batch has  *)
(* been handled, so `phase` names the phase to run once `inbox` is empty.  *)
(*                                                                         *)
(* This is the baseline runner: allocator A0, automatic return to home, no *)
(* relay manager and no connectivity planner (phases 3.5, 3.7 and 5.6 of   *)
(* step do not exist then).  The departure sequencer may hold or send the  *)
(* vehicles of the staging area as it likes here; DepartureSequencer adds  *)
(* what it does.                                                           *)
(***************************************************************************)
EXTENDS StateStore

CONSTANTS MultiSortie,   \* allow_multi_sortie: landed UAVs recharge
          SingleSortie,  \* enforce_single_sortie of the safety assessor
          ReturnByEnd,   \* return_by_mission_end: run() may stop early
          Sequenced,     \* enable_departure_sequencing
          Staging,       \* the places is_in_staging_area accepts
          Deadlined,     \* tasks with a deadline
          Cadence,       \* ticks in allocator_reassessment_interval_s
          MaxEvents,     \* bound: scheduled failures and recoveries
          MaxDrains      \* bound: batteries that become low

ASSUME FlagsAssumption ==
  /\ \A flag \in {MultiSortie, SingleSortie, ReturnByEnd, Sequenced} :
       flag \in BOOLEAN
  /\ ~(MultiSortie /\ SingleSortie)
ASSUME SitesAssumption == Staging \subseteq Places /\ Deadlined \subseteq Tasks
ASSUME BoundsAssumption == Cadence \in Nat /\ MaxEvents \in Nat /\ MaxDrains \in Nat

VARIABLES phase,      \* the phase of step to run next
          airborne,   \* vehicles whose flight record is_airborne
          landed,     \* vehicles whose flight record has a landing_time
          reassess,   \* _newly_freed_uav or _new_task_visible
          since,      \* ticks since last_alloc_time, up to Cadence
          finished,   \* uav_id of the TASK_COMPLETED events of this tick
          expired,    \* tasks whose deadline has passed
          events,     \* scheduled events still to come
          drains      \* batteries that may still become low

loopVars == <<airborne, landed, reassess, since, finished, expired, events, drains>>
vars == <<storeVars, phase, loopVars>>

Phases == {"events", "discover", "rth", "allocate", "serve", "clear", "allDone",
           "depart", "fly", "lifecycle", "assess", "done"}

MissionInit ==
  /\ StoreInit
  /\ phase = "events"
  /\ airborne = {} /\ landed = {}
  /\ reassess = FALSE /\ since = Cadence
  /\ finished = {} /\ expired = {}
  /\ events = MaxEvents /\ drains = MaxDrains

SetTarget(u, goal) == [Cmd("SetTargetPosition", u) EXCEPT !.target = goal]

\* The caller of apply: nothing but the batch and the program counter moves.
Emit(batch, next) == /\ inbox = {}
                     /\ UNCHANGED <<uav, task>>
                     /\ inbox' = batch
                     /\ phase' = next

(***************************************************************************)
(* 0. Scheduled failures and recoveries, 0.5 discovery.                    *)
(***************************************************************************)
ScheduledEvents ==
  /\ phase = "events"
  /\ \E failing, recovering \in SUBSET UAVs :
       LET due == Cardinality(failing) + Cardinality(recovering)
       IN  /\ due <= events
           /\ events' = events - due
           /\ Emit({Cmd("FailUAV", u) : u \in failing}
                     \union {Cmd("RecoverUAV", u) : u \in recovering}, "discover")
  /\ UNCHANGED <<airborne, landed, reassess, since, finished, expired, drains>>

CanDetect(u) == /\ uav[u].active
                /\ ~uav[u].failed
                /\ uav[u].sortie \notin {"LANDED", "RECHARGING"}

\* each hidden task is in the footprint of some vehicles, or of none; the first
\* one reports it
Discovery ==
  /\ phase = "discover"
  /\ \E seen \in SUBSET {t \in Tasks : task[t].status = "HIDDEN"} :
     \E by \in [seen -> {u \in UAVs : CanDetect(u)}] :
       Emit({TaskCmd("DiscoverTask", by[t], t) : t \in seen}, "rth")
  /\ UNCHANGED loopVars

(***************************************************************************)
(* Flight records (SafetyAssessor.assess_snapshot, phases 2 and 9): first  *)
(* the takeoffs, then the landings among the airborne.                     *)
(***************************************************************************)
\* mutant of TakesOff: who has landed once never takes off again
MutTakesOff(u) == /\ uav[u].active
                  /\ u \notin airborne \union landed
                  /\ uav[u].moving \/ uav[u].place \notin Staging

TakesOff(u) == /\ uav[u].active
               /\ u \notin airborne
               /\ u \notin landed \/ ~SingleSortie
               /\ uav[u].moving \/ uav[u].place \notin Staging

TouchesDown(u) == \/ ~uav[u].active
                  \/ uav[u].rth = "COMPLETE"
                  \/ uav[u].sortie \in {"LANDED", "RECHARGING"}

InFlight == airborne \union {u \in UAVs : TakesOff(u)}

Assess == LET down == {u \in InFlight : TouchesDown(u)}
          IN  /\ airborne' = InFlight \ down
              /\ landed' = (landed \ {u \in UAVs : TakesOff(u)}) \union down

(***************************************************************************)
(* 2. Return-to-home triggers: a battery that only lasts for the way back. *)
(***************************************************************************)
MustReturn(u) == /\ uav[u].active
                 /\ uav[u].rth = "NONE"
                 /\ u \in airborne'
                 /\ uav[u].low

RTHTriggers ==
  /\ phase = "rth"
  /\ Assess
  /\ Emit({Cmd("StartRTH", u) : u \in {v \in UAVs : MustReturn(v)}}, "allocate")
  /\ UNCHANGED <<reassess, since, finished, expired, events, drains>>

(***************************************************************************)
(* 4. Allocation, on its cadence or when a tick brought news.              *)
(***************************************************************************)
Open(t) == task[t].status \in {"PENDING", "DEFERRED"}

\* mutant of Eligible: a failed vehicle is still a candidate
MutEligible(u) == /\ uav[u].assigned = None /\ uav[u].rth = "NONE"
                  /\ uav[u].role # "RELAY" /\ uav[u].sortie \notin Grounded

\* mutant of Eligible: so is one that has a task
MutEligibleBusy(u) == /\ uav[u].active /\ uav[u].rth = "NONE" /\ ~uav[u].failed
                      /\ uav[u].role # "RELAY" /\ uav[u].sortie \notin Grounded

\* is_uav_feasible up to the batteries (see Allocate).  Its energy check never
\* applies: the records of the store have no estimated_rth_energy.
Eligible(u) == /\ uav[u].active
               /\ uav[u].assigned = None
               /\ uav[u].rth = "NONE"
               /\ uav[u].role # "RELAY"
               /\ ~uav[u].failed
               /\ uav[u].sortie \notin Grounded

\* A0 walks the tasks and takes the best vehicle left, so it stops when it has
\* served every task or used every vehicle
Matchings(ts, us) ==
  {m \in UNION {[S -> us] : S \in SUBSET ts} :
     /\ \A s, t \in DOMAIN m : m[s] = m[t] => s = t
     /\ DOMAIN m = ts \/ {m[t] : t \in DOMAIN m} = us}

\* mutant of AllocationDue: only when there is news
MutAllocationDue == reassess

AllocationDue == since = Cadence \/ reassess

Allocate ==
  /\ phase = "allocate"
  /\ (\E t \in Tasks : Open(t)) /\ AllocationDue
  \* A vehicle that is low may or may not be above min_battery_pct; one that is
  \* not low counts as above it.
  /\ \E us \in SUBSET {u \in UAVs : Eligible(u)} :
       /\ {u \in UAVs : Eligible(u) /\ ~uav[u].low} \subseteq us
       /\ \E m \in Matchings({t \in Tasks : Open(t) /\ t \notin expired}, us) :
            Emit({TaskCmd("AssignTask", m[t], t) : t \in DOMAIN m}, "serve")
  /\ since' = 0 /\ reassess' = FALSE
  /\ UNCHANGED <<airborne, landed, finished, expired, events, drains>>

SkipAllocation ==
  /\ phase = "allocate"
  /\ ~((\E t \in Tasks : Open(t)) /\ AllocationDue)
  /\ Emit({}, "serve")
  /\ UNCHANGED loopVars

(***************************************************************************)
(* 5. Service of the vehicles on site, then the release of those done.     *)
(***************************************************************************)
OnSite(u) == /\ uav[u].assigned # None
             /\ task[uav[u].assigned].status \in {"ASSIGNED", "IN_PROGRESS"}
             /\ uav[u].place = uav[u].assigned

Serve ==
  /\ phase = "serve"
  /\ Emit({TaskCmd("ProgressTask", u, uav[u].assigned) :
             u \in {v \in UAVs : OnSite(v)}}, "clear")
  /\ UNCHANGED loopVars

ClearFinished ==
  /\ phase = "clear"
  /\ Emit(UNION {{Cmd("ReleaseRelayRole", u), Cmd("SetTargetPosition", u)} :
                   u \in finished}, "allDone")
  /\ finished' = {}
  /\ UNCHANGED <<airborne, landed, reassess, since, expired, events, drains>>

Closed(t) == \/ task[t].status \in {"COMPLETE", "UNREACHABLE"}
             \/ Open(t) /\ t \in expired

\* a task still hidden is not in the store, so it does not count
AllClosed == /\ \E t \in Tasks : task[t].status # "HIDDEN"
             /\ \A t \in Tasks : task[t].status # "HIDDEN" => Closed(t)

CallHome(u) == /\ uav[u].active
               /\ uav[u].rth = "NONE"
               /\ uav[u].sortie \notin {"LANDED", "RECHARGING"}

AllDone ==
  /\ phase = "allDone"
  /\ Emit(IF AllClosed THEN {Cmd("StartRTH", u) : u \in {v \in UAVs : CallHome(v)}}
          ELSE {}, "depart")
  /\ UNCHANGED loopVars

(***************************************************************************)
(* 5.5 What the departure sequencer may do to targets: a vehicle in the    *)
(* staging area is held, sent to the taxi point in the corridor, or sent   *)
(* to a task site.  DepartureSequencer says which vehicles, and when.      *)
(***************************************************************************)
Directions(u) ==
  {uav[u].target} \union
    IF Sequenced /\ uav[u].rth = "NONE" /\ uav[u].place \in Staging
      THEN {None, "corridor"} \union Tasks ELSE {}

Depart ==
  /\ phase = "depart"
  /\ \E goal \in [UAVs -> Targets] :
       /\ \A u \in UAVs : goal[u] \in Directions(u)
       /\ Emit({SetTarget(u, goal[u]) :
                  u \in {v \in UAVs : goal[v] # uav[v].target}}, "fly")
  /\ UNCHANGED loopVars

(***************************************************************************)
(* 6. Physics: a vehicle with a target gets closer to it.                  *)
(***************************************************************************)
Depth(p) == CASE p = "pad" -> 0 [] p = "corridor" -> 1 [] p = "arena" -> 2
              [] OTHER -> 3

\* the places a tick can take a vehicle at p to, on its way to g
Ahead(p, g) ==
  IF p = g THEN {p}
  ELSE {g} \union
       {q \in {"pad", "corridor", "arena"} :
          \/ p \notin Tasks /\ q = p
          \/ Depth(p) < Depth(q) /\ Depth(q) < Depth(g)
          \/ Depth(g) < Depth(q) /\ Depth(q) < Depth(p)
          \/ p \in Tasks /\ g \in Tasks /\ q = "arena"}

Destinations(u) == IF uav[u].target = None THEN {uav[u].place}
                   ELSE Ahead(uav[u].place, uav[u].target)

Flying == {u \in UAVs : uav[u].active /\ ~uav[u].failed}

Step(u, dest, drained) ==
  [Cmd("StepPhysics", u) EXCEPT
     !.place = dest,
     !.moving = uav[u].target # None /\ dest # uav[u].target,
     !.low = uav[u].low \/ drained]

FlyTo(dest, drained) ==
  /\ phase = "fly"
  /\ Cardinality(drained) <= drains
  /\ drains' = drains - Cardinality(drained)
  /\ Emit({Step(u, dest[u], u \in drained) : u \in Flying}, "lifecycle")
  /\ UNCHANGED <<airborne, landed, reassess, since, finished, expired, events>>

Routes == {dest \in [Flying -> Places] :
             \A u \in Flying : dest[u] \in Destinations(u)}

Fly == \E dest \in Routes : \E drained \in SUBSET {u \in Flying : ~uav[u].low} :
         FlyTo(dest, drained)

(***************************************************************************)
(* 7. Arrivals (RTHRouter.step) and the recharge cycle, in one batch.      *)
(***************************************************************************)
Homing == {u \in UAVs : uav[u].rth = "ACTIVE"}

\* within 25 m of the pad; some of the corridor is
Approaches(u) == uav[u].sortie = "RTH" /\ uav[u].place \in {"pad", "corridor"}

\* mutants of Arrived: anywhere near the pad; not after BeginLanding
MutArrivedNear(u) == uav[u].place \in {"pad", "corridor"}
MutArrivedRTH(u) == uav[u].place = "pad" /\ uav[u].sortie = "RTH"

Arrived(u) == uav[u].place = "pad"

RouterCommands(near) ==
  {SetTarget(u, "pad") : u \in {v \in Homing : uav[v].target # "pad"}}
  \union {Cmd("BeginLanding", u) :
            u \in {v \in Homing : /\ Approaches(v)
                                  /\ Arrived(v) \/ v \in near}}
  \union {Cmd("CompleteRTH", u) : u \in {v \in Homing : Arrived(v)}}

Charging == {u \in UAVs : uav[u].sortie = "RECHARGING"}

ChargeStep(u) == [Cmd("StepPhysics", u) EXCEPT !.place = uav[u].place,
                                               !.low = uav[u].low]

ChargeCommands(full) ==
  {Cmd("StartRecharge", u) :
     u \in {v \in UAVs : MultiSortie /\ uav[v].sortie = "LANDED"}}
  \union {Cmd("CompleteRecharge", u) : u \in Charging \intersect full}
  \union {ChargeStep(u) : u \in Charging \ full}

LifecycleOf(near, full) ==
  /\ phase = "lifecycle"
  /\ Emit(RouterCommands(near) \union ChargeCommands(full), "assess")
  /\ UNCHANGED loopVars

Lifecycle == \E near \in SUBSET {u \in Homing : Approaches(u)} :
             \E full \in SUBSET Charging : LifecycleOf(near, full)

(***************************************************************************)
(* 9, 10. Second assessment, clock, and the early end of run().            *)
(***************************************************************************)
\* mutant of AllLanded: nobody is on the way home
MutAllLanded == \A u \in UAVs : uav[u].rth # "ACTIVE"

AllLanded == \A u \in UAVs : ~uav[u].failed =>
                               ~uav[u].active /\ uav[u].rth = "COMPLETE"

AdvanceTick ==
  /\ phase = "assess"
  /\ Assess
  /\ since' = IF since < Cadence THEN since + 1 ELSE since
  /\ \E passed \in SUBSET (Deadlined \ expired) : expired' = expired \union passed
  /\ Emit({}, IF ReturnByEnd /\ AllClosed' /\ AllLanded THEN "done" ELSE "events")
  /\ UNCHANGED <<reassess, finished, events, drains>>

(***************************************************************************)
(* One iteration of apply, with the events of it that the runner looks at: *)
(* before the allocation POI_DISCOVERED, TASK_DEFERRED and UAV_FAILED, and *)
(* at any time TASK_COMPLETED, UAV_LANDED and UAV_RECHARGED.               *)
(***************************************************************************)
Completes(c) == c.type = "ProgressTask" /\ Accepts(c) /\ Done(task[c.task])

\* mutant of FinishedBy: the entity of TASK_COMPLETED taken for the vehicle
MutFinishedBy(c) == IF Completes(c) THEN {c.task} ELSE {}

FinishedBy(c) == IF Completes(c) THEN {c.uav} ELSE {}

NewTaskEvent(c) ==
  /\ phase \in {"discover", "rth", "allocate"}
  /\ Accepts(c)
  /\ \/ c.type = "DiscoverTask" /\ task[c.task].status = "HIDDEN"
     \/ c.type = "StartRTH" /\ uav[c.uav].assigned # None
     \/ c.type = "FailUAV"

FreedEvent(c) == \/ Completes(c)
                 \/ c.type \in {"CompleteRTH", "CompleteRecharge"} /\ Accepts(c)

ApplyCommand ==
  /\ \E c \in inbox :
       /\ \A d \in inbox : Precedes(c, d)
       /\ inbox' = inbox \ {c}
       /\ Handle(c)
       /\ reassess' = (reassess \/ NewTaskEvent(c) \/ FreedEvent(c))
       /\ finished' = finished \union FinishedBy(c)
  /\ UNCHANGED <<phase, airborne, landed, since, expired, events, drains>>

OtherPhase == \/ ScheduledEvents \/ Discovery \/ RTHTriggers \/ Allocate
              \/ SkipAllocation \/ Serve \/ ClearFinished \/ AllDone
              \/ Fly \/ Lifecycle \/ AdvanceTick

MissionNext == ApplyCommand \/ OtherPhase \/ Depart

MissionSpec == MissionInit /\ [][MissionNext]_vars

(***************************************************************************)
(* Fairness.  step() is a loop without waiting, so it goes on.  A vehicle  *)
(* on its way gets closer by speed * dt every tick and a charging battery  *)
(* fills linearly, so neither stays in one region, or charging, for ever.  *)
(***************************************************************************)
Progresses(u) == \E dest \in Routes :
  \E drained \in SUBSET {v \in Flying : ~uav[v].low} :
    /\ u \in Flying /\ dest[u] # uav[u].place
    /\ FlyTo(dest, drained)

FillsUp(u) == \E near \in SUBSET {v \in Homing : Approaches(v)} :
  \E full \in SUBSET Charging : u \in full /\ LifecycleOf(near, full)

Fairness == /\ WF_vars(MissionNext)
            /\ \A u \in UAVs : SF_vars(Progresses(u)) /\ SF_vars(FillsUp(u))

LiveMissionSpec == MissionSpec /\ Fairness

(***************************************************************************)
(* Properties.                                                             *)
(***************************************************************************)

\* The loop variables stay in their domains and the counters within bounds.
MissionTypeOK == /\ StoreTypeOK
                 /\ phase \in Phases
                 /\ {airborne, landed, finished} \subseteq SUBSET UAVs
                 /\ reassess \in BOOLEAN
                 /\ since \in 0..Cadence
                 /\ expired \subseteq Deadlined
                 /\ events \in 0..MaxEvents
                 /\ drains \in 0..MaxDrains

\* The store by itself lets a second AssignTask orphan the first task of a
\* vehicle; the phases of step never make it: a task that names an owner is the
\* one its owner is flying to, so no task waits for a vehicle gone elsewhere.
OwnedIsHeld == \A t \in Tasks : task[t].owner # None =>
                 uav[task[t].owner].assigned = t

\* Whoever holds a task can fly to it: failures, returns, landings and recharges
\* that hit a vehicle between two phases all take its task away in time.
WorkerFit == \A u \in UAVs : uav[u].assigned # None =>
               /\ uav[u].active /\ ~uav[u].failed
               /\ uav[u].rth = "NONE" /\ uav[u].sortie = "ACTIVE"

\* Every phase reads a snapshot and apply handles its commands later, after
\* others: none of them has become illegal by then.  (The release of the role of
\* a vehicle that finished is the exception, and a schedule may be pointless.)
SnapshotStillValid == [][\A c \in inbox \ inbox' :
  c.type \notin {"ReleaseRelayRole", "FailUAV", "RecoverUAV"} => Accepts(c)]_vars

\* After the return-to-home triggers of a tick, no vehicle out of the staging
\* area keeps flying on a battery that only lasts for the way back, whether it
\* failed and recovered in the air or not (docs/SAFETY_ENDURANCE_AND_RTH.md).
LowReturns == phase = "allocate" /\ inbox = {} =>
  \A u \in UAVs : /\ uav[u].active /\ ~uav[u].failed /\ uav[u].low
                  /\ uav[u].place \notin Staging
                  => uav[u].rth # "NONE"

\* CompleteRTH puts the vehicle on its pad: it is never applied to one that is
\* still on its way.
LandsOnPad == [][\A u \in UAVs :
  uav[u].sortie # "LANDED" /\ uav'[u].sortie = "LANDED" =>
    uav[u].place = "pad"]_vars

\* run() stops early only with every task it knows closed, nothing assigned and
\* every vehicle that has not failed down on its pad.
EndsAtHome == phase = "done" =>
  /\ \A t \in Tasks : task[t].status # "HIDDEN" =>
       task[t].owner = None /\ (task[t].status = "COMPLETE" \/ t \in expired)
  /\ \A u \in UAVs : ~uav[u].failed => uav[u].place = "pad"

\* docs/SORTIE_ROTATION.md: a LANDED vehicle has its motors disarmed, and a
\* RECHARGING one is locked until the recharge completes.
LandedIsDisarmed == \A u \in UAVs :
  uav[u].sortie \in {"LANDED", "RECHARGING"} => ~uav[u].active

\* A vehicle called home gets there, unless it fails.
ReturnsHome == \A u \in UAVs :
  uav[u].rth = "ACTIVE" ~> uav[u].rth = "COMPLETE" \/ uav[u].failed

\* With the news flags cleared only by an allocation, no task waits for ever
\* while a vehicle that could take it idles.
NoStarvedTask == \A t \in Tasks :
  []<>~(/\ Open(t) /\ t \notin expired
        /\ \E u \in UAVs : Eligible(u) /\ ~uav[u].low)
=============================================================================
