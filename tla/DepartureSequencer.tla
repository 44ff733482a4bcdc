------------------------- MODULE DepartureSequencer -------------------------
(***************************************************************************)
(* The ground departure sequencer (safety/departure.py) inside the tick of *)
(* MissionLoop, whose phase 5.5 it replaces.  It keeps its own view of     *)
(* every vehicle next to the one of the store, sees the store only once a  *)
(* tick, and its one means of control is the target of a vehicle.          *)
(*                                                                         *)
(* The departure queue is kept sorted by id, so a set stands for it.       *)
(***************************************************************************)
EXTENDS MissionLoop

VARIABLES departureQueue,  \* departure_queue
          departing,       \* active_departing_uav_id
          uavPhase,        \* uav_phases
          intended         \* intended_targets

sequencerVars == <<departureQueue, departing, uavPhase, intended>>

UAVDeparturePhase == {"STAGED", "QUEUED", "TAXIING", "TRANSIT", "CLEARED"}

SequencerInit == /\ MissionInit
                 /\ departureQueue = {}
                 /\ departing = None
                 /\ uavPhase = [u \in UAVs |-> "STAGED"]
                 /\ intended = [u \in UAVs |-> None]

InStaging(u) == uav[u].place \in Staging

\* 1. back on the pad for another sortie, or called home
ReadyAgain(u) == /\ uav[u].sortie \in {"LANDED", "RECHARGING", "READY"}
                 /\ InStaging(u)
                 /\ uav[u].rth \in {"COMPLETE", "NONE"}

Recalled(u) == \/ uav[u].rth = "ACTIVE"
               \/ uav[u].sortie \in {"RTH", "LANDING"}

\* 2. how far east a vehicle may be: short of taxi_x, past it, past clearance_x.
\* The taxi point is at taxi_x and has to be reached before any other target.
Zones(u) ==
  CASE uav[u].place = "pad" -> {"apron"}
    [] uav[u].place = "corridor" -> IF uav[u].target = "corridor" THEN {"lane"}
                                    ELSE {"apron", "lane", "clear"}
    [] OTHER -> {"clear"}

\* mutant of Lost: a failed vehicle keeps its place
MutLost(u) == uav[u].rth # "NONE"

Lost(u) == ~uav[u].active \/ uav[u].rth # "NONE"

\* mutant of MissionTarget: what became of the task, not where it is
MutMissionTarget(u, aim) ==
  IF uav[u].assigned = None THEN aim[u] ELSE task[uav[u].assigned].status

\* 3. where a vehicle that waits in the staging area has to go, None if nowhere
MissionTarget(u, aim) ==
  IF uav[u].target # None
    THEN IF uav[u].target # uav[u].place THEN uav[u].target ELSE None
  ELSE IF uav[u].assigned # None
    THEN IF task[uav[u].assigned].status \in {"ASSIGNED", "IN_PROGRESS"}
           THEN uav[u].assigned ELSE None
  ELSE IF uav[u].role = "RELAY" THEN aim[u] ELSE None

Waits(u, ph) == ~Lost(u) /\ InStaging(u) /\ ph[u] \in {"STAGED", "QUEUED"}

\* mutants of Instruction: no hold; a taxi waypoint on the staging column
MutInstructionFree(u, queue, slot, ph, aim) ==
  IF u = slot /\ u \notin queue
    THEN IF ph[u] = "TAXIING" THEN "corridor" ELSE aim[u]
    ELSE uav[u].target
MutInstructionPad(u, queue, slot, ph, aim) ==
  IF u = slot /\ u \notin queue
    THEN IF ph[u] = "TAXIING" THEN "pad" ELSE aim[u]
    ELSE uav[u].target

\* 5. what the sequencer tells a vehicle
Instruction(u, queue, slot, ph, aim) ==
  IF u \in queue THEN None
  ELSE IF u = slot /\ ph[u] = "TAXIING" THEN "corridor"
  ELSE IF u = slot /\ ph[u] \in {"TRANSIT", "CLEARED"} /\ aim[u] # None THEN aim[u]
  ELSE uav[u].target

First(queue) == CHOOSE u \in queue : \A v \in queue : u <= v

\* mutant of Without: nobody ever leaves the queue early
MutWithout(queue, gone) == queue \union (gone \ UAVs)

Without(queue, gone) == queue \ gone

Sequence(zone) ==
  LET recalled == {u \in UAVs : ~ReadyAgain(u) /\ Recalled(u)}
      restaged == {u \in UAVs : ReadyAgain(u) /\ uavPhase[u] = "CLEARED"}
      holder   == IF departing \in recalled THEN None ELSE departing
      holders  == {u \in UAVs : u = holder /\ ~Lost(u)}
      ph2 == [u \in UAVs |->
                IF u \in recalled \/ (u \in holders /\ zone = "clear") THEN "CLEARED"
                ELSE IF u \in holders /\ zone = "lane" THEN "TRANSIT"
                ELSE IF u \in restaged THEN "STAGED" ELSE uavPhase[u]]
      aim2 == [u \in UAVs |-> IF u \in recalled \union restaged THEN None
                              ELSE intended[u]]
      slot2 == IF holders # {} /\ zone # "clear" THEN holder ELSE None
      goal(u) == MissionTarget(u, aim2)
      joins  == {u \in UAVs : Waits(u, ph2) /\ goal(u) # None}
      leaves == {u \in UAVs : /\ Waits(u, ph2) /\ ph2[u] = "QUEUED"
                              /\ goal(u) = None}
      queue3 == Without(departureQueue, recalled \union leaves)
                  \union {u \in joins : ph2[u] = "STAGED"}
      next == IF slot2 = None /\ queue3 # {} THEN First(queue3) ELSE slot2
      queue4 == IF slot2 = None THEN queue3 \ {next} ELSE queue3
      ph4 == [u \in UAVs |-> IF slot2 = None /\ u = next THEN "TAXIING"
                             ELSE IF u \in joins  THEN "QUEUED"
                             ELSE IF u \in leaves THEN "STAGED" ELSE ph2[u]]
      aim4 == [u \in UAVs |-> IF u \in joins \union leaves THEN goal(u)
                              ELSE aim2[u]]
      told(u) == Instruction(u, queue4, next, ph4, aim4)
  IN  /\ departureQueue' = queue4
      /\ departing' = next
      /\ uavPhase' = ph4
      /\ intended' = aim4
      /\ Emit({SetTarget(u, told(u)) :
                 u \in {v \in UAVs : told(v) # uav[v].target}}, "fly")

SequenceDepartures ==
  /\ phase = "depart"
  /\ \E zone \in IF departing = None THEN {"apron"} ELSE Zones(departing) :
       Sequence(zone)
  /\ UNCHANGED loopVars

SequencerNext == \/ (ApplyCommand \/ OtherPhase) /\ UNCHANGED sequencerVars
                 \/ SequenceDepartures

sequencedVars == <<vars, sequencerVars>>

SequencerSpec == SequencerInit /\ [][SequencerNext]_sequencedVars

\* The fairness of MissionLoop: the separation rules let a vehicle on its way
\* through in the end.
LiveSequencerSpec ==
  /\ SequencerSpec
  /\ WF_sequencedVars(SequencerNext)
  /\ \A u \in UAVs :
       /\ SF_sequencedVars(Progresses(u) /\ UNCHANGED sequencerVars)
       /\ SF_sequencedVars(FillsUp(u) /\ UNCHANGED sequencerVars)

\* What the queue needs of it: the loop goes on, and the separation rules let the
\* holder of the slot through.
DepartingSpec ==
  /\ SequencerSpec
  /\ []<><<TRUE>>_sequencedVars
  /\ SF_sequencedVars(\E u \in UAVs : /\ u = departing /\ Progresses(u)
                                     /\ UNCHANGED sequencerVars)

(***************************************************************************)
(* Properties.                                                             *)
(***************************************************************************)

\* The sequencer's own tables stay in their domains.
SequencerTypeOK == /\ departureQueue \subseteq UAVs
                   /\ departing \in UAVs \union {None}
                   /\ uavPhase \in [UAVs -> UAVDeparturePhase]
                   /\ intended \in [UAVs -> Targets]

\* The three tables tell one story, whatever fails, recovers or is called home
\* between two ticks: a QUEUED vehicle missing from the queue would never be
\* released, one left in it after it had gone would be sent out again.
QueueIsQueued == \A u \in UAVs :
  /\ u \in departureQueue <=> uavPhase[u] = "QUEUED"
  /\ u = departing => uavPhase[u] \in {"TAXIING", "TRANSIT"}

\* "Trailing aircraft remain stationary at staging": a target given to a vehicle
\* the sequencer still counts as staged or queued is taken back before the
\* vehicle can follow it.
StagedStays == [][\A u \in UAVs :
  uavPhase[u] \in {"STAGED", "QUEUED"} => uav'[u].place = uav[u].place]_sequencedVars

\* Nobody waits in the queue for ever, even behind a vehicle that failed while
\* it held the slot, or in front of one that failed while it was queued.
QueueDrains == \A u \in UAVs : u \in departureQueue ~> u \notin departureQueue

\* at the site of another task, where the sequencer sent it: the target recorded
\* when vehicle u was queued is not looked up again
Misled(u) == /\ uavPhase[u] = "CLEARED"
             /\ uav[u].place \in Tasks \ {uav[u].assigned}
             /\ uav[u].target = uav[u].place

\* An assignment is not forgotten: however often its vehicle fails, recovers, waits
\* for the slot or is called home, the task is served or given back to the
\* allocator.  The one exception is the vehicle that lost its task in the slot
\* and got another: it ends up at the site of the first.
AssignmentResolves == \A t \in Tasks :
  task[t].status = "ASSIGNED" ~>
    \/ task[t].status \in {"COMPLETE", "DEFERRED"}
    \/ \E u \in UAVs : uav[u].assigned = t /\ Misled(u)

\* departure.py: "Only one UAV at a time may leave the staging column/launch
\* formation".
Leaving(u) == /\ uav[u].active /\ uav[u].rth = "NONE" /\ uav[u].moving
              /\ InStaging(u) /\ uavPhase[u] # "CLEARED"

OneLeaves == \A u, v \in UAVs : Leaving(u) /\ Leaving(v) => u = v

\* departure.py: the departing vehicle turns "toward its actual mission target"
\* once it is clear of the others.
TurnsToItsTask == \A u \in UAVs :
  phase = "lifecycle" /\ inbox = {} /\ uavPhase[u] \in {"TRANSIT", "CLEARED"}
    /\ uav[u].assigned # None => uav[u].target = uav[u].assigned
=============================================================================
