----------------------------- MODULE RelayFleet -----------------------------
(***************************************************************************)
(* What the relay manager and the connectivity planner see of the fleet,   *)
(* and what the store makes of the commands they submit.                   *)
(*                                                                         *)
(* The map is a line measured in hops: place 0 is the ground station with  *)
(* the holding area, and a link spans one step, so that the station of the *)
(* k-th relay of any chain is place k.  A task is the place it lies at.    *)
(* The tolerances of the code (1, 5 and 25 m) are equality of places.      *)
(* Of battery and sortie clock remain the questions the code asks: a       *)
(* vehicle is "ready", or "used" when less than 70 % or 300 s are left, or *)
(* "weary" when it is near its return and no longer eligible for new work; *)
(* afterwards it is "returning", then "home".                              *)
(***************************************************************************)
EXTENDS Integers, SequencesExt

CONSTANTS UAVs,    \* vehicles, numbered in the order of their ids
          Tasks,   \* points of interest, by their place
          None

ASSUME FleetAssumption ==
  /\ UAVs \subseteq Nat \ {0}
  /\ Tasks \subseteq Nat \ {0}
  /\ IsFiniteSet(UAVs) /\ IsFiniteSet(Tasks)
  /\ None \notin UAVs \union Nat

VARIABLES fleet,   \* the records of the vehicles
          task,    \* the status of the tasks
          batch    \* the commands submitted and not applied yet

FarEnd == IF Tasks = {} THEN 0 ELSE CHOOSE t \in Tasks : \A o \in Tasks : o <= t
Places == 0..FarEnd

Vehicle == [condition: {"ready", "used", "weary", "returning", "home"},
            failed: BOOLEAN, role: {"IDLE", "SURVEYOR", "RELAY"},
            task: Tasks \union {None}, at: Places, to: Places \union {None},
            relayFor: UAVs \union {None}]

Active(u) == ~fleet[u].failed /\ fleet[u].condition # "home"
OnMission(u) == Active(u) /\ fleet[u].condition # "returning"
Fit(u) == fleet[u].condition \in {"ready", "used"}
Grounded(u) == fleet[u].condition \in {"returning", "home"}

Gap(a, b) == IF a < b THEN b - a ELSE a - b

\* the analysis of the network: every place on the way to the ground station
\* has an active vehicle
Connected(u) ==
  /\ Active(u)
  /\ \A p \in 1..(fleet[u].at - 1) : \E v \in UAVs : Active(v) /\ fleet[v].at = p

Linked(u, v) == /\ Active(u) /\ Active(v)
                /\ Gap(fleet[u].at, fleet[v].at) <= 1

(***************************************************************************)
(* Commands.  Rank orders the class names, as apply does.                  *)
(***************************************************************************)
Rank == [AssignRelayRole |-> 1, AssignTask |-> 2, HandoffRelay |-> 8,
         ReleaseRelayRole |-> 12, ReleaseTask |-> 13, SetTarget |-> 14,
         StartRTH |-> 15]

Cmd(type, u) == [type |-> type, uav |-> u, place |-> None, whom |-> None,
                 served |-> None]

\* take the station at `place` for surveyor s
AssignRelay(u, place, s) ==
  << [Cmd("AssignRelayRole", u) EXCEPT !.place = place, !.served = s] >>

SetTarget(u, place) == << [Cmd("SetTarget", u) EXCEPT !.place = place] >>
Dispatch(u, place, s) == AssignRelay(u, place, s) \o SetTarget(u, place)

AssignTask(u, t)    == << [Cmd("AssignTask", u) EXCEPT !.place = t] >>
StartRTH(u)         == << Cmd("StartRTH", u) >>
ReleaseTask(u)      == << Cmd("ReleaseTask", u) >>
Release(u)          == << Cmd("ReleaseRelayRole", u) >>

\* released to fly on as a surveyor
ReleaseAsSurveyor(u) ==
  << [Cmd("ReleaseRelayRole", u) EXCEPT !.whom = u] >>

Handoff(u, replacement, place, s) ==
  << [Cmd("HandoffRelay", u) EXCEPT !.whom = replacement, !.place = place,
                                    !.served = s] >>
     \o SetTarget(replacement, place)

Send(commands) == batch' = batch \o commands

(***************************************************************************)
(* The records the store writes.                                           *)
(***************************************************************************)
Homeward(r) == [r EXCEPT !.condition = "returning", !.to = 0, !.task = None,
                         !.role = IF r.role = "RELAY" THEN "IDLE" ELSE r.role]

Relaying(r, place, s) == [r EXCEPT !.role = "RELAY", !.task = None,
                                   !.to = place, !.relayFor = s]

Surveying(r, t) == [r EXCEPT !.role = "SURVEYOR", !.task = t, !.to = t,
                             !.relayFor = None]

Lost(r) == IF r.task = None THEN [r EXCEPT !.failed = TRUE]
           ELSE [r EXCEPT !.failed = TRUE, !.task = None, !.to = None]

\* mutant of Dropped: the task stays with whoever leaves it
MutDropped(u) == task

\* the task of vehicle u waits for somebody else
Dropped(u) == [t \in Tasks |-> IF t = fleet[u].task THEN "open" ELSE task[t]]

\* where apply finds the command it takes first
FirstOf(b) == CHOOSE i \in DOMAIN b : \A j \in DOMAIN b :
              \/ b[i].uav < b[j].uav
              \/ /\ b[i].uav = b[j].uav
                 /\ \/ Rank[b[i].type] < Rank[b[j].type]
                    \/ Rank[b[i].type] = Rank[b[j].type] /\ i <= j

Write(u, r) == fleet' = [fleet EXCEPT ![u] = r]

AssignRelayRole(c) ==
  /\ c.type = "AssignRelayRole"
  /\ Write(c.uav, Relaying(fleet[c.uav], c.place, c.served))
  /\ task' = Dropped(c.uav)

HandoffRelay(c) ==
  /\ c.type = "HandoffRelay"
  /\ Write(c.whom, Relaying(fleet[c.whom], c.place, c.served))
  /\ task' = Dropped(c.whom)

TakeTask(c) ==
  /\ c.type = "AssignTask"
  /\ IF OnMission(c.uav) /\ task[c.place] = "open"
       THEN /\ Write(c.uav, Surveying(fleet[c.uav], c.place))
            /\ task' = [task EXCEPT ![c.place] = "taken"]
       ELSE UNCHANGED <<fleet, task>>

\* rejected for a vehicle that is neither relay nor surveyor
ReleaseRelayRole(c) ==
  /\ c.type = "ReleaseRelayRole"
  /\ IF fleet[c.uav].role = "IDLE" THEN UNCHANGED fleet
     ELSE Write(c.uav, [fleet[c.uav] EXCEPT
                          !.role = IF c.whom = c.uav THEN "SURVEYOR" ELSE "IDLE",
                          !.relayFor = None])
  /\ UNCHANGED task

GiveUpTask(c) ==
  /\ c.type = "ReleaseTask"
  /\ Write(c.uav, [fleet[c.uav] EXCEPT !.task = None, !.to = None])
  /\ task' = Dropped(c.uav)

SetTargetPosition(c) ==
  /\ c.type = "SetTarget"
  /\ Write(c.uav, [fleet[c.uav] EXCEPT !.to = c.place])
  /\ UNCHANGED task

Return(c) ==
  /\ c.type = "StartRTH"
  /\ Write(c.uav, Homeward(fleet[c.uav]))
  /\ task' = Dropped(c.uav)

\* apply: one batch, in the order of the vehicles and the class names
Obey ==
  /\ batch # <<>>
  /\ LET i == FirstOf(batch) IN
       /\ batch' = RemoveAt(batch, i)
       /\ \/ AssignRelayRole(batch[i])  \/ HandoffRelay(batch[i])
          \/ TakeTask(batch[i])         \/ ReleaseRelayRole(batch[i])
          \/ GiveUpTask(batch[i])       \/ SetTargetPosition(batch[i])
          \/ Return(batch[i])

=============================================================================
