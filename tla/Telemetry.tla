----------------------------- MODULE Telemetry -----------------------------
(***************************************************************************)
(* Perception and reporting (telemetry/manager.py) on top of the network.  *)
(* A tick reads one snapshot and the analysis made of it, first looks for  *)
(* points of interest and then serves the reports that are pending.  The   *)
(* mission around it (MissionLoop) assigns and releases vehicles, which    *)
(* here happens at any time.                                               *)
(*                                                                         *)
(* A report keeps its age in ticks instead of the time of its detection.   *)
(* pending_reports is the set of reports whose status is "PENDING".  A     *)
(* task is the place it lies at.                                           *)
(***************************************************************************)
EXTENDS Network

CONSTANTS Tasks,      \* points of interest, one place each
          Fov,        \* sensor_fov_radius_m
          Delay,      \* processing_delay_s
          Deadline    \* reporting_deadline_s

ASSUME TelemetryAssumption ==
  /\ Tasks \subseteq 0..FarEnd
  /\ Fov \in Nat /\ Delay \in Nat /\ Deadline \in Nat

VARIABLES created,   \* tasks whose created_time has come
          assigned,  \* assigned_uav_id
          report     \* authoritative_reports

telemetryVars == <<created, assigned, report>>
vars == <<networkVars, telemetryVars>>

Unreported == [status |-> "NONE", by |-> None, age |-> 0, latency |-> 0]
Closed == {"DELIVERED", "DEADLINE_EXCEEDED"}

\* the oldest a report can get: it expires in the tick after its deadline, or
\* when it has been processed
Longest == IF Delay > Deadline THEN Delay ELSE Deadline + 1

TelemetryTypeOK ==
  /\ NetworkTypeOK
  /\ created \subseteq Tasks
  /\ assigned \in [Tasks -> UAVs \cup {None}]
  /\ report \in [Tasks -> [status : {"NONE", "PENDING"} \cup Closed,
                           by : UAVs \cup {None},
                           age : 0..Longest,
                           latency : 0..(Longest + 1 + Cardinality(UAVs))]]

-----------------------------------------------------------------------------
(* step_perception *)

\* in flight, here: off its base.  The flight records of the assessor (MissionLoop)
\* say so of every active vehicle out there, and COMPLETE it is on its pad only.
Airborne(u) == u \in up /\ at[u] # 0

InView(u, t) == at[u] - t \in -Fov..Fov

\* a vehicle that neither serves the task nor has a route reports nothing
Sees(u, t, connected) == /\ Airborne(u) /\ InView(u, t)
                         /\ assigned[t] = u \/ u \in connected

\* mutant of Perceived: a later sighting replaces the report
MutPerceived(t, connected) ==
  LET seers == {u \in UAVs : Sees(u, t, connected)}
  IN  IF t \notin created \/ seers = {} THEN report[t]
      ELSE [Unreported EXCEPT !.status = "PENDING", !.by = Min(seers)]

\* the first sighting opens the report of a task; the smallest id wins a tie
Perceived(t, connected) ==
  LET seers == {u \in UAVs : Sees(u, t, connected)}
  IN  IF t \notin created \/ report[t].status # "NONE" \/ seers = {} THEN report[t]
      ELSE [Unreported EXCEPT !.status = "PENDING", !.by = Min(seers)]

-----------------------------------------------------------------------------
(* step_telemetry *)

Close(r, status, latency) == [r EXCEPT !.status = status, !.age = 0, !.latency = latency]

\* with a route the verdict is passed at once, on the predicted arrival
Arrives(r, route) ==
  LET latency == r.age + RouteLatency(route)
  IN  Close(r, IF latency <= Deadline THEN "DELIVERED" ELSE "DEADLINE_EXCEEDED", latency)

\* mutants of Waits: a report without a route is kept for ever, given up, or
\* expires a tick late
MutWaitsForEver(r) == [r EXCEPT !.age = IF @ < Longest THEN @ + 1 ELSE @]
MutWaitsNot(r) == Close(r, "DEADLINE_EXCEEDED", r.age)
MutWaitsLate(r) == IF r.age > Deadline + 1 THEN Close(r, "DEADLINE_EXCEEDED", r.age)
                   ELSE [r EXCEPT !.age = @ + 1]

\* without one it is kept until its deadline has passed
Waits(r) == IF r.age > Deadline THEN Close(r, "DEADLINE_EXCEEDED", r.age)
            ELSE [r EXCEPT !.age = @ + 1]

Disseminated(r, links) ==
  IF r.status # "PENDING" THEN r
  ELSE IF r.age < Delay THEN [r EXCEPT !.age = @ + 1]
  ELSE LET route == ShortestRoute(r.by, links)
       IN  IF route = None THEN Waits(r) ELSE Arrives(r, route)

-----------------------------------------------------------------------------
TelemetryInit == /\ NetworkInit
                 /\ created = {}
                 /\ assigned = [t \in Tasks |-> None]
                 /\ report = [t \in Tasks |-> Unreported]

\* the end of MissionRunner.step: analyze, step_perception, step_telemetry
Tick == /\ UNCHANGED <<at, up, created, assigned>>
        /\ PassTime
        /\ LET links == Links
               connected == Connected
           IN  report' = [t \in Tasks |-> Disseminated(Perceived(t, connected), links)]

Appear(t) == /\ t \in Tasks \ created
             /\ created' = created \cup {t}
             /\ UNCHANGED <<networkVars, assigned, report>>

Assign(t, u) == /\ t \in created /\ assigned[t] = None
                /\ u \in up /\ \A s \in Tasks : assigned[s] # u
                /\ assigned' = [assigned EXCEPT ![t] = u]
                /\ UNCHANGED <<networkVars, created, report>>

Release(t) == /\ assigned[t] # None
              /\ assigned' = [assigned EXCEPT ![t] = None]
              /\ UNCHANGED <<networkVars, created, report>>

Mission == \E t \in Tasks : Appear(t) \/ Release(t) \/ \E u \in UAVs : Assign(t, u)

TelemetryNext == \/ Tick
                 \/ World /\ UNCHANGED telemetryVars
                 \/ Mission

\* run() calls step again and again
TelemetrySpec == TelemetryInit /\ [][TelemetryNext]_vars /\ WF_vars(Tick)

-----------------------------------------------------------------------------
(* Properties *)

Fate(r) == CASE r.status = "NONE" -> "unseen"
             [] r.status = "PENDING" -> "open"
             [] r.status = "DELIVERED" -> "delivered"
             [] r.status = "DEADLINE_EXCEEDED" -> "lost"

Promise == INSTANCE Reporting WITH
             Sites <- Tasks, Vehicles <- UAVs, Nobody <- None,
             InTime <- Deadline, MaxWait <- Longest,
             fate <- [t \in Tasks |-> Fate(report[t])],
             reporter <- [t \in Tasks |-> report[t].by],
             spent <- [t \in Tasks |-> IF report[t].status = "PENDING" THEN report[t].age
                                       ELSE report[t].latency]

\* Whatever happens to the links, the vehicles and the assignments, the
\* reports keep the promise of Reporting: one vehicle and one verdict for each
\* task, no delivery after the deadline, and no report that stays open past it.
\* (first-detection rule and deadline of telemetry/manager.py)
ReportsAsPromised == Promise!Spec

\* Every report that is opened is closed, also that of a vehicle which has
\* failed or never gets its route back.
EveryReportCloses == Promise!EveryReportCloses

\* A report is lost only when its vehicle is cut off past the deadline or its
\* route is too slow by now, and it waits only while its vehicle is cut off or
\* processes it: losing the route for a while costs a report nothing, and the
\* reports of other vehicles are not held up.
CutOff(t) == report[t].by # None /\ report[t].by \notin Connected
TooSlow(t) == /\ report[t].by \in Connected
              /\ report[t].age + RouteLatency(ShortestRoute(report[t].by, Links)) > Deadline

NoneLeftBehind ==
  [][\A t \in Tasks : report[t].status = "PENDING" =>
       /\ report'[t].status = "DEADLINE_EXCEEDED"
            => (CutOff(t) /\ report[t].age > Deadline) \/ TooSlow(t)
       /\ report'[t].status = "PENDING"
            => report'[t] = report[t] \/ CutOff(t) \/ report[t].age < Delay
    ]_vars
=============================================================================
