-------------------------- MODULE TelemetryProofs --------------------------
(***************************************************************************)
(* Proofs about perception and reporting, for any fleet, any points of     *)
(* interest, any schedule of disturbances and any delay and deadline: the  *)
(* reports keep the promise of Reporting, and a report is late only for    *)
(* the two reasons NoneLeftBehind allows.                                  *)
(*                                                                         *)
(* What a tick does to a report that is pending is one lemma (Serving); it *)
(* needs to know that the report names a vehicle, and so does the type of  *)
(* the reports: a route and its latency are defined for vehicles only.     *)
(***************************************************************************)
EXTENDS Telemetry, NetworkProofs

Reports == [status : {"NONE", "PENDING"} \cup Closed,
            by : UAVs \cup {None},
            age : 0..Longest,
            latency : 0..(Longest + 1 + Cardinality(UAVs))]

\* Only a report that was never opened has no vehicle, and nothing else either.
Attributed == \A t \in Tasks : IF report[t].status = "NONE" THEN report[t] = Unreported
                                                            ELSE report[t].by \in UAVs

TelemetryInv == TelemetryTypeOK /\ Attributed

LEMMA NumbersKnown ==
  /\ Delay \in Nat /\ Deadline \in Nat /\ FarEnd \in Nat /\ Horizon \in Nat
  /\ Cardinality(UAVs) \in Nat
  /\ Longest \in Nat /\ Delay <= Longest /\ Deadline + 1 <= Longest
<1>1. Delay \in Nat /\ Deadline \in Nat
  BY TelemetryAssumption
<1> QED
  BY <1>1, NetworkAssumption, NodesFinite DEF Longest

LEMMA VehiclesAreNodes ==
  ASSUME NEW u \in UAVs
  PROVE  /\ u \in Nodes /\ u # GCS /\ u # None
         /\ u \in Connected <=> u \in Reachable(Links)
BY NetworkAssumption DEF Nodes, Connected

LEMMA ClosedReport ==
  ASSUME NEW r \in Reports, NEW status, NEW latency
  PROVE  /\ Close(r, status, latency).status = status
         /\ Close(r, status, latency).by = r.by
         /\ Close(r, status, latency).age = 0
         /\ Close(r, status, latency).latency = latency
         /\ status \in Closed /\ latency \in 0..(Longest + 1 + Cardinality(UAVs))
              => Close(r, status, latency) \in Reports
<1>1. 0 \in 0..Longest
  BY NumbersKnown
<1> QED
  BY <1>1 DEF Close, Reports

\* What a tick does to a pending report: it ages by one and stays open, or it
\* is closed, and which of them follows from its age and its route.
LEMMA Serving ==
  ASSUME NEW r \in Reports, r.status = "PENDING", r.by \in UAVs
  PROVE  LET s == Disseminated(r, Links)
             route == ShortestRoute(r.by, Links)
         IN  /\ s \in Reports /\ s.by = r.by
             /\ \/ /\ s.status = "PENDING" /\ s.age = r.age + 1 /\ r.age < Longest
                   /\ r.age < Delay \/ route = None
                \/ s.status = "DELIVERED" /\ s.latency \in r.age..Deadline
                \/ /\ s.status = "DEADLINE_EXCEEDED" /\ s.latency >= r.age
                   /\ \/ route = None /\ r.age > Deadline
                      \/ route # None /\ r.age + RouteLatency(route) > Deadline
<1> DEFINE s == Disseminated(r, Links)
           route == ShortestRoute(r.by, Links)
           older == [r EXCEPT !.age = r.age + 1]
<1>1. r.age \in 0..Longest
  BY DEF Reports
<1>2. ASSUME r.age < Longest
      PROVE  older \in Reports /\ older.by = r.by /\ older.status = "PENDING"
             /\ older.age = r.age + 1
  <2>1. r.age + 1 \in 0..Longest
    BY <1>1, <1>2, NumbersKnown
  <2> QED
    BY <2>1 DEF Reports
<1> HIDE DEF older
<1>3. CASE r.age < Delay
  <2>1. s = older
    BY <1>3 DEF Disseminated, older
  <2>2. r.age < Longest
    BY <1>1, <1>3, NumbersKnown
  <2> QED
    BY <1>2, <1>3, <2>1, <2>2
<1>4. CASE ~(r.age < Delay) /\ route = None
  <2>1. s = IF r.age > Deadline THEN Close(r, "DEADLINE_EXCEEDED", r.age) ELSE older
    BY <1>4 DEF Disseminated, Waits, older
  <2>2. CASE r.age > Deadline
    <3>1. r.age \in 0..(Longest + 1 + Cardinality(UAVs)) /\ "DEADLINE_EXCEEDED" \in Closed
      BY <1>1, NumbersKnown DEF Closed
    <3>2. /\ s \in Reports /\ s.by = r.by
          /\ s.status = "DEADLINE_EXCEEDED" /\ s.latency = r.age
      BY <2>1, <2>2, <3>1, ClosedReport
    <3> QED
      BY <1>1, <1>4, <2>2, <3>2
  <2>3. CASE ~(r.age > Deadline)
    <3>1. s = older
      BY <2>1, <2>3
    <3>2. r.age < Longest
      BY <1>1, <2>3, NumbersKnown
    <3> QED
      BY <1>2, <1>4, <3>1, <3>2
  <2> QED
    BY <2>2, <2>3
<1>5. CASE ~(r.age < Delay) /\ route # None
  <2> DEFINE latency == r.age + RouteLatency(route)
             verdict == IF latency <= Deadline THEN "DELIVERED" ELSE "DEADLINE_EXCEEDED"
  <2>1. s = Close(r, verdict, latency)
    BY <1>5 DEF Disseminated, Arrives
  <2>2. RouteLatency(route) \in 1..(1 + Cardinality(UAVs))
    <3>1. r.by \in Nodes
      BY VehiclesAreNodes
    <3>2. RouteFrom(r.by, route, Links) /\ Len(route) <= Cardinality(UAVs) + 1
      BY <1>5, <3>1, LinksOfAvailable, ShortestRouteFound
    <3> QED
      BY <3>2, LatencyBounded
  <2>3. /\ latency \in 0..(Longest + 1 + Cardinality(UAVs))
        /\ latency >= r.age /\ latency \in Nat
    BY <1>1, <2>2, NumbersKnown
  <2>4. verdict \in Closed
    BY DEF Closed
  <2> HIDE DEF latency
  <2>5. s \in Reports /\ s.by = r.by /\ s.status = verdict /\ s.latency = latency
    BY <2>1, <2>3, <2>4, ClosedReport
  <2>6. CASE latency <= Deadline
    <3>1. latency \in r.age..Deadline
      BY <1>1, <2>3, <2>6, NumbersKnown
    <3> QED
      BY <2>5, <2>6, <3>1
  <2>7. CASE ~(latency <= Deadline)
    <3>1. latency > Deadline
      BY <2>3, <2>7, NumbersKnown
    <3> QED
      BY <1>5, <2>3, <2>5, <2>7, <3>1 DEF latency
  <2> QED
    BY <2>6, <2>7
<1> QED
  BY <1>3, <1>4, <1>5

\* A sighting opens a report that was not, in the name of a vehicle, and leaves
\* every other as it is.
LEMMA Perceiving ==
  ASSUME NEW t \in Tasks, report[t].status = "NONE" => report[t] = Unreported
  PROVE  \/ Perceived(t, Connected) = report[t]
         \/ /\ report[t].status = "NONE"
            /\ Perceived(t, Connected) \in Reports
            /\ Perceived(t, Connected).status = "PENDING"
            /\ Perceived(t, Connected).by \in UAVs
            /\ Perceived(t, Connected).age = 0
<1> DEFINE seers == {u \in UAVs : Sees(u, t, Connected)}
           p == [Unreported EXCEPT !.status = "PENDING", !.by = Min(seers)]
<1>1. Perceived(t, Connected) =
        IF t \notin created \/ report[t].status # "NONE" \/ seers = {}
        THEN report[t] ELSE p
  BY DEF Perceived
<1>2. ASSUME seers # {} PROVE Min(seers) \in UAVs
  <2>1. seers \subseteq Nat
    BY NetworkAssumption
  <2> HIDE DEF seers
  <2>2. \E x \in seers : \A y \in seers : x <= y
    BY <1>2, <2>1, LeastNatural
  <2>3. Min(seers) \in seers
    BY <2>2 DEF Min
  <2> QED
    BY <2>3 DEF seers
<1>3. ASSUME seers # {}
      PROVE  p \in Reports /\ p.status = "PENDING" /\ p.by \in UAVs /\ p.age = 0
  <2>1. 0 \in 0..Longest /\ 0 \in 0..(Longest + 1 + Cardinality(UAVs))
    BY NumbersKnown
  <2> HIDE DEF seers
  <2> QED
    BY <1>2, <1>3, <2>1 DEF Unreported, Reports
<1> HIDE DEF seers, p
<1> QED
  BY <1>1, <1>3

LEMMA TelemetryInvInit == TelemetryInit => TelemetryInv
<1> SUFFICES ASSUME TelemetryInit PROVE TelemetryInv
  OBVIOUS
<1>1. NetworkTypeOK
  BY NumbersKnown DEF TelemetryInit, NetworkInit, NetworkTypeOK
<1>2. Unreported \in Reports
  <2>1. 0 \in 0..Longest /\ 0 \in 0..(Longest + 1 + Cardinality(UAVs))
    BY NumbersKnown
  <2> QED
    BY <2>1 DEF Unreported, Reports
<1>3. created \subseteq Tasks /\ assigned \in [Tasks -> UAVs \cup {None}]
  BY DEF TelemetryInit
<1>4. report = [t \in Tasks |-> Unreported] /\ report \in [Tasks -> Reports]
  BY <1>2 DEF TelemetryInit
<1>5. Attributed
  <2>1. \A t \in Tasks : report[t] = Unreported
    BY <1>4
  <2>2. Unreported.status = "NONE"
    BY DEF Unreported
  <2> QED
    BY <2>1, <2>2 DEF Attributed
<1> QED
  BY <1>1, <1>3, <1>4, <1>5 DEF TelemetryInv, TelemetryTypeOK, Reports

LEMMA WorldTyped ==
  ASSUME NetworkTypeOK, World \/ (PassTime /\ UNCHANGED <<at, up>>)
  PROVE  NetworkTypeOK'
<1>1. at \in [UAVs -> 0..FarEnd] /\ up \subseteq UAVs /\ now \in 0..Horizon
  BY DEF NetworkTypeOK
<1>2. CASE PassTime /\ UNCHANGED <<at, up>>
  BY <1>1, <1>2, NumbersKnown DEF PassTime, NetworkTypeOK
<1>3. ASSUME NEW u \in UAVs, Fly(u) PROVE NetworkTypeOK'
  BY <1>1, <1>3 DEF Fly, NetworkTypeOK
<1>4. ASSUME NEW u \in UAVs, FailVehicle(u) \/ RecoverVehicle(u) PROVE NetworkTypeOK'
  BY <1>1, <1>4 DEF FailVehicle, RecoverVehicle, NetworkTypeOK
<1> QED
  BY <1>2, <1>3, <1>4 DEF World

\* A tick, report by report: it stays as it is, or it is served, and the one
\* that is served is pending by now.
LEMMA TickServes ==
  ASSUME TelemetryInv, Tick, NEW t \in Tasks
  PROVE  \/ report'[t] = report[t] /\ report[t].status # "PENDING"
         \/ \E r \in Reports :
              /\ r.status = "PENDING" /\ r.by \in UAVs
              /\ r = report[t] \/ (report[t].status = "NONE" /\ r.age = 0)
              /\ report'[t] = Disseminated(r, Links)
<1> DEFINE p == Perceived(t, Connected)
<1>1. /\ report[t] \in Reports
      /\ report[t].status = "NONE" => report[t] = Unreported
      /\ report[t].status # "NONE" => report[t].by \in UAVs
  BY DEF TelemetryInv, TelemetryTypeOK, Attributed, Reports
<1>2. report'[t] = Disseminated(p, Links)
  BY DEF Tick
<1>3. \/ p = report[t]
      \/ /\ report[t].status = "NONE" /\ p \in Reports
         /\ p.status = "PENDING" /\ p.by \in UAVs /\ p.age = 0
  BY <1>1, Perceiving
<1> HIDE DEF p
<1>4. CASE p.status = "PENDING"
  <2>1. /\ p \in Reports /\ p.by \in UAVs
        /\ p = report[t] \/ (report[t].status = "NONE" /\ p.age = 0)
    <3>1. CASE p = report[t]
      <4>1. report[t].status # "NONE"
        BY <1>4, <3>1
      <4> QED
        BY <1>1, <3>1, <4>1
    <3>2. CASE p # report[t]
      BY <1>3, <3>2
    <3> QED
      BY <3>1, <3>2
  <2> QED
    BY <1>2, <1>4, <2>1
<1>5. CASE p.status # "PENDING"
  <2>1. Disseminated(p, Links) = p
    BY <1>5 DEF Disseminated
  <2> QED
    BY <1>2, <1>3, <1>5, <2>1
<1> QED
  BY <1>4, <1>5

LEMMA TelemetryInvNext ==
  ASSUME TelemetryInv, [TelemetryNext]_vars
  PROVE  TelemetryInv'
<1>1. /\ NetworkTypeOK /\ created \subseteq Tasks
      /\ assigned \in [Tasks -> UAVs \cup {None}] /\ report \in [Tasks -> Reports]
      /\ Attributed
  BY DEF TelemetryInv, TelemetryTypeOK, Reports
<1> SUFFICES /\ NetworkTypeOK' /\ created' \subseteq Tasks
             /\ assigned' \in [Tasks -> UAVs \cup {None}]
             /\ report' \in [Tasks -> Reports] /\ Attributed'
  BY DEF TelemetryInv, TelemetryTypeOK, Reports
<1>2. CASE Tick
  <2>1. NetworkTypeOK' /\ created' \subseteq Tasks /\ assigned' \in [Tasks -> UAVs \cup {None}]
    BY <1>1, <1>2, WorldTyped DEF Tick
  <2>2. DOMAIN report' = Tasks /\ report' = [t \in Tasks |-> report'[t]]
    BY <1>2 DEF Tick
  <2>3. ASSUME NEW t \in Tasks
        PROVE  /\ report'[t] \in Reports
               /\ IF report'[t].status = "NONE" THEN report'[t] = Unreported
                                                ELSE report'[t].by \in UAVs
    <3>1. CASE report'[t] = report[t]
      BY <1>1, <3>1 DEF Attributed
    <3>2. CASE report'[t] # report[t]
      <4>1. PICK r \in Reports : /\ r.status = "PENDING" /\ r.by \in UAVs
                                 /\ report'[t] = Disseminated(r, Links)
        BY <1>2, <3>2, TickServes
      <4> DEFINE s == Disseminated(r, Links)
      <4>2. s \in Reports /\ s.by = r.by /\ s.status # "NONE"
        BY <4>1, Serving
      <4> HIDE DEF s
      <4> QED
        BY <4>1, <4>2 DEF s
    <3> QED
      BY <3>1, <3>2
  <2> QED
    BY <2>1, <2>2, <2>3 DEF Attributed
<1>3. CASE World /\ UNCHANGED telemetryVars
  <2>1. NetworkTypeOK'
    <3>1. World
      BY <1>3
    <3> QED
      BY <1>1, <3>1, WorldTyped
  <2>2. created' = created /\ assigned' = assigned /\ report' = report
    BY <1>3 DEF telemetryVars
  <2> QED
    BY <1>1, <2>1, <2>2 DEF Attributed
<1>4. CASE Mission
  <2>1. UNCHANGED <<networkVars, report>> /\ created' \subseteq Tasks
        /\ assigned' \in [Tasks -> UAVs \cup {None}]
    BY <1>1, <1>4 DEF Mission, Appear, Assign, Release
  <2> QED
    BY <1>1, <2>1 DEF networkVars, NetworkTypeOK, Attributed
<1>5. CASE UNCHANGED vars
  BY <1>1, <1>5 DEF vars, networkVars, telemetryVars, NetworkTypeOK, Attributed
<1> QED
  BY <1>2, <1>3, <1>4, <1>5 DEF TelemetryNext

\* Positions, assignments and reports are what the code means them to be; the
\* age of a report never exceeds the bound from which its type is written.
THEOREM TelemetryTypeCorrect == TelemetrySpec => []TelemetryTypeOK
<1>1. TelemetryInv /\ [TelemetryNext]_vars => TelemetryInv'
  BY TelemetryInvNext
<1>2. TelemetryInv => TelemetryTypeOK
  BY DEF TelemetryInv
<1> QED
  BY <1>1, <1>2, TelemetryInvInit, PTL DEF TelemetrySpec

\* In every reachable state the analysis handed to the other components is
\* what NetworkAnalysis promises: the components partition the available
\* nodes, exactly the vehicles in the component of the ground station have a
\* shortest route, and that route is valid and as long as the hop count says.
THEOREM AnalysisCorrect == TelemetrySpec => []AnalysisContract
<1>1. TelemetryInv /\ [TelemetryNext]_vars => TelemetryInv'
  BY TelemetryInvNext
<1>2. TelemetryInv => AnalysisContract
  BY ContractHolds DEF TelemetryInv, TelemetryTypeOK, NetworkTypeOK
<1> QED
  BY <1>1, <1>2, TelemetryInvInit, PTL DEF TelemetrySpec

LEMMA NoneLeftBehindStep ==
  ASSUME TelemetryInv, [TelemetryNext]_vars,
         NEW t \in Tasks, report[t].status = "PENDING"
  PROVE  /\ report'[t].status = "DEADLINE_EXCEEDED"
              => (CutOff(t) /\ report[t].age > Deadline) \/ TooSlow(t)
         /\ report'[t].status = "PENDING"
              => report'[t] = report[t] \/ CutOff(t) \/ report[t].age < Delay
<1> DEFINE r == report[t]
           route == ShortestRoute(r.by, Links)
<1>1. CASE Tick
  <2>1. r \in Reports /\ r.by \in UAVs /\ r.status = "PENDING"
    BY DEF TelemetryInv, TelemetryTypeOK, Attributed, Reports
  <2>2. report'[t] = Disseminated(r, Links)
    <3>1. r.status # "NONE"
      BY <2>1
    <3> QED
      BY <1>1, <3>1, TickServes
  <2>3. route = None <=> CutOff(t)
    BY <2>1, VehiclesAreNodes, LinksOfAvailable, ShortestRouteFound DEF CutOff
  <2>4. route # None /\ r.age + RouteLatency(route) > Deadline => TooSlow(t)
    BY <2>1, <2>3, VehiclesAreNodes DEF CutOff, TooSlow
  <2> DEFINE s == Disseminated(r, Links)
  <2>5. \/ s.status = "PENDING" /\ (r.age < Delay \/ route = None)
        \/ s.status = "DELIVERED"
        \/ /\ s.status = "DEADLINE_EXCEEDED"
           /\ \/ route = None /\ r.age > Deadline
              \/ route # None /\ r.age + RouteLatency(route) > Deadline
    BY <2>1, Serving
  <2> HIDE DEF s, route
  <2> QED
    BY <2>2, <2>3, <2>4, <2>5 DEF s
<1>2. CASE ~Tick
  <2>1. report' = report
    BY <1>2 DEF TelemetryNext, telemetryVars, vars, Mission, Appear, Assign, Release
  <2> QED
    BY <2>1
<1> QED
  BY <1>1, <1>2

\* A report is given up only when its vehicle is cut off past the deadline or
\* its route is too slow, and it ages only while its vehicle is cut off or
\* processes it, whatever links, vehicles and assignments do.
THEOREM ReportsOnlyLateForCause == TelemetrySpec => NoneLeftBehind
<1>1. TelemetryInv /\ [TelemetryNext]_vars => TelemetryInv'
  BY TelemetryInvNext
<1>2. TelemetryInv /\ [TelemetryNext]_vars =>
        [\A t \in Tasks : report[t].status = "PENDING" =>
           /\ report'[t].status = "DEADLINE_EXCEEDED"
                => (CutOff(t) /\ report[t].age > Deadline) \/ TooSlow(t)
           /\ report'[t].status = "PENDING"
                => report'[t] = report[t] \/ CutOff(t) \/ report[t].age < Delay
        ]_vars
  BY NoneLeftBehindStep
<1> QED
  BY <1>1, <1>2, TelemetryInvInit, PTL DEF TelemetrySpec, NoneLeftBehind

(***************************************************************************)
(* The promise.                                                            *)
(***************************************************************************)

LEMMA FateKnown ==
  ASSUME NEW r
  PROVE  /\ r.status = "NONE" => Fate(r) = "unseen"
         /\ r.status = "PENDING" => Fate(r) = "open"
         /\ r.status = "DELIVERED" => Fate(r) = "delivered"
         /\ r.status = "DEADLINE_EXCEEDED" => Fate(r) = "lost"
BY Zenon DEF Fate

LEMMA PromiseTick ==
  ASSUME TelemetryInv, Tick
  PROVE  Promise!Tick
<1> SUFFICES ASSUME NEW t \in Tasks
             PROVE  \/ Promise!See(t) \/ Promise!Carry(t)
                    \/ (Fate(report[t]) # "open" /\ Promise!Unchanged(t))
  BY DEF Promise!Tick
<1> DEFINE old == report[t]
           new == report'[t]
<1>2. CASE new = old /\ old.status # "PENDING"
  <2>1. Fate(old) # "open"
    <3>1. old.status \in {"NONE"} \cup Closed
      BY <1>2 DEF TelemetryInv, TelemetryTypeOK
    <3> QED
      BY <3>1, FateKnown DEF Closed
  <2>2. Promise!Unchanged(t)
    BY <1>2 DEF Promise!Unchanged
  <2> QED
    BY <2>1, <2>2
<1>3. CASE ~(new = old /\ old.status # "PENDING")
  <2>1. PICK r \in Reports : /\ r.status = "PENDING" /\ r.by \in UAVs
                             /\ r = old \/ (old.status = "NONE" /\ r.age = 0)
                             /\ new = Disseminated(r, Links)
    BY <1>3, TickServes
  <2> DEFINE s == Disseminated(r, Links)
  <2>2. /\ s.by = r.by
        /\ \/ s.status = "PENDING" /\ s.age = r.age + 1 /\ r.age < Longest
           \/ s.status = "DELIVERED" /\ s.latency \in r.age..Deadline
           \/ s.status = "DEADLINE_EXCEEDED" /\ s.latency >= r.age
    BY <2>1, Serving
  <2> HIDE DEF s
  <2>3. new = s
    BY <2>1 DEF s
  <2>4. Promise!OpenOrClosed(t, r.age)
    <3>1. CASE s.status = "PENDING" /\ s.age = r.age + 1 /\ r.age < Longest
      <4>1. Fate(new) = "open"
        BY <2>3, <3>1, FateKnown
      <4> QED
        BY <2>3, <3>1, <4>1 DEF Promise!OpenOrClosed
    <3>2. CASE s.status = "DELIVERED" /\ s.latency \in r.age..Deadline
      <4>1. Fate(new) = "delivered"
        BY <2>3, <3>2, FateKnown
      <4> QED
        BY <2>3, <3>2, <4>1 DEF Promise!OpenOrClosed
    <3>3. CASE s.status = "DEADLINE_EXCEEDED" /\ s.latency >= r.age
      <4>1. Fate(new) = "lost"
        BY <2>3, <3>3, FateKnown
      <4> QED
        BY <2>3, <3>3, <4>1 DEF Promise!OpenOrClosed
    <3> QED
      BY <2>2, <3>1, <3>2, <3>3
  <2>5. CASE r = old
    <3>1. Fate(old) = "open"
      BY <2>1, <2>5, FateKnown
    <3>2. new.by = old.by /\ old.status = "PENDING"
      BY <2>1, <2>2, <2>3, <2>5
    <3>3. Promise!Carry(t)
      BY <2>4, <2>5, <3>1, <3>2 DEF Promise!Carry, Promise!OpenOrClosed
    <3> QED
      BY <3>3
  <2>6. CASE old.status = "NONE" /\ r.age = 0
    <3>1. Fate(old) = "unseen"
      BY <2>6, FateKnown
    <3>2. Promise!See(t)
      BY <2>1, <2>2, <2>3, <2>4, <2>6, <3>1 DEF Promise!See
    <3> QED
      BY <3>2
  <2> QED
    BY <2>1, <2>5, <2>6
<1> QED
  BY <1>2, <1>3

LEMMA PromiseInit ==
  ASSUME TelemetryInit
  PROVE  Promise!Init
<1>1. \A t \in Tasks : report[t] = Unreported
  BY DEF TelemetryInit
<1>2. Unreported.status = "NONE" /\ Unreported.by = None /\ Unreported.latency = 0
  BY DEF Unreported
<1>3. \A t \in Tasks : /\ Fate(report[t]) = "unseen" /\ report[t].by = None
                       /\ report[t].status = "NONE" /\ report[t].latency = 0
  BY <1>1, <1>2, FateKnown
<1>4. [t \in Tasks |-> Fate(report[t])] = [t \in Tasks |-> "unseen"]
  BY <1>3
<1>5. [t \in Tasks |-> report[t].by] = [t \in Tasks |-> None]
  BY <1>3
<1>6. [t \in Tasks |-> IF report[t].status = "PENDING" THEN report[t].age
                       ELSE report[t].latency] = [t \in Tasks |-> 0]
  BY <1>3
<1> QED
  BY <1>4, <1>5, <1>6 DEF Promise!Init

\* The reports implement the promise of Reporting: one vehicle and one verdict
\* for each task, delivered only within the deadline, and no report open past
\* it, for any fleet, network and schedule.
THEOREM TelemetryKeepsPromise == TelemetrySpec => ReportsAsPromised
<1>1. TelemetryInv /\ [TelemetryNext]_vars => TelemetryInv'
  BY TelemetryInvNext
<1>2. TelemetryInv /\ [TelemetryNext]_vars => [Promise!Tick]_Promise!promise
  <2> SUFFICES ASSUME TelemetryInv, [TelemetryNext]_vars
               PROVE  [Promise!Tick]_Promise!promise
    OBVIOUS
  <2>1. CASE Tick
    BY <2>1, PromiseTick
  <2>2. CASE ~Tick
    <3>1. report' = report
      BY <2>2 DEF TelemetryNext, telemetryVars, vars, Mission, Appear, Assign, Release
    <3>2. UNCHANGED Promise!promise
      BY <3>1 DEF Promise!promise, Fate
    <3> QED
      BY <3>2
  <2> QED
    BY <2>1, <2>2
<1> QED
  BY <1>1, <1>2, TelemetryInvInit, PromiseInit, PTL DEF TelemetrySpec, ReportsAsPromised, Promise!Spec

\* The routes of both routings are not only valid: each is the lexicographically
\* smallest of the simple paths that are best, with the fewest hops for the one
\* and with the least cost for the other.
THEOREM RoutesLeast == TelemetrySpec => []RoutesAreLeast
<1>1. TelemetryInv /\ [TelemetryNext]_vars => TelemetryInv'
  BY TelemetryInvNext
<1>2. TelemetryInv => RoutesAreLeast
  BY LeastHolds, ReliableHolds DEF TelemetryInv, TelemetryTypeOK, NetworkTypeOK, RoutesAreLeast
<1> QED
  BY <1>1, <1>2, TelemetryInvInit, PTL DEF TelemetrySpec
=============================================================================
