-------------------------- MODULE SequencerProofs --------------------------
(***************************************************************************)
(* Proofs about the departure sequencer, for any fleet and any tasks: its  *)
(* three tables agree, the phase it replaces is an instance of the one     *)
(* MissionLoop leaves open, and whoever it counts as staged or queued does *)
(* not move.                                                               *)
(*                                                                         *)
(* The three need each other.  The sequencer keeps its own phase of a      *)
(* vehicle and looks at the store once a tick: what it has to know is that *)
(* a vehicle it counts as waiting is still in the staging area (Parked),   *)
(* and that a return to home is noticed before it is completed (Noticed).  *)
(***************************************************************************)
EXTENDS DepartureSequencer, MissionProofs, LeastNumbers

Waiting(u) == uavPhase[u] \in {"STAGED", "QUEUED"}

Still(u) == uav[u].target \in {None, uav[u].place} \/ ~uav[u].active

\* Whoever waits is in the staging area, is not moved by the physics, and has
\* nowhere to go when they run.
Parked == \A u \in UAVs : Waiting(u) =>
  /\ InStaging(u)
  /\ \A c \in inbox : c.type = "StepPhysics" /\ c.uav = u =>
       c.place = uav[u].place
  /\ phase = "fly" => Still(u) \/ SetTarget(u, None) \in inbox
  /\ \A c \in inbox : phase = "fly" /\ c.uav = u => c.target = None

\* A vehicle in the queue that is called home leaves the queue in that tick.
Noticed == \A u \in UAVs : uavPhase[u] = "QUEUED" =>
  \/ uav[u].rth = "NONE"
  \/ /\ uav[u].rth = "ACTIVE"
     /\ phase \in {"allocate", "serve", "clear", "allDone", "depart"}

\* The targets recorded are ones a vehicle may be sent to.
IntendedBound == \A u \in UAVs : intended[u] \in Bound

SequencerInv == /\ SafetyInv
                /\ SequencerTypeOK
                /\ QueueIsQueued
                /\ Parked
                /\ Noticed
                /\ IntendedBound

(***************************************************************************)
(* One pass of the sequencer.                                              *)
(***************************************************************************)

LEMMA FirstIsQueued ==
  ASSUME NEW queue, queue \subseteq UAVs, queue # {}
  PROVE  First(queue) \in queue
<1>1. queue \subseteq Nat
  BY UAVsAssumption
<1>2. \E u \in queue : \A v \in queue : u <= v
  BY <1>1, LeastNatural
<1> QED
  BY <1>2 DEF First

\* Short of clearance_x, a vehicle is in the staging area.
LEMMA ZonesAreSites ==
  ASSUME NEW u \in UAVs, NEW zone \in Zones(u), zone # "clear"
  PROVE  uav[u].place \in {"pad", "corridor"}
BY DEF Zones

\* Where a vehicle that waits is sent is a place it may be sent to; one that has
\* nowhere to go is where its target is.
LEMMA MissionTargets ==
  ASSUME SafetyInv, NEW u \in UAVs, uav[u].rth = "NONE",
         NEW aim, aim[u] \in Bound
  PROVE  /\ MissionTarget(u, aim) \in Bound
         /\ MissionTarget(u, aim) = None =>
              uav[u].target \in {None, uav[u].place}
<1>1. uav[u].target \in Bound /\ uav[u].assigned \in Tasks \union {None}
  BY DEF SafetyInv, Docked, Docks, MissionInv, StoreInv, StoreTypeOK, UAVState
<1>2. Tasks \union {None} \subseteq Bound
  BY DEF Bound
<1> QED
  BY <1>1, <1>2 DEF MissionTarget

(***************************************************************************)
(* What the other phases leave of Parked and Noticed.                      *)
(***************************************************************************)

\* A vehicle that waits is moved by no command.
LEMMA HandleParks ==
  ASSUME SequencerInv, NEW c \in inbox, Handle(c), NEW u \in UAVs, Waiting(u)
  PROVE  uav'[u].place = uav[u].place
<1>1. CASE uav'[u] = uav[u]
  BY <1>1
<1>2. CASE uav'[u] # uav[u]
  <2>1. c.uav = u /\ Written(c, uav[u], uav'[u])
    BY <1>2, HandleWrites DEF SequencerInv
  <2> QED
    BY <2>1 DEF Written, SequencerInv, Parked
<1> QED
  BY <1>1, <1>2

\* After a command of the sequencer for a waiting vehicle it has no target.
LEMMA HandleStops ==
  ASSUME SequencerInv, phase = "fly", NEW c \in inbox, Handle(c),
         inbox' = inbox \ {c}, NEW u \in UAVs, Waiting(u)
  PROVE  Still(u)' \/ SetTarget(u, None) \in inbox'
<1>1. uav \in [UAVs -> UAVState] /\ None \in Targets
  BY DEF SequencerInv, SafetyInv, MissionInv, StoreInv, StoreTypeOK, Targets
<1>2. /\ c.type = "SetTargetPosition" /\ c.uav \in UAVs /\ Accepts(c)
  BY ReadyAccepted DEF SequencerInv, SafetyInv, BatchReady, AllReady, Ready, Sent
<1>3. uav' = [uav EXCEPT ![c.uav] = [uav[c.uav] EXCEPT !.target = c.target]]
  BY <1>2
  DEF Handle, Apply, AssignTask, ReleaseTask, ProgressTask, DiscoverTask,
      AlreadyClosed, AssignRelayRole, ReleaseRelayRole, HandoffRelay,
      StartRTH, BeginLanding, CompleteRTH, StartRecharge, CompleteRecharge,
      FailUAV, RecoverUAV, SetTargetPosition, StepPhysics
<1>4. CASE c.uav = u
  <2> DEFINE s == [uav[u] EXCEPT !.target = c.target]
  <2>1. c.target = None
    BY <1>4 DEF SequencerInv, Parked
  <2>2. s.target = None
    BY <1>1, <2>1, FlightFields
  <2>3. uav' = [uav EXCEPT ![u] = s]
    BY <1>3, <1>4
  <2> HIDE DEF s
  <2> QED
    BY <1>1, <2>2, <2>3 DEF Still
<1>5. CASE c.uav # u
  <2>1. uav'[u] = uav[u]
    BY <1>1, <1>2, <1>3, <1>5
  <2>2. SetTarget(u, None) # c
    BY <1>1, <1>5, FlightCommands
  <2> QED
    BY <2>1, <2>2 DEF Still, SequencerInv, Parked
<1> QED
  BY <1>4, <1>5

\* A return starts before the sequencer runs, and ends after it.
LEMMA HandleNoticed ==
  ASSUME SequencerInv, NEW c \in inbox, Handle(c), phase' = phase,
         uavPhase' = uavPhase
  PROVE  Noticed'
<1> SUFFICES ASSUME NEW u \in UAVs, uavPhase[u] = "QUEUED"
             PROVE  \/ uav'[u].rth = "NONE"
                    \/ /\ uav'[u].rth = "ACTIVE"
                       /\ phase \in {"allocate", "serve", "clear", "allDone",
                                     "depart"}
  BY DEF Noticed
<1>1. \/ uav[u].rth = "NONE"
      \/ /\ uav[u].rth = "ACTIVE"
         /\ phase \in {"allocate", "serve", "clear", "allDone", "depart"}
  BY DEF SequencerInv, Noticed
<1>2. CASE uav'[u] = uav[u]
  BY <1>1, <1>2
<1>3. CASE uav'[u] # uav[u]
  <2>1. c.type \in Sent(phase)
    BY DEF SequencerInv, SafetyInv, BatchReady, AllReady, Ready
  <2>2. Written(c, uav[u], uav'[u])
    BY <1>3, HandleWrites DEF SequencerInv
  <2> QED
    BY <1>1, <2>1, <2>2 DEF Written, Sent
<1> QED
  BY <1>2, <1>3

LEMMA ApplyWaits ==
  ASSUME SequencerInv, ApplyCommand, UNCHANGED sequencerVars
  PROVE  Parked' /\ Noticed'
<1>1. PICK c \in inbox : inbox' = inbox \ {c} /\ Handle(c)
  BY DEF ApplyCommand
<1>2. phase' = phase /\ uavPhase' = uavPhase
  BY DEF ApplyCommand, sequencerVars
<1>3. Parked'
  <2> SUFFICES ASSUME NEW u \in UAVs, Waiting(u)
               PROVE  /\ InStaging(u)'
                      /\ \A d \in inbox' : d.type = "StepPhysics" /\ d.uav = u =>
                           d.place = uav'[u].place
                      /\ phase = "fly" =>
                           Still(u)' \/ SetTarget(u, None) \in inbox'
                      /\ \A d \in inbox' :
                           phase = "fly" /\ d.uav = u => d.target = None
    BY <1>2 DEF Parked, Waiting, SetTarget, Cmd
  <2>1. uav'[u].place = uav[u].place
    BY <1>1, HandleParks
  <2> QED
    BY <1>1, <2>1, HandleStops DEF SequencerInv, Parked, InStaging
<1>4. Noticed'
  BY <1>1, <1>2, HandleNoticed
<1> QED
  BY <1>3, <1>4

\* A phase that sends no physics: nothing to look at.
LEMMA PhaseParks ==
  ASSUME SequencerInv, NEW batch, NEW next, Emit(batch, next), next # "fly",
         uavPhase' = uavPhase,
         \A c \in batch : c.type = "StepPhysics" /\ c.uav \in UAVs
                            /\ Waiting(c.uav) => c.place = uav[c.uav].place
  PROVE  Parked'
BY DEF Emit, SequencerInv, Parked, Waiting, InStaging

LEMMA FlyParks ==
  ASSUME SequencerInv, Fly, uavPhase' = uavPhase
  PROVE  Parked'
<1>1. PICK dest \in Routes, drained \in SUBSET {u \in Flying : ~uav[u].low} :
        FlyTo(dest, drained)
  BY DEF Fly
<1> DEFINE batch == {Step(u, dest[u], u \in drained) : u \in Flying}
<1>2. Emit(batch, "lifecycle") /\ phase = "fly"
  BY <1>1 DEF FlyTo
<1>3. \A c \in batch : \E u \in Flying : c = Step(u, dest[u], u \in drained)
  OBVIOUS
<1> HIDE DEF batch
<1>4. ASSUME NEW u \in Flying, Waiting(u)
      PROVE  dest[u] = uav[u].place
  <2>1. u \in UAVs /\ uav[u].active /\ dest[u] \in Destinations(u)
    BY <1>1 DEF Flying, Routes
  <2>2. uav[u].target \in {None, uav[u].place}
    BY <1>2, <1>4, <2>1 DEF SequencerInv, Parked, Still, Emit
  <2> QED
    BY <2>1, <2>2 DEF Destinations, Ahead
<1>5. ASSUME NEW c \in batch, Waiting(c.uav)
      PROVE  c.place = uav[c.uav].place
  <2>1. PICK u \in Flying : c = Step(u, dest[u], u \in drained)
    BY <1>3
  <2> DEFINE b == u \in drained
  <2>2. /\ u \in UAVs /\ dest[u] \in Places /\ b \in BOOLEAN
        /\ c = Step(u, dest[u], b)
    BY <1>1, <2>1 DEF Flying, Routes
  <2> HIDE DEF b
  <2>3. c.uav = u /\ c.place = dest[u]
    BY <2>2, FlightCommands
  <2> QED
    BY <1>4, <1>5, <2>3
<1> QED
  BY <1>2, <1>5, PhaseParks

LEMMA LifecycleParks ==
  ASSUME SequencerInv, Lifecycle, SafetyInv', uavPhase' = uavPhase
  PROVE  Parked'
<1>1. PICK near \in SUBSET {u \in Homing : Approaches(u)},
           full \in SUBSET Charging : LifecycleOf(near, full)
  BY DEF Lifecycle
<1> DEFINE batch == RouterCommands(near) \union ChargeCommands(full)
<1>2. Emit(batch, "assess")
  BY <1>1 DEF LifecycleOf
<1>3. \A c \in batch :
        \/ \E u \in UAVs : c = SetTarget(u, "pad")
        \/ \E u \in UAVs, type \in {"BeginLanding", "CompleteRTH",
                                    "StartRecharge", "CompleteRecharge"} :
             c = Cmd(type, u)
        \/ \E u \in UAVs : c = ChargeStep(u)
  BY DEF RouterCommands, ChargeCommands, Homing, Charging
<1> HIDE DEF batch
<1>4. ASSUME NEW c \in batch, c.type = "StepPhysics"
      PROVE  c.place = uav[c.uav].place
  <2>1. "pad" \in Targets
    BY DEF Targets, Places
  <2>2. \A u \in UAVs : SetTarget(u, "pad").type = "SetTargetPosition"
    BY <2>1, FlightCommands
  <2>3. \A u \in UAVs, type \in {"BeginLanding", "CompleteRTH",
                                 "StartRecharge", "CompleteRecharge"} :
          Cmd(type, u).type = type
    BY DEF Cmd
  <2>4. \E u \in UAVs : c = ChargeStep(u)
    BY <1>3, <1>4, <2>2, <2>3
  <2> QED
    BY <2>4, FlightCommands
<1> QED
  BY <1>2, <1>4, PhaseParks

LEMMA PhaseWaits ==
  ASSUME SequencerInv, OtherPhase, SafetyInv', UNCHANGED sequencerVars
  PROVE  Parked' /\ Noticed'
<1>1. uavPhase' = uavPhase
  BY DEF sequencerVars
<1>2. /\ Emit(inbox', phase') /\ phase' # "fly"
      /\ phase \in {"allocate", "serve", "clear", "allDone"} =>
           phase' \in {"serve", "clear", "allDone", "depart"}
      /\ phase # "depart"
      /\ phase' \notin {"lifecycle", "assess"} \/ Fly \/ Lifecycle
  BY DEF OtherPhase, ScheduledEvents, Discovery, RTHTriggers, Allocate,
     SkipAllocation, Serve, ClearFinished, AllDone, Fly, FlyTo, Lifecycle,
     LifecycleOf, AdvanceTick, Emit
<1>3. Parked'
  <2>1. CASE phase' \notin {"lifecycle", "assess"}
    <3>1. \A c \in inbox' : c.type # "StepPhysics"
      BY <1>2, <2>1 DEF Emit, SafetyInv, BatchReady, AllReady, Ready, Sent
    <3> QED
      BY <1>1, <1>2, <3>1, PhaseParks
  <2> QED
    BY <1>1, <1>2, <2>1, FlyParks, LifecycleParks
<1>4. Noticed'
  BY <1>1, <1>2 DEF Emit, SequencerInv, Noticed
<1> QED
  BY <1>3, <1>4

(***************************************************************************)
(* One pass of the sequencer.  The names are those of Sequence.            *)
(***************************************************************************)

\* The sites before clearance_x are in the staging area.
SitesStaged == {"pad", "corridor"} \subseteq Staging

Passed == /\ SequencerTypeOK' /\ QueueIsQueued' /\ Parked' /\ Noticed'
          /\ IntendedBound'

LEMMA PassStep ==
  ASSUME SequencerInv, phase = "depart", Sequenced, SitesStaged,
         NEW zone, zone \in IF departing = None THEN {"apron"} ELSE Zones(departing),
         Sequence(zone), UNCHANGED loopVars
  PROVE  Depart /\ Passed
<1> DEFINE
      recalled == {u \in UAVs : ~ReadyAgain(u) /\ Recalled(u)}
      restaged == {u \in UAVs : ReadyAgain(u) /\ uavPhase[u] = "CLEARED"}
      holder   == IF departing \in recalled THEN None ELSE departing
      holders  == {u \in UAVs : u = holder /\ ~Lost(u)}
      ph2 == [u \in UAVs |->
                IF u \in recalled \/ (u \in holders /\ zone = "clear") THEN "CLEARED"
                ELSE IF u \in holders /\ zone = "lane" THEN "TRANSIT"
                ELSE IF u \in restaged THEN "STAGED" ELSE uavPhase[u]]
      aim2 == [u \in UAVs |-> IF u \in recalled \union restaged THEN None
                              ELSE intended[u]]
      slot2 == IF holders # {} /\ zone # "clear" THEN holder ELSE None
      goal(u) == MissionTarget(u, aim2)
      joins  == {u \in UAVs : Waits(u, ph2) /\ goal(u) # None}
      leaves == {u \in UAVs : /\ Waits(u, ph2) /\ ph2[u] = "QUEUED"
                              /\ goal(u) = None}
      queue3 == Without(departureQueue, recalled \union leaves)
                  \union {u \in joins : ph2[u] = "STAGED"}
      next == IF slot2 = None /\ queue3 # {} THEN First(queue3) ELSE slot2
      queue4 == IF slot2 = None THEN queue3 \ {next} ELSE queue3
      ph4 == [u \in UAVs |-> IF slot2 = None /\ u = next THEN "TAXIING"
                             ELSE IF u \in joins  THEN "QUEUED"
                             ELSE IF u \in leaves THEN "STAGED" ELSE ph2[u]]
      aim4 == [u \in UAVs |-> IF u \in joins \union leaves THEN goal(u)
                              ELSE aim2[u]]
      told(u) == Instruction(u, queue4, next, ph4, aim4)
      batch == {SetTarget(u, told(u)) :
                  u \in {v \in UAVs : told(v) # uav[v].target}}
\* what is known before the pass
<1>1. /\ departureQueue' = queue4 /\ departing' = next /\ uavPhase' = ph4
      /\ intended' = aim4 /\ Emit(batch, "fly")
  BY DEF Sequence
<1>2. /\ departureQueue \subseteq UAVs /\ departing \in UAVs \union {None}
      /\ uavPhase \in [UAVs -> UAVDeparturePhase]
      /\ \A u \in UAVs : intended[u] \in Bound
      /\ \A u \in UAVs : /\ u \in departureQueue <=> uavPhase[u] = "QUEUED"
                         /\ u = departing => uavPhase[u] \in {"TAXIING", "TRANSIT"}
      /\ None \notin UAVs
  BY NoneAssumption DEF SequencerInv, SequencerTypeOK, QueueIsQueued, IntendedBound
<1>3. \A u \in UAVs : Waiting(u) => InStaging(u)
  BY DEF SequencerInv, Parked
<1>4. \A u \in UAVs : /\ uav[u].rth \in {"NONE", "ACTIVE", "COMPLETE"}
                      /\ uavPhase[u] = "QUEUED" =>
                           uav[u].rth \in {"NONE", "ACTIVE"}
  BY DEF SequencerInv, Noticed, SafetyInv, MissionInv, StoreInv, StoreTypeOK,
     UAVState, Rths
\* 1. who is on a pad again, or called home; 2. how far the departing one is
<1>5. \A u \in UAVs : /\ u \in recalled => u \notin restaged
                      /\ u \in restaged => InStaging(u) /\ uavPhase[u] = "CLEARED"
                      /\ u \notin recalled => uav[u].rth \in {"NONE", "COMPLETE"}
                      /\ u \in holders => /\ u = departing /\ uav[u].rth = "NONE"
                                          /\ u \notin recalled
  BY <1>2, <1>4 DEF ReadyAgain, Recalled, Lost
<1>6. /\ slot2 \in UAVs \union {None}
      /\ slot2 # None => slot2 = departing /\ slot2 \in holders /\ zone # "clear"
  BY <1>2
<1>7. ph2 \in [UAVs -> UAVDeparturePhase]
  BY <1>2 DEF UAVDeparturePhase
<1>8. \A u \in UAVs :
        /\ ph2[u] = "QUEUED" <=> u \in departureQueue /\ u \notin recalled
        /\ ph2[u] = "STAGED" => /\ u \notin recalled
                                /\ uavPhase[u] = "STAGED" \/ u \in restaged
        /\ u = slot2 => ph2[u] \in {"TAXIING", "TRANSIT"}
  BY <1>2, <1>5, <1>6
<1>9. \A u \in UAVs : aim2[u] \in Bound
  BY <1>2 DEF Bound
<1> HIDE DEF recalled, restaged, holder, holders, ph2, aim2, slot2
<1>10. \A u \in UAVs : ph2[u] \in {"STAGED", "QUEUED"} =>
         InStaging(u) /\ u \notin recalled
  BY <1>2, <1>3, <1>5, <1>8 DEF Waiting
<1>11. \A u \in UAVs : ph2[u] = "QUEUED" => uav[u].rth = "NONE"
  BY <1>2, <1>4, <1>5, <1>8
\* 3. who joins the queue, and who leaves it
<1>12. \A u \in UAVs : Waits(u, ph2) =>
         /\ uav[u].rth = "NONE" /\ InStaging(u)
         /\ ph2[u] \in {"STAGED", "QUEUED"} /\ u # slot2
         /\ goal(u) \in Bound
         /\ goal(u) = None => Still(u)
  <2> TAKE u \in UAVs
  <2> HAVE Waits(u, ph2)
  <2>1. /\ uav[u].rth = "NONE" /\ InStaging(u)
        /\ ph2[u] \in {"STAGED", "QUEUED"} /\ u # slot2
    BY <1>8 DEF Waits, Lost
  <2>2. aim2[u] \in Bound
    BY <1>9
  <2> QED
    BY <2>1, <2>2, MissionTargets DEF SequencerInv, Still
<1> HIDE DEF goal
<1>13. \A u \in UAVs : /\ u \in joins => Waits(u, ph2) /\ goal(u) # None
                       /\ u \in leaves => Waits(u, ph2) /\ ph2[u] = "QUEUED"
                                           /\ goal(u) = None
                       /\ u \in queue3 <=> \/ ph2[u] = "QUEUED" /\ u \notin leaves
                                           \/ ph2[u] = "STAGED" /\ u \in joins
  BY <1>2, <1>8 DEF Without
<1>14. \A u \in UAVs : Waits(u, ph2) /\ goal(u) # None => u \in joins
  OBVIOUS
<1>15. queue3 \subseteq UAVs /\ slot2 \notin queue3
  BY <1>2, <1>6, <1>8, <1>13 DEF Without
<1> HIDE DEF joins, leaves, queue3
\* 4. who is released
<1>16. /\ next \in UAVs \union {None}
       /\ slot2 # None => next = slot2 /\ queue4 = queue3
       /\ slot2 = None => (next # None => next \in queue3)
                          /\ queue4 = queue3 \ {next}
                          /\ (next = None => queue3 = {})
  BY <1>2, <1>6, <1>15, FirstIsQueued
<1> HIDE DEF next, queue4
<1>17. ph4 \in [UAVs -> UAVDeparturePhase]
  BY <1>7 DEF UAVDeparturePhase
<1>18. \A u \in UAVs :
         /\ u \in queue4 <=> ph4[u] = "QUEUED"
         /\ u = next => /\ ph4[u] \in {"TAXIING", "TRANSIT"}
                        /\ u \in queue3 \/ u = slot2
         /\ ph4[u] = "QUEUED" => u \in queue3
         /\ ph4[u] = "STAGED" => /\ ph2[u] \in {"STAGED", "QUEUED"}
                                 /\ u \notin joins /\ u # next
  BY <1>2, <1>6, <1>8, <1>12, <1>13, <1>15, <1>16
<1>19. \A u \in UAVs : aim4[u] \in Bound
  BY <1>9, <1>12, <1>13
<1> HIDE DEF ph4, aim4
<1>20. \A u \in UAVs : u \in queue3 \/ u = next =>
         uav[u].rth = "NONE" /\ InStaging(u)
  <2> SUFFICES ASSUME NEW u \in UAVs, u \in queue3 \/ u = next
               PROVE  uav[u].rth = "NONE" /\ InStaging(u)
    OBVIOUS
  <2>1. CASE u \in queue3
    BY <2>1, <1>10, <1>11, <1>12, <1>13
  <2>2. CASE u = slot2
    <3>1. /\ u = departing /\ u \in holders /\ zone # "clear"
      BY <1>2, <1>6, <2>2
    <3>2. zone \in Zones(u)
      BY <1>2, <3>1
    <3>3. uav[u].place \in {"pad", "corridor"}
      BY <3>1, <3>2, ZonesAreSites
    <3> QED
      BY <1>5, <3>1, <3>3 DEF InStaging, SitesStaged
  <2> QED
    BY <1>18, <2>1, <2>2
<1>21. \A u \in UAVs : ph4[u] \in {"STAGED", "QUEUED"} => InStaging(u)
  BY <1>10, <1>18, <1>20
<1>22. \A u \in UAVs : ph4[u] = "STAGED" => Still(u)
  <2> SUFFICES ASSUME NEW u \in UAVs, ph4[u] = "STAGED" PROVE Still(u)
    OBVIOUS
  <2>1. ph2[u] \in {"STAGED", "QUEUED"} /\ u \notin joins /\ u \notin recalled
    BY <1>10, <1>18
  <2>2. CASE Waits(u, ph2)
    BY <1>12, <1>14, <2>1, <2>2
  <2>3. CASE Lost(u)
    <3>1. uav[u].active => uav[u].rth = "COMPLETE"
      BY <1>5, <2>1, <2>3 DEF Lost
    <3> QED
      BY <3>1 DEF Still, SequencerInv, SafetyInv, Docked, Docks
  <2> QED
    BY <1>10, <2>1, <2>2, <2>3 DEF Waits
\* 5. what the vehicles are told
<1>23. \A u \in UAVs : /\ u \in queue4 => told(u) = None
                       /\ u \notin queue4 /\ u # next => told(u) = uav[u].target
                       /\ told(u) = uav[u].target \/ told(u) \in Bound
  BY <1>19 DEF Instruction, Bound
<1> HIDE DEF told
<1>24. Depart
  <2> DEFINE aim == [u \in UAVs |-> told(u)]
  <2>1. aim \in [UAVs -> Targets]
    <3>1. \A u \in UAVs : told(u) \in Targets
      BY <1>23 DEF Bound, Targets, Places, SequencerInv, SafetyInv, MissionInv,
         StoreInv, StoreTypeOK, UAVState
    <3> QED
      BY <3>1
  <2>2. \A u \in UAVs : aim[u] \in Directions(u)
    BY <1>18, <1>20, <1>23 DEF Directions, Bound, InStaging
  <2>3. batch = {SetTarget(u, aim[u]) :
                   u \in {v \in UAVs : aim[v] # uav[v].target}}
    OBVIOUS
  <2> HIDE DEF aim
  <2> QED
    BY <1>1, <2>1, <2>2, <2>3 DEF Depart
<1>25. \A c \in batch : \E u \in UAVs : /\ told(u) # uav[u].target
                                        /\ c = SetTarget(u, told(u))
  OBVIOUS
<1>26. \A u \in UAVs : told(u) # uav[u].target => SetTarget(u, told(u)) \in batch
  OBVIOUS
<1> HIDE DEF batch
<1>27. SequencerTypeOK' /\ QueueIsQueued' /\ IntendedBound'
  <2>1. queue4 \subseteq UAVs
    BY <1>15, <1>16
  <2>2. aim4 \in [UAVs -> Targets]
    <3>1. Bound \subseteq Targets
      BY DEF Bound, Targets, Places
    <3> QED
      BY <1>19, <3>1 DEF aim4
  <2> QED
    BY <1>1, <1>16, <1>17, <1>18, <1>19, <2>1, <2>2
    DEF SequencerTypeOK, QueueIsQueued, IntendedBound
<1>28. Noticed'
  BY <1>1, <1>18, <1>20 DEF Noticed, Emit
<1>29. Parked'
  <2>1. uav' = uav /\ inbox' = batch /\ phase' = "fly" /\ uavPhase' = ph4
    BY <1>1 DEF Emit
  <2>2. ASSUME NEW u \in UAVs, ph4[u] \in {"STAGED", "QUEUED"}
        PROVE  Still(u) \/ SetTarget(u, None) \in batch
    BY <1>18, <1>22, <1>23, <1>26, <2>2 DEF Still
  <2>3. ASSUME NEW u \in UAVs, ph4[u] \in {"STAGED", "QUEUED"},
               NEW c \in batch
        PROVE  c.type = "SetTargetPosition" /\ (c.uav = u => c.target = None)
    <3>1. PICK v \in UAVs : told(v) # uav[v].target /\ c = SetTarget(v, told(v))
      BY <1>25
    <3>2. c.type = "SetTargetPosition" /\ c.uav = v /\ c.target = told(v)
      BY <3>1 DEF SetTarget, Cmd
    <3> QED
      BY <1>18, <1>23, <2>3, <3>1, <3>2
  <2> QED
    BY <1>21, <2>1, <2>2, <2>3 DEF Parked, Waiting, Still, InStaging, SetTarget, Cmd
<1> QED
  BY <1>24, <1>27, <1>28, <1>29 DEF Passed

(***************************************************************************)
(* The theorems.  Their two hypotheses: departure sequencing is switched   *)
(* on, and is_in_staging_area accepts what lies before clearance_x.        *)
(***************************************************************************)

LEMMA SequencerInitInv ==
  ASSUME SitesStaged
  PROVE  SequencerInit => SequencerInv
<1> SUFFICES ASSUME SequencerInit PROVE SequencerInv
  OBVIOUS
<1>1. SafetyInv
  BY SafetyInitInv DEF SequencerInit
<1>2. uav = [u \in UAVs |-> Fresh] /\ inbox = {} /\ phase = "events"
  BY DEF SequencerInit, MissionInit, StoreInit
<1>3. /\ departureQueue = {} /\ departing = None
      /\ uavPhase = [u \in UAVs |-> "STAGED"]
      /\ intended = [u \in UAVs |-> None]
  BY DEF SequencerInit
<1>4. SequencerTypeOK /\ QueueIsQueued /\ Noticed /\ IntendedBound
  BY <1>3, NoneAssumption DEF SequencerTypeOK, QueueIsQueued, Noticed,
     IntendedBound, UAVDeparturePhase, Targets, Bound
<1>5. Parked
  BY <1>2, <1>3 DEF Parked, InStaging, Fresh, SitesStaged
<1> QED
  BY <1>1, <1>4, <1>5 DEF SequencerInv

LEMMA DeparturesStep ==
  ASSUME SequencerInv, SequenceDepartures, Sequenced, SitesStaged
  PROVE  Depart /\ Passed
<1>1. PICK zone \in IF departing = None THEN {"apron"} ELSE Zones(departing) :
        Sequence(zone)
  BY DEF SequenceDepartures
<1> QED
  BY <1>1, PassStep DEF SequenceDepartures

\* A step of the sequenced tick is a step of the tick that leaves departures
\* open.
LEMMA SequencerStepMaps ==
  ASSUME SequencerInv, [SequencerNext]_sequencedVars, Sequenced, SitesStaged
  PROVE  [MissionNext]_vars
BY DeparturesStep DEF SequencerNext, MissionNext, sequencedVars

LEMMA SequencerNextInv ==
  ASSUME SequencerInv, [SequencerNext]_sequencedVars, Sequenced, SitesStaged
  PROVE  SequencerInv'
<1>1. SafetyInv'
  BY SequencerStepMaps, SafetyNextInv DEF SequencerInv
<1>2. CASE UNCHANGED sequencedVars
  <2>1. /\ uav' = uav /\ inbox' = inbox /\ phase' = phase
        /\ departureQueue' = departureQueue /\ departing' = departing
        /\ uavPhase' = uavPhase /\ intended' = intended
    BY <1>2 DEF sequencedVars, sequencerVars, vars, storeVars
  <2> QED
    BY <1>1, <2>1 DEF SequencerInv, SequencerTypeOK, QueueIsQueued, Parked,
       Waiting, InStaging, Still, Noticed, IntendedBound, SetTarget, Cmd
<1>3. CASE (ApplyCommand \/ OtherPhase) /\ UNCHANGED sequencerVars
  <2>1. Parked' /\ Noticed'
    BY <1>1, <1>3, ApplyWaits, PhaseWaits
  <2>2. SequencerTypeOK' /\ QueueIsQueued' /\ IntendedBound'
    BY <1>3 DEF sequencerVars, SequencerInv, SequencerTypeOK, QueueIsQueued,
       IntendedBound
  <2> QED
    BY <1>1, <2>1, <2>2 DEF SequencerInv
<1>4. CASE SequenceDepartures
  BY <1>1, <1>4, DeparturesStep DEF Passed, SequencerInv
<1> QED
  BY <1>2, <1>3, <1>4 DEF SequencerNext

\* The tables of the sequencer stay in their domains.
THEOREM SequencerTypeCorrect ==
  ASSUME Sequenced, SitesStaged
  PROVE  SequencerSpec => []SequencerTypeOK
<1>1. SequencerInv => SequencerTypeOK
  BY DEF SequencerInv
<1> QED
  BY SequencerInitInv, SequencerNextInv, <1>1, PTL DEF SequencerSpec

\* Queue, slot and phase table of the sequencer tell one story for a fleet of
\* any size, whatever fails, recovers or is called home between two ticks.
THEOREM SequencerTablesAgree ==
  ASSUME Sequenced, SitesStaged
  PROVE  SequencerSpec => []QueueIsQueued
<1>1. SequencerInv => QueueIsQueued
  BY DEF SequencerInv
<1> QED
  BY SequencerInitInv, SequencerNextInv, <1>1, PTL DEF SequencerSpec

\* The sequencer only does to targets what the tick of MissionLoop leaves open,
\* so that everything proved about the tick holds under it.
THEOREM SequencerImplementsMission ==
  ASSUME Sequenced, SitesStaged
  PROVE  SequencerSpec => MissionSpec
<1>1. SequencerInit => MissionInit
  BY DEF SequencerInit
<1> QED
  BY <1>1, SequencerInitInv, SequencerNextInv, SequencerStepMaps, PTL
  DEF SequencerSpec, MissionSpec

\* A vehicle the sequencer counts as staged or queued does not move, although
\* targets are written by six phases and read by the physics.
THEOREM SequencerHolds ==
  ASSUME Sequenced, SitesStaged
  PROVE  SequencerSpec => StagedStays
<1> DEFINE Stays == \A u \in UAVs :
             uavPhase[u] \in {"STAGED", "QUEUED"} => uav'[u].place = uav[u].place
<1>1. ASSUME SequencerInv, [SequencerNext]_sequencedVars
      PROVE  Stays
  <2>1. CASE uav' = uav
    BY <2>1
  <2>2. CASE uav' # uav
    <3>1. ApplyCommand
      BY <1>1, <2>2, SequencerStepMaps
      DEF MissionNext, vars, storeVars, OtherPhase, ScheduledEvents, Discovery,
          RTHTriggers, Allocate, SkipAllocation, Serve, ClearFinished, AllDone,
          Fly, FlyTo, Lifecycle, LifecycleOf, AdvanceTick, Depart, Emit
    <3>2. PICK c \in inbox : Handle(c)
      BY <3>1 DEF ApplyCommand
    <3> QED
      BY <1>1, <3>2, HandleParks DEF Waiting
  <2> QED
    BY <2>1, <2>2
<1> QED
  BY SequencerInitInv, SequencerNextInv, <1>1, PTL
  DEF SequencerSpec, StagedStays
=============================================================================
