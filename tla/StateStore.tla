----------------------------- MODULE StateStore -----------------------------
(***************************************************************************)
(* The authoritative state store (core/state_store.py).  Every change of a *)
(* UAV or of a task is a command applied by StateStore.apply, which sorts  *)
(* the batch it is given by (uav id, class name) and handles the commands  *)
(* one by one: each is applied, or rejected, on the state the ones before  *)
(* it left.                                                                *)
(*                                                                         *)
(* A batch is the set `inbox`; one iteration of the loop of apply is one   *)
(* step ApplyNext.  Positions are the few regions the guards tell apart,   *)
(* a battery is low or not, service progress counts down in ticks.         *)
(***************************************************************************)
EXTENDS Integers, FiniteSets

CONSTANTS UAVs,     \* vehicle ids; numbers, because apply sorts by id
          Tasks,    \* task ids, the ones still to be discovered included
          None,     \* Python's None
          Service   \* ticks of on-site work a task needs

ASSUME UAVsAssumption == UAVs \subseteq Nat \ {0} /\ IsFiniteSet(UAVs)
ASSUME NoneAssumption == None \notin UAVs /\ None \notin Tasks
ASSUME ServiceAssumption == Service \in Nat

VARIABLES uav,    \* StateStore._uavs
          task,   \* StateStore._tasks
          inbox   \* commands of the current call of apply still to handle

storeVars == <<uav, task, inbox>>

System == 0    \* the reserved sender "__system__"

Roles    == {"IDLE", "SURVEYOR", "RELAY"}
Rths     == {"NONE", "ACTIVE", "COMPLETE"}
Sorties  == {"READY", "ACTIVE", "RTH", "LANDING", "LANDED", "RECHARGING"}
Statuses == {"HIDDEN", "PENDING", "ASSIGNED", "IN_PROGRESS", "COMPLETE",
             "DEFERRED", "UNREACHABLE"}

\* the launch pad, the staging corridor, the mission area and the task sites
Places  == {"pad", "corridor", "arena"} \union Tasks
Targets == Places \union {None}

UAVState == [active: BOOLEAN, failed: BOOLEAN, rth: Rths, sortie: Sorties,
             role: Roles, assigned: Tasks \union {None}, target: Targets,
             place: Places, moving: BOOLEAN, low: BOOLEAN]

TaskState == [status: Statuses, owner: UAVs \union {None}, left: 0..Service]

(***************************************************************************)
(* Commands.  Types are listed in the order of their class names, the      *)
(* second key of the sort of apply.                                        *)
(***************************************************************************)
Rank == [AssignRelayRole |-> 1, AssignTask |-> 2, BeginLanding |-> 3,
         CompleteRTH |-> 4, CompleteRecharge |-> 5, DiscoverTask |-> 6,
         FailUAV |-> 7, HandoffRelay |-> 8, MarkTaskUnreachable |-> 9,
         ProgressTask |-> 10, RecoverUAV |-> 11, ReleaseRelayRole |-> 12,
         ReleaseTask |-> 13, SetTargetPosition |-> 14, StartRTH |-> 15,
         StartRecharge |-> 16, StepPhysics |-> 17]

CommandTypes == DOMAIN Rank

\* `task`, `other`, `target`, `place`, `moving`, `low` and `next` matter to the
\* types that carry them; `stale`: source_tick is not the tick of the store
Command == [type: CommandTypes, uav: UAVs \union {System},
            task: Tasks \union {None}, other: UAVs \union {None},
            target: Targets, place: Places, moving: BOOLEAN, low: BOOLEAN,
            next: Roles, stale: BOOLEAN]

Cmd(type, u) == [type |-> type, uav |-> u, task |-> None, other |-> None,
                 target |-> None, place |-> "pad", moving |-> FALSE,
                 low |-> FALSE, next |-> "IDLE", stale |-> FALSE]

TaskCmd(type, u, t) == [Cmd(type, u) EXCEPT !.task = t]

Precedes(c, d) == \/ c.uav < d.uav
                  \/ c.uav = d.uav /\ Rank[c.type] <= Rank[d.type]

(***************************************************************************)
(* What apply checks before it accepts a command.                          *)
(***************************************************************************)
Grounded == {"RECHARGING", "RTH", "LANDING", "LANDED"}

Available(u) == /\ uav[u].active
                /\ uav[u].rth = "NONE"
                /\ ~uav[u].failed
                /\ uav[u].sortie \notin Grounded

\* mutant of CanAssign: whoever the task belongs to
MutCanAssign(u, t) == t \in Tasks /\ Available(u)

CanAssign(u, t) == /\ t \in Tasks
                   /\ Available(u)
                   /\ task[t].status \in {"PENDING", "DEFERRED"}
                   /\ task[t].owner \in {None, u}

Owns(u, t) == t \in Tasks /\ task[t].owner = u

CanCompleteRTH(u) == \/ uav[u].rth = "ACTIVE"
                     \/ uav[u].sortie \in {"RTH", "LANDING"}

CanStartRecharge(u) == \/ uav[u].sortie \in {"LANDED", "READY", "RECHARGING"}
                       \/ uav[u].rth = "COMPLETE"

CanCompleteRecharge(u) == uav[u].sortie \in {"RECHARGING", "LANDED"}

CanRecover(u) == uav[u].failed \/ ~uav[u].active

Accepts(c) ==
  /\ ~c.stale
  /\ c.type = "MarkTaskUnreachable" =>
       c.task \in Tasks /\ task[c.task].status \in {"COMPLETE", "UNREACHABLE"}
  /\ c.type \notin {"MarkTaskUnreachable", "DiscoverTask"} => c.uav \in UAVs
  /\ c.type = "AssignTask"       => CanAssign(c.uav, c.task)
  /\ c.type = "ReleaseTask"      => Owns(c.uav, c.task)
  /\ c.type = "ProgressTask"     => Owns(c.uav, c.task)
  /\ c.type = "ReleaseRelayRole" => uav[c.uav].role \in {"RELAY", "SURVEYOR"}
  /\ c.type = "HandoffRelay"     => c.other \in UAVs
  /\ c.type = "CompleteRTH"      => CanCompleteRTH(c.uav)
  /\ c.type = "StartRecharge"    => CanStartRecharge(c.uav)
  /\ c.type = "CompleteRecharge" => CanCompleteRecharge(c.uav)
  /\ c.type = "FailUAV"          => ~uav[c.uav].failed
  /\ c.type = "RecoverUAV"       => CanRecover(c.uav)

(***************************************************************************)
(* What the branches of apply write to the record of a vehicle r ...       *)
(***************************************************************************)
Launched(sortie) == IF sortie = "READY" THEN "ACTIVE" ELSE sortie

Tasked(r, t) == [r EXCEPT !.assigned = t, !.target = t, !.sortie = "ACTIVE",
                          !.role = "SURVEYOR", !.active = TRUE]

Untasked(r) == [r EXCEPT !.assigned = None, !.target = None]

Relaying(r, goal) ==
  [r EXCEPT !.role = "RELAY", !.assigned = None, !.target = goal,
            !.sortie = Launched(r.sortie), !.active = TRUE]

\* mutant of Returning: the vehicle still points to the task it gave up
MutReturning(r) == [r EXCEPT !.rth = "ACTIVE", !.sortie = "RTH", !.target = "pad"]

Returning(r) ==
  [r EXCEPT !.rth = "ACTIVE", !.sortie = "RTH", !.target = "pad",
            !.assigned = None,
            !.role = IF r.role = "RELAY" THEN "IDLE" ELSE r.role]

Landing(r) == IF r.sortie \in {"RTH", "ACTIVE"}
                THEN [r EXCEPT !.sortie = "LANDING"] ELSE r

Landed(r) ==
  [r EXCEPT !.place = "pad", !.rth = "COMPLETE", !.sortie = "LANDED",
            !.role = "IDLE", !.moving = FALSE, !.target = None,
            !.active = FALSE]

Recharging(r) == [r EXCEPT !.sortie = "RECHARGING", !.active = FALSE]

\* mutant of Recharged: the two state fields are swapped
MutRecharged(r) == [r EXCEPT !.sortie = "NONE", !.rth = "READY", !.active = TRUE]

Recharged(r) ==
  [r EXCEPT !.sortie = "READY", !.rth = "NONE", !.low = FALSE,
            !.active = TRUE, !.role = "IDLE", !.moving = FALSE,
            !.target = None]

\* without a task to drop, role, target and velocity stay as they were
Failed(r) ==
  IF r.assigned = None
    THEN [r EXCEPT !.failed = TRUE, !.active = FALSE]
    ELSE [r EXCEPT !.failed = TRUE, !.active = FALSE, !.assigned = None,
                   !.target = None, !.moving = FALSE]

Recovered(r) == [r EXCEPT !.failed = FALSE, !.active = TRUE, !.role = "IDLE"]

Finished(r) == [r EXCEPT !.assigned = None, !.role = "IDLE"]

Stepped(r, c) == [r EXCEPT !.place = c.place, !.moving = c.moving,
                           !.low = c.low]

(***************************************************************************)
(* ... and of a task k.                                                    *)
(***************************************************************************)
\* mutant of Discovered: a second sighting makes the task pending again
MutDiscovered(k) == [k EXCEPT !.status = "PENDING"]

Discovered(k) == IF k.status = "HIDDEN"
                   THEN [k EXCEPT !.status = "PENDING"] ELSE k

Taken(k, u) == [k EXCEPT !.status = "ASSIGNED", !.owner = u]

\* mutant of Deferred: the owner is not cleared
MutDeferred(k) == [k EXCEPT !.status = "DEFERRED"]

Deferred(k) == [k EXCEPT !.status = "DEFERRED", !.owner = None]

Unreachable(k) == [k EXCEPT !.status = "UNREACHABLE"]

\* one tick of service; the work is done when none is left
Done(k) == k.left <= 1

Served(k) == IF Done(k)
               THEN [k EXCEPT !.status = "COMPLETE", !.owner = None, !.left = 0]
               ELSE [k EXCEPT !.status = "IN_PROGRESS", !.left = @ - 1]

(***************************************************************************)
(* What an accepted command does, one operator per branch of apply.        *)
(***************************************************************************)

\* mutant of DropHeld: the task keeps waiting for the vehicle
MutDropHeld(u) == u \in UAVs /\ task' = task

\* the vehicle gives up the task it holds, if any
DropHeld(u) ==
  task' = IF uav[u].assigned = None THEN task
          ELSE [task EXCEPT ![uav[u].assigned] = Deferred(@)]

OrElse(x, y) == IF x # None THEN x ELSE y

DiscoverTask(c) ==
  /\ c.type = "DiscoverTask"
  /\ task' = IF c.task = None THEN task
             ELSE [task EXCEPT ![c.task] = Discovered(@)]
  /\ UNCHANGED uav

AssignTask(c) ==
  /\ c.type = "AssignTask"
  /\ task' = [task EXCEPT ![c.task] = Taken(@, c.uav)]
  /\ uav' = [uav EXCEPT ![c.uav] = Tasked(@, c.task)]

ReleaseTask(c) ==
  /\ c.type = "ReleaseTask"
  /\ task' = [task EXCEPT ![c.task] = Deferred(@)]
  /\ uav' = [uav EXCEPT ![c.uav] = Untasked(@)]

ProgressTask(c) ==
  /\ c.type = "ProgressTask"
  /\ task' = [task EXCEPT ![c.task] = Served(@)]
  /\ uav' = IF Done(task[c.task])
              THEN [uav EXCEPT ![c.uav] = Finished(@)] ELSE uav

AssignRelayRole(c) ==
  /\ c.type = "AssignRelayRole"
  /\ DropHeld(c.uav)
  /\ uav' = [uav EXCEPT ![c.uav] = Relaying(@, OrElse(c.target, @.place))]

HandoffRelay(c) ==
  /\ c.type = "HandoffRelay"
  /\ DropHeld(c.other)
  /\ uav' = [uav EXCEPT ![c.other] =
               Relaying(@, OrElse(c.target, OrElse(uav[c.uav].target,
                                                   uav[c.uav].place)))]

ReleaseRelayRole(c) ==
  /\ c.type = "ReleaseRelayRole"
  /\ uav' = [uav EXCEPT ![c.uav] = [@ EXCEPT !.role = c.next]]
  /\ UNCHANGED task

StartRTH(c) ==
  /\ c.type = "StartRTH"
  /\ DropHeld(c.uav)
  /\ uav' = [uav EXCEPT ![c.uav] = Returning(@)]

BeginLanding(c) ==
  /\ c.type = "BeginLanding"
  /\ uav' = [uav EXCEPT ![c.uav] = Landing(@)]
  /\ UNCHANGED task

CompleteRTH(c) ==
  /\ c.type = "CompleteRTH"
  /\ uav' = [uav EXCEPT ![c.uav] = Landed(@)]
  /\ UNCHANGED task

StartRecharge(c) ==
  /\ c.type = "StartRecharge"
  /\ uav' = [uav EXCEPT ![c.uav] = Recharging(@)]
  /\ UNCHANGED task

CompleteRecharge(c) ==
  /\ c.type = "CompleteRecharge"
  /\ uav' = [uav EXCEPT ![c.uav] = Recharged(@)]
  /\ UNCHANGED task

FailUAV(c) ==
  /\ c.type = "FailUAV"
  /\ DropHeld(c.uav)
  /\ uav' = [uav EXCEPT ![c.uav] = Failed(@)]

RecoverUAV(c) ==
  /\ c.type = "RecoverUAV"
  /\ uav' = [uav EXCEPT ![c.uav] = Recovered(@)]
  /\ UNCHANGED task

SetTargetPosition(c) ==
  /\ c.type = "SetTargetPosition"
  /\ uav' = [uav EXCEPT ![c.uav] = [@ EXCEPT !.target = c.target]]
  /\ UNCHANGED task

StepPhysics(c) ==
  /\ c.type = "StepPhysics"
  /\ uav' = [uav EXCEPT ![c.uav] = Stepped(@, c)]
  /\ UNCHANGED task

AlreadyClosed(c) ==
  /\ c.type = "MarkTaskUnreachable"
  /\ UNCHANGED <<uav, task>>

Apply(c) ==
  \/ AssignTask(c)       \/ ReleaseTask(c)      \/ ProgressTask(c)
  \/ DiscoverTask(c)     \/ AlreadyClosed(c)    \/ AssignRelayRole(c)
  \/ ReleaseRelayRole(c) \/ HandoffRelay(c)     \/ StartRTH(c)
  \/ BeginLanding(c)     \/ CompleteRTH(c)      \/ StartRecharge(c)
  \/ CompleteRecharge(c) \/ FailUAV(c)          \/ RecoverUAV(c)
  \/ SetTargetPosition(c) \/ StepPhysics(c)

\* The branch that marks a task does not end the iteration: the command goes
\* on to the lookup of its sender, and is rejected after the task has changed.
MarksOpenTask(c) == /\ ~c.stale
                    /\ c.type = "MarkTaskUnreachable"
                    /\ c.task \in Tasks
                    /\ task[c.task].status # "HIDDEN"

Reject(c) ==
  /\ task' = IF MarksOpenTask(c)
               THEN [task EXCEPT ![c.task] = Unreachable(@)] ELSE task
  /\ UNCHANGED uav

Handle(c) == \/ Accepts(c) /\ Apply(c)
             \/ ~Accepts(c) /\ Reject(c)

(***************************************************************************)
(* The store under callers that submit any batch of commands.              *)
(***************************************************************************)
Fresh == [active |-> TRUE, failed |-> FALSE, rth |-> "NONE", sortie |-> "READY",
          role |-> "IDLE", assigned |-> None, target |-> None,
          place |-> "pad", moving |-> FALSE, low |-> FALSE]

StoreInit ==
  /\ uav = [u \in UAVs |-> Fresh]
  /\ task \in [Tasks -> [status: {"HIDDEN", "PENDING"}, owner: {None},
                         left: {Service}]]
  /\ inbox = {}

Submit == /\ inbox = {}
          /\ inbox' \in SUBSET Command
          /\ UNCHANGED <<uav, task>>

ApplyNext == \E c \in inbox :
               /\ \A d \in inbox : Precedes(c, d)
               /\ inbox' = inbox \ {c}
               /\ Handle(c)

StoreNext == Submit \/ ApplyNext

StoreSpec == StoreInit /\ [][StoreNext]_storeVars

(***************************************************************************)
(* Properties: what the store promises to any caller.                      *)
(***************************************************************************)

\* The fields of UAVState and TaskState stay in their domains, and the loop of
\* apply only handles commands of the batch it was given.
StoreTypeOK == /\ uav \in [UAVs -> UAVState]
               /\ task \in [Tasks -> TaskState]
               /\ inbox \subseteq Command

\* A vehicle that holds a task is the owner the task names: whatever is sent,
\* apply never lets two vehicles serve one task (assigned_task_id and
\* assigned_uav_id are written by nine different branches).
HeldIsOwned == \A u \in UAVs : uav[u].assigned # None =>
                 task[uav[u].assigned].owner = u

\* A task that may be allocated again (or is finished) has no owner left over
\* from an earlier assignment; a stale one would make apply refuse every other
\* vehicle (CONFLICTING_COMMAND) for ever.  Work under way has an owner.
OwnerMatchesStatus == \A t \in Tasks :
  /\ task[t].status \in {"HIDDEN", "PENDING", "DEFERRED", "COMPLETE"} =>
       task[t].owner = None
  /\ task[t].status \in {"ASSIGNED", "IN_PROGRESS"} => task[t].owner # None

\* Completion is final and service done is never lost: whichever vehicles drop,
\* hand over or retake a task, no batch reopens a COMPLETE one, hides a
\* discovered one, or gives back service_progress.
ServiceIsKept == [][\A t \in Tasks :
  /\ task[t].status = "COMPLETE" => task'[t] = task[t]
  /\ task'[t].status = "HIDDEN" => task[t].status = "HIDDEN"
  /\ task'[t].left <= task[t].left]_storeVars

\* apply promises "partitioned per-command transactional atomicity": a command
\* it rejects leaves every vehicle and every task as it found them.
RejectionIsClean == [][\A c \in inbox \ inbox' :
  ~Accepts(c) => UNCHANGED <<uav, task>>]_storeVars
=============================================================================
