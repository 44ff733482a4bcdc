---------------------------- MODULE MissionProofs ----------------------------
(***************************************************************************)
(* Proofs about the store under any caller, and about the phases of one    *)
(* tick, for any fleet, any tasks, any options of the runner and any       *)
(* schedule of failures.                                                   *)
(*                                                                         *)
(* OwnedIsHeld and WorkerFit are not inductive: a phase computes its batch *)
(* from a snapshot, and what it read must still be true when the command   *)
(* is handled.  BatchFits says which part of it is: nothing in a batch     *)
(* gives a task to a vehicle that a later AssignTask or BeginLanding of    *)
(* the same batch is about.                                                *)
(***************************************************************************)
EXTENDS MissionLoop, FiniteSetTheorems, TLAPS

(***************************************************************************)
(* The store under any caller: whatever batches are submitted and however  *)
(* many vehicles and tasks there are.                                      *)
(***************************************************************************)

StoreInv == StoreTypeOK /\ HeldIsOwned /\ OwnerMatchesStatus

\* What every branch writes is a vehicle record again.
LEMMA UAVRecords ==
  ASSUME NEW r \in UAVState
  PROVE  /\ \A t \in Tasks : Tasked(r, t) \in UAVState
         /\ \A goal \in Targets : Relaying(r, goal) \in UAVState
         /\ \A role \in Roles : [r EXCEPT !.role = role] \in UAVState
         /\ \A goal \in Targets : [r EXCEPT !.target = goal] \in UAVState
         /\ \A c \in Command : Stepped(r, c) \in UAVState
         /\ Untasked(r) \in UAVState
         /\ Returning(r) \in UAVState
         /\ Landing(r) \in UAVState
         /\ Landed(r) \in UAVState
         /\ Recharging(r) \in UAVState
         /\ Recharged(r) \in UAVState
         /\ Failed(r) \in UAVState
         /\ Recovered(r) \in UAVState
         /\ Finished(r) \in UAVState
<1>1. \A goal \in Targets : Relaying(r, goal) \in UAVState
  <2> SUFFICES ASSUME NEW goal \in Targets
               PROVE  Relaying(r, goal) \in UAVState
    OBVIOUS
  <2>1. Launched(r.sortie) \in Sorties
    BY DEF Launched, UAVState, Sorties
  <2>2. "RELAY" \in Roles
    BY DEF Roles
  <2> QED
    BY <2>1, <2>2 DEF Relaying, UAVState
<1> USE DEF UAVState, Roles, Rths, Sorties, Targets, Places
<1>2. \A t \in Tasks : Tasked(r, t) \in UAVState
  BY DEF Tasked
<1>3. \A role \in Roles : [r EXCEPT !.role = role] \in UAVState
  OBVIOUS
<1>4. \A goal \in Targets : [r EXCEPT !.target = goal] \in UAVState
  OBVIOUS
<1>5. \A c \in Command : Stepped(r, c) \in UAVState
  BY DEF Stepped, Command
<1>6. Untasked(r) \in UAVState
  BY DEF Untasked
<1>7. Returning(r) \in UAVState
  BY DEF Returning
<1>8. Landing(r) \in UAVState
  BY DEF Landing
<1>9. Landed(r) \in UAVState
  BY DEF Landed
<1>10. Recharging(r) \in UAVState
  BY DEF Recharging
<1>11. Recharged(r) \in UAVState
  BY DEF Recharged
<1>12. Failed(r) \in UAVState
  BY DEF Failed
<1>13. Recovered(r) \in UAVState
  BY DEF Recovered
<1>14. Finished(r) \in UAVState
  BY DEF Finished
<1> QED
  BY <1>2, <1>1, <1>3, <1>4, <1>5, <1>6, <1>7, <1>8, <1>9, <1>10, <1>11,
     <1>12, <1>13, <1>14

\* Which branches touch the task a vehicle holds.
LEMMA AssignedField ==
  ASSUME NEW r \in UAVState
  PROVE  /\ \A t \in Tasks : Tasked(r, t).assigned = t
         /\ \A goal \in Targets : Relaying(r, goal).assigned = None
         /\ \A role \in Roles : [r EXCEPT !.role = role].assigned = r.assigned
         /\ \A goal \in Targets :
              [r EXCEPT !.target = goal].assigned = r.assigned
         /\ \A c \in Command : Stepped(r, c).assigned = r.assigned
         /\ Untasked(r).assigned = None
         /\ Returning(r).assigned = None
         /\ Failed(r).assigned = None
         /\ Finished(r).assigned = None
         /\ Landing(r).assigned = r.assigned
         /\ Landed(r).assigned = r.assigned
         /\ Recharging(r).assigned = r.assigned
         /\ Recharged(r).assigned = r.assigned
         /\ Recovered(r).assigned = r.assigned
BY DEF UAVState, Tasked, Relaying, Stepped, Untasked, Returning, Failed,
       Finished, Landing, Landed, Recharging, Recharged, Recovered

\* What every branch writes is a task record again, with the owner and the
\* status that belong together.
LEMMA TaskRecords ==
  ASSUME NEW k \in TaskState
  PROVE  /\ \A u \in UAVs : /\ Taken(k, u) \in TaskState
                            /\ Taken(k, u).owner = u
                            /\ Taken(k, u).status = "ASSIGNED"
                            /\ Taken(k, u).left = k.left
         /\ /\ Deferred(k) \in TaskState
            /\ Deferred(k).owner = None
            /\ Deferred(k).status = "DEFERRED"
            /\ Deferred(k).left = k.left
         /\ /\ Unreachable(k) \in TaskState
            /\ Unreachable(k).owner = k.owner
            /\ Unreachable(k).status = "UNREACHABLE"
            /\ Unreachable(k).left = k.left
         /\ /\ Discovered(k) \in TaskState
            /\ Discovered(k).owner = k.owner
            /\ Discovered(k).left = k.left
            /\ Discovered(k).status # "HIDDEN"
            /\ k.status # "HIDDEN" => Discovered(k) = k
            /\ k.status = "HIDDEN" => Discovered(k).status = "PENDING"
         /\ Done(k) => /\ Served(k) \in TaskState
                       /\ Served(k).owner = None
                       /\ Served(k).status = "COMPLETE"
                       /\ Served(k).left <= k.left
         /\ ~Done(k) => /\ Served(k) \in TaskState
                        /\ Served(k).owner = k.owner
                        /\ Served(k).status = "IN_PROGRESS"
                        /\ Served(k).left <= k.left
<1> USE NoneAssumption, ServiceAssumption
<1>1. \A u \in UAVs : /\ Taken(k, u) \in TaskState
                      /\ Taken(k, u).owner = u
                      /\ Taken(k, u).status = "ASSIGNED"
                      /\ Taken(k, u).left = k.left
  BY DEF TaskState, Statuses, Taken
<1>2. /\ Deferred(k) \in TaskState
      /\ Deferred(k).owner = None
      /\ Deferred(k).status = "DEFERRED"
      /\ Deferred(k).left = k.left
  BY DEF TaskState, Statuses, Deferred
<1>3. /\ Unreachable(k) \in TaskState
      /\ Unreachable(k).owner = k.owner
      /\ Unreachable(k).status = "UNREACHABLE"
      /\ Unreachable(k).left = k.left
  BY DEF TaskState, Statuses, Unreachable
<1>4. /\ Discovered(k) \in TaskState
      /\ Discovered(k).owner = k.owner
      /\ Discovered(k).left = k.left
      /\ Discovered(k).status # "HIDDEN"
      /\ k.status # "HIDDEN" => Discovered(k) = k
      /\ k.status = "HIDDEN" => Discovered(k).status = "PENDING"
  BY DEF TaskState, Statuses, Discovered
<1>5. ASSUME Done(k)
      PROVE  /\ Served(k) \in TaskState
             /\ Served(k).owner = None
             /\ Served(k).status = "COMPLETE"
             /\ Served(k).left <= k.left
  <2>1. Served(k) = [k EXCEPT !.status = "COMPLETE", !.owner = None, !.left = 0]
    BY <1>5 DEF Served
  <2>2. k.left \in 0..Service /\ 0 \in 0..Service /\ 0 <= k.left
    BY DEF TaskState
  <2>3. "COMPLETE" \in Statuses
    BY DEF Statuses
  <2> QED
    BY <2>1, <2>2, <2>3 DEF TaskState
<1>6. ASSUME ~Done(k)
      PROVE  /\ Served(k) \in TaskState
             /\ Served(k).owner = k.owner
             /\ Served(k).status = "IN_PROGRESS"
             /\ Served(k).left <= k.left
  <2>1. Served(k) = [k EXCEPT !.status = "IN_PROGRESS", !.left = k.left - 1]
    BY <1>6 DEF Served
  <2>2. k.left \in 0..Service /\ k.left > 1
    BY <1>6 DEF TaskState, Done
  <2>3. k.left - 1 \in 0..Service /\ k.left - 1 <= k.left
    BY <2>2
  <2>4. "IN_PROGRESS" \in Statuses
    BY DEF Statuses
  <2> DEFINE n == k.left - 1
  <2>5. n \in 0..Service /\ n <= k.left
    BY <2>3
  <2>6. Served(k) = [k EXCEPT !.status = "IN_PROGRESS", !.left = n]
    BY <2>1
  <2> HIDE DEF n
  <2> QED
    BY <2>4, <2>5, <2>6 DEF TaskState
<1> QED
  BY <1>1, <1>2, <1>3, <1>4, <1>5, <1>6

\* The step-wise half of ServiceIsKept, and the tables it is about.
TablesOK == uav \in [UAVs -> UAVState] /\ task \in [Tasks -> TaskState]

Kept == \A t \in Tasks : /\ task[t].status = "COMPLETE" => task'[t] = task[t]
                         /\ task'[t].status = "HIDDEN" => task[t].status = "HIDDEN"
                         /\ task'[t].left <= task[t].left

Sound == TablesOK' /\ HeldIsOwned' /\ OwnerMatchesStatus' /\ Kept

\* A branch that leaves the tasks alone and the vehicle's task as it was.
LEMMA QuietStep ==
  ASSUME StoreInv, NEW u \in UAVs, NEW r \in UAVState,
         r.assigned = uav[u].assigned,
         uav' = [uav EXCEPT ![u] = r], task' = task
  PROVE  Sound
<1>1. TablesOK'
  BY DEF TablesOK, StoreInv, StoreTypeOK
<1>2. HeldIsOwned'
  BY DEF StoreInv, StoreTypeOK, HeldIsOwned
<1>3. OwnerMatchesStatus'
  BY DEF StoreInv, OwnerMatchesStatus
<1>4. Kept
  BY DEF StoreInv, StoreTypeOK, Kept, TaskState
<1> QED
  BY <1>1, <1>2, <1>3, <1>4 DEF Sound

\* A branch that makes a vehicle give up its task.  No other vehicle can hold
\* that task, or the task would name two owners.
LEMMA DropStep ==
  ASSUME StoreInv, NEW u \in UAVs, NEW r \in UAVState,
         r.assigned = None, DropHeld(u),
         uav' = [uav EXCEPT ![u] = r]
  PROVE  Sound
<1> USE NoneAssumption
<1>1. CASE uav[u].assigned = None
  <2>1. task' = task
    BY <1>1 DEF DropHeld
  <2> QED
    BY <1>1, <2>1, QuietStep
<1>2. CASE uav[u].assigned # None
  <2> DEFINE t == uav[u].assigned
             k == Deferred(task[t])
  <2>1. t \in Tasks
    BY <1>2 DEF StoreInv, StoreTypeOK, UAVState
  <2>2. task' = [task EXCEPT ![t] = k]
    BY <1>2 DEF DropHeld
  <2>3. /\ k \in TaskState /\ k.owner = None
        /\ k.status = "DEFERRED" /\ k.left = task[t].left
    BY <2>1, TaskRecords DEF StoreInv, StoreTypeOK
  <2>4. task[t].owner = u /\ task[t].status # "COMPLETE"
    BY <1>2, <2>1 DEF StoreInv, HeldIsOwned, OwnerMatchesStatus
  <2> HIDE DEF t, k
  <2>5. TablesOK'
    BY <2>1, <2>2, <2>3 DEF TablesOK, StoreInv, StoreTypeOK
  <2>6. HeldIsOwned'
    <3> SUFFICES ASSUME NEW v \in UAVs, uav'[v].assigned # None
                 PROVE  task'[uav'[v].assigned].owner = v
      BY DEF HeldIsOwned
    <3>1. v # u /\ uav'[v] = uav[v]
      BY DEF StoreInv, StoreTypeOK
    <3>2. uav[v].assigned \in Tasks /\ task[uav[v].assigned].owner = v
      BY <3>1 DEF StoreInv, StoreTypeOK, HeldIsOwned, UAVState
    <3> QED
      BY <2>1, <2>2, <2>4, <3>1, <3>2 DEF StoreInv, StoreTypeOK
  <2>7. OwnerMatchesStatus'
    BY <2>1, <2>2, <2>3 DEF StoreInv, StoreTypeOK, OwnerMatchesStatus
  <2>8. Kept
    BY <2>1, <2>2, <2>3, <2>4 DEF StoreInv, StoreTypeOK, Kept, TaskState
  <2> QED
    BY <2>5, <2>6, <2>7, <2>8 DEF Sound
<1> QED
  BY <1>1, <1>2

\* AssignTask: only an open task without another owner is taken.
LEMMA AssignStep ==
  ASSUME StoreInv, NEW c \in Command, Accepts(c), AssignTask(c)
  PROVE  Sound
<1> USE NoneAssumption
<1> DEFINE u == c.uav
           t == c.task
           r == Tasked(uav[u], t)
           k == Taken(task[t], u)
<1>1. u \in UAVs /\ t \in Tasks /\ CanAssign(u, t)
  BY DEF Accepts, AssignTask, CanAssign
<1>2. uav' = [uav EXCEPT ![u] = r] /\ task' = [task EXCEPT ![t] = k]
  BY DEF AssignTask
<1>3. r \in UAVState /\ r.assigned = t
  BY <1>1, UAVRecords, AssignedField DEF StoreInv, StoreTypeOK
<1>4. /\ k \in TaskState /\ k.owner = u
      /\ k.status = "ASSIGNED" /\ k.left = task[t].left
  <2>1. task[t] \in TaskState
    BY <1>1 DEF StoreInv, StoreTypeOK
  <2> HIDE DEF t, u
  <2> QED
    BY <2>1, <1>1, TaskRecords
<1>5. task[t].owner = None /\ task[t].status # "COMPLETE"
  BY <1>1 DEF CanAssign, StoreInv, OwnerMatchesStatus
<1> HIDE DEF u, t, r, k
<1>6. TablesOK'
  BY <1>1, <1>2, <1>3, <1>4 DEF TablesOK, StoreInv, StoreTypeOK
<1>7. HeldIsOwned'
  <2> SUFFICES ASSUME NEW v \in UAVs, uav'[v].assigned # None
               PROVE  task'[uav'[v].assigned].owner = v
    BY DEF HeldIsOwned
  <2>1. CASE v = u
    BY <2>1, <1>1, <1>2, <1>3, <1>4 DEF StoreInv, StoreTypeOK
  <2>2. CASE v # u
    <3>1. uav'[v] = uav[v]
      BY <2>2, <1>2 DEF StoreInv, StoreTypeOK
    <3>2. uav[v].assigned \in Tasks /\ task[uav[v].assigned].owner = v
      BY <3>1 DEF StoreInv, StoreTypeOK, HeldIsOwned, UAVState
    <3> QED
      BY <3>1, <3>2, <1>1, <1>2, <1>5 DEF StoreInv, StoreTypeOK
  <2> QED
    BY <2>1, <2>2
<1>8. OwnerMatchesStatus'
  BY <1>1, <1>2, <1>4 DEF StoreInv, StoreTypeOK, OwnerMatchesStatus
<1>9. Kept
  <2> SUFFICES ASSUME NEW x \in Tasks
               PROVE  /\ task[x].status = "COMPLETE" => task'[x] = task[x]
                      /\ task'[x].status = "HIDDEN" => task[x].status = "HIDDEN"
                      /\ task'[x].left <= task[x].left
    BY DEF Kept
  <2>1. task[x].left \in Int /\ task[x].left <= task[x].left
    BY ServiceAssumption DEF StoreInv, StoreTypeOK, TaskState
  <2>2. CASE x = t
    BY <2>1, <2>2, <1>1, <1>2, <1>4, <1>5 DEF StoreInv, StoreTypeOK
  <2>3. CASE x # t
    BY <2>1, <2>3, <1>1, <1>2 DEF StoreInv, StoreTypeOK
  <2> QED
    BY <2>2, <2>3
<1> QED
  BY <1>6, <1>7, <1>8, <1>9 DEF Sound

\* ReleaseTask and the last ProgressTask: the owner lets the task go.
LEMMA LetGoStep ==
  ASSUME StoreInv, NEW u \in UAVs, NEW t \in Tasks, task[t].owner = u,
         NEW r \in UAVState, r.assigned = None, uav' = [uav EXCEPT ![u] = r],
         NEW k \in TaskState, k.owner = None, k.left <= task[t].left,
         k.status \in {"DEFERRED", "COMPLETE"}, task' = [task EXCEPT ![t] = k]
  PROVE  Sound
<1> USE NoneAssumption
<1>1. task[t].status # "COMPLETE"
  BY DEF StoreInv, OwnerMatchesStatus
<1>2. TablesOK'
  BY DEF TablesOK, StoreInv, StoreTypeOK
<1>3. HeldIsOwned'
  <2> SUFFICES ASSUME NEW v \in UAVs, uav'[v].assigned # None
               PROVE  task'[uav'[v].assigned].owner = v
    BY DEF HeldIsOwned
  <2>1. v # u /\ uav'[v] = uav[v]
    BY DEF StoreInv, StoreTypeOK
  <2>2. uav[v].assigned \in Tasks /\ task[uav[v].assigned].owner = v
    BY <2>1 DEF StoreInv, StoreTypeOK, HeldIsOwned, UAVState
  <2> QED
    BY <2>1, <2>2 DEF StoreInv, StoreTypeOK
<1>4. OwnerMatchesStatus'
  BY DEF StoreInv, StoreTypeOK, OwnerMatchesStatus
<1>5. Kept
  BY <1>1 DEF StoreInv, StoreTypeOK, Kept, TaskState
<1> QED
  BY <1>2, <1>3, <1>4, <1>5 DEF Sound

\* A branch that changes one task and leaves its owner: MarkTaskUnreachable,
\* DiscoverTask and a ProgressTask that does not finish.
LEMMA SameOwnerStep ==
  ASSUME StoreInv, NEW t \in Tasks, NEW k \in TaskState,
         k.owner = task[t].owner, k.left <= task[t].left,
         task[t].status = "COMPLETE" => k = task[t],
         k.status = "HIDDEN" => task[t].status = "HIDDEN",
         k.status \in {"HIDDEN", "PENDING", "DEFERRED", "COMPLETE"} =>
           k.owner = None,
         k.status \in {"ASSIGNED", "IN_PROGRESS"} => k.owner # None,
         uav' = uav, task' = [task EXCEPT ![t] = k]
  PROVE  Sound
<1> USE NoneAssumption
<1>1. TablesOK'
  BY DEF TablesOK, StoreInv, StoreTypeOK
<1>2. HeldIsOwned'
  <2> SUFFICES ASSUME NEW v \in UAVs, uav[v].assigned # None
               PROVE  task'[uav[v].assigned].owner = v
    BY DEF HeldIsOwned
  <2>1. uav[v].assigned \in Tasks /\ task[uav[v].assigned].owner = v
    BY DEF StoreInv, StoreTypeOK, HeldIsOwned, UAVState
  <2> QED
    BY <2>1 DEF StoreInv, StoreTypeOK
<1>3. OwnerMatchesStatus'
  BY DEF StoreInv, StoreTypeOK, OwnerMatchesStatus
<1>4. Kept
  BY DEF StoreInv, StoreTypeOK, Kept, TaskState
<1> QED
  BY <1>1, <1>2, <1>3, <1>4 DEF Sound

\* Every iteration of the loop of apply, accepted or rejected.
LEMMA HandleSound ==
  ASSUME StoreInv, NEW c \in Command, Handle(c)
  PROVE  Sound
<1> USE NoneAssumption
<1>1. /\ c.uav \in UAVs \union {System}
      /\ c.task \in Tasks \union {None}
      /\ c.target \in Targets
      /\ c.next \in Roles
  BY DEF Command
<1>2. \A u \in UAVs : uav[u] \in UAVState /\ uav[u].place \in Targets
                                          /\ uav[u].target \in Targets
  BY DEF StoreInv, StoreTypeOK, UAVState, Targets
<1>3. \A t \in Tasks : task[t] \in TaskState
  BY DEF StoreInv, StoreTypeOK
<1>4. TablesOK /\ (uav' = uav /\ task' = task => Sound)
  BY DEF StoreInv, StoreTypeOK, TablesOK, HeldIsOwned, OwnerMatchesStatus,
         Kept, Sound, TaskState
<1>5. CASE ~Accepts(c) /\ Reject(c)
  <2>1. CASE MarksOpenTask(c)
    <3>1. c.task \in Tasks /\ task[c.task].status # "COMPLETE"
      BY <1>5, <2>1 DEF MarksOpenTask, Accepts
    <3>2. uav' = uav /\ task' = [task EXCEPT ![c.task] = Unreachable(task[c.task])]
      BY <1>5, <2>1 DEF Reject
    <3> DEFINE k == Unreachable(task[c.task])
    <3>3. /\ k \in TaskState /\ k.owner = task[c.task].owner
          /\ k.status = "UNREACHABLE" /\ k.left <= task[c.task].left
      BY <1>3, <3>1, ServiceAssumption, TaskRecords DEF TaskState
    <3> HIDE DEF k
    <3> QED
      BY <3>1, <3>2, <3>3, SameOwnerStep DEF k
  <2>2. CASE ~MarksOpenTask(c)
    BY <1>5, <2>2, <1>4 DEF Reject
  <2> QED
    BY <2>1, <2>2
<1>6. CASE Accepts(c) /\ Apply(c)
  <2>1. CASE AssignTask(c)
    BY <1>6, <2>1, AssignStep
  <2>2. CASE ReleaseTask(c)
    <3>1. /\ c.uav \in UAVs /\ c.task \in Tasks /\ task[c.task].owner = c.uav
      BY <1>6, <2>2, <1>1 DEF Accepts, ReleaseTask, Owns
    <3> DEFINE r == Untasked(uav[c.uav])
               k == Deferred(task[c.task])
    <3>2. r \in UAVState /\ r.assigned = None
      BY <3>1, <1>2, UAVRecords, AssignedField
    <3>3. /\ k \in TaskState /\ k.owner = None
          /\ k.status = "DEFERRED" /\ k.left <= task[c.task].left
      BY <3>1, <1>3, ServiceAssumption, TaskRecords DEF TaskState
    <3>4. uav' = [uav EXCEPT ![c.uav] = r] /\ task' = [task EXCEPT ![c.task] = k]
      BY <2>2 DEF ReleaseTask
    <3> HIDE DEF r, k
    <3> QED
      BY <3>1, <3>2, <3>3, <3>4, LetGoStep
  <2>3. CASE ProgressTask(c)
    <3>1. /\ c.uav \in UAVs /\ c.task \in Tasks /\ task[c.task].owner = c.uav
      BY <1>6, <2>3, <1>1 DEF Accepts, ProgressTask, Owns
    <3>2. CASE Done(task[c.task])
      <4> DEFINE r == Finished(uav[c.uav])
                 k == Served(task[c.task])
      <4>1. r \in UAVState /\ r.assigned = None
        BY <3>1, <1>2, UAVRecords, AssignedField
      <4>2. /\ k \in TaskState /\ k.owner = None
            /\ k.status = "COMPLETE" /\ k.left <= task[c.task].left
        BY <3>1, <3>2, <1>3, TaskRecords
      <4>3. /\ uav' = [uav EXCEPT ![c.uav] = r]
            /\ task' = [task EXCEPT ![c.task] = k]
        BY <2>3, <3>2 DEF ProgressTask
      <4> HIDE DEF r, k
      <4> QED
        BY <3>1, <4>1, <4>2, <4>3, LetGoStep
    <3>3. CASE ~Done(task[c.task])
      <4>1. task[c.task].status # "COMPLETE" /\ c.uav # None
        BY <3>1 DEF StoreInv, OwnerMatchesStatus
      <4> DEFINE k == Served(task[c.task])
      <4>2. /\ k \in TaskState /\ k.owner = task[c.task].owner
            /\ k.status = "IN_PROGRESS" /\ k.left <= task[c.task].left
        BY <3>1, <3>3, <1>3, TaskRecords
      <4>3. uav' = uav /\ task' = [task EXCEPT ![c.task] = k]
        BY <2>3, <3>3 DEF ProgressTask
      <4> HIDE DEF k
      <4> QED
        BY <3>1, <4>1, <4>2, <4>3, SameOwnerStep
    <3> QED
      BY <3>2, <3>3
  <2>4. CASE DiscoverTask(c)
    <3>1. CASE c.task \in Tasks
      <4> DEFINE k == Discovered(task[c.task])
      <4>1. uav' = uav /\ task' = [task EXCEPT ![c.task] = k]
        BY <2>4, <3>1 DEF DiscoverTask
      <4>2. /\ k \in TaskState /\ k.owner = task[c.task].owner
            /\ k.left <= task[c.task].left
            /\ k.status # "HIDDEN"
            /\ task[c.task].status # "HIDDEN" => k = task[c.task]
            /\ task[c.task].status = "HIDDEN" => k.status = "PENDING"
        BY <3>1, <1>3, TaskRecords DEF TaskState
      <4>3. /\ k.status \in {"HIDDEN", "PENDING", "DEFERRED", "COMPLETE"} =>
                 k.owner = None
            /\ k.status \in {"ASSIGNED", "IN_PROGRESS"} => k.owner # None
        BY <3>1, <4>2 DEF StoreInv, OwnerMatchesStatus
      <4> HIDE DEF k
      <4> QED
        BY <3>1, <4>1, <4>2, <4>3, SameOwnerStep
    <3>2. CASE c.task = None
      BY <2>4, <3>2, <1>4 DEF DiscoverTask
    <3> QED
      BY <1>1, <3>1, <3>2
  <2>5. CASE AlreadyClosed(c)
    BY <2>5, <1>4 DEF AlreadyClosed
  <2>6. CASE AssignRelayRole(c)
    <3>1. c.uav \in UAVs
      BY <1>6, <2>6, <1>1 DEF Accepts, AssignRelayRole
    <3> DEFINE goal == OrElse(c.target, uav[c.uav].place)
    <3>2. goal \in Targets
      BY <1>1, <1>2, <3>1 DEF OrElse
    <3> HIDE DEF goal
    <3> DEFINE r == Relaying(uav[c.uav], goal)
    <3>3. r \in UAVState /\ r.assigned = None
      <4>1. uav[c.uav] \in UAVState
        BY <3>1, <1>2
      <4>2. r \in UAVState
        BY <3>2, <4>1, UAVRecords
      <4>3. r.assigned = None
        BY <3>2, <4>1, AssignedField
      <4> QED
        BY <4>2, <4>3
    <3>4. uav' = [uav EXCEPT ![c.uav] = r] /\ DropHeld(c.uav)
      BY <2>6 DEF AssignRelayRole, goal
    <3> HIDE DEF r
    <3> QED
      BY <3>1, <3>3, <3>4, DropStep
  <2>7. CASE ReleaseRelayRole(c)
    <3>1. c.uav \in UAVs
      BY <1>6, <2>7, <1>1 DEF Accepts, ReleaseRelayRole
    <3> DEFINE r == [uav[c.uav] EXCEPT !.role = c.next]
    <3>2. r \in UAVState /\ r.assigned = uav[c.uav].assigned
      BY <3>1, <1>1, <1>2, UAVRecords, AssignedField
    <3>3. uav' = [uav EXCEPT ![c.uav] = r] /\ task' = task
      BY <2>7 DEF ReleaseRelayRole
    <3> HIDE DEF r
    <3> QED
      BY <3>1, <3>2, <3>3, QuietStep
  <2>8. CASE HandoffRelay(c)
    <3>1. c.uav \in UAVs /\ c.other \in UAVs
      BY <1>6, <2>8, <1>1 DEF Accepts, HandoffRelay
    <3> DEFINE goal == OrElse(c.target, OrElse(uav[c.uav].target,
                                               uav[c.uav].place))
    <3>2. goal \in Targets
      BY <1>1, <1>2, <3>1 DEF OrElse
    <3> HIDE DEF goal
    <3> DEFINE r == Relaying(uav[c.other], goal)
    <3>3. uav[c.other] \in UAVState
      BY <3>1, <1>2
    <3>4. r \in UAVState
      BY <3>2, <3>3, UAVRecords
    <3>5. r.assigned = None
      BY <3>2, <3>3, AssignedField
    <3>6. r \in UAVState /\ r.assigned = None
      BY <3>4, <3>5
    <3>7. uav' = [uav EXCEPT ![c.other] = r] /\ DropHeld(c.other)
      <4>1. uav' = [uav EXCEPT ![c.other] = Relaying(@, goal)]
        BY <2>8 DEF HandoffRelay, goal
      <4> QED
        BY <2>8, <4>1 DEF HandoffRelay
    <3> HIDE DEF r
    <3> QED
      BY <3>1, <3>6, <3>7, DropStep
  <2>9. CASE StartRTH(c)
    <3>1. c.uav \in UAVs
      BY <1>6, <2>9, <1>1 DEF Accepts, StartRTH
    <3> DEFINE r == Returning(uav[c.uav])
    <3>2. r \in UAVState /\ r.assigned = None
      BY <3>1, <1>2, UAVRecords, AssignedField
    <3>3. uav' = [uav EXCEPT ![c.uav] = r] /\ DropHeld(c.uav)
      BY <2>9 DEF StartRTH
    <3> HIDE DEF r
    <3> QED
      BY <3>1, <3>2, <3>3, DropStep
  <2>10. CASE BeginLanding(c)
    BY <1>6, <2>10, <1>1, <1>2, UAVRecords, AssignedField, QuietStep
    DEF Accepts, BeginLanding
  <2>11. CASE CompleteRTH(c)
    BY <1>6, <2>11, <1>1, <1>2, UAVRecords, AssignedField, QuietStep
    DEF Accepts, CompleteRTH
  <2>12. CASE StartRecharge(c)
    BY <1>6, <2>12, <1>1, <1>2, UAVRecords, AssignedField, QuietStep
    DEF Accepts, StartRecharge
  <2>13. CASE CompleteRecharge(c)
    BY <1>6, <2>13, <1>1, <1>2, UAVRecords, AssignedField, QuietStep
    DEF Accepts, CompleteRecharge
  <2>14. CASE FailUAV(c)
    <3>1. c.uav \in UAVs
      BY <1>6, <2>14, <1>1 DEF Accepts, FailUAV
    <3> DEFINE r == Failed(uav[c.uav])
    <3>2. r \in UAVState /\ r.assigned = None
      BY <3>1, <1>2, UAVRecords, AssignedField
    <3>3. uav' = [uav EXCEPT ![c.uav] = r] /\ DropHeld(c.uav)
      BY <2>14 DEF FailUAV
    <3> HIDE DEF r
    <3> QED
      BY <3>1, <3>2, <3>3, DropStep
  <2>15. CASE RecoverUAV(c)
    BY <1>6, <2>15, <1>1, <1>2, UAVRecords, AssignedField, QuietStep
    DEF Accepts, RecoverUAV
  <2>16. CASE SetTargetPosition(c)
    <3>1. c.uav \in UAVs
      BY <1>6, <2>16, <1>1 DEF Accepts, SetTargetPosition
    <3> DEFINE r == [uav[c.uav] EXCEPT !.target = c.target]
    <3>2. r \in UAVState /\ r.assigned = uav[c.uav].assigned
      BY <3>1, <1>1, <1>2, UAVRecords, AssignedField
    <3>3. uav' = [uav EXCEPT ![c.uav] = r] /\ task' = task
      BY <2>16 DEF SetTargetPosition
    <3> HIDE DEF r
    <3> QED
      BY <3>1, <3>2, <3>3, QuietStep
  <2>17. CASE StepPhysics(c)
    <3>1. c.uav \in UAVs
      BY <1>6, <2>17, <1>1 DEF Accepts, StepPhysics
    <3> DEFINE r == Stepped(uav[c.uav], c)
    <3>2. r \in UAVState /\ r.assigned = uav[c.uav].assigned
      BY <3>1, <1>1, <1>2, UAVRecords, AssignedField
    <3>3. uav' = [uav EXCEPT ![c.uav] = r] /\ task' = task
      BY <2>17 DEF StepPhysics
    <3> HIDE DEF r
    <3> QED
      BY <3>1, <3>2, <3>3, QuietStep
  <2> QED
    BY <1>6, <2>1, <2>2, <2>3, <2>4, <2>5, <2>6, <2>7, <2>8, <2>9, <2>10,
       <2>11, <2>12, <2>13, <2>14, <2>15, <2>16, <2>17 DEF Apply
<1> QED
  BY <1>5, <1>6 DEF Handle

LEMMA StoreInitInv == StoreInit => StoreInv
<1> SUFFICES ASSUME StoreInit PROVE StoreInv
  OBVIOUS
<1> USE NoneAssumption, ServiceAssumption DEF StoreInit
<1>1. Fresh \in UAVState /\ Fresh.assigned = None
  BY DEF Fresh, UAVState, Roles, Rths, Sorties, Places, Targets
<1>2. \A t \in Tasks : /\ task[t] \in [status: {"HIDDEN", "PENDING"},
                                       owner: {None}, left: {Service}]
                       /\ task[t].status \in {"HIDDEN", "PENDING"}
                       /\ task[t].owner = None
  OBVIOUS
<1>3. [status: {"HIDDEN", "PENDING"}, owner: {None}, left: {Service}]
        \subseteq TaskState
  BY DEF TaskState, Statuses
<1>4. StoreTypeOK
  BY <1>1, <1>3 DEF StoreTypeOK
<1> QED
  BY <1>1, <1>2, <1>4 DEF StoreInv, HeldIsOwned, OwnerMatchesStatus

LEMMA StoreNextInv ==
  ASSUME StoreInv, [StoreNext]_storeVars
  PROVE  StoreInv' /\ Kept
<1>1. CASE UNCHANGED storeVars
  BY <1>1 DEF StoreInv, StoreTypeOK, HeldIsOwned, OwnerMatchesStatus, Kept,
              storeVars, TaskState
<1>2. CASE Submit
  BY <1>2 DEF Submit, StoreInv, StoreTypeOK, HeldIsOwned, OwnerMatchesStatus,
              Kept, TaskState
<1>3. CASE ApplyNext
  <2>1. PICK c \in inbox : inbox' = inbox \ {c} /\ Handle(c)
    BY <1>3 DEF ApplyNext
  <2>2. c \in Command /\ inbox' \subseteq Command
    BY <2>1 DEF StoreInv, StoreTypeOK
  <2> QED
    BY <2>1, <2>2, HandleSound DEF Sound, StoreInv, StoreTypeOK, TablesOK
<1> QED
  BY <1>1, <1>2, <1>3 DEF StoreNext

\* For any fleet, any tasks and any sequence of batches, the fields of the
\* store stay in their domains.
THEOREM StoreTypeCorrect == StoreSpec => []StoreTypeOK
<1>1. StoreInv => StoreTypeOK
  BY DEF StoreInv
<1> QED
  BY StoreInitInv, StoreNextInv, <1>1, PTL DEF StoreSpec

\* Whatever batches apply is given, a task is never held by two vehicles.
THEOREM StoreOwnership == StoreSpec => []HeldIsOwned
<1>1. StoreInv => HeldIsOwned
  BY DEF StoreInv
<1> QED
  BY StoreInitInv, StoreNextInv, <1>1, PTL DEF StoreSpec

\* Nor does a task that is open or finished keep the owner of an earlier
\* assignment, or one under way lose its owner.
THEOREM StoreOwnersMatch == StoreSpec => []OwnerMatchesStatus
<1>1. StoreInv => OwnerMatchesStatus
  BY DEF StoreInv
<1> QED
  BY StoreInitInv, StoreNextInv, <1>1, PTL DEF StoreSpec

\* Whatever batches apply is given, completion is final and service done is
\* not lost.
THEOREM StoreKeepsService == StoreSpec => ServiceIsKept
<1>1. StoreInv /\ [StoreNext]_storeVars => [Kept]_storeVars
  BY StoreNextInv
<1> QED
  BY StoreInitInv, StoreNextInv, <1>1, PTL DEF StoreSpec, ServiceIsKept, Kept

(***************************************************************************)
(* The tick: its batches, and the invariant of its phases.                 *)
(***************************************************************************)

\* the commands of the baseline runner, that is, no relay command but the
\* release of a finished surveyor's role
Emitted == {"AssignTask", "BeginLanding", "CompleteRTH", "CompleteRecharge",
            "DiscoverTask", "FailUAV", "ProgressTask", "RecoverUAV",
            "ReleaseRelayRole", "SetTargetPosition", "StartRTH",
            "StartRecharge", "StepPhysics"}

Fits(batch) ==
  /\ \A c \in batch : c.type \in Emitted
  /\ \A c \in batch : c.type \in {"AssignTask", "BeginLanding"} =>
       c.uav \in UAVs /\ uav[c.uav].assigned = None
  /\ \A c, d \in batch : c.type = "AssignTask" =>
       d.type = "AssignTask" /\ (c.uav = d.uav => c = d)

BatchFits == Fits(inbox)

LoopTypeOK == /\ phase \in Phases
              /\ {airborne, landed, finished} \subseteq SUBSET UAVs
              /\ reassess \in BOOLEAN
              /\ since \in 0..Cadence
              /\ expired \subseteq Deadlined
              /\ events \in 0..MaxEvents
              /\ drains \in 0..MaxDrains

MissionInv == /\ StoreInv
              /\ LoopTypeOK
              /\ OwnedIsHeld
              /\ WorkerFit
              /\ BatchFits

(***************************************************************************)
(* Commands.                                                               *)
(***************************************************************************)

LEMMA CommandFields ==
  \A type \in Emitted, u \in UAVs :
    /\ Cmd(type, u) \in Command
    /\ Cmd(type, u).type = type
    /\ Cmd(type, u).uav = u
<1> SUFFICES ASSUME NEW type \in Emitted, NEW u \in UAVs
             PROVE  /\ Cmd(type, u) \in Command
                    /\ Cmd(type, u).type = type
                    /\ Cmd(type, u).uav = u
  OBVIOUS
<1>1. type \in CommandTypes
  BY DEF Emitted, CommandTypes, Rank
<1>2. "pad" \in Places /\ None \in Targets /\ "IDLE" \in Roles
  BY DEF Places, Targets, Roles
<1> QED
  BY <1>1, <1>2 DEF Cmd, Command

LEMMA TaskCommandFields ==
  \A type \in Emitted, u \in UAVs, t \in Tasks :
    /\ TaskCmd(type, u, t) \in Command
    /\ TaskCmd(type, u, t).type = type
    /\ TaskCmd(type, u, t).uav = u
    /\ TaskCmd(type, u, t).task = t
<1> SUFFICES ASSUME NEW type \in Emitted, NEW u \in UAVs, NEW t \in Tasks
             PROVE  /\ TaskCmd(type, u, t) \in Command
                    /\ TaskCmd(type, u, t).type = type
                    /\ TaskCmd(type, u, t).uav = u
                    /\ TaskCmd(type, u, t).task = t
  OBVIOUS
<1> DEFINE c == Cmd(type, u)
<1>1. c \in Command /\ c.type = type /\ c.uav = u
  BY CommandFields
<1> HIDE DEF c
<1>2. TaskCmd(type, u, t) = [c EXCEPT !.task = t]
  BY DEF TaskCmd, c
<1> QED
  BY <1>1, <1>2 DEF Command

\* A phase that submits a batch leaves the tables alone, so only the batch
\* itself has to be looked at.
LEMMA EmitStep ==
  ASSUME MissionInv, NEW batch, NEW next, Emit(batch, next),
         batch \subseteq Command, Fits(batch)
  PROVE  /\ StoreInv' /\ OwnedIsHeld' /\ WorkerFit' /\ BatchFits'
         /\ Submit
<1>1. /\ inbox = {} /\ inbox' = batch /\ uav' = uav /\ task' = task
  BY DEF Emit
<1>2. StoreInv'
  BY <1>1 DEF MissionInv, StoreInv, StoreTypeOK, HeldIsOwned,
              OwnerMatchesStatus
<1>3. OwnedIsHeld' /\ WorkerFit'
  BY <1>1 DEF MissionInv, OwnedIsHeld, WorkerFit
<1>4. BatchFits'
  BY <1>1 DEF BatchFits, Fits
<1>5. Submit
  BY <1>1 DEF Submit
<1> QED
  BY <1>2, <1>3, <1>4, <1>5

\* Most batches have no AssignTask and no BeginLanding in them.
LEMMA QuietBatch ==
  ASSUME NEW batch,
         \A c \in batch : c.type \in Emitted \ {"AssignTask", "BeginLanding"}
  PROVE  Fits(batch)
BY DEF Fits, Emitted

(***************************************************************************)
(* One iteration of apply.                                                 *)
(***************************************************************************)
Fit(r) == r.active /\ ~r.failed /\ r.rth = "NONE" /\ r.sortie = "ACTIVE"

Advances == OwnedIsHeld' /\ WorkerFit' /\ BatchFits'

\* A command that changes the record of at most one vehicle, which keeps its
\* task and stays fit for it, or has none afterwards and is owner of none.
LEMMA KeepOrDropStep ==
  ASSUME MissionInv, inbox' \subseteq inbox, NEW u \in UAVs, NEW r \in UAVState,
         uav' = [uav EXCEPT ![u] = r],
         r.assigned # None => Fit(r) /\ r.assigned = uav[u].assigned,
         \A t \in Tasks : task'[t].owner \in {task[t].owner, None},
         r.assigned = None /\ uav[u].assigned # None =>
           task'[uav[u].assigned].owner = None
  PROVE  Advances
<1>1. uav \in [UAVs -> UAVState]
  BY DEF MissionInv, StoreInv, StoreTypeOK
<1>2. \A v \in UAVs : uav'[v] = IF v = u THEN r ELSE uav[v]
  BY <1>1
<1>3. OwnedIsHeld'
  <2> SUFFICES ASSUME NEW t \in Tasks, task'[t].owner # None
               PROVE  uav'[task'[t].owner].assigned = t
    BY DEF OwnedIsHeld
  <2>1. task'[t].owner = task[t].owner /\ uav[task[t].owner].assigned = t
    BY DEF MissionInv, OwnedIsHeld
  <2>2. task[t].owner \in UAVs
    BY <2>1 DEF MissionInv, StoreInv, StoreTypeOK, TaskState
  <2>3. t # None
    BY NoneAssumption
  <2> QED
    BY <1>2, <2>1, <2>2, <2>3
<1>4. WorkerFit'
  <2> SUFFICES ASSUME NEW v \in UAVs, uav'[v].assigned # None
               PROVE  Fit(uav'[v])
    BY DEF WorkerFit, Fit
  <2>1. uav[v].assigned # None => Fit(uav[v])
    BY DEF MissionInv, WorkerFit, Fit
  <2> QED
    BY <1>2, <2>1
<1>5. BatchFits'
  <2>1. \A v \in UAVs : uav[v].assigned = None => uav'[v].assigned = None
    BY <1>2
  <2> QED
    BY <2>1 DEF MissionInv, BatchFits, Fits
<1> QED
  BY <1>3, <1>4, <1>5 DEF Advances

\* A command that changes no vehicle and no owner.
LEMMA SameOwnersStep ==
  ASSUME MissionInv, inbox' \subseteq inbox, uav' = uav,
         \A t \in Tasks : task'[t].owner = task[t].owner
  PROVE  Advances
<1>1. OwnedIsHeld'
  BY DEF MissionInv, OwnedIsHeld
<1>2. WorkerFit'
  BY DEF MissionInv, WorkerFit
<1>3. BatchFits'
  BY DEF MissionInv, BatchFits, Fits
<1> QED
  BY <1>1, <1>2, <1>3 DEF Advances

\* AssignTask goes to a vehicle without a task, and no other command of its
\* batch is about that vehicle.
LEMMA AssignAdvances ==
  ASSUME MissionInv, NEW c \in inbox, inbox' = inbox \ {c},
         Accepts(c), AssignTask(c)
  PROVE  Advances
<1> DEFINE u == c.uav
           t == c.task
           r == Tasked(uav[u], t)
           k == Taken(task[t], u)
<1>1. /\ u \in UAVs /\ t \in Tasks /\ CanAssign(u, t)
      /\ uav[u].assigned = None
  BY DEF Accepts, AssignTask, CanAssign, MissionInv, BatchFits, Fits
<1>2. uav' = [uav EXCEPT ![u] = r] /\ task' = [task EXCEPT ![t] = k]
  BY DEF AssignTask
<1>3. uav \in [UAVs -> UAVState] /\ task \in [Tasks -> TaskState]
  BY DEF MissionInv, StoreInv, StoreTypeOK
<1>4. r.assigned = t /\ Fit(r)
  BY <1>1, <1>3 DEF Tasked, Fit, CanAssign, Available, UAVState
<1>5. k.owner = u
  BY <1>1, <1>3 DEF Taken, TaskState
<1>6. \A d \in inbox' : d.type = "AssignTask" /\ d.uav # u
  BY DEF MissionInv, BatchFits, Fits, AssignTask
<1> HIDE DEF u, t, r, k
<1>7. OwnedIsHeld'
  <2> SUFFICES ASSUME NEW x \in Tasks, task'[x].owner # None
               PROVE  uav'[task'[x].owner].assigned = x
    BY DEF OwnedIsHeld
  <2>1. CASE x = t
    BY <2>1, <1>1, <1>2, <1>3, <1>4, <1>5
  <2>2. CASE x # t
    <3>1. task'[x] = task[x] /\ uav[task[x].owner].assigned = x
      BY <2>2, <1>2, <1>3 DEF MissionInv, OwnedIsHeld
    <3>2. task[x].owner \in UAVs /\ task[x].owner # u
      BY <3>1, <1>1, <1>3, NoneAssumption DEF TaskState
    <3> QED
      BY <3>1, <3>2, <1>2, <1>3
  <2> QED
    BY <2>1, <2>2
<1>8. WorkerFit'
  <2> SUFFICES ASSUME NEW v \in UAVs, uav'[v].assigned # None
               PROVE  Fit(uav'[v])
    BY DEF WorkerFit, Fit
  <2>1. uav[v].assigned # None => Fit(uav[v])
    BY DEF MissionInv, WorkerFit, Fit
  <2> QED
    BY <2>1, <1>1, <1>2, <1>3, <1>4
<1>9. BatchFits'
  <2>1. \A v \in UAVs : v # u => uav'[v] = uav[v]
    BY <1>2, <1>3
  <2> QED
    BY <2>1, <1>6 DEF MissionInv, BatchFits, Fits
<1> QED
  BY <1>7, <1>8, <1>9 DEF Advances

\* StartRTH and FailUAV: the vehicle gives its task back.
LEMMA DropAdvances ==
  ASSUME MissionInv, inbox' \subseteq inbox, NEW u \in UAVs, NEW r \in UAVState,
         r.assigned = None, uav' = [uav EXCEPT ![u] = r], DropHeld(u)
  PROVE  Advances
<1>1. uav \in [UAVs -> UAVState] /\ task \in [Tasks -> TaskState]
  BY DEF MissionInv, StoreInv, StoreTypeOK
<1>2. CASE uav[u].assigned = None
  BY <1>2, KeepOrDropStep DEF DropHeld
<1>3. CASE uav[u].assigned # None
  <2> DEFINE h == uav[u].assigned
             k == Deferred(task[h])
  <2>1. h \in Tasks
    BY <1>1, <1>3 DEF UAVState
  <2>2. task' = [task EXCEPT ![h] = k]
    BY <1>3 DEF DropHeld
  <2>3. k.owner = None
    BY <2>1, <1>1, TaskRecords
  <2> HIDE DEF k
  <2>4. /\ \A t \in Tasks : task'[t].owner \in {task[t].owner, None}
        /\ task'[h].owner = None
    BY <2>1, <2>2, <2>3, <1>1
  <2> QED
    BY <2>4, KeepOrDropStep
<1> QED
  BY <1>2, <1>3

\* A command that is refused does nothing: the only branch that writes before
\* it refuses is the one of MarkTaskUnreachable, which no phase sends.
LEMMA HandleAdvances ==
  ASSUME MissionInv, NEW c \in inbox, inbox' = inbox \ {c}, Handle(c)
  PROVE  Advances
<1> USE NoneAssumption
<1>1. uav \in [UAVs -> UAVState] /\ task \in [Tasks -> TaskState]
  BY DEF MissionInv, StoreInv, StoreTypeOK
<1>2. c \in Command /\ c.type \in Emitted
  BY DEF MissionInv, StoreInv, StoreTypeOK, BatchFits, Fits
<1>3. c.target \in Targets /\ c.next \in Roles /\ c.uav \in UAVs \union {System}
  BY <1>2 DEF Command
<1>4. CASE ~Accepts(c) /\ Reject(c)
  <2>1. ~MarksOpenTask(c)
    BY <1>2 DEF MarksOpenTask, Emitted
  <2> QED
    BY <1>4, <2>1, SameOwnersStep DEF Reject
<1>5. CASE Accepts(c) /\ Apply(c)
  <2> DEFINE u == c.uav
  <2>1. c.type # "DiscoverTask" => u \in UAVs /\ uav[u] \in UAVState
    BY <1>1, <1>2, <1>3, <1>5 DEF Accepts, Emitted
  <2>2. c.type # "DiscoverTask" /\ uav[u].assigned # None => Fit(uav[u])
    BY <2>1 DEF MissionInv, WorkerFit, Fit
  <2> HIDE DEF u
  <2>3. CASE AssignTask(c)
    BY <1>5, <2>3, AssignAdvances
  <2>4. CASE ProgressTask(c)
    <3> DEFINE k == Served(task[c.task])
    <3>1. u \in UAVs /\ c.task \in Tasks /\ task[c.task].owner = u
      BY <1>2, <1>5, <2>4, <2>1 DEF Accepts, ProgressTask, Owns, u
    <3>2. task' = [task EXCEPT ![c.task] = k]
      BY <2>4 DEF ProgressTask
    <3>3. CASE Done(task[c.task])
      <4> DEFINE r == Finished(uav[u])
      <4>1. r \in UAVState /\ r.assigned = None
        BY <2>1, <3>1, <2>4, UAVRecords, AssignedField DEF ProgressTask
      <4>2. uav' = [uav EXCEPT ![u] = r]
        BY <2>4, <3>3 DEF ProgressTask, u
      <4>3. k.owner = None
        BY <1>1, <3>1, <3>3, TaskRecords
      <4>4. uav[u].assigned = c.task
        BY <3>1 DEF MissionInv, OwnedIsHeld
      <4> HIDE DEF r, k
      <4>5. /\ \A t \in Tasks : task'[t].owner \in {task[t].owner, None}
            /\ task'[uav[u].assigned].owner = None
        BY <1>1, <3>1, <3>2, <4>3, <4>4
      <4> QED
        BY <3>1, <4>1, <4>2, <4>5, KeepOrDropStep
    <3>4. CASE ~Done(task[c.task])
      <4>1. k.owner = task[c.task].owner
        BY <1>1, <3>1, <3>4, TaskRecords
      <4>2. uav' = uav
        BY <2>4, <3>4 DEF ProgressTask
      <4> HIDE DEF k
      <4>3. \A t \in Tasks : task'[t].owner = task[t].owner
        BY <1>1, <3>1, <3>2, <4>1
      <4> QED
        BY <4>2, <4>3, SameOwnersStep
    <3> QED
      BY <3>3, <3>4
  <2>5. CASE DiscoverTask(c)
    <3>1. CASE c.task = None
      BY <2>5, <3>1, SameOwnersStep DEF DiscoverTask
    <3>2. CASE c.task \in Tasks
      <4> DEFINE k == Discovered(task[c.task])
      <4>1. k.owner = task[c.task].owner
        BY <1>1, <3>2, TaskRecords
      <4>2. uav' = uav /\ task' = [task EXCEPT ![c.task] = k]
        BY <2>5, <3>2 DEF DiscoverTask
      <4> HIDE DEF k
      <4>3. \A t \in Tasks : task'[t].owner = task[t].owner
        BY <1>1, <3>2, <4>1, <4>2
      <4> QED
        BY <4>2, <4>3, SameOwnersStep
    <3> QED
      BY <1>2, <3>1, <3>2 DEF Command
  <2>6. CASE StartRTH(c)
    <3> DEFINE r == Returning(uav[u])
    <3>1. u \in UAVs /\ r \in UAVState /\ r.assigned = None
      BY <2>1, <2>6, UAVRecords, AssignedField DEF StartRTH
    <3>2. uav' = [uav EXCEPT ![u] = r] /\ DropHeld(u)
      BY <2>6 DEF StartRTH, u
    <3> HIDE DEF r
    <3> QED
      BY <3>1, <3>2, DropAdvances
  <2>7. CASE FailUAV(c)
    <3> DEFINE r == Failed(uav[u])
    <3>1. u \in UAVs /\ r \in UAVState /\ r.assigned = None
      BY <2>1, <2>7, UAVRecords, AssignedField DEF FailUAV
    <3>2. uav' = [uav EXCEPT ![u] = r] /\ DropHeld(u)
      BY <2>7 DEF FailUAV, u
    <3> HIDE DEF r
    <3> QED
      BY <3>1, <3>2, DropAdvances
  <2>8. ASSUME task' = task, u \in UAVs, NEW r \in UAVState,
               uav' = [uav EXCEPT ![u] = r], r.assigned = uav[u].assigned,
               uav[u].assigned # None => Fit(r)
        PROVE  Advances
    <3>1. \A t \in Tasks : task'[t].owner \in {task[t].owner, None}
      BY <2>8
    <3> QED
      BY <2>8, <3>1, KeepOrDropStep
  <2>9. CASE RecoverUAV(c)
    <3> DEFINE r == Recovered(uav[u])
    <3>1. u \in UAVs /\ r \in UAVState /\ r.assigned = uav[u].assigned
      BY <2>1, <2>9, UAVRecords, AssignedField DEF RecoverUAV
    <3>2. uav' = [uav EXCEPT ![u] = r] /\ task' = task
      BY <2>9 DEF RecoverUAV, u
    <3>3. uav[u].assigned = None
      BY <1>5, <2>2, <2>9 DEF RecoverUAV, Accepts, CanRecover, Fit, u
    <3> HIDE DEF r
    <3> QED
      BY <3>1, <3>2, <3>3, <2>8
  <2>10. CASE BeginLanding(c)
    <3> DEFINE r == Landing(uav[u])
    <3>1. u \in UAVs /\ r \in UAVState /\ r.assigned = uav[u].assigned
      BY <2>1, <2>10, UAVRecords, AssignedField DEF BeginLanding
    <3>2. uav' = [uav EXCEPT ![u] = r] /\ task' = task
      BY <2>10 DEF BeginLanding, u
    <3>3. uav[u].assigned = None
      BY <2>10 DEF BeginLanding, MissionInv, BatchFits, Fits, u
    <3> HIDE DEF r
    <3> QED
      BY <3>1, <3>2, <3>3, <2>8
  <2>11. CASE CompleteRTH(c)
    <3> DEFINE r == Landed(uav[u])
    <3>1. u \in UAVs /\ r \in UAVState /\ r.assigned = uav[u].assigned
      BY <2>1, <2>11, UAVRecords, AssignedField DEF CompleteRTH
    <3>2. uav' = [uav EXCEPT ![u] = r] /\ task' = task
      BY <2>11 DEF CompleteRTH, u
    <3>3. uav[u].assigned = None
      BY <1>5, <2>2, <2>11
      DEF CompleteRTH, Accepts, CanCompleteRTH, Fit, u
    <3> HIDE DEF r
    <3> QED
      BY <3>1, <3>2, <3>3, <2>8
  <2>12. CASE StartRecharge(c)
    <3> DEFINE r == Recharging(uav[u])
    <3>1. u \in UAVs /\ r \in UAVState /\ r.assigned = uav[u].assigned
      BY <2>1, <2>12, UAVRecords, AssignedField DEF StartRecharge
    <3>2. uav' = [uav EXCEPT ![u] = r] /\ task' = task
      BY <2>12 DEF StartRecharge, u
    <3>3. uav[u].assigned = None
      BY <1>5, <2>2, <2>12
      DEF StartRecharge, Accepts, CanStartRecharge, Fit, u
    <3> HIDE DEF r
    <3> QED
      BY <3>1, <3>2, <3>3, <2>8
  <2>13. CASE CompleteRecharge(c)
    <3> DEFINE r == Recharged(uav[u])
    <3>1. u \in UAVs /\ r \in UAVState /\ r.assigned = uav[u].assigned
      BY <2>1, <2>13, UAVRecords, AssignedField DEF CompleteRecharge
    <3>2. uav' = [uav EXCEPT ![u] = r] /\ task' = task
      BY <2>13 DEF CompleteRecharge, u
    <3>3. uav[u].assigned = None
      BY <1>5, <2>2, <2>13
      DEF CompleteRecharge, Accepts, CanCompleteRecharge, Fit, u
    <3> HIDE DEF r
    <3> QED
      BY <3>1, <3>2, <3>3, <2>8
  <2>14. CASE ReleaseRelayRole(c)
    <3> DEFINE r == [uav[u] EXCEPT !.role = c.next]
    <3>1. u \in UAVs /\ r \in UAVState /\ r.assigned = uav[u].assigned
      BY <1>3, <2>1, <2>14, UAVRecords, AssignedField DEF ReleaseRelayRole
    <3>2. uav' = [uav EXCEPT ![u] = r] /\ task' = task
      BY <2>14 DEF ReleaseRelayRole, u
    <3>3. Fit(uav[u]) => Fit(r)
      BY <3>1, <2>1, <2>14 DEF Fit, UAVState, ReleaseRelayRole
    <3> HIDE DEF r
    <3> QED
      BY <3>1, <3>2, <3>3, <2>2, <2>8, <2>14 DEF ReleaseRelayRole
  <2>15. CASE SetTargetPosition(c)
    <3> DEFINE r == [uav[u] EXCEPT !.target = c.target]
    <3>1. u \in UAVs /\ r \in UAVState /\ r.assigned = uav[u].assigned
      BY <1>3, <2>1, <2>15, UAVRecords, AssignedField DEF SetTargetPosition
    <3>2. uav' = [uav EXCEPT ![u] = r] /\ task' = task
      BY <2>15 DEF SetTargetPosition, u
    <3>3. Fit(uav[u]) => Fit(r)
      BY <3>1, <2>1, <2>15 DEF Fit, UAVState, SetTargetPosition
    <3> HIDE DEF r
    <3> QED
      BY <3>1, <3>2, <3>3, <2>2, <2>8, <2>15 DEF SetTargetPosition
  <2>16. CASE StepPhysics(c)
    <3> DEFINE r == Stepped(uav[u], c)
    <3>1. u \in UAVs /\ r \in UAVState /\ r.assigned = uav[u].assigned
      BY <1>2, <2>1, <2>16, UAVRecords, AssignedField DEF StepPhysics
    <3>2. uav' = [uav EXCEPT ![u] = r] /\ task' = task
      BY <2>16 DEF StepPhysics, u
    <3>3. Fit(uav[u]) => Fit(r)
      BY <3>1, <2>1, <2>16 DEF Fit, UAVState, StepPhysics, Stepped
    <3> HIDE DEF r
    <3> QED
      BY <3>1, <3>2, <3>3, <2>2, <2>8, <2>16 DEF StepPhysics
  <2>17. c.type \notin {"ReleaseTask", "MarkTaskUnreachable",
                        "AssignRelayRole", "HandoffRelay"}
    BY <1>2 DEF Emitted
  <2> QED
    BY <1>5, <2>3, <2>4, <2>5, <2>6, <2>7, <2>9, <2>10, <2>11, <2>12, <2>13,
       <2>14, <2>15, <2>16, <2>17
    DEF Apply, ReleaseTask, AlreadyClosed, AssignRelayRole, HandoffRelay
<1> QED
  BY <1>4, <1>5 DEF Handle

LEMMA ApplyAdvances ==
  ASSUME MissionInv, ApplyCommand
  PROVE  MissionInv' /\ ApplyNext
<1>1. PICK c \in inbox : /\ \A d \in inbox : Precedes(c, d)
                         /\ inbox' = inbox \ {c}
                         /\ Handle(c)
                         /\ reassess' = (reassess \/ NewTaskEvent(c)
                                                  \/ FreedEvent(c))
                         /\ finished' = finished \union FinishedBy(c)
  BY DEF ApplyCommand
<1>2. c \in Command
  BY DEF MissionInv, StoreInv, StoreTypeOK
<1>3. StoreInv'
  <2>1. Sound
    BY <1>1, <1>2, HandleSound DEF MissionInv
  <2>2. inbox' \subseteq Command
    BY <1>1 DEF MissionInv, StoreInv, StoreTypeOK
  <2> QED
    BY <2>1, <2>2 DEF Sound, TablesOK, StoreInv, StoreTypeOK
<1>4. Advances
  BY <1>1, HandleAdvances
<1>5. LoopTypeOK'
  <2>1. UNCHANGED <<phase, airborne, landed, since, expired, events, drains>>
    BY DEF ApplyCommand
  <2>2. FinishedBy(c) \subseteq UAVs
    BY <1>2 DEF FinishedBy, Completes, Accepts
  <2>3. finished' \subseteq UAVs
    BY <1>1, <2>2 DEF MissionInv, LoopTypeOK
  <2>4. reassess' \in BOOLEAN
    BY <1>1 DEF MissionInv, LoopTypeOK
  <2> QED
    BY <2>1, <2>3, <2>4 DEF MissionInv, LoopTypeOK
<1>6. ApplyNext
  BY <1>1 DEF ApplyNext
<1> QED
  BY <1>3, <1>4, <1>5, <1>6 DEF Advances, MissionInv

(***************************************************************************)
(* The phases.                                                             *)
(***************************************************************************)

\* What a phase has to show of its batch and of its own variables.
LEMMA PhaseStep ==
  ASSUME MissionInv, NEW batch, NEW next, Emit(batch, next),
         batch \subseteq Command, Fits(batch), LoopTypeOK'
  PROVE  MissionInv' /\ Submit
BY EmitStep DEF MissionInv

LEMMA AssessType ==
  ASSUME MissionInv, Assess
  PROVE  airborne' \subseteq UAVs /\ landed' \subseteq UAVs
BY DEF Assess, InFlight, MissionInv, LoopTypeOK

LEMMA EventsStep ==
  ASSUME MissionInv, ScheduledEvents
  PROVE  MissionInv' /\ Submit
<1>1. PICK failing, recovering \in SUBSET UAVs :
        LET due == Cardinality(failing) + Cardinality(recovering)
        IN  /\ due <= events
            /\ events' = events - due
            /\ Emit({Cmd("FailUAV", u) : u \in failing}
                      \union {Cmd("RecoverUAV", u) : u \in recovering},
                    "discover")
  BY DEF ScheduledEvents
<1> DEFINE due == Cardinality(failing) + Cardinality(recovering)
           batch == {Cmd("FailUAV", u) : u \in failing}
                      \union {Cmd("RecoverUAV", u) : u \in recovering}
<1>2. due \in Nat /\ due <= events /\ events' = events - due
  <2>1. \A S \in SUBSET UAVs : IsFiniteSet(S)
    BY UAVsAssumption, FS_Subset
  <2>2. Cardinality(failing) \in Nat /\ Cardinality(recovering) \in Nat
    BY <2>1, FS_CardinalityType
  <2> QED
    BY <1>1, <2>2
<1>3. Emit(batch, "discover")
  BY <1>1
<1>4. batch \subseteq Command
  BY CommandFields DEF Emitted
<1>5. \A c \in batch : c.type \in {"FailUAV", "RecoverUAV"}
  BY CommandFields DEF Emitted
<1>6. Fits(batch)
  BY <1>5, QuietBatch DEF Emitted
<1> HIDE DEF due, batch
<1>7. LoopTypeOK'
  <2>1. events' \in 0..MaxEvents
    BY <1>2, BoundsAssumption DEF MissionInv, LoopTypeOK
  <2>2. phase' \in Phases
    BY <1>3 DEF Emit, Phases
  <2> QED
    BY <2>1, <2>2 DEF ScheduledEvents, MissionInv, LoopTypeOK
<1> QED
  BY <1>3, <1>4, <1>6, <1>7, PhaseStep

LEMMA DiscoveryStep ==
  ASSUME MissionInv, Discovery
  PROVE  MissionInv' /\ Submit
<1>1. PICK seen \in SUBSET {t \in Tasks : task[t].status = "HIDDEN"} :
      \E by \in [seen -> {u \in UAVs : CanDetect(u)}] :
        Emit({TaskCmd("DiscoverTask", by[t], t) : t \in seen}, "rth")
  BY DEF Discovery
<1>2. PICK by \in [seen -> {u \in UAVs : CanDetect(u)}] :
        Emit({TaskCmd("DiscoverTask", by[t], t) : t \in seen}, "rth")
  BY <1>1
<1> DEFINE batch == {TaskCmd("DiscoverTask", by[t], t) : t \in seen}
<1>3. \A t \in seen : t \in Tasks /\ by[t] \in UAVs
  OBVIOUS
<1>4. batch \subseteq Command
  BY <1>3, TaskCommandFields DEF Emitted
<1>5. \A c \in batch : c.type = "DiscoverTask"
  BY <1>3, TaskCommandFields DEF Emitted
<1>6. Fits(batch)
  BY <1>5, QuietBatch DEF Emitted
<1>7. LoopTypeOK'
  BY <1>2 DEF Discovery, loopVars, Emit, Phases, MissionInv, LoopTypeOK
<1> QED
  BY <1>2, <1>4, <1>6, <1>7, PhaseStep

LEMMA TriggersStep ==
  ASSUME MissionInv, RTHTriggers
  PROVE  MissionInv' /\ Submit
<1> DEFINE batch == {Cmd("StartRTH", u) : u \in {v \in UAVs : MustReturn(v)}}
<1>1. Emit(batch, "allocate")
  BY DEF RTHTriggers
<1>2. batch \subseteq Command /\ \A c \in batch : c.type = "StartRTH"
  BY CommandFields DEF Emitted
<1>3. Fits(batch)
  BY <1>2, QuietBatch DEF Emitted
<1> HIDE DEF batch
<1>4. airborne' \subseteq UAVs /\ landed' \subseteq UAVs
  BY AssessType DEF RTHTriggers
<1>5. LoopTypeOK'
  BY <1>1, <1>4 DEF RTHTriggers, Emit, Phases, MissionInv, LoopTypeOK
<1> QED
  BY <1>1, <1>2, <1>3, <1>5, PhaseStep

\* The allocation is the phase that hands out tasks: a matching gives a vehicle
\* one task, and only vehicles without one are in it.
LEMMA AllocateStep ==
  ASSUME MissionInv, Allocate
  PROVE  MissionInv' /\ Submit
<1>1. PICK us \in SUBSET {u \in UAVs : Eligible(u)} :
      \E m \in Matchings({t \in Tasks : Open(t) /\ t \notin expired}, us) :
        Emit({TaskCmd("AssignTask", m[t], t) : t \in DOMAIN m}, "serve")
  BY DEF Allocate
<1>2. PICK m \in Matchings({t \in Tasks : Open(t) /\ t \notin expired}, us) :
        Emit({TaskCmd("AssignTask", m[t], t) : t \in DOMAIN m}, "serve")
  BY <1>1
<1> DEFINE batch == {TaskCmd("AssignTask", m[t], t) : t \in DOMAIN m}
<1>3. /\ \A t \in DOMAIN m : t \in Tasks /\ m[t] \in UAVs /\ Eligible(m[t])
      /\ \A s, t \in DOMAIN m : m[s] = m[t] => s = t
  BY DEF Matchings
<1>4. batch \subseteq Command
  BY <1>3, TaskCommandFields DEF Emitted
<1>5. \A t \in DOMAIN m : /\ TaskCmd("AssignTask", m[t], t).type = "AssignTask"
                          /\ TaskCmd("AssignTask", m[t], t).uav = m[t]
  BY <1>3, TaskCommandFields DEF Emitted
<1>6. \A c \in batch : /\ c.type = "AssignTask"
                       /\ c.uav \in UAVs /\ uav[c.uav].assigned = None
  BY <1>3, <1>5 DEF Eligible
<1>7. \A c, d \in batch : c.uav = d.uav => c = d
  <2> SUFFICES ASSUME NEW s \in DOMAIN m, NEW t \in DOMAIN m, m[s] = m[t]
               PROVE  s = t
    BY <1>5
  <2> QED
    BY <1>3
<1>8. Fits(batch)
  <2> HIDE DEF batch
  <2>1. "AssignTask" \in Emitted
    BY DEF Emitted
  <2> QED
    BY <2>1, <1>6, <1>7 DEF Fits
<1>9. LoopTypeOK'
  <2>1. phase' = "serve"
    BY <1>2 DEF Emit
  <2>2. 0 \in 0..Cadence
    BY BoundsAssumption
  <2> QED
    BY <2>1, <2>2 DEF Allocate, Phases, MissionInv, LoopTypeOK
<1> QED
  BY <1>2, <1>4, <1>8, <1>9, PhaseStep

LEMMA SkipStep ==
  ASSUME MissionInv, SkipAllocation
  PROVE  MissionInv' /\ Submit
<1>1. Emit({}, "serve") /\ Fits({})
  BY DEF SkipAllocation, Fits
<1>2. LoopTypeOK'
  BY <1>1 DEF SkipAllocation, loopVars, Emit, Phases, MissionInv, LoopTypeOK
<1> QED
  BY <1>1, <1>2, PhaseStep

LEMMA ServeStep ==
  ASSUME MissionInv, Serve
  PROVE  MissionInv' /\ Submit
<1> DEFINE batch == {TaskCmd("ProgressTask", u, uav[u].assigned) :
                       u \in {v \in UAVs : OnSite(v)}}
<1>1. Emit(batch, "clear")
  BY DEF Serve
<1>2. \A u \in UAVs : OnSite(u) => uav[u].assigned \in Tasks
  BY DEF OnSite, MissionInv, StoreInv, StoreTypeOK, UAVState
<1>3. batch \subseteq Command /\ \A c \in batch : c.type = "ProgressTask"
  BY <1>2, TaskCommandFields DEF Emitted
<1>4. Fits(batch)
  BY <1>3, QuietBatch DEF Emitted
<1> HIDE DEF batch
<1>5. LoopTypeOK'
  BY <1>1 DEF Serve, loopVars, Emit, Phases, MissionInv, LoopTypeOK
<1> QED
  BY <1>1, <1>3, <1>4, <1>5, PhaseStep

LEMMA ClearStep ==
  ASSUME MissionInv, ClearFinished
  PROVE  MissionInv' /\ Submit
<1> DEFINE batch == UNION {{Cmd("ReleaseRelayRole", u),
                            Cmd("SetTargetPosition", u)} : u \in finished}
<1>1. Emit(batch, "allDone")
  BY DEF ClearFinished
<1>2. finished \subseteq UAVs
  BY DEF MissionInv, LoopTypeOK
<1>3. \A c \in batch : \E u \in UAVs : \/ c = Cmd("ReleaseRelayRole", u)
                                       \/ c = Cmd("SetTargetPosition", u)
  BY <1>2
<1> HIDE DEF batch
<1>4. \A c \in batch : /\ c \in Command
                       /\ c.type \in {"ReleaseRelayRole", "SetTargetPosition"}
  BY <1>3, CommandFields DEF Emitted
<1>5. Fits(batch)
  BY <1>4, QuietBatch DEF Emitted
<1>6. LoopTypeOK'
  BY <1>1 DEF ClearFinished, Emit, Phases, MissionInv, LoopTypeOK
<1> QED
  BY <1>1, <1>4, <1>5, <1>6, PhaseStep

LEMMA AllDoneStep ==
  ASSUME MissionInv, AllDone
  PROVE  MissionInv' /\ Submit
<1> DEFINE batch == IF AllClosed
                      THEN {Cmd("StartRTH", u) : u \in {v \in UAVs : CallHome(v)}}
                      ELSE {}
<1>1. Emit(batch, "depart")
  BY DEF AllDone
<1>2. \A c \in batch : \E u \in UAVs : c = Cmd("StartRTH", u)
  OBVIOUS
<1> HIDE DEF batch
<1>3. \A c \in batch : c \in Command /\ c.type = "StartRTH"
  BY <1>2, CommandFields DEF Emitted
<1>4. Fits(batch)
  BY <1>3, QuietBatch DEF Emitted
<1>5. LoopTypeOK'
  BY <1>1 DEF AllDone, loopVars, Emit, Phases, MissionInv, LoopTypeOK
<1> QED
  BY <1>1, <1>3, <1>4, <1>5, PhaseStep

LEMMA TargetCommand ==
  \A u \in UAVs, goal \in Targets :
    SetTarget(u, goal) \in Command /\ SetTarget(u, goal).type = "SetTargetPosition"
<1> SUFFICES ASSUME NEW u \in UAVs, NEW goal \in Targets
             PROVE  /\ SetTarget(u, goal) \in Command
                    /\ SetTarget(u, goal).type = "SetTargetPosition"
  OBVIOUS
<1> DEFINE c == Cmd("SetTargetPosition", u)
<1>1. c \in Command /\ c.type = "SetTargetPosition"
  BY CommandFields DEF Emitted
<1>2. SetTarget(u, goal) = [c EXCEPT !.target = goal]
  BY DEF SetTarget
<1> HIDE DEF c
<1> QED
  BY <1>1, <1>2 DEF Command

LEMMA PhysicsCommand ==
  ASSUME StoreInv
  PROVE  \A u \in UAVs, p \in Places, b \in BOOLEAN :
           Step(u, p, b) \in Command /\ Step(u, p, b).type = "StepPhysics"
<1> SUFFICES ASSUME NEW u \in UAVs, NEW p \in Places, NEW b \in BOOLEAN
             PROVE  /\ Step(u, p, b) \in Command
                    /\ Step(u, p, b).type = "StepPhysics"
  OBVIOUS
<1> DEFINE c == Cmd("StepPhysics", u)
           m == uav[u].target # None /\ p # uav[u].target
           l == uav[u].low \/ b
<1>1. c \in Command /\ c.type = "StepPhysics"
  BY CommandFields DEF Emitted
<1>2. m \in BOOLEAN /\ l \in BOOLEAN
  OBVIOUS
<1>3. Step(u, p, b) = [c EXCEPT !.place = p, !.moving = m, !.low = l]
  BY DEF Step
<1> HIDE DEF c, m, l
<1> QED
  BY <1>1, <1>2, <1>3 DEF Command

LEMMA DepartStep ==
  ASSUME MissionInv, Depart
  PROVE  MissionInv' /\ Submit
<1>1. PICK goal \in [UAVs -> Targets] :
        Emit({SetTarget(u, goal[u]) :
               u \in {v \in UAVs : goal[v] # uav[v].target}}, "fly")
  BY DEF Depart
<1> DEFINE batch == {SetTarget(u, goal[u]) :
                       u \in {v \in UAVs : goal[v] # uav[v].target}}
<1>2. Emit(batch, "fly")
  BY <1>1
<1>3. \A c \in batch : \E u \in UAVs, g \in Targets : c = SetTarget(u, g)
  OBVIOUS
<1> HIDE DEF batch
<1>4. \A c \in batch : c \in Command /\ c.type = "SetTargetPosition"
  BY <1>3, TargetCommand
<1>5. Fits(batch)
  BY <1>4, QuietBatch DEF Emitted
<1>6. LoopTypeOK'
  BY <1>2 DEF Depart, loopVars, Emit, Phases, MissionInv, LoopTypeOK
<1> QED
  BY <1>2, <1>4, <1>5, <1>6, PhaseStep

LEMMA FlyStep ==
  ASSUME MissionInv, Fly
  PROVE  MissionInv' /\ Submit
<1>1. PICK dest \in Routes, drained \in SUBSET {u \in Flying : ~uav[u].low} :
        FlyTo(dest, drained)
  BY DEF Fly
<1> DEFINE batch == {Step(u, dest[u], u \in drained) : u \in Flying}
<1>2. Emit(batch, "lifecycle")
  BY <1>1 DEF FlyTo
<1>3. \A u \in Flying : u \in UAVs /\ dest[u] \in Places
  BY DEF Routes, Flying
<1>4. \A c \in batch : c \in Command /\ c.type = "StepPhysics"
  <2>1. \A u \in Flying : (u \in drained) \in BOOLEAN
    OBVIOUS
  <2>2. \A c \in batch : \E u \in UAVs, p \in Places, b \in BOOLEAN :
          c = Step(u, p, b)
    BY <2>1, <1>3
  <2> HIDE DEF batch
  <2> QED
    BY <2>2, PhysicsCommand DEF MissionInv
<1> HIDE DEF batch
<1>5. Fits(batch)
  BY <1>4, QuietBatch DEF Emitted
<1>6. drains' \in 0..MaxDrains
  <2>1. IsFiniteSet(drained)
    BY UAVsAssumption, FS_Subset DEF Flying
  <2>2. Cardinality(drained) \in Nat
    BY <2>1, FS_CardinalityType
  <2> QED
    BY <1>1, <2>2, BoundsAssumption DEF FlyTo, MissionInv, LoopTypeOK
<1>7. LoopTypeOK'
  <2>1. /\ phase' = "lifecycle"
        /\ UNCHANGED <<airborne, landed, reassess, since, finished, expired, events>>
    BY <1>1, <1>2 DEF FlyTo, Emit
  <2> QED
    BY <2>1, <1>6 DEF Phases, MissionInv, LoopTypeOK
<1> QED
  BY <1>2, <1>4, <1>5, <1>7, PhaseStep

\* A vehicle on its way home has no task, so BeginLanding takes none.
LEMMA LifecycleStep ==
  ASSUME MissionInv, Lifecycle
  PROVE  MissionInv' /\ Submit
<1>1. PICK near \in SUBSET {u \in Homing : Approaches(u)},
           full \in SUBSET Charging : LifecycleOf(near, full)
  BY DEF Lifecycle
<1> DEFINE batch == RouterCommands(near) \union ChargeCommands(full)
<1>2. Emit(batch, "assess") /\ UNCHANGED loopVars
  BY <1>1 DEF LifecycleOf
<1>3. \A c \in batch :
        \/ \E u \in UAVs, g \in Targets :
             c = SetTarget(u, g)
        \/ \E u \in Homing : c = Cmd("BeginLanding", u)
        \/ \E u \in UAVs : \E type \in {"CompleteRTH", "StartRecharge",
                                        "CompleteRecharge"} : c = Cmd(type, u)
        \/ \E u \in UAVs : c = ChargeStep(u)
  <2>1. "pad" \in Targets
    BY DEF Targets, Places
  <2> QED
    BY <2>1 DEF RouterCommands, ChargeCommands, Homing, Charging
<1> HIDE DEF batch
<1>4. \A u \in UAVs : ChargeStep(u) \in Command
                      /\ ChargeStep(u).type = "StepPhysics"
  <2> SUFFICES ASSUME NEW u \in UAVs
               PROVE  ChargeStep(u) \in Command
                      /\ ChargeStep(u).type = "StepPhysics"
    OBVIOUS
  <2> DEFINE p == uav[u].place
             l == uav[u].low
             c == Cmd("StepPhysics", u)
  <2>1. p \in Places /\ l \in BOOLEAN
    BY DEF MissionInv, StoreInv, StoreTypeOK, UAVState
  <2>2. ChargeStep(u) = [c EXCEPT !.place = p, !.low = l]
    BY DEF ChargeStep
  <2>3. c \in Command /\ c.type = "StepPhysics"
    BY CommandFields DEF Emitted
  <2> HIDE DEF p, l, c
  <2> QED
    BY <2>1, <2>2, <2>3 DEF Command
<1>5. \A u \in Homing : u \in UAVs /\ uav[u].assigned = None
  BY DEF Homing, MissionInv, WorkerFit
<1>6. \A c \in batch :
        \/ /\ c \in Command
           /\ c.type \in Emitted \ {"AssignTask", "BeginLanding"}
        \/ /\ c \in Command /\ c.type = "BeginLanding"
           /\ c.uav \in UAVs /\ uav[c.uav].assigned = None
  <2> TAKE c \in batch
  <2>1. CASE \E u \in UAVs, g \in Targets :
               c = SetTarget(u, g)
    BY <2>1, TargetCommand DEF Emitted
  <2>2. CASE \E u \in Homing : c = Cmd("BeginLanding", u)
    BY <2>2, <1>5, CommandFields DEF Emitted
  <2>3. CASE \E u \in UAVs : \E type \in {"CompleteRTH", "StartRecharge",
                                          "CompleteRecharge"} : c = Cmd(type, u)
    BY <2>3, CommandFields DEF Emitted
  <2>4. CASE \E u \in UAVs : c = ChargeStep(u)
    BY <2>4, <1>4 DEF Emitted
  <2> QED
    BY <1>3, <2>1, <2>2, <2>3, <2>4
<1>7. Fits(batch)
  BY <1>6 DEF Fits, Emitted
<1>8. LoopTypeOK'
  BY <1>2 DEF loopVars, Emit, Phases, MissionInv, LoopTypeOK
<1> QED
  BY <1>2, <1>6, <1>7, <1>8, PhaseStep

LEMMA TickEndStep ==
  ASSUME MissionInv, AdvanceTick
  PROVE  MissionInv' /\ Submit
<1> DEFINE next == IF ReturnByEnd /\ AllClosed' /\ AllLanded
                     THEN "done" ELSE "events"
<1>1. Emit({}, next) /\ Fits({})
  BY DEF AdvanceTick, Fits
<1>2. next \in Phases
  BY DEF Phases
<1> HIDE DEF next
<1>3. airborne' \subseteq UAVs /\ landed' \subseteq UAVs
  BY AssessType DEF AdvanceTick
<1>4. since' \in 0..Cadence
  BY BoundsAssumption DEF AdvanceTick, MissionInv, LoopTypeOK
<1>5. expired' \subseteq Deadlined
  BY DEF AdvanceTick, MissionInv, LoopTypeOK
<1>6. LoopTypeOK'
  BY <1>1, <1>2, <1>3, <1>4, <1>5
  DEF AdvanceTick, Emit, MissionInv, LoopTypeOK
<1> QED
  BY <1>1, <1>6, PhaseStep

(***************************************************************************)
(* The theorems.                                                           *)
(***************************************************************************)

LEMMA MissionInitInv == MissionInit => MissionInv
<1> SUFFICES ASSUME MissionInit PROVE MissionInv
  OBVIOUS
<1>1. StoreInv
  BY StoreInitInv DEF MissionInit
<1>2. LoopTypeOK
  <2>1. Cadence \in 0..Cadence /\ MaxEvents \in 0..MaxEvents
        /\ MaxDrains \in 0..MaxDrains
    BY BoundsAssumption
  <2> QED
    BY <2>1 DEF MissionInit, LoopTypeOK, Phases
<1>3. OwnedIsHeld /\ WorkerFit
  <2>1. \A t \in Tasks : task[t].owner = None
    BY DEF MissionInit, StoreInit
  <2>2. \A u \in UAVs : uav[u].assigned = None
    BY DEF MissionInit, StoreInit, Fresh
  <2> QED
    BY <2>1, <2>2 DEF OwnedIsHeld, WorkerFit
<1>4. BatchFits
  BY DEF MissionInit, StoreInit, BatchFits, Fits
<1> QED
  BY <1>1, <1>2, <1>3, <1>4 DEF MissionInv

\* Every step of a tick keeps the invariant, and is a step of the store.
LEMMA MissionNextInv ==
  ASSUME MissionInv, [MissionNext]_vars
  PROVE  MissionInv' /\ [StoreNext]_storeVars
<1>1. CASE UNCHANGED vars
  BY <1>1 DEF vars, loopVars, storeVars, MissionInv, StoreInv, StoreTypeOK,
              HeldIsOwned, OwnerMatchesStatus, LoopTypeOK, OwnedIsHeld,
              WorkerFit, BatchFits, Fits
<1>2. CASE ApplyCommand
  BY <1>2, ApplyAdvances DEF StoreNext
<1>3. CASE OtherPhase
  BY <1>3, EventsStep, DiscoveryStep, TriggersStep, AllocateStep, SkipStep,
     ServeStep, ClearStep, AllDoneStep, FlyStep, LifecycleStep, TickEndStep
  DEF OtherPhase, StoreNext
<1>4. CASE Depart
  BY <1>4, DepartStep DEF StoreNext
<1> QED
  BY <1>1, <1>2, <1>3, <1>4 DEF MissionNext

\* For any fleet and any options of the runner, the variables of the loop stay
\* in their domains and every batch consists of well-formed commands.
THEOREM MissionTypeCorrect == MissionSpec => []MissionTypeOK
<1>1. MissionInv => MissionTypeOK
  BY DEF MissionInv, StoreInv, LoopTypeOK, MissionTypeOK
<1> QED
  BY MissionInitInv, MissionNextInv, <1>1, PTL DEF MissionSpec

\* Ownership under the tick loop, in both directions: a vehicle that holds a
\* task is its owner, and a task with an owner is held by it.
THEOREM MissionOwnership == MissionSpec => [](HeldIsOwned /\ OwnedIsHeld)
<1>1. MissionInv => HeldIsOwned /\ OwnedIsHeld
  BY DEF MissionInv, StoreInv
<1> QED
  BY MissionInitInv, MissionNextInv, <1>1, PTL DEF MissionSpec

\* Whatever fails and whenever it does, a vehicle that holds a task is active,
\* has not failed and is not on its way home, landing or charging.
THEOREM MissionWorkersFit == MissionSpec => []WorkerFit
<1>1. MissionInv => WorkerFit
  BY DEF MissionInv
<1> QED
  BY MissionInitInv, MissionNextInv, <1>1, PTL DEF MissionSpec

-----------------------------------------------------------------------------
(***************************************************************************)
(* What the phases of a tick may rely on: a batch computed from a snapshot *)
(* is still legal when apply comes to it, a vehicle that has landed stays  *)
(* on its pad until it is charged, a low battery is called home in the     *)
(* tick that notices it, and run() stops with everybody down.              *)
(*                                                                         *)
(* None of the four is inductive.  What has to be added is what the        *)
(* commands still in the batch need (BatchReady): which commands a phase   *)
(* sends, that it sends one of a kind to a vehicle, and which part of the  *)
(* snapshot each of them depends on.                                       *)
(***************************************************************************)

\* the commands in a batch, by the phase that waits for it
Sent(next) == {type \in CommandTypes :
  \/ next = "discover"  /\ type \in {"FailUAV", "RecoverUAV"}
  \/ next = "rth"       /\ type = "DiscoverTask"
  \/ next = "allocate"  /\ type = "StartRTH"
  \/ next = "serve"     /\ type = "AssignTask"
  \/ next = "clear"     /\ type = "ProgressTask"
  \/ next = "allDone"   /\ type \in {"ReleaseRelayRole", "SetTargetPosition"}
  \/ next = "depart"    /\ type = "StartRTH"
  \/ next = "fly"       /\ type = "SetTargetPosition"
  \/ next = "lifecycle" /\ type = "StepPhysics"
  \/ next = "assess"    /\ type \in {"BeginLanding", "CompleteRTH",
                                      "CompleteRecharge", "SetTargetPosition",
                                      "StartRecharge", "StepPhysics"}}

\* where a vehicle that was not called home may be sent
Bound == Tasks \union {None, "corridor"}

\* what a command needs of the record r of its vehicle ...
VehicleReady(c, r, next) ==
  /\ c.type = "AssignTask" =>
       r.active /\ r.rth = "NONE" /\ ~r.failed /\ r.sortie \notin Grounded
  /\ c.type = "CompleteRTH" => r.rth = "ACTIVE" /\ r.place = "pad"
  /\ c.type = "StartRecharge" => r.sortie = "LANDED"
  /\ c.type = "CompleteRecharge" => r.sortie = "RECHARGING"
  /\ c.type = "SetTargetPosition" =>
       c.target \in IF r.rth = "NONE" THEN Bound ELSE {None, "pad"}
  /\ c.type = "StepPhysics" =>
       c.place = "pad" \/ (next = "lifecycle" /\ r.rth # "COMPLETE")

\* ... and of its task
TaskReady(c) ==
  /\ c.type = "AssignTask" => /\ c.task \in Tasks
                              /\ task[c.task].status \in {"PENDING", "DEFERRED"}
                              /\ task[c.task].owner = None
  /\ c.type = "ProgressTask" => c.task \in Tasks /\ task[c.task].owner = c.uav

Ready(c, next) ==
  /\ c.type \in Sent(next)
  /\ ~c.stale
  /\ c.type # "DiscoverTask" =>
       c.uav \in UAVs /\ VehicleReady(c, uav[c.uav], next)
  /\ TaskReady(c)

\* two commands of a kind never go to one vehicle, two assignments never to one
\* task (several tasks may be discovered by one vehicle)
Distinct(batch) ==
  \A c, d \in batch :
    /\ c.type = d.type /\ c.type # "DiscoverTask"
    /\ c.uav = d.uav \/ (c.type = "AssignTask" /\ c.task = d.task)
    => c = d

\* who is sent to the pad is not one whose charge is complete
Apart(batch) ==
  \A c, d \in batch :
    c.type = "SetTargetPosition" /\ d.type = "CompleteRecharge" => c.uav # d.uav

AllReady(batch, next) == /\ \A c \in batch : Ready(c, next)
                         /\ Distinct(batch) /\ Apart(batch)

BatchReady == AllReady(inbox, phase)

\* A vehicle that landed, or charges, is on its pad and has nowhere to go; only
\* one that was called home is on its way to the pad.
Docks(r) == /\ r.sortie \in {"LANDED", "RECHARGING"} => r.rth = "COMPLETE"
            /\ r.rth = "COMPLETE" => r.place = "pad" /\ r.target \in {None, "pad"}
            /\ r.rth = "NONE" => r.target \in Bound

Docked == \A u \in UAVs : Docks(uav[u])

\* No phase gives a task up for good.
NoneUnreachable == \A t \in Tasks : task[t].status # "UNREACHABLE"

\* LowReturns, with the calls that are still in the batch.
LowCalled == ~SingleSortie /\ phase = "allocate" => \A u \in UAVs :
  /\ uav[u].active /\ ~uav[u].failed /\ uav[u].low
  /\ uav[u].place \notin Staging /\ uav[u].rth = "NONE"
  => Cmd("StartRTH", u) \in inbox

\* EndsAtHome, where nothing more is to happen.
DoneAtHome == EndsAtHome /\ (phase = "done" => inbox = {})

SafetyInv == /\ MissionInv
             /\ BatchReady
             /\ Docked
             /\ NoneUnreachable
             /\ LowCalled
             /\ DoneAtHome

(***************************************************************************)
(* What the branches of apply do to the fields the parts above read.       *)
(***************************************************************************)

\* Flight state of a vehicle: where it is, where it goes, and in which state.
SameFlight(r, s) == /\ s.sortie = r.sortie /\ s.rth = r.rth
                    /\ s.place = r.place /\ s.target = r.target

LEMMA FlightFields ==
  ASSUME NEW r \in UAVState
  PROVE  /\ \A t \in Tasks : /\ Tasked(r, t).sortie = "ACTIVE"
                             /\ Tasked(r, t).rth = r.rth
                             /\ Tasked(r, t).target = t
                             /\ Tasked(r, t).place = r.place
         /\ \A role \in Roles : SameFlight(r, [r EXCEPT !.role = role])
         /\ \A goal \in Targets :
              /\ [r EXCEPT !.target = goal].sortie = r.sortie
              /\ [r EXCEPT !.target = goal].rth = r.rth
              /\ [r EXCEPT !.target = goal].place = r.place
              /\ [r EXCEPT !.target = goal].target = goal
         /\ \A c \in Command : /\ Stepped(r, c).sortie = r.sortie
                               /\ Stepped(r, c).rth = r.rth
                               /\ Stepped(r, c).target = r.target
                               /\ Stepped(r, c).place = c.place
         /\ /\ Returning(r).sortie = "RTH" /\ Returning(r).rth = "ACTIVE"
            /\ Returning(r).place = r.place
         /\ /\ Landing(r).sortie \in {r.sortie, "LANDING"}
            /\ r.sortie \in {"LANDED", "RECHARGING"} =>
                 Landing(r).sortie = r.sortie
            /\ Landing(r).rth = r.rth /\ Landing(r).place = r.place
            /\ Landing(r).target = r.target
         /\ /\ Landed(r).sortie = "LANDED" /\ Landed(r).rth = "COMPLETE"
            /\ Landed(r).place = "pad" /\ Landed(r).target = None
         /\ /\ Recharging(r).sortie = "RECHARGING" /\ Recharging(r).rth = r.rth
            /\ Recharging(r).place = r.place /\ Recharging(r).target = r.target
         /\ /\ Recharged(r).sortie = "READY" /\ Recharged(r).rth = "NONE"
            /\ Recharged(r).target = None /\ Recharged(r).place = r.place
         /\ /\ Failed(r).sortie = r.sortie /\ Failed(r).rth = r.rth
            /\ Failed(r).place = r.place /\ Failed(r).target \in {r.target, None}
         /\ SameFlight(r, Recovered(r))
         /\ SameFlight(r, Finished(r))
<1> USE DEF UAVState
<1>1. \A t \in Tasks : /\ Tasked(r, t).sortie = "ACTIVE"
                       /\ Tasked(r, t).rth = r.rth
                       /\ Tasked(r, t).target = t
                       /\ Tasked(r, t).place = r.place
  BY DEF Tasked
<1>2. /\ \A role \in Roles : SameFlight(r, [r EXCEPT !.role = role])
      /\ SameFlight(r, Recovered(r)) /\ SameFlight(r, Finished(r))
  BY DEF SameFlight, Recovered, Finished
<1>3. \A goal \in Targets :
        /\ [r EXCEPT !.target = goal].sortie = r.sortie
        /\ [r EXCEPT !.target = goal].rth = r.rth
        /\ [r EXCEPT !.target = goal].place = r.place
        /\ [r EXCEPT !.target = goal].target = goal
  OBVIOUS
<1>4. \A c \in Command : /\ Stepped(r, c).sortie = r.sortie
                         /\ Stepped(r, c).rth = r.rth
                         /\ Stepped(r, c).target = r.target
                         /\ Stepped(r, c).place = c.place
  BY DEF Stepped
<1>5. /\ Returning(r).sortie = "RTH" /\ Returning(r).rth = "ACTIVE"
      /\ Returning(r).place = r.place
  BY DEF Returning
<1>6. /\ Landing(r).sortie \in {r.sortie, "LANDING"}
      /\ r.sortie \in {"LANDED", "RECHARGING"} => Landing(r).sortie = r.sortie
      /\ Landing(r).rth = r.rth /\ Landing(r).place = r.place
      /\ Landing(r).target = r.target
  BY DEF Landing
<1>7. /\ Landed(r).sortie = "LANDED" /\ Landed(r).rth = "COMPLETE"
      /\ Landed(r).place = "pad" /\ Landed(r).target = None
  BY DEF Landed
<1>8. /\ Recharging(r).sortie = "RECHARGING" /\ Recharging(r).rth = r.rth
      /\ Recharging(r).place = r.place /\ Recharging(r).target = r.target
  BY DEF Recharging
<1>9. /\ Recharged(r).sortie = "READY" /\ Recharged(r).rth = "NONE"
      /\ Recharged(r).target = None /\ Recharged(r).place = r.place
  BY DEF Recharged
<1>10. /\ Failed(r).sortie = r.sortie /\ Failed(r).rth = r.rth
       /\ Failed(r).place = r.place /\ Failed(r).target \in {r.target, None}
  BY DEF Failed
<1> QED
  BY <1>1, <1>2, <1>3, <1>4, <1>5, <1>6, <1>7, <1>8, <1>9, <1>10

\* Commands of one batch come from one phase.
LEMMA BatchMates ==
  ASSUME BatchReady, NEW c \in inbox, NEW d \in inbox
  PROVE  /\ c.type \in Sent(phase) /\ d.type \in Sent(phase)
         /\ \A type \in {"AssignTask", "ProgressTask", "DiscoverTask",
                         "StartRTH"} : c.type = type => d.type = type
         /\ c.type \in {"FailUAV", "RecoverUAV"} =>
              d.type \in {"FailUAV", "RecoverUAV"}
         /\ c.type = "ReleaseRelayRole" =>
              d.type \in {"ReleaseRelayRole", "SetTargetPosition"}
         /\ c.type \in {"BeginLanding", "CompleteRTH", "CompleteRecharge",
                        "StartRecharge"} =>
              /\ phase = "assess"
              /\ d.type \in {"BeginLanding", "CompleteRTH", "CompleteRecharge",
                             "SetTargetPosition", "StartRecharge", "StepPhysics"}
         /\ c.type = "SetTargetPosition" =>
              d.type \in {"BeginLanding", "CompleteRTH", "CompleteRecharge",
                          "SetTargetPosition", "StartRecharge", "StepPhysics",
                          "ReleaseRelayRole"}
         /\ c.type = "StepPhysics" =>
              \/ phase = "lifecycle" /\ d.type = "StepPhysics"
              \/ /\ phase = "assess"
                 /\ d.type \in {"BeginLanding", "CompleteRTH",
                                "CompleteRecharge", "SetTargetPosition",
                                "StartRecharge", "StepPhysics"}
<1>1. c.type \in Sent(phase) /\ d.type \in Sent(phase)
  BY DEF BatchReady, AllReady, Ready
<1> QED
  BY <1>1 DEF Sent

(***************************************************************************)
(* One iteration of apply.                                                 *)
(***************************************************************************)

\* the part of SafetyInv that one iteration of apply can disturb
Settled == BatchReady' /\ Docked' /\ NoneUnreachable'

\* A command that writes the record of its own vehicle only.  The commands left
\* for that vehicle must be ready for the new record s, the tasks of all others
\* must be as they were.
LEMMA RecordStep ==
  ASSUME SafetyInv, NEW c \in inbox, inbox' = inbox \ {c}, phase' = phase,
         c.uav \in UAVs, NEW s \in UAVState, uav' = [uav EXCEPT ![c.uav] = s],
         Docks(s),
         \A d \in inbox \ {c} : d.type # "DiscoverTask" /\ d.uav = c.uav =>
           VehicleReady(d, s, phase),
         \A d \in inbox \ {c} : TaskReady(d)',
         NoneUnreachable'
  PROVE  Settled
<1>1. uav \in [UAVs -> UAVState]
  BY DEF SafetyInv, MissionInv, StoreInv, StoreTypeOK
<1>2. \A v \in UAVs : uav'[v] = IF v = c.uav THEN s ELSE uav[v]
  BY <1>1
<1>3. Docked'
  BY <1>2 DEF SafetyInv, Docked
<1>4. BatchReady'
  <2>1. \A d \in inbox' : Ready(d, phase)'
    <3> SUFFICES ASSUME NEW d \in inbox \ {c}
                 PROVE  Ready(d, phase)'
      OBVIOUS
    <3>1. Ready(d, phase)
      BY DEF SafetyInv, BatchReady, AllReady
    <3>2. d.type # "DiscoverTask" =>
            d.uav \in UAVs /\ VehicleReady(d, uav'[d.uav], phase)
      BY <3>1, <1>2 DEF Ready
    <3> QED
      BY <3>1, <3>2 DEF Ready
  <2>2. Distinct(inbox') /\ Apart(inbox')
    BY DEF SafetyInv, BatchReady, AllReady, Distinct, Apart
  <2> QED
    BY <2>1, <2>2 DEF BatchReady, AllReady
<1> QED
  BY <1>3, <1>4 DEF Settled

\* The tasks other assignments or services of a batch wait for are not touched.
LEMMA OtherTasks ==
  ASSUME SafetyInv, NEW c \in inbox, NEW d \in inbox \ {c},
         \/ task' = task
         \/ c.type \notin {"AssignTask", "ProgressTask"}
         \/ \E k : task' = [task EXCEPT ![c.task] = k]
  PROVE  TaskReady(d)'
<1>1. Ready(c, phase) /\ Ready(d, phase)
  BY DEF SafetyInv, BatchReady, AllReady
<1>2. CASE task' = task
  BY <1>1, <1>2 DEF Ready, TaskReady
<1>3. CASE c.type \notin {"AssignTask", "ProgressTask"}
  <2>1. d.type \notin {"AssignTask", "ProgressTask"}
    BY <1>3, BatchMates DEF SafetyInv
  <2> QED
    BY <2>1 DEF TaskReady
<1>4. CASE /\ c.type \in {"AssignTask", "ProgressTask"}
           /\ \E k : task' = [task EXCEPT ![c.task] = k]
  <2>1. d.type = c.type /\ d.uav # c.uav
    BY <1>4, BatchMates DEF SafetyInv, BatchReady, AllReady, Distinct
  <2>2. c.task # d.task
    BY <1>1, <1>4, <2>1
    DEF Ready, TaskReady, SafetyInv, BatchReady, AllReady, Distinct
  <2>3. d.task \in Tasks /\ task'[d.task] = task[d.task]
    BY <1>1, <1>4, <2>1, <2>2
    DEF Ready, TaskReady, SafetyInv, MissionInv, StoreInv, StoreTypeOK
  <2> QED
    BY <1>1, <2>1, <2>3 DEF Ready, TaskReady
<1> QED
  BY <1>2, <1>3, <1>4

\* What is ready is accepted.
LEMMA ReadyAccepted ==
  ASSUME MissionInv, NEW c \in inbox, Ready(c, phase),
         c.type \notin {"ReleaseRelayRole", "FailUAV", "RecoverUAV"}
  PROVE  Accepts(c)
<1>1. c.type \in Emitted
  BY DEF MissionInv, BatchFits, Fits
<1> QED
  BY <1>1 DEF Ready, VehicleReady, TaskReady, Accepts, Emitted, CanAssign,
     Available, Owns, CanCompleteRTH, CanStartRecharge, CanCompleteRecharge

\* Giving a task back leaves it open.
LEMMA DropKeepsOpen ==
  ASSUME SafetyInv, NEW u \in UAVs, DropHeld(u)
  PROVE  NoneUnreachable'
<1>1. task \in [Tasks -> TaskState] /\ uav[u] \in UAVState
  BY DEF SafetyInv, MissionInv, StoreInv, StoreTypeOK
<1>2. CASE uav[u].assigned = None
  BY <1>2 DEF DropHeld, SafetyInv, NoneUnreachable
<1>3. CASE uav[u].assigned # None
  <2> DEFINE h == uav[u].assigned
             k == Deferred(task[h])
  <2>1. h \in Tasks /\ k.status = "DEFERRED"
    BY <1>1, <1>3, TaskRecords DEF UAVState
  <2>2. task' = [task EXCEPT ![h] = k]
    BY <1>3 DEF DropHeld
  <2> HIDE DEF h, k
  <2> QED
    BY <1>1, <2>1, <2>2 DEF SafetyInv, NoneUnreachable
<1> QED
  BY <1>2, <1>3

LEMMA HandleSettles ==
  ASSUME SafetyInv, NEW c \in inbox, inbox' = inbox \ {c}, phase' = phase,
         Handle(c)
  PROVE  Settled
<1>1. uav \in [UAVs -> UAVState] /\ task \in [Tasks -> TaskState]
  BY DEF SafetyInv, MissionInv, StoreInv, StoreTypeOK
<1>2. /\ c \in Command /\ c.type \in Emitted /\ Ready(c, phase)
      /\ c.target \in Targets /\ c.next \in Roles
  BY DEF SafetyInv, MissionInv, StoreInv, StoreTypeOK, BatchFits, Fits,
         BatchReady, AllReady, Command
<1>3. ASSUME uav' = uav, \A d \in inbox \ {c} : TaskReady(d)',
             NoneUnreachable'
      PROVE  Settled
  BY <1>3 DEF SafetyInv, BatchReady, AllReady, Distinct, Apart, Ready, Docked,
              Settled
<1>4. CASE ~Accepts(c) /\ Reject(c)
  <2>1. ~MarksOpenTask(c)
    BY <1>2 DEF MarksOpenTask, Emitted
  <2>2. task' = task /\ uav' = uav
    BY <1>4, <2>1 DEF Reject
  <2> QED
    BY <1>3, <2>2, OtherTasks DEF SafetyInv, NoneUnreachable
<1>5. CASE Accepts(c) /\ Apply(c)
  <2> DEFINE u == c.uav
             r == uav[u]
             Left(s) == \A d \in inbox \ {c} :
                          d.type # "DiscoverTask" /\ d.uav = u =>
                            VehicleReady(d, s, phase)
  <2>1. c.type # "DiscoverTask" => /\ u \in UAVs /\ r \in UAVState /\ Docks(r)
                                   /\ VehicleReady(c, r, phase)
    BY <1>1, <1>2 DEF Ready, SafetyInv, Docked
  <2>2. \A d \in inbox \ {c} : d.type # "DiscoverTask" /\ d.uav = u =>
          VehicleReady(d, r, phase) /\ d.type # c.type
    BY DEF SafetyInv, BatchReady, AllReady, Ready, Distinct
  <2> HIDE DEF u, r
  <2>3. ASSUME u \in UAVs, NEW s \in UAVState, uav' = [uav EXCEPT ![u] = s],
               Docks(s), Left(s), NoneUnreachable',
               \/ task' = task
               \/ c.type \notin {"AssignTask", "ProgressTask"}
               \/ \E k : task' = [task EXCEPT ![c.task] = k]
        PROVE  Settled
    BY <2>3, RecordStep, OtherTasks DEF u
  <2>4. CASE AssignTask(c)
    <3> DEFINE s == Tasked(r, c.task)
               k == Taken(task[c.task], u)
    <3>1. c.task \in Tasks /\ u \in UAVs /\ r.rth = "NONE"
      BY <1>2, <2>1, <2>4 DEF AssignTask, Ready, TaskReady, VehicleReady
    <3>2. s \in UAVState /\ Docks(s) /\ k.status = "ASSIGNED"
      <4>1. r \in UAVState /\ task[c.task] \in TaskState
        BY <1>1, <3>1, <2>1, <2>4 DEF AssignTask
      <4>2. s \in UAVState
        BY <4>1, <3>1, UAVRecords
      <4>3. s.sortie = "ACTIVE" /\ s.rth = "NONE" /\ s.target = c.task
        BY <4>1, <3>1, FlightFields
      <4>4. k.status = "ASSIGNED"
        BY <4>1, <3>1, TaskRecords
      <4> QED
        BY <3>1, <4>2, <4>3, <4>4 DEF Docks, Bound
    <3>3. uav' = [uav EXCEPT ![u] = s] /\ task' = [task EXCEPT ![c.task] = k]
      BY <2>4 DEF AssignTask, u, r
    <3>4. Left(s)
      BY <2>2, <2>4, BatchMates DEF AssignTask, SafetyInv
    <3> HIDE DEF s, k
    <3>5. NoneUnreachable'
      BY <1>1, <3>1, <3>2, <3>3 DEF SafetyInv, NoneUnreachable
    <3> QED
      BY <3>1, <3>2, <3>3, <3>4, <3>5, <2>3
  <2>5. CASE ProgressTask(c)
    <3> DEFINE s == Finished(r)
               k == Served(task[c.task])
    <3>1. c.task \in Tasks /\ u \in UAVs
      BY <1>2, <2>1, <2>5 DEF ProgressTask, Ready, TaskReady
    <3>2. /\ s \in UAVState /\ Docks(s) /\ SameFlight(r, s)
          /\ k.status \in {"COMPLETE", "IN_PROGRESS"}
      <4>1. r \in UAVState /\ Docks(r) /\ task[c.task] \in TaskState
        BY <1>1, <3>1, <2>1, <2>5 DEF ProgressTask
      <4>2. s \in UAVState /\ SameFlight(r, s)
        BY <4>1, UAVRecords, FlightFields
      <4>3. k.status \in {"COMPLETE", "IN_PROGRESS"}
        BY <4>1, TaskRecords
      <4> QED
        BY <4>1, <4>2, <4>3 DEF Docks, SameFlight
    <3>3. /\ uav' = [uav EXCEPT ![u] = s] \/ uav' = uav
          /\ task' = [task EXCEPT ![c.task] = k]
      BY <2>5 DEF ProgressTask, u, r
    <3>4. Left(s)
      BY <2>5, BatchMates DEF ProgressTask, SafetyInv, VehicleReady
    <3> HIDE DEF s, k
    <3>5. NoneUnreachable'
      BY <1>1, <3>1, <3>2, <3>3 DEF SafetyInv, NoneUnreachable
    <3> QED
      BY <3>1, <3>2, <3>3, <3>4, <3>5, <2>3, <1>3, OtherTasks
  <2>6. CASE DiscoverTask(c)
    <3>1. uav' = uav /\ c.type \notin {"AssignTask", "ProgressTask"}
      BY <2>6 DEF DiscoverTask
    <3>2. NoneUnreachable'
      <4>1. CASE c.task = None
        BY <2>6, <4>1 DEF DiscoverTask, SafetyInv, NoneUnreachable
      <4>2. CASE c.task \in Tasks
        <5> DEFINE k == Discovered(task[c.task])
        <5>1. k = task[c.task] \/ k.status = "PENDING"
          BY <1>1, <4>2, TaskRecords
        <5>2. task' = [task EXCEPT ![c.task] = k]
          BY <2>6, <4>2, NoneAssumption DEF DiscoverTask
        <5> HIDE DEF k
        <5> QED
          BY <1>1, <4>2, <5>1, <5>2 DEF SafetyInv, NoneUnreachable
      <4> QED
        BY <1>2, <4>1, <4>2 DEF Command
    <3> QED
      BY <3>1, <3>2, <1>3, OtherTasks
  <2>7. CASE StartRTH(c)
    <3> DEFINE s == Returning(r)
    <3>1. u \in UAVs /\ s \in UAVState /\ Docks(s)
      BY <2>1, <2>7, UAVRecords, FlightFields DEF StartRTH, Docks
    <3>2. uav' = [uav EXCEPT ![u] = s] /\ DropHeld(u)
      BY <2>7 DEF StartRTH, u, r
    <3>3. Left(s)
      BY <2>7, BatchMates DEF StartRTH, SafetyInv, VehicleReady
    <3> HIDE DEF s
    <3> QED
      BY <3>1, <3>2, <3>3, <2>3, <2>7, DropKeepsOpen DEF StartRTH
  <2>8. CASE FailUAV(c)
    <3> DEFINE s == Failed(r)
    <3>1. u \in UAVs /\ s \in UAVState /\ Docks(s)
      <4>1. u \in UAVs /\ r \in UAVState /\ Docks(r)
        BY <2>1, <2>8 DEF FailUAV
      <4>2. /\ s \in UAVState /\ s.sortie = r.sortie /\ s.rth = r.rth
            /\ s.place = r.place /\ s.target \in {r.target, None}
        BY <4>1, UAVRecords, FlightFields
      <4> HIDE DEF s
      <4> QED
        BY <4>1, <4>2 DEF Docks, Bound
    <3>2. uav' = [uav EXCEPT ![u] = s] /\ DropHeld(u)
      BY <2>8 DEF FailUAV, u, r
    <3>3. Left(s)
      BY <2>8, BatchMates DEF FailUAV, SafetyInv, VehicleReady
    <3> HIDE DEF s
    <3> QED
      BY <3>1, <3>2, <3>3, <2>3, <2>8, DropKeepsOpen DEF FailUAV
  <2>9. ASSUME task' = task, u \in UAVs, NEW s \in UAVState,
               uav' = [uav EXCEPT ![u] = s], Docks(s), Left(s)
        PROVE  Settled
    <3>1. NoneUnreachable'
      BY <2>9 DEF SafetyInv, NoneUnreachable
    <3> QED
      BY <2>3, <2>9, <3>1
  <2>10. CASE RecoverUAV(c)
    <3> DEFINE s == Recovered(r)
    <3>1. u \in UAVs /\ s \in UAVState /\ Docks(s)
      BY <2>1, <2>10, UAVRecords, FlightFields DEF RecoverUAV, Docks, SameFlight
    <3>2. uav' = [uav EXCEPT ![u] = s] /\ task' = task
      BY <2>10 DEF RecoverUAV, u, r
    <3>3. Left(s)
      BY <2>10, BatchMates DEF RecoverUAV, SafetyInv, VehicleReady
    <3> HIDE DEF s
    <3> QED
      BY <3>1, <3>2, <3>3, <2>9
  <2>11. CASE BeginLanding(c)
    <3> DEFINE s == Landing(r)
    <3>1. u \in UAVs /\ s \in UAVState /\ Docks(s)
      BY <2>1, <2>11, UAVRecords, FlightFields DEF BeginLanding, Docks
    <3>2. uav' = [uav EXCEPT ![u] = s] /\ task' = task
      BY <2>11 DEF BeginLanding, u, r
    <3>3. Left(s)
      BY <2>1, <2>2, <2>11, BatchMates, FlightFields
      DEF BeginLanding, SafetyInv, VehicleReady
    <3> HIDE DEF s
    <3> QED
      BY <3>1, <3>2, <3>3, <2>9
  <2>12. CASE CompleteRTH(c)
    <3> DEFINE s == Landed(r)
    <3>1. u \in UAVs /\ s \in UAVState /\ Docks(s)
      BY <2>1, <2>12, UAVRecords, FlightFields DEF CompleteRTH, Docks
    <3>2. uav' = [uav EXCEPT ![u] = s] /\ task' = task
      BY <2>12 DEF CompleteRTH, u, r
    <3>3. r.rth = "ACTIVE" /\ r.sortie \notin {"LANDED", "RECHARGING"}
      BY <2>1, <2>12 DEF CompleteRTH, VehicleReady, Docks
    <3>4. Left(s)
      BY <2>1, <2>2, <2>12, <3>3, BatchMates, FlightFields
      DEF CompleteRTH, SafetyInv, VehicleReady
    <3> HIDE DEF s
    <3> QED
      BY <3>1, <3>2, <3>4, <2>9
  <2>13. CASE StartRecharge(c)
    <3> DEFINE s == Recharging(r)
    <3>1. u \in UAVs /\ r.sortie = "LANDED" /\ s \in UAVState /\ Docks(s)
      BY <2>1, <2>13, UAVRecords, FlightFields
      DEF StartRecharge, VehicleReady, Docks
    <3>2. uav' = [uav EXCEPT ![u] = s] /\ task' = task
      BY <2>13 DEF StartRecharge, u, r
    <3>3. Left(s)
      BY <2>1, <2>2, <2>13, <3>1, BatchMates, FlightFields
      DEF StartRecharge, SafetyInv, VehicleReady
    <3> HIDE DEF s
    <3> QED
      BY <3>1, <3>2, <3>3, <2>9
  <2>14. CASE CompleteRecharge(c)
    <3> DEFINE s == Recharged(r)
    <3>1. /\ u \in UAVs /\ s \in UAVState /\ Docks(s)
          /\ r.sortie = "RECHARGING" /\ r.rth = "COMPLETE"
      BY <2>1, <2>14, UAVRecords, FlightFields
      DEF CompleteRecharge, VehicleReady, Docks, Bound
    <3>2. uav' = [uav EXCEPT ![u] = s] /\ task' = task
      BY <2>14 DEF CompleteRecharge, u, r
    <3>3. \A d \in inbox : d.type = "SetTargetPosition" => d.uav # u
      BY <2>14
      DEF CompleteRecharge, SafetyInv, BatchReady, AllReady, Apart, u
    <3>4. Left(s)
      BY <2>1, <2>2, <2>14, <3>1, <3>3, BatchMates, FlightFields
      DEF CompleteRecharge, SafetyInv, VehicleReady
    <3> HIDE DEF s
    <3> QED
      BY <3>1, <3>2, <3>4, <2>9
  <2>15. CASE ReleaseRelayRole(c)
    <3> DEFINE s == [r EXCEPT !.role = c.next]
    <3>1. /\ u \in UAVs /\ s \in UAVState /\ Docks(s) /\ SameFlight(r, s)
      <4>1. u \in UAVs /\ r \in UAVState /\ Docks(r)
        BY <2>1, <2>15 DEF ReleaseRelayRole
      <4>2. s \in UAVState /\ SameFlight(r, s)
        BY <1>2, <4>1, UAVRecords, FlightFields
      <4> HIDE DEF s
      <4> QED
        BY <4>1, <4>2 DEF Docks, SameFlight
    <3>2. uav' = [uav EXCEPT ![u] = s] /\ task' = task
      BY <2>15 DEF ReleaseRelayRole, u, r
    <3> HIDE DEF s
    <3>3. Left(s)
      BY <2>2, <2>15, <3>1, BatchMates
      DEF ReleaseRelayRole, SafetyInv, VehicleReady, SameFlight
    <3> QED
      BY <3>1, <3>2, <3>3, <2>9
  <2>16. CASE SetTargetPosition(c)
    <3> DEFINE s == [r EXCEPT !.target = c.target]
    <3>1. /\ u \in UAVs /\ s \in UAVState /\ Docks(s)
          /\ s.sortie = r.sortie /\ s.rth = r.rth /\ s.place = r.place
      <4>1. u \in UAVs /\ r \in UAVState /\ Docks(r)
        BY <2>1, <2>16 DEF SetTargetPosition
      <4>2. s \in UAVState
        BY <1>2, <4>1, UAVRecords
      <4>3. /\ s.sortie = r.sortie /\ s.rth = r.rth /\ s.place = r.place
            /\ s.target = c.target
        BY <1>2, <4>1, FlightFields
      <4>4. c.target \in IF r.rth = "NONE" THEN Bound ELSE {None, "pad"}
        BY <2>1, <2>16 DEF SetTargetPosition, VehicleReady
      <4> HIDE DEF s
      <4> QED
        BY <4>1, <4>2, <4>3, <4>4 DEF Docks
    <3>2. uav' = [uav EXCEPT ![u] = s] /\ task' = task
      BY <2>16 DEF SetTargetPosition, u, r
    <3> HIDE DEF s
    <3>3. Left(s)
      BY <2>2, <2>16, <3>1, BatchMates
      DEF SetTargetPosition, SafetyInv, VehicleReady
    <3> QED
      BY <3>1, <3>2, <3>3, <2>9
  <2>17. CASE StepPhysics(c)
    <3> DEFINE s == Stepped(r, c)
    <3>1. /\ u \in UAVs /\ s \in UAVState /\ Docks(s)
          /\ s.sortie = r.sortie /\ s.rth = r.rth /\ s.place = c.place
      <4>1. u \in UAVs /\ r \in UAVState /\ Docks(r)
        BY <2>1, <2>17 DEF StepPhysics
      <4>2. s \in UAVState
        BY <1>2, <4>1, UAVRecords
      <4>3. /\ s.sortie = r.sortie /\ s.rth = r.rth /\ s.place = c.place
            /\ s.target = r.target
        BY <1>2, <4>1, FlightFields
      <4>4. c.place = "pad" \/ r.rth # "COMPLETE"
        BY <2>1, <2>17 DEF StepPhysics, VehicleReady
      <4> HIDE DEF s
      <4> QED
        BY <4>1, <4>2, <4>3, <4>4 DEF Docks
    <3>2. uav' = [uav EXCEPT ![u] = s] /\ task' = task
      BY <2>17 DEF StepPhysics, u, r
    <3> HIDE DEF s
    <3>3. Left(s)
      BY <2>1, <2>2, <2>17, <3>1, BatchMates
      DEF StepPhysics, SafetyInv, VehicleReady
    <3> QED
      BY <3>1, <3>2, <3>3, <2>9
  <2>18. c.type \notin {"ReleaseTask", "MarkTaskUnreachable",
                        "AssignRelayRole", "HandoffRelay"}
    BY <1>2 DEF Emitted
  <2> QED
    BY <1>5, <2>4, <2>5, <2>6, <2>7, <2>8, <2>10, <2>11, <2>12, <2>13, <2>14,
       <2>15, <2>16, <2>17, <2>18
    DEF Apply, ReleaseTask, AlreadyClosed, AssignRelayRole, HandoffRelay
<1> QED
  BY <1>4, <1>5 DEF Handle

\* What a command c may write to the record r of its vehicle: only StepPhysics
\* moves it, only CompleteRTH lands it, and three commands change its return
\* state.
Written(c, r, s) ==
  /\ s.place # r.place => c.type = "StepPhysics" /\ s.place = c.place
  /\ s.sortie = "LANDED" => r.sortie = "LANDED" \/ c.type = "CompleteRTH"
  /\ \/ s.rth = r.rth
     \/ c.type = "StartRTH" /\ s.rth = "ACTIVE"
     \/ c.type = "CompleteRTH" /\ r.rth = "ACTIVE" /\ s.rth = "COMPLETE"
     \/ c.type = "CompleteRecharge" /\ r.rth = "COMPLETE" /\ s.rth = "NONE"

LEMMA HandleWrites ==
  ASSUME SafetyInv, NEW c \in inbox, Handle(c), NEW u \in UAVs,
         uav'[u] # uav[u]
  PROVE  c.uav = u /\ Written(c, uav[u], uav'[u])
<1> DEFINE r == uav[c.uav]
<1>1. uav \in [UAVs -> UAVState]
  BY DEF SafetyInv, MissionInv, StoreInv, StoreTypeOK
<1>2. /\ c \in Command /\ c.type \in Emitted
      /\ c.type # "DiscoverTask" =>
           c.uav \in UAVs /\ VehicleReady(c, uav[c.uav], phase)
      /\ c.target \in Targets /\ c.next \in Roles
  BY DEF SafetyInv, MissionInv, StoreInv, StoreTypeOK, BatchFits, Fits,
         BatchReady, AllReady, Ready, Command
<1>3. uav' # uav
  OBVIOUS
<1>4. Apply(c) /\ c.type # "DiscoverTask"
  BY <1>3 DEF Handle, Reject, Apply, AssignTask, ReleaseTask, ProgressTask,
     DiscoverTask, AlreadyClosed, AssignRelayRole, ReleaseRelayRole,
     HandoffRelay, StartRTH, BeginLanding, CompleteRTH, StartRecharge,
     CompleteRecharge, FailUAV, RecoverUAV, SetTargetPosition, StepPhysics
<1>5. /\ c.uav \in UAVs /\ r \in UAVState /\ Docks(r)
      /\ VehicleReady(c, r, phase)
  BY <1>1, <1>2, <1>4 DEF SafetyInv, Docked
<1>6. c.type \notin {"ReleaseTask", "MarkTaskUnreachable", "AssignRelayRole",
                     "HandoffRelay"}
  BY <1>2 DEF Emitted
<1> HIDE DEF r
<1>7. \E s : uav' = [uav EXCEPT ![c.uav] = s] /\ Written(c, r, s)
  <2>1. CASE AssignTask(c)
    <3>1. c.task \in Tasks
      BY <2>1 DEF AssignTask, SafetyInv, BatchReady, AllReady, Ready, TaskReady
    <3>2. Written(c, r, Tasked(r, c.task))
      BY <2>1, <3>1, <1>5, FlightFields DEF Written
    <3> QED
      BY <2>1, <3>2 DEF AssignTask, r
  <2>2. CASE ProgressTask(c)
    <3>1. uav' = [uav EXCEPT ![c.uav] = Finished(r)]
      BY <2>2, <1>3 DEF ProgressTask, r
    <3>2. Written(c, r, Finished(r))
      BY <1>5, FlightFields DEF Written, SameFlight
    <3> QED
      BY <3>1, <3>2
  <2>3. CASE StartRTH(c)
    <3>1. Written(c, r, Returning(r))
      BY <2>3, <1>5, FlightFields DEF StartRTH, Written
    <3> QED
      BY <2>3, <3>1 DEF StartRTH, r
  <2>4. CASE FailUAV(c)
    <3>1. Written(c, r, Failed(r))
      BY <1>5, FlightFields DEF Written
    <3> QED
      BY <2>4, <3>1 DEF FailUAV, r
  <2>5. CASE RecoverUAV(c)
    <3>1. Written(c, r, Recovered(r))
      BY <1>5, FlightFields DEF Written, SameFlight
    <3> QED
      BY <2>5, <3>1 DEF RecoverUAV, r
  <2>6. CASE BeginLanding(c)
    <3>1. Written(c, r, Landing(r))
      BY <1>5, FlightFields DEF Written
    <3> QED
      BY <2>6, <3>1 DEF BeginLanding, r
  <2>7. CASE CompleteRTH(c)
    <3>1. Written(c, r, Landed(r))
      BY <2>7, <1>5, FlightFields DEF CompleteRTH, VehicleReady, Written
    <3> QED
      BY <2>7, <3>1 DEF CompleteRTH, r
  <2>8. CASE StartRecharge(c)
    <3>1. Written(c, r, Recharging(r))
      BY <1>5, FlightFields DEF Written
    <3> QED
      BY <2>8, <3>1 DEF StartRecharge, r
  <2>9. CASE CompleteRecharge(c)
    <3>1. Written(c, r, Recharged(r))
      BY <2>9, <1>5, FlightFields
      DEF CompleteRecharge, VehicleReady, Docks, Written
    <3> QED
      BY <2>9, <3>1 DEF CompleteRecharge, r
  <2>10. CASE ReleaseRelayRole(c)
    <3>1. SameFlight(r, [r EXCEPT !.role = c.next])
      BY <1>2, <1>5, FlightFields
    <3>2. Written(c, r, [r EXCEPT !.role = c.next])
      BY <3>1 DEF Written, SameFlight
    <3> QED
      BY <2>10, <3>2 DEF ReleaseRelayRole, r
  <2>11. CASE SetTargetPosition(c)
    <3>1. Written(c, r, [r EXCEPT !.target = c.target])
      BY <1>2, <1>5, FlightFields DEF Written
    <3> QED
      BY <2>11, <3>1 DEF SetTargetPosition, r
  <2>12. CASE StepPhysics(c)
    <3>1. Written(c, r, Stepped(r, c))
      BY <2>12, <1>2, <1>5, FlightFields DEF StepPhysics, Written
    <3> QED
      BY <2>12, <3>1 DEF StepPhysics, r
  <2> QED
    BY <1>4, <1>6, <2>1, <2>2, <2>3, <2>4, <2>5, <2>6, <2>7, <2>8, <2>9,
       <2>10, <2>11, <2>12
    DEF Apply, ReleaseTask, AlreadyClosed, AssignRelayRole, HandoffRelay,
        DiscoverTask
<1>8. PICK s : uav' = [uav EXCEPT ![c.uav] = s] /\ Written(c, r, s)
  BY <1>7
<1>9. c.uav = u /\ uav'[u] = s
  BY <1>1, <1>8
<1> QED
  BY <1>8, <1>9 DEF r

LEMMA ApplySafe ==
  ASSUME SafetyInv, ApplyCommand
  PROVE  SafetyInv'
<1>1. PICK c \in inbox : inbox' = inbox \ {c} /\ Handle(c)
  BY DEF ApplyCommand
<1>2. phase' = phase
  BY DEF ApplyCommand
<1>3. MissionInv'
  BY ApplyAdvances DEF SafetyInv
<1>4. Settled
  BY <1>1, <1>2, HandleSettles
<1>5. LowCalled'
  <2> SUFFICES ASSUME ~SingleSortie, phase = "allocate", NEW u \in UAVs,
                      uav'[u].active, ~uav'[u].failed, uav'[u].low,
                      uav'[u].place \notin Staging, uav'[u].rth = "NONE"
               PROVE  Cmd("StartRTH", u) \in inbox'
    BY <1>2 DEF LowCalled
  <2>1. Ready(c, phase) /\ c.type = "StartRTH" /\ c.uav \in UAVs
    BY DEF SafetyInv, BatchReady, AllReady, Ready, Sent
  <2>2. uav' = [uav EXCEPT ![c.uav] = Returning(uav[c.uav])]
    <3>1. Accepts(c)
      BY <2>1, ReadyAccepted DEF SafetyInv
    <3> QED
      BY <1>1, <2>1, <3>1
      DEF Handle, Apply, AssignTask, ReleaseTask, ProgressTask, DiscoverTask,
          AlreadyClosed, AssignRelayRole, ReleaseRelayRole, HandoffRelay,
          StartRTH, BeginLanding, CompleteRTH, StartRecharge, CompleteRecharge,
          FailUAV, RecoverUAV, SetTargetPosition, StepPhysics
  <2>3. uav \in [UAVs -> UAVState]
    BY DEF SafetyInv, MissionInv, StoreInv, StoreTypeOK
  <2>4. u # c.uav
    <3> DEFINE s == Returning(uav[c.uav])
    <3>1. s.rth = "ACTIVE" /\ uav' = [uav EXCEPT ![c.uav] = s]
      BY <2>1, <2>2, <2>3, FlightFields
    <3> HIDE DEF s
    <3> QED
      BY <2>1, <2>3, <3>1
  <2>5. uav'[u] = uav[u]
    BY <2>2, <2>3, <2>4
  <2>6. Cmd("StartRTH", u) \in inbox
    BY <2>5 DEF SafetyInv, LowCalled
  <2>7. Cmd("StartRTH", u).uav = u
    BY CommandFields DEF Emitted
  <2> QED
    BY <1>1, <2>4, <2>6, <2>7
<1>6. DoneAtHome'
  BY <1>1, <1>2 DEF SafetyInv, DoneAtHome, EndsAtHome
<1> QED
  BY <1>3, <1>4, <1>5, <1>6 DEF Settled, SafetyInv

(***************************************************************************)
(* The phases.                                                             *)
(***************************************************************************)

\* A phase leaves the tables alone: what it has to show is that its commands are
\* ready, and what the next phase finds.
LEMMA PhaseSafe ==
  ASSUME SafetyInv, MissionInv', NEW batch, NEW next, Emit(batch, next),
         AllReady(batch, next), LowCalled', DoneAtHome'
  PROVE  SafetyInv'
<1>1. inbox' = batch /\ phase' = next /\ uav' = uav /\ task' = task
  BY DEF Emit
<1>2. BatchReady'
  BY <1>1 DEF BatchReady, AllReady, Ready, TaskReady
<1>3. Docked' /\ NoneUnreachable'
  BY <1>1 DEF SafetyInv, Docked, NoneUnreachable
<1> QED
  BY <1>2, <1>3 DEF SafetyInv

\* All but the return-to-home triggers and the end of a tick.
LEMMA PlainPhaseSafe ==
  ASSUME SafetyInv, MissionInv', NEW batch, NEW next, Emit(batch, next),
         AllReady(batch, next), next \notin {"allocate", "done"}
  PROVE  SafetyInv'
<1>1. LowCalled' /\ DoneAtHome'
  BY DEF Emit, LowCalled, DoneAtHome, EndsAtHome
<1> QED
  BY <1>1, PhaseSafe

\* Recharges end in one phase only.
LEMMA FarApart ==
  ASSUME NEW batch, NEW next, next # "assess", \A c \in batch : Ready(c, next)
  PROVE  Apart(batch)
BY DEF Apart, Ready, Sent

\* Commands with nothing but a type and a vehicle.
LEMMA PlainReady ==
  ASSUME NEW type \in Emitted \ {"AssignTask", "ProgressTask", "StepPhysics"},
         NEW u \in UAVs, NEW next, type \in Sent(next),
         type = "CompleteRTH" => uav[u].rth = "ACTIVE" /\ uav[u].place = "pad",
         type = "StartRecharge" => uav[u].sortie = "LANDED",
         type = "CompleteRecharge" => uav[u].sortie = "RECHARGING"
  PROVE  Ready(Cmd(type, u), next)
<1> DEFINE c == Cmd(type, u)
<1>1. /\ c.type = type /\ c.uav = u /\ c.stale = FALSE /\ c.target = None
  BY DEF Cmd
<1> HIDE DEF c
<1>2. VehicleReady(c, uav[u], next)
  BY <1>1 DEF VehicleReady, Bound
<1> QED
  BY <1>1, <1>2 DEF Ready, TaskReady, c

LEMMA EventsSafe ==
  ASSUME SafetyInv, ScheduledEvents, MissionInv'
  PROVE  SafetyInv'
<1>1. PICK failing, recovering \in SUBSET UAVs :
        Emit({Cmd("FailUAV", u) : u \in failing}
               \union {Cmd("RecoverUAV", u) : u \in recovering}, "discover")
  BY DEF ScheduledEvents
<1> DEFINE batch == {Cmd("FailUAV", u) : u \in failing}
                      \union {Cmd("RecoverUAV", u) : u \in recovering}
<1>2. \A c \in batch : \E u \in UAVs, type \in {"FailUAV", "RecoverUAV"} :
        c = Cmd(type, u)
  OBVIOUS
<1>3. Emit(batch, "discover")
  BY <1>1
<1> HIDE DEF batch
<1>4. \A c \in batch : Ready(c, "discover")
  BY <1>2, PlainReady DEF Emitted, Sent, CommandTypes, Rank
<1>5. Distinct(batch)
  BY <1>2, CommandFields DEF Emitted, Distinct
<1> QED
  BY <1>3, <1>4, <1>5, PlainPhaseSafe, FarApart DEF AllReady

LEMMA DiscoverySafe ==
  ASSUME SafetyInv, Discovery, MissionInv'
  PROVE  SafetyInv'
<1>1. PICK seen \in SUBSET {t \in Tasks : task[t].status = "HIDDEN"} :
      \E by \in [seen -> {u \in UAVs : CanDetect(u)}] :
        Emit({TaskCmd("DiscoverTask", by[t], t) : t \in seen}, "rth")
  BY DEF Discovery
<1>2. PICK by \in [seen -> {u \in UAVs : CanDetect(u)}] :
        Emit({TaskCmd("DiscoverTask", by[t], t) : t \in seen}, "rth")
  BY <1>1
<1> DEFINE batch == {TaskCmd("DiscoverTask", by[t], t) : t \in seen}
<1>3. \A c \in batch : c.type = "DiscoverTask" /\ ~c.stale
  BY DEF TaskCmd, Cmd
<1>4. Emit(batch, "rth")
  BY <1>2
<1> HIDE DEF batch
<1>5. AllReady(batch, "rth")
  BY <1>3 DEF AllReady, Ready, TaskReady, Distinct, Apart, Sent, CommandTypes, Rank
<1> QED
  BY <1>4, <1>5, PlainPhaseSafe

\* Whoever has to come back is airborne for the assessor: a landed record does
\* not stop a second takeoff when a vehicle flies more than one sortie.
LEMMA TriggersSafe ==
  ASSUME SafetyInv, RTHTriggers, MissionInv'
  PROVE  SafetyInv'
<1> DEFINE batch == {Cmd("StartRTH", u) : u \in {v \in UAVs : MustReturn(v)}}
<1>1. Emit(batch, "allocate") /\ Assess
  BY DEF RTHTriggers
<1>2. AllReady(batch, "allocate")
  <2>1. \A c \in batch : \E u \in UAVs : c = Cmd("StartRTH", u)
    OBVIOUS
  <2> HIDE DEF batch
  <2>2. \A c \in batch : Ready(c, "allocate")
    BY <2>1, PlainReady DEF Emitted, Sent, CommandTypes, Rank
  <2>3. Distinct(batch)
    BY <2>1, CommandFields DEF Emitted, Distinct
  <2> QED
    BY <2>2, <2>3, <2>1, CommandFields DEF AllReady, Apart, Emitted
<1>3. LowCalled'
  <2> SUFFICES ASSUME ~SingleSortie, NEW u \in UAVs,
                      uav[u].active, ~uav[u].failed, uav[u].low,
                      uav[u].place \notin Staging, uav[u].rth = "NONE"
               PROVE  Cmd("StartRTH", u) \in batch
    BY <1>1 DEF LowCalled, Emit
  <2>1. u \in InFlight
    BY DEF InFlight, TakesOff
  <2>2. ~TouchesDown(u)
    BY DEF TouchesDown, SafetyInv, Docked, Docks
  <2>3. u \in airborne'
    BY <1>1, <2>1, <2>2 DEF Assess
  <2> QED
    BY <2>3 DEF MustReturn
<1> HIDE DEF batch
<1>4. DoneAtHome'
  BY <1>1 DEF Emit, DoneAtHome, EndsAtHome
<1> QED
  BY <1>1, <1>2, <1>3, <1>4, PhaseSafe

LEMMA AllocateSafe ==
  ASSUME SafetyInv, Allocate, MissionInv'
  PROVE  SafetyInv'
<1>1. PICK us \in SUBSET {u \in UAVs : Eligible(u)} :
      \E m \in Matchings({t \in Tasks : Open(t) /\ t \notin expired}, us) :
        Emit({TaskCmd("AssignTask", m[t], t) : t \in DOMAIN m}, "serve")
  BY DEF Allocate
<1>2. PICK m \in Matchings({t \in Tasks : Open(t) /\ t \notin expired}, us) :
        Emit({TaskCmd("AssignTask", m[t], t) : t \in DOMAIN m}, "serve")
  BY <1>1
<1> DEFINE batch == {TaskCmd("AssignTask", m[t], t) : t \in DOMAIN m}
<1>3. /\ \A t \in DOMAIN m : t \in Tasks /\ Open(t)
                             /\ m[t] \in UAVs /\ Eligible(m[t])
      /\ \A s, t \in DOMAIN m : m[s] = m[t] => s = t
  BY DEF Matchings
<1>4. \A t \in DOMAIN m : /\ TaskCmd("AssignTask", m[t], t).type = "AssignTask"
                          /\ TaskCmd("AssignTask", m[t], t).uav = m[t]
                          /\ TaskCmd("AssignTask", m[t], t).task = t
                          /\ ~TaskCmd("AssignTask", m[t], t).stale
  BY DEF TaskCmd, Cmd
<1>5. \A c \in batch : /\ c.type = "AssignTask" /\ ~c.stale
                       /\ c.uav \in UAVs /\ Eligible(c.uav)
                       /\ c.task \in Tasks /\ Open(c.task)
  BY <1>3, <1>4
<1>6. Distinct(batch)
  <2>1. \A s, t \in DOMAIN m : m[s] = m[t] \/ s = t =>
          TaskCmd("AssignTask", m[s], s) = TaskCmd("AssignTask", m[t], t)
    BY <1>3
  <2> QED
    BY <1>4, <2>1 DEF Distinct
<1>7. \A t \in Tasks : Open(t) => task[t].owner = None
  BY DEF Open, SafetyInv, MissionInv, StoreInv, OwnerMatchesStatus
<1>8. Emit(batch, "serve")
  BY <1>2
<1> HIDE DEF batch
<1>9. \A c \in batch : Ready(c, "serve")
  BY <1>5, <1>7 DEF Ready, VehicleReady, TaskReady, Eligible, Open, Sent,
     CommandTypes, Rank
<1> QED
  BY <1>6, <1>8, <1>9, PlainPhaseSafe, FarApart DEF AllReady

LEMMA SkipSafe ==
  ASSUME SafetyInv, SkipAllocation, MissionInv'
  PROVE  SafetyInv'
<1>1. Emit({}, "serve") /\ AllReady({}, "serve")
  BY DEF SkipAllocation, AllReady, Distinct, Apart
<1> QED
  BY <1>1, PlainPhaseSafe

LEMMA ServeSafe ==
  ASSUME SafetyInv, Serve, MissionInv'
  PROVE  SafetyInv'
<1> DEFINE batch == {TaskCmd("ProgressTask", u, uav[u].assigned) :
                       u \in {v \in UAVs : OnSite(v)}}
<1>1. Emit(batch, "clear")
  BY DEF Serve
<1>2. \A u \in UAVs : OnSite(u) => /\ uav[u].assigned \in Tasks
                                  /\ task[uav[u].assigned].owner = u
  BY DEF OnSite, SafetyInv, MissionInv, StoreInv, StoreTypeOK, UAVState,
         HeldIsOwned
<1>3. \A u \in UAVs, t \in Tasks :
        /\ TaskCmd("ProgressTask", u, t).type = "ProgressTask"
        /\ TaskCmd("ProgressTask", u, t).uav = u
        /\ TaskCmd("ProgressTask", u, t).task = t
        /\ ~TaskCmd("ProgressTask", u, t).stale
  BY DEF TaskCmd, Cmd
<1>4. \A c \in batch : \E u \in UAVs :
        OnSite(u) /\ c = TaskCmd("ProgressTask", u, uav[u].assigned)
  OBVIOUS
<1> HIDE DEF batch
<1>5. \A c \in batch : /\ c.type = "ProgressTask" /\ ~c.stale
                       /\ c.uav \in UAVs /\ c.task \in Tasks
                       /\ task[c.task].owner = c.uav
                       /\ c = TaskCmd("ProgressTask", c.uav, uav[c.uav].assigned)
  BY <1>2, <1>3, <1>4
<1>6. AllReady(batch, "clear")
  BY <1>5 DEF AllReady, Ready, VehicleReady, TaskReady, Distinct, Apart, Sent,
     CommandTypes, Rank
<1> QED
  BY <1>1, <1>6, PlainPhaseSafe

LEMMA ClearSafe ==
  ASSUME SafetyInv, ClearFinished, MissionInv'
  PROVE  SafetyInv'
<1> DEFINE batch == UNION {{Cmd("ReleaseRelayRole", u),
                            Cmd("SetTargetPosition", u)} : u \in finished}
<1>1. Emit(batch, "allDone")
  BY DEF ClearFinished
<1>2. finished \subseteq UAVs
  BY DEF SafetyInv, MissionInv, LoopTypeOK
<1>3. \A c \in batch : \E u \in UAVs :
        \E type \in {"ReleaseRelayRole", "SetTargetPosition"} : c = Cmd(type, u)
  BY <1>2
<1> HIDE DEF batch
<1>4. \A c \in batch : Ready(c, "allDone")
  BY <1>3, PlainReady DEF Emitted, Sent, CommandTypes, Rank
<1>5. Distinct(batch)
  BY <1>3, CommandFields DEF Emitted, Distinct
<1> QED
  BY <1>1, <1>4, <1>5, PlainPhaseSafe, FarApart DEF AllReady

LEMMA AllDoneSafe ==
  ASSUME SafetyInv, AllDone, MissionInv'
  PROVE  SafetyInv'
<1> DEFINE batch == IF AllClosed
                      THEN {Cmd("StartRTH", u) : u \in {v \in UAVs : CallHome(v)}}
                      ELSE {}
<1>1. Emit(batch, "depart")
  BY DEF AllDone
<1>2. \A c \in batch : \E u \in UAVs : c = Cmd("StartRTH", u)
  OBVIOUS
<1> HIDE DEF batch
<1>3. \A c \in batch : Ready(c, "depart")
  BY <1>2, PlainReady DEF Emitted, Sent, CommandTypes, Rank
<1>4. Distinct(batch)
  BY <1>2, CommandFields DEF Emitted, Distinct
<1> QED
  BY <1>1, <1>3, <1>4, PlainPhaseSafe, FarApart DEF AllReady

\* The command fields the physics and the two routers set.
LEMMA FlightCommands ==
  /\ \A u \in UAVs, goal \in Targets :
       /\ SetTarget(u, goal).type = "SetTargetPosition"
       /\ SetTarget(u, goal).uav = u /\ ~SetTarget(u, goal).stale
       /\ SetTarget(u, goal).target = goal
  /\ \A u \in UAVs, p \in Places, b \in BOOLEAN :
       /\ Step(u, p, b).type = "StepPhysics" /\ Step(u, p, b).uav = u
       /\ ~Step(u, p, b).stale /\ Step(u, p, b).place = p
  /\ \A u \in UAVs :
       /\ ChargeStep(u).type = "StepPhysics" /\ ChargeStep(u).uav = u
       /\ ~ChargeStep(u).stale /\ ChargeStep(u).place = uav[u].place
BY DEF SetTarget, Step, ChargeStep, Cmd

LEMMA DepartSafe ==
  ASSUME SafetyInv, Depart, MissionInv'
  PROVE  SafetyInv'
<1>1. PICK goal \in [UAVs -> Targets] :
        /\ \A u \in UAVs : goal[u] \in Directions(u)
        /\ Emit({SetTarget(u, goal[u]) :
                   u \in {v \in UAVs : goal[v] # uav[v].target}}, "fly")
  BY DEF Depart
<1> DEFINE batch == {SetTarget(u, goal[u]) :
                       u \in {v \in UAVs : goal[v] # uav[v].target}}
<1>2. Emit(batch, "fly")
  BY <1>1
<1>3. \A c \in batch : \E u \in UAVs :
        goal[u] # uav[u].target /\ c = SetTarget(u, goal[u])
  OBVIOUS
<1> HIDE DEF batch
<1>4. \A u \in UAVs : goal[u] # uav[u].target =>
                       uav[u].rth = "NONE" /\ goal[u] \in Bound
  BY <1>1 DEF Directions, Bound
<1>5. \A c \in batch : /\ c.type = "SetTargetPosition" /\ ~c.stale
                       /\ c.uav \in UAVs /\ uav[c.uav].rth = "NONE"
                       /\ c.target \in Bound
                       /\ c = SetTarget(c.uav, goal[c.uav])
  BY <1>3, <1>4, FlightCommands
<1>6. \A c \in batch : Ready(c, "fly")
  BY <1>1, <1>5 DEF Ready, VehicleReady, TaskReady, Sent, CommandTypes, Rank
<1>7. Distinct(batch)
  BY <1>5 DEF Distinct
<1> QED
  BY <1>2, <1>6, <1>7, PlainPhaseSafe, FarApart DEF AllReady

\* A vehicle that landed may be active again (RecoverUAV), but its target keeps
\* it where it is.
LEMMA FlySafe ==
  ASSUME SafetyInv, Fly, MissionInv'
  PROVE  SafetyInv'
<1>1. PICK dest \in Routes, drained \in SUBSET {u \in Flying : ~uav[u].low} :
        FlyTo(dest, drained)
  BY DEF Fly
<1> DEFINE batch == {Step(u, dest[u], u \in drained) : u \in Flying}
<1>2. Emit(batch, "lifecycle")
  BY <1>1 DEF FlyTo
<1>3. \A u \in Flying : /\ u \in UAVs /\ dest[u] \in Places
                        /\ dest[u] \in Destinations(u)
                        /\ (u \in drained) \in BOOLEAN
  BY DEF Routes, Flying
<1>4. \A c \in batch : \E u \in Flying : c = Step(u, dest[u], u \in drained)
  OBVIOUS
<1> HIDE DEF batch
<1>5. \A u \in Flying : uav[u].rth = "COMPLETE" => dest[u] = "pad"
  <2> SUFFICES ASSUME NEW u \in Flying, uav[u].rth = "COMPLETE"
               PROVE  dest[u] = "pad"
    OBVIOUS
  <2>1. uav[u].place = "pad" /\ uav[u].target \in {None, "pad"}
    BY <1>3 DEF SafetyInv, Docked, Docks
  <2>2. Destinations(u) = {"pad"}
    BY <2>1 DEF Destinations, Ahead
  <2> QED
    BY <1>3, <2>2
<1>6. \A c \in batch :
        /\ c.type = "StepPhysics" /\ ~c.stale /\ c.uav \in UAVs
        /\ c.place = "pad" \/ uav[c.uav].rth # "COMPLETE"
        /\ c = Step(c.uav, dest[c.uav], c.uav \in drained)
  <2> TAKE c \in batch
  <2>1. PICK u \in Flying : c = Step(u, dest[u], u \in drained)
    BY <1>4
  <2> DEFINE b == u \in drained
  <2>2. /\ u \in UAVs /\ dest[u] \in Places /\ b \in BOOLEAN
        /\ c = Step(u, dest[u], b)
    BY <1>3, <2>1
  <2> HIDE DEF b
  <2>3. /\ c.type = "StepPhysics" /\ c.uav = u /\ ~c.stale
        /\ c.place = dest[u]
    BY <2>2, FlightCommands
  <2> QED
    BY <2>1, <2>2, <2>3, <1>5
<1>7. AllReady(batch, "lifecycle")
  BY <1>6 DEF AllReady, Ready, VehicleReady, TaskReady, Distinct, Apart, Sent,
     CommandTypes, Rank
<1> QED
  BY <1>2, <1>7, PlainPhaseSafe

LEMMA LifecycleSafe ==
  ASSUME SafetyInv, Lifecycle, MissionInv'
  PROVE  SafetyInv'
<1>1. PICK near \in SUBSET {u \in Homing : Approaches(u)},
           full \in SUBSET Charging : LifecycleOf(near, full)
  BY DEF Lifecycle
<1> DEFINE batch == RouterCommands(near) \union ChargeCommands(full)
           Simple == {"BeginLanding", "CompleteRTH", "StartRecharge",
                      "CompleteRecharge"}
<1>2. Emit(batch, "assess")
  BY <1>1 DEF LifecycleOf
<1>3. \A c \in batch :
        \/ \E u \in UAVs : c = SetTarget(u, "pad") /\ uav[u].rth = "ACTIVE"
        \/ \E u \in UAVs : c = Cmd("BeginLanding", u)
        \/ \E u \in UAVs : /\ c = Cmd("CompleteRTH", u)
                           /\ uav[u].rth = "ACTIVE" /\ uav[u].place = "pad"
        \/ \E u \in UAVs : /\ c = Cmd("StartRecharge", u)
                           /\ uav[u].sortie = "LANDED"
        \/ \E u \in UAVs : /\ c = Cmd("CompleteRecharge", u)
                           /\ uav[u].sortie = "RECHARGING"
        \/ \E u \in UAVs : /\ c = ChargeStep(u)
                           /\ uav[u].sortie = "RECHARGING"
  BY DEF RouterCommands, ChargeCommands, Homing, Charging, Arrived
<1> HIDE DEF batch
<1>4. \A u \in UAVs : uav[u].sortie = "RECHARGING" => uav[u].place = "pad"
  BY DEF SafetyInv, Docked, Docks
<1>5. "pad" \in Targets
  BY DEF Targets, Places
<1>6. \A c \in batch :
        /\ Ready(c, "assess")
        /\ \/ /\ c.type = "SetTargetPosition" /\ c = SetTarget(c.uav, "pad")
              /\ uav[c.uav].rth = "ACTIVE"
           \/ c.type = "StepPhysics" /\ c = ChargeStep(c.uav)
           \/ c.type \in Simple /\ c = Cmd(c.type, c.uav)
  <2> TAKE c \in batch
  <2>1. ASSUME NEW type \in Simple, NEW u \in UAVs, c = Cmd(type, u),
               type = "CompleteRTH" => uav[u].rth = "ACTIVE" /\ uav[u].place = "pad",
               type = "StartRecharge" => uav[u].sortie = "LANDED",
               type = "CompleteRecharge" => uav[u].sortie = "RECHARGING"
        PROVE  Ready(c, "assess") /\ c.type \in Simple /\ c = Cmd(c.type, c.uav)
    <3>1. type \in Emitted \ {"AssignTask", "ProgressTask", "StepPhysics"}
          /\ type \in Sent("assess")
      BY DEF Emitted, Sent, CommandTypes, Rank
    <3>2. c.type = type /\ c.uav = u
      BY <2>1, <3>1, CommandFields
    <3> QED
      BY <2>1, <3>1, <3>2, PlainReady
  <2>2. ASSUME NEW u \in UAVs, c = SetTarget(u, "pad"), uav[u].rth = "ACTIVE"
        PROVE  /\ Ready(c, "assess") /\ c.type = "SetTargetPosition"
               /\ c = SetTarget(c.uav, "pad")
               /\ uav[c.uav].rth = "ACTIVE"
    <3>1. /\ c.type = "SetTargetPosition" /\ c.uav = u /\ ~c.stale
          /\ c.target = "pad"
      BY <2>2, <1>5, FlightCommands
    <3> QED
      BY <2>2, <3>1 DEF Ready, VehicleReady, TaskReady, Sent, CommandTypes, Rank
  <2>3. ASSUME NEW u \in UAVs, c = ChargeStep(u), uav[u].sortie = "RECHARGING"
        PROVE  Ready(c, "assess") /\ c.type = "StepPhysics"
               /\ c = ChargeStep(c.uav)
    <3>1. /\ c.type = "StepPhysics" /\ c.uav = u /\ ~c.stale
          /\ c.place = "pad"
      BY <2>3, <1>4, FlightCommands
    <3> QED
      BY <2>3, <3>1 DEF Ready, VehicleReady, TaskReady, Sent, CommandTypes, Rank
  <2> QED
    BY <1>3, <2>1, <2>2, <2>3
<1>7. Distinct(batch)
  BY <1>6 DEF Distinct
<1>8. Apart(batch)
  <2> SUFFICES ASSUME NEW c \in batch, NEW d \in batch, c.uav = d.uav,
                      c.type = "SetTargetPosition", d.type = "CompleteRecharge"
               PROVE  FALSE
    BY DEF Apart
  <2>1. uav[c.uav].rth = "ACTIVE"
    BY <1>6
  <2>2. uav[d.uav].sortie = "RECHARGING" /\ d.uav \in UAVs
    BY <1>6 DEF Ready, VehicleReady
  <2> QED
    BY <2>1, <2>2 DEF SafetyInv, Docked, Docks
<1> QED
  BY <1>2, <1>6, <1>7, <1>8, PlainPhaseSafe DEF AllReady

\* run() only stops when every task it knows is closed, and what is closed has
\* no owner; whoever has landed is on the pad.
LEMMA TickEndSafe ==
  ASSUME SafetyInv, AdvanceTick, MissionInv'
  PROVE  SafetyInv'
<1> DEFINE next == IF ReturnByEnd /\ AllClosed' /\ AllLanded
                     THEN "done" ELSE "events"
<1>1. Emit({}, next) /\ next \in {"done", "events"}
  BY DEF AdvanceTick
<1>2. next = "done" => AllClosed' /\ AllLanded
  OBVIOUS
<1> HIDE DEF next
<1>3. AllReady({}, next)
  BY DEF AllReady, Distinct, Apart
<1>4. LowCalled'
  BY <1>1 DEF Emit, LowCalled
<1>5. DoneAtHome'
  <2> SUFFICES ASSUME next = "done" PROVE EndsAtHome'
    BY <1>1 DEF Emit, DoneAtHome, EndsAtHome
  <2>1. uav' = uav /\ task' = task
    BY <1>1 DEF Emit
  <2>2. ASSUME NEW t \in Tasks, task'[t].status # "HIDDEN"
        PROVE  task'[t].owner = None
               /\ (task'[t].status = "COMPLETE" \/ t \in expired')
    <3>1. Closed(t)' /\ task[t].status # "UNREACHABLE"
      BY <1>2, <2>2 DEF AllClosed, SafetyInv, NoneUnreachable
    <3>2. \/ task[t].status = "COMPLETE"
          \/ task[t].status \in {"PENDING", "DEFERRED"} /\ t \in expired'
      BY <2>1, <3>1 DEF Closed, Open
    <3> QED
      BY <2>1, <3>2 DEF SafetyInv, MissionInv, StoreInv, OwnerMatchesStatus
  <2>3. ASSUME NEW u \in UAVs, ~uav'[u].failed
        PROVE  uav'[u].place = "pad"
    BY <1>2, <2>1, <2>3 DEF AllLanded, SafetyInv, Docked, Docks
  <2> QED
    BY <2>2, <2>3 DEF EndsAtHome
<1> QED
  BY <1>1, <1>3, <1>4, <1>5, PhaseSafe

(***************************************************************************)
(* The theorems.                                                           *)
(***************************************************************************)

LEMMA SafetyInitInv == MissionInit => SafetyInv
<1> SUFFICES ASSUME MissionInit PROVE SafetyInv
  OBVIOUS
<1>1. MissionInv
  BY MissionInitInv
<1>2. inbox = {} /\ phase = "events"
  BY DEF MissionInit, StoreInit
<1>3. BatchReady /\ LowCalled /\ DoneAtHome
  BY <1>2 DEF BatchReady, AllReady, Distinct, Apart, LowCalled, DoneAtHome, EndsAtHome
<1>4. Docked
  BY DEF MissionInit, StoreInit, Fresh, Docked, Docks, Bound
<1>5. NoneUnreachable
  BY DEF MissionInit, StoreInit, NoneUnreachable
<1> QED
  BY <1>1, <1>3, <1>4, <1>5 DEF SafetyInv

LEMMA SafetyNextInv ==
  ASSUME SafetyInv, [MissionNext]_vars
  PROVE  SafetyInv'
<1>1. MissionInv'
  BY MissionNextInv DEF SafetyInv
<1>2. CASE UNCHANGED vars
  <2>1. BatchReady' /\ Docked' /\ NoneUnreachable'
    BY <1>2 DEF vars, storeVars, SafetyInv, BatchReady, AllReady, Ready,
       TaskReady, Docked, NoneUnreachable
  <2>2. LowCalled' /\ DoneAtHome'
    BY <1>2 DEF vars, storeVars, loopVars, SafetyInv, LowCalled, DoneAtHome,
       EndsAtHome
  <2> QED
    BY <1>1, <2>1, <2>2 DEF SafetyInv
<1>3. CASE ApplyCommand
  BY <1>3, ApplySafe
<1>4. CASE OtherPhase
  BY <1>1, <1>4, EventsSafe, DiscoverySafe, TriggersSafe, AllocateSafe,
     SkipSafe, ServeSafe, ClearSafe, AllDoneSafe, FlySafe, LifecycleSafe,
     TickEndSafe
  DEF OtherPhase
<1>5. CASE Depart
  BY <1>1, <1>5, DepartSafe
<1> QED
  BY <1>2, <1>3, <1>4, <1>5 DEF MissionNext

\* A command a phase computed from its snapshot is never refused when apply
\* comes to it, whatever the commands before it did.
THEOREM MissionSnapshotsValid == MissionSpec => SnapshotStillValid
<1> DEFINE Valid == \A c \in inbox \ inbox' :
             c.type \notin {"ReleaseRelayRole", "FailUAV", "RecoverUAV"} =>
               Accepts(c)
<1>1. SafetyInv /\ [MissionNext]_vars => [Valid]_vars
  <2> SUFFICES ASSUME SafetyInv PROVE Valid
    OBVIOUS
  <2> QED
    BY ReadyAccepted DEF SafetyInv, BatchReady, AllReady
<1> QED
  BY SafetyInitInv, SafetyNextInv, <1>1, PTL DEF MissionSpec, SnapshotStillValid

\* A vehicle only becomes LANDED on its pad.
THEOREM MissionLandsOnPad == MissionSpec => LandsOnPad
<1> DEFINE OnPad == \A u \in UAVs :
             uav[u].sortie # "LANDED" /\ uav'[u].sortie = "LANDED" =>
               uav[u].place = "pad"
<1>1. ASSUME SafetyInv, [MissionNext]_vars
      PROVE  OnPad
  <2> SUFFICES ASSUME NEW u \in UAVs, uav[u].sortie # "LANDED",
                      uav'[u].sortie = "LANDED"
               PROVE  uav[u].place = "pad"
    OBVIOUS
  <2>1. ApplyCommand
    BY <1>1 DEF MissionNext, vars, storeVars, OtherPhase, ScheduledEvents,
       Discovery, RTHTriggers, Allocate, SkipAllocation, Serve, ClearFinished,
       AllDone, Fly, FlyTo, Lifecycle, LifecycleOf, AdvanceTick, Depart, Emit
  <2>2. PICK c \in inbox : Handle(c)
    BY <2>1 DEF ApplyCommand
  <2>3. c.type = "CompleteRTH" /\ c.uav = u
    BY <1>1, <2>2, HandleWrites DEF Written
  <2> QED
    BY <1>1, <2>3
    DEF SafetyInv, BatchReady, AllReady, Ready, VehicleReady
<1> QED
  BY SafetyInitInv, SafetyNextInv, <1>1, PTL DEF MissionSpec, LandsOnPad

\* In the tick in which a battery becomes low the vehicle is called home, if the
\* assessor lets a vehicle fly more than one sortie (with enforce_single_sortie
\* one that landed once is never airborne again for it).
THEOREM MissionLowReturns ==
  ASSUME ~SingleSortie
  PROVE  MissionSpec => []LowReturns
<1>1. SafetyInv => LowReturns
  BY DEF SafetyInv, LowCalled, LowReturns
<1> QED
  BY SafetyInitInv, SafetyNextInv, <1>1, PTL DEF MissionSpec

\* However long the mission was and whatever failed, run() stops early only with
\* every task it knows closed and everybody who has not failed on a pad.
THEOREM MissionEndsAtHome == MissionSpec => []EndsAtHome
<1>1. SafetyInv => EndsAtHome
  BY DEF SafetyInv, DoneAtHome
<1> QED
  BY SafetyInitInv, SafetyNextInv, <1>1, PTL DEF MissionSpec
=============================================================================
