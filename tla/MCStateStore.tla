---------------------------- MODULE MCStateStore ----------------------------
(***************************************************************************)
(* The store alone, under a caller that sends commands in any order.       *)
(* Batches of one command reach every order of commands, so the order      *)
(* inside a batch is left to the runs of MissionLoop.  Every vehicle gets  *)
(* the commands that touch a task; the ones that only walk through the     *)
(* sortie cycle go to the vehicles of `Cycled`, to keep the run short.     *)
(***************************************************************************)
EXTENDS StateStore

CONSTANT Cycled

TouchTask == {"AssignTask", "ReleaseTask", "ProgressTask", "DiscoverTask"}

TouchHolder == {"StartRTH", "FailUAV"}

Cycle == {"AssignRelayRole", "RecoverUAV", "BeginLanding", "CompleteRTH", "StartRecharge", "CompleteRecharge",
          "ReleaseRelayRole"}

MCCommands ==
  {TaskCmd(type, u, t) : type \in TouchTask, u \in UAVs, t \in Tasks}
  \union {TaskCmd("MarkTaskUnreachable", System, t) : t \in Tasks}
  \union {Cmd(type, u) : type \in TouchHolder, u \in UAVs}
  \union {Cmd(type, u) : type \in Cycle, u \in Cycled}
  \union {[Cmd("HandoffRelay", u) EXCEPT !.other = v] :
            u \in UAVs, v \in Cycled}
  \union {[TaskCmd("AssignTask", u, t) EXCEPT !.stale = TRUE] :
            u \in Cycled, t \in Tasks}

MCSubmit == /\ inbox = {}
            /\ \E c \in MCCommands : inbox' = {c}
            /\ UNCHANGED <<uav, task>>

MCSpec == StoreInit /\ [][MCSubmit \/ ApplyNext]_storeVars
=============================================================================
