----------------------------- MODULE Reporting -----------------------------
(***************************************************************************)
(* What the ground station is promised about points of interest: each is   *)
(* reported by one vehicle and at most once, a report that is on its way   *)
(* is closed for good within a bounded number of ticks, and one that is    *)
(* closed as delivered arrived within the deadline.                        *)
(* (docs/COMMUNICATION_AND_TELEMETRY.md, telemetry/manager.py)             *)
(***************************************************************************)
EXTENDS Integers

CONSTANTS Sites,     \* the points of interest
          Vehicles,
          Nobody,
          InTime,    \* ticks a delivered report may have taken
          MaxWait    \* ticks after which no report is on its way any more

VARIABLES fate,      \* what became of a site
          reporter,  \* the vehicle that reports it
          spent      \* ticks the report has taken

promise == <<fate, reporter, spent>>

Init == /\ fate = [s \in Sites |-> "unseen"]
        /\ reporter = [s \in Sites |-> Nobody]
        /\ spent = [s \in Sites |-> 0]

Unchanged(s) == fate'[s] = fate[s] /\ reporter'[s] = reporter[s] /\ spent'[s] = spent[s]

\* A report that is open has used up another tick, or is closed.
OpenOrClosed(s, age) == \/ fate'[s] = "open" /\ spent'[s] = age + 1 /\ age < MaxWait
                        \/ fate'[s] = "delivered" /\ spent'[s] \in age..InTime
                        \/ fate'[s] = "lost" /\ spent'[s] >= age

See(s) == /\ fate[s] = "unseen"
          /\ reporter'[s] \in Vehicles
          /\ OpenOrClosed(s, 0)

Carry(s) == /\ fate[s] = "open"
            /\ reporter'[s] = reporter[s]
            /\ OpenOrClosed(s, spent[s])

\* one tick of the mission: no open report stays as it is
Tick == \A s \in Sites : See(s) \/ Carry(s) \/ (fate[s] # "open" /\ Unchanged(s))

Spec == Init /\ [][Tick]_promise

\* A site that is being reported is delivered or lost in the end.
EveryReportCloses == \A s \in Sites : fate[s] = "open" ~> fate[s] \in {"delivered", "lost"}
=============================================================================
