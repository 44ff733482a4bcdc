---------------------------- MODULE MCAllocation ----------------------------
\* Three vehicles anywhere on a line of five places, of which the ground
\* station reaches three; a task that needs somebody on the way, a near one, and one
\* with a deadline.  Scores may be negative, and equal.
EXTENDS Allocation

MCTaskPlace == 1 :> 4 @@ 2 :> 1 @@ 3 :> 3
MCChain == <<3, 1>>
MCPriority == 1 :> 2 @@ 2 :> 1 @@ 3 :> 1
MCDeadline == 1 :> 0 @@ 2 :> 0 @@ 3 :> 2
MCSchedule == {[pair |-> {GCS, 1}, start |-> 1, end |-> 2, effect |-> "outage"]}
=============================================================================
