---------------------------- MODULE MCTelemetry ----------------------------
\* Three vehicles on a line of four places, of which the ground station reaches
\* three.  One link breaks for a tick, one is slow for a tick, and both change
\* back at once; the distances make free links, ties and relayed routes.
EXTENDS Telemetry

MCSchedule ==
  {[pair |-> {GCS, 1}, start |-> 1, end |-> 2, effect |-> "outage"],
   [pair |-> {1, 3}, start |-> 1, end |-> 2, effect |-> "slow"]}
=============================================================================
