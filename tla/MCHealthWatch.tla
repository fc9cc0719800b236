--------------------------- MODULE MCHealthWatch ----------------------------
(* A watcher over an unreliable database, and two days of jobs. *)
EXTENDS HealthWatch
CONSTANTS feed
MCBounds ==
  {[days |-> 1, jobs |-> 0, observations |-> 5, outages |-> 1, restarts |-> 1, troubles |-> 2],
   [days |-> 2, jobs |-> 5, observations |-> 0, outages |-> 0, restarts |-> 0, troubles |-> 0]}
=============================================================================
