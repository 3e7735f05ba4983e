------------------------------- MODULE Processes -----------------------------
(***************************************************************************)
(* The daemons of the ranked pipeline (orchestrator/cli.py): one scheduler *)
(* and any number of match runner replicas, each with its listener.        *)
(***************************************************************************)
EXTENDS Matchmaker, Notify

CONSTANTS
  Scheduler,  \* the scheduler process
  Runners     \* the match runner replicas

ASSUME DaemonsAssumption ==
  /\ Scheduler \notin Runners
  /\ Daemons = Runners \union {Scheduler}
=============================================================================
