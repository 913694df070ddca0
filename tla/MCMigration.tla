---------------------------- MODULE MCMigration ----------------------------
(***************************************************************************)
(* Instances of Migration for TLC: the tables of the script stand for all  *)
(* of its statements.                                                      *)
(***************************************************************************)
EXTENDS Migration, TLC

CONSTANTS p1, p2, p3

Tables == <<"tasks", "task_events", "agent_track_record", "patches", "interventions">>
=============================================================================
