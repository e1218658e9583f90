-------------------------- MODULE MCSchedulerThread --------------------------
(* Two workers, a plan of one or two slots, two period boundaries a session. *)
EXTENDS SchedulerThread
==============================================================================
