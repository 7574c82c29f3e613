---------------------------- MODULE SchedulerMC ----------------------------
(* Model-checking instances of Scheduler. *)
EXTENDS Scheduler, TLC

\* Schedule IDs are interchangeable; used by safety runs only.
ScheduleSymmetry == Permutations(Schedules)
=============================================================================
