----------------------------- MODULE MCScheduler -----------------------------
(***************************************************************************)
(* Small instances of Scheduler for TLC.                                   *)
(***************************************************************************)
EXTENDS Scheduler

CONSTANTS a, b

Interval == [s \in Schedules |-> "interval"]
Mixed    == [s \in Schedules |-> IF s = a THEN "once" ELSE "event"]

NoLimit  == [s \in Schedules |-> 0]
OnceOnly == [s \in Schedules |-> IF Trigger[s] = "once" THEN 1 ELSE 0]
TwoRuns  == [s \in Schedules |-> 2]

\* The pair leaves out missing sessions, overlapping cycles and rows that
\* vanish while their cycle is active, which one schedule covers.
SharedWakeOnly ==
    /\ registered = Schedules
    /\ \A s \in Schedules :
          /\ ~sched[s].looseTimer
          /\ sched[s].last_run_at # "old"
          /\ sched[s].state = "deleted" => ~sched[s].active
=============================================================================
