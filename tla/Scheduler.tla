------------------------------ MODULE Scheduler ------------------------------
(***************************************************************************)
(* The SchedulerActor (crates/agent/src/scheduler/mod.rs) with its         *)
(* deadline queue and event accumulators (wake.rs), the schedule rows it   *)
(* keeps in the store (session/domain_schedule.rs, repo_schedule.rs), the  *)
(* timer tasks it spawns, the messages in flight to it and the session     *)
(* turns it started.  The actor handles one message at a time; nobody else *)
(* updates the rows, but deleting a session deletes its rows too, at any   *)
(* moment.  A handler whose row vanishes half-way ends as if it vanished   *)
(* just after, so a handler is one step.  The actor may stop and be        *)
(* started again, with or without the process that runs the turns.         *)
(*                                                                         *)
(* Time is abstract: a deadline, a timeout or a debounce window elapses at *)
(* an arbitrary moment; next_run_at is in the future or due, last_run_at   *)
(* is recent or older than the stale cutoff.  All a handler does concerns  *)
(* one schedule, so handlers are functions on that schedule's record.      *)
(***************************************************************************)
EXTENDS Integers

CONSTANTS Schedules,
          Trigger,      \* Trigger[s] is "interval", "once" or "event"
          MaxRuns,      \* config.max_runs, 0 for None
          MaxFailures,  \* config.max_consecutive_failures
          Threshold,    \* event_filter.threshold
          Debounce,     \* whether debounce_seconds > 0
          MaxTurns,     \* bound on the turns of a schedule outstanding at once
          RunCap        \* bound at which run_count saturates

ASSUME SchedulerAssumption ==
    /\ Trigger \in [Schedules -> {"interval", "once", "event"}]
    /\ MaxRuns \in [Schedules -> Nat]
    /\ \A s \in Schedules : Trigger[s] = "once" => MaxRuns[s] > 0
    /\ MaxFailures \in Nat \ {0}
    /\ Threshold \in Nat \ {0}
    /\ Debounce \in BOOLEAN
    /\ MaxTurns \in Nat \ {0}
    /\ RunCap \in Nat \ {0}

VARIABLES
    sched,       \* sched[s]: everything that belongs to schedule s
    wake,        \* the deadline wake task sleeps
    up,          \* a SchedulerActor runs
    registered   \* schedules whose session is in the registry and local

vars == <<sched, wake, up, registered>>

-----------------------------------------------------------------------------
NoCounter == -1

\* The fields of a schedule's record.
Record ==
    [\* the stored row; "new" before it is created, "deleted" after
     state : {"new", "armed", "running", "paused", "exhausted", "failed", "deleted"},
     run_count : 0..RunCap,
     consecutive_failures : 0..MaxFailures,
     next_run_at : {"none", "future", "due"},
     last_run_at : {"none", "recent", "old"},
     \* the actor's memory
     queued : BOOLEAN,              \* an entry in deadline_queue
     count : Int,                   \* its event counter, NoCounter if none
     debouncing : BOOLEAN,          \* its debounce timer sleeps
     active : BOOLEAN,              \* in active_cycles
     timer : BOOLEAN,               \* timeout_handle of that cycle sleeps
     pending_delete : BOOLEAN,
     processed : BOOLEAN,           \* (s, None) is in processed_terminals
     \* timers nobody can abort any more
     looseTimer : BOOLEAN,
     looseDebounce : BOOLEAN,
     \* in flight to the actor
     deadlineMsg : BOOLEAN,         \* DeadlineReached
     debounceMsg : BOOLEAN,         \* DebounceCompleted
     failedMsg : BOOLEAN,           \* CycleFailed or ScheduledExecutionFailed
     completedMsgs : 0..MaxTurns,   \* ScheduledExecutionCompleted
     \* turns of this schedule the session has not finished
     turns : 0..MaxTurns]

TypeOK ==
    /\ sched \in [Schedules -> Record]
    /\ \A s \in Schedules : sched[s].count \in NoCounter..Threshold
    /\ wake \in BOOLEAN
    /\ up \in BOOLEAN
    /\ registered \subseteq Schedules

\* A new row, as AddSchedule finds it.
Fresh ==
    [state |-> "new", run_count |-> 0, consecutive_failures |-> 0,
     next_run_at |-> "none", last_run_at |-> "none",
     queued |-> FALSE, count |-> NoCounter, debouncing |-> FALSE,
     active |-> FALSE, timer |-> FALSE, pending_delete |-> FALSE, processed |-> FALSE,
     looseTimer |-> FALSE, looseDebounce |-> FALSE,
     deadlineMsg |-> FALSE, debounceMsg |-> FALSE, failedMsg |-> FALSE,
     completedMsgs |-> 0, turns |-> 0]

Init ==
    /\ sched = [s \in Schedules |-> Fresh]
    /\ wake = FALSE
    /\ up = TRUE
    /\ registered = Schedules

-----------------------------------------------------------------------------
(***************************************************************************)
(* Functions on one schedule's record r.                                   *)
(***************************************************************************)

\* EventAccumulator::reset aborts the debounce timer.
ResetCounter(r) == [r EXCEPT !.count = 0, !.debouncing = FALSE]

\* An armed row that is left out of the queue.
EnqueueForgotten(s, r) == r

\* enqueue_schedule.  A new accumulator replaces the old one, whose debounce
\* timer runs on.
Enqueue(s, r) ==
    IF Trigger[s] = "event"
    THEN [r EXCEPT !.count = 0, !.debouncing = FALSE,
                   !.looseDebounce = @ \/ r.debouncing]
    ELSE [r EXCEPT !.queued = @ \/ r.next_run_at # "none"]

\* active_cycles.remove and abort of its timeout.
EndCycle(r) == [r EXCEPT !.active = FALSE, !.timer = FALSE]

\* A terminal handler that executes the deferred delete only of a row it
\* re-armed.
DeletePendingIfArmed(r) ==
    IF r.pending_delete /\ r.state = "armed"
    THEN [r EXCEPT !.pending_delete = FALSE, !.state = "deleted"] ELSE r

\* The deferred delete at the end of both terminal handlers.
DeletePending(r) ==
    IF r.pending_delete THEN [r EXCEPT !.pending_delete = FALSE, !.state = "deleted"] ELSE r

Stored(r) == r.state \notin {"new", "deleted"}

Saturated(n, cap) == IF n > cap THEN cap ELSE n

\* The body of handle_cycle_completed.  The turn id in its idempotency key
\* is a fresh UUID and an event is delivered at most once, so the guard
\* never drops a completion.
Completed(s, r) ==
    LET ended == EndCycle(r)
        runs  == Saturated(r.run_count + 1, RunCap)
        ran   == [ended EXCEPT !.run_count = runs, !.consecutive_failures = 0,
                               !.last_run_at = "recent"]
        exhausted == MaxRuns[s] # 0 /\ runs >= MaxRuns[s]
        next  == IF Trigger[s] = "interval" THEN "future" ELSE r.next_run_at
    IN  IF ~Stored(r) THEN ended
        ELSE IF exhausted
        THEN DeletePending([ran EXCEPT !.state = "exhausted", !.next_run_at = "none"])
        ELSE DeletePending(Enqueue(s, [ran EXCEPT !.state = "armed", !.next_run_at = next]))

\* One failure more than max_consecutive_failures before the row fails.
FailedOneTooLate(s, r) ==
    LET ended == [EndCycle(r) EXCEPT !.processed = TRUE]
        fails == r.consecutive_failures + 1
        ran   == [ended EXCEPT !.consecutive_failures = fails, !.last_run_at = "recent"]
    IN  IF r.processed THEN r
        ELSE IF ~Stored(r) THEN ended
        ELSE IF fails > MaxFailures
        THEN DeletePending([ran EXCEPT !.state = "failed", !.next_run_at = "none"])
        ELSE DeletePending(Enqueue(s, [ran EXCEPT !.state = "armed", !.next_run_at = "future"]))

\* The body of handle_cycle_failed_inner for the key (s, None), the only one
\* any caller uses.
Failed(s, r) ==
    LET ended == [EndCycle(r) EXCEPT !.processed = TRUE]
        fails == Saturated(r.consecutive_failures + 1, MaxFailures)
        ran   == [ended EXCEPT !.consecutive_failures = fails, !.last_run_at = "recent"]
    IN  IF r.processed THEN r
        ELSE IF ~Stored(r) THEN ended
        ELSE IF fails >= MaxFailures
        THEN DeletePending([ran EXCEPT !.state = "failed", !.next_run_at = "none"])
        ELSE DeletePending(Enqueue(s, [ran EXCEPT !.state = "armed", !.next_run_at = "future"]))

\* The active cycle is recorded without a timeout task.
StartCycleWithoutTimeout(r) ==
    [r EXCEPT !.state = "running", !.turns = @ + 1, !.active = TRUE, !.timer = FALSE]

\* The prompt was told to the session: active_cycles.insert overwrites an
\* older cycle, whose timeout task can no longer be aborted.
StartCycle(r) ==
    [r EXCEPT !.state = "running", !.turns = @ + 1, !.active = TRUE, !.timer = TRUE,
              !.looseTimer = @ \/ r.timer]

\* A missing session is skipped instead of failing the cycle.
FireSkipsMissing(s, r) ==
    IF r.state = "armed" /\ s \in registered THEN StartCycle(r) ELSE r

\* The state is written without a look at the row.
FireUnguarded(s, r) ==
    IF s \in registered THEN StartCycle(r) ELSE Failed(s, [r EXCEPT !.state = "running"])

\* fire_schedule: the CAS Armed -> Running fails unless the row is armed; a
\* missing or remote session fails the cycle at once.
Fire(s, r) ==
    IF r.state # "armed" THEN r
    ELSE IF s \in registered THEN StartCycle(r)
    ELSE Failed(s, [r EXCEPT !.state = "running"])

\* Bound on the outstanding turns.
MayFire(r) == r.turns < MaxTurns

\* list_running_schedules_older_than: last_run_at < cutoff is not true of a
\* row that has no last_run_at.
Stale(r) == r.state = "running" /\ r.last_run_at = "old"

\* One schedule's part of the reconciliation sweep.
Sweep(s, r) ==
    LET swept == IF Stale(r) /\ ~r.active THEN Failed(s, r) ELSE r
    IN  IF swept.state = "armed" /\ swept.next_run_at = "due" THEN Fire(s, swept) ELSE swept

\* recover_stale_running and rebuild_queues.
Recover(s, r) ==
    LET recovered == IF Stale(r) THEN Failed(s, r) ELSE r
    IN  IF recovered.state = "armed" THEN Enqueue(s, recovered) ELSE recovered

\* What is left of a schedule when the actor stops: its row and the turns
\* the session still runs.
Forget(r) ==
    [Fresh EXCEPT !.state = r.state, !.run_count = r.run_count,
                  !.consecutive_failures = r.consecutive_failures,
                  !.next_run_at = r.next_run_at, !.last_run_at = r.last_run_at,
                  !.turns = r.turns]

-----------------------------------------------------------------------------
(***************************************************************************)
(* Messages handled by the actor.                                          *)
(***************************************************************************)

\* Whether f, applied to r, inserts an entry into the deadline queue.
Enqueues(f(_, _), s, r) == f(s, [r EXCEPT !.queued = FALSE]).queued

\* A handler that changes schedule s alone and reschedules the wake task
\* only where enqueue_schedule does.
Apply(f(_, _), s, r) ==
    /\ sched' = [sched EXCEPT ![s] = f(s, r)]
    /\ wake' = (wake \/ Enqueues(f, s, r))
    /\ UNCHANGED <<up, registered>>

\* The old wake task is aborted and no new one started.
RescheduleWakeAborts == wake' = FALSE

\* reschedule_wake: a wake task sleeps iff the queue has a head.
RescheduleWake == wake' = \E s \in Schedules : sched'[s].queued

AddSchedule(s) ==
    /\ up
    /\ sched[s].state = "new"
    /\ \E next \in {"future", "due"} :
          /\ Trigger[s] # "once" => next = "future"
          /\ Apply(Enqueue, s,
                   [sched[s] EXCEPT !.state = "armed",
                       !.next_run_at = IF Trigger[s] = "event" THEN "none" ELSE next])

\* Dropping the accumulator detaches its debounce timer.
RemoveSchedule(s) ==
    /\ up
    /\ sched[s].state # "new"
    /\ LET deferred == [sched[s] EXCEPT !.pending_delete = TRUE]
           removed  == [sched[s] EXCEPT !.state = "deleted", !.queued = FALSE,
                          !.count = NoCounter, !.debouncing = FALSE,
                          !.looseDebounce = @ \/ sched[s].debouncing]
       IN  IF sched[s].active
           THEN sched' = [sched EXCEPT ![s] = deferred] /\ UNCHANGED wake
           ELSE sched' = [sched EXCEPT ![s] = removed] /\ RescheduleWake
    /\ UNCHANGED <<up, registered>>

PauseSchedule(s) ==
    /\ up
    /\ sched[s].state \in {"armed", "running"}
    /\ LET paused == [sched[s] EXCEPT !.state = "paused", !.queued = FALSE]
       IN  sched' = [sched EXCEPT ![s] =
                       IF paused.count = NoCounter THEN paused ELSE ResetCounter(paused)]
    /\ RescheduleWake
    /\ UNCHANGED <<up, registered>>

ResumeSchedule(s) ==
    /\ up
    /\ sched[s].state = "paused"
    /\ Apply(Enqueue, s,
             [sched[s] EXCEPT !.state = "armed",
                 !.next_run_at = IF Trigger[s] = "interval" THEN "future" ELSE @])

\* TriggerNow and DeadlineReached take every entry of s off the queue.
FireFromQueue(s, r) ==
    /\ MayFire(r)
    /\ sched' = [sched EXCEPT ![s] = Fire(s, [r EXCEPT !.queued = FALSE])]
    /\ RescheduleWake
    /\ UNCHANGED <<up, registered>>

TriggerNow(s) == up /\ sched[s].state # "new" /\ FireFromQueue(s, sched[s])

DeadlineReached(s) ==
    /\ up
    /\ sched[s].deadlineMsg
    /\ FireFromQueue(s, [sched[s] EXCEPT !.deadlineMsg = FALSE])

CycleCompleted(s) ==
    /\ up
    /\ sched[s].completedMsgs > 0
    /\ Apply(Completed, s, [sched[s] EXCEPT !.completedMsgs = @ - 1])

CycleFailed(s) ==
    /\ up
    /\ sched[s].failedMsg
    /\ Apply(Failed, s, [sched[s] EXCEPT !.failedMsg = FALSE])

\* handle_event_received for one matching event.
CountEvent(s, r) ==
    LET counted == [r EXCEPT !.count = Saturated(@ + 1, Threshold)]
    IN  IF counted.count < Threshold \/ r.debouncing THEN counted
        ELSE IF Debounce THEN [counted EXCEPT !.debouncing = TRUE]
        ELSE Fire(s, ResetCounter(counted))

\* process_event for an event that matches the filters of the schedules in
\* matching, all of them tracked and stored.
ProcessEvent(matching) ==
    /\ up
    /\ matching # {}
    /\ \A s \in matching : sched[s].count # NoCounter /\ Stored(sched[s]) /\ MayFire(sched[s])
    /\ sched' = [s \in Schedules |->
                   IF s \in matching THEN CountEvent(s, sched[s]) ELSE sched[s]]
    /\ UNCHANGED <<wake, up, registered>>

FireDebounced(s, r) ==
    IF r.count < Threshold THEN r ELSE Fire(s, ResetCounter(r))

DebounceCompleted(s) ==
    /\ up
    /\ sched[s].debounceMsg
    /\ MayFire(sched[s])
    /\ Apply(FireDebounced, s, [sched[s] EXCEPT !.debounceMsg = FALSE])

Reconcile ==
    /\ up
    /\ \A s \in Schedules : MayFire(sched[s])
    /\ sched' = [s \in Schedules |-> Sweep(s, sched[s])]
    /\ wake' = (wake \/ \E s \in Schedules : Enqueues(Sweep, s, sched[s]))
    /\ UNCHANGED <<up, registered>>

-----------------------------------------------------------------------------
(***************************************************************************)
(* The actor's life.                                                       *)
(***************************************************************************)

\* Shutdown, also when the renewal loop finds the lease lost: memory, timers
\* and mailbox go, the session's turns run on.
Shutdown ==
    /\ up
    /\ up' = FALSE
    /\ wake' = FALSE
    /\ sched' = [s \in Schedules |-> Forget(sched[s])]
    /\ UNCHANGED registered

\* The process dies with its turns.
Crash ==
    /\ up
    /\ up' = FALSE
    /\ wake' = FALSE
    /\ sched' = [s \in Schedules |-> [Forget(sched[s]) EXCEPT !.turns = 0]]
    /\ UNCHANGED registered

\* spawn: initialize, then SetSelfRef arms the first wake.
Spawn ==
    /\ ~up
    /\ up' = TRUE
    /\ sched' = [s \in Schedules |-> Recover(s, sched[s])]
    /\ RescheduleWake
    /\ UNCHANGED registered

-----------------------------------------------------------------------------
(***************************************************************************)
(* Timers, the clock and the sessions.                                     *)
(***************************************************************************)
Touch(s, r) == sched' = [sched EXCEPT ![s] = r] /\ UNCHANGED <<up, registered>>

\* The wake task of the head of the queue sends DeadlineReached and ends.
WakeFires(s) ==
    /\ up
    /\ wake
    /\ sched[s].queued
    /\ wake' = FALSE
    /\ Touch(s, [sched[s] EXCEPT !.deadlineMsg = TRUE])

TimeoutFires(s) ==
    /\ UNCHANGED wake
    /\ \/ /\ sched[s].timer
          /\ Touch(s, [sched[s] EXCEPT !.timer = FALSE, !.failedMsg = TRUE])
       \/ /\ sched[s].looseTimer
          /\ Touch(s, [sched[s] EXCEPT !.looseTimer = FALSE, !.failedMsg = TRUE])

DebounceElapses(s) ==
    /\ UNCHANGED wake
    /\ \/ /\ sched[s].debouncing
          /\ Touch(s, [sched[s] EXCEPT !.debouncing = FALSE, !.debounceMsg = TRUE])
       \/ /\ sched[s].looseDebounce
          /\ Touch(s, [sched[s] EXCEPT !.looseDebounce = FALSE, !.debounceMsg = TRUE])

TimePasses(s) ==
    /\ UNCHANGED wake
    /\ \/ /\ sched[s].next_run_at = "future"
          /\ Touch(s, [sched[s] EXCEPT !.next_run_at = "due"])
       \/ /\ sched[s].last_run_at = "recent"
          /\ Touch(s, [sched[s] EXCEPT !.last_run_at = "old"])

\* The session ends a turn and its terminal event reaches the actor, or is
\* lost: nobody subscribed, or the subscription lagged.
TurnEnds(s) ==
    /\ sched[s].turns > 0
    /\ UNCHANGED wake
    /\ LET ended == [sched[s] EXCEPT !.turns = @ - 1]
       IN  \/ /\ up
              /\ ended.completedMsgs < MaxTurns
              /\ Touch(s, [ended EXCEPT !.completedMsgs = @ + 1])
           \/ /\ up
              /\ Touch(s, [ended EXCEPT !.failedMsg = TRUE])
           \/ Touch(s, ended)

\* The session of s (or its task) is deleted from the store and its rows with
\* it, ON DELETE CASCADE; the actor is not told.
DeleteSession(s) ==
    /\ Stored(sched[s])
    /\ Touch(s, [sched[s] EXCEPT !.state = "deleted"])
    /\ UNCHANGED wake

SessionChanges(s) ==
    /\ registered' = IF s \in registered THEN registered \ {s} ELSE registered \cup {s}
    /\ UNCHANGED <<sched, wake, up>>

-----------------------------------------------------------------------------
Control(s) ==
    AddSchedule(s) \/ RemoveSchedule(s) \/ PauseSchedule(s) \/ ResumeSchedule(s) \/ TriggerNow(s)

Handle(s) == DeadlineReached(s) \/ CycleCompleted(s) \/ CycleFailed(s) \/ DebounceCompleted(s)

Environment(s) ==
    \/ WakeFires(s) \/ TimeoutFires(s) \/ DebounceElapses(s) \/ TimePasses(s) \/ TurnEnds(s)
    \/ DeleteSession(s) \/ SessionChanges(s)

Next ==
    \/ Reconcile \/ Shutdown \/ Crash \/ Spawn
    \/ \E matching \in SUBSET Schedules : ProcessEvent(matching)
    \/ \E s \in Schedules : Control(s) \/ Handle(s) \/ Environment(s)

Spec == Init /\ [][Next]_vars

\* The mailbox is served, timers fire and a queued deadline becomes the
\* earliest one sooner or later.  Turns end because MaxTurns bounds the
\* outstanding ones; nobody has to start a stopped actor again.
FairSpec ==
    /\ Spec
    /\ WF_vars(Reconcile)
    /\ \A s \in Schedules :
          /\ SF_vars(WakeFires(s))
          /\ WF_vars(DeadlineReached(s))
          /\ WF_vars(CycleCompleted(s))
          /\ WF_vars(CycleFailed(s))
          /\ WF_vars(TimeoutFires(s))
          /\ WF_vars(TimePasses(s))
          /\ WF_vars(TurnEnds(s))

-----------------------------------------------------------------------------
(***************************************************************************)
(* Properties                                                              *)
(***************************************************************************)

\* OnceAt with the max_runs = 1 that Schedule::new gives it; a caller may
\* ask for more.
Regular(s) == Trigger[s] = "once" => MaxRuns[s] = 1

\* While the actor runs, every armed row can fire again: a timed one is in
\* the deadline queue, an event-driven one has an accumulator.  Rows are
\* re-armed by completions, failures, resumes and restarts, also by late
\* ones, and none of these paths may leave an armed row outside the queues.
ArmedIsTracked ==
    up => \A s \in Schedules :
             sched[s].state = "armed" /\ Regular(s) =>
                IF Trigger[s] = "event" THEN sched[s].count # NoCounter ELSE sched[s].queued

\* A non-empty deadline queue always has a wake task that sleeps for it or a
\* DeadlineReached on its way, whatever aborted or replaced the task.
WakeNotLost ==
    (\E s \in Schedules : sched[s].queued) =>
       wake \/ \E s \in Schedules : sched[s].deadlineMsg

\* A deferred delete is not forgotten: while its row is there, it has the
\* active cycle whose terminal event will execute it, although cycles
\* overlap, time out and are dropped as duplicates.  (If the session takes
\* the row with it, the mark stays behind: there is nothing left to delete.)
PendingDeleteHasCycle ==
    \A s \in Schedules :
       sched[s].pending_delete /\ Stored(sched[s]) => sched[s].active

\* Until the first failure of a schedule is processed, an active cycle has a
\* timeout task or a failure on its way, however cycles overlapped.
CycleHasTimeout ==
    \A s \in Schedules :
       sched[s].active /\ ~sched[s].processed => sched[s].timer \/ sched[s].failedMsg

\* A schedule that has exhausted its runs or failed for good does not come
\* back: a deadline left in the queue, a trigger, the sweep, a pause and
\* resume or a restart never revive its row.  Only the answer of a turn that
\* was still out does, since the terminal handlers do not look at the row.
TerminalStays ==
    [][\A s \in Schedules :
          sched[s].state \in {"exhausted", "failed"} =>
             \/ sched'[s].state \in {sched[s].state, "deleted"}
             \/ sched'[s].completedMsgs < sched[s].completedMsgs
             \/ sched[s].failedMsg /\ ~sched'[s].failedMsg]_vars

\* Schedules go on: an armed timed schedule leaves Armed (it fires, or the
\* user or a stop intervenes), and its cycle ends, by an answer or by its
\* timeout, if no failure of the schedule was processed before it.
SchedulesGoOn ==
    \A s \in Schedules :
       /\ Trigger[s] # "event" /\ Regular(s) =>
             (up /\ sched[s].state = "armed" ~> ~up \/ sched[s].state # "armed")
       /\ sched[s].active /\ ~sched[s].processed ~> ~sched[s].active \/ sched[s].processed

-----------------------------------------------------------------------------
(***************************************************************************)
(* What comments and docs of the source say and the code does not keep.    *)
(***************************************************************************)

\* "Maximum runtime in seconds per cycle": no cycle stays active for good.
\* All failures share the key (s, None), so from the second one on they are
\* dropped as duplicates.
ActiveCycleEnds == \A s \in Schedules : sched[s].active ~> ~sched[s].active
=============================================================================
