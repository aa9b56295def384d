--------------------------- MODULE SchedulerProofs ---------------------------
(***************************************************************************)
(* Scheduler for any set of schedules, any triggers and any limits.  A     *)
(* handler is a function on one schedule's record, so most of the work is  *)
(* lemmas about those functions: each preserves what is known of a record, *)
(* and none adds a queue entry behind the wake task's back.                *)
(***************************************************************************)
EXTENDS Scheduler, TLAPS

Fields ==
    {"state", "run_count", "consecutive_failures", "next_run_at", "last_run_at",
     "queued", "count", "debouncing", "active", "timer", "pending_delete", "processed",
     "looseTimer", "looseDebounce", "deadlineMsg", "debounceMsg", "failedMsg",
     "completedMsgs", "turns"}

\* A timed schedule that may fire again has a deadline.
HasDeadline(s, r) ==
    Trigger[s] # "event" /\ Regular(s) /\ r.state \in {"armed", "running", "paused"} =>
       r.next_run_at # "none"

\* A row not yet created has no cycle, and a deferred delete has an active
\* cycle unless its row has vanished.
CycleOK(r) ==
    /\ r.state = "new" => ~r.active /\ ~r.pending_delete
    /\ r.pending_delete => r.active \/ r.state = "deleted"

\* CycleHasTimeout for one record.
Timed(r) == r.active /\ ~r.processed => r.timer \/ r.failedMsg

\* What holds of every record, also of one whose failure was just taken off
\* the mailbox.
Base(s, r) ==
    /\ DOMAIN r = Fields
    /\ r.run_count \in Nat
    /\ r.count \in Int /\ r.count >= NoCounter
    /\ Trigger[s] # "event" => r.count = NoCounter
    /\ HasDeadline(s, r)
    /\ CycleOK(r)

Row(s, r) == Base(s, r) /\ Timed(r)

\* ArmedIsTracked for one record.
Tracked(s, r) ==
    r.state = "armed" /\ Regular(s) =>
       IF Trigger[s] = "event" THEN r.count # NoCounter ELSE r.queued

\* A handler turns r into t: what is known of r stays true, and t has an entry
\* in the deadline queue iff r had one or the handler adds one.
Follows(s, r, t, adds) ==
    /\ Row(s, t)
    /\ Tracked(s, r) => Tracked(s, t)
    /\ t.deadlineMsg = r.deadlineMsg
    /\ t.queued <=> r.queued \/ adds

\* When completions, failures, firing and the sweep add an entry.
CompletedAdds(s, r) ==
    /\ Stored(r)
    /\ ~(MaxRuns[s] # 0 /\ Saturated(r.run_count + 1, RunCap) >= MaxRuns[s])
    /\ Trigger[s] # "event"
    /\ Trigger[s] = "interval" \/ r.next_run_at # "none"

FailedAdds(s, r) ==
    /\ ~r.processed
    /\ Stored(r)
    /\ ~(Saturated(r.consecutive_failures + 1, MaxFailures) >= MaxFailures)
    /\ Trigger[s] # "event"

FireAdds(s, r) ==
    r.state = "armed" /\ s \notin registered /\ FailedAdds(s, [r EXCEPT !.state = "running"])

SweepAdds(s, r) ==
    IF Stale(r) /\ ~r.active THEN FailedAdds(s, r)
    ELSE r.state = "armed" /\ r.next_run_at = "due" /\ FireAdds(s, r)

-----------------------------------------------------------------------------
\* What enqueue_schedule changes.
LEMMA EnqueueFields ==
  ASSUME NEW s \in Schedules, NEW r, DOMAIN r = Fields
  PROVE  LET t == Enqueue(s, r)
         IN  /\ DOMAIN t = Fields
             /\ \A f \in Fields \ {"queued", "count", "debouncing", "looseDebounce"} : t[f] = r[f]
             /\ Trigger[s] = "event" => t.count = 0 /\ (t.queued <=> r.queued)
             /\ Trigger[s] # "event" => t.count = r.count
             /\ Trigger[s] # "event" => (t.queued <=> r.queued \/ r.next_run_at # "none")
  BY DEF Enqueue, Fields

\* What ending a cycle changes.
LEMMA EndCycleFields ==
  ASSUME NEW r, DOMAIN r = Fields
  PROVE  LET t == EndCycle(r)
         IN  /\ DOMAIN t = Fields
             /\ t.active = FALSE /\ t.timer = FALSE
             /\ \A f \in Fields \ {"active", "timer"} : t[f] = r[f]
  BY DEF EndCycle, Fields

\* What the deferred delete changes.
LEMMA DeletePendingFields ==
  ASSUME NEW r, DOMAIN r = Fields
  PROVE  LET t == DeletePending(r)
         IN  /\ DOMAIN t = Fields
             /\ ~t.pending_delete
             /\ t.state = r.state \/ t.state = "deleted"
             /\ \A f \in Fields \ {"state", "pending_delete"} : t[f] = r[f]
  BY DEF DeletePending, Fields

\* A row without a cycle that is re-armed with a deadline, enqueued and then
\* deleted if a delete was deferred.
LEMMA Rearmed ==
  ASSUME NEW s \in Schedules, NEW r, DOMAIN r = Fields,
         r.run_count \in Nat, r.count \in Int, r.count >= NoCounter,
         Trigger[s] # "event" => r.count = NoCounter,
         Trigger[s] # "event" /\ Regular(s) => r.next_run_at # "none",
         r.active = FALSE
  PROVE  LET t == DeletePending(Enqueue(s, r))
         IN  /\ Row(s, t) /\ Tracked(s, t)
             /\ t.deadlineMsg = r.deadlineMsg
             /\ Trigger[s] = "event" => (t.queued <=> r.queued)
             /\ Trigger[s] # "event" => (t.queued <=> r.queued \/ r.next_run_at # "none")
<1> DEFINE e == Enqueue(s, r)
           t == DeletePending(e)
<1>1. /\ DOMAIN e = Fields
      /\ \A f \in Fields \ {"queued", "count", "debouncing", "looseDebounce"} : e[f] = r[f]
      /\ Trigger[s] = "event" => e.count = 0 /\ (e.queued <=> r.queued)
      /\ Trigger[s] # "event" => e.count = r.count
      /\ Trigger[s] # "event" => (e.queued <=> r.queued \/ r.next_run_at # "none")
  BY EnqueueFields
<1>2. /\ DOMAIN t = Fields
      /\ ~t.pending_delete
      /\ t.state = e.state \/ t.state = "deleted"
      /\ \A f \in Fields \ {"state", "pending_delete"} : t[f] = e[f]
  BY <1>1, DeletePendingFields
<1> HIDE DEF e, t
<1>3. /\ t.run_count = r.run_count /\ t.next_run_at = r.next_run_at
      /\ t.active = FALSE /\ t.deadlineMsg = r.deadlineMsg
      /\ t.count = e.count /\ (t.queued <=> e.queued)
  BY <1>1, <1>2 DEF Fields
<1>4. Row(s, t)
  BY <1>1, <1>2, <1>3 DEF Row, Base, Timed, HasDeadline, CycleOK, NoCounter
<1>5. Tracked(s, t)
  BY <1>1, <1>3 DEF Tracked, NoCounter
<1> QED
  BY <1>1, <1>3, <1>4, <1>5 DEF t, e

\* A row that reached a final state, deleted if a delete was deferred.
LEMMA Finished ==
  ASSUME NEW s \in Schedules, NEW r, DOMAIN r = Fields,
         r.run_count \in Nat, r.count \in Int, r.count >= NoCounter,
         Trigger[s] # "event" => r.count = NoCounter,
         r.state \in {"exhausted", "failed"},
         r.active = FALSE
  PROVE  LET t == DeletePending(r)
         IN  /\ Row(s, t) /\ Tracked(s, t)
             /\ t.deadlineMsg = r.deadlineMsg
             /\ t.queued <=> r.queued
<1> DEFINE t == DeletePending(r)
<1>1. /\ DOMAIN t = Fields
      /\ ~t.pending_delete
      /\ t.state = r.state \/ t.state = "deleted"
      /\ \A f \in Fields \ {"state", "pending_delete"} : t[f] = r[f]
  BY DeletePendingFields
<1> HIDE DEF t
<1>2. /\ t.run_count = r.run_count /\ t.active = FALSE
      /\ t.deadlineMsg = r.deadlineMsg
      /\ t.count = r.count /\ (t.queued <=> r.queued)
  BY <1>1 DEF Fields
<1> QED
  BY <1>1, <1>2 DEF t, Row, Base, Timed, HasDeadline, CycleOK, Tracked

\* handle_cycle_completed.
LEMMA CompletedFollows ==
  ASSUME NEW s \in Schedules, NEW r, Base(s, r)
  PROVE  Follows(s, r, Completed(s, r), CompletedAdds(s, r))
<1> DEFINE ended == EndCycle(r)
           runs  == Saturated(r.run_count + 1, RunCap)
           ran   == [ended EXCEPT !.run_count = runs, !.consecutive_failures = 0,
                                  !.last_run_at = "recent"]
           done  == MaxRuns[s] # 0 /\ runs >= MaxRuns[s]
           next  == IF Trigger[s] = "interval" THEN "future" ELSE r.next_run_at
           final == [ran EXCEPT !.state = "exhausted", !.next_run_at = "none"]
           again == [ran EXCEPT !.state = "armed", !.next_run_at = next]
<1>0. runs \in Nat /\ runs > 0
  BY SchedulerAssumption DEF Row, Base, Saturated
<1>1. /\ DOMAIN ended = Fields
      /\ ended.active = FALSE /\ ended.timer = FALSE
      /\ \A f \in Fields \ {"active", "timer"} : ended[f] = r[f]
  BY EndCycleFields DEF Row, Base
<1>2. Completed(s, r) = IF ~Stored(r) THEN ended
                        ELSE IF done THEN DeletePending(final)
                        ELSE DeletePending(Enqueue(s, again))
  BY DEF Completed
<1> HIDE DEF ended, runs
<1>3. CASE ~Stored(r)
  <2>1. /\ ended.state = r.state /\ ended.run_count = r.run_count /\ ended.count = r.count
        /\ ended.deadlineMsg = r.deadlineMsg /\ (ended.queued <=> r.queued)
        /\ ended.pending_delete = r.pending_delete
    BY <1>1 DEF Fields
  <2>2. ended.state \in {"new", "deleted"} /\ (ended.pending_delete => ended.state = "deleted")
    BY <1>3, <2>1 DEF Row, Base, CycleOK, Stored
  <2> QED
    BY <1>1, <1>2, <1>3, <2>1, <2>2
       DEF Row, Base, Timed, HasDeadline, CycleOK, Tracked, Follows, CompletedAdds
<1>4. CASE Stored(r) /\ done
  <2>1. /\ DOMAIN final = Fields /\ final.state = "exhausted" /\ final.active = FALSE
        /\ final.run_count = runs /\ final.count = r.count
        /\ final.deadlineMsg = r.deadlineMsg /\ (final.queued <=> r.queued)
    BY <1>1 DEF Fields
  <2> HIDE DEF final
  <2>2. /\ Row(s, DeletePending(final)) /\ Tracked(s, DeletePending(final))
        /\ DeletePending(final).deadlineMsg = r.deadlineMsg
        /\ DeletePending(final).queued <=> r.queued
    BY <1>0, <2>1, Finished DEF Row, Base
  <2> QED
    BY <1>2, <1>4, <2>2 DEF Follows, CompletedAdds, runs
<1>5. CASE Stored(r) /\ ~done
  <2>1. /\ DOMAIN again = Fields /\ again.next_run_at = next /\ again.active = FALSE
        /\ again.run_count = runs /\ again.count = r.count
        /\ again.deadlineMsg = r.deadlineMsg /\ (again.queued <=> r.queued)
    BY <1>1 DEF Fields
  <2>2. Trigger[s] # "event" /\ Regular(s) => next # "none"
    BY <1>0, <1>5, SchedulerAssumption DEF Regular
  <2> HIDE DEF again
  <2>3. LET t == DeletePending(Enqueue(s, again))
        IN  /\ Row(s, t) /\ Tracked(s, t)
            /\ t.deadlineMsg = r.deadlineMsg
            /\ Trigger[s] = "event" => (t.queued <=> r.queued)
            /\ Trigger[s] # "event" => (t.queued <=> r.queued \/ next # "none")
    <3>1. /\ again.run_count \in Nat /\ again.count \in Int /\ again.count >= NoCounter
          /\ Trigger[s] # "event" => again.count = NoCounter
          /\ Trigger[s] # "event" /\ Regular(s) => again.next_run_at # "none"
      BY <1>0, <2>1, <2>2 DEF Row, Base
    <3> DEFINE t == DeletePending(Enqueue(s, again))
    <3>2. /\ Row(s, t) /\ Tracked(s, t)
          /\ t.deadlineMsg = again.deadlineMsg
          /\ Trigger[s] = "event" => (t.queued <=> again.queued)
          /\ Trigger[s] # "event" => (t.queued <=> again.queued \/ again.next_run_at # "none")
      BY <2>1, <3>1, Rearmed
    <3> HIDE DEF t
    <3>3. /\ Row(s, t) /\ Tracked(s, t)
          /\ t.deadlineMsg = r.deadlineMsg
          /\ Trigger[s] = "event" => (t.queued <=> r.queued)
          /\ Trigger[s] # "event" => (t.queued <=> r.queued \/ next # "none")
      BY <2>1, <3>2
    <3> QED BY <3>3 DEF t
  <2> QED
    BY <1>2, <1>5, <2>3, SchedulerAssumption DEF Follows, CompletedAdds, runs
<1> QED
  BY <1>3, <1>4, <1>5

\* handle_cycle_failed_inner.
LEMMA FailedFollows ==
  ASSUME NEW s \in Schedules, NEW r, Base(s, r)
  PROVE  Follows(s, r, Failed(s, r), FailedAdds(s, r))
<1> DEFINE ended == [EndCycle(r) EXCEPT !.processed = TRUE]
           fails == Saturated(r.consecutive_failures + 1, MaxFailures)
           ran   == [ended EXCEPT !.consecutive_failures = fails, !.last_run_at = "recent"]
           final == [ran EXCEPT !.state = "failed", !.next_run_at = "none"]
           again == [ran EXCEPT !.state = "armed", !.next_run_at = "future"]
<1>1. /\ DOMAIN ended = Fields
      /\ ended.active = FALSE /\ ended.timer = FALSE
      /\ \A f \in Fields \ {"active", "timer", "processed"} : ended[f] = r[f]
  BY EndCycleFields DEF Row, Base, Fields
<1>2. Failed(s, r) = IF r.processed THEN r
                     ELSE IF ~Stored(r) THEN ended
                     ELSE IF fails >= MaxFailures THEN DeletePending(final)
                     ELSE DeletePending(Enqueue(s, again))
  BY DEF Failed
<1> HIDE DEF ended, fails
<1>3. CASE r.processed
  BY <1>2, <1>3 DEF Follows, FailedAdds, Row, Timed
<1>4. CASE ~r.processed /\ ~Stored(r)
  <2>1. /\ ended.state = r.state /\ ended.run_count = r.run_count /\ ended.count = r.count
        /\ ended.deadlineMsg = r.deadlineMsg /\ (ended.queued <=> r.queued)
        /\ ended.pending_delete = r.pending_delete
    BY <1>1 DEF Fields
  <2>2. ended.state \in {"new", "deleted"} /\ (ended.pending_delete => ended.state = "deleted")
    BY <1>4, <2>1 DEF Row, Base, CycleOK, Stored
  <2> QED
    BY <1>1, <1>2, <1>4, <2>1, <2>2
       DEF Row, Base, Timed, HasDeadline, CycleOK, Tracked, Follows, FailedAdds
<1>5. CASE ~r.processed /\ Stored(r) /\ fails >= MaxFailures
  <2>1. /\ DOMAIN final = Fields /\ final.state = "failed" /\ final.active = FALSE
        /\ final.run_count = r.run_count /\ final.count = r.count
        /\ final.deadlineMsg = r.deadlineMsg /\ (final.queued <=> r.queued)
    BY <1>1 DEF Fields
  <2> HIDE DEF final
  <2>2. /\ Row(s, DeletePending(final)) /\ Tracked(s, DeletePending(final))
        /\ DeletePending(final).deadlineMsg = r.deadlineMsg
        /\ DeletePending(final).queued <=> r.queued
    BY <2>1, Finished DEF Row, Base
  <2> QED
    BY <1>2, <1>5, <2>2 DEF Follows, FailedAdds, fails
<1>6. CASE ~r.processed /\ Stored(r) /\ ~(fails >= MaxFailures)
  <2>1. /\ DOMAIN again = Fields /\ again.next_run_at = "future" /\ again.active = FALSE
        /\ again.run_count = r.run_count /\ again.count = r.count
        /\ again.deadlineMsg = r.deadlineMsg /\ (again.queued <=> r.queued)
    BY <1>1 DEF Fields
  <2> HIDE DEF again
  <2>2. LET t == DeletePending(Enqueue(s, again))
        IN  /\ Row(s, t) /\ Tracked(s, t)
            /\ t.deadlineMsg = r.deadlineMsg
            /\ Trigger[s] = "event" => (t.queued <=> r.queued)
            /\ Trigger[s] # "event" => (t.queued <=> r.queued \/ "future" # "none")
    <3>1. /\ again.run_count \in Nat /\ again.count \in Int /\ again.count >= NoCounter
          /\ Trigger[s] # "event" => again.count = NoCounter
          /\ Trigger[s] # "event" /\ Regular(s) => again.next_run_at # "none"
      BY <2>1 DEF Row, Base
    <3> DEFINE t == DeletePending(Enqueue(s, again))
    <3>2. /\ Row(s, t) /\ Tracked(s, t)
          /\ t.deadlineMsg = again.deadlineMsg
          /\ Trigger[s] = "event" => (t.queued <=> again.queued)
          /\ Trigger[s] # "event" => (t.queued <=> again.queued \/ again.next_run_at # "none")
      BY <2>1, <3>1, Rearmed
    <3> HIDE DEF t
    <3>3. /\ Row(s, t) /\ Tracked(s, t)
          /\ t.deadlineMsg = r.deadlineMsg
          /\ Trigger[s] = "event" => (t.queued <=> r.queued)
          /\ Trigger[s] # "event" => (t.queued <=> r.queued \/ "future" # "none")
      BY <2>1, <3>2
    <3> QED BY <3>3 DEF t
  <2> QED
    BY <1>2, <1>6, <2>2 DEF Follows, FailedAdds, fails
<1> QED
  BY <1>3, <1>4, <1>5, <1>6

\* fire_schedule leaves the row tracked, whatever it was before.
LEMMA FireFollows ==
  ASSUME NEW s \in Schedules, NEW r, Row(s, r)
  PROVE  Follows(s, r, Fire(s, r), FireAdds(s, r)) /\ Tracked(s, Fire(s, r))
<1> DEFINE begun == StartCycle(r)
           run   == [r EXCEPT !.state = "running"]
<1>1. CASE r.state # "armed"
  BY <1>1 DEF Fire, Follows, FireAdds, Tracked
<1>2. CASE r.state = "armed" /\ s \in registered
  <2>1. /\ DOMAIN begun = Fields /\ begun.state = "running"
        /\ begun.run_count = r.run_count /\ begun.count = r.count
        /\ begun.next_run_at = r.next_run_at
        /\ begun.active = TRUE /\ begun.timer = TRUE
        /\ begun.deadlineMsg = r.deadlineMsg /\ (begun.queued <=> r.queued)
    BY DEF StartCycle, Row, Base, Fields
  <2>2. Fire(s, r) = begun
    BY <1>2 DEF Fire
  <2> HIDE DEF begun
  <2>3. Row(s, begun) /\ Tracked(s, begun)
    BY <1>2, <2>1 DEF Row, Base, Timed, HasDeadline, CycleOK, Tracked, Stored
  <2> QED
    BY <1>2, <2>1, <2>2, <2>3 DEF Follows, FireAdds
<1>3. CASE r.state = "armed" /\ s \notin registered
  <2>1. /\ DOMAIN run = Fields /\ run.state = "running"
        /\ run.run_count = r.run_count /\ run.count = r.count
        /\ run.next_run_at = r.next_run_at
        /\ run.active = r.active /\ run.pending_delete = r.pending_delete
        /\ run.deadlineMsg = r.deadlineMsg /\ (run.queued <=> r.queued)
    BY DEF Row, Base, Fields
  <2>2. Fire(s, r) = Failed(s, run) /\ (FireAdds(s, r) <=> FailedAdds(s, run))
    BY <1>3 DEF Fire, FireAdds
  <2> HIDE DEF run
  <2>3. Base(s, run) /\ Tracked(s, run)
    BY <1>3, <2>1 DEF Row, Base, HasDeadline, CycleOK, Tracked, Stored
  <2>4. Follows(s, run, Failed(s, run), FailedAdds(s, run))
    BY <2>3, FailedFollows
  <2> QED
    BY <2>1, <2>2, <2>3, <2>4 DEF Follows
<1> QED
  BY <1>1, <1>2, <1>3

\* A running row that fails is not due: it is re-armed for the future or not
\* at all.
LEMMA FailedNotDue ==
  ASSUME NEW s \in Schedules, NEW r, Base(s, r), r.state = "running"
  PROVE  Failed(s, r).state # "armed" \/ Failed(s, r).next_run_at # "due"
<1> DEFINE ended == [EndCycle(r) EXCEPT !.processed = TRUE]
           fails == Saturated(r.consecutive_failures + 1, MaxFailures)
           ran   == [ended EXCEPT !.consecutive_failures = fails, !.last_run_at = "recent"]
           final == [ran EXCEPT !.state = "failed", !.next_run_at = "none"]
           again == [ran EXCEPT !.state = "armed", !.next_run_at = "future"]
           e     == Enqueue(s, again)
<1>1. DOMAIN ended = Fields
  BY EndCycleFields DEF Base, Fields
<1>2. Failed(s, r) \in {r, DeletePending(final), DeletePending(e)}
  BY DEF Failed, Stored
<1> HIDE DEF ended, fails
<1>3. DOMAIN final = Fields /\ final.state = "failed" /\ DOMAIN again = Fields
      /\ again.next_run_at = "future"
  BY <1>1 DEF Fields
<1> HIDE DEF final, again
<1>4. DOMAIN e = Fields /\ e.next_run_at = "future"
  BY <1>3, EnqueueFields DEF Fields
<1> HIDE DEF e
<1>5. DeletePending(final).state # "armed" /\ DeletePending(e).next_run_at = "future"
  BY <1>3, <1>4, DeletePendingFields DEF Fields
<1> QED
  BY <1>2, <1>5

\* One schedule's part of the sweep.
LEMMA SweepFollows ==
  ASSUME NEW s \in Schedules, NEW r, Row(s, r)
  PROVE  Follows(s, r, Sweep(s, r), SweepAdds(s, r))
<1>1. CASE Stale(r) /\ ~r.active
  <2>1. Sweep(s, r) = Failed(s, r)
    BY <1>1, FailedNotDue DEF Sweep, Row, Stale
  <2> QED
    BY <1>1, <2>1, FailedFollows DEF Row, SweepAdds
<1>2. CASE ~(Stale(r) /\ ~r.active) /\ r.state = "armed" /\ r.next_run_at = "due"
  <2>1. Sweep(s, r) = Fire(s, r) /\ (SweepAdds(s, r) <=> FireAdds(s, r))
    BY <1>2 DEF Sweep, SweepAdds
  <2> QED
    BY <2>1, FireFollows DEF Follows
<1>3. CASE ~(Stale(r) /\ ~r.active) /\ ~(r.state = "armed" /\ r.next_run_at = "due")
  <2>1. Sweep(s, r) = r /\ ~SweepAdds(s, r)
    BY <1>3 DEF Sweep, SweepAdds
  <2> QED
    BY <2>1 DEF Follows
<1> QED
  BY <1>1, <1>2, <1>3

\* enqueue_schedule of a row tracks it if it is armed.
LEMMA EnqueueFollows ==
  ASSUME NEW s \in Schedules, NEW r, Row(s, r)
  PROVE  LET t == Enqueue(s, r)
         IN  /\ Follows(s, r, t, Trigger[s] # "event" /\ r.next_run_at # "none")
             /\ r.state = "armed" => Tracked(s, t)
<1> DEFINE t == Enqueue(s, r)
<1>1. /\ DOMAIN t = Fields
      /\ \A f \in Fields \ {"queued", "count", "debouncing", "looseDebounce"} : t[f] = r[f]
      /\ Trigger[s] = "event" => t.count = 0 /\ (t.queued <=> r.queued)
      /\ Trigger[s] # "event" => t.count = r.count
      /\ Trigger[s] # "event" => (t.queued <=> r.queued \/ r.next_run_at # "none")
  BY EnqueueFields DEF Row, Base
<1> HIDE DEF t
<1>2. /\ t.state = r.state /\ t.run_count = r.run_count /\ t.next_run_at = r.next_run_at
      /\ t.active = r.active /\ t.pending_delete = r.pending_delete
      /\ t.processed = r.processed /\ t.timer = r.timer /\ t.failedMsg = r.failedMsg
      /\ t.deadlineMsg = r.deadlineMsg
  BY <1>1 DEF Fields
<1>3. Row(s, t)
  BY <1>1, <1>2 DEF Row, Base, Timed, HasDeadline, CycleOK, Stored, NoCounter
<1>4. r.state = "armed" => Tracked(s, t)
  BY <1>1, <1>2 DEF Row, Base, HasDeadline, Tracked, NoCounter
<1>5. Tracked(s, r) => Tracked(s, t)
  BY <1>2, <1>4 DEF Tracked
<1> QED
  BY <1>1, <1>2, <1>3, <1>4, <1>5 DEF Follows, t

\* Recovery leaves every armed row tracked.
LEMMA RecoverTracks ==
  ASSUME NEW s \in Schedules, NEW r, Row(s, r)
  PROVE  Row(s, Recover(s, r)) /\ Tracked(s, Recover(s, r))
<1> DEFINE rec == IF Stale(r) THEN Failed(s, r) ELSE r
<1>1. Row(s, rec)
  BY FailedFollows DEF Follows, Row
<1>2. Recover(s, r) = IF rec.state = "armed" THEN Enqueue(s, rec) ELSE rec
  BY DEF Recover
<1> HIDE DEF rec
<1> QED
  BY <1>1, <1>2, EnqueueFollows DEF Follows, Tracked

\* Stopping the actor keeps the row.
LEMMA ForgetRow ==
  ASSUME NEW s \in Schedules, NEW r, Row(s, r), NEW n
  PROVE  LET t == [Forget(r) EXCEPT !.turns = n]
         IN  Row(s, t) /\ ~t.queued
<1> DEFINE t == [Forget(r) EXCEPT !.turns = n]
<1>1. /\ DOMAIN t = Fields /\ t.state = r.state /\ t.run_count = r.run_count
      /\ t.next_run_at = r.next_run_at /\ t.count = NoCounter
      /\ t.active = FALSE /\ t.pending_delete = FALSE /\ t.queued = FALSE
  BY DEF Forget, Fresh, Fields
<1> HIDE DEF t
<1>2. Row(s, t) /\ ~t.queued
  BY <1>1 DEF Row, Base, Timed, HasDeadline, CycleOK, NoCounter
<1> QED
  BY <1>2 DEF t

\* Changes of fields that Row does not depend on, or that keep it true.
LEMMA SameRow ==
  ASSUME NEW s \in Schedules, NEW r, Row(s, r), NEW t, DOMAIN t = Fields,
         t.state = r.state, t.run_count = r.run_count, t.next_run_at = r.next_run_at,
         t.active = r.active, t.pending_delete = r.pending_delete, t.processed = r.processed,
         t.timer = r.timer, t.failedMsg = r.failedMsg,
         t.count \in Int, t.count >= NoCounter, Trigger[s] # "event" => t.count = NoCounter
  PROVE  Row(s, t)
  BY DEF Row, Base, Timed, HasDeadline, CycleOK, Stored

\* handle_event_received for a tracked schedule: it is event-driven, so the
\* deadline queue is left alone.
LEMMA CountEventFollows ==
  ASSUME NEW s \in Schedules, NEW r, Row(s, r), r.count # NoCounter
  PROVE  Follows(s, r, CountEvent(s, r), FALSE)
<1> DEFINE n       == Saturated(r.count + 1, Threshold)
           counted == [r EXCEPT !.count = n]
           waits   == [counted EXCEPT !.debouncing = TRUE]
           reset   == ResetCounter(counted)
<1>1. n \in Int /\ n >= 0 /\ Trigger[s] = "event"
  BY SchedulerAssumption DEF Row, Base, Saturated, NoCounter
<1>2. CountEvent(s, r) \in {counted, waits, Fire(s, reset)}
  BY DEF CountEvent
<1> HIDE DEF n
<1> DEFINE Kept(t) == /\ DOMAIN t = Fields
                      /\ t.state = r.state /\ t.run_count = r.run_count
                      /\ t.next_run_at = r.next_run_at
                      /\ t.active = r.active /\ t.pending_delete = r.pending_delete
                      /\ t.processed = r.processed
                      /\ t.timer = r.timer /\ t.failedMsg = r.failedMsg
                      /\ t.deadlineMsg = r.deadlineMsg /\ (t.queued <=> r.queued)
                      /\ t.count \in Int /\ t.count >= 0
<1>3. Kept(counted) /\ Kept(waits) /\ Kept(reset)
  BY <1>1 DEF ResetCounter, Row, Base, Fields
<1> HIDE DEF counted, waits, reset
<1>4. ASSUME NEW t, Kept(t)
      PROVE  Follows(s, r, t, FALSE)
  <2>1. Row(s, t)
    BY <1>1, <1>4, SameRow DEF NoCounter
  <2> QED
    BY <1>1, <1>4, <2>1 DEF Follows, Tracked, NoCounter
<1> HIDE DEF Kept
<1>5. Follows(s, r, counted, FALSE) /\ Follows(s, r, waits, FALSE) /\ Follows(s, r, reset, FALSE)
  BY <1>3, <1>4
<1>6. Follows(s, reset, Fire(s, reset), FireAdds(s, reset)) /\ ~FireAdds(s, reset)
  BY <1>1, <1>5, FireFollows DEF Follows, FireAdds, FailedAdds
<1>7. Follows(s, r, Fire(s, reset), FALSE)
  BY <1>5, <1>6 DEF Follows
<1> QED
  BY <1>2, <1>5, <1>7

\* DebounceCompleted: only an event-driven schedule has a counter to reset.
LEMMA DebouncedFollows ==
  ASSUME NEW s \in Schedules, NEW r, Row(s, r)
  PROVE  Follows(s, r, FireDebounced(s, r), FALSE)
<1> DEFINE reset == ResetCounter(r)
<1>1. CASE r.count < Threshold
  BY <1>1 DEF FireDebounced, Follows
<1>2. CASE ~(r.count < Threshold)
  <2>1. Trigger[s] = "event" /\ FireDebounced(s, r) = Fire(s, reset)
    BY <1>2, SchedulerAssumption DEF FireDebounced, Row, Base, NoCounter
  <2>2. /\ DOMAIN reset = Fields
        /\ reset.state = r.state /\ reset.run_count = r.run_count
        /\ reset.next_run_at = r.next_run_at
        /\ reset.active = r.active /\ reset.pending_delete = r.pending_delete
        /\ reset.processed = r.processed
        /\ reset.timer = r.timer /\ reset.failedMsg = r.failedMsg
        /\ reset.deadlineMsg = r.deadlineMsg /\ (reset.queued <=> r.queued)
        /\ reset.count = 0
    BY DEF ResetCounter, Row, Base, Fields
  <2> HIDE DEF reset
  <2>3. Row(s, reset)
    BY <2>1, <2>2, SameRow DEF NoCounter
  <2>4. /\ Follows(s, reset, Fire(s, reset), FireAdds(s, reset))
        /\ Tracked(s, Fire(s, reset)) /\ ~FireAdds(s, reset)
    BY <2>1, <2>3, FireFollows DEF FireAdds, FailedAdds
  <2> QED
    BY <2>1, <2>2, <2>4 DEF Follows
<1> QED
  BY <1>1, <1>2

-----------------------------------------------------------------------------
(***************************************************************************)
(* What Enqueues says of each handler: the entry it inserts is one that it *)
(* inserts into an empty queue too.                                        *)
(***************************************************************************)
Unqueued(r) == [r EXCEPT !.queued = FALSE]

\* Taking a row off the queue changes nothing else that is known of it.
LEMMA UnqueuedRow ==
  ASSUME NEW s \in Schedules, NEW r, Base(s, r)
  PROVE  /\ Base(s, Unqueued(r)) /\ (Timed(r) => Timed(Unqueued(r)))
         /\ ~Unqueued(r).queued /\ Unqueued(r).state = r.state
         /\ CompletedAdds(s, Unqueued(r)) <=> CompletedAdds(s, r)
         /\ FailedAdds(s, Unqueued(r)) <=> FailedAdds(s, r)
         /\ SweepAdds(s, Unqueued(r)) <=> SweepAdds(s, r)
         /\ Unqueued(r).next_run_at = r.next_run_at
<1> DEFINE u == Unqueued(r)
           v == [r EXCEPT !.state = "running"]
           w == [u EXCEPT !.state = "running"]
<1>1. /\ DOMAIN u = Fields
      /\ ~u.queued /\ \A f \in Fields \ {"queued"} : u[f] = r[f]
  BY DEF Unqueued, Base, Fields
<1>2. /\ v.state = "running" /\ w.state = "running"
      /\ \A f \in Fields \ {"queued"} : w[f] = v[f]
  BY <1>1 DEF Base, Fields
<1>3. FailedAdds(s, w) <=> FailedAdds(s, v)
  <2> HIDE DEF v, w
  <2> QED
    BY <1>2 DEF FailedAdds, Stored, Fields
<1>4. FireAdds(s, u) <=> FireAdds(s, r)
  <2>1. FireAdds(s, u) <=> u.state = "armed" /\ s \notin registered /\ FailedAdds(s, w)
    BY DEF FireAdds
  <2>2. FireAdds(s, r) <=> r.state = "armed" /\ s \notin registered /\ FailedAdds(s, v)
    BY DEF FireAdds
  <2>3. u.state = r.state
    BY <1>1 DEF Fields
  <2> HIDE DEF u, v, w
  <2> QED
    BY <1>3, <2>1, <2>2, <2>3
<1> HIDE DEF u
<1>5. Base(s, u) /\ (Timed(r) => Timed(u)) /\ ~u.queued /\ u.state = r.state
      /\ u.next_run_at = r.next_run_at
  BY <1>1 DEF Base, Timed, HasDeadline, CycleOK, Stored, Fields
<1>6. /\ CompletedAdds(s, u) <=> CompletedAdds(s, r)
      /\ FailedAdds(s, u) <=> FailedAdds(s, r)
  BY <1>1 DEF CompletedAdds, FailedAdds, Stored, Fields
<1>7. SweepAdds(s, u) <=> SweepAdds(s, r)
  BY <1>1, <1>4, <1>6 DEF SweepAdds, Stale, Fields
<1> QED
  BY <1>5, <1>6, <1>7 DEF u

\* Enqueues for each of the handlers it is used with.
LEMMA EnqueuesAdds ==
  ASSUME NEW s \in Schedules, NEW r, Base(s, r)
  PROVE  /\ Enqueues(Completed, s, r) <=> CompletedAdds(s, r)
         /\ Enqueues(Failed, s, r) <=> FailedAdds(s, r)
         /\ Timed(r) => (Enqueues(Sweep, s, r) <=> SweepAdds(s, r))
         /\ Timed(r) => (Enqueues(Enqueue, s, r) <=>
                            Trigger[s] # "event" /\ r.next_run_at # "none")
<1> DEFINE u == Unqueued(r)
<1>1. /\ Enqueues(Completed, s, r) <=> Completed(s, u).queued
      /\ Enqueues(Failed, s, r) <=> Failed(s, u).queued
      /\ Enqueues(Sweep, s, r) <=> Sweep(s, u).queued
      /\ Enqueues(Enqueue, s, r) <=> Enqueue(s, u).queued
  BY DEF Enqueues, Unqueued
<1>2. /\ Base(s, u) /\ (Timed(r) => Row(s, u)) /\ ~u.queued
      /\ CompletedAdds(s, u) <=> CompletedAdds(s, r)
      /\ FailedAdds(s, u) <=> FailedAdds(s, r)
      /\ SweepAdds(s, u) <=> SweepAdds(s, r)
      /\ u.next_run_at = r.next_run_at
  BY UnqueuedRow DEF Row
<1> HIDE DEF u
<1>3. Completed(s, u).queued <=> CompletedAdds(s, u)
  BY <1>2, CompletedFollows DEF Follows
<1>4. Failed(s, u).queued <=> FailedAdds(s, u)
  BY <1>2, FailedFollows DEF Follows
<1>5. Timed(r) => (Sweep(s, u).queued <=> SweepAdds(s, u))
  BY <1>2, SweepFollows DEF Follows
<1>6. Timed(r) => (Enqueue(s, u).queued <=> Trigger[s] # "event" /\ u.next_run_at # "none")
  BY <1>2, EnqueueFollows DEF Follows
<1> QED
  BY <1>1, <1>2, <1>3, <1>4, <1>5, <1>6

-----------------------------------------------------------------------------
(***************************************************************************)
(* The inductive invariant.                                                *)
(***************************************************************************)
Inv ==
    /\ DOMAIN sched = Schedules
    /\ \A s \in Schedules : Row(s, sched[s])
    /\ \A s \in Schedules : up => Tracked(s, sched[s])
    /\ WakeNotLost

\* A step that turns the record of one schedule into t and keeps the wake
\* task, or reschedules it.
LEMMA OneChanges ==
  ASSUME Inv, NEW s \in Schedules, NEW t,
         sched' = [sched EXCEPT ![s] = t], up' = up,
         Row(s, t),
         up /\ Tracked(s, sched[s]) => Tracked(s, t),
         \/ RescheduleWake
         \/ /\ wake => wake' \/ t.deadlineMsg
            /\ t.queued => sched[s].queued \/ wake'
            /\ sched[s].deadlineMsg => t.deadlineMsg
  PROVE  Inv'
<1>1. /\ DOMAIN sched' = Schedules /\ sched'[s] = t
      /\ \A x \in Schedules : x # s => sched'[x] = sched[x]
  BY DEF Inv
<1>2. \A x \in Schedules : Row(x, sched'[x])
  BY <1>1 DEF Inv
<1>3. \A x \in Schedules : up' => Tracked(x, sched'[x])
  BY <1>1 DEF Inv
<1>4. WakeNotLost'
  <2>1. CASE RescheduleWake
    BY <2>1 DEF RescheduleWake, WakeNotLost
  <2>2. CASE /\ wake => wake' \/ t.deadlineMsg
             /\ t.queued => sched[s].queued \/ wake'
             /\ sched[s].deadlineMsg => t.deadlineMsg
    BY <1>1, <2>2 DEF Inv, WakeNotLost
  <2> QED
    BY <2>1, <2>2
<1> QED
  BY <1>1, <1>2, <1>3, <1>4 DEF Inv

\* One lemma per message handler.
\* AddSchedule arms a row and enqueues it.
LEMMA AddKeeps ==
  ASSUME Inv, NEW s \in Schedules, AddSchedule(s)
  PROVE  Inv'
<1>1. PICK next \in {"future", "due"} :
         Apply(Enqueue, s, [sched[s] EXCEPT !.state = "armed",
                  !.next_run_at = IF Trigger[s] = "event" THEN "none" ELSE next])
  BY DEF AddSchedule
<1> DEFINE r == [sched[s] EXCEPT !.state = "armed",
                  !.next_run_at = IF Trigger[s] = "event" THEN "none" ELSE next]
           t == Enqueue(s, r)
           adds == Trigger[s] # "event" /\ r.next_run_at # "none"
<1>2. sched[s].state = "new" /\ Row(s, sched[s])
  BY DEF AddSchedule, Inv
<1>3. /\ DOMAIN r = Fields /\ r.state = "armed" /\ r.run_count = sched[s].run_count
      /\ Trigger[s] # "event" => r.next_run_at # "none"
      /\ r.active = sched[s].active /\ r.pending_delete = sched[s].pending_delete
      /\ r.count = sched[s].count
      /\ r.deadlineMsg = sched[s].deadlineMsg /\ (r.queued <=> sched[s].queued)
  BY <1>2 DEF Row, Base, Fields
<1>4. sched' = [sched EXCEPT ![s] = t] /\ up' = up /\ wake' = (wake \/ Enqueues(Enqueue, s, r))
  BY <1>1 DEF Apply
<1> HIDE DEF r
<1>5. Row(s, r)
  BY <1>2, <1>3 DEF Row, Base, Timed, HasDeadline, CycleOK, Stored
<1>6. Enqueues(Enqueue, s, r) <=> adds
  BY <1>5, EnqueuesAdds DEF Row
<1>7. Follows(s, r, t, adds) /\ Tracked(s, t)
  BY <1>3, <1>5, EnqueueFollows
<1> HIDE DEF t, adds
<1>8. Row(s, t) /\ t.deadlineMsg = r.deadlineMsg /\ (t.queued <=> r.queued \/ adds)
  BY <1>7 DEF Follows
<1>9. /\ wake => wake'
      /\ t.queued => sched[s].queued \/ wake'
      /\ sched[s].deadlineMsg => t.deadlineMsg
  BY <1>3, <1>4, <1>6, <1>8
<1> QED
  BY <1>4, <1>7, <1>8, <1>9, OneChanges

\* ResumeSchedule arms a paused row, which kept its deadline, and enqueues it.
LEMMA ResumeKeeps ==
  ASSUME Inv, NEW s \in Schedules, ResumeSchedule(s)
  PROVE  Inv'
<1> DEFINE r == [sched[s] EXCEPT !.state = "armed",
                   !.next_run_at = IF Trigger[s] = "interval" THEN "future" ELSE @]
           t == Enqueue(s, r)
           adds == Trigger[s] # "event" /\ r.next_run_at # "none"
<1>2. sched[s].state = "paused" /\ Row(s, sched[s])
  BY DEF ResumeSchedule, Inv
<1>3. /\ DOMAIN r = Fields /\ r.state = "armed" /\ r.run_count = sched[s].run_count
      /\ r.next_run_at = IF Trigger[s] = "interval" THEN "future" ELSE sched[s].next_run_at
      /\ r.active = sched[s].active /\ r.pending_delete = sched[s].pending_delete
      /\ r.processed = sched[s].processed
      /\ r.timer = sched[s].timer /\ r.failedMsg = sched[s].failedMsg
      /\ r.count = sched[s].count
      /\ r.deadlineMsg = sched[s].deadlineMsg /\ (r.queued <=> sched[s].queued)
  BY <1>2 DEF Row, Base, Fields
<1>4. sched' = [sched EXCEPT ![s] = t] /\ up' = up /\ wake' = (wake \/ Enqueues(Enqueue, s, r))
  BY DEF ResumeSchedule, Apply
<1> HIDE DEF r
<1>5. Row(s, r)
  BY <1>2, <1>3 DEF Row, Base, Timed, HasDeadline, CycleOK, Stored
<1>6. Enqueues(Enqueue, s, r) <=> adds
  BY <1>5, EnqueuesAdds DEF Row
<1>7. Follows(s, r, t, adds) /\ Tracked(s, t)
  BY <1>3, <1>5, EnqueueFollows
<1> HIDE DEF t, adds
<1>8. Row(s, t) /\ t.deadlineMsg = r.deadlineMsg /\ (t.queued <=> r.queued \/ adds)
  BY <1>7 DEF Follows
<1>9. /\ wake => wake'
      /\ t.queued => sched[s].queued \/ wake'
      /\ sched[s].deadlineMsg => t.deadlineMsg
  BY <1>3, <1>4, <1>6, <1>8
<1> QED
  BY <1>4, <1>7, <1>8, <1>9, OneChanges

\* RemoveSchedule defers the delete to an active cycle or drops the row and its entry.
LEMMA RemoveKeeps ==
  ASSUME Inv, NEW s \in Schedules, RemoveSchedule(s)
  PROVE  Inv'
<1> DEFINE r == sched[s]
           defer == [r EXCEPT !.pending_delete = TRUE]
           gone  == [r EXCEPT !.state = "deleted", !.queued = FALSE,
                              !.count = NoCounter, !.debouncing = FALSE,
                              !.looseDebounce = @ \/ r.debouncing]
<1>1. Row(s, r)
  BY DEF Inv
<1>2. CASE r.active
  <2>1. /\ DOMAIN defer = Fields /\ defer.state = r.state /\ defer.run_count = r.run_count
        /\ defer.next_run_at = r.next_run_at /\ defer.active = r.active
        /\ defer.processed = r.processed
        /\ defer.timer = r.timer /\ defer.failedMsg = r.failedMsg /\ defer.count = r.count
        /\ defer.deadlineMsg = r.deadlineMsg /\ (defer.queued <=> r.queued)
    BY <1>1 DEF Row, Base, Fields
  <2>2. sched' = [sched EXCEPT ![s] = defer] /\ up' = up /\ wake' = wake
    BY <1>2 DEF RemoveSchedule
  <2>5. r.state # "new"
    BY DEF RemoveSchedule
  <2> HIDE DEF defer
  <2>3. Row(s, defer)
    BY <1>1, <1>2, <2>1, <2>5 DEF Row, Base, Timed, HasDeadline, CycleOK
  <2>4. Tracked(s, r) => Tracked(s, defer)
    BY <2>1 DEF Tracked
  <2> QED
    BY <2>1, <2>2, <2>3, <2>4, OneChanges
<1>3. CASE ~r.active
  <2>1. /\ DOMAIN gone = Fields /\ gone.state = "deleted" /\ gone.run_count = r.run_count
        /\ gone.active = r.active /\ gone.pending_delete = r.pending_delete
        /\ gone.count = NoCounter
    BY <1>1 DEF Row, Base, Fields
  <2>2. sched' = [sched EXCEPT ![s] = gone] /\ up' = up /\ RescheduleWake
    BY <1>3 DEF RemoveSchedule
  <2> HIDE DEF gone
  <2>3. Row(s, gone) /\ Tracked(s, gone)
    BY <1>1, <1>3, <2>1 DEF Row, Base, Timed, HasDeadline, CycleOK, Stored, Tracked, NoCounter
  <2> QED
    BY <2>2, <2>3, OneChanges
<1> QED
  BY <1>2, <1>3

\* PauseSchedule takes the row off the queue and reschedules the wake task.
LEMMA PauseKeeps ==
  ASSUME Inv, NEW s \in Schedules, PauseSchedule(s)
  PROVE  Inv'
<1> DEFINE r == sched[s]
           paused == [r EXCEPT !.state = "paused", !.queued = FALSE]
           t == IF paused.count = NoCounter THEN paused ELSE ResetCounter(paused)
<1>1. Row(s, r) /\ r.state \in {"armed", "running"}
  BY DEF Inv, PauseSchedule
<1>2. sched' = [sched EXCEPT ![s] = t] /\ up' = up /\ RescheduleWake
  BY DEF PauseSchedule
<1>3. /\ DOMAIN t = Fields /\ t.state = "paused" /\ t.run_count = r.run_count
      /\ t.next_run_at = r.next_run_at /\ t.active = r.active
      /\ t.pending_delete = r.pending_delete /\ t.processed = r.processed
      /\ t.timer = r.timer /\ t.failedMsg = r.failedMsg
      /\ t.count = IF r.count = NoCounter THEN NoCounter ELSE 0
  BY <1>1 DEF Row, Base, Fields, ResetCounter
<1> HIDE DEF t
<1>4. Row(s, t) /\ Tracked(s, t)
  BY <1>1, <1>3 DEF Row, Base, Timed, HasDeadline, CycleOK, Stored, Tracked, NoCounter
<1> QED
  BY <1>2, <1>4, OneChanges

\* A record that differs in messages on their way and in timers the actor
\* does not own.
Delivered(r, t) ==
    /\ DOMAIN t = Fields
    /\ t.state = r.state /\ t.run_count = r.run_count /\ t.next_run_at = r.next_run_at
    /\ t.active = r.active /\ t.pending_delete = r.pending_delete
    /\ t.processed = r.processed /\ t.count = r.count
    /\ t.timer = r.timer
    /\ t.queued <=> r.queued

\* Such a record keeps what is known of it, but for a failure taken off the mailbox.
LEMMA DeliveredRow ==
  ASSUME NEW s \in Schedules, NEW r, NEW t, Row(s, r), Delivered(r, t)
  PROVE  /\ Base(s, t) /\ (t.failedMsg = r.failedMsg => Row(s, t))
         /\ Tracked(s, r) <=> Tracked(s, t)
<1>1. Base(s, t)
  BY DEF Delivered, Row, Base, HasDeadline, CycleOK, Stored
<1>2. t.failedMsg = r.failedMsg => Timed(t)
  BY DEF Delivered, Row, Timed
<1>3. Tracked(s, r) <=> Tracked(s, t)
  BY DEF Delivered, Tracked
<1> QED
  BY <1>1, <1>2, <1>3 DEF Row

\* TriggerNow and DeadlineReached.
LEMMA FireFromQueueKeeps ==
  ASSUME Inv, NEW s \in Schedules, NEW r, FireFromQueue(s, r), Row(s, r)
  PROVE  Inv'
<1> DEFINE u == Unqueued(r)
<1>1. Row(s, u)
  BY UnqueuedRow DEF Row
<1>2. sched' = [sched EXCEPT ![s] = Fire(s, u)] /\ up' = up /\ RescheduleWake
  BY DEF FireFromQueue, Unqueued
<1> HIDE DEF u
<1>3. Row(s, Fire(s, u)) /\ Tracked(s, Fire(s, u))
  BY <1>1, FireFollows DEF Follows
<1> QED
  BY <1>2, <1>3, OneChanges

\* DeadlineReached.
LEMMA DeadlineKeeps ==
  ASSUME Inv, NEW s \in Schedules, DeadlineReached(s)
  PROVE  Inv'
<1> DEFINE r == [sched[s] EXCEPT !.deadlineMsg = FALSE]
<1>1. Row(s, sched[s]) /\ FireFromQueue(s, r)
  BY DEF Inv, DeadlineReached
<1>2. Delivered(sched[s], r) /\ r.failedMsg = sched[s].failedMsg
  BY <1>1 DEF Delivered, Row, Base, Fields
<1> HIDE DEF r
<1>3. Row(s, r)
  BY <1>1, <1>2, DeliveredRow
<1> QED
  BY <1>1, <1>3, FireFromQueueKeeps

\* A completion, also a late one.
LEMMA CompletedKeeps ==
  ASSUME Inv, NEW s \in Schedules, CycleCompleted(s)
  PROVE  Inv'
<1> DEFINE r == [sched[s] EXCEPT !.completedMsgs = @ - 1]
           t == Completed(s, r)
<1>1. Row(s, sched[s])
  BY DEF Inv
<1>2. /\ sched' = [sched EXCEPT ![s] = t] /\ up' = up
      /\ wake' = (wake \/ Enqueues(Completed, s, r))
  BY DEF CycleCompleted, Apply
<1>3. Delivered(sched[s], r) /\ r.deadlineMsg = sched[s].deadlineMsg
  BY <1>1 DEF Delivered, Row, Base, Fields
<1> HIDE DEF r
<1>4. Base(s, r) /\ (Tracked(s, sched[s]) <=> Tracked(s, r))
  BY <1>1, <1>3, DeliveredRow
<1>5. Follows(s, r, t, CompletedAdds(s, r)) /\ (Enqueues(Completed, s, r) <=> CompletedAdds(s, r))
  BY <1>4, CompletedFollows, EnqueuesAdds
<1> HIDE DEF t
<1>6. /\ Row(s, t) /\ (Tracked(s, sched[s]) => Tracked(s, t))
      /\ wake => wake'
      /\ t.queued => sched[s].queued \/ wake'
      /\ sched[s].deadlineMsg => t.deadlineMsg
  BY <1>2, <1>3, <1>4, <1>5 DEF Follows, Delivered
<1> QED
  BY <1>2, <1>6, OneChanges

\* A failure or timeout, also a late one or one dropped as a duplicate.
LEMMA FailedKeeps ==
  ASSUME Inv, NEW s \in Schedules, CycleFailed(s)
  PROVE  Inv'
<1> DEFINE r == [sched[s] EXCEPT !.failedMsg = FALSE]
           t == Failed(s, r)
<1>1. Row(s, sched[s])
  BY DEF Inv
<1>2. /\ sched' = [sched EXCEPT ![s] = t] /\ up' = up
      /\ wake' = (wake \/ Enqueues(Failed, s, r))
  BY DEF CycleFailed, Apply
<1>3. Delivered(sched[s], r) /\ r.deadlineMsg = sched[s].deadlineMsg
  BY <1>1 DEF Delivered, Row, Base, Fields
<1> HIDE DEF r
<1>4. Base(s, r) /\ (Tracked(s, sched[s]) <=> Tracked(s, r))
  BY <1>1, <1>3, DeliveredRow
<1>5. Follows(s, r, t, FailedAdds(s, r)) /\ (Enqueues(Failed, s, r) <=> FailedAdds(s, r))
  BY <1>4, FailedFollows, EnqueuesAdds
<1> HIDE DEF t
<1>6. /\ Row(s, t) /\ (Tracked(s, sched[s]) => Tracked(s, t))
      /\ wake => wake'
      /\ t.queued => sched[s].queued \/ wake'
      /\ sched[s].deadlineMsg => t.deadlineMsg
  BY <1>2, <1>3, <1>4, <1>5 DEF Follows, Delivered
<1> QED
  BY <1>2, <1>6, OneChanges

\* DebounceCompleted.
LEMMA DebouncedKeeps ==
  ASSUME Inv, NEW s \in Schedules, DebounceCompleted(s)
  PROVE  Inv'
<1> DEFINE r == [sched[s] EXCEPT !.debounceMsg = FALSE]
           t == FireDebounced(s, r)
<1>1. Row(s, sched[s])
  BY DEF Inv
<1>2. sched' = [sched EXCEPT ![s] = t] /\ up' = up /\ (wake => wake')
  BY DEF DebounceCompleted, Apply
<1>3. Delivered(sched[s], r) /\ r.deadlineMsg = sched[s].deadlineMsg
      /\ r.failedMsg = sched[s].failedMsg
  BY <1>1 DEF Delivered, Row, Base, Fields
<1> HIDE DEF r
<1>4. Row(s, r) /\ (Tracked(s, sched[s]) <=> Tracked(s, r))
  BY <1>1, <1>3, DeliveredRow
<1>5. Follows(s, r, t, FALSE)
  BY <1>4, DebouncedFollows
<1> HIDE DEF t
<1>6. /\ Row(s, t) /\ (Tracked(s, sched[s]) => Tracked(s, t))
      /\ t.queued => sched[s].queued \/ wake'
      /\ sched[s].deadlineMsg => t.deadlineMsg
  BY <1>2, <1>3, <1>4, <1>5 DEF Follows, Delivered
<1> QED
  BY <1>2, <1>6, OneChanges

\* process_event counts the event for every matching schedule.
LEMMA ProcessEventKeeps ==
  ASSUME Inv, NEW matching \in SUBSET Schedules, ProcessEvent(matching)
  PROVE  Inv'
<1>1. /\ DOMAIN sched' = Schedules /\ wake' = wake /\ up' = up
      /\ \A s \in Schedules :
            sched'[s] = IF s \in matching THEN CountEvent(s, sched[s]) ELSE sched[s]
  BY DEF ProcessEvent
<1>2. ASSUME NEW s \in Schedules
      PROVE  Follows(s, sched[s], sched'[s], FALSE)
  <2>1. Row(s, sched[s])
    BY DEF Inv
  <2>2. CASE s \in matching
    <3>1. sched[s].count # NoCounter
      BY <2>2 DEF ProcessEvent
    <3> QED
      BY <1>1, <2>1, <2>2, <3>1, CountEventFollows
  <2>3. CASE s \notin matching
    BY <1>1, <2>1, <2>3 DEF Follows
  <2> QED
    BY <2>2, <2>3
<1>3. \A s \in Schedules : Row(s, sched'[s]) /\ (up' => Tracked(s, sched'[s]))
  BY <1>1, <1>2 DEF Follows, Inv
<1>4. WakeNotLost'
  <2>1. \A s \in Schedules : /\ sched'[s].queued <=> sched[s].queued
                             /\ sched'[s].deadlineMsg = sched[s].deadlineMsg
    BY <1>2 DEF Follows
  <2> QED
    BY <1>1, <2>1 DEF Inv, WakeNotLost
<1> QED
  BY <1>1, <1>3, <1>4 DEF Inv

\* The reconciliation sweep.
LEMMA ReconcileKeeps ==
  ASSUME Inv, Reconcile
  PROVE  Inv'
<1>1. /\ DOMAIN sched' = Schedules /\ up' = up
      /\ \A s \in Schedules : sched'[s] = Sweep(s, sched[s])
      /\ wake' = (wake \/ \E s \in Schedules : Enqueues(Sweep, s, sched[s]))
  BY DEF Reconcile
<1>2. ASSUME NEW s \in Schedules
      PROVE  /\ Follows(s, sched[s], sched'[s], SweepAdds(s, sched[s]))
             /\ Enqueues(Sweep, s, sched[s]) <=> SweepAdds(s, sched[s])
  <2>1. Row(s, sched[s])
    BY DEF Inv
  <2> QED
    BY <1>1, <2>1, SweepFollows, EnqueuesAdds DEF Row
<1>3. \A s \in Schedules : Row(s, sched'[s]) /\ (up' => Tracked(s, sched'[s]))
  BY <1>1, <1>2 DEF Follows, Inv
<1>4. WakeNotLost'
  <2>1. \A s \in Schedules :
           /\ sched'[s].queued => sched[s].queued \/ Enqueues(Sweep, s, sched[s])
           /\ sched'[s].deadlineMsg = sched[s].deadlineMsg
    BY <1>2 DEF Follows
  <2>2. \A s \in Schedules : Enqueues(Sweep, s, sched[s]) => wake'
    BY <1>1
  <2>3. wake => wake'
    BY <1>1
  <2> QED
    BY <2>1, <2>2, <2>3 DEF Inv, WakeNotLost
<1> QED
  BY <1>1, <1>3, <1>4 DEF Inv

\* Shutdown and Crash.
LEMMA StopKeeps ==
  ASSUME Inv, Shutdown \/ Crash
  PROVE  Inv'
<1>1. DOMAIN sched' = Schedules /\ up' = FALSE
  BY DEF Shutdown, Crash
<1>2. ASSUME NEW s \in Schedules
      PROVE  Row(s, sched'[s]) /\ ~sched'[s].queued
  <2>1. Row(s, sched[s])
    BY DEF Inv
  <2>2. CASE Crash
    <3>1. sched'[s] = [Forget(sched[s]) EXCEPT !.turns = 0]
      BY <2>2 DEF Crash
    <3> QED
      BY <2>1, <3>1, ForgetRow
  <2>3. CASE Shutdown
    <3>1. sched'[s] = [Forget(sched[s]) EXCEPT !.turns = sched[s].turns]
      BY <2>3 DEF Shutdown, Forget, Fresh
    <3> QED
      BY <2>1, <3>1, ForgetRow
  <2> QED
    BY <2>2, <2>3
<1>3. WakeNotLost'
  BY <1>2 DEF WakeNotLost
<1> QED
  BY <1>1, <1>2, <1>3 DEF Inv

\* A new actor.
LEMMA SpawnKeeps ==
  ASSUME Inv, Spawn
  PROVE  Inv'
<1>1. /\ DOMAIN sched' = Schedules /\ RescheduleWake
      /\ \A s \in Schedules : sched'[s] = Recover(s, sched[s])
  BY DEF Spawn
<1>2. \A s \in Schedules : Row(s, sched'[s]) /\ Tracked(s, sched'[s])
  BY <1>1, RecoverTracks DEF Inv
<1>3. WakeNotLost'
  BY <1>1 DEF RescheduleWake, WakeNotLost
<1> QED
  BY <1>1, <1>2, <1>3 DEF Inv

\* What timers, the clock and the sessions may do to a record: the deadline
\* comes nearer, a timeout becomes a failure on its way, other messages come.
Ripened(r, t) ==
    /\ DOMAIN t = Fields
    /\ t.state = r.state /\ t.run_count = r.run_count /\ t.count = r.count
    /\ t.next_run_at \in {r.next_run_at, "due"}
    /\ t.active = r.active /\ t.pending_delete = r.pending_delete
    /\ t.processed = r.processed
    /\ r.timer \/ r.failedMsg => t.timer \/ t.failedMsg
    /\ t.queued <=> r.queued
    /\ r.deadlineMsg => t.deadlineMsg

\* A step of that kind keeps the invariant if the wake task stays or its message is sent.
LEMMA TouchKeeps ==
  ASSUME Inv, NEW s \in Schedules, NEW t, Touch(s, t), Ripened(sched[s], t),
         wake => wake' \/ t.deadlineMsg
  PROVE  Inv'
<1>1. sched' = [sched EXCEPT ![s] = t] /\ up' = up
  BY DEF Touch
<1>2. Tracked(s, sched[s]) => Tracked(s, t)
  BY DEF Ripened, Tracked
<1>3. Row(s, sched[s])
  BY DEF Inv
<1>4. Row(s, t)
  BY <1>3 DEF Ripened, Row, Base, Timed, HasDeadline, CycleOK, Stored
<1>5. /\ t.queued => sched[s].queued \/ wake'
      /\ sched[s].deadlineMsg => t.deadlineMsg
  BY DEF Ripened
<1> QED
  BY <1>1, <1>2, <1>4, <1>5, OneChanges

\* Timers, the clock and the sessions.
LEMMA EnvironmentKeeps ==
  ASSUME Inv, NEW s \in Schedules, Environment(s)
  PROVE  Inv'
<1> DEFINE r == sched[s]
<1>1. DOMAIN r = Fields
  BY DEF Inv, Row, Base
<1>2. CASE WakeFires(s)
  <2> DEFINE t == [r EXCEPT !.deadlineMsg = TRUE]
  <2>1. Touch(s, t) /\ Ripened(r, t) /\ t.deadlineMsg
    BY <1>1, <1>2 DEF WakeFires, Ripened, Fields
  <2> HIDE DEF t
  <2> QED
    BY <2>1, TouchKeeps
<1>3. CASE TimeoutFires(s)
  <2> DEFINE t == [r EXCEPT !.timer = FALSE, !.failedMsg = TRUE]
             u == [r EXCEPT !.looseTimer = FALSE, !.failedMsg = TRUE]
  <2>1. (Touch(s, t) \/ Touch(s, u)) /\ wake' = wake
    BY <1>3 DEF TimeoutFires
  <2>2. Ripened(r, t) /\ Ripened(r, u)
    BY <1>1 DEF Ripened, Fields
  <2> HIDE DEF t, u
  <2> QED
    BY <2>1, <2>2, TouchKeeps
<1>4. CASE DebounceElapses(s)
  <2> DEFINE t == [r EXCEPT !.debouncing = FALSE, !.debounceMsg = TRUE]
             u == [r EXCEPT !.looseDebounce = FALSE, !.debounceMsg = TRUE]
  <2>1. (Touch(s, t) \/ Touch(s, u)) /\ wake' = wake
    BY <1>4 DEF DebounceElapses
  <2>2. Ripened(r, t) /\ Ripened(r, u)
    BY <1>1 DEF Ripened, Fields
  <2> HIDE DEF t, u
  <2> QED
    BY <2>1, <2>2, TouchKeeps
<1>5. CASE TimePasses(s)
  <2> DEFINE t == [r EXCEPT !.next_run_at = "due"]
             u == [r EXCEPT !.last_run_at = "old"]
  <2>1. (Touch(s, t) \/ Touch(s, u)) /\ wake' = wake
    BY <1>5 DEF TimePasses
  <2>2. Ripened(r, t) /\ Ripened(r, u)
    BY <1>1 DEF Ripened, Fields
  <2> HIDE DEF t, u
  <2> QED
    BY <2>1, <2>2, TouchKeeps
<1>6. CASE TurnEnds(s)
  <2> DEFINE e == [r EXCEPT !.turns = @ - 1]
             t == [e EXCEPT !.completedMsgs = @ + 1]
             u == [e EXCEPT !.failedMsg = TRUE]
  <2>1. (Touch(s, t) \/ Touch(s, u) \/ Touch(s, e)) /\ wake' = wake
    BY <1>6 DEF TurnEnds
  <2>2. Ripened(r, t) /\ Ripened(r, u) /\ Ripened(r, e)
    BY <1>1 DEF Ripened, Fields
  <2> HIDE DEF e, t, u
  <2> QED
    BY <2>1, <2>2, TouchKeeps
<1>7. CASE SessionChanges(s)
  BY <1>7 DEF SessionChanges, Inv, WakeNotLost
<1>8. CASE DeleteSession(s)
  <2> DEFINE t == [r EXCEPT !.state = "deleted"]
  <2>1. Touch(s, t) /\ wake' = wake
    BY <1>8 DEF DeleteSession
  <2>2. /\ DOMAIN t = Fields /\ t.state = "deleted"
        /\ \A f \in Fields \ {"state"} : t[f] = r[f]
    BY <1>1 DEF Fields
  <2> HIDE DEF t
  <2>3. Row(s, t) /\ Tracked(s, t)
    BY <2>2 DEF Inv, Row, Base, Timed, HasDeadline, CycleOK, Tracked, Fields
  <2>4. sched' = [sched EXCEPT ![s] = t] /\ up' = up
    BY <2>1 DEF Touch
  <2>5. /\ t.queued => r.queued \/ wake'
        /\ r.deadlineMsg => t.deadlineMsg
    BY <2>2 DEF Fields
  <2> QED
    BY <2>1, <2>3, <2>4, <2>5, OneChanges
<1> QED
  BY <1>2, <1>3, <1>4, <1>5, <1>6, <1>7, <1>8 DEF Environment

-----------------------------------------------------------------------------
\* A new actor without schedules.
LEMMA InitInv == Init => Inv
<1> SUFFICES ASSUME Init PROVE Inv
  OBVIOUS
<1>1. DOMAIN sched = Schedules /\ \A s \in Schedules : sched[s] = Fresh
  BY DEF Init
<1>2. \A s \in Schedules : Row(s, Fresh) /\ Tracked(s, Fresh)
  BY DEF Row, Base, Timed, HasDeadline, CycleOK, Tracked, Fresh, Fields, NoCounter
<1>3. ~Fresh.queued
  BY DEF Fresh
<1> QED
  BY <1>1, <1>2, <1>3 DEF Inv, WakeNotLost

\* Every step keeps the invariant.
LEMMA NextInv == Inv /\ [Next]_vars => Inv'
<1> SUFFICES ASSUME Inv, [Next]_vars PROVE Inv'
  OBVIOUS
<1>1. CASE Reconcile
  BY <1>1, ReconcileKeeps
<1>2. CASE Shutdown \/ Crash
  BY <1>2, StopKeeps
<1>3. CASE Spawn
  BY <1>3, SpawnKeeps
<1>4. CASE \E matching \in SUBSET Schedules : ProcessEvent(matching)
  BY <1>4, ProcessEventKeeps
<1>5. ASSUME NEW s \in Schedules, Control(s)
      PROVE  Inv'
  <2>1. CASE TriggerNow(s)
    BY <2>1, FireFromQueueKeeps DEF TriggerNow, Inv
  <2> QED
    BY <1>5, <2>1, AddKeeps, RemoveKeeps, PauseKeeps, ResumeKeeps DEF Control
<1>6. ASSUME NEW s \in Schedules, Handle(s)
      PROVE  Inv'
  BY <1>6, DeadlineKeeps, CompletedKeeps, FailedKeeps, DebouncedKeeps DEF Handle
<1>7. ASSUME NEW s \in Schedules, Environment(s)
      PROVE  Inv'
  BY <1>7, EnvironmentKeeps
<1>8. CASE UNCHANGED vars
  BY <1>8 DEF vars, Inv, WakeNotLost
<1> QED
  BY <1>1, <1>2, <1>3, <1>4, <1>5, <1>6, <1>7, <1>8 DEF Next

\* The invariant holds in every reachable state.
LEMMA SpecInv == Spec => []Inv
  BY InitInv, NextInv, PTL DEF Spec

\* While the actor runs every armed schedule is in the deadline queue or has
\* an event counter: enqueue_schedule is reached on every path that arms a
\* row, whatever messages are late.
THEOREM ArmedTracked == Spec => []ArmedIsTracked
<1>1. Inv => ArmedIsTracked
  BY DEF Inv, Tracked, ArmedIsTracked
<1> QED
  BY <1>1, SpecInv, PTL

\* A queued deadline always has a wake task or a DeadlineReached on its way.
THEOREM WakeKept == Spec => []WakeNotLost
<1>1. Inv => WakeNotLost
  BY DEF Inv
<1> QED
  BY <1>1, SpecInv, PTL

\* A deferred delete has an active cycle and a row to delete.
THEOREM DeleteDeferred == Spec => []PendingDeleteHasCycle
<1>1. Inv => PendingDeleteHasCycle
  BY DEF Inv, Row, Base, CycleOK, Stored, PendingDeleteHasCycle
<1> QED
  BY <1>1, SpecInv, PTL

\* Until the schedule's first failure is processed, an active cycle has its
\* timeout or a failure on its way.
THEOREM CycleTimed == Spec => []CycleHasTimeout
<1>1. Inv => CycleHasTimeout
  BY DEF Inv, Row, Timed, CycleHasTimeout
<1> QED
  BY <1>1, SpecInv, PTL

-----------------------------------------------------------------------------
(***************************************************************************)
(* Type correctness.                                                       *)
(***************************************************************************)

\* TypeOK for one record.
Typed(r) == r \in Record /\ r.count \in NoCounter..Threshold

\* enqueue_schedule, the end of a cycle, the deferred delete and the reset of
\* an event counter.
LEMMA PartsTyped ==
  ASSUME NEW s \in Schedules, NEW r, Typed(r)
  PROVE  /\ Typed(Enqueue(s, r)) /\ Enqueue(s, r).turns = r.turns
         /\ Typed(EndCycle(r)) /\ EndCycle(r).turns = r.turns
         /\ Typed(DeletePending(r)) /\ DeletePending(r).turns = r.turns
         /\ Typed(ResetCounter(r)) /\ ResetCounter(r).turns = r.turns
<1>0. r \in Record /\ r.count \in NoCounter..Threshold /\ 0 \in NoCounter..Threshold
  BY SchedulerAssumption DEF Typed, NoCounter
<1>1. Typed(Enqueue(s, r)) /\ Enqueue(s, r).turns = r.turns
  <2>1. CASE Trigger[s] = "event"
    <3>0. PICK zero \in Int : zero = 0
      OBVIOUS
    <3> DEFINE loose == r.looseDebounce \/ r.debouncing
               t == [r EXCEPT !.count = zero, !.debouncing = FALSE, !.looseDebounce = loose]
    <3>1. Enqueue(s, r) = t /\ loose \in BOOLEAN
      BY <2>1, <3>0 DEF Enqueue
    <3> HIDE DEF loose
    <3>2. t \in Record /\ t.turns = r.turns /\ t.count = zero
      BY <1>0, <3>1 DEF Record
    <3> HIDE DEF t
    <3> QED
      BY <1>0, <3>0, <3>1, <3>2 DEF Typed
  <2>2. CASE Trigger[s] # "event"
    <3> DEFINE queued == r.queued \/ r.next_run_at # "none"
               t == [r EXCEPT !.queued = queued]
    <3>1. Enqueue(s, r) = t /\ queued \in BOOLEAN
      BY <2>2 DEF Enqueue
    <3> HIDE DEF queued
    <3>2. t \in Record /\ t.turns = r.turns /\ t.count = r.count
      BY <1>0, <3>1 DEF Record
    <3> HIDE DEF t
    <3> QED
      BY <1>0, <3>1, <3>2 DEF Typed
  <2> QED
    BY <2>1, <2>2
<1>2. Typed(EndCycle(r)) /\ EndCycle(r).turns = r.turns
  BY DEF Typed, Record, EndCycle
<1>3. Typed(DeletePending(r)) /\ DeletePending(r).turns = r.turns
  <2> DEFINE t == [r EXCEPT !.pending_delete = FALSE, !.state = "deleted"]
  <2>1. DeletePending(r) = r \/ DeletePending(r) = t
    BY DEF DeletePending
  <2>2. t \in Record /\ t.turns = r.turns /\ t.count = r.count
    BY <1>0 DEF Record
  <2> HIDE DEF t
  <2> QED
    BY <1>0, <2>1, <2>2 DEF Typed
<1>4. Typed(ResetCounter(r)) /\ ResetCounter(r).turns = r.turns
  <2>0. PICK zero \in Int : zero = 0
    OBVIOUS
  <2> DEFINE t == [r EXCEPT !.count = zero, !.debouncing = FALSE]
  <2>1. t \in Record /\ t.turns = r.turns /\ t.count = zero
    BY <1>0 DEF Record
  <2>2. ResetCounter(r) = t
    BY <2>0 DEF ResetCounter
  <2> HIDE DEF t
  <2> QED
    BY <1>0, <2>0, <2>1, <2>2 DEF Typed
<1> QED
  BY <1>1, <1>2, <1>3, <1>4

\* handle_cycle_completed.
LEMMA CompletedTyped ==
  ASSUME NEW s \in Schedules, NEW r, Typed(r)
  PROVE  Typed(Completed(s, r))
<1> USE SchedulerAssumption
<1> DEFINE ended == EndCycle(r)
           runs  == Saturated(r.run_count + 1, RunCap)
           next  == IF Trigger[s] = "interval" THEN "future" ELSE r.next_run_at
           ran   == [ended EXCEPT !.run_count = runs, !.consecutive_failures = 0,
                                  !.last_run_at = "recent"]
           final == [ran EXCEPT !.state = "exhausted", !.next_run_at = "none"]
           again == [ran EXCEPT !.state = "armed", !.next_run_at = next]
<1>1. Typed(ended)
  BY PartsTyped
<1>2. runs \in 0..RunCap /\ next \in {"none", "future", "due"}
  BY DEF Typed, Record, Saturated
<1>3. Completed(s, r) \in {ended, DeletePending(final), DeletePending(Enqueue(s, again))}
  BY DEF Completed
<1> HIDE DEF ended, runs, next
<1>4. Typed(ran)
  <2>0. PICK zero \in 0..MaxFailures : zero = 0
    OBVIOUS
  <2> DEFINE t == [ended EXCEPT !.run_count = runs, !.consecutive_failures = zero,
                                !.last_run_at = "recent"]
  <2>1. t \in Record /\ t.count = ended.count
    BY <1>1, <1>2 DEF Typed, Record
  <2> QED
    BY <1>1, <2>0, <2>1 DEF Typed
<1> HIDE DEF ran
<1>5. Typed(final) /\ Typed(again)
  BY <1>2, <1>4 DEF Typed, Record
<1> HIDE DEF final, again
<1>6. Typed(DeletePending(final)) /\ Typed(DeletePending(Enqueue(s, again)))
  BY <1>5, PartsTyped
<1> QED
  BY <1>1, <1>3, <1>6

\* handle_cycle_failed_inner.
LEMMA FailedTyped ==
  ASSUME NEW s \in Schedules, NEW r, Typed(r)
  PROVE  Typed(Failed(s, r)) /\ Failed(s, r).turns = r.turns
<1> USE SchedulerAssumption
<1> DEFINE closed == EndCycle(r)
           ended  == [closed EXCEPT !.processed = TRUE]
           fails  == Saturated(r.consecutive_failures + 1, MaxFailures)
           ran    == [ended EXCEPT !.consecutive_failures = fails, !.last_run_at = "recent"]
           final  == [ran EXCEPT !.state = "failed", !.next_run_at = "none"]
           again  == [ran EXCEPT !.state = "armed", !.next_run_at = "future"]
<1>1. Typed(closed) /\ closed.turns = r.turns
  BY PartsTyped
<1>2. fails \in 0..MaxFailures
  BY DEF Typed, Record, Saturated
<1>3. Failed(s, r) \in {r, ended, DeletePending(final), DeletePending(Enqueue(s, again))}
  BY DEF Failed
<1> HIDE DEF closed, fails
<1>4. Typed(ended) /\ ended.turns = r.turns
  BY <1>1 DEF Typed, Record
<1> HIDE DEF ended
<1>5. Typed(ran) /\ ran.turns = r.turns
  BY <1>2, <1>4 DEF Typed, Record
<1> HIDE DEF ran
<1>6. Typed(final) /\ Typed(again) /\ final.turns = r.turns /\ again.turns = r.turns
  BY <1>5 DEF Typed, Record
<1> HIDE DEF final, again
<1>7. Typed(DeletePending(final)) /\ DeletePending(final).turns = r.turns
  BY <1>6, PartsTyped
<1>8. Typed(Enqueue(s, again)) /\ Enqueue(s, again).turns = r.turns
  BY <1>6, PartsTyped
<1>9. Typed(DeletePending(Enqueue(s, again))) /\ DeletePending(Enqueue(s, again)).turns = r.turns
  BY <1>8, PartsTyped
<1> QED
  BY <1>3, <1>4, <1>7, <1>9

\* fire_schedule, below the bound on outstanding turns.
LEMMA FireTyped ==
  ASSUME NEW s \in Schedules, NEW r, Typed(r), MayFire(r)
  PROVE  Typed(Fire(s, r))
<1> USE SchedulerAssumption
<1> DEFINE run == [r EXCEPT !.state = "running"]
<1>1. Typed(StartCycle(r))
  <2> DEFINE turns == r.turns + 1
             loose == r.looseTimer \/ r.timer
             t == [r EXCEPT !.state = "running", !.turns = turns, !.active = TRUE,
                            !.timer = TRUE, !.looseTimer = loose]
  <2>1. StartCycle(r) = t /\ loose \in BOOLEAN
    BY DEF StartCycle
  <2>2. turns \in 0..MaxTurns
    BY DEF Typed, Record, MayFire
  <2> HIDE DEF turns, loose
  <2>3. t \in Record /\ t.count = r.count
    BY <2>1, <2>2 DEF Typed, Record
  <2> HIDE DEF t
  <2> QED
    BY <2>1, <2>3 DEF Typed
<1>2. Typed(run)
  BY DEF Typed, Record
<1>3. Fire(s, r) \in {r, StartCycle(r), Failed(s, run)}
  BY DEF Fire
<1> HIDE DEF run
<1>4. Typed(Failed(s, run))
  BY <1>2, FailedTyped
<1> QED
  BY <1>1, <1>3, <1>4

\* The sweep, a restart, one event and a debounced one.
LEMMA HandlersTyped ==
  ASSUME NEW s \in Schedules, NEW r, Typed(r)
  PROVE  /\ Typed(Recover(s, r))
         /\ MayFire(r) => Typed(Sweep(s, r))
         /\ MayFire(r) => Typed(FireDebounced(s, r))
         /\ MayFire(r) => Typed(CountEvent(s, r))
<1> USE SchedulerAssumption
<1>1. Typed(Recover(s, r))
  BY FailedTyped, PartsTyped DEF Recover
<1>2. MayFire(r) => Typed(Sweep(s, r))
  BY FailedTyped, FireTyped DEF Sweep, MayFire
<1>3. MayFire(r) => Typed(FireDebounced(s, r))
  BY FireTyped, PartsTyped DEF FireDebounced, MayFire
<1>4. ASSUME MayFire(r)
      PROVE  Typed(CountEvent(s, r))
  <2> DEFINE counted == [r EXCEPT !.count = Saturated(@ + 1, Threshold)]
             waiting == [counted EXCEPT !.debouncing = TRUE]
  <2>1. Typed(counted) /\ counted.turns = r.turns
    BY DEF Typed, Record, Saturated, NoCounter
  <2>2. CountEvent(s, r) \in {counted, waiting, Fire(s, ResetCounter(counted))}
    BY DEF CountEvent
  <2> HIDE DEF counted
  <2>3. Typed(waiting)
    BY <2>1 DEF Typed, Record
  <2>4. Typed(ResetCounter(counted)) /\ MayFire(ResetCounter(counted))
    BY <1>4, <2>1, PartsTyped DEF MayFire
  <2>5. Typed(Fire(s, ResetCounter(counted)))
    BY <2>4, FireTyped
  <2> QED
    BY <2>1, <2>2, <2>3, <2>5
<1> QED
  BY <1>1, <1>2, <1>3, <1>4

\* A step that changes one record.
LEMMA OneTyped ==
  ASSUME TypeOK, NEW s \in Schedules, NEW t, Typed(t),
         sched' = [sched EXCEPT ![s] = t], UNCHANGED <<up, registered>>, wake' \in BOOLEAN
  PROVE  TypeOK'
  BY DEF TypeOK, Typed

\* A step that changes every record.
LEMMA AllTyped ==
  ASSUME TypeOK, \A s \in Schedules : Typed(sched'[s]),
         sched' = [s \in Schedules |-> sched'[s]],
         up' \in BOOLEAN, UNCHANGED registered, wake' \in BOOLEAN
  PROVE  TypeOK'
  BY DEF TypeOK, Typed

\* Requests of users.
LEMMA ControlTyped ==
  ASSUME TypeOK, NEW s \in Schedules, Control(s)
  PROVE  TypeOK'
<1> USE SchedulerAssumption
<1>0. Typed(sched[s])
  BY DEF TypeOK, Typed
<1>1. CASE AddSchedule(s)
  <2>1. PICK next \in {"future", "due"} :
           Apply(Enqueue, s, [sched[s] EXCEPT !.state = "armed",
                    !.next_run_at = IF Trigger[s] = "event" THEN "none" ELSE next])
    BY <1>1 DEF AddSchedule
  <2> DEFINE r == [sched[s] EXCEPT !.state = "armed",
                    !.next_run_at = IF Trigger[s] = "event" THEN "none" ELSE next]
  <2>2. Typed(r)
    BY <1>0 DEF Typed, Record
  <2>3. sched' = [sched EXCEPT ![s] = Enqueue(s, r)] /\ wake' \in BOOLEAN
        /\ UNCHANGED <<up, registered>>
    BY <2>1 DEF Apply
  <2> HIDE DEF r
  <2> QED
    BY <2>2, <2>3, PartsTyped, OneTyped
<1>2. CASE RemoveSchedule(s)
  <2> DEFINE deferred == [sched[s] EXCEPT !.pending_delete = TRUE]
             removed  == [sched[s] EXCEPT !.state = "deleted", !.queued = FALSE,
                             !.count = NoCounter, !.debouncing = FALSE,
                             !.looseDebounce = @ \/ sched[s].debouncing]
  <2>1. /\ sched' = [sched EXCEPT ![s] = deferred] \/ sched' = [sched EXCEPT ![s] = removed]
        /\ wake' \in BOOLEAN /\ UNCHANGED <<up, registered>>
    BY <1>2 DEF RemoveSchedule, RescheduleWake, TypeOK
  <2>2. Typed(deferred)
    BY <1>0 DEF Typed, Record
  <2>3. Typed(removed)
    <3> DEFINE loose == sched[s].looseDebounce \/ sched[s].debouncing
               t == [sched[s] EXCEPT !.state = "deleted", !.queued = FALSE, !.count = NoCounter,
                                     !.debouncing = FALSE, !.looseDebounce = loose]
    <3>1. /\ removed = t /\ loose \in BOOLEAN
          /\ NoCounter \in NoCounter..Threshold /\ NoCounter \in Int
      BY DEF NoCounter
    <3> HIDE DEF loose
    <3>2. t \in Record /\ t.count = NoCounter
      BY <1>0, <3>1 DEF Typed, Record
    <3> HIDE DEF t
    <3> QED
      BY <3>1, <3>2 DEF Typed
  <2> HIDE DEF deferred, removed
  <2> QED
    BY <2>1, <2>2, <2>3, OneTyped
<1>3. CASE PauseSchedule(s)
  <2> DEFINE paused == [sched[s] EXCEPT !.state = "paused", !.queued = FALSE]
  <2>1. /\ \/ sched' = [sched EXCEPT ![s] = paused]
           \/ sched' = [sched EXCEPT ![s] = ResetCounter(paused)]
        /\ wake' \in BOOLEAN /\ UNCHANGED <<up, registered>>
    BY <1>3 DEF PauseSchedule, RescheduleWake
  <2>2. Typed(paused)
    BY <1>0 DEF Typed, Record
  <2> HIDE DEF paused
  <2> QED
    BY <2>1, <2>2, PartsTyped, OneTyped
<1>4. CASE ResumeSchedule(s)
  <2> DEFINE r == [sched[s] EXCEPT !.state = "armed",
                      !.next_run_at = IF Trigger[s] = "interval" THEN "future" ELSE @]
  <2>1. sched' = [sched EXCEPT ![s] = Enqueue(s, r)] /\ wake' \in BOOLEAN
        /\ UNCHANGED <<up, registered>>
    BY <1>4 DEF ResumeSchedule, Apply
  <2>2. Typed(r)
    BY <1>0 DEF Typed, Record
  <2> HIDE DEF r
  <2> QED
    BY <2>1, <2>2, PartsTyped, OneTyped
<1>5. CASE TriggerNow(s)
  <2> DEFINE u == [sched[s] EXCEPT !.queued = FALSE]
  <2>1. sched' = [sched EXCEPT ![s] = Fire(s, u)] /\ wake' \in BOOLEAN
        /\ UNCHANGED <<up, registered>> /\ MayFire(sched[s])
    BY <1>5 DEF TriggerNow, FireFromQueue, RescheduleWake
  <2>2. Typed(u) /\ MayFire(u)
    BY <1>0, <2>1 DEF Typed, Record, MayFire
  <2> HIDE DEF u
  <2> QED
    BY <2>1, <2>2, FireTyped, OneTyped
<1> QED
  BY <1>1, <1>2, <1>3, <1>4, <1>5 DEF Control

\* Messages of timers and turns.
LEMMA HandleTyped ==
  ASSUME TypeOK, NEW s \in Schedules, Handle(s)
  PROVE  TypeOK'
<1> USE SchedulerAssumption
<1>0. Typed(sched[s])
  BY DEF TypeOK, Typed
<1>1. CASE DeadlineReached(s)
  <2> DEFINE u == [[sched[s] EXCEPT !.deadlineMsg = FALSE] EXCEPT !.queued = FALSE]
  <2>1. sched' = [sched EXCEPT ![s] = Fire(s, u)] /\ wake' \in BOOLEAN
        /\ UNCHANGED <<up, registered>>
    BY <1>1 DEF DeadlineReached, FireFromQueue, RescheduleWake
  <2>2. MayFire([sched[s] EXCEPT !.deadlineMsg = FALSE])
    BY <1>1 DEF DeadlineReached, FireFromQueue
  <2>3. Typed(u) /\ MayFire(u)
    BY <1>0, <2>2 DEF Typed, Record, MayFire
  <2> HIDE DEF u
  <2> QED
    BY <2>1, <2>3, FireTyped, OneTyped
<1>2. CASE CycleCompleted(s)
  <2> DEFINE r == [sched[s] EXCEPT !.completedMsgs = @ - 1]
  <2>1. sched' = [sched EXCEPT ![s] = Completed(s, r)] /\ wake' \in BOOLEAN
        /\ UNCHANGED <<up, registered>> /\ sched[s].completedMsgs > 0
    BY <1>2 DEF CycleCompleted, Apply
  <2>2. Typed(r)
    BY <1>0, <2>1 DEF Typed, Record
  <2> HIDE DEF r
  <2> QED
    BY <2>1, <2>2, CompletedTyped, OneTyped
<1>3. CASE CycleFailed(s)
  <2> DEFINE r == [sched[s] EXCEPT !.failedMsg = FALSE]
  <2>1. sched' = [sched EXCEPT ![s] = Failed(s, r)] /\ wake' \in BOOLEAN
        /\ UNCHANGED <<up, registered>>
    BY <1>3 DEF CycleFailed, Apply
  <2>2. Typed(r)
    BY <1>0 DEF Typed, Record
  <2> HIDE DEF r
  <2> QED
    BY <2>1, <2>2, FailedTyped, OneTyped
<1>4. CASE DebounceCompleted(s)
  <2> DEFINE r == [sched[s] EXCEPT !.debounceMsg = FALSE]
  <2>1. sched' = [sched EXCEPT ![s] = FireDebounced(s, r)] /\ wake' \in BOOLEAN
        /\ UNCHANGED <<up, registered>> /\ MayFire(sched[s])
    BY <1>4 DEF DebounceCompleted, Apply
  <2>2. Typed(r) /\ MayFire(r)
    BY <1>0, <2>1 DEF Typed, Record, MayFire
  <2> HIDE DEF r
  <2> QED
    BY <2>1, <2>2, HandlersTyped, OneTyped
<1> QED
  BY <1>1, <1>2, <1>3, <1>4 DEF Handle

\* Timers, the clock and the sessions.
LEMMA EnvironmentTyped ==
  ASSUME TypeOK, NEW s \in Schedules, Environment(s)
  PROVE  TypeOK'
<1> USE SchedulerAssumption
<1> DEFINE r == sched[s]
<1>0. Typed(r) /\ wake \in BOOLEAN
  BY DEF TypeOK, Typed
<1>1. ASSUME NEW t, Touch(s, t), Typed(t), wake' \in BOOLEAN
      PROVE  TypeOK'
  BY <1>1, OneTyped DEF Touch
<1>2. CASE WakeFires(s)
  <2>1. Typed([r EXCEPT !.deadlineMsg = TRUE])
    BY <1>0 DEF Typed, Record
  <2> QED
    BY <1>1, <1>2, <2>1 DEF WakeFires
<1>3. CASE TimeoutFires(s)
  <2>1. /\ Typed([r EXCEPT !.timer = FALSE, !.failedMsg = TRUE])
        /\ Typed([r EXCEPT !.looseTimer = FALSE, !.failedMsg = TRUE])
    BY <1>0 DEF Typed, Record
  <2> QED
    BY <1>0, <1>1, <1>3, <2>1 DEF TimeoutFires
<1>4. CASE DebounceElapses(s)
  <2>1. /\ Typed([r EXCEPT !.debouncing = FALSE, !.debounceMsg = TRUE])
        /\ Typed([r EXCEPT !.looseDebounce = FALSE, !.debounceMsg = TRUE])
    BY <1>0 DEF Typed, Record
  <2> QED
    BY <1>0, <1>1, <1>4, <2>1 DEF DebounceElapses
<1>5. CASE TimePasses(s)
  <2>1. Typed([r EXCEPT !.next_run_at = "due"]) /\ Typed([r EXCEPT !.last_run_at = "old"])
    BY <1>0 DEF Typed, Record
  <2> QED
    BY <1>0, <1>1, <1>5, <2>1 DEF TimePasses
<1>6. CASE TurnEnds(s)
  <2> DEFINE e == [r EXCEPT !.turns = @ - 1]
             t == [e EXCEPT !.completedMsgs = @ + 1]
             u == [e EXCEPT !.failedMsg = TRUE]
  <2>1. /\ (Touch(s, t) /\ e.completedMsgs < MaxTurns) \/ Touch(s, u) \/ Touch(s, e)
        /\ wake' = wake /\ r.turns > 0
    BY <1>6 DEF TurnEnds
  <2>2. Typed(e)
    BY <1>0, <2>1 DEF Typed, Record
  <2> HIDE DEF e
  <2>3. Typed(u)
    BY <2>2 DEF Typed, Record
  <2>4. ASSUME e.completedMsgs < MaxTurns PROVE Typed(t)
    <3>1. PICK n : n = e.completedMsgs + 1
      OBVIOUS
    <3>2. n \in 0..MaxTurns
      BY <2>2, <2>4, <3>1 DEF Typed, Record
    <3>3. [e EXCEPT !.completedMsgs = n] \in Record /\ [e EXCEPT !.completedMsgs = n].count = e.count
      BY <2>2, <3>2 DEF Typed, Record
    <3> QED
      BY <2>2, <3>1, <3>3 DEF Typed
  <2> HIDE DEF t, u
  <2> QED
    BY <1>0, <1>1, <2>1, <2>2, <2>3, <2>4
<1>7. CASE SessionChanges(s)
  BY <1>7 DEF SessionChanges, TypeOK
<1>8. CASE DeleteSession(s)
  <2> DEFINE t == [r EXCEPT !.state = "deleted"]
  <2>1. Touch(s, t) /\ wake' = wake
    BY <1>8 DEF DeleteSession
  <2>2. Typed(t)
    BY <1>0 DEF Typed, Record
  <2> HIDE DEF t
  <2> QED
    BY <1>0, <1>1, <2>1, <2>2
<1> QED
  BY <1>2, <1>3, <1>4, <1>5, <1>6, <1>7, <1>8 DEF Environment

\* The steps about all schedules.
LEMMA GlobalTyped ==
  ASSUME TypeOK,
         Reconcile \/ Shutdown \/ Crash \/ Spawn
            \/ \E matching \in SUBSET Schedules : ProcessEvent(matching)
  PROVE  TypeOK'
<1> USE SchedulerAssumption
<1>0. \A s \in Schedules : Typed(sched[s])
  BY DEF TypeOK, Typed
<1>1. wake \in BOOLEAN /\ up \in BOOLEAN
  BY DEF TypeOK
<1>2. ASSUME NEW s \in Schedules
      PROVE  Typed(Forget(sched[s])) /\ Typed([Forget(sched[s]) EXCEPT !.turns = 0])
  <2>1. Typed(Fresh)
    BY DEF Typed, Record, Fresh, NoCounter
  <2>2. Typed(Forget(sched[s]))
    BY <1>0, <2>1 DEF Typed, Record, Forget
  <2>3. ASSUME NEW f, Typed(f) PROVE Typed([f EXCEPT !.turns = 0])
    BY <2>3 DEF Typed, Record
  <2> QED
    BY <2>2, <2>3
<1>3. CASE Reconcile
  <2>1. \A s \in Schedules : Typed(sched'[s])
    BY <1>0, <1>3, HandlersTyped DEF Reconcile
  <2> QED
    BY <1>1, <1>3, <2>1, AllTyped DEF Reconcile
<1>4. CASE Shutdown \/ Crash
  <2>1. \A s \in Schedules : Typed(sched'[s])
    BY <1>2, <1>4 DEF Shutdown, Crash
  <2> QED
    BY <1>4, <2>1, AllTyped DEF Shutdown, Crash
<1>5. CASE Spawn
  <2>1. \A s \in Schedules : Typed(sched'[s])
    BY <1>0, <1>5, HandlersTyped DEF Spawn
  <2> QED
    BY <1>5, <2>1, AllTyped DEF Spawn, RescheduleWake
<1>6. ASSUME NEW matching \in SUBSET Schedules, ProcessEvent(matching)
      PROVE  TypeOK'
  <2>1. \A s \in Schedules : Typed(sched'[s])
    BY <1>0, <1>6, HandlersTyped DEF ProcessEvent
  <2> QED
    BY <1>1, <1>6, <2>1, AllTyped DEF ProcessEvent
<1> QED
  BY <1>3, <1>4, <1>5, <1>6

\* The rows, the actor's memory, its timers and the messages on their way
\* stay well typed: counters keep their limits, whatever answers come late.
THEOREM SchedulerTypeCorrect == Spec => []TypeOK
<1>1. Init => TypeOK
  <2>1. Typed(Fresh)
    BY SchedulerAssumption DEF Typed, Record, Fresh, NoCounter
  <2> QED
    BY <2>1 DEF Init, TypeOK, Typed
<1>2. TypeOK /\ [Next]_vars => TypeOK'
  <2> SUFFICES ASSUME TypeOK, [Next]_vars PROVE TypeOK'
    OBVIOUS
  <2>1. CASE UNCHANGED vars
    BY <2>1 DEF vars, TypeOK
  <2> QED
    BY <2>1, ControlTyped, HandleTyped, EnvironmentTyped, GlobalTyped DEF Next
<1> QED
  BY <1>1, <1>2, PTL DEF Spec

-----------------------------------------------------------------------------
(***************************************************************************)
(* Final states.                                                           *)
(***************************************************************************)

\* A final row is not touched by firing, the sweep, a restart or an event.
LEMMA FinalUntouched ==
  ASSUME NEW s \in Schedules, NEW r, Typed(r), r.state \in {"exhausted", "failed"}
  PROVE  /\ Fire(s, r) = r /\ Sweep(s, r) = r /\ Recover(s, r) = r
         /\ FireDebounced(s, r).state = r.state
         /\ CountEvent(s, r).state = r.state
         /\ Forget(r).state = r.state /\ [Forget(r) EXCEPT !.turns = 0].state = r.state
<1>1. Fire(s, r) = r /\ Sweep(s, r) = r /\ Recover(s, r) = r
  BY DEF Fire, Sweep, Recover, Stale
<1>2. /\ FireDebounced(s, r).state = r.state
      /\ CountEvent(s, r).state = r.state
  BY DEF FireDebounced, CountEvent, Fire, ResetCounter, Typed, Record
<1>3. Forget(r).state = r.state /\ [Forget(r) EXCEPT !.turns = 0].state = r.state
  BY DEF Forget, Fresh
<1> QED
  BY <1>1, <1>2, <1>3

\* A failure does not put itself back into the mailbox, and a completion
\* leaves the others alone.
LEMMA MessageTaken ==
  ASSUME NEW s \in Schedules, NEW r, Typed(r)
  PROVE  /\ Failed(s, r).failedMsg = r.failedMsg
         /\ Completed(s, r).completedMsgs = r.completedMsgs
<1>1. ASSUME NEW x, DOMAIN x = DOMAIN r
      PROVE  /\ Enqueue(s, x).failedMsg = x.failedMsg
             /\ Enqueue(s, x).completedMsgs = x.completedMsgs
             /\ DOMAIN Enqueue(s, x) = DOMAIN r
  BY <1>1 DEF Enqueue, Typed, Record
<1>2. ASSUME NEW x, DOMAIN x = DOMAIN r
      PROVE  /\ DeletePending(x).failedMsg = x.failedMsg
             /\ DeletePending(x).completedMsgs = x.completedMsgs
  BY <1>2 DEF DeletePending, Typed, Record
<1> DEFINE closed == EndCycle(r)
           ended  == [closed EXCEPT !.processed = TRUE]
           fails  == Saturated(r.consecutive_failures + 1, MaxFailures)
           runs   == Saturated(r.run_count + 1, RunCap)
           next   == IF Trigger[s] = "interval" THEN "future" ELSE r.next_run_at
           again(x, at) == [x EXCEPT !.state = "armed", !.next_run_at = at]
           final(x, st) == [x EXCEPT !.state = st, !.next_run_at = "none"]
           failing == [ended EXCEPT !.consecutive_failures = fails, !.last_run_at = "recent"]
           ran     == [closed EXCEPT !.run_count = runs, !.consecutive_failures = 0,
                                     !.last_run_at = "recent"]
<1>3. /\ Failed(s, r) \in {r, ended, DeletePending(final(failing, "failed")),
                           DeletePending(Enqueue(s, again(failing, "future")))}
      /\ Completed(s, r) \in {closed, DeletePending(final(ran, "exhausted")),
                              DeletePending(Enqueue(s, again(ran, next)))}
  BY DEF Failed, Completed
<1>4. /\ DOMAIN closed = DOMAIN r /\ closed.failedMsg = r.failedMsg
      /\ closed.completedMsgs = r.completedMsgs
  BY DEF EndCycle, Typed, Record
<1> HIDE DEF closed, fails, runs, next
<1>5. /\ DOMAIN ended = DOMAIN r /\ ended.failedMsg = r.failedMsg
      /\ DOMAIN failing = DOMAIN r /\ failing.failedMsg = r.failedMsg
      /\ DOMAIN ran = DOMAIN r /\ ran.completedMsgs = r.completedMsgs
  BY <1>4 DEF Typed, Record
<1> HIDE DEF ended, failing, ran
<1>6. ASSUME NEW x, DOMAIN x = DOMAIN r, NEW at, NEW st
      PROVE  /\ DOMAIN again(x, at) = DOMAIN r
             /\ again(x, at).failedMsg = x.failedMsg
             /\ again(x, at).completedMsgs = x.completedMsgs
             /\ DOMAIN final(x, st) = DOMAIN r
             /\ final(x, st).failedMsg = x.failedMsg
             /\ final(x, st).completedMsgs = x.completedMsgs
  BY <1>6 DEF Typed, Record
<1> HIDE DEF again, final
<1> QED
  BY <1>1, <1>2, <1>3, <1>4, <1>5, <1>6

\* A completed or failed turn of a final schedule is one of the answers that
\* TerminalStays allows; nothing else changes a final row but its deletion.
LEMMA StepStays ==
  ASSUME TypeOK, [Next]_vars, NEW s \in Schedules, sched[s].state \in {"exhausted", "failed"}
  PROVE  \/ sched'[s].state \in {sched[s].state, "deleted"}
         \/ sched'[s].completedMsgs < sched[s].completedMsgs
         \/ sched[s].failedMsg /\ ~sched'[s].failedMsg
<1> DEFINE r == sched[s]
           Stays == \/ sched'[s].state \in {sched[s].state, "deleted"}
                    \/ sched'[s].completedMsgs < sched[s].completedMsgs
                    \/ sched[s].failedMsg /\ ~sched'[s].failedMsg
<1>0. Typed(r) /\ sched \in [Schedules -> Record]
  BY DEF TypeOK, Typed
<1>1. CASE UNCHANGED vars
  BY <1>1 DEF vars
<1>2. CASE Reconcile \/ Shutdown \/ Crash \/ Spawn
  <2>1. \/ sched'[s] = Sweep(s, r) \/ sched'[s] = Recover(s, r)
        \/ sched'[s] = Forget(r) \/ sched'[s] = [Forget(r) EXCEPT !.turns = 0]
    BY <1>2 DEF Reconcile, Shutdown, Crash, Spawn
  <2>2. r.state \in {"exhausted", "failed"}
    OBVIOUS
  <2> HIDE DEF r
  <2>3. sched'[s].state = r.state
    BY <1>0, <2>1, <2>2, FinalUntouched
  <2> QED
    BY <2>3 DEF r
<1>3. CASE \E matching \in SUBSET Schedules : ProcessEvent(matching)
  BY <1>0, <1>3, FinalUntouched DEF ProcessEvent
<1>4. ASSUME NEW q \in Schedules, Control(q) \/ Handle(q) \/ Environment(q), q # s
      PROVE  Stays
  <2>1. sched'[s] = sched[s]
    BY <1>0, <1>4
       DEF Control, AddSchedule, RemoveSchedule, PauseSchedule, ResumeSchedule, TriggerNow,
           Handle, DeadlineReached, CycleCompleted, CycleFailed, DebounceCompleted,
           Environment, WakeFires, TimeoutFires, DebounceElapses, TimePasses, TurnEnds,
           DeleteSession, SessionChanges, Apply, FireFromQueue, Touch
  <2> QED
    BY <2>1
<1>5. CASE Control(s)
  <2>1. CASE RemoveSchedule(s)
    <3> DEFINE t == [r EXCEPT !.pending_delete = TRUE]
               u == [r EXCEPT !.state = "deleted", !.queued = FALSE, !.count = NoCounter,
                              !.debouncing = FALSE, !.looseDebounce = @ \/ r.debouncing]
    <3>1. t.state = r.state /\ u.state = "deleted"
      BY <1>0 DEF Typed, Record
    <3>2. sched' = [sched EXCEPT ![s] = t] \/ sched' = [sched EXCEPT ![s] = u]
      BY <2>1 DEF RemoveSchedule
    <3> HIDE DEF t, u
    <3> QED
      BY <1>0, <3>1, <3>2
  <2>2. CASE TriggerNow(s)
    <3> DEFINE u == [r EXCEPT !.queued = FALSE]
    <3>1. Typed(u) /\ u.state = r.state
      BY <1>0 DEF Typed, Record
    <3>2. sched'[s] = Fire(s, u)
      BY <1>0, <2>2 DEF TriggerNow, FireFromQueue
    <3> HIDE DEF u
    <3> QED
      BY <3>1, <3>2, FinalUntouched
  <2> QED
    BY <1>5, <2>1, <2>2 DEF Control, AddSchedule, PauseSchedule, ResumeSchedule
<1>6. CASE DeadlineReached(s)
  <2> DEFINE u == [[r EXCEPT !.deadlineMsg = FALSE] EXCEPT !.queued = FALSE]
  <2>1. Typed(u) /\ u.state = r.state
    BY <1>0 DEF Typed, Record
  <2>2. sched'[s] = Fire(s, u)
    BY <1>0, <1>6 DEF DeadlineReached, FireFromQueue
  <2> HIDE DEF u
  <2> QED
    BY <2>1, <2>2, FinalUntouched
<1>7. CASE CycleCompleted(s)
  <2> DEFINE u == [r EXCEPT !.completedMsgs = @ - 1]
  <2>1. sched'[s] = Completed(s, u) /\ r.completedMsgs > 0
    BY <1>0, <1>7 DEF CycleCompleted, Apply
  <2>2. Typed(u) /\ u.completedMsgs < r.completedMsgs
    BY <1>0, <2>1, SchedulerAssumption DEF Typed, Record
  <2> HIDE DEF u
  <2> QED
    BY <2>1, <2>2, MessageTaken
<1>8. CASE CycleFailed(s)
  <2> DEFINE u == [r EXCEPT !.failedMsg = FALSE]
  <2>1. sched'[s] = Failed(s, u) /\ r.failedMsg
    BY <1>0, <1>8 DEF CycleFailed, Apply
  <2>2. Typed(u) /\ ~u.failedMsg
    BY <1>0 DEF Typed, Record
  <2> HIDE DEF u
  <2> QED
    BY <2>1, <2>2, MessageTaken
<1>9. CASE DebounceCompleted(s)
  <2> DEFINE u == [r EXCEPT !.debounceMsg = FALSE]
  <2>1. sched'[s] = FireDebounced(s, u)
    BY <1>0, <1>9 DEF DebounceCompleted, Apply
  <2>2. Typed(u) /\ u.state = r.state
    BY <1>0 DEF Typed, Record
  <2> HIDE DEF u
  <2> QED
    BY <2>1, <2>2, FinalUntouched
<1>10. CASE Environment(s)
  <2>1. sched'[s].state \in {r.state, "deleted"}
    <3>1. CASE SessionChanges(s)
      BY <3>1 DEF SessionChanges
    <3>5. CASE DeleteSession(s)
      BY <1>0, <3>5 DEF DeleteSession, Touch, Typed, Record
    <3>0. ASSUME NEW t, Touch(s, t), t.state = r.state
          PROVE  sched'[s].state = r.state
      BY <1>0, <3>0 DEF Touch
    <3>2. CASE WakeFires(s) \/ TimeoutFires(s)
      <4>1. /\ [r EXCEPT !.deadlineMsg = TRUE].state = r.state
            /\ [r EXCEPT !.timer = FALSE, !.failedMsg = TRUE].state = r.state
            /\ [r EXCEPT !.looseTimer = FALSE, !.failedMsg = TRUE].state = r.state
        BY <1>0 DEF Typed, Record
      <4> QED
        BY <3>0, <3>2, <4>1 DEF WakeFires, TimeoutFires
    <3>4. CASE DebounceElapses(s) \/ TimePasses(s)
      <4>1. /\ [r EXCEPT !.debouncing = FALSE, !.debounceMsg = TRUE].state = r.state
            /\ [r EXCEPT !.looseDebounce = FALSE, !.debounceMsg = TRUE].state = r.state
            /\ [r EXCEPT !.next_run_at = "due"].state = r.state
            /\ [r EXCEPT !.last_run_at = "old"].state = r.state
        BY <1>0 DEF Typed, Record
      <4> QED
        BY <3>0, <3>4, <4>1 DEF DebounceElapses, TimePasses
    <3>3. CASE TurnEnds(s)
      <4> DEFINE e == [r EXCEPT !.turns = @ - 1]
      <4>1. /\ e.state = r.state
            /\ [e EXCEPT !.completedMsgs = @ + 1].state = r.state
            /\ [e EXCEPT !.failedMsg = TRUE].state = r.state
        BY <1>0 DEF Typed, Record
      <4>2. \/ Touch(s, e) \/ Touch(s, [e EXCEPT !.completedMsgs = @ + 1])
            \/ Touch(s, [e EXCEPT !.failedMsg = TRUE])
        BY <3>3 DEF TurnEnds
      <4> HIDE DEF e
      <4> QED
        BY <3>0, <4>1, <4>2
    <3> QED
      BY <1>10, <3>1, <3>2, <3>3, <3>4, <3>5 DEF Environment
  <2> QED
    BY <2>1
<1> QED
  BY <1>1, <1>2, <1>3, <1>4, <1>5, <1>6, <1>7, <1>8, <1>9, <1>10 DEF Next, Handle

\* An exhausted or failed schedule comes back only by the answer of a turn
\* that was still out: deadlines left in the queue, triggers, events, the
\* sweep and restarts all meet the state check of fire_schedule.
THEOREM FinalStays == Spec => TerminalStays
<1> DEFINE Step == \A s \in Schedules :
              sched[s].state \in {"exhausted", "failed"} =>
                 \/ sched'[s].state \in {sched[s].state, "deleted"}
                 \/ sched'[s].completedMsgs < sched[s].completedMsgs
                 \/ sched[s].failedMsg /\ ~sched'[s].failedMsg
<1>1. TypeOK /\ [Next]_vars => [Step]_vars
  BY StepStays
<1> QED
  BY <1>1, SchedulerTypeCorrect, PTL DEF Spec, TerminalStays
=============================================================================
