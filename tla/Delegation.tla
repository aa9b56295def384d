----------------------------- MODULE Delegation -----------------------------
(***************************************************************************)
(* Delegations: a planner's turn requests them and waits for them          *)
(* (execution/tool_calls.rs, execution/wait.rs), the DelegationOrchestrator *)
(* (delegation/core.rs) runs each one as a task that prompts a child       *)
(* session.  The two sides talk only through events.  A durable event is   *)
(* persisted and published by a task of its own (AgentConfig::emit_event), *)
(* so events may overtake each other, and one is lost if the journal       *)
(* refuses it or a subscriber lags behind the broadcast buffer.            *)
(***************************************************************************)
EXTENDS Integers, FiniteSets

CONSTANTS Planners,      \* planner sessions
          Delegations,   \* identifiers of delegations
          None,          \* no planner, no delegation
          MaxParallel,   \* max_parallel_delegations
          WaitAll,       \* delegation_wait_policy is All
          Timeout,       \* delegation_wait_timeout_secs > 0
          Lossy          \* whether events may be lost

ASSUME DelegationAssumption ==
    /\ None \notin Planners \cup Delegations
    /\ MaxParallel \in Nat \ {0}
    /\ WaitAll \in BOOLEAN /\ Timeout \in BOOLEAN /\ Lossy \in BOOLEAN
    /\ IsFiniteSet(Delegations)

VARIABLES
    \* planner sessions
    planner,    \* where the planner's turn is
    cancelled,  \* planners whose turn's token is cancelled
    wait,       \* the delegations the turn still waits for
    parent,     \* the planner that requested a delegation
    \* the store and the events on their way
    status,     \* DelegationStatus of the row
    inbox,      \* events the orchestrator will handle: <<kind, subject>>
    notices,    \* terminal events on their way to a planner that waits for them
    \* the orchestrator
    inserting,  \* the delegation spawned but not yet in active_delegations
    active,     \* keys of active_delegations
    tokens,     \* delegations whose token is cancelled and whose task a watcher
                \* aborts after the grace period
    \* the spawned tasks
    task,       \* where the delegation's task is
    result,     \* what its child session came to
    \* history
    unwritten   \* delegations the store refused the final status of

plannerVars == <<planner, cancelled, wait, parent>>
orchVars    == <<inserting, active, tokens>>
taskVars    == <<task, result, unwritten>>
vars == <<plannerVars, status, inbox, notices, orchVars, taskVars>>

-----------------------------------------------------------------------------
Statuses == {"none", "requested", "running", "complete", "failed", "cancelled"}
Terminal == {"complete", "failed", "cancelled"}
Holding  == {"starting", "creating", "prompting", "ending", "written"}
Alive    == Holding \cup {"queued"}

\* The delegations that hold a permit of the orchestrator's semaphore.
Holders == {d \in Delegations : task[d] \in Holding}

Events == {<<k, d>> : k \in {"requested", "cancel_requested"}, d \in Delegations}
             \cup {<<"cancelled", p>> : p \in Planners}

Shapes ==
    /\ planner \in [Planners -> {"idle", "working", "waiting", "cleanup"}]
    /\ cancelled \subseteq Planners
    /\ wait \in [Planners -> SUBSET Delegations]
    /\ parent \in [Delegations -> Planners \cup {None}]
    /\ status \in [Delegations -> Statuses]
    /\ inbox \subseteq Events
    /\ notices \subseteq Delegations
    /\ inserting \in Delegations \cup {None}
    /\ active \subseteq Delegations
    /\ tokens \subseteq Delegations
    /\ task \in [Delegations -> {"none", "gone", "aborted"} \cup Alive]
    /\ result \in [Delegations -> Terminal \cup {"none"}]
    /\ unwritten \subseteq Delegations

\* Every variable has its type, and no more delegations hold a permit than
\* max_parallel_delegations allows.
TypeOK == Shapes /\ Cardinality(Holders) <= MaxParallel

Init ==
    /\ planner = [p \in Planners |-> "idle"]
    /\ cancelled = {}
    /\ wait = [p \in Planners |-> {}]
    /\ parent = [d \in Delegations |-> None]
    /\ status = [d \in Delegations |-> "none"]
    /\ inbox = {}
    /\ notices = {}
    /\ inserting = None
    /\ active = {}
    /\ tokens = {}
    /\ task = [d \in Delegations |-> "none"]
    /\ result = [d \in Delegations |-> "none"]
    /\ unwritten = {}

-----------------------------------------------------------------------------
(***************************************************************************)
(* The planner's turn.                                                     *)
(***************************************************************************)
Prompt(p) ==
    /\ planner[p] = "idle"
    /\ \E d \in Delegations : parent[d] = None
    /\ planner' = [planner EXCEPT ![p] = "working"]
    /\ cancelled' = cancelled \ {p}
    /\ UNCHANGED <<wait, parent, status, inbox, notices, orchVars, taskVars>>

\* record_tool_side_effects and store_all_tool_results: every successful
\* delegate call of the batch is recorded and requested, then the turn waits,
\* unless it was cancelled meanwhile.
Request(p, ds) ==
    /\ planner[p] = "working"
    /\ ds # {} /\ \A d \in ds : parent[d] = None
    /\ parent' = [d \in Delegations |-> IF d \in ds THEN p ELSE parent[d]]
    /\ status' = [d \in Delegations |-> IF d \in ds THEN "requested" ELSE status[d]]
    /\ inbox' = inbox \cup {<<"requested", d>> : d \in ds}
    /\ \/ /\ p \notin cancelled
          /\ planner' = [planner EXCEPT ![p] = "waiting"]
          /\ wait' = [wait EXCEPT ![p] = ds]
       \/ /\ p \in cancelled
          /\ planner' = [planner EXCEPT ![p] = "idle"]
          /\ UNCHANGED wait
    /\ UNCHANGED <<cancelled, notices, orchVars, taskVars>>

TurnEnds(p) ==
    /\ planner[p] = "working"
    /\ planner' = [planner EXCEPT ![p] = "idle"]
    /\ UNCHANGED <<cancelled, wait, parent, status, inbox, notices, orchVars, taskVars>>

\* The Cancel message, whatever the session is doing: the token is cancelled
\* and the event emitted.
Cancel(p) ==
    /\ cancelled' = cancelled \cup {p}
    /\ inbox' = inbox \cup {<<"cancelled", p>>}
    /\ UNCHANGED <<planner, wait, parent, status, notices, orchVars, taskVars>>

WaitCancelled(p) ==
    /\ planner[p] = "waiting" /\ p \in cancelled
    /\ planner' = [planner EXCEPT ![p] = "idle"]
    /\ wait' = [wait EXCEPT ![p] = {}]
    /\ notices' = notices \ wait[p]
    /\ UNCHANGED <<cancelled, parent, status, inbox, orchVars, taskVars>>

\* The terminal event of a delegation arrives: any one resumes the turn under
\* policy Any, the last one under policy All.
Outcome(p, d) ==
    /\ planner[p] = "waiting" /\ d \in wait[p] \cap notices
    /\ \/ /\ WaitAll /\ wait[p] # {d}
          /\ notices' = notices \ {d}
          /\ wait' = [wait EXCEPT ![p] = @ \ {d}]
          /\ UNCHANGED planner
       \/ /\ ~WaitAll \/ wait[p] = {d}
          /\ notices' = notices \ wait[p]
          /\ wait' = [wait EXCEPT ![p] = {}]
          /\ planner' = [planner EXCEPT ![p] = "working"]
    /\ UNCHANGED <<cancelled, parent, status, inbox, orchVars, taskVars>>

\* A wait without a deadline.
WaitTimesOutNever(p) == FALSE /\ UNCHANGED <<vars, p>>

\* Nothing arrived for delegation_wait_timeout_secs.
WaitTimesOut(p) ==
    /\ planner[p] = "waiting" /\ WaitAll /\ Timeout
    /\ planner' = [planner EXCEPT ![p] = "cleanup"]
    /\ UNCHANGED <<cancelled, wait, parent, status, inbox, notices, orchVars, taskVars>>

\* update_delegation_status: a write the store refuses is only logged.
Stores(d, st) ==
    \/ status' = [status EXCEPT ![d] = st]
    \/ UNCHANGED status

\* cleanup_timed_out_delegations, one delegation after the other; nobody
\* reads the terminal events any more.
CleanUp(p, d) ==
    /\ planner[p] = "cleanup" /\ d \in wait[p]
    /\ inbox' = inbox \cup {<<"cancel_requested", d>>}
    /\ Stores(d, "cancelled")
    /\ notices' = notices \ {d}
    /\ wait' = [wait EXCEPT ![p] = @ \ {d}]
    /\ planner' = [planner EXCEPT ![p] = IF wait[p] = {d} THEN "working" ELSE @]
    /\ UNCHANGED <<cancelled, parent, orchVars, taskVars>>

NoticeLost(d) ==
    /\ Lossy
    /\ d \in notices
    /\ notices' = notices \ {d}
    /\ UNCHANGED <<plannerVars, status, inbox, orchVars, taskVars>>

EventLost(e) ==
    /\ Lossy
    /\ e \in inbox
    /\ inbox' = inbox \ {e}
    /\ UNCHANGED <<plannerVars, status, notices, orchVars, taskVars>>

-----------------------------------------------------------------------------
(***************************************************************************)
(* The orchestrator's listener, which handles one event at a time.         *)
(***************************************************************************)

\* The task is spawned before it is entered in active_delegations.
DelegationRequested(d) ==
    /\ inserting = None
    /\ <<"requested", d>> \in inbox
    /\ inbox' = inbox \ {<<"requested", d>>}
    /\ task' = [task EXCEPT ![d] = "queued"]
    /\ inserting' = d
    /\ UNCHANGED <<plannerVars, status, notices, active, tokens, result, unwritten>>

Insert ==
    /\ inserting # None
    /\ active' = active \cup {inserting}
    /\ inserting' = None
    /\ UNCHANGED <<plannerVars, status, inbox, notices, tokens, taskVars>>

\* A cancellation that forgets the entry but not the token.
CancelRequestedKeepsToken(d) ==
    /\ inserting = None
    /\ <<"cancel_requested", d>> \in inbox
    /\ inbox' = inbox \ {<<"cancel_requested", d>>}
    /\ active' = active \ {d}
    /\ UNCHANGED <<plannerVars, status, notices, inserting, tokens, taskVars>>

DelegationCancelRequested(d) ==
    /\ inserting = None
    /\ <<"cancel_requested", d>> \in inbox
    /\ inbox' = inbox \ {<<"cancel_requested", d>>}
    /\ \/ /\ d \in active
          /\ active' = active \ {d}
          /\ tokens' = tokens \cup {d}
       \/ /\ d \notin active
          /\ UNCHANGED <<active, tokens>>
    /\ UNCHANGED <<plannerVars, status, notices, inserting, taskVars>>

\* The entries stay, with a dummy in place of the handle.
SessionCancelled(p) ==
    /\ inserting = None
    /\ <<"cancelled", p>> \in inbox
    /\ inbox' = inbox \ {<<"cancelled", p>>}
    /\ tokens' = tokens \cup {d \in active : parent[d] = p}
    /\ UNCHANGED <<plannerVars, status, notices, inserting, active, taskVars>>

\* A grace period that never ends.
GraceNeverExpires(d) == FALSE /\ UNCHANGED <<vars, d>>

\* cancel_grace_secs passed: the task is aborted wherever it is.
GraceExpires(d) ==
    /\ d \in tokens /\ task[d] \in Alive
    /\ task' = [task EXCEPT ![d] = "aborted"]
    /\ UNCHANGED <<plannerVars, status, inbox, notices, orchVars, result, unwritten>>

-----------------------------------------------------------------------------
(***************************************************************************)
(* The task of a delegation.  It looks at its token only while it waits    *)
(* for the child session.                                                  *)
(***************************************************************************)
Goes(d, to) == task' = [task EXCEPT ![d] = to]

\* A semaphore with one permit too many.
AcquireOneMore(d) ==
    /\ task[d] = "queued"
    /\ Cardinality(Holders) <= MaxParallel
    /\ Goes(d, "starting")
    /\ UNCHANGED <<plannerVars, status, inbox, notices, orchVars, result, unwritten>>

AcquirePermit(d) ==
    /\ task[d] = "queued"
    /\ Cardinality(Holders) < MaxParallel
    /\ Goes(d, "starting")
    /\ UNCHANGED <<plannerVars, status, inbox, notices, orchVars, result, unwritten>>

\* execute_delegation begins, unless no agent of that name is registered.
Start(d) ==
    /\ task[d] = "starting"
    /\ \/ /\ Goes(d, "creating")
          /\ Stores(d, "running")
          /\ UNCHANGED result
       \/ /\ Goes(d, "ending")
          /\ result' = [result EXCEPT ![d] = "failed"]
          /\ UNCHANGED status
    /\ UNCHANGED <<plannerVars, inbox, notices, orchVars, unwritten>>

\* The child session is created and configured; a summary of the planner's
\* work is stored with the record as it was when the delegation was
\* requested, its status included.
CreateSession(d) ==
    /\ task[d] = "creating"
    /\ \/ /\ Goes(d, "prompting")
          /\ \/ UNCHANGED status
             \/ status' = [status EXCEPT ![d] = "requested"]
          /\ UNCHANGED result
       \/ /\ Goes(d, "ending")
          /\ result' = [result EXCEPT ![d] = "failed"]
          /\ UNCHANGED status
    /\ UNCHANGED <<plannerVars, inbox, notices, orchVars, unwritten>>

\* The child session's prompt returns (it may have stopped early, failed or
\* not passed verification), or the select! sees the token.
ChildReturns(d) ==
    /\ task[d] = "prompting"
    /\ \E r \in {"complete", "failed"} : result' = [result EXCEPT ![d] = r]
    /\ Goes(d, "ending")
    /\ UNCHANGED <<plannerVars, status, inbox, notices, orchVars, unwritten>>

ChildCancelled(d) ==
    /\ task[d] = "prompting" /\ d \in tokens
    /\ result' = [result EXCEPT ![d] = "cancelled"]
    /\ Goes(d, "ending")
    /\ UNCHANGED <<plannerVars, status, inbox, notices, orchVars, unwritten>>

\* An end that reports the result without storing it.
SkipStatus(d) ==
    /\ task[d] = "ending"
    /\ Goes(d, "written")
    /\ UNCHANGED <<plannerVars, status, inbox, notices, orchVars, result, unwritten>>

\* The task goes on to its terminal event whether the store takes the status
\* or not.
WriteStatus(d) ==
    /\ task[d] = "ending"
    /\ \/ /\ status' = [status EXCEPT ![d] = result[d]]
          /\ UNCHANGED unwritten
       \/ /\ unwritten' = unwritten \cup {d}
          /\ UNCHANGED status
    /\ Goes(d, "written")
    /\ UNCHANGED <<plannerVars, inbox, notices, orchVars, result>>

\* The terminal event is emitted and the entry removed; some of the failing
\* paths leave it.
Finish(d) ==
    /\ task[d] = "written"
    /\ notices' = notices \cup ({d} \cap wait[parent[d]])
    /\ active' = active \ {d} \/ (result[d] = "failed" /\ UNCHANGED active)
    /\ Goes(d, "gone")
    /\ result' = [result EXCEPT ![d] = "none"]
    /\ UNCHANGED <<plannerVars, status, inbox, inserting, tokens, unwritten>>

-----------------------------------------------------------------------------
Plan(p) ==
    \/ Prompt(p) \/ TurnEnds(p) \/ Cancel(p) \/ WaitCancelled(p) \/ WaitTimesOut(p)
    \/ \E ds \in SUBSET Delegations : Request(p, ds)
    \/ \E d \in Delegations : Outcome(p, d) \/ CleanUp(p, d)

Listen ==
    \/ Insert
    \/ \E p \in Planners : SessionCancelled(p)
    \/ \E d \in Delegations : DelegationRequested(d) \/ DelegationCancelRequested(d)

Work(d) ==
    \/ AcquirePermit(d) \/ Start(d) \/ CreateSession(d) \/ ChildReturns(d)
    \/ ChildCancelled(d) \/ WriteStatus(d) \/ Finish(d)

Next ==
    \/ \E p \in Planners : Plan(p)
    \/ Listen
    \/ \E d \in Delegations : Work(d) \/ GraceExpires(d) \/ NoticeLost(d)
    \/ \E e \in inbox : EventLost(e)

Spec == Init /\ [][Next]_vars

\* Timers fire and the store answers; nothing is assumed of a child session,
\* and an event may be lost.
FairSpec ==
    /\ Spec
    /\ WF_vars(Listen)
    /\ \A p \in Planners :
          /\ WF_vars(WaitTimesOut(p))
          /\ WF_vars(\E d \in Delegations : CleanUp(p, d))
    /\ \A d \in Delegations : WF_vars(GraceExpires(d))

-----------------------------------------------------------------------------
(***************************************************************************)
(* Properties                                                              *)
(***************************************************************************)

\* A delegation's task that nobody told to stop is in active_delegations, or
\* about to be: as long as it lives a cancellation can still find it.
RunningIsCancellable ==
    \A d \in Delegations :
       task[d] \in Alive => d \in active \cup tokens \/ inserting = d

\* A delegation whose task ran to its end has a terminal row, whatever the
\* planner's clean-up or the summary wrote, or failed to write, in between: it
\* does not look unfinished to the delegation guard.  Excepted are the tasks
\* whose final status the store refused, which only log it.
EndedIsTerminal ==
    \A d \in Delegations :
       task[d] = "gone" /\ d \notin unwritten => status[d] \in Terminal

\* A planner that waits with a timeout resumes or is cancelled, although the
\* delegations' events may be lost and child sessions may never answer.
WaitEnds ==
    \A p \in Planners :
       planner[p] \in {"waiting", "cleanup"} ~> planner[p] \in {"idle", "working"}

\* A delegation whose token is cancelled stops, even if its child session
\* never answers: it ends by itself or is aborted after the grace period.
CancelledStops == \A d \in Delegations : d \in tokens ~> task[d] \notin Alive
=============================================================================
