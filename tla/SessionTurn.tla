----------------------------- MODULE SessionTurn -----------------------------
(***************************************************************************)
(* One session's turns: the SessionActor, which handles its messages one   *)
(* at a time, and the detached task it spawns for every accepted prompt    *)
(* (crates/agent/src/agent/session_actor.rs).  The tasks share the         *)
(* session's execution permit (a tokio Semaphore of capacity 1), its       *)
(* message history and the two slots of the pre-turn snapshot, and they    *)
(* observe cancellation through the token they captured when they were     *)
(* accepted.  The execution cycle itself is reduced to its cancellation    *)
(* checks, the messages it stores and the outcome it returns.              *)
(***************************************************************************)
EXTENDS Integers, Sequences

CONSTANTS Prompts,     \* the prompts clients and the scheduler may send
          Scheduled,   \* those sent as ScheduledPrompt
          Nobody,      \* the absent prompt: None in the Option-typed slots
          MaxMessages, \* bound on the responses one turn stores
          Snapshots    \* whether a snapshot backend and a cwd are configured

ASSUME PromptsAssumption ==
    /\ Scheduled \subseteq Prompts
    /\ Nobody \notin Prompts
    /\ MaxMessages \in Nat
    /\ Snapshots \in BOOLEAN

VARIABLES
    \* SessionActor
    generation,      \* turn_state.generation
    token,           \* turn_state.token: the number of the current token
    lastToken,       \* the number of the newest token created
    cancelled,       \* the tokens that have been cancelled
    prompt_running,
    stopped,         \* Shutdown was handled: the actor takes no message
    \* the detached tasks
    phase,           \* where each prompt's task is
    gen,             \* prompt_generation captured by the task
    tok,             \* cancel_token captured by the task
    responses,       \* responses stored by the prompt's turn so far
    outcome,         \* the result of execute_prompt_detached
    emitted,         \* the terminal event emitted for a scheduled prompt
    \* SessionRuntime and the store
    holder,          \* the prompt the execution permit is assigned to
    waiters,         \* the semaphore's queue
    pre_task,        \* pre_turn_snapshot_task: the turn that started it
    turn_snapshot,   \* turn_snapshot: the turn the snapshot was taken for
    history,         \* stored messages: [kind, by, turn]
    \* history variable
    cancelSeen       \* prompts for which a Cancel came while they were live

actorVars == <<generation, token, lastToken, cancelled, prompt_running, stopped>>
taskVars  == <<phase, gen, tok, responses, outcome, emitted>>
runtimeVars == <<holder, waiters, pre_task, turn_snapshot, history>>
vars == <<actorVars, taskVars, runtimeVars, cancelSeen>>

-----------------------------------------------------------------------------
Waiting   == {"spawned", "short", "requeue", "long"}
Queued    == {"short", "long"}
Executing == {"prepare", "cycle", "responding", "post"}
Live      == Waiting \cup Executing \cup {"returned"}
Phases    == {"idle", "reported", "done"} \cup Live

Outcomes == {"none", "ok", "cancelled", "error"}

Entry(kind, by, turn) == [kind |-> kind, by |-> by, turn |-> turn]
Entries == [kind : {"user", "assistant", "start", "patch"}, by : Prompts, turn : Prompts]

TypeOK ==
    /\ generation \in Nat
    /\ token \in Nat
    /\ lastToken \in Nat
    /\ cancelled \subseteq Nat
    /\ prompt_running \in BOOLEAN
    /\ stopped \in BOOLEAN
    /\ phase \in [Prompts -> Phases]
    /\ gen \in [Prompts -> Nat]
    /\ tok \in [Prompts -> Nat]
    /\ responses \in [Prompts -> Nat]
    /\ outcome \in [Prompts -> Outcomes]
    /\ emitted \in [Prompts -> {"none", "completed", "failed"}]
    /\ holder \in Prompts \cup {Nobody}
    /\ waiters \in Seq(Prompts)
    /\ pre_task \in Prompts \cup {Nobody}
    /\ turn_snapshot \in Prompts \cup {Nobody}
    /\ history \in Seq(Entries)
    /\ cancelSeen \subseteq Prompts

Init ==
    /\ generation = 0
    /\ token = 0
    /\ lastToken = 0
    /\ cancelled = {}
    /\ prompt_running = FALSE
    /\ stopped = FALSE
    /\ phase = [p \in Prompts |-> "idle"]
    /\ gen = [p \in Prompts |-> 0]
    /\ tok = [p \in Prompts |-> 0]
    /\ responses = [p \in Prompts |-> 0]
    /\ outcome = [p \in Prompts |-> "none"]
    /\ emitted = [p \in Prompts |-> "none"]
    /\ holder = Nobody
    /\ waiters = <<>>
    /\ pre_task = Nobody
    /\ turn_snapshot = Nobody
    /\ history = <<>>
    /\ cancelSeen = {}

-----------------------------------------------------------------------------
(***************************************************************************)
(* Messages handled by the actor.                                          *)
(***************************************************************************)

\* A prompt accepted under a token that is cancelled already.
AcceptKeepingToken(p) ==
    /\ ~stopped
    /\ phase[p] = "idle"
    /\ prompt_running' = TRUE
    /\ generation' = generation + 1
    /\ UNCHANGED <<token, lastToken>>
    /\ phase' = [phase EXCEPT ![p] = "spawned"]
    /\ gen' = [gen EXCEPT ![p] = generation']
    /\ tok' = [tok EXCEPT ![p] = token']
    /\ UNCHANGED <<cancelled, stopped, responses, outcome, emitted, runtimeVars,
                   cancelSeen>>

\* The handlers of Prompt and ScheduledPrompt: a prompt is accepted whether
\* or not another one runs, and its task gets a fresh token only if the
\* current one is cancelled.
Accept(p) ==
    /\ ~stopped
    /\ phase[p] = "idle"
    /\ prompt_running' = TRUE
    /\ generation' = generation + 1
    /\ \/ /\ token \in cancelled
          /\ lastToken' = lastToken + 1
          /\ token' = lastToken'
       \/ /\ token \notin cancelled
          /\ UNCHANGED <<token, lastToken>>
    /\ phase' = [phase EXCEPT ![p] = "spawned"]
    /\ gen' = [gen EXCEPT ![p] = generation']
    /\ tok' = [tok EXCEPT ![p] = token']
    /\ UNCHANGED <<cancelled, stopped, responses, outcome, emitted, runtimeVars,
                   cancelSeen>>

Prompt(p) == p \notin Scheduled /\ Accept(p)

ScheduledPrompt(p) == p \in Scheduled /\ Accept(p)

Cancel ==
    /\ ~stopped
    /\ cancelled' = cancelled \cup {token}
    /\ cancelSeen' = cancelSeen \cup {p \in Prompts : phase[p] \in Live}
    /\ UNCHANGED <<generation, token, lastToken, prompt_running, stopped, taskVars,
                   runtimeVars>>

\* Without the generation guard.
PromptFinishedUnguarded(p) ==
    /\ ~stopped
    /\ phase[p] = "reported"
    /\ phase' = [phase EXCEPT ![p] = "done"]
    /\ prompt_running' = FALSE
    /\ lastToken' = lastToken + 1
    /\ token' = lastToken'
    /\ UNCHANGED <<generation, cancelled, stopped, gen, tok, responses, outcome, emitted,
                   runtimeVars, cancelSeen>>

\* PromptFinished{generation} in the actor's mailbox is the phase "reported".
PromptFinished(p) ==
    /\ ~stopped
    /\ phase[p] = "reported"
    /\ phase' = [phase EXCEPT ![p] = "done"]
    /\ \/ /\ gen[p] # generation
          /\ UNCHANGED <<prompt_running, token, lastToken>>
       \/ /\ gen[p] = generation
          /\ prompt_running' = FALSE
          /\ lastToken' = lastToken + 1
          /\ token' = lastToken'
    /\ UNCHANGED <<generation, cancelled, stopped, gen, tok, responses, outcome, emitted,
                   runtimeVars, cancelSeen>>

\* ctx.stop(): detached tasks run on, messages in the mailbox are dropped.
Shutdown ==
    /\ ~stopped
    /\ stopped' = TRUE
    /\ phase' = [p \in Prompts |-> IF phase[p] = "reported" THEN "done" ELSE phase[p]]
    /\ UNCHANGED <<generation, token, lastToken, cancelled, prompt_running, gen, tok,
                   responses, outcome, emitted, runtimeVars, cancelSeen>>

-----------------------------------------------------------------------------
(***************************************************************************)
(* The execution permit.  tokio's semaphore hands a released permit to the *)
(* head of its queue, so it is free only when nobody waits; a waiter whose *)
(* future is dropped leaves the queue, or returns a permit it was already  *)
(* assigned.                                                               *)
(***************************************************************************)
Release ==
    IF waiters = <<>>
    THEN holder' = Nobody /\ waiters' = <<>>
    ELSE holder' = Head(waiters) /\ waiters' = Tail(waiters)

Without(q, i) == [j \in 1..(Len(q) - 1) |-> q[IF j < i THEN j ELSE j + 1]]

Abandon(p) ==
    \/ holder = p /\ Release
    \/ /\ holder # p
       /\ holder' = holder
       /\ \/ /\ \A i \in 1..Len(waiters) : waiters[i] # p
             /\ waiters' = waiters
          \/ \E i \in 1..Len(waiters) :
                waiters[i] = p /\ waiters' = Without(waiters, i)

\* A task that goes on without the permit when somebody else holds it.
AcquireBusy(p) ==
    /\ phase[p] \in {"spawned", "requeue"}
    /\ holder' = p
    /\ waiters' = waiters
    /\ phase' = [phase EXCEPT ![p] = "prepare"]
    /\ UNCHANGED <<actorVars, gen, tok, responses, outcome, emitted, pre_task,
                   turn_snapshot, history, cancelSeen>>

\* First poll of acquire_owned: the short wait after the task starts, the
\* long one after the short one expired.
Acquire(p) ==
    /\ phase[p] \in {"spawned", "requeue"}
    /\ \/ /\ holder = Nobody
          /\ holder' = p
          /\ waiters' = waiters
          /\ phase' = [phase EXCEPT ![p] = "prepare"]
       \/ /\ holder # Nobody
          /\ holder' = holder
          /\ waiters' = Append(waiters, p)
          /\ phase' = [phase EXCEPT ![p] = IF @ = "spawned" THEN "short" ELSE "long"]
    /\ UNCHANGED <<actorVars, gen, tok, responses, outcome, emitted, pre_task,
                   turn_snapshot, history, cancelSeen>>

\* The queued task is woken with the permit it was handed.
Acquired(p) ==
    /\ phase[p] \in Queued
    /\ holder = p
    /\ phase' = [phase EXCEPT ![p] = "prepare"]
    /\ UNCHANGED <<actorVars, gen, tok, responses, outcome, emitted, runtimeVars,
                   cancelSeen>>

\* A cancelled wait that forgets the place it holds in the queue.
WaitCancelledKeepsPlace(p) ==
    /\ phase[p] \in Waiting
    /\ tok[p] \in cancelled
    /\ phase' = [phase EXCEPT ![p] = "returned"]
    /\ outcome' = [outcome EXCEPT ![p] = "cancelled"]
    /\ UNCHANGED <<actorVars, gen, tok, responses, emitted, runtimeVars, cancelSeen>>

\* select! takes the cancelled branch, even if the permit is there too.
WaitCancelled(p) ==
    /\ phase[p] \in Waiting
    /\ tok[p] \in cancelled
    /\ Abandon(p)
    /\ phase' = [phase EXCEPT ![p] = "returned"]
    /\ outcome' = [outcome EXCEPT ![p] = "cancelled"]
    /\ UNCHANGED <<actorVars, gen, tok, responses, emitted, pre_task, turn_snapshot,
                   history, cancelSeen>>

\* timeout polls the permit first, so a task holding it cannot time out.
\* The 100 ms wait ends in SessionQueued and a second acquire.
ShortTimeout(p) ==
    /\ phase[p] = "short"
    /\ holder # p
    /\ Abandon(p)
    /\ phase' = [phase EXCEPT ![p] = "requeue"]
    /\ UNCHANGED <<actorVars, gen, tok, responses, outcome, emitted, pre_task,
                   turn_snapshot, history, cancelSeen>>

\* A long wait without a timeout.
LongTimeoutNever(p) == FALSE /\ UNCHANGED <<vars, p>>

\* execution_timeout_secs elapsed: SessionTimeout.
LongTimeout(p) ==
    /\ phase[p] = "long"
    /\ holder # p
    /\ Abandon(p)
    /\ phase' = [phase EXCEPT ![p] = "returned"]
    /\ outcome' = [outcome EXCEPT ![p] = "error"]
    /\ UNCHANGED <<actorVars, gen, tok, responses, emitted, pre_task, turn_snapshot,
                   history, cancelSeen>>

-----------------------------------------------------------------------------
(***************************************************************************)
(* The turn, run by the task that holds the permit.                        *)
(***************************************************************************)

\* Loading the session, the prompt hook or storing the user message fails.
PrepareFails(p) ==
    /\ phase[p] = "prepare"
    /\ Release
    /\ phase' = [phase EXCEPT ![p] = "returned"]
    /\ outcome' = [outcome EXCEPT ![p] = "error"]
    /\ UNCHANGED <<actorVars, gen, tok, responses, emitted, pre_task, turn_snapshot,
                   history, cancelSeen>>

\* The user message is stored and the pre-turn snapshot task replaces
\* whatever was in its slot.
StartTurn(p) ==
    /\ phase[p] = "prepare"
    /\ history' = Append(history, Entry("user", p, p))
    /\ pre_task' = IF Snapshots THEN p ELSE Nobody
    /\ phase' = [phase EXCEPT ![p] = "cycle"]
    /\ UNCHANGED <<actorVars, gen, tok, responses, outcome, emitted, holder, waiters,
                   turn_snapshot, cancelSeen>>

\* ensure_pre_turn_snapshot_ready: the pending task is taken from its slot.
\* It may have failed; otherwise the snapshot slot is set and the start of
\* the snapshot is stored, unless the store refuses it.
EnsurePreTurnSnapshotReady(p) ==
    /\ pre_task' = Nobody
    /\ \/ UNCHANGED <<turn_snapshot, history>>
       \/ /\ turn_snapshot' = pre_task
          /\ \/ history' = Append(history, Entry("start", p, pre_task))
             \/ UNCHANGED history

\* The cycle passes a cancellation check and calls the model.
CallLlm(p) ==
    /\ phase[p] = "cycle"
    /\ tok[p] \notin cancelled
    /\ responses[p] < MaxMessages
    /\ phase' = [phase EXCEPT ![p] = "responding"]
    /\ responses' = [responses EXCEPT ![p] = @ + 1]
    /\ UNCHANGED <<actorVars, gen, tok, outcome, emitted, runtimeVars, cancelSeen>>

\* Before the first response is stored, and again after the cycle.
ResolveSnapshot(p) ==
    /\ phase[p] \in {"responding", "post"}
    /\ pre_task # Nobody
    /\ EnsurePreTurnSnapshotReady(p)
    /\ UNCHANGED <<actorVars, taskVars, holder, waiters, cancelSeen>>

StoreResponse(p) ==
    /\ phase[p] = "responding"
    /\ pre_task = Nobody
    /\ history' = Append(history, Entry("assistant", p, p))
    /\ phase' = [phase EXCEPT ![p] = "cycle"]
    /\ UNCHANGED <<actorVars, gen, tok, responses, outcome, emitted, holder, waiters,
                   pre_task, turn_snapshot, cancelSeen>>

\* execute_cycle_state_machine returns: cancelled only if a check saw the
\* token cancelled, anything else at any point of the cycle.
CycleReturns(p) ==
    /\ phase[p] \in {"cycle", "responding"}
    /\ \E o \in {"ok", "error", "cancelled"} :
          /\ o = "cancelled" => tok[p] \in cancelled
          /\ outcome' = [outcome EXCEPT ![p] = o]
    /\ phase' = [phase EXCEPT ![p] = "post"]
    /\ UNCHANGED <<actorVars, gen, tok, responses, emitted, runtimeVars, cancelSeen>>

\* Post-turn processing that leaves the snapshot in its slot.
PostTurnKeepsSnapshot(p) ==
    /\ phase[p] = "post"
    /\ pre_task = Nobody
    /\ \/ UNCHANGED history
       \/ /\ turn_snapshot # Nobody
          /\ history' = Append(history, Entry("patch", p, turn_snapshot))
    /\ Release
    /\ phase' = [phase EXCEPT ![p] = "returned"]
    /\ UNCHANGED <<actorVars, gen, tok, responses, outcome, emitted, pre_task,
                   turn_snapshot, cancelSeen>>

\* Post-turn processing, once no snapshot task is pending: the snapshot is
\* taken from its slot, the patch stored if the turn changed any file, and
\* the permit dropped with the function's frame.
PostTurn(p) ==
    /\ phase[p] = "post"
    /\ pre_task = Nobody
    /\ turn_snapshot' = Nobody
    /\ \/ UNCHANGED history
       \/ /\ turn_snapshot # Nobody
          /\ history' = Append(history, Entry("patch", p, turn_snapshot))
    /\ Release
    /\ phase' = [phase EXCEPT ![p] = "returned"]
    /\ UNCHANGED <<actorVars, gen, tok, responses, outcome, emitted, pre_task, cancelSeen>>

\* The terminal event carries the raw outcome.
ReportOutcome(p) ==
    /\ phase[p] = "returned"
    /\ emitted' = [emitted EXCEPT ![p] = IF p \notin Scheduled THEN "none" ELSE outcome[p]]
    /\ phase' = [phase EXCEPT ![p] = IF stopped THEN "done" ELSE "reported"]
    /\ UNCHANGED <<actorVars, gen, tok, responses, outcome, runtimeVars, cancelSeen>>

\* The end of the spawned future: a scheduled prompt emits its terminal
\* event, then PromptFinished is told to the actor if it still runs.
ReportFinished(p) ==
    /\ phase[p] = "returned"
    /\ emitted' = [emitted EXCEPT ![p] =
                     IF p \notin Scheduled THEN "none"
                     ELSE IF outcome[p] = "error" THEN "failed" ELSE "completed"]
    /\ phase' = [phase EXCEPT ![p] = IF stopped THEN "done" ELSE "reported"]
    /\ UNCHANGED <<actorVars, gen, tok, responses, outcome, runtimeVars, cancelSeen>>

-----------------------------------------------------------------------------
\* What GetRuntimeStatus answers (elicitations are not part of this module).
RuntimeStatus ==
    IF ~prompt_running THEN "Idle"
    ELSE IF token \in cancelled THEN "CancelRequested" ELSE "Running"

Handle(p) == Prompt(p) \/ ScheduledPrompt(p) \/ PromptFinished(p)

Wait(p) == Acquire(p) \/ Acquired(p) \/ WaitCancelled(p) \/ ShortTimeout(p) \/ LongTimeout(p)

Run(p) ==
    \/ PrepareFails(p) \/ StartTurn(p) \/ CallLlm(p) \/ ResolveSnapshot(p)
    \/ StoreResponse(p) \/ CycleReturns(p) \/ PostTurn(p) \/ ReportFinished(p)

Next ==
    \/ Cancel \/ Shutdown
    \/ \E p \in Prompts : Handle(p) \/ Wait(p) \/ Run(p)

Spec == Init /\ [][Next]_vars

\* The runtime polls every ready task, timers fire, the mailbox is served and
\* everything a task does outside its execution cycle ends, by an answer or
\* by an error of the store.  Nothing is assumed of a cycle: the model or a
\* tool may never answer.
InCycle == {"cycle", "responding"}

FairSpec ==
    /\ Spec
    /\ \A p \in Prompts :
          /\ WF_vars(Wait(p))
          /\ WF_vars(phase[p] \notin InCycle /\ Run(p))
          /\ WF_vars(PromptFinished(p))

-----------------------------------------------------------------------------
(***************************************************************************)
(* Properties                                                              *)
(***************************************************************************)

\* The parts of PermitNotLost.
TurnsHoldPermit == \A p \in Prompts : phase[p] \in Executing => holder = p
HolderLives     == holder # Nobody => phase[holder] \in Executing \cup Queued
FreeIfNoQueue   == holder = Nobody => waiters = <<>>
WaitersTracked  == \A p \in Prompts : phase[p] \in Queued =>
                      holder = p \/ \E i \in 1..Len(waiters) : waiters[i] = p
QueueWaits      == \A i \in 1..Len(waiters) :
                      phase[waiters[i]] \in Queued /\ waiters[i] # holder
QueueDistinct   == \A i, j \in 1..Len(waiters) : waiters[i] = waiters[j] => i = j

\* A task executes its turn only with the permit; the permit is never lost
\* (it is assigned to a task that runs or is about to be woken, and it is
\* free only if nobody queues) and the queue holds each waiting task once:
\* what execution_permit is for, under timeouts and cancelled waits.
PermitNotLost ==
    /\ TurnsHoldPermit
    /\ HolderLives
    /\ FreeIfNoQueue
    /\ WaitersTracked
    /\ QueueWaits
    /\ QueueDistinct

\* The messages of one turn are contiguous in the stored history: no other
\* prompt's message is ever inserted between a request and its results.
TurnsContiguous ==
    \A i, j, k \in 1..Len(history) :
       i < j /\ j < k /\ history[i].by = history[k].by => history[j].by = history[i].by

\* A prompt ends as cancelled only if a Cancel was handled after it was
\* accepted: a new prompt never inherits the cancellation of an older one
\* through the token it reuses.
NoSpuriousCancel ==
    \A p \in Prompts : outcome[p] = "cancelled" => p \in cancelSeen

\* The actor reports itself busy exactly while the newest prompt it accepted
\* is live or its PromptFinished has not been handled: stale PromptFinished
\* messages never clear the flag and it never stays set for good.
RunningFlagHasOwner ==
    ~stopped =>
       (RuntimeStatus # "Idle" <=>
          \E p \in Prompts : gen[p] = generation /\ phase[p] \in Live \cup {"reported"})

\* The shared snapshot slots belong to the turn that holds the permit, and a
\* start or patch is stored by the turn it describes: undo never pairs one
\* turn's files with another turn's snapshot.
SnapshotsOwnTurn ==
    /\ pre_task \in {Nobody, holder}
    /\ turn_snapshot \in {Nobody, holder}
    /\ \A i \in 1..Len(history) : history[i].turn = history[i].by

\* A prompt is held up only by its own execution cycle: from every other
\* point after it was sent it reaches that cycle or finishes, even if the turn
\* ahead of it in the queue never ends, and a scheduled one has then told the
\* scheduler how it ended.
EveryPromptFinishes ==
    \A p \in Prompts :
       []<>(\/ phase[p] \in InCycle \cup {"idle"}
            \/ phase[p] = "done" /\ (p \in Scheduled => emitted[p] # "none"))

\* The session as its clients see it.
Ended == {"returned", "reported", "done"}
Status(ph) ==
    IF ph = "idle" THEN "new"
    ELSE IF ph \in Waiting THEN "waiting" ELSE IF ph \in Executing THEN "running" ELSE "ended"

StatusOf == [p \in Prompts |-> Status(phase[p])]
ResultOf == [p \in Prompts |-> IF phase[p] \in Ended THEN outcome[p] ELSE "none"]
LogOf    == [i \in 1..Len(history) |-> [kind |-> history[i].kind, by |-> history[i].by]]

Serial == INSTANCE SerialTurns WITH
             status <- StatusOf, result <- ResultOf, answer <- emitted,
             asked <- cancelSeen, log <- LogOf

\* However tasks, timeouts and cancellations interleave, the session gives its
\* prompts one turn after the other, gives a prompt up only before its turn,
\* decides what came of it once and tells the scheduler just that.
ImplementsSerialTurns == Serial!Spec

-----------------------------------------------------------------------------
(***************************************************************************)
(* What comments and tests of the source say and the code does not keep.   *)
(***************************************************************************)

\* "keep the token so Cancel still reaches the currently-running task"
\* (session_actor.rs): the running turn's token is the one Cancel cancels.
CancelReachesRunningTurn ==
    \A p \in Prompts :
       phase[p] \in Executing /\ ~stopped => tok[p] = token \/ tok[p] \in cancelled
=============================================================================
