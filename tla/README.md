# A TLA+ model of the querymt agent runtime

querymt is a Rust workspace. Its protocol state is in `crates/agent`, an agent
runtime built from kameo actors, detached tokio tasks and a SQLite store, and in
`crates/querymt-remote`, which carries model calls over a mesh of nodes. This
project models the concurrency of both: the turns of a session and what runs
inside one, the scheduler, delegations, undo, the stream of events to a
dashboard, the loading of sessions and profiles, and remote model streams.
Paths below are relative to `src/crates/agent/src` unless they start with
`querymt-remote`.

## Inventory

| component | state | operations | hard behaviour | what makes it correct | module |
|---|---|---|---|---|---|
| **Session turns** `agent/session_actor.rs`, `agent/core.rs` | generation and cancellation token, `prompt_running`; per task: captured token and generation; shared `execution_permit`, snapshot slots, stored messages | Prompt, ScheduledPrompt, Cancel, PromptFinished, Shutdown | a detached task per prompt; waits that time out, are retried or cancelled; stale completions | one turn at a time, permit never lost, cancellations reach whom they should, busy flag true, turns do not mix in the history | `SessionTurn` |
| **Execution cycle** `agent/execution/`, middleware, compaction | state of the turn's state machine, retry counters, context, tool batch, event wait | before/call/after LLM, tool calls, wait for event, compaction, stop hooks, review | retries and cancellation at every await, results in any order, a context in memory beside the store | every tool call the model sees is answered, the context follows the store, a cancelled turn ends | `ExecutionCycle` |
| **Scheduler** `scheduler/`, `session/domain_schedule.rs`, `session/repo_schedule.rs` | schedule rows; deadline queue, event accumulators, active cycles, pending deletes, processed terminals; timers | Add, Remove, Pause, Resume, TriggerNow, DeadlineReached, ProcessEvent, CycleCompleted, CycleFailed, DebounceCompleted, Reconcile, Shutdown, spawn | lost and late terminal events, timeouts racing answers, restarts, overlapping cycles | an armed schedule fires, a cycle ends, deletes and final states hold | `Scheduler` |
| **Scheduler lease** `session/repo_schedule.rs`, `scheduler/mod.rs` | one row: owner, expiry | acquire, renew, release | late renewals, crash of the holder | one scheduler at a time | `SchedulerLease` |
| **Delegation** `delegation/core.rs`, `agent/execution/wait.rs` | delegation rows, active delegations, parallelism permit, the planner's wait | request, run, cancel, complete, fail, time out, clean up | events lost and reordered, a task that ends before it is registered, whole rows written from stale reads | a running task can be cancelled, a wait ends, a finished one has a final row | `Delegation` |
| **Undo/redo, snapshots** `agent/undo.rs`, `snapshot/git.rs` | revert frames, snapshots, stored messages, files | undo, redo, clean-up on prompt | a clean-up and an undo whose steps interleave, restores that fail, child sessions | files and history agree | `Undo` |
| **Events** `event_sink.rs`, `event_fanout.rs`, `session/sqlite_storage/event_journal.rs`, `ui/connection.rs`, `ui/handlers/session_ops.rs` | journal numbers, broadcast queue, cursor and subscription of a connection, the client's list | emit durable/ephemeral, forward, subscribe, load, unsubscribe | a task per event, lag, two tasks sending to one client | the client shows the journal, in order | `EventStream` |
| **Registry, materializer** `agent/session_registry.rs`, `agent/session_materializer.rs`, `agent/remote/node_manager.rs` | registered actor, single-flight locks, remote locks | load, resume, load for another node, stop | locks removed by their last user, two locks in a row, failures half way | one actor per session, nobody is stuck | `Materializer` |
| **Profile runtimes** `profiles.rs` | cache of runtimes, fingerprints, active profile, mesh handle | look up, build, reload, set active, set mesh, shut down | parallel builds outside the mutex, files edited meanwhile, two mutexes | one runtime per profile, of the current file | `Profiles` |
| **Remote streams** `querymt-remote/src/provider_host_actor.rs`, `provider_stream_router.rs`, `remote_chat_provider.rs` | host tasks, active streams and leases, router entries, bounded channel, client stream | request and retry, batch, relay, acknowledge, reconnect, cancel, renew, expire | a link that breaks, lost acknowledgements, a vanished client | chunks in order and complete, no task without an owner | `StreamRelay` |
| **Elicitation** `elicitation.rs` | map of one-shot channels | ask, answer, cancel | an answer racing a cancel | answered once | none |
| **Mesh** `agent/remote/` | nodes, event relays, routes, admission | join, relay, route | lost peers | stale routes dropped | only the loading of sessions |

Tools, indexes, knowledge, ACP and UI adapters, providers, CLI and bindings convert
data or talk to the outside and keep no protocol state; they stay unmodelled.

How the parts interact. The scheduler tells `ScheduledPrompt` to a session actor and
learns how the turn ended from events on the lossy broadcast fanout; the lease decides
which process has a scheduler. A session's detached task runs the execution cycle,
which calls a model (perhaps over a remote stream), runs tools, and waits for the
delegations it requested; the delegation orchestrator hears of them by events only.
Turns leave snapshots that undo goes back to. All of them emit events, which the
connections of dashboards forward. Sessions are loaded into actors of a profile's
runtime, by local requests and by those of other nodes.

## Modules

* `SessionTurn`: one session. `generation`, `token` and `prompt_running` are the
  fields of `SessionActor`; tokens are numbers and `cancelled` the set of
  cancelled ones. `phase[p]` is the place of prompt p's task in
  `execute_prompt_detached`: `spawned`, `short` and `long` (in the queue for the
  100 ms and the long wait), `requeue` (between the two), `prepare`, `cycle`,
  `responding`, `post`, `returned`, `reported` (PromptFinished is in the
  mailbox), `done`. `holder` and `waiters` are tokio's semaphore: a released
  permit goes to the head of the queue. `pre_task` and `turn_snapshot` are the
  slots of `SessionRuntime`; each holds the turn it was filled for. `history`
  records who stored each message (`by`) and which turn it describes (`turn`).
  Every message handler is one step (the actor handles one message at a time);
  a task's steps end where it awaits.
* `SerialTurns`: what a session promises, without permits, tokens and tasks. A prompt
  is new, waiting, running or ended; turns begin one at a time, store their messages,
  the user's first, and end with a result that never changes and that the scheduler is
  told once.
* `ExecutionCycle`: the loop of `execute_cycle_state_machine`, one per session.
  `state` is the `ExecutionState`, `pc` where the loop awaits: the model call, its
  backoff, the stream, the tools, the event wait, a compaction. Messages are
  their kind and the tool calls they ask for or answer. The step limit is
  modelled; tokens are not, so a context may be over its threshold at any step.
  The middleware object with the duplicate review is shared by all sessions of a
  configuration, as in the code. Middleware may put messages into the context that
  are not stored (`middleware/modes.rs:85`, `delegation.rs:216`, `:413`,
  `context.rs:229`, `tasks.rs:275`); such a message is of the kind `note`.
* `Delegation`: planners on one side, the orchestrator and its tasks on the other,
  the store and two sets of events between them. Sets, because a task per event
  emits it: events overtake each other. `inserting` is the moment between the
  spawn of a task and its entry in `active_delegations`. Every write of a status may
  be refused by the store, which is only logged; `unwritten` are the delegations
  whose final status was.
* `Scheduler`: the actor, its rows, timers, mailbox and the turns it started.
  Everything about one schedule is one record, and a handler is a function on
  that record (`Enqueue`, `Fire`, `Completed`, `Failed`, `Sweep`, `Recover`),
  which is how the code composes too. Rows are updated by the actor alone, one
  message at a time, but the deletion of a session deletes them at any time
  (`DeleteSession`): the handlers then find no row and return early, the cycle and
  its marks stay behind in the actor. An update of a row that is gone fails,
  which is only logged, so a deletion between the actor's reading and writing is the
  same as one after the write. Time is abstract: `next_run_at` is none, in the future or due, `last_run_at` none,
  recent or older than the cutoff of 300 s. `processed` says that the key
  (schedule, None) is in `processed_terminals`.
* `SchedulerLease`: the lease row, with an integer clock.
* `Undo`: one session's files, messages, revert frames and the patches of its child
  sessions. The content of a path is the turn that wrote it. Messages are found by
  their position, as in the code: `target_idx` is the place of a prompt, undo
  collects what comes after it and the clean-up keeps what comes before it.
  Three parties take turns: the turn that writes files, the clean-up of a prompt in
  its task (`phase`: it has peeked at the top frame, deleted the messages, cleared
  the frames), and the actor's handler of Undo or Redo (`handling`), which awaits
  after its snapshot, after reading the histories, after every restored patch and
  before it pushes or pops the frame. Every store and restore operation may fail, a
  restore also half way. `marks` records what a property excepts.
* `EventStream`: one session's events and one connection: the emission tasks, the
  journal with its rows in the order of their numbers, the bounded queue, the
  forwarder, the receive task that serves requests, and the client's list as
  `useUiClient.ts` keeps it. There the deltas of an answer are one item, which the
  stored answer (`Finals`) replaces where it is; a live `turn_started` is not listed,
  and `workspace_index_ready` is not sent as an event (`Unlisted`). A read of the
  journal returns the first `Limit` rows (10,000 in the code).
* `Materializer`: one stored session and the requests that load it. The handle and the
  node manager each have a `SessionMaterializer`, and so a map of single-flight locks,
  over one registry (`Uses`, `inflight`). A request's `pc` is its place in `materialize_remote_session`, `SessionMaterializer` and
  `SessionSingleFlightGuard::drop`; locks and actors are named after the request
  that made them.
* `Profiles`: `ProfileRuntimeManager`. A file is the number of its last edit and so
  is its fingerprint; a runtime is named after the call that built it and knows the
  edit it was configured from. `load_profile` reads the file twice, for the
  fingerprint and for the configuration. `cacheLock` and `printLock` are the two
  mutexes; a step that takes and leaves one without awaiting is one action.
* `StreamRelay`: one streamed response. `host[t]` is the relay task of the t-th
  request (a request is sent at most twice), `entry` the request's entry in
  `active_streams`, `wire` the messages on their way. The transport is external:
  messages of the host arrive in order, one told without acknowledgement may be
  lost with the link, and an acknowledgement may be lost after its message arrived.
* `SessionTurnProofs`, `SchedulerProofs`, `ExecutionCycleProofs`, `DelegationProofs`,
  `StreamRelayProofs`, `MaterializerProofs`, `ProfilesProofs`: the theorems of one
  component each. `ServicesProofs`: those of the lease, of undo and of the event
  stream, and what `MaterializerProofs` and `ProfilesProofs` say of the components
  as `MCServices` instantiates them.
* `MCScheduler`, `MCStreamRelay`: instances and state constraints. `MCServices`:
  the five components that share no state (lease, undo, events, loading, profiles)
  side by side in one run; the variable `moving`, chosen at the start, says which of
  them moves, so their state spaces add up instead of multiplying.

Definitions such as `AcceptKeepingToken` or `EnqueueForgotten`, each placed before
the definition it varies, are deliberately wrong variants of it; no action uses
them, and they show that a property notices the mistake.

Refinement, in two levels. `SessionTurn!ImplementsSerialTurns` shows that the session
keeps the promise of `SerialTurns`: waits and their retries are `waiting`, the phases
under the permit `running`, and a result counts from the moment the permit is given
up. In turn, `SessionTurn` treats the execution cycle as a black box that calls the
model, stores responses and returns. `ExecutionCycle!ImplementsTurn` shows that the
detailed cycle is such a box: with `T(s) == INSTANCE SessionTurn WITH ...`, every
step of the cycle between two prompts is a step of `SessionTurn` with one prompt
that holds the permit, or none at all. `pc = "done"` maps to `post`, a called model
whose response is not stored to `responding`, everything else to `cycle`.

## Runs

| run | instance | shows |
|---|---|---|
| `session` | 2 prompts, one scheduled, 1 response each, snapshots, `FairSpec` | `TypeOK`, `PermitNotLost`, `NoSpuriousCancel`, `RunningFlagHasOwner`, `SnapshotsOwnTurn`, `EveryPromptFinishes`, `ImplementsSerialTurns` |
| `scheduler_cycle` | 1 interval schedule, 2 outstanding turns, 2 failures, 2 runs, `FairSpec` | `TypeOK`, `PendingDeleteHasCycle`, `CycleHasTimeout`, `SchedulesGoOn`, `TerminalStays` |
| `scheduler_pair` | a one-time and an event-driven schedule, threshold 2, debounce | `WakeNotLost`, `ArmedIsTracked` |
| `cycle` | 1 session, 1 turn, 2 tool calls, 2 steps, 2 retries, 1 stream retry, 1 compaction, `FairSpec` | `TypeOK`, `ModelSeesPairs`, `ContextFollowsHistory`, `CancelEndsTurn`, `ImplementsTurn` |
| `delegation` | 1 planner, 2 delegations, 1 permit, lossy events, `FairSpec` | `TypeOK`, `RunningIsCancellable`, `EndedIsTerminal`, `WaitEnds`, `CancelledStops` |
| `stream_relay` | 3 chunks, batches of 2, channel of 2, 1 fault, `FairSpec` | `TypeOK`, `StreamFaithful`, `RunningIsTracked`, `HostStops` |
| `services` | lease: 3 processes, TTL 3, renewals late by up to 3; undo: 2 paths, 3 turns, 2 undos; events: 3 durable (one unlisted, one a stored answer), 1 delta, reads of 2 rows, queue of 2, 1 request, 1 broken connection with the subscription that follows; loading: 3 of 2 local and 3 remote requests, 1 stop; profiles: 2 calls, 2 profiles, 2 edits | `ServicesTypeOK`; `OneLeader`, `LeaseHandover`; `FrontierStored`, `FilesFollowHistory`; `ShownInOrder`, `NothingMissed`; `OneActor`, `RemoteSingleFlight`, `RequestsGoOn`; `RuntimesShared`, `CacheCurrent` |

What the less obvious properties say. `EveryPromptFinishes`: at every time a prompt is
not sent yet, or will be in its cycle or done; it is written with []<> rather than
leads-to because TLC then needs no tableau. `ModelSeesPairs`: whatever tools fail, are cancelled,
delegate, and however the turn was compacted, reviewed or continued, the model is
called with every tool_use answered, if the conversation loaded at the start was.
`ContextFollowsHistory`: the model is called with what a new turn would load, in its
order, and notes of middleware between it. `PendingDeleteHasCycle`: a deferred delete
whose row is still there has the active cycle that will execute it.
`TerminalStays`: an exhausted or failed schedule comes back only through the answer
of a turn that was still out. `RunningIsTracked`: a host task without its entry
could not be cancelled. `NothingMissed`: once everything emitted has arrived a
subscribed client shows every journaled event of a kind it lists. `CacheCurrent`: once the watcher is
idle, a cached runtime was configured from the file as it is.

Exceptions. Some properties hold only up to behaviours of the code that the model
records in a history variable; each is a statement about the code in its own right.

* `OneActor` excepts `raced`: `SessionSingleFlightGuard::drop` counts the users of
  its lock before it takes the map's mutex, so a lock may be removed while a request
  that has just cloned it waits; a third request then makes a second lock. For the
  number of actors it also excepts `crossed`: a local and a remote load have the locks
  of two materializers (`agent/remote/node_manager.rs:356`) and exclude each other
  only by the registry, although a comment counts on the lock to prevent duplicates
  (`agent/handle/send_agent_lifecycle.rs:144`). That each materializer loads once at a
  time holds in this case, too.
* `NothingMissed` excepts `overtaken` (two emission tasks published in the other order
  than they were journaled, and the cursor swallows the earlier event) and `excused`
  (published between the journal read and the subscription of a load, or ahead of a
  batch read before it, beyond the rows a read returned, or left out by a failed
  read), and says nothing of the two kinds of events a client does not list live.
  `ShownInOrder` excepts none of these; it compares events only as far as no ephemeral
  item, which has no number, and no answer that took the place of its deltas
  (`placed`) was shown between them: an ordinary streamed turn shows its answer ahead
  of `llm_request_end`, which has a lower number. A queue that lags ends the forwarder
  without a word: the connection stays open and shows nothing more.
* `FrontierStored` excepts an undo or redo that overlapped with a clean-up: the handler
  reads the history, the clean-up deletes what it read, and the frame pushed then
  names a message that is gone (`agent/undo.rs:102`, `:242`, `:331`); and a
  `clear_revert_states` that failed, which is only a warning
  (`agent/session_actor.rs:1724`). It holds through undos while a turn runs and through
  every other failure.
* `FilesFollowHistory` excepts all of that, undos and redos during a turn, an undo to a
  prompt after the last frontier, delegations, and failures: of a snapshot, of a
  restore (the frame is pushed all the same, `agent/undo.rs:203`), of the deletion of
  messages, and of pushing or popping a frame.
* `EndedIsTerminal` excepts a delegation whose final status the store refused: the
  task logs it and its terminal event goes out (`delegation/core.rs:891`, `:1059`). It is
  about tasks that ended by themselves; an aborted task writes no status.
* `PendingDeleteHasCycle` is about rows that are there: if the session is deleted, its
  rows go with it and the mark stays in `pending_deletes` for good
  (`scheduler/mod.rs:1169`); there is nothing left to delete.
* `RunningIsTracked` and `HostStops` except a request that was sent again, whose two
  tasks share one entry.
* `ModelSeesPairs` says nothing of a turn whose context came from another session: the
  duplicate review keeps the context of the session the model answered last
  (`dedup_check.rs:144`, `:660`) and its one review continues with that context
  whichever session completes its turn (`:703`, `:710`).
* `StreamFaithful` excepts lost messages for completeness: a batch told without
  acknowledgement is popped from the buffer at once, so what was in flight when the
  link broke is not sent again and the stream may still end with Done.
* `CacheCurrent` excepts a call that had read its file when a reload found the file
  changed: it inserts the old runtime after the reload and nothing evicts it until
  the next change of a file. It says nothing after a reload that failed.
* `CancelEndsTurn` excepts the wait for a connection to the provider and a
  compaction, which the token does not interrupt.

Bounds. Two prompts are one running and one queued or overtaking; the theorems have
any number. Two outstanding turns give one late answer of a timed-out turn beside the
current one; `RunCap` saturates the run counter above `MaxRuns`. Two tool calls give
results in both orders, one of them failed, cancelled or a delegation; two steps let
a turn call the model again after its tools. Two delegations compete for one permit.
Three chunks in batches of two give a full and a partial batch. Three turns
and two undos give stacked frames. Three loads are needed for the race of the
single-flight lock: one that drops it, one that clones it, one that makes the next;
up to two of them are local. Two edits let a file change twice between its reads.
With reads of two rows the third durable event is beyond the limit; the theorems have
any number of events, requests and rows.
`MaxMessages`, `MaxCalls`, `MaxCompactions`, `MaxTurns`, `RunCap`, `MaxTime`,
`MaxUndos`, `MaxRequests`, `MaxBreaks`, `MaxLoads`, `MaxStops`, `MaxEdits`,
`MaxFaults` and `WireBound` are the bounds the code does not have. Three runs have a
state constraint: `scheduler_pair` leaves out missing sessions, overlapping cycles
and rows that vanish under an active cycle, which the one-schedule run covers (two
schedules share nothing but the wake task); `stream_relay` follows a request that was sent twice up to its first chunk,
since the properties about order and progress except it; `services` explores one
kind of exception to `FilesFollowHistory` at a time, with one turn less, and nothing
beyond one that excepts from `FrontierStored`, too (`undo_child` has delegations), a
broken connection or a failed append, and interchangeable requests in one order. The
theorems about the services have none of these limits.
Deadlock checking is off where the system may stop for good: prompts all done, turns
all ended, a clock at `MaxTime`, requests all answered.

Runs that end in a counterexample, each against a line of the repository:

| run | what the code does |
|---|---|
| `session_cancel_reach` | when the newest prompt ends while an older turn runs, the fresh token leaves that turn out of Cancel's reach (`session_actor.rs:1386`) |
| `scheduler_stuck` | all failures of a schedule share one idempotency key, so after the first one timeouts have no effect (`domain_schedule.rs:97`) |
| `cycle_unpaired` | a cancellation between the stored response and the start of its tools leaves tool calls unanswered for every later turn (`transitions.rs:882`) |
| `profiles_blocked` | a reload holds the fingerprints and waits for the cache, the insertion of a runtime holds the cache and waits for the fingerprints: both, and every lookup after them, wait for good (`profiles.rs:736`) |
| `undo_child` | undoing a message also reverts what child sessions wrote before it (`undo.rs:4`) |

Further behaviours seen while modelling, which no property covers. In the session: a
scheduled prompt cancelled in the queue reports a completed cycle
(`session_actor.rs:1550`), a panic of the detached task skips PromptFinished
(`:1583`), and a snapshot that cannot be stored leaves a turn that undo skips
(`:2065`). In the scheduler: a one-time schedule whose turn outlives its timeout runs
twice (`scheduler/mod.rs:1216`), deferred deletes do not survive a restart (`:1428`),
an event-driven schedule keeps the deadline of its backoff (`:1709`), store errors on
re-arming are only logged (`:1225`), and lease times are compared as RFC 3339 texts
(`session/repo_schedule.rs:118`). In the cycle: a history that cannot be loaded is
taken for an empty one (`session/provider.rs:761`), a pre_compaction hook that always
blocks makes the turn loop (`execution/maintenance.rs:145`), and under policy Any the
planner's wait has no timeout (`execution/wait.rs:60`). In delegation: an aborted
task writes no status (`delegation/core.rs:360`), and a session's cancellation misses
a delegation that is not in the map yet (`:366`). In remote streams: an upstream that
ends without Done sends nothing more
(`querymt-remote/src/provider_host_actor.rs:464`), and a single failed reconnect
after the upstream is done drops the rest (`:524`). In profiles: a prompt file a
profile refers to is not part of its fingerprint, the fallback of a reload may
overwrite a choice made between its check and its write (`profiles.rs:682`), and the
debounce loop spins if the watcher is dropped while it drains (`:880`).

## Fairness

Nowhere is anything assumed of users, of a provider, of a child session or of a link.

* `SessionTurn`: the tokio runtime polls ready tasks, its timers fire and the mailbox
  is served. A turn's execution cycle may run for ever, and only a prompt whose own
  cycle does so is excused.
* `Scheduler`: mailbox, timers and sweep are served. A stopped actor need not be
  started again. Turns end, because `MaxTurns` bounds the outstanding ones: a turn
  that never ended would block the bound, not the code. `WakeFires` is strongly
  fair: the wake task sleeps for the earliest deadline and is replaced with every
  change of the queue, so it is enabled again and again rather than continuously;
  time makes every queued deadline the earliest one in the end.
* `ExecutionCycle`: the loop goes on where it does not await anything (`Loop`), and a
  cancelled token is noticed where the code selects on it (`Interrupt`). Models,
  tools and delegations need not answer.
* `Delegation`: the orchestrator handles its events, the planner's inactivity timeout
  and clean-up run, the grace period of a cancelled task expires.
* `StreamRelay`: the router and the client are polled, a host task drains its buffer
  and notices cancellation and lease, and the lease runs out once nobody renews it.

## Proofs

The theorems hold for every value of the constants that the named assumptions allow:
any set of prompts, schedules, sessions, planners, delegations, processes, paths,
events, requests or profiles and any value of the limits. The assumptions are
`PromptsAssumption`, `SchedulerAssumption`, `CycleAssumption`, `DelegationAssumption`,
`RelayConstants`, `LeaseAssumption`, and in `MCServices` `UndoAssumption`,
`StreamAssumption`, `LoadAssumption` and `CacheAssumption`. They say that limits are
natural numbers (positive where the code has a positive constant), that sets of names
are finite where something is counted, and that `None` is not a name. Everything
follows one pattern: an inductive invariant, one lemma per action (or per function an
action is made of), and the property as its consequence.

Session (`SessionTurnProofs`).

* `TypeCorrect`: `TypeOK` is inductive.
* `PermitSafe`: `PermitNotLost`, whose six named parts together with `TypeOK` are
  inductive. The queue is a sequence; the lemmas about `Release`, `Without` and
  `Abandon` say what each way of leaving it does to its members.
* `FlagOwned`: `RunningFlagHasOwner` needs that generations of accepted prompts
  are distinct and at most `generation` (`FlagInv`): otherwise a stale
  PromptFinished could carry the current one.
* `CancelNotSpurious`: `NoSpuriousCancel` needs that a live prompt whose token is
  cancelled has seen a Cancel, and that no token above `lastToken` is used or
  cancelled (`TokenInv`).
* `SnapshotsSafe`: the slots are empty unless a turn runs, and then hold that
  turn (`SlotInv`); it rests on `PermitSafe`.
* `HistoryContiguous`: the stored messages of two turns never alternate
  (`TurnsContiguous`; the run checks it as part of the refinement). The prompt that
  stored the last message is the only one that may still add to its block
  (`OrderInv`); it rests on `PermitSafe`.
* `TurnsSerial`: the refinement of `SerialTurns`, one lemma per abstract action. That a
  turn begins only when none runs is `PermitNotLost`; that its first message is the
  user's is `OrderInv`; that nobody is cancelled unasked is `NoSpuriousCancel`; and
  that a result is there when the turn ends and is told once is one more invariant
  (`OutcomeInv`).

Scheduler (`SchedulerProofs`).

* `ArmedTracked`, `WakeKept`, `DeleteDeferred`, `CycleTimed`: the four safety
  properties, from one inductive invariant `Inv`. It is per schedule (`Row`,
  `Tracked`) except for the wake task. What has to be added is that a timed schedule
  that may fire again has a `next_run_at` (`HasDeadline`: otherwise re-arming it
  would enqueue nothing), that only event-driven schedules have a counter, and that
  a schedule not created yet has neither a cycle nor a mark (`CycleOK`); an active
  cycle need not have a row, since the row may vanish under it. Handlers are functions on a record, so one lemma per
  function (`CompletedFollows`, `FailedFollows`, `FireFollows`, `SweepFollows`, ...)
  says what it preserves and when it adds a queue entry; `EnqueuesAdds` says that the
  wake task is rescheduled in exactly those cases.
* `SchedulerTypeCorrect`: the whole `TypeOK`, from the type of one record, which every
  handler preserves.
* `FinalStays`: the action property `TerminalStays`, handler by handler.

Execution cycle (`ExecutionCycleProofs`), from one invariant `CycleInv`.

* `CycleTypeCorrect`, with `PlaceOK`: the place in the loop fixes the state of the
  machine.
* `CallsArePaired`: the context is paired wherever the model may be called with it
  and lacks exactly the results of the running batch while tools run (`PairOK`).
  `ReviewOK` covers the context kept for the duplicate review.
* `ContextIsHistory`: context and stored history grow together (`FollowOK`): without its
  notes the context is the history, and no note is stored (`Unnoted`). This
  needs when a response is not stored yet (`StoredOK`) and what `Effective` does to a
  history that grows or is compacted.
* `CycleImplementsTurn`: the refinement. Initial states map to initial states, and
  every step of the cycle to a step of `SessionTurn` or to none.

Delegation (`DelegationProofs`): `DelegationTypeCorrect`, `TasksCancellable`,
`EndsTerminal`. That no more tasks hold a permit than `MaxParallel` is an argument about
cardinalities (`PermitsKept`). A delegation is requested once, so a second request cannot start a
task under an entry of the first (`RequestedOnce`); the result exists when the task
ends and is in the row before the terminal event goes out, unless the store refused it
(`ResultOK`).

Remote streams (`StreamRelayProofs`).

* `RelayTypeCorrect`, `TasksTracked`: what a relay task holds in each phase
  (`TasksOK`) and that a forgotten request has no consumer (`RouterOK`).
* `StreamInOrder`: along the way of a chunk (received, channel, wire, buffered,
  pending, not read yet) every place holds only earlier chunks than the next
  (`Flow`), and together they hold all of them (`Whole`). Messages move from one place
  to the next, so each action is one lemma about these two operators.

Loading and profiles (`MaterializerProofs`, `ProfilesProofs`, cited in
`ServicesProofs`).

* `ServicesRemoteExclusive`: all remote requests use the lock of the map's entry
  (`OuterOK`), and past the lock means holding it.
* `ServicesOneActor`: unless `raced`, all requests that have a single-flight lock have
  the one of their materializer's map (`InnerOK`), so each materializer loads once at a
  time. Unless loads `crossed`, requests that load do so with the same materializer,
  so the one that prepares an actor found none (`SingleOK`, `ActorsOK`).
* `ServicesRequestsGoOn`: nobody waits in a circle. A lock that is taken is held by a
  request that has that very lock and is at a place where it goes on or, for the remote
  lock only, waits for the single-flight lock (`HeldOK`); the holder of the latter
  waits for nothing. Hence every chain of waits has at most two links.
* `ServicesRuntimeUnique`: who inserts holds the mutex of the cache and has found no
  runtime (`InsertingOK`, `CachedOK`).
* `ServicesCacheFollows`: edits are numbered, and the configuration is read after the
  fingerprint (`ReadOrder`), so a cached runtime is at least as new as its
  fingerprint; an idle watcher has fingerprints equal to the files (`ListingOK`,
  `PrintsCurrent`), which leaves nothing newer to read.

Lease, undo and events (`ServicesProofs`).

* `LeaseExclusive`: two schedulers act at once only while a renewal is overdue by
  more than the slack `TTL - TTL / 2`. The invariant (`LeaderCovered`): the next
  renewal is at most an interval away, and an acting scheduler owns a lease that
  lasts the slack of its next renewal, or is overdue.
* `LeaseHandedOver`: an action property, from typing alone.
* `ServicesFrontierStored`: as long as no undo or redo overlapped with a clean-up and
  the frames were always cleared (`Orderly`), the message an undo goes to stays until
  its frame is pushed; in `cleaning` a frame may name a deleted message, and the frames
  are cleared before anything else reads them (`UndoInv`).
* `ServicesFilesFollow`: as long as nothing excepted happened, a history is the turns
  in order, each a prompt, the snapshot of the files of the turns before it and, if it
  wrote something, a patch of exactly what it wrote (`Sorted`, `Complete`); every
  frame remembers the files that were visible below it (`FramesOK`, `FilesOK`).
  An undo restores one patch at a time. The invariant says of every path what the
  patches still to be restored, last first, will leave (`EndsWith`, in `HandlerOK`):
  the snapshot of the first of them that lists the path, which is the state before the
  oldest undone turn that wrote it (`Collected`, `UndoneFiles`); each restore keeps
  that (`RestoreFollows`). `ChangedPaths` says that comparing the snapshots of a turn
  finds all it wrote.
* `ServicesShownInOrder`, `ServicesNothingMissed`: the proof follows one durable event.
  It is safe once the client shows it, does not list it or it is excepted, which never
  changes; until then it is still coming, the forwarder is dead, or the request at hand
  has it in its batch (`CoverOK`), and the cursor passes it only in those cases
  (`PassedOK`). What the client does with an event has a lemma for each of its three
  ways: nothing, in the place of the deltas (`PlaceInOrder`), at the end
  (`AppendInOrder`). A batch is the beginning of the journal (`BatchOK`), and a read
  excuses what it cut off unless that is still to be published (`BatchRead`).

* `ServicesTypeCorrect`: `ServicesTypeOK`, the types of the five components. Those of
  the lease, loading and profiles are part of their invariants. For undo, messages,
  patches and frames name turns that have started (`UndoTyped`). For the stream, the
  next sequence number is bounded by the number of durable events that were numbered
  (`StreamShape`), an argument about cardinalities for which `Durable` is assumed
  finite.

Only model-checked.

* Liveness, because fairness is outside TLAPS's reach: `EveryPromptFinishes`,
  `SchedulesGoOn`, `CancelEndsTurn`, `WaitEnds`, `CancelledStops`, `HostStops`.
* `profiles_blocked`, which expects a counterexample and speaks of ENABLED.

Every invariant, every action property and both refinements that the passing runs
check are theorems.

## Not modelled

* Store errors in the scheduler, a child session's history that undo cannot read (it
  skips that child), panics of detached tasks, the comparison of
  RFC 3339 texts in the lease's SQL (integers here), jitter and backoff arithmetic,
  metrics.
* The messages of a session actor that replace one of its fields (mode, model, MCP
  servers, event relay).
* The handles of profiles, each of which has a registry and a materializer of its own
  (`agent/handle/core.rs:426`): `Materializer` is about one handle and the node manager
  over its registry, and says nothing of a session loaded by two handles.
* New and forked sessions, which have fresh ids and no lock; the bindings of sessions
  to profiles, a map backed by a table, one entry at a time.
* Events relayed from other nodes, the deletion of undone events in the client's list.
* Elicitation: a map of one-shot channels where an answer removes what it finds.
* The session store itself, whose rows are variables of the modules that use them;
  pruning, which shortens texts and keeps messages and their order.
* Mesh membership, routing and admission: tables with one writer each.
* Tools, code index, knowledge, skills, slash commands, ACP and dashboard protocol,
  providers, plugins, CLI and bindings: conversions and I/O. They are most of the
  workspace's lines, and a state machine of them would restate their code.

## Plan

What could be added next: a composition of `Scheduler` and `SessionTurn`, in which the
turns the scheduler starts are those of `SerialTurns` and their terminal events pass
through `EventStream`'s queue; and the relay of events between nodes.
