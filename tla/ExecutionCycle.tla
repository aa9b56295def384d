--------------------------- MODULE ExecutionCycle ---------------------------
(***************************************************************************)
(* The execution cycle of a turn: the state machine of                     *)
(* crates/agent/src/agent/execution that alternates calls of the model     *)
(* with tool calls until the turn ends.  Every session runs one turn after *)
(* another (SessionTurn says why); the turns of different sessions are     *)
(* independent tasks that share the middleware objects of the agent's      *)
(* configuration.  A model call is retried, a stream is restarted, tools   *)
(* run in parallel and delegations are waited for; the session's token may *)
(* be cancelled at any of these points.  Texts are left out: a message is  *)
(* its kind and the tool calls it requests or answers.                     *)
(***************************************************************************)
EXTENDS Integers, Sequences, FiniteSets

CONSTANTS Sessions,         \* the sessions whose turns run
          Calls,            \* identifiers of tool calls
          None,             \* the absent context
          MaxSteps,         \* max_steps of the limits middleware
          MaxRetries,       \* rate_limit.max_retries
          MaxStreamRetries, \* rate_limit.max_stream_retries
          MaxCalls,         \* responses after which the model asks for no more tools
          MaxTurns,         \* bound on the turns of a session
          MaxCompactions,   \* bound on the compactions of one turn
          WaitPolicy,       \* delegation_wait_policy
          WaitTimeout       \* whether delegation_wait_timeout_secs > 0

ASSUME CycleAssumption ==
    /\ None \notin Sessions
    /\ MaxSteps \in Nat /\ MaxRetries \in Nat /\ MaxStreamRetries \in Nat
    /\ MaxCalls \in Nat /\ MaxTurns \in Nat /\ MaxCompactions \in Nat
    /\ WaitPolicy \in {"any", "all"}
    /\ WaitTimeout \in BOOLEAN
    /\ IsFiniteSet(Calls)

VARIABLES
    cancelled,     \* the sessions whose token is cancelled
    pc,            \* where the loop of each session's turn is
    state,         \* its ExecutionState
    stop_type,     \* why it is Stopped
    initial,       \* the messages loaded when the turn started
    context,       \* its ConversationContext
    history,       \* the session's stored messages
    response,      \* what the model answered
    call,          \* the call of the model: its path, attempt and stream attempt
    pending,       \* tool calls that run, or delegations that are waited for
    succeeded,     \* the tool calls of this batch that returned no error
    continuations, \* stop_hook_continuations
    turn_diffs,    \* files changed since the last review: turn_diffs of the runtime
    outcome,       \* the result of execute_cycle_state_machine
    \* the DedupCheckMiddleware object
    already_reviewed, last_context,
    \* history variables
    turns,         \* turns of the session so far
    called,        \* model calls of the turn
    unstored,      \* the last call's response is not stored
    compactions,   \* compactions of the turn
    reviewed       \* whether the duplicate review prolonged the turn

flowVars   == <<pc, state, stop_type, outcome>>
callVars   == <<response, call, called, unstored>>
toolVars   == <<pending, succeeded, turn_diffs>>
talkVars   == <<initial, context, history>>
countVars  == <<continuations, turns, compactions, reviewed>>
sharedVars == <<already_reviewed, last_context>>
vars == <<cancelled, flowVars, callVars, toolVars, talkVars, countVars, sharedVars>>

-----------------------------------------------------------------------------
States == {"BeforeLlmCall", "CallLlm", "AfterLlm", "ProcessingToolCalls",
           "WaitingForEvent", "Complete", "Stopped", "Cancelled"}
Points == {"start", "top", "run", "calling", "connecting", "backoff", "streaming",
           "tools", "waiting", "compacting", "done"}
Finishes  == {"tool_calls", "stop", "length", "other"}
StopTypes == {"none", "limit", "context", "model", "delegation"}

Kinds    == {"prompt", "assistant", "results", "wait", "request", "summary", "note"}
Messages == [kind : Kinds, calls : SUBSET Calls, finish : Finishes]
Message(kind, calls, finish) == [kind |-> kind, calls |-> calls, finish |-> finish]
Plain(kind) == Message(kind, {}, "other")

Contexts == [owner : Sessions, messages : Seq(Messages), steps : Nat]
LlmCalls == [path : {"submit", "stream"}, attempt : 0..MaxRetries \cup {1},
             stream : 0..(MaxStreamRetries + 1)]
Responses == [calls : SUBSET Calls, finish : Finishes, usage : BOOLEAN]

\* filter_to_effective_history: from the last compaction request on.
Effective(h) ==
    LET requests == {i \in 1..Len(h) : h[i].kind = "request"}
    IN  IF requests = {} THEN h
        ELSE SubSeq(h, CHOOSE i \in requests : \A j \in requests : j <= i, Len(h))

\* The context built when the turn starts, from the history loaded then.
InitialContext(s, msgs) == [owner |-> s, messages |-> msgs, steps |-> 0]

TypeOK ==
    /\ cancelled \subseteq Sessions
    /\ pc \in [Sessions -> Points]
    /\ state \in [Sessions -> States]
    /\ stop_type \in [Sessions -> StopTypes]
    /\ initial \in [Sessions -> Seq(Messages)]
    /\ context \in [Sessions -> Contexts]
    /\ history \in [Sessions -> Seq(Messages)]
    /\ response \in [Sessions -> Responses]
    /\ call \in [Sessions -> LlmCalls]
    /\ pending \in [Sessions -> SUBSET Calls]
    /\ succeeded \in [Sessions -> SUBSET Calls]
    /\ turn_diffs \in [Sessions -> BOOLEAN]
    /\ continuations \in [Sessions -> Nat]
    /\ outcome \in [Sessions -> {"none", "completed", "stopped", "cancelled", "error"}]
    /\ already_reviewed \in BOOLEAN
    /\ last_context \in Contexts \cup {None}
    /\ turns \in [Sessions -> Nat]
    /\ called \in [Sessions -> Nat]
    /\ unstored \in [Sessions -> BOOLEAN]
    /\ compactions \in [Sessions -> Nat]
    /\ reviewed \in [Sessions -> BOOLEAN]

NoResponse == [calls |-> {}, finish |-> "other", usage |-> FALSE]
NoCall     == [path |-> "submit", attempt |-> 0, stream |-> 0]

Init ==
    /\ cancelled = {}
    /\ pc = [s \in Sessions |-> "done"]
    /\ state = [s \in Sessions |-> "BeforeLlmCall"]
    /\ stop_type = [s \in Sessions |-> "none"]
    /\ initial = [s \in Sessions |-> <<>>]
    /\ context = [s \in Sessions |-> InitialContext(s, <<>>)]
    /\ history = [s \in Sessions |-> <<>>]
    /\ response = [s \in Sessions |-> NoResponse]
    /\ call = [s \in Sessions |-> NoCall]
    /\ pending = [s \in Sessions |-> {}]
    /\ succeeded = [s \in Sessions |-> {}]
    /\ turn_diffs = [s \in Sessions |-> FALSE]
    /\ continuations = [s \in Sessions |-> 0]
    /\ outcome = [s \in Sessions |-> "none"]
    /\ already_reviewed = FALSE
    /\ last_context = None
    /\ turns = [s \in Sessions |-> 0]
    /\ called = [s \in Sessions |-> 0]
    /\ unstored = [s \in Sessions |-> FALSE]
    /\ compactions = [s \in Sessions |-> 0]
    /\ reviewed = [s \in Sessions |-> FALSE]

-----------------------------------------------------------------------------
\* The loop goes round in state st.
GoTo(s, st) ==
    /\ pc' = [pc EXCEPT ![s] = "top"]
    /\ state' = [state EXCEPT ![s] = st]

\* execute_cycle_state_machine returns.
Return(s, o) ==
    /\ pc' = [pc EXCEPT ![s] = "done"]
    /\ outcome' = [outcome EXCEPT ![s] = o]

Store(s, msgs) == history' = [history EXCEPT ![s] = @ \o msgs]

Inject(s, m) == context' = [context EXCEPT ![s].messages = Append(@, m)]

\* Between turns a cancelled token is replaced before it is looked at.
Cancel(s) ==
    /\ pc[s] # "done" /\ s \notin cancelled
    /\ cancelled' = cancelled \cup {s}
    /\ UNCHANGED <<flowVars, callVars, toolVars, talkVars, countVars, sharedVars>>

\* A prompt is accepted under a token that is not cancelled and its message
\* is stored.
NewTurn(s) ==
    /\ pc[s] = "done" /\ turns[s] < MaxTurns
    /\ cancelled' = cancelled \ {s}
    /\ pc' = [pc EXCEPT ![s] = "start"]
    /\ state' = [state EXCEPT ![s] = "BeforeLlmCall"]
    /\ stop_type' = [stop_type EXCEPT ![s] = "none"]
    /\ outcome' = [outcome EXCEPT ![s] = "none"]
    /\ Store(s, <<Plain("prompt")>>)
    /\ continuations' = [continuations EXCEPT ![s] = 0]
    /\ turns' = [turns EXCEPT ![s] = @ + 1]
    /\ called' = [called EXCEPT ![s] = 0]
    /\ unstored' = [unstored EXCEPT ![s] = FALSE]
    /\ compactions' = [compactions EXCEPT ![s] = 0]
    /\ reviewed' = [reviewed EXCEPT ![s] = FALSE]
    /\ response' = [response EXCEPT ![s] = NoResponse]
    /\ call' = [call EXCEPT ![s] = NoCall]
    /\ UNCHANGED <<toolVars, initial, context, sharedVars>>

\* What middleware makes of the messages of a context: it may add a note that
\* nobody stores (the reminder of the mode, the agents one may delegate to, a
\* warning of a full context or of repeated calls).  One note stands for
\* those of all middlewares that run.
Noted(msgs) == {msgs, Append(msgs, Plain("note"))}

\* The history is loaded, empty if the store cannot be read, and the
\* turn-start middleware runs on a copy.
StartTurn(s) ==
    /\ pc[s] = "start"
    /\ \E msgs \in {Effective(history[s]), <<>>} :
          /\ initial' = [initial EXCEPT ![s] = msgs]
          /\ \E noted \in Noted(msgs) :
                context' = [context EXCEPT ![s] = InitialContext(s, noted)]
    /\ \/ Return(s, "error") /\ UNCHANGED state
       \/ GoTo(s, "BeforeLlmCall") /\ UNCHANGED outcome
    /\ UNCHANGED <<cancelled, stop_type, history, callVars, toolVars, countVars, sharedVars>>

LoopTop(s) ==
    /\ pc[s] = "top"
    /\ \/ s \in cancelled /\ Return(s, "cancelled")
       \/ /\ s \notin cancelled
          /\ pc' = [pc EXCEPT ![s] = "run"]
          /\ UNCHANGED outcome
    /\ UNCHANGED <<cancelled, state, stop_type, callVars, toolVars, talkVars, countVars,
                   sharedVars>>

\* The step-start middleware (step limit, then context threshold, warnings),
\* then transition_before_llm_call.  Tokens are left out: a context may be
\* over the threshold at any step.
BeforeLlmCall(s) ==
    /\ pc[s] = "run" /\ state[s] = "BeforeLlmCall"
    /\ \E noted \in Noted(context[s].messages) :
          context' = [context EXCEPT ![s].messages = noted]
    /\ \/ /\ context[s].steps >= MaxSteps
          /\ GoTo(s, "Stopped")
          /\ stop_type' = [stop_type EXCEPT ![s] = "limit"]
          /\ UNCHANGED outcome
       \/ /\ context[s].steps < MaxSteps
          /\ \/ /\ compactions[s] < MaxCompactions
                /\ GoTo(s, "Stopped")
                /\ stop_type' = [stop_type EXCEPT ![s] = "context"]
                /\ UNCHANGED outcome
             \/ s \in cancelled /\ GoTo(s, "Cancelled") /\ UNCHANGED <<stop_type, outcome>>
             \/ s \notin cancelled /\ GoTo(s, "CallLlm") /\ UNCHANGED <<stop_type, outcome>>
             \/ Return(s, "error") /\ UNCHANGED <<state, stop_type>>
    /\ UNCHANGED <<cancelled, callVars, toolVars, initial, history, countVars, sharedVars>>

-----------------------------------------------------------------------------
(***************************************************************************)
(* The call of the model.  A provider that streams is connected to first   *)
(* ("connecting", which the token does not interrupt) and then read        *)
(* ("streaming"); otherwise one request is submitted ("calling").          *)
(***************************************************************************)
ResponseCap == MaxCalls + 3

\* A call of the model that relies on the check at the top of the loop.
CallLlmUnchecked(s) ==
    /\ pc[s] = "run" /\ state[s] = "CallLlm"
    /\ called[s] < ResponseCap
    /\ call' = [call EXCEPT ![s] = [path |-> "submit", attempt |-> 1, stream |-> 1]]
    /\ pc' = [pc EXCEPT ![s] = "calling"]
    /\ called' = [called EXCEPT ![s] = @ + 1]
    /\ unstored' = [unstored EXCEPT ![s] = TRUE]
    /\ UNCHANGED <<cancelled, state, stop_type, outcome, response, toolVars, talkVars,
                   countVars, sharedVars>>

CallLlm(s) ==
    /\ pc[s] = "run" /\ state[s] = "CallLlm"
    /\ \/ /\ s \in cancelled
          /\ GoTo(s, "Cancelled")
          /\ UNCHANGED <<call, called, unstored>>
       \/ /\ s \notin cancelled
          /\ called[s] < ResponseCap
          /\ \E path \in {"submit", "stream"} :
                /\ call' = [call EXCEPT ![s] = [path |-> path, attempt |-> 1, stream |-> 1]]
                /\ pc' = [pc EXCEPT ![s] = IF path = "submit" THEN "calling" ELSE "connecting"]
          /\ called' = [called EXCEPT ![s] = @ + 1]
          /\ unstored' = [unstored EXCEPT ![s] = TRUE]
          /\ UNCHANGED state
    /\ UNCHANGED <<cancelled, stop_type, outcome, response, toolVars, talkVars, countVars,
                   sharedVars>>

\* What the model may answer once it was called that often: tools are asked
\* for with any finish reason, the usage may be missing.
Answers(s) ==
    {r \in Responses : called[s] > MaxCalls => r.calls = {} /\ r.finish = "stop"}

Answered(s) ==
    /\ \E r \in Answers(s) : response' = [response EXCEPT ![s] = r]
    /\ GoTo(s, "AfterLlm")
    /\ call' = [call EXCEPT ![s] = NoCall]
    /\ UNCHANGED outcome

\* One retry more than the policy allows.
AttemptFailsOneMore(s) ==
    \/ /\ call[s].attempt <= MaxRetries
       /\ pc' = [pc EXCEPT ![s] = "backoff"]
       /\ UNCHANGED <<state, response, call, outcome>>
    \/ /\ Return(s, "error")
       /\ UNCHANGED <<state, response, call>>

\* A retryable error or a rate limit waits and tries again, as often as the
\* policy allows; any other error ends the turn.
AttemptFails(s) ==
    \/ /\ call[s].attempt < MaxRetries
       /\ pc' = [pc EXCEPT ![s] = "backoff"]
       /\ UNCHANGED <<state, response, call, outcome>>
    \/ /\ Return(s, "error")
       /\ UNCHANGED <<state, response, call>>

\* An attempt of call_llm_with_retry or create_stream_with_retry.  Both look
\* at the token first and report a cancellation as an error; only a submitted
\* request is given up when the token is cancelled.
Attempt(s) ==
    /\ pc[s] \in {"calling", "connecting"}
    /\ \/ pc[s] = "calling" /\ Answered(s)
       \/ /\ pc[s] = "connecting"
          /\ pc' = [pc EXCEPT ![s] = "streaming"]
          /\ UNCHANGED <<state, response, call, outcome>>
       \/ AttemptFails(s)
    /\ UNCHANGED <<cancelled, stop_type, called, unstored, toolVars, talkVars, countVars,
                   sharedVars>>

\* wait_with_cancellation, and the check at the top of the next attempt.
Backoff(s) ==
    /\ pc[s] = "backoff"
    /\ s \notin cancelled
    /\ call' = [call EXCEPT ![s].attempt = @ + 1]
    /\ pc' = [pc EXCEPT ![s] = IF call[s].path = "submit" THEN "calling" ELSE "connecting"]
    /\ UNCHANGED <<cancelled, state, stop_type, outcome, response, called, unstored,
                   toolVars, talkVars, countVars, sharedVars>>

CallCancelled(s) ==
    /\ pc[s] \in {"calling", "backoff"}
    /\ s \in cancelled
    /\ Return(s, "error")
    /\ UNCHANGED <<cancelled, state, stop_type, callVars, toolVars, talkVars, countVars,
                   sharedVars>>

\* The stream ends with the response, breaks and is created again with empty
\* accumulators, or fails for good.
Streaming(s) ==
    /\ pc[s] = "streaming"
    /\ \/ s \notin cancelled /\ Answered(s)
       \/ /\ call[s].stream <= MaxStreamRetries
          /\ call' = [call EXCEPT ![s].stream = @ + 1, ![s].attempt = 1]
          /\ \/ s \notin cancelled /\ pc' = [pc EXCEPT ![s] = "connecting"] /\ UNCHANGED outcome
             \/ s \in cancelled /\ Return(s, "error")
          /\ UNCHANGED <<state, response>>
       \/ Return(s, "error") /\ UNCHANGED <<state, response, call>>
    /\ UNCHANGED <<cancelled, stop_type, called, unstored, toolVars, talkVars, countVars,
                   sharedVars>>

\* A stream that is read to its end before the token is looked at again.
StreamNotCancelled(s) == FALSE /\ UNCHANGED <<vars, s>>

StreamCancelled(s) ==
    /\ pc[s] = "streaming"
    /\ s \in cancelled
    /\ GoTo(s, "Cancelled")
    /\ UNCHANGED <<cancelled, stop_type, outcome, callVars, toolVars, talkVars, countVars,
                   sharedVars>>

-----------------------------------------------------------------------------
(***************************************************************************)
(* The response and its tool calls.                                        *)
(***************************************************************************)

\* Where the finish reason leads once the response is stored.
Finished(s) ==
    LET r == response[s]
    IN  \/ /\ r.finish \in {"tool_calls", "other"} /\ r.calls # {}
           /\ GoTo(s, "ProcessingToolCalls")
           /\ UNCHANGED <<stop_type, response>>
        \/ /\ r.finish = "stop" \/ (r.finish # "length" /\ r.calls = {})
           /\ GoTo(s, "Complete")
           /\ response' = [response EXCEPT ![s] = NoResponse]
           /\ UNCHANGED stop_type
        \/ /\ r.finish = "length"
           /\ GoTo(s, "Stopped")
           /\ response' = [response EXCEPT ![s] = NoResponse]
           /\ stop_type' = [stop_type EXCEPT ![s] = "model"]

\* The guards against repeated delegations look at the last stored message,
\* which is not yet this response.
GuardMayStop(s) ==
    LET last == history[s][Len(history[s])]
    IN  last.kind = "assistant" /\ last.calls # {}

\* The middleware after a response (the duplicate review keeps the context,
\* the delegation guards may stop the turn), then transition_after_llm.
AfterLlm(s) ==
    /\ pc[s] = "run" /\ state[s] = "AfterLlm"
    /\ last_context' = context[s]
    /\ \/ /\ GuardMayStop(s)
          /\ GoTo(s, "Stopped")
          /\ stop_type' = [stop_type EXCEPT ![s] = "delegation"]
          /\ UNCHANGED <<outcome, response, unstored, talkVars>>
       \/ /\ s \in cancelled
          /\ GoTo(s, "Cancelled")
          /\ UNCHANGED <<stop_type, outcome, response, unstored, talkVars>>
       \/ /\ s \notin cancelled
          /\ Return(s, "error")
          /\ UNCHANGED <<state, stop_type, response, unstored, talkVars>>
       \/ /\ s \notin cancelled
          /\ Finished(s)
          /\ LET m == Message("assistant", response[s].calls, response[s].finish)
                 n == IF response[s].usage THEN 1 ELSE 0
             IN  /\ Store(s, <<m>>)
                 /\ context' = [context EXCEPT ![s].messages = Append(@, m), ![s].steps = @ + n]
          /\ unstored' = [unstored EXCEPT ![s] = FALSE]
          /\ UNCHANGED <<outcome, initial>>
    /\ UNCHANGED <<cancelled, call, called, toolVars, continuations, turns, compactions,
                   reviewed, already_reviewed>>

\* The tool calls of the response start, each raced against the token.
ProcessingToolCalls(s) ==
    /\ pc[s] = "run" /\ state[s] = "ProcessingToolCalls"
    /\ pc' = [pc EXCEPT ![s] = "tools"]
    /\ pending' = [pending EXCEPT ![s] = response[s].calls]
    /\ succeeded' = [succeeded EXCEPT ![s] = {}]
    /\ UNCHANGED <<cancelled, state, stop_type, outcome, callVars, turn_diffs, talkVars,
                   countVars, sharedVars>>

ToolReturns(s, c) ==
    /\ pc[s] = "tools" /\ c \in pending[s]
    /\ pending' = [pending EXCEPT ![s] = @ \ {c}]
    /\ \/ UNCHANGED succeeded
       \/ succeeded' = [succeeded EXCEPT ![s] = @ \cup {c}]
    /\ UNCHANGED <<cancelled, flowVars, callVars, turn_diffs, talkVars, countVars,
                   sharedVars>>

ToolCancelled(s, c) ==
    /\ pc[s] = "tools" /\ c \in pending[s]
    /\ s \in cancelled
    /\ pending' = [pending EXCEPT ![s] = @ \ {c}]
    /\ UNCHANGED <<cancelled, flowVars, callVars, succeeded, turn_diffs, talkVars, countVars,
                   sharedVars>>

\* A batch that stores the results of the calls that succeeded only.
StoreSucceeded(s) ==
    /\ pc[s] = "tools" /\ pending[s] = {}
    /\ LET m == Message("results", succeeded[s], "other")
       IN  Store(s, <<m>>) /\ Inject(s, m)
    /\ GoTo(s, "BeforeLlmCall")
    /\ UNCHANGED <<cancelled, stop_type, outcome, initial, callVars, toolVars, countVars,
                   sharedVars>>

\* store_all_tool_results once every call has its result, real or synthetic:
\* side effects first (a successful delegate call requests a delegation),
\* then one message with all results, cancelled or not.
StoreResults(s) ==
    /\ pc[s] = "tools" /\ pending[s] = {}
    /\ \/ /\ Return(s, "error")
          /\ UNCHANGED <<state, response, toolVars, talkVars>>
       \/ /\ LET m == Message("results", response[s].calls, "other")
             IN  Store(s, <<m>>) /\ Inject(s, m)
          /\ \E changed \in BOOLEAN :
                turn_diffs' = [turn_diffs EXCEPT ![s] = @ \/ (changed /\ succeeded[s] # {})]
          /\ \/ s \in cancelled /\ GoTo(s, "Cancelled") /\ UNCHANGED pending
             \/ s \notin cancelled /\ GoTo(s, "BeforeLlmCall") /\ UNCHANGED pending
             \/ /\ s \notin cancelled
                /\ \E ds \in SUBSET succeeded[s] \ {{}} :
                      pending' = [pending EXCEPT ![s] = ds]
                /\ GoTo(s, "WaitingForEvent")
          /\ response' = [response EXCEPT ![s] = NoResponse]
          /\ succeeded' = [succeeded EXCEPT ![s] = {}]
          /\ UNCHANGED <<initial, outcome>>
    /\ UNCHANGED <<cancelled, stop_type, call, called, unstored, countVars, sharedVars>>

-----------------------------------------------------------------------------
(***************************************************************************)
(* Waiting for delegations.  Their events come over the broadcast fanout,  *)
(* which drops what a slow receiver has not read: an event may never come. *)
(***************************************************************************)
WaitingForEvent(s) ==
    /\ pc[s] = "run" /\ state[s] = "WaitingForEvent"
    /\ \/ s \in cancelled /\ GoTo(s, "Cancelled")
       \/ s \notin cancelled /\ pc' = [pc EXCEPT ![s] = "waiting"] /\ UNCHANGED state
    /\ UNCHANGED <<cancelled, stop_type, outcome, callVars, toolVars, talkVars, countVars,
                   sharedVars>>

\* inject_wait_message
InjectWaitMessage(s) ==
    \/ /\ Return(s, "error")
       /\ UNCHANGED <<state, talkVars>>
    \/ /\ Store(s, <<Plain("wait")>>)
       /\ Inject(s, Plain("wait"))
       /\ GoTo(s, "BeforeLlmCall")
       /\ UNCHANGED <<initial, outcome>>

\* A terminal event of a delegation of the batch.
DelegationEnds(s, d) ==
    /\ pc[s] = "waiting" /\ d \in pending[s]
    /\ pending' = [pending EXCEPT ![s] = @ \ {d}]
    /\ \/ /\ WaitPolicy = "any" \/ pending[s] = {d}
          /\ InjectWaitMessage(s)
       \/ /\ WaitPolicy = "all" /\ pending[s] # {d}
          /\ UNCHANGED <<pc, state, outcome, talkVars>>
    /\ UNCHANGED <<cancelled, stop_type, callVars, succeeded, turn_diffs, countVars,
                   sharedVars>>

\* No progress for the whole window: the rest of the batch is cancelled.
WaitTimesOut(s) ==
    /\ pc[s] = "waiting"
    /\ WaitPolicy = "all" /\ WaitTimeout
    /\ pending' = [pending EXCEPT ![s] = {}]
    /\ InjectWaitMessage(s)
    /\ UNCHANGED <<cancelled, stop_type, callVars, succeeded, turn_diffs, countVars,
                   sharedVars>>

WaitCancelled(s) ==
    /\ pc[s] = "waiting"
    /\ s \in cancelled
    /\ GoTo(s, "Cancelled")
    /\ UNCHANGED <<cancelled, stop_type, outcome, callVars, toolVars, talkVars, countVars,
                   sharedVars>>

-----------------------------------------------------------------------------
(***************************************************************************)
(* The end of the turn.                                                    *)
(***************************************************************************)
MaxContinuations == 1

\* The turn goes on from context c with one more message that is not stored.
Prolong(s, c) ==
    /\ context' = [context EXCEPT ![s] = [c EXCEPT !.messages = Append(@, Plain("note"))]]
    /\ GoTo(s, "BeforeLlmCall")
    /\ UNCHANGED outcome

\* The turn-end middleware reviews the files changed since the last review,
\* at most once, and sends duplicates back to the model.
Review(s) ==
    /\ ~already_reviewed /\ last_context # None /\ turn_diffs[s]
    /\ Prolong(s, last_context)
    /\ reviewed' = [reviewed EXCEPT ![s] = TRUE]
    /\ UNCHANGED continuations

\* The stop hook: it fails, asks for one more step, or lets the turn end
\* (after pruning, which changes no message's kind).
StopHook(s) ==
    /\ \/ Return(s, "error") /\ UNCHANGED <<state, context, continuations>>
       \/ /\ continuations[s] < MaxContinuations
          /\ continuations' = [continuations EXCEPT ![s] = @ + 1]
          /\ Prolong(s, InitialContext(s, initial[s]))
       \/ Return(s, "completed") /\ UNCHANGED <<state, context, continuations>>
    /\ UNCHANGED reviewed

Complete(s) ==
    /\ pc[s] = "run" /\ state[s] = "Complete"
    /\ already_reviewed' = TRUE
    /\ turn_diffs' = [turn_diffs EXCEPT ![s] = already_reviewed /\ @]
    /\ Review(s) \/ StopHook(s)
    /\ UNCHANGED <<cancelled, stop_type, callVars, pending, succeeded, initial, history,
                   turns, compactions, last_context>>

Stopped(s) ==
    /\ pc[s] = "run" /\ state[s] = "Stopped"
    /\ \/ /\ stop_type[s] = "context"
          /\ pc' = [pc EXCEPT ![s] = "compacting"]
          /\ UNCHANGED outcome
       \/ stop_type[s] # "context" /\ Return(s, "stopped")
    /\ UNCHANGED <<cancelled, state, stop_type, callVars, toolVars, talkVars, countVars,
                   sharedVars>>

\* A compaction that adds its messages to the context it should replace.
CompactAppends(s) ==
    /\ pc[s] = "compacting"
    /\ Store(s, <<Plain("request"), Plain("summary")>>)
    /\ context' = [context EXCEPT ![s].messages = @ \o <<Plain("request"), Plain("summary")>>]
    /\ compactions' = [compactions EXCEPT ![s] = @ + 1]
    /\ GoTo(s, "BeforeLlmCall")
    /\ UNCHANGED <<cancelled, stop_type, outcome, callVars, toolVars, initial, continuations,
                   turns, reviewed, sharedVars>>

\* run_ai_compaction, which no cancellation interrupts: blocked by its hook,
\* failed before or while its two messages are stored, or successful.
Compact(s) ==
    /\ pc[s] = "compacting"
    /\ \/ GoTo(s, "Stopped") /\ UNCHANGED <<stop_type, outcome, history, context, compactions>>
       \/ /\ Return(s, "stopped")
          /\ \E msgs \in {<<>>, <<Plain("request")>>, <<Plain("request"), Plain("summary")>>} :
                Store(s, msgs)
          /\ UNCHANGED <<state, stop_type, context, compactions>>
       \/ /\ Store(s, <<Plain("request"), Plain("summary")>>)
          /\ context' = [context EXCEPT ![s].messages = Effective(history'[s])]
          /\ compactions' = [compactions EXCEPT ![s] = @ + 1]
          /\ GoTo(s, "BeforeLlmCall")
          /\ stop_type' = [stop_type EXCEPT ![s] = "none"]
          /\ UNCHANGED outcome
    /\ UNCHANGED <<cancelled, callVars, toolVars, initial, continuations, turns,
                   reviewed, sharedVars>>

-----------------------------------------------------------------------------
\* What the loop does by itself, and what a cancelled token sets off.
Loop(s) ==
    \/ StartTurn(s) \/ LoopTop(s) \/ BeforeLlmCall(s) \/ CallLlm(s) \/ AfterLlm(s)
    \/ ProcessingToolCalls(s) \/ StoreResults(s) \/ WaitingForEvent(s) \/ Complete(s)
    \/ Stopped(s)

Interrupt(s) ==
    \/ CallCancelled(s) \/ StreamCancelled(s) \/ WaitCancelled(s)
    \/ \E c \in Calls : ToolCancelled(s, c)

\* What the model, tools, delegations and timers answer.
Answer(s) ==
    \/ Attempt(s) \/ Backoff(s) \/ Streaming(s) \/ WaitTimesOut(s) \/ Compact(s)
    \/ \E c \in Calls : ToolReturns(s, c) \/ DelegationEnds(s, c)

Turn(s) == Loop(s) \/ Interrupt(s) \/ Answer(s)

Next == \E s \in Sessions : Cancel(s) \/ NewTurn(s) \/ Turn(s)

Spec == Init /\ [][Next]_vars

\* The runtime polls every ready task and the store and the hooks (which have
\* a timeout) answer.  Nothing is assumed of the model, the tools and the
\* delegations.
FairSpec ==
    /\ Spec
    /\ \A s \in Sessions : WF_vars(Loop(s)) /\ WF_vars(Interrupt(s))

-----------------------------------------------------------------------------
(***************************************************************************)
(* Properties                                                              *)
(***************************************************************************)
Asks(s) == pc[s] \in {"calling", "connecting", "backoff", "streaming"}

\* Every request for tools is followed by the results of exactly its calls.
Paired(msgs) ==
    \A i \in 1..Len(msgs) :
       /\ msgs[i].kind = "assistant" /\ msgs[i].calls # {} =>
             /\ i < Len(msgs)
             /\ msgs[i + 1].kind = "results" /\ msgs[i + 1].calls = msgs[i].calls
       /\ msgs[i].kind = "results" =>
             /\ i > 1
             /\ msgs[i - 1].kind = "assistant" /\ msgs[i - 1].calls = msgs[i].calls

\* A turn never unpairs the conversation it was given: whatever tools fail,
\* are cancelled or delegate, and whether the turn was compacted, reviewed or
\* continued, the model is called with every tool_use answered.  The one
\* exception is a turn that the duplicate review prolonged with the context
\* of another session, which the middleware object they share kept last.
ModelSeesPairs ==
    \A s \in Sessions :
       Asks(s) /\ context[s].owner = s /\ Paired(initial[s]) => Paired(context[s].messages)

\* The positions up to i of the messages that are not notes of middleware.
Lasting(msgs, i) == {j \in 1..i : msgs[j].kind # "note"}

\* Without its notes, msgs is h.
Mirrors(msgs, h) ==
    /\ Cardinality(Lasting(msgs, Len(msgs))) = Len(h)
    /\ \A i \in Lasting(msgs, Len(msgs)) : msgs[i] = h[Cardinality(Lasting(msgs, i))]

\* Unless it was prolonged, a turn calls the model with exactly the messages
\* a new turn would load, in their order, and the notes of the middleware
\* between them: the context kept in memory and the stored history never
\* drift apart otherwise.
ContextFollowsHistory ==
    \A s \in Sessions :
       Asks(s) /\ continuations[s] = 0 /\ ~reviewed[s] /\ initial[s] # <<>> =>
          Mirrors(context[s].messages, Effective(history[s]))

\* A cancelled turn ends, unless it waits for a connection to the provider or
\* for a compaction, which the token does not interrupt.
CancelEndsTurn ==
    \A s \in Sessions :
       s \in cancelled ~> s \notin cancelled \/ pc[s] \in {"done", "connecting", "compacting"}

\* The turn as the session sees it (SessionTurn): one prompt that holds the
\* permit.  Of the conversation it sees how many messages of the user and how
\* many responses are stored.
Stored(s, kind) == Cardinality({i \in 1..Len(history[s]) : history[s][i].kind = kind})

Talk(s) ==
    [i \in 1..(Stored(s, "prompt") + Stored(s, "assistant")) |->
       [kind |-> IF i <= Stored(s, "prompt") THEN "user" ELSE "assistant", by |-> s, turn |-> s]]

SessionPhase(s) ==
    IF pc[s] = "done" THEN "post" ELSE IF unstored[s] THEN "responding" ELSE "cycle"

SessionOutcome(s) ==
    IF outcome[s] \in {"completed", "stopped"} THEN "ok" ELSE outcome[s]

ofTurn(s, v) == [p \in {s} |-> v]

T(s) == INSTANCE SessionTurn WITH
           Prompts <- {s}, Scheduled <- {}, Nobody <- None, MaxMessages <- ResponseCap,
           Snapshots <- FALSE, generation <- 1, token <- 0, lastToken <- 0,
           cancelled <- IF s \in cancelled THEN {0} ELSE {},
           prompt_running <- TRUE, stopped <- FALSE,
           phase <- ofTurn(s, SessionPhase(s)), gen <- ofTurn(s, 1), tok <- ofTurn(s, 0),
           responses <- ofTurn(s, called[s]), outcome <- ofTurn(s, SessionOutcome(s)),
           emitted <- ofTurn(s, "none"), holder <- s, waiters <- <<>>,
           pre_task <- None, turn_snapshot <- None, history <- Talk(s),
           cancelSeen <- IF s \in cancelled THEN {s} ELSE {}

\* What SessionTurn assumes of a cycle is what the cycle does: between two
\* prompts of a session every step is a step of SessionTurn or none at all
\* (the model is called only under a live token, one response is stored per
\* call, a turn ends as cancelled only if its token is).
ImplementsTurn ==
    [][\A s \in Sessions : NewTurn(s) \/ T(s)!Next \/ UNCHANGED T(s)!vars]_vars

-----------------------------------------------------------------------------
(***************************************************************************)
(* What comments of the source say and the code does not keep.             *)
(***************************************************************************)

\* "a synthetic "Cancelled by user" error result so the history invariant is
\* always maintained" (transitions.rs): in no turn of a session the model is
\* called with tools that an earlier turn asked for and never answered.
CancelledCallsAnswered ==
    \A s \in Sessions : Asks(s) =>
       LET msgs == context[s].messages
       IN  \A i \in 1..Len(msgs) :
              msgs[i].kind = "assistant" /\ msgs[i].calls # {} /\ msgs[i].finish = "tool_calls" =>
                 i < Len(msgs) /\ msgs[i + 1].kind = "results"
=============================================================================
