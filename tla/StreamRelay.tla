---------------------------- MODULE StreamRelay ----------------------------
(***************************************************************************)
(* One streamed LLM response carried over the mesh (crates/querymt-remote). *)
(* The provider host (provider_host_actor.rs) pulls chunks from the        *)
(* upstream provider, batches them and tells them to the stream router on  *)
(* the client's node (provider_stream_router.rs); the router puts them in  *)
(* a bounded channel, which the remote chat provider                       *)
(* (remote_chat_provider.rs) polls.  A tell without acknowledgement is     *)
(* forgotten as soon as it is sent; every AckWindow batches, and for a     *)
(* terminal message, the host waits for the acknowledgement.  The client   *)
(* renews the host's lease while its stream is polled.                     *)
(*                                                                         *)
(* The transport is external: messages from the host arrive in order, an   *)
(* unacknowledged one may be lost with the link, an acknowledgement may be *)
(* lost after its message was delivered.                                   *)
(***************************************************************************)
EXTENDS Integers, Sequences

CONSTANTS LastChunk,    \* the upstream's chunks are 1..LastChunk, the last one is Done
          BatchSize,    \* MAX_BATCH_SIZE
          AckWindow,    \* ACK_WINDOW_BATCHES
          ChannelSize,  \* capacity of the client's channel
          ReplaySize,   \* replay_buffer_size
          WireBound,    \* bound: messages in flight
          MaxFaults     \* bound: faults of the link and of the host

ASSUME RelayConstants ==
    /\ {LastChunk, BatchSize, ChannelSize, ReplaySize, WireBound} \subseteq Nat \ {0}
    /\ AckWindow \in Nat /\ MaxFaults \in Nat

Tasks == 1..2   \* a request is sent at most twice (send_stream_request_with_retry)

VARIABLES
    host,      \* the relay task each request started
    entry,     \* active_streams: the task whose token and lease it holds (0: none)
    expired,   \* lease_expires_at of the entry has passed
    cancelled, \* tasks whose cancel_token is cancelled
    up,        \* the link between the two nodes
    wire,      \* messages on their way to the router
    request,   \* the router's RoutedRequest
    channel,   \* consumer_tx .. rx
    client,    \* the remote stream: phase, requests sent, disconnected_since
    received,  \* the chunks the stream has yielded
    faults,    \* number of faults so far
    marks      \* what happened: lost, overflow, resent, retried

clientVars == <<client, received>>
routerVars == <<request, channel>>
leaseVars  == <<entry, expired, cancelled>>
vars == <<host, leaseVars, up, wire, routerVars, clientVars, faults, marks>>

-----------------------------------------------------------------------------
(***************************************************************************)
(* Messages (StreamRelayMessage).                                          *)
(***************************************************************************)
Kinds == {"chunk", "heartbeat", "provider_error", "disconnected", "reconnected", "failed"}

Notice(k) == [kind |-> k, chunks |-> <<>>]

Batch(s) == [kind |-> "chunk", chunks |-> s]

HasDone(m) == \E i \in DOMAIN m.chunks : m.chunks[i] = LastChunk

relay_message_is_terminal(m) == m.kind \in {"provider_error", "failed"} \/ HasDone(m)

\* should_ack_relay_message, whose clock may or may not have passed
\* ACK_WINDOW_INTERVAL: the answers it may give.
should_ack(m, unacked) ==
    IF relay_message_is_terminal(m) THEN {TRUE}
    ELSE IF m.kind # "chunk" THEN {FALSE}
    ELSE IF unacked >= AckWindow THEN {TRUE} ELSE BOOLEAN

Running(t) == host[t].phase \in {"opening", "relay", "drain"}

Over == {"done", "error", "dropped"}

Listening == client.phase \in {"setup", "open"}

\* A second request while the first one's task exists.
RetryMark == IF host[1].phase # "none" THEN {"retried"} ELSE {}

Message == [kind : Kinds, chunks : Seq(1..LastChunk)]

Task == [phase : {"none", "opening", "relay", "drain", "gone"},
         pending : Seq(1..LastChunk), buffered : Seq(Message),
         next : 1..(LastChunk + 1), done : BOOLEAN, disc : BOOLEAN, unacked : 0..AckWindow]

TypeOK ==
    /\ host \in [Tasks -> Task] /\ \A t \in Tasks : Len(host[t].pending) < BatchSize
    /\ entry \in Tasks \cup {0} /\ expired \in BOOLEAN /\ cancelled \subseteq Tasks
    /\ up \in BOOLEAN
    /\ wire \in Seq(Message) /\ Len(wire) <= WireBound
    /\ request \in [known : BOOLEAN, consumer : BOOLEAN,
                     phase : {"streaming", "consumer_disconnected", "completed", "failed"},
                     replay : Seq(Message)]
    /\ Len(request.replay) <= ReplaySize
    /\ channel \in Seq(Message) /\ Len(channel) <= ChannelSize
    /\ client \in [phase : {"setup", "open"} \cup Over, requests : 0..2, disc : BOOLEAN]
    /\ received \in Seq(1..LastChunk)
    /\ faults \in 0..MaxFaults
    /\ marks \subseteq {"lost", "overflow", "resent", "retried"}

NoTask == [phase |-> "none", pending |-> <<>>, buffered |-> <<>>, next |-> 1,
           done |-> FALSE, disc |-> FALSE, unacked |-> 0]

\* A task that ends takes its locals with it.
Gone(h) == [NoTask EXCEPT !.phase = "gone", !.next = h.next]

\* prepare_stream_router has registered the request and attached the channel;
\* the replay buffer was empty, so the phase is Streaming.
Init ==
    /\ host = [t \in Tasks |-> NoTask]
    /\ entry = 0 /\ expired = FALSE /\ cancelled = {}
    /\ up = TRUE /\ wire = <<>>
    /\ request = [known |-> TRUE, consumer |-> TRUE, phase |-> "streaming", replay |-> <<>>]
    /\ channel = <<>>
    /\ client = [phase |-> "setup", requests |-> 0, disc |-> FALSE]
    /\ received = <<>>
    /\ faults = 0 /\ marks = {}

-----------------------------------------------------------------------------
(***************************************************************************)
(* The router: RoutedRequest::deliver_or_buffer.                           *)
(***************************************************************************)
terminal_request_phase(m, otherwise) ==
    IF HasDone(m) THEN "completed"
    ELSE IF m.kind \in {"provider_error", "failed"} THEN "failed" ELSE otherwise

BufferedUnbounded(m) == Append(request.replay, m)

\* The oldest message makes room when the replay buffer is full.
Buffered(m) ==
    LET kept == IF Len(request.replay) >= ReplaySize THEN Tail(request.replay)
                ELSE request.replay
    IN  Append(kept, m)

\* What handling m does to the request, the channel and the marks.
deliver_or_buffer(m) ==
    IF ~request.known THEN [request |-> request, channel |-> channel, mark |-> {}]
    ELSE IF ~request.consumer
    THEN [request |-> [request EXCEPT !.phase = terminal_request_phase(m, request.phase),
                                      !.replay = Buffered(m)],
          channel |-> channel, mark |-> {}]
    ELSE IF ~Listening \/ Len(channel) >= ChannelSize
    THEN [request |-> [request EXCEPT
                          !.phase = terminal_request_phase(m, "consumer_disconnected"),
                          !.consumer = Listening,
                          !.replay = Buffered(m)],
          channel |-> channel, mark |-> IF Listening THEN {"overflow"} ELSE {}]
    ELSE [request |-> [request EXCEPT
                          !.phase = terminal_request_phase(m, request.phase),
                          !.consumer = ~relay_message_is_terminal(m)],
          channel |-> Append(channel, m), mark |-> {}]

\* A variant of Route that replays what overflowed behind the new message.
RouteThenReplay(m) ==
    LET to == deliver_or_buffer(m)
    IN  IF to.request.consumer /\ to.channel # channel /\ request.replay # <<>>
           /\ Len(to.channel) < ChannelSize
        THEN /\ request' = [to.request EXCEPT !.replay = Tail(@)]
             /\ channel' = Append(to.channel, Head(request.replay))
        ELSE request' = to.request /\ channel' = to.channel

Route(m) ==
    LET to == deliver_or_buffer(m)
    IN  request' = to.request /\ channel' = to.channel

RouterReceives ==
    /\ wire # <<>>
    /\ wire' = Tail(wire)
    /\ Route(Head(wire))
    /\ marks' = marks \cup deliver_or_buffer(Head(wire)).mark
    /\ UNCHANGED <<host, leaseVars, up, clientVars, faults>>

\* cleanup_expired_requests, run for any message of the session.
ExpireRequest ==
    /\ request.known
    /\ request.phase \in {"completed", "failed"} \/ ~request.consumer
    /\ request' = [request EXCEPT !.known = FALSE, !.consumer = FALSE, !.replay = <<>>]
    /\ UNCHANGED <<host, leaseVars, up, wire, channel, clientVars, faults, marks>>

-----------------------------------------------------------------------------
(***************************************************************************)
(* The request and the client's stream.                                    *)
(***************************************************************************)
\* The handler of ProviderStreamRequest: the new entry replaces one of the
\* same key.
StartTask ==
    LET t == client.requests + 1
    IN  /\ host' = [host EXCEPT ![t].phase = "opening"]
        /\ entry' = t
        /\ expired' = FALSE
        /\ UNCHANGED cancelled

RequestAcked ==
    /\ client.phase = "setup" /\ client.requests < 2 /\ up
    /\ StartTask
    /\ client' = [client EXCEPT !.phase = "open", !.requests = @ + 1]
    /\ marks' = marks \cup RetryMark
    /\ UNCHANGED <<up, wire, routerVars, received, faults>>

\* ConnectionClosed although the host has the request: it is sent again.
RequestAckLost ==
    /\ client.phase = "setup" /\ client.requests < 2 /\ up
    /\ faults < MaxFaults
    /\ faults' = faults + 1
    /\ StartTask
    /\ client' = [client EXCEPT !.phase = IF client.requests = 0 THEN "setup" ELSE "error",
                                !.requests = @ + 1]
    /\ marks' = marks \cup RetryMark
    /\ UNCHANGED <<up, wire, routerVars, received>>

RequestLost ==
    /\ client.phase = "setup" /\ client.requests < 2 /\ ~up
    /\ client' = [client EXCEPT !.phase = IF client.requests = 0 THEN "setup" ELSE "error",
                                !.requests = @ + 1]
    /\ UNCHANGED <<host, leaseVars, up, wire, routerVars, received, faults, marks>>

\* The host is not found, or the error is not one that is retried.
SetupFails ==
    /\ client.phase = "setup"
    /\ client' = [client EXCEPT !.phase = "error"]
    /\ UNCHANGED <<host, leaseVars, up, wire, routerVars, received, faults, marks>>

\* poll_stream_message, with the rest of a batch taken from pending_chunks by
\* the next polls.
Poll ==
    /\ client.phase = "open" /\ channel # <<>>
    /\ LET m == Head(channel)
       IN  /\ received' = received \o m.chunks
           /\ client' = [client EXCEPT
                  !.phase = IF HasDone(m) THEN "done"
                            ELSE IF relay_message_is_terminal(m) THEN "error" ELSE "open",
                  !.disc = m.kind = "disconnected" \/ (client.disc /\ m.kind # "reconnected")]
    /\ channel' = IF client'.phase = "open" THEN Tail(channel) ELSE <<>>
    /\ UNCHANGED <<host, leaseVars, up, wire, request, faults, marks>>

\* The channel is empty and its sender dropped: closed_error.
ChannelClosed ==
    /\ client.phase = "open" /\ channel = <<>> /\ ~request.consumer
    /\ client' = [client EXCEPT !.phase = "error"]
    /\ UNCHANGED <<host, leaseVars, up, wire, routerVars, received, faults, marks>>

\* reconnect_timeout_error.
ReconnectTimesOut ==
    /\ client.phase = "open" /\ client.disc
    /\ client' = [client EXCEPT !.phase = "error"]
    /\ channel' = <<>>
    /\ UNCHANGED <<host, leaseVars, up, wire, request, received, faults, marks>>

\* The turn that polls the stream, or sets it up, is dropped.
Drop ==
    /\ Listening
    /\ client' = [client EXCEPT !.phase = "dropped"]
    /\ channel' = <<>>
    /\ UNCHANGED <<host, leaseVars, up, wire, request, received, faults, marks>>

\* RenewProviderStreamLease, only sent while the stream is polled.
RenewLease ==
    /\ client.phase = "open" /\ up /\ entry # 0 /\ expired
    /\ expired' = FALSE
    /\ UNCHANGED <<host, entry, cancelled, up, wire, routerVars, clientVars, faults, marks>>

\* CancelProviderStreamRequest.
CancelStream ==
    /\ client.phase # "setup" /\ up /\ entry # 0 /\ entry \notin cancelled
    /\ cancelled' = cancelled \cup {entry}
    /\ UNCHANGED <<host, entry, expired, up, wire, routerVars, clientVars, faults, marks>>

-----------------------------------------------------------------------------
(***************************************************************************)
(* The host's relay task t.                                                *)
(***************************************************************************)
BecomesUntracked(t, h) ==
    /\ host' = [host EXCEPT ![t] = IF h.phase = "gone" THEN Gone(h) ELSE h]
    /\ UNCHANGED leaseVars

\* The task becomes h; when it ends, remove_active_stream drops the entry of
\* the key, whoever put it there.
Becomes(t, h) ==
    /\ host' = [host EXCEPT ![t] = IF h.phase = "gone" THEN Gone(h) ELSE h]
    /\ entry' = IF h.phase = "gone" THEN 0 ELSE entry
    /\ UNCHANGED <<expired, cancelled>>

UpstreamOpens(t) ==
    /\ host[t].phase = "opening"
    /\ Becomes(t, [host[t] EXCEPT !.phase = "relay"])
    /\ UNCHANGED <<up, wire, routerVars, clientVars, faults, marks>>

\* The provider cannot be built or refuses: the error is told unacknowledged.
UpstreamRefuses(t) ==
    /\ host[t].phase = "opening"
    /\ Len(wire) < WireBound
    /\ wire' = IF up THEN Append(wire, Notice("provider_error")) ELSE wire
    /\ marks' = IF up THEN marks ELSE marks \cup {"lost"}
    /\ Becomes(t, [host[t] EXCEPT !.phase = "gone"])
    /\ UNCHANGED <<up, routerVars, clientVars, faults>>

\* flush_batch.
flush_batch(h) ==
    IF h.pending = <<>> THEN h
    ELSE [h EXCEPT !.buffered = Append(h.buffered, Batch(h.pending)), !.pending = <<>>]

\* The upstream is over: what is pending and then m are buffered.
Terminate(h, m) ==
    LET f == flush_batch(h)
    IN  [f EXCEPT !.buffered = Append(f.buffered, m), !.done = TRUE, !.phase = "drain"]

Selecting(t) ==
    /\ host[t].phase = "relay"
    /\ UNCHANGED <<up, wire, routerVars, clientVars, faults, marks>>

Cancelled(t) ==
    /\ Selecting(t)
    /\ t \in cancelled /\ ~host[t].done
    /\ Becomes(t, Terminate(host[t], Notice("failed")))

LeaseFoundAndKept(t) ==
    /\ Selecting(t)
    /\ entry # 0 /\ expired /\ entry \notin cancelled
    /\ UNCHANGED <<host, leaseVars>>

\* The heartbeat finds the lease of the entry expired, and cancels the token
\* of the entry.
LeaseFoundExpired(t) ==
    /\ Selecting(t)
    /\ entry # 0 /\ expired /\ entry \notin cancelled
    /\ cancelled' = cancelled \cup {entry}
    /\ UNCHANGED <<host, entry, expired>>

Heartbeat(t) ==
    /\ Selecting(t)
    /\ entry # 0 /\ ~expired
    /\ Becomes(t, [host[t] EXCEPT !.buffered = Append(@, Notice("heartbeat")),
                                  !.phase = "drain"])

UpstreamChunk(t) ==
    /\ Selecting(t)
    /\ ~host[t].done /\ host[t].next <= LastChunk
    /\ LET h == [host[t] EXCEPT !.pending = Append(@, host[t].next), !.next = @ + 1,
                                !.done = host[t].next = LastChunk, !.phase = "drain"]
       IN  Becomes(t, IF h.done \/ Len(h.pending) >= BatchSize THEN flush_batch(h) ELSE h)

\* BATCH_FLUSH_INTERVAL passes, or the upstream ends, with a batch pending.
BatchFlushed(t) ==
    /\ Selecting(t)
    /\ ~host[t].done /\ host[t].pending # <<>>
    /\ Becomes(t, [flush_batch(host[t]) EXCEPT !.phase = "drain"])

\* The upstream ends without a Done chunk: nothing is told.
UpstreamEnds(t) ==
    /\ Selecting(t)
    /\ ~host[t].done /\ host[t].pending = <<>>
    /\ Becomes(t, [host[t] EXCEPT !.done = TRUE, !.phase = "drain"])

UpstreamFails(t) ==
    /\ Selecting(t)
    /\ ~host[t].done
    /\ Becomes(t, Terminate(host[t], Notice("provider_error")))

-----------------------------------------------------------------------------
(***************************************************************************)
(* The inner loop: relay what is buffered, or reconnect first.             *)
(***************************************************************************)
Front(t) == Head(host[t].buffered)

Relaying(t) ==
    /\ host[t].phase = "drain" /\ ~host[t].disc /\ host[t].buffered # <<>>
    /\ UNCHANGED <<up, clientVars>>

\* The front is popped; a terminal one ends the task.
Relayed(t, acked) ==
    [host[t] EXCEPT
        !.buffered = Tail(@),
        !.unacked = IF Front(t).kind = "chunk" /\ ~acked THEN @ + 1 ELSE 0,
        !.phase = IF relay_message_is_terminal(Front(t)) THEN "gone" ELSE "drain"]

\* tell(..).send(): gone from the buffer whether it arrives or not.
RelayUnacked(t) ==
    /\ Relaying(t)
    /\ FALSE \in should_ack(Front(t), host[t].unacked)
    /\ Len(wire) < WireBound
    /\ wire' = IF up THEN Append(wire, Front(t)) ELSE wire
    /\ marks' = IF up THEN marks ELSE marks \cup {"lost"}
    /\ Becomes(t, Relayed(t, FALSE))
    /\ UNCHANGED <<routerVars, faults>>

\* tell(..).send_ack(), acknowledged once the router has it.
RelayAcked(t) ==
    /\ Relaying(t)
    /\ TRUE \in should_ack(Front(t), host[t].unacked)
    /\ up /\ wire = <<>>
    /\ Route(Front(t))
    /\ marks' = marks \cup deliver_or_buffer(Front(t)).mark
    /\ Becomes(t, Relayed(t, TRUE))
    /\ UNCHANGED <<wire, faults>>

\* Without a link: the message stays, TransportDisconnected is lost.
RelayFails(t) ==
    /\ Relaying(t)
    /\ TRUE \in should_ack(Front(t), host[t].unacked)
    /\ ~up
    /\ Becomes(t, [host[t] EXCEPT !.disc = TRUE])
    /\ UNCHANGED <<wire, routerVars, faults, marks>>

\* The message arrives and its acknowledgement does not.
RelayAckLost(t) ==
    /\ Relaying(t)
    /\ TRUE \in should_ack(Front(t), host[t].unacked)
    /\ up /\ wire = <<>> /\ faults < MaxFaults
    /\ faults' = faults + 1
    /\ Route(Front(t))
    /\ wire' = <<Notice("disconnected")>>
    /\ marks' = marks \cup deliver_or_buffer(Front(t)).mark \cup {"resent"}
    /\ Becomes(t, [host[t] EXCEPT !.disc = TRUE])

Reconnecting(t) ==
    /\ host[t].phase = "drain" /\ host[t].disc
    /\ UNCHANGED <<up, clientVars>>

Reconnected(t) ==
    /\ Reconnecting(t)
    /\ up /\ wire = <<>>
    /\ Route(Notice("reconnected"))
    /\ marks' = marks \cup deliver_or_buffer(Notice("reconnected")).mark
    /\ Becomes(t, [host[t] EXCEPT !.disc = FALSE, !.unacked = 0])
    /\ UNCHANGED <<wire, faults>>

\* The attempt fails and reconnect_grace is over, or the upstream was done
\* already: TransportFailed is buffered and never told.
ReconnectGivesUp(t) ==
    /\ Reconnecting(t)
    /\ ~up
    /\ Becomes(t, [host[t] EXCEPT !.phase = "gone"])
    /\ marks' = marks \cup {"lost"}
    /\ UNCHANGED <<wire, routerVars, faults>>

\* Nothing is buffered any more: the outer loop goes on, or ends.
Drained(t) ==
    /\ host[t].phase = "drain" /\ ~host[t].disc /\ host[t].buffered = <<>>
    /\ Becomes(t, [host[t] EXCEPT
                      !.phase = IF host[t].done /\ host[t].pending = <<>> THEN "gone" ELSE "relay"])
    /\ UNCHANGED <<up, wire, routerVars, clientVars, faults, marks>>

-----------------------------------------------------------------------------
(***************************************************************************)
(* Time, the link and the host's node.                                     *)
(***************************************************************************)
LeaseExpires ==
    /\ entry # 0 /\ ~expired
    /\ expired' = TRUE
    /\ UNCHANGED <<host, entry, cancelled, up, wire, routerVars, clientVars, faults, marks>>

LinkDown ==
    /\ up /\ faults < MaxFaults
    /\ up' = FALSE
    /\ faults' = faults + 1
    /\ wire' = <<>>
    /\ marks' = IF wire = <<>> THEN marks ELSE marks \cup {"lost"}
    /\ UNCHANGED <<host, leaseVars, routerVars, clientVars>>

LinkUp ==
    /\ ~up
    /\ up' = TRUE
    /\ UNCHANGED <<host, leaseVars, wire, routerVars, clientVars, faults, marks>>

\* The provider's node stops: its tasks and active_streams are in memory.
HostCrashes ==
    /\ faults < MaxFaults /\ \E t \in Tasks : Running(t)
    /\ faults' = faults + 1
    /\ host' = [t \in Tasks |-> IF Running(t) THEN Gone(host[t]) ELSE host[t]]
    /\ entry' = 0
    /\ marks' = marks \cup {"lost"}
    /\ UNCHANGED <<expired, cancelled, up, wire, routerVars, clientVars>>

-----------------------------------------------------------------------------
Client == \/ RequestAcked \/ RequestAckLost \/ RequestLost \/ SetupFails
          \/ Poll \/ ChannelClosed \/ ReconnectTimesOut \/ Drop \/ RenewLease \/ CancelStream

Select(t) == \/ Cancelled(t) \/ LeaseFoundExpired(t) \/ Heartbeat(t)
             \/ UpstreamChunk(t) \/ BatchFlushed(t) \/ UpstreamEnds(t) \/ UpstreamFails(t)

Drain(t) == \/ RelayUnacked(t) \/ RelayAcked(t) \/ RelayFails(t) \/ RelayAckLost(t)
            \/ Reconnected(t) \/ ReconnectGivesUp(t) \/ Drained(t)

Environment == LeaseExpires \/ LinkDown \/ LinkUp \/ HostCrashes

Next == \/ RouterReceives \/ ExpireRequest \/ Client \/ Environment
        \/ \E t \in Tasks : UpstreamOpens(t) \/ UpstreamRefuses(t) \/ Select(t) \/ Drain(t)

Spec == Init /\ [][Next]_vars

\* The actors and timers run; nothing is assumed of the upstream, of the link
\* or of the user.  The lease runs out once nobody renews it.
Fairness ==
    /\ WF_vars(RouterReceives)
    /\ WF_vars(Poll)
    /\ WF_vars(ChannelClosed)
    /\ WF_vars(LeaseExpires /\ client.phase \in Over)
    /\ \A t \in Tasks : WF_vars(LeaseFoundExpired(t)) /\ WF_vars(Cancelled(t)) /\ WF_vars(Drain(t))

FairSpec == Spec /\ Fairness

-----------------------------------------------------------------------------
\* The stream yields the chunks in the order of the upstream, each at most
\* once, unless an acknowledgement was lost or the request retried: relay
\* messages carry no sequence number, only the one queue per task and the
\* replay buffer's never being replayed keep the order.  A stream that ends
\* with Done has yielded every chunk, when nothing was lost on the link and
\* the client's channel never overflowed: what was told without
\* acknowledgement before the link broke is not sent again.
StreamFaithful ==
    /\ marks \cap {"resent", "retried"} = {}
          => \A i, j \in DOMAIN received : i < j => received[i] < received[j]
    /\ client.phase = "done" /\ marks = {} => received = [i \in 1..LastChunk |-> i]

\* active_streams only names a running task, and names every running task
\* unless the request was sent twice: a task without its entry cannot be
\* cancelled and has no lease.
RunningIsTracked ==
    \A t \in Tasks : /\ entry = t => Running(t)
                     /\ "retried" \notin marks => (Running(t) => entry = t)

\* Once the client's stream is over the host's task ends, even if the upstream
\* hangs and the link never comes back: the lease runs out, unless the host is
\* still opening the upstream or the request was sent twice.
HostStops ==
    client.phase \in Over ~> \/ "retried" \in marks
                             \/ \A t \in Tasks : host[t].phase \in {"none", "opening", "gone"}
=============================================================================
