---------------------------- MODULE EventStream ----------------------------
(***************************************************************************)
(* The events of one session on their way to one dashboard client.  A      *)
(* durable event is emitted by a task of its own that appends it to the    *)
(* journal and then publishes it to the fanout, so the fanout may see two  *)
(* events in the other order than the journal; an ephemeral event is only  *)
(* published.  Every connection has a forwarder that takes events from its *)
(* bounded broadcast queue and filters them by a cursor, and a receive     *)
(* task that handles the client's requests one after the other: subscribe  *)
(* and load send what the journal holds as one batch and seed the cursor.  *)
(* The two share subscribed_sessions and session_cursors and nothing else. *)
(* The client replaces its list by a batch and appends a live event that   *)
(* is newer than the last of the list.  The deltas of a streamed answer    *)
(* are merged into one item, which the stored answer replaces where it is. *)
(*                                                                         *)
(* Events are numbered in the order of their emission, and all are of one  *)
(* agent.  Left out: events relayed from other nodes, which have cursors   *)
(* of their own, and the deletion of undone events.                        *)
(***************************************************************************)
EXTENDS Integers, Sequences, FiniteSets, SequencesExt, FiniteSetsExt

CONSTANTS Durable,      \* events kept in the journal
          Ephemeral,    \* events that are only published
          Unlisted,     \* of the durable: turn_started, workspace_index_ready
          Finals,       \* and assistant_message_stored
          Deltas,       \* of the ephemeral: deltas of an answer
          Limit,        \* rows load_session_stream returns at most
          Capacity,     \* FANOUT_BUFFER
          MaxRequests,  \* bound: requests of the client
          MaxBreaks     \* bound: connections that break

\* Events are positive numbers, and the kind of an event decides which it is.
\* Any finite number of them is kept in the journal.
EventsAssumption ==
    /\ Durable \subseteq Nat \ {0} /\ Ephemeral \subseteq Nat \ {0}
    /\ Durable \cap Ephemeral = {} /\ IsFiniteSet(Durable)
    /\ Unlisted \subseteq Durable /\ Finals \subseteq Durable /\ Unlisted \cap Finals = {}
    /\ Deltas \subseteq Ephemeral
    /\ Capacity \in Nat \ {0} /\ Limit \in Nat \ {0}
    /\ MaxRequests \in Nat /\ MaxBreaks \in Nat

VARIABLES
    stage,       \* of every event: new, spawned, journaled, published, failed
    seq,         \* stream_seq of the journaled events, 0 for the others
    nextSeq,     \* event_journal_seq
    journal,     \* rows of the journal
    queue,       \* broadcast queue of the connection's forwarder
    lagged,      \* the queue overflowed and the forwarder has not noticed
    forwarder,   \* receiving, sending, sent, ended
    inHand,      \* the event the forwarder sends
    subscribed,  \* subscribed_sessions has the session
    cursor,      \* session_cursors of the session, 0 if there is none
    handler,     \* where the receive task is
    batch,       \* the events its request has read
    shown,       \* the client's list
    requests, breaks,
    \* history variables
    placed,      \* answers that took the place of their deltas in the list
    overtaken,   \* events published after one with a greater number
    excused      \* events the client may miss

vars == <<stage, seq, nextSeq, journal, queue, lagged, forwarder, inHand, subscribed, cursor,
          handler, batch, shown, requests, breaks, placed, overtaken, excused>>
emitVars    == <<stage, seq, nextSeq, journal>>
forwardVars == <<queue, lagged, forwarder, inHand>>
requestVars == <<handler, batch, requests, breaks>>
clientVars  == <<shown, placed>>

-----------------------------------------------------------------------------
Events == Durable \cup Ephemeral
NoEvent == 0

Journal == {e \in Durable : seq[e] > 0}
Shown == ToSet(shown)

\* cursor_from_events: the greatest number of a batch.
LastSeq(b) == Max({0} \cup {seq[e] : e \in ToSet(b)})

\* load_session_stream and get_audit_view: the oldest rows of the journal by
\* number, which is the order of its rows, since a number is taken together
\* with the insertion.
Stored == SubSeq(journal, 1, IF Len(journal) < Limit THEN Len(journal) ELSE Limit)

\* The events of the journal that such a read leaves out and that will not be
\* published any more.
Cut == {e \in Journal : stage[e] = "published"} \ ToSet(Stored)

TypeOK ==
    /\ stage \in [Events -> {"new", "spawned", "journaled", "published", "failed"}]
    /\ seq \in [Events -> 0..Cardinality(Durable)]
    /\ \A e, f \in Journal : seq[e] = seq[f] => e = f
    /\ nextSeq \in 1..Cardinality(Durable) + 1
    /\ journal \in Seq(Journal)
    /\ queue \in Seq(Events) /\ Len(queue) <= Capacity
    /\ lagged \in BOOLEAN
    /\ forwarder \in {"receiving", "sending", "sent", "ended"}
    /\ inHand \in Events \cup {NoEvent} /\ (inHand # NoEvent <=> forwarder \in {"sending", "sent"})
    /\ subscribed \in BOOLEAN
    /\ cursor \in 0..nextSeq - 1
    /\ handler \in {"idle", "reopened", "subscribed", "replaying", "seeded", "loaded", "registered", "seeding"}
    /\ batch \in Seq(Journal)
    /\ shown \in Seq(Events)
    /\ requests \in 0..MaxRequests /\ breaks \in 0..MaxBreaks
    /\ placed \subseteq Finals /\ overtaken \subseteq Durable /\ excused \subseteq Durable

Init ==
    /\ stage = [e \in Events |-> "new"] /\ seq = [e \in Events |-> 0] /\ nextSeq = 1
    /\ journal = <<>>
    /\ queue = <<>> /\ lagged = FALSE /\ forwarder = "receiving" /\ inHand = NoEvent
    /\ subscribed = FALSE /\ cursor = 0
    /\ handler = "idle" /\ batch = <<>> /\ shown = <<>>
    /\ requests = 0 /\ breaks = 0 /\ placed = {} /\ overtaken = {} /\ excused = {}

-----------------------------------------------------------------------------
(***************************************************************************)
(* Emission.                                                               *)
(***************************************************************************)
Becomes(e, s) == stage' = [stage EXCEPT ![e] = s]

\* fanout.publish: the broadcast channel keeps the newest Capacity events.  A
\* receiver that lost one is told so when it receives next, before any event.
Publish(e) ==
    /\ Becomes(e, "published")
    /\ IF forwarder = "ended" \/ lagged
       THEN UNCHANGED <<queue, lagged>>
       ELSE IF Len(queue) = Capacity
            THEN queue' = <<>> /\ lagged' = TRUE
            ELSE queue' = Append(queue, e) /\ UNCHANGED lagged

\* emit_event: a durable event gets a task of its own.
EmitDurable(e) ==
    /\ stage[e] = "new" /\ \A f \in Events : f < e => stage[f] # "new"
    /\ Becomes(e, "spawned")
    /\ UNCHANGED <<seq, nextSeq, journal, forwardVars, subscribed, cursor, requestVars, clientVars,
                   overtaken, excused>>

EmitEphemeral(e) ==
    /\ stage[e] = "new" /\ \A f \in Events : f < e => stage[f] # "new"
    /\ Publish(e)
    /\ UNCHANGED <<seq, nextSeq, journal, forwarder, inHand, subscribed, cursor, requestVars, clientVars,
                   overtaken, excused>>

\* append_durable takes the next number and inserts the row under the
\* connection's mutex.
AppendDurable(e) ==
    /\ stage[e] = "spawned"
    /\ Becomes(e, "journaled")
    /\ seq' = [seq EXCEPT ![e] = nextSeq]
    /\ nextSeq' = nextSeq + 1
    /\ journal' = Append(journal, e)
    /\ UNCHANGED <<forwardVars, subscribed, cursor, requestVars, clientVars, overtaken, excused>>

\* The task logs the error and ends; a failed insert leaves its number unused.
AppendFails(e) ==
    /\ stage[e] = "spawned"
    /\ Becomes(e, "failed")
    /\ nextSeq' \in {nextSeq, nextSeq + 1}
    /\ UNCHANGED <<seq, journal, forwardVars, subscribed, cursor, requestVars, clientVars, overtaken,
                   excused>>

PublishDurable(e) ==
    /\ stage[e] = "journaled"
    /\ Publish(e)
    /\ overtaken' = IF \E f \in Journal : stage[f] = "published" /\ seq[f] > seq[e]
                    THEN overtaken \cup {e} ELSE overtaken
    /\ UNCHANGED <<seq, nextSeq, journal, forwarder, inHand, subscribed, cursor, requestVars, clientVars,
                   excused>>

-----------------------------------------------------------------------------
(***************************************************************************)
(* The forwarder of the connection.                                        *)
(***************************************************************************)

\* should_forward, under the lock of the connections.
ShouldForward(e) == subscribed /\ (e \in Ephemeral \/ seq[e] > cursor)

ReceiveEvent ==
    /\ forwarder = "receiving" /\ ~lagged /\ queue # <<>>
    /\ queue' = Tail(queue)
    /\ IF ShouldForward(Head(queue))
       THEN forwarder' = "sending" /\ inHand' = Head(queue)
       ELSE UNCHANGED <<forwarder, inHand>>
    \* dropped although a request that has read the journal is about to subscribe
    /\ excused' = IF ~subscribed /\ handler = "loaded"
                  THEN excused \cup (({Head(queue)} \cap Durable) \ ToSet(batch))
                  ELSE excused
    /\ UNCHANGED <<emitVars, lagged, subscribed, cursor, requestVars, clientVars, overtaken>>

\* Err(_) => break.
ReceiveLagged ==
    /\ forwarder = "receiving" /\ lagged
    /\ forwarder' = "ended" /\ lagged' = FALSE
    /\ UNCHANGED <<emitVars, queue, inHand, subscribed, cursor, requestVars, clientVars, overtaken, excused>>

AppendAlways(e, last) == shown' = Append(shown, e) /\ UNCHANGED placed

AppendNewer(e, last) ==
    /\ shown' = IF e \in Durable /\ seq[e] <= last THEN shown ELSE Append(shown, e)
    /\ UNCHANGED placed

\* What the client does with an event.  turn_started is not listed.  A delta
\* is merged into the item of earlier ones, and the stored answer replaces that
\* item, wherever it is.  Else an event is appended unless the last of the list
\* is as new; an item without number counts as -1.
ClientAppends(e) ==
    LET live == {i \in DOMAIN shown : shown[i] \in Deltas}
        last == IF shown = <<>> \/ Last(shown) \in Ephemeral THEN -1 ELSE seq[Last(shown)]
    IN  IF e \in Unlisted \/ (e \in Deltas /\ live # {})
        THEN UNCHANGED clientVars
        ELSE IF e \in Finals /\ live # {}
        THEN /\ \E i \in live : (\A j \in live : j <= i) /\ shown' = [shown EXCEPT ![i] = e]
             /\ placed' = placed \cup {e}
        ELSE AppendNewer(e, last)

SendEvent ==
    /\ forwarder = "sending"
    /\ ClientAppends(inHand)
    /\ forwarder' = "sent"
    /\ UNCHANGED <<emitVars, queue, lagged, inHand, subscribed, cursor, requestVars, overtaken, excused>>

\* workspace_index_ready is not sent: the client gets the status and the file
\* index instead, and the cursor stays.  The unlisted event in hand may be this
\* one, or turn_started, which is sent.
SendIndex ==
    /\ forwarder = "sending" /\ inHand \in Unlisted
    /\ forwarder' = "receiving" /\ inHand' = NoEvent
    /\ UNCHANGED <<emitVars, queue, lagged, subscribed, cursor, requestVars, clientVars, overtaken,
                   excused>>

\* update_live_cursor
UpdateLiveCursor ==
    /\ forwarder = "sent"
    /\ cursor' = Max({cursor, seq[inHand]})
    /\ forwarder' = "receiving" /\ inHand' = NoEvent
    /\ UNCHANGED <<emitVars, queue, lagged, subscribed, requestVars, clientVars, overtaken, excused>>

-----------------------------------------------------------------------------
(***************************************************************************)
(* The requests of the client.                                             *)
(***************************************************************************)
Request ==
    \/ handler = "idle" /\ requests < MaxRequests /\ requests' = requests + 1
    \/ handler = "reopened" /\ UNCHANGED requests

\* The client replaces its list by the batch.  What it has seen since the
\* batch was read goes, and what it missed before comes.
ClientReplaces ==
    /\ shown' = batch /\ placed' = {}
    /\ excused' = (excused \cup (Shown \cap Durable)) \ ToSet(batch)

SeedFromJournal == cursor' = nextSeq - 1

Seed == cursor' = LastSeq(batch)

\* handle_subscribe_session: subscribe, read, seed, send.
Subscribe ==
    /\ Request
    /\ subscribed' = TRUE /\ handler' = "subscribed"
    /\ UNCHANGED <<emitVars, forwardVars, cursor, batch, breaks, clientVars, overtaken, excused>>

ReplayRead ==
    /\ handler = "subscribed"
    /\ batch' = Stored /\ handler' = "replaying"
    /\ excused' = excused \cup Cut
    /\ UNCHANGED <<emitVars, forwardVars, subscribed, cursor, requests, breaks, clientVars, overtaken>>

\* Err(_): a journal that cannot be read is taken for an empty one.
ReplayReadFails ==
    /\ handler = "subscribed"
    /\ batch' = <<>> /\ handler' = "replaying"
    /\ excused' = excused \cup Journal
    /\ UNCHANGED <<emitVars, forwardVars, subscribed, cursor, requests, breaks, clientVars, overtaken>>

ReplaySeed ==
    /\ handler = "replaying"
    /\ Seed /\ handler' = "seeded"
    /\ UNCHANGED <<emitVars, forwardVars, subscribed, batch, requests, breaks, clientVars, overtaken, excused>>

ReplaySend ==
    /\ handler = "seeded"
    /\ ClientReplaces /\ handler' = "idle" /\ batch' = <<>>
    /\ UNCHANGED <<emitVars, forwardVars, subscribed, cursor, requests, breaks, overtaken>>

\* handle_load_session: read, subscribe, send, seed.
Load ==
    /\ handler = "idle" /\ Request
    /\ batch' = Stored /\ handler' = "loaded"
    /\ excused' = excused \cup Cut
    /\ UNCHANGED <<emitVars, forwardVars, subscribed, cursor, breaks, clientVars, overtaken>>

\* The session cannot be loaded: the client is sent an error.
LoadFails ==
    /\ handler = "loaded"
    /\ handler' = "idle" /\ batch' = <<>>
    /\ UNCHANGED <<emitVars, forwardVars, subscribed, cursor, requests, breaks, clientVars, overtaken, excused>>

LoadRegister ==
    /\ handler = "loaded"
    /\ subscribed' = TRUE /\ handler' = "registered"
    /\ UNCHANGED <<emitVars, forwardVars, cursor, batch, requests, breaks, clientVars, overtaken, excused>>

LoadSend ==
    /\ handler = "registered"
    /\ ClientReplaces /\ handler' = "seeding"
    /\ UNCHANGED <<emitVars, forwardVars, subscribed, cursor, batch, requests, breaks, overtaken>>

LoadSeed ==
    /\ handler = "seeding"
    /\ Seed /\ handler' = "idle" /\ batch' = <<>>
    /\ UNCHANGED <<emitVars, forwardVars, subscribed, requests, breaks, clientVars, overtaken, excused>>

Unsubscribe ==
    /\ handler = "idle" /\ subscribed /\ Request
    /\ subscribed' = FALSE /\ cursor' = 0
    /\ UNCHANGED <<emitVars, forwardVars, handler, batch, breaks, clientVars, overtaken, excused>>

\* The connection breaks and its state goes with it; the client opens another
\* one, which has a forwarder of its own, and subscribes again.
Reconnect ==
    /\ breaks < MaxBreaks /\ breaks' = breaks + 1
    /\ queue' = <<>> /\ lagged' = FALSE /\ forwarder' = "receiving" /\ inHand' = NoEvent
    /\ subscribed' = FALSE /\ cursor' = 0
    /\ handler' = "reopened" /\ batch' = <<>>
    /\ UNCHANGED <<emitVars, clientVars, requests, overtaken, excused>>

-----------------------------------------------------------------------------
Emit ==
    \/ \E e \in Durable : EmitDurable(e) \/ AppendDurable(e) \/ AppendFails(e) \/ PublishDurable(e)
    \/ \E e \in Ephemeral : EmitEphemeral(e)

Forward == ReceiveEvent \/ ReceiveLagged \/ SendEvent \/ SendIndex \/ UpdateLiveCursor

Handle ==
    \/ Subscribe \/ ReplayRead \/ ReplayReadFails \/ ReplaySeed \/ ReplaySend
    \/ Load \/ LoadFails \/ LoadRegister \/ LoadSend \/ LoadSeed
    \/ Unsubscribe

Next == Emit \/ Forward \/ Handle \/ Reconnect

Spec == Init /\ [][Next]_vars

-----------------------------------------------------------------------------
(***************************************************************************)
(* Properties                                                              *)
(***************************************************************************)

\* Batches and live events reach the client from two tasks, and still its
\* list shows no event twice and follows the journal, as far as no ephemeral
\* item comes between, which hides the last number from the client, and no
\* answer that took the place of its deltas.
ShownInOrder ==
    \A i, j \in DOMAIN shown :
       i < j /\ (\A k \in i..j : shown[k] \in Durable \ placed) => seq[shown[i]] < seq[shown[j]]

Quiet ==
    /\ \A e \in Events : stage[e] \notin {"spawned", "journaled"}
    /\ queue = <<>> /\ ~lagged /\ forwarder = "receiving" /\ handler = "idle"

\* Once everything emitted has arrived, a subscribed client shows every event
\* of the journal but those it does not list live (turn_started and
\* workspace_index_ready), except one that the fanout got too late, that was
\* published between the reading and the subscribing of a load, that reached
\* the client ahead of a batch read before it, that was beyond the limit of a
\* read, or that a failed read left out.
NothingMissed ==
    Quiet /\ subscribed =>
       Journal \ (Shown \cup Unlisted) \subseteq overtaken \cup excused
=============================================================================
