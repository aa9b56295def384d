--------------------------- MODULE StreamRelayProofs ---------------------------
(***************************************************************************)
(* StreamRelay for any number of chunks, any batch, window, channel and    *)
(* buffer size and any number of faults.                                   *)
(***************************************************************************)
EXTENDS StreamRelay, SequenceTheorems, WellFoundedInduction, TLAPS

(***************************************************************************)
(* The inductive invariant.                                                *)
(***************************************************************************)
\* The chunks in a sequence, and in a queue of messages.
In(q) == {c \in 1..LastChunk : \E k \in DOMAIN q : q[k] = c}

Chunks(s) == {c \in 1..LastChunk : \E i \in DOMAIN s : c \in In(s[i].chunks)}

Precedes(A, B) == \A a \in A, b \in B : a < b

Inc(q) == \A i, j \in DOMAIN q : i < j => q[i] < q[j]

IncAll(s) ==
    /\ \A i \in DOMAIN s : Inc(s[i].chunks)
    /\ \A i, j \in DOMAIN s : i < j => Precedes(In(s[i].chunks), In(s[j].chunks))

\* The order along the way of the chunks: r was received, c is in the channel,
\* w on the wire, b buffered and p pending at the host, n is read next.
Flow(r, c, w, b, p, n) ==
    /\ Inc(r) /\ IncAll(c) /\ IncAll(w) /\ IncAll(b) /\ Inc(p)
    /\ Precedes(In(r), Chunks(c))
    /\ Precedes(In(r) \cup Chunks(c), Chunks(w))
    /\ Precedes(In(r) \cup Chunks(c) \cup Chunks(w), Chunks(b))
    /\ Precedes(In(r) \cup Chunks(c) \cup Chunks(w) \cup Chunks(b), In(p))
    /\ Precedes(In(r) \cup Chunks(c) \cup Chunks(w) \cup Chunks(b) \cup In(p), {n})

\* Nothing before n is missing on that way.
Whole(r, c, w, b, p, n) ==
    \A k \in 1..LastChunk :
       k < n => k \in In(r) \cup Chunks(c) \cup Chunks(w) \cup Chunks(b) \cup In(p)

Started(t) == host[t].phase # "none"

\* What a relay task holds in each phase.  A terminal message is the last one
\* it buffers, and Done never waits for its batch to fill.
TaskOK(h) ==
    /\ h.phase = "none" => h = NoTask
    /\ h.phase # "drain" => h.buffered = <<>> /\ ~h.disc
    /\ h.phase \in {"opening", "gone"} => h.pending = <<>>
    /\ h.phase \in {"opening", "relay"} => ~h.done
    /\ h.done => h.pending = <<>>
    /\ LastChunk \notin In(h.pending)
    /\ \A i \in DOMAIN h.buffered : relay_message_is_terminal(h.buffered[i])
          => i = Len(h.buffered) /\ h.done

TasksOK ==
    /\ \A t \in Tasks : TaskOK(host[t])
    /\ \A t \in Tasks : t > client.requests => ~Started(t)
    /\ "retried" \in marks \/ ~Started(1) \/ ~Started(2)
    /\ (\A t \in Tasks : ~Started(t)) => received = <<>> /\ channel = <<>> /\ wire = <<>>

\* A request that is forgotten has no consumer.
RouterOK == request.consumer => request.known

\* What does not depend on the chunks.
Base == TypeOK /\ TasksOK /\ RouterOK /\ RunningIsTracked

FlowAt(t) == Flow(received, channel, wire, host[t].buffered, host[t].pending, host[t].next)

WholeAt(t) == Whole(received, channel, wire, host[t].buffered, host[t].pending, host[t].next)

\* The chunks on their way are in order unless one may be sent twice.
OrderOK ==
    marks \cap {"resent", "retried"} = {} =>
       \A t \in Tasks : Started(t) => FlowAt(t)

\* Nothing is missing as long as the client listens and the router has its
\* channel, nor once Done is in the channel, nor once the client has it.
CompleteOK ==
    marks = {} =>
       /\ Listening /\ request.consumer =>
             \A t \in Tasks : Started(t) => WholeAt(t)
       /\ Listening /\ LastChunk \in Chunks(channel) =>
             1..LastChunk \subseteq In(received) \cup Chunks(channel)
       /\ client.phase = "done" => 1..LastChunk \subseteq In(received)

RelayInv == Base /\ OrderOK /\ CompleteOK

-----------------------------------------------------------------------------
(***************************************************************************)
(* Sequences of chunks and queues of messages.                             *)
(***************************************************************************)
\* Elements of a sequence.
LEMMA ElementOf ==
  ASSUME NEW S, NEW q \in Seq(S), NEW k \in DOMAIN q
  PROVE  q[k] \in S
  OBVIOUS

\* Two numbers neither of which exceeds the other.
LEMMA Antisymmetric ==
  ASSUME NEW a \in Nat, NEW b \in Nat, a <= b, b <= a
  PROVE  a = b
  OBVIOUS

\* A batch of chunks, or a message's, is what it lists, and lies among the chunks.
LEMMA InType ==
  ASSUME NEW q \in Seq(1..LastChunk), NEW k \in DOMAIN q
  PROVE  q[k] \in In(q)
<1>1. q[k] \in 1..LastChunk
  BY ElementOf
<1> QED
  BY <1>1 DEF In

\* A chunk at the end of a sequence.
LEMMA InAppend ==
  ASSUME NEW q \in Seq(1..LastChunk), NEW c \in 1..LastChunk
  PROVE  In(Append(q, c)) = In(q) \cup {c}
<1>1. \A k \in DOMAIN q : k \in DOMAIN Append(q, c) /\ Append(q, c)[k] = q[k]
  OBVIOUS
<1>2. Len(q) + 1 \in DOMAIN Append(q, c) /\ Append(q, c)[Len(q) + 1] = c
  OBVIOUS
<1>3. \A k \in DOMAIN Append(q, c) : k \in DOMAIN q \/ k = Len(q) + 1
  OBVIOUS
<1> QED
  BY <1>1, <1>2, <1>3 DEF In

\* A batch at the end of a sequence.
LEMMA InConcat ==
  ASSUME NEW q \in Seq(1..LastChunk), NEW r \in Seq(1..LastChunk)
  PROVE  In(q \o r) = In(q) \cup In(r)
<1>1. \A k \in DOMAIN q : k \in DOMAIN (q \o r) /\ (q \o r)[k] = q[k]
  OBVIOUS
<1>2. \A k \in DOMAIN r : Len(q) + k \in DOMAIN (q \o r) /\ (q \o r)[Len(q) + k] = r[k]
  OBVIOUS
<1>3. \A k \in DOMAIN (q \o r) : k \in DOMAIN q \/ (k - Len(q) \in DOMAIN r /\ (q \o r)[k] = r[k - Len(q)])
  OBVIOUS
<1> QED
  BY <1>1, <1>2, <1>3 DEF In

\* Nothing is in order.
LEMMA InEmpty == In(<<>>) = {} /\ Chunks(<<>>) = {} /\ Inc(<<>>) /\ IncAll(<<>>)
  BY DEF In, Chunks, Inc, IncAll

\* A greater chunk at the end keeps the order.
LEMMA IncAppend ==
  ASSUME NEW q \in Seq(1..LastChunk), NEW c \in 1..LastChunk, Inc(q), Precedes(In(q), {c})
  PROVE  Inc(Append(q, c))
  BY InType DEF Inc, Precedes

\* So does an ordered batch of greater chunks.
LEMMA IncConcat ==
  ASSUME NEW q \in Seq(1..LastChunk), NEW r \in Seq(1..LastChunk), Inc(q), Inc(r),
         Precedes(In(q), In(r))
  PROVE  Inc(q \o r)
<1>1. \A k \in DOMAIN q : q[k] \in In(q)
  BY InType
<1>2. \A k \in DOMAIN r : r[k] \in In(r)
  BY InType
<1>3. \A k \in DOMAIN (q \o r) : \/ k \in DOMAIN q /\ (q \o r)[k] = q[k]
                                 \/ k > Len(q) /\ k - Len(q) \in DOMAIN r /\ (q \o r)[k] = r[k - Len(q)]
  OBVIOUS
<1> SUFFICES ASSUME NEW i \in DOMAIN (q \o r), NEW j \in DOMAIN (q \o r), i < j
             PROVE  (q \o r)[i] < (q \o r)[j]
  BY DEF Inc
<1> HIDE DEF Inc
<1>4. i \in Nat /\ j \in Nat /\ DOMAIN q = 1..Len(q) /\ DOMAIN r = 1..Len(r) /\ Len(q) \in Nat
  OBVIOUS
<1>5. CASE j \in DOMAIN q
  BY <1>3, <1>4, <1>5 DEF Inc
<1>6. CASE i \in DOMAIN q /\ j \notin DOMAIN q
  BY <1>1, <1>2, <1>3, <1>4, <1>6 DEF Precedes
<1>7. CASE i \notin DOMAIN q /\ j \notin DOMAIN q
  <2>1. i - Len(q) < j - Len(q)
    BY <1>4
  <2> QED
    BY <1>3, <1>7, <2>1 DEF Inc
<1> QED
  BY <1>3, <1>4, <1>5, <1>6, <1>7

\* The chunks of a queue of messages with one more, or one less.
LEMMA ChunksAppend ==
  ASSUME NEW s \in Seq(Message), NEW m \in Message
  PROVE  Chunks(Append(s, m)) = Chunks(s) \cup In(m.chunks)
<1>1. \A k \in DOMAIN s : k \in DOMAIN Append(s, m) /\ Append(s, m)[k] = s[k]
  OBVIOUS
<1>2. Len(s) + 1 \in DOMAIN Append(s, m) /\ Append(s, m)[Len(s) + 1] = m
  OBVIOUS
<1>3. \A k \in DOMAIN Append(s, m) : k \in DOMAIN s \/ k = Len(s) + 1
  OBVIOUS
<1>4. In(m.chunks) \subseteq 1..LastChunk
  BY DEF In
<1> QED
  BY <1>1, <1>2, <1>3, <1>4 DEF Chunks

\* The chunks of a queue are those of its head and of the rest.
LEMMA ChunksTail ==
  ASSUME NEW s \in Seq(Message), s # <<>>
  PROVE  Chunks(s) = In(Head(s).chunks) \cup Chunks(Tail(s))
<1>1. 1 \in DOMAIN s /\ Head(s) = s[1]
  OBVIOUS
<1>2. \A k \in DOMAIN Tail(s) : k + 1 \in DOMAIN s /\ Tail(s)[k] = s[k + 1]
  OBVIOUS
<1>3. \A k \in DOMAIN s : k = 1 \/ (k - 1 \in DOMAIN Tail(s) /\ Tail(s)[k - 1] = s[k])
  OBVIOUS
<1>4. In(Head(s).chunks) \subseteq 1..LastChunk
  BY DEF In
<1> QED
  BY <1>1, <1>2, <1>3, <1>4 DEF Chunks

\* A message of greater chunks at the end of a queue keeps its order.
LEMMA IncAllAppend ==
  ASSUME NEW s \in Seq(Message), NEW m \in Message, IncAll(s), Inc(m.chunks),
         Precedes(Chunks(s), In(m.chunks))
  PROVE  IncAll(Append(s, m))
<1>1. \A k \in DOMAIN s : k \in DOMAIN Append(s, m) /\ Append(s, m)[k] = s[k]
  OBVIOUS
<1>2. Append(s, m)[Len(s) + 1] = m
  OBVIOUS
<1>3. \A k \in DOMAIN Append(s, m) : k \in DOMAIN s \/ k = Len(s) + 1
  OBVIOUS
<1>4. \A k \in DOMAIN s : k \in Nat /\ k < Len(s) + 1
  OBVIOUS
<1>5. \A k \in DOMAIN s : In(s[k].chunks) \subseteq Chunks(s)
  BY DEF Chunks, In
<1>6. \A k \in DOMAIN s : Precedes(In(s[k].chunks), In(m.chunks))
  BY <1>5 DEF Precedes
<1>7. Len(s) \in Nat
  OBVIOUS
<1>8. \A i \in DOMAIN Append(s, m) : Inc(Append(s, m)[i].chunks)
  BY <1>1, <1>2, <1>3 DEF IncAll
<1>9. ASSUME NEW i \in DOMAIN Append(s, m), NEW j \in DOMAIN Append(s, m), i < j
      PROVE  Precedes(In(Append(s, m)[i].chunks), In(Append(s, m)[j].chunks))
  <2>1. i \in DOMAIN s
    BY <1>3, <1>4, <1>7, <1>9
  <2> QED
    BY <1>1, <1>2, <1>3, <1>6, <1>9, <2>1 DEF IncAll
<1> QED
  BY <1>8, <1>9 DEF IncAll

\* The head of a queue in order precedes the rest.
LEMMA IncAllTail ==
  ASSUME NEW s \in Seq(Message), s # <<>>, IncAll(s)
  PROVE  /\ Inc(Head(s).chunks) /\ IncAll(Tail(s))
         /\ Precedes(In(Head(s).chunks), Chunks(Tail(s)))
<1>1. 1 \in DOMAIN s /\ Head(s) = s[1]
  OBVIOUS
<1>2. \A k \in DOMAIN Tail(s) : k \in Nat /\ 1 < k + 1 /\ k + 1 \in DOMAIN s /\ Tail(s)[k] = s[k + 1]
  OBVIOUS
<1>3. \A i, j \in DOMAIN Tail(s) : i < j => i + 1 < j + 1
  BY <1>2
<1>4. IncAll(Tail(s))
  BY <1>2, <1>3 DEF IncAll
<1>5. Precedes(In(Head(s).chunks), Chunks(Tail(s)))
  BY <1>1, <1>2 DEF IncAll, Chunks, Precedes
<1> QED
  BY <1>1, <1>4, <1>5 DEF IncAll

\* A set of numbers has a least one.
LEMMA LeastNatural ==
  ASSUME NEW S \in SUBSET Nat, S # {}
  PROVE  \E x \in S : \A y \in S : x <= y
<1> DEFINE Less == OpToRel(<, Nat)
<1>1. IsWellFoundedOn(Less, Nat)
  BY NatLessThanWellFounded
<1>2. Less = {ss \in Nat \X Nat : ss[1] < ss[2]}
  BY DEF OpToRel
<1> HIDE DEF Less
<1>3. PICK x \in S : \A y \in S : ~(<<y, x>> \in Less)
  BY <1>1, WFMin
<1>4. \A y \in S : <<y, x>> \in Nat \X Nat /\ ~(y < x)
  BY <1>2, <1>3
<1>5. ASSUME NEW y \in S PROVE x <= y
  <2>1. x \in Nat /\ y \in Nat /\ ~(y < x)
    BY <1>4
  <2> QED
    BY <2>1
<1> QED
  BY <1>5

\* An increasing sequence that has every number from 1 to LastChunk counts
\* from 1 to LastChunk.
LEMMA CountsUp ==
  ASSUME NEW q \in Seq(1..LastChunk), Inc(q), 1..LastChunk \subseteq In(q)
  PROVE  q = [i \in 1..LastChunk |-> i]
<1>0. LastChunk \in Nat /\ Len(q) \in Nat /\ DOMAIN q = 1..Len(q)
  BY RelayConstants
<1>2. \A i \in DOMAIN q : q[i] \in 1..LastChunk
  BY <1>0
<1>3. \A i \in DOMAIN q : q[i] = i
  <2> SUFFICES ASSUME {i \in DOMAIN q : q[i] # i} # {} PROVE FALSE
    OBVIOUS
  <2>1. {i \in DOMAIN q : q[i] # i} \subseteq Nat
    BY <1>0
  <2>2. PICK i \in DOMAIN q : q[i] # i /\ \A j \in DOMAIN q : q[j] # j => i <= j
    <3> DEFINE S == {i \in DOMAIN q : q[i] # i}
    <3>1. \E x \in S : \A y \in S : x <= y
      BY <2>1, LeastNatural
    <3> QED
      BY <3>1
  <2>3. \A j \in DOMAIN q : j < i => q[j] = j
    BY <1>0, <2>2
  <2>4. i \in Nat /\ i >= 1 /\ q[i] \in Nat
    BY <1>0, <1>2
  <2>5. CASE q[i] < i
    <3>1. q[i] \in DOMAIN q
      BY <1>0, <1>2, <2>4, <2>5
    <3>2. q[q[i]] = q[i]
      BY <3>1, <2>3, <2>5
    <3>3. q[q[i]] < q[i]
      BY <3>1, <2>5 DEF Inc
    <3> QED
      BY <3>2, <3>3, <2>4
  <2>6. CASE i < q[i]
    <3>1. i \in 1..LastChunk
      BY <1>0, <1>2, <2>4, <2>6
    <3>2. PICK k \in DOMAIN q : q[k] = i
      BY <3>1 DEF In
    <3>3. ~(k < i) /\ k # i
      BY <2>2, <2>3, <3>2, <1>0, <2>4
    <3>4. i < k
      BY <3>3, <1>0
    <3>5. q[i] < q[k]
      BY <3>4 DEF Inc
    <3> QED
      BY <3>2, <3>5, <2>4, <2>6
  <2> QED
    BY <2>2, <2>4, <2>5, <2>6
<1>4. Len(q) = LastChunk
  <2>1. LastChunk \in DOMAIN q
    <3>1. LastChunk \in 1..LastChunk
      BY RelayConstants
    <3>2. PICK k \in DOMAIN q : q[k] = LastChunk
      BY <3>1 DEF In
    <3> QED
      BY <3>2, <1>3
  <2>2. Len(q) \in DOMAIN q
    BY <1>0, <2>1
  <2>3. Len(q) \in 1..LastChunk
    BY <1>2, <1>3, <2>2
  <2> QED
    <3>1. LastChunk <= Len(q) /\ Len(q) <= LastChunk
      BY <1>0, <2>1, <2>3
    <3> QED
      BY <1>0, <3>1, Antisymmetric
<1> QED
  BY <1>0, <1>3, <1>4

-----------------------------------------------------------------------------
(***************************************************************************)
(* Types.                                                                  *)
(***************************************************************************)
\* What RelayConstants says of each constant.
LEMMA ConstantsType ==
    /\ LastChunk \in Nat /\ LastChunk > 0 /\ BatchSize \in Nat /\ BatchSize > 0
    /\ ChannelSize \in Nat /\ ChannelSize > 0 /\ ReplaySize \in Nat /\ ReplaySize > 0
    /\ WireBound \in Nat /\ WireBound > 0 /\ AckWindow \in Nat /\ MaxFaults \in Nat
  BY RelayConstants

\* Notices are messages.
LEMMA NoticeType == \A k \in Kinds : Notice(k) \in Message
  BY DEF Notice, Message

\* Batches are messages.
LEMMA BatchType == \A s \in Seq(1..LastChunk) : Batch(s) \in Message
  BY DEF Batch, Message, Kinds

\* Head and tail of a queue.
LEMMA HeadTail ==
  ASSUME NEW S, NEW s \in Seq(S), s # <<>>
  PROVE  Head(s) \in S /\ Tail(s) \in Seq(S) /\ Len(s) > 0 /\ Len(Tail(s)) = Len(s) - 1
  OBVIOUS

\* A queue of one message without it.
LEMMA TailOfOne ==
  ASSUME NEW S, NEW s \in Seq(S), Len(s) = 1
  PROVE  Tail(s) = <<>>
<1>1. s # <<>>
  OBVIOUS
<1>2. Tail(s) \in Seq(S) /\ Len(Tail(s)) = 0
  BY <1>1, HeadTail
<1>3. \A r \in Seq(S) : Len(r) = 0 => r = <<>>
  BY EmptySeq
<1> QED
  BY <1>2, <1>3

\* The router's RoutedRequest.
RequestType ==
    [known : BOOLEAN, consumer : BOOLEAN,
     phase : {"streaming", "consumer_disconnected", "completed", "failed"},
     replay : Seq(Message)]

\* The four ways a message can go.
LEMMA RouteCases ==
  ASSUME TypeOK, NEW m \in Message, NEW to, to = deliver_or_buffer(m)
  PROVE  \/ ~request.known /\ to.request = request /\ to.channel = channel /\ to.mark = {}
         \/ /\ request.known /\ ~request.consumer
            /\ to.request = [request EXCEPT !.phase = terminal_request_phase(m, request.phase),
                                            !.replay = Buffered(m)]
            /\ to.channel = channel /\ to.mark = {}
         \/ /\ request.known /\ request.consumer /\ (~Listening \/ Len(channel) >= ChannelSize)
            /\ to.request = [request EXCEPT
                                !.phase = terminal_request_phase(m, "consumer_disconnected"),
                                !.consumer = Listening,
                                !.replay = Buffered(m)]
            /\ to.channel = channel /\ to.mark = IF Listening THEN {"overflow"} ELSE {}
         \/ /\ request.known /\ request.consumer /\ Listening /\ ~(Len(channel) >= ChannelSize)
            /\ to.request = [request EXCEPT
                                !.phase = terminal_request_phase(m, request.phase),
                                !.consumer = ~relay_message_is_terminal(m)]
            /\ to.channel = Append(channel, m) /\ to.mark = {}
<1>1. CASE ~request.known
  BY <1>1 DEF deliver_or_buffer
<1>2. CASE request.known /\ ~request.consumer
  BY <1>2 DEF deliver_or_buffer
<1>3. CASE request.known /\ request.consumer /\ (~Listening \/ Len(channel) >= ChannelSize)
  BY <1>3 DEF deliver_or_buffer
<1>4. CASE request.known /\ request.consumer /\ ~(~Listening \/ Len(channel) >= ChannelSize)
  BY <1>4 DEF deliver_or_buffer
<1> QED
  BY <1>1, <1>2, <1>3, <1>4

\* Handling a message keeps the types of the request and of the channel.
LEMMA RouteType ==
  ASSUME TypeOK, RouterOK, NEW m \in Message, NEW to, to = deliver_or_buffer(m)
  PROVE  /\ to.request \in RequestType /\ Len(to.request.replay) <= ReplaySize
         /\ to.channel \in Seq(Message) /\ Len(to.channel) <= ChannelSize
         /\ to.mark \subseteq {"overflow"}
         /\ to.request.consumer => to.request.known /\ request.consumer
<1>1. request \in RequestType /\ Len(request.replay) <= ReplaySize /\ channel \in Seq(Message)
      /\ Len(channel) <= ChannelSize /\ Len(channel) \in Nat
  BY DEF TypeOK, RequestType
<1>2. Buffered(m) \in Seq(Message) /\ Len(Buffered(m)) <= ReplaySize
  <2>1. request.replay \in Seq(Message) /\ Len(request.replay) \in Nat
    BY <1>1 DEF RequestType
  <2>2. CASE Len(request.replay) >= ReplaySize
    <3>1. request.replay # <<>>
      BY <2>2, ConstantsType
    <3>2. Tail(request.replay) \in Seq(Message) /\ Len(Tail(request.replay)) = Len(request.replay) - 1
      BY <2>1, <3>1, HeadTail
    <3> QED
      BY <1>1, <2>1, <2>2, <3>2, ConstantsType DEF Buffered
  <2>3. CASE ~(Len(request.replay) >= ReplaySize)
    BY <1>1, <2>1, <2>3, ConstantsType DEF Buffered
  <2> QED
    BY <2>2, <2>3
<1>3. \A o \in {"streaming", "consumer_disconnected", "completed", "failed"} :
        terminal_request_phase(m, o) \in {"streaming", "consumer_disconnected", "completed", "failed"}
  BY DEF terminal_request_phase
<1>4. Listening \in BOOLEAN /\ (~relay_message_is_terminal(m)) \in BOOLEAN
  BY DEF Listening, relay_message_is_terminal
<1>5. Append(channel, m) \in Seq(Message) /\ Len(Append(channel, m)) = Len(channel) + 1
  BY <1>1
<1>6. ChannelSize \in Nat
  BY ConstantsType
<1>7. CASE ~request.known /\ to.request = request /\ to.channel = channel /\ to.mark = {}
  BY <1>1, <1>7 DEF RouterOK
<1>8. CASE /\ request.known /\ ~request.consumer
           /\ to.request = [request EXCEPT !.phase = terminal_request_phase(m, request.phase),
                                           !.replay = Buffered(m)]
           /\ to.channel = channel /\ to.mark = {}
  BY <1>1, <1>2, <1>3, <1>8 DEF RequestType
<1>9. CASE /\ request.known /\ request.consumer /\ (~Listening \/ Len(channel) >= ChannelSize)
           /\ to.request = [request EXCEPT
                               !.phase = terminal_request_phase(m, "consumer_disconnected"),
                               !.consumer = Listening,
                               !.replay = Buffered(m)]
           /\ to.channel = channel /\ to.mark = IF Listening THEN {"overflow"} ELSE {}
  BY <1>1, <1>2, <1>3, <1>4, <1>9 DEF RequestType
<1>10. CASE /\ request.known /\ request.consumer /\ Listening /\ ~(Len(channel) >= ChannelSize)
            /\ to.request = [request EXCEPT
                                !.phase = terminal_request_phase(m, request.phase),
                                !.consumer = ~relay_message_is_terminal(m)]
            /\ to.channel = Append(channel, m) /\ to.mark = {}
  <2>1. to.channel \in Seq(Message) /\ Len(to.channel) <= ChannelSize
    BY <1>1, <1>5, <1>6, <1>10
  <2>2. PICK p, c : /\ to.request = [request EXCEPT !.phase = p, !.consumer = c]
                    /\ p = terminal_request_phase(m, request.phase)
                    /\ c = ~relay_message_is_terminal(m)
    BY <1>10
  <2>3. p \in {"streaming", "consumer_disconnected", "completed", "failed"} /\ c \in BOOLEAN
    BY <1>1, <1>3, <1>4, <2>2 DEF RequestType
  <2>4. to.request \in RequestType /\ to.request.replay = request.replay
        /\ to.request.known = request.known
    BY <1>1, <2>2, <2>3 DEF RequestType
  <2> QED
    BY <1>1, <1>10, <2>1, <2>4
<1> QED
  BY <1>7, <1>8, <1>9, <1>10, RouteCases

\* A message is appended to the channel or kept out of it; only an overflow
\* keeps it out while the client listens and the router has its channel.
LEMMA RouteChannel ==
  ASSUME TypeOK, RouterOK, NEW m \in Message, NEW to, to = deliver_or_buffer(m)
  PROVE  /\ to.channel = channel \/ to.channel = Append(channel, m)
         /\ Listening /\ request.consumer /\ to.mark = {} => to.channel = Append(channel, m)
<1>1. request \in RequestType
  BY DEF TypeOK, RequestType
<1> QED
  BY <1>1, RouteCases DEF RouterOK, RequestType

-----------------------------------------------------------------------------
(***************************************************************************)
(* What a relay task becomes.                                              *)
(***************************************************************************)
\* A task the invariant allows.
Sound(h) == h \in Task /\ Len(h.pending) < BatchSize /\ TaskOK(h)

\* The task that was never started.
LEMMA NoTaskSound == Sound(NoTask) /\ NoTask.phase = "none"
  BY ConstantsType, InEmpty DEF Sound, NoTask, Task, TaskOK

\* A task that ended holds nothing.
LEMMA GoneSound ==
  ASSUME NEW h \in Task
  PROVE  Sound(Gone(h)) /\ Gone(h).phase = "gone" /\ Gone(h).buffered = <<>>
         /\ Gone(h).pending = <<>> /\ Gone(h).next = h.next
<1>1. /\ Gone(h).phase = "gone" /\ Gone(h).pending = <<>> /\ Gone(h).buffered = <<>>
      /\ Gone(h).next = h.next /\ ~Gone(h).done /\ ~Gone(h).disc
  BY DEF Gone, NoTask
<1>2. h.next \in 1..(LastChunk + 1)
  BY DEF Task
<1>3. Gone(h) \in Task
  BY <1>2, NoTaskSound DEF Task, Gone, Sound
<1> QED
  BY <1>1, <1>3, ConstantsType, InEmpty DEF Sound, TaskOK

\* Notices carry no chunk.
LEMMA NoticeFacts ==
  \A k \in Kinds :
     /\ Notice(k).kind = k /\ Notice(k).chunks = <<>>
     /\ ~HasDone(Notice(k))
     /\ relay_message_is_terminal(Notice(k)) <=> k \in {"provider_error", "failed"}
  BY DEF Notice, HasDone, relay_message_is_terminal

\* A batch carries its chunks and is terminal if it has Done.
LEMMA BatchFacts ==
  \A s \in Seq(1..LastChunk) :
     /\ Batch(s).kind = "chunk" /\ Batch(s).chunks = s
     /\ relay_message_is_terminal(Batch(s)) <=> LastChunk \in In(s)
  BY ConstantsType DEF Batch, relay_message_is_terminal, HasDone, In

\* flush_batch of a task that has buffered nothing.
LEMMA FlushFacts ==
  ASSUME NEW h \in Task, h.buffered = <<>>, NEW f, f = flush_batch(h)
  PROVE  /\ f \in Task /\ f.pending = <<>>
         /\ h.pending = <<>> => f.buffered = <<>>
         /\ h.pending # <<>> => f.buffered = Append(<<>>, Batch(h.pending))
         /\ f.next = h.next /\ f.done = h.done /\ f.disc = h.disc /\ f.phase = h.phase
<1>1. h.pending \in Seq(1..LastChunk) /\ Batch(h.pending) \in Message
  BY BatchType DEF Task
<1>2. Append(<<>>, Batch(h.pending)) \in Seq(Message)
  BY <1>1
<1>3. CASE h.pending = <<>>
  BY <1>3 DEF flush_batch
<1>4. CASE h.pending # <<>>
  <2>1. PICK b : b = Append(<<>>, Batch(h.pending))
    OBVIOUS
  <2>2. f = [h EXCEPT !.buffered = b, !.pending = <<>>]
    BY <1>4, <2>1 DEF flush_batch
  <2> QED
    <3>1. b \in Seq(Message) /\ <<>> \in Seq(1..LastChunk)
      BY <1>2, <2>1
    <3>2. f \in Task
      BY <2>2, <3>1 DEF Task
    <3>3. f.pending = <<>> /\ f.buffered = b /\ f.next = h.next /\ f.done = h.done
          /\ f.disc = h.disc /\ f.phase = h.phase
      BY <2>2 DEF Task
    <3> QED
      BY <1>4, <2>1, <3>2, <3>3
<1> QED
  BY <1>3, <1>4

\* Terminate of a task that has buffered nothing.
LEMMA TerminateFacts ==
  ASSUME NEW h \in Task, h.buffered = <<>>, NEW m \in Message, NEW f, f = Terminate(h, m)
  PROVE  /\ f \in Task /\ f.pending = <<>> /\ f.done /\ f.phase = "drain"
         /\ h.pending = <<>> => f.buffered = Append(<<>>, m)
         /\ h.pending # <<>> => f.buffered = Append(Append(<<>>, Batch(h.pending)), m)
         /\ f.next = h.next /\ f.disc = h.disc
<1>1. PICK g : g = flush_batch(h)
  OBVIOUS
<1>2. /\ g \in Task /\ g.pending = <<>>
      /\ h.pending = <<>> => g.buffered = <<>>
      /\ h.pending # <<>> => g.buffered = Append(<<>>, Batch(h.pending))
      /\ g.next = h.next /\ g.disc = h.disc
  BY <1>1, FlushFacts
<1>3. PICK b : b = Append(g.buffered, m)
  OBVIOUS
<1>4. f = [g EXCEPT !.buffered = b, !.done = TRUE, !.phase = "drain"]
  BY <1>1, <1>3 DEF Terminate
<1>5. b \in Seq(Message)
  BY <1>2, <1>3 DEF Task
<1>6. CASE h.pending = <<>>
  <2>1. b = Append(<<>>, m)
    BY <1>2, <1>3, <1>6
  <2> QED
    BY <1>2, <1>4, <1>5, <1>6, <2>1 DEF Task
<1>7. CASE h.pending # <<>>
  <2>1. b = Append(Append(<<>>, Batch(h.pending)), m)
    BY <1>2, <1>3, <1>7
  <2> QED
    BY <1>2, <1>4, <1>5, <1>7, <2>1 DEF Task
<1> QED
  BY <1>6, <1>7

\* What the invariant says of one task.
LEMMA TaskFacts ==
  ASSUME TypeOK, TasksOK, NEW t \in Tasks
  PROVE  /\ host[t] \in Task /\ TaskOK(host[t]) /\ Sound(host[t])
         /\ host[t].pending \in Seq(1..LastChunk) /\ host[t].buffered \in Seq(Message)
         /\ host[t].next \in 1..(LastChunk + 1) /\ host[t].unacked \in 0..AckWindow
         /\ Len(host[t].pending) \in Nat /\ Len(host[t].pending) < BatchSize
<1>1. host[t] \in Task /\ Len(host[t].pending) < BatchSize /\ TaskOK(host[t])
  BY DEF TypeOK, TasksOK
<1> QED
  BY <1>1 DEF Task, Sound

\* The first message of a task's buffer leaves it.
LEMMA RelayedSound ==
  ASSUME TypeOK, TasksOK, NEW t \in Tasks, Relaying(t), NEW acked \in BOOLEAN,
         acked \in should_ack(Front(t), host[t].unacked),
         NEW h, h = Relayed(t, acked)
  PROVE  /\ h \in Task /\ h.phase # "none" /\ (Sound(h) \/ h.phase = "gone")
         /\ h.buffered = Tail(host[t].buffered) /\ h.pending = host[t].pending
         /\ h.next = host[t].next
         /\ h.phase = "gone" => h.buffered = <<>> /\ h.pending = <<>>
         /\ Front(t) \in Message
<1> USE TaskFacts
<1> DEFINE b == host[t].buffered
<1>1. b \in Seq(Message) /\ b # <<>> /\ Front(t) = b[1] /\ Front(t) \in Message
      /\ Tail(b) \in Seq(Message) /\ 1 \in DOMAIN b
  BY DEF Relaying, Front
<1>2. host[t].phase = "drain" /\ ~host[t].disc
  BY DEF Relaying
<1>3. PICK u : u = IF Front(t).kind = "chunk" /\ ~acked THEN host[t].unacked + 1 ELSE 0
  OBVIOUS
<1>4. PICK p : p = IF relay_message_is_terminal(Front(t)) THEN "gone" ELSE "drain"
  OBVIOUS
<1>5. h = [host[t] EXCEPT !.buffered = Tail(b), !.unacked = u, !.phase = p]
  BY <1>3, <1>4 DEF Relayed
<1>6. u \in 0..AckWindow
  <2>1. Front(t).kind = "chunk" /\ ~acked => host[t].unacked < AckWindow
    <3>1. Front(t).kind = "chunk" /\ host[t].unacked >= AckWindow
             => should_ack(Front(t), host[t].unacked) = {TRUE}
      BY DEF should_ack
    <3>2. ~(host[t].unacked >= AckWindow) => host[t].unacked < AckWindow
      BY ConstantsType
    <3>3. ~acked => should_ack(Front(t), host[t].unacked) # {TRUE}
      BY Zenon
    <3> QED
      BY <3>1, <3>2, <3>3
  <2> QED
    BY <1>3, <2>1, ConstantsType
<1>7. p \in {"gone", "drain"} /\ (p = "gone" <=> relay_message_is_terminal(Front(t)))
  BY <1>4
<1>8. /\ h \in Task /\ h.phase = p /\ h.buffered = Tail(b) /\ h.pending = host[t].pending
      /\ h.next = host[t].next /\ h.done = host[t].done /\ h.disc = host[t].disc
  BY <1>1, <1>5, <1>6, <1>7 DEF Task
<1>9. ASSUME p = "gone" PROVE Tail(b) = <<>> /\ host[t].pending = <<>>
  <2>1. 1 = Len(b) /\ host[t].done
    BY <1>1, <1>7, <1>9 DEF TaskOK
  <2>2. Tail(b) = <<>>
    BY <1>1, <2>1, TailOfOne
  <2> QED
    BY <2>1, <2>2 DEF TaskOK
<1>10. \A i \in DOMAIN Tail(b) : relay_message_is_terminal(Tail(b)[i])
          => i = Len(Tail(b)) /\ host[t].done
  <2> SUFFICES ASSUME NEW i \in DOMAIN Tail(b), relay_message_is_terminal(Tail(b)[i])
               PROVE  i = Len(Tail(b)) /\ host[t].done
    OBVIOUS
  <2>1. i \in Nat /\ i + 1 \in DOMAIN b /\ Tail(b)[i] = b[i + 1] /\ Len(Tail(b)) = Len(b) - 1
        /\ Len(b) \in Nat
    BY <1>1
  <2>2. i + 1 = Len(b) /\ host[t].done
    BY <2>1 DEF TaskOK
  <2> QED
    BY <2>1, <2>2
<1>11. CASE p = "gone"
  BY <1>1, <1>8, <1>9, <1>11
<1>12. CASE p = "drain"
  <2>1. TaskOK(h)
    <3> HIDE DEF b
    <3> QED
      BY <1>2, <1>8, <1>10, <1>12 DEF TaskOK
  <2> QED
    BY <1>1, <1>8, <1>12, <2>1 DEF Sound
<1> QED
  BY <1>7, <1>11, <1>12

\* The messages that end the upstream's part of a task.
LEMMA TerminateSound ==
  ASSUME TypeOK, TasksOK, NEW t \in Tasks, host[t].phase = "relay",
         NEW k \in {"provider_error", "failed"}, NEW h, h = Terminate(host[t], Notice(k))
  PROVE  /\ Sound(h) /\ h.phase = "drain" /\ h.pending = <<>> /\ h.next = host[t].next
         /\ host[t].pending = <<>> => h.buffered = Append(<<>>, Notice(k))
         /\ host[t].pending # <<>> =>
               h.buffered = Append(Append(<<>>, Batch(host[t].pending)), Notice(k))
<1> USE TaskFacts
<1>1. host[t].buffered = <<>> /\ ~host[t].disc /\ Notice(k) \in Message
  BY NoticeType DEF TaskOK, Kinds
<1>2. /\ h \in Task /\ h.pending = <<>> /\ h.done /\ h.phase = "drain"
      /\ host[t].pending = <<>> => h.buffered = Append(<<>>, Notice(k))
      /\ host[t].pending # <<>> => h.buffered = Append(Append(<<>>, Batch(host[t].pending)), Notice(k))
      /\ h.next = host[t].next /\ h.disc = host[t].disc
  BY <1>1, TerminateFacts
<1>3. ~relay_message_is_terminal(Batch(host[t].pending)) /\ Batch(host[t].pending) \in Message
  BY BatchFacts, BatchType DEF TaskOK
<1>4. \A i \in DOMAIN h.buffered : relay_message_is_terminal(h.buffered[i]) => i = Len(h.buffered)
  <2>1. PICK m \in Message : m = Notice(k)
    BY <1>1
  <2>2. PICK c \in Message : c = Batch(host[t].pending)
    BY <1>3
  <2>3. ~relay_message_is_terminal(c)
    BY <1>3, <2>2
  <2>4. CASE h.buffered = Append(<<>>, m)
    BY <2>4
  <2>5. CASE h.buffered = Append(Append(<<>>, c), m)
    <3>1. Len(h.buffered) = 2 /\ DOMAIN h.buffered = 1..2 /\ h.buffered[1] = c
      BY <2>5
    <3> QED
      BY <2>3, <3>1
  <2> QED
    BY <1>2, <2>1, <2>2, <2>4, <2>5
<1>5. TaskOK(h)
  BY <1>1, <1>2, <1>4, InEmpty DEF TaskOK
<1> QED
  BY <1>2, <1>5, ConstantsType DEF Sound

\* The upstream yields a chunk.
LEMMA UpstreamChunkSound ==
  ASSUME TypeOK, TasksOK, NEW t \in Tasks, UpstreamChunk(t)
  PROVE  \E h : /\ Becomes(t, h) /\ Sound(h) /\ h.phase = "drain" /\ h.next = host[t].next + 1
                /\ \/ /\ h.pending = Append(host[t].pending, host[t].next)
                      /\ h.buffered = <<>>
                   \/ /\ h.pending = <<>>
                      /\ h.buffered = Append(<<>>, Batch(Append(host[t].pending, host[t].next)))
<1> USE TaskFacts
<1>1. /\ host[t].phase = "relay" /\ host[t].buffered = <<>> /\ ~host[t].disc /\ ~host[t].done
      /\ host[t].next \in 1..LastChunk
  BY ConstantsType DEF UpstreamChunk, Selecting, TaskOK
<1>2. PICK p : p = Append(host[t].pending, host[t].next)
  OBVIOUS
<1>3. p \in Seq(1..LastChunk) /\ Len(p) \in Nat /\ p # <<>> /\ In(p) = In(host[t].pending) \cup {host[t].next}
  BY <1>1, <1>2, InAppend
<1>4. PICK d : d = (host[t].next = LastChunk)
  OBVIOUS
<1>5. d \in BOOLEAN
  BY <1>4
<1>6. PICK g : g = [host[t] EXCEPT !.pending = p, !.next = host[t].next + 1, !.done = d, !.phase = "drain"]
  OBVIOUS
<1>7. /\ g \in Task /\ g.pending = p /\ g.next = host[t].next + 1 /\ g.phase = "drain"
      /\ g.done = d /\ g.disc = host[t].disc /\ g.buffered = <<>>
  <2>1. PICK n : n = host[t].next + 1
    OBVIOUS
  <2>2. n \in 1..(LastChunk + 1)
    BY <1>1, <2>1, ConstantsType
  <2>3. g = [host[t] EXCEPT !.pending = p, !.next = n, !.done = d, !.phase = "drain"]
    BY <1>6, <2>1
  <2> QED
    BY <1>1, <1>3, <1>5, <2>1, <2>2, <2>3 DEF Task
<1>8. Becomes(t, IF g.done \/ Len(g.pending) >= BatchSize THEN flush_batch(g) ELSE g)
  BY <1>2, <1>4, <1>6 DEF UpstreamChunk
<1>9. CASE g.done \/ Len(g.pending) >= BatchSize
  <2>1. PICK h : h = flush_batch(g)
    OBVIOUS
  <2>2. /\ h \in Task /\ h.pending = <<>> /\ h.buffered = Append(<<>>, Batch(p))
        /\ h.next = g.next /\ h.done = g.done /\ h.disc = g.disc /\ h.phase = g.phase
    BY <1>3, <1>7, <2>1, FlushFacts
  <2>3. Batch(p) \in Message /\ (relay_message_is_terminal(Batch(p)) => LastChunk \in In(p))
    BY <1>3, BatchType, BatchFacts
  <2>4. LastChunk \in In(p) => g.done
    BY <1>3, <1>4, <1>7 DEF TaskOK
  <2>5. PICK m \in Message : m = Batch(p)
    BY <2>3
  <2>6. \A i \in DOMAIN Append(<<>>, m) : i = Len(Append(<<>>, m)) /\ Append(<<>>, m)[i] = m
    OBVIOUS
  <2>7. TaskOK(h)
    BY <1>1, <1>7, <2>2, <2>3, <2>4, <2>5, <2>6, InEmpty DEF TaskOK
  <2>8. Becomes(t, h)
    BY <1>8, <1>9, <2>1
  <2> QED
    BY <1>2, <1>7, <2>2, <2>7, <2>8, ConstantsType DEF Sound
<1>10. CASE ~(g.done \/ Len(g.pending) >= BatchSize)
  <2>1. TaskOK(g)
    BY <1>1, <1>3, <1>4, <1>7, <1>10 DEF TaskOK
  <2>2. Becomes(t, g)
    BY <1>8, <1>10
  <2> QED
    BY <1>2, <1>3, <1>7, <1>10, <2>1, <2>2, ConstantsType DEF Sound
<1> QED
  BY <1>9, <1>10

\* BATCH_FLUSH_INTERVAL passes.
LEMMA BatchFlushedSound ==
  ASSUME TypeOK, TasksOK, NEW t \in Tasks, BatchFlushed(t)
  PROVE  \E h : /\ Becomes(t, h) /\ Sound(h) /\ h.phase = "drain" /\ h.next = host[t].next
                /\ h.pending = <<>> /\ h.buffered = Append(<<>>, Batch(host[t].pending))
<1> USE TaskFacts
<1>1. /\ host[t].phase = "relay" /\ host[t].buffered = <<>> /\ ~host[t].disc /\ ~host[t].done
      /\ host[t].pending # <<>>
  BY DEF BatchFlushed, Selecting, TaskOK
<1>2. PICK f : f = flush_batch(host[t])
  OBVIOUS
<1>3. /\ f \in Task /\ f.pending = <<>> /\ f.buffered = Append(<<>>, Batch(host[t].pending))
      /\ f.next = host[t].next /\ f.done = host[t].done /\ f.disc = host[t].disc
  BY <1>1, <1>2, FlushFacts
<1>4. PICK h : h = [f EXCEPT !.phase = "drain"]
  OBVIOUS
<1>5. /\ h \in Task /\ h.pending = <<>> /\ h.buffered = Append(<<>>, Batch(host[t].pending))
      /\ h.next = host[t].next /\ h.done = host[t].done /\ h.disc = host[t].disc /\ h.phase = "drain"
  BY <1>3, <1>4 DEF Task
<1>6. PICK m \in Message : m = Batch(host[t].pending) /\ ~relay_message_is_terminal(m)
  BY BatchType, BatchFacts DEF TaskOK
<1>7. \A i \in DOMAIN Append(<<>>, m) : i = Len(Append(<<>>, m)) /\ Append(<<>>, m)[i] = m
  OBVIOUS
<1>8. TaskOK(h)
  BY <1>1, <1>5, <1>6, <1>7, InEmpty DEF TaskOK
<1>9. Becomes(t, h)
  BY <1>2, <1>4 DEF BatchFlushed
<1> QED
  BY <1>5, <1>8, <1>9, ConstantsType DEF Sound

\* A heartbeat is buffered.
LEMMA HeartbeatSound ==
  ASSUME TypeOK, TasksOK, NEW t \in Tasks, Heartbeat(t)
  PROVE  \E h : /\ Becomes(t, h) /\ Sound(h) /\ h.phase = "drain" /\ h.next = host[t].next
                /\ h.pending = host[t].pending
                /\ h.buffered = Append(<<>>, Notice("heartbeat"))
<1> USE TaskFacts
<1>1. /\ host[t].phase = "relay" /\ host[t].buffered = <<>> /\ ~host[t].disc /\ ~host[t].done
  BY DEF Heartbeat, Selecting, TaskOK
<1>2. PICK m \in Message : m = Notice("heartbeat") /\ ~relay_message_is_terminal(m)
  BY NoticeType, NoticeFacts DEF Kinds
<1>3. PICK b : b = Append(<<>>, m)
  OBVIOUS
<1>4. b \in Seq(Message) /\ \A i \in DOMAIN b : b[i] = m
  BY <1>3
<1>5. PICK h : h = [host[t] EXCEPT !.buffered = b, !.phase = "drain"]
  OBVIOUS
<1>6. /\ h \in Task /\ h.pending = host[t].pending /\ h.buffered = b /\ h.next = host[t].next
      /\ h.done = host[t].done /\ h.disc = host[t].disc /\ h.phase = "drain"
  BY <1>4, <1>5 DEF Task
<1>7. TaskOK(h)
  BY <1>1, <1>2, <1>4, <1>6 DEF TaskOK
<1>8. Becomes(t, h)
  BY <1>1, <1>2, <1>3, <1>5 DEF Heartbeat
<1> QED
  BY <1>2, <1>3, <1>6, <1>7, <1>8 DEF Sound

\* The steps that leave what the task holds.
LEMMA IdleSound ==
  ASSUME TypeOK, TasksOK, NEW t \in Tasks,
         \/ UpstreamOpens(t) \/ UpstreamEnds(t) \/ RelayFails(t) \/ RelayAckLost(t) \/ Reconnected(t)
         \/ UpstreamRefuses(t) \/ ReconnectGivesUp(t) \/ Drained(t)
  PROVE  Running(t) /\
         \E h : /\ Becomes(t, h) /\ h \in Task /\ (Sound(h) \/ h.phase = "gone") /\ h.phase # "none"
                /\ h.next = host[t].next /\ h.pending = host[t].pending
                /\ h.buffered = host[t].buffered
                /\ h.phase = "gone" /\ ~ReconnectGivesUp(t) => h.buffered = <<>> /\ h.pending = <<>>
<1> USE TaskFacts
<1>1. CASE UpstreamOpens(t)
  <2>1. PICK h : h = [host[t] EXCEPT !.phase = "relay"]
    OBVIOUS
  <2> QED
    BY <1>1, <2>1 DEF UpstreamOpens, TaskOK, Sound, Task, Running
<1>2. CASE UpstreamEnds(t)
  <2>1. PICK h : h = [host[t] EXCEPT !.done = TRUE, !.phase = "drain"]
    OBVIOUS
  <2> QED
    <3>1. Becomes(t, h) /\ host[t].phase = "relay" /\ host[t].pending = <<>>
          /\ host[t].buffered = <<>>
      BY <1>2, <2>1 DEF UpstreamEnds, Selecting, TaskOK
    <3>2. h \in Task /\ h.phase = "drain" /\ h.buffered = host[t].buffered /\ h.done
          /\ h.pending = host[t].pending /\ h.next = host[t].next
      BY <2>1 DEF Task
    <3>3. Sound(h)
      BY <3>1, <3>2 DEF Sound, TaskOK
    <3> QED
      BY <3>1, <3>2, <3>3 DEF Running
<1>3. CASE RelayFails(t) \/ RelayAckLost(t)
  <2>1. PICK h : h = [host[t] EXCEPT !.disc = TRUE]
    OBVIOUS
  <2>2. Becomes(t, h) /\ host[t].phase = "drain"
    BY <1>3, <2>1 DEF RelayFails, RelayAckLost, Relaying
  <2>3. h \in Task /\ h.phase = "drain" /\ h.buffered = host[t].buffered /\ h.done = host[t].done
        /\ h.pending = host[t].pending /\ h.next = host[t].next
    BY <2>1, <2>2 DEF Task
  <2>4. Sound(h)
    BY <2>2, <2>3 DEF Sound, TaskOK
  <2> QED
    BY <2>2, <2>3, <2>4 DEF Running
<1>4. CASE Reconnected(t)
  <2>1. PICK h : h = [host[t] EXCEPT !.disc = FALSE, !.unacked = 0]
    OBVIOUS
  <2>2. Becomes(t, h) /\ host[t].phase = "drain"
    BY <1>4, <2>1 DEF Reconnected, Reconnecting
  <2>3. h \in Task /\ h.phase = "drain" /\ h.buffered = host[t].buffered /\ h.done = host[t].done
        /\ h.pending = host[t].pending /\ h.next = host[t].next
    <3>1. 0 \in 0..AckWindow
      BY ConstantsType
    <3> QED
      BY <2>1, <2>2, <3>1 DEF Task
  <2>4. Sound(h)
    BY <2>2, <2>3 DEF Sound, TaskOK
  <2> QED
    BY <2>2, <2>3, <2>4 DEF Running
<1>5. CASE UpstreamRefuses(t)
  <2>1. PICK h : h = [host[t] EXCEPT !.phase = "gone"]
    OBVIOUS
  <2> QED
    BY <1>5, <2>1 DEF UpstreamRefuses, TaskOK, Task, Running
<1>6. CASE ReconnectGivesUp(t)
  <2>1. PICK h : h = [host[t] EXCEPT !.phase = "gone"]
    OBVIOUS
  <2> QED
    BY <1>6, <2>1 DEF ReconnectGivesUp, Reconnecting, Task, Running
<1>7. CASE Drained(t)
  <2>1. PICK p : p = IF host[t].done /\ host[t].pending = <<>> THEN "gone" ELSE "relay"
    OBVIOUS
  <2>2. PICK h : h = [host[t] EXCEPT !.phase = p]
    OBVIOUS
  <2>3. Becomes(t, h) /\ host[t].phase = "drain" /\ ~host[t].disc /\ host[t].buffered = <<>>
    BY <1>7, <2>1, <2>2 DEF Drained
  <2>4. /\ p \in {"gone", "relay"}
        /\ p = "gone" => host[t].pending = <<>>
        /\ p = "relay" => ~host[t].done
    BY <2>1 DEF TaskOK
  <2>5. h \in Task /\ h.phase = p /\ h.buffered = host[t].buffered /\ h.done = host[t].done
        /\ h.pending = host[t].pending /\ h.next = host[t].next /\ h.disc = host[t].disc
    BY <2>2, <2>4 DEF Task
  <2>6. p = "relay" => Sound(h)
    BY <2>3, <2>4, <2>5 DEF Sound, TaskOK
  <2> QED
    BY <2>3, <2>4, <2>5, <2>6 DEF Running
<1> QED
  BY <1>1, <1>2, <1>3, <1>4, <1>5, <1>6, <1>7

-----------------------------------------------------------------------------
(***************************************************************************)
(* Every step keeps the types, what tasks hold, and their entries.         *)
(***************************************************************************)
\* The tasks and their entries.
HostOK ==
    /\ host \in [Tasks -> Task] /\ \A t \in Tasks : Len(host[t].pending) < BatchSize
    /\ entry \in Tasks \cup {0} /\ expired \in BOOLEAN /\ cancelled \subseteq Tasks
    /\ \A t \in Tasks : TaskOK(host[t])
    /\ \A t \in Tasks : t > client.requests => ~Started(t)
    /\ "retried" \in marks \/ ~Started(1) \/ ~Started(2)
    /\ RunningIsTracked

\* What is left of Base.
RestOK ==
    /\ up \in BOOLEAN
    /\ wire \in Seq(Message) /\ Len(wire) <= WireBound
    /\ request \in RequestType /\ Len(request.replay) <= ReplaySize /\ RouterOK
    /\ channel \in Seq(Message) /\ Len(channel) <= ChannelSize
    /\ client \in [phase : {"setup", "open"} \cup Over, requests : 0..2, disc : BOOLEAN]
    /\ received \in Seq(1..LastChunk)
    /\ faults \in 0..MaxFaults
    /\ marks \subseteq {"lost", "overflow", "resent", "retried"}

\* Before the first request reaches the host nothing is on its way.
Untouched == (\A t \in Tasks : ~Started(t)) => received = <<>> /\ channel = <<>> /\ wire = <<>>

\* The three parts of Base that steps disturb separately.
LEMMA BaseParts == Base <=> HostOK /\ RestOK /\ Untouched
  BY DEF Base, HostOK, RestOK, Untouched, TypeOK, TasksOK, RequestType

\* A task becomes h: the other task, and the entry, stay in order.
LEMMA BecomesKeeps ==
  ASSUME HostOK, NEW t \in Tasks, Running(t), NEW h \in Task, h.phase # "none",
         Sound(h) \/ h.phase = "gone", Becomes(t, h), client' = client, marks \subseteq marks',
         "retried" \in marks' => "retried" \in marks
  PROVE  /\ HostOK' /\ Started(t)'
         /\ host' \in [Tasks -> Task]
         /\ \A u \in Tasks \ {t} : host'[u] = host[u]
         /\ h.phase # "gone" => host'[t] = h
         /\ h.phase = "gone" => /\ host'[t].phase = "gone" /\ host'[t].buffered = <<>>
                                /\ host'[t].pending = <<>> /\ host'[t].next = h.next
<1>1. PICK g : g = IF h.phase = "gone" THEN Gone(h) ELSE h
  OBVIOUS
<1>2. host \in [Tasks -> Task] /\ host' = [host EXCEPT ![t] = g]
  BY <1>1 DEF HostOK, Becomes
<1>3. /\ Sound(g) /\ g.phase # "none" /\ (g.phase = "gone" <=> h.phase = "gone")
      /\ h.phase # "gone" => g = h
      /\ h.phase = "gone" => g.buffered = <<>> /\ g.pending = <<>> /\ g.next = h.next
  BY <1>1, GoneSound
<1>4. g \in Task /\ Len(g.pending) < BatchSize /\ TaskOK(g)
  BY <1>3 DEF Sound
<1>5. host'[t] = g /\ \A u \in Tasks \ {t} : host'[u] = host[u]
  BY <1>2
<1>6. host' \in [Tasks -> Task]
  BY <1>2, <1>4
<1>7. \A u \in Tasks : Len(host'[u].pending) < BatchSize /\ TaskOK(host'[u])
  BY <1>4, <1>5 DEF HostOK
<1>8. \A u \in Tasks : Started(u)' <=> Started(u)
  BY <1>3, <1>5 DEF Started, Running
<1>9. entry' = IF g.phase = "gone" THEN 0 ELSE entry
  BY <1>3 DEF Becomes
<1>10. g.phase \in {"opening", "relay", "drain", "gone"}
  BY <1>3, <1>4 DEF Task
<1>11. Running(t)' <=> g.phase # "gone"
  BY <1>5, <1>10 DEF Running
<1>12. \A u \in Tasks \ {t} : Running(u)' <=> Running(u)
  BY <1>5 DEF Running
<1>13. Tasks = {1, 2}
  BY DEF Tasks
<1>14. \A u \in Tasks : Running(u) => Started(u)
  BY DEF Running, Started
<1>15. RunningIsTracked'
  <2>1. "retried" \notin marks => \A u \in Tasks \ {t} : ~Running(u)
    BY <1>13, <1>14 DEF HostOK
  <2>2. \A u \in Tasks : entry' = u => Running(u)'
    <3>1. \A u \in Tasks : u # 0
      BY <1>13
    <3> QED
      BY <1>9, <1>11, <1>12, <3>1 DEF HostOK, RunningIsTracked
  <2>3. ASSUME "retried" \notin marks', NEW u \in Tasks, Running(u)' PROVE entry' = u
    <3>1. "retried" \notin marks
      BY <2>3
    <3>2. u = t
      BY <1>12, <2>1, <2>3, <3>1
    <3> QED
      BY <1>9, <1>11, <2>3, <3>1, <3>2 DEF HostOK, RunningIsTracked
  <2> QED
    BY <2>2, <2>3 DEF RunningIsTracked
<1>16. entry' \in Tasks \cup {0} /\ expired' \in BOOLEAN /\ cancelled' \subseteq Tasks
  BY <1>9 DEF HostOK, Becomes
<1>17. "retried" \in marks' \/ ~Started(1)' \/ ~Started(2)'
  BY <1>8, <1>13 DEF HostOK
<1>18. \A u \in Tasks : u > client'.requests => ~Started(u)'
  BY <1>8 DEF HostOK
<1>19. Started(t)'
  BY <1>3, <1>5 DEF Started
<1> QED
  BY <1>3, <1>5, <1>6, <1>7, <1>15, <1>16, <1>17, <1>18, <1>19 DEF HostOK

\* The tasks and their entries after a step of a task.
LEMMA TaskStepHost ==
  ASSUME Base, NEW t \in Tasks, UpstreamOpens(t) \/ UpstreamRefuses(t) \/ Select(t) \/ Drain(t)
  PROVE  HostOK' /\ \E u \in Tasks : Started(u)'
<1>0. HostOK /\ TypeOK /\ TasksOK /\ RouterOK
  BY BaseParts DEF Base
<1>1. client' = client /\ marks \subseteq marks' /\ ("retried" \in marks' => "retried" \in marks)
  <2>1. \A m \in Message : "retried" \notin deliver_or_buffer(m).mark
    BY <1>0, RouteType
  <2>2. CASE RelayAcked(t) \/ RelayAckLost(t)
    <3>1. Front(t) \in Message
      BY <1>0, <2>2, TaskFacts, HeadTail DEF RelayAcked, RelayAckLost, Relaying, Front
    <3> QED
      BY <2>1, <2>2, <3>1 DEF RelayAcked, RelayAckLost, Relaying, clientVars
  <2>3. CASE Reconnected(t)
    <3>1. Notice("reconnected") \in Message
      BY NoticeType DEF Kinds
    <3> QED
      BY <2>1, <2>3, <3>1 DEF Reconnected, Reconnecting, clientVars
  <2>4. CASE UpstreamOpens(t) \/ UpstreamRefuses(t) \/ Select(t)
    BY <2>4 DEF UpstreamOpens, UpstreamRefuses, Select, Cancelled, LeaseFoundExpired, Heartbeat,
                UpstreamChunk, BatchFlushed, UpstreamEnds, UpstreamFails, Selecting, clientVars
  <2>5. CASE RelayUnacked(t) \/ RelayFails(t) \/ ReconnectGivesUp(t) \/ Drained(t)
    BY <2>5 DEF RelayUnacked, RelayFails, ReconnectGivesUp, Drained, Relaying, Reconnecting, clientVars
  <2> QED
    BY <2>2, <2>3, <2>4, <2>5 DEF Drain
<1>2. CASE \/ UpstreamOpens(t) \/ UpstreamEnds(t) \/ RelayFails(t) \/ RelayAckLost(t)
           \/ Reconnected(t) \/ UpstreamRefuses(t) \/ ReconnectGivesUp(t) \/ Drained(t)
  <2>1. PICK h : Becomes(t, h) /\ h \in Task /\ (Sound(h) \/ h.phase = "gone") /\ h.phase # "none"
    BY <1>0, <1>2, IdleSound
  <2>2. Running(t)
    BY <1>0, <1>2, IdleSound
  <2> QED
    BY <1>0, <1>1, <2>1, <2>2, BecomesKeeps
<1>3. CASE RelayUnacked(t) \/ RelayAcked(t)
  <2>1. PICK a \in BOOLEAN : Becomes(t, Relayed(t, a)) /\ a \in should_ack(Front(t), host[t].unacked)
    BY <1>3 DEF RelayUnacked, RelayAcked
  <2>2. PICK h : h = Relayed(t, a)
    OBVIOUS
  <2>3. Relaying(t) /\ Running(t)
    BY <1>3 DEF RelayUnacked, RelayAcked, Relaying, Running
  <2>4. h \in Task /\ h.phase # "none" /\ (Sound(h) \/ h.phase = "gone")
    BY <1>0, <2>1, <2>2, <2>3, RelayedSound
  <2> QED
    BY <1>0, <1>1, <2>1, <2>2, <2>3, <2>4, BecomesKeeps
<1>4. CASE Cancelled(t) \/ UpstreamFails(t)
  <2>1. PICK k \in {"provider_error", "failed"} : Becomes(t, Terminate(host[t], Notice(k)))
    BY <1>4 DEF Cancelled, UpstreamFails
  <2>2. PICK h : h = Terminate(host[t], Notice(k))
    OBVIOUS
  <2>3. host[t].phase = "relay" /\ Running(t)
    BY <1>4 DEF Cancelled, UpstreamFails, Selecting, Running
  <2>4. Sound(h) /\ h.phase = "drain"
    BY <1>0, <2>2, <2>3, TerminateSound
  <2>5. h \in Task
    BY <2>4 DEF Sound
  <2> QED
    BY <1>0, <1>1, <2>1, <2>2, <2>3, <2>4, <2>5, BecomesKeeps
<1>5. CASE Heartbeat(t) \/ UpstreamChunk(t) \/ BatchFlushed(t)
  <2>1. PICK h : Becomes(t, h) /\ Sound(h) /\ h.phase = "drain"
    BY <1>0, <1>5, HeartbeatSound, UpstreamChunkSound, BatchFlushedSound
  <2>2. h \in Task
    BY <2>1 DEF Sound
  <2>3. Running(t)
    BY <1>5 DEF Heartbeat, UpstreamChunk, BatchFlushed, Selecting, Running
  <2> QED
    BY <1>0, <1>1, <2>1, <2>2, <2>3, BecomesKeeps
<1>6. CASE LeaseFoundExpired(t)
  <2>1. host' = host /\ entry' = entry /\ expired' = expired /\ marks' = marks /\ Started(t)
        /\ cancelled' = cancelled \cup {entry} /\ entry # 0
    BY <1>6 DEF LeaseFoundExpired, Selecting, Started
  <2> QED
    BY <1>0, <1>1, <2>1 DEF HostOK, RunningIsTracked, Running, Started
<1> QED
  BY <1>2, <1>3, <1>4, <1>5, <1>6 DEF Select, Drain

\* The other types after a step of a task.
LEMMA TaskStepRest ==
  ASSUME Base, NEW t \in Tasks, UpstreamOpens(t) \/ UpstreamRefuses(t) \/ Select(t) \/ Drain(t)
  PROVE  RestOK'
<1>0. RestOK /\ TypeOK /\ TasksOK /\ RouterOK
  BY BaseParts DEF Base
<1>1. ASSUME NEW m \in Message, Route(m)
      PROVE  /\ request' \in RequestType /\ Len(request'.replay) <= ReplaySize /\ RouterOK'
             /\ channel' \in Seq(Message) /\ Len(channel') <= ChannelSize
             /\ deliver_or_buffer(m).mark \subseteq {"overflow"}
  <2>1. PICK to : to = deliver_or_buffer(m)
    OBVIOUS
  <2>2. request' = to.request /\ channel' = to.channel
    BY <1>1, <2>1 DEF Route
  <2> QED
    BY <1>0, <2>1, <2>2, RouteType DEF RouterOK
<1>2. ASSUME NEW m \in Message, Len(wire) < WireBound
      PROVE  Append(wire, m) \in Seq(Message) /\ Len(Append(wire, m)) <= WireBound
  <2>1. wire \in Seq(Message) /\ Len(wire) \in Nat
    BY <1>0 DEF RestOK
  <2>2. Append(wire, m) \in Seq(Message) /\ Len(Append(wire, m)) = Len(wire) + 1
    BY <2>1
  <2> QED
    BY <1>2, <2>1, <2>2, ConstantsType
<1>3. ASSUME Relaying(t) PROVE Front(t) \in Message
  BY <1>0, <1>3, TaskFacts, HeadTail DEF Relaying, Front
<1>4. \A k \in Kinds : Notice(k) \in Message
  BY NoticeType
<1>5. faults < MaxFaults => faults + 1 \in 0..MaxFaults
  BY <1>0, ConstantsType DEF RestOK
<1> HIDE DEF deliver_or_buffer
<1>6. CASE UpstreamRefuses(t)
  BY <1>0, <1>2, <1>4, <1>6 DEF UpstreamRefuses, RestOK, RouterOK, routerVars, clientVars, Kinds
<1>7. CASE RelayUnacked(t)
  <2>1. Relaying(t) /\ Front(t) \in Message
    BY <1>3, <1>7 DEF RelayUnacked
  <2> QED
    BY <1>0, <1>2, <1>7, <2>1 DEF RelayUnacked, Relaying, RestOK, RouterOK, routerVars, clientVars
<1>8. CASE RelayAcked(t)
  <2>1. Relaying(t) /\ Front(t) \in Message
    BY <1>3, <1>8 DEF RelayAcked
  <2> QED
    BY <1>0, <1>1, <1>8, <2>1 DEF RelayAcked, Relaying, RestOK, clientVars
<1>9. CASE RelayAckLost(t)
  <2>1. Relaying(t) /\ Front(t) \in Message
    BY <1>3, <1>9 DEF RelayAckLost
  <2>2. wire' \in Seq(Message) /\ Len(wire') <= WireBound
    <3>1. PICK m \in Message : m = Notice("disconnected")
      BY <1>4 DEF Kinds
    <3>2. wire' = <<m>>
      BY <1>9, <3>1 DEF RelayAckLost
    <3> QED
      BY <3>2, ConstantsType
  <2> QED
    BY <1>0, <1>1, <1>5, <1>9, <2>1, <2>2 DEF RelayAckLost, Relaying, RestOK, clientVars
<1>10. CASE Reconnected(t)
  <2>1. Notice("reconnected") \in Message
    BY <1>4 DEF Kinds
  <2> QED
    BY <1>0, <1>1, <1>10, <2>1 DEF Reconnected, Reconnecting, RestOK, clientVars
<1>11. CASE UpstreamOpens(t) \/ Select(t)
  BY <1>0, <1>11 DEF UpstreamOpens, Select, Cancelled, LeaseFoundExpired, Heartbeat, UpstreamChunk,
                     BatchFlushed, UpstreamEnds, UpstreamFails, Selecting, RestOK, RouterOK,
                     routerVars, clientVars
<1>12. CASE RelayFails(t) \/ ReconnectGivesUp(t) \/ Drained(t)
  BY <1>0, <1>12 DEF RelayFails, ReconnectGivesUp, Drained, Relaying, Reconnecting, RestOK, RouterOK,
                     routerVars, clientVars
<1> QED
  BY <1>6, <1>7, <1>8, <1>9, <1>10, <1>11, <1>12 DEF Drain

\* A request reaches the host: a task that was never started starts.
LEMMA StartTaskHost ==
  ASSUME Base, client.requests < 2, StartTask, client'.requests = client.requests + 1,
         marks' = marks \cup RetryMark
  PROVE  /\ HostOK' /\ \E u \in Tasks : Started(u)'
         /\ \E t \in Tasks : /\ ~Started(t) /\ Started(t)' /\ host[t] = NoTask
                             /\ host'[t] = [NoTask EXCEPT !.phase = "opening"]
                             /\ \A u \in Tasks \ {t} : host'[u] = host[u]
                             /\ "retried" \notin marks' => \A u \in Tasks : ~Started(u)
<1>0. HostOK /\ TypeOK /\ TasksOK
  BY BaseParts DEF Base
<1>1. PICK t : t = client.requests + 1
  OBVIOUS
<1>2. client.requests \in 0..2 /\ Tasks = {1, 2}
  BY <1>0 DEF TypeOK, Tasks
<1>3. t \in Tasks /\ t > client.requests /\ client'.requests = t
  BY <1>1, <1>2
<1>4. ~Started(t) /\ host[t] = NoTask
  BY <1>0, <1>3 DEF HostOK, Started, TaskOK
<1>5. PICK g : g = [NoTask EXCEPT !.phase = "opening"]
  OBVIOUS
<1>6. g.phase = "opening" /\ Sound(g)
  <2>1. NoTask \in Task
    BY NoTaskSound DEF Sound
  <2>2. /\ g \in Task /\ g.phase = "opening" /\ g.pending = NoTask.pending /\ g.done = NoTask.done
        /\ g.buffered = NoTask.buffered /\ g.disc = NoTask.disc
    BY <1>5, <2>1 DEF Task
  <2> QED
    BY <2>2, ConstantsType, InEmpty DEF NoTask, Sound, TaskOK
<1>7. host \in [Tasks -> Task] /\ host' = [host EXCEPT ![t] = g]
  BY <1>0, <1>1, <1>3, <1>4, <1>5 DEF HostOK, StartTask
<1>8. host'[t] = g /\ \A u \in Tasks \ {t} : host'[u] = host[u]
  BY <1>3, <1>7
<1>9. host' \in [Tasks -> Task]
  BY <1>6, <1>7 DEF Sound
<1>10. \A u \in Tasks : Len(host'[u].pending) < BatchSize /\ TaskOK(host'[u])
  BY <1>0, <1>6, <1>8 DEF HostOK, Sound
<1>11. Started(t)' /\ Running(t)' /\ \A u \in Tasks \ {t} : Started(u)' <=> Started(u)
  BY <1>6, <1>8 DEF Started, Running
<1>12. \A u \in Tasks : u > client'.requests => ~Started(u)'
  BY <1>0, <1>2, <1>3, <1>11 DEF HostOK
<1>13. \A u \in Tasks \ {t} : Started(u) => "retried" \in marks'
  <2> SUFFICES ASSUME NEW u \in Tasks \ {t}, Started(u) PROVE "retried" \in marks'
    OBVIOUS
  <2>1. ~(u > client.requests)
    BY <1>0 DEF HostOK
  <2>2. u = 1
    BY <1>1, <1>2, <2>1
  <2> QED
    BY <2>2 DEF RetryMark, Started
<1>14. entry' = t /\ expired' = FALSE /\ cancelled' = cancelled
  BY <1>1 DEF StartTask
<1>15. RunningIsTracked'
  <2>1. \A u \in Tasks \ {t} : Running(u)' => Started(u)
    BY <1>8 DEF Running, Started
  <2> QED
    BY <1>11, <1>13, <1>14, <2>1 DEF RunningIsTracked
<1>16. "retried" \in marks' \/ ~Started(1)' \/ ~Started(2)'
  BY <1>2, <1>3, <1>11, <1>13
<1>17. HostOK'
  BY <1>0, <1>3, <1>9, <1>10, <1>12, <1>14, <1>15, <1>16 DEF HostOK
<1> QED
  BY <1>3, <1>4, <1>5, <1>8, <1>11, <1>13, <1>17

\* The tasks and their entries after the other steps.
LEMMA OtherStepHost ==
  ASSUME Base, RouterReceives \/ ExpireRequest \/ Client \/ Environment
  PROVE  HostOK' /\ \A u \in Tasks : Started(u) => Started(u)'
<1>0. HostOK /\ TypeOK /\ TasksOK /\ RouterOK
  BY BaseParts DEF Base
<1>1. CASE RequestAcked \/ RequestAckLost
  <2>1. client \in [phase : {"setup", "open"} \cup Over, requests : 0..2, disc : BOOLEAN]
    BY <1>0 DEF TypeOK
  <2>2. client.requests < 2 /\ StartTask /\ client'.requests = client.requests + 1
        /\ marks' = marks \cup RetryMark
    BY <1>1, <2>1 DEF RequestAcked, RequestAckLost
  <2> QED
    BY <2>2, StartTaskHost DEF Started
<1>2. ASSUME UNCHANGED <<host, leaseVars>>, client'.requests >= client.requests,
             client'.requests \in Nat, "retried" \in marks' <=> "retried" \in marks
      PROVE  HostOK' /\ \A u \in Tasks : Started(u) => Started(u)'
  <2>1. client.requests \in Nat /\ \A u \in Tasks : u \in Nat
    BY <1>0 DEF TypeOK, Tasks
  <2> QED
    BY <1>0, <1>2, <2>1 DEF HostOK, leaseVars, RunningIsTracked, Running, Started
<1>3. client.requests \in Nat
  BY <1>0 DEF TypeOK
<1>4. CASE RouterReceives
  <2>1. Head(wire) \in Message
    BY <1>0, <1>4, HeadTail DEF RouterReceives, TypeOK
  <2>2. "retried" \notin deliver_or_buffer(Head(wire)).mark
    BY <1>0, <2>1, RouteType
  <2>3. UNCHANGED <<host, leaseVars>> /\ client' = client
        /\ marks' = marks \cup deliver_or_buffer(Head(wire)).mark
    BY <1>4 DEF RouterReceives, clientVars
  <2> QED
    BY <1>2, <1>3, <2>2, <2>3
<1>5. CASE ExpireRequest \/ ChannelClosed \/ SetupFails \/ ReconnectTimesOut \/ Drop \/ LinkUp
  <2>1. UNCHANGED <<host, leaseVars, marks>> /\ client'.requests = client.requests
    BY <1>0, <1>5 DEF ExpireRequest, ChannelClosed, SetupFails, ReconnectTimesOut, Drop, LinkUp,
                      clientVars, TypeOK
  <2> QED
    BY <1>2, <1>3, <2>1
<1>6. CASE RequestLost
  <2>1. UNCHANGED <<host, leaseVars, marks>> /\ client'.requests = client.requests + 1
    BY <1>0, <1>6 DEF RequestLost, TypeOK
  <2> QED
    BY <1>2, <1>3, <2>1
<1>7. CASE Poll
  <2>1. UNCHANGED <<host, leaseVars, marks>> /\ client'.requests = client.requests
    BY <1>0, <1>7 DEF Poll, TypeOK
  <2> QED
    BY <1>2, <1>3, <2>1
<1>8. CASE LinkDown
  <2>1. UNCHANGED <<host, leaseVars>> /\ client' = client
        /\ ("retried" \in marks' <=> "retried" \in marks)
    BY <1>8 DEF LinkDown, clientVars
  <2> QED
    BY <1>2, <1>3, <2>1
<1>9. CASE RenewLease \/ CancelStream \/ LeaseExpires
  <2>1. /\ host' = host /\ entry' = entry /\ client' = client /\ marks' = marks
        /\ expired' \in BOOLEAN /\ cancelled' \subseteq Tasks
    BY <1>0, <1>9 DEF RenewLease, CancelStream, LeaseExpires, clientVars, HostOK
  <2> QED
    BY <1>0, <2>1 DEF HostOK, RunningIsTracked, Running, Started
<1>10. CASE HostCrashes
  <2>1. /\ host' = [t \in Tasks |-> IF Running(t) THEN Gone(host[t]) ELSE host[t]]
        /\ entry' = 0 /\ expired' = expired /\ cancelled' = cancelled /\ client' = client
        /\ marks' = marks \cup {"lost"}
    BY <1>10 DEF HostCrashes, clientVars
  <2>2. \A t \in Tasks : Sound(host[t]) /\ host[t] \in Task
    BY <1>0, TaskFacts
  <2>3. \A t \in Tasks : Sound(Gone(host[t])) /\ Gone(host[t]).phase = "gone"
    BY <2>2, GoneSound
  <2>4. \A t \in Tasks : Sound(host'[t]) /\ ~Running(t)' /\ (Started(t)' <=> Started(t))
    BY <2>1, <2>2, <2>3 DEF Running, Started
  <2>5. host' \in [Tasks -> Task]
    BY <2>1, <2>2, <2>3 DEF Sound
  <2>6. \A u \in Tasks : u # 0
    BY DEF Tasks
  <2>7. RunningIsTracked'
    BY <2>1, <2>4, <2>6 DEF RunningIsTracked
  <2>8. Tasks = {1, 2}
    BY DEF Tasks
  <2> QED
    BY <1>0, <2>1, <2>4, <2>5, <2>7, <2>8 DEF HostOK, Sound
<1> QED
  BY <1>1, <1>4, <1>5, <1>6, <1>7, <1>8, <1>9, <1>10 DEF Client, Environment

\* The other types after the other steps.
LEMMA OtherStepRest ==
  ASSUME Base, RouterReceives \/ ExpireRequest \/ Client \/ Environment
  PROVE  RestOK'
<1>0. RestOK /\ TypeOK /\ RouterOK
  BY BaseParts DEF Base
<1>1. faults < MaxFaults => faults + 1 \in 0..MaxFaults
  BY <1>0, ConstantsType DEF RestOK
<1>2. client.requests < 2 => client.requests + 1 \in 0..2
  BY <1>0 DEF RestOK
<1>3. /\ <<>> \in Seq(Message) /\ Len(<<>>) <= WireBound /\ Len(<<>>) <= ReplaySize
      /\ Len(<<>>) <= ChannelSize
  BY ConstantsType
<1>4. CASE RouterReceives
  <2>1. Head(wire) \in Message /\ Tail(wire) \in Seq(Message) /\ Len(Tail(wire)) = Len(wire) - 1
        /\ Len(wire) \in Nat
    BY <1>0, <1>4, HeadTail DEF RouterReceives, TypeOK
  <2>2. PICK to : to = deliver_or_buffer(Head(wire))
    OBVIOUS
  <2>3. request' = to.request /\ channel' = to.channel /\ marks' = marks \cup to.mark
        /\ wire' = Tail(wire) /\ UNCHANGED <<up, client, received, faults>>
    BY <1>4, <2>2 DEF RouterReceives, Route, clientVars
  <2>4. /\ to.request \in RequestType /\ Len(to.request.replay) <= ReplaySize
        /\ to.channel \in Seq(Message) /\ Len(to.channel) <= ChannelSize
        /\ to.mark \subseteq {"overflow"}
        /\ to.request.consumer => to.request.known /\ request.consumer
    BY <1>0, <2>1, <2>2, RouteType
  <2>5. Len(wire') <= WireBound
    BY <1>0, <2>1, <2>3, ConstantsType DEF RestOK
  <2> QED
    BY <1>0, <2>1, <2>3, <2>4, <2>5 DEF RestOK, RouterOK
<1>5. CASE ExpireRequest
  <2>1. request' \in RequestType /\ request'.replay = <<>> /\ ~request'.consumer
    <3>1. PICK e \in Seq(Message) : e = <<>>
      BY <1>3
    <3>2. request' = [request EXCEPT !.known = FALSE, !.consumer = FALSE, !.replay = e]
      BY <1>5, <3>1 DEF ExpireRequest
    <3> QED
      BY <1>0, <3>1, <3>2 DEF RestOK, RequestType
  <2>2. UNCHANGED <<up, wire, channel, client, received, faults, marks>>
    BY <1>5 DEF ExpireRequest, clientVars
  <2> QED
    BY <1>0, <1>3, <2>1, <2>2 DEF RestOK, RouterOK
<1>6. CASE RequestAcked \/ RequestAckLost \/ RequestLost
  <2>1. client' \in [phase : {"setup", "open"} \cup Over, requests : 0..2, disc : BOOLEAN]
    BY <1>0, <1>2, <1>6 DEF RequestAcked, RequestAckLost, RequestLost, RestOK, Over
  <2>2. UNCHANGED <<up, wire, request, channel, received>> /\ faults' \in 0..MaxFaults
    BY <1>0, <1>1, <1>6 DEF RequestAcked, RequestAckLost, RequestLost, RestOK, routerVars
  <2>3. marks' \subseteq {"lost", "overflow", "resent", "retried"}
    BY <1>0, <1>6 DEF RequestAcked, RequestAckLost, RequestLost, RestOK, RetryMark
  <2> QED
    BY <1>0, <2>1, <2>2, <2>3 DEF RestOK, RouterOK
<1>7. CASE SetupFails \/ ChannelClosed \/ ReconnectTimesOut \/ Drop
  <2>1. client' \in [phase : {"setup", "open"} \cup Over, requests : 0..2, disc : BOOLEAN]
    BY <1>0, <1>7 DEF SetupFails, ChannelClosed, ReconnectTimesOut, Drop, RestOK, Over
  <2>2. UNCHANGED <<up, wire, request, received, faults, marks>> /\ channel' \in {channel, <<>>}
    BY <1>7 DEF SetupFails, ChannelClosed, ReconnectTimesOut, Drop, routerVars
  <2>3. channel' \in Seq(Message) /\ Len(channel') <= ChannelSize
    BY <1>0, <1>3, <2>2 DEF RestOK
  <2> QED
    BY <1>0, <2>1, <2>2, <2>3 DEF RestOK, RouterOK
<1>8. CASE Poll
  <2>1. PICK m \in Message : m = Head(channel)
    BY <1>0, <1>8, HeadTail DEF Poll, RestOK
  <2>2. Tail(channel) \in Seq(Message) /\ Len(Tail(channel)) <= ChannelSize
    <3>1. Tail(channel) \in Seq(Message) /\ Len(Tail(channel)) = Len(channel) - 1 /\ Len(channel) \in Nat
      BY <1>0, <1>8, HeadTail DEF Poll, RestOK
    <3> QED
      BY <1>0, <3>1, ConstantsType DEF RestOK
  <2>3. m.chunks \in Seq(1..LastChunk)
    BY DEF Message
  <2>4. received' \in Seq(1..LastChunk)
    <3>1. received' = received \o m.chunks /\ received \in Seq(1..LastChunk)
      BY <1>0, <1>8, <2>1 DEF Poll, RestOK
    <3> QED
      BY <2>3, <3>1
  <2>5. PICK p, d : /\ client' = [client EXCEPT !.phase = p, !.disc = d]
                    /\ p \in {"open"} \cup Over /\ d \in BOOLEAN
    <3>1. PICK d : d = (m.kind = "disconnected" \/ (client.disc /\ m.kind # "reconnected"))
      OBVIOUS
    <3>2. PICK p : p = IF HasDone(m) THEN "done"
                       ELSE IF relay_message_is_terminal(m) THEN "error" ELSE "open"
      OBVIOUS
    <3>3. client' = [client EXCEPT !.phase = p, !.disc = d]
      BY <1>8, <2>1, <3>1, <3>2 DEF Poll
    <3>4. p \in {"open"} \cup Over /\ d \in BOOLEAN
      BY <3>1, <3>2 DEF Over
    <3> QED
      BY <3>3, <3>4
  <2>6. client' \in [phase : {"setup", "open"} \cup Over, requests : 0..2, disc : BOOLEAN]
    BY <1>0, <2>5 DEF RestOK
  <2>7. UNCHANGED <<up, wire, request, faults, marks>> /\ channel' \in {Tail(channel), <<>>}
    BY <1>8 DEF Poll
  <2> QED
    <3>1. channel' \in Seq(Message) /\ Len(channel') <= ChannelSize
      BY <1>3, <2>2, <2>7
    <3> QED
      BY <1>0, <2>4, <2>6, <2>7, <3>1 DEF RestOK, RouterOK
<1>9. CASE RenewLease \/ CancelStream \/ LeaseExpires
  <2>1. UNCHANGED <<up, wire, request, channel, client, received, faults, marks>>
    BY <1>9 DEF RenewLease, CancelStream, LeaseExpires, routerVars, clientVars
  <2> QED
    BY <1>0, <2>1 DEF RestOK, RouterOK
<1>10. CASE LinkDown
  <2>1. wire' \in Seq(Message) /\ Len(wire') <= WireBound
    BY <1>3, <1>10 DEF LinkDown
  <2> QED
    BY <1>0, <1>1, <1>10, <2>1 DEF LinkDown, RestOK, RouterOK, routerVars, clientVars
<1>11. CASE LinkUp
  BY <1>0, <1>11 DEF LinkUp, RestOK, RouterOK, routerVars, clientVars
<1>12. CASE HostCrashes
  BY <1>0, <1>1, <1>12 DEF HostCrashes, RestOK, RouterOK, routerVars, clientVars
<1> QED
  BY <1>4, <1>5, <1>6, <1>7, <1>8, <1>9, <1>10, <1>11, <1>12 DEF Client, Environment

\* Every step keeps Base.
LEMMA BaseStep == Base /\ [Next]_vars => Base'
<1> SUFFICES ASSUME Base, [Next]_vars PROVE Base'
  OBVIOUS
<1>0. HostOK /\ RestOK /\ Untouched
  BY BaseParts
<1> SUFFICES HostOK' /\ RestOK' /\ Untouched'
  BY BaseParts, PTL
<1>1. ASSUME NEW t \in Tasks, UpstreamOpens(t) \/ UpstreamRefuses(t) \/ Select(t) \/ Drain(t)
      PROVE  HostOK' /\ RestOK' /\ Untouched'
  BY <1>1, TaskStepHost, TaskStepRest DEF Untouched
<1>2. CASE RouterReceives \/ ExpireRequest \/ Client \/ Environment
  <2>1. HostOK' /\ RestOK' /\ \A u \in Tasks : Started(u) => Started(u)'
    BY <1>2, OtherStepHost, OtherStepRest
  <2>2. ASSUME \A u \in Tasks : ~Started(u)'
        PROVE  received' = <<>> /\ channel' = <<>> /\ wire' = <<>>
    <3>1. received = <<>> /\ channel = <<>> /\ wire = <<>>
      BY <1>0, <2>1, <2>2 DEF Untouched
    <3>2. ~RouterReceives /\ ~Poll
      BY <3>1 DEF RouterReceives, Poll
    <3> QED
      BY <1>2, <3>1, <3>2
         DEF ExpireRequest, Client, RequestAcked, RequestAckLost, RequestLost, SetupFails,
             ChannelClosed, ReconnectTimesOut, Drop, RenewLease, CancelStream, Environment,
             LeaseExpires, LinkDown, LinkUp, HostCrashes, routerVars, clientVars
  <2> QED
    BY <2>1, <2>2 DEF Untouched
<1>3. CASE UNCHANGED vars
  <2>1. UNCHANGED <<host, entry, expired, cancelled, up, wire, request, channel, client, received,
                    faults, marks>>
    BY <1>3 DEF vars, leaseVars, routerVars, clientVars
  <2> QED
    BY <1>0, <2>1 DEF HostOK, RestOK, Untouched, RouterOK, RunningIsTracked, Running, Started
<1> QED
  BY <1>1, <1>2, <1>3 DEF Next

\* Base holds at the start.
LEMMA BaseInit == Init => Base
<1> SUFFICES ASSUME Init PROVE Base
  OBVIOUS
<1>1. Sound(NoTask) /\ NoTask.phase = "none"
  BY NoTaskSound
<1>2. \A t \in Tasks : host[t] = NoTask /\ ~Started(t) /\ ~Running(t) /\ t # 0
  BY <1>1 DEF Init, Started, Running, Tasks
<1>3. host \in [Tasks -> Task]
  BY <1>1 DEF Init, Sound
<1>4. HostOK
  <2>1. RunningIsTracked
    BY <1>2 DEF RunningIsTracked, Init
  <2>2. 1 \in Tasks
    BY DEF Tasks
  <2>3. entry \in Tasks \cup {0} /\ expired \in BOOLEAN /\ cancelled \subseteq Tasks
    BY DEF Init
  <2> QED
    BY <1>1, <1>2, <1>3, <2>1, <2>2, <2>3 DEF HostOK, Sound
<1>5. /\ <<>> \in Seq(Message) /\ Len(<<>>) <= WireBound /\ Len(<<>>) <= ReplaySize
      /\ Len(<<>>) <= ChannelSize /\ <<>> \in Seq(1..LastChunk) /\ 0 \in 0..MaxFaults
  BY ConstantsType
<1>6. RestOK
  BY <1>5 DEF RestOK, Init, RouterOK, RequestType
<1> QED
  BY <1>4, <1>6, BaseParts DEF Init, Untouched

\* Base holds in every reachable state.
LEMMA BaseInvariant == Spec => []Base
  BY BaseInit, BaseStep, PTL DEF Spec

\* Queues, counters and the phases of the tasks, of the request and of the
\* client's stream keep to their types and bounds.
THEOREM RelayTypeCorrect == Spec => []TypeOK
<1>1. Base => TypeOK
  BY DEF Base
<1> QED
  BY <1>1, BaseInvariant, PTL

\* active_streams names running tasks only and, unless the request was sent
\* twice, all of them: remove_active_stream is part of every way a task ends.
THEOREM TasksTracked == Spec => []RunningIsTracked
<1>1. Base => RunningIsTracked
  BY DEF Base
<1> QED
  BY <1>1, BaseInvariant, PTL

-----------------------------------------------------------------------------
(***************************************************************************)
(* The order and the completeness of the chunks on their way.              *)
(***************************************************************************)
\* The chunks of a message.
LEMMA MessageChunks == \A m \in Message : m.chunks \in Seq(1..LastChunk)
  BY DEF Message

\* Chunks are numbers up to LastChunk.
LEMMA InNumbers ==
  /\ \A q : \A k \in In(q) : k \in Nat /\ k <= LastChunk
  /\ \A s : \A k \in Chunks(s) : k \in Nat /\ k <= LastChunk
  BY ConstantsType DEF In, Chunks

\* The router takes a message from the wire.
LEMMA FlowRoute ==
  ASSUME NEW r \in Seq(1..LastChunk), NEW c \in Seq(Message), NEW w \in Seq(Message),
         NEW b \in Seq(Message), NEW p \in Seq(1..LastChunk), NEW n \in Nat, w # <<>>, Flow(r, c, w, b, p, n)
  PROVE  /\ Flow(r, c, Tail(w), b, p, n)
         /\ Flow(r, Append(c, Head(w)), Tail(w), b, p, n)
         /\ Whole(r, c, w, b, p, n) => Whole(r, Append(c, Head(w)), Tail(w), b, p, n)
<1>1. Head(w) \in Message /\ Tail(w) \in Seq(Message)
  BY HeadTail
<1>2. Chunks(w) = In(Head(w).chunks) \cup Chunks(Tail(w))
  BY ChunksTail
<1>3. Chunks(Append(c, Head(w))) = Chunks(c) \cup In(Head(w).chunks)
  BY <1>1, ChunksAppend
<1>4. Inc(Head(w).chunks) /\ IncAll(Tail(w)) /\ Precedes(In(Head(w).chunks), Chunks(Tail(w)))
  BY IncAllTail DEF Flow
<1>5. IncAll(Append(c, Head(w)))
  <2>1. Precedes(Chunks(c), In(Head(w).chunks))
    BY <1>2 DEF Flow, Precedes
  <2> QED
    BY <1>1, <1>4, <2>1, IncAllAppend DEF Flow
<1>6. Flow(r, c, Tail(w), b, p, n)
  BY <1>2, <1>4 DEF Flow, Precedes
<1>7. Flow(r, Append(c, Head(w)), Tail(w), b, p, n)
  BY <1>2, <1>3, <1>4, <1>5 DEF Flow, Precedes
<1> QED
  BY <1>2, <1>3, <1>6, <1>7 DEF Whole

\* A relay task's first message is acknowledged, the wire being empty.
LEMMA FlowAcked ==
  ASSUME NEW r \in Seq(1..LastChunk), NEW c \in Seq(Message), NEW w \in Seq(Message),
         NEW b \in Seq(Message), NEW p \in Seq(1..LastChunk), NEW n \in Nat, b # <<>>, Flow(r, c, w, b, p, n), w = <<>>
  PROVE  /\ Flow(r, c, w, Tail(b), p, n)
         /\ Flow(r, Append(c, Head(b)), w, Tail(b), p, n)
         /\ Whole(r, c, w, b, p, n) => Whole(r, Append(c, Head(b)), w, Tail(b), p, n)
<1>1. Head(b) \in Message /\ Tail(b) \in Seq(Message)
  BY HeadTail
<1>2. Chunks(b) = In(Head(b).chunks) \cup Chunks(Tail(b)) /\ Chunks(w) = {}
  BY ChunksTail, InEmpty
<1>3. Chunks(Append(c, Head(b))) = Chunks(c) \cup In(Head(b).chunks)
  BY <1>1, ChunksAppend
<1>4. Inc(Head(b).chunks) /\ IncAll(Tail(b)) /\ Precedes(In(Head(b).chunks), Chunks(Tail(b)))
  BY IncAllTail DEF Flow
<1>5. IncAll(Append(c, Head(b)))
  <2>1. Precedes(Chunks(c), In(Head(b).chunks))
    BY <1>2 DEF Flow, Precedes
  <2> QED
    BY <1>1, <1>4, <2>1, IncAllAppend DEF Flow
<1>6. Flow(r, c, w, Tail(b), p, n)
  BY <1>2, <1>4 DEF Flow, Precedes
<1>7. Flow(r, Append(c, Head(b)), w, Tail(b), p, n)
  BY <1>2, <1>3, <1>4, <1>5 DEF Flow, Precedes
<1> QED
  BY <1>2, <1>3, <1>6, <1>7 DEF Whole

\* It is told without acknowledgement.
LEMMA FlowTold ==
  ASSUME NEW r \in Seq(1..LastChunk), NEW c \in Seq(Message), NEW w \in Seq(Message),
         NEW b \in Seq(Message), NEW p \in Seq(1..LastChunk), NEW n \in Nat, b # <<>>, Flow(r, c, w, b, p, n)
  PROVE  /\ Flow(r, c, w, Tail(b), p, n)
         /\ Flow(r, c, Append(w, Head(b)), Tail(b), p, n)
         /\ Whole(r, c, w, b, p, n) => Whole(r, c, Append(w, Head(b)), Tail(b), p, n)
<1>1. Head(b) \in Message /\ Tail(b) \in Seq(Message)
  BY HeadTail
<1>2. Chunks(b) = In(Head(b).chunks) \cup Chunks(Tail(b))
  BY ChunksTail
<1>3. Chunks(Append(w, Head(b))) = Chunks(w) \cup In(Head(b).chunks)
  BY <1>1, ChunksAppend
<1>4. Inc(Head(b).chunks) /\ IncAll(Tail(b)) /\ Precedes(In(Head(b).chunks), Chunks(Tail(b)))
  BY IncAllTail DEF Flow
<1>5. IncAll(Append(w, Head(b)))
  <2>1. Precedes(Chunks(w), In(Head(b).chunks))
    BY <1>2 DEF Flow, Precedes
  <2> QED
    BY <1>1, <1>4, <2>1, IncAllAppend DEF Flow
<1>6. Flow(r, c, w, Tail(b), p, n)
  BY <1>2, <1>4 DEF Flow, Precedes
<1>7. Flow(r, c, Append(w, Head(b)), Tail(b), p, n)
  BY <1>2, <1>3, <1>4, <1>5 DEF Flow, Precedes
<1> QED
  BY <1>2, <1>3, <1>6, <1>7 DEF Whole

\* The client polls the first message of the channel.
LEMMA FlowPolled ==
  ASSUME NEW r \in Seq(1..LastChunk), NEW c \in Seq(Message), NEW w \in Seq(Message),
         NEW b \in Seq(Message), NEW p \in Seq(1..LastChunk), NEW n \in Nat, c # <<>>, Flow(r, c, w, b, p, n)
  PROVE  /\ Flow(r \o Head(c).chunks, Tail(c), w, b, p, n)
         /\ Flow(r \o Head(c).chunks, <<>>, w, b, p, n)
         /\ Whole(r, c, w, b, p, n) => Whole(r \o Head(c).chunks, Tail(c), w, b, p, n)
         /\ In(r) \cup Chunks(c) = In(r \o Head(c).chunks) \cup Chunks(Tail(c))
         /\ Precedes(In(Head(c).chunks), Chunks(Tail(c)))
<1>1. Head(c) \in Message /\ Tail(c) \in Seq(Message) /\ Head(c).chunks \in Seq(1..LastChunk)
  BY HeadTail, MessageChunks
<1>2. Chunks(c) = In(Head(c).chunks) \cup Chunks(Tail(c)) /\ Chunks(<<>>) = {} /\ IncAll(<<>>)
  BY ChunksTail, InEmpty
<1>3. In(r \o Head(c).chunks) = In(r) \cup In(Head(c).chunks)
  BY <1>1, InConcat
<1>4. Inc(Head(c).chunks) /\ IncAll(Tail(c)) /\ Precedes(In(Head(c).chunks), Chunks(Tail(c)))
  BY IncAllTail DEF Flow
<1>5. Inc(r \o Head(c).chunks)
  <2>1. Precedes(In(r), In(Head(c).chunks))
    BY <1>2 DEF Flow, Precedes
  <2> QED
    BY <1>1, <1>4, <2>1, IncConcat DEF Flow
<1>6. Flow(r \o Head(c).chunks, Tail(c), w, b, p, n)
  BY <1>2, <1>3, <1>4, <1>5 DEF Flow, Precedes
<1>7. Flow(r \o Head(c).chunks, <<>>, w, b, p, n)
  BY <1>2, <1>3, <1>5 DEF Flow, Precedes
<1> QED
  BY <1>2, <1>3, <1>4, <1>6, <1>7 DEF Whole

\* A part of the way is given up.
LEMMA FlowCut ==
  ASSUME NEW r \in Seq(1..LastChunk), NEW c \in Seq(Message), NEW w \in Seq(Message),
         NEW b \in Seq(Message), NEW p \in Seq(1..LastChunk), NEW n \in Nat, Flow(r, c, w, b, p, n)
  PROVE  /\ Flow(r, <<>>, w, b, p, n) /\ Flow(r, c, <<>>, b, p, n)
         /\ Flow(r, c, w, <<>>, <<>>, n)
         /\ c = <<>> /\ Whole(r, c, w, b, p, n) => Whole(r, <<>>, w, b, p, n)
  BY InEmpty DEF Flow, Precedes

\* A message without chunks changes nothing.
LEMMA FlowNotice ==
  ASSUME NEW r \in Seq(1..LastChunk), NEW c \in Seq(Message), NEW w \in Seq(Message),
         NEW b \in Seq(Message), NEW p \in Seq(1..LastChunk), NEW n \in Nat, Flow(r, c, w, b, p, n), NEW m \in Message, m.chunks = <<>>
  PROVE  /\ Flow(r, Append(c, m), w, b, p, n) /\ Flow(r, c, Append(w, m), b, p, n)
         /\ Flow(r, c, w, Append(b, m), p, n)
         /\ Whole(r, c, w, b, p, n) => /\ Whole(r, Append(c, m), w, b, p, n)
                                       /\ Whole(r, c, Append(w, m), b, p, n)
                                       /\ Whole(r, c, w, Append(b, m), p, n)
         /\ Chunks(Append(c, m)) = Chunks(c)
<1>1. In(m.chunks) = {} /\ Inc(m.chunks)
  BY InEmpty
<1>2. Chunks(Append(c, m)) = Chunks(c) /\ Chunks(Append(w, m)) = Chunks(w)
      /\ Chunks(Append(b, m)) = Chunks(b)
  BY <1>1, ChunksAppend
<1>3. IncAll(Append(c, m)) /\ IncAll(Append(w, m)) /\ IncAll(Append(b, m))
  <2>1. \A A : Precedes(A, In(m.chunks))
    BY <1>1 DEF Precedes
  <2> QED
    BY <1>1, <2>1, IncAllAppend DEF Flow
<1> QED
  BY <1>2, <1>3 DEF Flow, Whole

\* The host flushes its batch.
LEMMA FlowFlush ==
  ASSUME NEW r \in Seq(1..LastChunk), NEW c \in Seq(Message), NEW w \in Seq(Message),
         NEW b \in Seq(Message), NEW p \in Seq(1..LastChunk), NEW n \in Nat, Flow(r, c, w, b, p, n), b = <<>>
  PROVE  /\ Flow(r, c, w, Append(<<>>, Batch(p)), <<>>, n)
         /\ Whole(r, c, w, b, p, n) => Whole(r, c, w, Append(<<>>, Batch(p)), <<>>, n)
<1>1. Batch(p) \in Message /\ Batch(p).chunks = p
  BY BatchType, BatchFacts
<1>2. Chunks(Append(b, Batch(p))) = In(p) /\ Chunks(b) = {} /\ In(<<>>) = {} /\ Inc(<<>>)
  <2>1. Chunks(b) = {} /\ In(<<>>) = {} /\ Inc(<<>>)
    BY InEmpty
  <2>2. Chunks(Append(b, Batch(p))) = Chunks(b) \cup In(Batch(p).chunks)
    BY <1>1, ChunksAppend
  <2> QED
    BY <1>1, <2>1, <2>2
<1>3. IncAll(Append(b, Batch(p)))
  <2>1. Precedes(Chunks(b), In(p))
    BY <1>2 DEF Precedes
  <2> QED
    BY <1>1, <2>1, IncAllAppend DEF Flow
<1>4. Flow(r, c, w, Append(b, Batch(p)), <<>>, n)
  BY <1>2, <1>3 DEF Flow, Precedes
<1> QED
  BY <1>2, <1>4 DEF Whole

\* The host reads the next chunk.
LEMMA FlowRead ==
  ASSUME NEW r \in Seq(1..LastChunk), NEW c \in Seq(Message), NEW w \in Seq(Message),
         NEW b \in Seq(Message), NEW p \in Seq(1..LastChunk), NEW n \in Nat, Flow(r, c, w, b, p, n), n \in 1..LastChunk
  PROVE  /\ Flow(r, c, w, b, Append(p, n), n + 1)
         /\ Whole(r, c, w, b, p, n) => Whole(r, c, w, b, Append(p, n), n + 1)
<1>1. In(Append(p, n)) = In(p) \cup {n}
  BY InAppend
<1>2. Precedes(In(p), {n})
  BY DEF Flow, Precedes
<1>3. Inc(Append(p, n))
  BY <1>2, IncAppend DEF Flow
<1>4. \A k \in In(r) \cup Chunks(c) \cup Chunks(w) \cup Chunks(b) \cup In(p) : k \in Nat /\ k < n
  BY InNumbers DEF Flow, Precedes
<1>5. Precedes(In(r) \cup Chunks(c) \cup Chunks(w) \cup Chunks(b), In(Append(p, n)))
  BY <1>1, <1>4 DEF Flow, Precedes
<1>6. Precedes(In(r) \cup Chunks(c) \cup Chunks(w) \cup Chunks(b) \cup In(Append(p, n)), {n + 1})
  BY <1>1, <1>4 DEF Precedes
<1>7. Flow(r, c, w, b, Append(p, n), n + 1)
  BY <1>3, <1>5, <1>6 DEF Flow
<1>8. \A k \in 1..LastChunk : k < n + 1 => k < n \/ k = n
  BY ConstantsType
<1> QED
  BY <1>1, <1>7, <1>8 DEF Whole

\* Nothing was read yet.
LEMMA FlowStart ==
  Flow(<<>>, <<>>, <<>>, <<>>, <<>>, 1) /\ Whole(<<>>, <<>>, <<>>, <<>>, <<>>, 1)
<1>1. \A k \in 1..LastChunk : ~(k < 1)
  BY ConstantsType
<1> QED
  BY <1>1, InEmpty DEF Flow, Whole, Precedes

\* Nothing follows Done.
LEMMA DoneWhole ==
  ASSUME NEW r \in Seq(1..LastChunk), NEW c \in Seq(Message), NEW w \in Seq(Message),
         NEW b \in Seq(Message), NEW p \in Seq(1..LastChunk), NEW n \in Nat,
         Flow(r, c, w, b, p, n), Whole(r, c, w, b, p, n), LastChunk \in Chunks(c)
  PROVE  1..LastChunk \subseteq In(r) \cup Chunks(c)
<1>1. Chunks(w) = {} /\ Chunks(b) = {} /\ In(p) = {}
  <2>1. \A k \in Chunks(w) \cup Chunks(b) \cup In(p) : k \in Nat /\ k <= LastChunk
    BY InNumbers
  <2>2. \A k \in Chunks(w) \cup Chunks(b) \cup In(p) : LastChunk < k
    BY DEF Flow, Precedes
  <2>3. \A k \in Chunks(w) \cup Chunks(b) \cup In(p) : FALSE
    BY <2>1, <2>2, ConstantsType
  <2> QED
    BY <2>3
<1>2. LastChunk < n
  BY DEF Flow, Precedes
<1>3. \A k \in 1..LastChunk : k < n
  BY <1>2, ConstantsType
<1> QED
  BY <1>1, <1>3 DEF Whole

\* A step that moves chunks towards the channel.
LEMMA RelayStep ==
  ASSUME Base, Base', OrderOK, CompleteOK, NEW t \in Tasks, Started(t), Started(t)',
         received' = received, client' = client, marks \subseteq marks',
         request'.consumer => request.consumer,
         channel' # channel => Listening /\ request.consumer,
         marks' \cap {"resent", "retried"} = {} /\ FlowAt(t) => FlowAt(t)',
         marks' = {} /\ Listening /\ request.consumer /\ FlowAt(t) /\ WholeAt(t) => WholeAt(t)'
  PROVE  OrderOK' /\ CompleteOK'
<1>0. ASSUME "retried" \notin marks', NEW u \in Tasks, Started(u)' PROVE u = t
  <2>1. Tasks = {1, 2}
    BY DEF Tasks
  <2>2. ~Started(1)' \/ ~Started(2)'
    BY <1>0 DEF Base, TasksOK
  <2> QED
    BY <1>0, <2>1, <2>2
<1>1. OrderOK'
  <2> SUFFICES ASSUME (marks \cap {"resent", "retried"} = {})', NEW u \in Tasks, Started(u)'
               PROVE  FlowAt(u)'
    BY DEF OrderOK
  <2>1. "retried" \notin marks'
    OBVIOUS
  <2>2. u = t
    BY <1>0, <2>1
  <2>3. FlowAt(t)
    BY DEF OrderOK
  <2> QED
    BY <2>2, <2>3
<1>2. ASSUME marks' = {} PROVE FlowAt(t) /\ marks = {} /\ FlowAt(t)'
  BY <1>2 DEF OrderOK
<1>3. Listening' <=> Listening
  BY DEF Listening
<1>4. ASSUME marks' = {}, Listening, request.consumer PROVE WholeAt(t)'
  BY <1>2, <1>4 DEF CompleteOK
<1>5. ASSUME marks' = {}, Listening', request'.consumer, NEW u \in Tasks, Started(u)'
      PROVE  WholeAt(u)'
  <2>1. u = t
    BY <1>0, <1>5
  <2> QED
    BY <1>3, <1>4, <1>5, <2>1
<1>6. ASSUME marks' = {}, Listening', LastChunk \in Chunks(channel')
      PROVE  1..LastChunk \subseteq In(received') \cup Chunks(channel')
  <2>1. CASE channel' = channel
    BY <1>2, <1>3, <1>6, <2>1 DEF CompleteOK
  <2>2. CASE channel' # channel
    <3>1. FlowAt(t)' /\ WholeAt(t)'
      BY <1>2, <1>4, <1>6, <2>2
    <3>2. /\ received' \in Seq(1..LastChunk) /\ channel' \in Seq(Message) /\ wire' \in Seq(Message)
          /\ host'[t].buffered \in Seq(Message) /\ host'[t].pending \in Seq(1..LastChunk)
          /\ host'[t].next \in Nat
      <4>1. host'[t] \in Task
        BY DEF Base, TypeOK
      <4>2. host'[t].next \in 1..(LastChunk + 1) => host'[t].next \in Nat
        BY ConstantsType
      <4> QED
        BY <4>1, <4>2 DEF Base, TypeOK, Task
    <3> QED
      BY <1>6, <3>1, <3>2, DoneWhole DEF FlowAt, WholeAt
  <2> QED
    BY <2>1, <2>2
<1>7. ASSUME marks' = {}, client'.phase = "done"
      PROVE  1..LastChunk \subseteq In(received')
  BY <1>2, <1>7 DEF CompleteOK
<1> QED
  BY <1>1, <1>5, <1>6, <1>7 DEF CompleteOK

\* The sequences along the way of task t.
LEMMA WayType ==
  ASSUME Base, NEW t \in Tasks
  PROVE  /\ received \in Seq(1..LastChunk) /\ channel \in Seq(Message) /\ wire \in Seq(Message)
         /\ host[t].buffered \in Seq(Message) /\ host[t].pending \in Seq(1..LastChunk)
         /\ host[t].next \in Nat
<1>1. host[t] \in Task
  BY DEF Base, TypeOK
<1>2. host[t].next \in 1..(LastChunk + 1) => host[t].next \in Nat
  BY ConstantsType
<1> QED
  BY <1>1, <1>2 DEF Base, TypeOK, Task

\* What routing a message means for RelayStep.
LEMMA RouteStep ==
  ASSUME Base, NEW m \in Message, Route(m), marks' = marks \cup deliver_or_buffer(m).mark
  PROVE  /\ marks \subseteq marks' /\ (request'.consumer => request.consumer)
         /\ channel' = channel \/ channel' = Append(channel, m)
         /\ channel' # channel => Listening /\ request.consumer
         /\ marks' = {} /\ Listening /\ request.consumer => channel' = Append(channel, m)
<1>1. PICK to : to = deliver_or_buffer(m)
  OBVIOUS
<1>2. request' = to.request /\ channel' = to.channel /\ marks' = marks \cup to.mark
  BY <1>1 DEF Route
<1>3. TypeOK /\ RouterOK
  BY DEF Base
<1>4. to.request.consumer => request.consumer
  BY <1>1, <1>3, RouteType
<1>5. /\ to.channel = channel \/ to.channel = Append(channel, m)
      /\ Listening /\ request.consumer /\ to.mark = {} => to.channel = Append(channel, m)
  BY <1>1, <1>3, RouteChannel
<1>6. to.channel # channel => Listening /\ request.consumer
  BY <1>1, <1>3, RouteCases
<1> QED
  BY <1>2, <1>4, <1>5, <1>6

\* The router receives.
LEMMA RouterFlow ==
  ASSUME Base, Base', OrderOK, CompleteOK, RouterReceives
  PROVE  OrderOK' /\ CompleteOK'
<1>1. wire # <<>> /\ wire' = Tail(wire) /\ Route(Head(wire))
      /\ marks' = marks \cup deliver_or_buffer(Head(wire)).mark
      /\ host' = host /\ client' = client /\ received' = received
  BY DEF RouterReceives, clientVars
<1>2. Head(wire) \in Message
  BY <1>1, HeadTail DEF Base, TypeOK
<1>3. PICK t \in Tasks : Started(t)
  BY <1>1 DEF Base, TasksOK
<1>4. Started(t)'
  BY <1>1, <1>3 DEF Started
<1>5. /\ marks \subseteq marks' /\ (request'.consumer => request.consumer)
      /\ channel' = channel \/ channel' = Append(channel, Head(wire))
      /\ channel' # channel => Listening /\ request.consumer
      /\ marks' = {} /\ Listening /\ request.consumer => channel' = Append(channel, Head(wire))
  BY <1>1, <1>2, RouteStep
<1>6. ASSUME FlowAt(t)
      PROVE  /\ FlowAt(t)'
             /\ WholeAt(t) /\ channel' = Append(channel, Head(wire)) => WholeAt(t)'
  <2>1. /\ Flow(received, channel, Tail(wire), host[t].buffered, host[t].pending, host[t].next)
        /\ Flow(received, Append(channel, Head(wire)), Tail(wire), host[t].buffered,
                host[t].pending, host[t].next)
        /\ WholeAt(t) => Whole(received, Append(channel, Head(wire)), Tail(wire), host[t].buffered,
                               host[t].pending, host[t].next)
    BY <1>1, <1>6, WayType, FlowRoute DEF FlowAt, WholeAt
  <2> QED
    BY <1>1, <1>5, <2>1 DEF FlowAt, WholeAt
<1> QED
  BY <1>1, <1>3, <1>4, <1>5, <1>6, RelayStep

\* A task that goes on as h, or ends holding nothing.
LEMMA TaskBecomes ==
  ASSUME Base, NEW t \in Tasks, Running(t), NEW h \in Task, h.phase # "none",
         Sound(h) \/ h.phase = "gone", Becomes(t, h), client' = client, marks \subseteq marks',
         "retried" \in marks' => "retried" \in marks
  PROVE  /\ Started(t) /\ Started(t)' /\ host'[t].next = h.next
         /\ \/ host'[t].buffered = h.buffered /\ host'[t].pending = h.pending
            \/ h.phase = "gone" /\ host'[t].buffered = <<>> /\ host'[t].pending = <<>>
<1>1. HostOK
  BY BaseParts
<1>2. /\ Started(t)' /\ (h.phase # "gone" => host'[t] = h)
      /\ h.phase = "gone" => /\ host'[t].phase = "gone" /\ host'[t].buffered = <<>>
                             /\ host'[t].pending = <<>> /\ host'[t].next = h.next
  BY <1>1, BecomesKeeps
<1>3. Started(t)
  BY DEF Running, Started
<1> QED
  BY <1>2, <1>3

\* A task relays its first message.
LEMMA RelayFlow ==
  ASSUME Base, Base', OrderOK, CompleteOK, NEW t \in Tasks, RelayUnacked(t) \/ RelayAcked(t)
  PROVE  OrderOK' /\ CompleteOK'
<1>0. TypeOK /\ TasksOK /\ RouterOK
  BY DEF Base
<1>1. PICK a \in BOOLEAN : Becomes(t, Relayed(t, a)) /\ a \in should_ack(Front(t), host[t].unacked)
  BY DEF RelayUnacked, RelayAcked
<1>2. PICK h : h = Relayed(t, a)
  OBVIOUS
<1>3. Relaying(t) /\ Running(t) /\ client' = client /\ received' = received
      /\ host[t].buffered # <<>> /\ Front(t) = Head(host[t].buffered)
  BY DEF RelayUnacked, RelayAcked, Relaying, Running, clientVars, Front
<1>4. /\ h \in Task /\ h.phase # "none" /\ (Sound(h) \/ h.phase = "gone")
      /\ h.buffered = Tail(host[t].buffered) /\ h.pending = host[t].pending
      /\ h.next = host[t].next
      /\ h.phase = "gone" => h.buffered = <<>> /\ h.pending = <<>>
      /\ Front(t) \in Message
  BY <1>0, <1>1, <1>2, <1>3, RelayedSound
<1>5. marks \subseteq marks' /\ ("retried" \in marks' => "retried" \in marks)
  <2>1. deliver_or_buffer(Front(t)).mark \subseteq {"overflow"}
    BY <1>0, <1>4, RouteType
  <2> QED
    BY <2>1 DEF RelayUnacked, RelayAcked
<1>6. /\ Started(t) /\ Started(t)' /\ host'[t].next = host[t].next
      /\ host'[t].buffered = Tail(host[t].buffered) /\ host'[t].pending = host[t].pending
  BY <1>1, <1>2, <1>3, <1>4, <1>5, TaskBecomes
<1>7. CASE RelayAcked(t)
  <2>1. wire = <<>> /\ wire' = wire /\ Route(Front(t))
        /\ marks' = marks \cup deliver_or_buffer(Front(t)).mark
    BY <1>7 DEF RelayAcked
  <2>2. /\ marks \subseteq marks' /\ (request'.consumer => request.consumer)
        /\ channel' = channel \/ channel' = Append(channel, Front(t))
        /\ channel' # channel => Listening /\ request.consumer
        /\ marks' = {} /\ Listening /\ request.consumer => channel' = Append(channel, Front(t))
    BY <1>4, <2>1, RouteStep
  <2>3. ASSUME FlowAt(t)
        PROVE  /\ FlowAt(t)'
               /\ WholeAt(t) /\ channel' = Append(channel, Front(t)) => WholeAt(t)'
    <3>1. /\ Flow(received, channel, wire, Tail(host[t].buffered), host[t].pending, host[t].next)
          /\ Flow(received, Append(channel, Front(t)), wire, Tail(host[t].buffered),
                  host[t].pending, host[t].next)
          /\ WholeAt(t) => Whole(received, Append(channel, Front(t)), wire, Tail(host[t].buffered),
                                 host[t].pending, host[t].next)
      BY <1>3, <2>1, <2>3, WayType, FlowAcked DEF FlowAt, WholeAt
    <3> QED
      BY <1>3, <1>6, <2>1, <2>2, <3>1 DEF FlowAt, WholeAt
  <2> QED
    BY <1>3, <1>6, <2>2, <2>3, RelayStep
<1>8. CASE RelayUnacked(t)
  <2>1. channel' = channel /\ request' = request
        /\ IF up THEN wire' = Append(wire, Front(t)) /\ marks' = marks
                 ELSE wire' = wire /\ marks' = marks \cup {"lost"}
    BY <1>8 DEF RelayUnacked, routerVars
  <2>2. ASSUME FlowAt(t) PROVE FlowAt(t)' /\ (marks' = {} /\ WholeAt(t) => WholeAt(t)')
    <3>1. /\ Flow(received, channel, wire, Tail(host[t].buffered), host[t].pending, host[t].next)
          /\ Flow(received, channel, Append(wire, Front(t)), Tail(host[t].buffered),
                  host[t].pending, host[t].next)
          /\ WholeAt(t) => Whole(received, channel, Append(wire, Front(t)), Tail(host[t].buffered),
                                 host[t].pending, host[t].next)
      BY <1>3, <2>2, WayType, FlowTold DEF FlowAt, WholeAt
    <3> QED
      BY <1>3, <1>6, <2>1, <3>1 DEF FlowAt, WholeAt
  <2> QED
    BY <1>3, <1>5, <1>6, <2>1, <2>2, RelayStep
<1> QED
  BY <1>7, <1>8

\* A task reads from the upstream, is cancelled or beats.
LEMMA SelectFlow ==
  ASSUME Base, Base', OrderOK, CompleteOK, NEW t \in Tasks,
         Cancelled(t) \/ UpstreamFails(t) \/ Heartbeat(t) \/ UpstreamChunk(t) \/ BatchFlushed(t)
  PROVE  OrderOK' /\ CompleteOK'
<1>0. TypeOK /\ TasksOK
  BY DEF Base
<1>1. /\ host[t].phase = "relay" /\ Running(t)
      /\ UNCHANGED <<wire, request, channel, client, received, marks>>
  BY DEF Cancelled, UpstreamFails, Heartbeat, UpstreamChunk, BatchFlushed, Selecting, Running,
         routerVars, clientVars
<1>2. host[t].buffered = <<>>
  BY <1>0, <1>1, TaskFacts DEF TaskOK
<1> DEFINE r == received
           c == channel
           w == wire
           b == host[t].buffered
           p == host[t].pending
           n == host[t].next
<1>3. /\ r \in Seq(1..LastChunk) /\ c \in Seq(Message) /\ w \in Seq(Message)
      /\ b \in Seq(Message) /\ p \in Seq(1..LastChunk) /\ n \in Nat
  BY WayType
<1>4. ASSUME NEW h, Sound(h), h.phase = "drain", Becomes(t, h),
             Flow(r, c, w, b, p, n) =>
                /\ Flow(r, c, w, h.buffered, h.pending, h.next)
                /\ Whole(r, c, w, b, p, n) => Whole(r, c, w, h.buffered, h.pending, h.next)
      PROVE  OrderOK' /\ CompleteOK'
  <2>1. h \in Task
    BY <1>4 DEF Sound
  <2>2. /\ Started(t) /\ Started(t)' /\ host'[t].next = h.next
        /\ host'[t].buffered = h.buffered /\ host'[t].pending = h.pending
    BY <1>1, <1>4, <2>1, TaskBecomes
  <2>3. FlowAt(t) => FlowAt(t)' /\ (WholeAt(t) => WholeAt(t)')
    BY <1>1, <1>4, <2>2 DEF FlowAt, WholeAt
  <2> QED
    BY <1>1, <2>2, <2>3, RelayStep
<1>5. Flow(r, c, w, b, p, n) =>
         /\ Flow(r, c, w, Append(<<>>, Batch(p)), <<>>, n)
         /\ Whole(r, c, w, b, p, n) => Whole(r, c, w, Append(<<>>, Batch(p)), <<>>, n)
  BY <1>2, <1>3, FlowFlush
<1>6. \A k \in Kinds : Notice(k) \in Message /\ Notice(k).chunks = <<>>
  BY NoticeType, NoticeFacts
<1>7. Batch(p) \in Message /\ Append(<<>>, Batch(p)) \in Seq(Message) /\ <<>> \in Seq(1..LastChunk)
  BY <1>3, BatchType
<1>8. CASE Cancelled(t) \/ UpstreamFails(t)
  <2>1. PICK k \in {"provider_error", "failed"} : Becomes(t, Terminate(host[t], Notice(k)))
    BY <1>8 DEF Cancelled, UpstreamFails
  <2>2. PICK h : h = Terminate(host[t], Notice(k))
    OBVIOUS
  <2>3. /\ Sound(h) /\ h.phase = "drain" /\ h.pending = <<>> /\ h.next = n
        /\ p = <<>> => h.buffered = Append(<<>>, Notice(k))
        /\ p # <<>> => h.buffered = Append(Append(<<>>, Batch(p)), Notice(k))
    BY <1>0, <1>1, <2>2, TerminateSound
  <2>4. Notice(k) \in Message /\ Notice(k).chunks = <<>>
    BY <1>6 DEF Kinds
  <2>5. Flow(r, c, w, b, p, n) =>
           /\ Flow(r, c, w, h.buffered, h.pending, h.next)
           /\ Whole(r, c, w, b, p, n) => Whole(r, c, w, h.buffered, h.pending, h.next)
    <3> SUFFICES ASSUME Flow(r, c, w, b, p, n)
                 PROVE  /\ Flow(r, c, w, h.buffered, h.pending, h.next)
                        /\ Whole(r, c, w, b, p, n) => Whole(r, c, w, h.buffered, h.pending, h.next)
      OBVIOUS
    <3>1. CASE p = <<>>
      <4>1. /\ Flow(r, c, w, Append(b, Notice(k)), p, n)
            /\ Whole(r, c, w, b, p, n) => Whole(r, c, w, Append(b, Notice(k)), p, n)
        BY <1>3, <2>4, FlowNotice
      <4> QED
        BY <1>2, <2>3, <3>1, <4>1
    <3>2. CASE p # <<>>
      <4>1. PICK d : d = Append(<<>>, Batch(p))
        OBVIOUS
      <4>2. d \in Seq(Message) /\ Flow(r, c, w, d, <<>>, n)
            /\ (Whole(r, c, w, b, p, n) => Whole(r, c, w, d, <<>>, n))
        BY <1>5, <1>7, <4>1
      <4>3. /\ Flow(r, c, w, Append(d, Notice(k)), <<>>, n)
            /\ Whole(r, c, w, d, <<>>, n) => Whole(r, c, w, Append(d, Notice(k)), <<>>, n)
        BY <1>3, <1>7, <2>4, <4>2, FlowNotice
      <4> QED
        BY <2>3, <3>2, <4>1, <4>2, <4>3
    <3> QED
      BY <3>1, <3>2
  <2> QED
    BY <1>4, <2>1, <2>2, <2>3, <2>5
<1>9. CASE Heartbeat(t)
  <2>1. PICK h : /\ Becomes(t, h) /\ Sound(h) /\ h.phase = "drain" /\ h.next = n /\ h.pending = p
                 /\ h.buffered = Append(<<>>, Notice("heartbeat"))
    BY <1>0, <1>9, HeartbeatSound
  <2>2. Notice("heartbeat") \in Message /\ Notice("heartbeat").chunks = <<>>
    BY <1>6 DEF Kinds
  <2>3. Flow(r, c, w, b, p, n) =>
           /\ Flow(r, c, w, Append(b, Notice("heartbeat")), p, n)
           /\ Whole(r, c, w, b, p, n) => Whole(r, c, w, Append(b, Notice("heartbeat")), p, n)
    BY <1>3, <2>2, FlowNotice
  <2> QED
    BY <1>2, <1>4, <2>1, <2>3
<1>10. CASE BatchFlushed(t)
  <2>1. PICK h : /\ Becomes(t, h) /\ Sound(h) /\ h.phase = "drain" /\ h.next = n
                 /\ h.pending = <<>> /\ h.buffered = Append(<<>>, Batch(p))
    BY <1>0, <1>10, BatchFlushedSound
  <2> QED
    BY <1>4, <1>5, <2>1
<1>11. CASE UpstreamChunk(t)
  <2>1. PICK h : /\ Becomes(t, h) /\ Sound(h) /\ h.phase = "drain" /\ h.next = n + 1
                 /\ \/ h.pending = Append(p, n) /\ h.buffered = <<>>
                    \/ h.pending = <<>> /\ h.buffered = Append(<<>>, Batch(Append(p, n)))
    BY <1>0, <1>11, UpstreamChunkSound
  <2>2. n \in 1..LastChunk
    BY <1>0, <1>11, TaskFacts, ConstantsType DEF UpstreamChunk
  <2>3. PICK q : q = Append(p, n)
    OBVIOUS
  <2>4. q \in Seq(1..LastChunk) /\ n + 1 \in Nat
    BY <1>3, <2>2, <2>3
  <2>5. Flow(r, c, w, b, p, n) =>
           /\ Flow(r, c, w, b, q, n + 1)
           /\ Whole(r, c, w, b, p, n) => Whole(r, c, w, b, q, n + 1)
    BY <1>3, <2>2, <2>3, FlowRead
  <2>6. Flow(r, c, w, b, q, n + 1) =>
           /\ Flow(r, c, w, Append(<<>>, Batch(q)), <<>>, n + 1)
           /\ Whole(r, c, w, b, q, n + 1) => Whole(r, c, w, Append(<<>>, Batch(q)), <<>>, n + 1)
    BY <1>2, <1>3, <2>4, FlowFlush
  <2>7. \/ h.pending = q /\ h.buffered = b
        \/ h.pending = <<>> /\ h.buffered = Append(<<>>, Batch(q))
    BY <1>2, <2>1, <2>3
  <2> QED
    BY <1>4, <2>1, <2>5, <2>6, <2>7
<1> QED
  BY <1>8, <1>9, <1>10, <1>11

\* The steps of a task that leave what it holds.
LEMMA IdleFlow ==
  ASSUME Base, Base', OrderOK, CompleteOK, NEW t \in Tasks,
         \/ UpstreamOpens(t) \/ UpstreamEnds(t) \/ RelayFails(t) \/ RelayAckLost(t) \/ Reconnected(t)
         \/ UpstreamRefuses(t) \/ ReconnectGivesUp(t) \/ Drained(t)
  PROVE  OrderOK' /\ CompleteOK'
<1>0. TypeOK /\ TasksOK /\ RouterOK
  BY DEF Base
<1>1. Running(t)
  BY <1>0, IdleSound
<1>2. PICK h : /\ Becomes(t, h) /\ h \in Task /\ (Sound(h) \/ h.phase = "gone") /\ h.phase # "none"
               /\ h.next = host[t].next /\ h.pending = host[t].pending
               /\ h.buffered = host[t].buffered
               /\ h.phase = "gone" /\ ~ReconnectGivesUp(t) => h.buffered = <<>> /\ h.pending = <<>>
  BY <1>0, IdleSound
<1>3. \A k \in Kinds : Notice(k) \in Message /\ Notice(k).chunks = <<>>
  BY NoticeType, NoticeFacts
<1>4. ASSUME RelayAckLost(t) PROVE OrderOK' /\ CompleteOK'
  <2>1. "resent" \in marks'
    BY <1>4 DEF RelayAckLost
  <2> QED
    BY <2>1 DEF OrderOK, CompleteOK
<1> SUFFICES ASSUME ~RelayAckLost(t) PROVE OrderOK' /\ CompleteOK'
  BY <1>4
<1>5. client' = client /\ received' = received
  BY DEF UpstreamOpens, UpstreamEnds, RelayFails, Reconnected, UpstreamRefuses, ReconnectGivesUp,
         Drained, Selecting, Relaying, Reconnecting, clientVars
<1>6. marks \subseteq marks' /\ ("retried" \in marks' => "retried" \in marks)
      /\ (ReconnectGivesUp(t) => marks' # {})
  <2>1. deliver_or_buffer(Notice("reconnected")).mark \subseteq {"overflow"}
    BY <1>0, <1>3, RouteType DEF Kinds
  <2> QED
    BY <2>1 DEF UpstreamOpens, UpstreamEnds, RelayFails, Reconnected, UpstreamRefuses,
                ReconnectGivesUp, Drained, Selecting
<1>7. /\ Started(t) /\ Started(t)' /\ host'[t].next = host[t].next
      /\ \/ host'[t].buffered = host[t].buffered /\ host'[t].pending = host[t].pending
         \/ host'[t].buffered = <<>> /\ host'[t].pending = <<>>
      /\ ~ReconnectGivesUp(t) => /\ host'[t].buffered = host[t].buffered
                                 /\ host'[t].pending = host[t].pending
  BY <1>1, <1>2, <1>5, <1>6, TaskBecomes
<1> DEFINE b == host[t].buffered
           p == host[t].pending
           n == host[t].next
<1>8. CASE Reconnected(t)
  <2>1. PICK m \in Message : m = Notice("reconnected") /\ m.chunks = <<>>
    BY <1>3 DEF Kinds
  <2>2. Route(m) /\ wire' = wire /\ marks' = marks \cup deliver_or_buffer(m).mark
    BY <1>8, <2>1 DEF Reconnected
  <2>3. ~ReconnectGivesUp(t)
    BY <1>8 DEF Reconnected, ReconnectGivesUp
  <2>4. /\ request'.consumer => request.consumer
        /\ channel' = channel \/ channel' = Append(channel, m)
        /\ channel' # channel => Listening /\ request.consumer
    BY <2>2, RouteStep
  <2>5. ASSUME FlowAt(t) PROVE FlowAt(t)' /\ (WholeAt(t) => WholeAt(t)')
    <3>1. /\ Flow(received, Append(channel, m), wire, b, p, n)
          /\ WholeAt(t) => Whole(received, Append(channel, m), wire, b, p, n)
      BY <2>1, <2>5, WayType, FlowNotice DEF FlowAt, WholeAt
    <3> QED
      BY <1>5, <1>7, <2>2, <2>3, <2>4, <2>5, <3>1 DEF FlowAt, WholeAt
  <2> QED
    BY <1>5, <1>6, <1>7, <2>4, <2>5, RelayStep
<1>9. CASE UpstreamRefuses(t)
  <2>1. PICK m \in Message : m = Notice("provider_error") /\ m.chunks = <<>>
    BY <1>3 DEF Kinds
  <2>2. wire' \in {wire, Append(wire, m)} /\ channel' = channel /\ request' = request
    BY <1>9, <2>1 DEF UpstreamRefuses, routerVars
  <2>3. ~ReconnectGivesUp(t)
    BY <1>9 DEF UpstreamRefuses, ReconnectGivesUp, Reconnecting
  <2>4. ASSUME FlowAt(t) PROVE FlowAt(t)' /\ (WholeAt(t) => WholeAt(t)')
    <3>1. /\ Flow(received, channel, Append(wire, m), b, p, n)
          /\ WholeAt(t) => Whole(received, channel, Append(wire, m), b, p, n)
      BY <2>1, <2>4, WayType, FlowNotice DEF FlowAt, WholeAt
    <3> QED
      BY <1>5, <1>7, <2>2, <2>3, <2>4, <3>1 DEF FlowAt, WholeAt
  <2> QED
    BY <1>5, <1>6, <1>7, <2>2, <2>4, RelayStep
<1>10. CASE \/ UpstreamOpens(t) \/ UpstreamEnds(t) \/ RelayFails(t) \/ ReconnectGivesUp(t)
            \/ Drained(t)
  <2>1. wire' = wire /\ channel' = channel /\ request' = request
    BY <1>10 DEF UpstreamOpens, UpstreamEnds, RelayFails, ReconnectGivesUp, Drained, Selecting,
                 routerVars
  <2>2. ASSUME FlowAt(t) PROVE FlowAt(t)' /\ (marks' = {} /\ WholeAt(t) => WholeAt(t)')
    <3>1. Flow(received, channel, wire, <<>>, <<>>, n)
      BY <2>2, WayType, FlowCut DEF FlowAt
    <3> QED
      BY <1>5, <1>6, <1>7, <2>1, <2>2, <3>1 DEF FlowAt, WholeAt
  <2> QED
    BY <1>5, <1>6, <1>7, <2>1, <2>2, RelayStep
<1> QED
  BY <1>8, <1>9, <1>10

\* The client polls: a poll that meets Done has everything.
LEMMA PollFlow ==
  ASSUME Base, Base', OrderOK, CompleteOK, Poll
  PROVE  OrderOK' /\ CompleteOK'
<1>1. PICK m \in Message : m = Head(channel)
  BY HeadTail DEF Base, TypeOK, Poll
<1>2. /\ client.phase = "open" /\ channel # <<>> /\ received' = received \o m.chunks
      /\ UNCHANGED <<host, wire, request, marks>>
      /\ channel' \in {Tail(channel), <<>>}
      /\ client'.phase = "open" => channel' = Tail(channel)
  BY <1>1 DEF Poll
<1>3. /\ client'.phase = "done" => HasDone(m)
      /\ Listening' => client'.phase = "open"
  <2>1. client \in [phase : {"setup", "open"} \cup Over, requests : 0..2, disc : BOOLEAN]
    BY DEF Base, TypeOK
  <2>2. client'.phase = IF HasDone(m) THEN "done"
                        ELSE IF relay_message_is_terminal(m) THEN "error" ELSE "open"
    BY <1>1, <2>1 DEF Poll
  <2> QED
    BY <2>2 DEF Listening
<1>4. PICK t \in Tasks : Started(t)
  BY <1>2 DEF Base, TasksOK
<1>5. ASSUME NEW u \in Tasks, FlowAt(u)
      PROVE  /\ FlowAt(u)' /\ (WholeAt(u) /\ channel' = Tail(channel) => WholeAt(u)')
             /\ In(received) \cup Chunks(channel) = In(received') \cup Chunks(Tail(channel))
             /\ Precedes(In(m.chunks), Chunks(Tail(channel)))
  <2>1. /\ received \in Seq(1..LastChunk) /\ channel \in Seq(Message) /\ wire \in Seq(Message)
        /\ host[u].buffered \in Seq(Message) /\ host[u].pending \in Seq(1..LastChunk)
        /\ host[u].next \in Nat
    BY WayType
  <2>2. /\ Flow(received', Tail(channel), wire, host[u].buffered, host[u].pending, host[u].next)
        /\ Flow(received', <<>>, wire, host[u].buffered, host[u].pending, host[u].next)
        /\ WholeAt(u) => Whole(received', Tail(channel), wire, host[u].buffered, host[u].pending,
                               host[u].next)
        /\ In(received) \cup Chunks(channel) = In(received') \cup Chunks(Tail(channel))
        /\ Precedes(In(m.chunks), Chunks(Tail(channel)))
    BY <1>1, <1>2, <1>5, <2>1, FlowPolled DEF FlowAt, WholeAt
  <2> QED
    BY <1>2, <2>2 DEF FlowAt, WholeAt
<1>6. \A u \in Tasks : Started(u)' <=> Started(u)
  BY <1>2 DEF Started
<1>7. OrderOK'
  BY <1>2, <1>5, <1>6 DEF OrderOK
<1>8. Listening
  BY <1>2 DEF Listening
<1>9. ASSUME marks = {} PROVE \A u \in Tasks : Started(u) => FlowAt(u)
  BY <1>9 DEF OrderOK
<1>10. ASSUME marks' = {}, Listening', request'.consumer, NEW u \in Tasks, Started(u)'
       PROVE  WholeAt(u)'
  <2>1. FlowAt(u) /\ WholeAt(u) /\ channel' = Tail(channel)
    BY <1>2, <1>3, <1>6, <1>8, <1>9, <1>10 DEF CompleteOK
  <2> QED
    BY <1>5, <2>1
<1>11. ASSUME marks' = {}, LastChunk \in Chunks(channel)
       PROVE  1..LastChunk \subseteq In(received') \cup Chunks(Tail(channel))
  <2>1. 1..LastChunk \subseteq In(received) \cup Chunks(channel)
    BY <1>2, <1>8, <1>11 DEF CompleteOK
  <2> QED
    BY <1>2, <1>4, <1>5, <1>9, <1>11, <2>1
<1>12. Chunks(channel) = In(m.chunks) \cup Chunks(Tail(channel))
  BY <1>1, <1>2, ChunksTail DEF Base, TypeOK
<1>13. ASSUME marks' = {}, Listening', LastChunk \in Chunks(channel')
       PROVE  1..LastChunk \subseteq In(received') \cup Chunks(channel')
  BY <1>2, <1>3, <1>11, <1>12, <1>13
<1>14. ASSUME marks' = {}, client'.phase = "done"
       PROVE  1..LastChunk \subseteq In(received')
  <2>1. LastChunk \in In(m.chunks)
    BY <1>3, <1>14, ConstantsType DEF HasDone, In
  <2>2. 1..LastChunk \subseteq In(received') \cup Chunks(Tail(channel))
    BY <1>11, <1>12, <1>14, <2>1
  <2>3. \A k \in Chunks(Tail(channel)) : LastChunk < k /\ k \in Nat /\ k <= LastChunk
    BY <1>2, <1>4, <1>5, <1>9, <1>14, <2>1, InNumbers DEF Precedes
  <2>4. \A k \in Chunks(Tail(channel)) : FALSE
    BY <2>3, ConstantsType
  <2> QED
    BY <2>2, <2>4
<1> QED
  BY <1>7, <1>10, <1>13, <1>14 DEF CompleteOK

\* A request reaches the host.
LEMMA StartFlow ==
  ASSUME Base, Base', OrderOK, CompleteOK, RequestAcked \/ RequestAckLost
  PROVE  OrderOK' /\ CompleteOK'
<1>1. client \in [phase : {"setup", "open"} \cup Over, requests : 0..2, disc : BOOLEAN]
  BY DEF Base, TypeOK
<1>2. /\ client.requests < 2 /\ StartTask /\ client'.requests = client.requests + 1
      /\ marks' = marks \cup RetryMark /\ UNCHANGED <<wire, request, channel, received>>
      /\ client'.phase # "done"
  BY <1>1 DEF RequestAcked, RequestAckLost, routerVars
<1>3. PICK t \in Tasks : /\ ~Started(t) /\ Started(t)' /\ host[t] = NoTask
                         /\ host'[t] = [NoTask EXCEPT !.phase = "opening"]
                         /\ \A u \in Tasks \ {t} : host'[u] = host[u]
                         /\ "retried" \notin marks' => \A u \in Tasks : ~Started(u)
  BY <1>2, StartTaskHost
<1>4. ASSUME "retried" \notin marks'
      PROVE  /\ \A u \in Tasks : Started(u)' => u = t
             /\ received' = <<>> /\ channel' = <<>> /\ wire' = <<>>
             /\ FlowAt(t)' /\ WholeAt(t)'
  <2>1. \A u \in Tasks : ~Started(u)
    BY <1>3, <1>4
  <2>2. received' = <<>> /\ channel' = <<>> /\ wire' = <<>>
    BY <1>2, <2>1 DEF Base, TasksOK
  <2>3. host'[t].buffered = <<>> /\ host'[t].pending = <<>> /\ host'[t].next = 1
    BY <1>3 DEF NoTask
  <2>4. FlowAt(t)' /\ WholeAt(t)'
    BY <2>2, <2>3, FlowStart DEF FlowAt, WholeAt
  <2>5. \A u \in Tasks : Started(u)' => u = t
    BY <1>3, <2>1 DEF Started
  <2> QED
    BY <2>2, <2>4, <2>5
<1>5. OrderOK'
  BY <1>4 DEF OrderOK
<1> QED
  BY <1>2, <1>4, <1>5, InEmpty DEF CompleteOK

\* The steps after which the client does not listen, and those that change
\* nothing of the chunks' way.
LEMMA QuietFlow ==
  ASSUME Base, Base', OrderOK, CompleteOK,
         \/ ExpireRequest \/ RequestLost \/ SetupFails \/ ChannelClosed \/ ReconnectTimesOut \/ Drop
         \/ RenewLease \/ CancelStream \/ LeaseExpires \/ LinkUp
         \/ (\E t \in Tasks : LeaseFoundExpired(t)) \/ UNCHANGED vars
  PROVE  OrderOK' /\ CompleteOK'
<1>1. client \in [phase : {"setup", "open"} \cup Over, requests : 0..2, disc : BOOLEAN]
  BY DEF Base, TypeOK
<1>2. /\ UNCHANGED <<host, wire, received, marks>>
      /\ channel' \in {channel, <<>>} /\ (request'.consumer => request.consumer)
  <2>1. request \in RequestType
    BY DEF Base, TypeOK, RequestType
  <2>2. ExpireRequest => ~request'.consumer
    BY <2>1 DEF ExpireRequest, RequestType
  <2>3. UNCHANGED <<host, wire, received, marks>> /\ channel' \in {channel, <<>>}
        /\ (ExpireRequest \/ request' = request)
    BY DEF ExpireRequest, RequestLost, SetupFails, ChannelClosed, ReconnectTimesOut, Drop, RenewLease,
           CancelStream, LeaseExpires, LinkUp, LeaseFoundExpired, Selecting, vars, leaseVars,
           routerVars, clientVars
  <2> QED
    BY <2>2, <2>3
<1>3. /\ Listening' => Listening /\ channel' = channel
      /\ client'.phase = "done" => client.phase = "done"
  <2>1. CASE ExpireRequest \/ RenewLease \/ CancelStream \/ LeaseExpires \/ LinkUp
             \/ (\E t \in Tasks : LeaseFoundExpired(t)) \/ UNCHANGED vars
    BY <2>1 DEF ExpireRequest, RenewLease, CancelStream, LeaseExpires, LinkUp, LeaseFoundExpired,
                Selecting, vars, leaseVars, routerVars, clientVars, Listening
  <2>2. CASE RequestLost
    BY <1>1, <2>2 DEF RequestLost, routerVars, Listening
  <2>3. CASE SetupFails \/ ChannelClosed \/ ReconnectTimesOut \/ Drop
    BY <1>1, <2>3 DEF SetupFails, ChannelClosed, ReconnectTimesOut, Drop, Listening
  <2> QED
    BY <2>1, <2>2, <2>3
<1>4. ASSUME NEW u \in Tasks, FlowAt(u)
      PROVE  FlowAt(u)' /\ (channel' = channel /\ WholeAt(u) => WholeAt(u)')
  <2>1. Flow(received, <<>>, wire, host[u].buffered, host[u].pending, host[u].next)
    BY <1>4, WayType, FlowCut DEF FlowAt
  <2> QED
    BY <1>2, <1>4, <2>1 DEF FlowAt, WholeAt
<1>5. \A u \in Tasks : Started(u)' <=> Started(u)
  BY <1>2 DEF Started
<1>6. OrderOK'
  BY <1>2, <1>4, <1>5 DEF OrderOK
<1>7. ASSUME marks' = {}, Listening', request'.consumer, NEW u \in Tasks, Started(u)'
      PROVE  WholeAt(u)'
  <2>1. FlowAt(u) /\ WholeAt(u)
    BY <1>2, <1>3, <1>5, <1>7 DEF OrderOK, CompleteOK
  <2> QED
    BY <1>3, <1>4, <1>7, <2>1
<1>8. ASSUME marks' = {}
      PROVE  /\ Listening' /\ LastChunk \in Chunks(channel') =>
                   1..LastChunk \subseteq In(received') \cup Chunks(channel')
             /\ client'.phase = "done" => 1..LastChunk \subseteq In(received')
  BY <1>2, <1>3, <1>8 DEF CompleteOK
<1> QED
  BY <1>6, <1>7, <1>8 DEF CompleteOK

\* The link breaks or the host crashes.
LEMMA FaultFlow ==
  ASSUME Base, Base', OrderOK, CompleteOK, LinkDown \/ HostCrashes
  PROVE  OrderOK' /\ CompleteOK'
<1>1. UNCHANGED <<client, received, request, channel>> /\ marks \subseteq marks'
  BY DEF LinkDown, HostCrashes, clientVars, routerVars
<1>2. CASE LinkDown
  <2>1. host' = host /\ wire' = <<>> /\ (marks' = {} => wire = <<>>)
    BY <1>2 DEF LinkDown
  <2>2. ASSUME NEW u \in Tasks, FlowAt(u)
        PROVE  FlowAt(u)' /\ (wire = <<>> /\ WholeAt(u) => WholeAt(u)')
    <3>1. Flow(received, channel, <<>>, host[u].buffered, host[u].pending, host[u].next)
      BY <2>2, WayType, FlowCut DEF FlowAt
    <3> QED
      BY <1>1, <2>1, <2>2, <3>1 DEF FlowAt, WholeAt
  <2>3. \A u \in Tasks : Started(u)' <=> Started(u)
    BY <2>1 DEF Started
  <2>4. Listening' <=> Listening
    BY <1>1 DEF Listening
  <2>5. marks' \cap {"resent", "retried"} = {} => marks \cap {"resent", "retried"} = {}
    BY <1>1
  <2>6. OrderOK'
    BY <2>2, <2>3, <2>5 DEF OrderOK
  <2>7. marks' = {} => marks = {} /\ wire = <<>> /\ \A u \in Tasks : Started(u) => FlowAt(u)
    BY <1>1, <2>1 DEF OrderOK
  <2> QED
    BY <1>1, <2>2, <2>3, <2>4, <2>6, <2>7 DEF CompleteOK
<1>3. CASE HostCrashes
  <2>1. host' = [t \in Tasks |-> IF Running(t) THEN Gone(host[t]) ELSE host[t]] /\ wire' = wire
        /\ marks' # {}
    BY <1>3 DEF HostCrashes
  <2>2. ASSUME NEW u \in Tasks, Started(u)', marks' \cap {"resent", "retried"} = {}
        PROVE  FlowAt(u)'
    <3>1. host[u] \in Task
      BY DEF Base, TypeOK
    <3>2. Started(u)
      BY <2>1, <2>2 DEF Started, Running
    <3>3. FlowAt(u)
      BY <1>1, <2>2, <3>2 DEF OrderOK
    <3>4. Flow(received, channel, wire, <<>>, <<>>, host[u].next)
      BY <3>3, WayType, FlowCut DEF FlowAt
    <3>5. Gone(host[u]).buffered = <<>> /\ Gone(host[u]).pending = <<>>
          /\ Gone(host[u]).next = host[u].next
      BY <3>1, GoneSound
    <3>6. host'[u] = Gone(host[u]) \/ host'[u] = host[u]
      BY <2>1
    <3> QED
      BY <1>1, <2>1, <3>3, <3>4, <3>5, <3>6 DEF FlowAt
  <2> QED
    BY <2>1, <2>2 DEF OrderOK, CompleteOK
<1> QED
  BY <1>2, <1>3

\* The order and the completeness of the chunks hold in every reachable state.
LEMMA RelayInvariant == Spec => []RelayInv
<1>1. Init => OrderOK /\ CompleteOK
  BY InEmpty DEF Init, OrderOK, CompleteOK, Started, NoTask
<1>2. Base /\ Base' /\ OrderOK /\ CompleteOK /\ [Next]_vars => OrderOK' /\ CompleteOK'
  <2> SUFFICES ASSUME Base, Base', OrderOK, CompleteOK, [Next]_vars PROVE OrderOK' /\ CompleteOK'
    OBVIOUS
  <2>1. ASSUME NEW t \in Tasks, UpstreamOpens(t) \/ UpstreamRefuses(t) \/ Select(t) \/ Drain(t)
        PROVE  OrderOK' /\ CompleteOK'
    BY <2>1, RelayFlow, SelectFlow, IdleFlow, QuietFlow DEF Select, Drain
  <2> QED
    BY <2>1, RouterFlow, PollFlow, StartFlow, QuietFlow, FaultFlow DEF Next, Client, Environment
<1>3. RelayInv <=> Base /\ OrderOK /\ CompleteOK
  BY DEF RelayInv
<1> QED
  BY <1>1, <1>2, <1>3, BaseInvariant, PTL DEF Spec

\* The stream yields the upstream's chunks in order and each at most once,
\* unless an acknowledgement was lost or the request retried, and a stream that
\* ends with Done has yielded all of them, unless the link or the client's
\* channel lost some.
THEOREM StreamInOrder == Spec => []StreamFaithful
<1>1. RelayInv => StreamFaithful
  <2> SUFFICES ASSUME Base, OrderOK, CompleteOK PROVE StreamFaithful
    BY DEF RelayInv
  <2>1. ASSUME marks \cap {"resent", "retried"} = {} PROVE Inc(received)
    <3>1. CASE \E t \in Tasks : Started(t)
      BY <2>1, <3>1 DEF OrderOK, FlowAt, Flow
    <3>2. CASE \A t \in Tasks : ~Started(t)
      BY <3>2, InEmpty DEF Base, TasksOK
    <3> QED
      BY <3>1, <3>2
  <2>2. ASSUME client.phase = "done", marks = {} PROVE received = [i \in 1..LastChunk |-> i]
    <3>1. Inc(received)
      BY <2>1, <2>2
    <3>2. 1..LastChunk \subseteq In(received) /\ received \in Seq(1..LastChunk)
      BY <2>2 DEF CompleteOK, Base, TypeOK
    <3> QED
      BY <3>1, <3>2, CountsUp
  <2> QED
    BY <2>1, <2>2 DEF StreamFaithful, Inc
<1> QED
  BY <1>1, RelayInvariant, PTL
================================================================================
