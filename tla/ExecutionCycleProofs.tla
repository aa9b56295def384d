------------------------ MODULE ExecutionCycleProofs ------------------------
(***************************************************************************)
(* Proofs about the execution cycle: its types, the conversation every     *)
(* call of the model is made with, and that it implements the turn that    *)
(* SessionTurn assumes.                                                    *)
(***************************************************************************)
EXTENDS ExecutionCycle, FiniteSetTheorems, SequenceTheorems, WellFoundedInduction, TLAPS

InTurn(s) == pc[s] \notin {"done", "start"}

\* Where the loop is says in which state it is.
PlaceAt(s) ==
    /\ Asks(s) => state[s] = "CallLlm"
    /\ pc[s] = "tools" => state[s] = "ProcessingToolCalls"
    /\ pc[s] = "waiting" => state[s] = "WaitingForEvent"
    /\ pc[s] = "compacting" => state[s] = "Stopped" /\ stop_type[s] = "context"
    /\ pc[s] = "start" => state[s] = "BeforeLlmCall"
    /\ pc[s] = "backoff" => call[s].attempt < MaxRetries

\* The states from which the model may be called with the context as it is.
Ready(s) ==
    \/ state[s] \in {"BeforeLlmCall", "CallLlm", "AfterLlm", "WaitingForEvent"}
    \/ state[s] = "Stopped" /\ stop_type[s] = "context"

\* msgs ends with a request for calls, and everything before it is answered.
Open(msgs, calls) ==
    /\ calls # {}
    /\ \E front \in Seq(Messages), f \in Finishes :
          Paired(front) /\ msgs = Append(front, Message("assistant", calls, f))

\* The context is paired wherever the model may be called with it, and lacks
\* exactly the results of the running batch while tools run.
PairAt(s) ==
    InTurn(s) /\ context[s].owner = s /\ Paired(initial[s]) =>
       /\ Ready(s) => Paired(context[s].messages)
       /\ state[s] = "ProcessingToolCalls" => Open(context[s].messages, response[s].calls)

\* No note of middleware is stored.
Unnoted(h) == \A i \in 1..Len(h) : h[i].kind # "note"

\* The context and the stored history grow together, but for the notes.
FollowAt(s) ==
    /\ Unnoted(history[s])
    /\ InTurn(s) /\ continuations[s] = 0 /\ ~reviewed[s] /\ initial[s] # <<>> =>
          Mirrors(context[s].messages, Effective(history[s]))

\* A response is missing from the store exactly from the call of the model
\* to the end of AfterLlm, or for good.
StoredAt(s) ==
    /\ pc[s] = "start" => ~unstored[s]
    /\ InTurn(s) /\ (Asks(s) \/ state[s] = "AfterLlm") => unstored[s]
    /\ /\ InTurn(s) /\ ~Asks(s)
       /\ \/ Ready(s) /\ state[s] # "AfterLlm"
          \/ state[s] \in {"ProcessingToolCalls", "Complete"}
       => ~unstored[s]

\* A context kept from a session that is about to end its turn was taken in
\* that turn.
KeptAt(s) ==
    /\ InTurn(s) /\ state[s] = "Complete" /\ Paired(initial[s])
    /\ last_context # None /\ last_context.owner = s
    => Paired(last_context.messages)

PlaceOK  == \A s \in Sessions : PlaceAt(s)
PairOK   == \A s \in Sessions : PairAt(s)
FollowOK == \A s \in Sessions : FollowAt(s)
StoredOK == \A s \in Sessions : StoredAt(s)

\* Until the one review of the shared middleware object every session has a
\* context of its own.
ReviewOK == ~already_reviewed => \A s \in Sessions : context[s].owner = s /\ KeptAt(s)

CycleInv == TypeOK /\ PlaceOK /\ StoredOK /\ FollowOK /\ PairOK /\ ReviewOK

-----------------------------------------------------------------------------
(***************************************************************************)
(* The effective history.                                                  *)
(***************************************************************************)

\* A non-empty set of positions has a last one.
LEMMA LastPosition ==
  ASSUME NEW n \in Nat, NEW S \in SUBSET (1..n), S # {}
  PROVE  \E i \in S : \A j \in S : j <= i
<1> DEFINE Less == OpToRel(<, Nat)
           B == {k \in 0..n : n - k \in S}
<1>1. IsWellFoundedOn(Less, Nat)
  BY NatLessThanWellFounded
<1>2. Less = {ss \in Nat \X Nat : ss[1] < ss[2]}
  BY DEF OpToRel
<1>3. B \subseteq Nat
  OBVIOUS
<1>4. PICK i \in S : TRUE
  OBVIOUS
<1>5. n - i \in 0..n /\ n - (n - i) = i
  BY <1>4
<1>6. B # {}
  BY <1>4, <1>5
<1> HIDE DEF Less, B
<1>7. PICK k \in B : \A l \in B : ~(<<l, k>> \in Less)
  BY <1>1, <1>3, <1>6, WFMin
<1>8. k \in 0..n /\ n - k \in S
  BY <1>7 DEF B
<1>9. ASSUME NEW j \in S PROVE j <= n - k
  <2>1. j \in 1..n /\ n - j \in 0..n /\ n - (n - j) = j
    OBVIOUS
  <2>2. n - j \in B
    BY <2>1 DEF B
  <2>3. ~(n - j < k)
    BY <1>2, <1>3, <1>7, <2>2
  <2> QED
    BY <2>1, <2>3, <1>8
<1> QED
  BY <1>8, <1>9

Requests(h) == {i \in 1..Len(h) : h[i].kind = "request"}

\* The last request of a history that has one.
LEMMA LastRequest ==
  ASSUME NEW h \in Seq(Messages), Requests(h) # {}
  PROVE  LET i == CHOOSE i \in Requests(h) : \A j \in Requests(h) : j <= i
         IN  /\ i \in Requests(h)
             /\ \A j \in Requests(h) : j <= i
             /\ Effective(h) = SubSeq(h, i, Len(h))
<1>1. \E i \in Requests(h) : \A j \in Requests(h) : j <= i
  <2>1. Requests(h) \in SUBSET (1..Len(h)) /\ Len(h) \in Nat
    BY DEF Requests
  <2> QED
    BY <2>1, LastPosition
<1>2. Effective(h) = LET i == CHOOSE i \in Requests(h) : \A j \in Requests(h) : j <= i
                     IN  SubSeq(h, i, Len(h))
  BY DEF Effective, Requests
<1> QED
  BY <1>1, <1>2

LEMMA EffectiveType ==
  ASSUME NEW h \in Seq(Messages)
  PROVE  Effective(h) \in Seq(Messages)
<1>1. CASE Requests(h) = {}
  BY <1>1 DEF Effective, Requests
<1>2. CASE Requests(h) # {}
  <2>1. PICK i \in Requests(h) : Effective(h) = SubSeq(h, i, Len(h))
    BY <1>2, LastRequest
  <2>2. i \in 1..Len(h)
    BY DEF Requests
  <2> QED
    BY <2>1, <2>2, SubSeqProperties
<1> QED
  BY <1>1, <1>2

\* What is stored after the last request is stored after the effective
\* history.
LEMMA EffectiveAppend ==
  ASSUME NEW h \in Seq(Messages), NEW m \in Messages, m.kind # "request"
  PROVE  Effective(Append(h, m)) = Append(Effective(h), m)
<1> DEFINE g == Append(h, m)
<1>1. g \in Seq(Messages) /\ Len(g) = Len(h) + 1 /\ Len(h) \in Nat
  OBVIOUS
<1>2. \A i \in 1..Len(h) : g[i] = h[i]
  OBVIOUS
<1>3. g[Len(h) + 1] = m
  OBVIOUS
<1> HIDE DEF g
<1>4. Requests(g) = Requests(h)
  <2>1. ASSUME NEW i \in Requests(g) PROVE i \in Requests(h)
    <3>1. i \in 1..Len(g) /\ g[i].kind = "request"
      BY DEF Requests
    <3>2. i # Len(h) + 1
      BY <3>1, <1>3
    <3>3. i \in 1..Len(h)
      BY <3>1, <3>2, <1>1
    <3> QED
      BY <3>1, <3>3, <1>2 DEF Requests
  <2>2. ASSUME NEW i \in Requests(h) PROVE i \in Requests(g)
    <3>1. i \in 1..Len(h) /\ h[i].kind = "request"
      BY DEF Requests
    <3>2. i \in 1..Len(g)
      BY <3>1, <1>1
    <3> QED
      BY <3>1, <3>2, <1>2 DEF Requests
  <2> QED
    BY <2>1, <2>2
<1>5. CASE Requests(h) = {}
  BY <1>4, <1>5 DEF Effective, Requests, g
<1>6. CASE Requests(h) # {}
  <2> DEFINE i == CHOOSE i \in Requests(h) : \A j \in Requests(h) : j <= i
  <2>1. i \in Requests(h) /\ Effective(h) = SubSeq(h, i, Len(h))
    BY <1>6, LastRequest
  <2>2. Effective(g) = SubSeq(g, i, Len(g))
    BY <1>1, <1>4, <1>6, LastRequest
  <2> HIDE DEF i
  <2>3. i \in 1..Len(h)
    BY <2>1 DEF Requests
  <2> DEFINE a == SubSeq(g, i, Len(g))
             b == Append(SubSeq(h, i, Len(h)), m)
  <2>4. /\ SubSeq(h, i, Len(h)) \in Seq(Messages)
        /\ Len(SubSeq(h, i, Len(h))) = Len(h) - i + 1
        /\ \A k \in 1..(Len(h) - i + 1) : SubSeq(h, i, Len(h))[k] = h[i + k - 1]
    BY <2>3, SubSeqProperties
  <2>5. /\ a \in Seq(Messages)
        /\ Len(a) = Len(h) - i + 2
        /\ \A k \in 1..(Len(h) - i + 2) : a[k] = g[i + k - 1]
    <3>1. i \in 1..(Len(g) + 1) /\ Len(g) \in i - 1..Len(g) /\ i <= Len(g)
      BY <2>3, <1>1
    <3>2. /\ a \in Seq(Messages)
          /\ Len(a) = Len(g) - i + 1
          /\ \A k \in 1..(Len(g) - i + 1) : a[k] = g[i + k - 1]
      BY <3>1, <1>1, SubSeqProperties
    <3>3. Len(g) - i + 1 = Len(h) - i + 2
      BY <1>1, <2>3
    <3> QED
      BY <3>2, <3>3
  <2>6. /\ b \in Seq(Messages)
        /\ Len(b) = Len(h) - i + 2
        /\ \A k \in 1..(Len(h) - i + 1) : b[k] = SubSeq(h, i, Len(h))[k]
        /\ b[Len(h) - i + 2] = m
    <3>1. Len(h) - i + 2 = Len(SubSeq(h, i, Len(h))) + 1
      BY <2>3, <2>4, <1>1
    <3> QED
      BY <2>4, <3>1
  <2> HIDE DEF a, b
  <2>7. ASSUME NEW k \in 1..Len(a) PROVE a[k] = b[k]
    <3>1. CASE k \in 1..(Len(h) - i + 1)
      <4>1. i + k - 1 \in 1..Len(h)
        BY <3>1, <2>3, <1>1
      <4>2. k \in 1..(Len(h) - i + 2)
        BY <2>5
      <4> QED
        BY <4>1, <4>2, <3>1, <2>4, <2>5, <2>6, <1>2
    <3>2. CASE k = Len(h) - i + 2
      <4>1. i + k - 1 = Len(h) + 1
        BY <3>2, <2>3, <1>1
      <4>2. k \in 1..(Len(h) - i + 2)
        BY <2>5
      <4> QED
        BY <4>1, <4>2, <3>2, <2>5, <2>6, <1>3
    <3> QED
      BY <3>1, <3>2, <2>3, <2>5, <1>1
  <2>8. a = b
    BY <2>5, <2>6, <2>7, SeqEqual
  <2> QED
    BY <2>1, <2>2, <2>8 DEF a, b, g
<1> QED
  BY <1>5, <1>6

\* A compaction leaves its own two messages.
LEMMA EffectiveCompacted ==
  ASSUME NEW h \in Seq(Messages)
  PROVE  Effective(h \o <<Plain("request"), Plain("summary")>>)
            = <<Plain("request"), Plain("summary")>>
<1> DEFINE r == Append(h, Plain("request"))
           n == Len(h) + 1
<1>1. Plain("request") \in Messages /\ Plain("summary") \in Messages
      /\ Plain("request").kind = "request" /\ Plain("summary").kind = "summary"
  BY DEF Plain, Message, Messages, Kinds, Finishes
<1>2. h \o <<Plain("request"), Plain("summary")>> = Append(r, Plain("summary"))
  BY <1>1
<1>3. r \in Seq(Messages) /\ Len(r) = n /\ n \in 1..Len(r) /\ r[n] = Plain("request")
  BY <1>1
<1>4. Effective(r) = <<Plain("request")>>
  <2> HIDE DEF r, n
  <2>1. n \in Requests(r)
    BY <1>1, <1>3 DEF Requests
  <2>2. PICK i \in Requests(r) : (\A j \in Requests(r) : j <= i)
                                 /\ Effective(r) = SubSeq(r, i, Len(r))
    BY <1>3, <2>1, LastRequest
  <2>3. i = n
    <3>1. i \in 1..n /\ n <= i /\ n \in Nat
      BY <1>3, <2>1, <2>2 DEF Requests
    <3> QED
      BY <3>1
  <2>4. SubSeq(r, n, n) = <<r[n]>>
    <3>1. n \in Nat /\ n \in 1..(Len(r) + 1) /\ n \in n - 1..Len(r) /\ n - n + 1 = 1
      BY <1>3
    <3>2. /\ SubSeq(r, n, n) \in Seq(Messages)
          /\ Len(SubSeq(r, n, n)) = 1
          /\ SubSeq(r, n, n)[1] = r[n]
      BY <3>1, <1>3, SubSeqProperties
    <3>3. <<r[n]>> \in Seq(Messages) /\ Len(<<r[n]>>) = 1 /\ <<r[n]>>[1] = r[n]
      BY <1>1, <1>3
    <3>4. \A k \in 1..1 : SubSeq(r, n, n)[k] = <<r[n]>>[k]
      BY <3>2, <3>3
    <3> QED
      BY <3>2, <3>3, <3>4, SeqEqual
  <2> QED
    BY <2>2, <2>3, <2>4, <1>3
<1>5. Effective(Append(r, Plain("summary"))) = Append(Effective(r), Plain("summary"))
  <2> HIDE DEF r
  <2> QED
    BY <1>1, <1>3, EffectiveAppend
<1>6. Append(<<Plain("request")>>, Plain("summary"))
         = <<Plain("request"), Plain("summary")>>
  <2> DEFINE a == Append(<<Plain("request")>>, Plain("summary"))
             b == <<Plain("request"), Plain("summary")>>
  <2>1. /\ a \in Seq(Messages) /\ Len(a) = 2
        /\ a[1] = Plain("request") /\ a[2] = Plain("summary")
    <3>1. <<Plain("request")>> \in Seq(Messages) /\ Len(<<Plain("request")>>) = 1
          /\ <<Plain("request")>>[1] = Plain("request")
      BY <1>1
    <3> QED
      BY <1>1, <3>1
  <2>2. /\ b \in Seq(Messages) /\ Len(b) = 2
        /\ b[1] = Plain("request") /\ b[2] = Plain("summary")
    BY <1>1
  <2> HIDE DEF a, b
  <2>3. \A k \in 1..2 : a[k] = b[k]
    BY <2>1, <2>2
  <2>4. a = b
    BY <2>1, <2>2, <2>3, SeqEqual
  <2> QED
    BY <2>4 DEF a, b
<1> QED
  BY <1>2, <1>4, <1>5, <1>6

-----------------------------------------------------------------------------
(***************************************************************************)
(* A context without its notes.                                            *)
(***************************************************************************)
LEMMA LastingCount ==
  ASSUME NEW q \in Seq(Messages), NEW i \in 0..Len(q)
  PROVE  IsFiniteSet(Lasting(q, i)) /\ Cardinality(Lasting(q, i)) \in Nat
<1>1. i \in Nat /\ IsFiniteSet(1..i)
  BY FS_Interval
<1> QED
  BY <1>1, FS_Subset, FS_CardinalityType DEF Lasting

LEMMA LastingAppend ==
  ASSUME NEW q \in Seq(Messages), NEW m \in Messages
  PROVE  LET g == Append(q, m)
         IN  /\ \A i \in 1..Len(q) : Lasting(g, i) = Lasting(q, i) /\ g[i] = q[i]
             /\ Lasting(g, Len(q)) = Lasting(q, Len(q))
             /\ Len(g) = Len(q) + 1 /\ g[Len(q) + 1] = m /\ Len(q) \in Nat
             /\ m.kind = "note" => Lasting(g, Len(q) + 1) = Lasting(q, Len(q))
             /\ m.kind # "note" =>
                   /\ Lasting(g, Len(q) + 1) = Lasting(q, Len(q)) \cup {Len(q) + 1}
                   /\ Cardinality(Lasting(g, Len(q) + 1)) = Cardinality(Lasting(q, Len(q))) + 1
<1> DEFINE g == Append(q, m)
           n == Len(q)
<1>1. Len(g) = n + 1 /\ n \in Nat /\ g[n + 1] = m /\ \A i \in 1..n : g[i] = q[i]
  OBVIOUS
<1> HIDE DEF g, n
<1>2. ASSUME NEW i \in 0..n PROVE Lasting(g, i) = Lasting(q, i)
  <2>1. \A j \in 1..i : j \in 1..n
    BY <1>1
  <2> QED
    BY <1>1, <2>1 DEF Lasting
<1>3. \A j : j \in 1..(n + 1) <=> j \in 1..n \/ j = n + 1
  BY <1>1
<1>4. m.kind = "note" => Lasting(g, n + 1) = Lasting(q, n)
  BY <1>1, <1>3 DEF Lasting
<1>5. m.kind # "note" => Lasting(g, n + 1) = Lasting(q, n) \cup {n + 1}
  BY <1>1, <1>3 DEF Lasting
<1>6. IsFiniteSet(Lasting(q, n)) /\ n + 1 \notin Lasting(q, n)
  <2>1. n \in 0..Len(q)
    BY <1>1 DEF n
  <2> QED
    BY <1>1, <2>1, LastingCount DEF Lasting
<1>7. Cardinality(Lasting(q, n) \cup {n + 1}) = Cardinality(Lasting(q, n)) + 1
  BY <1>6, FS_AddElement
<1>8. Lasting(g, n) = Lasting(q, n) /\ \A i \in 1..n : Lasting(g, i) = Lasting(q, i)
  BY <1>1, <1>2
<1> QED
  BY <1>1, <1>4, <1>5, <1>7, <1>8 DEF g, n

LEMMA MirrorsSelf ==
  ASSUME NEW q \in Seq(Messages), Unnoted(q)
  PROVE  Mirrors(q, q)
<1>1. ASSUME NEW i \in 0..Len(q) PROVE Cardinality(Lasting(q, i)) = i
  <2>1. Lasting(q, i) = 1..i
    BY DEF Lasting, Unnoted
  <2>2. i \in Nat /\ 1 \in Int /\ Cardinality(1..i) = i
    BY FS_Interval
  <2> QED
    BY <2>1, <2>2
<1>2. Len(q) \in Nat /\ Lasting(q, Len(q)) \subseteq 1..Len(q)
  BY DEF Lasting
<1> QED
  BY <1>1, <1>2 DEF Mirrors

\* A message that is stored keeps context and history alike.
LEMMA MirrorsAppend ==
  ASSUME NEW q \in Seq(Messages), NEW h \in Seq(Messages), NEW m \in Messages,
         m.kind # "note", Mirrors(q, h)
  PROVE  Mirrors(Append(q, m), Append(h, m))
<1> DEFINE g == Append(q, m)
           k == Append(h, m)
<1>1. /\ \A i \in 1..Len(q) : Lasting(g, i) = Lasting(q, i) /\ g[i] = q[i]
      /\ Len(g) = Len(q) + 1 /\ g[Len(q) + 1] = m /\ Len(q) \in Nat
      /\ Lasting(g, Len(g)) = Lasting(q, Len(q)) \cup {Len(q) + 1}
      /\ Cardinality(Lasting(g, Len(q) + 1)) = Cardinality(Lasting(q, Len(q))) + 1
  BY LastingAppend
<1>2. Len(k) = Len(h) + 1 /\ Len(h) \in Nat /\ k[Len(h) + 1] = m
      /\ \A j \in 1..Len(h) : k[j] = h[j]
  OBVIOUS
<1> HIDE DEF g, k
<1>3. Cardinality(Lasting(q, Len(q))) = Len(h)
  BY DEF Mirrors
<1>4. ASSUME NEW i \in Lasting(g, Len(g)) PROVE g[i] = k[Cardinality(Lasting(g, i))]
  <2>1. CASE i = Len(q) + 1
    BY <1>1, <1>2, <1>3, <2>1
  <2>2. CASE i \in Lasting(q, Len(q))
    <3>1. i \in 1..Len(q) /\ q[i] = h[Cardinality(Lasting(q, i))]
      BY <2>2 DEF Lasting, Mirrors
    <3>2. Cardinality(Lasting(q, i)) \in 1..Len(h)
      <4>1. i \in 0..Len(q) /\ Len(q) \in 0..Len(q)
        BY <1>1, <3>1
      <4>2. /\ IsFiniteSet(Lasting(q, i)) /\ IsFiniteSet(Lasting(q, Len(q)))
            /\ Cardinality(Lasting(q, i)) \in Nat
        BY <4>1, LastingCount
      <4>3. Lasting(q, i) \subseteq Lasting(q, Len(q)) /\ i \in Lasting(q, i)
        BY <1>1, <2>2, <3>1 DEF Lasting
      <4>4. Cardinality(Lasting(q, i)) <= Len(h)
        BY <1>3, <4>2, <4>3, FS_Subset
      <4>5. Cardinality(Lasting(q, i)) # 0
        BY <4>2, <4>3, FS_EmptySet
      <4> QED
        BY <1>2, <4>2, <4>4, <4>5
    <3> QED
      BY <1>1, <1>2, <3>1, <3>2
  <2> QED
    BY <1>1, <2>1, <2>2
<1>5. Cardinality(Lasting(g, Len(g))) = Len(k)
  BY <1>1, <1>2, <1>3
<1> QED
  BY <1>4, <1>5 DEF Mirrors, g, k

\* A note changes nothing.
LEMMA MirrorsNote ==
  ASSUME NEW q \in Seq(Messages), NEW h, NEW m \in Messages, m.kind = "note", Mirrors(q, h)
  PROVE  Mirrors(Append(q, m), h)
<1> DEFINE g == Append(q, m)
<1>1. /\ \A i \in 1..Len(q) : Lasting(g, i) = Lasting(q, i) /\ g[i] = q[i]
      /\ Lasting(g, Len(g)) = Lasting(q, Len(q))
  BY LastingAppend
<1> HIDE DEF g
<1>2. Lasting(q, Len(q)) \subseteq 1..Len(q)
  BY DEF Lasting
<1> QED
  BY <1>1, <1>2 DEF Mirrors, g

\* What a context is after middleware ran on it.
LEMMA NotedMirrors ==
  ASSUME NEW q \in Seq(Messages), NEW g \in Noted(q)
  PROVE  /\ g \in Seq(Messages)
         /\ \A h : Mirrors(q, h) => Mirrors(g, h)
<1>1. Plain("note") \in Messages /\ Plain("note").kind = "note"
  BY DEF Plain, Message, Messages, Kinds, Finishes
<1>2. g = q \/ g = Append(q, Plain("note"))
  BY DEF Noted
<1>3. Append(q, Plain("note")) \in Seq(Messages)
  BY <1>1
<1> QED
  BY <1>1, <1>2, <1>3, MirrorsNote

LEMMA UnnotedAppend ==
  ASSUME NEW h \in Seq(Messages), NEW m \in Messages, Unnoted(h), m.kind # "note"
  PROVE  Unnoted(Append(h, m))
<1>1. Len(Append(h, m)) = Len(h) + 1 /\ Len(h) \in Nat /\ Append(h, m)[Len(h) + 1] = m
      /\ \A i \in 1..Len(h) : Append(h, m)[i] = h[i]
  OBVIOUS
<1>2. \A i : i \in 1..(Len(h) + 1) => i \in 1..Len(h) \/ i = Len(h) + 1
  BY <1>1
<1> QED
  BY <1>1, <1>2 DEF Unnoted

LEMMA UnnotedEffective ==
  ASSUME NEW h \in Seq(Messages), Unnoted(h)
  PROVE  Unnoted(Effective(h))
<1>1. CASE Requests(h) = {}
  BY <1>1 DEF Effective, Requests
<1>2. CASE Requests(h) # {}
  <2>1. PICK i \in Requests(h) : Effective(h) = SubSeq(h, i, Len(h))
    BY <1>2, LastRequest
  <2>2. i \in 1..Len(h) /\ Len(h) \in Nat
    BY DEF Requests
  <2>3. Len(SubSeq(h, i, Len(h))) = Len(h) - i + 1
        /\ \A k \in 1..(Len(h) - i + 1) : SubSeq(h, i, Len(h))[k] = h[i + k - 1]
    BY <2>2, SubSeqProperties
  <2>4. \A k \in 1..(Len(h) - i + 1) : i + k - 1 \in 1..Len(h)
    BY <2>2
  <2> QED
    BY <2>1, <2>3, <2>4 DEF Unnoted
<1> QED
  BY <1>1, <1>2

-----------------------------------------------------------------------------
(***************************************************************************)
(* Pairs of requests and results.                                          *)
(***************************************************************************)

\* A message that neither requests nor answers calls keeps the pairs.
LEMMA PairedPlain ==
  ASSUME NEW q \in Seq(Messages), NEW m \in Messages, Paired(q),
         m.kind # "results", m.kind = "assistant" => m.calls = {}
  PROVE  Paired(Append(q, m))
<1> DEFINE g == Append(q, m)
<1>1. Len(g) = Len(q) + 1 /\ Len(q) \in Nat /\ g[Len(q) + 1] = m
      /\ \A i \in 1..Len(q) : g[i] = q[i]
  OBVIOUS
<1> HIDE DEF g
<1>2. ASSUME NEW i \in 1..Len(q)
      PROVE  /\ g[i].kind = "assistant" /\ g[i].calls # {} =>
                   /\ i < Len(g)
                   /\ g[i + 1].kind = "results" /\ g[i + 1].calls = g[i].calls
             /\ g[i].kind = "results" =>
                   /\ i > 1
                   /\ g[i - 1].kind = "assistant" /\ g[i - 1].calls = g[i].calls
  <2>1. g[i] = q[i] /\ i < Len(g)
    BY <1>1
  <2>2. CASE q[i].kind = "assistant" /\ q[i].calls # {}
    <3>1. i < Len(q) /\ q[i + 1].kind = "results" /\ q[i + 1].calls = q[i].calls
      BY <2>2 DEF Paired
    <3>2. i + 1 \in 1..Len(q)
      BY <1>1, <3>1
    <3> QED
      BY <1>1, <2>1, <2>2, <3>1, <3>2
  <2>3. CASE q[i].kind = "results"
    <3>1. i > 1 /\ q[i - 1].kind = "assistant" /\ q[i - 1].calls = q[i].calls
      BY <2>3 DEF Paired
    <3>2. i - 1 \in 1..Len(q)
      BY <1>1, <3>1
    <3> QED
      BY <1>1, <2>1, <2>3, <3>1, <3>2
  <2> QED
    BY <2>1, <2>2, <2>3
<1>3. \A i \in 1..Len(g) : i \in 1..Len(q) \/ i = Len(q) + 1
  BY <1>1
<1> QED
  BY <1>1, <1>2, <1>3 DEF Paired, g

\* The results of exactly the requested calls close an open request.
LEMMA PairedResults ==
  ASSUME NEW msgs \in Seq(Messages), NEW calls \in SUBSET Calls, Open(msgs, calls)
  PROVE  Paired(Append(msgs, Message("results", calls, "other")))
<1> DEFINE r == Message("results", calls, "other")
<1>1. PICK q \in Seq(Messages), f \in Finishes :
         Paired(q) /\ msgs = Append(q, Message("assistant", calls, f))
  BY DEF Open
<1> DEFINE a == Message("assistant", calls, f)
           n == Len(q)
           g == Append(msgs, r)
<1>2. /\ a.kind = "assistant" /\ a.calls = calls /\ r.kind = "results" /\ r.calls = calls
      /\ a \in Messages /\ r \in Messages
  BY DEF Message, Messages, Kinds, Finishes
<1>3. /\ n \in Nat /\ Len(g) = n + 2 /\ g[n + 1] = a /\ g[n + 2] = r
      /\ \A i \in 1..n : g[i] = q[i]
  <2> HIDE DEF a, r
  <2> QED
    BY <1>1, <1>2 DEF a
<1> HIDE DEF a, r, g, n
<1>4. ASSUME NEW i \in 1..Len(g)
      PROVE  /\ g[i].kind = "assistant" /\ g[i].calls # {} =>
                   /\ i < Len(g)
                   /\ g[i + 1].kind = "results" /\ g[i + 1].calls = g[i].calls
             /\ g[i].kind = "results" =>
                   /\ i > 1
                   /\ g[i - 1].kind = "assistant" /\ g[i - 1].calls = g[i].calls
  <2>1. CASE i = n + 2
    <3>1. i - 1 = n + 1 /\ i > 1 /\ g[i] = r /\ r.kind # "assistant"
      BY <1>2, <1>3, <2>1
    <3> QED
      BY <1>2, <1>3, <3>1
  <2>2. CASE i = n + 1
    <3>1. i + 1 = n + 2 /\ i < Len(g) /\ g[i] = a /\ a.kind # "results"
      BY <1>2, <1>3, <2>2
    <3> QED
      BY <1>2, <1>3, <3>1
  <2>3. CASE i \in 1..n
    <3>1. g[i] = q[i] /\ i \in 1..Len(q)
      BY <1>3, <2>3 DEF n
    <3>2. CASE q[i].kind = "assistant" /\ q[i].calls # {}
      <4>1. i < n /\ q[i + 1].kind = "results" /\ q[i + 1].calls = q[i].calls
        BY <1>1, <3>1, <3>2 DEF Paired, n
      <4>2. i + 1 \in 1..n /\ i < Len(g)
        BY <1>3, <4>1
      <4> QED
        BY <1>3, <3>1, <3>2, <4>1, <4>2
    <3>3. CASE q[i].kind = "results"
      <4>1. i > 1 /\ q[i - 1].kind = "assistant" /\ q[i - 1].calls = q[i].calls
        BY <1>1, <3>1, <3>3 DEF Paired
      <4>2. i - 1 \in 1..n
        BY <1>3, <2>3, <4>1
      <4> QED
        BY <1>3, <3>1, <3>3, <4>1, <4>2
    <3> QED
      BY <3>1, <3>2, <3>3
  <2> QED
    BY <1>3, <2>1, <2>2, <2>3
<1> QED
  BY <1>4 DEF Paired, g, r

LEMMA PairedCompacted == Paired(<<Plain("request"), Plain("summary")>>)
<1> DEFINE g == <<Plain("request"), Plain("summary")>>
<1>1. Len(g) = 2 /\ g[1].kind = "request" /\ g[2].kind = "summary"
  BY DEF Plain, Message
<1> HIDE DEF g
<1>2. \A i \in 1..2 : i = 1 \/ i = 2
  OBVIOUS
<1>3. \A i \in 1..2 : g[i].kind # "assistant" /\ g[i].kind # "results"
  BY <1>1, <1>2
<1> QED
  BY <1>1, <1>3 DEF Paired, g

-----------------------------------------------------------------------------
(***************************************************************************)
(* The number of stored messages of a kind.                                *)
(***************************************************************************)
Positions(h, kind) == {i \in 1..Len(h) : h[i].kind = kind}

LEMMA CountAppend ==
  ASSUME NEW h \in Seq(Messages), NEW m \in Messages, NEW kind
  PROVE  /\ Cardinality(Positions(h, kind)) \in Nat
         /\ Cardinality(Positions(Append(h, m), kind)) =
               Cardinality(Positions(h, kind)) + IF m.kind = kind THEN 1 ELSE 0
<1> DEFINE g == Append(h, m)
<1>1. Len(g) = Len(h) + 1 /\ Len(h) \in Nat /\ g[Len(h) + 1] = m
      /\ \A i \in 1..Len(h) : g[i] = h[i]
  OBVIOUS
<1> HIDE DEF g
<1>2. \A i : i \in 1..Len(g) <=> i \in 1..Len(h) \/ i = Len(h) + 1
  BY <1>1
<1>3. IsFiniteSet(Positions(h, kind)) /\ Cardinality(Positions(h, kind)) \in Nat
  <2>1. IsFiniteSet(1..Len(h))
    BY <1>1, FS_Interval
  <2> QED
    BY <2>1, FS_Subset, FS_CardinalityType DEF Positions
<1>4. CASE m.kind = kind
  <2>1. Positions(g, kind) = Positions(h, kind) \cup {Len(h) + 1}
    BY <1>1, <1>2, <1>4 DEF Positions
  <2>2. Len(h) + 1 \notin Positions(h, kind)
    BY <1>1 DEF Positions
  <2>3. Cardinality(Positions(h, kind) \cup {Len(h) + 1}) = Cardinality(Positions(h, kind)) + 1
    BY <1>3, <2>2, FS_AddElement
  <2> QED
    BY <1>3, <1>4, <2>1, <2>3 DEF g
<1>5. CASE m.kind # kind
  <2>1. Positions(g, kind) = Positions(h, kind)
    BY <1>1, <1>2, <1>5 DEF Positions
  <2> QED
    BY <1>3, <1>5, <2>1 DEF g
<1> QED
  BY <1>4, <1>5

-----------------------------------------------------------------------------
(***************************************************************************)
(* The steps of the cycle keep each part of the invariant.                 *)
(***************************************************************************)

LEMMA MessageTypes ==
  /\ \A kind \in Kinds : Plain(kind) \in Messages
                         /\ Plain(kind).kind = kind /\ Plain(kind).calls = {}
  /\ \A kind \in Kinds, calls \in SUBSET Calls, f \in Finishes :
        /\ Message(kind, calls, f) \in Messages
        /\ Message(kind, calls, f).kind = kind /\ Message(kind, calls, f).calls = calls
BY DEF Plain, Message, Messages, Finishes

LEMMA StoredTypes ==
  ASSUME NEW h \in Seq(Messages), NEW m \in Messages, NEW n \in Messages
  PROVE  /\ h \o <<>> = h
         /\ h \o <<m>> = Append(h, m) /\ Append(h, m) \in Seq(Messages)
         /\ h \o <<m, n>> = Append(Append(h, m), n) /\ h \o <<m, n>> \in Seq(Messages)
OBVIOUS

\* TypeOK, in four parts.
FlowType ==
    /\ cancelled \subseteq Sessions
    /\ pc \in [Sessions -> Points]
    /\ state \in [Sessions -> States]
    /\ stop_type \in [Sessions -> StopTypes]
    /\ outcome \in [Sessions -> {"none", "completed", "stopped", "cancelled", "error"}]

CountType ==
    /\ continuations \in [Sessions -> Nat]
    /\ turns \in [Sessions -> Nat]
    /\ called \in [Sessions -> Nat]
    /\ unstored \in [Sessions -> BOOLEAN]
    /\ compactions \in [Sessions -> Nat]
    /\ reviewed \in [Sessions -> BOOLEAN]

CallType ==
    /\ response \in [Sessions -> Responses]
    /\ call \in [Sessions -> LlmCalls]
    /\ pending \in [Sessions -> SUBSET Calls]
    /\ succeeded \in [Sessions -> SUBSET Calls]
    /\ turn_diffs \in [Sessions -> BOOLEAN]

TalkType ==
    /\ initial \in [Sessions -> Seq(Messages)]
    /\ context \in [Sessions -> Contexts]
    /\ history \in [Sessions -> Seq(Messages)]
    /\ already_reviewed \in BOOLEAN
    /\ last_context \in Contexts \cup {None}

\* Places, states and outcomes.
LEMMA FlowStep ==
  ASSUME FlowType, [Next]_vars
  PROVE  FlowType'
<1> USE DEF flowVars, callVars, toolVars, talkVars, countVars, sharedVars, FlowType, Points,
       States, StopTypes
<1>1. ASSUME NEW s \in Sessions, Cancel(s) PROVE FlowType'
  BY <1>1 DEF Cancel
<1>2. ASSUME NEW s \in Sessions, NewTurn(s) PROVE FlowType'
  BY <1>2 DEF NewTurn, Store
<1>3. ASSUME NEW s \in Sessions, StartTurn(s) PROVE FlowType'
  BY <1>3 DEF StartTurn, GoTo, Return, InitialContext
<1>4. ASSUME NEW s \in Sessions, LoopTop(s) PROVE FlowType'
  BY <1>4 DEF LoopTop, Return
<1>5. ASSUME NEW s \in Sessions, BeforeLlmCall(s) PROVE FlowType'
  BY <1>5 DEF BeforeLlmCall, GoTo, Return
<1>6. ASSUME NEW s \in Sessions, CallLlm(s) PROVE FlowType'
  BY <1>6 DEF CallLlm, GoTo
<1>7. ASSUME NEW s \in Sessions, AfterLlm(s) PROVE FlowType'
  BY <1>7 DEF AfterLlm, GoTo, Return, Finished, Store
<1>8. ASSUME NEW s \in Sessions, ProcessingToolCalls(s) PROVE FlowType'
  BY <1>8 DEF ProcessingToolCalls
<1>9. ASSUME NEW s \in Sessions, StoreResults(s) PROVE FlowType'
  BY <1>9 DEF StoreResults, GoTo, Return, Store, Inject
<1>10. ASSUME NEW s \in Sessions, WaitingForEvent(s) PROVE FlowType'
  BY <1>10 DEF WaitingForEvent, GoTo
<1>11. ASSUME NEW s \in Sessions, Complete(s) PROVE FlowType'
  BY <1>11 DEF Complete, Review, StopHook, Prolong, GoTo, Return, InitialContext
<1>12. ASSUME NEW s \in Sessions, Stopped(s) PROVE FlowType'
  BY <1>12 DEF Stopped, Return
<1>13. ASSUME NEW s \in Sessions, CallCancelled(s) PROVE FlowType'
  BY <1>13 DEF CallCancelled, Return
<1>14. ASSUME NEW s \in Sessions, StreamCancelled(s) PROVE FlowType'
  BY <1>14 DEF StreamCancelled, GoTo
<1>15. ASSUME NEW s \in Sessions, WaitCancelled(s) PROVE FlowType'
  BY <1>15 DEF WaitCancelled, GoTo
<1>16. ASSUME NEW s \in Sessions, NEW c \in Calls, ToolCancelled(s, c) PROVE FlowType'
  BY <1>16 DEF ToolCancelled
<1>17. ASSUME NEW s \in Sessions, Attempt(s) PROVE FlowType'
  BY <1>17 DEF Attempt, Answered, AttemptFails, Answers, GoTo, Return
<1>18. ASSUME NEW s \in Sessions, Backoff(s) PROVE FlowType'
  BY <1>18 DEF Backoff
<1>19. ASSUME NEW s \in Sessions, Streaming(s) PROVE FlowType'
  BY <1>19 DEF Streaming, Answered, Answers, GoTo, Return
<1>20. ASSUME NEW s \in Sessions, WaitTimesOut(s) PROVE FlowType'
  BY <1>20 DEF WaitTimesOut, InjectWaitMessage, GoTo, Return, Store, Inject
<1>21. ASSUME NEW s \in Sessions, Compact(s) PROVE FlowType'
  BY <1>21 DEF Compact, GoTo, Return, Store
<1>22. ASSUME NEW s \in Sessions, NEW c \in Calls, ToolReturns(s, c) PROVE FlowType'
  BY <1>22 DEF ToolReturns
<1>23. ASSUME NEW s \in Sessions, NEW c \in Calls, DelegationEnds(s, c) PROVE FlowType'
  BY <1>23 DEF DelegationEnds, InjectWaitMessage, GoTo, Return, Store, Inject
<1>24. CASE UNCHANGED vars
  BY <1>24 DEF vars
<1> HIDE DEF FlowType
<1> QED
  BY <1>1, <1>2, <1>3, <1>4, <1>5, <1>6, <1>7, <1>8, <1>9, <1>10, <1>11, <1>12, <1>13, <1>14,
       <1>15, <1>16, <1>17, <1>18, <1>19, <1>20, <1>21, <1>22, <1>23, <1>24
     DEF Next, Turn, Loop, Interrupt, Answer

\* Counters.
LEMMA CountStep ==
  ASSUME CountType, [Next]_vars
  PROVE  CountType'
<1> USE DEF flowVars, callVars, toolVars, talkVars, countVars, sharedVars, CountType
<1>1. ASSUME NEW s \in Sessions, Cancel(s) PROVE CountType'
  BY <1>1 DEF Cancel
<1>2. ASSUME NEW s \in Sessions, NewTurn(s) PROVE CountType'
  BY <1>2 DEF NewTurn
<1>3. ASSUME NEW s \in Sessions, StartTurn(s) PROVE CountType'
  BY <1>3 DEF StartTurn
<1>4. ASSUME NEW s \in Sessions, LoopTop(s) PROVE CountType'
  BY <1>4 DEF LoopTop
<1>5. ASSUME NEW s \in Sessions, BeforeLlmCall(s) PROVE CountType'
  BY <1>5 DEF BeforeLlmCall
<1>6. ASSUME NEW s \in Sessions, CallLlm(s) PROVE CountType'
  <2>1. \/ UNCHANGED <<called, unstored>>
        \/ /\ called' = [called EXCEPT ![s] = @ + 1]
           /\ unstored' = [unstored EXCEPT ![s] = TRUE]
    BY <1>6 DEF CallLlm
  <2>2. UNCHANGED countVars
    BY <1>6 DEF CallLlm
  <2>3. called' \in [Sessions -> Nat]
    BY <2>1
  <2>4. unstored' \in [Sessions -> BOOLEAN]
    BY <2>1
  <2> QED
    BY <2>2, <2>3, <2>4
<1>7. ASSUME NEW s \in Sessions, AfterLlm(s) PROVE CountType'
  BY <1>7 DEF AfterLlm
<1>8. ASSUME NEW s \in Sessions, ProcessingToolCalls(s) PROVE CountType'
  BY <1>8 DEF ProcessingToolCalls
<1>9. ASSUME NEW s \in Sessions, StoreResults(s) PROVE CountType'
  BY <1>9 DEF StoreResults
<1>10. ASSUME NEW s \in Sessions, WaitingForEvent(s) PROVE CountType'
  BY <1>10 DEF WaitingForEvent
<1>11. ASSUME NEW s \in Sessions, Complete(s) PROVE CountType'
  <2>1. \/ UNCHANGED continuations
        \/ continuations' = [continuations EXCEPT ![s] = @ + 1]
    BY <1>11 DEF Complete, Review, StopHook
  <2>2. UNCHANGED reviewed \/ reviewed' = [reviewed EXCEPT ![s] = TRUE]
    BY <1>11 DEF Complete, Review, StopHook
  <2>3. UNCHANGED <<turns, called, unstored, compactions>>
    BY <1>11 DEF Complete
  <2>4. continuations' \in [Sessions -> Nat]
    BY <2>1
  <2>5. reviewed' \in [Sessions -> BOOLEAN]
    BY <2>2
  <2> QED
    BY <2>3, <2>4, <2>5
<1>12. ASSUME NEW s \in Sessions, Stopped(s) PROVE CountType'
  BY <1>12 DEF Stopped
<1>13. ASSUME NEW s \in Sessions, CallCancelled(s) PROVE CountType'
  BY <1>13 DEF CallCancelled
<1>14. ASSUME NEW s \in Sessions, StreamCancelled(s) PROVE CountType'
  BY <1>14 DEF StreamCancelled
<1>15. ASSUME NEW s \in Sessions, WaitCancelled(s) PROVE CountType'
  BY <1>15 DEF WaitCancelled
<1>16. ASSUME NEW s \in Sessions, NEW c \in Calls, ToolCancelled(s, c) PROVE CountType'
  BY <1>16 DEF ToolCancelled
<1>17. ASSUME NEW s \in Sessions, Attempt(s) PROVE CountType'
  BY <1>17 DEF Attempt, Answered, AttemptFails, Answers
<1>18. ASSUME NEW s \in Sessions, Backoff(s) PROVE CountType'
  BY <1>18 DEF Backoff
<1>19. ASSUME NEW s \in Sessions, Streaming(s) PROVE CountType'
  BY <1>19 DEF Streaming, Answered, Answers
<1>20. ASSUME NEW s \in Sessions, WaitTimesOut(s) PROVE CountType'
  BY <1>20 DEF WaitTimesOut
<1>21. ASSUME NEW s \in Sessions, Compact(s) PROVE CountType'
  <2>1. \/ UNCHANGED compactions
        \/ compactions' = [compactions EXCEPT ![s] = @ + 1]
    BY <1>21 DEF Compact
  <2>2. UNCHANGED <<continuations, turns, called, unstored, reviewed>>
    BY <1>21 DEF Compact
  <2> QED
    BY <2>1, <2>2
<1>22. ASSUME NEW s \in Sessions, NEW c \in Calls, ToolReturns(s, c) PROVE CountType'
  BY <1>22 DEF ToolReturns
<1>23. ASSUME NEW s \in Sessions, NEW c \in Calls, DelegationEnds(s, c) PROVE CountType'
  BY <1>23 DEF DelegationEnds
<1>24. CASE UNCHANGED vars
  BY <1>24 DEF vars
<1> HIDE DEF CountType
<1> QED
  BY <1>1, <1>2, <1>3, <1>4, <1>5, <1>6, <1>7, <1>8, <1>9, <1>10, <1>11, <1>12, <1>13, <1>14,
       <1>15, <1>16, <1>17, <1>18, <1>19, <1>20, <1>21, <1>22, <1>23, <1>24
     DEF Next, Turn, Loop, Interrupt, Answer

LEMMA CallConstants ==
  /\ NoResponse \in Responses
  /\ NoCall \in LlmCalls
  /\ \A path \in {"submit", "stream"} : [path |-> path, attempt |-> 1, stream |-> 1] \in LlmCalls
  /\ \A r \in Responses : r.calls \in SUBSET Calls /\ r.finish \in Finishes
BY CycleAssumption DEF NoResponse, NoCall, Responses, Finishes, LlmCalls

\* Calls of the model and of tools.
LEMMA CallStep ==
  ASSUME CallType, PlaceOK, [Next]_vars
  PROVE  CallType'
<1> USE DEF flowVars, callVars, toolVars, talkVars, countVars, sharedVars, CallType
<1> USE CallConstants
<1>1. ASSUME NEW s \in Sessions, Cancel(s) PROVE CallType'
  BY <1>1 DEF Cancel
<1>2. ASSUME NEW s \in Sessions, NewTurn(s) PROVE CallType'
  BY <1>2 DEF NewTurn
<1>3. ASSUME NEW s \in Sessions, StartTurn(s) PROVE CallType'
  BY <1>3 DEF StartTurn
<1>4. ASSUME NEW s \in Sessions, LoopTop(s) PROVE CallType'
  BY <1>4 DEF LoopTop
<1>5. ASSUME NEW s \in Sessions, BeforeLlmCall(s) PROVE CallType'
  BY <1>5 DEF BeforeLlmCall
<1>6. ASSUME NEW s \in Sessions, CallLlm(s) PROVE CallType'
  <2>1. \/ UNCHANGED call
        \/ \E path \in {"submit", "stream"} :
              call' = [call EXCEPT ![s] = [path |-> path, attempt |-> 1, stream |-> 1]]
    BY <1>6 DEF CallLlm
  <2>2. UNCHANGED <<response, toolVars>>
    BY <1>6 DEF CallLlm
  <2> QED
    BY <2>1, <2>2
<1>7. ASSUME NEW s \in Sessions, AfterLlm(s) PROVE CallType'
  <2>1. UNCHANGED response \/ response' = [response EXCEPT ![s] = NoResponse]
    BY <1>7 DEF AfterLlm, Finished
  <2>2. UNCHANGED <<call, pending, succeeded, turn_diffs>>
    BY <1>7 DEF AfterLlm
  <2> QED
    BY <2>1, <2>2
<1>8. ASSUME NEW s \in Sessions, ProcessingToolCalls(s) PROVE CallType'
  BY <1>8 DEF ProcessingToolCalls
<1>9. ASSUME NEW s \in Sessions, StoreResults(s) PROVE CallType'
  <2>1. UNCHANGED response \/ response' = [response EXCEPT ![s] = NoResponse]
    BY <1>9 DEF StoreResults
  <2>2. UNCHANGED turn_diffs \/ \E b \in BOOLEAN : turn_diffs' = [turn_diffs EXCEPT ![s] = b]
    BY <1>9 DEF StoreResults
  <2>3. UNCHANGED pending \/ \E ds \in SUBSET succeeded[s] : pending' = [pending EXCEPT ![s] = ds]
    BY <1>9 DEF StoreResults
  <2>4. UNCHANGED succeeded \/ succeeded' = [succeeded EXCEPT ![s] = {}]
    BY <1>9 DEF StoreResults
  <2>5. UNCHANGED call
    BY <1>9 DEF StoreResults
  <2>6. succeeded[s] \in SUBSET Calls
    OBVIOUS
  <2>7. pending' \in [Sessions -> SUBSET Calls]
    BY <2>3, <2>6
  <2>8. succeeded' \in [Sessions -> SUBSET Calls]
    BY <2>4
  <2>9. turn_diffs' \in [Sessions -> BOOLEAN]
    BY <2>2
  <2>10. response' \in [Sessions -> Responses]
    BY <2>1
  <2> QED
    BY <2>5, <2>7, <2>8, <2>9, <2>10
<1>10. ASSUME NEW s \in Sessions, WaitingForEvent(s) PROVE CallType'
  BY <1>10 DEF WaitingForEvent
<1>11. ASSUME NEW s \in Sessions, Complete(s) PROVE CallType'
  BY <1>11 DEF Complete, Review, StopHook
<1>12. ASSUME NEW s \in Sessions, Stopped(s) PROVE CallType'
  BY <1>12 DEF Stopped
<1>13. ASSUME NEW s \in Sessions, CallCancelled(s) PROVE CallType'
  BY <1>13 DEF CallCancelled
<1>14. ASSUME NEW s \in Sessions, StreamCancelled(s) PROVE CallType'
  BY <1>14 DEF StreamCancelled
<1>15. ASSUME NEW s \in Sessions, WaitCancelled(s) PROVE CallType'
  BY <1>15 DEF WaitCancelled
<1>16. ASSUME NEW s \in Sessions, NEW c \in Calls, ToolCancelled(s, c) PROVE CallType'
  BY <1>16 DEF ToolCancelled
<1>17. ASSUME NEW s \in Sessions, Attempt(s) PROVE CallType'
  BY <1>17 DEF Attempt, Answered, AttemptFails, Answers
<1>18. ASSUME NEW s \in Sessions, Backoff(s) PROVE CallType'
  <2>1. call[s] \in LlmCalls /\ call[s].attempt < MaxRetries
    BY <1>18 DEF Backoff, PlaceOK, PlaceAt
  <2>2. [call[s] EXCEPT !.attempt = @ + 1] \in LlmCalls
    BY <2>1, CycleAssumption DEF LlmCalls
  <2> QED
    BY <1>18, <2>2 DEF Backoff
<1>19. ASSUME NEW s \in Sessions, Streaming(s) PROVE CallType'
  <2>1. UNCHANGED response \/ \E r \in Responses : response' = [response EXCEPT ![s] = r]
    BY <1>19 DEF Streaming, Answered, Answers
  <2>2. \/ UNCHANGED call
        \/ call' = [call EXCEPT ![s] = NoCall]
        \/ /\ call[s].stream <= MaxStreamRetries
           /\ call' = [call EXCEPT ![s] = [call[s] EXCEPT !.stream = @ + 1, !.attempt = 1]]
    BY <1>19 DEF Streaming, Answered
  <2>3. UNCHANGED <<pending, succeeded, turn_diffs>>
    BY <1>19 DEF Streaming
  <2>5. call[s].stream <= MaxStreamRetries => [call[s] EXCEPT !.stream = @ + 1, !.attempt = 1] \in LlmCalls
    <3> SUFFICES ASSUME call[s].stream <= MaxStreamRetries
                 PROVE  [call[s] EXCEPT !.stream = @ + 1, !.attempt = 1] \in LlmCalls
      OBVIOUS
    <3>1. PICK c \in LlmCalls : c = call[s]
      OBVIOUS
    <3>2. c.stream + 1 \in 0..(MaxStreamRetries + 1)
      BY <3>1, CycleAssumption DEF LlmCalls
    <3>3. PICK k \in 0..(MaxStreamRetries + 1) : k = c.stream + 1
      BY <3>2
    <3>4. [c EXCEPT !.stream = k, !.attempt = 1] \in LlmCalls
      BY <3>1, CycleAssumption DEF LlmCalls
    <3> QED
      BY <3>1, <3>3, <3>4
  <2>4. call' \in [Sessions -> LlmCalls]
    BY <2>2, <2>5
  <2> QED
    BY <2>1, <2>3, <2>4
<1>20. ASSUME NEW s \in Sessions, WaitTimesOut(s) PROVE CallType'
  BY <1>20 DEF WaitTimesOut
<1>21. ASSUME NEW s \in Sessions, Compact(s) PROVE CallType'
  BY <1>21 DEF Compact
<1>22. ASSUME NEW s \in Sessions, NEW c \in Calls, ToolReturns(s, c) PROVE CallType'
  BY <1>22 DEF ToolReturns
<1>23. ASSUME NEW s \in Sessions, NEW c \in Calls, DelegationEnds(s, c) PROVE CallType'
  BY <1>23 DEF DelegationEnds
<1>24. CASE UNCHANGED vars
  BY <1>24 DEF vars
<1> HIDE DEF CallType
<1> QED
  BY <1>1, <1>2, <1>3, <1>4, <1>5, <1>6, <1>7, <1>8, <1>9, <1>10, <1>11, <1>12, <1>13, <1>14,
       <1>15, <1>16, <1>17, <1>18, <1>19, <1>20, <1>21, <1>22, <1>23, <1>24
     DEF Next, Turn, Loop, Interrupt, Answer

(***************************************************************************)
(* What a step does to the conversation: it adds a message to the context  *)
(* and to the history, or changes one of them only.                        *)
(***************************************************************************)
Says(s, m) ==
    /\ history' = [history EXCEPT ![s] = Append(@, m)]
    /\ \E c \in Contexts :
          /\ c.owner = context[s].owner /\ c.messages = Append(context[s].messages, m)
          /\ context' = [context EXCEPT ![s] = c]
    /\ UNCHANGED initial

LEMMA ContextTypes ==
  /\ \A c \in Contexts : c.owner \in Sessions /\ c.messages \in Seq(Messages) /\ c.steps \in Nat
  /\ \A s \in Sessions, q \in Seq(Messages) :
        /\ InitialContext(s, q) \in Contexts
        /\ InitialContext(s, q).messages = q /\ InitialContext(s, q).owner = s
BY DEF Contexts, InitialContext

LEMMA ContextUpdate ==
  ASSUME NEW c \in Contexts, NEW q \in Seq(Messages)
  PROVE  /\ [c EXCEPT !.messages = q] \in Contexts
         /\ [c EXCEPT !.messages = q].messages = q
         /\ [c EXCEPT !.messages = q].owner = c.owner
BY DEF Contexts

LEMMA InjectSays ==
  ASSUME TalkType, NEW s \in Sessions, NEW m \in Messages, Store(s, <<m>>), Inject(s, m),
         UNCHANGED initial
  PROVE  Says(s, m)
<1>1. context[s] \in Contexts /\ context[s].messages \in Seq(Messages) /\ history[s] \in Seq(Messages)
  BY ContextTypes DEF TalkType
<1>2. history' = [history EXCEPT ![s] = Append(@, m)]
  BY <1>1, StoredTypes DEF Store
<1> DEFINE c == [context[s] EXCEPT !.messages = Append(context[s].messages, m)]
<1>3. Append(context[s].messages, m) \in Seq(Messages)
  BY <1>1
<1>4. c \in Contexts /\ c.messages = Append(context[s].messages, m) /\ c.owner = context[s].owner
  BY <1>1, <1>3, ContextUpdate
<1>5. context' = [context EXCEPT ![s] = c]
  BY DEF Inject
<1> QED
  BY <1>2, <1>4, <1>5 DEF Says

\* Middleware before a call changes the context alone.
LEMMA NotedTalk ==
  ASSUME TalkType, NEW s \in Sessions, BeforeLlmCall(s)
  PROVE  \E c \in Contexts :
            /\ c.owner = context[s].owner /\ c.messages \in Noted(context[s].messages)
            /\ context' = [context EXCEPT ![s] = c]
<1>1. context[s] \in Contexts /\ context[s].messages \in Seq(Messages)
  BY ContextTypes DEF TalkType
<1>2. PICK g \in Noted(context[s].messages) : context' = [context EXCEPT ![s].messages = g]
  BY DEF BeforeLlmCall
<1> DEFINE c == [context[s] EXCEPT !.messages = g]
<1>3. g \in Seq(Messages)
  BY <1>1, NotedMirrors
<1>4. c \in Contexts /\ c.messages = g /\ c.owner = context[s].owner
  BY <1>1, <1>3, ContextUpdate
<1>5. context' = [context EXCEPT ![s] = c]
  BY <1>2
<1> QED
  BY <1>4, <1>5

\* A response that is stored.
LEMMA AfterLlmSays ==
  ASSUME TalkType, CallType, NEW s \in Sessions, AfterLlm(s)
  PROVE  \/ UNCHANGED talkVars
         \/ Says(s, Message("assistant", response[s].calls, response[s].finish))
<1> DEFINE m == Message("assistant", response[s].calls, response[s].finish)
           n == IF response[s].usage THEN 1 ELSE 0
<1>1. m \in Messages
  BY CallConstants, MessageTypes DEF CallType, Kinds
<1>2. context[s] \in Contexts /\ context[s].messages \in Seq(Messages) /\ history[s] \in Seq(Messages)
  BY ContextTypes DEF TalkType
<1>3. \/ UNCHANGED talkVars
      \/ /\ Store(s, <<m>>) /\ UNCHANGED initial
         /\ context' = [context EXCEPT ![s].messages = Append(@, m), ![s].steps = @ + n]
  BY DEF AfterLlm
<1>4. ASSUME /\ Store(s, <<m>>) /\ UNCHANGED initial
             /\ context' = [context EXCEPT ![s].messages = Append(@, m), ![s].steps = @ + n]
      PROVE  Says(s, m)
  <2> HIDE DEF m
  <2>1. history' = [history EXCEPT ![s] = Append(@, m)]
    BY <1>1, <1>2, <1>4, StoredTypes DEF Store
  <2> DEFINE q == Append(context[s].messages, m)
             d == [context[s] EXCEPT !.messages = q]
             k == [context EXCEPT ![s].messages = Append(@, m)]
             c == [k[s] EXCEPT !.steps = @ + n]
  <2>2. k[s] = d
    BY DEF TalkType
  <2>3. q \in Seq(Messages)
    BY <1>1, <1>2
  <2>4. context' = [k EXCEPT ![s].steps = @ + n]
    BY <1>4
  <2> HIDE DEF k, q
  <2>5. k[s] \in Contexts /\ k[s].owner = context[s].owner /\ k[s].messages = q
    <3>1. d \in Contexts /\ d.owner = context[s].owner /\ d.messages = q
      BY <1>2, <2>3, ContextUpdate
    <3> QED
      BY <3>1, <2>2
  <2>6. c \in Contexts /\ c.owner = k[s].owner /\ c.messages = k[s].messages
    BY <2>5 DEF Contexts
  <2>7. context' = [context EXCEPT ![s] = c]
    BY <2>4 DEF k, TalkType
  <2> QED
    BY <1>4, <2>1, <2>5, <2>6, <2>7 DEF Says, q
<1> QED
  BY <1>3, <1>4

LEMMA SaysType ==
  ASSUME TalkType, NEW s \in Sessions, NEW m \in Messages, Says(s, m)
  PROVE  /\ initial' \in [Sessions -> Seq(Messages)]
         /\ context' \in [Sessions -> Contexts]
         /\ history' \in [Sessions -> Seq(Messages)]
<1>1. history[s] \in Seq(Messages)
  BY DEF TalkType
<1>2. Append(history[s], m) \in Seq(Messages)
  BY <1>1
<1> QED
  BY <1>2 DEF Says, TalkType

LEMMA WaitSays ==
  ASSUME TalkType, NEW s \in Sessions, InjectWaitMessage(s)
  PROVE  (UNCHANGED talkVars /\ pc' = [pc EXCEPT ![s] = "done"]) \/ Says(s, Plain("wait"))
<1>1. Plain("wait") \in Messages
  BY MessageTypes DEF Kinds
<1> QED
  BY <1>1, InjectSays DEF InjectWaitMessage, Return

LEMMA ResultsSay ==
  ASSUME TalkType, CallType, NEW s \in Sessions, StoreResults(s)
  PROVE  \/ UNCHANGED talkVars /\ pc' = [pc EXCEPT ![s] = "done"]
         \/ Says(s, Message("results", response[s].calls, "other"))
<1>1. Message("results", response[s].calls, "other") \in Messages
  BY MessageTypes, CallConstants DEF Kinds, Finishes, CallType
<1> QED
  BY <1>1, InjectSays DEF StoreResults, Return

\* A compaction leaves the context alone, ending the turn if it stored
\* anything, or replaces it by what it stored.
LEMMA CompactTalk ==
  ASSUME TalkType, NEW s \in Sessions, Compact(s)
  PROVE  /\ UNCHANGED initial
         /\ \/ UNCHANGED talkVars /\ pc' = [pc EXCEPT ![s] = "top"]
            \/ /\ UNCHANGED context /\ pc' = [pc EXCEPT ![s] = "done"]
               /\ \E h \in Seq(Messages) :
                     history' = [history EXCEPT ![s] = h] /\ (Unnoted(history[s]) => Unnoted(h))
            \/ /\ \E h \in Seq(Messages) :
                     history' = [history EXCEPT ![s] = h] /\ (Unnoted(history[s]) => Unnoted(h))
               /\ Effective(history'[s]) = <<Plain("request"), Plain("summary")>>
               /\ \E c \in Contexts :
                     /\ c.owner = context[s].owner
                     /\ c.messages = <<Plain("request"), Plain("summary")>>
                     /\ context' = [context EXCEPT ![s] = c]
<1> DEFINE r == Plain("request")
           m == Plain("summary")
<1>1. r \in Messages /\ m \in Messages /\ r.kind # "note" /\ m.kind # "note"
  BY MessageTypes DEF Kinds
<1>2. history[s] \in Seq(Messages) /\ context[s] \in Contexts
  BY DEF TalkType
<1>3. Effective(history[s] \o <<r, m>>) = <<r, m>>
  BY <1>2, EffectiveCompacted
<1> HIDE DEF r, m
<1>4. /\ history[s] \o <<>> \in Seq(Messages)
      /\ history[s] \o <<r>> \in Seq(Messages)
      /\ history[s] \o <<r, m>> \in Seq(Messages)
      /\ <<r, m>> \in Seq(Messages)
  BY <1>1, <1>2
<1>9. Unnoted(history[s]) => /\ Unnoted(history[s] \o <<>>)
                             /\ Unnoted(history[s] \o <<r>>)
                             /\ Unnoted(history[s] \o <<r, m>>)
  <2>1. /\ history[s] \o <<>> = history[s]
        /\ history[s] \o <<r>> = Append(history[s], r)
        /\ history[s] \o <<r, m>> = Append(Append(history[s], r), m)
        /\ Append(history[s], r) \in Seq(Messages)
    BY <1>1, <1>2, StoredTypes
  <2> QED
    BY <1>1, <1>2, <2>1, UnnotedAppend
<1>5. UNCHANGED initial
  BY DEF Compact
<1>6. CASE UNCHANGED <<history, context>> /\ GoTo(s, "Stopped")
  BY <1>5, <1>6 DEF GoTo, talkVars
<1>7. CASE /\ Return(s, "stopped") /\ UNCHANGED context
           /\ \E msgs \in {<<>>, <<r>>, <<r, m>>} : Store(s, msgs)
  BY <1>4, <1>5, <1>7, <1>9 DEF Return, Store
<1>8. CASE /\ Store(s, <<r, m>>)
           /\ context' = [context EXCEPT ![s].messages = Effective(history'[s])]
  <2>1. history' = [history EXCEPT ![s] = history[s] \o <<r, m>>]
    BY <1>8 DEF Store
  <2>2. history'[s] = history[s] \o <<r, m>>
    BY <2>1 DEF TalkType
  <2>3. Effective(history'[s]) = <<r, m>>
    BY <1>3, <2>2
  <2> DEFINE c == [context[s] EXCEPT !.messages = <<r, m>>]
  <2>4. context' = [context EXCEPT ![s] = c]
    BY <1>8, <2>3
  <2>5. c \in Contexts /\ c.owner = context[s].owner /\ c.messages = <<r, m>>
    BY <1>2, <1>4, ContextUpdate
  <2> HIDE DEF c
  <2> QED
    BY <1>4, <1>5, <1>9, <2>1, <2>3, <2>4, <2>5 DEF r, m
<1> QED
  BY <1>6, <1>7, <1>8 DEF Compact, r, m

\* A prolonged turn goes on from the context it is given.
LEMMA ProlongTalk ==
  ASSUME NEW s \in Sessions, NEW c \in Contexts, Prolong(s, c)
  PROVE  \E d \in Contexts :
            /\ d.owner = c.owner /\ d.messages = Append(c.messages, Plain("note"))
            /\ context' = [context EXCEPT ![s] = d]
<1> DEFINE q == Append(c.messages, Plain("note"))
           d == [c EXCEPT !.messages = q]
<1>1. context' = [context EXCEPT ![s] = d]
  BY DEF Prolong
<1>2. Plain("note") \in Messages /\ c.messages \in Seq(Messages)
  BY MessageTypes, ContextTypes DEF Kinds
<1>3. q \in Seq(Messages)
  BY <1>2
<1>4. d \in Contexts /\ d.owner = c.owner /\ d.messages = q
  <2> HIDE DEF q
  <2> QED
    BY <1>3, ContextUpdate
<1> QED
  BY <1>1, <1>4

\* The end of a turn leaves the context, or goes on from the context that the
\* review kept or from the one the turn started with.
LEMMA CompleteTalk ==
  ASSUME TalkType, NEW s \in Sessions, Complete(s)
  PROVE  /\ UNCHANGED <<initial, history, last_context>>
         /\ \/ UNCHANGED context /\ pc' = [pc EXCEPT ![s] = "done"]
            \/ /\ ~already_reviewed /\ last_context # None /\ reviewed' = [reviewed EXCEPT ![s] = TRUE]
               /\ \E d \in Contexts :
                     /\ d.owner = last_context.owner
                     /\ d.messages = Append(last_context.messages, Plain("note"))
                     /\ context' = [context EXCEPT ![s] = d]
            \/ /\ continuations' = [continuations EXCEPT ![s] = @ + 1]
               /\ \E d \in Contexts :
                     /\ d.owner = s /\ d.messages = Append(initial[s], Plain("note"))
                     /\ context' = [context EXCEPT ![s] = d]
<1>1. UNCHANGED <<initial, history, last_context>>
  BY DEF Complete
<1>2. CASE Review(s)
  <2>1. last_context \in Contexts
    BY <1>2 DEF Review, TalkType
  <2> QED
    BY <1>1, <1>2, <2>1, ProlongTalk DEF Review
<1>3. CASE StopHook(s)
  <2>1. /\ InitialContext(s, initial[s]) \in Contexts
        /\ InitialContext(s, initial[s]).owner = s
        /\ InitialContext(s, initial[s]).messages = initial[s]
    BY ContextTypes DEF TalkType
  <2>2. CASE /\ continuations' = [continuations EXCEPT ![s] = @ + 1]
             /\ Prolong(s, InitialContext(s, initial[s]))
    BY <1>1, <2>1, <2>2, ProlongTalk
  <2> QED
    BY <1>1, <1>3, <2>2 DEF StopHook, Return
<1> QED
  BY <1>2, <1>3 DEF Complete

\* Conversations.
LEMMA TalkStep ==
  ASSUME TalkType, CallType, [Next]_vars
  PROVE  TalkType'
<1> USE DEF flowVars, callVars, toolVars, talkVars, countVars, sharedVars, TalkType
<1>1. ASSUME NEW s \in Sessions, Cancel(s) PROVE TalkType'
  BY <1>1 DEF Cancel
<1>2. ASSUME NEW s \in Sessions, NewTurn(s) PROVE TalkType'
  <2>1. history[s] \o <<Plain("prompt")>> \in Seq(Messages)
    BY MessageTypes, StoredTypes DEF Kinds
  <2> QED
    BY <1>2, <2>1 DEF NewTurn, Store
<1>3. ASSUME NEW s \in Sessions, StartTurn(s) PROVE TalkType'
  <2>1. Effective(history[s]) \in Seq(Messages) /\ <<>> \in Seq(Messages)
    BY EffectiveType
  <2>2. PICK q \in Seq(Messages) :
           /\ initial' = [initial EXCEPT ![s] = q]
           /\ \E g \in Noted(q) : context' = [context EXCEPT ![s] = InitialContext(s, g)]
    BY <1>3, <2>1 DEF StartTurn
  <2>3. PICK g \in Seq(Messages) : context' = [context EXCEPT ![s] = InitialContext(s, g)]
    BY <2>2, NotedMirrors
  <2> QED
    BY <1>3, <2>2, <2>3, ContextTypes DEF StartTurn
<1>4. ASSUME NEW s \in Sessions, LoopTop(s) PROVE TalkType'
  BY <1>4 DEF LoopTop
<1>5. ASSUME NEW s \in Sessions, BeforeLlmCall(s) PROVE TalkType'
  <2>1. UNCHANGED <<initial, history, already_reviewed, last_context>>
    BY <1>5 DEF BeforeLlmCall
  <2> QED
    BY <1>5, <2>1, NotedTalk
<1>6. ASSUME NEW s \in Sessions, CallLlm(s) PROVE TalkType'
  BY <1>6 DEF CallLlm
<1>7. ASSUME NEW s \in Sessions, AfterLlm(s) PROVE TalkType'
  <2>1. Message("assistant", response[s].calls, response[s].finish) \in Messages
    BY CallConstants, MessageTypes DEF CallType, Kinds
  <2>2. last_context' \in Contexts /\ UNCHANGED already_reviewed
    BY <1>7 DEF AfterLlm
  <2> QED
    BY <1>7, <2>1, <2>2, AfterLlmSays, SaysType
<1>8. ASSUME NEW s \in Sessions, ProcessingToolCalls(s) PROVE TalkType'
  BY <1>8 DEF ProcessingToolCalls
<1>9. ASSUME NEW s \in Sessions, StoreResults(s) PROVE TalkType'
  <2>1. Message("results", response[s].calls, "other") \in Messages
    BY MessageTypes, CallConstants DEF Kinds, Finishes, CallType
  <2>2. UNCHANGED sharedVars
    BY <1>9 DEF StoreResults
  <2> QED
    BY <1>9, <2>1, <2>2, ResultsSay, SaysType
<1>10. ASSUME NEW s \in Sessions, WaitingForEvent(s) PROVE TalkType'
  BY <1>10 DEF WaitingForEvent
<1>11. ASSUME NEW s \in Sessions, Complete(s) PROVE TalkType'
  <2>1. already_reviewed' \in BOOLEAN
    BY <1>11 DEF Complete
  <2> QED
    BY <1>11, <2>1, CompleteTalk
<1>12. ASSUME NEW s \in Sessions, Stopped(s) PROVE TalkType'
  BY <1>12 DEF Stopped
<1>13. ASSUME NEW s \in Sessions, CallCancelled(s) PROVE TalkType'
  BY <1>13 DEF CallCancelled
<1>14. ASSUME NEW s \in Sessions, StreamCancelled(s) PROVE TalkType'
  BY <1>14 DEF StreamCancelled
<1>15. ASSUME NEW s \in Sessions, WaitCancelled(s) PROVE TalkType'
  BY <1>15 DEF WaitCancelled
<1>16. ASSUME NEW s \in Sessions, NEW c \in Calls, ToolCancelled(s, c) PROVE TalkType'
  BY <1>16 DEF ToolCancelled
<1>17. ASSUME NEW s \in Sessions, Attempt(s) PROVE TalkType'
  BY <1>17 DEF Attempt, Answered, AttemptFails, Answers
<1>18. ASSUME NEW s \in Sessions, Backoff(s) PROVE TalkType'
  BY <1>18 DEF Backoff
<1>19. ASSUME NEW s \in Sessions, Streaming(s) PROVE TalkType'
  BY <1>19 DEF Streaming, Answered, Answers
<1>20. ASSUME NEW s \in Sessions, WaitTimesOut(s) PROVE TalkType'
  <2>1. Plain("wait") \in Messages
    BY MessageTypes DEF Kinds
  <2>2. UNCHANGED sharedVars
    BY <1>20 DEF WaitTimesOut
  <2> QED
    BY <1>20, <2>1, <2>2, WaitSays, SaysType DEF WaitTimesOut
<1>21. ASSUME NEW s \in Sessions, Compact(s) PROVE TalkType'
  <2>1. UNCHANGED sharedVars
    BY <1>21 DEF Compact
  <2> QED
    BY <1>21, <2>1, CompactTalk
<1>22. ASSUME NEW s \in Sessions, NEW c \in Calls, ToolReturns(s, c) PROVE TalkType'
  BY <1>22 DEF ToolReturns
<1>23. ASSUME NEW s \in Sessions, NEW c \in Calls, DelegationEnds(s, c) PROVE TalkType'
  <2>1. Plain("wait") \in Messages
    BY MessageTypes DEF Kinds
  <2>2. UNCHANGED sharedVars
    BY <1>23 DEF DelegationEnds
  <2> QED
    BY <1>23, <2>1, <2>2, WaitSays, SaysType DEF DelegationEnds
<1>24. CASE UNCHANGED vars
  BY <1>24 DEF vars
<1> HIDE DEF TalkType
<1> QED
  BY <1>1, <1>2, <1>3, <1>4, <1>5, <1>6, <1>7, <1>8, <1>9, <1>10, <1>11, <1>12, <1>13, <1>14,
       <1>15, <1>16, <1>17, <1>18, <1>19, <1>20, <1>21, <1>22, <1>23, <1>24
     DEF Next, Turn, Loop, Interrupt, Answer

LEMMA TypeStep ==
  ASSUME TypeOK, PlaceOK, [Next]_vars
  PROVE  TypeOK'
<1>1. TypeOK <=> FlowType /\ CountType /\ CallType /\ TalkType
  BY DEF TypeOK, FlowType, CountType, CallType, TalkType
<1>2. TypeOK' <=> FlowType' /\ CountType' /\ CallType' /\ TalkType'
  BY DEF TypeOK, FlowType, CountType, CallType, TalkType
<1> QED
  BY <1>1, <1>2, FlowStep, CountStep, CallStep, TalkStep

-----------------------------------------------------------------------------
(***************************************************************************)
(* The step of one session, seen by the others and by itself.              *)
(***************************************************************************)
Own(s) == Cancel(s) \/ NewTurn(s) \/ Turn(s)

\* A step of a session changes nothing that another session keeps.
LEMMA Frame ==
  ASSUME NEW s \in Sessions, Own(s), TypeOK, NEW r \in Sessions
  PROVE  r # s =>
              /\ r \in cancelled' <=> r \in cancelled
              /\ UNCHANGED <<pc[r], state[r], stop_type[r], outcome[r], response[r], called[r],
                             unstored[r], initial[r], context[r], history[r], continuations[r],
                             reviewed[r], call[r]>>
<1> USE DEF flowVars, callVars, toolVars, talkVars, countVars, sharedVars, TypeOK
<1>1. CASE Cancel(s)
  BY <1>1 DEF Cancel
<1>2. CASE NewTurn(s)
  BY <1>2 DEF NewTurn, Store
<1>3. CASE StartTurn(s)
  BY <1>3 DEF StartTurn, GoTo, Return, InitialContext
<1>4. CASE LoopTop(s)
  BY <1>4 DEF LoopTop, Return
<1>5. CASE BeforeLlmCall(s)
  BY <1>5 DEF BeforeLlmCall, GoTo, Return
<1>6. CASE CallLlm(s)
  BY <1>6 DEF CallLlm, GoTo
<1>7. CASE AfterLlm(s)
  BY <1>7 DEF AfterLlm, GoTo, Return, Finished, Store
<1>8. CASE ProcessingToolCalls(s)
  BY <1>8 DEF ProcessingToolCalls
<1>9. CASE StoreResults(s)
  BY <1>9 DEF StoreResults, GoTo, Return, Store, Inject
<1>10. CASE WaitingForEvent(s)
  BY <1>10 DEF WaitingForEvent, GoTo
<1>11. CASE Complete(s)
  BY <1>11 DEF Complete, Review, StopHook, Prolong, GoTo, Return, InitialContext
<1>12. CASE Stopped(s)
  BY <1>12 DEF Stopped, Return
<1>13. CASE CallCancelled(s)
  BY <1>13 DEF CallCancelled, Return
<1>14. CASE StreamCancelled(s)
  BY <1>14 DEF StreamCancelled, GoTo
<1>15. CASE WaitCancelled(s)
  BY <1>15 DEF WaitCancelled, GoTo
<1>16. CASE \E c \in Calls : ToolCancelled(s, c)
  BY <1>16 DEF ToolCancelled
<1>17. CASE Attempt(s)
  BY <1>17 DEF Attempt, Answered, AttemptFails, Answers, GoTo, Return
<1>18. CASE Backoff(s)
  BY <1>18 DEF Backoff
<1>19. CASE Streaming(s)
  BY <1>19 DEF Streaming, Answered, Answers, GoTo, Return
<1>20. CASE WaitTimesOut(s)
  BY <1>20 DEF WaitTimesOut, InjectWaitMessage, GoTo, Return, Store, Inject
<1>21. CASE Compact(s)
  BY <1>21 DEF Compact, GoTo, Return, Store
<1>22. CASE \E c \in Calls : ToolReturns(s, c)
  BY <1>22 DEF ToolReturns
<1>23. CASE \E c \in Calls : DelegationEnds(s, c)
  BY <1>23 DEF DelegationEnds, InjectWaitMessage, GoTo, Return, Store, Inject
<1> QED
  BY <1>1, <1>2, <1>3, <1>4, <1>5, <1>6, <1>7, <1>8, <1>9, <1>10, <1>11, <1>12, <1>13, <1>14,
       <1>15, <1>16, <1>17, <1>18, <1>19, <1>20, <1>21, <1>22, <1>23
     DEF Own, Turn, Loop, Interrupt, Answer

\* The place of the loop and its state keep agreeing.
LEMMA PlaceHere ==
  ASSUME NEW s \in Sessions, Own(s), TypeOK, PlaceAt(s)
  PROVE  PlaceAt(s)'
<1> USE DEF flowVars, callVars, toolVars, talkVars, countVars, sharedVars, TypeOK, PlaceAt, Asks
<1>1. CASE Cancel(s)
  BY <1>1 DEF Cancel
<1>2. CASE NewTurn(s)
  BY <1>2 DEF NewTurn, Store
<1>3. CASE StartTurn(s)
  BY <1>3 DEF StartTurn, GoTo, Return, InitialContext
<1>4. CASE LoopTop(s)
  BY <1>4 DEF LoopTop, Return
<1>5. CASE BeforeLlmCall(s)
  BY <1>5 DEF BeforeLlmCall, GoTo, Return
<1>6. CASE CallLlm(s)
  BY <1>6 DEF CallLlm, GoTo
<1>7. CASE AfterLlm(s)
  BY <1>7 DEF AfterLlm, GoTo, Return, Finished, Store
<1>8. CASE ProcessingToolCalls(s)
  BY <1>8 DEF ProcessingToolCalls
<1>9. CASE StoreResults(s)
  BY <1>9 DEF StoreResults, GoTo, Return, Store, Inject
<1>10. CASE WaitingForEvent(s)
  BY <1>10 DEF WaitingForEvent, GoTo
<1>11. CASE Complete(s)
  BY <1>11 DEF Complete, Review, StopHook, Prolong, GoTo, Return, InitialContext
<1>12. CASE Stopped(s)
  BY <1>12 DEF Stopped, Return
<1>13. CASE CallCancelled(s)
  BY <1>13 DEF CallCancelled, Return
<1>14. CASE StreamCancelled(s)
  BY <1>14 DEF StreamCancelled, GoTo
<1>15. CASE WaitCancelled(s)
  BY <1>15 DEF WaitCancelled, GoTo
<1>16. CASE \E c \in Calls : ToolCancelled(s, c)
  BY <1>16 DEF ToolCancelled
<1>17. CASE Attempt(s)
  BY <1>17 DEF Attempt, Answered, AttemptFails, Answers, GoTo, Return
<1>18. CASE Backoff(s)
  BY <1>18 DEF Backoff
<1>19. CASE Streaming(s)
  BY <1>19 DEF Streaming, Answered, Answers, GoTo, Return
<1>20. CASE WaitTimesOut(s)
  BY <1>20 DEF WaitTimesOut, InjectWaitMessage, GoTo, Return, Store, Inject
<1>21. CASE Compact(s)
  BY <1>21 DEF Compact, GoTo, Return, Store
<1>22. CASE \E c \in Calls : ToolReturns(s, c)
  BY <1>22 DEF ToolReturns
<1>23. CASE \E c \in Calls : DelegationEnds(s, c)
  BY <1>23 DEF DelegationEnds, InjectWaitMessage, GoTo, Return, Store, Inject
<1> QED
  BY <1>1, <1>2, <1>3, <1>4, <1>5, <1>6, <1>7, <1>8, <1>9, <1>10, <1>11, <1>12, <1>13, <1>14,
       <1>15, <1>16, <1>17, <1>18, <1>19, <1>20, <1>21, <1>22, <1>23
     DEF Own, Turn, Loop, Interrupt, Answer

\* A response is stored once, by the call that asked for it.
LEMMA StoredHere ==
  ASSUME NEW s \in Sessions, Own(s), TypeOK, PlaceAt(s), StoredAt(s)
  PROVE  StoredAt(s)'
<1> USE DEF flowVars, callVars, toolVars, talkVars, countVars, sharedVars, TypeOK, PlaceAt,
       StoredAt, Ready, InTurn, Asks
<1>1. CASE Cancel(s)
  BY <1>1 DEF Cancel
<1>2. CASE NewTurn(s)
  BY <1>2 DEF NewTurn, Store
<1>3. CASE StartTurn(s)
  BY <1>3 DEF StartTurn, GoTo, Return, InitialContext
<1>4. CASE LoopTop(s)
  BY <1>4 DEF LoopTop, Return
<1>5. CASE BeforeLlmCall(s)
  BY <1>5 DEF BeforeLlmCall, GoTo, Return
<1>6. CASE CallLlm(s)
  BY <1>6 DEF CallLlm, GoTo
<1>7. CASE AfterLlm(s)
  BY <1>7 DEF AfterLlm, GoTo, Return, Finished, Store
<1>8. CASE ProcessingToolCalls(s)
  BY <1>8 DEF ProcessingToolCalls
<1>9. CASE StoreResults(s)
  BY <1>9 DEF StoreResults, GoTo, Return, Store, Inject
<1>10. CASE WaitingForEvent(s)
  BY <1>10 DEF WaitingForEvent, GoTo
<1>11. CASE Complete(s)
  BY <1>11 DEF Complete, Review, StopHook, Prolong, GoTo, Return, InitialContext
<1>12. CASE Stopped(s)
  BY <1>12 DEF Stopped, Return
<1>13. CASE CallCancelled(s)
  BY <1>13 DEF CallCancelled, Return
<1>14. CASE StreamCancelled(s)
  BY <1>14 DEF StreamCancelled, GoTo
<1>15. CASE WaitCancelled(s)
  BY <1>15 DEF WaitCancelled, GoTo
<1>16. CASE \E c \in Calls : ToolCancelled(s, c)
  BY <1>16 DEF ToolCancelled
<1>17. CASE Attempt(s)
  BY <1>17 DEF Attempt, Answered, AttemptFails, Answers, GoTo, Return
<1>18. CASE Backoff(s)
  BY <1>18 DEF Backoff
<1>19. CASE Streaming(s)
  BY <1>19 DEF Streaming, Answered, Answers, GoTo, Return
<1>20. CASE WaitTimesOut(s)
  BY <1>20 DEF WaitTimesOut, InjectWaitMessage, GoTo, Return, Store, Inject
<1>21. CASE Compact(s)
  BY <1>21 DEF Compact, GoTo, Return, Store
<1>22. CASE \E c \in Calls : ToolReturns(s, c)
  BY <1>22 DEF ToolReturns
<1>23. CASE \E c \in Calls : DelegationEnds(s, c)
  BY <1>23 DEF DelegationEnds, InjectWaitMessage, GoTo, Return, Store, Inject
<1> QED
  BY <1>1, <1>2, <1>3, <1>4, <1>5, <1>6, <1>7, <1>8, <1>9, <1>10, <1>11, <1>12, <1>13, <1>14,
       <1>15, <1>16, <1>17, <1>18, <1>19, <1>20, <1>21, <1>22, <1>23
     DEF Own, Turn, Loop, Interrupt, Answer

LEMMA SaysFollows ==
  ASSUME TalkType, NEW s \in Sessions, NEW m \in Messages, m.kind \notin {"request", "note"},
         Says(s, m), Unnoted(history[s])
  PROVE  /\ Unnoted(history'[s])
         /\ Mirrors(context[s].messages, Effective(history[s])) =>
               Mirrors(context'[s].messages, Effective(history'[s]))
<1>1. history[s] \in Seq(Messages) /\ context[s] \in Contexts
  BY DEF TalkType
<1>2. history'[s] = Append(history[s], m)
  BY DEF Says, TalkType
<1>3. context'[s].messages = Append(context[s].messages, m)
  BY DEF Says, TalkType
<1>4. Unnoted(history'[s])
  BY <1>1, <1>2, UnnotedAppend
<1>5. Effective(history'[s]) = Append(Effective(history[s]), m)
  BY <1>1, <1>2, EffectiveAppend
<1>6. Effective(history[s]) \in Seq(Messages) /\ context[s].messages \in Seq(Messages)
  BY <1>1, EffectiveType, ContextTypes
<1> QED
  BY <1>3, <1>4, <1>5, <1>6, MirrorsAppend

\* Whatever enters the context of a turn enters the history.
LEMMA FollowHere ==
  ASSUME NEW s \in Sessions, Own(s), FlowType, CountType, CallType, TalkType, FollowAt(s)
  PROVE  FollowAt(s)'
<1> USE DEF flowVars, callVars, toolVars, talkVars, countVars, sharedVars, FlowType, TalkType,
       FollowAt, InTurn
<1>1. CASE Cancel(s)
  BY <1>1 DEF Cancel
<1>2. CASE NewTurn(s)
  <2>1. /\ Plain("prompt") \in Messages /\ Plain("prompt").kind # "note"
        /\ history[s] \in Seq(Messages)
    BY MessageTypes DEF Kinds
  <2>2. history'[s] = Append(history[s], Plain("prompt"))
    BY <1>2, <2>1, StoredTypes DEF NewTurn, Store
  <2>3. Unnoted(history'[s])
    BY <2>1, <2>2, UnnotedAppend
  <2> QED
    BY <1>2, <2>3 DEF NewTurn
<1>3. CASE StartTurn(s)
  <2>1. PICK q \in {Effective(history[s]), <<>>} :
           /\ initial' = [initial EXCEPT ![s] = q]
           /\ \E g \in Noted(q) : context' = [context EXCEPT ![s] = InitialContext(s, g)]
    BY <1>3 DEF StartTurn
  <2>2. initial'[s] = q /\ context'[s].messages \in Noted(q) /\ UNCHANGED history
    BY <1>3, <2>1 DEF StartTurn, InitialContext
  <2>3. CASE q = <<>>
    BY <2>2, <2>3
  <2>4. CASE q = Effective(history[s])
    <3>1. history[s] \in Seq(Messages) /\ q \in Seq(Messages) /\ Unnoted(q)
      BY <2>4, EffectiveType, UnnotedEffective
    <3>2. Mirrors(context'[s].messages, q)
      BY <2>2, <3>1, MirrorsSelf, NotedMirrors
    <3> QED
      BY <2>2, <2>4, <3>2
  <2> QED
    BY <2>1, <2>3, <2>4
<1>4. CASE LoopTop(s)
  BY <1>4 DEF LoopTop, Return
<1>5. CASE BeforeLlmCall(s)
  <2>1. context'[s].messages \in Noted(context[s].messages)
    BY <1>5, NotedTalk
  <2>2. context[s].messages \in Seq(Messages)
    BY ContextTypes
  <2>3. \A h : Mirrors(context[s].messages, h) => Mirrors(context'[s].messages, h)
    BY <2>1, <2>2, NotedMirrors
  <2>4. InTurn(s) /\ UNCHANGED <<initial, history, continuations, reviewed>>
    BY <1>5 DEF BeforeLlmCall
  <2> QED
    BY <2>3, <2>4
<1>6. CASE CallLlm(s)
  BY <1>6 DEF CallLlm, GoTo
<1>7. CASE AfterLlm(s)
  <2>1. Message("assistant", response[s].calls, response[s].finish) \in Messages /\ Message("assistant", response[s].calls, response[s].finish).kind \notin {"request", "note"}
    BY MessageTypes, CallConstants DEF Kinds, CallType
  <2>2. UNCHANGED <<continuations, reviewed>>
    BY <1>7 DEF AfterLlm
  <2>3. CASE UNCHANGED talkVars
    BY <1>7, <2>2, <2>3 DEF AfterLlm
  <2>4. CASE Says(s, Message("assistant", response[s].calls, response[s].finish))
    <3>1. UNCHANGED initial
      BY <2>4 DEF Says
    <3>2. InTurn(s)
      BY <1>7 DEF AfterLlm
    <3> QED
      BY <2>1, <2>2, <2>4, <3>1, <3>2, SaysFollows
  <2> QED
    BY <1>7, <2>3, <2>4, AfterLlmSays
<1>8. CASE ProcessingToolCalls(s)
  BY <1>8 DEF ProcessingToolCalls
<1>9. CASE StoreResults(s)
  <2>1. Message("results", response[s].calls, "other") \in Messages /\ Message("results", response[s].calls, "other").kind \notin {"request", "note"}
    BY MessageTypes, CallConstants DEF Kinds, Finishes, CallType
  <2>2. UNCHANGED <<continuations, reviewed>>
    BY <1>9 DEF StoreResults
  <2>3. CASE UNCHANGED talkVars /\ pc' = [pc EXCEPT ![s] = "done"]
    BY <2>2, <2>3
  <2>4. CASE Says(s, Message("results", response[s].calls, "other"))
    <3>1. UNCHANGED initial
      BY <2>4 DEF Says
    <3>2. InTurn(s)
      BY <1>9 DEF StoreResults
    <3> QED
      BY <2>1, <2>2, <2>4, <3>1, <3>2, SaysFollows
  <2> QED
    BY <1>9, <2>3, <2>4, ResultsSay
<1>10. CASE WaitingForEvent(s)
  BY <1>10 DEF WaitingForEvent, GoTo
<1>11. CASE Complete(s)
  <2>1. UNCHANGED <<initial, history>>
    BY <1>11, CompleteTalk
  <2>2. continuations[s] \in Nat /\ continuations[s] + 1 # 0
    BY DEF CountType
  <2> QED
    BY <1>11, <2>1, <2>2, CompleteTalk DEF CountType
<1>12. CASE Stopped(s)
  BY <1>12 DEF Stopped, Return
<1>13. CASE CallCancelled(s)
  BY <1>13 DEF CallCancelled, Return
<1>14. CASE StreamCancelled(s)
  BY <1>14 DEF StreamCancelled, GoTo
<1>15. CASE WaitCancelled(s)
  BY <1>15 DEF WaitCancelled, GoTo
<1>16. CASE \E c \in Calls : ToolCancelled(s, c)
  BY <1>16 DEF ToolCancelled
<1>17. CASE Attempt(s)
  BY <1>17 DEF Attempt, Answered, AttemptFails, Answers, GoTo, Return
<1>18. CASE Backoff(s)
  BY <1>18 DEF Backoff
<1>19. CASE Streaming(s)
  BY <1>19 DEF Streaming, Answered, Answers, GoTo, Return
<1>20. CASE WaitTimesOut(s)
  <2>1. Plain("wait") \in Messages /\ Plain("wait").kind \notin {"request", "note"}
    BY MessageTypes DEF Kinds
  <2>2. UNCHANGED <<continuations, reviewed>>
    BY <1>20 DEF WaitTimesOut
  <2>3. CASE UNCHANGED talkVars /\ pc' = [pc EXCEPT ![s] = "done"]
    BY <2>2, <2>3
  <2>4. CASE Says(s, Plain("wait"))
    <3>1. UNCHANGED initial
      BY <2>4 DEF Says
    <3>2. InTurn(s)
      BY <1>20 DEF WaitTimesOut
    <3> QED
      BY <2>1, <2>2, <2>4, <3>1, <3>2, SaysFollows
  <2> QED
    BY <1>20, <2>3, <2>4, WaitSays DEF WaitTimesOut
<1>21. CASE Compact(s)
  <2>1. UNCHANGED <<continuations, reviewed>> /\ pc[s] = "compacting"
    BY <1>21 DEF Compact
  <2> DEFINE b == <<Plain("request"), Plain("summary")>>
  <2>2. b \in Seq(Messages) /\ Unnoted(b)
    <3>1. /\ Plain("request") \in Messages /\ Plain("request").kind = "request"
          /\ Plain("summary") \in Messages /\ Plain("summary").kind = "summary"
      BY MessageTypes DEF Kinds
    <3>2. b \in Seq(Messages) /\ Len(b) = 2 /\ b[1] = Plain("request") /\ b[2] = Plain("summary")
      BY <3>1
    <3> HIDE DEF b
    <3>3. \A i \in 1..2 : i = 1 \/ i = 2
      OBVIOUS
    <3> QED
      BY <3>1, <3>2, <3>3 DEF Unnoted
  <2>3. Mirrors(b, b)
    BY <2>2, MirrorsSelf
  <2> HIDE DEF b
  <2>4. \/ UNCHANGED <<initial, history, context>>
        \/ ~InTurn(s)' /\ Unnoted(history'[s])
        \/ Unnoted(history'[s]) /\ Effective(history'[s]) = b /\ context'[s].messages = b
    BY <1>21, CompactTalk DEF b
  <2> QED
    BY <2>1, <2>3, <2>4
<1>22. CASE \E c \in Calls : ToolReturns(s, c)
  BY <1>22 DEF ToolReturns
<1>23. CASE \E c \in Calls : DelegationEnds(s, c)
  <2>1. Plain("wait") \in Messages /\ Plain("wait").kind \notin {"request", "note"}
    BY MessageTypes DEF Kinds
  <2>2. UNCHANGED <<continuations, reviewed>>
    BY <1>23 DEF DelegationEnds
  <2>3. CASE UNCHANGED talkVars /\ pc' = [pc EXCEPT ![s] = "done"]
    BY <2>2, <2>3
  <2>4. CASE Says(s, Plain("wait"))
    <3>1. UNCHANGED initial
      BY <2>4 DEF Says
    <3>2. InTurn(s)
      BY <1>23 DEF DelegationEnds
    <3> QED
      BY <2>1, <2>2, <2>4, <3>1, <3>2, SaysFollows
  <2>5. CASE UNCHANGED talkVars /\ UNCHANGED pc
    BY <2>2, <2>5
  <2> QED
    BY <1>23, <2>3, <2>4, <2>5, WaitSays DEF DelegationEnds
<1> QED
  BY <1>1, <1>2, <1>3, <1>4, <1>5, <1>6, <1>7, <1>8, <1>9, <1>10, <1>11, <1>12, <1>13, <1>14,
       <1>15, <1>16, <1>17, <1>18, <1>19, <1>20, <1>21, <1>22, <1>23
     DEF Own, Turn, Loop, Interrupt, Answer

\* A note of middleware keeps the pairs.
LEMMA NotedPaired ==
  ASSUME NEW q \in Seq(Messages), NEW g \in Noted(q), Paired(q)
  PROVE  Paired(g)
<1>1. /\ Plain("note") \in Messages /\ Plain("note").kind = "note"
      /\ g = q \/ g = Append(q, Plain("note"))
  BY MessageTypes DEF Kinds, Noted
<1> QED
  BY <1>1, PairedPlain

\* Requests and results stay paired.
LEMMA PairHere ==
  ASSUME NEW s \in Sessions, Own(s), FlowType, CallType, TalkType, PlaceAt(s), PairAt(s), ReviewOK
  PROVE  PairAt(s)'
<1> USE DEF flowVars, callVars, toolVars, talkVars, countVars, sharedVars, FlowType, TalkType,
       PlaceAt, PairAt, InTurn, Asks, Ready
<1>1. CASE Cancel(s)
  BY <1>1 DEF Cancel
<1>2. CASE NewTurn(s)
  BY <1>2 DEF NewTurn
<1>3. CASE StartTurn(s)
  <2>1. PICK q \in {Effective(history[s]), <<>>} :
           /\ initial' = [initial EXCEPT ![s] = q]
           /\ \E g \in Noted(q) : context' = [context EXCEPT ![s] = InitialContext(s, g)]
    BY <1>3 DEF StartTurn
  <2>2. initial'[s] = q /\ context'[s].messages \in Noted(q)
    BY <2>1 DEF InitialContext
  <2>3. InTurn(s)' => state'[s] = "BeforeLlmCall"
    BY <1>3 DEF StartTurn, GoTo, Return
  <2>4. q \in Seq(Messages)
    <3>1. history[s] \in Seq(Messages) /\ <<>> \in Seq(Messages)
      OBVIOUS
    <3> QED
      BY <3>1, EffectiveType
  <2>5. Paired(q) => Paired(context'[s].messages)
    BY <2>2, <2>4, NotedPaired
  <2> QED
    BY <2>2, <2>3, <2>5
<1>4. CASE LoopTop(s)
  BY <1>4 DEF LoopTop, Return
<1>5. CASE BeforeLlmCall(s)
  <2>1. /\ context'[s].messages \in Noted(context[s].messages)
        /\ context'[s].owner = context[s].owner
    BY <1>5, NotedTalk
  <2>2. context[s].messages \in Seq(Messages)
    BY ContextTypes
  <2>3. Paired(context[s].messages) => Paired(context'[s].messages)
    BY <2>1, <2>2, NotedPaired
  <2>4. /\ InTurn(s) /\ Ready(s) /\ UNCHANGED initial
        /\ InTurn(s)' => state'[s] # "ProcessingToolCalls"
    BY <1>5 DEF BeforeLlmCall, GoTo, Return
  <2> QED
    BY <2>1, <2>3, <2>4
<1>6. CASE CallLlm(s)
  BY <1>6 DEF CallLlm, GoTo
<1>7. CASE AfterLlm(s)
  <2> DEFINE m == Message("assistant", response[s].calls, response[s].finish)
  <2>1. CASE UNCHANGED talkVars /\ ~Ready(s)' /\ state'[s] # "ProcessingToolCalls"
    BY <2>1
  <2>2. CASE pc'[s] = "done"
    BY <2>2
  <2>3. CASE Says(s, m) /\ ~Ready(s)' /\ state'[s] # "ProcessingToolCalls"
    BY <2>3
  <2>4. CASE /\ Says(s, m) /\ state'[s] = "ProcessingToolCalls"
             /\ UNCHANGED response /\ response[s].calls # {}
    <3>1. /\ context'[s].owner = context[s].owner
          /\ context'[s].messages = Append(context[s].messages, m)
          /\ UNCHANGED initial
      BY <2>4 DEF Says
    <3>2. InTurn(s) /\ Ready(s) /\ ~Ready(s)'
      BY <1>7, <2>4 DEF AfterLlm
    <3>3. response[s].finish \in Finishes /\ context[s].messages \in Seq(Messages)
      BY CallConstants, ContextTypes DEF CallType
    <3>4. Paired(context[s].messages) => Open(context'[s].messages, response'[s].calls)
      BY <2>4, <3>1, <3>3 DEF Open
    <3> QED
      BY <3>1, <3>2, <3>4
  <2>5. \/ /\ state'[s] = "Stopped" /\ stop_type'[s] = "delegation" /\ UNCHANGED talkVars
        \/ state'[s] = "Cancelled" /\ UNCHANGED talkVars
        \/ pc'[s] = "done"
        \/ Finished(s) /\ ~UNCHANGED talkVars
    <3>1. history[s] \o <<m>> # history[s]
      <4>1. m \in Messages /\ history[s] \in Seq(Messages)
        BY CallConstants, MessageTypes DEF CallType, Kinds
      <4> HIDE DEF m
      <4>2. Len(history[s] \o <<m>>) = Len(history[s]) + 1 /\ Len(history[s]) \in Nat
        BY <4>1
      <4> QED
        BY <4>2
    <3>2. Store(s, <<m>>) => history'[s] # history[s]
      BY <3>1 DEF Store
    <3> QED
      BY <1>7, <3>2 DEF AfterLlm, GoTo, Return
  <2>6. Finished(s) =>
           \/ /\ state'[s] = "ProcessingToolCalls" /\ UNCHANGED response
              /\ response[s].calls # {}
           \/ state'[s] = "Complete"
           \/ state'[s] = "Stopped" /\ stop_type'[s] = "model"
    BY DEF Finished, GoTo
  <2>7. UNCHANGED talkVars \/ Says(s, m)
    BY <1>7, AfterLlmSays
  <2> HIDE DEF m
  <2> QED
    BY <2>1, <2>2, <2>3, <2>4, <2>5, <2>6, <2>7
<1>8. CASE ProcessingToolCalls(s)
  BY <1>8 DEF ProcessingToolCalls
<1>9. CASE StoreResults(s)
  <2>1. CASE UNCHANGED talkVars /\ pc' = [pc EXCEPT ![s] = "done"]
    BY <2>1
  <2>2. CASE Says(s, Message("results", response[s].calls, "other")) /\ state'[s] # "ProcessingToolCalls"
    <3>1. /\ context'[s].owner = context[s].owner
          /\ context'[s].messages = Append(context[s].messages, Message("results", response[s].calls, "other"))
          /\ UNCHANGED initial
      BY <2>2 DEF Says
    <3>2. InTurn(s) /\ state[s] = "ProcessingToolCalls"
      BY <1>9 DEF StoreResults
    <3>3. response[s].calls \in SUBSET Calls /\ context[s].messages \in Seq(Messages)
      BY CallConstants, ContextTypes DEF CallType
    <3>4. /\ InTurn(s) /\ state[s] = "ProcessingToolCalls"
          /\ Open(context[s].messages, response[s].calls) => Paired(context'[s].messages)
      BY <3>1, <3>2, <3>3, PairedResults
    <3> QED
      BY <2>2, <3>1, <3>4
  <2>3. \/ pc' = [pc EXCEPT ![s] = "done"]
        \/ pc' = [pc EXCEPT ![s] = "top"] /\ state'[s] # "ProcessingToolCalls"
    BY <1>9 DEF StoreResults, GoTo, Return
  <2>4. CASE pc' = [pc EXCEPT ![s] = "done"]
    BY <2>4
  <2>5. pc' = [pc EXCEPT ![s] = "top"] => Says(s, Message("results", response[s].calls, "other"))
    BY <1>9, ResultsSay
  <2> QED
    BY <2>2, <2>3, <2>4, <2>5
<1>10. CASE WaitingForEvent(s)
  BY <1>10 DEF WaitingForEvent, GoTo
<1>11. CASE Complete(s)
  <2>1. UNCHANGED <<initial, last_context>> /\ InTurn(s) /\ state[s] = "Complete"
        /\ (pc'[s] = "done" \/ state'[s] = "BeforeLlmCall")
    BY <1>11 DEF Complete, Review, StopHook, Prolong, GoTo, Return
  <2>2. /\ Plain("note") \in Messages /\ Plain("note").kind = "note"
        /\ initial[s] \in Seq(Messages)
        /\ last_context # None => last_context.messages \in Seq(Messages)
    BY MessageTypes, ContextTypes DEF Kinds
  <2>3. /\ Paired(initial[s]) => Paired(Append(initial[s], Plain("note")))
        /\ last_context # None /\ Paired(last_context.messages) =>
              Paired(Append(last_context.messages, Plain("note")))
    BY <2>2, PairedPlain
  <2>4. CASE pc' = [pc EXCEPT ![s] = "done"]
    BY <2>4
  <2>5. CASE /\ ~already_reviewed /\ last_context # None
             /\ \E d \in Contexts :
                   /\ d.owner = last_context.owner
                   /\ d.messages = Append(last_context.messages, Plain("note"))
                   /\ context' = [context EXCEPT ![s] = d]
    <3>1. /\ context'[s].owner = last_context.owner
          /\ context'[s].messages = Append(last_context.messages, Plain("note"))
      BY <2>5
    <3>2. KeptAt(s)
      BY <2>5 DEF ReviewOK
    <3>3. last_context.owner = s /\ Paired(initial[s]) => Paired(context'[s].messages)
      BY <2>1, <2>3, <2>5, <3>1, <3>2 DEF KeptAt
    <3> QED
      BY <2>1, <3>1, <3>3
  <2>6. CASE \E d \in Contexts :
                /\ d.owner = s /\ d.messages = Append(initial[s], Plain("note"))
                /\ context' = [context EXCEPT ![s] = d]
    <3>1. context'[s].messages = Append(initial[s], Plain("note"))
      BY <2>6
    <3> QED
      BY <2>1, <2>3, <3>1
  <2> QED
    BY <1>11, <2>4, <2>5, <2>6, CompleteTalk
<1>12. CASE Stopped(s)
  BY <1>12 DEF Stopped, Return
<1>13. CASE CallCancelled(s)
  BY <1>13 DEF CallCancelled, Return
<1>14. CASE StreamCancelled(s)
  BY <1>14 DEF StreamCancelled, GoTo
<1>15. CASE WaitCancelled(s)
  BY <1>15 DEF WaitCancelled, GoTo
<1>16. CASE \E c \in Calls : ToolCancelled(s, c)
  BY <1>16 DEF ToolCancelled
<1>17. CASE Attempt(s)
  BY <1>17 DEF Attempt, Answered, AttemptFails, Answers, GoTo, Return
<1>18. CASE Backoff(s)
  BY <1>18 DEF Backoff
<1>19. CASE Streaming(s)
  BY <1>19 DEF Streaming, Answered, Answers, GoTo, Return
<1>20. CASE WaitTimesOut(s)
  <2>1. CASE UNCHANGED talkVars /\ pc' = [pc EXCEPT ![s] = "done"]
    BY <2>1
  <2>2. CASE Says(s, Plain("wait")) /\ state'[s] # "ProcessingToolCalls"
    <3>1. /\ context'[s].owner = context[s].owner
          /\ context'[s].messages = Append(context[s].messages, Plain("wait"))
          /\ UNCHANGED initial
      BY <2>2 DEF Says
    <3>2. InTurn(s) /\ Ready(s)
      BY <1>20 DEF WaitTimesOut
    <3>3. Plain("wait") \in Messages /\ Plain("wait").kind = "wait"
          /\ context[s].messages \in Seq(Messages)
      BY MessageTypes, ContextTypes DEF Kinds
    <3>4. InTurn(s) /\ (Paired(context[s].messages) => Paired(context'[s].messages)) /\ Ready(s)
      BY <3>1, <3>2, <3>3, PairedPlain
    <3> QED
      BY <2>2, <3>1, <3>4
  <2>3. \/ UNCHANGED talkVars /\ pc' = [pc EXCEPT ![s] = "done"]
        \/ Says(s, Plain("wait")) /\ state'[s] # "ProcessingToolCalls"
    <3>1. pc'[s] = "done" \/ state'[s] # "ProcessingToolCalls"
      BY <1>20 DEF WaitTimesOut, InjectWaitMessage, GoTo, Return
    <3>2. pc[s] = "waiting" /\ InjectWaitMessage(s)
      BY <1>20 DEF WaitTimesOut
    <3> QED
      BY <3>1, <3>2, WaitSays DEF InjectWaitMessage, GoTo, Return
  <2> QED
    BY <2>1, <2>2, <2>3
<1>21. CASE Compact(s)
  <2>1. /\ pc[s] = "compacting" /\ InTurn(s) /\ Ready(s)
        /\ pc'[s] = "done" \/ state'[s] \in {"Stopped", "BeforeLlmCall"}
    BY <1>21 DEF Compact, GoTo, Return
  <2> QED
    BY <1>21, <2>1, CompactTalk, PairedCompacted
<1>22. CASE \E c \in Calls : ToolReturns(s, c)
  BY <1>22 DEF ToolReturns
<1>23. CASE \E c \in Calls : DelegationEnds(s, c)
  <2>1. CASE UNCHANGED talkVars /\ pc' = [pc EXCEPT ![s] = "done"]
    BY <2>1
  <2>2. CASE Says(s, Plain("wait")) /\ state'[s] # "ProcessingToolCalls"
    <3>1. /\ context'[s].owner = context[s].owner
          /\ context'[s].messages = Append(context[s].messages, Plain("wait"))
          /\ UNCHANGED initial
      BY <2>2 DEF Says
    <3>2. InTurn(s) /\ Ready(s)
      BY <1>23 DEF DelegationEnds
    <3>3. Plain("wait") \in Messages /\ Plain("wait").kind = "wait"
          /\ context[s].messages \in Seq(Messages)
      BY MessageTypes, ContextTypes DEF Kinds
    <3>4. InTurn(s) /\ (Paired(context[s].messages) => Paired(context'[s].messages)) /\ Ready(s)
      BY <3>1, <3>2, <3>3, PairedPlain
    <3> QED
      BY <2>2, <3>1, <3>4
  <2>3. CASE UNCHANGED <<pc, state, stop_type, response, talkVars>>
    BY <2>3
  <2>4. \/ UNCHANGED <<pc, state, stop_type, response, talkVars>>
        \/ InjectWaitMessage(s) /\ pc[s] = "waiting"
    BY <1>23 DEF DelegationEnds
  <2>5. InjectWaitMessage(s) /\ pc[s] = "waiting" =>
           \/ UNCHANGED talkVars /\ pc' = [pc EXCEPT ![s] = "done"]
           \/ Says(s, Plain("wait")) /\ state'[s] # "ProcessingToolCalls"
    BY WaitSays DEF InjectWaitMessage, GoTo, Return
  <2> QED
    BY <2>1, <2>2, <2>3, <2>4, <2>5
<1> QED
  BY <1>1, <1>2, <1>3, <1>4, <1>5, <1>6, <1>7, <1>8, <1>9, <1>10, <1>11, <1>12, <1>13, <1>14,
       <1>15, <1>16, <1>17, <1>18, <1>19, <1>20, <1>21, <1>22, <1>23
     DEF Own, Turn, Loop, Interrupt, Answer

\* Only AfterLlm keeps a context, only the end of a turn reviews.
LEMMA SharedHere ==
  ASSUME NEW s \in Sessions, Own(s), ~AfterLlm(s), ~Complete(s)
  PROVE  already_reviewed' = already_reviewed /\ last_context' = last_context
<1> USE DEF flowVars, callVars, toolVars, talkVars, countVars, sharedVars
<1>1. CASE Cancel(s)
  BY <1>1 DEF Cancel
<1>2. CASE NewTurn(s)
  BY <1>2 DEF NewTurn
<1>3. CASE StartTurn(s)
  BY <1>3 DEF StartTurn
<1>4. CASE LoopTop(s)
  BY <1>4 DEF LoopTop
<1>5. CASE BeforeLlmCall(s)
  BY <1>5 DEF BeforeLlmCall
<1>6. CASE CallLlm(s)
  BY <1>6 DEF CallLlm
<1>7. CASE AfterLlm(s)
  BY <1>7
<1>8. CASE ProcessingToolCalls(s)
  BY <1>8 DEF ProcessingToolCalls
<1>9. CASE StoreResults(s)
  BY <1>9 DEF StoreResults
<1>10. CASE WaitingForEvent(s)
  BY <1>10 DEF WaitingForEvent
<1>11. CASE Complete(s)
  BY <1>11
<1>12. CASE Stopped(s)
  BY <1>12 DEF Stopped
<1>13. CASE CallCancelled(s)
  BY <1>13 DEF CallCancelled
<1>14. CASE StreamCancelled(s)
  BY <1>14 DEF StreamCancelled
<1>15. CASE WaitCancelled(s)
  BY <1>15 DEF WaitCancelled
<1>16. CASE \E c \in Calls : ToolCancelled(s, c)
  BY <1>16 DEF ToolCancelled
<1>17. CASE Attempt(s)
  BY <1>17 DEF Attempt
<1>18. CASE Backoff(s)
  BY <1>18 DEF Backoff
<1>19. CASE Streaming(s)
  BY <1>19 DEF Streaming
<1>20. CASE WaitTimesOut(s)
  BY <1>20 DEF WaitTimesOut
<1>21. CASE Compact(s)
  BY <1>21 DEF Compact
<1>22. CASE \E c \in Calls : ToolReturns(s, c)
  BY <1>22 DEF ToolReturns
<1>23. CASE \E c \in Calls : DelegationEnds(s, c)
  BY <1>23 DEF DelegationEnds
<1> QED
  BY <1>1, <1>2, <1>3, <1>4, <1>5, <1>6, <1>7, <1>8, <1>9, <1>10, <1>11, <1>12, <1>13, <1>14,
       <1>15, <1>16, <1>17, <1>18, <1>19, <1>20, <1>21, <1>22, <1>23
     DEF Own, Turn, Loop, Interrupt, Answer

\* A session keeps its own context, and is about to complete a turn only after
\* a response.
LEMMA OwnerHere ==
  ASSUME NEW s \in Sessions, Own(s), FlowType, CallType, TalkType, context[s].owner = s,
         ~AfterLlm(s), ~Complete(s)
  PROVE  /\ context'[s].owner = s
           /\ \/ ~InTurn(s)' \/ state'[s] # "Complete"
              \/ InTurn(s) /\ UNCHANGED <<state[s], initial[s]>>
<1> USE DEF flowVars, callVars, toolVars, talkVars, countVars, sharedVars, FlowType, TalkType,
       InTurn
<1>1. CASE Cancel(s)
  BY <1>1 DEF Cancel
<1>2. CASE NewTurn(s)
  BY <1>2 DEF NewTurn
<1>3. CASE StartTurn(s)
  <2>1. context'[s].owner = s
    BY <1>3 DEF StartTurn, InitialContext
  <2> QED
    BY <1>3, <2>1 DEF StartTurn, GoTo, Return
<1>4. CASE LoopTop(s)
  BY <1>4 DEF LoopTop, Return
<1>5. CASE BeforeLlmCall(s)
  BY <1>5 DEF BeforeLlmCall, GoTo, Return
<1>6. CASE CallLlm(s)
  BY <1>6 DEF CallLlm, GoTo
<1>7. CASE AfterLlm(s)
  BY <1>7
<1>8. CASE ProcessingToolCalls(s)
  BY <1>8 DEF ProcessingToolCalls
<1>9. CASE StoreResults(s)
  <2>1. pc'[s] = "done" \/ state'[s] # "Complete"
    BY <1>9 DEF StoreResults, GoTo, Return
  <2>2. context'[s].owner = context[s].owner
    BY <1>9, ResultsSay DEF Says
  <2> QED
    BY <2>1, <2>2
<1>10. CASE WaitingForEvent(s)
  BY <1>10 DEF WaitingForEvent, GoTo
<1>11. CASE Complete(s)
  BY <1>11
<1>12. CASE Stopped(s)
  BY <1>12 DEF Stopped, Return
<1>13. CASE CallCancelled(s)
  BY <1>13 DEF CallCancelled, Return
<1>14. CASE StreamCancelled(s)
  BY <1>14 DEF StreamCancelled, GoTo
<1>15. CASE WaitCancelled(s)
  BY <1>15 DEF WaitCancelled, GoTo
<1>16. CASE \E c \in Calls : ToolCancelled(s, c)
  BY <1>16 DEF ToolCancelled
<1>17. CASE Attempt(s)
  BY <1>17 DEF Attempt, Answered, AttemptFails, Answers, GoTo, Return
<1>18. CASE Backoff(s)
  BY <1>18 DEF Backoff
<1>19. CASE Streaming(s)
  BY <1>19 DEF Streaming, Answered, Answers, GoTo, Return
<1>20. CASE WaitTimesOut(s)
  <2>1. \/ InjectWaitMessage(s)
        \/ UNCHANGED <<pc, state, talkVars>>
    BY <1>20 DEF WaitTimesOut
  <2>2. pc[s] = "waiting" /\ (InjectWaitMessage(s) => pc'[s] = "done" \/ state'[s] = "BeforeLlmCall")
    BY <1>20 DEF WaitTimesOut, InjectWaitMessage, GoTo, Return
  <2>3. InjectWaitMessage(s) => context'[s].owner = context[s].owner
    BY WaitSays DEF Says
  <2> QED
    BY <2>1, <2>2, <2>3
<1>21. CASE Compact(s)
  <2>1. pc'[s] = "done" \/ state'[s] # "Complete"
    BY <1>21 DEF Compact, GoTo, Return
  <2>2. context'[s].owner = context[s].owner
    BY <1>21, CompactTalk
  <2> QED
    BY <2>1, <2>2
<1>22. CASE \E c \in Calls : ToolReturns(s, c)
  BY <1>22 DEF ToolReturns
<1>23. CASE \E c \in Calls : DelegationEnds(s, c)
  <2>1. \/ InjectWaitMessage(s)
        \/ UNCHANGED <<pc, state, talkVars>>
    BY <1>23 DEF DelegationEnds
  <2>2. pc[s] = "waiting" /\ (InjectWaitMessage(s) => pc'[s] = "done" \/ state'[s] = "BeforeLlmCall")
    BY <1>23 DEF DelegationEnds, InjectWaitMessage, GoTo, Return
  <2>3. InjectWaitMessage(s) => context'[s].owner = context[s].owner
    BY WaitSays DEF Says
  <2> QED
    BY <2>1, <2>2, <2>3
<1> QED
  BY <1>1, <1>2, <1>3, <1>4, <1>5, <1>6, <1>7, <1>8, <1>9, <1>10, <1>11, <1>12, <1>13, <1>14,
       <1>15, <1>16, <1>17, <1>18, <1>19, <1>20, <1>21, <1>22, <1>23
     DEF Own, Turn, Loop, Interrupt, Answer

\* Until a review took place, nobody has got another session's context.
LEMMA ReviewStep ==
  ASSUME CycleInv, NEW s \in Sessions, Own(s)
  PROVE  ReviewOK'
<1> USE DEF FlowType, TalkType, InTurn
<1>1. FlowType /\ CallType /\ TalkType /\ CountType
  BY DEF CycleInv, TypeOK, FlowType, CallType, TalkType, CountType
<1>2. SUFFICES ASSUME ~already_reviewed', NEW r \in Sessions
               PROVE  context'[r].owner = r /\ KeptAt(r)'
  BY DEF ReviewOK
<1>3. ~Complete(s)
  BY <1>2 DEF Complete
<1>4. /\ ~already_reviewed
      /\ last_context' = last_context \/ last_context' = context[s]
  <2>1. CASE AfterLlm(s)
    <3>1. already_reviewed' = already_reviewed /\ last_context' = context[s]
      BY <2>1 DEF AfterLlm
    <3>2. ~already_reviewed
      BY <1>2, <3>1
    <3> QED
      BY <2>1, <3>1, <3>2
  <2>2. CASE ~AfterLlm(s)
    <3>1. already_reviewed' = already_reviewed /\ last_context' = last_context
      BY <1>3, <2>2, SharedHere
    <3>2. ~already_reviewed
      BY <1>2, <3>1
    <3> QED
      BY <3>1, <3>2
  <2> QED
    BY <2>1, <2>2
<1>5. context[r].owner = r /\ KeptAt(r) /\ context[s].owner = s
  BY <1>4 DEF CycleInv, ReviewOK
<1>6. CASE r # s
  <2>1. UNCHANGED <<pc[r], state[r], initial[r], context[r]>>
    BY <1>6, Frame DEF CycleInv
  <2>2. CASE last_context' = last_context
    BY <1>5, <2>1, <2>2 DEF KeptAt
  <2>3. CASE last_context' = context[s]
    BY <1>5, <1>6, <2>1, <2>3 DEF KeptAt
  <2> QED
    BY <1>4, <2>2, <2>3
<1>7. CASE r = s
  <2>1. CASE AfterLlm(s)
    <3>1. last_context' = context[s] /\ UNCHANGED initial /\ InTurn(s) /\ Ready(s)
      BY <2>1 DEF AfterLlm, Ready, talkVars
    <3>2. Paired(initial[s]) => Paired(last_context'.messages)
      BY <1>5, <3>1 DEF CycleInv, PairOK, PairAt
    <3>3. context'[s].owner = s
      BY <1>1, <1>5, <2>1, AfterLlmSays DEF Says, talkVars
    <3> QED
      BY <1>7, <3>1, <3>2, <3>3 DEF KeptAt
  <2>2. CASE ~AfterLlm(s)
    <3>1. last_context' = last_context
      BY <1>3, <2>2, SharedHere
    <3>2. /\ context'[s].owner = s
          /\ \/ ~InTurn(s)' \/ state'[s] # "Complete"
             \/ InTurn(s) /\ UNCHANGED <<state[s], initial[s]>>
      BY <1>1, <1>3, <1>5, <2>2, OwnerHere
    <3> QED
      BY <1>5, <1>7, <3>1, <3>2 DEF KeptAt
  <2> QED
    BY <2>1, <2>2
<1> QED
  BY <1>6, <1>7

-----------------------------------------------------------------------------
(***************************************************************************)
(* The invariant.                                                          *)
(***************************************************************************)
LEMMA CycleInit ==
  ASSUME Init
  PROVE  CycleInv
<1>1. <<>> \in Seq(Messages)
  OBVIOUS
<1>2. \A s \in Sessions : InitialContext(s, <<>>) \in Contexts /\ InitialContext(s, <<>>).owner = s
  BY <1>1, ContextTypes
<1>3. TypeOK
  BY <1>1, <1>2, CallConstants DEF Init, TypeOK, Points, States, StopTypes
<1>4. \A s \in Sessions : pc[s] = "done" /\ context[s].owner = s
  BY <1>2 DEF Init
<1>5. PlaceOK /\ StoredOK
  BY <1>4 DEF PlaceOK, PlaceAt, StoredOK, StoredAt, Asks, InTurn
<1>7. \A s \in Sessions : Unnoted(history[s])
  BY DEF Init, Unnoted
<1>6. FollowOK /\ PairOK /\ ReviewOK
  BY <1>4, <1>7 DEF FollowOK, FollowAt, PairOK, PairAt, ReviewOK, KeptAt, InTurn
<1> QED
  BY <1>3, <1>5, <1>6 DEF CycleInv

LEMMA CycleStutter ==
  ASSUME CycleInv, UNCHANGED vars
  PROVE  CycleInv'
<1> USE DEF vars, flowVars, callVars, toolVars, talkVars, countVars, sharedVars
<1>1. TypeOK'
  BY DEF CycleInv, TypeOK
<1>2. PlaceOK' /\ StoredOK'
  BY DEF CycleInv, PlaceOK, PlaceAt, StoredOK, StoredAt, Asks, InTurn, Ready
<1>3. FollowOK'
  BY DEF CycleInv, FollowOK, FollowAt, InTurn
<1>4. PairOK'
  BY DEF CycleInv, PairOK, PairAt, InTurn, Ready
<1>5. ReviewOK'
  BY DEF CycleInv, ReviewOK, KeptAt, InTurn
<1> QED
  BY <1>1, <1>2, <1>3, <1>4, <1>5 DEF CycleInv

LEMMA CycleOwn ==
  ASSUME CycleInv, NEW s \in Sessions, Own(s)
  PROVE  CycleInv'
<1>1. FlowType /\ CountType /\ CallType /\ TalkType /\ TypeOK /\ ReviewOK
  BY DEF CycleInv, TypeOK, FlowType, CountType, CallType, TalkType
<1>2. TypeOK'
  BY <1>1, TypeStep DEF Next, Own, CycleInv
<1>3. ASSUME NEW r \in Sessions
      PROVE  PlaceAt(r)' /\ StoredAt(r)' /\ FollowAt(r)' /\ PairAt(r)'
  <2>1. PlaceAt(r) /\ StoredAt(r) /\ FollowAt(r) /\ PairAt(r)
    BY DEF CycleInv, PlaceOK, StoredOK, FollowOK, PairOK
  <2>2. CASE r = s
    BY <1>1, <2>1, <2>2, PlaceHere, StoredHere, FollowHere, PairHere
  <2>3. CASE r # s
    <3>1. UNCHANGED <<pc[r], state[r], stop_type[r], response[r], unstored[r], initial[r],
                      context[r], history[r], continuations[r], reviewed[r], call[r]>>
      BY <1>1, <2>3, Frame
    <3>2. PlaceAt(r)' /\ StoredAt(r)'
      BY <2>1, <3>1 DEF PlaceAt, StoredAt, Asks, InTurn, Ready
    <3>3. FollowAt(r)'
      BY <2>1, <3>1 DEF FollowAt, InTurn
    <3>4. PairAt(r)'
      BY <2>1, <3>1 DEF PairAt, InTurn, Ready
    <3> QED
      BY <3>2, <3>3, <3>4
  <2> QED
    BY <2>2, <2>3
<1>4. PlaceOK' /\ StoredOK' /\ FollowOK' /\ PairOK'
  BY <1>3 DEF PlaceOK, StoredOK, FollowOK, PairOK
<1> QED
  BY <1>2, <1>4, ReviewStep DEF CycleInv

LEMMA CycleStep ==
  ASSUME CycleInv, [Next]_vars
  PROVE  CycleInv'
BY CycleOwn, CycleStutter DEF Next, Own

\* The strengthened invariant holds in every state of every behaviour.
THEOREM CycleInvariant == Spec => []CycleInv
<1>1. Init => CycleInv
  BY CycleInit
<1>2. CycleInv /\ [Next]_vars => CycleInv'
  BY CycleStep
<1> QED
  BY <1>1, <1>2, PTL DEF Spec

\* The cycle is type correct: in particular the counters that the retries,
\* the steps and the continuations are compared with are natural numbers.
THEOREM CycleTypeCorrect == Spec => []TypeOK
<1>1. CycleInv => TypeOK
  BY DEF CycleInv
<1> QED
  BY <1>1, CycleInvariant, PTL

\* Whatever tools, retries, cancellations, compactions and prolongations a
\* turn goes through, the model is called with every tool_use answered.
THEOREM CallsArePaired == Spec => []ModelSeesPairs
<1>1. CycleInv => ModelSeesPairs
  BY DEF CycleInv, PlaceOK, PlaceAt, PairOK, PairAt, ModelSeesPairs, InTurn, Ready, Asks
<1> QED
  BY <1>1, CycleInvariant, PTL

\* The context in memory and the stored history never drift apart.
THEOREM ContextIsHistory == Spec => []ContextFollowsHistory
<1>1. CycleInv => ContextFollowsHistory
  BY DEF CycleInv, FollowOK, FollowAt, ContextFollowsHistory, InTurn, Asks
<1> QED
  BY <1>1, CycleInvariant, PTL

-----------------------------------------------------------------------------
(***************************************************************************)
(* The cycle implements the turn that SessionTurn assumes.                 *)
(***************************************************************************)

\* What the session sees of the stored messages: nothing, unless a prompt or
\* a response is stored.
LEMMA TalkSame ==
  ASSUME NEW s \in Sessions, NEW h \in Seq(Messages), history[s] = h,
         \/ history'[s] = h
         \/ \E m \in Messages : history'[s] = Append(h, m) /\ m.kind \notin {"prompt", "assistant"}
  PROVE  Talk(s)' = Talk(s)
<1>1. Stored(s, "prompt")' = Stored(s, "prompt") /\ Stored(s, "assistant")' = Stored(s, "assistant")
  <2>1. \A kind : Stored(s, kind) = Cardinality(Positions(h, kind))
                  /\ Stored(s, kind)' = Cardinality(Positions(history'[s], kind))
    BY DEF Stored, Positions
  <2>2. CASE history'[s] = h
    BY <2>1, <2>2
  <2>3. ASSUME NEW m \in Messages, history'[s] = Append(h, m), m.kind \notin {"prompt", "assistant"}
        PROVE  /\ Stored(s, "prompt")' = Stored(s, "prompt")
               /\ Stored(s, "assistant")' = Stored(s, "assistant")
    <3>1. /\ Cardinality(Positions(Append(h, m), "prompt")) = Cardinality(Positions(h, "prompt")) + 0
          /\ Cardinality(Positions(h, "prompt")) \in Nat
      BY <2>3, CountAppend
    <3>2. /\ Cardinality(Positions(Append(h, m), "assistant"))
                = Cardinality(Positions(h, "assistant")) + 0
          /\ Cardinality(Positions(h, "assistant")) \in Nat
      BY <2>3, CountAppend
    <3> QED
      BY <2>1, <2>3, <3>1, <3>2
  <2> QED
    BY <2>2, <2>3
<1> QED
  BY <1>1 DEF Talk

LEMMA TalkResponse ==
  ASSUME NEW s \in Sessions, NEW h \in Seq(Messages), history[s] = h,
         NEW m \in Messages, m.kind = "assistant", history'[s] = Append(h, m)
  PROVE  Talk(s)' = Append(Talk(s), T(s)!Entry("assistant", s, s))
<1> DEFINE np == Stored(s, "prompt")
           na == Stored(s, "assistant")
<1>1. \A kind : Stored(s, kind) = Cardinality(Positions(h, kind))
                /\ Stored(s, kind)' = Cardinality(Positions(Append(h, m), kind))
  BY DEF Stored, Positions
<1>2. np \in Nat /\ np' = np
  <2>1. /\ Cardinality(Positions(Append(h, m), "prompt")) = Cardinality(Positions(h, "prompt")) + 0
        /\ Cardinality(Positions(h, "prompt")) \in Nat
    BY CountAppend
  <2> QED
    BY <1>1, <2>1
<1>3. na \in Nat /\ na' = na + 1
  <2>1. /\ Cardinality(Positions(Append(h, m), "assistant"))
              = Cardinality(Positions(h, "assistant")) + 1
        /\ Cardinality(Positions(h, "assistant")) \in Nat
    BY CountAppend
  <2> QED
    BY <1>1, <2>1
<1> DEFINE E(i) == [kind |-> IF i <= np THEN "user" ELSE "assistant", by |-> s, turn |-> s]
           e == [kind |-> "assistant", by |-> s, turn |-> s]
<1>4. Talk(s) = [i \in 1..(np + na) |-> E(i)]
  BY DEF Talk
<1>5. Talk(s)' = [i \in 1..(np + na + 1) |-> E(i)]
  <2>1. Talk(s)' = [i \in 1..(np' + na') |->
                     [kind |-> IF i <= np' THEN "user" ELSE "assistant", by |-> s, turn |-> s]]
    BY DEF Talk
  <2>2. np' = np /\ np' + na' = np + na + 1
    BY <1>2, <1>3
  <2> QED
    BY <2>1, <2>2
<1>6. T(s)!Entry("assistant", s, s) = e
  BY DEF T!Entry
<1>7. E(np + na + 1) = e
  BY <1>2, <1>3
<1> HIDE DEF np, na, E, e
<1>8. [i \in 1..(np + na + 1) |-> E(i)] = Append([i \in 1..(np + na) |-> E(i)], e)
  BY <1>2, <1>3, <1>7
<1> QED
  BY <1>4, <1>5, <1>6, <1>8

\* A step that neither calls the model nor stores a response nor returns is
\* hidden from the session.
LEMMA Hidden ==
  ASSUME NEW s \in Sessions, s \in cancelled' <=> s \in cancelled,
         pc'[s] = "done" <=> pc[s] = "done", pc[s] # "done",
         UNCHANGED <<unstored[s], called[s], outcome[s]>>, Talk(s)' = Talk(s)
  PROVE  UNCHANGED T(s)!vars
<1>1. SessionPhase(s)' = SessionPhase(s) /\ SessionOutcome(s)' = SessionOutcome(s)
  BY DEF SessionPhase, SessionOutcome
<1> QED
  BY <1>1 DEF T!vars, T!actorVars, T!taskVars, T!runtimeVars, ofTurn

LEMMA Returns ==
  ASSUME NEW s \in Sessions, s \in cancelled' <=> s \in cancelled,
         pc'[s] = "done", pc[s] # "done", outcome'[s] \in {"completed", "stopped", "cancelled", "error"},
         outcome'[s] = "cancelled" => s \in cancelled,
         UNCHANGED called[s], Talk(s)' = Talk(s)
  PROVE  T(s)!Next
<1>1. SessionPhase(s)' = "post" /\ SessionPhase(s) \in {"cycle", "responding"}
  BY DEF SessionPhase
<1>2. SessionOutcome(s)' \in {"ok", "error", "cancelled"}
      /\ (SessionOutcome(s)' = "cancelled" => s \in cancelled)
  BY DEF SessionOutcome
<1>3. T(s)!CycleReturns(s)
  BY <1>1, <1>2 DEF T!CycleReturns, T!actorVars, T!runtimeVars, ofTurn
<1> QED
  BY <1>3 DEF T!Next, T!Run

LEMMA TalkCompact ==
  ASSUME TalkType, NEW s \in Sessions, Compact(s)
  PROVE  Talk(s)' = Talk(s)
<1> DEFINE h == history[s]
           r == Plain("request")
           m == Plain("summary")
<1>1. h \in Seq(Messages) /\ r \in Messages /\ m \in Messages
      /\ r.kind = "request" /\ m.kind = "summary"
  BY MessageTypes DEF TalkType, Kinds
<1>2. history'[s] \in {h, h \o <<>>, h \o <<r>>, h \o <<r, m>>}
  BY DEF Compact, Store, TalkType
<1> HIDE DEF h, r, m
<1>3. history'[s] \in {h, Append(h, r), Append(Append(h, r), m)}
  BY <1>1, <1>2, StoredTypes
<1>4. CASE history'[s] \in {h, Append(h, r)}
  BY <1>1, <1>4, TalkSame DEF h
<1>5. CASE history'[s] = Append(Append(h, r), m)
  <2>1. ASSUME NEW kind \in {"prompt", "assistant"}
        PROVE  Stored(s, kind)' = Stored(s, kind)
    <3>1. /\ Cardinality(Positions(Append(h, r), kind)) = Cardinality(Positions(h, kind)) + 0
          /\ Cardinality(Positions(h, kind)) \in Nat
      BY <1>1, <2>1, CountAppend
    <3>2. Append(h, r) \in Seq(Messages)
      BY <1>1
    <3>3. Cardinality(Positions(Append(Append(h, r), m), kind))
             = Cardinality(Positions(Append(h, r), kind)) + 0
      BY <1>1, <2>1, <3>2, CountAppend
    <3>4. Stored(s, kind) = Cardinality(Positions(h, kind))
          /\ Stored(s, kind)' = Cardinality(Positions(Append(Append(h, r), m), kind))
      BY <1>5 DEF Stored, Positions, h
    <3> QED
      BY <3>1, <3>3, <3>4
  <2> QED
    BY <2>1 DEF Talk
<1> QED
  BY <1>3, <1>4, <1>5

\* Every step of a session between two prompts is a step of its turn or hidden.
LEMMA TurnHere ==
  ASSUME NEW s \in Sessions, Own(s), FlowType, CountType, CallType, TalkType, PlaceAt(s), StoredAt(s)
  PROVE  NewTurn(s) \/ T(s)!Next \/ UNCHANGED T(s)!vars
<1> USE DEF flowVars, callVars, toolVars, talkVars, countVars, sharedVars, FlowType, TalkType
<1>1. CASE Cancel(s)
  <2>1. /\ s \notin cancelled /\ cancelled' = cancelled \cup {s}
        /\ UNCHANGED <<pc, unstored, called, outcome, history>> /\ pc[s] # "done"
    BY <1>1 DEF Cancel
  <2>2. /\ SessionPhase(s)' = SessionPhase(s) /\ SessionPhase(s) \in {"cycle", "responding"}
        /\ SessionOutcome(s)' = SessionOutcome(s) /\ Talk(s)' = Talk(s)
    BY <2>1 DEF SessionPhase, SessionOutcome, Talk, Stored
  <2>3. T(s)!Cancel
    BY <2>1, <2>2 DEF T!Cancel, T!taskVars, T!runtimeVars, T!Live, T!Executing, T!Waiting, ofTurn
  <2> QED
    BY <2>3 DEF T!Next
<1>2. CASE NewTurn(s)
  BY <1>2
<1>3. CASE StartTurn(s)
  <2>1. /\ UNCHANGED <<cancelled, history>> /\ pc[s] # "done"
        /\ UNCHANGED <<called[s], unstored[s]>>
        /\ \/ pc'[s] = "done" /\ outcome'[s] \in {"completed", "stopped", "error"}
           \/ pc'[s] # "done" /\ outcome'[s] = outcome[s]
    BY <1>3 DEF StartTurn, GoTo, Return, InitialContext
  <2>2. Talk(s)' = Talk(s)
    BY <2>1, TalkSame
  <2> QED
    BY <2>1, <2>2, Hidden, Returns
<1>4. CASE LoopTop(s)
  <2>1. /\ UNCHANGED <<cancelled, history>> /\ pc[s] # "done"
        /\ UNCHANGED <<called[s], unstored[s]>>
        /\ \/ pc'[s] = "done" /\ outcome'[s] = "cancelled" /\ s \in cancelled
           \/ pc'[s] # "done" /\ outcome'[s] = outcome[s]
    BY <1>4 DEF LoopTop, Return
  <2>2. Talk(s)' = Talk(s)
    BY <2>1, TalkSame
  <2> QED
    BY <2>1, <2>2, Hidden, Returns
<1>5. CASE BeforeLlmCall(s)
  <2>1. /\ UNCHANGED <<cancelled, history>> /\ pc[s] # "done"
        /\ UNCHANGED <<called[s], unstored[s]>>
        /\ \/ pc'[s] = "done" /\ outcome'[s] \in {"completed", "stopped", "error"}
           \/ pc'[s] # "done" /\ outcome'[s] = outcome[s]
    BY <1>5 DEF BeforeLlmCall, GoTo, Return
  <2>2. Talk(s)' = Talk(s)
    BY <2>1, TalkSame
  <2> QED
    BY <2>1, <2>2, Hidden, Returns
<1>6. CASE CallLlm(s)
  <2>1. CASE s \in cancelled
    <3>1. /\ UNCHANGED <<cancelled, history, called, unstored, outcome>>
          /\ pc[s] # "done" /\ pc'[s] # "done"
      BY <1>6, <2>1 DEF CallLlm, GoTo
    <3>2. Talk(s)' = Talk(s)
      BY <3>1, TalkSame
    <3> QED
      BY <3>1, <3>2, Hidden
  <2>2. CASE s \notin cancelled
    <3>1. /\ UNCHANGED <<cancelled, history, outcome>> /\ called[s] < ResponseCap
          /\ called' = [called EXCEPT ![s] = @ + 1] /\ unstored' = [unstored EXCEPT ![s] = TRUE]
          /\ pc[s] = "run" /\ state[s] = "CallLlm" /\ pc'[s] # "done"
      BY <1>6, <2>2 DEF CallLlm
    <3>2. ~unstored[s]
      BY <3>1 DEF StoredAt, Ready, InTurn, Asks
    <3>3. Talk(s)' = Talk(s)
      BY <3>1, TalkSame
    <3>4. /\ SessionPhase(s) = "cycle" /\ SessionPhase(s)' = "responding"
          /\ SessionOutcome(s)' = SessionOutcome(s)
      BY <3>1, <3>2 DEF SessionPhase, SessionOutcome, CountType
    <3>5. called'[s] = called[s] + 1
      BY <3>1 DEF CountType
    <3>6. T(s)!CallLlm(s)
      BY <2>2, <3>1, <3>3, <3>4, <3>5 DEF T!CallLlm, T!actorVars, T!runtimeVars, ofTurn
    <3> QED
      BY <3>6 DEF T!Next, T!Run
  <2> QED
    BY <2>1, <2>2
<1>7. CASE AfterLlm(s)
  <2> DEFINE m == Message("assistant", response[s].calls, response[s].finish)
  <2>1. /\ UNCHANGED <<cancelled, called>> /\ pc[s] = "run" /\ state[s] = "AfterLlm"
    BY <1>7 DEF AfterLlm
  <2>2. \/ /\ UNCHANGED <<history, unstored>>
           /\ \/ pc'[s] = "done" /\ outcome'[s] = "error"
              \/ pc'[s] # "done" /\ outcome'[s] = outcome[s]
        \/ /\ Store(s, <<m>>) /\ unstored' = [unstored EXCEPT ![s] = FALSE]
           /\ UNCHANGED outcome /\ Finished(s)
    BY <1>7 DEF AfterLlm, GoTo, Return
  <2>3. CASE /\ UNCHANGED <<history, unstored>>
             /\ \/ pc'[s] = "done" /\ outcome'[s] = "error"
                \/ pc'[s] # "done" /\ outcome'[s] = outcome[s]
    <3>1. Talk(s)' = Talk(s)
      BY <2>3, TalkSame
    <3> QED
      BY <2>1, <2>3, <3>1, Hidden, Returns
  <2>4. CASE /\ Store(s, <<m>>) /\ unstored' = [unstored EXCEPT ![s] = FALSE]
             /\ UNCHANGED outcome /\ Finished(s)
    <3>1. m \in Messages /\ m.kind = "assistant"
      BY CallConstants, MessageTypes DEF CallType, Kinds
    <3>2. pc'[s] # "done"
      BY <2>4 DEF Finished, GoTo
    <3>3. unstored[s]
      BY <2>1 DEF StoredAt, InTurn
    <3> HIDE DEF m
    <3>4. history'[s] = Append(history[s], m)
      BY <2>4, <3>1, StoredTypes DEF Store
    <3>5. Talk(s)' = Append(Talk(s), T(s)!Entry("assistant", s, s))
      BY <3>1, <3>4, TalkResponse
    <3>6. /\ SessionPhase(s) = "responding" /\ SessionPhase(s)' = "cycle"
          /\ SessionOutcome(s)' = SessionOutcome(s)
      BY <2>1, <2>4, <3>2, <3>3 DEF SessionPhase, SessionOutcome, CountType
    <3>7. T(s)!StoreResponse(s)
      BY <2>1, <3>5, <3>6 DEF T!StoreResponse, T!actorVars, ofTurn
    <3> QED
      BY <3>7 DEF T!Next, T!Run
  <2> QED
    BY <2>2, <2>3, <2>4
<1>8. CASE ProcessingToolCalls(s)
  <2>1. /\ UNCHANGED <<cancelled, history>> /\ pc[s] # "done"
        /\ UNCHANGED <<called[s], unstored[s]>>
        /\ \/ pc'[s] = "done" /\ outcome'[s] \in {"completed", "stopped", "error"}
           \/ pc'[s] # "done" /\ outcome'[s] = outcome[s]
    BY <1>8 DEF ProcessingToolCalls
  <2>2. Talk(s)' = Talk(s)
    BY <2>1, TalkSame
  <2> QED
    BY <2>1, <2>2, Hidden, Returns
<1>9. CASE StoreResults(s)
  <2>1. /\ UNCHANGED <<cancelled, called, unstored>> /\ pc[s] # "done"
        /\ \/ pc'[s] = "done" /\ outcome'[s] = "error"
           \/ pc'[s] # "done" /\ outcome'[s] = outcome[s]
    BY <1>9 DEF StoreResults, GoTo, Return
  <2>2. history'[s] = history[s] \/ history'[s] = Append(history[s], Message("results", response[s].calls, "other"))
    BY <1>9, ResultsSay DEF Says
  <2>3. Message("results", response[s].calls, "other") \in Messages /\ Message("results", response[s].calls, "other").kind \notin {"prompt", "assistant"}
    BY MessageTypes, CallConstants DEF Kinds, Finishes, CallType
  <2>4. Talk(s)' = Talk(s)
    BY <2>2, <2>3, TalkSame
  <2> QED
    BY <2>1, <2>4, Hidden, Returns
<1>10. CASE WaitingForEvent(s)
  <2>1. /\ UNCHANGED <<cancelled, history>> /\ pc[s] # "done"
        /\ UNCHANGED <<called[s], unstored[s]>>
        /\ \/ pc'[s] = "done" /\ outcome'[s] \in {"completed", "stopped", "error"}
           \/ pc'[s] # "done" /\ outcome'[s] = outcome[s]
    BY <1>10 DEF WaitingForEvent, GoTo
  <2>2. Talk(s)' = Talk(s)
    BY <2>1, TalkSame
  <2> QED
    BY <2>1, <2>2, Hidden, Returns
<1>11. CASE Complete(s)
  <2>1. /\ UNCHANGED <<cancelled, history>> /\ pc[s] # "done"
        /\ UNCHANGED <<called[s], unstored[s]>>
        /\ \/ pc'[s] = "done" /\ outcome'[s] \in {"completed", "stopped", "error"}
           \/ pc'[s] # "done" /\ outcome'[s] = outcome[s]
    BY <1>11 DEF Complete, Review, StopHook, Prolong, GoTo, Return, InitialContext
  <2>2. Talk(s)' = Talk(s)
    BY <2>1, TalkSame
  <2> QED
    BY <2>1, <2>2, Hidden, Returns
<1>12. CASE Stopped(s)
  <2>1. /\ UNCHANGED <<cancelled, history>> /\ pc[s] # "done"
        /\ UNCHANGED <<called[s], unstored[s]>>
        /\ \/ pc'[s] = "done" /\ outcome'[s] \in {"completed", "stopped", "error"}
           \/ pc'[s] # "done" /\ outcome'[s] = outcome[s]
    BY <1>12 DEF Stopped, Return
  <2>2. Talk(s)' = Talk(s)
    BY <2>1, TalkSame
  <2> QED
    BY <2>1, <2>2, Hidden, Returns
<1>13. CASE CallCancelled(s)
  <2>1. /\ UNCHANGED <<cancelled, history>> /\ pc[s] # "done"
        /\ UNCHANGED <<called[s], unstored[s]>>
        /\ \/ pc'[s] = "done" /\ outcome'[s] \in {"completed", "stopped", "error"}
           \/ pc'[s] # "done" /\ outcome'[s] = outcome[s]
    BY <1>13 DEF CallCancelled, Return
  <2>2. Talk(s)' = Talk(s)
    BY <2>1, TalkSame
  <2> QED
    BY <2>1, <2>2, Hidden, Returns
<1>14. CASE StreamCancelled(s)
  <2>1. /\ UNCHANGED <<cancelled, history>> /\ pc[s] # "done"
        /\ UNCHANGED <<called[s], unstored[s]>>
        /\ \/ pc'[s] = "done" /\ outcome'[s] \in {"completed", "stopped", "error"}
           \/ pc'[s] # "done" /\ outcome'[s] = outcome[s]
    BY <1>14 DEF StreamCancelled, GoTo
  <2>2. Talk(s)' = Talk(s)
    BY <2>1, TalkSame
  <2> QED
    BY <2>1, <2>2, Hidden, Returns
<1>15. CASE WaitCancelled(s)
  <2>1. /\ UNCHANGED <<cancelled, history>> /\ pc[s] # "done"
        /\ UNCHANGED <<called[s], unstored[s]>>
        /\ \/ pc'[s] = "done" /\ outcome'[s] \in {"completed", "stopped", "error"}
           \/ pc'[s] # "done" /\ outcome'[s] = outcome[s]
    BY <1>15 DEF WaitCancelled, GoTo
  <2>2. Talk(s)' = Talk(s)
    BY <2>1, TalkSame
  <2> QED
    BY <2>1, <2>2, Hidden, Returns
<1>16. CASE \E c \in Calls : ToolCancelled(s, c)
  <2>1. /\ UNCHANGED <<cancelled, history>> /\ pc[s] # "done"
        /\ UNCHANGED <<called[s], unstored[s]>>
        /\ \/ pc'[s] = "done" /\ outcome'[s] \in {"completed", "stopped", "error"}
           \/ pc'[s] # "done" /\ outcome'[s] = outcome[s]
    BY <1>16 DEF ToolCancelled
  <2>2. Talk(s)' = Talk(s)
    BY <2>1, TalkSame
  <2> QED
    BY <2>1, <2>2, Hidden, Returns
<1>17. CASE Attempt(s)
  <2>1. /\ UNCHANGED <<cancelled, history>> /\ pc[s] # "done"
        /\ UNCHANGED <<called[s], unstored[s]>>
        /\ \/ pc'[s] = "done" /\ outcome'[s] \in {"completed", "stopped", "error"}
           \/ pc'[s] # "done" /\ outcome'[s] = outcome[s]
    BY <1>17 DEF Attempt, Answered, AttemptFails, Answers, GoTo, Return
  <2>2. Talk(s)' = Talk(s)
    BY <2>1, TalkSame
  <2> QED
    BY <2>1, <2>2, Hidden, Returns
<1>18. CASE Backoff(s)
  <2>1. /\ UNCHANGED <<cancelled, history>> /\ pc[s] # "done"
        /\ UNCHANGED <<called[s], unstored[s]>>
        /\ \/ pc'[s] = "done" /\ outcome'[s] \in {"completed", "stopped", "error"}
           \/ pc'[s] # "done" /\ outcome'[s] = outcome[s]
    BY <1>18 DEF Backoff
  <2>2. Talk(s)' = Talk(s)
    BY <2>1, TalkSame
  <2> QED
    BY <2>1, <2>2, Hidden, Returns
<1>19. CASE Streaming(s)
  <2>1. /\ UNCHANGED <<cancelled, history>> /\ pc[s] # "done"
        /\ UNCHANGED <<called[s], unstored[s]>>
        /\ \/ pc'[s] = "done" /\ outcome'[s] \in {"completed", "stopped", "error"}
           \/ pc'[s] # "done" /\ outcome'[s] = outcome[s]
    BY <1>19 DEF Streaming, Answered, Answers, GoTo, Return
  <2>2. Talk(s)' = Talk(s)
    BY <2>1, TalkSame
  <2> QED
    BY <2>1, <2>2, Hidden, Returns
<1>20. CASE WaitTimesOut(s)
  <2>1. /\ UNCHANGED <<cancelled, called, unstored>> /\ pc[s] # "done"
        /\ \/ pc'[s] = "done" /\ outcome'[s] = "error"
           \/ pc'[s] # "done" /\ outcome'[s] = outcome[s]
    BY <1>20 DEF WaitTimesOut, GoTo, Return, InjectWaitMessage
  <2>2. history'[s] = history[s] \/ history'[s] = Append(history[s], Plain("wait"))
    BY <1>20, WaitSays DEF Says, WaitTimesOut
  <2>3. Plain("wait") \in Messages /\ Plain("wait").kind \notin {"prompt", "assistant"}
    BY MessageTypes DEF Kinds
  <2>4. Talk(s)' = Talk(s)
    BY <2>2, <2>3, TalkSame
  <2> QED
    BY <2>1, <2>4, Hidden, Returns
<1>21. CASE Compact(s)
  <2>1. /\ UNCHANGED <<cancelled, called, unstored>> /\ pc[s] # "done"
        /\ \/ pc'[s] = "done" /\ outcome'[s] = "stopped"
           \/ pc'[s] # "done" /\ outcome'[s] = outcome[s]
    BY <1>21 DEF Compact, GoTo, Return
  <2>2. Talk(s)' = Talk(s)
    BY <1>21, TalkCompact
  <2> QED
    BY <2>1, <2>2, Hidden, Returns
<1>22. CASE \E c \in Calls : ToolReturns(s, c)
  <2>1. /\ UNCHANGED <<cancelled, history>> /\ pc[s] # "done"
        /\ UNCHANGED <<called[s], unstored[s]>>
        /\ \/ pc'[s] = "done" /\ outcome'[s] \in {"completed", "stopped", "error"}
           \/ pc'[s] # "done" /\ outcome'[s] = outcome[s]
    BY <1>22 DEF ToolReturns
  <2>2. Talk(s)' = Talk(s)
    BY <2>1, TalkSame
  <2> QED
    BY <2>1, <2>2, Hidden, Returns
<1>23. CASE \E c \in Calls : DelegationEnds(s, c)
  <2>1. /\ UNCHANGED <<cancelled, called, unstored>> /\ pc[s] # "done"
        /\ \/ pc'[s] = "done" /\ outcome'[s] = "error"
           \/ pc'[s] # "done" /\ outcome'[s] = outcome[s]
    BY <1>23 DEF DelegationEnds, GoTo, Return, InjectWaitMessage
  <2>2. history'[s] = history[s] \/ history'[s] = Append(history[s], Plain("wait"))
    BY <1>23, WaitSays DEF Says, DelegationEnds
  <2>3. Plain("wait") \in Messages /\ Plain("wait").kind \notin {"prompt", "assistant"}
    BY MessageTypes DEF Kinds
  <2>4. Talk(s)' = Talk(s)
    BY <2>2, <2>3, TalkSame
  <2> QED
    BY <2>1, <2>4, Hidden, Returns
<1> QED
  BY <1>1, <1>2, <1>3, <1>4, <1>5, <1>6, <1>7, <1>8, <1>9, <1>10, <1>11, <1>12, <1>13, <1>14,
       <1>15, <1>16, <1>17, <1>18, <1>19, <1>20, <1>21, <1>22, <1>23
     DEF Own, Turn, Loop, Interrupt, Answer

\* What another session does is hidden.
LEMMA TurnThere ==
  ASSUME TypeOK, NEW s \in Sessions, NEW r \in Sessions, r # s, Own(s)
  PROVE  UNCHANGED T(r)!vars
<1>1. /\ r \in cancelled' <=> r \in cancelled
      /\ UNCHANGED <<pc[r], outcome[r], called[r], unstored[r], history[r]>>
  BY Frame
<1>2. /\ SessionPhase(r)' = SessionPhase(r) /\ SessionOutcome(r)' = SessionOutcome(r)
      /\ Talk(r)' = Talk(r)
  BY <1>1 DEF SessionPhase, SessionOutcome, Talk, Stored
<1> QED
  BY <1>1, <1>2 DEF T!vars, T!actorVars, T!taskVars, T!runtimeVars, ofTurn

\* Between two prompts of a session, every step of the cycle is a step of
\* SessionTurn, in which all that is proved of turns is proved, or hidden
\* from it.
THEOREM CycleImplementsTurn == Spec => ImplementsTurn
<1>1. ASSUME CycleInv, Next, NEW r \in Sessions
      PROVE  NewTurn(r) \/ T(r)!Next \/ UNCHANGED T(r)!vars
  <2>1. PICK s \in Sessions : Own(s)
    BY <1>1 DEF Next, Own
  <2>2. FlowType /\ CountType /\ CallType /\ TalkType /\ TypeOK /\ PlaceAt(r) /\ StoredAt(r)
    BY <1>1 DEF CycleInv, TypeOK, FlowType, CountType, CallType, TalkType, PlaceOK, StoredOK
  <2> QED
    BY <2>1, <2>2, TurnHere, TurnThere
<1>2. CycleInv /\ [Next]_vars =>
         [\A s \in Sessions : NewTurn(s) \/ T(s)!Next \/ UNCHANGED T(s)!vars]_vars
  BY <1>1
<1> QED
  BY <1>2, CycleInvariant, PTL DEF Spec, ImplementsTurn

=============================================================================
