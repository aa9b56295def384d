-------------------------- MODULE SessionTurnProofs --------------------------
(***************************************************************************)
(* The safety properties of SessionTurn for any set of prompts, any number *)
(* of responses per turn, with and without snapshots.                      *)
(***************************************************************************)
EXTENDS SessionTurn, SequenceTheorems, TLAPS

\* Dropping one element of a queue leaves a shorter queue.
LEMMA WithoutType ==
  ASSUME NEW S, NEW q \in Seq(S), NEW i \in 1..Len(q)
  PROVE  /\ Without(q, i) \in Seq(S)
         /\ Len(Without(q, i)) = Len(q) - 1
         /\ \A j \in 1..(Len(q) - 1) : Without(q, i)[j] = q[IF j < i THEN j ELSE j + 1]
<1>1. Len(q) - 1 \in Nat
  OBVIOUS
<1>2. \A j \in 1..(Len(q) - 1) : q[IF j < i THEN j ELSE j + 1] \in S
  OBVIOUS
<1> QED
  BY <1>1, <1>2 DEF Without

\* A released permit goes to the head of the queue.
LEMMA ReleaseType ==
  ASSUME TypeOK, Release
  PROVE  holder' \in Prompts \cup {Nobody} /\ waiters' \in Seq(Prompts)
<1> USE DEF TypeOK, Release
<1>1. CASE waiters = <<>>
  BY <1>1
<1>2. CASE waiters # <<>>
  BY <1>2, HeadTailProperties
<1> QED
  BY <1>1, <1>2

\* A dropped wait hands the permit on or leaves the queue.
LEMMA AbandonType ==
  ASSUME TypeOK, NEW p \in Prompts, Abandon(p)
  PROVE  holder' \in Prompts \cup {Nobody} /\ waiters' \in Seq(Prompts)
<1>1. CASE holder = p /\ Release
  BY <1>1, ReleaseType
<1>2. CASE holder' = holder /\ waiters' = waiters
  BY <1>2 DEF TypeOK
<1>3. ASSUME NEW i \in 1..Len(waiters), waiters' = Without(waiters, i), holder' = holder
      PROVE  holder' \in Prompts \cup {Nobody} /\ waiters' \in Seq(Prompts)
  BY <1>3, WithoutType DEF TypeOK
<1> QED
  BY <1>1, <1>2, <1>3 DEF Abandon

\* A fresh token has a new number.
LEMMA FreshTokenType ==
  ASSUME TypeOK, lastToken' = lastToken + 1, token' = lastToken'
  PROVE  token' \in Nat /\ lastToken' \in Nat
<1>1. lastToken' \in Nat
  BY DEF TypeOK
<1> QED
  BY <1>1

\* What the turns store in the history.
LEMMA EntryType ==
  ASSUME NEW kind \in {"user", "assistant", "start", "patch"},
         NEW by \in Prompts, NEW turn \in Prompts
  PROVE  Entry(kind, by, turn) \in Entries
BY DEF Entry, Entries

\* The type invariant: every handler of the actor and every step of a
\* detached task keeps the state well-formed.
THEOREM TypeCorrect == Spec => []TypeOK
<1>1. Init => TypeOK
  <2> SUFFICES ASSUME Init PROVE TypeOK
    OBVIOUS
  <2> USE PromptsAssumption DEF Init, TypeOK, Phases, Live, Waiting, Executing, Outcomes
  <2>1. generation \in Nat /\ token \in Nat /\ lastToken \in Nat /\ cancelled \subseteq Nat
    OBVIOUS
  <2>2. phase \in [Prompts -> Phases] /\ outcome \in [Prompts -> Outcomes]
    OBVIOUS
  <2>3. waiters \in Seq(Prompts) /\ history \in Seq(Entries)
    OBVIOUS
  <2> QED
    BY <2>1, <2>2, <2>3
<1>2. TypeOK /\ [Next]_vars => TypeOK'
  <2> SUFFICES ASSUME TypeOK, [Next]_vars PROVE TypeOK'
    OBVIOUS
  <2> USE PromptsAssumption DEF TypeOK, Phases, Live, Waiting, Queued, Executing, Outcomes,
          vars, actorVars, taskVars, runtimeVars
  <2>1. CASE Cancel
    BY <2>1 DEF Cancel
  <2>2. CASE Shutdown
    BY <2>2 DEF Shutdown
  <2>3. ASSUME NEW p \in Prompts, Accept(p) PROVE TypeOK'
    <3>1. generation' \in Nat
      BY <2>3 DEF Accept
    <3>2. token' \in Nat /\ lastToken' \in Nat
      BY <2>3, FreshTokenType DEF Accept
    <3>3. phase' \in [Prompts -> Phases]
      BY <2>3 DEF Accept
    <3>4. gen' \in [Prompts -> Nat] /\ tok' \in [Prompts -> Nat]
      BY <2>3, <3>1, <3>2 DEF Accept
    <3> QED
      BY <2>3, <3>1, <3>2, <3>3, <3>4 DEF Accept
  <2>4. ASSUME NEW p \in Prompts, PromptFinished(p) PROVE TypeOK'
    <3>1. token' \in Nat /\ lastToken' \in Nat
      BY <2>4, FreshTokenType DEF PromptFinished
    <3>2. prompt_running' \in BOOLEAN
      BY <2>4 DEF PromptFinished
    <3>3. phase' \in [Prompts -> Phases]
      BY <2>4 DEF PromptFinished
    <3> QED
      BY <2>4, <3>1, <3>2, <3>3 DEF PromptFinished
  <2>5. ASSUME NEW p \in Prompts, Acquire(p) PROVE TypeOK'
    <3>1. holder' \in Prompts \cup {Nobody} /\ waiters' \in Seq(Prompts)
      <4>1. Append(waiters, p) \in Seq(Prompts)
        OBVIOUS
      <4> QED
        BY <2>5, <4>1 DEF Acquire
    <3>2. phase' \in [Prompts -> Phases]
      BY <2>5 DEF Acquire
    <3> QED
      BY <2>5, <3>1, <3>2 DEF Acquire
  <2>6. ASSUME NEW p \in Prompts, Acquired(p) PROVE TypeOK'
    BY <2>6 DEF Acquired
  <2>7. ASSUME NEW p \in Prompts, WaitCancelled(p) PROVE TypeOK'
    BY <2>7, AbandonType DEF WaitCancelled
  <2>8. ASSUME NEW p \in Prompts, ShortTimeout(p) PROVE TypeOK'
    BY <2>8, AbandonType DEF ShortTimeout
  <2>9. ASSUME NEW p \in Prompts, LongTimeout(p) PROVE TypeOK'
    BY <2>9, AbandonType DEF LongTimeout
  <2>10. ASSUME NEW p \in Prompts, PrepareFails(p) PROVE TypeOK'
    BY <2>10, ReleaseType DEF PrepareFails
  <2>11. ASSUME NEW p \in Prompts, StartTurn(p) PROVE TypeOK'
    <3>1. history' \in Seq(Entries)
      BY <2>11, EntryType DEF StartTurn
    <3>2. pre_task' \in Prompts \cup {Nobody}
      BY <2>11 DEF StartTurn
    <3>3. phase' \in [Prompts -> Phases]
      BY <2>11 DEF StartTurn
    <3> QED
      BY <2>11, <3>1, <3>2, <3>3 DEF StartTurn
  <2>12. ASSUME NEW p \in Prompts, CallLlm(p) PROVE TypeOK'
    <3>1. responses' \in [Prompts -> Nat]
      BY <2>12 DEF CallLlm
    <3>2. phase' \in [Prompts -> Phases]
      BY <2>12 DEF CallLlm
    <3> QED
      BY <2>12, <3>1, <3>2 DEF CallLlm
  <2>13. ASSUME NEW p \in Prompts, ResolveSnapshot(p) PROVE TypeOK'
    <3>1. history' \in Seq(Entries)
      <4>1. Append(history, Entry("start", p, pre_task)) \in Seq(Entries)
        BY <2>13, EntryType DEF ResolveSnapshot
      <4> QED
        BY <2>13, <4>1 DEF ResolveSnapshot, EnsurePreTurnSnapshotReady
    <3>2. turn_snapshot' \in Prompts \cup {Nobody} /\ pre_task' = Nobody
      BY <2>13 DEF ResolveSnapshot, EnsurePreTurnSnapshotReady
    <3> QED
      BY <2>13, <3>1, <3>2 DEF ResolveSnapshot
  <2>14. ASSUME NEW p \in Prompts, StoreResponse(p) PROVE TypeOK'
    BY <2>14, EntryType DEF StoreResponse
  <2>15. ASSUME NEW p \in Prompts, CycleReturns(p) PROVE TypeOK'
    BY <2>15 DEF CycleReturns
  <2>16. ASSUME NEW p \in Prompts, PostTurn(p) PROVE TypeOK'
    <3>1. history' \in Seq(Entries)
      <4>1. turn_snapshot # Nobody => Append(history, Entry("patch", p, turn_snapshot)) \in Seq(Entries)
        BY EntryType
      <4> QED
        BY <2>16, <4>1 DEF PostTurn
    <3>2. holder' \in Prompts \cup {Nobody} /\ waiters' \in Seq(Prompts)
      BY <2>16, ReleaseType DEF PostTurn
    <3>3. phase' \in [Prompts -> Phases]
      BY <2>16 DEF PostTurn
    <3> QED
      BY <2>16, <3>1, <3>2, <3>3 DEF PostTurn
  <2>17. ASSUME NEW p \in Prompts, ReportFinished(p) PROVE TypeOK'
    BY <2>17 DEF ReportFinished
  <2>18. CASE UNCHANGED vars
    BY <2>18
  <2> QED
    BY <2>1, <2>2, <2>3, <2>4, <2>5, <2>6, <2>7, <2>8, <2>9, <2>10, <2>11, <2>12, <2>13,
       <2>14, <2>15, <2>16, <2>17, <2>18
       DEF Next, Handle, Wait, Run, Prompt, ScheduledPrompt
<1> QED
  BY <1>1, <1>2, PTL DEF Spec

-----------------------------------------------------------------------------
(***************************************************************************)
(* The execution permit.  PermitNotLost is inductive together with TypeOK. *)
(***************************************************************************)

\* The facts about the types that the permit's invariant needs.
LEMMA PermitTypes ==
  ASSUME TypeOK
  PROVE  /\ waiters \in Seq(Prompts)
         /\ \A i \in 1..Len(waiters) : waiters[i] \in Prompts
         /\ holder \in Prompts \cup {Nobody}
         /\ DOMAIN phase = Prompts
         /\ \A p \in Prompts, ph \in Phases : [phase EXCEPT ![p] = ph][p] = ph
BY DEF TypeOK

\* A task has one phase.
LEMMA PhasesDisjoint ==
  /\ Executing \cap Queued = {}
  /\ \A ph \in {"spawned", "requeue", "returned"} : ph \notin Executing \cup Queued
  /\ "prepare" \in Executing
  /\ \A ph \in {"short", "long"} : ph \in Queued
BY DEF Executing, Queued

\* A step that leaves the semaphore alone and moves no task into or out of
\* the queue or the turn.
LEMMA PermitUntouched ==
  ASSUME TypeOK, PermitNotLost, UNCHANGED <<holder, waiters>>,
         \A q \in Prompts : /\ phase'[q] \in Executing <=> phase[q] \in Executing
                            /\ phase'[q] \in Queued <=> phase[q] \in Queued
  PROVE  PermitNotLost'
<1>1. TurnsHoldPermit'
  BY DEF PermitNotLost, TurnsHoldPermit
<1>2. HolderLives'
  BY PermitTypes DEF PermitNotLost, HolderLives
<1>3. FreeIfNoQueue' /\ QueueDistinct'
  BY DEF PermitNotLost, FreeIfNoQueue, QueueDistinct
<1>4. WaitersTracked'
  BY DEF PermitNotLost, WaitersTracked
<1>5. QueueWaits'
  BY PermitTypes DEF PermitNotLost, QueueWaits
<1> QED
  BY <1>1, <1>2, <1>3, <1>4, <1>5 DEF PermitNotLost

\* The holder gives the permit up: the head of the queue gets it.
LEMMA ReleaseKeepsPermit ==
  ASSUME TypeOK, PermitNotLost, NEW p \in Prompts, holder = p, Release,
         NEW ph, ph \notin Executing \cup Queued, phase' = [phase EXCEPT ![p] = ph]
  PROVE  PermitNotLost'
<1>1. /\ \A q \in Prompts : q # p => phase'[q] = phase[q]
      /\ phase'[p] \notin Executing \cup Queued
  BY PermitTypes
<1>2. \A q \in Prompts : phase[q] \in Executing => q = p
  BY DEF PermitNotLost, TurnsHoldPermit
<1>3. TurnsHoldPermit'
  BY <1>1, <1>2 DEF TurnsHoldPermit
<1>4. CASE waiters = <<>>
  <2>1. holder' = Nobody /\ waiters' = <<>>
    BY <1>4 DEF Release
  <2>2. \A q \in Prompts : phase[q] \in Queued => q = p
    BY <1>4 DEF PermitNotLost, WaitersTracked
  <2>3. WaitersTracked'
    BY <1>1, <2>2 DEF WaitersTracked
  <2>4. QueueWaits' /\ QueueDistinct' /\ FreeIfNoQueue' /\ HolderLives'
    BY <2>1 DEF QueueWaits, QueueDistinct, FreeIfNoQueue, HolderLives
  <2> QED
    BY <1>3, <2>3, <2>4 DEF PermitNotLost
<1>5. CASE waiters # <<>>
  <2>1. /\ Len(waiters) \in Nat /\ Len(waiters) > 0 /\ Len(waiters') = Len(waiters) - 1
        /\ holder' = waiters[1]
        /\ \A i \in 1..Len(waiters') : i + 1 \in 1..Len(waiters) /\ waiters'[i] = waiters[i + 1]
    BY <1>5, PermitTypes DEF Release
  <2>2. \A i \in 1..Len(waiters) : waiters[i] \in Prompts /\ waiters[i] # p
    BY PermitTypes DEF PermitNotLost, QueueWaits
  <2>3. \A i \in 1..Len(waiters) : phase'[waiters[i]] \in Queued
    BY <1>1, <2>2 DEF PermitNotLost, QueueWaits
  <2>4. QueueWaits'
    <3> SUFFICES ASSUME NEW i \in 1..Len(waiters')
                 PROVE  phase'[waiters'[i]] \in Queued /\ waiters'[i] # holder'
      BY DEF QueueWaits
    <3>1. 1 \in 1..Len(waiters) /\ i + 1 \in 1..Len(waiters) /\ i + 1 # 1
      BY <2>1
    <3>2. waiters[i + 1] # waiters[1]
      BY <3>1 DEF PermitNotLost, QueueDistinct
    <3> QED
      BY <2>1, <2>3, <3>1, <3>2
  <2>5. QueueDistinct'
    <3> SUFFICES ASSUME NEW i \in 1..Len(waiters'), NEW j \in 1..Len(waiters'),
                        waiters'[i] = waiters'[j]
                 PROVE  i = j
      BY DEF QueueDistinct
    <3>1. i + 1 = j + 1
      BY <2>1 DEF PermitNotLost, QueueDistinct
    <3> QED
      BY <2>1, <3>1
  <2>6. WaitersTracked'
    <3> SUFFICES ASSUME NEW q \in Prompts, phase'[q] \in Queued
                 PROVE  holder' = q \/ \E i \in 1..Len(waiters') : waiters'[i] = q
      BY DEF WaitersTracked
    <3>1. PICK k \in 1..Len(waiters) : waiters[k] = q
      BY <1>1 DEF PermitNotLost, WaitersTracked
    <3>2. CASE k = 1
      BY <2>1, <3>1, <3>2
    <3>3. CASE k # 1
      <4>1. k - 1 \in 1..Len(waiters') /\ (k - 1) + 1 = k
        BY <2>1, <3>3
      <4>2. waiters'[k - 1] = q
        BY <2>1, <3>1, <4>1
      <4> QED
        BY <4>1, <4>2
    <3> QED
      BY <3>2, <3>3
  <2>7. 1 \in 1..Len(waiters)
    BY <2>1
  <2>8. HolderLives' /\ FreeIfNoQueue'
    BY <2>1, <2>2, <2>3, <2>7, PromptsAssumption DEF HolderLives, FreeIfNoQueue
  <2> QED
    BY <1>3, <2>4, <2>5, <2>6, <2>8 DEF PermitNotLost
<1> QED
  BY <1>4, <1>5

\* A wait is dropped, by cancellation or by its timeout.
LEMMA AbandonKeepsPermit ==
  ASSUME TypeOK, PermitNotLost, NEW p \in Prompts, phase[p] \notin Executing, Abandon(p),
         NEW ph, ph \notin Executing \cup Queued, phase' = [phase EXCEPT ![p] = ph]
  PROVE  PermitNotLost'
<1>1. /\ \A q \in Prompts : q # p => phase'[q] = phase[q]
      /\ phase'[p] \notin Executing \cup Queued
  BY PermitTypes
<1>2. CASE holder = p /\ Release
  BY <1>2, ReleaseKeepsPermit
<1>3. ASSUME holder # p, holder' = holder PROVE TurnsHoldPermit' /\ HolderLives'
  BY <1>1, <1>3, PermitTypes DEF PermitNotLost, TurnsHoldPermit, HolderLives
<1>4. ASSUME holder # p, holder' = holder, waiters' = waiters,
             \A i \in 1..Len(waiters) : waiters[i] # p
      PROVE  PermitNotLost'
  <2>1. FreeIfNoQueue' /\ QueueDistinct'
    BY <1>4 DEF PermitNotLost, FreeIfNoQueue, QueueDistinct
  <2>2. WaitersTracked'
    BY <1>1, <1>4 DEF PermitNotLost, WaitersTracked
  <2>3. QueueWaits'
    BY <1>1, <1>4, PermitTypes DEF PermitNotLost, QueueWaits
  <2> QED
    BY <1>3, <1>4, <2>1, <2>2, <2>3 DEF PermitNotLost
<1>5. ASSUME holder # p, holder' = holder, NEW k \in 1..Len(waiters),
             waiters[k] = p, waiters' = Without(waiters, k)
      PROVE  PermitNotLost'
  <2> DEFINE at(i) == IF i < k THEN i ELSE i + 1
  <2>1. /\ Len(waiters) \in Nat
        /\ Len(waiters') = Len(waiters) - 1
        /\ \A i \in 1..Len(waiters') : waiters'[i] = waiters[at(i)]
    <3>1. waiters \in Seq(Prompts) /\ Len(waiters) \in Nat
      BY PermitTypes
    <3>2. /\ Len(Without(waiters, k)) = Len(waiters) - 1
          /\ \A i \in 1..(Len(waiters) - 1) : Without(waiters, k)[i] = waiters[at(i)]
      BY <3>1, WithoutType
    <3> QED
      BY <1>5, <3>1, <3>2
  <2>2. \A i \in 1..Len(waiters') : at(i) \in 1..Len(waiters) /\ at(i) # k
    BY <2>1
  <2>3. \A i, j \in 1..Len(waiters') : at(i) = at(j) => i = j
    BY <2>1
  <2>4. \A j \in 1..Len(waiters) : j # k => \E i \in 1..Len(waiters') : at(i) = j
    <3> SUFFICES ASSUME NEW j \in 1..Len(waiters), j # k
                 PROVE  \E i \in 1..Len(waiters') : at(i) = j
      OBVIOUS
    <3>1. CASE j < k
      <4>1. j \in 1..Len(waiters') /\ at(j) = j
        BY <2>1, <3>1
      <4> QED
        BY <4>1
    <3>2. CASE j > k
      <4>1. j - 1 \in 1..Len(waiters') /\ at(j - 1) = j
        BY <2>1, <3>2
      <4> QED
        BY <4>1
    <3> QED
      BY <3>1, <3>2
  <2> HIDE DEF at
  <2>5. \A i \in 1..Len(waiters') : waiters'[i] \in Prompts /\ waiters'[i] # p
    <3> SUFFICES ASSUME NEW i \in 1..Len(waiters')
                 PROVE  waiters'[i] \in Prompts /\ waiters'[i] # p
      OBVIOUS
    <3>1. waiters[at(i)] \in Prompts
      BY <2>2, PermitTypes
    <3>2. waiters[at(i)] # waiters[k]
      BY <1>5, <2>2 DEF PermitNotLost, QueueDistinct
    <3> QED
      BY <1>5, <2>1, <3>1, <3>2
  <2>6. QueueWaits'
    BY <1>1, <1>5, <2>1, <2>2, <2>5 DEF PermitNotLost, QueueWaits
  <2>7. QueueDistinct'
    BY <2>1, <2>2, <2>3 DEF PermitNotLost, QueueDistinct
  <2>8. WaitersTracked'
    <3> SUFFICES ASSUME NEW q \in Prompts, phase'[q] \in Queued, holder # q
                 PROVE  \E i \in 1..Len(waiters') : waiters'[i] = q
      BY <1>5 DEF WaitersTracked
    <3>1. PICK j \in 1..Len(waiters) : waiters[j] = q
      BY <1>1 DEF PermitNotLost, WaitersTracked
    <3>2. j # k
      BY <1>1, <1>5, <3>1
    <3>3. PICK i \in 1..Len(waiters') : at(i) = j
      BY <2>4, <3>2
    <3> QED
      BY <2>1, <3>1, <3>3
  <2>9. FreeIfNoQueue'
    <3>1. waiters # <<>>
      BY <1>5
    <3> QED
      BY <1>5, <3>1 DEF PermitNotLost, FreeIfNoQueue
  <2> QED
    BY <1>3, <1>5, <2>6, <2>7, <2>8, <2>9 DEF PermitNotLost
<1> QED
  BY <1>2, <1>4, <1>5 DEF Abandon

\* The permit is never lost, doubled or left with a task that does not run,
\* whatever timeouts, cancellations and new prompts do to the queue.
THEOREM PermitSafe == Spec => []PermitNotLost
<1>1. Init => PermitNotLost
  BY DEF Init, PermitNotLost, TurnsHoldPermit, HolderLives, FreeIfNoQueue, WaitersTracked,
         QueueWaits, QueueDistinct, Executing, Queued
<1>2. TypeOK /\ PermitNotLost /\ [Next]_vars => PermitNotLost'
  <2> SUFFICES ASSUME TypeOK, PermitNotLost, [Next]_vars PROVE PermitNotLost'
    OBVIOUS
  <2>1. CASE Cancel
    BY <2>1, PermitUntouched DEF Cancel, taskVars, runtimeVars
  <2>2. CASE Shutdown
    <3>1. \A q \in Prompts : phase'[q] = phase[q] \/ (phase[q] = "reported" /\ phase'[q] = "done")
      BY <2>2 DEF Shutdown
    <3> QED
      BY <2>2, <3>1, PermitUntouched DEF Shutdown, runtimeVars, Executing, Queued
  <2>3. ASSUME NEW p \in Prompts, Accept(p) PROVE PermitNotLost'
    <3>1. phase[p] = "idle" /\ phase' = [phase EXCEPT ![p] = "spawned"]
      BY <2>3 DEF Accept
    <3> QED
      BY <2>3, <3>1, PermitUntouched, PermitTypes DEF Accept, runtimeVars, Executing, Queued
  <2>4. ASSUME NEW p \in Prompts, PromptFinished(p) PROVE PermitNotLost'
    <3>1. phase[p] = "reported" /\ phase' = [phase EXCEPT ![p] = "done"]
      BY <2>4 DEF PromptFinished
    <3> QED
      BY <2>4, <3>1, PermitUntouched, PermitTypes DEF PromptFinished, runtimeVars, Executing, Queued
  <2>5. ASSUME NEW p \in Prompts, Acquire(p) PROVE PermitNotLost'
    <3>1. phase[p] \notin Executing \cup Queued
      BY <2>5, PhasesDisjoint DEF Acquire
    <3>2. CASE holder = Nobody
      <4>1. holder' = p /\ waiters' = <<>> /\ phase' = [phase EXCEPT ![p] = "prepare"]
        BY <2>5, <3>2 DEF Acquire, PermitNotLost, FreeIfNoQueue
      <4>2. /\ phase'[p] = "prepare"
            /\ \A q \in Prompts : q # p => phase'[q] = phase[q]
        BY <4>1, PermitTypes
      <4>3. \A q \in Prompts : phase[q] \notin Executing \cup Queued
        BY <3>2, PromptsAssumption
           DEF PermitNotLost, TurnsHoldPermit, WaitersTracked, FreeIfNoQueue
      <4> QED
        BY <4>1, <4>2, <4>3, PhasesDisjoint, PromptsAssumption
           DEF PermitNotLost, TurnsHoldPermit, HolderLives, FreeIfNoQueue, WaitersTracked,
               QueueWaits, QueueDistinct
    <3>3. CASE holder # Nobody
      <4>1. PICK ph \in {"short", "long"} :
               /\ phase' = [phase EXCEPT ![p] = ph]
               /\ holder' = holder
               /\ waiters' = Append(waiters, p)
        BY <2>5, <3>3 DEF Acquire
      <4>2. /\ phase'[p] \in Queued /\ phase'[p] \notin Executing
            /\ \A q \in Prompts : q # p => phase'[q] = phase[q]
        BY <4>1, PermitTypes, PhasesDisjoint
      <4>3. /\ Len(waiters) \in Nat
            /\ Len(waiters') = Len(waiters) + 1
            /\ waiters'[Len(waiters')] = p
            /\ \A i \in 1..Len(waiters') : i = Len(waiters') \/ i \in 1..Len(waiters)
            /\ \A i \in 1..Len(waiters) : waiters'[i] = waiters[i] /\ i \in 1..Len(waiters')
        BY <4>1, PermitTypes
      <4>4. holder # p /\ \A i \in 1..Len(waiters) : waiters[i] \in Prompts /\ waiters[i] # p
        BY <3>1, <3>3, PermitTypes DEF PermitNotLost, HolderLives, QueueWaits
      <4>5. TurnsHoldPermit' /\ HolderLives' /\ FreeIfNoQueue'
        BY <3>3, <4>1, <4>2, <4>4, PermitTypes
           DEF PermitNotLost, TurnsHoldPermit, HolderLives, FreeIfNoQueue
      <4>6. WaitersTracked'
        BY <4>1, <4>2, <4>3 DEF PermitNotLost, WaitersTracked
      <4>7. QueueWaits'
        BY <4>1, <4>2, <4>3, <4>4 DEF PermitNotLost, QueueWaits
      <4>8. QueueDistinct'
        BY <4>3, <4>4 DEF PermitNotLost, QueueDistinct
      <4> QED
        BY <4>5, <4>6, <4>7, <4>8 DEF PermitNotLost
    <3> QED
      BY <3>2, <3>3
  <2>6. ASSUME NEW p \in Prompts, Acquired(p) PROVE PermitNotLost'
    <3>1. /\ holder = p /\ phase[p] \in Queued /\ UNCHANGED <<holder, waiters>>
          /\ phase' = [phase EXCEPT ![p] = "prepare"]
      BY <2>6 DEF Acquired, runtimeVars
    <3>2. /\ phase'[p] \in Executing /\ phase'[p] \notin Queued
          /\ \A q \in Prompts : q # p => phase'[q] = phase[q]
      BY <3>1, PermitTypes, PhasesDisjoint
    <3>3. TurnsHoldPermit' /\ HolderLives' /\ FreeIfNoQueue' /\ QueueDistinct'
      BY <3>1, <3>2 DEF PermitNotLost, TurnsHoldPermit, HolderLives, FreeIfNoQueue, QueueDistinct
    <3>4. WaitersTracked'
      BY <3>1, <3>2 DEF PermitNotLost, WaitersTracked
    <3>5. QueueWaits'
      BY <3>1, <3>2, PermitTypes DEF PermitNotLost, QueueWaits
    <3> QED
      BY <3>3, <3>4, <3>5 DEF PermitNotLost
  <2>7. ASSUME NEW p \in Prompts, WaitCancelled(p) PROVE PermitNotLost'
    BY <2>7, AbandonKeepsPermit, PhasesDisjoint DEF WaitCancelled, Waiting, Executing
  <2>8. ASSUME NEW p \in Prompts, ShortTimeout(p) PROVE PermitNotLost'
    BY <2>8, AbandonKeepsPermit, PhasesDisjoint DEF ShortTimeout, Executing
  <2>9. ASSUME NEW p \in Prompts, LongTimeout(p) PROVE PermitNotLost'
    BY <2>9, AbandonKeepsPermit, PhasesDisjoint DEF LongTimeout, Executing
  <2>10. ASSUME NEW p \in Prompts, PrepareFails(p) PROVE PermitNotLost'
    <3>1. holder = p
      BY <2>10, PhasesDisjoint DEF PrepareFails, PermitNotLost, TurnsHoldPermit
    <3> QED
      BY <2>10, <3>1, ReleaseKeepsPermit, PhasesDisjoint DEF PrepareFails
  <2>11. ASSUME NEW p \in Prompts, NEW ph \in Executing, phase[p] \in Executing,
                phase' = [phase EXCEPT ![p] = ph] \/ phase' = phase, UNCHANGED <<holder, waiters>>
         PROVE  PermitNotLost'
    BY <2>11, PermitUntouched, PermitTypes, PhasesDisjoint
  <2>12. ASSUME NEW p \in Prompts,
                StartTurn(p) \/ CallLlm(p) \/ ResolveSnapshot(p) \/ StoreResponse(p) \/ CycleReturns(p)
         PROVE  PermitNotLost'
    <3>1. phase[p] \in Executing /\ UNCHANGED <<holder, waiters>>
      BY <2>12 DEF StartTurn, CallLlm, ResolveSnapshot, StoreResponse, CycleReturns, runtimeVars,
                   Executing
    <3>2. \E ph \in Executing : phase' = [phase EXCEPT ![p] = ph] \/ phase' = phase
      BY <2>12 DEF StartTurn, CallLlm, ResolveSnapshot, StoreResponse, CycleReturns, taskVars,
                   Executing
    <3> QED
      BY <2>11, <3>1, <3>2
  <2>13. ASSUME NEW p \in Prompts, PostTurn(p) PROVE PermitNotLost'
    <3>1. holder = p
      BY <2>13 DEF PostTurn, PermitNotLost, TurnsHoldPermit, Executing
    <3> QED
      BY <2>13, <3>1, ReleaseKeepsPermit, PhasesDisjoint DEF PostTurn
  <2>14. ASSUME NEW p \in Prompts, ReportFinished(p) PROVE PermitNotLost'
    <3>1. /\ phase[p] = "returned" /\ UNCHANGED <<holder, waiters>>
          /\ phase' = [phase EXCEPT ![p] = "done"] \/ phase' = [phase EXCEPT ![p] = "reported"]
      BY <2>14 DEF ReportFinished, runtimeVars
    <3> QED
      BY <3>1, PermitUntouched, PermitTypes DEF Executing, Queued
  <2>15. CASE UNCHANGED vars
    BY <2>15, PermitUntouched DEF vars, taskVars, runtimeVars
  <2> QED
    BY <2>1, <2>2, <2>3, <2>4, <2>5, <2>6, <2>7, <2>8, <2>9, <2>10, <2>12, <2>13, <2>14, <2>15
       DEF Next, Handle, Wait, Run, Prompt, ScheduledPrompt
<1> QED
  BY <1>1, <1>2, TypeCorrect, PTL DEF Spec

-----------------------------------------------------------------------------
(***************************************************************************)
(* The actor's flag and tokens.                                            *)
(***************************************************************************)

\* A step of a task: it stays live until it reports, and leaves the actor,
\* the other tasks and its own generation and token alone.
LEMMA TaskMoves ==
  ASSUME TypeOK, NEW p \in Prompts, Wait(p) \/ Run(p)
  PROVE  /\ \A q \in Prompts : q # p => phase'[q] = phase[q]
         /\ phase[p] \in Live
         /\ phase'[p] \in Live \cup {"reported"} \/ stopped
         /\ phase'[p] # "idle"
         /\ UNCHANGED <<generation, token, lastToken, cancelled, prompt_running, stopped,
                        gen, tok, cancelSeen>>
<1> USE DEF Live, Waiting, Queued, Executing, actorVars, taskVars, Wait, Run
<1>1. /\ phase[p] \in Live
      /\ UNCHANGED <<generation, token, lastToken, cancelled, prompt_running, stopped,
                     gen, tok, cancelSeen>>
  BY DEF Acquire, Acquired, WaitCancelled, ShortTimeout, LongTimeout, PrepareFails, StartTurn,
         CallLlm, ResolveSnapshot, StoreResponse, CycleReturns, PostTurn, ReportFinished
<1>2. \E ph \in Live \cup {"reported", "done"} :
         /\ phase' = [phase EXCEPT ![p] = ph]
         /\ ph = "done" => stopped
  <2>1. ASSUME Wait(p)
        PROVE  \E ph \in {"prepare", "short", "long", "requeue", "returned"} :
                  phase' = [phase EXCEPT ![p] = ph]
    BY <2>1 DEF Acquire, Acquired, WaitCancelled, ShortTimeout, LongTimeout
  <2>2. ASSUME PrepareFails(p) \/ StartTurn(p) \/ CallLlm(p) \/ StoreResponse(p)
                 \/ CycleReturns(p) \/ PostTurn(p)
        PROVE  \E ph \in {"returned", "cycle", "responding", "post"} :
                  phase' = [phase EXCEPT ![p] = ph]
    BY <2>2 DEF PrepareFails, StartTurn, CallLlm, StoreResponse, CycleReturns, PostTurn
  <2>3. ASSUME ResolveSnapshot(p)
        PROVE  phase' = phase /\ phase[p] \in Live /\ phase[p] # "done"
    BY <2>3 DEF ResolveSnapshot
  <2>4. ASSUME ResolveSnapshot(p) PROVE phase' = [phase EXCEPT ![p] = phase[p]]
    BY <2>3, <2>4 DEF TypeOK
  <2>5. ASSUME ReportFinished(p)
        PROVE  \/ phase' = [phase EXCEPT ![p] = "reported"]
               \/ phase' = [phase EXCEPT ![p] = "done"] /\ stopped
    BY <2>5 DEF ReportFinished
  <2> QED
    BY <2>1, <2>2, <2>3, <2>4, <2>5
<1>3. PICK ph \in Live \cup {"reported", "done"} :
         phase' = [phase EXCEPT ![p] = ph] /\ (ph = "done" => stopped)
  BY <1>2
<1>4. phase'[p] = ph /\ \A q \in Prompts : q # p => phase'[q] = phase[q]
  BY <1>3 DEF TypeOK
<1> QED
  BY <1>1, <1>3, <1>4

Busy == Live \cup {"reported"}

\* The strengthening of RunningFlagHasOwner: generations are unique.
FlagInv ==
    /\ \A p \in Prompts : gen[p] <= generation
    /\ \A p, q \in Prompts :
          phase[p] # "idle" /\ phase[q] # "idle" /\ gen[p] = gen[q] => p = q
    /\ ~stopped => (prompt_running <=> \E p \in Prompts : gen[p] = generation /\ phase[p] \in Busy)

\* The strengthening of NoSpuriousCancel: tokens are numbered in order, and a
\* live prompt whose token is cancelled saw the Cancel.
TokenInv ==
    /\ token <= lastToken
    /\ \A t \in cancelled : t <= lastToken
    /\ \A p \in Prompts : phase[p] \in Live /\ tok[p] \in cancelled => p \in cancelSeen
    /\ NoSpuriousCancel

\* prompt_running is set exactly while the newest prompt is not finished:
\* the generation guard of PromptFinished makes stale messages harmless.
THEOREM FlagOwned == Spec => []RunningFlagHasOwner
<1>1. Init => FlagInv
  BY DEF Init, FlagInv, Busy, Live, Waiting, Executing
<1>2. TypeOK /\ FlagInv /\ [Next]_vars => FlagInv'
  <2> SUFFICES ASSUME TypeOK, FlagInv, [Next]_vars PROVE FlagInv'
    OBVIOUS
  <2>1. ASSUME UNCHANGED <<generation, gen, prompt_running, stopped, phase>> PROVE FlagInv'
    BY <2>1 DEF FlagInv
  <2>2. CASE Cancel
    BY <2>1, <2>2 DEF Cancel, taskVars
  <2>3. CASE Shutdown
    <3>1. \A q \in Prompts : phase'[q] = "idle" <=> phase[q] = "idle"
      BY <2>3 DEF Shutdown, TypeOK
    <3> QED
      BY <2>3, <3>1 DEF Shutdown, FlagInv
  <2>4. ASSUME NEW p \in Prompts, Accept(p) PROVE FlagInv'
    <3>1. /\ generation' = generation + 1 /\ generation \in Nat
          /\ gen' = [gen EXCEPT ![p] = generation']
          /\ phase' = [phase EXCEPT ![p] = "spawned"]
          /\ prompt_running' = TRUE
      BY <2>4 DEF Accept, TypeOK
    <3>2. /\ gen'[p] = generation' /\ phase'[p] = "spawned"
          /\ \A q \in Prompts : q # p => gen'[q] = gen[q] /\ phase'[q] = phase[q]
          /\ \A q \in Prompts : gen[q] \in Nat
      BY <3>1 DEF TypeOK
    <3>3. \A q \in Prompts : gen[q] < generation'
      BY <3>1, <3>2 DEF FlagInv
    <3>4. "spawned" \in Busy
      BY DEF Busy, Live, Waiting
    <3> QED
      BY <3>1, <3>2, <3>3, <3>4 DEF FlagInv
  <2>5. ASSUME NEW p \in Prompts, PromptFinished(p) PROVE FlagInv'
    <3>1. /\ UNCHANGED <<generation, gen, stopped>> /\ ~stopped
          /\ phase[p] = "reported" /\ phase' = [phase EXCEPT ![p] = "done"]
      BY <2>5 DEF PromptFinished
    <3>2. /\ phase'[p] = "done"
          /\ \A q \in Prompts : q # p => phase'[q] = phase[q]
      BY <3>1 DEF TypeOK
    <3>3. "reported" \in Busy /\ "done" \notin Busy /\ "idle" \notin Busy
      BY DEF Busy, Live, Waiting, Executing
    <3>4. CASE gen[p] # generation
      <4>1. prompt_running' = prompt_running
        BY <2>5, <3>4 DEF PromptFinished
      <4> QED
        BY <3>1, <3>2, <3>3, <3>4, <4>1 DEF FlagInv
    <3>5. CASE gen[p] = generation
      <4>1. prompt_running' = FALSE
        BY <2>5, <3>5 DEF PromptFinished
      <4>2. \A q \in Prompts : gen[q] = generation /\ phase[q] \in Busy => q = p
        BY <3>1, <3>3, <3>5 DEF FlagInv
      <4> QED
        BY <3>1, <3>2, <3>3, <4>1, <4>2 DEF FlagInv
    <3> QED
      BY <3>4, <3>5
  <2>6. ASSUME NEW p \in Prompts, Wait(p) \/ Run(p) PROVE FlagInv'
    <3>1. \A q \in Prompts : phase'[q] # "idle" => phase[q] # "idle"
      BY <2>6, TaskMoves DEF Live, Waiting, Executing
    <3>2. \A q \in Prompts : ~stopped => (phase'[q] \in Busy <=> phase[q] \in Busy)
      BY <2>6, TaskMoves DEF Busy
    <3> QED
      BY <2>6, <3>1, <3>2, TaskMoves DEF FlagInv
  <2>7. CASE UNCHANGED vars
    BY <2>1, <2>7 DEF vars, actorVars, taskVars
  <2> QED
    BY <2>2, <2>3, <2>4, <2>5, <2>6, <2>7 DEF Next, Handle, Prompt, ScheduledPrompt
<1>3. TypeOK /\ FlagInv => RunningFlagHasOwner
  BY DEF TypeOK, FlagInv, RunningFlagHasOwner, RuntimeStatus, Busy
<1> QED
  BY <1>1, <1>2, <1>3, TypeCorrect, PTL DEF Spec

\* Only a prompt that was live when a Cancel was handled ends as cancelled:
\* the tokens handed to new prompts are never cancelled ones.
THEOREM CancelNotSpurious == Spec => []NoSpuriousCancel
<1>1. Init => TokenInv
  BY DEF Init, TokenInv, NoSpuriousCancel
<1>2. TypeOK /\ TokenInv /\ [Next]_vars => TokenInv'
  <2> SUFFICES ASSUME TypeOK, TokenInv, [Next]_vars PROVE TokenInv'
    OBVIOUS
  <2>0. /\ token \in Nat /\ lastToken \in Nat /\ cancelled \subseteq Nat
        /\ lastToken + 1 \notin cancelled
    BY DEF TypeOK, TokenInv
  <2>1. CASE Cancel
    <3>1. /\ UNCHANGED <<token, lastToken, phase, tok, outcome>>
          /\ cancelled' = cancelled \cup {token}
          /\ \A q \in Prompts : q \in cancelSeen \/ phase[q] \in Live => q \in cancelSeen'
      BY <2>1 DEF Cancel, taskVars
    <3> QED
      BY <3>1 DEF TokenInv, NoSpuriousCancel
  <2>2. CASE Shutdown
    <3>1. /\ \A q \in Prompts : phase'[q] \in Live => phase[q] \in Live
          /\ UNCHANGED <<token, lastToken, cancelled, tok, outcome, cancelSeen>>
      BY <2>2 DEF Shutdown, Live, Waiting, Executing
    <3> QED
      BY <3>1 DEF TokenInv, NoSpuriousCancel
  <2>3. ASSUME NEW p \in Prompts, Accept(p) PROVE TokenInv'
    <3>1. /\ tok' = [tok EXCEPT ![p] = token'] /\ phase' = [phase EXCEPT ![p] = "spawned"]
          /\ UNCHANGED <<cancelled, outcome, cancelSeen>>
      BY <2>3 DEF Accept
    <3>2. /\ tok'[p] = token'
          /\ \A q \in Prompts : q # p => tok'[q] = tok[q] /\ phase'[q] = phase[q]
      BY <3>1 DEF TypeOK
    <3>3. token' \notin cancelled /\ token' <= lastToken' /\ lastToken <= lastToken'
                                  /\ lastToken' \in Nat
      <4>1. CASE token \in cancelled
        <5>1. lastToken' = lastToken + 1 /\ token' = lastToken'
          BY <2>3, <4>1 DEF Accept
        <5> QED
          BY <2>0, <5>1
      <4>2. CASE token \notin cancelled
        <5>1. lastToken' = lastToken /\ token' = token
          BY <2>3, <4>2 DEF Accept
        <5> QED
          BY <2>0, <4>2, <5>1 DEF TokenInv
      <4> QED
        BY <4>1, <4>2
    <3>4. \A t \in cancelled' : t <= lastToken'
      BY <2>0, <3>1, <3>3 DEF TokenInv
    <3> QED
      BY <3>1, <3>2, <3>3, <3>4 DEF TokenInv, NoSpuriousCancel
  <2>4. ASSUME NEW p \in Prompts, PromptFinished(p) PROVE TokenInv'
    <3>1. /\ phase' = [phase EXCEPT ![p] = "done"] /\ "done" \notin Live
          /\ UNCHANGED <<cancelled, tok, outcome, cancelSeen>>
      BY <2>4 DEF PromptFinished, Live, Waiting, Executing
    <3>2. \A q \in Prompts : phase'[q] \in Live => phase[q] \in Live
      BY <3>1 DEF TypeOK
    <3>3. token' <= lastToken' /\ lastToken <= lastToken' /\ lastToken' \in Nat
      <4>1. CASE UNCHANGED <<token, lastToken>>
        BY <2>0, <4>1 DEF TokenInv
      <4>2. CASE lastToken' = lastToken + 1 /\ token' = lastToken'
        BY <2>0, <4>2
      <4> QED
        BY <2>4, <4>1, <4>2 DEF PromptFinished
    <3>4. \A t \in cancelled' : t <= lastToken'
      BY <2>0, <3>1, <3>3 DEF TokenInv
    <3> QED
      BY <3>1, <3>2, <3>3, <3>4 DEF TokenInv, NoSpuriousCancel
  <2>5. ASSUME NEW p \in Prompts, Wait(p) \/ Run(p) PROVE TokenInv'
    <3>1. \A q \in Prompts : phase'[q] \in Live => phase[q] \in Live
      BY <2>5, TaskMoves
    <3>2. \A q \in Prompts : outcome'[q] = "cancelled" =>
             outcome[q] = "cancelled" \/ (q = p /\ tok[p] \in cancelled)
      BY <2>5 DEF Wait, Run, Acquire, Acquired, WaitCancelled, ShortTimeout, LongTimeout,
             PrepareFails, StartTurn, CallLlm, ResolveSnapshot, StoreResponse, CycleReturns,
             PostTurn, ReportFinished, taskVars, TypeOK
    <3>3. p \in Prompts /\ phase[p] \in Live
          /\ UNCHANGED <<token, lastToken, cancelled, tok, cancelSeen>>
      BY <2>5, TaskMoves
    <3> QED
      BY <3>1, <3>2, <3>3 DEF TokenInv, NoSpuriousCancel
  <2>6. CASE UNCHANGED vars
    BY <2>6 DEF vars, actorVars, taskVars, TokenInv, NoSpuriousCancel
  <2> QED
    BY <2>1, <2>2, <2>3, <2>4, <2>5, <2>6 DEF Next, Handle, Prompt, ScheduledPrompt
<1>3. TokenInv => NoSpuriousCancel
  BY DEF TokenInv
<1> QED
  BY <1>1, <1>2, <1>3, TypeCorrect, PTL DEF Spec

-----------------------------------------------------------------------------
(***************************************************************************)
(* What the turns of a session leave in its history and in the snapshot    *)
(* slots, for any set of prompts.  Both results rest on the permit: only   *)
(* the task that holds it stores messages or touches the slots.            *)
(***************************************************************************)

\* The phases between the user message and the end of the turn.
InTurn == {"cycle", "responding", "post"}

\* The slots are filled only during the turn that fills them.
SlotInv ==
    /\ pre_task # Nobody => phase[pre_task] \in InTurn
    /\ turn_snapshot # Nobody => phase[turn_snapshot] \in InTurn
    /\ \A i \in 1..Len(history) : history[i].turn = history[i].by

\* A prompt has no message before its turn starts, and the last one while its
\* turn runs.
OrderInv ==
    /\ \A p \in Prompts : phase[p] \in {"idle", "prepare"} \cup Waiting =>
          \A i \in 1..Len(history) : history[i].by # p
    /\ \A p \in Prompts : phase[p] \in InTurn =>
          Len(history) > 0 /\ history[Len(history)].by = p
    /\ TurnsContiguous

\* At most one task is in its turn.
LEMMA OneTurn ==
  ASSUME PermitNotLost, NEW p \in Prompts, NEW q \in Prompts,
         phase[p] \in Executing, phase[q] \in Executing
  PROVE  p = q
BY DEF PermitNotLost, TurnsHoldPermit

\* What storing a message does to the history.
LEMMA Stored ==
  ASSUME TypeOK, NEW e \in Entries, history' = Append(history, e)
  PROVE  /\ Len(history) \in Nat
         /\ Len(history') = Len(history) + 1
         /\ history'[Len(history')] = e
         /\ \A i \in 1..Len(history) : history'[i] = history[i]
         /\ \A i \in 1..Len(history') : i = Len(history') \/ i \in 1..Len(history)
<1>1. history \in Seq(Entries) /\ Len(history) \in Nat
  BY DEF TypeOK
<1>2. /\ Len(history') = Len(history) + 1
      /\ history'[Len(history) + 1] = e
      /\ \A i \in 1..Len(history) : history'[i] = history[i]
  BY <1>1
<1> QED
  BY <1>1, <1>2

\* The fields of a stored message.
LEMMA EntryFields ==
  ASSUME NEW kind, NEW by, NEW turn
  PROVE  Entry(kind, by, turn).by = by /\ Entry(kind, by, turn).turn = turn
BY DEF Entry

\* A step of a task that stores no message of a new turn: the phases of the
\* other tasks do not change, and its own is one of those named.
LEMMA PhaseAfter ==
  ASSUME TypeOK, NEW p \in Prompts, NEW ph, phase' = [phase EXCEPT ![p] = ph]
  PROVE  phase'[p] = ph /\ \A q \in Prompts : q # p => phase'[q] = phase[q]
BY DEF TypeOK

\* Steps that store nothing and leave the slots alone.
LEMMA SlotsUntouched ==
  ASSUME TypeOK, SlotInv, UNCHANGED <<pre_task, turn_snapshot, history>>,
         \A q \in Prompts : phase[q] \in InTurn => phase'[q] \in InTurn
  PROVE  SlotInv'
<1>1. pre_task \in Prompts \cup {Nobody} /\ turn_snapshot \in Prompts \cup {Nobody}
  BY DEF TypeOK
<1> QED
  BY <1>1 DEF SlotInv

\* The steps of tasks that are waiting, preparing or done with their turn, and
\* the steps of the actor.
Outside(p) ==
    \/ Accept(p) \/ PromptFinished(p) \/ Wait(p) \/ PrepareFails(p) \/ ReportFinished(p)

\* They move no task into or out of the turn proper and store nothing.
LEMMA OutsideSteps ==
  ASSUME TypeOK, NEW p \in Prompts, Outside(p)
  PROVE  /\ UNCHANGED <<pre_task, turn_snapshot, history>>
         /\ \A q \in Prompts : q # p => phase'[q] = phase[q]
         /\ phase[p] \notin InTurn /\ phase'[p] \notin InTurn
         /\ phase'[p] \in {"idle", "prepare"} \cup Waiting =>
               phase[p] \in {"idle", "prepare"} \cup Waiting
<1> USE DEF Outside, Wait, Accept, PromptFinished, Acquire, Acquired, WaitCancelled,
            ShortTimeout, LongTimeout, PrepareFails, ReportFinished
<1>1. UNCHANGED <<pre_task, turn_snapshot, history>>
  BY DEF runtimeVars
<1>2. phase[p] \in {"idle", "reported", "spawned", "requeue", "short", "long", "prepare", "returned"}
  BY DEF Queued, Waiting
<1>3. \E ph \in {"spawned", "done", "prepare", "short", "long", "requeue", "returned", "reported"} :
         /\ phase' = [phase EXCEPT ![p] = ph]
         /\ ph \in {"prepare"} \cup Waiting => phase[p] \in {"idle", "prepare"} \cup Waiting
  <2>1. ASSUME Accept(p)
        PROVE  phase' = [phase EXCEPT ![p] = "spawned"] /\ phase[p] = "idle"
    BY <2>1
  <2>2. ASSUME PromptFinished(p) PROVE phase' = [phase EXCEPT ![p] = "done"]
    BY <2>2
  <2>3. ASSUME Wait(p)
        PROVE  /\ phase[p] \in Waiting
               /\ \E ph \in {"prepare", "short", "long", "requeue", "returned"} :
                     phase' = [phase EXCEPT ![p] = ph]
    BY <2>3 DEF Waiting, Queued
  <2>4. ASSUME PrepareFails(p) PROVE phase' = [phase EXCEPT ![p] = "returned"]
    BY <2>4
  <2>5. ASSUME ReportFinished(p)
        PROVE  \E ph \in {"done", "reported"} : phase' = [phase EXCEPT ![p] = ph]
    BY <2>5
  <2> HIDE DEF Wait, Accept, PromptFinished, PrepareFails, ReportFinished
  <2>6. {"done", "returned", "reported"} \cap ({"prepare"} \cup Waiting) = {}
    BY DEF Waiting
  <2> QED
    BY <2>1, <2>2, <2>3, <2>4, <2>5, <2>6
<1>4. PICK ph \in {"spawned", "done", "prepare", "short", "long", "requeue", "returned", "reported"} :
         /\ phase' = [phase EXCEPT ![p] = ph]
         /\ ph \in {"prepare"} \cup Waiting => phase[p] \in {"idle", "prepare"} \cup Waiting
  BY <1>3
<1> HIDE DEF Outside
<1>5. phase'[p] = ph /\ \A q \in Prompts : q # p => phase'[q] = phase[q]
  BY <1>4, PhaseAfter
<1> QED
  BY <1>1, <1>2, <1>4, <1>5 DEF InTurn

-----------------------------------------------------------------------------
\* The snapshot slots belong to the turn that holds the permit, and what is
\* stored from them is stored by the turn they were filled in.
THEOREM SnapshotsSafe == Spec => []SnapshotsOwnTurn
<1>1. Init => SlotInv
  BY DEF Init, SlotInv
<1>2. TypeOK /\ PermitNotLost /\ SlotInv /\ [Next]_vars => SlotInv'
  <2> SUFFICES ASSUME TypeOK, PermitNotLost, SlotInv, [Next]_vars PROVE SlotInv'
    OBVIOUS
  <2>0. /\ pre_task \in Prompts \cup {Nobody} /\ turn_snapshot \in Prompts \cup {Nobody}
        /\ InTurn \subseteq Executing /\ Nobody \notin Prompts
    BY PromptsAssumption DEF TypeOK, InTurn, Executing
  <2>1. CASE Cancel \/ UNCHANGED vars
    BY <2>1, SlotsUntouched DEF Cancel, taskVars, runtimeVars, vars
  <2>2. CASE Shutdown
    BY <2>2, SlotsUntouched DEF Shutdown, runtimeVars, InTurn
  <2>3. ASSUME NEW p \in Prompts, Outside(p) PROVE SlotInv'
    BY <2>3, OutsideSteps, SlotsUntouched
  <2>4. ASSUME NEW p \in Prompts, CallLlm(p) \/ CycleReturns(p) PROVE SlotInv'
    <3>1. \E ph \in {"responding", "post"} : phase' = [phase EXCEPT ![p] = ph]
      BY <2>4 DEF CallLlm, CycleReturns
    <3>2. \A q \in Prompts : phase[q] \in InTurn => phase'[q] \in InTurn
      BY <3>1, PhaseAfter DEF InTurn
    <3> QED
      BY <2>4, <3>2, SlotsUntouched DEF CallLlm, CycleReturns, runtimeVars
  <2>5. ASSUME NEW p \in Prompts, StartTurn(p) PROVE SlotInv'
    <3>1. /\ phase[p] = "prepare" /\ phase'[p] = "cycle"
          /\ \A q \in Prompts : q # p => phase'[q] = phase[q]
          /\ turn_snapshot' = turn_snapshot
          /\ pre_task' \in {p, Nobody}
      BY <2>5, PhaseAfter DEF StartTurn
    <3>2. turn_snapshot # p
      BY <2>0, <3>1 DEF SlotInv, InTurn
    <3>3. \A i \in 1..Len(history') : history'[i].turn = history'[i].by
      BY <2>5, EntryType, EntryFields, Stored DEF StartTurn, SlotInv
    <3> QED
      BY <2>0, <3>1, <3>2, <3>3 DEF SlotInv, InTurn
  <2>6. ASSUME NEW p \in Prompts, ResolveSnapshot(p) PROVE SlotInv'
    <3>1. /\ phase[p] \in Executing /\ phase' = phase
          /\ pre_task # Nobody /\ pre_task' = Nobody
          /\ turn_snapshot' \in {turn_snapshot, pre_task}
      BY <2>6 DEF ResolveSnapshot, EnsurePreTurnSnapshotReady, taskVars, Executing
    <3>2. pre_task = p
      BY <2>0, <3>1, OneTurn DEF SlotInv
    <3>3. CASE history' = history
      BY <2>0, <3>1, <3>3 DEF SlotInv
    <3>4. CASE history' = Append(history, Entry("start", p, p))
      <4>1. \A i \in 1..Len(history') : history'[i].turn = history'[i].by
        BY <3>4, EntryType, EntryFields, Stored DEF SlotInv
      <4> QED
        BY <2>0, <3>1, <4>1 DEF SlotInv
    <3> QED
      BY <2>6, <3>2, <3>3, <3>4 DEF ResolveSnapshot, EnsurePreTurnSnapshotReady
  <2>7. ASSUME NEW p \in Prompts, StoreResponse(p) PROVE SlotInv'
    <3>1. /\ phase'[p] = "cycle"
          /\ \A q \in Prompts : q # p => phase'[q] = phase[q]
          /\ UNCHANGED <<pre_task, turn_snapshot>>
      BY <2>7, PhaseAfter DEF StoreResponse
    <3>2. \A i \in 1..Len(history') : history'[i].turn = history'[i].by
      BY <2>7, EntryType, EntryFields, Stored DEF StoreResponse, SlotInv
    <3> QED
      BY <2>0, <3>1, <3>2 DEF SlotInv, InTurn
  <2>8. ASSUME NEW p \in Prompts, PostTurn(p) PROVE SlotInv'
    <3>1. pre_task' = Nobody /\ turn_snapshot' = Nobody /\ phase[p] \in Executing
      BY <2>8 DEF PostTurn, Executing
    <3>2. turn_snapshot \in {Nobody, p}
      BY <2>0, <3>1, OneTurn DEF SlotInv
    <3>3. \A i \in 1..Len(history') : history'[i].turn = history'[i].by
      <4>1. CASE history' = history
        BY <4>1 DEF SlotInv
      <4>2. CASE history' = Append(history, Entry("patch", p, p))
        BY <4>2, EntryType, EntryFields, Stored DEF SlotInv
      <4> QED
        BY <2>8, <3>2, <4>1, <4>2 DEF PostTurn
    <3> QED
      BY <3>1, <3>3 DEF SlotInv
  <2> QED
    BY <2>1, <2>2, <2>3, <2>4, <2>5, <2>6, <2>7, <2>8
       DEF Next, Handle, Run, Prompt, ScheduledPrompt, Outside
<1>3. TypeOK /\ PermitNotLost /\ SlotInv => SnapshotsOwnTurn
  BY DEF TypeOK, PermitNotLost, TurnsHoldPermit, SlotInv, SnapshotsOwnTurn, InTurn, Executing
<1> QED
  BY <1>1, <1>2, <1>3, TypeCorrect, PermitSafe, PTL DEF Spec

-----------------------------------------------------------------------------
\* Storing a message of a turn that stored the last one, or none yet.
LEMMA AppendContiguous ==
  ASSUME TypeOK, TurnsContiguous, NEW p \in Prompts, NEW e \in Entries, e.by = p,
         history' = Append(history, e),
         \/ \A i \in 1..Len(history) : history[i].by # p
         \/ Len(history) > 0 /\ history[Len(history)].by = p
  PROVE  TurnsContiguous'
<1> DEFINE n == Len(history)
<1>1. /\ n \in Nat /\ Len(history') = n + 1 /\ history'[n + 1].by = p
      /\ \A i \in 1..n : history'[i] = history[i]
  BY Stored
<1> SUFFICES ASSUME NEW i \in 1..(n + 1), NEW j \in 1..(n + 1), NEW k \in 1..(n + 1),
                    i < j, j < k, history'[i].by = history'[k].by
             PROVE  history'[j].by = history'[i].by
  BY <1>1 DEF TurnsContiguous
<1>2. i \in 1..n /\ j \in 1..n
  BY <1>1
<1>3. CASE k \in 1..n
  BY <1>1, <1>2, <1>3 DEF TurnsContiguous
<1>4. CASE k = n + 1
  <2>1. history[i].by = p
    BY <1>1, <1>2, <1>4
  <2>2. n \in 1..n /\ history[n].by = p
    BY <1>1, <1>2, <2>1
  <2>3. CASE j = n
    BY <1>1, <1>2, <2>1, <2>2, <2>3
  <2>4. CASE j < n
    <3>1. history[j].by = history[i].by
      BY <1>2, <2>1, <2>2, <2>4 DEF TurnsContiguous
    <3> QED
      BY <1>1, <1>2, <3>1
  <2> QED
    BY <1>1, <1>2, <2>3, <2>4
<1> QED
  BY <1>1, <1>3, <1>4

\* A turn stores a message: the order is kept, for the turn is the only one.
LEMMA TurnStores ==
  ASSUME TypeOK, PermitNotLost, OrderInv, NEW p \in Prompts,
         phase[p] \in {"prepare"} \cup InTurn,
         NEW e \in Entries, e.by = p, history' = Append(history, e),
         NEW ph, phase' = [phase EXCEPT ![p] = ph], ph \notin {"idle", "prepare"} \cup Waiting
  PROVE  OrderInv'
<1>1. /\ Len(history) \in Nat /\ Len(history') = Len(history) + 1
      /\ history'[Len(history')].by = p
      /\ \A i \in 1..Len(history) : history'[i] = history[i]
      /\ \A i \in 1..Len(history') : i = Len(history') \/ i \in 1..Len(history)
  BY Stored
<1>2. phase'[p] = ph /\ \A q \in Prompts : q # p => phase'[q] = phase[q]
  BY PhaseAfter
<1>3. TurnsContiguous'
  <2>1. \/ \A i \in 1..Len(history) : history[i].by # p
        \/ Len(history) > 0 /\ history[Len(history)].by = p
    BY DEF OrderInv
  <2> QED
    BY <2>1, AppendContiguous DEF OrderInv
<1>4. \A q \in Prompts : q # p => phase'[q] \notin InTurn
  BY <1>2, OneTurn DEF InTurn, Executing
<1>5. \A q \in Prompts : phase'[q] \in {"idle", "prepare"} \cup Waiting =>
         \A i \in 1..Len(history') : history'[i].by # q
  BY <1>1, <1>2 DEF OrderInv
<1> QED
  BY <1>1, <1>3, <1>4, <1>5 DEF OrderInv

\* Steps that store nothing.
LEMMA OrderUntouched ==
  ASSUME OrderInv, history' = history,
         \A q \in Prompts :
            /\ phase'[q] \in InTurn => phase[q] \in InTurn
            /\ phase'[q] \in {"idle", "prepare"} \cup Waiting =>
                  phase[q] \in {"idle", "prepare"} \cup Waiting
  PROVE  OrderInv'
BY DEF OrderInv, TurnsContiguous

\* OrderInv is an invariant, with the permit's.
LEMMA OrderKept == Spec => []OrderInv
<1>1. Init => OrderInv
  BY DEF Init, OrderInv, TurnsContiguous, InTurn
<1>2. TypeOK /\ PermitNotLost /\ OrderInv /\ [Next]_vars => OrderInv'
  <2> SUFFICES ASSUME TypeOK, PermitNotLost, OrderInv, [Next]_vars
               PROVE  OrderInv'
    OBVIOUS
  <2>0. \A ph \in InTurn \cup {"returned", "done"} : ph \notin {"idle", "prepare"} \cup Waiting
    BY DEF InTurn, Waiting
  <2>1. CASE Cancel \/ UNCHANGED vars
    BY <2>1, OrderUntouched DEF Cancel, taskVars, runtimeVars, vars
  <2>2. CASE Shutdown
    <3>1. history' = history
          /\ \A q \in Prompts : phase'[q] = phase[q] \/ phase'[q] = "done"
      BY <2>2 DEF Shutdown, runtimeVars
    <3> QED
      BY <2>0, <3>1, OrderUntouched DEF InTurn
  <2>3. ASSUME NEW p \in Prompts, Outside(p) PROVE OrderInv'
    BY <2>3, OutsideSteps, OrderUntouched
  <2>4. ASSUME NEW p \in Prompts, CallLlm(p) \/ CycleReturns(p) PROVE OrderInv'
    <3>1. /\ phase[p] \in InTurn /\ history' = history
          /\ \E ph \in {"responding", "post"} : phase' = [phase EXCEPT ![p] = ph]
      BY <2>4 DEF CallLlm, CycleReturns, runtimeVars, InTurn
    <3>2. PICK ph \in {"responding", "post"} : phase' = [phase EXCEPT ![p] = ph]
      BY <3>1
    <3>3. /\ phase'[p] \in InTurn /\ phase'[p] \notin {"idle", "prepare"} \cup Waiting
          /\ \A q \in Prompts : q # p => phase'[q] = phase[q]
      BY <2>0, <3>2, PhaseAfter DEF InTurn
    <3> QED
      BY <3>1, <3>3, OrderUntouched
  <2>5. ASSUME NEW p \in Prompts, StartTurn(p) \/ StoreResponse(p) PROVE OrderInv'
    <3>1. PICK e \in Entries : e.by = p /\ history' = Append(history, e)
      <4>1. \A kind \in {"user", "assistant"} :
               Entry(kind, p, p) \in Entries /\ Entry(kind, p, p).by = p
        BY EntryType, EntryFields
      <4> QED
        BY <2>5, <4>1 DEF StartTurn, StoreResponse
    <3>2. phase[p] \in {"prepare"} \cup InTurn /\ phase' = [phase EXCEPT ![p] = "cycle"]
      BY <2>5 DEF StartTurn, StoreResponse, InTurn
    <3>3. "cycle" \notin {"idle", "prepare"} \cup Waiting
      BY <2>0 DEF InTurn
    <3> QED
      BY <3>1, <3>2, <3>3, TurnStores
  <2>6. ASSUME NEW p \in Prompts, ResolveSnapshot(p) PROVE OrderInv'
    <3>1. phase[p] \in InTurn /\ phase' = phase /\ pre_task \in Prompts
      BY <2>6 DEF ResolveSnapshot, taskVars, InTurn, TypeOK
    <3>2. CASE history' = history
      BY <3>1, <3>2, OrderUntouched
    <3>3. CASE history' = Append(history, Entry("start", p, pre_task))
      <4>1. phase' = [phase EXCEPT ![p] = phase[p]]
        BY <3>1 DEF TypeOK
      <4>2. Entry("start", p, pre_task) \in Entries /\ Entry("start", p, pre_task).by = p
        BY <3>1, EntryType, EntryFields
      <4>3. phase[p] \notin {"idle", "prepare"} \cup Waiting
        BY <2>0, <3>1
      <4> QED
        BY <3>1, <3>3, <4>1, <4>2, <4>3, TurnStores
    <3> QED
      BY <2>6, <3>2, <3>3 DEF ResolveSnapshot, EnsurePreTurnSnapshotReady
  <2>7. ASSUME NEW p \in Prompts, PostTurn(p) PROVE OrderInv'
    <3>1. phase[p] \in InTurn /\ phase' = [phase EXCEPT ![p] = "returned"]
      BY <2>7 DEF PostTurn, InTurn
    <3>2. CASE history' = history
      <4>1. /\ phase'[p] = "returned" /\ "returned" \notin InTurn
            /\ \A q \in Prompts : q # p => phase'[q] = phase[q]
        BY <3>1, PhaseAfter DEF InTurn
      <4> QED
        BY <2>0, <3>2, <4>1, OrderUntouched
    <3>3. CASE turn_snapshot \in Prompts /\ history' = Append(history, Entry("patch", p, turn_snapshot))
      <4>1. Entry("patch", p, turn_snapshot) \in Entries /\ Entry("patch", p, turn_snapshot).by = p
        BY <3>3, EntryType, EntryFields
      <4> QED
        BY <2>0, <3>1, <3>3, <4>1, TurnStores
    <3> QED
      BY <2>7, <3>2, <3>3 DEF PostTurn, TypeOK
  <2> QED
    BY <2>1, <2>2, <2>3, <2>4, <2>5, <2>6, <2>7
       DEF Next, Handle, Run, Prompt, ScheduledPrompt, Outside
<1> QED
  BY <1>1, <1>2, TypeCorrect, PermitSafe, PTL DEF Spec

\* The messages of a turn are contiguous in the stored history.
THEOREM HistoryContiguous == Spec => []TurnsContiguous
<1>1. OrderInv => TurnsContiguous
  BY DEF OrderInv
<1> QED
  BY <1>1, OrderKept, PTL
-----------------------------------------------------------------------------
(***************************************************************************)
(* SessionTurn implements SerialTurns.  Besides the permit, the order of   *)
(* the messages and the tokens the refinement needs that a turn that is    *)
(* over has an outcome and that nothing is emitted before it is reported.  *)
(***************************************************************************)

\* What a task knows of its outcome, and what it has told of it.
OutcomeInv ==
    /\ \A p \in Prompts : phase[p] \in {"post"} \cup Ended => outcome[p] # "none"
    /\ \A p \in Prompts : phase[p] \notin {"reported", "done"} => emitted[p] = "none"

\* A step of one task that keeps the outcomes and emissions of the others.
LEMMA OutcomeStep ==
  ASSUME TypeOK, OutcomeInv, NEW p \in Prompts, NEW ph,
         phase' = [phase EXCEPT ![p] = ph],
         \A q \in Prompts : q # p => outcome'[q] = outcome[q] /\ emitted'[q] = emitted[q],
         ph \in {"post"} \cup Ended => outcome'[p] # "none",
         ph \notin {"reported", "done"} => emitted'[p] = "none"
  PROVE  OutcomeInv'
<1>1. phase'[p] = ph /\ \A q \in Prompts : q # p => phase'[q] = phase[q]
  BY PhaseAfter
<1> QED
  BY <1>1 DEF OutcomeInv

\* A task knows its outcome when its turn is over, and tells it at the end.
LEMMA OutcomeKept == Spec => []OutcomeInv
<1>1. Init => OutcomeInv
  BY DEF Init, OutcomeInv, Ended
<1>2. TypeOK /\ OutcomeInv /\ [Next]_vars => OutcomeInv'
  <2> SUFFICES ASSUME TypeOK, OutcomeInv, [Next]_vars PROVE OutcomeInv'
    OBVIOUS
  <2>0. outcome \in [Prompts -> Outcomes] /\ emitted \in [Prompts -> {"none", "completed", "failed"}]
    BY DEF TypeOK
  <2>1. CASE Cancel \/ UNCHANGED vars
    BY <2>1 DEF Cancel, vars, taskVars, OutcomeInv
  <2>2. CASE Shutdown
    <3>1. /\ UNCHANGED <<outcome, emitted>>
          /\ \A q \in Prompts : phase'[q] = phase[q] \/ (phase[q] = "reported" /\ phase'[q] = "done")
      BY <2>2 DEF Shutdown
    <3> QED
      BY <3>1 DEF OutcomeInv, Ended
  <2>3. ASSUME NEW p \in Prompts, Accept(p) PROVE OutcomeInv'
    <3>1. /\ phase[p] = "idle" /\ phase' = [phase EXCEPT ![p] = "spawned"]
          /\ UNCHANGED <<outcome, emitted>>
      BY <2>3 DEF Accept
    <3>2. emitted[p] = "none"
      BY <3>1 DEF OutcomeInv
    <3> QED
      BY <3>1, <3>2, OutcomeStep DEF Ended
  <2>4. ASSUME NEW p \in Prompts, PromptFinished(p) PROVE OutcomeInv'
    <3>1. /\ phase[p] = "reported" /\ phase' = [phase EXCEPT ![p] = "done"]
          /\ UNCHANGED <<outcome, emitted>>
      BY <2>4 DEF PromptFinished
    <3>2. outcome[p] # "none"
      BY <3>1 DEF OutcomeInv, Ended
    <3> QED
      BY <3>1, <3>2, OutcomeStep
  <2>5. ASSUME NEW p \in Prompts,
               Acquire(p) \/ Acquired(p) \/ ShortTimeout(p) \/ StartTurn(p) \/ CallLlm(p)
                 \/ StoreResponse(p)
        PROVE  OutcomeInv'
    <3>1. /\ phase[p] \notin {"reported", "done"} /\ UNCHANGED <<outcome, emitted>>
          /\ \E ph \in {"prepare", "short", "long", "requeue", "cycle", "responding"} :
                phase' = [phase EXCEPT ![p] = ph]
      BY <2>5 DEF Acquire, Acquired, ShortTimeout, StartTurn, CallLlm, StoreResponse, Queued
    <3>2. emitted[p] = "none"
      BY <3>1 DEF OutcomeInv
    <3> QED
      BY <3>1, <3>2, OutcomeStep DEF Ended
  <2>6. ASSUME NEW p \in Prompts,
               WaitCancelled(p) \/ LongTimeout(p) \/ PrepareFails(p) \/ CycleReturns(p)
        PROVE  OutcomeInv'
    <3>1. /\ phase[p] \notin {"reported", "done"} /\ UNCHANGED emitted
          /\ \E ph \in {"returned", "post"} : phase' = [phase EXCEPT ![p] = ph]
          /\ \E o \in {"ok", "error", "cancelled"} : outcome' = [outcome EXCEPT ![p] = o]
      BY <2>6 DEF WaitCancelled, LongTimeout, PrepareFails, CycleReturns, Waiting
    <3>2. PICK o \in {"ok", "error", "cancelled"} : outcome' = [outcome EXCEPT ![p] = o]
      BY <3>1
    <3>3. outcome'[p] # "none" /\ \A q \in Prompts : q # p => outcome'[q] = outcome[q]
      BY <2>0, <3>2
    <3>4. emitted[p] = "none"
      BY <3>1 DEF OutcomeInv
    <3> QED
      BY <3>1, <3>3, <3>4, OutcomeStep
  <2>7. ASSUME NEW p \in Prompts, ResolveSnapshot(p) PROVE OutcomeInv'
    BY <2>7 DEF ResolveSnapshot, taskVars, OutcomeInv
  <2>8. ASSUME NEW p \in Prompts, PostTurn(p) PROVE OutcomeInv'
    <3>1. /\ phase[p] = "post" /\ phase' = [phase EXCEPT ![p] = "returned"]
          /\ UNCHANGED <<outcome, emitted>>
      BY <2>8 DEF PostTurn
    <3>2. outcome[p] # "none" /\ emitted[p] = "none"
      BY <3>1 DEF OutcomeInv
    <3> QED
      BY <3>1, <3>2, OutcomeStep
  <2>9. ASSUME NEW p \in Prompts, ReportFinished(p) PROVE OutcomeInv'
    <3>1. /\ phase[p] = "returned" /\ UNCHANGED outcome
          /\ \E ph \in {"reported", "done"} : phase' = [phase EXCEPT ![p] = ph]
          /\ \E a : emitted' = [emitted EXCEPT ![p] = a]
      BY <2>9 DEF ReportFinished
    <3>2. outcome[p] # "none"
      BY <3>1 DEF OutcomeInv, Ended
    <3>3. \A q \in Prompts : q # p => emitted'[q] = emitted[q]
      BY <2>0, <3>1
    <3> QED
      BY <3>1, <3>2, <3>3, OutcomeStep
  <2> QED
    BY <2>1, <2>2, <2>3, <2>4, <2>5, <2>6, <2>7, <2>8, <2>9
       DEF Next, Handle, Wait, Run, Prompt, ScheduledPrompt
<1> QED
  BY <1>1, <1>2, TypeCorrect, PTL DEF Spec

\* How clients see a phase.
LEMMA StatusCases ==
  ASSUME NEW ph \in Phases
  PROVE  /\ Status(ph) = "new" <=> ph = "idle"
         /\ Status(ph) = "waiting" <=> ph \in Waiting
         /\ Status(ph) = "running" <=> ph \in Executing
         /\ Status(ph) = "ended" <=> ph \in Ended
BY DEF Status, Phases, Live, Waiting, Executing, Ended

LEMMA StatusNames ==
  Status("spawned") = "waiting" /\ Status("prepare") = "running" /\ Status("returned") = "ended"
BY DEF Status, Waiting, Executing

LEMMA StatusNow ==
  ASSUME TypeOK, NEW p \in Prompts
  PROVE  /\ phase[p] \in Phases /\ StatusOf[p] = Status(phase[p])
         /\ StatusOf[p] = "new" <=> phase[p] = "idle"
         /\ StatusOf[p] = "waiting" <=> phase[p] \in Waiting
         /\ StatusOf[p] = "running" <=> phase[p] \in Executing
         /\ StatusOf[p] = "ended" <=> phase[p] \in Ended
<1>1. phase[p] \in Phases
  BY DEF TypeOK
<1>2. StatusOf[p] = Status(phase[p])
  BY DEF StatusOf
<1> QED
  BY <1>1, <1>2, StatusCases

\* The status of one prompt changes.
LEMMA StatusMoves ==
  ASSUME TypeOK, NEW p \in Prompts, NEW ph, phase' = [phase EXCEPT ![p] = ph]
  PROVE  StatusOf' = [StatusOf EXCEPT ![p] = Status(ph)]
<1>1. phase'[p] = ph /\ \A q \in Prompts : q # p => phase'[q] = phase[q]
  BY PhaseAfter
<1>2. StatusOf' = [q \in Prompts |-> Status(phase'[q])]
  BY DEF StatusOf
<1>3. StatusOf = [q \in Prompts |-> Status(phase[q])]
  BY DEF StatusOf
<1>4. \A q \in Prompts : Status(phase'[q]) = IF q = p THEN Status(ph) ELSE Status(phase[q])
  BY <1>1
<1> HIDE DEF Status
<1> QED
  BY <1>2, <1>3, <1>4

\* No prompt is seen to move.
LEMMA StatusStays ==
  ASSUME \A q \in Prompts : Status(phase'[q]) = Status(phase[q])
  PROVE  StatusOf' = StatusOf
BY DEF StatusOf

\* A prompt ends.
LEMMA ResultMoves ==
  ASSUME TypeOK, NEW p \in Prompts, NEW ph \in Ended, phase' = [phase EXCEPT ![p] = ph],
         \A q \in Prompts : q # p => outcome'[q] = outcome[q]
  PROVE  ResultOf' = [ResultOf EXCEPT ![p] = outcome'[p]]
<1>1. phase'[p] = ph /\ \A q \in Prompts : q # p => phase'[q] = phase[q]
  BY PhaseAfter
<1>2. \A q \in Prompts : (IF phase'[q] \in Ended THEN outcome'[q] ELSE "none") =
         IF q = p THEN outcome'[p] ELSE IF phase[q] \in Ended THEN outcome[q] ELSE "none"
  BY <1>1
<1>3. /\ ResultOf' = [q \in Prompts |-> IF phase'[q] \in Ended THEN outcome'[q] ELSE "none"]
      /\ ResultOf = [q \in Prompts |-> IF phase[q] \in Ended THEN outcome[q] ELSE "none"]
  BY DEF ResultOf
<1> QED
  BY <1>2, <1>3

\* What came of a prompt is final.
LEMMA ResultStays ==
  ASSUME \A q \in Prompts : /\ phase'[q] \in Ended <=> phase[q] \in Ended
                            /\ phase[q] \in Ended => outcome'[q] = outcome[q]
  PROVE  ResultOf' = ResultOf
<1>1. \A q \in Prompts : (IF phase'[q] \in Ended THEN outcome'[q] ELSE "none") =
         IF phase[q] \in Ended THEN outcome[q] ELSE "none"
  OBVIOUS
<1> QED
  BY <1>1 DEF ResultOf

\* The log has the messages of the history.
LEMMA LogLength ==
  ASSUME TypeOK
  PROVE  /\ Len(history) \in Nat /\ Len(LogOf) = Len(history)
         /\ \A i \in 1..Len(history) : LogOf[i].by = history[i].by
         /\ LogOf \in Seq([kind : {"user", "assistant", "start", "patch"}, by : Prompts])
<1>1. history \in Seq(Entries) /\ Len(history) \in Nat
  BY DEF TypeOK
<1>2. \A i \in 1..Len(history) : history[i] \in Entries
  BY <1>1
<1>3. \A i \in 1..Len(history) : [kind |-> history[i].kind, by |-> history[i].by]
                                    \in [kind : {"user", "assistant", "start", "patch"}, by : Prompts]
  BY <1>2 DEF Entries
<1> QED
  BY <1>1, <1>3 DEF LogOf

LEMMA Speaks ==
  ASSUME TypeOK, NEW p \in Prompts
  PROVE  Serial!Spoken(p) <=> \E i \in 1..Len(history) : history[i].by = p
BY LogLength DEF Serial!Spoken

\* A message is stored.
LEMMA LogGrows ==
  ASSUME TypeOK, NEW kind \in {"user", "assistant", "start", "patch"},
         NEW p \in Prompts, NEW t \in Prompts,
         history' = Append(history, Entry(kind, p, t))
  PROVE  LogOf' = Append(LogOf, Serial!Message(p, kind))
<1>1. PICK e : e = Entry(kind, p, t)
  OBVIOUS
<1>2. e \in Entries /\ e.kind = kind /\ e.by = p
  BY <1>1, EntryType DEF Entry
<1>3. /\ Len(history) \in Nat
      /\ Len(history') = Len(history) + 1
      /\ history'[Len(history')] = e
      /\ \A i \in 1..Len(history) : history'[i] = history[i]
  BY <1>1, <1>2, Stored
<1>4. PICK m : m = Serial!Message(p, kind)
  OBVIOUS
<1>5. m = [kind |-> e.kind, by |-> e.by]
  BY <1>2, <1>4 DEF Serial!Message
<1>6. /\ LogOf' = [i \in 1..(Len(history) + 1) |-> [kind |-> history'[i].kind, by |-> history'[i].by]]
      /\ LogOf = [i \in 1..Len(history) |-> [kind |-> history[i].kind, by |-> history[i].by]]
  BY <1>3 DEF LogOf
<1>7. PICK L : L = LogOf
  OBVIOUS
<1>8. \A i \in 1..Len(history) : [kind |-> history'[i].kind, by |-> history'[i].by] = L[i]
  BY <1>3, <1>6, <1>7
<1> DEFINE M == [kind : {"user", "assistant", "start", "patch"}, by : Prompts]
<1>9. Len(L) = Len(history) /\ L \in Seq(M) /\ m \in M
  BY <1>2, <1>5, <1>7, LogLength
<1>10. \A i \in 1..(Len(history) + 1) :
          [kind |-> history'[i].kind, by |-> history'[i].by] = IF i <= Len(history) THEN L[i] ELSE m
  <2> TAKE i \in 1..(Len(history) + 1)
  <2>1. CASE i <= Len(history)
    BY <1>3, <1>8, <2>1
  <2>2. CASE ~(i <= Len(history))
    <3>1. i = Len(history')
      BY <1>3, <2>2
    <3> QED
      BY <1>3, <1>5, <2>2, <3>1
  <2> QED
    BY <2>1, <2>2
<1> HIDE DEF M
<1>11. PICK A : A = Append(L, m)
  OBVIOUS
<1>12. /\ A \in Seq(M) /\ Len(A) = Len(history) + 1
       /\ \A i \in 1..(Len(history) + 1) : A[i] = IF i <= Len(history) THEN L[i] ELSE m
  BY <1>3, <1>9, <1>11, AppendProperties
<1>13. A = [i \in 1..(Len(history) + 1) |-> A[i]]
  BY <1>12
<1>14. \A i \in 1..(Len(history) + 1) : [kind |-> history'[i].kind, by |-> history'[i].by] = A[i]
  <2> TAKE i \in 1..(Len(history) + 1)
  <2>1. [kind |-> history'[i].kind, by |-> history'[i].by] = IF i <= Len(history) THEN L[i] ELSE m
    BY <1>10
  <2> QED
    BY <1>12, <2>1
<1>15. LogOf' = [i \in 1..(Len(history) + 1) |-> A[i]]
  BY <1>6, <1>14
<1> QED
  BY <1>4, <1>7, <1>11, <1>13, <1>15

\* A step of one prompt's task or message that clients do not see.
LEMMA Unseen ==
  ASSUME TypeOK, NEW p \in Prompts, NEW ph \in Phases, phase' = [phase EXCEPT ![p] = ph],
         Status(ph) = Status(phase[p]), phase[p] \in Ended => outcome'[p] = outcome[p],
         \A q \in Prompts : q # p => outcome'[q] = outcome[q],
         UNCHANGED <<emitted, cancelSeen, history>>
  PROVE  UNCHANGED Serial!vars
<1>1. phase'[p] = ph /\ \A q \in Prompts : q # p => phase'[q] = phase[q]
  BY PhaseAfter
<1>2. StatusOf' = StatusOf
  BY <1>1, StatusStays
<1>3. ph \in Ended <=> phase[p] \in Ended
  BY StatusCases, StatusNow
<1>4. ResultOf' = ResultOf
  BY <1>1, <1>3, ResultStays
<1>5. LogOf' = LogOf
  BY DEF LogOf
<1> QED
  BY <1>2, <1>4, <1>5 DEF Serial!vars

\* The task that gets the permit begins its turn.
LEMMA Begins ==
  ASSUME TypeOK, PermitNotLost, NEW p \in Prompts, phase[p] \in Waiting,
         phase' = [phase EXCEPT ![p] = "prepare"],
         holder \in {p, Nobody}, UNCHANGED <<outcome, emitted, cancelSeen, history>>
  PROVE  Serial!Begin(p)
<1>1. \A q \in Prompts : phase[q] \notin Executing
  <2> SUFFICES ASSUME NEW q \in Prompts, phase[q] \in Executing PROVE FALSE
    OBVIOUS
  <2>1. holder = q
    BY DEF PermitNotLost, TurnsHoldPermit
  <2>2. q = p
    BY <2>1, PromptsAssumption
  <2> QED
    BY <2>2 DEF Waiting, Executing
<1>2. \A q \in Prompts : StatusOf[q] # "running"
  BY <1>1, StatusNow
<1>3. StatusOf[p] = "waiting"
  BY StatusNow
<1>4. StatusOf' = [StatusOf EXCEPT ![p] = "running"]
  BY StatusMoves, StatusNames
<1>5. phase'[p] = "prepare" /\ \A q \in Prompts : q # p => phase'[q] = phase[q]
  BY PhaseAfter
<1>6. ResultOf' = ResultOf
  BY <1>5, ResultStays DEF Ended, Waiting
<1>7. LogOf' = LogOf
  BY DEF LogOf
<1> QED
  BY <1>2, <1>3, <1>4, <1>6, <1>7 DEF Serial!Begin, Serial!Becomes

\* A wait is given up.
LEMMA Withdraws ==
  ASSUME TypeOK, NEW p \in Prompts, phase[p] \in Waiting,
         phase' = [phase EXCEPT ![p] = "returned"],
         NEW o \in {"cancelled", "error"}, outcome' = [outcome EXCEPT ![p] = o],
         NoSpuriousCancel', UNCHANGED <<emitted, cancelSeen, history>>
  PROVE  Serial!Withdraw(p, o)
<1>1. outcome'[p] = o /\ \A q \in Prompts : q # p => outcome'[q] = outcome[q]
  BY DEF TypeOK
<1>2. StatusOf[p] = "waiting"
  BY StatusNow
<1>3. "returned" \in Ended
  BY DEF Ended
<1>4. StatusOf' = [StatusOf EXCEPT ![p] = "ended"]
  BY StatusMoves, StatusNames
<1>5. ResultOf' = [ResultOf EXCEPT ![p] = o]
  BY <1>1, <1>3, ResultMoves
<1>6. o = "cancelled" => p \in cancelSeen
  BY <1>1 DEF NoSpuriousCancel
<1>7. LogOf' = LogOf
  BY DEF LogOf
<1> QED
  BY <1>2, <1>4, <1>5, <1>6, <1>7 DEF Serial!Withdraw, Serial!Becomes, Serial!Comes

\* A turn ends.
LEMMA Ends ==
  ASSUME TypeOK, NEW p \in Prompts, phase[p] \in Executing,
         phase' = [phase EXCEPT ![p] = "returned"],
         \A q \in Prompts : q # p => outcome'[q] = outcome[q],
         outcome'[p] \in {"ok", "error", "cancelled"},
         outcome'[p] # "error" => Serial!Spoken(p),
         \/ history' = history
         \/ Serial!Spoken(p) /\ LogOf' = Append(LogOf, Serial!Message(p, "patch")),
         NoSpuriousCancel', UNCHANGED <<emitted, cancelSeen>>
  PROVE  Serial!End(p, outcome'[p])
<1>1. StatusOf[p] = "running"
  BY StatusNow
<1>2. "returned" \in Ended
  BY DEF Ended
<1>3. StatusOf' = [StatusOf EXCEPT ![p] = "ended"]
  BY StatusMoves, StatusNames
<1>4. ResultOf' = [ResultOf EXCEPT ![p] = outcome'[p]]
  BY <1>2, ResultMoves
<1>5. outcome'[p] = "cancelled" => p \in cancelSeen
  BY DEF NoSpuriousCancel
<1>6. history' = history => LogOf' = LogOf
  BY DEF LogOf
<1>7. PICK o : o = outcome'[p]
  OBVIOUS
<1>8. Serial!End(p, o)
  BY <1>1, <1>3, <1>4, <1>5, <1>6, <1>7 DEF Serial!End, Serial!Becomes, Serial!Comes
<1> QED
  BY <1>7, <1>8

\* A turn stores a message: the user's if it is its first one.
LEMMA Stores ==
  ASSUME TypeOK, OrderInv, NEW p \in Prompts, NEW t \in Prompts,
         NEW kind \in {"user", "assistant", "start"},
         phase[p] \in Executing, kind = "user" <=> phase[p] = "prepare",
         NEW ph \in Executing, phase' = [phase EXCEPT ![p] = ph],
         history' = Append(history, Entry(kind, p, t)),
         UNCHANGED <<outcome, emitted, cancelSeen>>
  PROVE  Serial!Store(p, kind)
<1>1. StatusOf[p] = "running"
  BY StatusNow
<1>2. phase'[p] = ph /\ \A q \in Prompts : q # p => phase'[q] = phase[q]
  BY PhaseAfter
<1>3. Status(ph) = Status(phase[p])
  BY StatusCases, StatusNow DEF Phases, Live
<1>4. StatusOf' = StatusOf
  BY <1>2, <1>3, StatusStays
<1>5. ResultOf' = ResultOf
  BY <1>2, ResultStays DEF Ended, Executing
<1>6. LogOf' = Append(LogOf, Serial!Message(p, kind))
  BY LogGrows
<1>7. Serial!Spoken(p) <=> phase[p] # "prepare"
  <2>1. CASE phase[p] = "prepare"
    BY <2>1, Speaks DEF OrderInv
  <2>2. CASE phase[p] # "prepare"
    <3>1. Len(history) > 0 /\ history[Len(history)].by = p
      BY <2>2 DEF OrderInv, InTurn, Executing
    <3>2. Len(history) \in 1..Len(history)
      BY <3>1, LogLength
    <3> QED
      BY <2>2, <3>1, <3>2, Speaks
  <2> QED
    BY <2>1, <2>2
<1> QED
  BY <1>1, <1>4, <1>5, <1>6, <1>7 DEF Serial!Store

\* Every step of the session is a step of SerialTurns or changes nothing that
\* its clients see.
LEMMA SerialStep ==
  ASSUME TypeOK, PermitNotLost, OrderInv, OutcomeInv, NoSpuriousCancel', [Next]_vars
  PROVE  [Serial!Next]_(Serial!vars)
<1>0. /\ phase \in [Prompts -> Phases] /\ outcome \in [Prompts -> Outcomes]
      /\ emitted \in [Prompts -> {"none", "completed", "failed"}]
  BY DEF TypeOK
<1>1. CASE UNCHANGED vars
  BY <1>1 DEF vars, taskVars, runtimeVars, Serial!vars, StatusOf, ResultOf, LogOf
<1>2. CASE Cancel
  <2>1. /\ cancelSeen' = cancelSeen \cup {p \in Prompts : phase[p] \in Live}
        /\ UNCHANGED <<phase, outcome, emitted, history>>
    BY <1>2 DEF Cancel, taskVars, runtimeVars
  <2>2. StatusOf' = StatusOf /\ ResultOf' = ResultOf /\ LogOf' = LogOf
    BY <2>1 DEF StatusOf, ResultOf, LogOf
  <2> DEFINE ps == {p \in Prompts : phase[p] \in Live}
  <2>3. ps \in SUBSET {p \in Prompts : StatusOf[p] # "new"}
    BY StatusNow DEF Live, Waiting, Executing
  <2>4. {p \in Prompts : StatusOf[p] \in {"waiting", "running"}} \subseteq ps
    BY StatusNow DEF Live
  <2> HIDE DEF ps
  <2>5. cancelSeen' = cancelSeen \cup ps
    BY <2>1 DEF ps
  <2>6. Serial!Cancel
    BY <2>1, <2>2, <2>3, <2>4, <2>5 DEF Serial!Cancel
  <2> QED
    BY <2>6 DEF Serial!Next
<1>3. CASE Shutdown
  <2>1. /\ UNCHANGED <<outcome, emitted, cancelSeen, history>>
        /\ \A q \in Prompts : phase'[q] = phase[q] \/ (phase[q] = "reported" /\ phase'[q] = "done")
    BY <1>3 DEF Shutdown, runtimeVars
  <2>2. Status("reported") = Status("done")
    BY DEF Status, Waiting, Executing
  <2>3. StatusOf' = StatusOf
    BY <2>1, <2>2, StatusStays
  <2>4. ResultOf' = ResultOf
    BY <2>1, ResultStays DEF Ended
  <2>5. LogOf' = LogOf
    BY <2>1 DEF LogOf
  <2> QED
    BY <2>1, <2>3, <2>4, <2>5 DEF Serial!vars
<1>4. ASSUME NEW p \in Prompts, Accept(p) PROVE [Serial!Next]_(Serial!vars)
  <2>1. /\ phase[p] = "idle" /\ phase' = [phase EXCEPT ![p] = "spawned"]
        /\ UNCHANGED <<outcome, emitted, cancelSeen, history>>
    BY <1>4 DEF Accept, runtimeVars
  <2>2. StatusOf[p] = "new" /\ StatusOf' = [StatusOf EXCEPT ![p] = "waiting"]
    <3>1. StatusOf[p] = "new"
      BY <2>1, StatusNow
    <3>2. StatusOf' = [StatusOf EXCEPT ![p] = "waiting"]
      BY <2>1, StatusMoves, StatusNames
    <3> QED
      BY <3>1, <3>2
  <2>3. phase'[p] = "spawned" /\ \A q \in Prompts : q # p => phase'[q] = phase[q]
    BY <2>1, PhaseAfter
  <2>4. ResultOf' = ResultOf /\ LogOf' = LogOf
    <3>1. ResultOf' = ResultOf
      BY <2>1, <2>3, ResultStays DEF Ended
    <3> QED
      BY <2>1, <3>1 DEF LogOf
  <2>5. Serial!Submit(p)
    BY <2>1, <2>2, <2>4 DEF Serial!Submit, Serial!Becomes
  <2> QED
    BY <2>5 DEF Serial!Next
<1>5. ASSUME NEW p \in Prompts, PromptFinished(p) PROVE [Serial!Next]_(Serial!vars)
  <2>1. /\ phase[p] = "reported" /\ phase' = [phase EXCEPT ![p] = "done"]
        /\ UNCHANGED <<outcome, emitted, cancelSeen, history>>
    BY <1>5 DEF PromptFinished, runtimeVars
  <2>2. "done" \in Phases /\ Status("done") = Status("reported")
    BY DEF Status, Phases, Waiting, Executing
  <2> QED
    BY <2>1, <2>2, Unseen
<1>6. ASSUME NEW p \in Prompts, Acquire(p) \/ Acquired(p) PROVE [Serial!Next]_(Serial!vars)
  <2>1. /\ phase[p] \in Waiting /\ UNCHANGED <<outcome, emitted, cancelSeen, history>>
        /\ \/ phase' = [phase EXCEPT ![p] = "prepare"] /\ holder \in {p, Nobody}
           \/ \E ph \in {"short", "long"} : phase' = [phase EXCEPT ![p] = ph]
    BY <1>6 DEF Acquire, Acquired, Waiting, Queued, runtimeVars
  <2>2. ASSUME phase' = [phase EXCEPT ![p] = "prepare"], holder \in {p, Nobody}
        PROVE  [Serial!Next]_(Serial!vars)
    <3>1. Serial!Begin(p)
      BY <2>1, <2>2, Begins
    <3> QED
      BY <3>1 DEF Serial!Next
  <2>3. ASSUME NEW ph \in {"short", "long"}, phase' = [phase EXCEPT ![p] = ph]
        PROVE  [Serial!Next]_(Serial!vars)
    <3>1. ph \in Phases /\ Status(ph) = "waiting" /\ Status(phase[p]) = "waiting"
      BY <2>1 DEF Status, Phases, Live, Waiting
    <3> QED
      BY <2>1, <2>3, <3>1, Unseen
  <2> QED
    BY <2>1, <2>2, <2>3
<1>7. ASSUME NEW p \in Prompts, ShortTimeout(p) PROVE [Serial!Next]_(Serial!vars)
  <2>1. /\ phase[p] = "short" /\ phase' = [phase EXCEPT ![p] = "requeue"]
        /\ UNCHANGED <<outcome, emitted, cancelSeen, history>>
    BY <1>7 DEF ShortTimeout
  <2>2. "requeue" \in Phases /\ Status("requeue") = Status("short")
    BY DEF Status, Phases, Live, Waiting
  <2> QED
    BY <2>1, <2>2, Unseen
<1>8. ASSUME NEW p \in Prompts, WaitCancelled(p) \/ LongTimeout(p)
      PROVE  [Serial!Next]_(Serial!vars)
  <2>1. /\ phase[p] \in Waiting /\ phase' = [phase EXCEPT ![p] = "returned"]
        /\ \E o \in {"cancelled", "error"} : outcome' = [outcome EXCEPT ![p] = o]
        /\ UNCHANGED <<emitted, cancelSeen, history>>
    BY <1>8 DEF WaitCancelled, LongTimeout, Waiting
  <2>2. PICK o \in {"cancelled", "error"} : outcome' = [outcome EXCEPT ![p] = o]
    BY <2>1
  <2>3. Serial!Withdraw(p, o)
    BY <2>1, <2>2, Withdraws
  <2> QED
    BY <2>3 DEF Serial!Next
<1>9. ASSUME NEW p \in Prompts, PrepareFails(p) PROVE [Serial!Next]_(Serial!vars)
  <2>1. /\ phase[p] = "prepare" /\ phase' = [phase EXCEPT ![p] = "returned"]
        /\ outcome' = [outcome EXCEPT ![p] = "error"]
        /\ UNCHANGED <<emitted, cancelSeen, history>>
    BY <1>9 DEF PrepareFails
  <2>2. outcome'[p] = "error" /\ \A q \in Prompts : q # p => outcome'[q] = outcome[q]
    BY <1>0, <2>1
  <2>3. phase[p] \in Executing
    BY <2>1 DEF Executing
  <2>4. Serial!End(p, outcome'[p])
    BY <2>1, <2>2, <2>3, Ends
  <2> QED
    BY <2>2, <2>4 DEF Serial!Next
<1>10. ASSUME NEW p \in Prompts, StartTurn(p) \/ StoreResponse(p)
       PROVE  [Serial!Next]_(Serial!vars)
  <2>1. /\ phase' = [phase EXCEPT ![p] = "cycle"]
        /\ UNCHANGED <<outcome, emitted, cancelSeen>>
        /\ phase[p] \in Executing /\ "cycle" \in Executing
    BY <1>10 DEF StartTurn, StoreResponse, Executing
  <2>2. \E kind \in {"user", "assistant", "start"} :
           /\ kind = "user" <=> phase[p] = "prepare"
           /\ history' = Append(history, Entry(kind, p, p))
    <3>1. CASE StartTurn(p)
      <4>1. phase[p] = "prepare" /\ history' = Append(history, Entry("user", p, p))
        BY <3>1 DEF StartTurn
      <4> QED
        BY <4>1
    <3>2. CASE StoreResponse(p)
      <4>1. phase[p] # "prepare" /\ history' = Append(history, Entry("assistant", p, p))
        BY <3>2 DEF StoreResponse
      <4> QED
        BY <4>1
    <3> QED
      BY <1>10, <3>1, <3>2
  <2>3. PICK kind \in {"user", "assistant", "start"} :
           /\ kind = "user" <=> phase[p] = "prepare"
           /\ history' = Append(history, Entry(kind, p, p))
    BY <2>2
  <2>4. Serial!Store(p, kind)
    BY <2>1, <2>3, Stores
  <2> QED
    BY <2>4 DEF Serial!Next
<1>11. ASSUME NEW p \in Prompts, CallLlm(p) \/ CycleReturns(p)
       PROVE  [Serial!Next]_(Serial!vars)
  <2>1. /\ phase[p] \in {"cycle", "responding"}
        /\ \E ph \in {"responding", "post"} : phase' = [phase EXCEPT ![p] = ph]
        /\ \/ outcome' = outcome
           \/ \E o \in {"ok", "error", "cancelled"} : outcome' = [outcome EXCEPT ![p] = o]
        /\ UNCHANGED <<emitted, cancelSeen, history>>
    BY <1>11 DEF CallLlm, CycleReturns, runtimeVars
  <2>2. PICK ph \in {"responding", "post"} : phase' = [phase EXCEPT ![p] = ph]
    BY <2>1
  <2>3. \A q \in Prompts : q # p => outcome'[q] = outcome[q]
    BY <1>0, <2>1
  <2>4. /\ ph \in Phases /\ phase[p] \notin Ended
        /\ Status(ph) = "running" /\ Status(phase[p]) = "running"
    BY <2>1 DEF Status, Phases, Live, Waiting, Executing, Ended
  <2> QED
    BY <2>1, <2>2, <2>3, <2>4, Unseen
<1>12. ASSUME NEW p \in Prompts, ResolveSnapshot(p) PROVE [Serial!Next]_(Serial!vars)
  <2>1. /\ phase' = phase /\ phase[p] \in Executing /\ phase[p] # "prepare"
        /\ UNCHANGED <<outcome, emitted, cancelSeen>> /\ pre_task \in Prompts
        /\ history' = history \/ history' = Append(history, Entry("start", p, pre_task))
    BY <1>12 DEF ResolveSnapshot, EnsurePreTurnSnapshotReady, taskVars, TypeOK, Executing
  <2>2. CASE history' = history
    BY <2>1, <2>2 DEF Serial!vars, StatusOf, ResultOf, LogOf
  <2>3. CASE history' = Append(history, Entry("start", p, pre_task))
    <3>1. phase' = [phase EXCEPT ![p] = phase[p]]
      BY <1>0, <2>1
    <3>2. Serial!Store(p, "start")
      BY <2>1, <2>3, <3>1, Stores
    <3> QED
      BY <3>2 DEF Serial!Next
  <2> QED
    BY <2>1, <2>2, <2>3
<1>13. ASSUME NEW p \in Prompts, PostTurn(p) PROVE [Serial!Next]_(Serial!vars)
  <2>1. /\ phase[p] = "post" /\ phase' = [phase EXCEPT ![p] = "returned"]
        /\ UNCHANGED <<outcome, emitted, cancelSeen>>
        /\ \/ history' = history
           \/ turn_snapshot \in Prompts /\ history' = Append(history, Entry("patch", p, turn_snapshot))
    BY <1>13 DEF PostTurn, TypeOK
  <2>2. Serial!Spoken(p)
    <3>1. Len(history) > 0 /\ history[Len(history)].by = p
      BY <2>1 DEF OrderInv, InTurn
    <3>2. Len(history) \in 1..Len(history)
      BY <3>1, LogLength
    <3> QED
      BY <3>1, <3>2, Speaks
  <2>3. history' = history \/ LogOf' = Append(LogOf, Serial!Message(p, "patch"))
    BY <2>1, LogGrows
  <2>4. outcome'[p] \in {"ok", "error", "cancelled"}
    BY <1>0, <2>1 DEF OutcomeInv, Outcomes
  <2>5. phase[p] \in Executing
    BY <2>1 DEF Executing
  <2>6. Serial!End(p, outcome'[p])
    BY <2>1, <2>2, <2>3, <2>4, <2>5, Ends
  <2> QED
    BY <2>4, <2>6 DEF Serial!Next
<1>14. ASSUME NEW p \in Prompts, ReportFinished(p) PROVE [Serial!Next]_(Serial!vars)
  <2>1. /\ phase[p] = "returned" /\ UNCHANGED <<outcome, cancelSeen, history>>
        /\ \E ph \in {"reported", "done"} : phase' = [phase EXCEPT ![p] = ph]
    BY <1>14 DEF ReportFinished, runtimeVars
  <2>2. PICK ph \in {"reported", "done"} : phase' = [phase EXCEPT ![p] = ph]
    BY <2>1
  <2>3. ph \in Phases /\ Status(ph) = Status(phase[p])
    BY <2>1 DEF Status, Phases, Waiting, Executing
  <2>4. emitted[p] = "none"
    BY <2>1 DEF OutcomeInv
  <2>5. CASE p \notin Scheduled
    <3>1. emitted' = [emitted EXCEPT ![p] = "none"]
      BY <1>14, <2>5 DEF ReportFinished
    <3>2. emitted' = emitted
      BY <1>0, <2>4, <3>1
    <3> QED
      BY <2>1, <2>2, <2>3, <3>2, Unseen
  <2>6. CASE p \in Scheduled
    <3>1. emitted' = [emitted EXCEPT ![p] = IF outcome[p] = "error" THEN "failed" ELSE "completed"]
      BY <1>14, <2>6 DEF ReportFinished
    <3>2. phase'[p] = ph /\ \A q \in Prompts : q # p => phase'[q] = phase[q]
      BY <2>2, PhaseAfter
    <3>3. StatusOf' = StatusOf /\ StatusOf[p] = "ended"
      BY <2>1, <2>3, <3>2, StatusStays, StatusNow DEF Ended
    <3>4. ResultOf' = ResultOf
      BY <2>1, <3>2, ResultStays DEF Ended
    <3>5. ResultOf[p] = outcome[p]
      BY <2>1 DEF ResultOf, Ended
    <3>6. LogOf' = LogOf
      BY <2>1 DEF LogOf
    <3>7. Serial!Answer(p)
      BY <2>1, <2>4, <2>6, <3>1, <3>3, <3>4, <3>5, <3>6 DEF Serial!Answer
    <3> QED
      BY <3>7 DEF Serial!Next
  <2> QED
    BY <2>5, <2>6
<1> QED
  BY <1>1, <1>2, <1>3, <1>4, <1>5, <1>6, <1>7, <1>8, <1>9, <1>10, <1>11, <1>12, <1>13, <1>14
     DEF Next, Handle, Wait, Run, Prompt, ScheduledPrompt

\* The session gives its prompts one turn after the other: whatever tasks,
\* timeouts and cancellations do, SessionTurn implements SerialTurns.
THEOREM TurnsSerial == Spec => ImplementsSerialTurns
<1>1. Init => Serial!Init
  BY DEF Init, Serial!Init, StatusOf, ResultOf, LogOf, Status, Ended
<1>2. TypeOK /\ PermitNotLost /\ OrderInv /\ OutcomeInv /\ NoSpuriousCancel' /\ [Next]_vars
         => [Serial!Next]_(Serial!vars)
  BY SerialStep
<1> QED
  BY <1>1, <1>2, TypeCorrect, PermitSafe, OrderKept, OutcomeKept, CancelNotSpurious, PTL
     DEF Spec, Serial!Spec, ImplementsSerialTurns
=============================================================================
