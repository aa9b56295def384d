---------------------------- MODULE ServicesProofs ----------------------------
(***************************************************************************)
(* The components that MCServices puts side by side, for any set of nodes, *)
(* any TTL, any bound on the lateness of renewals, any paths and number of *)
(* turns, any events, any requests for the session and any profiles and    *)
(* callers.                                                                *)
(***************************************************************************)
EXTENDS MCServices, Sequences, SequenceTheorems, FiniteSetTheorems, WellFoundedInduction,
        TLAPS

(***************************************************************************)
(* The scheduler lease.                                                    *)
(***************************************************************************)

\* The strengthening of OneLeader: the next renewal of an acting scheduler is
\* at most an interval away, and the scheduler owns a lease that lasts for
\* the whole slack of that renewal, or is overdue.
LeaderCovered ==
    \A n \in Nodes : Acting(n) =>
       /\ nextRenew[n] <= now + RenewInterval
       /\ \/ owner = n /\ nextRenew[n] + (TTL - RenewInterval) <= expires
          \/ Overdue(n)

LeaseInv == TypeOK /\ LeaderCovered

\* Integer division by two rounds down.
LEMMA RenewIntervalType == RenewInterval \in Nat /\ RenewInterval <= TTL
  BY LeaseAssumption DEF RenewInterval

\* The type invariant and the coverage of every acting scheduler hold in
\* every reachable state: spawn, renewals, losses, shutdowns, crashes and the
\* clock preserve them.
THEOREM LeaseInvariant == Spec => []LeaseInv
<1>1. Init => LeaseInv
  BY LeaseAssumption DEF Init, LeaseInv, TypeOK, LeaderCovered, Acting
<1>2. LeaseInv /\ [Next]_vars => LeaseInv'
  <2> SUFFICES ASSUME LeaseInv, [Next]_vars PROVE LeaseInv'
    OBVIOUS
  <2> USE LeaseAssumption, RenewIntervalType DEF LeaseInv, TypeOK, LeaderCovered, Acting, Overdue
  <2>1. CASE Tick
    BY <2>1 DEF Tick
  <2>2. ASSUME NEW n \in Nodes, Spawn(n) PROVE LeaseInv'
    <3>1. TypeOK'
      BY <2>2 DEF Spawn
    <3>2. \A m \in Nodes : Acting(m) => Overdue(m)
      BY <2>2 DEF Spawn, Acquirable
    <3> QED
      BY <2>2, <3>1, <3>2 DEF Spawn
  <2>3. ASSUME NEW n \in Nodes, Renew(n) PROVE LeaseInv'
    BY <2>3 DEF Renew, Renewable
  <2>4. ASSUME NEW n \in Nodes, LoseLease(n) PROVE LeaseInv'
    BY <2>4 DEF LoseLease
  <2>5. ASSUME NEW n \in Nodes, ReconcileRenew(n) PROVE LeaseInv'
    BY <2>5 DEF ReconcileRenew, Renewable
  <2>6. ASSUME NEW n \in Nodes, Shutdown(n) PROVE LeaseInv'
    BY <2>6 DEF Shutdown, Release
  <2>7. ASSUME NEW n \in Nodes, Crash(n) PROVE LeaseInv'
    BY <2>7 DEF Crash
  <2>8. CASE UNCHANGED vars
    BY <2>8 DEF vars
  <2> QED
    BY <2>1, <2>2, <2>3, <2>4, <2>5, <2>6, <2>7, <2>8 DEF Next
<1> QED
  BY <1>1, <1>2, PTL DEF Spec

\* At most one scheduler acts unless a renewal is overdue.
THEOREM LeaseExclusive == Spec => []OneLeader
<1>1. LeaseInv => OneLeader
  BY DEF LeaseInv, LeaderCovered, OneLeader
<1> QED
  BY <1>1, LeaseInvariant, PTL

\* However late renewals are, a lease changes hands only once it expired and
\* is deleted only by its owner.
THEOREM LeaseHandedOver == Spec => LeaseHandover
<1> DEFINE Handed == \A n \in Nodes :
        owner = n /\ owner' # n =>
           IF owner' = NoOwner THEN Acting(n) /\ role'[n] = "off" ELSE expires < now
<1>1. LeaseInv /\ [Next]_vars => [Handed]_vars
  <2> SUFFICES ASSUME LeaseInv, Next PROVE Handed
    OBVIOUS
  <2> USE LeaseAssumption DEF LeaseInv, TypeOK
  <2>1. CASE Tick
    BY <2>1 DEF Tick
  <2>2. ASSUME NEW m \in Nodes,
               Spawn(m) \/ Renew(m) \/ LoseLease(m) \/ ReconcileRenew(m) \/ Crash(m)
        PROVE Handed
    BY <2>2 DEF Spawn, Acquirable, Renew, LoseLease, ReconcileRenew, Crash
  <2>3. ASSUME NEW m \in Nodes, Shutdown(m) PROVE Handed
    BY <2>3 DEF Shutdown, Release
  <2> QED
    BY <2>1, <2>2, <2>3 DEF Next
<1> QED
  BY <1>1, LeaseInvariant, PTL DEF Spec, LeaseHandover

\* The clock, the lease row and every scheduler's role have their types.
THEOREM LeaseTypeCorrect == Spec => []TypeOK
<1>1. LeaseInv => TypeOK
  BY DEF LeaseInv
<1> QED
  BY <1>1, LeaseInvariant, PTL

-----------------------------------------------------------------------------
(***************************************************************************)
(* Loading and profiles: what MaterializerProofs and ProfilesProofs prove  *)
(* of each component alone holds of the components side by side, which the *)
(* run explores.                                                           *)
(***************************************************************************)

\* A step of the components side by side is one of loading, or leaves it alone.
LEMMA LoadSimulated == AllSpec => Load!Spec
<1>1. AllInit => Load!Init
  BY DEF AllInit
<1>2. [AllNext]_allVars => [Load!Next]_(Load!vars)
  BY DEF AllNext, allVars, loadVars, Load!vars
<1> QED
  BY <1>1, <1>2, PTL DEF AllSpec, Load!Spec

\* A step of the components side by side is one of the runtimes of profiles, or leaves it alone.
LEMMA CacheSimulated == AllSpec => Cache!Spec
<1>1. AllInit => Cache!Init
  BY DEF AllInit
<1>2. [AllNext]_allVars => [Cache!Next]_(Cache!vars)
  BY DEF AllNext, allVars, cacheVars, Cache!vars
<1> QED
  BY <1>1, <1>2, PTL DEF AllSpec, Cache!Spec

\* However requests for a session, failures and stops interleave, at most one of
\* its actors was not told to stop, unless SessionSingleFlightGuard::drop removed
\* a lock somebody waited for, or a load of the handle and one of the node
\* manager, which have locks of their own, overlapped.
THEOREM ServicesOneActor == AllSpec => []OneActor
<1>1. Load!RequestsAssumption
  BY LoadAssumption
<1>2. Load!Spec => []Load!OneActor
  BY <1>1, Load!ActorUnique
<1> QED
  BY <1>2, LoadSimulated, PTL DEF OneActor

\* RemoteNodeManager lets one request of another node at a time look for the
\* actor and load it.
THEOREM ServicesRemoteExclusive == AllSpec => []RemoteSingleFlight
<1>1. Load!RequestsAssumption
  BY LoadAssumption
<1>2. Load!Spec => []Load!RemoteSingleFlight
  BY <1>1, Load!RemoteExclusive
<1> QED
  BY <1>2, LoadSimulated, PTL DEF RemoteSingleFlight

\* Requests for a session never wait for each other in a circle, nor for one that
\* has ended with a lock in hand.
THEOREM ServicesRequestsGoOn == AllSpec => []RequestsGoOn
<1>1. Load!RequestsAssumption
  BY LoadAssumption
<1>2. Load!Spec => []Load!RequestsGoOn
  BY <1>1, Load!NoRequestStuck
<1> QED
  BY <1>2, LoadSimulated, PTL DEF RequestsGoOn

\* What runtime_for_profile returned is the runtime of the cache until it is
\* retired, and after set_mesh every cached runtime has the mesh.
THEOREM ServicesRuntimeUnique == AllSpec => []RuntimesShared
<1>1. Cache!ProfilesAssumption
  BY CacheAssumption
<1>2. Cache!Spec => []Cache!RuntimesShared
  BY <1>1, Cache!RuntimeUnique
<1> QED
  BY <1>2, CacheSimulated, PTL DEF RuntimesShared

\* A quiet watcher leaves no outdated runtime in the cache, except those of
\* calls a reload overtook.
THEOREM ServicesCacheFollows == AllSpec => []CacheCurrent
<1>1. Cache!ProfilesAssumption
  BY CacheAssumption
<1>2. Cache!Spec => []Cache!CacheCurrent
  BY <1>1, Cache!CacheFollowsFiles
<1> QED
  BY <1>2, CacheSimulated, PTL DEF CacheCurrent

-----------------------------------------------------------------------------
(***************************************************************************)
(* Undo.                                                                   *)
(***************************************************************************)

\* No undo or redo overlapped with a clean-up, and clear_revert_states never
\* failed.
Orderly == undoMarks \cap {"overlapped", "uncleared"} = {}

\* The prompts of a history.
PromptsOf(h) == {m.turn : m \in {x \in {h[i] : i \in DOMAIN h} : x.kind = "prompt"}}

\* The messages and the frames are sequences.  Frames name stored messages but
\* between the two halves of the clean-up, where no undo or redo is handled, and
\* the message an undo goes to stays until its frame is pushed.
UndoInv ==
    /\ \E S : history \in Seq(S)
    /\ \E S : frames \in Seq(S)
    /\ FrontierStored
    /\ Orderly => /\ phase \in {"peeked", "cleaning"} => handling = "none"
                  /\ handling = "restoring" => target \in PromptsOf(history)

\* A history that keeps its messages at their places keeps its prompts.
LEMMA PromptsGrow ==
  ASSUME NEW S, NEW h \in Seq(S), NEW g, DOMAIN h \subseteq DOMAIN g,
         \A i \in DOMAIN h : g[i] = h[i]
  PROVE  PromptsOf(h) \subseteq PromptsOf(g)
  BY DEF PromptsOf

LEMMA UndoPrompts == Undo!Prompts = PromptsOf(history)
  BY DEF Undo!Prompts, Undo!Stored, PromptsOf

\* What a step of undo may do to the messages and frames outside the clean-up.
LEMMA FrontierKept ==
  ASSUME UndoInv, NEW S, history' \in Seq(S), NEW T, frames' \in Seq(T),
         PromptsOf(history) \subseteq PromptsOf(history'),
         Orderly' => Orderly,
         Orderly' => phase # "cleaning" \/ phase' = "cleaning" \/ frames' = <<>>,
         Orderly' => \A i \in DOMAIN frames' :
                        \/ frames'[i].turn \in PromptsOf(history)
                        \/ i \in DOMAIN frames /\ frames'[i] = frames[i],
         Orderly' => (phase' \in {"peeked", "cleaning"} => handling' = "none"),
         Orderly' => (handling' = "restoring" => target' \in PromptsOf(history))
  PROVE  UndoInv'
<1>1. Undo!Prompts = PromptsOf(history) /\ Undo!Prompts' = PromptsOf(history')
  BY UndoPrompts DEF Undo!Prompts, Undo!Stored, PromptsOf
<1>2. FrontierStored'
  <2> SUFFICES ASSUME phase' # "cleaning", Orderly', NEW i \in DOMAIN frames'
               PROVE  frames'[i].turn \in PromptsOf(history')
    BY <1>1 DEF FrontierStored, Undo!FrontierStored, Orderly
  <2>1. Orderly
    OBVIOUS
  <2>2. phase # "cleaning" => \A j \in DOMAIN frames : frames[j].turn \in PromptsOf(history)
    BY <1>1, <2>1 DEF UndoInv, FrontierStored, Undo!FrontierStored, Orderly
  <2>3. frames' # <<>>
    OBVIOUS
  <2> QED
    BY <2>2, <2>3
<1> QED
  BY <1>1, <1>2 DEF UndoInv

\* The clean-up of a prompt keeps the invariant.
LEMMA CleanUpStep ==
  ASSUME UndoInv, NEW ok \in BOOLEAN, Undo!PeekFrontier \/ Undo!DeleteUndone(ok) \/ Undo!ClearFrames(ok)
  PROVE  UndoInv'
<1>1. PICK S : history \in Seq(S)
  BY DEF UndoInv
<1>2. PICK T : frames \in Seq(T)
  BY DEF UndoInv
<1>3. CASE Undo!PeekFrontier
  <2>1. UNCHANGED <<history, frames, handling, target>> /\ phase = "idle"
    BY <1>3 DEF Undo!PeekFrontier, Undo!handlerVars
  <2>2. Orderly' => Orderly /\ handling = "none"
    BY <1>3 DEF Undo!PeekFrontier, Orderly
  <2> QED
    BY <1>1, <1>2, <2>1, <2>2, FrontierKept
<1>4. CASE Undo!DeleteUndone(ok)
  <2>1. UNCHANGED <<frames, handling, target>> /\ phase = "peeked"
    BY <1>4 DEF Undo!DeleteUndone, Undo!handlerVars
  <2>2. Orderly' => Orderly
    BY <1>4 DEF Undo!DeleteUndone, Orderly
  <2>3. Orderly' => handling = "none"
    BY <2>1, <2>2 DEF UndoInv
  <2>4. CASE frontier \in PromptsOf(history) /\ ok
    <3>1. phase' = "cleaning" /\ history' = SubSeq(history, 1, Undo!target_idx(frontier) - 1)
      BY <1>4, <2>4, UndoPrompts DEF Undo!DeleteUndone, Undo!Surviving
    <3>2. \E i \in DOMAIN history : history[i].kind = "prompt" /\ history[i].turn = frontier
      BY <2>4 DEF PromptsOf
    <3>3. Undo!target_idx(frontier) \in DOMAIN history
      BY <3>2 DEF Undo!target_idx
    <3>4. PICK n : n = Undo!target_idx(frontier) - 1
      OBVIOUS
    <3>5. n \in 0..Len(history)
      BY <1>1, <3>3, <3>4
    <3>6. SubSeq(history, 1, n) \in Seq(S)
      BY <1>1, <3>5
    <3>7. history' \in Seq(S)
      BY <3>1, <3>4, <3>6
    <3> QED
      BY <1>2, <2>1, <2>3, <3>1, <3>7 DEF UndoInv, FrontierStored, Undo!FrontierStored
  <2>5. CASE ~(frontier \in PromptsOf(history) /\ ok)
    <3>1. phase' = "ready" /\ history' = history
      BY <1>4, <2>5, UndoPrompts DEF Undo!DeleteUndone
    <3> QED
      BY <1>1, <1>2, <2>1, <2>2, <2>3, <3>1, FrontierKept
  <2> QED
    BY <2>4, <2>5
<1>5. CASE Undo!ClearFrames(ok)
  <2>1. UNCHANGED <<history, handling, target>> /\ phase = "cleaning" /\ phase' = "ready"
    BY <1>5 DEF Undo!ClearFrames, Undo!handlerVars
  <2>2. Orderly' => Orderly /\ frames' = <<>>
    BY <1>5 DEF Undo!ClearFrames, Orderly
  <2>3. Orderly' => handling = "none"
    BY <2>1, <2>2 DEF UndoInv
  <2>4. \E R : frames' \in Seq(R)
    <3>1. <<>> \in Seq({})
      OBVIOUS
    <3> QED
      BY <1>2, <1>5, <3>1 DEF Undo!ClearFrames
  <2> QED
    BY <1>1, <2>1, <2>2, <2>3, <2>4, FrontierKept
<1> QED
  BY <1>3, <1>4, <1>5

\* A turn keeps the invariant: it only adds messages.
LEMMA TurnStep ==
  ASSUME UndoInv,
         \/ \E ok \in BOOLEAN : Undo!StartTurn(ok) \/ Undo!EndTurn(ok)
         \/ \E p \in Paths : Undo!ToolWrites(p) \/ Undo!ChildWrites(p)
  PROVE  UndoInv'
<1>1. PICK S : history \in Seq(S)
  BY DEF UndoInv
<1>2. PICK T : frames \in Seq(T)
  BY DEF UndoInv
<1>3. /\ UNCHANGED <<frames, handling, target>> /\ phase \in {"ready", "running"}
      /\ phase' \in {"running", "idle"} /\ undoMarks \subseteq undoMarks'
  BY DEF Undo!StartTurn, Undo!EndTurn, Undo!ToolWrites, Undo!ChildWrites, Undo!handlerVars
<1>4. Orderly' => Orderly
  BY <1>3 DEF Orderly
<1>5. SUFFICES \E R : /\ history' \in Seq(R)
                      /\ DOMAIN history \subseteq DOMAIN history'
                      /\ \A i \in DOMAIN history : history'[i] = history[i]
  <2>1. PICK R : /\ history' \in Seq(R) /\ DOMAIN history \subseteq DOMAIN history'
                 /\ \A i \in DOMAIN history : history'[i] = history[i]
    BY <1>5
  <2>2. PromptsOf(history) \subseteq PromptsOf(history')
    BY <1>1, <2>1, PromptsGrow
  <2> QED
    BY <1>2, <1>3, <1>4, <2>1, <2>2, FrontierKept DEF UndoInv
<1>6. ASSUME NEW ok \in BOOLEAN, Undo!StartTurn(ok)
      PROVE  \E R : /\ history' \in Seq(R) /\ DOMAIN history \subseteq DOMAIN history'
                    /\ \A i \in DOMAIN history : history'[i] = history[i]
  <2>1. PICK more : more = IF ok THEN <<Undo!Prompt(turns + 1), Undo!Start(turns + 1, files)>>
                                 ELSE <<Undo!Prompt(turns + 1)>>
    OBVIOUS
  <2>2. history' = history \o more
    BY <1>6, <2>1 DEF Undo!StartTurn
  <2>3. PICK a, b : a = Undo!Prompt(turns + 1) /\ b = Undo!Start(turns + 1, files)
    OBVIOUS
  <2>4. more \in Seq({a, b})
    <3>1. <<a, b>> \in Seq({a, b}) /\ <<a>> \in Seq({a, b})
      OBVIOUS
    <3>2. more = <<a, b>> \/ more = <<a>>
      BY <2>1, <2>3
    <3> QED
      BY <3>1, <3>2
  <2>5. history \in Seq(S \cup {a, b}) /\ more \in Seq(S \cup {a, b})
    BY <1>1, <2>4
  <2> QED
    BY <2>2, <2>5
<1>7. ASSUME NEW ok \in BOOLEAN, Undo!EndTurn(ok)
      PROVE  \E R : /\ history' \in Seq(R) /\ DOMAIN history \subseteq DOMAIN history'
                    /\ \A i \in DOMAIN history : history'[i] = history[i]
  <2>1. PICK m : m = Undo!Patch(turns, files, {p \in Paths : pre # Undo!NoSnapshot /\ files[p] # pre[p]})
    OBVIOUS
  <2>2. history' = history \/ history' = Append(history, m)
    BY <1>7, <2>1 DEF Undo!EndTurn
  <2>3. history \in Seq(S \cup {m})
    BY <1>1
  <2> QED
    BY <2>2, <2>3
<1>8. ASSUME NEW p \in Paths, Undo!ToolWrites(p) \/ Undo!ChildWrites(p) PROVE history' = history
  BY <1>8 DEF Undo!ToolWrites, Undo!ChildWrites
<1> QED
  BY <1>1, <1>6, <1>7, <1>8

\* Undo keeps the invariant: it pushes a frame for a message that was stored when
\* it looked, and no clean-up came in between.
LEMMA UndoingStep ==
  ASSUME UndoInv,
         \/ \E t \in 1..MaxTurns : Undo!UndoTracks(t)
         \/ Undo!UndoCollects \/ Undo!UndoGivesUp
         \/ \E i \in left : \E ps \in SUBSET patches[i].paths : Undo!UndoRestores(i, ps)
         \/ \E ok \in BOOLEAN : Undo!UndoPushes(ok)
  PROVE  UndoInv'
<1>1. PICK S : history \in Seq(S)
  BY DEF UndoInv
<1>2. PICK T : frames \in Seq(T)
  BY DEF UndoInv
<1>3. UNCHANGED <<history, phase>>
  BY DEF Undo!UndoTracks, Undo!UndoCollects, Undo!UndoGivesUp, Undo!UndoRestores, Undo!Restores,
         Undo!UndoPushes, Undo!promptVars
<1>4. ASSUME NEW t \in 1..MaxTurns, Undo!UndoTracks(t) PROVE UndoInv'
  <2>1. UNCHANGED frames /\ handling' = "tracked"
    BY <1>4 DEF Undo!UndoTracks
  <2>2. Orderly' => Orderly /\ phase \notin {"peeked", "cleaning"}
    BY <1>4 DEF Undo!UndoTracks, Undo!RaceMark, Orderly
  <2> QED
    BY <1>1, <1>2, <1>3, <2>1, <2>2, FrontierKept
<1>5. CASE Undo!UndoCollects
  <2>1. /\ UNCHANGED <<frames, target>> /\ handling = "tracked" /\ handling' = "restoring"
        /\ target \in PromptsOf(history) /\ undoMarks \subseteq undoMarks'
    BY <1>5, UndoPrompts DEF Undo!UndoCollects
  <2>2. Orderly' => Orderly /\ phase \notin {"peeked", "cleaning"}
    BY <2>1 DEF Orderly, UndoInv
  <2> QED
    BY <1>1, <1>2, <1>3, <2>1, <2>2, FrontierKept
<1>6. CASE Undo!UndoGivesUp
  <2>1. UNCHANGED <<frames, undoMarks>> /\ handling' = "none"
    BY <1>6 DEF Undo!UndoGivesUp, Undo!HandlerEnds
  <2>2. Orderly' => Orderly
    BY <2>1 DEF Orderly
  <2> QED
    BY <1>1, <1>2, <1>3, <2>1, <2>2, FrontierKept
<1>7. ASSUME NEW i \in left, NEW ps \in SUBSET patches[i].paths, Undo!UndoRestores(i, ps) PROVE UndoInv'
  <2>1. UNCHANGED <<frames, handling, target>> /\ undoMarks \subseteq undoMarks'
    BY <1>7 DEF Undo!UndoRestores, Undo!Restores
  <2>2. Orderly' => Orderly
    BY <2>1 DEF Orderly
  <2> QED
    BY <1>1, <1>2, <1>3, <2>1, <2>2, FrontierKept DEF UndoInv
<1>8. ASSUME NEW ok \in BOOLEAN, Undo!UndoPushes(ok) PROVE UndoInv'
  <2>1. PICK f : f = [turn |-> target, snap |-> saved]
    OBVIOUS
  <2>2. /\ handling = "restoring" /\ handling' = "none" /\ undoMarks \subseteq undoMarks'
        /\ frames' = frames \/ frames' = Append(frames, f)
    BY <1>8, <2>1 DEF Undo!UndoPushes, Undo!HandlerEnds
  <2>3. f.turn = target
    BY <2>1
  <2>4. frames \in Seq(T \cup {f})
    BY <1>2
  <2>5. /\ frames' \in Seq(T \cup {f})
        /\ \A i \in DOMAIN frames' :
              frames'[i] = f \/ (i \in DOMAIN frames /\ frames'[i] = frames[i])
    <3>1. CASE frames' = frames
      BY <2>4, <3>1
    <3>2. CASE frames' = Append(frames, f)
      <4>1. frames' \in Seq(T \cup {f}) /\ Len(frames') = Len(frames) + 1
        BY <2>4, <3>2
      <4>2. frames'[Len(frames) + 1] = f /\ \A i \in 1..Len(frames) : frames'[i] = frames[i]
        BY <2>4, <3>2
      <4>3. ASSUME NEW i \in DOMAIN frames'
            PROVE  frames'[i] = f \/ (i \in DOMAIN frames /\ frames'[i] = frames[i])
        <5>1. i \in 1..Len(frames) \/ i = Len(frames) + 1
          BY <2>4, <4>1
        <5> QED
          BY <2>4, <4>2, <5>1
      <4> QED
        BY <4>1, <4>3
    <3> QED
      BY <2>2, <3>1, <3>2
  <2>6. Orderly' => Orderly /\ target \in PromptsOf(history)
    BY <2>2 DEF Orderly, UndoInv
  <2> QED
    BY <1>1, <1>3, <2>2, <2>3, <2>5, <2>6, FrontierKept
<1> QED
  BY <1>4, <1>5, <1>6, <1>7, <1>8

\* Redo keeps the invariant: it only removes a frame.
LEMMA RedoingStep ==
  ASSUME UndoInv,
         \/ Undo!RedoPeeks
         \/ \E ps \in SUBSET Paths : Undo!RedoRestores(ps)
         \/ \E ok \in BOOLEAN : Undo!RedoPops(ok)
  PROVE  UndoInv'
<1>1. PICK S : history \in Seq(S)
  BY DEF UndoInv
<1>2. PICK T : frames \in Seq(T)
  BY DEF UndoInv
<1>3. UNCHANGED <<history, phase>> /\ undoMarks \subseteq undoMarks'
  BY DEF Undo!RedoPeeks, Undo!RedoRestores, Undo!RedoPops, Undo!promptVars
<1>4. Orderly' => Orderly
  BY <1>3 DEF Orderly
<1>5. CASE Undo!RedoPeeks
  <2>1. UNCHANGED frames /\ handling' = "peeked"
    BY <1>5 DEF Undo!RedoPeeks
  <2>2. Orderly' => phase \notin {"peeked", "cleaning"}
    BY <1>5 DEF Undo!RedoPeeks, Undo!RaceMark, Orderly
  <2> QED
    BY <1>1, <1>2, <1>3, <1>4, <2>1, <2>2, FrontierKept
<1>6. ASSUME NEW ps \in SUBSET Paths, Undo!RedoRestores(ps) PROVE UndoInv'
  <2>1. UNCHANGED frames /\ handling = "peeked" /\ handling' \in {"popping", "none"}
    BY <1>6 DEF Undo!RedoRestores, Undo!HandlerEnds
  <2>2. Orderly' => phase \notin {"peeked", "cleaning"}
    BY <1>4, <2>1 DEF UndoInv
  <2> QED
    BY <1>1, <1>2, <1>3, <1>4, <2>1, <2>2, FrontierKept
<1>7. ASSUME NEW ok \in BOOLEAN, Undo!RedoPops(ok) PROVE UndoInv'
  <2>1. handling = "popping" /\ handling' = "none"
    BY <1>7 DEF Undo!RedoPops, Undo!HandlerEnds
  <2>2. frames' = frames \/ (frames # <<>> /\ frames' = SubSeq(frames, 1, Len(frames) - 1))
    BY <1>7 DEF Undo!RedoPops, Undo!Front
  <2>3. CASE frames' = frames
    BY <1>1, <1>2, <1>3, <1>4, <2>1, <2>3, FrontierKept
  <2>4. CASE frames # <<>> /\ frames' = SubSeq(frames, 1, Len(frames) - 1)
    <3>1. Len(frames) \in Nat /\ Len(frames) > 0
      BY <1>2, <2>4
    <3>2. PICK n \in 0..Len(frames) : n = Len(frames) - 1
      <4>1. Len(frames) - 1 \in 0..Len(frames)
        BY <3>1
      <4> QED
        BY <4>1
    <3>3. SubSeq(frames, 1, n) \in Seq(T) /\ Len(SubSeq(frames, 1, n)) = n
      BY <1>2, <3>1
    <3>4. \A i \in 1..n : SubSeq(frames, 1, n)[i] = frames[i]
      BY <1>2, <3>1
    <3>5. \A i \in 1..n : i \in DOMAIN frames
      BY <1>2, <3>1, <3>2
    <3>6. frames' \in Seq(T) /\ \A i \in DOMAIN frames' : i \in DOMAIN frames /\ frames'[i] = frames[i]
      BY <2>4, <3>2, <3>3, <3>4, <3>5
    <3> QED
      BY <1>1, <1>3, <1>4, <2>1, <3>6, FrontierKept
  <2> QED
    BY <2>2, <2>3, <2>4
<1> QED
  BY <1>5, <1>6, <1>7

\* Every step of undo keeps its invariant.
LEMMA UndoStep ==
  ASSUME UndoInv, Undo!Next
  PROVE  UndoInv'
<1>1. CASE \/ Undo!PeekFrontier
           \/ \E ok \in BOOLEAN : Undo!DeleteUndone(ok) \/ Undo!ClearFrames(ok)
  BY <1>1, CleanUpStep
<1>2. CASE \/ \E ok \in BOOLEAN : Undo!StartTurn(ok) \/ Undo!EndTurn(ok)
           \/ \E p \in Paths : Undo!ToolWrites(p) \/ Undo!ChildWrites(p)
  BY <1>2, TurnStep
<1>3. CASE \/ \E t \in 1..MaxTurns : Undo!UndoTracks(t)
           \/ Undo!UndoCollects \/ Undo!UndoGivesUp
           \/ \E i \in left : \E ps \in SUBSET patches[i].paths : Undo!UndoRestores(i, ps)
           \/ \E ok \in BOOLEAN : Undo!UndoPushes(ok)
  BY <1>3, UndoingStep
<1>4. CASE \/ Undo!RedoPeeks
           \/ \E ps \in SUBSET Paths : Undo!RedoRestores(ps)
           \/ \E ok \in BOOLEAN : Undo!RedoPops(ok)
  BY <1>4, RedoingStep
<1> QED
  BY <1>1, <1>2, <1>3, <1>4 DEF Undo!Next

LEMMA UndoStart ==
  ASSUME AllInit
  PROVE  UndoInv
<1>1. history = <<>> /\ frames = <<>> /\ phase = "idle" /\ handling = "none"
  BY DEF AllInit, Undo!Init
<1>2. <<>> \in Seq({})
  OBVIOUS
<1> QED
  BY <1>1, <1>2 DEF UndoInv, FrontierStored, Undo!FrontierStored

LEMMA UndoUnchanged ==
  ASSUME UndoInv, UNCHANGED undoVars
  PROVE  UndoInv'
  BY DEF undoVars, UndoInv, FrontierStored, Undo!FrontierStored, Undo!Prompts, Undo!Stored, Orderly

\* Every revert frame names a stored message but between the halves of
\* cleanup_revert_on_prompt, whatever undos and redos come while a turn runs and
\* whichever of their steps fail: the next clean-up finds its frontier.  Excepted
\* are an undo or redo that overlaps with a clean-up, and a failure to clear the
\* frames.
THEOREM ServicesFrontierStored == AllSpec => []FrontierStored
<1>1. AllInit => UndoInv
  BY UndoStart
<1>2. UndoInv /\ [AllNext]_allVars => UndoInv'
  <2> SUFFICES ASSUME UndoInv, [AllNext]_allVars PROVE UndoInv'
    OBVIOUS
  <2>1. Undo!Next \/ UNCHANGED undoVars
    BY DEF AllNext, allVars
  <2> QED
    BY <2>1, UndoUnchanged, UndoStep
<1>3. UndoInv => FrontierStored
  BY DEF UndoInv
<1> QED
  BY <1>1, <1>2, <1>3, PTL DEF AllSpec

-----------------------------------------------------------------------------

(***************************************************************************)
(* The files.  As long as nothing happened that FilesFollowHistory excepts *)
(* every turn of the history is a prompt, a start and, if it wrote         *)
(* something and has ended, a patch, in the order of the turns.            *)
(***************************************************************************)

\* The greatest number of a set, and the files that the turns ts leave if w
\* says what each wrote: FilesOf.
Newest(S) == IF S = {} THEN 0 ELSE CHOOSE t \in S : \A u \in S : u <= t
Written(w, ts) == [p \in Paths |-> Newest({t \in ts : p \in w[t]})]

Before(ts, t) == {u \in ts : u < t}

IsPrompt(h, i) == i \in DOMAIN h /\ h[i].kind = "prompt"
IsStart(h, i)  == i \in DOMAIN h /\ h[i].kind = "start"
IsPatch(h, i)  == i \in DOMAIN h /\ h[i].kind = "patch"

\* The messages are in the order of the turns and, within one, of their kinds.
Sorted(h) ==
    \A i, j \in DOMAIN h : i < j =>
       /\ h[i].turn <= h[j].turn
       /\ h[i].turn = h[j].turn =>
             h[i].kind # h[j].kind /\ h[i].kind # "patch" /\ h[j].kind # "prompt"

\* Every turn has its start, and its patch if it wrote and is not open; a
\* start has the files of the turns before it, a patch the paths of its turn.
Complete(h, w, open) ==
    /\ \A i \in DOMAIN h : h[i].kind \in {"prompt", "start", "patch"}
    /\ \A i \in DOMAIN h : h[i].turn \in PromptsOf(h)
    /\ \A t \in PromptsOf(h) : \E i : IsStart(h, i) /\ h[i].turn = t
    /\ \A t \in PromptsOf(h) \ open : w[t] # {} => \E i : IsPatch(h, i) /\ h[i].turn = t
    /\ \A i : IsPatch(h, i) => h[i].turn \notin open /\ h[i].paths = w[h[i].turn]
    /\ \A i : IsStart(h, i) => h[i].snap = Written(w, Before(PromptsOf(h), h[i].turn))

\* What is visible below the i-th frame.
Below(i) == IF i = 1 THEN PromptsOf(history) ELSE Before(PromptsOf(history), frames[i - 1].turn)

\* The frames remember the files as they were before each undo.
FramesOK ==
    /\ phase \in {"idle", "peeked"} => \A i \in DOMAIN frames :
          frames[i].turn \in PromptsOf(history) /\ frames[i].snap = Written(wrote, Below(i))
    /\ phase = "peeked" => frontier = IF frames = <<>> THEN 0 ELSE frames[Len(frames)].turn
    /\ phase \in {"ready", "running"} => frames = <<>>

\* The files, and those the running turn started from.
FilesOK ==
    /\ phase \in {"idle", "peeked"} /\ handling \in {"none", "tracked", "peeked"} =>
          files = Written(wrote, Below(Len(frames) + 1))
    /\ phase \in {"cleaning", "ready", "running"} => files = Written(wrote, PromptsOf(history))
    /\ phase = "running" => /\ turns \in PromptsOf(history)
                            /\ pre = Written(wrote, Before(PromptsOf(history), turns))

\* The patches of q at the places l that have p, and what becomes of p in f if
\* they are undone last first: it gets the content c.
Having(q, l, p) == {i \in l : p \in q[i].paths}
EndsWith(q, l, p, f, c) ==
    /\ Having(q, l, p) = {} => f[p] = c
    /\ \A i \in Having(q, l, p) : (\A j \in Having(q, l, p) : i <= j) => q[i].snap[p] = c

\* The handler of Undo or Redo: the snapshot it works with, and the files it
\* leaves.
HandlerOK ==
    /\ handling # "none" => phase = "idle"
    /\ handling \in {"tracked", "restoring"} => saved = Written(wrote, Below(Len(frames) + 1))
    /\ handling = "restoring" =>
          /\ target \in PromptsOf(history)
          /\ files = [p \in Paths |-> files[p]]
          /\ \A p \in Paths :
                EndsWith(patches, left, p, files,
                         Written(wrote, Before(PromptsOf(history), target))[p])
    /\ handling = "peeked" => frames # <<>> /\ saved = frames[Len(frames)].snap
    /\ handling = "popping" => frames # <<>> /\ files = Written(wrote, Below(Len(frames)))

FollowOK ==
    /\ children = <<>>
    /\ Sorted(history)
    /\ Complete(history, wrote, IF phase = "running" THEN {turns} ELSE {})
    /\ FramesOK /\ FilesOK /\ HandlerOK

ShapeOK ==
    /\ turns \in 0..MaxTurns
    /\ wrote \in [1..MaxTurns -> SUBSET Paths]
    /\ phase \in {"idle", "peeked", "cleaning", "ready", "running"}
    /\ phase \in {"peeked", "cleaning", "ready"} => turns < MaxTurns
    /\ handling \in {"none", "tracked", "restoring", "peeked", "popping"}
    /\ \E S : history \in Seq(S)
    /\ \E S : frames \in Seq(S)
    /\ PromptsOf(history) \subseteq 1..turns
    /\ \A t \in 1..MaxTurns : t > turns => wrote[t] = {}

FollowInv == ShapeOK /\ (undoMarks = {} => FollowOK)

\* Every set of naturals has a least element.
LEMMA LeastNatural ==
  ASSUME NEW S \in SUBSET Nat, S # {}
  PROVE  \E x \in S : \A y \in S : x <= y
<1> DEFINE Less == OpToRel(<, Nat)
<1>1. IsWellFoundedOn(Less, Nat)
  BY NatLessThanWellFounded
<1>2. Less = {ss \in Nat \X Nat : ss[1] < ss[2]}
  BY DEF OpToRel
<1> HIDE DEF Less
<1>3. PICK x \in S : \A y \in S : ~(<<y, x>> \in Less)
  BY <1>1, WFMin
<1>4. ASSUME NEW y \in S PROVE x <= y
  <2>1. x \in Nat /\ y \in Nat /\ ~(y < x)
    BY <1>2, <1>3
  <2> QED
    BY <2>1
<1> QED
  BY <1>4

LEMMA NotAfter == \A x, y \in Nat : x < y => ~(y < x)
OBVIOUS

\* The prompts of a history by their places.
LEMMA PromptsAre ==
  ASSUME NEW h
  PROVE  \A t : t \in PromptsOf(h) <=> \E i : IsPrompt(h, i) /\ h[i].turn = t
  BY DEF PromptsOf, IsPrompt

\* Only who wrote a path matters for its content.
LEMMA WrittenSame ==
  ASSUME NEW v, NEW w, NEW A, NEW B, NEW p \in Paths,
         \A t : (t \in A /\ p \in v[t]) <=> (t \in B /\ p \in w[t])
  PROVE  Written(v, A)[p] = Written(w, B)[p]
<1>1. {t \in A : p \in v[t]} = {t \in B : p \in w[t]}
  OBVIOUS
<1> QED
  BY <1>1 DEF Written

LEMMA WrittenEqual ==
  ASSUME NEW v, NEW w, NEW A, NEW B,
         \A p \in Paths : \A t : (t \in A /\ p \in v[t]) <=> (t \in B /\ p \in w[t])
  PROVE  Written(v, A) = Written(w, B)
<1>1. \A p \in Paths : {t \in A : p \in v[t]} = {t \in B : p \in w[t]}
  OBVIOUS
<1> QED
  BY <1>1 DEF Written

\* The newest of a set that has a greatest element.
LEMMA NewestIs ==
  ASSUME NEW S \in SUBSET Nat, NEW m \in S, \A u \in S : u <= m
  PROVE  Newest(S) = m
<1>1. \E t \in S : \A u \in S : u <= t
  OBVIOUS
<1>2. PICK t : t = CHOOSE x \in S : \A u \in S : u <= x
  OBVIOUS
<1>3. t \in S /\ \A u \in S : u <= t
  BY <1>1, <1>2
<1>4. t = m
  BY <1>3
<1> QED
  BY <1>2, <1>4 DEF Newest

\* What turns below m wrote is older than m.
LEMMA NewestBelow ==
  ASSUME NEW n \in Nat, NEW m \in 1..n, NEW S \in SUBSET (1..n), \A u \in S : u < m
  PROVE  Newest(S) \in 0..n /\ Newest(S) < m
<1>1. CASE S = {}
  BY <1>1 DEF Newest
<1>2. CASE S # {}
  <2>1. PICK T : T = {n - u : u \in S}
    OBVIOUS
  <2>2. T \in SUBSET Nat /\ T # {}
    <3>1. \A u \in S : n - u \in Nat
      OBVIOUS
    <3>2. T # {}
      BY <1>2, <2>1
    <3> QED
      BY <2>1, <3>1, <3>2
  <2>3. PICK x \in T : \A y \in T : x <= y
    BY <2>2, LeastNatural
  <2>4. PICK t \in S : x = n - t
    BY <2>1
  <2>5. \A u \in S : u <= t
    <3> SUFFICES ASSUME NEW u \in S PROVE u <= t
      OBVIOUS
    <3>1. n - t <= n - u
      BY <2>1, <2>3, <2>4
    <3> QED
      BY <3>1
  <2>6. Newest(S) = t
    BY <2>5, NewestIs
  <2> QED
    BY <2>6
<1> QED
  BY <1>1, <1>2

\* A prompt and its start at the end of a history of older turns.
LEMMA StartAdded ==
  ASSUME NEW S, NEW h \in Seq(S), NEW w, NEW t \in Nat, Sorted(h), Complete(h, w, {}),
         PromptsOf(h) \subseteq Nat, \A u \in PromptsOf(h) : u < t, w[t] = {},
         NEW g, g = h \o <<Undo!Prompt(t), Undo!Start(t, Written(w, PromptsOf(h)))>>
  PROVE  /\ Sorted(g) /\ Complete(g, w, {t})
         /\ PromptsOf(g) = PromptsOf(h) \cup {t}
<1>1. PICK n, a, b : n = Len(h) /\ a = Undo!Prompt(t) /\ b = Undo!Start(t, Written(w, PromptsOf(h)))
  OBVIOUS
<1>2. /\ a.kind = "prompt" /\ a.turn = t
      /\ b.kind = "start" /\ b.turn = t /\ b.snap = Written(w, PromptsOf(h))
  BY <1>1 DEF Undo!Prompt, Undo!Start
<1>3. /\ n \in Nat /\ DOMAIN h = 1..n /\ DOMAIN g = 1..(n + 2)
      /\ \A i \in 1..n : g[i] = h[i]
      /\ g[n + 1] = a /\ g[n + 2] = b
  <2>1. g = h \o <<a, b>>
    BY <1>1
  <2>2. n \in Nat /\ DOMAIN h = 1..n /\ DOMAIN g = 1..(n + 2)
    BY <1>1, <2>1
  <2> QED
    BY <1>1, <2>1, <2>2
<1>4. \A i \in DOMAIN g : (i \in DOMAIN h /\ g[i] = h[i]) \/ i = n + 1 \/ i = n + 2
  BY <1>3
<1>5. \A i \in DOMAIN h : i \in DOMAIN g /\ g[i] = h[i]
  BY <1>3
<1>6. n + 1 \in DOMAIN g /\ n + 2 \in DOMAIN g
  BY <1>3
<1>7. \A i \in DOMAIN h : h[i].turn \in PromptsOf(h) /\ h[i].turn \in Nat /\ h[i].turn < t
  BY DEF Complete
<1>8. PromptsOf(g) = PromptsOf(h) \cup {t}
  <2>1. ASSUME NEW u PROVE u \in PromptsOf(g) <=> u \in PromptsOf(h) \/ u = t
    <3>1. u \in PromptsOf(g) <=> \E i : IsPrompt(g, i) /\ g[i].turn = u
      BY PromptsAre
    <3>2. u \in PromptsOf(h) <=> \E i : IsPrompt(h, i) /\ h[i].turn = u
      BY PromptsAre
    <3>3. u \in PromptsOf(g) => u \in PromptsOf(h) \/ u = t
      BY <1>2, <1>3, <1>4, <3>1, <3>2 DEF IsPrompt
    <3>4. u \in PromptsOf(h) => u \in PromptsOf(g)
      BY <1>5, <3>1, <3>2 DEF IsPrompt
    <3>5. u = t => u \in PromptsOf(g)
      BY <1>2, <1>3, <1>6, <3>1 DEF IsPrompt
    <3> QED
      BY <3>3, <3>4, <3>5
  <2> QED
    BY <2>1
<1>9. Sorted(g)
  <2> SUFFICES ASSUME NEW i \in DOMAIN g, NEW j \in DOMAIN g, i < j
               PROVE  /\ g[i].turn <= g[j].turn
                      /\ g[i].turn = g[j].turn =>
                            g[i].kind # g[j].kind /\ g[i].kind # "patch" /\ g[j].kind # "prompt"
    BY DEF Sorted
  <2>1. CASE j \in DOMAIN h
    <3>1. i \in DOMAIN h
      BY <1>3, <2>1
    <3> QED
      BY <1>5, <2>1, <3>1 DEF Sorted
  <2>2. CASE j \notin DOMAIN h /\ i \in DOMAIN h
    <3>1. g[j].turn = t /\ g[i].turn < t /\ g[i].turn \in Nat
      BY <1>2, <1>3, <1>4, <1>5, <1>7, <2>2
    <3> QED
      BY <3>1
  <2>3. CASE j \notin DOMAIN h /\ i \notin DOMAIN h
    <3>1. i = n + 1 /\ j = n + 2
      BY <1>3, <1>4, <2>3
    <3> QED
      BY <1>2, <1>3, <3>1
  <2> QED
    BY <2>1, <2>2, <2>3
<1>10. Complete(g, w, {t})
  <2>1. \A i \in DOMAIN g : g[i].kind \in {"prompt", "start", "patch"} /\ g[i].turn \in PromptsOf(g)
    BY <1>2, <1>3, <1>4, <1>7, <1>8 DEF Complete
  <2>2. \A u \in PromptsOf(g) : \E i : IsStart(g, i) /\ g[i].turn = u
    <3> SUFFICES ASSUME NEW u \in PromptsOf(g) PROVE \E i : IsStart(g, i) /\ g[i].turn = u
      OBVIOUS
    <3>1. CASE u = t
      BY <1>2, <1>3, <1>6, <3>1 DEF IsStart
    <3>2. CASE u \in PromptsOf(h)
      <4>1. PICK i : IsStart(h, i) /\ h[i].turn = u
        BY <3>2 DEF Complete
      <4> QED
        BY <1>5, <4>1 DEF IsStart
    <3> QED
      BY <1>8, <3>1, <3>2
  <2>3. \A u \in PromptsOf(g) \ {t} : w[u] # {} => \E i : IsPatch(g, i) /\ g[i].turn = u
    <3> SUFFICES ASSUME NEW u \in PromptsOf(h), w[u] # {} PROVE \E i : IsPatch(g, i) /\ g[i].turn = u
      BY <1>8
    <3>1. PICK i : IsPatch(h, i) /\ h[i].turn = u
      BY DEF Complete
    <3> QED
      BY <1>5, <3>1 DEF IsPatch
  <2>4. \A i : IsPatch(g, i) => IsPatch(h, i) /\ g[i] = h[i]
    BY <1>2, <1>3, <1>4 DEF IsPatch
  <2>5. \A i : IsPatch(g, i) => g[i].turn \notin {t} /\ g[i].paths = w[g[i].turn]
    <3>1. \A i : IsPatch(h, i) => h[i].turn < t /\ h[i].turn \in Nat /\ h[i].paths = w[h[i].turn]
      BY <1>7 DEF Complete, IsPatch
    <3> SUFFICES ASSUME NEW i, IsPatch(g, i) PROVE g[i].turn # t /\ g[i].paths = w[g[i].turn]
      OBVIOUS
    <3>2. IsPatch(h, i) /\ g[i] = h[i]
      BY <2>4
    <3>3. h[i].turn < t /\ h[i].turn \in Nat /\ h[i].paths = w[h[i].turn]
      BY <3>1, <3>2
    <3>4. h[i].turn # t
      BY <3>3
    <3> QED
      BY <3>2, <3>3, <3>4
  <2>6. ASSUME NEW i, IsStart(g, i)
        PROVE  g[i].snap = Written(w, Before(PromptsOf(g), g[i].turn))
    <3>1. CASE i \in DOMAIN h
      <4>1. IsStart(h, i) /\ g[i] = h[i] /\ g[i].turn < t /\ g[i].turn \in Nat
        BY <1>5, <1>7, <2>6, <3>1 DEF IsStart
      <4>2. Before(PromptsOf(g), g[i].turn) = Before(PromptsOf(h), g[i].turn)
        <5>1. PICK x \in Nat : x = g[i].turn /\ x < t
          BY <4>1
        <5>2. ~(t < x)
          BY <5>1, NotAfter
        <5>3. {u \in PromptsOf(g) : u < x} = {u \in PromptsOf(h) : u < x}
          BY <1>8, <5>2
        <5> QED
          BY <5>1, <5>3 DEF Before
      <4> QED
        BY <4>1, <4>2 DEF Complete
    <3>2. CASE i \notin DOMAIN h
      <4>1. i = n + 2
        BY <1>2, <1>3, <1>4, <2>6, <3>2 DEF IsStart
      <4>2. Before(PromptsOf(g), t) = PromptsOf(h)
        <5>1. ~(t < t)
          OBVIOUS
        <5> QED
          BY <1>8, <5>1 DEF Before
      <4> QED
        BY <1>2, <1>3, <4>1, <4>2
    <3> QED
      BY <3>1, <3>2
  <2> QED
    BY <2>1, <2>2, <2>3, <2>5, <2>6 DEF Complete
<1> QED
  BY <1>8, <1>9, <1>10

\* What the turns 1..n wrote, before and after turn t writes the paths ps.
WroteMore(v, w, t, ps, n) ==
    /\ n \in Nat /\ t \in 1..n /\ ps \subseteq Paths
    /\ w \in [1..n -> SUBSET Paths] /\ v = [w EXCEPT ![t] = @ \cup ps]

\* The open turn writes some paths.
LEMMA WritesAdded ==
  ASSUME NEW S, NEW h \in Seq(S), NEW n, NEW t, NEW w, NEW ps, NEW v, WroteMore(v, w, t, ps, n),
         Complete(h, w, {t}), PromptsOf(h) \subseteq 1..n, \A u \in PromptsOf(h) : u <= t
  PROVE  Complete(h, v, {t})
<1> n \in Nat /\ t \in 1..n /\ ps \subseteq Paths /\ w \in [1..n -> SUBSET Paths] /\ v = [w EXCEPT ![t] = @ \cup ps]
  BY DEF WroteMore
<1>1. \A u \in 1..n : u # t => v[u] = w[u]
  OBVIOUS
<1>2. \A u \in PromptsOf(h) : u \in 1..n
  OBVIOUS
<1>3. \A u \in PromptsOf(h) \ {t} : v[u] = w[u]
  BY <1>1, <1>2
<1>4. \A i : IsPatch(h, i) => h[i].turn \notin {t} /\ h[i].paths = v[h[i].turn]
  <2> SUFFICES ASSUME NEW i, IsPatch(h, i)
               PROVE  h[i].turn \notin {t} /\ h[i].paths = v[h[i].turn]
    OBVIOUS
  <2>1. h[i].turn \in PromptsOf(h) /\ h[i].turn \notin {t} /\ h[i].paths = w[h[i].turn]
    BY DEF Complete, IsPatch
  <2> QED
    BY <1>3, <2>1
<1>5. ASSUME NEW i, IsStart(h, i)
      PROVE  h[i].snap = Written(v, Before(PromptsOf(h), h[i].turn))
  <2>1. PICK x : x = h[i].turn
    OBVIOUS
  <2>2. x \in PromptsOf(h) /\ x <= t /\ x \in 1..n
    BY <1>2, <1>5, <2>1 DEF Complete, IsStart
  <2>3. \A u \in Before(PromptsOf(h), x) : v[u] = w[u]
    <3> SUFFICES ASSUME NEW u \in PromptsOf(h), u < x PROVE v[u] = w[u]
      BY DEF Before
    <3>1. u \in 1..n /\ u # t
      BY <1>2, <2>2
    <3> QED
      BY <1>1, <3>1
  <2>4. Written(w, Before(PromptsOf(h), x)) = Written(v, Before(PromptsOf(h), x))
    <3>1. PICK B : B = Before(PromptsOf(h), x)
      OBVIOUS
    <3>2. \A p \in Paths : {u \in B : p \in v[u]} = {u \in B : p \in w[u]}
      BY <2>3, <3>1
    <3> QED
      BY <3>1, <3>2 DEF Written
  <2> QED
    BY <1>5, <2>1, <2>4 DEF Complete
<1>6. /\ \A i \in DOMAIN h : h[i].kind \in {"prompt", "start", "patch"}
      /\ \A i \in DOMAIN h : h[i].turn \in PromptsOf(h)
      /\ \A u \in PromptsOf(h) : \E i : IsStart(h, i) /\ h[i].turn = u
      /\ \A u \in PromptsOf(h) \ {t} : w[u] # {} => \E i : IsPatch(h, i) /\ h[i].turn = u
  BY DEF Complete
<1>7. \A u \in PromptsOf(h) \ {t} : v[u] # {} => \E i : IsPatch(h, i) /\ h[i].turn = u
  BY <1>3, <1>6
<1> QED
  BY <1>4, <1>5, <1>6, <1>7 DEF Complete

\* The files after the newest turn has written some paths.
LEMMA WrittenNow ==
  ASSUME NEW n, NEW t, NEW w, NEW ps, NEW v, WroteMore(v, w, t, ps, n),
         NEW ts \in SUBSET (1..n), t \in ts, \A u \in ts : u <= t
  PROVE  /\ Written(v, ts) = [p \in Paths |-> IF p \in ps THEN t ELSE Written(w, ts)[p]]
         /\ Written(v, Before(ts, t)) = Written(w, Before(ts, t))
<1> n \in Nat /\ t \in 1..n /\ ps \subseteq Paths /\ w \in [1..n -> SUBSET Paths] /\ v = [w EXCEPT ![t] = @ \cup ps]
  BY DEF WroteMore
<1>1. (\A u \in 1..n : u # t => v[u] = w[u]) /\ v[t] = w[t] \cup ps
  OBVIOUS
<1>2. ASSUME NEW p \in Paths
      PROVE  Written(v, ts)[p] = IF p \in ps THEN t ELSE Written(w, ts)[p]
  <2>1. CASE p \in ps
    <3>1. PICK B : B = {u \in ts : p \in v[u]}
      OBVIOUS
    <3>2. B \in SUBSET Nat /\ t \in B /\ \A u \in B : u <= t
      <4>1. \A u \in ts : u \in Nat
        OBVIOUS
      <4>2. t \in B
        BY <1>1, <2>1, <3>1
      <4> QED
        BY <3>1, <4>1, <4>2
    <3>3. Newest(B) = t
      BY <3>2, NewestIs
    <3>4. Written(v, ts)[p] = Newest(B)
      BY <3>1 DEF Written
    <3> QED
      BY <2>1, <3>3, <3>4
  <2>2. CASE p \notin ps
    <3>1. \A u : (u \in ts /\ p \in v[u]) <=> (u \in ts /\ p \in w[u])
      BY <1>1, <2>2
    <3>2. {u \in ts : p \in v[u]} = {u \in ts : p \in w[u]}
      BY <3>1
    <3>3. Written(v, ts)[p] = Written(w, ts)[p]
      BY <3>2 DEF Written
    <3> QED
      BY <2>2, <3>3
  <2> QED
    BY <2>1, <2>2
<1>3. Written(v, ts) = [p \in Paths |-> IF p \in ps THEN t ELSE Written(w, ts)[p]]
  <2>1. Written(v, ts) = [p \in Paths |-> Written(v, ts)[p]]
    BY DEF Written
  <2> QED
    BY <1>2, <2>1
<1>4. \A u \in Before(ts, t) : v[u] = w[u]
  BY <1>1 DEF Before
<1>5. Written(v, Before(ts, t)) = Written(w, Before(ts, t))
  <2>1. \A p \in Paths : {u \in Before(ts, t) : p \in v[u]} = {u \in Before(ts, t) : p \in w[u]}
    BY <1>4
  <2> QED
    BY <2>1 DEF Written
<1> QED
  BY <1>3, <1>5

\* What differs from the snapshot of the newest turn is what that turn wrote.
LEMMA ChangedPaths ==
  ASSUME NEW n \in Nat, NEW t \in 1..n, NEW w \in [1..n -> SUBSET Paths],
         NEW ts \in SUBSET (1..n), t \in ts, \A u \in ts : u <= t
  PROVE  \A p \in Paths : Written(w, ts)[p] # Written(w, Before(ts, t))[p] <=> p \in w[t]
<1> SUFFICES ASSUME NEW p \in Paths
             PROVE  Written(w, ts)[p] # Written(w, Before(ts, t))[p] <=> p \in w[t]
  OBVIOUS
<1>1. CASE p \in w[t]
  <2>1. PICK B : B = {u \in ts : p \in w[u]}
    OBVIOUS
  <2>2. PICK C : C = {u \in Before(ts, t) : p \in w[u]}
    OBVIOUS
  <2>3. B \in SUBSET Nat /\ t \in B /\ \A u \in B : u <= t
    <3>1. \A u \in ts : u \in Nat
      OBVIOUS
    <3> QED
      BY <1>1, <2>1, <3>1
  <2>4. C \in SUBSET (1..n) /\ \A u \in C : u < t
    BY <2>2 DEF Before
  <2>5. Newest(B) = t
    BY <2>3, NewestIs
  <2>6. Newest(C) \in 0..n /\ Newest(C) < t
    BY <2>4, NewestBelow
  <2>7. Written(w, ts)[p] = Newest(B) /\ Written(w, Before(ts, t))[p] = Newest(C)
    BY <2>1, <2>2 DEF Written
  <2> QED
    BY <1>1, <2>5, <2>6, <2>7
<1>2. CASE p \notin w[t]
  <2>1. \A u : (u \in ts /\ p \in w[u]) <=> (u \in Before(ts, t) /\ p \in w[u])
    <3>1. \A u \in ts : u < t \/ u = t
      OBVIOUS
    <3> QED
      BY <1>2, <3>1 DEF Before
  <2> QED
    BY <1>2, <2>1, WrittenSame
<1> QED
  BY <1>1, <1>2

\* The open turn ends without a patch, because it wrote nothing.
LEMMA EndedUnchanged ==
  ASSUME NEW h, NEW w, NEW t, Complete(h, w, {t}), w[t] = {}
  PROVE  Complete(h, w, {})
<1>1. \A u \in PromptsOf(h) : w[u] # {} => u \in PromptsOf(h) \ {t}
  OBVIOUS
<1> QED
  BY <1>1 DEF Complete

Patched(g, h, w, t) == \E f : g = Append(h, Undo!Patch(t, f, w[t]))

\* The open turn ends with a patch.
LEMMA PatchAdded ==
  ASSUME NEW S, NEW h \in Seq(S), NEW w, NEW t \in PromptsOf(h),
         Sorted(h), Complete(h, w, {t}), PromptsOf(h) \subseteq Nat, \A u \in PromptsOf(h) : u <= t,
         NEW g, Patched(g, h, w, t)
  PROVE  Sorted(g) /\ Complete(g, w, {}) /\ PromptsOf(g) = PromptsOf(h)
<1> PICK f : g = Append(h, Undo!Patch(t, f, w[t]))
  BY DEF Patched
<1>1. PICK n, a : n = Len(h) /\ a = Undo!Patch(t, f, w[t])
  OBVIOUS
<1>2. a.kind = "patch" /\ a.turn = t /\ a.paths = w[t]
  BY <1>1 DEF Undo!Patch
<1>3. /\ n \in Nat /\ DOMAIN h = 1..n /\ DOMAIN g = 1..(n + 1)
      /\ \A i \in 1..n : g[i] = h[i]
      /\ g[n + 1] = a
  BY <1>1
<1>4. \A i \in DOMAIN g : (i \in DOMAIN h /\ g[i] = h[i]) \/ i = n + 1
  BY <1>3
<1>5. \A i \in DOMAIN h : i \in DOMAIN g /\ g[i] = h[i]
  BY <1>3
<1>6. n + 1 \in DOMAIN g
  BY <1>3
<1>7. \A i \in DOMAIN h : h[i].turn \in PromptsOf(h) /\ h[i].turn <= t
  BY DEF Complete
<1>8. PromptsOf(g) = PromptsOf(h)
  <2>1. ASSUME NEW u PROVE u \in PromptsOf(g) <=> u \in PromptsOf(h)
    <3>1. u \in PromptsOf(g) <=> \E i : IsPrompt(g, i) /\ g[i].turn = u
      BY PromptsAre
    <3>2. u \in PromptsOf(h) <=> \E i : IsPrompt(h, i) /\ h[i].turn = u
      BY PromptsAre
    <3>3. \A i : IsPrompt(g, i) => IsPrompt(h, i) /\ g[i] = h[i]
      BY <1>2, <1>3, <1>4 DEF IsPrompt
    <3>4. \A i : IsPrompt(h, i) => IsPrompt(g, i) /\ g[i] = h[i]
      BY <1>5 DEF IsPrompt
    <3> QED
      BY <3>1, <3>2, <3>3, <3>4
  <2> QED
    BY <2>1
<1>9. Sorted(g)
  <2> SUFFICES ASSUME NEW i \in DOMAIN g, NEW j \in DOMAIN g, i < j
               PROVE  /\ g[i].turn <= g[j].turn
                      /\ g[i].turn = g[j].turn =>
                            g[i].kind # g[j].kind /\ g[i].kind # "patch" /\ g[j].kind # "prompt"
    BY DEF Sorted
  <2>1. i \in DOMAIN h /\ g[i] = h[i]
    BY <1>3
  <2>2. CASE j \in DOMAIN h
    BY <1>5, <2>1, <2>2 DEF Sorted
  <2>3. CASE j = n + 1
    <3>1. g[j].turn = t /\ g[j].kind = "patch" /\ g[i].turn <= t
      BY <1>2, <1>3, <1>7, <2>1, <2>3
    <3>2. g[i].turn = t => g[i].kind # "patch"
      BY <2>1 DEF Complete, IsPatch
    <3> QED
      BY <3>1, <3>2
  <2> QED
    BY <1>4, <2>2, <2>3
<1>10. Complete(g, w, {})
  <2>1. \A i \in DOMAIN g : g[i].kind \in {"prompt", "start", "patch"} /\ g[i].turn \in PromptsOf(g)
    BY <1>2, <1>3, <1>4, <1>7, <1>8 DEF Complete
  <2>2. \A i : /\ IsStart(h, i) <=> IsStart(g, i)
               /\ IsStart(h, i) => g[i] = h[i]
    BY <1>2, <1>3, <1>4, <1>5 DEF IsStart
  <2>3. \A i : IsPatch(g, i) <=> IsPatch(h, i) \/ i = n + 1
    BY <1>2, <1>3, <1>4, <1>5, <1>6 DEF IsPatch
  <2>4. \A i : IsPatch(h, i) => g[i] = h[i]
    BY <1>5 DEF IsPatch
  <2>5. \A u \in PromptsOf(g) : \E i : IsStart(g, i) /\ g[i].turn = u
    BY <1>8, <2>2 DEF Complete
  <2>6. \A u \in PromptsOf(g) : w[u] # {} => \E i : IsPatch(g, i) /\ g[i].turn = u
    <3> SUFFICES ASSUME NEW u \in PromptsOf(h), w[u] # {} PROVE \E i : IsPatch(g, i) /\ g[i].turn = u
      BY <1>8
    <3>1. CASE u = t
      BY <1>2, <1>3, <2>3, <3>1
    <3>2. CASE u # t
      <4>1. PICK i : IsPatch(h, i) /\ h[i].turn = u
        BY <3>2 DEF Complete
      <4> QED
        BY <2>3, <2>4, <4>1
    <3> QED
      BY <3>1, <3>2
  <2>7. \A i : IsPatch(g, i) => g[i].paths = w[g[i].turn]
    <3> SUFFICES ASSUME NEW i, IsPatch(g, i) PROVE g[i].paths = w[g[i].turn]
      OBVIOUS
    <3>1. CASE i = n + 1
      BY <1>2, <1>3, <3>1
    <3>2. CASE IsPatch(h, i)
      <4>1. g[i] = h[i] /\ h[i].paths = w[h[i].turn]
        BY <2>4, <3>2 DEF Complete
      <4> QED
        BY <4>1
    <3> QED
      BY <2>3, <3>1, <3>2
  <2>8. \A i : IsStart(g, i) => g[i].snap = Written(w, Before(PromptsOf(g), g[i].turn))
    BY <1>8, <2>2 DEF Complete
  <2> QED
    BY <2>1, <2>5, <2>6, <2>7, <2>8 DEF Complete
<1> QED
  BY <1>8, <1>9, <1>10

\* The history before the prompt of turn t at place k.
LEMMA Cut ==
  ASSUME NEW S, NEW h \in Seq(S), NEW w, NEW k, IsPrompt(h, k), Sorted(h), Complete(h, w, {}),
         PromptsOf(h) \subseteq Nat, NEW g, g = SubSeq(h, 1, k - 1)
  PROVE  /\ Sorted(g) /\ Complete(g, w, {}) /\ \E T : g \in Seq(T)
         /\ PromptsOf(g) = Before(PromptsOf(h), h[k].turn)
<1>1. PICK t : t = h[k].turn
  OBVIOUS
<1>2. /\ Len(h) \in Nat /\ DOMAIN h = 1..Len(h) /\ k \in 1..Len(h)
      /\ g \in Seq(S) /\ DOMAIN g = 1..(k - 1)
      /\ \A i \in DOMAIN g : g[i] = h[i] /\ i \in DOMAIN h
  BY DEF IsPrompt
<1>3. \A i \in DOMAIN h : h[i].turn \in PromptsOf(h) /\ h[i].turn \in Nat
  BY DEF Complete
<1>4. k \in DOMAIN h /\ h[k].kind = "prompt" /\ t \in Nat
  BY <1>1, <1>3 DEF IsPrompt
<1>5. \A i \in DOMAIN h : i \in DOMAIN g <=> i < k
  BY <1>2
<1>6. \A i \in DOMAIN h : i < k => h[i].turn < t
  <2> SUFFICES ASSUME NEW i \in DOMAIN h, i < k PROVE h[i].turn < t
    OBVIOUS
  <2>1. h[i].turn <= t /\ h[i].turn # t
    BY <1>1, <1>4 DEF Sorted
  <2> QED
    BY <1>3, <1>4, <2>1
<1>7. \A i \in DOMAIN h : ~(i < k) => ~(h[i].turn < t)
  <2> SUFFICES ASSUME NEW i \in DOMAIN h, ~(i < k) PROVE ~(h[i].turn < t)
    OBVIOUS
  <2>1. CASE i = k
    BY <1>1, <1>4, <2>1
  <2>2. CASE k < i
    <3>1. t <= h[i].turn
      BY <1>1, <1>4, <2>2 DEF Sorted
    <3> QED
      BY <1>3, <1>4, <3>1
  <2> QED
    BY <1>2, <2>1, <2>2
<1>8. \A i \in DOMAIN h : i \in DOMAIN g <=> h[i].turn < t
  BY <1>5, <1>6, <1>7
<1>9. \A i : /\ IsPrompt(g, i) <=> IsPrompt(h, i) /\ h[i].turn < t
             /\ IsStart(g, i) <=> IsStart(h, i) /\ h[i].turn < t
             /\ IsPatch(g, i) <=> IsPatch(h, i) /\ h[i].turn < t
  BY <1>2, <1>8 DEF IsPrompt, IsStart, IsPatch
<1>10. PromptsOf(g) = Before(PromptsOf(h), t)
  <2>1. ASSUME NEW u PROVE u \in PromptsOf(g) <=> u \in PromptsOf(h) /\ u < t
    <3>1. u \in PromptsOf(g) <=> \E i : IsPrompt(g, i) /\ g[i].turn = u
      BY PromptsAre
    <3>2. u \in PromptsOf(h) <=> \E i : IsPrompt(h, i) /\ h[i].turn = u
      BY PromptsAre
    <3>3. \A i : IsPrompt(g, i) => g[i] = h[i]
      BY <1>2 DEF IsPrompt
    <3> QED
      BY <1>9, <3>1, <3>2, <3>3
  <2> QED
    BY <2>1 DEF Before
<1>11. Sorted(g)
  BY <1>2 DEF Sorted
<1>12. Complete(g, w, {})
  <2>1. \A i \in DOMAIN g : g[i].kind \in {"prompt", "start", "patch"} /\ g[i].turn \in PromptsOf(g)
    <3> SUFFICES ASSUME NEW i \in DOMAIN g
                 PROVE  g[i].kind \in {"prompt", "start", "patch"} /\ g[i].turn \in PromptsOf(g)
      OBVIOUS
    <3>1. g[i] = h[i] /\ i \in DOMAIN h /\ h[i].turn < t
      BY <1>2, <1>8
    <3> QED
      BY <1>3, <1>10, <3>1 DEF Complete, Before
  <2>2. \A i : (IsStart(g, i) => g[i] = h[i]) /\ (IsPatch(g, i) => g[i] = h[i])
    BY <1>2 DEF IsStart, IsPatch
  <2>3. \A u \in PromptsOf(g) : u \in PromptsOf(h) /\ u < t
    BY <1>10 DEF Before
  <2>4. \A u \in PromptsOf(g) : \E i : IsStart(g, i) /\ g[i].turn = u
    BY <1>9, <2>2, <2>3 DEF Complete
  <2>5. \A u \in PromptsOf(g) : w[u] # {} => \E i : IsPatch(g, i) /\ g[i].turn = u
    <3> SUFFICES ASSUME NEW u \in PromptsOf(g), w[u] # {} PROVE \E i : IsPatch(g, i) /\ g[i].turn = u
      OBVIOUS
    <3>1. PICK i : IsPatch(h, i) /\ h[i].turn = u
      BY <2>3 DEF Complete
    <3> QED
      BY <1>9, <2>2, <2>3, <3>1
  <2>6. \A i : IsPatch(g, i) => g[i].paths = w[g[i].turn]
    BY <1>9, <2>2 DEF Complete
  <2>7. ASSUME NEW i, IsStart(g, i)
        PROVE  g[i].snap = Written(w, Before(PromptsOf(g), g[i].turn))
    <3>1. IsStart(h, i) /\ g[i] = h[i] /\ h[i].turn < t
      BY <1>9, <2>2, <2>7
    <3>2. PICK x \in Nat : x = h[i].turn /\ x < t
      BY <1>3, <3>1 DEF IsStart
    <3>3. \A u \in PromptsOf(h) : u \in Nat
      OBVIOUS
    <3>4. Before(PromptsOf(g), x) = Before(PromptsOf(h), x)
      <4>1. \A u \in PromptsOf(h) : u < x => u < t
        BY <1>4, <3>2, <3>3
      <4> QED
        BY <1>10, <4>1 DEF Before
    <3>5. h[i].snap = Written(w, Before(PromptsOf(h), x))
      BY <3>1, <3>2 DEF Complete
    <3> QED
      BY <3>1, <3>2, <3>4, <3>5
  <2> QED
    BY <2>1, <2>4, <2>5, <2>6, <2>7 DEF Complete
<1> QED
  BY <1>1, <1>2, <1>10, <1>11, <1>12

LEMMA NothingLeft == \A a \in Nat : \A b \in 1..a : ~(b + 1 <= a) => a - b = 0
OBVIOUS

\* What undo collects after the prompt of turn t at place k: of every patch the
\* paths its turn wrote and the files that turn started from.
CollectedAfter(q, t, k) ==
    /\ IsPrompt(history, k) /\ history[k].turn = t
    /\ Len(q) = Len(history) - k /\ Len(q) \in Nat /\ DOMAIN q = 1..Len(q)
    /\ \A i \in 1..Len(q) :
          /\ k + i \in DOMAIN history /\ ~(history[k + i].turn < t)
          /\ IF history[k + i].kind = "patch"
             THEN /\ q[i].paths = wrote[history[k + i].turn]
                  /\ q[i].snap = Written(wrote, Before(PromptsOf(history), history[k + i].turn))
             ELSE q[i].paths = {}

LEMMA Collected ==
  ASSUME NEW S, history \in Seq(S), Sorted(history), Complete(history, wrote, {}),
         PromptsOf(history) \subseteq Nat, NEW t \in PromptsOf(history), children = <<>>,
         NEW q, q = Undo!Patches(t)
  PROVE  \E k : CollectedAfter(q, t, k)
<1>1. PICK k : k = Undo!target_idx(t)
  OBVIOUS
<1>2. k \in DOMAIN history /\ history[k].kind = "prompt" /\ history[k].turn = t
  <2>1. \E i : IsPrompt(history, i) /\ history[i].turn = t
    BY PromptsAre
  <2> QED
    BY <1>1, <2>1 DEF Undo!target_idx, IsPrompt
<1>3. Len(history) \in Nat /\ DOMAIN history = 1..Len(history) /\ k \in 1..Len(history)
  BY <1>2
<1>4. PICK A : A = Undo!After(t)
  OBVIOUS
<1>5. PICK n : n = Len(history) - k
  OBVIOUS
<1>6. /\ n \in Nat /\ A \in Seq(S) /\ Len(A) = n /\ DOMAIN A = 1..n
      /\ \A i \in 1..n : A[i] = history[k + i] /\ k + i \in DOMAIN history
  <2>1. A = SubSeq(history, k + 1, Len(history))
    BY <1>1, <1>4 DEF Undo!After
  <2>2. n \in Nat /\ n = Len(history) - (k + 1) + 1 /\ k + 1 \in 1..(Len(history) + 1)
    BY <1>3, <1>5
  <2>3. \A i \in (k + 1)..Len(history) : history[i] \in S
    BY <1>3
  <2>4. /\ A \in Seq(S) /\ Len(A) = n /\ DOMAIN A = 1..n
        /\ \A i \in 1..n : A[i] = history[k + i]
    <3>1. k + 1 \in Int /\ Len(history) \in Int
      BY <1>3
    <3>2. /\ A \in Seq(S)
          /\ Len(A) = IF k + 1 <= Len(history) THEN Len(history) - (k + 1) + 1 ELSE 0
          /\ \A i \in 1..(Len(history) - (k + 1) + 1) : A[i] = history[(k + 1) + i - 1]
      BY <2>1, <2>3, <3>1, SubSeqProperties
    <3>3. \A i \in 1..n : (k + 1) + i - 1 = k + i
      BY <1>3
    <3>4. Len(A) = n
      <4>1. CASE k + 1 <= Len(history)
        BY <2>2, <3>2, <4>1
      <4>2. CASE ~(k + 1 <= Len(history))
        <5>1. n = 0
          BY <1>3, <1>5, <4>2, NothingLeft
        <5>2. Len(A) = 0
          BY <3>2, <4>2
        <5> QED
          BY <5>1, <5>2
      <4> QED
        BY <4>1, <4>2
    <3> QED
      BY <2>2, <3>2, <3>3, <3>4
  <2>5. \A i \in 1..n : k + i \in DOMAIN history
    BY <1>3, <1>5
  <2> QED
    BY <2>2, <2>4, <2>5
<1>7. PICK starts : starts = {m \in Undo!ToSet(A) : m.kind = "start"}
  OBVIOUS
<1>8. \A m : m \in starts <=> \E i \in 1..n : m = history[k + i] /\ history[k + i].kind = "start"
  BY <1>6, <1>7 DEF Undo!ToSet
<1>9. PICK s : s = Undo!SessionPatches(t)
  OBVIOUS
<1>10. s = [i \in 1..n |->
              IF A[i].kind = "patch" /\ \E m \in starts : m.turn = A[i].turn
              THEN Undo!Patch(A[i].turn, (CHOOSE m \in starts : m.turn = A[i].turn).snap, A[i].paths)
              ELSE Undo!Patch(A[i].turn, Undo!NoSnapshot, {})]
  BY <1>4, <1>6, <1>7, <1>9 DEF Undo!SessionPatches
<1>11. \A i \in DOMAIN history : history[i].turn \in PromptsOf(history) /\ history[i].turn \in Nat
  BY DEF Complete
<1>12. \A i \in DOMAIN history : k < i => ~(history[i].turn < t)
  <2> SUFFICES ASSUME NEW i \in DOMAIN history, k < i PROVE ~(history[i].turn < t)
    OBVIOUS
  <2>1. t <= history[i].turn
    BY <1>2 DEF Sorted
  <2>2. PICK x \in Nat : x = history[i].turn
    BY <1>11
  <2>3. \A y \in Nat : y <= x => ~(x < y)
    OBVIOUS
  <2> QED
    BY <2>1, <2>2, <2>3
<1>13. \A i \in DOMAIN history : ~(i <= k) \/ ~(t < history[i].turn)
  <2> SUFFICES ASSUME NEW i \in DOMAIN history, i <= k PROVE ~(t < history[i].turn)
    OBVIOUS
  <2>1. i = k \/ i < k
    BY <1>3
  <2>2. history[i].turn <= t
    <3>1. CASE i = k
      BY <1>2, <3>1
    <3>2. CASE i < k
      BY <1>2, <3>2 DEF Sorted
    <3> QED
      BY <2>1, <3>1, <3>2
  <2>3. PICK x \in Nat : x = history[i].turn
    BY <1>11
  <2>4. \A y \in Nat : x <= y => ~(y < x)
    OBVIOUS
  <2> QED
    BY <2>2, <2>3, <2>4
<1>14. ASSUME NEW i \in 1..n, A[i].kind = "patch"
       PROVE  /\ s[i].paths = wrote[A[i].turn]
              /\ s[i].snap = Written(wrote, Before(PromptsOf(history), A[i].turn))
  <2>1. PICK x : x = A[i].turn
    OBVIOUS
  <2>2. IsPatch(history, k + i) /\ history[k + i] = A[i] /\ x \in PromptsOf(history)
    BY <1>6, <1>11, <1>14, <2>1 DEF IsPatch
  <2>3. PICK j : IsStart(history, j) /\ history[j].turn = x
    BY <2>2 DEF Complete
  <2>4. j \in DOMAIN history /\ history[j].kind = "start"
    BY <2>3 DEF IsStart
  <2>5. k < j
    <3>1. CASE x = t
      <4>1. j # k /\ ~(j < k)
        BY <1>2, <2>3, <2>4, <3>1 DEF Sorted
      <4> QED
        BY <1>3, <2>4, <4>1
    <3>2. CASE x # t
      <4>1. ~(x < t)
        <5>1. k + i \in DOMAIN history /\ k < k + i
          BY <1>3, <1>6
        <5> QED
          BY <1>12, <2>1, <2>2, <5>1
      <4>2. t < x
        <5>1. x \in Nat /\ t \in Nat
          BY <2>2
        <5> QED
          BY <3>2, <4>1, <5>1
      <4>3. ~(j <= k)
        BY <1>13, <2>3, <2>4, <4>2
      <4> QED
        BY <1>3, <2>4, <4>3
    <3> QED
      BY <3>1, <3>2
  <2>6. j - k \in 1..n /\ k + (j - k) = j
    BY <1>3, <1>5, <2>4, <2>5
  <2>7. history[j] \in starts
    BY <1>8, <2>4, <2>6
  <2>8. \A m \in starts : m.turn = x => m = history[j]
    <3> SUFFICES ASSUME NEW m \in starts, m.turn = x PROVE m = history[j]
      OBVIOUS
    <3>1. PICK l \in 1..n : m = history[k + l] /\ history[k + l].kind = "start"
      BY <1>8
    <3>2. PICK r : r = k + l
      OBVIOUS
    <3>3. r \in DOMAIN history /\ m = history[r] /\ history[r].kind = "start"
      BY <1>6, <3>1, <3>2
    <3>4. ~(r < j) /\ ~(j < r)
      BY <2>3, <2>4, <3>3 DEF Sorted
    <3>5. r = j
      BY <1>3, <2>4, <3>3, <3>4
    <3> QED
      BY <3>3, <3>5
  <2>9. (CHOOSE m \in starts : m.turn = x) = history[j]
    BY <2>3, <2>7, <2>8
  <2>10. s[i] = Undo!Patch(x, history[j].snap, A[i].paths)
    <3>1. \E m \in starts : m.turn = A[i].turn
      BY <2>1, <2>3, <2>7
    <3> QED
      BY <1>10, <1>14, <2>1, <2>9, <3>1
  <2>11. s[i].snap = history[j].snap /\ s[i].paths = A[i].paths
    BY <2>10 DEF Undo!Patch
  <2>12. history[j].snap = Written(wrote, Before(PromptsOf(history), x))
    BY <2>3 DEF Complete
  <2>13. A[i].paths = wrote[x]
    BY <2>1, <2>2 DEF Complete
  <2> QED
    BY <2>1, <2>11, <2>12, <2>13
<1>15. ASSUME NEW i \in 1..n, A[i].kind # "patch"
       PROVE  s[i].paths = {}
  <2>1. s[i] = Undo!Patch(A[i].turn, Undo!NoSnapshot, {})
    BY <1>10, <1>15
  <2> QED
    BY <2>1 DEF Undo!Patch
<1>16. q = s /\ Len(s) = n
  <2>1. q = s \o <<>>
    BY <1>9 DEF Undo!Patches
  <2>2. \E T : s \in Seq(T)
    <3>1. PICK T : T = {s[i] : i \in 1..n}
      OBVIOUS
    <3>2. DOMAIN s = 1..n
      BY <1>10
    <3>3. s = [i \in 1..n |-> s[i]]
      BY <1>10
    <3>4. s \in [1..n -> T]
      BY <3>1, <3>3
    <3> QED
      BY <1>6, <3>4, SeqDef
  <2>3. Len(s) = n
    BY <1>6, <1>10
  <2> QED
    BY <2>1, <2>2, <2>3
<1>17. \A i \in 1..n : ~(history[k + i].turn < t)
  <2>1. \A i \in 1..n : k + i \in DOMAIN history /\ k < k + i
    BY <1>3, <1>6
  <2> QED
    BY <1>12, <2>1
<1>18. \A i \in 1..Len(q) :
         /\ k + i \in DOMAIN history /\ ~(history[k + i].turn < t)
         /\ IF history[k + i].kind = "patch"
            THEN /\ q[i].paths = wrote[history[k + i].turn]
                 /\ q[i].snap = Written(wrote, Before(PromptsOf(history), history[k + i].turn))
            ELSE q[i].paths = {}
  BY <1>6, <1>14, <1>15, <1>16, <1>17
<1>19. IsPrompt(history, k) /\ history[k].turn = t
  BY <1>2 DEF IsPrompt
<1>20. Len(q) = Len(history) - k /\ Len(q) \in Nat /\ DOMAIN q = 1..Len(q)
  BY <1>5, <1>6, <1>10, <1>16
<1>21. CollectedAfter(q, t, k)
  BY <1>18, <1>19, <1>20 DEF CollectedAfter
<1> QED
  BY <1>21

\* What undo collects for turn t leaves the files of the turns before it, if the
\* files are those of the turns vs and all turns before t are among them.
LEMMA UndoneFiles ==
  ASSUME NEW S, history \in Seq(S), Sorted(history), Complete(history, wrote, {}),
         PromptsOf(history) \subseteq Nat, NEW t \in PromptsOf(history), children = <<>>,
         NEW vs, vs \subseteq PromptsOf(history), Before(PromptsOf(history), t) \subseteq vs,
         files = Written(wrote, vs),
         NEW q, q = Undo!Patches(t), NEW l, l = {i \in DOMAIN q : q[i].paths # {}}
  PROVE  \A p \in Paths :
            EndsWith(q, l, p, files, Written(wrote, Before(PromptsOf(history), t))[p])
<1>2. PICK P : P = PromptsOf(history)
  OBVIOUS
<1>3. PICK k :
         /\ IsPrompt(history, k) /\ history[k].turn = t
         /\ Len(q) = Len(history) - k /\ Len(q) \in Nat /\ DOMAIN q = 1..Len(q)
         /\ \A i \in 1..Len(q) :
               /\ k + i \in DOMAIN history /\ ~(history[k + i].turn < t)
               /\ IF history[k + i].kind = "patch"
                  THEN /\ q[i].paths = wrote[history[k + i].turn]
                       /\ q[i].snap = Written(wrote, Before(P, history[k + i].turn))
                  ELSE q[i].paths = {}
  <2>1. PICK k : CollectedAfter(q, t, k)
    BY Collected
  <2> QED
    BY <1>2, <2>1 DEF CollectedAfter
<1>4. /\ k \in DOMAIN history /\ history[k].kind = "prompt" /\ Len(history) \in Nat
      /\ DOMAIN history = 1..Len(history) /\ k \in 1..Len(history)
  BY <1>3 DEF IsPrompt
<1>5. \A i \in DOMAIN history : history[i].turn \in P /\ history[i].turn \in Nat
  BY <1>2 DEF Complete
\* every turn from t on that wrote something has its patch after the prompt of t
<1>6. ASSUME NEW u \in P, ~(u < t), wrote[u] # {}
      PROVE  \E i \in 1..Len(q) : history[k + i].kind = "patch" /\ history[k + i].turn = u
  <2>1. PICK j : IsPatch(history, j) /\ history[j].turn = u
    BY <1>2, <1>6 DEF Complete
  <2>2. j \in DOMAIN history /\ history[j].kind = "patch"
    BY <2>1 DEF IsPatch
  <2>3. ~(j < k)
    <3> SUFFICES ASSUME j < k PROVE FALSE
      OBVIOUS
    <3>1. u <= t /\ u # t
      BY <1>3, <1>4, <2>1, <2>2 DEF Sorted
    <3>2. u \in Nat /\ t \in Nat
      BY <1>2
    <3> QED
      BY <1>6, <3>1, <3>2
  <2>4. j # k
    BY <1>4, <2>2
  <2>5. j - k \in 1..Len(q) /\ k + (j - k) = j
    BY <1>3, <1>4, <2>2, <2>3, <2>4
  <2> QED
    BY <2>1, <2>2, <2>5
<1>7. \A p : \A i : i \in Having(q, l, p) <=> i \in 1..Len(q) /\ p \in q[i].paths
  BY <1>3 DEF Having
<1>8. ASSUME NEW p \in Paths, NEW i \in Having(q, l, p), \A j \in Having(q, l, p) : i <= j
      PROVE  q[i].snap[p] = Written(wrote, Before(P, t))[p]
  <2>1. /\ i \in 1..Len(q) /\ p \in q[i].paths
        /\ \A r \in 1..Len(q) : p \in q[r].paths => i <= r
    BY <1>7, <1>8
  <2>2. PICK x : x = history[k + i].turn
    OBVIOUS
  <2>3. /\ history[k + i].kind = "patch" /\ q[i].paths = wrote[x]
        /\ q[i].snap = Written(wrote, Before(P, x)) /\ k + i \in DOMAIN history /\ ~(x < t)
    BY <1>3, <2>1, <2>2
  <2>4. x \in P /\ x \in Nat /\ t \in Nat /\ \A u \in P : u \in Nat
    BY <1>2, <1>5, <2>2, <2>3
  <2>5. \A u : (u \in Before(P, x) /\ p \in wrote[u]) <=> (u \in Before(P, t) /\ p \in wrote[u])
    <3>1. \A u \in P : u < t => u < x
      BY <2>3, <2>4
    <3>2. ASSUME NEW u \in P, u < x, p \in wrote[u], ~(u < t)
          PROVE  FALSE
      <4>1. PICK r \in 1..Len(q) : history[k + r].kind = "patch" /\ history[k + r].turn = u
        BY <1>6, <3>2
      <4>2. q[r].paths = wrote[u] /\ k + r \in DOMAIN history
        BY <1>3, <4>1
      <4>3. i <= r
        BY <2>1, <3>2, <4>2
      <4>4. i # r
        BY <2>2, <2>4, <3>2, <4>1
      <4>5. k + i < k + r
        BY <1>3, <1>4, <2>1, <4>3, <4>4
      <4>6. x <= u
        BY <2>2, <2>3, <4>1, <4>2, <4>5 DEF Sorted
      <4> QED
        BY <2>4, <3>2, <4>6
    <3> QED
      BY <3>1, <3>2 DEF Before
  <2>6. Written(wrote, Before(P, x))[p] = Written(wrote, Before(P, t))[p]
    <3>1. {u \in Before(P, x) : p \in wrote[u]} = {u \in Before(P, t) : p \in wrote[u]}
      BY <2>5
    <3> QED
      BY <3>1 DEF Written
  <2> QED
    BY <2>3, <2>6
<1>9. ASSUME NEW p \in Paths, Having(q, l, p) = {}
      PROVE  files[p] = Written(wrote, Before(P, t))[p]
  <2>1. ASSUME NEW u \in P, p \in wrote[u] PROVE u < t
    <3> SUFFICES ASSUME ~(u < t) PROVE FALSE
      OBVIOUS
    <3>1. PICK r \in 1..Len(q) : history[k + r].kind = "patch" /\ history[k + r].turn = u
      BY <1>6, <2>1
    <3>2. p \in q[r].paths
      BY <1>3, <2>1, <3>1
    <3> QED
      BY <1>7, <1>9, <3>2
  <2>2. {u \in vs : p \in wrote[u]} = {u \in Before(P, t) : p \in wrote[u]}
    BY <1>2, <2>1 DEF Before
  <2> QED
    BY <2>2 DEF Written
<1> QED
  BY <1>2, <1>8, <1>9 DEF EndsWith

\* The prompts of a history that is cut, and of one that grows.
LEMMA CutPrompts ==
  ASSUME NEW S, NEW h \in Seq(S), NEW k \in DOMAIN h, NEW g, g = SubSeq(h, 1, k - 1)
  PROVE  g \in Seq(S) /\ PromptsOf(g) \subseteq PromptsOf(h)
<1>1. g \in Seq(S) /\ \A i \in DOMAIN g : i \in DOMAIN h /\ g[i] = h[i]
  OBVIOUS
<1>2. ASSUME NEW t \in PromptsOf(g) PROVE t \in PromptsOf(h)
  <2>1. PICK i : IsPrompt(g, i) /\ g[i].turn = t
    BY PromptsAre
  <2>2. IsPrompt(h, i) /\ h[i].turn = t
    BY <1>1, <2>1 DEF IsPrompt
  <2> QED
    BY <2>2, PromptsAre
<1> QED
  BY <1>1, <1>2

LEMMA GrownPrompts ==
  ASSUME NEW S, NEW h \in Seq(S), NEW m, NEW g, g = Append(h, m)
  PROVE  /\ \E T : g \in Seq(T)
         /\ PromptsOf(g) \subseteq PromptsOf(h) \cup (IF m.kind = "prompt" THEN {m.turn} ELSE {})
<1>1. g \in Seq(S \cup {m})
  <2>1. h \in Seq(S \cup {m})
    BY SeqMonotonic
  <2> QED
    BY <2>1
<1>2. DOMAIN h = 1..Len(h) /\ DOMAIN g = 1..(Len(h) + 1) /\ Len(h) \in Nat
      /\ g[Len(h) + 1] = m /\ \A i \in 1..Len(h) : g[i] = h[i]
  OBVIOUS
<1>3. \A i \in DOMAIN g : (i \in DOMAIN h /\ g[i] = h[i]) \/ g[i] = m
  BY <1>2
<1>4. ASSUME NEW t \in PromptsOf(g)
      PROVE  t \in PromptsOf(h) \/ (m.kind = "prompt" /\ t = m.turn)
  <2>1. PICK i : IsPrompt(g, i) /\ g[i].turn = t
    BY PromptsAre
  <2>2. CASE i \in DOMAIN h /\ g[i] = h[i]
    BY <2>1, <2>2, PromptsAre DEF IsPrompt
  <2>3. CASE g[i] = m
    BY <2>1, <2>3 DEF IsPrompt
  <2> QED
    BY <1>3, <2>1, <2>2, <2>3 DEF IsPrompt
<1> QED
  BY <1>1, <1>4

\* cleanup_revert_on_prompt looks at the top frame.
LEMMA PeekFollows ==
  ASSUME FollowInv, Undo!PeekFrontier
  PROVE  FollowInv'
<1>1. /\ phase = "idle" /\ phase' = "peeked" /\ turns < MaxTurns
      /\ frontier' = IF frames = <<>> THEN 0 ELSE frames[Len(frames)].turn
      /\ UNCHANGED <<files, history, children, frames, turns, wrote, handling>>
      /\ undoMarks' = {} => undoMarks = {} /\ handling = "none"
  BY DEF Undo!PeekFrontier, Undo!Top, Undo!handlerVars
<1>2. ShapeOK'
  BY <1>1 DEF FollowInv, ShapeOK
<1>3. ASSUME undoMarks' = {} PROVE FollowOK'
  <2>1. FollowOK /\ handling = "none"
    BY <1>1, <1>3 DEF FollowInv
  <2>2. FramesOK'
    BY <1>1, <2>1 DEF FollowOK, FramesOK, Below
  <2>3. FilesOK'
    BY <1>1, <2>1 DEF FollowOK, FilesOK, Below
  <2>4. HandlerOK'
    BY <1>1, <2>1 DEF HandlerOK
  <2>5. Complete(history, wrote, {})
    BY <1>1, <2>1 DEF FollowOK
  <2> QED
    BY <1>1, <2>1, <2>2, <2>3, <2>4, <2>5 DEF FollowOK
<1> QED
  BY <1>2, <1>3 DEF FollowInv

\* delete_messages_after: what stays of the history is what was visible.
LEMMA DeleteFollows ==
  ASSUME FollowInv, NEW ok \in BOOLEAN, Undo!DeleteUndone(ok)
  PROVE  FollowInv'
<1>1. PICK S : history \in Seq(S)
  BY DEF FollowInv, ShapeOK
<1>2. PICK T : frames \in Seq(T)
  BY DEF FollowInv, ShapeOK
<1>3. /\ phase = "peeked" /\ UNCHANGED <<files, children, frames, turns, wrote, handling>>
      /\ turns < MaxTurns /\ PromptsOf(history) \subseteq 1..turns
  BY DEF Undo!DeleteUndone, Undo!handlerVars, FollowInv, ShapeOK
<1>4. PICK n : n = Len(frames)
  OBVIOUS
<1>5. /\ n \in Nat /\ DOMAIN frames = 1..n /\ (frames = <<>> => n = 0)
      /\ (frames # <<>> => n \in DOMAIN frames /\ n # 0 /\ n + 1 # 1 /\ n + 1 - 1 = n)
  BY <1>2, <1>4
<1>6. \A u \in PromptsOf(history) : u # 0 /\ u \in Nat
  BY <1>3
<1>7. FollowOK => /\ frontier = IF frames = <<>> THEN 0 ELSE frames[n].turn
                  /\ frames # <<>> => frames[n].turn \in PromptsOf(history)
                  /\ Sorted(history) /\ Complete(history, wrote, {}) /\ children = <<>>
                  /\ handling = "none" /\ files = Written(wrote, Below(n + 1))
  BY <1>3, <1>4, <1>5 DEF FollowOK, FramesOK, FilesOK, HandlerOK
<1>8. CASE frontier \in PromptsOf(history) /\ ok
  <2>1. PICK t, k : t = frontier /\ k = Undo!target_idx(t)
    OBVIOUS
  <2>2. phase' = "cleaning" /\ history' = SubSeq(history, 1, k - 1) /\ undoMarks' = undoMarks
    BY <1>8, <2>1, UndoPrompts DEF Undo!DeleteUndone, Undo!Surviving
  <2>3. IsPrompt(history, k) /\ history[k].turn = t /\ k \in DOMAIN history
    <3>1. \E i : IsPrompt(history, i) /\ history[i].turn = t
      BY <1>8, <2>1, PromptsAre
    <3> QED
      BY <2>1, <3>1 DEF Undo!target_idx, IsPrompt
  <2>4. history' \in Seq(S) /\ PromptsOf(history') \subseteq PromptsOf(history)
    BY <1>1, <2>2, <2>3, CutPrompts
  <2>5. ShapeOK'
    <3>1. PromptsOf(history)' \subseteq 1..turns'
      BY <1>3, <2>4
    <3>2. (\E R : history \in Seq(R))' /\ (\E R : frames \in Seq(R))'
      BY <1>2, <1>3, <2>4
    <3> QED
      BY <1>3, <2>2, <3>1, <3>2 DEF FollowInv, ShapeOK
  <2>6. ASSUME undoMarks = {} PROVE FollowOK'
    <3>1. FollowOK
      BY <2>6 DEF FollowInv
    <3>2. frames # <<>> /\ frames[n].turn = t
      BY <1>6, <1>7, <1>8, <2>1, <3>1
    <3>3. PromptsOf(history) \subseteq Nat
      BY <1>6
    <3>4. /\ Sorted(history') /\ Complete(history', wrote, {})
          /\ PromptsOf(history') = Before(PromptsOf(history), t)
      BY <1>1, <1>7, <2>2, <2>3, <3>1, <3>3, Cut
    <3>5. FramesOK'
      BY <2>2 DEF FramesOK
    <3>6. Below(n + 1) = Before(PromptsOf(history), t)
      BY <1>5, <3>2 DEF Below
    <3>7. FilesOK'
      BY <1>3, <1>7, <2>2, <3>1, <3>4, <3>6 DEF FilesOK
    <3>8. HandlerOK'
      BY <1>3, <1>7, <3>1 DEF HandlerOK
    <3> QED
      BY <1>3, <1>7, <2>2, <3>1, <3>4, <3>5, <3>7, <3>8 DEF FollowOK
  <2> QED
    BY <2>2, <2>5, <2>6 DEF FollowInv
<1>9. CASE ~(frontier \in PromptsOf(history) /\ ok)
  <2>1. /\ phase' = "ready" /\ history' = history
        /\ undoMarks' = {} => undoMarks = {} /\ frontier = 0
    BY <1>9, UndoPrompts DEF Undo!DeleteUndone
  <2>2. ShapeOK'
    BY <1>3, <2>1 DEF FollowInv, ShapeOK
  <2>3. ASSUME undoMarks' = {} PROVE FollowOK'
    <3>1. FollowOK /\ frontier = 0
      BY <2>1, <2>3 DEF FollowInv
    <3>2. frames = <<>>
      BY <1>6, <1>7, <3>1
    <3>3. FramesOK'
      BY <1>3, <2>1, <3>2 DEF FramesOK
    <3>4. Below(n + 1) = PromptsOf(history)
      BY <1>5, <3>2 DEF Below
    <3>5. FilesOK'
      BY <1>3, <1>7, <2>1, <3>1, <3>4 DEF FilesOK
    <3>6. HandlerOK'
      BY <1>3, <1>7, <3>1 DEF HandlerOK
    <3> QED
      BY <1>3, <1>7, <2>1, <3>1, <3>3, <3>5, <3>6 DEF FollowOK
  <2> QED
    BY <2>2, <2>3 DEF FollowInv
<1> QED
  BY <1>8, <1>9

\* clear_revert_states.
LEMMA ClearFollows ==
  ASSUME FollowInv, NEW ok \in BOOLEAN, Undo!ClearFrames(ok)
  PROVE  FollowInv'
<1>1. /\ phase = "cleaning" /\ phase' = "ready" /\ frames' = IF ok THEN <<>> ELSE frames
      /\ UNCHANGED <<files, history, children, turns, wrote, handling>>
      /\ undoMarks' = {} => undoMarks = {} /\ ok
  BY DEF Undo!ClearFrames, Undo!handlerVars
<1>2. ShapeOK'
  <2>1. (\E S : frames \in Seq(S))'
    <3>1. <<>> \in Seq({})
      OBVIOUS
    <3> QED
      BY <1>1, <3>1 DEF FollowInv, ShapeOK
  <2> QED
    BY <1>1, <2>1 DEF FollowInv, ShapeOK
<1>3. ASSUME undoMarks' = {} PROVE FollowOK'
  <2>1. FollowOK /\ frames' = <<>>
    BY <1>1, <1>3 DEF FollowInv
  <2>2. FramesOK'
    BY <1>1, <2>1 DEF FramesOK
  <2>3. FilesOK'
    BY <1>1, <2>1 DEF FollowOK, FilesOK
  <2>4. HandlerOK'
    BY <1>1, <2>1 DEF FollowOK, HandlerOK
  <2>5. Complete(history, wrote, {})
    BY <1>1, <2>1 DEF FollowOK
  <2> QED
    BY <1>1, <2>1, <2>2, <2>3, <2>4, <2>5 DEF FollowOK
<1> QED
  BY <1>2, <1>3 DEF FollowInv

\* A turn starts with the files its snapshot has.
LEMMA StartFollows ==
  ASSUME FollowInv, NEW ok \in BOOLEAN, Undo!StartTurn(ok)
  PROVE  FollowInv'
<1>1. PICK S : history \in Seq(S)
  BY DEF FollowInv, ShapeOK
<1>2. PICK t : t = turns + 1
  OBVIOUS
<1>3. PICK a, b : a = Undo!Prompt(t) /\ b = Undo!Start(t, files)
  OBVIOUS
<1>4. a.kind = "prompt" /\ a.turn = t /\ b.kind = "start"
  BY <1>3 DEF Undo!Prompt, Undo!Start
<1>5. /\ phase = "ready" /\ phase' = "running" /\ turns' = t
      /\ UNCHANGED <<files, children, frames, wrote, handling>>
      /\ pre' = IF ok THEN files ELSE Undo!NoSnapshot
      /\ history' = history \o IF ok THEN <<a, b>> ELSE <<a>>
      /\ undoMarks' = IF ok THEN undoMarks ELSE undoMarks \cup {"unsnapped"}
  BY <1>2, <1>3 DEF Undo!StartTurn, Undo!handlerVars
<1>6. /\ turns \in 0..MaxTurns /\ turns < MaxTurns /\ MaxTurns \in Nat /\ t \in 1..MaxTurns
      /\ wrote \in [1..MaxTurns -> SUBSET Paths] /\ wrote[t] = {}
      /\ PromptsOf(history) \subseteq 1..turns
  <2>1. turns \in 0..MaxTurns /\ turns < MaxTurns /\ MaxTurns \in Nat
    BY <1>5, UndoAssumption DEF FollowInv, ShapeOK, Undo!TurnsAssumption
  <2>2. t \in 1..MaxTurns /\ t > turns
    BY <1>2, <2>1
  <2> QED
    BY <2>1, <2>2 DEF FollowInv, ShapeOK
<1>7. \A u \in PromptsOf(history) : u \in Nat /\ u < t
  BY <1>2, <1>6
<1>8. (\E T : history' \in Seq(T)) /\ PromptsOf(history') \subseteq PromptsOf(history) \cup {t}
  <2>1. PICK g : g = Append(history, a)
    OBVIOUS
  <2>2. PICK T : g \in Seq(T)
    BY <1>1, <2>1, GrownPrompts
  <2>3. PromptsOf(g) \subseteq PromptsOf(history) \cup {t}
    BY <1>1, <1>4, <2>1, GrownPrompts
  <2>4. CASE ok
    <3>1. history' = Append(g, b)
      <4>1. history' = history \o <<a, b>>
        BY <1>5, <2>4
      <4>2. history \in Seq(S \cup {a, b})
        BY <1>1, SeqMonotonic
      <4> QED
        BY <2>1, <4>1, <4>2
    <3>2. \E R : history' \in Seq(R)
      BY <2>2, <3>1, GrownPrompts
    <3>3. PromptsOf(history') \subseteq PromptsOf(g)
      BY <1>4, <2>2, <3>1, GrownPrompts
    <3> QED
      BY <2>3, <3>2, <3>3
  <2>5. CASE ~ok
    <3>1. history' = g
      <4>1. history' = history \o <<a>>
        BY <1>5, <2>5
      <4>2. history \in Seq(S \cup {a})
        BY <1>1, SeqMonotonic
      <4> QED
        BY <2>1, <4>1, <4>2
    <3> QED
      BY <2>2, <2>3, <3>1
  <2> QED
    BY <2>4, <2>5
<1>9. ShapeOK'
  <2>1. PromptsOf(history)' \subseteq 1..turns'
    <3>1. \A u \in 1..turns : u \in 1..t
      BY <1>2, <1>6
    <3>2. t \in 1..t
      BY <1>6
    <3> QED
      BY <1>5, <1>6, <1>8, <3>1, <3>2
  <2>2. (\E R : history \in Seq(R))' /\ (\E R : frames \in Seq(R))'
    BY <1>5, <1>8 DEF FollowInv, ShapeOK
  <2>3. turns' \in 0..MaxTurns
    BY <1>5, <1>6
  <2>4. \A u \in 1..MaxTurns : u > turns' => wrote'[u] = {}
    <3>1. \A u \in 1..MaxTurns : u > t => u > turns
      BY <1>2, <1>6
    <3>2. \A u \in 1..MaxTurns : u > turns => wrote[u] = {}
      BY DEF FollowInv, ShapeOK
    <3> QED
      BY <1>5, <3>1, <3>2
  <2> QED
    BY <1>5, <1>6, <2>1, <2>2, <2>3, <2>4 DEF FollowInv, ShapeOK
<1>10. ASSUME undoMarks' = {} PROVE FollowOK'
  <2>1. ok /\ undoMarks = {}
    BY <1>5, <1>10
  <2>2. FollowOK
    BY <2>1 DEF FollowInv
  <2>3. /\ Sorted(history) /\ Complete(history, wrote, {}) /\ frames = <<>> /\ children = <<>>
        /\ files = Written(wrote, PromptsOf(history)) /\ handling = "none"
    BY <1>5, <2>2 DEF FollowOK, FramesOK, FilesOK, HandlerOK
  <2>4. history' = history \o <<Undo!Prompt(t), Undo!Start(t, Written(wrote, PromptsOf(history)))>>
    BY <1>3, <1>5, <2>1, <2>3
  <2>5. PromptsOf(history) \subseteq Nat /\ t \in Nat
    BY <1>6, <1>7
  <2>6. /\ Sorted(history') /\ Complete(history', wrote, {t})
        /\ PromptsOf(history') = PromptsOf(history) \cup {t}
    BY <1>1, <1>6, <1>7, <2>3, <2>4, <2>5, StartAdded
  <2>7. FramesOK'
    BY <1>5, <2>3 DEF FramesOK
  <2>8. Before(PromptsOf(history'), t) = PromptsOf(history)
    <3>1. ~(t < t)
      BY <1>6
    <3> QED
      BY <1>7, <2>6, <3>1 DEF Before
  <2>9. Written(wrote, PromptsOf(history')) = Written(wrote, PromptsOf(history))
    <3>1. \A p \in Paths : {u \in PromptsOf(history') : p \in wrote[u]}
                             = {u \in PromptsOf(history) : p \in wrote[u]}
      BY <1>6, <2>6
    <3> QED
      BY <3>1 DEF Written
  <2>10. FilesOK'
    BY <1>5, <2>1, <2>3, <2>6, <2>8, <2>9 DEF FilesOK
  <2>11. HandlerOK'
    BY <1>5, <2>3 DEF HandlerOK
  <2> QED
    BY <1>5, <2>3, <2>6, <2>7, <2>10, <2>11 DEF FollowOK
<1> QED
  BY <1>9, <1>10 DEF FollowInv

\* A running turn writes a file, itself or through a child session.
LEMMA WriteFollows ==
  ASSUME FollowInv, NEW p \in Paths, Undo!ToolWrites(p) \/ Undo!ChildWrites(p)
  PROVE  FollowInv'
<1>1. /\ phase = "running" /\ UNCHANGED <<history, frames, phase, turns, pre, handling>>
      /\ files' = [q \in Paths |-> IF q \in {p} THEN turns ELSE files[q]]
      /\ wrote' = [wrote EXCEPT ![turns] = @ \cup {p}]
      /\ undoMarks' = {} => undoMarks = {} /\ children' = children
  BY DEF Undo!ToolWrites, Undo!ChildWrites, Undo!Writes, Undo!handlerVars
<1>2. /\ turns \in 0..MaxTurns /\ MaxTurns \in Nat /\ wrote \in [1..MaxTurns -> SUBSET Paths]
      /\ PromptsOf(history) \subseteq 1..turns
  BY UndoAssumption DEF FollowInv, ShapeOK, Undo!TurnsAssumption
<1>3. wrote' \in [1..MaxTurns -> SUBSET Paths] /\ \A u \in 1..MaxTurns : u # turns => wrote'[u] = wrote[u]
  BY <1>1, <1>2
<1>4. ShapeOK'
  <2>1. \A u \in 1..MaxTurns : u > turns => wrote'[u] = {}
    <3>1. \A u \in 1..MaxTurns : u > turns => u # turns
      BY <1>2
    <3>2. \A u \in 1..MaxTurns : u > turns => wrote[u] = {}
      BY DEF FollowInv, ShapeOK
    <3> QED
      BY <1>3, <3>1, <3>2
  <2> QED
    BY <1>1, <1>3, <2>1 DEF FollowInv, ShapeOK
<1>5. ASSUME undoMarks' = {} PROVE FollowOK'
  <2>1. FollowOK /\ children' = children
    BY <1>1, <1>5 DEF FollowInv
  <2>2. /\ Sorted(history) /\ Complete(history, wrote, {turns}) /\ frames = <<>> /\ children = <<>>
        /\ files = Written(wrote, PromptsOf(history)) /\ turns \in PromptsOf(history)
        /\ pre = Written(wrote, Before(PromptsOf(history), turns)) /\ handling = "none"
    BY <1>1, <2>1 DEF FollowOK, FramesOK, FilesOK, HandlerOK
  <2>3. turns \in 1..MaxTurns /\ PromptsOf(history) \subseteq 1..MaxTurns
    BY <1>2, <2>2
  <2>4. \A u \in PromptsOf(history) : u <= turns
    BY <1>2
  <2>5. PICK P : P = PromptsOf(history)
    OBVIOUS
  <2>6. {p} \in SUBSET Paths /\ P \in SUBSET (1..MaxTurns)
    BY <2>3, <2>5
  <2>7. PICK v, w, n, t, ps : v = wrote' /\ w = wrote /\ n = MaxTurns /\ t = turns /\ ps = {p}
    OBVIOUS
  <2>8. /\ WroteMore(v, w, t, ps, n)
        /\ P \in SUBSET (1..n) /\ t \in P /\ \A u \in P : u <= t
    BY <1>1, <1>2, <2>2, <2>3, <2>4, <2>5, <2>6, <2>7 DEF WroteMore
  <2>9. /\ Written(v, P) = [q \in Paths |-> IF q \in ps THEN t ELSE Written(w, P)[q]]
        /\ Written(v, Before(P, t)) = Written(w, Before(P, t))
    BY <2>8, WrittenNow
  <2>12. Complete(history, wrote', {turns})
    <3>1. PICK S : history \in Seq(S)
      BY DEF FollowInv, ShapeOK
    <3>2. Complete(history, w, {t}) /\ PromptsOf(history) \subseteq 1..n
          /\ \A u \in PromptsOf(history) : u <= t
      BY <2>2, <2>3, <2>4, <2>7
    <3>3. Complete(history, v, {t})
      BY <2>8, <3>1, <3>2, WritesAdded
    <3> QED
      BY <2>7, <3>3
  <2>10. FilesOK'
    BY <1>1, <2>2, <2>5, <2>7, <2>9 DEF FilesOK
  <2>11. FramesOK'
    BY <1>1, <2>2 DEF FramesOK
  <2>13. HandlerOK'
    BY <1>1, <2>2 DEF HandlerOK
  <2> QED
    BY <1>1, <2>1, <2>2, <2>10, <2>11, <2>12, <2>13 DEF FollowOK
<1> QED
  BY <1>4, <1>5 DEF FollowInv

\* A turn ends, and what it wrote is what its patch lists.
LEMMA EndFollows ==
  ASSUME FollowInv, NEW ok \in BOOLEAN, Undo!EndTurn(ok)
  PROVE  FollowInv'
<1>1. PICK S : history \in Seq(S)
  BY DEF FollowInv, ShapeOK
<1>2. PICK c : c = {p \in Paths : pre # Undo!NoSnapshot /\ files[p] # pre[p]}
  OBVIOUS
<1>3. PICK m : m = Undo!Patch(turns, files, c)
  OBVIOUS
<1>4. /\ phase = "running" /\ phase' = "idle" /\ UNCHANGED <<files, children, frames, turns, wrote, handling>>
      /\ history' = IF c # {} /\ ok THEN Append(history, m) ELSE history
      /\ undoMarks' = IF ok THEN undoMarks ELSE undoMarks \cup {"unsnapped"}
  BY <1>2, <1>3 DEF Undo!EndTurn, Undo!handlerVars
<1>5. m.kind = "patch"
  BY <1>3 DEF Undo!Patch
<1>6. (\E T : history' \in Seq(T)) /\ PromptsOf(history') \subseteq PromptsOf(history)
  <2>1. CASE history' = history
    BY <1>1, <2>1
  <2>2. CASE history' = Append(history, m)
    <3>1. /\ \E T : history' \in Seq(T)
          /\ PromptsOf(history') \subseteq
                PromptsOf(history) \cup (IF m.kind = "prompt" THEN {m.turn} ELSE {})
      BY <1>1, <2>2, GrownPrompts
    <3> QED
      BY <1>5, <3>1
  <2> QED
    BY <1>4, <2>1, <2>2
<1>7. ShapeOK'
  <2>1. PromptsOf(history)' \subseteq 1..turns'
    BY <1>4, <1>6 DEF FollowInv, ShapeOK
  <2>2. (\E R : history \in Seq(R))' /\ (\E R : frames \in Seq(R))'
    BY <1>4, <1>6 DEF FollowInv, ShapeOK
  <2> QED
    BY <1>4, <2>1, <2>2 DEF FollowInv, ShapeOK
<1>8. ASSUME undoMarks' = {} PROVE FollowOK'
  <2>1. ok /\ undoMarks = {}
    BY <1>4, <1>8
  <2>2. FollowOK
    BY <2>1 DEF FollowInv
  <2>3. PICK P, t, w : P = PromptsOf(history) /\ t = turns /\ w = wrote
    OBVIOUS
  <2>4. /\ Sorted(history) /\ Complete(history, w, {t}) /\ frames = <<>> /\ children = <<>>
        /\ files = Written(w, P) /\ t \in P /\ pre = Written(w, Before(P, t))
        /\ handling = "none"
    BY <1>4, <2>2, <2>3 DEF FollowOK, FramesOK, FilesOK, HandlerOK
  <2>5. /\ MaxTurns \in Nat /\ t \in 0..MaxTurns /\ P \subseteq 1..t
        /\ w \in [1..MaxTurns -> SUBSET Paths]
    BY <2>3, UndoAssumption DEF FollowInv, ShapeOK, Undo!TurnsAssumption
  <2>6. t \in 1..MaxTurns /\ P \in SUBSET (1..MaxTurns) /\ P \subseteq Nat /\ \A u \in P : u <= t
    BY <2>4, <2>5
  <2>7. c = w[t]
    <3>1. \A p \in Paths : Written(w, P)[p] # Written(w, Before(P, t))[p] <=> p \in w[t]
      BY <2>4, <2>5, <2>6, ChangedPaths
    <3>2. \A p \in Paths : pre # Undo!NoSnapshot
      <4> SUFFICES ASSUME NEW p \in Paths PROVE pre # Undo!NoSnapshot
        OBVIOUS
      <4>1. DOMAIN pre = Paths
        BY <2>4 DEF Written
      <4>2. DOMAIN Undo!NoSnapshot = {}
        BY DEF Undo!NoSnapshot
      <4> QED
        BY <4>1, <4>2
    <3>3. w[t] \subseteq Paths
      BY <2>5, <2>6
    <3> QED
      BY <1>2, <2>4, <3>1, <3>2, <3>3
  <2>8. Sorted(history') /\ Complete(history', w, {}) /\ PromptsOf(history') = P
    <3>1. CASE c = {}
      <4>1. history' = history
        BY <1>4, <3>1
      <4>2. Complete(history, w, {})
        BY <2>4, <2>7, <3>1, EndedUnchanged
      <4> QED
        BY <2>3, <2>4, <4>1, <4>2
    <3>2. CASE c # {}
      <4>1. Patched(history', history, w, t)
        BY <1>3, <1>4, <2>1, <2>3, <2>7, <3>2 DEF Patched
      <4>2. /\ Sorted(history) /\ Complete(history, w, {t}) /\ t \in PromptsOf(history)
            /\ PromptsOf(history) \subseteq Nat /\ \A u \in PromptsOf(history) : u <= t
        BY <2>3, <2>4, <2>6
      <4>3. Sorted(history') /\ Complete(history', w, {}) /\ PromptsOf(history') = PromptsOf(history)
        BY <1>1, <4>1, <4>2, PatchAdded
      <4> QED
        BY <2>3, <4>3
    <3> QED
      BY <3>1, <3>2
  <2>9. FramesOK'
    <3>1. frames' = <<>> /\ phase' = "idle"
      BY <1>4, <2>4
    <3> QED
      BY <3>1 DEF FramesOK
  <2>10. FilesOK'
    <3>1. frames' = <<>> /\ Len(frames') = 0
      BY <1>4, <2>4
    <3>2. Below(Len(frames) + 1)' = PromptsOf(history')
      BY <3>1 DEF Below
    <3>3. files' = Written(wrote', PromptsOf(history'))
      BY <1>4, <2>3, <2>4, <2>8
    <3> QED
      BY <1>4, <3>2, <3>3 DEF FilesOK
  <2>11. HandlerOK'
    BY <1>4, <2>4 DEF HandlerOK
  <2> QED
    BY <1>4, <2>3, <2>4, <2>8, <2>9, <2>10, <2>11 DEF FollowOK
<1> QED
  BY <1>7, <1>8 DEF FollowInv

\* A step of the actor's handler that leaves the prompt and the frames alone.
LEMMA HandlerFollows ==
  ASSUME FollowInv,
         UNCHANGED <<history, children, frames, phase, frontier, turns, wrote, pre>>,
         handling' \in {"none", "tracked", "restoring", "peeked", "popping"},
         undoMarks' = {} => undoMarks = {},
         undoMarks' = {} /\ FollowOK => FilesOK' /\ HandlerOK'
  PROVE  FollowInv'
<1>1. ShapeOK'
  BY DEF FollowInv, ShapeOK
<1>2. ASSUME undoMarks' = {} PROVE FollowOK'
  <2>1. FollowOK
    BY <1>2 DEF FollowInv
  <2>2. FramesOK'
    BY <2>1 DEF FollowOK, FramesOK, Below
  <2> QED
    BY <1>2, <2>1, <2>2 DEF FollowOK
<1> QED
  BY <1>1, <1>2 DEF FollowInv

\* undo_impl: the snapshot of the files as they are, and what it collects to put
\* them back.
LEMMA UndoFollows ==
  ASSUME FollowInv,
         (\E t \in 1..MaxTurns : Undo!UndoTracks(t)) \/ Undo!UndoCollects \/ Undo!UndoGivesUp
  PROVE  FollowInv'
<1>1. PICK S : history \in Seq(S)
  BY DEF FollowInv, ShapeOK
<1>2. PICK T : frames \in Seq(T)
  BY DEF FollowInv, ShapeOK
<1>3. UNCHANGED <<files, history, children, frames, phase, frontier, turns, wrote, pre>>
  BY DEF Undo!UndoTracks, Undo!UndoCollects, Undo!UndoGivesUp, Undo!promptVars
<1>4. \A i : Below(i)' = Below(i)
  BY <1>3 DEF Below
<1>5. Written(wrote, Below(Len(frames) + 1))' = Written(wrote, Below(Len(frames) + 1))
  BY <1>3, <1>4 DEF Written
<1>6. ASSUME NEW t \in 1..MaxTurns, Undo!UndoTracks(t) PROVE FollowInv'
  <2>1. /\ handling = "none" /\ handling' = "tracked" /\ saved' = files
        /\ undoMarks' = undoMarks \cup Undo!RaceMark
    BY <1>6 DEF Undo!UndoTracks
  <2>2. undoMarks' = {} => undoMarks = {} /\ phase = "idle"
    BY <2>1 DEF Undo!RaceMark, FollowInv, ShapeOK
  <2>3. ASSUME undoMarks' = {}, FollowOK PROVE FilesOK' /\ HandlerOK'
    <3>1. phase = "idle" /\ files = Written(wrote, Below(Len(frames) + 1))
      BY <2>1, <2>2, <2>3 DEF FollowOK, FilesOK
    <3>2. FilesOK'
      BY <1>3, <1>5, <3>1 DEF FilesOK
    <3>3. HandlerOK'
      BY <1>3, <1>5, <2>1, <3>1 DEF HandlerOK
    <3> QED
      BY <3>2, <3>3
  <2> QED
    BY <1>3, <2>1, <2>2, <2>3, HandlerFollows
<1>7. CASE Undo!UndoCollects
  <2>1. PICK t, q, l, n : t = target /\ q = patches' /\ l = left' /\ n = Len(frames)
    OBVIOUS
  <2>2. /\ handling = "tracked" /\ handling' = "restoring" /\ target' = t /\ saved' = saved
        /\ t \in PromptsOf(history) /\ q = Undo!Patches(t) /\ l = {i \in DOMAIN q : q[i].paths # {}}
    BY <1>7, <2>1, UndoPrompts DEF Undo!UndoCollects
  <2>3. undoMarks' = {} => undoMarks = {} /\ (frames # <<>> => ~(t > frames[n].turn))
    BY <1>7, <2>1 DEF Undo!UndoCollects, Undo!Top
  <2>4. ASSUME undoMarks' = {}, FollowOK PROVE FilesOK' /\ HandlerOK'
    <3>1. PICK P : P = PromptsOf(history)
      OBVIOUS
    <3>2. n \in Nat /\ DOMAIN frames = 1..n /\ (n # 0 => frames # <<>>)
      BY <1>2, <2>1
    <3>3. /\ phase = "idle" /\ Sorted(history) /\ Complete(history, wrote, {}) /\ children = <<>>
          /\ \A i \in 1..n : frames[i].turn \in P
          /\ files = Written(wrote, Below(n + 1)) /\ saved = Written(wrote, Below(n + 1))
      BY <2>1, <2>2, <2>4, <3>1, <3>2 DEF FollowOK, FramesOK, FilesOK, HandlerOK
    <3>4. P \subseteq Nat /\ t \in P
      BY <2>2, <3>1 DEF FollowInv, ShapeOK
    <3>5. PICK vs : vs = Below(n + 1)
      OBVIOUS
    <3>6. vs \subseteq P /\ Before(P, t) \subseteq vs
      <4>1. CASE n = 0
        <5>1. vs = P
          BY <3>1, <3>5, <4>1 DEF Below
        <5> QED
          BY <5>1 DEF Before
      <4>2. CASE n # 0
        <5>1. PICK x : x = frames[n].turn
          OBVIOUS
        <5>2. n + 1 # 1 /\ n + 1 - 1 = n /\ n \in 1..n
          BY <3>2, <4>2
        <5>3. vs = Before(P, x)
          BY <3>1, <3>5, <5>1, <5>2 DEF Below
        <5>4. ~(t > x)
          BY <2>3, <2>4, <3>2, <4>2, <5>1
        <5>5. x \in P /\ x \in Nat /\ t \in Nat
          BY <3>3, <3>4, <5>1, <5>2
        <5>6. \A u \in Nat : u < t => u < x
          BY <5>4, <5>5
        <5> QED
          BY <3>4, <5>3, <5>6 DEF Before
      <4> QED
        BY <4>1, <4>2
    <3>7. \A p \in Paths :
             EndsWith(q, l, p, files, Written(wrote, Before(PromptsOf(history), t))[p])
      <4>1. /\ PromptsOf(history) \subseteq Nat /\ vs \subseteq PromptsOf(history)
            /\ Before(PromptsOf(history), t) \subseteq vs /\ files = Written(wrote, vs)
        BY <3>1, <3>3, <3>4, <3>5, <3>6
      <4> QED
        BY <1>1, <2>2, <3>3, <4>1, UndoneFiles
    <3>8. files = [p \in Paths |-> files[p]]
      BY <3>3 DEF Written
    <3>9. FilesOK'
      BY <1>3, <2>2, <3>3 DEF FilesOK
    <3>10. HandlerOK'
      <4>1. saved' = Written(wrote, Below(Len(frames) + 1))'
        BY <1>5, <2>1, <2>2, <3>3
      <4>2. files' = [p \in Paths |-> files'[p]]
        BY <1>3, <3>8
      <4>3. \A p \in Paths :
               EndsWith(patches', left', p, files',
                        Written(wrote', Before(PromptsOf(history'), target'))[p])
        BY <1>3, <2>1, <2>2, <3>7
      <4>4. target' \in PromptsOf(history')
        BY <1>3, <2>2
      <4> QED
        BY <1>3, <2>2, <3>3, <4>1, <4>2, <4>3, <4>4 DEF HandlerOK
    <3> QED
      BY <3>9, <3>10
  <2> QED
    BY <1>3, <2>2, <2>3, <2>4, HandlerFollows
<1>8. CASE Undo!UndoGivesUp
  <2>1. handling = "tracked" /\ handling' = "none" /\ undoMarks' = undoMarks
    BY <1>8 DEF Undo!UndoGivesUp, Undo!HandlerEnds
  <2>2. ASSUME FollowOK PROVE FilesOK' /\ HandlerOK'
    <3>1. phase = "idle" /\ files = Written(wrote, Below(Len(frames) + 1))
      BY <2>1, <2>2 DEF FollowOK, FilesOK, HandlerOK
    <3>2. FilesOK'
      BY <1>3, <1>5, <3>1 DEF FilesOK
    <3>3. HandlerOK'
      BY <2>1 DEF HandlerOK
    <3> QED
      BY <3>2, <3>3
  <2> QED
    BY <1>3, <2>1, <2>2, HandlerFollows
<1> QED
  BY <1>6, <1>7, <1>8

\* restore_paths for the last of the patches that are left.
LEMMA RestoreFollows ==
  ASSUME FollowInv, NEW i \in left, NEW ps \in SUBSET patches[i].paths, Undo!UndoRestores(i, ps)
  PROVE  FollowInv'
<1>1. /\ UNCHANGED <<history, children, frames, phase, frontier, turns, wrote, pre>>
      /\ UNCHANGED <<handling, target, saved, patches>> /\ handling = "restoring"
      /\ files' = [p \in Paths |-> IF p \in ps THEN patches[i].snap[p] ELSE files[p]]
      /\ left' = left \ {i} /\ \A j \in left : j <= i
      /\ undoMarks' = {} => undoMarks = {} /\ ps = patches[i].paths
  BY DEF Undo!UndoRestores, Undo!Restores, Undo!promptVars
<1>2. ASSUME undoMarks' = {}, FollowOK PROVE FilesOK' /\ HandlerOK'
  <2>1. PICK c : c = Written(wrote, Before(PromptsOf(history), target))
    OBVIOUS
  <2>2. /\ phase = "idle" /\ saved = Written(wrote, Below(Len(frames) + 1))
        /\ target \in PromptsOf(history)
        /\ \A p \in Paths : EndsWith(patches, left, p, files, c[p])
    BY <1>1, <1>2, <2>1 DEF FollowOK, HandlerOK
  <2>3. ASSUME NEW p \in Paths PROVE EndsWith(patches, left', p, files', c[p])
    <3>1. PICK H, G : H = Having(patches, left, p) /\ G = Having(patches, left', p)
      OBVIOUS
    <3>2. G = H \ {i} /\ (i \in H <=> p \in ps) /\ \A j \in H : j <= i
      BY <1>1, <1>2, <3>1 DEF Having
    <3>3. /\ H = {} => files[p] = c[p]
          /\ \A j \in H : (\A k \in H : j <= k) => patches[j].snap[p] = c[p]
      BY <2>2, <3>1 DEF EndsWith
    <3>4. ASSUME G = {} PROVE files'[p] = c[p]
      <4>1. CASE H = {}
        BY <1>1, <3>2, <3>3, <4>1
      <4>2. CASE H # {}
        <5>1. i \in H /\ \A k \in H : i <= k
          BY <3>2, <3>4, <4>2
        <5> QED
          BY <1>1, <3>2, <3>3, <5>1
      <4> QED
        BY <4>1, <4>2
    <3>5. ASSUME NEW j \in G, \A k \in G : j <= k PROVE patches[j].snap[p] = c[p]
      <4>1. j \in H /\ \A k \in H : j <= k
        BY <3>2, <3>5
      <4> QED
        BY <3>3, <4>1
    <3> QED
      BY <3>1, <3>4, <3>5 DEF EndsWith
  <2>4. FilesOK'
    BY <1>1, <2>2 DEF FilesOK
  <2>5. Below(Len(frames) + 1)' = Below(Len(frames) + 1)
    BY <1>1 DEF Below
  <2>6. files' = [p \in Paths |-> files'[p]]
    BY <1>1
  <2>7. HandlerOK'
    <3>1. saved' = Written(wrote, Below(Len(frames) + 1))'
      BY <1>1, <2>2, <2>5 DEF Written
    <3>2. \A p \in Paths :
             EndsWith(patches', left', p, files',
                      Written(wrote', Before(PromptsOf(history'), target'))[p])
      BY <1>1, <2>1, <2>3
    <3> QED
      BY <1>1, <2>2, <2>6, <3>1, <3>2 DEF HandlerOK
  <2> QED
    BY <2>4, <2>7
<1>3. handling' \in {"none", "tracked", "restoring", "peeked", "popping"}
  BY <1>1
<1> QED
  BY <1>1, <1>2, <1>3, HandlerFollows

\* push_revert_state: the frame has the files as they were, and those that are
\* left are the files of the turns before the prompt it names.
LEMMA PushFollows ==
  ASSUME FollowInv, NEW ok \in BOOLEAN, Undo!UndoPushes(ok)
  PROVE  FollowInv'
<1>1. PICK T : frames \in Seq(T)
  BY DEF FollowInv, ShapeOK
<1>2. PICK f, n, t : f = [turn |-> target, snap |-> saved] /\ n = Len(frames) /\ t = target
  OBVIOUS
<1>3. /\ UNCHANGED <<files, history, children, phase, frontier, turns, wrote, pre>>
      /\ handling = "restoring" /\ handling' = "none" /\ left = {}
      /\ frames' = IF ok THEN Append(frames, f) ELSE frames
      /\ undoMarks' = {} => undoMarks = {} /\ ok
  BY <1>2 DEF Undo!UndoPushes, Undo!HandlerEnds, Undo!promptVars
<1>4. /\ n \in Nat /\ DOMAIN frames = 1..n /\ frames \in Seq(T \cup {f})
  BY <1>1, <1>2, SeqMonotonic
<1>5. ok => /\ frames' \in Seq(T \cup {f}) /\ Len(frames') = n + 1
            /\ DOMAIN frames' = 1..(n + 1) /\ frames'[n + 1] = f
            /\ \A i \in 1..n : frames'[i] = frames[i]
  BY <1>2, <1>3, <1>4
<1>6. ShapeOK'
  <2>1. (\E R : frames \in Seq(R))'
    BY <1>3, <1>4, <1>5
  <2> QED
    BY <1>3, <2>1 DEF FollowInv, ShapeOK
<1>7. ASSUME undoMarks' = {} PROVE FollowOK'
  <2>1. FollowOK /\ ok
    BY <1>3, <1>7 DEF FollowInv
  <2>2. PICK P : P = PromptsOf(history)
    OBVIOUS
  <2>3. /\ phase = "idle" /\ Sorted(history) /\ Complete(history, wrote, {}) /\ children = <<>>
        /\ \A i \in 1..n : frames[i].turn \in P /\ frames[i].snap = Written(wrote, Below(i))
        /\ saved = Written(wrote, Below(n + 1)) /\ t \in P /\ files = [p \in Paths |-> files[p]]
        /\ \A p \in Paths : EndsWith(patches, left, p, files, Written(wrote, Before(P, t))[p])
    BY <1>2, <1>3, <1>4, <2>1, <2>2 DEF FollowOK, FramesOK, HandlerOK
  <2>4. files = Written(wrote, Before(P, t))
    <3>1. \A p \in Paths : files[p] = Written(wrote, Before(P, t))[p]
      BY <1>3, <2>3 DEF EndsWith, Having
    <3>2. Written(wrote, Before(P, t)) = [p \in Paths |-> Written(wrote, Before(P, t))[p]]
      BY DEF Written
    <3> QED
      BY <2>3, <3>1, <3>2
  <2>5. \A i \in 1..(n + 1) : Below(i)' = Below(i)
    <3> SUFFICES ASSUME NEW i \in 1..(n + 1) PROVE Below(i)' = Below(i)
      OBVIOUS
    <3>1. CASE i = 1
      BY <1>3, <3>1 DEF Below
    <3>2. CASE i # 1
      <4>1. i - 1 \in 1..n
        BY <1>4, <3>2
      <4>2. frames'[i - 1] = frames[i - 1]
        BY <1>5, <2>1, <4>1
      <4> QED
        BY <1>3, <3>2, <4>2 DEF Below
    <3> QED
      BY <3>1, <3>2
  <2>6. FramesOK'
    <3>1. ASSUME NEW i \in 1..(n + 1)
          PROVE  frames'[i].turn \in P /\ frames'[i].snap = Written(wrote, Below(i))
      <4>1. CASE i = n + 1
        BY <1>2, <1>5, <2>1, <2>3, <4>1
      <4>2. CASE i # n + 1
        <5>1. i \in 1..n
          BY <1>4, <4>2
        <5> QED
          BY <1>5, <2>1, <2>3, <5>1
      <4> QED
        BY <4>1, <4>2
    <3>2. \A i \in DOMAIN frames' :
             frames'[i].turn \in PromptsOf(history') /\ frames'[i].snap = Written(wrote', Below(i)')
      BY <1>3, <1>5, <2>1, <2>2, <2>5, <3>1
    <3> QED
      BY <1>3, <2>3, <3>2 DEF FramesOK
  <2>7. FilesOK'
    <3>1. Len(frames') + 1 = n + 2 /\ n + 2 # 1 /\ n + 2 - 1 = n + 1
      BY <1>4, <1>5, <2>1
    <3>2. Below(Len(frames) + 1)' = Before(P, t)
      BY <1>2, <1>3, <1>5, <2>1, <2>2, <3>1 DEF Below
    <3> QED
      BY <1>3, <2>3, <2>4, <3>2 DEF FilesOK
  <2>8. HandlerOK'
    BY <1>3 DEF HandlerOK
  <2> QED
    BY <1>3, <2>3, <2>6, <2>7, <2>8 DEF FollowOK
<1> QED
  BY <1>6, <1>7 DEF FollowInv

\* redo_impl: the files the top frame remembers are put back.
LEMMA RedoFollows ==
  ASSUME FollowInv, Undo!RedoPeeks \/ \E ps \in SUBSET Paths : Undo!RedoRestores(ps)
  PROVE  FollowInv'
<1>1. PICK T : frames \in Seq(T)
  BY DEF FollowInv, ShapeOK
<1>2. PICK n : n = Len(frames)
  OBVIOUS
<1>3. UNCHANGED <<history, children, frames, phase, frontier, turns, wrote, pre>>
  BY DEF Undo!RedoPeeks, Undo!RedoRestores, Undo!promptVars
<1>4. \A i : Below(i)' = Below(i)
  BY <1>3 DEF Below
<1>5. CASE Undo!RedoPeeks
  <2>1. /\ handling = "none" /\ handling' = "peeked" /\ saved' = frames[n].snap /\ frames # <<>>
        /\ undoMarks' = undoMarks \cup Undo!RaceMark /\ files' = files
    BY <1>2, <1>5 DEF Undo!RedoPeeks, Undo!Top
  <2>2. undoMarks' = {} => undoMarks = {} /\ phase = "idle"
    BY <2>1 DEF Undo!RaceMark, FollowInv, ShapeOK
  <2>3. ASSUME undoMarks' = {}, FollowOK PROVE FilesOK' /\ HandlerOK'
    <3>1. phase = "idle" /\ files = Written(wrote, Below(Len(frames) + 1))
      BY <2>1, <2>2, <2>3 DEF FollowOK, FilesOK
    <3>2. FilesOK'
      BY <1>3, <1>4, <2>1, <3>1 DEF FilesOK
    <3>3. HandlerOK'
      BY <1>2, <1>3, <2>1, <3>1 DEF HandlerOK
    <3> QED
      BY <3>2, <3>3
  <2> QED
    BY <1>3, <2>1, <2>2, <2>3, HandlerFollows
<1>6. ASSUME NEW ps \in SUBSET Paths, Undo!RedoRestores(ps) PROVE FollowInv'
  <2>1. PICK c : c = {p \in Paths : files[p] # saved[p]}
    OBVIOUS
  <2>2. /\ handling = "peeked"
        /\ files' = [p \in Paths |-> IF p \in ps THEN saved[p] ELSE files[p]]
        /\ IF ps = c THEN handling' = "popping" /\ undoMarks' = undoMarks
                     ELSE handling' = "none" /\ undoMarks' = undoMarks \cup {"failed"}
    BY <1>6, <2>1 DEF Undo!RedoRestores, Undo!HandlerEnds
  <2>3. handling' \in {"none", "tracked", "restoring", "peeked", "popping"}
    BY <2>2
  <2>4. undoMarks' = {} => undoMarks = {} /\ ps = c /\ handling' = "popping"
    BY <2>2
  <2>5. ASSUME undoMarks' = {}, FollowOK PROVE FilesOK' /\ HandlerOK'
    <3>1. /\ phase = "idle" /\ frames # <<>> /\ saved = frames[n].snap
          /\ \A i \in DOMAIN frames : frames[i].snap = Written(wrote, Below(i))
      BY <1>2, <2>2, <2>5 DEF FollowOK, FramesOK, HandlerOK
    <3>2. n \in DOMAIN frames
      BY <1>1, <1>2, <3>1
    <3>3. saved = Written(wrote, Below(n)) /\ saved = [p \in Paths |-> saved[p]]
      BY <3>1, <3>2 DEF Written
    <3>4. \A p \in Paths : files'[p] = saved[p]
      BY <2>1, <2>2, <2>4, <2>5
    <3>5. files' = saved
      BY <2>2, <3>3, <3>4
    <3>6. FilesOK'
      BY <1>3, <2>4, <2>5, <3>1 DEF FilesOK
    <3>7. files' = Written(wrote, Below(Len(frames)))'
      BY <1>2, <1>3, <1>4, <3>3, <3>5 DEF Written
    <3>8. HandlerOK'
      BY <1>3, <2>4, <2>5, <3>1, <3>7 DEF HandlerOK
    <3> QED
      BY <3>6, <3>8
  <2> QED
    BY <1>3, <2>3, <2>4, <2>5, HandlerFollows
<1> QED
  BY <1>5, <1>6

\* pop_revert_state.
LEMMA PopFollows ==
  ASSUME FollowInv, NEW ok \in BOOLEAN, Undo!RedoPops(ok)
  PROVE  FollowInv'
<1>1. PICK T : frames \in Seq(T)
  BY DEF FollowInv, ShapeOK
<1>2. PICK n : n = Len(frames)
  OBVIOUS
<1>3. /\ UNCHANGED <<files, history, children, phase, frontier, turns, wrote, pre>>
      /\ handling = "popping" /\ handling' = "none"
      /\ frames' = IF ok /\ frames # <<>> THEN SubSeq(frames, 1, n - 1) ELSE frames
      /\ undoMarks' = {} => undoMarks = {} /\ ok
  BY <1>2 DEF Undo!RedoPops, Undo!HandlerEnds, Undo!promptVars, Undo!Front
<1>4. frames # <<>> => n \in Nat /\ n # 0 /\ DOMAIN frames = 1..n /\ n - 1 \in Nat /\ n \in 1..n
  BY <1>1, <1>2
<1>5. ok /\ frames # <<>> =>
         /\ frames' \in Seq(T) /\ Len(frames') = n - 1 /\ DOMAIN frames' = 1..(n - 1)
         /\ \A i \in 1..(n - 1) : frames'[i] = frames[i]
  BY <1>1, <1>2, <1>3, <1>4
<1>6. ShapeOK'
  <2>1. (\E R : frames \in Seq(R))'
    BY <1>1, <1>3, <1>5
  <2> QED
    BY <1>3, <2>1 DEF FollowInv, ShapeOK
<1>7. ASSUME undoMarks' = {} PROVE FollowOK'
  <2>1. FollowOK /\ ok
    BY <1>3, <1>7 DEF FollowInv
  <2>2. phase = "idle" /\ frames # <<>> /\ files = Written(wrote, Below(n))
    BY <1>2, <1>3, <2>1 DEF FollowOK, HandlerOK
  <2>3. \A i \in 1..n : frames[i].turn \in PromptsOf(history) /\ frames[i].snap = Written(wrote, Below(i))
    BY <1>4, <2>1, <2>2 DEF FollowOK, FramesOK
  <2>4. \A i \in 1..n : Below(i)' = Below(i)
    <3> SUFFICES ASSUME NEW i \in 1..n PROVE Below(i)' = Below(i)
      OBVIOUS
    <3>1. CASE i = 1
      BY <1>3, <3>1 DEF Below
    <3>2. CASE i # 1
      <4>1. i - 1 \in 1..(n - 1)
        BY <1>4, <2>2, <3>2
      <4>2. frames'[i - 1] = frames[i - 1]
        BY <1>5, <2>1, <2>2, <4>1
      <4> QED
        BY <1>3, <3>2, <4>2 DEF Below
    <3> QED
      BY <3>1, <3>2
  <2>5. FramesOK'
    <3>1. \A i \in 1..(n - 1) : i \in 1..n
      BY <1>4, <2>2
    <3>2. \A i \in DOMAIN frames' :
             frames'[i].turn \in PromptsOf(history') /\ frames'[i].snap = Written(wrote', Below(i)')
      BY <1>3, <1>5, <2>1, <2>2, <2>3, <2>4, <3>1
    <3> QED
      BY <1>3, <2>2, <3>2 DEF FramesOK
  <2>6. FilesOK'
    <3>1. Len(frames') + 1 = n
      BY <1>4, <1>5, <2>1, <2>2
    <3>2. Below(Len(frames) + 1)' = Below(n)
      BY <1>4, <2>2, <2>4, <3>1 DEF Below
    <3> QED
      BY <1>3, <2>2, <3>2 DEF FilesOK
  <2>7. HandlerOK'
    BY <1>3 DEF HandlerOK
  <2>8. Complete(history, wrote, {})
    BY <2>1, <2>2 DEF FollowOK
  <2> QED
    BY <1>3, <2>1, <2>2, <2>5, <2>6, <2>7, <2>8 DEF FollowOK
<1> QED
  BY <1>6, <1>7 DEF FollowInv

LEMMA FollowStep ==
  ASSUME FollowInv, Undo!Next
  PROVE  FollowInv'
<1>1. CASE Undo!PeekFrontier
  BY <1>1, PeekFollows
<1>2. ASSUME NEW ok \in BOOLEAN, Undo!DeleteUndone(ok) \/ Undo!ClearFrames(ok) PROVE FollowInv'
  BY <1>2, DeleteFollows, ClearFollows
<1>3. ASSUME NEW ok \in BOOLEAN, Undo!StartTurn(ok) \/ Undo!EndTurn(ok) PROVE FollowInv'
  BY <1>3, StartFollows, EndFollows
<1>4. ASSUME NEW p \in Paths, Undo!ToolWrites(p) \/ Undo!ChildWrites(p) PROVE FollowInv'
  BY <1>4, WriteFollows
<1>5. CASE (\E t \in 1..MaxTurns : Undo!UndoTracks(t)) \/ Undo!UndoCollects \/ Undo!UndoGivesUp
  BY <1>5, UndoFollows
<1>6. ASSUME NEW i \in left, NEW ps \in SUBSET patches[i].paths, Undo!UndoRestores(i, ps)
      PROVE  FollowInv'
  BY <1>6, RestoreFollows
<1>7. ASSUME NEW ok \in BOOLEAN, Undo!UndoPushes(ok) \/ Undo!RedoPops(ok) PROVE FollowInv'
  BY <1>7, PushFollows, PopFollows
<1>8. CASE Undo!RedoPeeks \/ \E ps \in SUBSET Paths : Undo!RedoRestores(ps)
  BY <1>8, RedoFollows
<1> QED
  BY <1>1, <1>2, <1>3, <1>4, <1>5, <1>6, <1>7, <1>8 DEF Undo!Next

LEMMA FollowStart ==
  ASSUME AllInit
  PROVE  FollowInv
<1>1. /\ files = [p \in Paths |-> 0] /\ history = <<>> /\ children = <<>> /\ frames = <<>>
      /\ phase = "idle" /\ turns = 0 /\ wrote = [t \in 1..MaxTurns |-> {}] /\ MaxTurns \in Nat
      /\ handling = "none"
  BY UndoAssumption DEF AllInit, Undo!Init, Undo!TurnsAssumption
<1>2. PromptsOf(history) = {} /\ DOMAIN history = {} /\ DOMAIN frames = {} /\ Len(frames) = 0
  BY <1>1 DEF PromptsOf
<1>3. ShapeOK
  <2>1. <<>> \in Seq({})
    OBVIOUS
  <2>2. (\E S : history \in Seq(S)) /\ \E S : frames \in Seq(S)
    BY <1>1, <2>1
  <2>3. turns \in 0..MaxTurns /\ PromptsOf(history) \subseteq 1..turns
    BY <1>1, <1>2
  <2>4. wrote \in [1..MaxTurns -> SUBSET Paths] /\ \A t \in 1..MaxTurns : wrote[t] = {}
    BY <1>1
  <2> QED
    BY <1>1, <2>2, <2>3, <2>4 DEF ShapeOK
<1>4. Sorted(history)
  BY <1>2 DEF Sorted
<1>5. Complete(history, wrote, {})
  BY <1>2 DEF Complete, IsPatch, IsStart
<1>6. FramesOK
  BY <1>1, <1>2 DEF FramesOK
<1>7. FilesOK
  <2>1. Below(Len(frames) + 1) = {}
    BY <1>2 DEF Below
  <2>2. \A p \in Paths : {t \in {} : p \in wrote[t]} = {}
    OBVIOUS
  <2>3. Written(wrote, {}) = [p \in Paths |-> 0]
    BY <2>2 DEF Written, Newest
  <2> QED
    BY <1>1, <2>1, <2>3 DEF FilesOK
<1>8. HandlerOK
  BY <1>1 DEF HandlerOK
<1> QED
  BY <1>1, <1>3, <1>4, <1>5, <1>6, <1>7, <1>8 DEF FollowInv, FollowOK

LEMMA FollowUnchanged ==
  ASSUME FollowInv, UNCHANGED undoVars
  PROVE  FollowInv'
<1>1. /\ UNCHANGED <<files, history, children, frames, phase, frontier, turns, pre>>
      /\ UNCHANGED <<wrote, undoMarks, handling, target, saved, patches, left>>
  BY DEF undoVars
<1>2. FramesOK => FramesOK'
  BY <1>1 DEF FramesOK, Below
<1>3. FilesOK => FilesOK'
  BY <1>1 DEF FilesOK, Below
<1>4. HandlerOK => HandlerOK'
  BY <1>1 DEF HandlerOK, Below
<1>5. FollowOK => FollowOK'
  BY <1>1, <1>2, <1>3, <1>4 DEF FollowOK
<1>6. ShapeOK => ShapeOK'
  BY <1>1 DEF ShapeOK
<1> QED
  BY <1>1, <1>5, <1>6 DEF FollowInv

\* What FollowInv says of the files is what FilesFollowHistory asks.
LEMMA FollowsHistory ==
  ASSUME FollowInv
  PROVE  FilesFollowHistory
<1> SUFFICES ASSUME phase = "idle", handling = "none", undoMarks = {}
             PROVE  files = Undo!FilesOf(Undo!Visible)
  BY DEF FilesFollowHistory, Undo!FilesFollowHistory
<1>1. PICK T : frames \in Seq(T)
  BY DEF FollowInv, ShapeOK
<1>2. PICK n : n = Len(frames)
  OBVIOUS
<1>3. files = Written(wrote, Below(n + 1))
  BY <1>2 DEF FollowInv, FollowOK, FilesOK
<1>4. Undo!Visible = Below(n + 1)
  <2>1. CASE frames = <<>>
    BY <1>2, <2>1, UndoPrompts DEF Undo!Visible, Below
  <2>2. CASE frames # <<>>
    <3>1. n + 1 # 1 /\ n + 1 - 1 = n
      BY <1>1, <1>2, <2>2
    <3> QED
      BY <1>2, <2>2, <3>1, UndoPrompts DEF Undo!Visible, Undo!Top, Below, Before
  <2> QED
    BY <2>1, <2>2
<1>5. \A ts : Undo!FilesOf(ts) = Written(wrote, ts)
  BY DEF Undo!FilesOf, Written, Newest
<1> QED
  BY <1>3, <1>4, <1>5

\* Between turns the working directory is what the turns before the frontier
\* wrote, through any sequence of turns, undos, redos and prompts that discard
\* what was undone: the patches restore_paths goes through put back neither too
\* little nor too much.  Excepted is what FilesFollowHistory excepts.
THEOREM ServicesFilesFollow == AllSpec => []FilesFollowHistory
<1>1. AllInit => FollowInv
  BY FollowStart
<1>2. FollowInv /\ [AllNext]_allVars => FollowInv'
  <2> SUFFICES ASSUME FollowInv, [AllNext]_allVars PROVE FollowInv'
    OBVIOUS
  <2>1. Undo!Next \/ UNCHANGED undoVars
    BY DEF AllNext, allVars
  <2> QED
    BY <2>1, FollowStep, FollowUnchanged
<1>3. FollowInv => FilesFollowHistory
  BY FollowsHistory
<1> QED
  BY <1>1, <1>2, <1>3, PTL DEF AllSpec

(***************************************************************************)
(* The types of undo's state: what undo collects for restore_paths has a   *)
(* snapshot wherever it has paths.                                         *)
(***************************************************************************)

\* What a message, a child's patch and a revert frame are after n turns.
MessageOK(m, n) ==
    /\ m.turn \in 1..n
    /\ m.kind = "prompt" => m.snap = Undo!NoSnapshot
    /\ m.kind \in {"start", "patch"} => m.snap \in Undo!Contents
    /\ m.paths \subseteq Paths
PatchOK(m) == m.snap \in Undo!Contents /\ m.paths \subseteq Paths
FrameOK(f, n) == f.turn \in 1..n /\ f.snap \in Undo!Contents

\* The type of undo's state, of which ShapeOK has a part.
UndoTyped ==
    /\ files \in Undo!Contents
    /\ \A i \in DOMAIN history : MessageOK(history[i], turns)
    /\ \E S : children \in Seq(S)
    /\ \A i \in DOMAIN children : PatchOK(children[i])
    /\ \A i \in DOMAIN frames : FrameOK(frames[i], turns)
    /\ frontier \in 0..turns
    /\ pre = Undo!NoSnapshot \/ pre \in Undo!Contents
    /\ undos \in 0..MaxUndos
    /\ phase = "running" => turns >= 1

\* The type of the handler of Undo or Redo.
HandlerTyped ==
    /\ target \in 0..turns
    /\ handling \in {"tracked", "restoring"} => target \in 1..turns
    /\ IF handling = "none" THEN saved = Undo!NoSnapshot ELSE saved \in Undo!Contents
    /\ left \subseteq DOMAIN patches
    /\ \A i \in left : PatchOK(patches[i])

Marks == {"raced", "overlapped", "forward", "unsnapped", "delegated", "failed", "uncleared"}

\* The elements of a sequence with one more, and of a beginning of one.
LEMMA OneMore ==
  ASSUME NEW S, NEW q \in Seq(S), NEW m, NEW g, g = Append(q, m)
  PROVE  /\ \E T : g \in Seq(T)
         /\ \A i \in DOMAIN g : (i \in DOMAIN q /\ g[i] = q[i]) \/ g[i] = m
<1>1. q \in Seq(S \cup {m})
  BY SeqMonotonic
<1>2. g \in Seq(S \cup {m}) /\ Len(g) = Len(q) + 1 /\ Len(q) \in Nat
  BY <1>1
<1>3. g[Len(q) + 1] = m /\ \A i \in 1..Len(q) : g[i] = q[i]
  BY <1>1
<1>4. \A i \in DOMAIN g : i \in 1..Len(q) \/ i = Len(q) + 1
  BY <1>2
<1>5. DOMAIN q = 1..Len(q)
  OBVIOUS
<1> QED
  BY <1>2, <1>3, <1>4, <1>5

LEMMA AllButLast ==
  ASSUME NEW S, NEW q \in Seq(S), NEW k \in DOMAIN q, NEW g, g = SubSeq(q, 1, k - 1)
  PROVE  \A i \in DOMAIN g : i \in DOMAIN q /\ g[i] = q[i]
  OBVIOUS

\* A turn more lets everything keep its type.
LEMMA StillTyped ==
  ASSUME NEW n \in Nat, NEW m
  PROVE  MessageOK(m, n) => MessageOK(m, n + 1)
<1>1. 1..n \subseteq 1..(n + 1)
  OBVIOUS
<1> QED
  BY <1>1 DEF MessageOK

\* What undo_impl collects has a snapshot wherever it has paths.
LEMMA CollectedTyped ==
  ASSUME ShapeOK, UndoTyped, NEW t \in PromptsOf(history), NEW q, q = Undo!Patches(t)
  PROVE  /\ DOMAIN q = 1..Len(q)
         /\ \A i \in 1..Len(q) : q[i].paths = {} \/ PatchOK(q[i])
<1>1. PICK S : history \in Seq(S)
  BY DEF ShapeOK
<1>2. PICK C : children \in Seq(C)
  BY DEF UndoTyped
<1>3. PICK A : A = Undo!After(t)
  OBVIOUS
<1>4. PICK k : k = Undo!target_idx(t)
  OBVIOUS
<1>5. k \in DOMAIN history
  <2>1. \E i : IsPrompt(history, i) /\ history[i].turn = t
    BY PromptsAre
  <2> QED
    BY <1>4, <2>1 DEF Undo!target_idx, IsPrompt
<1>6. A \in Seq(S) /\ \A i \in DOMAIN A : \E j \in DOMAIN history : A[i] = history[j]
  <2>1. A = SubSeq(history, k + 1, Len(history))
    BY <1>3, <1>4 DEF Undo!After
  <2>2. Len(history) \in Nat /\ DOMAIN history = 1..Len(history) /\ k \in 1..Len(history)
    BY <1>1, <1>5
  <2>3. \A i \in (k + 1)..Len(history) : history[i] \in {history[j] : j \in DOMAIN history}
    BY <2>2
  <2>4. \A i \in (k + 1)..Len(history) : history[i] \in S
    BY <1>1, <2>2
  <2>5. k + 1 \in Int /\ Len(history) \in Int
    BY <2>2
  <2>6. A \in Seq(S) /\ A \in Seq({history[j] : j \in DOMAIN history})
    BY <1>1, <2>1, <2>3, <2>4, <2>5, SubSeqProperties
  <2>7. \A i \in DOMAIN A : A[i] \in {history[j] : j \in DOMAIN history}
    BY <2>6
  <2> QED
    BY <2>6, <2>7
<1>7. \A i \in DOMAIN A : MessageOK(A[i], turns)
  BY <1>6 DEF UndoTyped
<1>8. PICK starts : starts = {m \in Undo!ToSet(A) : m.kind = "start"}
  OBVIOUS
<1>9. \A m \in starts : m.snap \in Undo!Contents
  BY <1>7, <1>8 DEF Undo!ToSet, MessageOK
<1>10. PICK s : s = Undo!SessionPatches(t)
  OBVIOUS
<1>11. s = [i \in DOMAIN A |->
              IF A[i].kind = "patch" /\ \E m \in starts : m.turn = A[i].turn
              THEN Undo!Patch(A[i].turn, (CHOOSE m \in starts : m.turn = A[i].turn).snap, A[i].paths)
              ELSE Undo!Patch(A[i].turn, Undo!NoSnapshot, {})]
  BY <1>3, <1>8, <1>10 DEF Undo!SessionPatches
<1>12. ASSUME NEW i \in DOMAIN A PROVE s[i].paths = {} \/ PatchOK(s[i])
  <2>1. CASE A[i].kind = "patch" /\ \E m \in starts : m.turn = A[i].turn
    <3>1. PICK c : c = CHOOSE m \in starts : m.turn = A[i].turn
      OBVIOUS
    <3>2. c \in starts
      BY <2>1, <3>1
    <3>3. s[i] = Undo!Patch(A[i].turn, c.snap, A[i].paths)
      BY <1>11, <2>1, <3>1
    <3>4. s[i].snap = c.snap /\ s[i].paths = A[i].paths
      BY <3>3 DEF Undo!Patch
    <3> QED
      BY <1>7, <1>9, <3>2, <3>4 DEF MessageOK, PatchOK
  <2>2. CASE ~(A[i].kind = "patch" /\ \E m \in starts : m.turn = A[i].turn)
    <3>1. s[i] = Undo!Patch(A[i].turn, Undo!NoSnapshot, {})
      BY <1>11, <2>2
    <3> QED
      BY <3>1 DEF Undo!Patch
  <2> QED
    BY <2>1, <2>2
<1>13. PICK n \in Nat : n = Len(A) /\ DOMAIN A = 1..n
  BY <1>6
<1>14. PICK R : R = {s[i] : i \in 1..n} \cup C
  OBVIOUS
<1>15. s \in Seq(R) /\ children \in Seq(R) /\ Len(s) = n
  <2>1. s \in [1..n -> R]
    <3>1. s = [i \in 1..n |-> s[i]]
      BY <1>11, <1>13
    <3> QED
      BY <1>14, <3>1
  <2>2. s \in Seq(R)
    BY <2>1, SeqDef
  <2>3. children \in Seq(R)
    BY <1>2, <1>14, SeqMonotonic
  <2> QED
    BY <1>11, <1>13, <2>2, <2>3
<1>16. q = s \o children
  BY <1>10 DEF Undo!Patches
<1>17. /\ Len(q) = n + Len(children) /\ Len(children) \in Nat /\ DOMAIN q = 1..Len(q)
       /\ \A i \in 1..Len(q) : q[i] = IF i <= n THEN s[i] ELSE children[i - n]
  <2>1. Len(children) \in Nat /\ Len(q) = Len(s) + Len(children)
    <3>1. Len(children) \in Nat
      BY <1>2
    <3>2. Len(s \o children) = Len(s) + Len(children)
      BY <1>15, ConcatProperties
    <3> QED
      BY <1>16, <3>1, <3>2
  <2>2. \A i \in 1..(Len(s) + Len(children)) : q[i] = IF i <= Len(s) THEN s[i] ELSE children[i - Len(s)]
    BY <1>15, <1>16
  <2>3. q \in Seq(R)
    BY <1>15, <1>16, ConcatProperties
  <2> QED
    BY <1>15, <2>1, <2>2, <2>3
<1>18. ASSUME NEW i \in 1..Len(q) PROVE q[i].paths = {} \/ PatchOK(q[i])
  <2>1. CASE i <= n
    <3>1. i \in DOMAIN A
      BY <1>13, <1>17, <2>1
    <3> QED
      BY <1>12, <1>17, <2>1, <3>1
  <2>2. CASE ~(i <= n)
    <3>1. i - n \in 1..Len(children)
      BY <1>13, <1>17, <2>2
    <3>2. i - n \in DOMAIN children
      BY <1>2, <3>1
    <3> QED
      BY <1>17, <2>2, <3>2 DEF UndoTyped
  <2> QED
    BY <2>1, <2>2
<1> QED
  BY <1>17, <1>18

\* The clean-up of a prompt keeps the types.
LEMMA CleanUpTyped ==
  ASSUME ShapeOK, UndoTyped, NEW ok \in BOOLEAN,
         Undo!PeekFrontier \/ Undo!DeleteUndone(ok) \/ Undo!ClearFrames(ok)
  PROVE  UndoTyped'
<1>1. PICK S : history \in Seq(S)
  BY DEF ShapeOK
<1>2. PICK T : frames \in Seq(T)
  BY DEF ShapeOK
<1>3. UNCHANGED <<files, children, turns, pre, undos>> /\ phase' # "running"
  BY DEF Undo!PeekFrontier, Undo!DeleteUndone, Undo!ClearFrames, Undo!handlerVars
<1>4. turns \in Nat
  BY DEF ShapeOK
<1>5. CASE Undo!PeekFrontier
  <2>1. UNCHANGED <<history, frames>> /\ frontier' = IF frames = <<>> THEN 0 ELSE frames[Len(frames)].turn
    BY <1>5 DEF Undo!PeekFrontier, Undo!Top
  <2>2. frontier' \in 0..turns
    <3>1. CASE frames = <<>>
      BY <1>4, <2>1, <3>1
    <3>2. CASE frames # <<>>
      <4>1. Len(frames) \in DOMAIN frames
        BY <1>2, <3>2
      <4>2. frames[Len(frames)].turn \in 1..turns
        BY <4>1 DEF UndoTyped, FrameOK
      <4> QED
        BY <1>4, <2>1, <3>2, <4>2
    <3> QED
      BY <3>1, <3>2
  <2> QED
    BY <1>3, <2>1, <2>2 DEF UndoTyped
<1>6. CASE Undo!DeleteUndone(ok)
  <2>1. frames' = frames /\ frontier' = 0
    BY <1>6 DEF Undo!DeleteUndone
  <2>2. \A i \in DOMAIN history' : MessageOK(history'[i], turns)
    <3>1. CASE history' = history
      BY <3>1 DEF UndoTyped
    <3>2. CASE history' # history
      <4>1. frontier \in PromptsOf(history) /\ history' = Undo!Surviving(frontier)
        BY <1>6, <3>2, UndoPrompts DEF Undo!DeleteUndone
      <4>2. PICK k : k = Undo!target_idx(frontier)
        OBVIOUS
      <4>3. k \in DOMAIN history
        <5>1. \E i : IsPrompt(history, i) /\ history[i].turn = frontier
          BY <4>1, PromptsAre
        <5> QED
          BY <4>2, <5>1 DEF Undo!target_idx, IsPrompt
      <4>4. history' = SubSeq(history, 1, k - 1)
        BY <4>1, <4>2 DEF Undo!Surviving
      <4>5. \A i \in DOMAIN history' : i \in DOMAIN history /\ history'[i] = history[i]
        BY <1>1, <4>3, <4>4, AllButLast
      <4> QED
        BY <4>5 DEF UndoTyped
    <3> QED
      BY <3>1, <3>2
  <2>3. 0 \in 0..turns
    BY <1>4
  <2> QED
    BY <1>3, <2>1, <2>2, <2>3 DEF UndoTyped
<1>7. CASE Undo!ClearFrames(ok)
  <2>1. UNCHANGED <<history, frontier>> /\ frames' = IF ok THEN <<>> ELSE frames
    BY <1>7 DEF Undo!ClearFrames
  <2>2. \A i \in DOMAIN frames' : FrameOK(frames'[i], turns)
    BY <2>1 DEF UndoTyped
  <2> QED
    BY <1>3, <2>1, <2>2 DEF UndoTyped
<1> QED
  BY <1>5, <1>6, <1>7

\* A turn keeps the types.
LEMMA TurnTyped ==
  ASSUME ShapeOK, UndoTyped,
         \/ \E ok \in BOOLEAN : Undo!StartTurn(ok) \/ Undo!EndTurn(ok)
         \/ \E p \in Paths : Undo!ToolWrites(p) \/ Undo!ChildWrites(p)
  PROVE  UndoTyped'
<1>1. PICK S : history \in Seq(S)
  BY DEF ShapeOK
<1>2. turns \in Nat /\ turns <= MaxTurns /\ MaxTurns \in Nat
  BY UndoAssumption DEF ShapeOK, Undo!TurnsAssumption
<1>3. ASSUME NEW ok \in BOOLEAN, Undo!StartTurn(ok) PROVE UndoTyped'
  <2>1. PICK a, b : a = Undo!Prompt(turns + 1) /\ b = Undo!Start(turns + 1, files)
    OBVIOUS
  <2>2. MessageOK(a, turns + 1) /\ MessageOK(b, turns + 1)
    <3>1. turns + 1 \in 1..(turns + 1)
      BY <1>2
    <3>2. files \in Undo!Contents
      BY DEF UndoTyped
    <3>3. MessageOK(a, turns + 1)
      BY <2>1, <3>1 DEF MessageOK, Undo!Prompt
    <3>4. MessageOK(b, turns + 1)
      BY <2>1, <3>1, <3>2 DEF MessageOK, Undo!Start
    <3> QED
      BY <3>3, <3>4
  <2>3. /\ turns' = turns + 1 /\ UNCHANGED <<files, children, frames, frontier, undos>>
        /\ pre' = IF ok THEN files ELSE Undo!NoSnapshot
        /\ history' = history \o IF ok THEN <<a, b>> ELSE <<a>>
    BY <1>3, <2>1 DEF Undo!StartTurn, Undo!handlerVars
  <2>4. PICK g : g = Append(history, a)
    OBVIOUS
  <2>5. PICK R : g \in Seq(R)
    BY <1>1, <2>4, OneMore
  <2>6. \A i \in DOMAIN history : MessageOK(history[i], turns + 1)
    BY <1>2, StillTyped DEF UndoTyped
  <2>7. \A i \in DOMAIN g : MessageOK(g[i], turns + 1)
    BY <1>1, <2>2, <2>4, <2>6, OneMore
  <2>8. \A i \in DOMAIN history' : MessageOK(history'[i], turns + 1)
    <3>1. CASE ok
      <4>1. history' = Append(g, b)
        <5>1. history \in Seq(S \cup {a, b})
          BY <1>1, SeqMonotonic
        <5> QED
          BY <2>3, <2>4, <3>1, <5>1
      <4> QED
        BY <2>2, <2>5, <2>7, <4>1, OneMore
    <3>2. CASE ~ok
      <4>1. history' = g
        <5>1. history \in Seq(S \cup {a, b})
          BY <1>1, SeqMonotonic
        <5> QED
          BY <2>3, <2>4, <3>2, <5>1
      <4> QED
        BY <2>7, <4>1
    <3> QED
      BY <3>1, <3>2
  <2>9. \A i \in DOMAIN frames : FrameOK(frames[i], turns + 1)
    <3>1. 1..turns \subseteq 1..(turns + 1)
      BY <1>2
    <3> QED
      BY <3>1 DEF UndoTyped, FrameOK
  <2>10. pre' = Undo!NoSnapshot \/ pre' \in Undo!Contents
    BY <2>3 DEF UndoTyped
  <2>11. turns' >= 1 /\ frontier' \in 0..turns'
    BY <1>2, <2>3 DEF UndoTyped
  <2> QED
    BY <2>3, <2>8, <2>9, <2>10, <2>11 DEF UndoTyped
<1>4. ASSUME NEW ok \in BOOLEAN, Undo!EndTurn(ok) PROVE UndoTyped'
  <2>1. PICK c : c = {p \in Paths : pre # Undo!NoSnapshot /\ files[p] # pre[p]}
    OBVIOUS
  <2>2. PICK m : m = Undo!Patch(turns, files, c)
    OBVIOUS
  <2>3. /\ pre' = Undo!NoSnapshot /\ UNCHANGED <<files, children, frames, frontier, turns, undos>>
        /\ history' = history \/ (c # {} /\ history' = Append(history, m))
        /\ phase = "running" /\ phase' = "idle"
    BY <1>4, <2>1, <2>2 DEF Undo!EndTurn, Undo!handlerVars
  <2>4. \A i \in DOMAIN history' : MessageOK(history'[i], turns)
    <3>1. CASE history' = history
      BY <3>1 DEF UndoTyped
    <3>2. CASE history' = Append(history, m)
      <4>1. turns \in 1..turns
        BY <1>2, <2>3 DEF UndoTyped, ShapeOK
      <4>2. MessageOK(m, turns)
        BY <2>1, <2>2, <4>1 DEF MessageOK, Undo!Patch, UndoTyped
      <4> QED
        BY <1>1, <3>2, <4>2, OneMore DEF UndoTyped
    <3> QED
      BY <2>3, <3>1, <3>2
  <2> QED
    BY <2>3, <2>4 DEF UndoTyped
<1>5. ASSUME NEW p \in Paths, Undo!ToolWrites(p) \/ Undo!ChildWrites(p) PROVE UndoTyped'
  <2>1. PICK m : m = Undo!Patch(turns, files, {p})
    OBVIOUS
  <2>2. /\ files' = [x \in Paths |-> IF x \in {p} THEN turns ELSE files[x]]
        /\ UNCHANGED <<history, frames, phase, frontier, turns, pre, undos>>
        /\ children' = children \/ children' = Append(children, m)
    BY <1>5, <2>1 DEF Undo!ToolWrites, Undo!ChildWrites, Undo!Writes, Undo!handlerVars
  <2>3. files' \in Undo!Contents
    <3>1. turns \in 0..MaxTurns /\ files \in Undo!Contents
      BY <1>2 DEF UndoTyped
    <3> QED
      BY <2>2, <3>1 DEF Undo!Contents
  <2>4. PatchOK(m)
    BY <2>1 DEF PatchOK, Undo!Patch, UndoTyped
  <2>5. PICK C : children \in Seq(C)
    BY DEF UndoTyped
  <2>6. (\E R : children' \in Seq(R)) /\ \A i \in DOMAIN children' : PatchOK(children'[i])
    <3>1. CASE children' = children
      BY <2>5, <3>1 DEF UndoTyped
    <3>2. CASE children' = Append(children, m)
      BY <2>4, <2>5, <3>2, OneMore DEF UndoTyped
    <3> QED
      BY <2>2, <3>1, <3>2
  <2> QED
    BY <2>2, <2>3, <2>6 DEF UndoTyped
<1> QED
  BY <1>3, <1>4, <1>5

\* The handler of Undo keeps the types.
LEMMA UndoingTyped ==
  ASSUME ShapeOK, UndoTyped, HandlerTyped,
         \/ \E t \in 1..MaxTurns : Undo!UndoTracks(t)
         \/ Undo!UndoCollects \/ Undo!UndoGivesUp
         \/ \E i \in left : \E ps \in SUBSET patches[i].paths : Undo!UndoRestores(i, ps)
         \/ \E ok \in BOOLEAN : Undo!UndoPushes(ok)
  PROVE  UndoTyped' /\ HandlerTyped'
<1>1. PICK T : frames \in Seq(T)
  BY DEF ShapeOK
<1>2. turns \in Nat /\ MaxTurns \in Nat /\ MaxUndos \in Nat
  BY UndoAssumption DEF ShapeOK, Undo!TurnsAssumption
<1>3. UNCHANGED <<history, children, phase, frontier, turns, pre>>
  BY DEF Undo!UndoTracks, Undo!UndoCollects, Undo!UndoGivesUp, Undo!UndoRestores, Undo!Restores,
         Undo!UndoPushes, Undo!promptVars
<1>4. /\ files \in Undo!Contents /\ undos \in 0..MaxUndos
      /\ \A i \in DOMAIN frames : FrameOK(frames[i], turns)
  BY DEF UndoTyped
<1>5. ASSUME NEW t \in 1..MaxTurns, Undo!UndoTracks(t) PROVE UndoTyped' /\ HandlerTyped'
  <2>1. /\ UNCHANGED <<files, frames, patches, left>> /\ undos < MaxUndos /\ undos' = undos + 1
        /\ handling' = "tracked" /\ target' = t /\ saved' = files /\ t <= turns
    BY <1>5 DEF Undo!UndoTracks
  <2>2. undos' \in 0..MaxUndos
    BY <1>2, <1>4, <2>1
  <2>3. target' \in 0..turns /\ target' \in 1..turns
    BY <1>2, <2>1
  <2>4. UndoTyped'
    BY <1>3, <2>1, <2>2 DEF UndoTyped
  <2>5. HandlerTyped'
    BY <1>3, <1>4, <2>1, <2>3 DEF HandlerTyped
  <2> QED
    BY <2>4, <2>5
<1>6. CASE Undo!UndoCollects
  <2>1. PICK q : q = Undo!Patches(target)
    OBVIOUS
  <2>2. /\ UNCHANGED <<files, frames, target, saved, undos>>
        /\ handling = "tracked" /\ handling' = "restoring" /\ target \in PromptsOf(history)
        /\ patches' = q /\ left' = {i \in DOMAIN q : q[i].paths # {}}
    BY <1>6, <2>1, UndoPrompts DEF Undo!UndoCollects
  <2>3. DOMAIN q = 1..Len(q) /\ \A i \in 1..Len(q) : q[i].paths = {} \/ PatchOK(q[i])
    BY <2>1, <2>2, CollectedTyped
  <2>4. left' \subseteq DOMAIN patches' /\ \A i \in left' : PatchOK(patches'[i])
    BY <2>2, <2>3
  <2>5. UndoTyped'
    BY <1>3, <2>2 DEF UndoTyped
  <2>6. HandlerTyped'
    BY <1>3, <2>2, <2>4 DEF HandlerTyped
  <2> QED
    BY <2>5, <2>6
<1>7. ASSUME Undo!HandlerEnds, UNCHANGED turns PROVE HandlerTyped'
  <2>1. handling' = "none" /\ target' = 0 /\ saved' = Undo!NoSnapshot /\ left' = {}
    BY <1>7 DEF Undo!HandlerEnds
  <2>2. target' \in 0..turns'
    BY <1>2, <1>7, <2>1
  <2> QED
    BY <2>1, <2>2 DEF HandlerTyped
<1>8. CASE Undo!UndoGivesUp
  <2>1. UNCHANGED <<files, frames, undos>> /\ Undo!HandlerEnds
    BY <1>8 DEF Undo!UndoGivesUp
  <2>2. UndoTyped'
    BY <1>3, <2>1 DEF UndoTyped
  <2> QED
    BY <1>3, <1>7, <2>1, <2>2
<1>9. ASSUME NEW i \in left, NEW ps \in SUBSET patches[i].paths, Undo!UndoRestores(i, ps)
      PROVE  UndoTyped' /\ HandlerTyped'
  <2>1. /\ UNCHANGED <<frames, handling, target, saved, patches, undos>> /\ left' = left \ {i}
        /\ files' = [p \in Paths |-> IF p \in ps THEN patches[i].snap[p] ELSE files[p]]
    BY <1>9 DEF Undo!UndoRestores, Undo!Restores
  <2>2. patches[i].snap \in Undo!Contents
    BY DEF HandlerTyped, PatchOK
  <2>3. files' \in Undo!Contents
    BY <1>4, <2>1, <2>2 DEF Undo!Contents
  <2>4. UndoTyped'
    BY <1>3, <2>1, <2>3 DEF UndoTyped
  <2>5. HandlerTyped'
    BY <1>3, <2>1 DEF HandlerTyped
  <2> QED
    BY <2>4, <2>5
<1>10. ASSUME NEW ok \in BOOLEAN, Undo!UndoPushes(ok) PROVE UndoTyped' /\ HandlerTyped'
  <2>1. PICK f : f = [turn |-> target, snap |-> saved]
    OBVIOUS
  <2>2. /\ UNCHANGED <<files, undos>> /\ Undo!HandlerEnds /\ handling = "restoring"
        /\ frames' = frames \/ frames' = Append(frames, f)
    BY <1>10, <2>1 DEF Undo!UndoPushes
  <2>3. FrameOK(f, turns)
    BY <2>1, <2>2 DEF FrameOK, HandlerTyped
  <2>4. \A i \in DOMAIN frames' : FrameOK(frames'[i], turns)
    BY <1>1, <1>4, <2>2, <2>3, OneMore
  <2>5. UndoTyped'
    BY <1>3, <2>2, <2>4 DEF UndoTyped
  <2> QED
    BY <1>3, <1>7, <2>2, <2>5
<1> QED
  BY <1>5, <1>6, <1>8, <1>9, <1>10

\* The handler of Redo keeps the types.
LEMMA RedoingTyped ==
  ASSUME ShapeOK, UndoTyped, HandlerTyped,
         \/ Undo!RedoPeeks
         \/ \E ps \in SUBSET Paths : Undo!RedoRestores(ps)
         \/ \E ok \in BOOLEAN : Undo!RedoPops(ok)
  PROVE  UndoTyped' /\ HandlerTyped'
<1>1. PICK T : frames \in Seq(T)
  BY DEF ShapeOK
<1>2. turns \in Nat
  BY DEF ShapeOK
<1>3. UNCHANGED <<history, children, phase, frontier, turns, pre, undos>>
  BY DEF Undo!RedoPeeks, Undo!RedoRestores, Undo!RedoPops, Undo!promptVars
<1>4. files \in Undo!Contents /\ \A i \in DOMAIN frames : FrameOK(frames[i], turns)
  BY DEF UndoTyped
<1>5. ASSUME Undo!HandlerEnds PROVE HandlerTyped'
  <2>1. handling' = "none" /\ target' = 0 /\ saved' = Undo!NoSnapshot /\ left' = {}
    BY <1>5 DEF Undo!HandlerEnds
  <2>2. target' \in 0..turns'
    BY <1>2, <1>3, <2>1
  <2> QED
    BY <2>1, <2>2 DEF HandlerTyped
<1>6. CASE Undo!RedoPeeks
  <2>1. /\ UNCHANGED <<files, frames, target, patches, left>> /\ frames # <<>>
        /\ handling' = "peeked" /\ saved' = frames[Len(frames)].snap
    BY <1>6 DEF Undo!RedoPeeks, Undo!Top
  <2>2. Len(frames) \in DOMAIN frames
    BY <1>1, <2>1
  <2>3. saved' \in Undo!Contents
    BY <1>4, <2>1, <2>2 DEF FrameOK
  <2>4. UndoTyped'
    BY <1>3, <2>1 DEF UndoTyped
  <2>5. HandlerTyped'
    BY <1>3, <2>1, <2>3 DEF HandlerTyped
  <2> QED
    BY <2>4, <2>5
<1>7. ASSUME NEW ps \in SUBSET Paths, Undo!RedoRestores(ps) PROVE UndoTyped' /\ HandlerTyped'
  <2>1. /\ frames' = frames /\ handling = "peeked"
        /\ files' = [p \in Paths |-> IF p \in ps THEN saved[p] ELSE files[p]]
        /\ \/ handling' = "popping" /\ UNCHANGED <<target, saved, patches, left>>
           \/ Undo!HandlerEnds
    BY <1>7 DEF Undo!RedoRestores
  <2>2. saved \in Undo!Contents
    BY <2>1 DEF HandlerTyped
  <2>3. files' \in Undo!Contents
    BY <1>4, <2>1, <2>2 DEF Undo!Contents
  <2>4. UndoTyped'
    BY <1>3, <2>1, <2>3 DEF UndoTyped
  <2>5. CASE handling' = "popping" /\ UNCHANGED <<target, saved, patches, left>>
    BY <1>3, <2>2, <2>4, <2>5 DEF HandlerTyped
  <2> QED
    BY <1>5, <2>1, <2>4, <2>5
<1>8. ASSUME NEW ok \in BOOLEAN, Undo!RedoPops(ok) PROVE UndoTyped' /\ HandlerTyped'
  <2>1. /\ files' = files /\ Undo!HandlerEnds
        /\ frames' = frames \/ (frames # <<>> /\ frames' = SubSeq(frames, 1, Len(frames) - 1))
    BY <1>8 DEF Undo!RedoPops, Undo!Front
  <2>2. frames # <<>> => Len(frames) \in DOMAIN frames
    BY <1>1
  <2>3. \A i \in DOMAIN frames' : FrameOK(frames'[i], turns)
    BY <1>1, <1>4, <2>1, <2>2, AllButLast
  <2>4. UndoTyped'
    BY <1>3, <2>1, <2>3 DEF UndoTyped
  <2> QED
    BY <1>5, <2>1, <2>4
<1> QED
  BY <1>6, <1>7, <1>8

\* Every step keeps the types.
LEMMA TypedStep ==
  ASSUME ShapeOK, UndoTyped, HandlerTyped, Undo!Next
  PROVE  UndoTyped' /\ HandlerTyped'
<1>1. turns \in Nat
  BY DEF ShapeOK
<1>2. ASSUME UNCHANGED <<handling, target, saved, patches, left>>, turns' = turns \/ turns' = turns + 1
      PROVE  HandlerTyped'
  <2>1. \A t : (t \in 0..turns => t \in 0..turns') /\ (t \in 1..turns => t \in 1..turns')
    BY <1>1, <1>2
  <2> QED
    BY <1>2, <2>1 DEF HandlerTyped
<1>3. CASE \/ Undo!PeekFrontier
           \/ \E ok \in BOOLEAN : Undo!DeleteUndone(ok) \/ Undo!ClearFrames(ok)
  <2>1. UNCHANGED <<handling, target, saved, patches, left, turns>>
    BY <1>3 DEF Undo!PeekFrontier, Undo!DeleteUndone, Undo!ClearFrames, Undo!handlerVars
  <2> QED
    BY <1>2, <1>3, <2>1, CleanUpTyped
<1>4. CASE \/ \E ok \in BOOLEAN : Undo!StartTurn(ok) \/ Undo!EndTurn(ok)
           \/ \E p \in Paths : Undo!ToolWrites(p) \/ Undo!ChildWrites(p)
  <2>1. UNCHANGED <<handling, target, saved, patches, left>> /\ (turns' = turns \/ turns' = turns + 1)
    BY <1>4 DEF Undo!StartTurn, Undo!EndTurn, Undo!ToolWrites, Undo!ChildWrites, Undo!handlerVars
  <2> QED
    BY <1>2, <1>4, <2>1, TurnTyped
<1>5. CASE \/ \E t \in 1..MaxTurns : Undo!UndoTracks(t)
           \/ Undo!UndoCollects \/ Undo!UndoGivesUp
           \/ \E i \in left : \E ps \in SUBSET patches[i].paths : Undo!UndoRestores(i, ps)
           \/ \E ok \in BOOLEAN : Undo!UndoPushes(ok)
  BY <1>5, UndoingTyped
<1>6. CASE \/ Undo!RedoPeeks
           \/ \E ps \in SUBSET Paths : Undo!RedoRestores(ps)
           \/ \E ok \in BOOLEAN : Undo!RedoPops(ok)
  BY <1>6, RedoingTyped
<1> QED
  BY <1>3, <1>4, <1>5, <1>6 DEF Undo!Next

\* Nothing else is ever noted.
LEMMA MarksStep ==
  ASSUME ShapeOK, undoMarks \subseteq Marks, Undo!Next
  PROVE  undoMarks' \subseteq Marks
<1>1. Undo!RaceMark \subseteq Marks
  BY DEF Undo!RaceMark, Marks, ShapeOK
<1>2. undoMarks' \subseteq undoMarks \cup Undo!RaceMark \cup Marks
  BY DEF Undo!Next, Undo!PeekFrontier, Undo!DeleteUndone, Undo!ClearFrames, Undo!StartTurn,
         Undo!EndTurn,
         Undo!ToolWrites, Undo!ChildWrites, Undo!UndoTracks, Undo!UndoCollects, Undo!UndoGivesUp,
         Undo!UndoRestores, Undo!Restores, Undo!UndoPushes, Undo!RedoPeeks, Undo!RedoRestores,
         Undo!RedoPops, Marks
<1> QED
  BY <1>1, <1>2

LEMMA UndoTypeCorrect == AllSpec => []Undo!TypeOK
<1> DEFINE Typed == FollowInv /\ UndoTyped /\ HandlerTyped /\ undoMarks \subseteq Marks
<1>1. AllInit => Typed
  <2> SUFFICES ASSUME AllInit PROVE UndoTyped /\ HandlerTyped /\ undoMarks \subseteq Marks
    BY FollowStart
  <2>1. /\ phase = "idle" /\ files = [p \in Paths |-> 0] /\ history = <<>> /\ children = <<>> /\ frames = <<>>
        /\ pre = Undo!NoSnapshot /\ undos = 0 /\ undoMarks = {} /\ frontier = 0 /\ turns = 0
        /\ handling = "none" /\ target = 0 /\ saved = Undo!NoSnapshot /\ left = {}
    BY DEF AllInit, Undo!Init
  <2>2. 0 \in 0..MaxTurns /\ 0 \in 0..MaxUndos /\ 0 \in 0..0
    BY UndoAssumption DEF Undo!TurnsAssumption
  <2>3. children \in Seq({}) /\ DOMAIN children = {} /\ DOMAIN history = {} /\ DOMAIN frames = {}
    BY <2>1
  <2>4. files \in Undo!Contents
    BY <2>1, <2>2 DEF Undo!Contents
  <2>5. UndoTyped
    BY <2>1, <2>2, <2>3, <2>4 DEF UndoTyped
  <2>6. HandlerTyped
    BY <2>1, <2>2 DEF HandlerTyped
  <2> QED
    BY <2>1, <2>5, <2>6
<1>2. Typed /\ [AllNext]_allVars => Typed'
  <2> SUFFICES ASSUME FollowInv, UndoTyped, HandlerTyped, undoMarks \subseteq Marks, [AllNext]_allVars
               PROVE  FollowInv' /\ UndoTyped' /\ HandlerTyped' /\ undoMarks' \subseteq Marks
    OBVIOUS
  <2>1. Undo!Next \/ UNCHANGED undoVars
    BY DEF AllNext, allVars
  <2>2. CASE Undo!Next
    <3>1. ShapeOK
      BY DEF FollowInv
    <3> QED
      BY <2>2, <3>1, FollowStep, TypedStep, MarksStep
  <2>3. CASE UNCHANGED undoVars
    <3>1. UndoTyped'
      BY <2>3 DEF undoVars, UndoTyped
    <3>2. HandlerTyped' /\ undoMarks' \subseteq Marks
      BY <2>3 DEF undoVars, HandlerTyped
    <3> QED
      BY <2>3, <3>1, <3>2, FollowUnchanged
  <2> QED
    BY <2>1, <2>2, <2>3
<1>3. Typed => Undo!TypeOK
  <2> SUFFICES ASSUME ShapeOK, UndoTyped, HandlerTyped, undoMarks \subseteq Marks PROVE Undo!TypeOK
    BY DEF FollowInv
  <2>1. \A m \in Undo!Stored : MessageOK(m, turns)
    BY DEF Undo!Stored, UndoTyped
  <2>2. \A i \in DOMAIN children : children[i].snap \in Undo!Contents /\ children[i].paths \subseteq Paths
    BY DEF UndoTyped, PatchOK
  <2>3. \A i \in DOMAIN frames : frames[i].turn \in 1..turns /\ frames[i].snap \in Undo!Contents
    BY DEF UndoTyped, FrameOK
  <2>4. \A m \in Undo!Stored :
          /\ m.turn \in 1..turns
          /\ m.kind = "prompt" => m.snap = Undo!NoSnapshot
          /\ m.kind \in {"start", "patch"} => m.snap \in Undo!Contents
          /\ m.paths \subseteq Paths
    BY <2>1 DEF MessageOK
  <2>5. /\ handling \in {"none", "tracked", "restoring", "peeked", "popping"}
        /\ target \in 0..turns
        /\ IF handling = "none" THEN saved = Undo!NoSnapshot ELSE saved \in Undo!Contents
        /\ left \subseteq DOMAIN patches
        /\ \A i \in left : patches[i].snap \in Undo!Contents /\ patches[i].paths \subseteq Paths
    BY DEF HandlerTyped, ShapeOK, PatchOK
  <2>6. files \in Undo!Contents /\ turns \in 0..MaxTurns /\ frontier \in 0..turns
        /\ (pre = Undo!NoSnapshot \/ pre \in Undo!Contents) /\ wrote \in [1..MaxTurns -> SUBSET Paths]
        /\ phase \in {"idle", "peeked", "cleaning", "ready", "running"} /\ undos \in 0..MaxUndos
    BY DEF ShapeOK, UndoTyped
  <2> QED
    BY <2>2, <2>3, <2>4, <2>5, <2>6 DEF Undo!TypeOK, Marks
<1> QED
  BY <1>1, <1>2, <1>3, PTL DEF AllSpec

-----------------------------------------------------------------------------
(***************************************************************************)
(* The events of a session on their way to a client.  The proof follows    *)
(* one durable event: it is safe once the client shows it or has an        *)
(* excuse, and that never changes; until then it is still coming, or the   *)
(* batch of the request at hand has it.                                    *)
(***************************************************************************)

InJournal(e) == e \in Durable /\ seq[e] > 0
InBatch(e)   == \E i \in DOMAIN batch : batch[i] = e
IsShown(e)   == \E i \in DOMAIN shown : shown[i] = e
Queued(e)    == \E i \in DOMAIN queue : queue[i] = e
Held         == forwarder \in {"sending", "sent"}

\* Shown or excepted from NothingMissed, now and for ever.
Safe(e) == IsShown(e) \/ e \in overtaken \/ e \in excused \/ e \in Unlisted

\* The forwarder has not decided about the event, or is about to send it.
Coming(e) == stage[e] = "journaled" \/ Queued(e) \/ (forwarder = "sending" /\ inHand = e)

\* The forwarder is dead or will find that it is.
Deaf == lagged \/ forwarder = "ended"

\* The event will be overtaken once it is published.
Overtaking(e) ==
    stage[e] = "journaled" /\ \E f \in Durable : stage[f] = "published" /\ seq[f] > seq[e]

\* The numbers of the journal are taken in order and once.
NumbersOK ==
    /\ stage \in [Stream!Events -> {"new", "spawned", "journaled", "published", "failed"}]
    /\ seq \in [Stream!Events -> Nat]
    /\ nextSeq \in Nat
    /\ \A e \in Stream!Events : seq[e] < nextSeq
    /\ \A e \in Durable : seq[e] > 0 <=> stage[e] \in {"journaled", "published"}
    /\ \A e \in Ephemeral : seq[e] = 0
    /\ \A e, f \in Durable : seq[e] > 0 /\ seq[e] = seq[f] => e = f

\* The rows are in the order of their numbers.
JournalOK ==
    /\ journal \in Seq(Durable)
    /\ \A e \in Durable : seq[e] > 0 <=> \E i \in DOMAIN journal : journal[i] = e
    /\ \A i, j \in DOMAIN journal : i < j => seq[journal[i]] < seq[journal[j]]

\* A batch is the beginning of the journal.
BatchOK ==
    /\ batch \in Seq(Durable)
    /\ \A i \in DOMAIN batch : seq[batch[i]] > 0
    /\ \A i, j \in DOMAIN batch : i < j => seq[batch[i]] < seq[batch[j]]
    /\ \A e \in Durable : \A i \in DOMAIN batch :
          seq[e] > 0 /\ seq[e] <= seq[batch[i]] => InBatch(e)

\* The queue holds published events, once, in the order of the journal but for
\* those that were overtaken; the event in hand is ahead of them.
QueueOK ==
    /\ queue \in Seq(Stream!Events)
    /\ lagged \in BOOLEAN
    /\ forwarder \in {"receiving", "sending", "sent", "ended"}
    /\ \A i \in DOMAIN queue : stage[queue[i]] = "published"
    /\ \A i, j \in DOMAIN queue : i < j =>
          /\ queue[i] # queue[j]
          /\ seq[queue[i]] > seq[queue[j]] /\ queue[j] \in Durable => queue[j] \in overtaken
    /\ Held => /\ inHand \in Stream!Events /\ stage[inHand] = "published"
               /\ \A j \in DOMAIN queue :
                     /\ inHand # queue[j]
                     /\ seq[inHand] > seq[queue[j]] /\ queue[j] \in Durable
                           => queue[j] \in overtaken

\* The client's list and the connection's cursor.
ClientOK ==
    /\ shown \in Seq(Stream!Events)
    /\ \A i \in DOMAIN shown : shown[i] \in Durable => seq[shown[i]] > 0
    /\ cursor \in Nat /\ cursor < nextSeq
    /\ subscribed \in BOOLEAN
    /\ handler \in {"idle", "reopened", "subscribed", "replaying", "seeded", "loaded",
                    "registered", "seeding"}
    /\ handler \in {"subscribed", "replaying", "seeded", "registered", "seeding"} => subscribed
    /\ handler = "reopened" => ~subscribed

\* An event with a number the client or the cursor is past, and which still
\* comes, is safe, will be overtaken or is in the batch about to be sent.
PassedOK(e) ==
    Coming(e) =>
       /\ (\E i \in DOMAIN shown : shown[i] \in Durable /\ seq[e] <= seq[shown[i]])
             => Safe(e) \/ Overtaking(e)
       /\ seq[e] <= cursor => Safe(e) \/ Overtaking(e) \/ (handler = "seeded" /\ InBatch(e))

\* A subscribed client has the event, or it comes, or the forwarder is dead,
\* or the request at hand brings it.
CoverOK(e) ==
    /\ subscribed /\ handler \in {"idle", "loaded", "seeding"}
          => Safe(e) \/ Coming(e) \/ Deaf
    /\ handler \in {"replaying", "seeded", "registered", "loaded"}
          => Safe(e) \/ Coming(e) \/ Deaf \/ InBatch(e)
    /\ handler = "seeding" /\ InBatch(e) => Safe(e)

StreamInv ==
    /\ NumbersOK /\ JournalOK /\ BatchOK /\ QueueOK /\ ClientOK
    /\ \A e \in Durable : seq[e] > 0 => PassedOK(e) /\ CoverOK(e)
    /\ ShownInOrder

-----------------------------------------------------------------------------
\* A step that leaves emission and forwarding alone leaves what is known of them.
LEMMA Elsewhere ==
  ASSUME StreamInv, UNCHANGED <<Stream!emitVars, Stream!forwardVars, overtaken>>
  PROVE  /\ NumbersOK' /\ JournalOK' /\ QueueOK'
         /\ Deaf' <=> Deaf
         /\ \A e \in Durable : /\ Coming(e)' <=> Coming(e)
                               /\ Overtaking(e)' <=> Overtaking(e)
  BY DEF Stream!emitVars, Stream!forwardVars, StreamInv, NumbersOK, JournalOK, QueueOK, Held, Deaf,
         Coming, Queued, Overtaking

\* A step that leaves requests and the client alone leaves what is known of them.
LEMMA ClientElsewhere ==
  ASSUME StreamInv, UNCHANGED <<subscribed, cursor, handler, batch, shown, placed, seq>>,
         nextSeq' \in Nat, nextSeq' >= nextSeq
  PROVE  BatchOK' /\ ClientOK' /\ ShownInOrder'
<1>1. BatchOK'
  BY DEF StreamInv, BatchOK, InBatch
<1>2. ClientOK'
  BY DEF StreamInv, ClientOK, NumbersOK
<1>3. ShownInOrder'
  BY DEF StreamInv, ShownInOrder, Stream!ShownInOrder
<1> QED
  BY <1>1, <1>2, <1>3

\* emit_event.
LEMMA EmitDurableKeeps ==
  ASSUME StreamInv, NEW d \in Durable, Stream!EmitDurable(d)
  PROVE  StreamInv'
<1>1. /\ stage[d] = "new" /\ stage' = [stage EXCEPT ![d] = "spawned"]
      /\ UNCHANGED <<seq, nextSeq, journal, queue, lagged, forwarder, inHand, subscribed, cursor,
                     handler, batch, shown, placed, overtaken, excused>>
  BY DEF Stream!EmitDurable, Stream!Becomes, Stream!forwardVars, Stream!requestVars,
         Stream!clientVars
<1>2. d \in Stream!Events /\ Durable \subseteq Stream!Events
  BY DEF Stream!Events
<1>3. /\ stage'[d] = "spawned" /\ seq[d] = 0
      /\ \A x \in Stream!Events : x # d => stage'[x] = stage[x]
  BY <1>1, <1>2 DEF StreamInv, NumbersOK
<1>4. NumbersOK'
  BY <1>1, <1>2, <1>3 DEF StreamInv, NumbersOK
<1>5. JournalOK'
  BY <1>1 DEF StreamInv, JournalOK
<1>6. QueueOK'
  <2>1. \A i \in DOMAIN queue : queue[i] # d /\ queue[i] \in Stream!Events
    BY <1>1 DEF StreamInv, QueueOK
  <2>2. Held => inHand # d
    BY <1>1 DEF StreamInv, QueueOK
  <2> QED
    BY <1>1, <1>3, <2>1, <2>2 DEF StreamInv, QueueOK, Held
<1>7. ASSUME NEW e \in Durable, seq[e] > 0
      PROVE  PassedOK(e)' /\ CoverOK(e)'
  <2>1. e # d /\ stage'[e] = stage[e]
    BY <1>2, <1>3, <1>7
  <2>2. Coming(e)' <=> Coming(e)
    BY <1>1, <2>1 DEF Coming, Queued
  <2>3. Overtaking(e) => Overtaking(e)'
    BY <1>1, <1>2, <1>3, <2>1 DEF Overtaking
  <2>4. /\ Safe(e)' <=> Safe(e)
        /\ InBatch(e)' <=> InBatch(e)
        /\ Deaf' <=> Deaf
    BY <1>1 DEF Safe, IsShown, InBatch, Deaf
  <2> QED
    BY <1>1, <1>7, <2>2, <2>3, <2>4 DEF StreamInv, PassedOK, CoverOK
<1>8. BatchOK' /\ ClientOK' /\ ShownInOrder'
  BY <1>1, ClientElsewhere DEF StreamInv, NumbersOK
<1> QED
  BY <1>1, <1>4, <1>5, <1>6, <1>7, <1>8 DEF StreamInv

\* append_durable: the new row has the greatest number, so nobody is past it.
LEMMA AppendKeeps ==
  ASSUME StreamInv, NEW d \in Durable, Stream!AppendDurable(d)
  PROVE  StreamInv'
<1>1. /\ stage[d] = "spawned" /\ stage' = [stage EXCEPT ![d] = "journaled"]
      /\ seq' = [seq EXCEPT ![d] = nextSeq] /\ nextSeq' = nextSeq + 1
      /\ journal' = Append(journal, d)
      /\ UNCHANGED <<queue, lagged, forwarder, inHand, subscribed, cursor,
                     handler, batch, shown, placed, overtaken, excused>>
  BY DEF Stream!AppendDurable, Stream!Becomes, Stream!forwardVars, Stream!requestVars,
         Stream!clientVars
<1>2. d \in Stream!Events /\ Durable \subseteq Stream!Events /\ d \notin Ephemeral
  BY StreamAssumption DEF Stream!Events, Stream!EventsAssumption
<1>3. /\ stage'[d] = "journaled" /\ seq[d] = 0 /\ seq'[d] = nextSeq
      /\ nextSeq \in Nat /\ nextSeq > 0
      /\ \A x \in Stream!Events : x # d => stage'[x] = stage[x] /\ seq'[x] = seq[x]
      /\ \A x \in Stream!Events : seq[x] \in Nat /\ seq[x] < nextSeq
  BY <1>1, <1>2 DEF StreamInv, NumbersOK
<1>4. NumbersOK'
  <2>1. stage' \in [Stream!Events -> {"new", "spawned", "journaled", "published", "failed"}]
    BY <1>1 DEF StreamInv, NumbersOK
  <2>2. seq' \in [Stream!Events -> Nat] /\ nextSeq' \in Nat
    BY <1>1, <1>3 DEF StreamInv, NumbersOK
  <2>3. \A e \in Stream!Events : seq'[e] < nextSeq'
    BY <1>1, <1>3
  <2>4. \A e \in Durable : seq'[e] > 0 <=> stage'[e] \in {"journaled", "published"}
    BY <1>2, <1>3 DEF StreamInv, NumbersOK
  <2>5. \A e \in Ephemeral : seq'[e] = 0
    BY <1>2, <1>3 DEF StreamInv, NumbersOK, Stream!Events
  <2>6. \A e, f \in Durable : seq'[e] > 0 /\ seq'[e] = seq'[f] => e = f
    BY <1>2, <1>3 DEF StreamInv, NumbersOK
  <2> QED
    BY <2>1, <2>2, <2>3, <2>4, <2>5, <2>6 DEF NumbersOK
<1>5. JournalOK'
  <2>1. /\ journal \in Seq(Durable)
        /\ \A e \in Durable : seq[e] > 0 <=> \E i \in DOMAIN journal : journal[i] = e
        /\ \A i, j \in DOMAIN journal : i < j => seq[journal[i]] < seq[journal[j]]
    BY DEF StreamInv, JournalOK
  <2>2. /\ journal' \in Seq(Durable) /\ Len(journal') = Len(journal) + 1
        /\ journal'[Len(journal) + 1] = d
        /\ \A i \in 1..Len(journal) : journal'[i] = journal[i]
    BY <1>1, <2>1
  <2>3. DOMAIN journal = 1..Len(journal) /\ DOMAIN journal' = 1..(Len(journal) + 1)
        /\ Len(journal) \in Nat
    BY <2>1, <2>2
  <2>4. \A i \in DOMAIN journal : journal[i] \in Durable /\ journal[i] # d
    BY <1>3, <2>1
  <2>5. \A e \in Durable : seq'[e] > 0 <=> \E i \in DOMAIN journal' : journal'[i] = e
    <3> SUFFICES ASSUME NEW e \in Durable
                 PROVE  seq'[e] > 0 <=> \E i \in DOMAIN journal' : journal'[i] = e
      OBVIOUS
    <3>1. CASE e = d
      <4>1. Len(journal) + 1 \in DOMAIN journal'
        BY <2>3
      <4> QED
        BY <1>3, <2>2, <3>1, <4>1
    <3>2. CASE e # d
      <4>1. seq'[e] = seq[e]
        BY <1>2, <1>3, <3>2
      <4>2. (\E i \in DOMAIN journal' : journal'[i] = e) <=> \E i \in DOMAIN journal : journal[i] = e
        <5>1. \A i \in DOMAIN journal' : i \in DOMAIN journal \/ i = Len(journal) + 1
          BY <2>3
        <5>2. \A i \in DOMAIN journal : i \in DOMAIN journal'
          BY <2>3
        <5> QED
          BY <2>2, <2>3, <3>2, <5>1, <5>2
      <4> QED
        BY <2>1, <4>1, <4>2
    <3> QED
      BY <3>1, <3>2
  <2>6. ASSUME NEW i \in DOMAIN journal', NEW j \in DOMAIN journal', i < j
        PROVE  seq'[journal'[i]] < seq'[journal'[j]]
    <3>1. i \in DOMAIN journal /\ journal'[i] = journal[i]
      BY <2>2, <2>3, <2>6
    <3>2. seq'[journal'[i]] = seq[journal[i]] /\ seq[journal[i]] < nextSeq
      BY <1>2, <1>3, <2>4, <3>1
    <3>3. CASE j = Len(journal) + 1
      BY <1>3, <2>2, <3>2, <3>3
    <3>4. CASE j # Len(journal) + 1
      <4>1. j \in DOMAIN journal /\ journal'[j] = journal[j]
        BY <2>2, <2>3, <3>4
      <4>2. seq'[journal'[j]] = seq[journal[j]]
        BY <1>2, <1>3, <2>4, <4>1
      <4> QED
        BY <2>1, <2>6, <3>1, <3>2, <4>1, <4>2
    <3> QED
      BY <3>3, <3>4
  <2> QED
    BY <2>2, <2>5, <2>6 DEF JournalOK
<1>6. QueueOK'
  <2>1. \A i \in DOMAIN queue : queue[i] # d /\ queue[i] \in Stream!Events
    BY <1>1 DEF StreamInv, QueueOK
  <2>2. Held => inHand # d /\ inHand \in Stream!Events
    BY <1>1 DEF StreamInv, QueueOK
  <2>3. \A i \in DOMAIN queue : stage'[queue[i]] = stage[queue[i]] /\ seq'[queue[i]] = seq[queue[i]]
    BY <1>3, <2>1
  <2>4. Held => stage'[inHand] = stage[inHand] /\ seq'[inHand] = seq[inHand]
    BY <1>3, <2>2
  <2> QED
    BY <1>1, <2>3, <2>4 DEF StreamInv, QueueOK, Held
<1>7. BatchOK'
  <2>1. \A i \in DOMAIN batch : batch[i] \in Durable /\ batch[i] # d
    BY <1>3 DEF StreamInv, BatchOK
  <2>2. \A i \in DOMAIN batch : seq'[batch[i]] = seq[batch[i]] /\ seq[batch[i]] < nextSeq
    BY <1>2, <1>3, <2>1
  <2>3. \A e \in Durable : \A i \in DOMAIN batch :
           seq'[e] > 0 /\ seq'[e] <= seq'[batch[i]] => InBatch(e)
    BY <1>2, <1>3, <2>1, <2>2 DEF StreamInv, BatchOK
  <2> QED
    BY <1>1, <2>2, <2>3 DEF StreamInv, BatchOK, InBatch
<1>8. \A i \in DOMAIN shown : /\ shown[i] \in Stream!Events /\ shown[i] # d
                              /\ seq'[shown[i]] = seq[shown[i]] /\ seq[shown[i]] < nextSeq
  <2>1. \A i \in DOMAIN shown : shown[i] \in Stream!Events /\ shown[i] # d
    BY <1>3 DEF StreamInv, ClientOK
  <2> QED
    BY <1>3, <2>1
<1>9. ClientOK' /\ ShownInOrder'
  <2>1. ClientOK'
    BY <1>1, <1>3, <1>8 DEF StreamInv, ClientOK
  <2>2. ShownInOrder'
    BY <1>1, <1>8 DEF StreamInv, ShownInOrder, Stream!ShownInOrder
  <2> QED
    BY <2>1, <2>2
<1>10. ASSUME NEW e \in Durable, seq'[e] > 0
       PROVE  PassedOK(e)' /\ CoverOK(e)'
  <2>1. CASE e = d
    <3>1. ~(seq'[e] <= cursor') /\ Coming(e)'
      BY <1>1, <1>3, <2>1 DEF StreamInv, ClientOK, Coming
    <3>2. ~\E i \in DOMAIN shown' : shown'[i] \in Durable /\ seq'[e] <= seq'[shown'[i]]
      BY <1>1, <1>3, <1>8, <2>1
    <3>3. ~InBatch(e)'
      BY <1>1, <1>3, <2>1 DEF StreamInv, BatchOK, InBatch
    <3> QED
      BY <3>1, <3>2, <3>3 DEF PassedOK, CoverOK
  <2>2. CASE e # d
    <3>1. stage'[e] = stage[e] /\ seq'[e] = seq[e]
      BY <1>2, <1>3, <2>2
    <3>2. Coming(e)' <=> Coming(e)
      BY <1>1, <3>1 DEF Coming, Queued
    <3>3. Overtaking(e) => Overtaking(e)'
      <4> SUFFICES ASSUME Overtaking(e) PROVE Overtaking(e)'
        OBVIOUS
      <4>1. PICK f \in Durable : stage[f] = "published" /\ seq[f] > seq[e]
        BY DEF Overtaking
      <4>2. f # d /\ stage'[f] = "published" /\ seq'[f] > seq'[e]
        BY <1>1, <1>2, <1>3, <3>1, <4>1
      <4> QED
        BY <3>1, <4>2 DEF Overtaking
    <3>4. /\ Safe(e)' <=> Safe(e)
          /\ InBatch(e)' <=> InBatch(e)
          /\ Deaf' <=> Deaf
      BY <1>1 DEF Safe, IsShown, InBatch, Deaf
    <3>5. (\E i \in DOMAIN shown' : shown'[i] \in Durable /\ seq'[e] <= seq'[shown'[i]])
             => \E i \in DOMAIN shown : shown[i] \in Durable /\ seq[e] <= seq[shown[i]]
      BY <1>1, <1>8, <3>1
    <3>6. PassedOK(e) /\ CoverOK(e)
      BY <1>10, <3>1 DEF StreamInv
    <3>7. PassedOK(e)'
      BY <1>1, <3>1, <3>2, <3>3, <3>4, <3>5, <3>6 DEF PassedOK
    <3>8. CoverOK(e)'
      BY <1>1, <3>2, <3>4, <3>6 DEF CoverOK
    <3> QED
      BY <3>7, <3>8
  <2> QED
    BY <2>1, <2>2
<1> QED
  BY <1>4, <1>5, <1>6, <1>7, <1>9, <1>10 DEF StreamInv

\* A failed insert.
LEMMA AppendFailsKeeps ==
  ASSUME StreamInv, NEW d \in Durable, Stream!AppendFails(d)
  PROVE  StreamInv'
<1>1. /\ stage[d] = "spawned" /\ stage' = [stage EXCEPT ![d] = "failed"]
      /\ nextSeq' \in {nextSeq, nextSeq + 1}
      /\ UNCHANGED <<seq, journal, queue, lagged, forwarder, inHand, subscribed, cursor,
                     handler, batch, shown, placed, overtaken, excused>>
  BY DEF Stream!AppendFails, Stream!Becomes, Stream!forwardVars, Stream!requestVars,
         Stream!clientVars
<1>2. d \in Stream!Events /\ Durable \subseteq Stream!Events
  BY DEF Stream!Events
<1>3. /\ stage'[d] = "failed" /\ seq[d] = 0
      /\ \A x \in Stream!Events : x # d => stage'[x] = stage[x]
      /\ nextSeq' \in Nat /\ nextSeq' >= nextSeq
  BY <1>1, <1>2 DEF StreamInv, NumbersOK
<1>4. NumbersOK'
  BY <1>1, <1>2, <1>3 DEF StreamInv, NumbersOK
<1>5. JournalOK'
  BY <1>1 DEF StreamInv, JournalOK
<1>6. QueueOK'
  <2>1. \A i \in DOMAIN queue : queue[i] # d /\ queue[i] \in Stream!Events
    BY <1>1 DEF StreamInv, QueueOK
  <2>2. Held => inHand # d
    BY <1>1 DEF StreamInv, QueueOK
  <2> QED
    BY <1>1, <1>3, <2>1, <2>2 DEF StreamInv, QueueOK, Held
<1>7. ASSUME NEW e \in Durable, seq[e] > 0
      PROVE  PassedOK(e)' /\ CoverOK(e)'
  <2>1. e # d /\ stage'[e] = stage[e]
    BY <1>2, <1>3, <1>7
  <2>2. Coming(e)' <=> Coming(e)
    BY <1>1, <2>1 DEF Coming, Queued
  <2>3. Overtaking(e) => Overtaking(e)'
    BY <1>1, <1>2, <1>3, <2>1 DEF Overtaking
  <2>4. /\ Safe(e)' <=> Safe(e)
        /\ InBatch(e)' <=> InBatch(e)
        /\ Deaf' <=> Deaf
    BY <1>1 DEF Safe, IsShown, InBatch, Deaf
  <2> QED
    BY <1>1, <1>7, <2>2, <2>3, <2>4 DEF StreamInv, PassedOK, CoverOK
<1>8. BatchOK' /\ ClientOK' /\ ShownInOrder'
  BY <1>1, <1>3, ClientElsewhere
<1> QED
  BY <1>1, <1>4, <1>5, <1>6, <1>7, <1>8 DEF StreamInv

\* What fanout.publish does to the queue, told of every event.
Published(d) ==
    /\ \/ Deaf /\ UNCHANGED <<queue, lagged>>
       \/ queue' = <<>> /\ lagged' = TRUE
       \/ queue' = Append(queue, d) /\ UNCHANGED lagged
    /\ stage[d] # "published" /\ stage' = [stage EXCEPT ![d] = "published"]
    /\ UNCHANGED <<seq, nextSeq, journal, forwarder, inHand, subscribed, cursor, handler, batch,
                   shown, placed, excused>>

\* A published event is queued behind all others, and whoever is ahead of it
\* with a greater number has overtaken it.
LEMMA PublishedQueue ==
  ASSUME StreamInv, NEW d \in Stream!Events, Published(d), overtaken \subseteq overtaken',
         \A f \in Durable : d \in Durable /\ stage[f] = "published" /\ seq[f] > seq[d]
                               => d \in overtaken'
  PROVE  /\ QueueOK'
         /\ Deaf => Deaf'
         /\ Queued(d)' \/ Deaf'
         /\ \A x \in Stream!Events :
               x # d => (Queued(x)' => Queued(x)) /\ (Queued(x) => Queued(x)' \/ Deaf')
<1>0. /\ queue \in Seq(Stream!Events) /\ Len(queue) \in Nat /\ DOMAIN queue = 1..Len(queue)
      /\ \A i \in DOMAIN queue : queue[i] \in Stream!Events /\ stage[queue[i]] = "published"
      /\ \A i \in DOMAIN queue : queue[i] # d
  BY DEF StreamInv, QueueOK, Published
<1>1. /\ stage'[d] = "published" /\ seq' = seq
      /\ \A x \in Stream!Events : stage[x] = "published" => stage'[x] = "published"
  BY DEF Published, StreamInv, NumbersOK
<1>2. /\ forwarder' = forwarder /\ inHand' = inHand /\ (Held' <=> Held)
      /\ Held => inHand \in Stream!Events /\ stage[inHand] = "published" /\ inHand # d
  BY DEF Published, Held, StreamInv, QueueOK
<1>3. lagged' \in BOOLEAN /\ forwarder' \in {"receiving", "sending", "sent", "ended"}
  BY DEF Published, StreamInv, QueueOK
<1>4. \A f \in Stream!Events :
         stage[f] = "published" /\ seq[f] > seq[d] /\ d \in Durable => d \in overtaken'
  <2> SUFFICES ASSUME NEW f \in Stream!Events,
                      stage[f] = "published", seq[f] > seq[d], d \in Durable
               PROVE  d \in overtaken'
    OBVIOUS
  <2>1. f \in Durable
    BY DEF StreamInv, NumbersOK, Stream!Events
  <2> QED
    BY <2>1
<1>5. CASE Deaf /\ UNCHANGED <<queue, lagged>>
  <2>1. QueueOK'
    BY <1>0, <1>1, <1>2, <1>3, <1>5 DEF StreamInv, QueueOK
  <2> QED
    BY <1>2, <1>5, <2>1 DEF Deaf, Queued
<1>6. CASE queue' = <<>> /\ lagged' = TRUE
  <2>1. queue' \in Seq(Stream!Events) /\ DOMAIN queue' = {}
    BY <1>6
  <2>2. QueueOK'
    BY <1>1, <1>2, <1>3, <2>1 DEF QueueOK
  <2> QED
    BY <1>6, <2>1, <2>2 DEF Deaf, Queued
<1>7. CASE queue' = Append(queue, d) /\ UNCHANGED lagged
  <2>1. /\ queue' \in Seq(Stream!Events) /\ Len(queue') = Len(queue) + 1
        /\ DOMAIN queue' = 1..(Len(queue) + 1)
        /\ queue'[Len(queue) + 1] = d
        /\ \A i \in 1..Len(queue) : queue'[i] = queue[i]
    BY <1>0, <1>7
  <2>2. \A i \in DOMAIN queue' :
           (i \in DOMAIN queue /\ queue'[i] = queue[i]) \/ (i = Len(queue) + 1 /\ queue'[i] = d)
    BY <1>0, <2>1
  <2>3. \A i \in DOMAIN queue' : stage'[queue'[i]] = "published"
    BY <1>0, <1>1, <2>2
  <2>4. ASSUME NEW i \in DOMAIN queue', NEW j \in DOMAIN queue', i < j
        PROVE  /\ queue'[i] # queue'[j]
               /\ seq'[queue'[i]] > seq'[queue'[j]] /\ queue'[j] \in Durable
                     => queue'[j] \in overtaken'
    <3>1. i \in DOMAIN queue /\ queue'[i] = queue[i]
      BY <1>0, <2>1, <2>2, <2>4
    <3>2. CASE j \in DOMAIN queue /\ queue'[j] = queue[j]
      BY <1>1, <2>4, <3>1, <3>2 DEF StreamInv, QueueOK
    <3>3. CASE queue'[j] = d
      BY <1>0, <1>1, <1>4, <3>1, <3>3
    <3> QED
      BY <2>2, <3>2, <3>3
  <2>5. ASSUME Held, NEW j \in DOMAIN queue'
        PROVE  /\ inHand # queue'[j]
               /\ seq'[inHand] > seq'[queue'[j]] /\ queue'[j] \in Durable
                     => queue'[j] \in overtaken'
    <3>1. CASE j \in DOMAIN queue /\ queue'[j] = queue[j]
      BY <1>1, <2>5, <3>1 DEF StreamInv, QueueOK
    <3>2. CASE queue'[j] = d
      BY <1>1, <1>2, <1>4, <2>5, <3>2
    <3> QED
      BY <2>2, <3>1, <3>2
  <2>6. QueueOK'
    BY <1>1, <1>2, <1>3, <2>1, <2>3, <2>4, <2>5 DEF QueueOK
  <2>7. Queued(d)'
    <3>1. Len(queue) + 1 \in DOMAIN queue'
      BY <1>0, <2>1
    <3> QED
      BY <2>1, <3>1 DEF Queued
  <2>8. ASSUME NEW x \in Stream!Events, x # d
        PROVE  Queued(x)' <=> Queued(x)
    <3>1. \A i \in DOMAIN queue : i \in DOMAIN queue' /\ queue'[i] = queue[i]
      BY <1>0, <2>1
    <3> QED
      BY <2>2, <2>8, <3>1 DEF Queued
  <2> QED
    BY <1>2, <1>7, <2>6, <2>7, <2>8 DEF Deaf
<1> QED
  BY <1>5, <1>6, <1>7 DEF Published

\* Publishing keeps the invariant if the events it overtakes are noted.
LEMMA PublishedKeeps ==
  ASSUME StreamInv, NEW d \in Stream!Events, Published(d), overtaken \subseteq overtaken',
         stage[d] \in IF d \in Durable THEN {"journaled"} ELSE {"new"},
         \A f \in Durable : d \in Durable /\ stage[f] = "published" /\ seq[f] > seq[d]
                               => d \in overtaken'
  PROVE  StreamInv'
<1>1. /\ QueueOK'
      /\ Deaf => Deaf'
      /\ Queued(d)' \/ Deaf'
      /\ \A x \in Stream!Events :
            x # d => (Queued(x)' => Queued(x)) /\ (Queued(x) => Queued(x)' \/ Deaf')
  BY PublishedQueue
<1>2. /\ stage' = [stage EXCEPT ![d] = "published"]
      /\ UNCHANGED <<seq, nextSeq, journal, forwarder, inHand, subscribed, cursor, handler, batch,
                     shown, placed, excused>>
  BY DEF Published
<1>3. /\ stage'[d] = "published"
      /\ \A x \in Stream!Events : x # d => stage'[x] = stage[x]
      /\ Durable \subseteq Stream!Events
  BY <1>2 DEF StreamInv, NumbersOK, Stream!Events
<1>4. NumbersOK'
  BY <1>2, <1>3 DEF StreamInv, NumbersOK
<1>5. JournalOK'
  BY <1>2 DEF StreamInv, JournalOK
<1>6. BatchOK' /\ ClientOK' /\ ShownInOrder'
  BY <1>2, ClientElsewhere DEF StreamInv, NumbersOK
<1>7. ASSUME NEW e \in Durable, seq[e] > 0
      PROVE  PassedOK(e)' /\ CoverOK(e)'
  <2>1. PassedOK(e) /\ CoverOK(e)
    BY <1>7 DEF StreamInv
  <2>2. Safe(e) => Safe(e)'
    BY <1>2 DEF Safe, IsShown
  <2>3. InBatch(e)' <=> InBatch(e)
    BY <1>2 DEF InBatch
  <2>4. CASE e = d
    <3>1. Coming(e) /\ (Coming(e)' \/ Deaf')
      BY <1>1, <2>4 DEF Coming
    <3>2. Overtaking(e) => e \in overtaken'
      BY <2>4 DEF Overtaking
    <3>3. PassedOK(e)'
      BY <1>2, <2>1, <2>2, <2>3, <3>1, <3>2 DEF PassedOK, Safe
    <3>4. CoverOK(e)'
      BY <1>2, <2>1, <2>2, <2>3, <3>1 DEF CoverOK
    <3> QED
      BY <3>3, <3>4
  <2>5. CASE e # d
    <3>1. stage'[e] = stage[e]
      BY <1>3, <2>5
    <3>2. (Coming(e)' => Coming(e)) /\ (Coming(e) => Coming(e)' \/ Deaf')
      BY <1>1, <1>2, <1>3, <2>5, <3>1 DEF Coming
    <3>3. Overtaking(e) => Overtaking(e)'
      BY <1>2, <1>3, <3>1 DEF Overtaking
    <3>4. PassedOK(e)'
      BY <1>2, <2>1, <2>2, <2>3, <3>2, <3>3 DEF PassedOK
    <3>5. CoverOK(e)'
      BY <1>1, <1>2, <2>1, <2>2, <2>3, <3>2 DEF CoverOK
    <3> QED
      BY <3>4, <3>5
  <2> QED
    BY <2>4, <2>5
<1> QED
  BY <1>1, <1>2, <1>4, <1>5, <1>6, <1>7 DEF StreamInv

\* An ephemeral and a durable event reach the fanout.
LEMMA PublishKeeps ==
  ASSUME StreamInv,
         \/ \E d \in Ephemeral : Stream!EmitEphemeral(d)
         \/ \E d \in Durable : Stream!PublishDurable(d)
  PROVE  StreamInv'
<1>1. ASSUME NEW d \in Ephemeral, Stream!EmitEphemeral(d) PROVE StreamInv'
  <2>1. Published(d) /\ overtaken' = overtaken /\ stage[d] = "new"
    BY <1>1 DEF Stream!EmitEphemeral, Stream!Publish, Stream!Becomes,
                Stream!requestVars, Stream!clientVars, Published, Deaf
  <2>2. d \in Stream!Events /\ d \notin Durable
    BY StreamAssumption DEF Stream!Events, Stream!EventsAssumption
  <2> QED
    BY <2>1, <2>2, PublishedKeeps
<1>2. ASSUME NEW d \in Durable, Stream!PublishDurable(d) PROVE StreamInv'
  <2>1. Published(d) /\ stage[d] = "journaled"
    BY <1>2 DEF Stream!PublishDurable, Stream!Publish, Stream!Becomes,
                Stream!requestVars, Stream!clientVars, Published, Deaf
  <2>2. overtaken' = IF \E f \in Stream!Journal : stage[f] = "published" /\ seq[f] > seq[d]
                     THEN overtaken \cup {d} ELSE overtaken
    BY <1>2 DEF Stream!PublishDurable
  <2>3. d \in Stream!Events /\ seq[d] \in Nat
    BY DEF Stream!Events, StreamInv, NumbersOK
  <2>4. \A f \in Durable : stage[f] = "published" /\ seq[f] > seq[d] => d \in overtaken'
    <3>1. \A f \in Durable : seq[f] \in Nat
      BY DEF Stream!Events, StreamInv, NumbersOK
    <3>2. \A f \in Durable : seq[f] > seq[d] => f \in Stream!Journal
      BY <2>3, <3>1 DEF Stream!Journal
    <3> QED
      BY <2>2, <3>2
  <2>5. overtaken \subseteq overtaken'
    BY <2>2
  <2> QED
    BY <2>1, <2>3, <2>4, <2>5, PublishedKeeps
<1> QED
  BY <1>1, <1>2

\* An event that still comes behind the event in hand is overtaken, or will be,
\* if its number is not greater.
LEMMA BehindHand ==
  ASSUME StreamInv, Held, NEW e \in Durable, seq[e] > 0, e # inHand, seq[e] <= seq[inHand],
         stage[e] = "journaled" \/ Queued(e)
  PROVE  e \in overtaken \/ Overtaking(e)
<1>1. inHand \in Stream!Events /\ stage[inHand] = "published"
  BY DEF StreamInv, QueueOK
<1>2. seq[e] \in Nat /\ seq[inHand] \in Nat
  BY <1>1 DEF StreamInv, NumbersOK, Stream!Events
<1>3. inHand \in Durable
  BY <1>1, <1>2 DEF StreamInv, NumbersOK, Stream!Events
<1>4. seq[e] # seq[inHand]
  BY <1>3 DEF StreamInv, NumbersOK
<1>5. seq[inHand] > seq[e]
  BY <1>2, <1>4
<1>6. CASE stage[e] = "journaled"
  BY <1>1, <1>3, <1>5, <1>6 DEF Overtaking
<1>7. CASE Queued(e)
  BY <1>5, <1>7 DEF Queued, StreamInv, QueueOK
<1> QED
  BY <1>6, <1>7

\* The forwarder takes the head of its queue and forwards or drops it.
LEMMA ReceiveKeeps ==
  ASSUME StreamInv, Stream!ReceiveEvent
  PROVE  StreamInv'
<1>1. PICK h : h = Head(queue)
  OBVIOUS
<1>2. /\ forwarder = "receiving" /\ ~lagged /\ queue # <<>> /\ queue' = Tail(queue)
      /\ UNCHANGED <<stage, seq, nextSeq, journal, lagged, subscribed, cursor, handler, batch,
                     shown, placed, overtaken>>
      /\ IF Stream!ShouldForward(h) THEN forwarder' = "sending" /\ inHand' = h
                                    ELSE forwarder' = forwarder /\ inHand' = inHand
      /\ excused' = IF ~subscribed /\ handler = "loaded"
                    THEN excused \cup (({h} \cap Durable) \ Stream!ToSet(batch)) ELSE excused
  BY <1>1 DEF Stream!ReceiveEvent, Stream!emitVars, Stream!requestVars, Stream!clientVars
<1>3. /\ queue \in Seq(Stream!Events) /\ Len(queue) \in Nat /\ Len(queue) > 0
      /\ DOMAIN queue = 1..Len(queue) /\ h = queue[1] /\ 1 \in DOMAIN queue
      /\ h \in Stream!Events /\ stage[h] = "published"
  <2>1. queue \in Seq(Stream!Events)
    BY DEF StreamInv, QueueOK
  <2>2. Len(queue) \in Nat /\ Len(queue) > 0 /\ DOMAIN queue = 1..Len(queue) /\ h = queue[1]
    BY <1>1, <1>2, <2>1
  <2>3. 1 \in DOMAIN queue
    BY <2>2
  <2> QED
    BY <2>1, <2>2, <2>3 DEF StreamInv, QueueOK
<1>4. /\ queue' \in Seq(Stream!Events) /\ DOMAIN queue' = 1..(Len(queue) - 1)
      /\ \A i \in DOMAIN queue' : queue'[i] = queue[i + 1] /\ i + 1 \in DOMAIN queue
  BY <1>2, <1>3
<1>5. \A i \in DOMAIN queue : i = 1 \/ (i - 1 \in DOMAIN queue' /\ queue'[i - 1] = queue[i])
  BY <1>2, <1>3, <1>4
<1>6. \A j \in DOMAIN queue' :
         /\ h # queue'[j]
         /\ seq[h] > seq[queue'[j]] /\ queue'[j] \in Durable => queue'[j] \in overtaken
  BY <1>3, <1>4 DEF StreamInv, QueueOK
<1>7. QueueOK'
  <2>1. \A i \in DOMAIN queue' : stage'[queue'[i]] = "published"
    BY <1>2, <1>4 DEF StreamInv, QueueOK
  <2>2. ASSUME NEW i \in DOMAIN queue', NEW j \in DOMAIN queue', i < j
        PROVE  /\ queue'[i] # queue'[j]
               /\ seq'[queue'[i]] > seq'[queue'[j]] /\ queue'[j] \in Durable
                     => queue'[j] \in overtaken'
    <3>1. /\ queue'[i] = queue[i + 1] /\ queue'[j] = queue[j + 1]
          /\ i + 1 \in DOMAIN queue /\ j + 1 \in DOMAIN queue /\ i + 1 < j + 1
      BY <1>4, <2>2
    <3> QED
      BY <1>2, <3>1 DEF StreamInv, QueueOK
  <2>3. Held' => inHand' = h
    BY <1>2 DEF Held
  <2>4. lagged' \in BOOLEAN /\ forwarder' \in {"receiving", "sending", "sent", "ended"}
    BY <1>2 DEF StreamInv, QueueOK
  <2> QED
    BY <1>2, <1>3, <1>4, <1>6, <2>1, <2>2, <2>3, <2>4 DEF QueueOK
<1>8. NumbersOK' /\ JournalOK'
  BY <1>2 DEF StreamInv, NumbersOK, JournalOK
<1>9. BatchOK' /\ ClientOK' /\ ShownInOrder'
  BY <1>2, ClientElsewhere DEF StreamInv, NumbersOK
<1>10. ASSUME NEW e \in Durable, seq[e] > 0
       PROVE  PassedOK(e)' /\ CoverOK(e)'
  <2>1. PassedOK(e) /\ CoverOK(e)
    BY <1>10 DEF StreamInv
  <2>2. Safe(e) => Safe(e)'
    BY <1>2 DEF Safe, IsShown
  <2>3. /\ InBatch(e)' <=> InBatch(e)
        /\ Overtaking(e)' <=> Overtaking(e)
        /\ ~Deaf
    BY <1>2 DEF InBatch, Overtaking, Deaf
  <2>4. CASE e # h
    <3>1. Queued(e)' <=> Queued(e)
      BY <1>3, <1>4, <1>5, <2>4 DEF Queued
    <3>2. Coming(e)' <=> Coming(e)
      BY <1>2, <2>4, <3>1 DEF Coming
    <3>3. PassedOK(e)'
      BY <1>2, <2>1, <2>2, <2>3, <3>2 DEF PassedOK
    <3>4. CoverOK(e)'
      BY <1>2, <2>1, <2>2, <2>3, <3>2 DEF CoverOK
    <3> QED
      BY <3>3, <3>4
  <2>5. CASE e = h
    <3>1. Coming(e) /\ ~Overtaking(e)
      BY <1>3, <2>5 DEF Coming, Queued, Overtaking
    <3>2. CASE Stream!ShouldForward(h)
      <4>1. Coming(e)'
        BY <1>2, <2>5, <3>2 DEF Coming
      <4>2. PassedOK(e)'
        BY <1>2, <2>1, <2>2, <2>3, <3>1 DEF PassedOK
      <4>3. CoverOK(e)'
        BY <1>2, <2>1, <2>2, <2>3, <4>1 DEF CoverOK
      <4> QED
        BY <4>2, <4>3
    <3>3. CASE ~Stream!ShouldForward(h)
      <4>1. ~Queued(e)'
        BY <1>6, <2>5 DEF Queued
      <4>2. ~Coming(e)'
        BY <1>2, <1>3, <2>5, <3>3, <4>1 DEF Coming
      <4>3. cursor \in Nat /\ seq[e] \in Nat /\ (subscribed => seq[e] <= cursor)
        BY <2>5, <3>3
           DEF Stream!ShouldForward, StreamInv, ClientOK, NumbersOK, Stream!Events
      <4>4. subscribed => Safe(e) \/ (handler = "seeded" /\ InBatch(e))
        BY <2>1, <3>1, <4>3 DEF PassedOK
      <4>5. handler = "loaded" /\ ~subscribed => e \in excused' \/ InBatch(e)
        BY <1>2, <2>5 DEF InBatch, Stream!ToSet
      <4>6. handler \in {"replaying", "seeded", "registered", "seeding"} => subscribed
        BY DEF StreamInv, ClientOK
      <4>7. PassedOK(e)'
        BY <4>2 DEF PassedOK
      <4>8. CoverOK(e)'
        <5>1. subscribed /\ handler \in {"idle", "loaded", "seeding"} => Safe(e)'
          BY <2>2, <4>4
        <5>2. handler \in {"replaying", "seeded", "registered", "loaded"} => Safe(e)' \/ InBatch(e)
          <6>1. e \in excused' => Safe(e)'
            BY DEF Safe
          <6> QED
            BY <2>2, <4>4, <4>5, <4>6, <6>1
        <5>3. handler = "seeding" => Safe(e)'
          BY <4>6, <5>1
        <5> QED
          BY <1>2, <2>3, <5>1, <5>2, <5>3 DEF CoverOK
      <4> QED
        BY <4>7, <4>8
    <3> QED
      BY <3>2, <3>3
  <2> QED
    BY <2>4, <2>5
<1> QED
  BY <1>2, <1>7, <1>8, <1>9, <1>10 DEF StreamInv

\* The forwarder learns that it lagged, and ends.
LEMMA LaggedKeeps ==
  ASSUME StreamInv, Stream!ReceiveLagged
  PROVE  StreamInv'
<1>1. /\ forwarder = "receiving" /\ lagged /\ forwarder' = "ended" /\ lagged' = FALSE
      /\ UNCHANGED <<stage, seq, nextSeq, journal, queue, inHand, subscribed, cursor, handler,
                     batch, shown, placed, overtaken, excused>>
  BY DEF Stream!ReceiveLagged, Stream!emitVars, Stream!requestVars, Stream!clientVars
<1>2. NumbersOK' /\ JournalOK' /\ QueueOK'
  <2>1. NumbersOK' /\ JournalOK'
    BY <1>1 DEF StreamInv, NumbersOK, JournalOK
  <2>2. ~Held'
    BY <1>1 DEF Held
  <2>3. QueueOK'
    BY <1>1, <2>2 DEF StreamInv, QueueOK
  <2> QED
    BY <2>1, <2>3
<1>3. BatchOK' /\ ClientOK' /\ ShownInOrder'
  BY <1>1, ClientElsewhere DEF StreamInv, NumbersOK
<1>4. ASSUME NEW e \in Durable, seq[e] > 0
      PROVE  PassedOK(e)' /\ CoverOK(e)'
  <2>1. PassedOK(e) /\ CoverOK(e)
    BY <1>4 DEF StreamInv
  <2>2. /\ Safe(e)' <=> Safe(e)
        /\ InBatch(e)' <=> InBatch(e)
        /\ Overtaking(e)' <=> Overtaking(e)
        /\ Coming(e)' <=> Coming(e)
        /\ Deaf'
    BY <1>1 DEF Safe, IsShown, InBatch, Overtaking, Coming, Queued, Deaf
  <2>3. PassedOK(e)'
    BY <1>1, <2>1, <2>2 DEF PassedOK
  <2>4. CoverOK(e)'
    BY <1>1, <2>1, <2>2 DEF CoverOK
  <2> QED
    BY <2>3, <2>4
<1> QED
  BY <1>1, <1>2, <1>3, <1>4 DEF StreamInv

\* The forwarder is done with the event in hand: the client lists it, or it is
\* safe without, and the client's list has lost no durable event.
LEMMA SentKeeps ==
  ASSUME StreamInv, forwarder = "sending",
         forwarder' = "receiving" \/ (forwarder' = "sent" /\ inHand' = inHand),
         UNCHANGED <<stage, seq, nextSeq, journal, queue, lagged, subscribed, cursor, handler,
                     batch, overtaken, excused>>,
         shown' \in Seq(Stream!Events),
         \A i \in DOMAIN shown' :
            (i \in DOMAIN shown /\ shown'[i] = shown[i]) \/ shown'[i] = inHand,
         \A i \in DOMAIN shown : shown[i] \in Durable => i \in DOMAIN shown' /\ shown'[i] = shown[i],
         inHand \in Durable => (\E i \in DOMAIN shown' : shown'[i] = inHand) \/ Safe(inHand),
         ShownInOrder'
  PROVE  StreamInv'
<1>1. PICK h : h = inHand
  OBVIOUS
<1>2. /\ h \in Stream!Events /\ stage[h] = "published"
      /\ \A j \in DOMAIN queue : h # queue[j]
  BY <1>1 DEF StreamInv, QueueOK, Held
<1>3. h \in Durable => seq[h] > 0
  BY <1>2 DEF StreamInv, NumbersOK
<1>4. NumbersOK' /\ JournalOK' /\ QueueOK'
  <2>1. NumbersOK' /\ JournalOK'
    BY DEF StreamInv, NumbersOK, JournalOK
  <2>2. Held' => Held /\ inHand' = inHand
    BY DEF Held
  <2>3. QueueOK'
    BY <2>2 DEF StreamInv, QueueOK
  <2> QED
    BY <2>1, <2>3
<1>5. BatchOK'
  BY DEF StreamInv, BatchOK, InBatch
<1>6. ClientOK'
  <2>1. \A i \in DOMAIN shown' : shown'[i] \in Durable => seq[shown'[i]] > 0
    BY <1>1, <1>3 DEF StreamInv, ClientOK
  <2> QED
    BY <2>1 DEF StreamInv, ClientOK
<1>7. ASSUME NEW e \in Durable, seq[e] > 0
      PROVE  PassedOK(e)' /\ CoverOK(e)'
  <2>1. PassedOK(e) /\ CoverOK(e)
    BY <1>7 DEF StreamInv
  <2>2. IsShown(e) => IsShown(e)'
    BY DEF IsShown
  <2>3. Safe(e) => Safe(e)'
    BY <2>2 DEF Safe
  <2>4. /\ InBatch(e)' <=> InBatch(e)
        /\ Overtaking(e)' <=> Overtaking(e)
        /\ Queued(e)' <=> Queued(e)
        /\ Deaf' <=> Deaf
    BY DEF InBatch, Overtaking, Queued, Deaf
  <2>5. CASE e = h
    <3>1. ~Coming(e)'
      BY <1>2, <2>4, <2>5 DEF Coming, Queued
    <3>2. Safe(e)'
      BY <1>1, <2>3, <2>5 DEF Safe, IsShown
    <3> QED
      BY <3>1, <3>2 DEF PassedOK, CoverOK
  <2>6. CASE e # h
    <3>1. Coming(e)' <=> Coming(e)
      BY <1>1, <2>4, <2>6 DEF Coming
    <3>2. CoverOK(e)'
      BY <2>1, <2>3, <2>4, <3>1 DEF CoverOK
    <3>3. ASSUME Coming(e), NEW i \in DOMAIN shown', shown'[i] \in Durable, seq[e] <= seq[shown'[i]]
          PROVE  Safe(e)' \/ Overtaking(e)'
      <4>1. CASE i \in DOMAIN shown /\ shown'[i] = shown[i]
        BY <2>1, <2>3, <2>4, <3>3, <4>1 DEF PassedOK
      <4>2. CASE shown'[i] = h
        <5>1. stage[e] = "journaled" \/ Queued(e)
          BY <1>1, <2>6, <3>3 DEF Coming
        <5>2. e \in overtaken \/ Overtaking(e)
          BY <1>1, <1>7, <2>6, <3>3, <4>2, <5>1, BehindHand DEF Held
        <5> QED
          BY <2>3, <2>4, <5>2 DEF Safe
      <4> QED
        BY <1>1, <4>1, <4>2
    <3>4. PassedOK(e)'
      BY <2>1, <2>3, <2>4, <3>1, <3>3 DEF PassedOK
    <3> QED
      BY <3>2, <3>4
  <2> QED
    BY <2>5, <2>6
<1> QED
  BY <1>4, <1>5, <1>6, <1>7 DEF StreamInv

\* The stored answer takes the place of the item of its deltas.
LEMMA PlaceInOrder ==
  ASSUME StreamInv, NEW p \in DOMAIN shown, shown[p] \in Deltas, NEW h \in Durable,
         shown' = [shown EXCEPT ![p] = h], placed' = placed \cup {h}, seq' = seq
  PROVE  /\ shown' \in Seq(Stream!Events)
         /\ \A i \in DOMAIN shown' :
               (i \in DOMAIN shown /\ shown'[i] = shown[i]) \/ shown'[i] = h
         /\ \A i \in DOMAIN shown : shown[i] \in Durable => i \in DOMAIN shown' /\ shown'[i] = shown[i]
         /\ IsShown(h)'
         /\ ShownInOrder'
<1>1. shown \in Seq(Stream!Events) /\ h \in Stream!Events
  BY DEF StreamInv, ClientOK, Stream!Events
<1>2. /\ shown' \in Seq(Stream!Events) /\ DOMAIN shown' = DOMAIN shown /\ shown'[p] = h
      /\ \A i \in DOMAIN shown : i # p => shown'[i] = shown[i]
  BY <1>1
<1>3. shown[p] \notin Durable
  BY StreamAssumption DEF Stream!EventsAssumption
<1>4. ASSUME NEW i \in DOMAIN shown', NEW j \in DOMAIN shown', i < j,
             \A k \in i..j : shown'[k] \in Durable \ placed'
      PROVE  seq[shown'[i]] < seq[shown'[j]]
  <2>1. DOMAIN shown = 1..Len(shown) /\ Len(shown) \in Nat
    BY <1>1
  <2>2. \A k \in i..j : k \in DOMAIN shown /\ k # p
    BY <1>2, <1>4, <2>1
  <2>3. \A k \in i..j : shown'[k] = shown[k] /\ shown[k] \in Durable \ placed
    BY <1>2, <1>4, <2>2
  <2>4. i \in i..j /\ j \in i..j
    BY <1>2, <1>4, <2>1
  <2> QED
    BY <1>2, <1>4, <2>3, <2>4 DEF StreamInv, ShownInOrder, Stream!ShownInOrder
<1> QED
  BY <1>2, <1>3, <1>4 DEF IsShown, ShownInOrder, Stream!ShownInOrder

\* An event is appended unless the last of the list is as new.
LEMMA AppendInOrder ==
  ASSUME StreamInv, NEW h \in Stream!Events, NEW last,
         last = IF shown = <<>> \/ shown[Len(shown)] \in Ephemeral THEN -1
                ELSE seq[shown[Len(shown)]],
         ~(h \in Durable /\ seq[h] <= last),
         shown' = Append(shown, h), UNCHANGED <<seq, placed>>
  PROVE  /\ shown' \in Seq(Stream!Events)
         /\ \A i \in DOMAIN shown' :
               (i \in DOMAIN shown /\ shown'[i] = shown[i]) \/ shown'[i] = h
         /\ \A i \in DOMAIN shown : i \in DOMAIN shown' /\ shown'[i] = shown[i]
         /\ IsShown(h)'
         /\ ShownInOrder'
<1>1. PICK m : m = Len(shown)
  OBVIOUS
<1>2. shown \in Seq(Stream!Events) /\ m \in Nat /\ DOMAIN shown = 1..m
  BY <1>1 DEF StreamInv, ClientOK
<1>3. /\ shown' \in Seq(Stream!Events) /\ DOMAIN shown' = 1..(m + 1)
      /\ shown'[m + 1] = h
      /\ \A i \in DOMAIN shown : i \in DOMAIN shown' /\ shown'[i] = shown[i]
      /\ \A i \in DOMAIN shown' : i \in DOMAIN shown \/ i = m + 1
  BY <1>1, <1>2
<1>4. m + 1 \in DOMAIN shown'
  BY <1>2, <1>3
<1>5. ASSUME NEW i \in DOMAIN shown', NEW j \in DOMAIN shown', i < j,
             \A k \in i..j : shown'[k] \in Durable \ placed
      PROVE  seq[shown'[i]] < seq[shown'[j]]
  <2>1. i \in 1..m /\ i \in i..j /\ j \in i..j /\ i \in DOMAIN shown
    BY <1>2, <1>3, <1>5
  <2>2. CASE j # m + 1
    <3>1. j \in DOMAIN shown /\ \A k \in i..j : k \in DOMAIN shown
      BY <1>2, <1>3, <2>1, <2>2
    <3>2. \A k \in i..j : shown'[k] = shown[k] /\ shown[k] \in Durable \ placed
      BY <1>3, <1>5, <3>1
    <3> QED
      BY <1>5, <2>1, <3>1, <3>2 DEF StreamInv, ShownInOrder, Stream!ShownInOrder
  <2>3. CASE j = m + 1
    <3>1. m \in 1..m /\ m \in i..j /\ shown # <<>>
      BY <1>2, <2>1, <2>3
    <3>2. shown'[j] = h /\ shown'[m] = shown[m] /\ shown'[i] = shown[i]
      BY <1>2, <1>3, <2>1, <2>3, <3>1
    <3>3. h \in Durable /\ shown[m] \in Durable
      BY <1>5, <2>1, <3>1, <3>2
    <3>4. last = seq[shown[m]]
      BY <1>1, <3>1, <3>3, StreamAssumption DEF Stream!EventsAssumption
    <3>5. seq[h] \in Nat /\ seq[shown[m]] \in Nat /\ seq[shown[i]] \in Nat
      BY <1>2, <2>1, <3>1 DEF StreamInv, NumbersOK
    <3>6. seq[shown[m]] < seq[h]
      BY <3>3, <3>4, <3>5
    <3>7. CASE i = m
      BY <3>2, <3>6, <3>7
    <3>8. CASE i # m
      <4>1. \A k \in i..m : k \in DOMAIN shown /\ k \in i..j
        BY <1>2, <2>1, <2>3
      <4>2. \A k \in i..m : shown[k] \in Durable \ placed
        BY <1>3, <1>5, <4>1
      <4>3. i < m
        BY <1>2, <2>1, <3>8
      <4>4. seq[shown[i]] < seq[shown[m]]
        BY <1>2, <2>1, <3>1, <4>2, <4>3 DEF StreamInv, ShownInOrder, Stream!ShownInOrder
      <4> QED
        BY <3>2, <3>5, <3>6, <4>4
    <3> QED
      BY <3>7, <3>8
  <2> QED
    BY <2>2, <2>3
<1>6. ShownInOrder'
  BY <1>5 DEF ShownInOrder, Stream!ShownInOrder
<1> QED
  BY <1>3, <1>4, <1>6 DEF IsShown

\* The client gets the event in hand: it does not list it, puts it in the place
\* of its deltas, knows a newer one, or appends it.
LEMMA SendKeeps ==
  ASSUME StreamInv, Stream!SendEvent
  PROVE  StreamInv'
<1>1. PICK h, last, deltas :
         /\ h = inHand
         /\ last = IF shown = <<>> \/ shown[Len(shown)] \in Ephemeral THEN -1
                   ELSE seq[shown[Len(shown)]]
         /\ deltas = {i \in DOMAIN shown : shown[i] \in Deltas}
  OBVIOUS
<1>2. /\ forwarder = "sending" /\ forwarder' = "sent" /\ inHand' = inHand
      /\ UNCHANGED <<stage, seq, nextSeq, journal, queue, lagged, subscribed, cursor,
                     handler, batch, overtaken, excused>>
  BY DEF Stream!SendEvent, Stream!emitVars, Stream!requestVars
<1>3. \/ (h \in Unlisted \/ h \in Deltas) /\ shown' = shown /\ placed' = placed
      \/ /\ h \in Finals /\ placed' = placed \cup {h}
         /\ \E p \in deltas : shown' = [shown EXCEPT ![p] = h]
      \/ h \in Durable /\ seq[h] <= last /\ shown' = shown /\ placed' = placed
      \/ ~(h \in Durable /\ seq[h] <= last) /\ shown' = Append(shown, h) /\ placed' = placed
  BY <1>1 DEF Stream!SendEvent, Stream!ClientAppends, Stream!AppendNewer, Stream!Last,
              Stream!clientVars
<1>4. h \in Stream!Events /\ stage[h] = "published"
  BY <1>1, <1>2 DEF StreamInv, QueueOK, Held
<1>5. shown \in Seq(Stream!Events) /\ Len(shown) \in Nat /\ DOMAIN shown = 1..Len(shown)
  BY DEF StreamInv, ClientOK
<1>6. ASSUME shown' = shown, placed' = placed, h \in Durable => Safe(h)
      PROVE  StreamInv'
  <2>1. ShownInOrder'
    BY <1>2, <1>6 DEF StreamInv, ShownInOrder, Stream!ShownInOrder
  <2> QED
    BY <1>1, <1>2, <1>5, <1>6, <2>1, SentKeeps
<1>7. CASE (h \in Unlisted \/ h \in Deltas) /\ shown' = shown /\ placed' = placed
  <2>1. h \in Durable => Safe(h)
    BY <1>7, StreamAssumption DEF Safe, Stream!EventsAssumption
  <2> QED
    BY <1>6, <1>7, <2>1
<1>8. CASE /\ h \in Finals /\ placed' = placed \cup {h}
           /\ \E p \in deltas : shown' = [shown EXCEPT ![p] = h]
  <2>1. PICK p \in DOMAIN shown : shown[p] \in Deltas /\ shown' = [shown EXCEPT ![p] = h]
    BY <1>1, <1>8
  <2>2. h \in Durable
    BY <1>8, StreamAssumption DEF Stream!EventsAssumption
  <2>3. /\ shown' \in Seq(Stream!Events)
        /\ \A i \in DOMAIN shown' :
              (i \in DOMAIN shown /\ shown'[i] = shown[i]) \/ shown'[i] = h
        /\ \A i \in DOMAIN shown : shown[i] \in Durable => i \in DOMAIN shown' /\ shown'[i] = shown[i]
        /\ IsShown(h)'
        /\ ShownInOrder'
    BY <1>2, <1>8, <2>1, <2>2, PlaceInOrder
  <2> QED
    BY <1>1, <1>2, <2>3, SentKeeps DEF IsShown
<1>9. CASE h \in Durable /\ seq[h] <= last /\ shown' = shown /\ placed' = placed
  <2>1. seq[h] \in Nat /\ seq[h] > 0 /\ last # -1
    BY <1>4, <1>9 DEF StreamInv, NumbersOK
  <2>2. Len(shown) \in DOMAIN shown
    BY <1>1, <1>5, <2>1
  <2>3. shown[Len(shown)] \in Durable
    BY <1>1, <1>5, <2>1, <2>2 DEF Stream!Events
  <2>4. Coming(h) /\ ~Overtaking(h) /\ PassedOK(h)
    BY <1>1, <1>2, <1>4, <1>9, <2>1 DEF Coming, Overtaking, StreamInv
  <2>5. Safe(h)
    BY <1>1, <1>9, <2>1, <2>2, <2>3, <2>4 DEF PassedOK
  <2> QED
    BY <1>6, <1>9, <2>5
<1>10. CASE ~(h \in Durable /\ seq[h] <= last) /\ shown' = Append(shown, h) /\ placed' = placed
  <2>1. /\ shown' \in Seq(Stream!Events)
        /\ \A i \in DOMAIN shown' :
              (i \in DOMAIN shown /\ shown'[i] = shown[i]) \/ shown'[i] = h
        /\ \A i \in DOMAIN shown : i \in DOMAIN shown' /\ shown'[i] = shown[i]
        /\ IsShown(h)'
        /\ ShownInOrder'
    BY <1>1, <1>2, <1>4, <1>10, AppendInOrder
  <2> QED
    BY <1>1, <1>2, <2>1, SentKeeps DEF IsShown
<1> QED
  BY <1>3, <1>7, <1>8, <1>9, <1>10

\* The index went to the client in another form.
LEMMA IndexKeeps ==
  ASSUME StreamInv, Stream!SendIndex
  PROVE  StreamInv'
<1>1. /\ forwarder = "sending" /\ inHand \in Unlisted /\ forwarder' = "receiving"
      /\ UNCHANGED <<stage, seq, nextSeq, journal, queue, lagged, subscribed, cursor, handler,
                     batch, shown, placed, overtaken, excused>>
  BY DEF Stream!SendIndex, Stream!emitVars, Stream!requestVars, Stream!clientVars
<1>2. ShownInOrder'
  BY <1>1 DEF StreamInv, ShownInOrder, Stream!ShownInOrder
<1>3. shown \in Seq(Stream!Events) /\ Safe(inHand)
  BY <1>1 DEF StreamInv, ClientOK, Safe
<1> QED
  BY <1>1, <1>2, <1>3, SentKeeps

\* The cursor follows the event that was sent.
LEMMA CursorKeeps ==
  ASSUME StreamInv, Stream!UpdateLiveCursor
  PROVE  StreamInv'
<1>1. /\ forwarder = "sent" /\ forwarder' = "receiving"
      /\ cursor' = Stream!Max({cursor, seq[inHand]})
      /\ UNCHANGED <<stage, seq, nextSeq, journal, queue, lagged, subscribed, handler, batch,
                     shown, placed, overtaken, excused>>
  BY DEF Stream!UpdateLiveCursor, Stream!emitVars, Stream!requestVars, Stream!clientVars
<1>2. inHand \in Stream!Events /\ stage[inHand] = "published" /\ \A j \in DOMAIN queue : inHand # queue[j]
  BY <1>1 DEF StreamInv, QueueOK, Held
<1>3. cursor \in Nat /\ seq[inHand] \in Nat /\ cursor < nextSeq /\ seq[inHand] < nextSeq
  BY <1>2 DEF StreamInv, ClientOK, NumbersOK
<1>4. cursor' \in {cursor, seq[inHand]}
  <2>1. \E x \in {cursor, seq[inHand]} : \A y \in {cursor, seq[inHand]} : x >= y
    BY <1>3
  <2> QED
    BY <1>1, <2>1 DEF Stream!Max
<1>5. NumbersOK' /\ JournalOK' /\ QueueOK'
  BY <1>1 DEF StreamInv, NumbersOK, JournalOK, QueueOK, Held
<1>6. BatchOK' /\ ClientOK' /\ ShownInOrder'
  <2>1. BatchOK'
    BY <1>1 DEF StreamInv, BatchOK, InBatch
  <2>2. ClientOK'
    BY <1>1, <1>3, <1>4 DEF StreamInv, ClientOK
  <2>3. ShownInOrder'
    BY <1>1 DEF StreamInv, ShownInOrder, Stream!ShownInOrder
  <2> QED
    BY <2>1, <2>2, <2>3
<1>7. ASSUME NEW e \in Durable, seq[e] > 0
      PROVE  PassedOK(e)' /\ CoverOK(e)'
  <2>1. PassedOK(e) /\ CoverOK(e)
    BY <1>7 DEF StreamInv
  <2>2. /\ Safe(e)' <=> Safe(e)
        /\ InBatch(e)' <=> InBatch(e)
        /\ Overtaking(e)' <=> Overtaking(e)
        /\ Coming(e)' <=> Coming(e)
        /\ Deaf' <=> Deaf
    BY <1>1 DEF Safe, IsShown, InBatch, Overtaking, Coming, Queued, Deaf
  <2>3. CoverOK(e)'
    BY <1>1, <2>1, <2>2 DEF CoverOK
  <2>4. ASSUME Coming(e), seq[e] <= seq[inHand]
        PROVE  Safe(e) \/ Overtaking(e)
    <3>1. (stage[e] = "journaled" \/ Queued(e)) /\ e # inHand
      BY <1>1, <1>2, <2>4 DEF Coming, Queued
    <3> QED
      BY <1>1, <1>7, <2>4, <3>1, BehindHand DEF Held, Safe
  <2>5. PassedOK(e)'
    BY <1>1, <1>4, <2>1, <2>2, <2>4 DEF PassedOK
  <2> QED
    BY <2>3, <2>5
<1> QED
  BY <1>1, <1>5, <1>6, <1>7 DEF StreamInv

\* A step of the receive task that changes neither the client's list nor the
\* excuses: what it has to show of the cursor, the batch and every event.
LEMMA RequestStep ==
  ASSUME StreamInv, UNCHANGED <<Stream!emitVars, Stream!forwardVars, shown, placed, overtaken>>,
         BatchOK', cursor' \in Nat, cursor' < nextSeq, subscribed' \in BOOLEAN,
         handler' \in {"idle", "reopened", "subscribed", "replaying", "seeded", "loaded",
                       "registered", "seeding"},
         handler' \in {"subscribed", "replaying", "seeded", "registered", "seeding"} => subscribed',
         handler' = "reopened" => ~subscribed',
         \A e \in Durable : Safe(e) => Safe(e)',
         \A e \in Durable : seq[e] > 0 /\ Coming(e) /\ seq[e] <= cursor' =>
            Safe(e)' \/ Overtaking(e) \/ (handler' = "seeded" /\ InBatch(e)'),
         \A e \in Durable : seq[e] > 0 /\ ~Coming(e) /\ ~Deaf =>
            /\ subscribed' /\ handler' \in {"idle", "loaded", "seeding"} => Safe(e)'
            /\ handler' \in {"replaying", "seeded", "registered", "loaded"} => Safe(e)' \/ InBatch(e)',
         \A e \in Durable : handler' = "seeding" /\ InBatch(e)' => Safe(e)'
  PROVE  StreamInv'
<1>1. UNCHANGED <<seq, nextSeq, shown, placed, overtaken>>
  BY DEF Stream!emitVars
<1>2. /\ NumbersOK' /\ JournalOK' /\ QueueOK'
      /\ Deaf' <=> Deaf
      /\ \A e \in Durable : (Coming(e)' <=> Coming(e)) /\ (Overtaking(e)' <=> Overtaking(e))
  BY Elsewhere
<1>3. ClientOK' /\ ShownInOrder'
  <2>1. ClientOK'
    BY <1>1 DEF StreamInv, ClientOK
  <2>2. ShownInOrder'
    BY <1>1 DEF StreamInv, ShownInOrder, Stream!ShownInOrder
  <2> QED
    BY <2>1, <2>2
<1>4. ASSUME NEW e \in Durable, seq[e] > 0
      PROVE  PassedOK(e)' /\ CoverOK(e)'
  <2>1. PassedOK(e)
    BY <1>4 DEF StreamInv
  <2>2. PassedOK(e)'
    BY <1>1, <1>2, <1>4, <2>1 DEF PassedOK
  <2>3. CoverOK(e)'
    BY <1>1, <1>2, <1>4 DEF CoverOK
  <2> QED
    BY <2>2, <2>3
<1> QED
  BY <1>1, <1>2, <1>3, <1>4 DEF StreamInv

\* An empty batch is a beginning of the journal.
LEMMA NoBatch ==
  ASSUME batch' = <<>>
  PROVE  BatchOK'
  BY DEF BatchOK

\* What the journal returns is a beginning of it, and the published events it
\* leaves out are cut.
LEMMA BatchRead ==
  ASSUME StreamInv, UNCHANGED <<seq, journal>>, batch' = Stream!Stored
  PROVE  /\ BatchOK'
         /\ \A e \in Durable :
               seq[e] > 0 => InBatch(e)' \/ stage[e] = "journaled" \/ e \in Stream!Cut
<1>1. /\ journal \in Seq(Durable)
      /\ \A e \in Durable : seq[e] > 0 <=> \E i \in DOMAIN journal : journal[i] = e
      /\ \A i, j \in DOMAIN journal : i < j => seq[journal[i]] < seq[journal[j]]
  BY DEF StreamInv, JournalOK
<1>2. PICK n : n = IF Len(journal) < Limit THEN Len(journal) ELSE Limit
  OBVIOUS
<1>3. /\ n \in Nat /\ n <= Len(journal) /\ Len(journal) \in Nat
      /\ DOMAIN journal = 1..Len(journal)
  BY <1>1, <1>2, StreamAssumption DEF Stream!EventsAssumption
<1>4. batch' = SubSeq(journal, 1, n)
  BY <1>2 DEF Stream!Stored
<1>5. /\ batch' \in Seq(Durable) /\ Len(batch') = n /\ DOMAIN batch' = 1..n
      /\ \A i \in 1..n : batch'[i] = journal[i]
  BY <1>1, <1>3, <1>4
<1>6. \A i \in DOMAIN batch' : /\ i \in DOMAIN journal /\ batch'[i] = journal[i]
                               /\ journal[i] \in Durable /\ seq[journal[i]] > 0
  BY <1>1, <1>3, <1>5
<1>7. \A e \in Durable : seq[e] \in Nat
  BY DEF StreamInv, NumbersOK, Stream!Events
<1>8. ASSUME NEW e \in Durable, NEW i \in DOMAIN batch', seq[e] > 0, seq[e] <= seq[batch'[i]]
      PROVE  InBatch(e)'
  <2>1. PICK j \in DOMAIN journal : journal[j] = e
    BY <1>1, <1>8
  <2>2. ~(i < j)
    BY <1>1, <1>6, <1>7, <1>8, <2>1
  <2>3. j \in 1..n
    BY <1>3, <1>5, <2>1, <2>2
  <2> QED
    BY <1>5, <2>1, <2>3 DEF InBatch
<1>9. BatchOK'
  <2>1. \A i, j \in DOMAIN batch' : i < j => seq[batch'[i]] < seq[batch'[j]]
    BY <1>1, <1>6
  <2> QED
    BY <1>5, <1>6, <1>8, <2>1 DEF BatchOK
<1>10. ASSUME NEW e \in Durable, seq[e] > 0, ~InBatch(e)', stage[e] # "journaled"
       PROVE  e \in Stream!Cut
  <2>1. e \in Stream!Journal /\ stage[e] = "published"
    BY <1>10 DEF Stream!Journal, StreamInv, NumbersOK
  <2>2. e \notin Stream!ToSet(Stream!Stored)
    BY <1>10 DEF InBatch, Stream!ToSet
  <2> QED
    BY <2>1, <2>2 DEF Stream!Cut
<1> QED
  BY <1>9, <1>10

\* cursor_from_events: the number of the last event of the batch.
LEMMA Seeded ==
  ASSUME StreamInv, Stream!Seed
  PROVE  /\ cursor' \in Nat /\ cursor' < nextSeq
         /\ \A e \in Durable : seq[e] > 0 /\ seq[e] <= cursor' => InBatch(e)
<1>1. PICK S : S = {0} \cup {seq[e] : e \in Stream!ToSet(batch)}
  OBVIOUS
<1>2. cursor' = Stream!Max(S)
  BY <1>1 DEF Stream!Seed, Stream!LastSeq
<1>3. /\ batch \in Seq(Durable) /\ Len(batch) \in Nat /\ DOMAIN batch = 1..Len(batch)
      /\ \A i \in DOMAIN batch : batch[i] \in Durable /\ seq[batch[i]] > 0
      /\ \A i, j \in DOMAIN batch : i < j => seq[batch[i]] < seq[batch[j]]
  BY DEF StreamInv, BatchOK
<1>4. \A i \in DOMAIN batch : seq[batch[i]] \in Nat /\ seq[batch[i]] < nextSeq
  BY <1>3 DEF StreamInv, NumbersOK, Stream!Events
<1>5. nextSeq \in Nat /\ nextSeq > 0
  BY DEF StreamInv, NumbersOK, ClientOK
<1>6. \A x : x \in S <=> x = 0 \/ \E i \in DOMAIN batch : x = seq[batch[i]]
  BY <1>1 DEF Stream!ToSet
<1>7. \E x \in S : \A y \in S : x >= y
  <2>1. CASE Len(batch) = 0
    <3>1. 0 \in S /\ \A y \in S : y = 0
      BY <1>3, <1>6, <2>1
    <3> QED
      BY <3>1
  <2>2. CASE Len(batch) # 0
    <3>1. PICK m : m = Len(batch)
      OBVIOUS
    <3>2. m \in DOMAIN batch /\ \A i \in DOMAIN batch : i = m \/ i < m
      BY <1>3, <2>2, <3>1
    <3>3. seq[batch[m]] \in S
      BY <1>6, <3>2
    <3>4. \A y \in S : seq[batch[m]] >= y
      <4> SUFFICES ASSUME NEW y \in S PROVE seq[batch[m]] >= y
        OBVIOUS
      <4>1. CASE y = 0
        BY <1>4, <3>2, <4>1
      <4>2. ASSUME NEW i \in DOMAIN batch, y = seq[batch[i]]
            PROVE  seq[batch[m]] >= y
        <5>1. i = m \/ seq[batch[i]] < seq[batch[m]]
          BY <1>3, <3>2
        <5> QED
          BY <1>4, <3>2, <4>2, <5>1
      <4> QED
        BY <1>6, <4>1, <4>2
    <3> QED
      BY <3>3, <3>4
  <2> QED
    BY <2>1, <2>2
<1>8. cursor' \in S
  BY <1>2, <1>7 DEF Stream!Max
<1>9. cursor' = 0 \/ \E i \in DOMAIN batch : cursor' = seq[batch[i]]
  BY <1>6, <1>8
<1>10. cursor' \in Nat /\ cursor' < nextSeq
  BY <1>4, <1>5, <1>9
<1>11. ASSUME NEW e \in Durable, seq[e] > 0, seq[e] <= cursor'
       PROVE  InBatch(e)
  <2>1. seq[e] \in Nat
    BY DEF StreamInv, NumbersOK, Stream!Events
  <2>2. PICK i \in DOMAIN batch : cursor' = seq[batch[i]]
    BY <1>9, <1>11, <2>1
  <2> QED
    BY <1>11, <2>2 DEF StreamInv, BatchOK
<1> QED
  BY <1>10, <1>11

\* handle_subscribe_session up to the sending of the batch.
LEMMA SubscribeKeeps ==
  ASSUME StreamInv,
         Stream!Subscribe \/ Stream!ReplayRead \/ Stream!ReplayReadFails \/ Stream!ReplaySeed
  PROVE  StreamInv'
<1>1. /\ cursor \in Nat /\ cursor < nextSeq /\ subscribed \in BOOLEAN
      /\ handler \in {"subscribed", "replaying", "seeded", "registered", "seeding"} => subscribed
  BY DEF StreamInv, ClientOK
<1>2. \A e \in Durable : seq[e] > 0 => PassedOK(e) /\ CoverOK(e)
  BY DEF StreamInv
<1>3. CASE Stream!Subscribe
  <2>1. /\ handler \in {"idle", "reopened"} /\ subscribed' = TRUE /\ handler' = "subscribed"
        /\ UNCHANGED <<Stream!emitVars, Stream!forwardVars, cursor, batch, shown, placed,
                       overtaken, excused>>
    BY <1>3 DEF Stream!Subscribe, Stream!clientVars, Stream!Request
  <2>2. BatchOK'
    BY <2>1 DEF StreamInv, BatchOK, InBatch, Stream!emitVars
  <2>3. \A e \in Durable : Safe(e)' <=> Safe(e)
    BY <2>1 DEF Safe, IsShown
  <2>4. \A e \in Durable : seq[e] > 0 /\ Coming(e) /\ seq[e] <= cursor' => Safe(e)' \/ Overtaking(e)
    BY <1>2, <2>1, <2>3 DEF PassedOK
  <2> QED
    BY <1>1, <2>1, <2>2, <2>3, <2>4, RequestStep
<1>4. CASE Stream!ReplayRead
  <2>1. /\ handler = "subscribed" /\ handler' = "replaying" /\ batch' = Stream!Stored
        /\ excused' = excused \cup Stream!Cut
        /\ UNCHANGED <<Stream!emitVars, Stream!forwardVars, subscribed, cursor, shown, placed,
                       overtaken>>
    BY <1>4 DEF Stream!ReplayRead, Stream!clientVars
  <2>2. BatchOK' /\ \A e \in Durable : seq[e] > 0 /\ ~Coming(e) => InBatch(e)' \/ Safe(e)'
    BY <2>1, BatchRead DEF Stream!emitVars, Coming, Safe
  <2>3. \A e \in Durable : Safe(e) => Safe(e)'
    BY <2>1 DEF Safe, IsShown
  <2>4. \A e \in Durable : seq[e] > 0 /\ Coming(e) /\ seq[e] <= cursor' => Safe(e)' \/ Overtaking(e)
    BY <1>2, <2>1, <2>3 DEF PassedOK
  <2> QED
    BY <1>1, <2>1, <2>2, <2>3, <2>4, RequestStep
<1>5. CASE Stream!ReplayReadFails
  <2>1. /\ handler = "subscribed" /\ handler' = "replaying" /\ batch' = <<>>
        /\ excused' = excused \cup Stream!Journal
        /\ UNCHANGED <<Stream!emitVars, Stream!forwardVars, subscribed, cursor, shown, placed,
                       overtaken>>
    BY <1>5 DEF Stream!ReplayReadFails, Stream!clientVars
  <2>2. BatchOK'
    BY <2>1, NoBatch
  <2>3. \A e \in Durable : /\ Safe(e) => Safe(e)'
                           /\ seq[e] > 0 => Safe(e)'
    BY <2>1 DEF Safe, IsShown, Stream!Journal
  <2> QED
    BY <1>1, <2>1, <2>2, <2>3, RequestStep
<1>6. CASE Stream!ReplaySeed
  <2>1. /\ handler = "replaying" /\ handler' = "seeded" /\ Stream!Seed
        /\ UNCHANGED <<Stream!emitVars, Stream!forwardVars, subscribed, batch, shown, placed,
                       overtaken, excused>>
    BY <1>6 DEF Stream!ReplaySeed, Stream!clientVars
  <2>2. BatchOK'
    BY <2>1 DEF StreamInv, BatchOK, InBatch, Stream!emitVars
  <2>3. \A e \in Durable : (Safe(e)' <=> Safe(e)) /\ (InBatch(e)' <=> InBatch(e))
    BY <2>1 DEF Safe, IsShown, InBatch
  <2>4. /\ cursor' \in Nat /\ cursor' < nextSeq
        /\ \A e \in Durable : seq[e] > 0 /\ seq[e] <= cursor' => InBatch(e)'
    BY <2>1, <2>3, Seeded
  <2>5. \A e \in Durable : seq[e] > 0 /\ ~Coming(e) /\ ~Deaf => Safe(e)' \/ InBatch(e)'
    BY <1>2, <2>1, <2>3 DEF CoverOK
  <2> QED
    BY <1>1, <2>1, <2>2, <2>3, <2>4, <2>5, RequestStep
<1> QED
  BY <1>3, <1>4, <1>5, <1>6

\* handle_load_session but for the sending of the batch, and the unsubscribing.
LEMMA LoadKeeps ==
  ASSUME StreamInv,
         \/ Stream!Load \/ Stream!LoadFails \/ Stream!LoadRegister \/ Stream!LoadSeed
         \/ Stream!Unsubscribe
  PROVE  StreamInv'
<1>1. /\ cursor \in Nat /\ cursor < nextSeq /\ subscribed \in BOOLEAN
      /\ handler \in {"subscribed", "replaying", "seeded", "registered", "seeding"} => subscribed
  BY DEF StreamInv, ClientOK
<1>2. \A e \in Durable : seq[e] > 0 => PassedOK(e) /\ CoverOK(e)
  BY DEF StreamInv
<1>3. CASE Stream!Load
  <2>1. /\ handler = "idle" /\ handler' = "loaded" /\ batch' = Stream!Stored
        /\ excused' = excused \cup Stream!Cut
        /\ UNCHANGED <<Stream!emitVars, Stream!forwardVars, subscribed, cursor, shown, placed,
                       overtaken>>
    BY <1>3 DEF Stream!Load, Stream!clientVars
  <2>2. BatchOK' /\ \A e \in Durable : seq[e] > 0 /\ ~Coming(e) => InBatch(e)' \/ Safe(e)'
    BY <2>1, BatchRead DEF Stream!emitVars, Coming, Safe
  <2>3. \A e \in Durable : Safe(e) => Safe(e)'
    BY <2>1 DEF Safe, IsShown
  <2>4. \A e \in Durable : seq[e] > 0 /\ Coming(e) /\ seq[e] <= cursor' => Safe(e)' \/ Overtaking(e)
    BY <1>2, <2>1, <2>3 DEF PassedOK
  <2>5. \A e \in Durable : seq[e] > 0 /\ ~Coming(e) /\ ~Deaf /\ subscribed' => Safe(e)'
    BY <1>2, <2>1, <2>3 DEF CoverOK
  <2> QED
    BY <1>1, <2>1, <2>2, <2>3, <2>4, <2>5, RequestStep
<1>4. CASE Stream!LoadFails
  <2>1. /\ handler = "loaded" /\ handler' = "idle" /\ batch' = <<>>
        /\ UNCHANGED <<Stream!emitVars, Stream!forwardVars, subscribed, cursor, shown, placed,
                       overtaken, excused>>
    BY <1>4 DEF Stream!LoadFails, Stream!clientVars
  <2>2. BatchOK'
    BY <2>1, NoBatch
  <2>3. \A e \in Durable : Safe(e)' <=> Safe(e)
    BY <2>1 DEF Safe, IsShown
  <2>4. \A e \in Durable : seq[e] > 0 /\ Coming(e) /\ seq[e] <= cursor' => Safe(e)' \/ Overtaking(e)
    BY <1>2, <2>1, <2>3 DEF PassedOK
  <2>5. \A e \in Durable : seq[e] > 0 /\ ~Coming(e) /\ ~Deaf /\ subscribed' => Safe(e)'
    BY <1>2, <2>1, <2>3 DEF CoverOK
  <2> QED
    BY <1>1, <2>1, <2>2, <2>3, <2>4, <2>5, RequestStep
<1>5. CASE Stream!LoadRegister
  <2>1. /\ handler = "loaded" /\ handler' = "registered" /\ subscribed' = TRUE
        /\ UNCHANGED <<Stream!emitVars, Stream!forwardVars, cursor, batch, shown, placed,
                       overtaken, excused>>
    BY <1>5 DEF Stream!LoadRegister, Stream!clientVars
  <2>2. BatchOK'
    BY <2>1 DEF StreamInv, BatchOK, InBatch, Stream!emitVars
  <2>3. \A e \in Durable : (Safe(e)' <=> Safe(e)) /\ (InBatch(e)' <=> InBatch(e))
    BY <2>1 DEF Safe, IsShown, InBatch
  <2>4. \A e \in Durable : seq[e] > 0 /\ Coming(e) /\ seq[e] <= cursor' => Safe(e)' \/ Overtaking(e)
    BY <1>2, <2>1, <2>3 DEF PassedOK
  <2>5. \A e \in Durable : seq[e] > 0 /\ ~Coming(e) /\ ~Deaf => Safe(e)' \/ InBatch(e)'
    BY <1>2, <2>1, <2>3 DEF CoverOK
  <2> QED
    BY <1>1, <2>1, <2>2, <2>3, <2>4, <2>5, RequestStep
<1>6. CASE Stream!LoadSeed
  <2>1. /\ handler = "seeding" /\ handler' = "idle" /\ batch' = <<>> /\ Stream!Seed
        /\ UNCHANGED <<Stream!emitVars, Stream!forwardVars, subscribed, shown, placed, overtaken,
                       excused>>
    BY <1>6 DEF Stream!LoadSeed, Stream!clientVars
  <2>2. BatchOK'
    BY <2>1, NoBatch
  <2>3. \A e \in Durable : Safe(e)' <=> Safe(e)
    BY <2>1 DEF Safe, IsShown
  <2>4. /\ cursor' \in Nat /\ cursor' < nextSeq
        /\ \A e \in Durable : seq[e] > 0 /\ seq[e] <= cursor' => InBatch(e)
    BY <2>1, Seeded
  <2>5. \A e \in Durable : seq[e] > 0 /\ seq[e] <= cursor' => Safe(e)'
    BY <1>2, <2>1, <2>3, <2>4 DEF CoverOK
  <2>6. \A e \in Durable : seq[e] > 0 /\ ~Coming(e) /\ ~Deaf => Safe(e)'
    BY <1>1, <1>2, <2>1, <2>3 DEF CoverOK
  <2> QED
    BY <1>1, <2>1, <2>2, <2>3, <2>4, <2>5, <2>6, RequestStep
<1>7. CASE Stream!Unsubscribe
  <2>1. /\ handler = "idle" /\ handler' = "idle" /\ subscribed' = FALSE /\ cursor' = 0
        /\ UNCHANGED <<Stream!emitVars, Stream!forwardVars, batch, shown, placed, overtaken, excused>>
    BY <1>7 DEF Stream!Unsubscribe, Stream!clientVars
  <2>2. BatchOK'
    BY <2>1 DEF StreamInv, BatchOK, InBatch, Stream!emitVars
  <2>3. \A e \in Durable : Safe(e)' <=> Safe(e)
    BY <2>1 DEF Safe, IsShown
  <2>4. cursor' \in Nat /\ cursor' < nextSeq
    BY <2>1 DEF StreamInv, ClientOK, NumbersOK
  <2>5. \A e \in Durable : ~(seq[e] > 0 /\ seq[e] <= cursor')
    BY <2>1 DEF StreamInv, NumbersOK, Stream!Events
  <2> QED
    BY <2>1, <2>2, <2>3, <2>4, <2>5, RequestStep
<1> QED
  BY <1>3, <1>4, <1>5, <1>6, <1>7

\* The client replaces its list by the batch: what it showed and the batch
\* lacks is excused, and what the batch has it shows.
LEMMA ReplaceKeeps ==
  ASSUME StreamInv, Stream!ReplaySend \/ Stream!LoadSend
  PROVE  StreamInv'
<1>1. /\ shown' = batch /\ placed' = {}
      /\ excused' = (excused \cup (Stream!Shown \cap Durable)) \ Stream!ToSet(batch)
      /\ UNCHANGED <<Stream!emitVars, Stream!forwardVars, subscribed, cursor, overtaken>>
      /\ \/ handler = "seeded" /\ handler' = "idle" /\ batch' = <<>>
         \/ handler = "registered" /\ handler' = "seeding" /\ batch' = batch
  BY DEF Stream!ReplaySend, Stream!LoadSend, Stream!ClientReplaces
<1>2. UNCHANGED <<seq, nextSeq>>
  BY <1>1 DEF Stream!emitVars
<1>3. /\ NumbersOK' /\ JournalOK' /\ QueueOK'
      /\ Deaf' <=> Deaf
      /\ \A e \in Durable : (Coming(e)' <=> Coming(e)) /\ (Overtaking(e)' <=> Overtaking(e))
  BY <1>1, Elsewhere
<1>4. /\ batch \in Seq(Durable)
      /\ \A i \in DOMAIN batch : batch[i] \in Durable /\ seq[batch[i]] > 0
      /\ \A i, j \in DOMAIN batch : i < j => seq[batch[i]] < seq[batch[j]]
  BY DEF StreamInv, BatchOK
<1>5. BatchOK'
  <2>1. CASE batch' = batch
    BY <1>2, <2>1 DEF StreamInv, BatchOK, InBatch
  <2>2. CASE batch' = <<>>
    BY <2>2, NoBatch
  <2> QED
    BY <1>1, <2>1, <2>2
<1>6. ClientOK'
  <2>1. shown' \in Seq(Stream!Events)
    BY <1>1, <1>4 DEF Stream!Events
  <2>2. subscribed' = subscribed /\ cursor' = cursor
    BY <1>1
  <2>3. \A i \in DOMAIN shown' : shown'[i] \in Durable => seq'[shown'[i]] > 0
    BY <1>1, <1>2, <1>4
  <2> QED
    BY <1>1, <1>2, <2>1, <2>2, <2>3 DEF StreamInv, ClientOK
<1>7. ShownInOrder'
  BY <1>1, <1>2, <1>4 DEF ShownInOrder, Stream!ShownInOrder
<1>8. ASSUME NEW e \in Durable, seq[e] > 0
      PROVE  PassedOK(e)' /\ CoverOK(e)'
  <2>1. PassedOK(e) /\ CoverOK(e)
    BY <1>8 DEF StreamInv
  <2>2. InBatch(e) => Safe(e)'
    BY <1>1 DEF InBatch, Safe, IsShown
  <2>3. ~InBatch(e) => e \notin Stream!ToSet(batch)
    BY DEF InBatch, Stream!ToSet
  <2>4. IsShown(e) => e \in Stream!Shown
    BY DEF IsShown, Stream!Shown, Stream!ToSet
  <2>5. Safe(e) => Safe(e)'
    BY <1>1, <2>2, <2>3, <2>4 DEF Safe
  <2>6. (\E i \in DOMAIN shown' : shown'[i] \in Durable /\ seq'[e] <= seq'[shown'[i]])
           => InBatch(e)
    BY <1>1, <1>2, <1>8 DEF StreamInv, BatchOK
  <2>7. InBatch(e)' => InBatch(e)
    BY <1>1 DEF InBatch
  <2>8. cursor' = cursor
    BY <1>1
  <2>9. PassedOK(e)'
    BY <1>1, <1>2, <1>3, <2>1, <2>2, <2>5, <2>6, <2>8 DEF PassedOK
  <2>10. CoverOK(e)'
    BY <1>1, <1>3, <2>1, <2>2, <2>5, <2>7 DEF CoverOK
  <2> QED
    BY <2>9, <2>10
<1> QED
  BY <1>2, <1>3, <1>5, <1>6, <1>7, <1>8 DEF StreamInv

\* A new connection starts with nothing; the journal and the list stay.
LEMMA ReconnectKeeps ==
  ASSUME StreamInv, Stream!Reconnect
  PROVE  StreamInv'
<1>1. /\ queue' = <<>> /\ lagged' = FALSE /\ forwarder' = "receiving"
      /\ subscribed' = FALSE /\ cursor' = 0 /\ handler' = "reopened" /\ batch' = <<>>
      /\ UNCHANGED <<stage, seq, nextSeq, journal, shown, placed, overtaken, excused>>
  BY DEF Stream!Reconnect, Stream!emitVars, Stream!clientVars
<1>2. NumbersOK' /\ JournalOK'
  BY <1>1 DEF StreamInv, NumbersOK, JournalOK
<1>3. QueueOK'
  <2>1. ~Held'
    BY <1>1 DEF Held
  <2>2. lagged' \in BOOLEAN
    BY <1>1
  <2>3. queue' \in Seq(Stream!Events) /\ DOMAIN queue' = {}
    BY <1>1
  <2> QED
    BY <1>1, <2>1, <2>2, <2>3 DEF QueueOK
<1>4. BatchOK'
  BY <1>1, NoBatch
<1>5. ClientOK'
  <2>1. subscribed' \in BOOLEAN /\ ~subscribed'
    BY <1>1
  <2>2. cursor' \in Nat /\ cursor' < nextSeq'
    BY <1>1 DEF StreamInv, ClientOK, NumbersOK
  <2>3. /\ shown' \in Seq(Stream!Events)
        /\ \A i \in DOMAIN shown' : shown'[i] \in Durable => seq'[shown'[i]] > 0
    BY <1>1 DEF StreamInv, ClientOK
  <2> QED
    BY <1>1, <2>1, <2>2, <2>3 DEF ClientOK
<1>6. ShownInOrder'
  BY <1>1 DEF StreamInv, ShownInOrder, Stream!ShownInOrder
<1>7. ASSUME NEW e \in Durable, seq[e] > 0
      PROVE  PassedOK(e)' /\ CoverOK(e)'
  <2>1. PassedOK(e)
    BY <1>7 DEF StreamInv
  <2>2. Coming(e)' => Coming(e)
    BY <1>1 DEF Coming, Queued
  <2>3. (Safe(e)' <=> Safe(e)) /\ (Overtaking(e)' <=> Overtaking(e))
    BY <1>1 DEF Safe, IsShown, Overtaking
  <2>4. ~(seq[e] <= 0)
    BY <1>7 DEF StreamInv, NumbersOK, Stream!Events
  <2>5. PassedOK(e)'
    BY <1>1, <2>1, <2>2, <2>3, <2>4 DEF PassedOK
  <2>6. CoverOK(e)'
    BY <1>1 DEF CoverOK
  <2> QED
    BY <2>5, <2>6
<1> QED
  BY <1>1, <1>2, <1>3, <1>4, <1>5, <1>6, <1>7 DEF StreamInv

\* The invariant of the stream holds at the start.
LEMMA StreamStarts ==
  ASSUME Stream!Init
  PROVE  StreamInv
<1>1. /\ stage = [e \in Stream!Events |-> "new"] /\ seq = [e \in Stream!Events |-> 0]
      /\ nextSeq = 1 /\ journal = <<>> /\ queue = <<>> /\ lagged = FALSE
      /\ forwarder = "receiving" /\ subscribed = FALSE /\ cursor = 0 /\ handler = "idle"
      /\ batch = <<>> /\ shown = <<>>
  BY DEF Stream!Init
<1>2. \A e \in Stream!Events : stage[e] = "new" /\ seq[e] = 0
  BY <1>1
<1>3. Durable \subseteq Stream!Events /\ Ephemeral \subseteq Stream!Events
  BY DEF Stream!Events
<1>4. NumbersOK
  BY <1>1, <1>2, <1>3 DEF NumbersOK
<1>5. JournalOK
  BY <1>1, <1>2, <1>3 DEF JournalOK
<1>6. BatchOK
  BY <1>1 DEF BatchOK
<1>7. QueueOK
  <2>1. ~Held
    BY <1>1 DEF Held
  <2>2. lagged \in BOOLEAN
    BY <1>1
  <2>3. queue \in Seq(Stream!Events) /\ DOMAIN queue = {}
    BY <1>1
  <2> QED
    BY <1>1, <2>1, <2>2, <2>3 DEF QueueOK
<1>8. ClientOK
  <2>1. subscribed \in BOOLEAN /\ ~subscribed
    BY <1>1
  <2>2. cursor \in Nat /\ cursor < nextSeq
    BY <1>1
  <2>3. shown \in Seq(Stream!Events) /\ DOMAIN shown = {}
    BY <1>1
  <2> QED
    BY <1>1, <2>1, <2>2, <2>3 DEF ClientOK
<1>9. ShownInOrder
  BY <1>1 DEF ShownInOrder, Stream!ShownInOrder
<1>10. \A e \in Durable : ~(seq[e] > 0)
  BY <1>2, <1>3
<1> QED
  BY <1>4, <1>5, <1>6, <1>7, <1>8, <1>9, <1>10 DEF StreamInv

\* Every step of the stream keeps its invariant.
LEMMA StreamStep ==
  ASSUME StreamInv, Stream!Next
  PROVE  StreamInv'
<1>1. CASE Stream!Emit
  BY <1>1, EmitDurableKeeps, AppendKeeps, AppendFailsKeeps, PublishKeeps DEF Stream!Emit
<1>2. CASE Stream!Forward
  BY <1>2, ReceiveKeeps, LaggedKeeps, SendKeeps, IndexKeeps, CursorKeeps DEF Stream!Forward
<1>3. CASE Stream!Handle
  BY <1>3, SubscribeKeeps, LoadKeeps, ReplaceKeeps DEF Stream!Handle
<1> QED
  BY <1>1, <1>2, <1>3, ReconnectKeeps DEF Stream!Next

\* The invariant of the stream holds of every behaviour of the services.
LEMMA StreamInvariant == AllSpec => []StreamInv
<1>1. AllInit => StreamInv
  BY StreamStarts DEF AllInit
<1>2. StreamInv /\ [AllNext]_allVars => StreamInv'
  <2> SUFFICES ASSUME StreamInv, [AllNext]_allVars PROVE StreamInv'
    OBVIOUS
  <2>1. Stream!Next \/ UNCHANGED streamVars
    BY DEF AllNext, allVars
  <2>2. CASE UNCHANGED streamVars
    <3>1. UNCHANGED <<stage, seq, nextSeq, journal, queue, lagged, forwarder, inHand, subscribed,
                      cursor, handler, batch, shown, placed, overtaken, excused>>
      BY <2>2 DEF streamVars
    <3>2. BatchOK'
      BY <3>1 DEF StreamInv, BatchOK, InBatch
    <3>3. \A e \in Durable : seq[e] > 0 => PassedOK(e) /\ CoverOK(e)
      BY DEF StreamInv
    <3>4. \A e \in Durable : (Safe(e)' <=> Safe(e)) /\ (InBatch(e)' <=> InBatch(e))
      BY <3>1 DEF Safe, IsShown, InBatch
    <3>5. UNCHANGED <<Stream!emitVars, Stream!forwardVars>>
      BY <3>1 DEF Stream!emitVars, Stream!forwardVars
    <3>6. /\ cursor \in Nat /\ cursor < nextSeq /\ subscribed \in BOOLEAN
          /\ handler \in {"idle", "reopened", "subscribed", "replaying", "seeded", "loaded",
                          "registered", "seeding"}
          /\ handler \in {"subscribed", "replaying", "seeded", "registered", "seeding"} => subscribed
          /\ handler = "reopened" => ~subscribed
      BY DEF StreamInv, ClientOK
    <3>7. \A e \in Durable : seq[e] > 0 /\ Coming(e) /\ seq[e] <= cursor' =>
             Safe(e)' \/ Overtaking(e) \/ (handler' = "seeded" /\ InBatch(e)')
      BY <3>1, <3>3, <3>4 DEF PassedOK
    <3>8. \A e \in Durable : seq[e] > 0 /\ ~Coming(e) /\ ~Deaf =>
             /\ subscribed' /\ handler' \in {"idle", "loaded", "seeding"} => Safe(e)'
             /\ handler' \in {"replaying", "seeded", "registered", "loaded"} => Safe(e)' \/ InBatch(e)'
      BY <3>1, <3>3, <3>4 DEF CoverOK
    <3>9. \A e \in Durable : handler' = "seeding" /\ InBatch(e)' => Safe(e)'
      BY <3>1, <3>3, <3>4 DEF CoverOK, StreamInv, BatchOK, InBatch
    <3> QED
      BY <3>1, <3>2, <3>4, <3>5, <3>6, <3>7, <3>8, <3>9, RequestStep
  <2> QED
    BY <2>1, <2>2, StreamStep
<1> QED
  BY <1>1, <1>2, PTL DEF AllSpec

\* The list of the client shows no event twice and follows the journal as far
\* as no ephemeral item and no answer in the place of its deltas comes between,
\* whatever the forwarder and the requests send (the handlers and the forwarder
\* of the dashboard, and its client).
THEOREM ServicesShownInOrder == AllSpec => []ShownInOrder
<1>1. StreamInv => ShownInOrder
  BY DEF StreamInv
<1> QED
  BY <1>1, StreamInvariant, PTL

\* A client that is subscribed and has received all shows every event of the
\* journal that it lists at all but those that NothingMissed excepts, among
\* them what was beyond the limit of a read (handle_subscribe_session,
\* handle_load_session, the forwarder of the connection).
THEOREM ServicesNothingMissed == AllSpec => []NothingMissed
<1>1. StreamInv => NothingMissed
  <2> SUFFICES ASSUME StreamInv, Stream!Quiet, subscribed, NEW e \in Durable, seq[e] > 0,
                      e \notin Stream!Shown, e \notin Unlisted
               PROVE  e \in overtaken \cup excused
    BY DEF NothingMissed, Stream!NothingMissed, Stream!Journal
  <2>1. CoverOK(e)
    BY DEF StreamInv
  <2>2. /\ queue = <<>> /\ ~lagged /\ forwarder = "receiving" /\ handler = "idle"
        /\ stage[e] # "journaled"
    BY DEF Stream!Quiet, Stream!Events
  <2>3. ~Coming(e) /\ ~Deaf
    BY <2>2 DEF Coming, Queued, Deaf
  <2>4. ~IsShown(e)
    BY DEF IsShown, Stream!Shown, Stream!ToSet
  <2> QED
    BY <2>1, <2>2, <2>3, <2>4 DEF CoverOK, Safe
<1> QED
  BY <1>1, StreamInvariant, PTL

-----------------------------------------------------------------------------
(***************************************************************************)
(* The types of the stream's state, and of all components together.        *)
(***************************************************************************)

\* The instance of EventStream counts as FiniteSets does.
LEMMA SameCount ==
  ASSUME NEW S
  PROVE  (Stream!IsFiniteSet(S) <=> IsFiniteSet(S)) /\ Stream!Cardinality(S) = Cardinality(S)
<1>1. Stream!IsFiniteSet(S) <=> IsFiniteSet(S)
  BY DEF Stream!IsFiniteSet, IsFiniteSet
<1>2. Stream!Cardinality(S) = Cardinality(S)
  BY DEF Stream!Cardinality, Cardinality
<1> QED
  BY <1>1, <1>2

\* The events whose task has asked the journal for a number.
Numbered == {e \in Durable : stage[e] \in {"journaled", "published", "failed"}}

\* What the type of the stream's state needs besides StreamInv: no more numbers
\* are taken than there are such events.
StreamShape ==
    /\ nextSeq >= 1 /\ nextSeq <= Cardinality(Numbered) + 1
    /\ Len(queue) <= Capacity
    /\ inHand \in Stream!Events \cup {Stream!NoEvent}
    /\ inHand # Stream!NoEvent <=> Held
    /\ requests \in 0..MaxRequests /\ breaks \in 0..MaxBreaks
    /\ placed \subseteq Finals /\ overtaken \subseteq Durable /\ excused \subseteq Durable

LEMMA NumberedFinite == IsFiniteSet(Numbered) /\ Cardinality(Numbered) \in Nat
<1>1. IsFiniteSet(Durable)
  BY StreamAssumption, SameCount DEF Stream!EventsAssumption
<1>2. Numbered \subseteq Durable
  BY DEF Numbered
<1>3. IsFiniteSet(Numbered)
  BY <1>1, <1>2, FS_Subset
<1> QED
  BY <1>3, FS_CardinalityType

\* The task of one event asks for a number: there is one event more.
LEMMA OneMoreNumbered ==
  ASSUME NumbersOK, NEW e \in Durable, stage[e] = "spawned", NEW s \in {"journaled", "failed"},
         stage' = [stage EXCEPT ![e] = s]
  PROVE  Cardinality(Numbered') = Cardinality(Numbered) + 1
<1>1. Durable \subseteq Stream!Events
  BY DEF Stream!Events
<1>2. Numbered' = Numbered \cup {e}
  BY <1>1 DEF Numbered, NumbersOK
<1>3. e \notin Numbered
  BY DEF Numbered
<1>4. IsFiniteSet(Numbered)
  BY NumberedFinite
<1>5. Cardinality(Numbered \cup {e}) = Cardinality(Numbered) + 1
  BY <1>3, <1>4, FS_AddElement
<1> QED
  BY <1>2, <1>5

\* A step that publishes leaves them as they are.
LEMMA SameNumbered ==
  ASSUME NumbersOK, NEW e \in Stream!Events, NEW s,
         \/ e \in Ephemeral
         \/ stage[e] = "journaled" /\ s = "published"
         \/ stage[e] = "new" /\ s = "spawned",
         stage' = [stage EXCEPT ![e] = s]
  PROVE  Numbered' = Numbered
<1>1. Durable \subseteq Stream!Events /\ Durable \cap Ephemeral = {}
  BY StreamAssumption DEF Stream!Events, Stream!EventsAssumption
<1>2. \A d \in Durable : d # e => stage'[d] = stage[d]
  BY <1>1 DEF NumbersOK
<1>3. \A d \in Durable : d = e => stage'[d] = s
  BY <1>1 DEF NumbersOK
<1>4. \A d \in Durable : d \in Numbered' <=> d \in Numbered
  BY <1>1, <1>2, <1>3 DEF Numbered
<1>5. \A d : (d \in Numbered => d \in Durable) /\ (d \in Numbered' => d \in Durable)
  BY DEF Numbered
<1> QED
  BY <1>4, <1>5

\* fanout.publish keeps the newest Capacity events.
LEMMA PublishBounded ==
  ASSUME StreamInv, StreamShape, NEW e \in Stream!Events, Stream!Publish(e)
  PROVE  Len(queue') <= Capacity
<1>1. Capacity \in Nat /\ Capacity > 0 /\ queue \in Seq(Stream!Events)
  BY StreamAssumption DEF Stream!EventsAssumption, StreamInv, QueueOK
<1>2. Len(queue) \in Nat /\ Len(queue) <= Capacity
  BY <1>1 DEF StreamShape
<1>3. CASE queue' = queue
  BY <1>2, <1>3
<1>4. CASE queue' = <<>>
  BY <1>1, <1>4
<1>5. CASE Len(queue) # Capacity /\ queue' = Append(queue, e)
  BY <1>1, <1>2, <1>5
<1> QED
  BY <1>3, <1>4, <1>5 DEF Stream!Publish

LEMMA ShapeStep ==
  ASSUME StreamInv, StreamShape, Stream!Next
  PROVE  StreamShape'
<1>1. /\ Durable \subseteq Stream!Events /\ Ephemeral \subseteq Stream!Events
      /\ \A e \in Stream!Events : e # Stream!NoEvent
      /\ MaxRequests \in Nat /\ MaxBreaks \in Nat /\ Capacity \in Nat
  BY StreamAssumption DEF Stream!Events, Stream!NoEvent, Stream!EventsAssumption
<1>2. NumbersOK /\ nextSeq \in Nat
  BY DEF StreamInv, NumbersOK
<1>3. ASSUME NEW e \in Durable, Stream!AppendDurable(e) \/ Stream!AppendFails(e) PROVE StreamShape'
  <2>1. PICK s \in {"journaled", "failed"} : stage' = [stage EXCEPT ![e] = s]
    BY <1>3 DEF Stream!AppendDurable, Stream!AppendFails, Stream!Becomes
  <2>2. stage[e] = "spawned" /\ nextSeq' \in {nextSeq, nextSeq + 1}
    BY <1>3 DEF Stream!AppendDurable, Stream!AppendFails
  <2>3. Cardinality(Numbered') = Cardinality(Numbered) + 1
    BY <1>2, <2>1, <2>2, OneMoreNumbered
  <2>4. nextSeq' >= 1 /\ nextSeq' <= Cardinality(Numbered') + 1
    <3>1. \A n \in Nat : n >= 1 /\ n <= Cardinality(Numbered) + 1
                            => n + 1 >= 1 /\ n + 1 <= Cardinality(Numbered) + 2 /\ n <= Cardinality(Numbered) + 2
      BY NumberedFinite
    <3> QED
      BY <1>2, <2>2, <2>3, <3>1, NumberedFinite DEF StreamShape
  <2>5. UNCHANGED <<queue, forwarder, inHand, requests, breaks, placed, overtaken, excused>>
    BY <1>3 DEF Stream!AppendDurable, Stream!AppendFails, Stream!forwardVars, Stream!requestVars,
           Stream!clientVars
  <2> QED
    BY <2>4, <2>5 DEF StreamShape, Held
<1>4. ASSUME NEW e \in Durable, Stream!EmitDurable(e) PROVE StreamShape'
  <2>1. Numbered' = Numbered
    BY <1>1, <1>2, <1>4, SameNumbered DEF Stream!EmitDurable, Stream!Becomes
  <2> QED
    BY <1>4, <2>1 DEF StreamShape, Held, Stream!EmitDurable, Stream!forwardVars,
           Stream!requestVars, Stream!clientVars
<1>5. ASSUME NEW e \in Durable, Stream!PublishDurable(e) PROVE StreamShape'
  <2>1. Numbered' = Numbered
    BY <1>1, <1>2, <1>5, SameNumbered DEF Stream!PublishDurable, Stream!Publish, Stream!Becomes
  <2>2. Len(queue') <= Capacity
    BY <1>1, <1>5, PublishBounded DEF Stream!PublishDurable
  <2>3. overtaken' \subseteq Durable
    BY <1>5 DEF Stream!PublishDurable, StreamShape
  <2>4. UNCHANGED <<nextSeq, forwarder, inHand, requests, breaks, placed, excused>>
    BY <1>5 DEF Stream!PublishDurable, Stream!requestVars, Stream!clientVars
  <2> QED
    BY <2>1, <2>2, <2>3, <2>4 DEF StreamShape, Held
<1>6. ASSUME NEW e \in Ephemeral, Stream!EmitEphemeral(e) PROVE StreamShape'
  <2>1. Numbered' = Numbered
    BY <1>1, <1>2, <1>6, SameNumbered DEF Stream!EmitEphemeral, Stream!Publish, Stream!Becomes
  <2>2. Len(queue') <= Capacity
    BY <1>1, <1>6, PublishBounded DEF Stream!EmitEphemeral
  <2>3. UNCHANGED <<nextSeq, forwarder, inHand, requests, breaks, placed, overtaken, excused>>
    BY <1>6 DEF Stream!EmitEphemeral, Stream!requestVars, Stream!clientVars
  <2> QED
    BY <2>1, <2>2, <2>3 DEF StreamShape, Held
<1>7. ASSUME UNCHANGED Stream!emitVars PROVE Numbered' = Numbered /\ nextSeq' = nextSeq
  BY <1>7 DEF Stream!emitVars, Numbered
<1>8. CASE Stream!ReceiveEvent
  <2>1. queue \in Seq(Stream!Events) /\ queue # <<>>
    BY <1>8 DEF Stream!ReceiveEvent, StreamInv, QueueOK
  <2>2. Head(queue) \in Stream!Events /\ Len(queue) \in Nat /\ Len(Tail(queue)) = Len(queue) - 1
    BY <2>1
  <2>3. Len(queue') <= Capacity
    BY <1>1, <1>8, <2>2 DEF Stream!ReceiveEvent, StreamShape
  <2>4. excused' \subseteq Durable
    BY <1>8 DEF Stream!ReceiveEvent, StreamShape
  <2>5. inHand' \in Stream!Events \cup {Stream!NoEvent} /\ (inHand' # Stream!NoEvent <=> Held')
    <3>1. CASE Stream!ShouldForward(Head(queue))
      BY <1>1, <1>8, <2>2, <3>1 DEF Stream!ReceiveEvent, Held
    <3>2. CASE ~Stream!ShouldForward(Head(queue))
      BY <1>8, <3>2 DEF Stream!ReceiveEvent, Held, StreamShape
    <3> QED
      BY <3>1, <3>2
  <2>6. UNCHANGED <<requests, breaks, placed, overtaken>> /\ Numbered' = Numbered /\ nextSeq' = nextSeq
    BY <1>7, <1>8 DEF Stream!ReceiveEvent, Stream!requestVars, Stream!clientVars
  <2> QED
    BY <2>3, <2>4, <2>5, <2>6 DEF StreamShape
<1>9. CASE Stream!ReceiveLagged \/ Stream!SendIndex
  BY <1>7, <1>9 DEF Stream!ReceiveLagged, Stream!SendIndex, StreamShape, Held,
         Stream!requestVars, Stream!clientVars
<1>10. CASE Stream!UpdateLiveCursor
  BY <1>7, <1>10 DEF Stream!UpdateLiveCursor, StreamShape, Held, Stream!requestVars,
         Stream!clientVars
<1>11. CASE Stream!Handle
  <2>1. UNCHANGED <<queue, forwarder, inHand, overtaken, breaks>> /\ UNCHANGED Stream!emitVars
    BY <1>11 DEF Stream!Handle, Stream!Subscribe, Stream!ReplayRead, Stream!ReplayReadFails,
          Stream!ReplaySeed, Stream!ReplaySend, Stream!Load, Stream!LoadFails, Stream!LoadRegister,
          Stream!LoadSend, Stream!LoadSeed, Stream!Unsubscribe, Stream!forwardVars
  <2>2. requests' = requests \/ (requests < MaxRequests /\ requests' = requests + 1)
    BY <1>11 DEF Stream!Handle, Stream!Subscribe, Stream!ReplayRead, Stream!ReplayReadFails,
          Stream!ReplaySeed, Stream!ReplaySend, Stream!Load, Stream!LoadFails, Stream!LoadRegister,
          Stream!LoadSend, Stream!LoadSeed, Stream!Unsubscribe, Stream!Request
  <2>3. requests' \in 0..MaxRequests
    BY <1>1, <2>2 DEF StreamShape
  <2>4. /\ \/ excused' = excused \/ excused' = excused \cup Stream!Journal
           \/ excused' = excused \cup Stream!Cut \/ Stream!ClientReplaces
        /\ placed' = placed \/ placed' = {}
    BY <1>11 DEF Stream!ClientReplaces, Stream!clientVars, Stream!Handle, Stream!Subscribe,
           Stream!ReplayRead, Stream!ReplayReadFails,
          Stream!ReplaySeed, Stream!ReplaySend, Stream!Load, Stream!LoadFails, Stream!LoadRegister,
          Stream!LoadSend, Stream!LoadSeed, Stream!Unsubscribe
  <2>5. excused' \subseteq Durable /\ placed' \subseteq Finals
    BY <2>4 DEF StreamShape, Stream!Journal, Stream!Cut, Stream!ClientReplaces
  <2> QED
    BY <1>7, <2>1, <2>3, <2>5 DEF StreamShape, Held
<1>12. CASE Stream!Reconnect
  <2>1. breaks' \in 0..MaxBreaks
    BY <1>1, <1>12 DEF Stream!Reconnect, StreamShape
  <2>2. Len(queue') <= Capacity
    BY <1>1, <1>12 DEF Stream!Reconnect
  <2>3. inHand' = Stream!NoEvent /\ ~Held'
    BY <1>12 DEF Stream!Reconnect, Held
  <2>4. UNCHANGED <<requests, placed, overtaken, excused>> /\ UNCHANGED Stream!emitVars
    BY <1>12 DEF Stream!Reconnect, Stream!clientVars
  <2> QED
    BY <1>7, <2>1, <2>2, <2>3, <2>4 DEF StreamShape
<1>13. CASE Stream!SendEvent
  <2>1. placed' \subseteq Finals
    BY <1>13 DEF Stream!SendEvent, Stream!ClientAppends, Stream!AppendNewer, Stream!clientVars,
                 StreamShape
  <2> QED
    BY <1>7, <1>13, <2>1 DEF Stream!SendEvent, StreamShape, Held, Stream!requestVars
<1> QED
  BY <1>3, <1>4, <1>5, <1>6, <1>8, <1>9, <1>10, <1>11, <1>12, <1>13
  DEF Stream!Next, Stream!Emit, Stream!Forward

\* A sequence has its elements in any set that has them all.
LEMMA SeqOf ==
  ASSUME NEW S, NEW q \in Seq(S), NEW T, \A i \in DOMAIN q : q[i] \in T
  PROVE  q \in Seq(T)
<1>1. Len(q) \in Nat /\ q \in [1..Len(q) -> T]
  OBVIOUS
<1> QED
  BY <1>1, SeqDef

LEMMA StreamTyped ==
  ASSUME StreamInv, StreamShape
  PROVE  Stream!TypeOK
<1>1. Durable \subseteq Stream!Events /\ Stream!Journal = {e \in Durable : seq[e] > 0}
  BY DEF Stream!Events, Stream!Journal
<1>2. /\ NumbersOK /\ nextSeq \in Nat
      /\ \A e \in Stream!Events : seq[e] \in Nat /\ seq[e] < nextSeq
  BY DEF StreamInv, NumbersOK
<1>3. Cardinality(Durable) \in Nat /\ Cardinality(Numbered) <= Cardinality(Durable)
  <2>1. IsFiniteSet(Durable) /\ Numbered \subseteq Durable
    BY StreamAssumption, SameCount DEF Stream!EventsAssumption, Numbered
  <2> QED
    BY <2>1, FS_Subset, FS_CardinalityType
<1>4. nextSeq \in 1..Cardinality(Durable) + 1
  <2>1. nextSeq >= 1 /\ nextSeq <= Cardinality(Numbered) + 1
    BY DEF StreamShape
  <2> QED
    BY <1>2, <1>3, <2>1, NumberedFinite
<1>5. seq \in [Stream!Events -> 0..Cardinality(Durable)]
  <2>1. \A e \in Stream!Events : seq[e] \in 0..Cardinality(Durable)
    BY <1>2, <1>3, <1>4
  <2> QED
    BY <1>2, <2>1 DEF NumbersOK
<1>6. \A e, f \in Stream!Journal : seq[e] = seq[f] => e = f
  BY <1>1, <1>2 DEF NumbersOK
<1>7. journal \in Seq(Stream!Journal)
  <2>1. journal \in Seq(Durable) /\ \A e \in Durable : seq[e] > 0 <=> \E i \in DOMAIN journal : journal[i] = e
    BY DEF StreamInv, JournalOK
  <2>2. \A i \in DOMAIN journal : journal[i] \in Stream!Journal
    BY <1>1, <2>1
  <2> QED
    BY <2>1, <2>2, SeqOf
<1>8. batch \in Seq(Stream!Journal)
  <2>1. batch \in Seq(Durable) /\ \A i \in DOMAIN batch : seq[batch[i]] > 0
    BY DEF StreamInv, BatchOK
  <2>2. \A i \in DOMAIN batch : batch[i] \in Stream!Journal
    BY <1>1, <2>1
  <2> QED
    BY <2>1, <2>2, SeqOf
<1>9. cursor \in 0..nextSeq - 1
  BY <1>2 DEF StreamInv, ClientOK
<1>10. inHand # Stream!NoEvent <=> forwarder \in {"sending", "sent"}
  BY DEF StreamShape, Held
<1>11. lagged \in BOOLEAN /\ subscribed \in BOOLEAN
  BY DEF StreamInv, QueueOK, ClientOK
<1>12. Stream!Cardinality(Durable) = Cardinality(Durable)
  BY SameCount
<1> QED
  BY <1>2, <1>4, <1>5, <1>6, <1>7, <1>8, <1>9, <1>10, <1>11, <1>12
     DEF Stream!TypeOK, StreamInv, StreamShape, NumbersOK, QueueOK, ClientOK

LEMMA StreamTypeCorrect == AllSpec => []Stream!TypeOK
<1>1. AllInit => StreamShape
  <2> SUFFICES ASSUME AllInit PROVE StreamShape
    OBVIOUS
  <2>1. /\ nextSeq = 1 /\ queue = <<>> /\ forwarder = "receiving" /\ inHand = Stream!NoEvent
        /\ requests = 0 /\ breaks = 0 /\ placed = {} /\ overtaken = {} /\ excused = {}
    BY DEF AllInit, Stream!Init
  <2>2. MaxRequests \in Nat /\ MaxBreaks \in Nat /\ Capacity \in Nat
    BY StreamAssumption DEF Stream!EventsAssumption
  <2>3. requests \in 0..MaxRequests /\ breaks \in 0..MaxBreaks /\ Len(queue) <= Capacity
    BY <2>1, <2>2
  <2>4. nextSeq >= 1 /\ nextSeq <= Cardinality(Numbered) + 1
    BY <2>1, NumberedFinite
  <2> QED
    BY <2>1, <2>3, <2>4 DEF StreamShape, Held
<1>2. StreamInv /\ StreamShape /\ [AllNext]_allVars => StreamShape'
  <2> SUFFICES ASSUME StreamInv, StreamShape, [AllNext]_allVars PROVE StreamShape'
    OBVIOUS
  <2>1. Stream!Next \/ UNCHANGED streamVars
    BY DEF AllNext, allVars
  <2>2. CASE UNCHANGED streamVars
    BY <2>2 DEF streamVars, StreamShape, Numbered, Held
  <2> QED
    BY <2>1, <2>2, ShapeStep
<1>3. StreamInv /\ StreamShape => Stream!TypeOK
  BY StreamTyped
<1> QED
  BY <1>1, <1>2, <1>3, StreamInvariant, PTL DEF AllSpec

\* A step of the components side by side is one of the lease, or leaves it alone.
LEMMA LeaseSimulated == AllSpec => Spec
<1>1. AllInit => Init
  BY DEF AllInit
<1>2. [AllNext]_allVars => [Next]_vars
  BY DEF AllNext, allVars
<1> QED
  BY <1>1, <1>2, PTL DEF AllSpec, Spec

\* The state of the lease, of undo, of the event stream, of loading and of the
\* profiles' runtimes has its type for any constants: no more numbers are taken
\* than events were appended, a queue keeps to FANOUT_BUFFER, and an undo leaves
\* a content on every path whatever patches it collects.
THEOREM ServicesTypeCorrect == AllSpec => []ServicesTypeOK
<1>1. Spec => []TypeOK
  BY LeaseTypeCorrect
<1>2. Load!Spec => []Load!TypeOK
  BY LoadAssumption, Load!LoadTypeCorrect
<1>3. Cache!Spec => []Cache!TypeOK
  BY CacheAssumption, Cache!ProfilesTypeCorrect
<1> QED
  BY <1>1, <1>2, <1>3, LeaseSimulated, LoadSimulated, CacheSimulated, UndoTypeCorrect,
     StreamTypeCorrect, PTL DEF ServicesTypeOK
=============================================================================
