------------------------- MODULE MaterializerProofs -------------------------
(***************************************************************************)
(* Materializer for any finite number of requests and stops: the types,    *)
(* the single flight of remote requests and of each materializer, the      *)
(* single actor, and that no request is left waiting for good.             *)
(***************************************************************************)
EXTENDS Materializer, FiniteSetTheorems, TLAPS

-----------------------------------------------------------------------------
(***************************************************************************)
(* The inductive invariant.                                                *)
(***************************************************************************)
OuterPlaces == {"outerWaiting", "outerHeld", "outerDropping", "outerCleaning"}
Inside  == {"outerHeld", "asking", "waiting", "held", "preparing", "prepared", "registered"}
Leaving == {"dropping", "removing", "unlocking"}

\* The places in which a request has no single-flight lock, and those in
\* which it has one.
Unlocked == {"new", "outerWaiting", "outerHeld", "asking", "done"}
Locked   == {"waiting", "held", "preparing", "prepared", "registered"} \cup Leaving

\* A request that has registered its actor.
Past == Leaving \cup {"registered", "outerDropping", "outerCleaning", "done"}

\* A lock is referred to exactly in those places; a request that gives up the
\* remote lock with the other one in hand has loaded the session.
LocksOK ==
    \A c \in Requests :
       /\ pc[c] \in OuterPlaces => c \in Remote
       /\ pc[c] \in Unlocked => lock[c] = None
       /\ pc[c] \in Locked => lock[c] # None
       /\ pc[c] \in OuterPlaces /\ lock[c] # None => result[c] = "fresh"
       /\ pc[c] \in Leaving => result[c] # "none"

\* The remote lock is held from AcquireOuter until DropOuter, the clean-up or
\* the end of a failed request.
HoldsOuter(c) ==
    \/ pc[c] \in Inside \cup {"outerDropping"}
    \/ pc[c] \in Leaving /\ result[c] # "fresh"

\* All remote requests use the lock of the map's entry.
OuterOK ==
    \A c \in Remote :
       /\ outer[c] # None => outer[c] = entry
       /\ pc[c] \in {"outerWaiting", "outerCleaning"} => outer[c] # None
       /\ HoldsOuter(c) => outer[c] # None /\ holder[outer[c]] = c
       /\ pc[c] \in Leaving /\ result[c] = "fresh" => outer[c] = None

\* The single-flight lock is held from AcquireLock to Unlock.
Owns(c) == lock[c] # None /\ pc[c] # "waiting"
OwnerOK == \A c \in Requests : Owns(c) => owner[lock[c]] = c

\* A lock that is held is held by a request that refers to it and will give it
\* up.
HeldOK ==
    /\ \A l \in Requests : owner[l] # None => Owns(owner[l]) /\ lock[owner[l]] = l
    /\ \A l \in Remote : holder[l] # None =>
          /\ outer[holder[l]] = l
          /\ pc[holder[l]] \in Inside \cup Leaving \cup {"outerDropping", "outerCleaning"}

\* Unless one was removed too early, all requests that have a lock and have
\* not removed it themselves have the one of the map.
InnerOK ==
    ~raced => \A c \in Requests :
                 lock[c] # None /\ pc[c] # "unlocking" => lock[c] = inflight[Uses(c)]

\* Only the registered actor is told to stop.
ActorsOK ==
    /\ registry # None => pc[registry] \in Past
    /\ \A c \in Requests : pc[c] = "prepared" => c \in live
    /\ \A a \in stopping : pc[a] \in Past

\* An actor that was not told to stop is registered or about to be, and a
\* request that loads has found no actor and loads with the materializer the
\* others load with.
Loads(c) == pc[c] \in {"preparing", "prepared"}
SingleOK ==
    ~raced /\ ~crossed =>
       /\ \A a \in live \ stopping : a = registry \/ pc[a] = "prepared"
       /\ \A c \in Requests : Loads(c) => registry = None
       /\ \A c, d \in Requests : Loads(c) /\ Loads(d) => Uses(c) = Uses(d)

LoadInv == TypeOK /\ LocksOK /\ OuterOK /\ OwnerOK /\ HeldOK /\ InnerOK /\ ActorsOK /\ SingleOK

-----------------------------------------------------------------------------
(***************************************************************************)
(* Sets with at most one element.                                          *)
(***************************************************************************)
LEMMA AtMostOne ==
  ASSUME NEW S, \A x, y \in S : x = y
  PROVE  Cardinality(S) <= 1
<1>1. CASE S = {}
  BY <1>1, FS_EmptySet
<1>2. CASE S # {}
  <2>1. PICK x : x \in S
    BY <1>2
  <2>2. S = {x}
    BY <2>1
  <2> QED
    BY <2>2, FS_Singleton
<1> QED
  BY <1>1, <1>2

\* The references cleanup_materialization_lock counts: if it removes the
\* entry, nobody else has the lock.
LEMMA LastOuterUser ==
  ASSUME RequestsAssumption, TypeOK, NEW c \in Remote, outer[c] # None, outer[c] = entry,
         (IF entry = outer[c] THEN 1 ELSE 0) + Cardinality(OuterUsers(outer[c])) = 2
  PROVE  OuterUsers(outer[c]) = {c}
<1>1. IsFiniteSet(OuterUsers(outer[c]))
  BY FS_Subset DEF RequestsAssumption, OuterUsers, Requests
<1>2. Cardinality(OuterUsers(outer[c])) = 1
  BY <1>1, FS_CardinalityType
<1>3. c \in OuterUsers(outer[c])
  BY DEF OuterUsers
<1> QED
  BY <1>1, <1>2, <1>3, FS_Singleton

\* What is known is preserved by every step of a request.
LEMMA RequestKeeps ==
  ASSUME RequestsAssumption, LoadInv, NEW c \in Requests, Begin(c) \/ Proceed(c)
  PROVE  LoadInv'
<1> USE DEF RequestsAssumption, LoadInv, Goes, Comes, Requests, innerVars, outerVars, actorVars,
            TypeOK, Places, LocksOK, OuterOK, HoldsOuter, OwnerOK, Owns, HeldOK, InnerOK, ActorsOK,
            SingleOK, Loads, Uses, Materializers, OuterPlaces, Inside, Leaving, Unlocked, Locked, Past
<1>1. ASSUME FindRemote(c) PROVE LoadInv'
  BY <1>1 DEF FindRemote
<1>2. ASSUME MissRemote(c) PROVE LoadInv'
  BY <1>2 DEF MissRemote
<1>3. ASSUME LookupOuter(c), c \in Remote PROVE LoadInv'
  BY <1>3 DEF LookupOuter
<1>4. ASSUME AcquireOuter(c) PROVE LoadInv'
  BY <1>4 DEF AcquireOuter, OuterFree
<1>5. ASSUME LookupLock(c) PROVE LoadInv'
  BY <1>5 DEF LookupLock
<1>6. ASSUME AcquireLock(c) PROVE LoadInv'
  BY <1>6 DEF AcquireLock, LockFree
<1>7. ASSUME FoundMeanwhile(c) PROVE LoadInv'
  BY <1>7 DEF FoundMeanwhile
<1>8. ASSUME StillMissing(c) PROVE LoadInv'
  <2>1. crossed' \in BOOLEAN
    BY <1>8 DEF StillMissing
  <2>2. ASSUME ~raced', ~crossed' PROVE ~raced /\ ~crossed /\ registry' = None
    BY <1>8, <2>2 DEF StillMissing
  <2>3. ASSUME ~raced', ~crossed', NEW d \in Requests, Loads(d) PROVE Uses(d) = Uses(c)
    BY <1>8, <2>3 DEF StillMissing
  <2>4. TypeOK' /\ LocksOK' /\ OuterOK' /\ OwnerOK' /\ HeldOK' /\ InnerOK' /\ ActorsOK'
    <3> HIDE DEF SingleOK
    <3>1. pc' = [pc EXCEPT ![c] = "preparing"] /\ pc[c] = "held"
      BY <1>8 DEF StillMissing
    <3>2. UNCHANGED <<result, innerVars, outerVars, registry, live, stopping, stops>>
      BY <1>8 DEF StillMissing
    <3> QED
      BY <2>1, <3>1, <3>2
  <2>5. SingleOK'
    <3>1. pc' = [pc EXCEPT ![c] = "preparing"] /\ pc[c] = "held"
      BY <1>8 DEF StillMissing
    <3>2. UNCHANGED <<registry, live, stopping>>
      BY <1>8 DEF StillMissing
    <3>3. ASSUME NEW d \in Requests, Loads(d)' PROVE d = c \/ Loads(d)
      BY <3>1, <3>3
    <3> QED
      BY <2>2, <2>3, <3>1, <3>2, <3>3
  <2> QED
    BY <2>4, <2>5
<1>9. ASSUME Prepare(c) PROVE LoadInv'
  BY <1>9 DEF Prepare
<1>10. ASSUME PrepareFails(c) PROVE LoadInv'
  BY <1>10 DEF PrepareFails
<1>11. ASSUME Register(c) PROVE LoadInv'
  BY <1>11 DEF Register
<1>12. ASSUME Finalize(c) PROVE LoadInv'
  BY <1>12 DEF Finalize
<1>13. ASSUME FinalizeFails(c) PROVE LoadInv'
  BY <1>13 DEF FinalizeFails
<1>14. ASSUME CountUsers(c) PROVE LoadInv'
  BY <1>14 DEF CountUsers
<1>15. ASSUME RemoveLock(c) PROVE LoadInv'
  <2>1. ASSUME ~raced', NEW d \in Requests, d # c, Uses(d) = Uses(c), lock[d] # None
        PROVE  pc[d] = "unlocking"
    <3>1. lock[c] = inflight[Uses(c)]
      BY <1>15, <2>1 DEF RemoveLock
    <3>2. Users(lock[c]) = {c}
      BY <1>15, <2>1, <3>1 DEF RemoveLock
    <3> QED
      BY <1>15, <2>1, <3>1, <3>2 DEF RemoveLock, Users
  <2>2. InnerOK'
    BY <1>15, <2>1 DEF RemoveLock
  <2> QED
    BY <1>15, <2>2 DEF RemoveLock
<1>16. ASSUME Unlock(c) PROVE LoadInv'
  BY <1>16 DEF Unlock
<1>17. ASSUME DropOuter(c) PROVE LoadInv'
  BY <1>17 DEF DropOuter
<1>18. ASSUME CleanUpOuter(c) PROVE LoadInv'
  BY <1>18, LastOuterUser DEF CleanUpOuter, OuterUsers
<1>19. ASSUME FindLocal(c), c \in Local PROVE LoadInv'
  BY <1>19 DEF FindLocal
<1>20. ASSUME MissLocal(c), c \in Local PROVE LoadInv'
  BY <1>20 DEF MissLocal
<1> QED
  BY <1>1, <1>2, <1>3, <1>4, <1>5, <1>6, <1>7, <1>8, <1>9, <1>10, <1>11, <1>12, <1>13, <1>14, <1>15, <1>16, <1>17, <1>18, <1>19, <1>20 DEF Begin, Proceed

\* The invariant holds in every reachable state.
LEMMA LoadInvariant ==
  ASSUME RequestsAssumption
  PROVE  Spec => []LoadInv
<1>1. Init => LoadInv
  <2> SUFFICES ASSUME Init PROVE LoadInv
    OBVIOUS
  <2>1. TypeOK
    <3>1. pc \in [Requests -> Places]
      BY DEF Init, Places
    <3>2. 0 \in 0..MaxStops
      BY DEF RequestsAssumption
    <3> QED
      BY <3>1, <3>2 DEF Init, TypeOK
  <2>2. LocksOK /\ OuterOK
    BY DEF Init, LocksOK, OuterOK, HoldsOuter, OuterPlaces, Inside, Leaving, Locked, Requests
  <2>3. OwnerOK /\ HeldOK /\ InnerOK /\ ActorsOK /\ SingleOK
    BY DEF Init, OwnerOK, Owns, HeldOK, Requests, InnerOK, ActorsOK, SingleOK, Loads
  <2> QED
    BY <2>1, <2>2, <2>3 DEF LoadInv
<1>2. LoadInv /\ [Next]_vars => LoadInv'
  <2> SUFFICES ASSUME LoadInv, [Next]_vars PROVE LoadInv'
    OBVIOUS
  <2> USE DEF LoadInv, TypeOK, LocksOK, OuterOK, HoldsOuter, OwnerOK, Owns, HeldOK, InnerOK,
              ActorsOK, SingleOK, Loads, innerVars, outerVars
  <2>1. ASSUME NEW c \in Requests, Begin(c) \/ Proceed(c) PROVE LoadInv'
    BY <2>1, RequestKeeps
  <2>2. CASE StopSession
    BY <2>2 DEF StopSession, RequestsAssumption, Past
  <2>3. ASSUME NEW a \in Requests, ActorStops(a) PROVE LoadInv'
    BY <2>3 DEF ActorStops, Past, Leaving
  <2>4. CASE UNCHANGED vars
    BY <2>4 DEF vars
  <2> QED
    BY <2>1, <2>2, <2>3, <2>4 DEF Next
<1> QED
  BY <1>1, <1>2, PTL DEF Spec

-----------------------------------------------------------------------------
\* Every variable keeps its type, and the registered actor runs and was not
\* told to stop.
THEOREM LoadTypeCorrect ==
  ASSUME RequestsAssumption
  PROVE  Spec => []TypeOK
<1>1. LoadInv => TypeOK
  BY DEF LoadInv
<1> QED
  BY <1>1, LoadInvariant, PTL

\* RemoteNodeManager lets one remote request look for the actor and load it at
\* a time: those inside hold the lock of the map's entry, which the clean-up
\* removes only when nobody else refers to it.
THEOREM RemoteExclusive ==
  ASSUME RequestsAssumption
  PROVE  Spec => []RemoteSingleFlight
<1>1. LoadInv => RemoteSingleFlight
  <2> SUFFICES ASSUME LoadInv PROVE RemoteSingleFlight
    OBVIOUS
  <2>1. \A c, d \in Remote : pc[c] \in Inside /\ pc[d] \in Inside => c = d
    BY DEF LoadInv, OuterOK, HoldsOuter
  <2> QED
    BY <2>1, AtMostOne DEF RemoteSingleFlight, Inside
<1> QED
  BY <1>1, LoadInvariant, PTL

\* Unless SessionSingleFlightGuard::drop removed a lock somebody waited for, a
\* materializer loads the session once at a time, and there are never two
\* actors that were not told to stop unless both materializers loaded at once.
THEOREM ActorUnique ==
  ASSUME RequestsAssumption
  PROVE  Spec => []OneActor
<1>1. LoadInv => OneActor
  <2> SUFFICES ASSUME LoadInv, ~raced PROVE OneActor
    BY DEF OneActor
  <2>1. \A c, d \in Requests :
           /\ Uses(c) = Uses(d)
           /\ pc[c] \in {"held", "preparing", "prepared", "registered"}
           /\ pc[d] \in {"held", "preparing", "prepared", "registered"}
           => c = d
    BY DEF LoadInv, LocksOK, Locked, OwnerOK, Owns, InnerOK
  <2>2. ASSUME NEW m \in Materializers
        PROVE  Cardinality({c \in Requests : Uses(c) = m /\ pc[c] \in {"held", "preparing", "prepared",
                                                                     "registered"}}) <= 1
    <3>1. PICK S : S = {c \in Requests : Uses(c) = m /\ pc[c] \in {"held", "preparing", "prepared",
                                                                  "registered"}}
      OBVIOUS
    <3>2. \A x, y \in S : x = y
      BY <2>1, <3>1
    <3> QED
      BY <3>1, <3>2, AtMostOne
  <2>3. ASSUME ~crossed PROVE Cardinality(live \ stopping) <= 1
    <3>1. live \ stopping \subseteq Requests
      BY DEF LoadInv, TypeOK
    <3>2. \A a, b \in live \ stopping : a = b
      BY <2>1, <2>3, <3>1 DEF LoadInv, SingleOK, Loads, RequestsAssumption
    <3> QED
      BY <3>2, AtMostOne
  <2> QED
    BY <2>2, <2>3 DEF OneActor
<1> QED
  BY <1>1, LoadInvariant, PTL

\* Requests never wait for each other in a circle, and never for one that has
\* ended: the holder of the single-flight lock waits for nothing, and the holder
\* of a remote lock at most for the single-flight lock.
THEOREM NoRequestStuck ==
  ASSUME RequestsAssumption
  PROVE  Spec => []RequestsGoOn
<1>1. LoadInv => RequestsGoOn
  <2> SUFFICES ASSUME LoadInv, NEW c \in Requests, pc[c] \notin {"new", "done"}, ~GoesOn(c)
               PROVE  \/ \E d \in Requests : WaitsFor(c, d) /\ GoesOn(d)
                      \/ \E d, e \in Requests : WaitsFor(c, d) /\ WaitsFor(d, e) /\ GoesOn(e)
    BY DEF RequestsGoOn
  <2>1. PICK d \in Requests : WaitsFor(c, d)
    BY DEF GoesOn
  <2>2. ASSUME NEW e \in Requests, pc[e] = "waiting", NEW f \in Requests, WaitsFor(e, f)
        PROVE  GoesOn(f)
    <3>1. lock[e] \in Requests /\ owner[lock[e]] = f /\ f # None
      BY <2>2 DEF LoadInv, TypeOK, LocksOK, Locked, WaitsFor, LockFree, RequestsAssumption
    <3>2. Owns(f)
      BY <3>1 DEF LoadInv, HeldOK
    <3>3. pc[f] \notin Unlocked /\ pc[f] # "waiting"
      BY <2>2, <3>2 DEF Owns, LoadInv, LocksOK
    <3> QED
      BY <3>3 DEF GoesOn, WaitsFor, Unlocked
  <2>3. CASE pc[c] = "waiting"
    BY <2>1, <2>2, <2>3
  <2>4. CASE pc[c] = "outerWaiting"
    <3>1. c \in Remote /\ outer[c] \in Remote /\ holder[outer[c]] = d /\ d # None
      BY <2>1, <2>4 DEF LoadInv, TypeOK, LocksOK, OuterPlaces, OuterOK, WaitsFor, OuterFree,
                        RequestsAssumption
    <3>2. pc[d] \in Inside \cup Leaving \cup {"outerDropping", "outerCleaning"}
      BY <3>1 DEF LoadInv, HeldOK
    <3>3. CASE pc[d] = "waiting"
      <4>1. CASE GoesOn(d)
        BY <2>1, <4>1
      <4>2. CASE ~GoesOn(d)
        <5>1. PICK e \in Requests : WaitsFor(d, e)
          BY <3>3, <4>2 DEF GoesOn
        <5> QED
          BY <2>1, <2>2, <3>3, <5>1
      <4> QED
        BY <4>1, <4>2
    <3>4. CASE pc[d] # "waiting"
      <4>1. GoesOn(d)
        BY <3>2, <3>4 DEF GoesOn, WaitsFor, Inside, Leaving
      <4> QED
        BY <2>1, <4>1
    <3> QED
      BY <3>3, <3>4
  <2> QED
    BY <2>1, <2>3, <2>4 DEF WaitsFor
<1> QED
  BY <1>1, LoadInvariant, PTL
=============================================================================
