---------------------------- MODULE Materializer ----------------------------
(***************************************************************************)
(* Loading one stored session into an actor, while any number of requests  *)
(* ask for it and others stop it.  Requests to the local handle (load and  *)
(* resume) take the session's single-flight lock of the handle's           *)
(* SessionMaterializer.  Requests of other nodes take a lock of            *)
(* RemoteNodeManager first and then the single-flight lock of the          *)
(* materializer the node manager made for itself; the registry is the same *)
(* for both.  Locks live in a map from which the last user removes them:   *)
(* RemoteNodeManager counts the users under the map's mutex,               *)
(* SessionSingleFlightGuard::drop counts them before it takes the mutex.   *)
(*                                                                         *)
(* A lock and an actor are named after the request that made them.         *)
(***************************************************************************)
EXTENDS Integers, FiniteSets

CONSTANTS Local,    \* requests to the local handle
          Remote,   \* requests of other nodes
          None,
          MaxLoads, \* bound: requests made
          MaxStops  \* bound: stops

VARIABLES
    pc,        \* where a request is
    result,    \* what it came to: none, fresh, existing, failed
    inflight,  \* the session's entry of inflight, of either materializer
    lock,      \* the single-flight lock a request has a reference to
    owner,     \* the request that holds a single-flight lock
    entry,     \* the session's entry of materialization_locks
    outer,     \* the remote lock a request has a reference to
    holder,    \* the request that holds a remote lock
    registry,  \* the registered actor
    live,      \* actors that were spawned and run
    stopping,  \* actors told to shut down
    stops,
    \* history variables
    raced,     \* a lock was removed from inflight while a request waited for it
    crossed    \* both materializers found no actor and loaded at once

vars == <<pc, result, inflight, lock, owner, entry, outer, holder, registry, live, stopping,
          stops, raced, crossed>>
innerVars == <<inflight, lock, owner, raced>>
outerVars == <<entry, outer, holder>>
actorVars == <<registry, live, stopping, stops, crossed>>

-----------------------------------------------------------------------------
Requests == Local \cup Remote

\* The requests that share a materializer, and the materializers' names.
Materializers == {"handle", "node"}
Uses(c) == IF c \in Remote THEN "node" ELSE "handle"

\* A request is local or of another node, and there are finitely many.
RequestsAssumption ==
    /\ Local \cap Remote = {} /\ None \notin Requests /\ IsFiniteSet(Requests)
    /\ MaxLoads \in Nat /\ MaxStops \in Nat

Places == {"new", "outerWaiting", "outerHeld", "asking", "waiting", "held", "preparing",
           "prepared", "registered", "dropping", "removing", "unlocking", "outerDropping",
           "outerCleaning", "done"}

TypeOK ==
    /\ pc \in [Requests -> Places]
    /\ result \in [Requests -> {"none", "fresh", "existing", "failed"}]
    /\ inflight \in [Materializers -> Requests \cup {None}] /\ entry \in Remote \cup {None}
    /\ lock \in [Requests -> Requests \cup {None}] /\ owner \in [Requests -> Requests \cup {None}]
    /\ outer \in [Remote -> Remote \cup {None}] /\ holder \in [Remote -> Remote \cup {None}]
    /\ registry \in Requests \cup {None}
    /\ live \subseteq Requests /\ stopping \subseteq live
    /\ registry # None => registry \in live \ stopping
    /\ stops \in 0..MaxStops /\ raced \in BOOLEAN /\ crossed \in BOOLEAN

Init ==
    /\ pc = [c \in Requests |-> "new"] /\ result = [c \in Requests |-> "none"]
    /\ inflight = [m \in Materializers |-> None] /\ lock = [c \in Requests |-> None] /\ owner = [c \in Requests |-> None]
    /\ entry = None /\ outer = [c \in Remote |-> None] /\ holder = [c \in Remote |-> None]
    /\ registry = None /\ live = {} /\ stopping = {} /\ stops = 0
    /\ raced = FALSE /\ crossed = FALSE

Goes(c, from, to) == pc[c] = from /\ pc' = [pc EXCEPT ![c] = to]
Comes(c, r) == result' = [result EXCEPT ![c] = r]

\* Requests with a reference to a lock of either kind.
Users(l)      == {c \in Requests : lock[c] = l}
OuterUsers(l) == {c \in Remote : outer[c] = l}

-----------------------------------------------------------------------------
(***************************************************************************)
(* Requests to the handle look into the registry and return the actor they *)
(* find there.  Requests of other nodes do so under the remote lock.       *)
(***************************************************************************)
FindLocal(c) ==
    /\ registry # None
    /\ Goes(c, "new", "done") /\ Comes(c, "existing")
    /\ UNCHANGED <<innerVars, outerVars, actorVars>>

MissLocal(c) ==
    /\ registry = None
    /\ Goes(c, "new", "asking")
    /\ UNCHANGED <<result, innerVars, outerVars, actorVars>>

\* materialization_locks.entry(..).or_insert_with(..)
LookupOuter(c) ==
    /\ Goes(c, "new", "outerWaiting")
    /\ entry' = IF entry = None THEN c ELSE entry
    /\ outer' = [outer EXCEPT ![c] = entry']
    /\ UNCHANGED <<result, innerVars, holder, actorVars>>

OuterFree(c) == holder[outer[c]] = None

AcquireOuter(c) ==
    /\ Goes(c, "outerWaiting", "outerHeld")
    /\ OuterFree(c)
    /\ holder' = [holder EXCEPT ![outer[c]] = c]
    /\ UNCHANGED <<result, innerVars, entry, outer, actorVars>>

FindRemote(c) ==
    /\ registry # None
    /\ Goes(c, "outerHeld", "outerCleaning") /\ Comes(c, "existing")
    /\ UNCHANGED <<innerVars, outerVars, actorVars>>

MissRemote(c) ==
    /\ registry = None
    /\ Goes(c, "outerHeld", "asking")
    /\ UNCHANGED <<result, innerVars, outerVars, actorVars>>

-----------------------------------------------------------------------------
(***************************************************************************)
(* prepare_load_session and prepare_resume_session.                        *)
(***************************************************************************)
LookupLock(c) ==
    /\ Goes(c, "asking", "waiting")
    /\ inflight' = [inflight EXCEPT ![Uses(c)] = IF @ = None THEN c ELSE @]
    /\ lock' = [lock EXCEPT ![c] = inflight'[Uses(c)]]
    /\ UNCHANGED <<result, owner, raced, outerVars, actorVars>>

LockFree(c) == owner[lock[c]] = None

AcquireLock(c) ==
    /\ Goes(c, "waiting", "held")
    /\ LockFree(c)
    /\ owner' = [owner EXCEPT ![lock[c]] = c]
    /\ UNCHANGED <<result, inflight, lock, raced, outerVars, actorVars>>

\* AlreadyRegistered: the guard is dropped on return.
FoundMeanwhile(c) ==
    /\ registry # None
    /\ Goes(c, "held", "dropping") /\ Comes(c, "existing")
    /\ UNCHANGED <<innerVars, outerVars, actorVars>>

StillMissingUnchecked(c) ==
    /\ Goes(c, "held", "preparing")
    /\ UNCHANGED <<result, innerVars, outerVars, actorVars>>

StillMissing(c) ==
    /\ registry = None
    /\ Goes(c, "held", "preparing")
    /\ crossed' = (crossed \/ \E d \in Requests : /\ pc[d] \in {"preparing", "prepared"}
                                                 /\ Uses(d) # Uses(c))
    /\ UNCHANGED <<result, innerVars, outerVars, registry, live, stopping, stops>>

\* materialize_session_actor
Prepare(c) ==
    /\ Goes(c, "preparing", "prepared")
    /\ live' = live \cup {c}
    /\ UNCHANGED <<result, innerVars, outerVars, registry, stopping, stops, crossed>>

\* Unknown session, bad directory, MCP start-up: an actor already spawned has
\* no reference left and ends.
PrepareFails(c) ==
    /\ Goes(c, "preparing", "dropping") /\ Comes(c, "failed")
    /\ UNCHANGED <<innerVars, outerVars, actorVars>>

\* register_prepared_session
Register(c) ==
    /\ Goes(c, "prepared", "registered")
    /\ registry' = c
    /\ UNCHANGED <<result, innerVars, outerVars, live, stopping, stops, crossed>>

\* finalize_session.  The node manager gives up its own lock before the
\* prepared session, and with it the guard, goes out of scope.
Finalize(c) ==
    /\ Goes(c, "registered", IF c \in Remote THEN "outerDropping" ELSE "dropping")
    /\ Comes(c, "fresh")
    /\ UNCHANGED <<innerVars, outerVars, actorVars>>

FinalizeFails(c) ==
    /\ Goes(c, "registered", "dropping") /\ Comes(c, "failed")
    /\ UNCHANGED <<innerVars, outerVars, actorVars>>

-----------------------------------------------------------------------------
(***************************************************************************)
(* SessionSingleFlightGuard::drop.  The guard and the map have three       *)
(* references, every other request adds two.                               *)
(***************************************************************************)
CountUsers(c) ==
    /\ Goes(c, "dropping",
            IF (IF inflight[Uses(c)] = lock[c] THEN 1 ELSE 0) + 2 * Cardinality(Users(lock[c])) = 3
            THEN "removing" ELSE "unlocking")
    /\ UNCHANGED <<result, innerVars, outerVars, actorVars>>

RemoveLock(c) ==
    /\ Goes(c, "removing", "unlocking")
    /\ inflight' = [inflight EXCEPT ![Uses(c)] = IF @ = lock[c] THEN None ELSE @]
    /\ raced' = (raced \/ (inflight[Uses(c)] = lock[c] /\ Users(lock[c]) # {c}))
    /\ UNCHANGED <<result, lock, owner, outerVars, actorVars>>

UnlockKeepsOuter(c) ==
    /\ pc[c] = "unlocking"
    /\ owner' = [owner EXCEPT ![lock[c]] = None]
    /\ lock' = [lock EXCEPT ![c] = None]
    /\ pc' = [pc EXCEPT ![c] = IF c \in Remote /\ result[c] = "existing"
                               THEN "outerDropping" ELSE "done"]
    /\ UNCHANGED <<result, inflight, raced, outerVars, actorVars>>

\* A failed request of another node drops its remote lock without clean-up.
Unlock(c) ==
    /\ pc[c] = "unlocking"
    /\ owner' = [owner EXCEPT ![lock[c]] = None]
    /\ lock' = [lock EXCEPT ![c] = None]
    /\ IF c \in Remote /\ result[c] = "failed"
       THEN holder' = [holder EXCEPT ![outer[c]] = None] /\ outer' = [outer EXCEPT ![c] = None]
       ELSE UNCHANGED <<holder, outer>>
    /\ pc' = [pc EXCEPT ![c] = IF c \in Remote /\ result[c] = "existing"
                               THEN "outerDropping" ELSE "done"]
    /\ UNCHANGED <<result, inflight, raced, entry, actorVars>>

DropOuter(c) ==
    /\ Goes(c, "outerDropping", "outerCleaning")
    /\ holder' = [holder EXCEPT ![outer[c]] = None]
    /\ UNCHANGED <<result, innerVars, entry, outer, actorVars>>

CleanUpOuterAlways(c) ==
    /\ Goes(c, "outerCleaning", IF lock[c] = None THEN "done" ELSE "dropping")
    /\ entry' = None
    /\ holder' = [holder EXCEPT ![outer[c]] = IF @ = c THEN None ELSE @]
    /\ outer' = [outer EXCEPT ![c] = None]
    /\ UNCHANGED <<result, innerVars, actorVars>>

\* cleanup_materialization_lock.  A request that found the actor at once still
\* holds the lock and drops it here.
CleanUpOuter(c) ==
    /\ Goes(c, "outerCleaning", IF lock[c] = None THEN "done" ELSE "dropping")
    /\ entry' = IF (IF entry = outer[c] THEN 1 ELSE 0) + Cardinality(OuterUsers(outer[c])) = 2
                THEN None ELSE entry
    /\ holder' = [holder EXCEPT ![outer[c]] = IF @ = c THEN None ELSE @]
    /\ outer' = [outer EXCEPT ![c] = None]
    /\ UNCHANGED <<result, innerVars, actorVars>>

-----------------------------------------------------------------------------
StopKeepsEntry ==
    /\ registry # None /\ stops < MaxStops
    /\ stopping' = stopping \cup {registry} /\ stops' = stops + 1
    /\ UNCHANGED <<pc, result, innerVars, outerVars, registry, live, crossed>>

\* stop_session and StopRemoteSessionRuntime: the entry goes at once, the actor
\* when it has handled Shutdown.
StopSession ==
    /\ registry # None /\ stops < MaxStops
    /\ registry' = None /\ stopping' = stopping \cup {registry} /\ stops' = stops + 1
    /\ UNCHANGED <<pc, result, innerVars, outerVars, live, crossed>>

ActorStops(a) ==
    /\ a \in stopping
    /\ live' = live \ {a} /\ stopping' = stopping \ {a}
    /\ UNCHANGED <<pc, result, innerVars, outerVars, registry, stops, crossed>>

-----------------------------------------------------------------------------
Begin(c) ==
    /\ Cardinality({d \in Requests : pc[d] # "new"}) < MaxLoads
    /\ \/ c \in Local /\ (FindLocal(c) \/ MissLocal(c))
       \/ c \in Remote /\ LookupOuter(c)

Proceed(c) ==
    \/ AcquireOuter(c) \/ FindRemote(c) \/ MissRemote(c)
    \/ LookupLock(c) \/ AcquireLock(c) \/ FoundMeanwhile(c) \/ StillMissing(c)
    \/ Prepare(c) \/ PrepareFails(c) \/ Register(c) \/ Finalize(c) \/ FinalizeFails(c)
    \/ CountUsers(c) \/ RemoveLock(c) \/ Unlock(c)
    \/ DropOuter(c) \/ CleanUpOuter(c)

Next ==
    \/ \E c \in Requests : Begin(c) \/ Proceed(c)
    \/ StopSession
    \/ \E a \in Requests : ActorStops(a)

Spec == Init /\ [][Next]_vars

-----------------------------------------------------------------------------
(***************************************************************************)
(* Properties                                                              *)
(***************************************************************************)

\* Each materializer loads a stored session once at a time, and the session
\* has one actor, however requests, failures and stops interleave, unless a
\* lock was removed while a request waited for it; for the actor, unless a
\* local and a remote load, which exclude each other only by the registry,
\* overlapped.
OneActor ==
    ~raced =>
       /\ \A m \in Materializers :
             Cardinality({c \in Requests : Uses(c) = m /\ pc[c] \in {"held", "preparing", "prepared",
                                                                   "registered"}}) <= 1
       /\ ~crossed => Cardinality(live \ stopping) <= 1

\* Requests of other nodes look for the actor and load it one at a time: the
\* clean-up of RemoteNodeManager never removes a lock somebody uses, although
\* requests leave it on four ways.
RemoteSingleFlight ==
    Cardinality({c \in Remote : pc[c] \in {"outerHeld", "asking", "waiting", "held", "preparing",
                                           "prepared", "registered"}}) <= 1

\* A request is held up by the one that holds the lock it waits for.  In every
\* place but these two it has a step of its own.
WaitsFor(c, d) ==
    \/ pc[c] = "outerWaiting" /\ ~OuterFree(c) /\ d = holder[outer[c]]
    \/ pc[c] = "waiting" /\ ~LockFree(c) /\ d = owner[lock[c]]
GoesOn(c) == pc[c] \notin {"new", "done"} /\ \A d \in Requests : ~WaitsFor(c, d)

\* A request that has not ended can go on, or it waits for one that can, or for
\* one that waits for one that can: the two locks never wait for each other and
\* every way out of a request gives up what it holds.
RequestsGoOn ==
    \A c \in Requests : pc[c] \notin {"new", "done"} =>
       \/ GoesOn(c)
       \/ \E d \in Requests : WaitsFor(c, d) /\ GoesOn(d)
       \/ \E d, e \in Requests : WaitsFor(c, d) /\ WaitsFor(d, e) /\ GoesOn(e)
=============================================================================
