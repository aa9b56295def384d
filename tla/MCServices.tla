----------------------------- MODULE MCServices -----------------------------
(***************************************************************************)
(* Five components that share no state with each other, side by side: the  *)
(* scheduler lease, the undo of file changes, the events on their way to a *)
(* dashboard client, the loading of a session and the runtimes of          *)
(* profiles.  A behaviour chooses at its start which of them moves, so the *)
(* states explored are the sum of theirs.                                  *)
(* Loading and profiles are instantiated with the theorems proved of them. *)
(***************************************************************************)
EXTENDS SchedulerLease, FiniteSets

CONSTANTS Paths, MaxTurns, MaxUndos,
          Durable, Ephemeral, Unlisted, Finals, Deltas, Limit, Capacity, MaxRequests, MaxBreaks,
          Local, Remote, None, MaxLoads, MaxStops,
          Callers, Profiles, Default, MaxEdits

VARIABLES
    moving,   \* the component that moves
    files, history, children, frames, phase, frontier, turns, pre, wrote,
    handling, target, saved, patches, left, undos, undoMarks,
    stage, seq, nextSeq, journal, queue, lagged, forwarder, inHand, subscribed, cursor, handler,
    batch, shown, requests, breaks, placed, overtaken, excused,
    pc, result, inflight, lock, lockOwner, outerEntry, outer, holder, registry, live, stopping,
    stops, raced, crossed,
    file, edits, changed, at, profile, print, config, got, runtimes, prints, cacheLock, printLock,
    active, choice, mesh, meshed, watch, listing, retired, overtakenCalls

Undo == INSTANCE Undo WITH marks <- undoMarks
Stream == INSTANCE EventStream
Load == INSTANCE MaterializerProofs WITH owner <- lockOwner, entry <- outerEntry
Cache == INSTANCE ProfilesProofs WITH overtaken <- overtakenCalls

\* What the theorems assume of the constants.
ASSUME UndoAssumption == Undo!TurnsAssumption
ASSUME StreamAssumption == Stream!EventsAssumption
ASSUME LoadAssumption == Load!RequestsAssumption
ASSUME CacheAssumption == Cache!ProfilesAssumption

undoVars == <<files, history, children, frames, phase, frontier, turns, pre, wrote, handling,
              target, saved, patches, left, undos, undoMarks>>
streamVars == <<stage, seq, nextSeq, journal, queue, lagged, forwarder, inHand, subscribed,
                cursor, handler, batch, shown, requests, breaks, placed, overtaken, excused>>
loadVars == <<pc, result, inflight, lock, lockOwner, outerEntry, outer, holder, registry, live,
              stopping, stops, raced, crossed>>
cacheVars == <<file, edits, changed, at, profile, print, config, got, runtimes, prints, cacheLock,
               printLock, active, choice, mesh, meshed, watch, listing, retired, overtakenCalls>>
allVars == <<moving, vars, undoVars, streamVars, loadVars, cacheVars>>

AllInit ==
    /\ moving \in {"lease", "undo", "stream", "load", "profiles"}
    /\ Init /\ Undo!Init /\ Stream!Init /\ Load!Init /\ Cache!Init

AllNext ==
    /\ UNCHANGED moving
    /\ \/ /\ moving = "lease" /\ Next
          /\ UNCHANGED <<undoVars, streamVars, loadVars, cacheVars>>
       \/ /\ moving = "undo" /\ Undo!Next
          /\ UNCHANGED <<vars, streamVars, loadVars, cacheVars>>
       \/ /\ moving = "stream" /\ Stream!Next
          /\ UNCHANGED <<vars, undoVars, loadVars, cacheVars>>
       \/ /\ moving = "load" /\ Load!Next
          /\ UNCHANGED <<vars, undoVars, streamVars, cacheVars>>
       \/ /\ moving = "profiles" /\ Cache!Next
          /\ UNCHANGED <<vars, undoVars, streamVars, loadVars>>

AllSpec == AllInit /\ [][AllNext]_allVars

-----------------------------------------------------------------------------
\* Of the events that except a behaviour from FilesFollowHistory one kind is
\* explored at a time, with one turn less, and nothing after those that except
\* it from FrontierStored, too; delegations are explored by another run.
FewMarks ==
    /\ Cardinality(undoMarks) <= 1
    /\ undoMarks # {} => turns < MaxTurns
    /\ undoMarks \cap {"overlapped", "uncleared", "delegated"} = {}

\* Requests of a kind and calls are interchangeable, so they come in the order
\* of their numbers.
InOrder ==
    /\ \A kind \in {Local, Remote} : \A c, d \in kind :
          c < d /\ pc[c] = "new" => pc[d] = "new"
    /\ \A c, d \in Callers : c < d /\ at[c] = "new" => at[d] = "new"

\* A broken connection and a failed append are explored apart.
OneFault == breaks > 0 => \A e \in Durable : stage[e] # "failed"

Bounded == FewMarks /\ InOrder /\ OneFault

\* The state of every component has its type.
ServicesTypeOK ==
    TypeOK /\ Undo!TypeOK /\ Stream!TypeOK /\ Load!TypeOK /\ Cache!TypeOK

\* The properties of undo: see Undo.
FrontierStored == Undo!FrontierStored
FilesFollowHistory == Undo!FilesFollowHistory

\* The properties of the event stream: see EventStream.
ShownInOrder == Stream!ShownInOrder
NothingMissed == Stream!NothingMissed

\* The properties of loading: see Materializer.
OneActor == Load!OneActor
RemoteSingleFlight == Load!RemoteSingleFlight
RequestsGoOn == Load!RequestsGoOn

\* The properties of the runtimes of profiles: see Profiles.
RuntimesShared == Cache!RuntimesShared
CacheCurrent == Cache!CacheCurrent
=============================================================================
