------------------------------ MODULE Profiles ------------------------------
(***************************************************************************)
(* The runtimes of profiles: ProfileRuntimeManager builds a runtime when a *)
(* profile is first asked for and caches it; a watcher of the profile      *)
(* files reloads the catalog and evicts what no longer fits its file.  The *)
(* cache and the fingerprints of what it holds have a mutex each, and the  *)
(* calls take them in different orders.                                    *)
(*                                                                         *)
(* Profiles are numbered as the catalog sorts them.  A file is the number  *)
(* of its last edit, and so is its fingerprint.  A runtime is named after  *)
(* the call that built it.                                                 *)
(***************************************************************************)
EXTENDS Naturals

CONSTANTS Callers,   \* calls of runtime_for_profile
          Profiles,  \* profile ids, numbers
          Default,   \* DEFAULT_EMBEDDED_PROFILE_KEY
          None,
          MaxEdits   \* bound: edits of the files

VARIABLES
    file,         \* the last edit of a profile's file, 0 if there is none
    edits,
    changed,      \* an event of the watcher is unread
    at,           \* where a call is
    profile,      \* the profile it asks for
    print,        \* the fingerprint it has read
    config,       \* the edit its runtime was configured from
    got,          \* the runtime it returned
    runtimes,     \* the cache
    prints,       \* runtime_fingerprints
    cacheLock,    \* the holder of the mutex of runtimes
    printLock,    \* the holder of the mutex of runtime_fingerprints
    active,       \* active_profile_id
    choice,       \* the profile set_active_profile has found, None before it
    mesh,         \* set_mesh: "none", "set" (the handle is stored), "done"
    meshed,       \* runtimes that were given the mesh
    watch,        \* where the watcher is
    listing,      \* the catalog it has read
    retired,      \* runtimes evicted or shut down
    overtaken     \* calls that had read a file a reload found changed since

vars == <<file, edits, changed, at, profile, print, config, got, runtimes, prints, cacheLock,
          printLock, active, choice, mesh, meshed, watch, listing, retired, overtaken>>
catalogVars == <<file, edits, changed>>
callVars    == <<at, profile, print, config, got>>
activeVars  == <<active, choice>>
meshVars    == <<mesh, meshed>>
watchVars   == <<watch, listing, overtaken>>

-----------------------------------------------------------------------------
\* There is a profile, and the files may be edited after the start.
ProfilesAssumption ==
    /\ Profiles \subseteq Nat /\ Profiles # {}
    /\ None \notin Callers \cup Profiles
    /\ MaxEdits \in Nat \ {0}

Watcher == "watcher"
Edits == 0..MaxEdits
NoListing == [p \in Profiles |-> 0]

TypeOK ==
    /\ file \in [Profiles -> Edits] /\ edits \in Edits /\ changed \in BOOLEAN
    /\ at \in [Callers -> {"new", "asking", "missed", "read", "built", "inserting", "done", "failed"}]
    /\ profile \in [Callers -> Profiles \cup {None}]
    /\ print \in [Callers -> Edits] /\ config \in [Callers -> Edits]
    /\ got \in [Callers -> Callers \cup {None}]
    /\ runtimes \in [Profiles -> Callers \cup {None}] /\ prints \in [Profiles -> Edits]
    /\ cacheLock \in Callers \cup {None} /\ printLock \in {None, Watcher}
    /\ active \in Profiles \cup {Default} /\ choice \in Profiles \cup {None}
    /\ mesh \in {"none", "set", "done"} /\ meshed \subseteq Callers
    /\ watch \in {"idle", "failed", "debounced", "listed", "fallback", "locking", "locked"}
    /\ listing \in [Profiles -> Edits]
    /\ retired \subseteq Callers /\ overtaken \subseteq Callers
    /\ \A p \in Profiles : runtimes[p] # None => runtimes[p] \notin retired

Init ==
    /\ file = [p \in Profiles |-> 1] /\ edits = 1 /\ changed = FALSE
    /\ at = [c \in Callers |-> "new"] /\ profile = [c \in Callers |-> None]
    /\ print = [c \in Callers |-> 0] /\ config = [c \in Callers |-> 0]
    /\ got = [c \in Callers |-> None]
    /\ runtimes = [p \in Profiles |-> None] /\ prints = [p \in Profiles |-> 0]
    /\ cacheLock = None /\ printLock = None
    /\ active = (CHOOSE p \in Profiles : TRUE) /\ choice = None
    /\ mesh = "none" /\ meshed = {}
    /\ watch = "idle" /\ listing = NoListing
    /\ retired = {} /\ overtaken = {}

Goes(c, from, to) == at[c] = from /\ at' = [at EXCEPT ![c] = to]
Cached == {runtimes[p] : p \in Profiles} \ {None}

-----------------------------------------------------------------------------
(***************************************************************************)
(* The user: edits, adds or removes a file, and the watcher is notified.   *)
(***************************************************************************)
EditFile ==
    /\ edits < MaxEdits
    /\ edits' = edits + 1 /\ changed' = TRUE
    /\ \E p \in Profiles, v \in {0, edits + 1} : file' = [file EXCEPT ![p] = v]
    /\ UNCHANGED <<callVars, runtimes, prints, cacheLock, printLock, activeVars, meshVars,
                   watchVars, retired>>

-----------------------------------------------------------------------------
(***************************************************************************)
(* runtime_for_profile                                                     *)
(***************************************************************************)
Ask(c) ==
    /\ Goes(c, "new", "asking")
    /\ \E p \in Profiles : profile' = [profile EXCEPT ![c] = p]
    /\ UNCHANGED <<catalogVars, print, config, got, runtimes, prints, cacheLock, printLock,
                   activeVars, meshVars, watchVars, retired>>

\* The cached runtime is returned.
Return(c) ==
    /\ cacheLock = None
    /\ runtimes[profile[c]] # None
    /\ got' = [got EXCEPT ![c] = runtimes[profile[c]]]
    /\ UNCHANGED <<catalogVars, profile, print, config, runtimes, prints, cacheLock, printLock,
                   activeVars, meshVars, watchVars, retired>>

Find(c) == Goes(c, "asking", "done") /\ Return(c)

Miss(c) ==
    /\ Goes(c, "asking", "missed")
    /\ cacheLock = None
    /\ runtimes[profile[c]] = None
    /\ UNCHANGED <<catalogVars, profile, print, config, got, runtimes, prints, cacheLock,
                   printLock, activeVars, meshVars, watchVars, retired>>

\* load_profile reads the file twice: list_profiles takes the fingerprint, and
\* load_metadata_source reads the configuration.
ReadPrint(c) ==
    /\ Goes(c, "missed", "read")
    /\ file[profile[c]] # 0
    /\ print' = [print EXCEPT ![c] = file[profile[c]]]
    /\ UNCHANGED <<catalogVars, profile, config, got, runtimes, prints, cacheLock, printLock,
                   activeVars, meshVars, watchVars, retired>>

\* The configuration is read first and the fingerprint taken afterwards.
BuildThenPrint(c) ==
    /\ Goes(c, "read", "built")
    /\ file[profile[c]] # 0
    /\ config' = [config EXCEPT ![c] = print[c]]
    /\ print' = [print EXCEPT ![c] = file[profile[c]]]
    /\ UNCHANGED <<catalogVars, profile, got, runtimes, prints, cacheLock, printLock,
                   activeVars, meshVars, watchVars, retired>>

Build(c) ==
    /\ Goes(c, "read", "built")
    /\ file[profile[c]] # 0
    /\ config' = [config EXCEPT ![c] = file[profile[c]]]
    /\ UNCHANGED <<catalogVars, profile, print, got, runtimes, prints, cacheLock, printLock,
                   activeVars, meshVars, watchVars, retired>>

\* The profile is gone, its file cannot be parsed or the agent not be built.
Fail(c) ==
    /\ \/ Goes(c, "missed", "failed")
       \/ Goes(c, "read", "failed")
    /\ UNCHANGED <<catalogVars, profile, print, config, got, runtimes, prints, cacheLock,
                   printLock, activeVars, meshVars, watchVars, retired>>

\* Another call won the race.
FindBuilt(c) == Goes(c, "built", "done") /\ Return(c)

\* The cache is not looked at again before the insertion.
AcquireUnchecked(c) ==
    /\ Goes(c, "built", "inserting")
    /\ cacheLock = None
    /\ cacheLock' = c
    /\ meshed' = IF mesh = "none" THEN meshed ELSE meshed \cup {c}
    /\ UNCHANGED <<catalogVars, profile, print, config, got, runtimes, prints, printLock,
                   activeVars, mesh, watchVars, retired>>

\* The runtime is given the mesh, if there is one, and the call waits for the
\* mutex of the fingerprints while it holds that of the cache.
Acquire(c) ==
    /\ Goes(c, "built", "inserting")
    /\ cacheLock = None
    /\ runtimes[profile[c]] = None
    /\ cacheLock' = c
    /\ meshed' = IF mesh = "none" THEN meshed ELSE meshed \cup {c}
    /\ UNCHANGED <<catalogVars, profile, print, config, got, runtimes, prints, printLock,
                   activeVars, mesh, watchVars, retired>>

Insert(c) ==
    /\ Goes(c, "inserting", "done")
    /\ printLock = None
    /\ prints' = [prints EXCEPT ![profile[c]] = print[c]]
    /\ runtimes' = [runtimes EXCEPT ![profile[c]] = c]
    /\ got' = [got EXCEPT ![c] = c]
    /\ print' = [print EXCEPT ![c] = 0]
    /\ cacheLock' = None
    /\ UNCHANGED <<catalogVars, profile, config, printLock, activeVars, meshVars,
                   watchVars, retired>>

-----------------------------------------------------------------------------
(***************************************************************************)
(* start_profile_watcher and reload_profiles                               *)
(***************************************************************************)

\* An event is read, and those that follow it are drained until 350 ms pass
\* without one.
Debounce ==
    /\ watch \in {"idle", "failed"} /\ changed
    /\ watch' = "debounced" /\ changed' = FALSE
    /\ UNCHANGED <<file, edits, callVars, runtimes, prints, cacheLock, printLock, activeVars,
                   meshVars, listing, overtaken, retired>>

List ==
    /\ watch = "debounced"
    /\ watch' = "listed" /\ listing' = file
    /\ UNCHANGED <<catalogVars, callVars, runtimes, prints, cacheLock, printLock, activeVars,
                   meshVars, overtaken, retired>>

\* A file that cannot be read or parsed: the cached runtimes are kept.
ListFails ==
    /\ watch = "debounced"
    /\ watch' = "failed"
    /\ UNCHANGED <<catalogVars, callVars, runtimes, prints, cacheLock, printLock, activeVars,
                   meshVars, listing, overtaken, retired>>

Listed == {p \in Profiles : listing[p] # 0}

CheckActive ==
    /\ watch = "listed"
    /\ watch' = IF active \in Listed THEN "locking" ELSE "fallback"
    /\ UNCHANGED <<catalogVars, callVars, runtimes, prints, cacheLock, printLock, activeVars,
                   meshVars, listing, overtaken, retired>>

\* The first listed profile becomes active.
FallBack ==
    /\ watch = "fallback"
    /\ watch' = "locking"
    /\ active' = IF Listed = {} THEN Default ELSE CHOOSE p \in Listed : \A q \in Listed : p <= q
    /\ UNCHANGED <<catalogVars, callVars, runtimes, prints, cacheLock, printLock, choice,
                   meshVars, listing, overtaken, retired>>

LockPrints ==
    /\ watch = "locking" /\ printLock = None
    /\ watch' = "locked" /\ printLock' = Watcher
    /\ UNCHANGED <<catalogVars, callVars, runtimes, prints, cacheLock, activeVars, meshVars,
                   listing, overtaken, retired>>

Outdated(p) == runtimes[p] # None /\ (p \notin Listed \/ prints[p] # listing[p])

Retain ==
    /\ watch = "locked" /\ cacheLock = None
    /\ watch' = "idle" /\ printLock' = None /\ listing' = NoListing
    /\ runtimes' = [p \in Profiles |-> IF Outdated(p) THEN None ELSE runtimes[p]]
    /\ prints' = [p \in Profiles |-> IF Outdated(p) THEN 0 ELSE prints[p]]
    /\ retired' = retired \cup {runtimes[p] : p \in {q \in Profiles : Outdated(q)}}
    /\ overtaken' = overtaken \cup
          {c \in Callers : at[c] \in {"read", "built"} /\ print[c] # listing[profile[c]]}
    /\ UNCHANGED <<catalogVars, callVars, cacheLock, activeVars, meshVars>>

-----------------------------------------------------------------------------
(***************************************************************************)
(* The other operations                                                    *)
(***************************************************************************)

\* set_active_profile loads the profile to see that it is there.
Choose ==
    /\ choice = None
    /\ \E p \in {q \in Profiles : file[q] # 0} : choice' = p
    /\ UNCHANGED <<catalogVars, callVars, runtimes, prints, cacheLock, printLock, active,
                   meshVars, watchVars, retired>>

SetActive ==
    /\ choice # None
    /\ active' = choice /\ choice' = None
    /\ UNCHANGED <<catalogVars, callVars, runtimes, prints, cacheLock, printLock, meshVars,
                   watchVars, retired>>

\* set_mesh stores the handle and then goes through the cache.
SetMeshHandle ==
    /\ mesh = "none"
    /\ mesh' = "set"
    /\ UNCHANGED <<catalogVars, callVars, runtimes, prints, cacheLock, printLock, activeVars,
                   meshed, watchVars, retired>>

MeshCached ==
    /\ mesh = "set" /\ cacheLock = None
    /\ mesh' = "done" /\ meshed' = meshed \cup Cached
    /\ UNCHANGED <<catalogVars, callVars, runtimes, prints, cacheLock, printLock, activeVars,
                   watchVars, retired>>

\* shutdown empties the cache and leaves the fingerprints.
Shutdown ==
    /\ cacheLock = None /\ Cached # {}
    /\ runtimes' = [p \in Profiles |-> None]
    /\ retired' = retired \cup Cached
    /\ UNCHANGED <<catalogVars, callVars, prints, cacheLock, printLock, activeVars, meshVars,
                   watchVars>>

-----------------------------------------------------------------------------
Proceed(c) ==
    Find(c) \/ Miss(c) \/ ReadPrint(c) \/ Build(c) \/ Fail(c) \/ FindBuilt(c) \/ Acquire(c)
        \/ Insert(c)

Watch == Debounce \/ List \/ ListFails \/ CheckActive \/ FallBack \/ LockPrints \/ Retain

Next ==
    \/ EditFile \/ Watch
    \/ \E c \in Callers : Ask(c) \/ Proceed(c)
    \/ Choose \/ SetActive \/ SetMeshHandle \/ MeshCached \/ Shutdown

Spec == Init /\ [][Next]_vars

-----------------------------------------------------------------------------
(***************************************************************************)
(* Properties                                                              *)
(***************************************************************************)

\* The runtime of a profile is one for all: what runtime_for_profile returned
\* stays the one of the cache until a reload evicts it or the manager shuts
\* down, although calls build in parallel, so sessions started through two
\* calls meet in one registry; and after set_mesh every cached runtime has the
\* mesh, also one that was being built meanwhile.
RuntimesShared ==
    /\ \A c \in Callers : got[c] # None => got[c] \in Cached \cup retired
    /\ mesh = "done" => Cached \subseteq meshed

\* Once the watcher has nothing to do, a cached runtime was configured from
\* the file as it is, although files are read twice, without the mutexes and
\* while they are edited.  Two exceptions the code makes: a call that had read
\* the file when a reload passed by, and a reload that failed.
CacheCurrent ==
    ~changed /\ watch = "idle" =>
       \A p \in Profiles :
          runtimes[p] # None => config[runtimes[p]] = file[p] \/ runtimes[p] \in overtaken

\* The comment of runtime_for_profile: starting a profile does not block reads
\* of the runtimes that are cached.  Whenever the cache is locked, its holder
\* or the reload it waits for can go on.
CachedReadsGoOn ==
    cacheLock # None => ENABLED (\E c \in Callers : Insert(c)) \/ ENABLED Retain
=============================================================================
