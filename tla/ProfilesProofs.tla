---------------------------- MODULE ProfilesProofs ----------------------------
(***************************************************************************)
(* Profiles for any calls, any profiles and any number of edits: one       *)
(* runtime per profile, and a cache that follows the files.                *)
(***************************************************************************)
EXTENDS Profiles, WellFoundedInduction, TLAPS

-----------------------------------------------------------------------------
(***************************************************************************)
(* The inductive invariant.                                                *)
(***************************************************************************)

\* A call knows its profile once it has asked.
AskedOK == \A c \in Callers : at[c] # "new" => profile[c] \in Profiles

\* The mutex of the cache is held by the call that inserts, which has found no
\* runtime of its profile and has the mesh if the cache was given it.
InsertingOK ==
    \A c \in Callers :
       /\ at[c] = "inserting" <=> cacheLock = c
       /\ at[c] = "inserting" => runtimes[profile[c]] = None
       /\ at[c] = "inserting" /\ mesh = "done" => c \in meshed

\* A runtime is cached under the profile it was built for, after its call has
\* ended, and so are the evicted ones.
CachedOK ==
    /\ \A p \in Profiles : runtimes[p] # None =>
          at[runtimes[p]] = "done" /\ profile[runtimes[p]] = p
    /\ \A c \in retired : at[c] = "done"

SharedInv == TypeOK /\ AskedOK /\ InsertingOK /\ CachedOK /\ RuntimesShared

\* Edits are numbered in turn, so a file that is there is at least as new as
\* what was read of it.
Since(p, v) == v <= edits /\ (file[p] # 0 => v <= file[p])

\* The configuration is read after the fingerprint.
CallRead(c) ==
    /\ at[c] \in {"read", "built", "inserting"} => print[c] > 0 /\ Since(profile[c], print[c])
    /\ at[c] \in {"built", "inserting"} =>
          print[c] <= config[c] /\ Since(profile[c], config[c])

RuntimeRead(p) ==
    runtimes[p] # None =>
       0 < prints[p] /\ prints[p] <= config[runtimes[p]] /\ Since(p, config[runtimes[p]])

ReadOrder ==
    /\ \A p \in Profiles : file[p] <= edits
    /\ \A c \in Callers : CallRead(c)
    /\ \A p \in Profiles : RuntimeRead(p)

\* What the watcher has listed are the files, unless another event is unread.
ListingOK == ~changed /\ watch \in {"listed", "fallback", "locking", "locked"} => listing = file

\* Once the watcher has nothing to do, every fingerprint is that of the file,
\* also one a call carries, unless a reload overtook the call.
PrintsCurrent ==
    ~changed /\ watch = "idle" =>
       /\ \A c \in Callers :
             at[c] \in {"read", "built", "inserting"} =>
                print[c] = file[profile[c]] \/ c \in overtaken
       /\ \A p \in Profiles :
             runtimes[p] # None => prints[p] = file[p] \/ runtimes[p] \in overtaken

CacheInv == SharedInv /\ ReadOrder /\ ListingOK /\ PrintsCurrent

\* The catalog has a first profile.
LEMMA LeastListed ==
  ASSUME ProfilesAssumption, Listed # {}
  PROVE  (CHOOSE p \in Listed : \A q \in Listed : p <= q) \in Profiles
<1> DEFINE Less == OpToRel(<, Nat)
<1>1. IsWellFoundedOn(Less, Nat)
  BY NatLessThanWellFounded
<1>2. Less = {ss \in Nat \X Nat : ss[1] < ss[2]}
  BY DEF OpToRel
<1> HIDE DEF Less
<1>3. Listed \subseteq Nat
  BY DEF ProfilesAssumption, Listed
<1>4. PICK p \in Listed : \A q \in Listed : ~(<<q, p>> \in Less)
  BY <1>1, <1>3, WFMin
<1>5. \A q \in Listed : <<q, p>> \in Nat \X Nat /\ ~(q < p)
  BY <1>2, <1>3, <1>4
<1>6. ASSUME NEW q \in Listed PROVE p <= q
  <2>1. p \in Nat /\ q \in Nat /\ ~(q < p)
    BY <1>3, <1>5
  <2> QED
    BY <2>1
<1> QED
  BY <1>6 DEF Listed

\* Every step keeps one runtime per profile.
LEMMA SharedStep ==
  ASSUME ProfilesAssumption, SharedInv, [Next]_vars
  PROVE  SharedInv'
<1> USE DEF ProfilesAssumption, SharedInv, TypeOK, Edits, AskedOK, InsertingOK, CachedOK,
            RuntimesShared, Cached, catalogVars, callVars, activeVars, meshVars, watchVars
<1>1. CASE EditFile
  BY <1>1 DEF EditFile
<1>2. CASE Debounce
  <2>1. TypeOK'
    BY <1>2 DEF Debounce
  <2> QED
    BY <1>2, <2>1 DEF Debounce
<1>3. CASE List
  BY <1>3 DEF List
<1>4. CASE ListFails
  BY <1>4 DEF ListFails
<1>5. CASE CheckActive
  BY <1>5 DEF CheckActive
<1>6. CASE FallBack
  BY <1>6, LeastListed DEF FallBack
<1>7. CASE LockPrints
  BY <1>7 DEF LockPrints
<1>8. CASE Retain
  BY <1>8 DEF Retain, Outdated, Listed, NoListing
<1>9. CASE Choose
  BY <1>9 DEF Choose
<1>10. CASE SetActive
  BY <1>10 DEF SetActive
<1>11. CASE SetMeshHandle
  BY <1>11 DEF SetMeshHandle
<1>12. CASE MeshCached
  BY <1>12 DEF MeshCached
<1>13. CASE Shutdown
  BY <1>13 DEF Shutdown
<1>14. ASSUME NEW c \in Callers, Ask(c) PROVE SharedInv'
  BY <1>14 DEF Ask, Goes
<1>15. ASSUME NEW c \in Callers, Find(c) PROVE SharedInv'
  BY <1>15 DEF Find, Goes, Return
<1>16. ASSUME NEW c \in Callers, Miss(c) PROVE SharedInv'
  BY <1>16 DEF Miss, Goes
<1>17. ASSUME NEW c \in Callers, ReadPrint(c) PROVE SharedInv'
  BY <1>17 DEF ReadPrint, Goes
<1>18. ASSUME NEW c \in Callers, Build(c) PROVE SharedInv'
  BY <1>18 DEF Build, Goes
<1>19. ASSUME NEW c \in Callers, Fail(c) PROVE SharedInv'
  BY <1>19 DEF Fail, Goes
<1>20. ASSUME NEW c \in Callers, FindBuilt(c) PROVE SharedInv'
  BY <1>20 DEF FindBuilt, Goes, Return
<1>21. ASSUME NEW c \in Callers, Acquire(c) PROVE SharedInv'
  BY <1>21 DEF Acquire, Goes
<1>22. ASSUME NEW c \in Callers, Insert(c) PROVE SharedInv'
  BY <1>22 DEF Insert, Goes
<1>23. CASE UNCHANGED vars
  BY <1>23 DEF vars
<1> QED
  BY <1>1, <1>2, <1>3, <1>4, <1>5, <1>6, <1>7, <1>8, <1>9, <1>10, <1>11, <1>12, <1>13, <1>14, <1>15, <1>16, <1>17, <1>18, <1>19, <1>20, <1>21, <1>22, <1>23 DEF Next, Watch, Proceed

\* Every step keeps the order in which files are read and what a quiet watcher
\* knows of the fingerprints.
LEMMA CurrentStep ==
  ASSUME ProfilesAssumption, CacheInv, [Next]_vars
  PROVE  (ReadOrder /\ ListingOK /\ PrintsCurrent)'
<1> DEFINE New == ReadOrder /\ ListingOK /\ PrintsCurrent
<1> SUFFICES New'
  OBVIOUS
<1> USE DEF ProfilesAssumption, CacheInv, SharedInv, TypeOK, Edits, AskedOK, InsertingOK,
            CachedOK, ReadOrder, CallRead, RuntimeRead, Since, ListingOK, PrintsCurrent,
            catalogVars, callVars, activeVars, meshVars, watchVars
<1>1. CASE EditFile
  BY <1>1 DEF EditFile
<1>2. CASE Debounce
  BY <1>2 DEF Debounce
<1>3. CASE List
  BY <1>3 DEF List
<1>4. CASE ListFails
  BY <1>4 DEF ListFails
<1>5. CASE CheckActive
  BY <1>5 DEF CheckActive
<1>6. CASE FallBack
  BY <1>6 DEF FallBack
<1>7. CASE LockPrints
  BY <1>7 DEF LockPrints
<1>8. CASE Retain
  BY <1>8 DEF Retain, Outdated, Listed, NoListing
<1>9. CASE Choose
  BY <1>9 DEF Choose
<1>10. CASE SetActive
  BY <1>10 DEF SetActive
<1>11. CASE SetMeshHandle
  BY <1>11 DEF SetMeshHandle
<1>12. CASE MeshCached
  BY <1>12 DEF MeshCached
<1>13. CASE Shutdown
  BY <1>13 DEF Shutdown
<1>14. ASSUME NEW c \in Callers, Ask(c) PROVE New'
  BY <1>14 DEF Ask, Goes
<1>15. ASSUME NEW c \in Callers, Find(c) PROVE New'
  BY <1>15 DEF Find, Goes, Return
<1>16. ASSUME NEW c \in Callers, Miss(c) PROVE New'
  BY <1>16 DEF Miss, Goes
<1>17. ASSUME NEW c \in Callers, ReadPrint(c) PROVE New'
  <2>1. profile[c] \in Profiles
    BY <1>17 DEF ReadPrint, Goes
  <2>2. file[profile[c]] \in 0..MaxEdits /\ file[profile[c]] # 0
    BY <1>17, <2>1 DEF ReadPrint
  <2>3. file[profile[c]] \in Nat /\ file[profile[c]] > 0 /\ file[profile[c]] <= edits
    <3>1. file[profile[c]] <= edits
      BY <2>1
    <3> HIDE DEF CacheInv
    <3> QED
      BY <2>2, <3>1
  <2>4. ASSUME NEW d \in Callers PROVE CallRead(d)'
    <3>1. CASE d = c
      BY <1>17, <2>1, <2>3, <3>1 DEF ReadPrint, Goes
    <3>2. CASE d # c
      BY <1>17, <3>2 DEF ReadPrint, Goes
    <3> QED
      BY <3>1, <3>2
  <2>5. ASSUME NEW p \in Profiles PROVE RuntimeRead(p)'
    BY <1>17 DEF ReadPrint, Goes
  <2>6. ReadOrder'
    BY <1>17, <2>4, <2>5 DEF ReadPrint
  <2>7. ListingOK' /\ PrintsCurrent'
    BY <1>17, <2>1 DEF ReadPrint, Goes
  <2> QED
    BY <2>6, <2>7
<1>18. ASSUME NEW c \in Callers, Build(c) PROVE New'
  <2>1. profile[c] \in Profiles
    BY <1>18 DEF Build, Goes
  <2>2. file[profile[c]] \in 0..MaxEdits /\ file[profile[c]] # 0
    BY <1>18, <2>1 DEF Build
  <2>3. file[profile[c]] \in Nat /\ file[profile[c]] > 0 /\ file[profile[c]] <= edits
    <3>1. file[profile[c]] <= edits
      BY <2>1
    <3> HIDE DEF CacheInv
    <3> QED
      BY <2>2, <3>1
  <2>4. ASSUME NEW d \in Callers PROVE CallRead(d)'
    <3>1. CASE d = c
      BY <1>18, <2>1, <2>3, <3>1 DEF Build, Goes
    <3>2. CASE d # c
      BY <1>18, <3>2 DEF Build, Goes
    <3> QED
      BY <3>1, <3>2
  <2>5. ASSUME NEW p \in Profiles PROVE RuntimeRead(p)'
    BY <1>18 DEF Build, Goes
  <2>6. ReadOrder'
    BY <1>18, <2>4, <2>5 DEF Build
  <2>7. ListingOK' /\ PrintsCurrent'
    BY <1>18, <2>1 DEF Build, Goes
  <2> QED
    BY <2>6, <2>7
<1>19. ASSUME NEW c \in Callers, Fail(c) PROVE New'
  BY <1>19 DEF Fail, Goes
<1>20. ASSUME NEW c \in Callers, FindBuilt(c) PROVE New'
  BY <1>20 DEF FindBuilt, Goes, Return
<1>21. ASSUME NEW c \in Callers, Acquire(c) PROVE New'
  BY <1>21 DEF Acquire, Goes
<1>22. ASSUME NEW c \in Callers, Insert(c) PROVE New'
  BY <1>22 DEF Insert, Goes
<1>23. CASE UNCHANGED vars
  BY <1>23 DEF vars
<1> QED
  BY <1>1, <1>2, <1>3, <1>4, <1>5, <1>6, <1>7, <1>8, <1>9, <1>10, <1>11, <1>12, <1>13, <1>14, <1>15, <1>16, <1>17, <1>18, <1>19, <1>20, <1>21, <1>22, <1>23 DEF Next, Watch, Proceed

-----------------------------------------------------------------------------
\* Both invariants hold in every reachable state.
LEMMA SharedInvariant ==
  ASSUME ProfilesAssumption
  PROVE  Spec => []SharedInv
<1>1. Init => SharedInv
  <2> SUFFICES ASSUME Init PROVE SharedInv
    OBVIOUS
  <2>1. 0 \in Edits /\ 1 \in Edits
    BY DEF ProfilesAssumption, Edits
  <2>2. active \in Profiles
    BY DEF ProfilesAssumption, Init
  <2>3. TypeOK
    BY <2>1, <2>2 DEF Init, TypeOK, NoListing
  <2> QED
    BY <2>3 DEF ProfilesAssumption, Init, SharedInv, AskedOK, InsertingOK, CachedOK,
                RuntimesShared, Cached
<1>2. SharedInv /\ [Next]_vars => SharedInv'
  BY SharedStep
<1> QED
  BY <1>1, <1>2, PTL DEF Spec

LEMMA CacheInvariant ==
  ASSUME ProfilesAssumption
  PROVE  Spec => []CacheInv
<1>1. Init => ReadOrder /\ ListingOK /\ PrintsCurrent
  BY DEF Init, ReadOrder, CallRead, RuntimeRead, ListingOK, PrintsCurrent
<1>2. CacheInv /\ SharedInv' /\ [Next]_vars => CacheInv'
  BY CurrentStep DEF CacheInv
<1>3. CacheInv <=> SharedInv /\ ReadOrder /\ ListingOK /\ PrintsCurrent
  BY DEF CacheInv
<1> QED
  BY <1>1, <1>2, <1>3, SharedInvariant, PTL DEF Spec

\* Every variable keeps its type, and no cached runtime was retired.
THEOREM ProfilesTypeCorrect ==
  ASSUME ProfilesAssumption
  PROVE  Spec => []TypeOK
<1>1. SharedInv => TypeOK
  BY DEF SharedInv
<1> QED
  BY <1>1, SharedInvariant, PTL

\* What runtime_for_profile returned is the runtime of the cache until it is
\* retired, and after set_mesh every cached runtime has the mesh.
THEOREM RuntimeUnique ==
  ASSUME ProfilesAssumption
  PROVE  Spec => []RuntimesShared
<1>1. SharedInv => RuntimesShared
  BY DEF SharedInv
<1> QED
  BY <1>1, SharedInvariant, PTL

\* A quiet watcher leaves no outdated runtime in the cache, except those of
\* calls a reload overtook.
THEOREM CacheFollowsFiles ==
  ASSUME ProfilesAssumption
  PROVE  Spec => []CacheCurrent
<1>1. CacheInv => CacheCurrent
  <2> SUFFICES ASSUME CacheInv, ~changed, watch = "idle", NEW p \in Profiles, runtimes[p] # None,
                      runtimes[p] \notin overtaken
               PROVE  config[runtimes[p]] = file[p]
    BY DEF CacheCurrent
  <2>1. prints[p] = file[p]
    BY DEF CacheInv, PrintsCurrent
  <2>2. 0 < prints[p] /\ prints[p] <= config[runtimes[p]] /\ Since(p, config[runtimes[p]])
    BY DEF CacheInv, ReadOrder, RuntimeRead
  <2>3. file[p] \in Nat /\ config[runtimes[p]] \in Nat
    BY DEF ProfilesAssumption, CacheInv, SharedInv, TypeOK, Edits
  <2> QED
    BY <2>1, <2>2, <2>3 DEF Since
<1> QED
  BY <1>1, CacheInvariant, PTL
===============================================================================
