--------------------------- MODULE DelegationProofs ---------------------------
(***************************************************************************)
(* Delegation for any planners, any delegations and both wait policies,    *)
(* with or without lost events.                                            *)
(***************************************************************************)
EXTENDS Delegation, FiniteSetTheorems, TLAPS

\* A delegation is requested once: the request, the task and whatever the task
\* wrote come after parent was set.
RequestedOnce ==
    \A d \in Delegations :
       <<"requested", d>> \in inbox \/ task[d] # "none" => parent[d] # None

\* The result of the child session is there when the task ends, and the row
\* has it before the terminal event goes out, unless the store refused it.
ResultOK ==
    \A d \in Delegations :
       /\ task[d] \in {"ending", "written"} => result[d] \in Terminal
       /\ task[d] \in {"written", "gone"} /\ d \notin unwritten => status[d] \in Terminal

DelegationInv == Shapes /\ RequestedOnce /\ ResultOK /\ RunningIsCancellable

\* The planners' steps: they set parent before anything else refers to a
\* delegation, and write rows only with the request and after a timeout.
LEMMA PlannerKeeps ==
  ASSUME DelegationInv, NEW p \in Planners, Plan(p)
  PROVE  DelegationInv'
<1> USE DelegationAssumption
    DEF DelegationInv, Shapes, RequestedOnce, ResultOK, RunningIsCancellable, Statuses, Terminal,
        Holding, Alive, Events, orchVars, taskVars
<1>1. CASE Prompt(p)
  BY <1>1 DEF Prompt
<1>2. CASE TurnEnds(p)
  BY <1>2 DEF TurnEnds
<1>3. CASE Cancel(p)
  BY <1>3 DEF Cancel
<1>4. CASE WaitCancelled(p)
  BY <1>4 DEF WaitCancelled
<1>5. CASE WaitTimesOut(p)
  BY <1>5 DEF WaitTimesOut
<1>6. ASSUME NEW ds \in SUBSET Delegations, Request(p, ds) PROVE DelegationInv'
  <2>1. Shapes'
    <3>1. inbox' \subseteq Events
      BY <1>6 DEF Request
    <3>2. parent' \in [Delegations -> Planners \cup {None}] /\ status' \in [Delegations -> Statuses]
      BY <1>6 DEF Request
    <3>3. planner' \in [Planners -> {"idle", "working", "waiting", "cleanup"}]
      BY <1>6 DEF Request
    <3>4. wait' \in [Planners -> SUBSET Delegations]
      BY <1>6 DEF Request
    <3> QED
      BY <1>6, <3>1, <3>2, <3>3, <3>4 DEF Request
  <2>2. ASSUME NEW d \in Delegations
        PROVE  <<"requested", d>> \in inbox' \/ task'[d] # "none" => parent'[d] # None
    <3>1. <<"requested", d>> \in inbox' => <<"requested", d>> \in inbox \/ d \in ds
      BY <1>6 DEF Request
    <3>2. parent'[d] = IF d \in ds THEN p ELSE parent[d]
      BY <1>6 DEF Request
    <3> QED
      BY <1>6, <3>1, <3>2 DEF Request
  <2>3. ASSUME NEW d \in ds PROVE task[d] = "none"
    <3>1. d \in Delegations /\ parent[d] = None
      BY <1>6, <2>3 DEF Request
    <3>2. RequestedOnce
      OBVIOUS
    <3> HIDE DEF DelegationInv
    <3> QED
      BY <3>1, <3>2
  <2>4. ResultOK' /\ RunningIsCancellable'
    BY <1>6, <2>3 DEF Request
  <2> QED
    BY <2>1, <2>2, <2>4
<1>7. ASSUME NEW d \in Delegations, Outcome(p, d) PROVE DelegationInv'
  BY <1>7 DEF Outcome
<1>8. ASSUME NEW d \in Delegations, CleanUp(p, d) PROVE DelegationInv'
  BY <1>8 DEF CleanUp, Stores
<1> HIDE DEF DelegationInv
<1> QED
  BY <1>1, <1>2, <1>3, <1>4, <1>5, <1>6, <1>7, <1>8 DEF Plan

\* The orchestrator's steps: a task is spawned for a request, and leaves
\* active_delegations only with its token cancelled.
LEMMA OrchestratorKeeps ==
  ASSUME DelegationInv, Listen
  PROVE  DelegationInv'
<1> USE DelegationAssumption
    DEF DelegationInv, Shapes, RequestedOnce, ResultOK, RunningIsCancellable, Terminal,
        Holding, Alive, Events, plannerVars, taskVars
<1>1. CASE Insert
  BY <1>1 DEF Insert
<1>2. ASSUME NEW p \in Planners, SessionCancelled(p) PROVE DelegationInv'
  BY <1>2 DEF SessionCancelled
<1>3. ASSUME NEW d \in Delegations, DelegationRequested(d) PROVE DelegationInv'
  BY <1>3 DEF DelegationRequested
<1>4. ASSUME NEW d \in Delegations, DelegationCancelRequested(d) PROVE DelegationInv'
  BY <1>4 DEF DelegationCancelRequested
<1> QED
  BY <1>1, <1>2, <1>3, <1>4 DEF Listen

\* The steps of a task, its abortion and the loss of events.
LEMMA TaskKeeps ==
  ASSUME DelegationInv, NEW d \in Delegations, Work(d) \/ GraceExpires(d) \/ NoticeLost(d)
  PROVE  DelegationInv'
<1> USE DelegationAssumption
    DEF DelegationInv, Shapes, RequestedOnce, ResultOK, RunningIsCancellable, Statuses, Terminal,
        Holding, Alive, plannerVars, orchVars, taskVars, Goes
<1>1. CASE AcquirePermit(d)
  BY <1>1 DEF AcquirePermit
<1>2. CASE Start(d)
  BY <1>2 DEF Start, Stores
<1>3. CASE CreateSession(d)
  BY <1>3 DEF CreateSession
<1>4. CASE ChildReturns(d)
  BY <1>4 DEF ChildReturns
<1>5. CASE ChildCancelled(d)
  BY <1>5 DEF ChildCancelled
<1>6. CASE WriteStatus(d)
  BY <1>6 DEF WriteStatus
<1>7. CASE Finish(d)
  BY <1>7 DEF Finish
<1>8. CASE GraceExpires(d)
  BY <1>8 DEF GraceExpires
<1>9. CASE NoticeLost(d)
  BY <1>9 DEF NoticeLost
<1> QED
  BY <1>1, <1>2, <1>3, <1>4, <1>5, <1>6, <1>7, <1>8, <1>9 DEF Work

\* The invariant holds in every reachable state.
LEMMA DelegationInvariant == Spec => []DelegationInv
<1>1. Init => DelegationInv
  BY DelegationAssumption
     DEF Init, DelegationInv, Shapes, RequestedOnce, ResultOK, RunningIsCancellable, Statuses,
         Holding, Alive
<1>2. DelegationInv /\ [Next]_vars => DelegationInv'
  <2> SUFFICES ASSUME DelegationInv, [Next]_vars PROVE DelegationInv'
    OBVIOUS
  <2> USE DEF DelegationInv, Shapes, RequestedOnce, ResultOK, RunningIsCancellable, plannerVars,
              orchVars, taskVars
  <2>1. ASSUME NEW e \in inbox, EventLost(e) PROVE DelegationInv'
    BY <2>1 DEF EventLost
  <2>2. CASE UNCHANGED vars
    BY <2>2 DEF vars
  <2> QED
    BY <2>1, <2>2, PlannerKeeps, OrchestratorKeeps, TaskKeeps DEF Next
<1> QED
  BY <1>1, <1>2, PTL DEF Spec

-----------------------------------------------------------------------------
\* Only AcquirePermit adds a holder, and only below the bound; spawning a task,
\* its other steps and its abortion add none.
LEMMA PermitsKept ==
  ASSUME Shapes, Cardinality(Holders) <= MaxParallel, [Next]_vars
  PROVE  Cardinality(Holders') <= MaxParallel
<1>1. IsFiniteSet(Holders) /\ IsFiniteSet(Holders')
  <2>1. Holders \subseteq Delegations /\ Holders' \subseteq Delegations
    BY DEF Holders
  <2> QED
    BY <2>1, DelegationAssumption, FS_Subset
<1>2. Cardinality(Holders) \in Nat /\ Cardinality(Holders') \in Nat /\ MaxParallel \in Nat
  BY <1>1, FS_CardinalityType, DelegationAssumption
<1>3. ASSUME Holders' \subseteq Holders PROVE Cardinality(Holders') <= MaxParallel
  <2>1. Cardinality(Holders') <= Cardinality(Holders)
    BY <1>1, <1>3, FS_Subset
  <2> QED
    BY <1>2, <2>1
<1>4. ASSUME NEW d \in Delegations, AcquirePermit(d)
      PROVE  Cardinality(Holders') <= MaxParallel
  <2>1. Holders' = Holders \cup {d}
    BY <1>4 DEF AcquirePermit, Goes, Holders, Holding, Shapes
  <2>2. Cardinality(Holders') <= Cardinality(Holders) + 1
    BY <1>1, <1>2, <2>1, FS_AddElement
  <2>3. Cardinality(Holders) < MaxParallel
    BY <1>4 DEF AcquirePermit
  <2> QED
    BY <1>2, <2>2, <2>3
<1>5. CASE UNCHANGED task
  BY <1>3, <1>5 DEF Holders
<1>6. ASSUME NEW d \in Delegations, Work(d) \/ GraceExpires(d)
      PROVE  Cardinality(Holders') <= MaxParallel
  <2>1. CASE AcquirePermit(d)
    BY <1>4, <2>1
  <2>2. CASE ~AcquirePermit(d)
    <3>1. \/ task[d] \in Holding /\ \E to \in Holding \cup {"gone"} : task' = [task EXCEPT ![d] = to]
          \/ task' = [task EXCEPT ![d] = "aborted"]
      BY <1>6, <2>2 DEF Work, Start, CreateSession, ChildReturns, ChildCancelled, WriteStatus,
                        Finish, GraceExpires, Goes, Holding
    <3>2. Holders' \subseteq Holders
      BY <3>1 DEF Holders, Holding, Shapes
    <3> QED
      BY <1>3, <3>2
  <2> QED
    BY <2>1, <2>2
<1>7. ASSUME NEW d \in Delegations, DelegationRequested(d)
      PROVE  Cardinality(Holders') <= MaxParallel
  <2>1. Holders' \subseteq Holders
    BY <1>7 DEF DelegationRequested, Holders, Holding, Shapes
  <2> QED
    BY <1>3, <2>1
<1>8. CASE Listen
  BY <1>5, <1>7, <1>8
     DEF Listen, Insert, SessionCancelled, DelegationCancelRequested, taskVars
<1>9. ASSUME NEW p \in Planners, Plan(p) PROVE Cardinality(Holders') <= MaxParallel
  BY <1>5, <1>9
     DEF Plan, Prompt, TurnEnds, Cancel, WaitCancelled, WaitTimesOut, Request, Outcome, CleanUp, taskVars
<1>10. ASSUME NEW d \in Delegations, NoticeLost(d) PROVE Cardinality(Holders') <= MaxParallel
  BY <1>5, <1>10 DEF NoticeLost, taskVars
<1>11. ASSUME NEW e \in inbox, EventLost(e) PROVE Cardinality(Holders') <= MaxParallel
  BY <1>5, <1>11 DEF EventLost, taskVars
<1>12. CASE UNCHANGED vars
  BY <1>5, <1>12 DEF vars, taskVars
<1> QED
  BY <1>6, <1>8, <1>9, <1>10, <1>11, <1>12 DEF Next

\* Every variable keeps its type and no more delegations run than
\* max_parallel_delegations allows, whatever aborts and cancellations free
\* their permits.
THEOREM DelegationTypeCorrect == Spec => []TypeOK
<1>1. Init => TypeOK
  <2>1. Init => DelegationInv
    BY DelegationAssumption
       DEF Init, DelegationInv, Shapes, RequestedOnce, ResultOK, RunningIsCancellable, Statuses,
           Holding, Alive
  <2>2. Init => Holders = {}
    BY DEF Init, Holders, Holding
  <2>3. Cardinality({}) <= MaxParallel
    BY DelegationAssumption, FS_EmptySet
  <2> QED
    BY <2>1, <2>2, <2>3 DEF DelegationInv, TypeOK
<1>2. TypeOK /\ DelegationInv' /\ [Next]_vars => TypeOK'
  BY PermitsKept DEF TypeOK, DelegationInv
<1> QED
  BY <1>1, <1>2, DelegationInvariant, PTL DEF Spec

\* A live delegation that nobody told to stop can be found by a cancellation,
\* although its task is spawned before it is entered in active_delegations and
\* some failing paths leave the entry behind.
THEOREM TasksCancellable == Spec => []RunningIsCancellable
<1>1. DelegationInv => RunningIsCancellable
  BY DEF DelegationInv
<1> QED
  BY <1>1, DelegationInvariant, PTL

\* A delegation whose task ran to its end has a terminal row, whatever order
\* the planner's clean-up, the summary and the task write it in and whichever
\* of the earlier writes fail; only a refused final write leaves another.
THEOREM EndsTerminal == Spec => []EndedIsTerminal
<1>1. DelegationInv => EndedIsTerminal
  BY DEF DelegationInv, ResultOK, EndedIsTerminal
<1> QED
  BY <1>1, DelegationInvariant, PTL
===============================================================================
