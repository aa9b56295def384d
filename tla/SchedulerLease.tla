---------------------------- MODULE SchedulerLease ----------------------------
(***************************************************************************)
(* The scheduler lease: one row of the store that elects the process whose *)
(* SchedulerActor may run (session/repo_schedule.rs), and the renewal loop *)
(* of every elected actor (scheduler/mod.rs).  The clock is the store's    *)
(* view of time, in seconds; a renewal is attempted every lease_ttl_secs/2 *)
(* but the attempt may come late, by scheduling delay or after transient   *)
(* store errors, by at most Delay.                                         *)
(***************************************************************************)
EXTENDS Integers

CONSTANTS Nodes,    \* processes that may spawn a SchedulerActor
          NoOwner,
          TTL,      \* lease_ttl_secs
          Delay,    \* bound on the lateness of a renewal
          MaxTime   \* bound on the clock for model checking

ASSUME LeaseAssumption ==
    /\ NoOwner \notin Nodes
    /\ TTL \in Nat /\ TTL >= 2
    /\ Delay \in Nat
    /\ MaxTime \in Nat

VARIABLES
    now,
    owner,      \* owner_id of the lease row, NoOwner if there is no row
    expires,    \* expires_at of the lease row
    role,       \* role[n]: "off", "leader", or "stopping" (Shutdown is told)
    nextRenew   \* nextRenew[n]: the next tick of n's renewal loop

vars == <<now, owner, expires, role, nextRenew>>

Acting(n) == role[n] \in {"leader", "stopping"}

TypeOK ==
    /\ now \in Nat
    /\ owner \in Nodes \cup {NoOwner}
    /\ expires \in Nat
    /\ role \in [Nodes -> {"off", "leader", "stopping"}]
    /\ nextRenew \in [Nodes -> Nat]

Init ==
    /\ now = 0
    /\ owner = NoOwner
    /\ expires = 0
    /\ role = [n \in Nodes |-> "off"]
    /\ nextRenew = [n \in Nodes |-> 0]

-----------------------------------------------------------------------------
RenewInterval == TTL \div 2

\* Acquisition of a lease that is about to expire.
AcquirableEarly == owner = NoOwner \/ expires <= now + 1

\* The WHERE clauses of try_acquire_scheduler_lease and renew_scheduler_lease.
\* At the very instant of expiry only the owner can have the lease.
Acquirable == owner = NoOwner \/ expires < now
Renewable(n) == owner = n /\ expires >= now

\* spawn: the lease is acquired and the renewal loop started; its first tick
\* is immediate.
Spawn(n) ==
    /\ role[n] = "off"
    /\ Acquirable
    /\ owner' = n
    /\ expires' = now + TTL
    /\ role' = [role EXCEPT ![n] = "leader"]
    /\ nextRenew' = [nextRenew EXCEPT ![n] = now]
    /\ UNCHANGED now

\* One iteration of the renewal loop.
Renew(n) ==
    /\ role[n] = "leader"
    /\ nextRenew[n] <= now
    /\ Renewable(n)
    /\ expires' = now + TTL
    /\ nextRenew' = [nextRenew EXCEPT ![n] = now + RenewInterval]
    /\ UNCHANGED <<now, owner, role>>

\* The loop finds the lease lost, tells Shutdown and exits.
LoseLease(n) ==
    /\ role[n] = "leader"
    /\ nextRenew[n] <= now
    /\ ~Renewable(n)
    /\ role' = [role EXCEPT ![n] = "stopping"]
    /\ UNCHANGED <<now, owner, expires, nextRenew>>

\* The reconciliation sweep renews as well, at times of its own, and ignores
\* a renewal that found no row.
ReconcileRenew(n) ==
    /\ Acting(n)
    /\ Renewable(n)
    /\ expires' = now + TTL
    /\ UNCHANGED <<now, owner, role, nextRenew>>

\* A release that deletes the row whoever owns it.
ReleaseAny(n) == owner' = NoOwner /\ UNCHANGED expires

\* release_scheduler_lease deletes the row of this owner only.
Release(n) == owner' = (IF owner = n THEN NoOwner ELSE owner) /\ UNCHANGED expires

\* The actor handles Shutdown.
Shutdown(n) ==
    /\ Acting(n)
    /\ Release(n)
    /\ role' = [role EXCEPT ![n] = "off"]
    /\ UNCHANGED <<now, nextRenew>>

\* The process dies without releasing.
Crash(n) ==
    /\ Acting(n)
    /\ role' = [role EXCEPT ![n] = "off"]
    /\ UNCHANGED <<now, owner, expires, nextRenew>>

\* Time passes, but not beyond the moment by which a renewal loop has ticked.
Tick ==
    /\ now < MaxTime
    /\ \A n \in Nodes : role[n] = "leader" => now < nextRenew[n] + Delay
    /\ now' = now + 1
    /\ UNCHANGED <<owner, expires, role, nextRenew>>

Next ==
    \/ Tick
    \/ \E n \in Nodes :
          \/ Spawn(n) \/ Renew(n) \/ LoseLease(n) \/ ReconcileRenew(n)
          \/ Shutdown(n) \/ Crash(n)

Spec == Init /\ [][Next]_vars

-----------------------------------------------------------------------------
\* The renewal loop of n missed its tick by more than the slack the lease
\* leaves it: half the TTL, rounded up.
Overdue(n) == now > nextRenew[n] + (TTL - RenewInterval)

\* Two schedulers act at once only while the renewal of one of them is
\* overdue: as long as every renewal loop ticks within its slack the lease
\* of an acting scheduler never becomes acquirable, whoever crashes, shuts
\* down or starts.
OneLeader ==
    \A m, n \in Nodes :
       Acting(m) /\ Acting(n) /\ m # n => Overdue(m) \/ Overdue(n)

\* However late renewals are, the lease passes from one owner to another
\* only after it expired, and is given up only by its owner: a scheduler
\* that lost the lease and shuts down never takes it from its successor.
LeaseHandover ==
    [][\A n \in Nodes :
          owner = n /\ owner' # n =>
             IF owner' = NoOwner THEN Acting(n) /\ role'[n] = "off" ELSE expires < now]_vars
=============================================================================
