-------------------------- MODULE DownloadAdmission --------------------------
(***************************************************************************)
(* The process-local coordinator that admits downloads: one mutex, a cap   *)
(* for the node, for each profile and for each identity of a request, and  *)
(* a bounded queue of waiters that one broadcast channel wakes.  Metrics   *)
(* and the wording of a rejection are left out.                            *)
(*                                                                         *)
(* internal/downloadadmission/admission.go                                 *)
(***************************************************************************)
EXTENDS Naturals, FiniteSets

CONSTANTS
    Requests,               \* download requests
    Profiles, ProfileOf,    \* and the profile of each
    Dims, DimsOf,           \* identities, and those of each request
    MaxActivePerNode,
    ProfileCap, DimCap,     \* caps of profiles and identities; 0 is none
    MaxWaitersPerNode, MaxWaitersPerIdentity

AdmissionAssumption ==
    /\ IsFiniteSet(Requests)
    /\ ProfileOf \in [Requests -> Profiles]
    /\ DimsOf \in [Requests -> SUBSET Dims]
    /\ MaxActivePerNode \in Nat \ {0}
    /\ ProfileCap \in [Profiles -> Nat]
    /\ DimCap \in [Dims -> Nat]
    /\ MaxWaitersPerNode \in Nat /\ MaxWaitersPerIdentity \in Nat

VARIABLES
    pc,                 \* where a request is
    gone,               \* requests whose client disconnected
    expired,            \* waiters whose admission_wait is over
    woken,              \* waiters whose channel has been closed
    once,               \* leases already released
    active, activeByProfile, dimActive, dimWaiters,     \* the counters
    tracked,            \* the identities in the map
    waiters

counters == <<active, activeByProfile, dimActive>>
queue == <<dimWaiters, waiters, woken>>
vars == <<pc, gone, expired, once, counters, queue, tracked>>

RequestPC == {"arrived", "waiting", "admitted", "finishing", "rejected", "done"}

Init ==
    /\ pc = [r \in Requests |-> "arrived"]
    /\ gone = {} /\ expired = {} /\ woken = {} /\ once = {}
    /\ active = 0
    /\ activeByProfile = [p \in Profiles |-> 0]
    /\ dimActive = [d \in Dims |-> 0]
    /\ dimWaiters = [d \in Dims |-> 0]
    /\ tracked = {} /\ waiters = {}

\* Every counter and set has its type.
TypeOK ==
    /\ pc \in [Requests -> RequestPC]
    /\ gone \subseteq Requests /\ expired \subseteq Requests
    /\ woken \subseteq Requests /\ once \subseteq Requests
    /\ active \in Nat
    /\ activeByProfile \in [Profiles -> Nat]
    /\ dimActive \in [Dims -> Nat] /\ dimWaiters \in [Dims -> Nat]
    /\ tracked \subseteq Dims /\ waiters \subseteq Requests

-----------------------------------------------------------------------------
(* The parts that run under the mutex *)

Goto(r, l) == pc' = [pc EXCEPT ![r] = l]

profileCap(r) == ProfileCap[ProfileOf[r]]

\* tryGrantLocked: some gate of the request is full.
Blocked(r) ==
    \/ active >= MaxActivePerNode
    \/ profileCap(r) > 0 /\ activeByProfile[ProfileOf[r]] >= profileCap(r)
    \/ \E d \in DimsOf[r] : DimCap[d] > 0 /\ dimActive[d] >= DimCap[d]

\* One counter of every dimension, created in the map on first use.
grantLocked(r) ==
    /\ active' = active + 1
    /\ activeByProfile' = [activeByProfile EXCEPT ![ProfileOf[r]] = @ + 1]
    /\ dimActive' = [d \in Dims |-> IF d \in DimsOf[r] THEN dimActive[d] + 1 ELSE dimActive[d]]

queueFullReasonLocked(r) ==
    \/ Cardinality(waiters) >= MaxWaitersPerNode
    \/ \E d \in DimsOf[r] : dimWaiters[d] >= MaxWaitersPerIdentity

addWaiterLocked(r) ==
    /\ waiters' = waiters \cup {r}
    /\ dimWaiters' = [d \in Dims |-> IF d \in DimsOf[r] THEN dimWaiters[d] + 1 ELSE dimWaiters[d]]
    /\ woken' = woken \ {r}

\* The waiter leaves the queue; an identity nobody holds or waits for leaves
\* the map.  dimActive' already counts the grant, if there is one.
removeWaiterLocked(r) ==
    /\ waiters' = waiters \ {r}
    /\ dimWaiters' = [d \in Dims |-> IF d \in DimsOf[r] /\ dimWaiters[d] > 0
                                     THEN dimWaiters[d] - 1 ELSE dimWaiters[d]]
    /\ woken' = woken \ {r}
    /\ tracked' = tracked \ {d \in DimsOf[r] : dimActive'[d] = 0 /\ dimWaiters'[d] = 0}

\* Mutant: a release wakes one waiter instead of all.
signalOneLocked ==
    IF waiters = {} THEN UNCHANGED woken ELSE \E w \in waiters : woken' = woken \cup {w}

\* close(notify) wakes every waiter that holds the channel.
signalLocked == woken' = IF waiters = {} THEN woken ELSE woken \cup waiters

-----------------------------------------------------------------------------
(* A request *)

\* Acquire, from the lock to the unlock.
Acquire(r) ==
    /\ pc[r] = "arrived"
    /\ \/ /\ r \in gone
          /\ Goto(r, "rejected")
          /\ UNCHANGED <<counters, queue, tracked>>
       \/ /\ r \notin gone /\ ~Blocked(r)
          /\ grantLocked(r)
          /\ tracked' = tracked \cup DimsOf[r]
          /\ Goto(r, "admitted")
          /\ UNCHANGED queue
       \/ /\ r \notin gone /\ Blocked(r) /\ queueFullReasonLocked(r)
          /\ Goto(r, "rejected")
          /\ UNCHANGED <<counters, queue, tracked>>
       \/ /\ r \notin gone /\ Blocked(r) /\ ~queueFullReasonLocked(r)
          /\ addWaiterLocked(r)
          /\ tracked' = tracked \cup DimsOf[r]
          /\ Goto(r, "waiting")
          /\ UNCHANGED counters
    /\ UNCHANGED <<gone, expired, once>>

\* The wait ends by its deadline or because the client went away.
WaitDone(r) ==
    /\ pc[r] = "waiting"
    /\ r \in gone \cup expired
    /\ UNCHANGED counters
    /\ removeWaiterLocked(r)
    /\ Goto(r, "rejected")
    /\ UNCHANGED <<gone, expired, once>>

\* The channel fired: check the context again, then every gate.
WaitNotified(r) ==
    /\ pc[r] = "waiting" /\ r \in woken
    /\ \/ /\ r \in gone \cup expired
          /\ UNCHANGED counters
          /\ removeWaiterLocked(r)
          /\ Goto(r, "rejected")
       \/ /\ r \notin gone \cup expired /\ ~Blocked(r)
          /\ grantLocked(r)
          /\ removeWaiterLocked(r)
          /\ Goto(r, "admitted")
       \/ /\ r \notin gone \cup expired /\ Blocked(r)
          /\ woken' = woken \ {r}
          /\ UNCHANGED <<pc, counters, dimWaiters, waiters, tracked>>
    /\ UNCHANGED <<gone, expired, once>>

\* Coordinator.release.
release(r) ==
    /\ active' = active - 1
    /\ activeByProfile' = [activeByProfile EXCEPT ![ProfileOf[r]] = @ - 1]
    /\ dimActive' = [d \in Dims |-> IF d \in DimsOf[r] /\ dimActive[d] > 0
                                    THEN dimActive[d] - 1 ELSE dimActive[d]]
    /\ tracked' = tracked \ {d \in DimsOf[r] : dimActive'[d] = 0 /\ dimWaiters[d] = 0}
    /\ signalLocked
    /\ UNCHANGED <<dimWaiters, waiters>>

\* Lease.Release: the first call returns every dimension.
Release(r) ==
    IF r \in once
    THEN UNCHANGED <<once, counters, queue, tracked>>
    ELSE release(r) /\ once' = once \cup {r}

\* The handler releases with a cause, and once more in its deferred cleanup.
HandlerReleases(r) ==
    /\ pc[r] \in {"admitted", "finishing"}
    /\ Release(r)
    /\ Goto(r, IF pc[r] = "admitted" THEN "finishing" ELSE "done")
    /\ UNCHANGED <<gone, expired>>

ClientGone(r) ==
    /\ pc[r] \in {"arrived", "waiting"} /\ r \notin gone
    /\ gone' = gone \cup {r}
    /\ UNCHANGED <<pc, expired, once, counters, queue, tracked>>

WaitExpires(r) ==
    /\ pc[r] = "waiting" /\ r \notin expired
    /\ expired' = expired \cup {r}
    /\ UNCHANGED <<pc, gone, once, counters, queue, tracked>>

RequestStep(r) == Acquire(r) \/ WaitDone(r) \/ WaitNotified(r) \/ HandlerReleases(r)

Next == \E r \in Requests : RequestStep(r) \/ ClientGone(r) \/ WaitExpires(r)

Spec == Init /\ [][Next]_vars

-----------------------------------------------------------------------------
(* Properties *)

\* The requests that use capacity: admitted and not yet released.
Holders == {r \in Requests : pc[r] = "admitted"}

\* The caps hold for the requests really being served, whatever the counters
\* say: releasing a lease twice or a waiter that gives up must not lend a slot.
WithinCaps ==
    /\ Cardinality(Holders) <= MaxActivePerNode
    /\ \A p \in Profiles :
        ProfileCap[p] > 0 => Cardinality({r \in Holders : ProfileOf[r] = p}) <= ProfileCap[p]
    /\ \A d \in Dims :
        DimCap[d] > 0 => Cardinality({r \in Holders : d \in DimsOf[r]}) <= DimCap[d]

\* No lost wake-up: a waiter that nothing will wake is blocked by a gate.
NoLostWakeup == \A r \in waiters \ woken : Blocked(r)

\* The identity map holds exactly the identities somebody holds or waits for.
TrackedWhileUsed ==
    tracked = UNION {DimsOf[r] : r \in Holders \cup waiters}
=============================================================================
