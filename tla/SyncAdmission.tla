---------------------------- MODULE SyncAdmission ----------------------------
(***************************************************************************)
(* The limiter in front of the block PUT and check-blocks routes of the    *)
(* sync protocol: a ring of entries, a gate for each user that lives in a  *)
(* map only while somebody refers to it, and one gate for the node.  The   *)
(* gates are channels: a send takes a slot and a receive gives it back,    *)
(* both without the mutex.  Both caps are on, as the defaults have it.     *)
(*                                                                         *)
(* internal/api/sync_admission_limiter.go                                  *)
(***************************************************************************)
EXTENDS Naturals, FiniteSets

CONSTANTS
    Requests, Users, UserOf,
    MaxPerUser, MaxPerNode, MaxWaitersPerUser, MaxWaitersPerNode,
    NoGate

LimiterAssumption ==
    /\ IsFiniteSet(Requests) /\ NoGate \notin Requests
    /\ UserOf \in [Requests -> Users]
    /\ MaxPerUser \in Nat \ {0} /\ MaxPerNode \in Nat \ {0}
    /\ MaxWaitersPerUser \in Nat /\ MaxWaitersPerNode \in Nat

VARIABLES
    pc,             \* where a request is
    gone,           \* requests whose client disconnected
    expired,        \* requests whose admission budget is over
    perUser,        \* the gate of a user in the map, or NoGate
    sem, refs, waiters,     \* the fields of a gate
    gate,           \* the gate a request refers to
    node, entries, nodeWaiters

gates == <<perUser, sem, refs, waiters, gate>>
vars == <<pc, gone, expired, gates, node, entries, nodeWaiters>>

\* A gate is named after the request that made it.
Gates == Requests

RequestPC == {"arrived", "entered", "userWait", "userSent", "userHeld", "nodeWait", "nodeSent",
              "nodeHeld", "admitted", "relSem", "relRef", "relEntry", "done"}

\* newSyncAdmissionLimiter.
Init ==
    /\ pc = [r \in Requests |-> "arrived"]
    /\ gone = {} /\ expired = {}
    /\ perUser = [u \in Users |-> NoGate]
    /\ sem = [g \in Gates |-> 0] /\ refs = [g \in Gates |-> 0] /\ waiters = [g \in Gates |-> 0]
    /\ gate = [r \in Requests |-> NoGate]
    /\ node = 0 /\ entries = 0 /\ nodeWaiters = 0

\* Every counter has its type.
TypeOK ==
    /\ pc \in [Requests -> RequestPC]
    /\ gone \subseteq Requests /\ expired \subseteq Requests
    /\ perUser \in [Users -> Gates \cup {NoGate}]
    /\ sem \in [Gates -> Nat] /\ refs \in [Gates -> Nat] /\ waiters \in [Gates -> Nat]
    /\ gate \in [Requests -> Gates \cup {NoGate}]
    /\ node \in Nat /\ entries \in Nat /\ nodeWaiters \in Nat

-----------------------------------------------------------------------------
Goto(r, l) == pc' = [pc EXCEPT ![r] = l]

\* context(): the wait is over when the client is gone or the budget is spent.
WaitOver(r) == r \in gone \cup expired

\* Mutant: a refused request gives back an entry it never had.
acquireEntryReturns(r) ==
    /\ pc[r] = "arrived"
    /\ \/ /\ r \in gone \/ entries >= MaxPerNode + MaxWaitersPerNode
          /\ Goto(r, "done") /\ entries' = entries - 1
       \/ /\ r \notin gone /\ entries < MaxPerNode + MaxWaitersPerNode
          /\ Goto(r, "entered") /\ entries' = entries + 1
    /\ UNCHANGED <<gone, expired, gates, node, nodeWaiters>>

\* acquireEntry: never blocks; without a place the request is refused.
acquireEntry(r) ==
    /\ pc[r] = "arrived"
    /\ \/ /\ r \in gone \/ entries >= MaxPerNode + MaxWaitersPerNode
          /\ Goto(r, "done") /\ UNCHANGED entries
       \/ /\ r \notin gone /\ entries < MaxPerNode + MaxWaitersPerNode
          /\ Goto(r, "entered") /\ entries' = entries + 1
    /\ UNCHANGED <<gone, expired, gates, node, nodeWaiters>>

\* The gate acquireUser works on: the one in the map, or a new one.
GateFor(r) == IF perUser[UserOf[r]] = NoGate THEN r ELSE perUser[UserOf[r]]

\* acquireUser up to the unlock: a slot at once, a place in the queue, or a
\* refusal, which removes a gate it has just made.
acquireUser(r) ==
    LET u == UserOf[r] IN
    LET g == GateFor(r) IN
    /\ pc[r] = "entered"
    /\ \/ /\ sem[g] < MaxPerUser
          /\ sem' = [sem EXCEPT ![g] = @ + 1]
          /\ refs' = [refs EXCEPT ![g] = @ + 1]
          /\ perUser' = [perUser EXCEPT ![u] = g]
          /\ gate' = [gate EXCEPT ![r] = g]
          /\ Goto(r, "userHeld") /\ UNCHANGED <<waiters, nodeWaiters>>
       \/ /\ sem[g] >= MaxPerUser
          /\ waiters[g] >= MaxWaitersPerUser \/ nodeWaiters >= MaxWaitersPerNode
          /\ perUser' = [perUser EXCEPT ![u] = IF refs[g] = 0 THEN NoGate ELSE g]
          /\ Goto(r, "relEntry") /\ UNCHANGED <<sem, refs, waiters, gate, nodeWaiters>>
       \/ /\ sem[g] >= MaxPerUser
          /\ waiters[g] < MaxWaitersPerUser /\ nodeWaiters < MaxWaitersPerNode
          /\ refs' = [refs EXCEPT ![g] = @ + 1]
          /\ waiters' = [waiters EXCEPT ![g] = @ + 1]
          /\ nodeWaiters' = nodeWaiters + 1
          /\ perUser' = [perUser EXCEPT ![u] = g]
          /\ gate' = [gate EXCEPT ![r] = g]
          /\ Goto(r, "userWait") /\ UNCHANGED sem
    /\ UNCHANGED <<gone, expired, node, entries>>

\* Mutant: the gate leaves the map with the holders it counts, whoever waits.
dropRefForgetsWaiters(r) ==
    LET g == gate[r] IN
    LET u == UserOf[r] IN
    /\ refs' = [refs EXCEPT ![g] = @ - 1]
    /\ perUser' = [perUser EXCEPT ![u] = IF sem[g] = 0 /\ @ = g THEN NoGate ELSE @]
    /\ gate' = [gate EXCEPT ![r] = NoGate]

\* dropRefLocked.
dropRefLocked(r) ==
    LET g == gate[r] IN
    LET u == UserOf[r] IN
    /\ refs' = [refs EXCEPT ![g] = @ - 1]
    /\ perUser' = [perUser EXCEPT ![u] = IF refs'[g] = 0 /\ @ = g THEN NoGate ELSE @]
    /\ gate' = [gate EXCEPT ![r] = NoGate]

\* The send of a queued request goes through, outside the mutex ...
UserSend(r) ==
    /\ pc[r] = "userWait" /\ sem[gate[r]] < MaxPerUser
    /\ sem' = [sem EXCEPT ![gate[r]] = @ + 1]
    /\ Goto(r, "userSent")
    /\ UNCHANGED <<gone, expired, perUser, refs, waiters, gate, node, entries, nodeWaiters>>

\* ... and the request leaves the queue in a second critical section.
UserLeavesQueue(r) ==
    /\ pc[r] = "userSent"
    /\ waiters' = [waiters EXCEPT ![gate[r]] = @ - 1]
    /\ nodeWaiters' = nodeWaiters - 1
    /\ Goto(r, "userHeld")
    /\ UNCHANGED <<gone, expired, perUser, sem, refs, gate, node, entries>>

\* The wait on the user's gate ends without a slot.
UserGivesUp(r) ==
    /\ pc[r] = "userWait" /\ WaitOver(r)
    /\ waiters' = [waiters EXCEPT ![gate[r]] = @ - 1]
    /\ nodeWaiters' = nodeWaiters - 1
    /\ dropRefLocked(r)
    /\ Goto(r, "relEntry")
    /\ UNCHANGED <<gone, expired, sem, node, entries>>

\* acquireNode up to the unlock, after acquire's second look at the client.
\* Every way out without a node slot gives the user's slot back.
acquireNode(r) ==
    /\ pc[r] = "userHeld"
    /\ \/ /\ r \in gone
          /\ Goto(r, "relSem") /\ UNCHANGED <<node, nodeWaiters>>
       \/ /\ r \notin gone /\ node < MaxPerNode
          /\ node' = node + 1
          /\ Goto(r, "nodeHeld") /\ UNCHANGED nodeWaiters
       \/ /\ r \notin gone /\ node >= MaxPerNode /\ nodeWaiters >= MaxWaitersPerNode
          /\ Goto(r, "relSem") /\ UNCHANGED <<node, nodeWaiters>>
       \/ /\ r \notin gone /\ node >= MaxPerNode /\ nodeWaiters < MaxWaitersPerNode
          /\ nodeWaiters' = nodeWaiters + 1
          /\ Goto(r, "nodeWait") /\ UNCHANGED node
    /\ UNCHANGED <<gone, expired, gates, entries>>

NodeSend(r) ==
    /\ pc[r] = "nodeWait" /\ node < MaxPerNode
    /\ node' = node + 1
    /\ Goto(r, "nodeSent")
    /\ UNCHANGED <<gone, expired, gates, entries, nodeWaiters>>

NodeLeavesQueue(r) ==
    /\ pc[r] = "nodeSent"
    /\ nodeWaiters' = nodeWaiters - 1
    /\ Goto(r, "nodeHeld")
    /\ UNCHANGED <<gone, expired, gates, node, entries>>

NodeGivesUp(r) ==
    /\ pc[r] = "nodeWait" /\ WaitOver(r)
    /\ nodeWaiters' = nodeWaiters - 1
    /\ Goto(r, "relSem")
    /\ UNCHANGED <<gone, expired, gates, node, entries>>

\* The end of acquire: the closure that releases everything, or a client that
\* went away meanwhile and hands the node slot back.
acquire(r) ==
    /\ pc[r] = "nodeHeld"
    /\ \/ r \in gone /\ node' = node - 1 /\ Goto(r, "relSem")
       \/ r \notin gone /\ Goto(r, "admitted") /\ UNCHANGED node
    /\ UNCHANGED <<gone, expired, gates, entries, nodeWaiters>>

\* The handler is done with the body: the first receive of the closure.
releaseNode(r) ==
    /\ pc[r] = "admitted"
    /\ node' = node - 1
    /\ Goto(r, "relSem")
    /\ UNCHANGED <<gone, expired, gates, entries, nodeWaiters>>

\* releaseUser is a receive on the gate ...
releaseUserSem(r) ==
    /\ pc[r] = "relSem"
    /\ sem' = [sem EXCEPT ![gate[r]] = @ - 1]
    /\ Goto(r, "relRef")
    /\ UNCHANGED <<gone, expired, perUser, refs, waiters, gate, node, entries, nodeWaiters>>

\* ... and then dropRef, under the mutex.
releaseUserRef(r) ==
    /\ pc[r] = "relRef"
    /\ dropRefLocked(r)
    /\ Goto(r, "relEntry")
    /\ UNCHANGED <<gone, expired, sem, waiters, node, entries, nodeWaiters>>

releaseEntry(r) ==
    /\ pc[r] = "relEntry"
    /\ entries' = entries - 1
    /\ Goto(r, "done")
    /\ UNCHANGED <<gone, expired, gates, node, nodeWaiters>>

ClientGone(r) ==
    /\ pc[r] # "done" /\ r \notin gone
    /\ gone' = gone \cup {r}
    /\ UNCHANGED <<pc, expired, gates, node, entries, nodeWaiters>>

\* waitTimeout passes; only a wait looks at it.
BudgetSpent(r) ==
    /\ pc[r] \in {"userWait", "nodeWait"} /\ r \notin expired
    /\ expired' = expired \cup {r}
    /\ UNCHANGED <<pc, gone, gates, node, entries, nodeWaiters>>

RequestStep(r) ==
    \/ acquireEntry(r) \/ acquireUser(r) \/ acquireNode(r) \/ acquire(r)
    \/ UserSend(r) \/ UserLeavesQueue(r) \/ UserGivesUp(r)
    \/ NodeSend(r) \/ NodeLeavesQueue(r) \/ NodeGivesUp(r)
    \/ releaseNode(r) \/ releaseUserSem(r) \/ releaseUserRef(r) \/ releaseEntry(r)

Next == \E r \in Requests : RequestStep(r) \/ ClientGone(r) \/ BudgetSpent(r)

Spec == Init /\ [][Next]_vars

-----------------------------------------------------------------------------
(* Properties *)

At(ls) == {r \in Requests : pc[r] \in ls}

HoldsUserSlot == At({"userSent", "userHeld", "nodeWait", "nodeSent", "nodeHeld", "admitted", "relSem"})
HoldsNodeSlot == At({"nodeSent", "nodeHeld", "admitted"})

\* A user never has more than MaxPerUser requests past its gate, although the
\* gate is dropped from the map and made again: no two gates serve one user.
UserWithinCap ==
    \A u \in Users : Cardinality({r \in HoldsUserSlot : UserOf[r] = u}) <= MaxPerUser

\* Nobody refers to a gate that has left the map: a waiter's gate cannot be
\* dropped under it.
ReferredGateInMap ==
    \A r \in Requests : gate[r] # NoGate => perUser[UserOf[r]] = gate[r]

\* No path leaks: the counters are the requests that really use the slots and
\* the queues, and a user nobody serves has no gate.
NothingLeaks ==
    /\ node = Cardinality(HoldsNodeSlot) /\ node <= MaxPerNode
    /\ nodeWaiters = Cardinality(At({"userWait", "userSent", "nodeWait", "nodeSent"}))
    /\ entries = Cardinality(Requests \ At({"arrived", "done"}))
    /\ \A u \in Users : (\A r \in Requests : UserOf[r] = u => gate[r] = NoGate) => perUser[u] = NoGate
=============================================================================
