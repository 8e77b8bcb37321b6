------------------------------ MODULE GCQueue ------------------------------
(***************************************************************************)
(* The queue of one organisation (gc/queue.go, gc/store_cassandra.go), the *)
(* passes of the worker over it (gc/worker.go: ProcessOnce, processOrg),   *)
(* its dead letter queue, and the two markers that lead a worker to the    *)
(* organisation: the active set and the dirty set with its snapshot.       *)
(*                                                                         *)
(* Producers, admins and the expiry of the dead letter queue read first    *)
(* and write later; only the operations of an admin and the automatic      *)
(* retry exclude each other (withDLQOperation), and that in one process.   *)
(*                                                                         *)
(* Every mutation is one logged batch: its statements apply together, but  *)
(* the answer may be lost, and (Late) the coordinator may replay it after  *)
(* the client gave up.  A batch carries the time of its writes: what is    *)
(* written or deleted since is not changed by an older batch.  The clock   *)
(* advances with every stamp.                                              *)
(***************************************************************************)
EXTENDS Integers, FiniteSets

CONSTANTS Items,    \* work, each with one type, id and identity_at
          Cascades, \* the library cascades among them, which are enqueued without asking for a pending row
          Workers,  \* the threads that run passes
          Callers,  \* the threads of producers, admins and the scanner
          Ops,      \* what the callers do
          MaxRetry, MaxClock,
          Late,     \* batches may be applied after their timeout
          OneNode   \* Workers and Callers are of one process, with its locks

QueueAssumption == /\ Items # {} /\ Cascades \subseteq Items /\ Workers \cap Callers = {}
                   /\ Ops \subseteq {"enqueue", "take back", "delete", "expire"}
                   /\ MaxRetry \in Nat /\ MaxClock \in Nat /\ Late \in BOOLEAN /\ OneNode \in BOOLEAN

VARIABLES clock,   \* the last time stamp
          queue,   \* rows of gc_queue: [item, at, retry], at most one for an item and its queued_at
          failed,  \* rows of gc_failed_items: [item, failedAt, at]
          pending, \* rows of gc_pending_items
          active,  \* last_enqueued_at of gc_active_orgs, 0 when the row is absent
          dirty,   \* marked_at of gc_dirty_orgs, 0 when the row is absent
          snap,    \* gc_org_stats: [depth, at]
          late,    \* batches the coordinator has accepted and not applied
          w        \* what each thread is doing

tables == <<queue, failed, pending, active, dirty>>
vars == <<clock, queue, failed, pending, active, dirty, snap, late, w>>

Threads == Workers \cup Callers
Times == 0..MaxClock
Rows == [item : Items, at : Times, retry : 0..MaxRetry]
FailedRows == [item : Items, failedAt : Times, at : Times]
SomeItem == CHOOSE i \in Items : TRUE
NoRow == [item |-> SomeItem, at |-> 0, retry |-> 0]
NoFailed == [item |-> SomeItem, failedAt |-> 0, at |-> 0]
Idle == [pc |-> "idle", before |-> 0, todo |-> {}, got |-> FALSE, item |-> NoRow, failed |-> NoFailed, marked |-> 0, depth |-> 0]
Passes == {"recover", "list", "item", "run", "requeue", "postpone", "check", "fail", "failing", "complete", "probe", "remove",
           "dirty", "stats", "scan", "save", "clear"}
Calls == {"enqueue", "take back", "delete", "expiring", "expire", "refresh"}

TypeOK ==
    /\ clock \in Times /\ active \in Times /\ dirty \in Times
    /\ queue \subseteq Rows /\ pending \subseteq Items /\ failed \subseteq FailedRows
    /\ snap \in [depth : Nat, at : Times]
    /\ w \in [Threads -> [pc : {"idle"} \cup Passes \cup Calls, before : Times, todo : SUBSET Rows, got : BOOLEAN,
                          item : Rows, failed : FailedRows, marked : Times, depth : Nat]]

Init ==
    /\ clock = 0 /\ queue = {} /\ failed = {} /\ pending = {} /\ active = 0 /\ dirty = 0
    /\ snap = [depth |-> 0, at |-> 0] /\ late = {}
    /\ w = [x \in Threads |-> Idle]

Stamp == clock < MaxClock /\ clock' = clock + 1

(***************************************************************************)
(* Batches.  A batch deletes queue rows and DLQ rows, inserts others, adds *)
(* or deletes a pending row, and marks the organisation dirty (and active, *)
(* when it inserts a queue row) with the time its caller took.             *)
(***************************************************************************)
Batch(del, ins, fdel, fins, pend, unpend, act, mark) ==
    [del |-> del, ins |-> ins, fdel |-> fdel, fins |-> fins, pend |-> pend, unpend |-> unpend, act |-> act, mark |-> mark, at |-> clock']

SameRow(r, s) == r.item = s.item /\ r.at = s.at
Without(rows, others) == {r \in rows : \A s \in others : ~SameRow(r, s)}

\* The newest write of a row decides: of an older batch c remains what b says nothing about.
Superseded(c, b) ==
    IF c.at > b.at THEN c
    ELSE [del |-> Without(c.del, b.del \cup b.ins), ins |-> Without(c.ins, b.del \cup b.ins),
          fdel |-> c.fdel \ b.fins, fins |-> c.fins \ b.fdel,
          pend |-> c.pend \ (b.pend \cup b.unpend), unpend |-> c.unpend \ (b.pend \cup b.unpend),
          act |-> IF b.act = 0 THEN c.act ELSE 0, mark |-> IF b.mark = 0 THEN c.mark ELSE 0, at |-> c.at]

Apply(b) ==
    /\ queue' = Without(queue, b.del \cup b.ins) \cup b.ins
    /\ failed' = (failed \ b.fdel) \cup b.fins
    /\ pending' = (pending \ b.unpend) \cup b.pend
    /\ active' = IF b.act = 0 THEN active ELSE b.act
    /\ dirty' = IF b.mark = 0 THEN dirty ELSE b.mark
    /\ late' = {Superseded(c, b) : c \in late \ {b}}

\* The answer of a batch is lost: it was applied, it was not, or it will be.
Lost(b) == \/ Apply(b)
           \/ UNCHANGED <<tables, late>>
           \/ Late /\ late' = late \cup {b} /\ UNCHANGED tables

ReplayBatch(b) ==
    /\ b \in late /\ Apply(b)
    /\ UNCHANGED <<clock, snap, w>>

\* One statement on a marker: no late batch changes it any more.
SetActive(t) == active' = t /\ late' = {[c EXCEPT !.act = 0] : c \in late}
SetDirty(t) == dirty' = t /\ late' = {[c EXCEPT !.mark = 0] : c \in late}
SetBoth(t) == active' = t /\ dirty' = t /\ late' = {[c EXCEPT !.act = 0, !.mark = 0] : c \in late}

Goto(x, pc) == w' = [w EXCEPT ![x].pc = pc]
NextItem(x) == w' = [w EXCEPT ![x].pc = "item", ![x].item = NoRow]
EndOfPass(x) == w' = [w EXCEPT ![x] = [Idle EXCEPT !.pc = "dirty"]]
End(x) == w' = [w EXCEPT ![x] = Idle]

(***************************************************************************)
(* Producers.  They ask for a pending row and, if there is none, enqueue.  *)
(* The queued_at of the row is the time of the item's identity (0), so the *)
(* rows of two producers are one.                                          *)
(***************************************************************************)
PendingItemExists(x, i) ==
    /\ "enqueue" \in Ops /\ w[x].pc = "idle" /\ (i \notin pending \/ i \in Cascades)
    /\ w' = [w EXCEPT ![x].pc = "enqueue", ![x].item = [item |-> i, at |-> 0, retry |-> 0]]
    /\ UNCHANGED <<clock, tables, snap, late>>

EnqueueBatch(x) ==
    /\ w[x].pc = "enqueue" /\ Stamp
    /\ Lost(Batch({}, {w[x].item}, {}, {}, {w[x].item.item}, {}, clock', clock'))
    /\ End(x) /\ UNCHANGED snap

(***************************************************************************)
(* The worker: recovery of the active set, a batch of the organisation,    *)
(* removal from the active set, refresh of the snapshot.                   *)
(***************************************************************************)
\* shouldRecoverMissingActiveQueueOrgs: a dirty marker or a snapshot with rows, and nothing active.
\* While other organisations are active the recovery waits for its turn, one pass in ten.
shouldRecoverMissingActiveQueueOrgs(x) ==
    /\ w[x].pc = "idle"
    /\ \/ active = 0 /\ (snap.depth > 0 \/ dirty # 0) /\ Goto(x, "recover")
       \/ Goto(x, "list")
    /\ UNCHANGED <<clock, tables, snap, late>>

\* recoverMissingActiveQueueOrgs: live rows put the organisation back; a snapshot without rows is marked for refresh.
recoverMissingActiveQueueOrgs(x) ==
    /\ w[x].pc = "recover"
    /\ IF queue # {} THEN Stamp /\ SetBoth(clock')
       ELSE IF dirty = 0 /\ snap.depth > 0 THEN Stamp /\ SetDirty(clock') /\ UNCHANGED active
       ELSE UNCHANGED <<clock, active, dirty, late>>
    /\ Goto(x, "list")
    /\ UNCHANGED <<queue, failed, pending, snap>>

\* ProcessOnce takes the active organisations; processOrg takes the time, then the rows that are due.
DequeueBatch(x) ==
    /\ w[x].pc = "list"
    /\ IF active = 0
       THEN EndOfPass(x) /\ UNCHANGED clock
       ELSE /\ Stamp
            /\ w' = [w EXCEPT ![x].pc = "item", ![x].before = clock', ![x].todo = queue, ![x].got = queue # {}]
    /\ UNCHANGED <<tables, snap, late>>

processOrg(x) ==
    /\ w[x].pc = "item"
    /\ \/ \E r \in w[x].todo : /\ \A q \in w[x].todo : r.at <= q.at
                               /\ w' = [w EXCEPT ![x].pc = "run", ![x].item = r, ![x].todo = @ \ {r}]
       \/ /\ w[x].todo = {}
          /\ IF w[x].got /\ snap.depth > 0 THEN EndOfPass(x) ELSE Goto(x, "probe")
    /\ UNCHANGED <<clock, tables, snap, late>>

\* processItem ends in an error that leaves the row, in success, in an error that postpones it, or in a failure.
processItem(x) ==
    /\ w[x].pc = "run"
    /\ \/ NextItem(x)
       \/ Goto(x, "complete")
       \/ Goto(x, "postpone")
       \/ Goto(x, IF w[x].item.retry < MaxRetry THEN "requeue" ELSE "fail")
    /\ UNCHANGED <<clock, tables, snap, late>>

\* RequeueItem: the old row goes and the new one comes in one batch.
Moved(r, retry) ==
    Batch({r}, {[r EXCEPT !.at = clock', !.retry = retry]}, {}, {}, {r.item}, {}, clock', clock')

postponeItem(x) ==
    /\ w[x].pc = "postpone" /\ Stamp
    /\ Lost(Moved(w[x].item, w[x].item.retry))
    /\ NextItem(x) /\ UNCHANGED snap

IncrementRetry(x) ==
    /\ w[x].pc = "requeue" /\ Stamp
    /\ LET b == Moved(w[x].item, w[x].item.retry + 1)
       IN \/ Apply(b) /\ NextItem(x)
          \/ Lost(b) /\ Goto(x, "check")
    /\ UNCHANGED snap

Present(r) == \E q \in queue : SameRow(q, r)

\* The row is gone: the requeue was applied.  It is there: escalate.  The read fails: leave it.
QueueItemExists(x) ==
    /\ w[x].pc = "check"
    /\ (Present(w[x].item) /\ Goto(x, "fail")) \/ NextItem(x)
    /\ UNCHANGED <<clock, tables, snap, late>>

\* FailItem reads the row first; without it there is nothing to fail.
FailItemRead(x) ==
    /\ w[x].pc = "fail"
    /\ IF Present(w[x].item) THEN Goto(x, "failing") ELSE NextItem(x)
    /\ UNCHANGED <<clock, tables, snap, late>>

FailItem(x) ==
    /\ w[x].pc = "failing" /\ Stamp
    /\ LET r == w[x].item
       IN Lost(Batch({r}, {}, {}, {[item |-> r.item, failedAt |-> clock', at |-> r.at]}, {r.item}, {}, 0, clock'))
    /\ NextItem(x) /\ UNCHANGED snap


CompleteItem(x) ==
    /\ w[x].pc = "complete" /\ Stamp
    /\ Lost(Batch({w[x].item}, {}, {}, {}, {}, {w[x].item.item}, 0, clock'))
    /\ NextItem(x) /\ UNCHANGED snap

\* The snapshot is not trusted: one row of the queue keeps the organisation active.
GetOldestQueuedAt(x) ==
    /\ w[x].pc = "probe"
    /\ IF queue = {} THEN Goto(x, "remove") ELSE EndOfPass(x)
    /\ UNCHANGED <<clock, tables, snap, late>>

RemoveOrgFromActiveSet(x) ==
    /\ w[x].pc = "remove"
    /\ IF active # 0 /\ active < w[x].before THEN SetActive(0) ELSE UNCHANGED <<active, late>>
    /\ EndOfPass(x)
    /\ UNCHANGED <<clock, queue, failed, pending, dirty, snap>>

(***************************************************************************)
(* The snapshot, one thread of a process at a time (reconcileMu).          *)
(***************************************************************************)
Reconciling == {"stats", "scan", "save", "clear"}
reconcileMu == OneNode => \A x \in Threads : w[x].pc \notin Reconciling

\* reconcileDirtyQueueStats lists the marker,
ListDirtyOrgs(x) ==
    /\ w[x].pc = "dirty" /\ reconcileMu
    /\ IF dirty = 0 THEN End(x) ELSE w' = [w EXCEPT ![x].pc = "stats", ![x].marked = dirty]
    /\ UNCHANGED <<clock, tables, snap, late>>

\* skips an organisation whose snapshot is not older than the marker or too young,
GetOrgQueueStats(x) ==
    /\ w[x].pc = "stats"
    /\ \/ Goto(x, IF snap.at # 0 /\ snap.at >= w[x].marked THEN "clear" ELSE "scan")
       \/ snap.at # 0 /\ snap.at < w[x].marked /\ End(x)
    /\ UNCHANGED <<clock, tables, snap, late>>

\* (an admin's operation does not skip it: refreshOrgQueueStatsNow)
refreshOrgQueueStatsNow(x) ==
    /\ w[x].pc = "refresh" /\ reconcileMu
    /\ w' = [w EXCEPT ![x].pc = "scan", ![x].marked = dirty]
    /\ UNCHANGED <<clock, tables, snap, late>>

\* counts its rows, and afterwards takes the time of the snapshot,
scanOrgQueueStats(x) ==
    /\ w[x].pc = "scan"
    /\ w' = [w EXCEPT ![x].pc = "save", ![x].depth = Cardinality(queue)]
    /\ UNCHANGED <<clock, tables, snap, late>>

RecalculateOrgQueueStats(x) ==
    /\ w[x].pc = "save" /\ Stamp
    /\ snap' = [depth |-> w[x].depth, at |-> clock']
    /\ IF w[x].depth > 0 THEN SetActive(clock') ELSE UNCHANGED <<active, late>>
    /\ Goto(x, "clear")
    /\ UNCHANGED <<queue, failed, pending, dirty>>

\* and clears the marker IF nothing was marked since it was listed.
ClearDirtyOrg(x) ==
    /\ w[x].pc = "clear"
    /\ IF dirty # 0 /\ dirty <= w[x].marked THEN SetDirty(0) ELSE UNCHANGED <<dirty, late>>
    /\ End(x)
    /\ UNCHANGED <<clock, queue, failed, pending, active, snap>>

(***************************************************************************)
(* The dead letter queue: an admin or the scanner's automatic retry takes  *)
(* an item back under its old time, an admin or its age removes it.  Each  *)
(* reads the row first.                                                    *)
(***************************************************************************)
withDLQOperation == OneNode => \A x \in Threads : w[x].pc \notin {"take back", "delete", "refresh"}

\* The time of the markers is taken here, before the row is read.
RequeueFailedItemRead(x, f) ==
    /\ "take back" \in Ops /\ w[x].pc = "idle" /\ withDLQOperation /\ f \in failed
    /\ w' = [w EXCEPT ![x].pc = "take back", ![x].failed = f, ![x].before = clock]
    /\ UNCHANGED <<clock, tables, snap, late>>

RequeueFailedItem(x) ==
    /\ w[x].pc = "take back" /\ Stamp
    /\ LET f == w[x].failed
           b == Batch({}, {[item |-> f.item, at |-> f.at, retry |-> 0]}, {f}, {}, {f.item}, {}, w[x].before, w[x].before)
       IN \/ Apply(b) /\ Goto(x, "refresh")
          \/ Lost(b) /\ End(x)
    /\ UNCHANGED snap

Dropped(f) == Batch({}, {}, {f}, {}, {}, {f.item}, 0, clock')

DeleteFailedItemRead(x, f) ==
    /\ "delete" \in Ops /\ w[x].pc = "idle" /\ withDLQOperation /\ f \in failed
    /\ w' = [w EXCEPT ![x].pc = "delete", ![x].failed = f]
    /\ UNCHANGED <<clock, tables, snap, late>>

DeleteFailedItem(x) ==
    /\ w[x].pc = "delete" /\ Stamp
    /\ \/ Apply(Dropped(w[x].failed)) /\ Goto(x, "refresh")
       \/ Lost(Dropped(w[x].failed)) /\ End(x)
    /\ UNCHANGED snap

\* The scanner lists what has expired, outside withDLQOperation,
ListFailedItemExpiriesByDay(x, f) ==
    /\ "expire" \in Ops /\ w[x].pc = "idle" /\ f \in failed
    /\ w' = [w EXCEPT ![x].pc = "expiring", ![x].failed = f]
    /\ UNCHANGED <<clock, tables, snap, late>>

\* reads the row (without it only the marker is set),
DeleteExpiredFailedItemRead(x) ==
    /\ w[x].pc = "expiring"
    /\ IF w[x].failed \in failed THEN Goto(x, "expire") /\ UNCHANGED <<clock, dirty, late>> ELSE Stamp /\ SetDirty(clock') /\ End(x)
    /\ UNCHANGED <<queue, failed, pending, active, snap>>

\* and removes it.
DeleteExpiredFailedItem(x) ==
    /\ w[x].pc = "expire" /\ Stamp
    /\ Lost(Dropped(w[x].failed))
    /\ End(x) /\ UNCHANGED snap

WorkerStep(x) ==
    \/ shouldRecoverMissingActiveQueueOrgs(x) \/ recoverMissingActiveQueueOrgs(x) \/ DequeueBatch(x) \/ processOrg(x)
    \/ processItem(x) \/ postponeItem(x) \/ IncrementRetry(x) \/ QueueItemExists(x) \/ FailItemRead(x) \/ FailItem(x)
    \/ CompleteItem(x) \/ GetOldestQueuedAt(x) \/ RemoveOrgFromActiveSet(x) \/ ListDirtyOrgs(x) \/ GetOrgQueueStats(x)

Reconcile(x) == scanOrgQueueStats(x) \/ RecalculateOrgQueueStats(x) \/ ClearDirtyOrg(x)

CallerStep(x) ==
    \/ \E i \in Items : PendingItemExists(x, i)
    \/ \E f \in failed : RequeueFailedItemRead(x, f) \/ DeleteFailedItemRead(x, f) \/ ListFailedItemExpiriesByDay(x, f)
    \/ EnqueueBatch(x) \/ RequeueFailedItem(x) \/ DeleteFailedItem(x) \/ refreshOrgQueueStatsNow(x)
    \/ DeleteExpiredFailedItemRead(x) \/ DeleteExpiredFailedItem(x)

Next ==
    \/ \E b \in late : ReplayBatch(b)
    \/ \E x \in Workers : WorkerStep(x)
    \/ \E x \in Callers : CallerStep(x)
    \/ \E x \in Threads : Reconcile(x)

Spec == Init /\ [][Next]_vars

-----------------------------------------------------------------------------
(***************************************************************************)
(* Properties                                                              *)
(***************************************************************************)
InQueue(i) == {r \in queue : r.item = i}
InDLQ(i) == {f \in failed : f.item = i}

\* A pending row stands for work that is somewhere: its item is in the queue or in the dead letter
\* queue.  A producer that finds the row leaves the item alone, so nobody would ever do the work of
\* one that stands for nothing.
NotLost ==
    \A i \in pending : InQueue(i) # {} \/ InDLQ(i) # {}

\* The pending row covers the work: an item in the queue or in the dead letter queue is found by
\* the producer's PendingItemExists, which is what keeps it from being enqueued a second time.
PendingCovers ==
    \A i \in Items : InQueue(i) # {} \/ InDLQ(i) # {} => i \in pending

\* An item has one home: one queue row or one row of the dead letter queue, never both.
OneHome ==
    \A i \in Items : Cardinality(InQueue(i)) + Cardinality(InDLQ(i)) <= 1

\* A live row is found: its organisation is active, or a marker leads the recovery of the next pass to it.
QueueFindable ==
    queue # {} => active # 0 \/ dirty # 0 \/ snap.depth > 0
=============================================================================
