--------------------------- MODULE GCQueueProofs ---------------------------
(***************************************************************************)
(* The queue of the garbage collector, for any number of items, workers    *)
(* and callers (GCQueue).                                                  *)
(*                                                                         *)
(* NotLost holds whatever calls overlap and whatever batches come late.  A *)
(* batch that takes an item's row away writes another row of the item and  *)
(* its pending row, or deletes the pending row.  With late batches that is *)
(* not enough: of an older batch only a part may be left.  The invariant   *)
(* says that a pending item has a row that no such part takes away.        *)
(*                                                                         *)
(* QueueFindable holds when no batch comes late and nothing is taken back  *)
(* from the dead letter queue: while there are rows, the active marker is  *)
(* not older than the time a worker compares it with.                      *)
(***************************************************************************)
EXTENDS GCQueue, FiniteSetTheorems, TLAPS

Steps == {"idle"} \cup Passes \cup Calls
Minds == [pc : Steps, before : Times, todo : SUBSET Rows, got : BOOLEAN,
          item : Rows, failed : FailedRows, marked : Times, depth : Nat]
Batches == [del : SUBSET Rows, ins : SUBSET Rows, fdel : SUBSET FailedRows, fins : SUBSET FailedRows,
            pend : SUBSET Items, unpend : SUBSET Items, act : Times, mark : Times, at : Times]

TablesOK ==
    /\ queue \in SUBSET Rows /\ IsFiniteSet(queue) /\ failed \in SUBSET FailedRows /\ pending \in SUBSET Items
    /\ active \in Times /\ dirty \in Times
    /\ late \in SUBSET Batches /\ \A b \in late : IsFiniteSet(b.ins)
MindsOK == w \in [Threads -> Minds] /\ \A x \in Threads : w[x].pc = "requeue" => w[x].item.retry < MaxRetry

\* Every register has its type.
TInv == clock \in Times /\ snap \in [depth : Nat, at : Times] /\ TablesOK /\ MindsOK

-----------------------------------------------------------------------------
(***************************************************************************)
(* Batches                                                                 *)
(***************************************************************************)
Touches(b, i) == i \in b.pend \/ i \in b.unpend
Houses(b, i) == (\E r \in b.ins : r.item = i) \/ (\E f \in b.fins : f.item = i)
Concerns(b, i) == Houses(b, i) \/ (\E r \in b.del : r.item = i) \/ (\E f \in b.fdel : f.item = i)
Hits(b, r) == \E s \in b.del : SameRow(r, s)

\* A batch as it is built: the pending row of every item it concerns is in it, and a pending row comes with a row.
Whole(b) == \A i \in Items : (Concerns(b, i) => Touches(b, i)) /\ (i \in b.pend => Houses(b, i))

\* A batch is accepted now.  Its active marker is new, unless it takes back a failed item.
Accepted(b) ==
    /\ Stamp /\ b.at = clock' /\ IsFiniteSet(b.ins) /\ Whole(b) /\ Lost(b)
    /\ b.act = clock' \/ (b.act = 0 /\ b.ins = {}) \/ (\E x \in Threads : w[x].pc = "take back")

LEMMA Bounds ==
    ASSUME QueueAssumption
    PROVE  MaxClock \in Nat /\ MaxRetry \in Nat /\ 0 \in Times /\ 0 \in 0..MaxRetry
<1>1. MaxClock \in Nat /\ MaxRetry \in Nat
  BY Zenon DEF QueueAssumption
<1> QED
  BY <1>1 DEF Times

LEMMA StampTimes ==
    ASSUME QueueAssumption, TInv, Stamp
    PROVE  clock' \in Times /\ clock' = clock + 1 /\ clock' # 0
<1>1. clock \in Times
  BY DEF TInv
<1> QED
  BY <1>1, Bounds DEF Stamp, Times

LEMMA SupersededType ==
    ASSUME QueueAssumption, NEW c \in Batches, NEW b \in Batches, IsFiniteSet(c.ins)
    PROVE  Superseded(c, b) \in Batches /\ IsFiniteSet(Superseded(c, b).ins)
<1>1. CASE c.at > b.at
  BY <1>1 DEF Superseded
<1>2. CASE ~(c.at > b.at)
  <2> DEFINE d == Superseded(c, b)
             o == b.del \cup b.ins
  <2>1. /\ d = [del |-> Without(c.del, o), ins |-> Without(c.ins, o),
                fdel |-> c.fdel \ b.fins, fins |-> c.fins \ b.fdel,
                pend |-> c.pend \ (b.pend \cup b.unpend), unpend |-> c.unpend \ (b.pend \cup b.unpend),
                act |-> IF b.act = 0 THEN c.act ELSE 0, mark |-> IF b.mark = 0 THEN c.mark ELSE 0, at |-> c.at]
    BY <1>2 DEF Superseded
  <2>2. Without(c.del, o) \in SUBSET c.del /\ Without(c.ins, o) \in SUBSET c.ins
    BY DEF Without
  <2>3. 0 \in Times
    BY Bounds
  <2> HIDE DEF d, o
  <2>4. d.ins = Without(c.ins, o)
    BY <2>1
  <2>5. d \in Batches
    BY <2>1, <2>2, <2>3 DEF Batches
  <2> QED
    BY <2>2, <2>4, <2>5, FS_Subset DEF d
<1> QED
  BY <1>1, <1>2

LEMMA ApplyType ==
    ASSUME QueueAssumption, TablesOK, NEW b \in Batches, IsFiniteSet(b.ins), Apply(b)
    PROVE  TablesOK'
<1>1. queue' \in SUBSET Rows /\ failed' \in SUBSET FailedRows /\ pending' \in SUBSET Items
  BY DEF TablesOK, Apply, Batches, Without
<1>2. active' \in Times /\ dirty' \in Times
  BY DEF TablesOK, Apply, Batches
<1>3. IsFiniteSet(queue')
  <2>1. IsFiniteSet(queue \cup b.ins)
    BY FS_Union DEF TablesOK
  <2>2. queue' \in SUBSET (queue \cup b.ins)
    BY DEF Apply, Without
  <2> QED
    BY <2>1, <2>2, FS_Subset
<1>4. \A d \in late' : d \in Batches /\ IsFiniteSet(d.ins)
  <2>1. \A d \in late' : \E c \in late : d = Superseded(c, b)
    BY DEF Apply
  <2> QED
    BY <2>1, SupersededType DEF TablesOK
<1> QED
  BY <1>1, <1>2, <1>3, <1>4 DEF TablesOK

LEMMA AcceptedType ==
    ASSUME QueueAssumption, TInv, NEW b \in Batches, Accepted(b)
    PROVE  clock' \in Times /\ TablesOK'
<1>1. clock' \in Times
  BY StampTimes DEF Accepted
<1>2. CASE Apply(b)
  BY <1>1, <1>2, ApplyType DEF Accepted, TInv
<1>3. CASE UNCHANGED tables /\ late' \in {late, late \cup {b}}
  BY <1>1, <1>3 DEF Accepted, TInv, TablesOK, tables
<1> QED
  BY <1>2, <1>3 DEF Accepted, Lost

\* The batches of the actions.
EnqueueOf(r) == Batch({}, {r}, {}, {}, {r.item}, {}, clock', clock')
FailOf(r) == Batch({r}, {}, {}, {[item |-> r.item, failedAt |-> clock', at |-> r.at]}, {r.item}, {}, 0, clock')
CompleteOf(r) == Batch({r}, {}, {}, {}, {}, {r.item}, 0, clock')
TakeOf(f, t) == Batch({}, {[item |-> f.item, at |-> f.at, retry |-> 0]}, {f}, {}, {f.item}, {}, t, t)

LEMMA BatchFields ==
    ASSUME NEW del, NEW ins, NEW fdel, NEW fins, NEW pend, NEW unpend, NEW act, NEW mark
    PROVE  LET b == Batch(del, ins, fdel, fins, pend, unpend, act, mark)
           IN /\ b.del = del /\ b.ins = ins /\ b.fdel = fdel /\ b.fins = fins /\ b.pend = pend /\ b.unpend = unpend
              /\ b.act = act /\ b.mark = mark /\ b.at = clock'
              /\ (/\ del \in SUBSET Rows /\ ins \in SUBSET Rows /\ fdel \in SUBSET FailedRows /\ fins \in SUBSET FailedRows
                  /\ pend \in SUBSET Items /\ unpend \in SUBSET Items /\ act \in Times /\ mark \in Times /\ clock' \in Times)
                 => b \in Batches
  BY DEF Batch, Batches

LEMMA EnqueueAccepted ==
    ASSUME QueueAssumption, TInv, NEW r \in Rows, Stamp, Lost(EnqueueOf(r))
    PROVE  EnqueueOf(r) \in Batches /\ Accepted(EnqueueOf(r))
<1>1. clock' \in Times /\ r.item \in Items
  BY StampTimes DEF Rows
<1> DEFINE b == EnqueueOf(r)
<1>2. /\ b.del = {} /\ b.ins = {r} /\ b.fdel = {} /\ b.fins = {} /\ b.pend = {r.item} /\ b.unpend = {}
      /\ b.act = clock' /\ b.at = clock' /\ b \in Batches
  BY <1>1, BatchFields DEF EnqueueOf
<1> HIDE DEF b
<1>3. Whole(b)
  BY <1>2 DEF Whole, Concerns, Touches, Houses
<1>4. IsFiniteSet(b.ins)
  BY <1>2, FS_Singleton
<1> QED
  BY <1>2, <1>3, <1>4 DEF Accepted, b

LEMMA MovedAccepted ==
    ASSUME QueueAssumption, TInv, NEW r \in Rows, NEW n \in 0..MaxRetry, Stamp, Lost(Moved(r, n))
    PROVE  Moved(r, n) \in Batches /\ Accepted(Moved(r, n))
<1>1. clock' \in Times /\ r.item \in Items
  BY StampTimes DEF Rows
<1> DEFINE b == Moved(r, n)
           s == [r EXCEPT !.at = clock', !.retry = n]
<1>2. s \in Rows /\ s.item = r.item
  BY <1>1 DEF Rows
<1> HIDE DEF s
<1>3. /\ b.del = {r} /\ b.ins = {s} /\ b.fdel = {} /\ b.fins = {} /\ b.pend = {r.item} /\ b.unpend = {}
      /\ b.act = clock' /\ b.at = clock' /\ b \in Batches
  BY <1>1, <1>2, BatchFields DEF Moved, s
<1> HIDE DEF b
<1>4. Whole(b)
  BY <1>2, <1>3 DEF Whole, Concerns, Touches, Houses
<1>5. IsFiniteSet(b.ins)
  <2>1. b.ins = {s}
    BY <1>3
  <2>2. IsFiniteSet({s})
    BY FS_Singleton
  <2> QED
    BY <2>1, <2>2
<1> QED
  BY <1>3, <1>4, <1>5 DEF Accepted, b

LEMMA FailAccepted ==
    ASSUME QueueAssumption, TInv, NEW r \in Rows, Stamp, Lost(FailOf(r))
    PROVE  FailOf(r) \in Batches /\ Accepted(FailOf(r))
<1>1. clock' \in Times /\ r.item \in Items /\ 0 \in Times
  BY StampTimes, Bounds DEF Rows
<1> DEFINE b == FailOf(r)
           f == [item |-> r.item, failedAt |-> clock', at |-> r.at]
<1>2. f \in FailedRows /\ f.item = r.item
  BY <1>1 DEF Rows, FailedRows
<1> HIDE DEF f
<1>3. /\ b.del = {r} /\ b.ins = {} /\ b.fdel = {} /\ b.fins = {f} /\ b.pend = {r.item} /\ b.unpend = {}
      /\ b.act = 0 /\ b.at = clock' /\ b \in Batches
  BY <1>1, <1>2, BatchFields DEF FailOf, f
<1> HIDE DEF b
<1>4. Whole(b)
  BY <1>2, <1>3 DEF Whole, Concerns, Touches, Houses
<1>5. IsFiniteSet(b.ins)
  BY <1>3, FS_EmptySet
<1> QED
  BY <1>3, <1>4, <1>5 DEF Accepted, b

LEMMA CompleteAccepted ==
    ASSUME QueueAssumption, TInv, NEW r \in Rows, Stamp, Lost(CompleteOf(r))
    PROVE  CompleteOf(r) \in Batches /\ Accepted(CompleteOf(r))
<1>1. clock' \in Times /\ r.item \in Items /\ 0 \in Times
  BY StampTimes, Bounds DEF Rows
<1> DEFINE b == CompleteOf(r)
<1>2. /\ b.del = {r} /\ b.ins = {} /\ b.fdel = {} /\ b.fins = {} /\ b.pend = {} /\ b.unpend = {r.item}
      /\ b.act = 0 /\ b.at = clock' /\ b \in Batches
  BY <1>1, BatchFields DEF CompleteOf
<1> HIDE DEF b
<1>3. Whole(b)
  BY <1>2 DEF Whole, Concerns, Touches, Houses
<1>4. IsFiniteSet(b.ins)
  BY <1>2, FS_EmptySet
<1> QED
  BY <1>2, <1>3, <1>4 DEF Accepted, b

LEMMA TakeAccepted ==
    ASSUME QueueAssumption, TInv, NEW f \in FailedRows, NEW t \in Times, NEW x \in Threads, w[x].pc = "take back",
           Stamp, Lost(TakeOf(f, t))
    PROVE  TakeOf(f, t) \in Batches /\ Accepted(TakeOf(f, t))
<1>1. clock' \in Times /\ f.item \in Items
  BY StampTimes DEF FailedRows
<1> DEFINE b == TakeOf(f, t)
           r == [item |-> f.item, at |-> f.at, retry |-> 0]
<1>2. r \in Rows /\ r.item = f.item
  BY <1>1, Bounds DEF Rows, FailedRows
<1>3. b = Batch({}, {r}, {f}, {}, {f.item}, {}, t, t)
  BY DEF TakeOf
<1> HIDE DEF b, r
<1>3a. /\ b.del = {} /\ b.ins = {r} /\ b.fdel = {f} /\ b.fins = {} /\ b.pend = {f.item} /\ b.unpend = {}
       /\ b.act = t /\ b.at = clock' /\ b \in Batches
  <2>1. /\ {r} \in SUBSET Rows /\ {f} \in SUBSET FailedRows /\ {f.item} \in SUBSET Items
        /\ {} \in SUBSET Rows /\ {} \in SUBSET FailedRows /\ {} \in SUBSET Items
    BY <1>1, <1>2
  <2> QED
    BY <1>1, <1>3, <2>1 DEF Batch, Batches
<1>4. Whole(b)
  BY <1>2, <1>3a DEF Whole, Concerns, Touches, Houses
<1>5. IsFiniteSet(b.ins)
  <2>1. b.ins = {r}
    BY <1>3a
  <2>2. IsFiniteSet({r})
    BY FS_Singleton
  <2> QED
    BY <2>1, <2>2
<1> QED
  BY <1>3a, <1>4, <1>5 DEF Accepted, b

LEMMA DroppedAccepted ==
    ASSUME QueueAssumption, TInv, NEW f \in FailedRows, Stamp, Lost(Dropped(f))
    PROVE  Dropped(f) \in Batches /\ Accepted(Dropped(f))
<1>1. clock' \in Times /\ f.item \in Items /\ 0 \in Times
  BY StampTimes, Bounds DEF FailedRows
<1> DEFINE b == Dropped(f)
<1>2. /\ b.del = {} /\ b.ins = {} /\ b.fdel = {f} /\ b.fins = {} /\ b.pend = {} /\ b.unpend = {f.item}
      /\ b.act = 0 /\ b.at = clock' /\ b \in Batches
  BY <1>1, BatchFields DEF Dropped
<1> HIDE DEF b
<1>3. Whole(b)
  BY <1>2 DEF Whole, Concerns, Touches, Houses
<1>4. IsFiniteSet(b.ins)
  BY <1>2, FS_EmptySet
<1> QED
  BY <1>2, <1>3, <1>4 DEF Accepted, b

-----------------------------------------------------------------------------
(***************************************************************************)
(* Steps: what they do to the tables, and to the thread that takes them.   *)
(***************************************************************************)
\* c without its marks.
Unmarked(c) == {c, [c EXCEPT !.act = 0], [c EXCEPT !.mark = 0], [c EXCEPT !.act = 0, !.mark = 0]}

\* The late batches stay, some without their marks.
Unmarks == \/ late' = late \/ late' = {[c EXCEPT !.act = 0] : c \in late} \/ late' = {[c EXCEPT !.mark = 0] : c \in late}
           \/ late' = {[c EXCEPT !.act = 0, !.mark = 0] : c \in late}

LEMMA UnmarksEach == ASSUME Unmarks PROVE \A d \in late' : \E c \in late : d \in Unmarked(c)
  BY DEF Unmarks, Unmarked

\* A step of thread x that is in no batch.
Aside(x) ==
    /\ UNCHANGED <<queue, failed, pending>>
    /\ Unmarks
    /\ clock' = clock \/ (Stamp /\ clock' = clock + 1)
    /\ dirty' \in {0, dirty, clock'}
    /\ \/ active' = active
       \/ active' = clock' /\ clock' = clock + 1
       \/ active' = 0 /\ w[x].pc = "remove" /\ active < w[x].before /\ clock' = clock

LEMMA AsideType ==
    ASSUME QueueAssumption, TInv, NEW x \in Threads, Aside(x)
    PROVE  clock' \in Times /\ TablesOK'
<1>1. clock' \in Times
  BY StampTimes DEF Aside, TInv
<1>2. active' \in Times /\ dirty' \in Times /\ 0 \in Times
  BY <1>1, Bounds DEF Aside, TInv, TablesOK
<1>3. ASSUME NEW c \in Batches, IsFiniteSet(c.ins), NEW d \in Unmarked(c)
      PROVE  d \in Batches /\ IsFiniteSet(d.ins)
  <2>1. d \in Batches
    BY <1>2, <1>3 DEF Batches, Unmarked
  <2>2. d.ins = c.ins
    BY <1>3 DEF Batches, Unmarked
  <2> QED
    BY <1>3, <2>1, <2>2
<1>4. \A d \in late' : d \in Batches /\ IsFiniteSet(d.ins)
  BY <1>3, UnmarksEach DEF Aside, TInv, TablesOK
<1> QED
  BY <1>1, <1>2, <1>4 DEF Aside, TInv, TablesOK

\* What a step does to the registers of its thread x, and to no other.
MindStep(x) ==
    /\ \A y \in Threads \ {x} : w'[y] = w[y]
    /\ w' \in [Threads -> Minds]
    /\ w'[x].pc = "requeue" => w'[x].item.retry < MaxRetry
    /\ w'[x].pc = "remove" => queue = {} /\ queue' = queue
    /\ w'[x].pc = "take back" => "take back" \in Ops
    /\ w'[x].before \in {0, w[x].before, clock, clock'}

LEMMA IdleMind == ASSUME QueueAssumption PROVE Idle \in Minds /\ NoRow \in Rows
<1>1. SomeItem \in Items
  BY DEF QueueAssumption, SomeItem
<1>2. NoRow \in Rows /\ NoFailed \in FailedRows
  BY <1>1, Bounds DEF NoRow, NoFailed, Rows, FailedRows
<1> QED
  BY <1>2, Bounds DEF Idle, Minds, Steps

LEMMA MindOf ==
    ASSUME TInv, NEW x \in Threads
    PROVE  /\ w \in [Threads -> Minds] /\ w[x] \in Minds /\ w[x].item \in Rows /\ w[x].failed \in FailedRows
           /\ w[x].before \in Times /\ w[x].todo \in SUBSET Rows
  BY DEF TInv, MindsOK, Minds

LEMMA GotoMind ==
    ASSUME QueueAssumption, TInv, NEW x \in Threads, NEW s \in Steps \ {"requeue", "remove", "take back"}, Goto(x, s)
    PROVE  MindStep(x)
<1>0. w \in [Threads -> Minds] /\ w[x] \in Minds
  BY MindOf
<1>1. w' = [w EXCEPT ![x] = [w[x] EXCEPT !.pc = s]]
  BY <1>0 DEF Goto
<1>2. [w[x] EXCEPT !.pc = s] \in Minds
  BY <1>0 DEF Minds
<1> DEFINE d == [w[x] EXCEPT !.pc = s]
<1>3. d.pc = s /\ d.before = w[x].before
  BY <1>0 DEF Minds
<1> HIDE DEF d
<1> QED
  BY <1>0, <1>1, <1>2, <1>3 DEF MindStep, d

\* The same for steps that give x the registers d.
LEMMA SetMind ==
    ASSUME TInv, NEW x \in Threads, NEW d \in Minds, w' = [w EXCEPT ![x] = d],
           d.pc \notin {"requeue", "remove", "take back"}, d.before \in {0, w[x].before, clock, clock'}
    PROVE  MindStep(x)
<1>0. w \in [Threads -> Minds]
  BY MindOf
<1> QED
  BY <1>0 DEF MindStep

LEMMA NextItemMind ==
    ASSUME QueueAssumption, TInv, NEW x \in Threads, NextItem(x) \/ EndOfPass(x) \/ End(x)
    PROVE  MindStep(x)
<1>0. w \in [Threads -> Minds] /\ w[x] \in Minds /\ Idle \in Minds /\ NoRow \in Rows
  BY MindOf, IdleMind
<1>1. CASE NextItem(x)
  <2> DEFINE d == [w[x] EXCEPT !.pc = "item", !.item = NoRow]
  <2>1. w' = [w EXCEPT ![x] = d]
    BY <1>0, <1>1 DEF NextItem
  <2>2. d \in Minds /\ d.pc = "item" /\ d.before = w[x].before
    BY <1>0 DEF Minds, Steps, Passes
  <2> HIDE DEF d
  <2> QED
    BY <2>1, <2>2, SetMind
<1>2. CASE EndOfPass(x)
  <2> DEFINE d == [Idle EXCEPT !.pc = "dirty"]
  <2>1. w' = [w EXCEPT ![x] = d]
    BY <1>2 DEF EndOfPass
  <2>2. d \in Minds /\ d.pc = "dirty"
    BY <1>0 DEF Minds, Steps, Passes
  <2>3. d.before = 0
    BY DEF Idle
  <2> HIDE DEF d
  <2> QED
    BY <2>1, <2>2, <2>3, SetMind
<1>3. CASE End(x)
  <2>1. Idle.pc = "idle" /\ Idle.before = 0
    BY DEF Idle
  <2> QED
    BY <1>0, <1>3, <2>1, SetMind DEF End
<1> QED
  BY <1>1, <1>2, <1>3


\* A step of thread x.
Takes(x) ==
    /\ MindStep(x) /\ snap' \in [depth : Nat, at : Times]
    /\ Aside(x) \/ \E b \in Batches : Accepted(b)

LEMMA QuietTakes ==
    ASSUME TInv, NEW x \in Threads, MindStep(x), UNCHANGED <<clock, tables, snap, late>>
    PROVE  Takes(x)
<1>1. Unmarks
  BY DEF Unmarks
<1>2. Aside(x)
  BY <1>1 DEF Aside, tables
<1> QED
  BY <1>2 DEF Takes, TInv

LEMMA BatchTakes ==
    ASSUME TInv, NEW x \in Threads, MindStep(x), UNCHANGED snap, NEW b \in Batches, Accepted(b)
    PROVE  Takes(x)
  BY DEF Takes, TInv

LEMMA ApplyIsLost == ASSUME NEW b, Apply(b) PROVE Lost(b)
  BY DEF Lost

\* Producers and the batches of the worker.
LEMMA ProduceTakes ==
    ASSUME QueueAssumption, TInv, NEW x \in Threads, NEW i \in Items, PendingItemExists(x, i) \/ EnqueueBatch(x)
    PROVE  Takes(x)
<1>0. w \in [Threads -> Minds] /\ w[x] \in Minds /\ w[x].item \in Rows
  BY MindOf
<1>1. CASE PendingItemExists(x, i)
  <2> DEFINE r == [item |-> i, at |-> 0, retry |-> 0]
             d == [w[x] EXCEPT !.pc = "enqueue", !.item = r]
  <2>1. r \in Rows
    BY Bounds DEF Rows
  <2>2. w' = [w EXCEPT ![x] = d]
    BY <1>0, <1>1 DEF PendingItemExists
  <2> HIDE DEF r
  <2>3. d \in Minds /\ d.pc = "enqueue" /\ d.before = w[x].before
    BY <1>0, <2>1 DEF Minds, Steps, Calls
  <2> HIDE DEF d
  <2>4. MindStep(x)
    BY <2>2, <2>3, SetMind
  <2> QED
    BY <1>1, <2>4, QuietTakes DEF PendingItemExists
<1>2. CASE EnqueueBatch(x)
  <2>1. Stamp /\ Lost(EnqueueOf(w[x].item)) /\ End(x) /\ UNCHANGED snap
    BY <1>2 DEF EnqueueBatch, EnqueueOf
  <2>2. MindStep(x)
    BY <2>1, NextItemMind
  <2> QED
    BY <1>0, <2>1, <2>2, EnqueueAccepted, BatchTakes
<1> QED
  BY <1>1, <1>2

LEMMA MoveTakes ==
    ASSUME QueueAssumption, TInv, NEW x \in Threads, postponeItem(x) \/ IncrementRetry(x)
    PROVE  Takes(x)
<1>0. w[x].item \in Rows /\ w[x].item.retry \in 0..MaxRetry /\ MaxRetry \in Nat
  BY MindOf, Bounds DEF Rows
<1>1. CASE postponeItem(x)
  <2>1. Stamp /\ Lost(Moved(w[x].item, w[x].item.retry)) /\ NextItem(x) /\ UNCHANGED snap
    BY <1>1 DEF postponeItem
  <2>2. MindStep(x)
    BY <2>1, NextItemMind
  <2> QED
    BY <1>0, <2>1, <2>2, MovedAccepted, BatchTakes
<1>2. CASE IncrementRetry(x)
  <2>1. w[x].item.retry + 1 \in 0..MaxRetry
    BY <1>0, <1>2 DEF IncrementRetry, TInv, MindsOK
  <2>2. /\ Stamp /\ Lost(Moved(w[x].item, w[x].item.retry + 1)) /\ UNCHANGED snap
        /\ NextItem(x) \/ Goto(x, "check")
    BY <1>2, ApplyIsLost DEF IncrementRetry
  <2>3. MindStep(x)
    BY <2>2, NextItemMind, GotoMind DEF Steps, Passes
  <2> QED
    BY <1>0, <2>1, <2>2, <2>3, MovedAccepted, BatchTakes
<1> QED
  BY <1>1, <1>2

LEMMA FinishTakes ==
    ASSUME QueueAssumption, TInv, NEW x \in Threads, FailItem(x) \/ CompleteItem(x)
    PROVE  Takes(x)
<1>0. w[x].item \in Rows
  BY MindOf
<1>1. /\ Stamp /\ NextItem(x) /\ UNCHANGED snap
      /\ Lost(FailOf(w[x].item)) \/ Lost(CompleteOf(w[x].item))
  BY DEF FailItem, CompleteItem, FailOf, CompleteOf
<1>2. MindStep(x)
  BY <1>1, NextItemMind
<1> QED
  BY <1>0, <1>1, <1>2, FailAccepted, CompleteAccepted, BatchTakes

\* The calls on the dead letter queue.
LEMMA CallTakes ==
    ASSUME QueueAssumption, TInv, NEW x \in Threads,
           RequeueFailedItem(x) \/ DeleteFailedItem(x) \/ DeleteExpiredFailedItem(x)
    PROVE  Takes(x)
<1>0. w[x].failed \in FailedRows /\ w[x].before \in Times
  BY MindOf
<1>1. /\ Stamp /\ (Goto(x, "refresh") \/ End(x)) /\ UNCHANGED snap
      /\ Lost(Dropped(w[x].failed)) \/ (w[x].pc = "take back" /\ Lost(TakeOf(w[x].failed, w[x].before)))
  BY ApplyIsLost DEF RequeueFailedItem, DeleteFailedItem, DeleteExpiredFailedItem, TakeOf
<1>2. MindStep(x)
  BY <1>1, NextItemMind, GotoMind DEF Steps, Calls
<1> QED
  BY <1>0, <1>1, <1>2, DroppedAccepted, TakeAccepted, BatchTakes

LEMMA ReadFailedTakes ==
    ASSUME QueueAssumption, TInv, NEW x \in Threads, NEW f \in failed,
           RequeueFailedItemRead(x, f) \/ DeleteFailedItemRead(x, f) \/ ListFailedItemExpiriesByDay(x, f)
    PROVE  Takes(x)
<1>0. w \in [Threads -> Minds] /\ w[x] \in Minds /\ f \in FailedRows /\ clock \in Times
  BY MindOf DEF TInv, TablesOK
<1>1. MindStep(x)
  <2>1. CASE RequeueFailedItemRead(x, f)
    <3> DEFINE d == [w[x] EXCEPT !.pc = "take back", !.failed = f, !.before = clock]
    <3>1. w' = [w EXCEPT ![x] = d] /\ "take back" \in Ops
      BY <1>0, <2>1 DEF RequeueFailedItemRead
    <3>2. d \in Minds /\ d.pc = "take back" /\ d.before = clock
      BY <1>0 DEF Minds, Steps, Calls
    <3> HIDE DEF d
    <3> QED
      BY <1>0, <3>1, <3>2 DEF MindStep
  <2>2. ASSUME NEW s \in {"delete", "expiring"}, w' = [w EXCEPT ![x].pc = s, ![x].failed = f]
        PROVE  MindStep(x)
    <3> DEFINE d == [w[x] EXCEPT !.pc = s, !.failed = f]
    <3>1. w' = [w EXCEPT ![x] = d]
      BY <1>0, <2>2
    <3>2. d \in Minds /\ d.pc = s /\ d.before = w[x].before
      BY <1>0 DEF Minds, Steps, Calls
    <3> HIDE DEF d
    <3> QED
      BY <3>1, <3>2, SetMind
  <2> QED
    BY <2>1, <2>2 DEF DeleteFailedItemRead, ListFailedItemExpiriesByDay
<1>2. UNCHANGED <<clock, tables, snap, late>>
  BY DEF RequeueFailedItemRead, DeleteFailedItemRead, ListFailedItemExpiriesByDay
<1> QED
  BY <1>1, <1>2, QuietTakes

\* The worker's reads.
LEMMA PassTakes ==
    ASSUME QueueAssumption, TInv, NEW x \in Threads, DequeueBatch(x) \/ processOrg(x) \/ processItem(x)
    PROVE  Takes(x)
<1>0. /\ w \in [Threads -> Minds] /\ w[x] \in Minds /\ w[x].todo \in SUBSET Rows /\ queue \in SUBSET Rows
      /\ w[x].item \in Rows
  BY MindOf DEF TInv, TablesOK
<1>1. CASE DequeueBatch(x)
  <2>1. CASE active = 0
    <3>1. MindStep(x) /\ UNCHANGED <<clock, tables, snap, late>>
      BY <1>1, <2>1, NextItemMind DEF DequeueBatch
    <3> QED
      BY <3>1, QuietTakes
  <2>2. CASE active # 0
    <3> DEFINE g == queue # {}
               d == [w[x] EXCEPT !.pc = "item", !.before = clock', !.todo = queue, !.got = g]
    <3>1. g \in BOOLEAN
      OBVIOUS
    <3>2. Stamp /\ UNCHANGED <<tables, snap, late>> /\ w' = [w EXCEPT ![x] = d]
      BY <1>0, <1>1, <2>2 DEF DequeueBatch
    <3>3. clock' \in Times /\ clock' = clock + 1
      BY <3>2, StampTimes
    <3> HIDE DEF g
    <3>4. d \in Minds /\ d.pc = "item" /\ d.before = clock'
      BY <1>0, <3>1, <3>3 DEF Minds, Steps, Passes
    <3> HIDE DEF d
    <3>5. MindStep(x)
      BY <3>2, <3>4, SetMind
    <3>6. Unmarks
      BY <3>2 DEF Unmarks
    <3>7. Aside(x)
      BY <3>2, <3>3, <3>6 DEF Aside, tables
    <3> QED
      BY <3>2, <3>5, <3>7 DEF Takes, TInv
  <2> QED
    BY <2>1, <2>2
<1>2. CASE processOrg(x)
  <2>1. UNCHANGED <<clock, tables, snap, late>>
    BY <1>2 DEF processOrg
  <2>2. CASE \E r \in w[x].todo : w' = [w EXCEPT ![x].pc = "run", ![x].item = r, ![x].todo = @ \ {r}]
    <3>1. PICK r \in w[x].todo : w' = [w EXCEPT ![x].pc = "run", ![x].item = r, ![x].todo = @ \ {r}]
      BY <2>2
    <3> DEFINE d == [w[x] EXCEPT !.pc = "run", !.item = r, !.todo = @ \ {r}]
    <3>2. w' = [w EXCEPT ![x] = d]
      BY <1>0, <3>1
    <3>3. d \in Minds /\ d.pc = "run" /\ d.before = w[x].before
      BY <1>0 DEF Minds, Steps, Passes
    <3> HIDE DEF d
    <3>4. MindStep(x)
      BY <3>2, <3>3, SetMind
    <3> QED
      BY <2>1, <3>4, QuietTakes
  <2>3. CASE EndOfPass(x) \/ Goto(x, "probe")
    <3>1. MindStep(x)
      BY <2>3, NextItemMind, GotoMind DEF Steps, Passes
    <3> QED
      BY <2>1, <3>1, QuietTakes
  <2> QED
    BY <1>2, <2>2, <2>3 DEF processOrg
<1>3. CASE processItem(x)
  <2>1. UNCHANGED <<clock, tables, snap, late>>
    BY <1>3 DEF processItem
  <2>2. CASE Goto(x, "requeue") /\ w[x].item.retry < MaxRetry
    <3> DEFINE d == [w[x] EXCEPT !.pc = "requeue"]
    <3>1. w' = [w EXCEPT ![x] = d]
      BY <1>0, <2>2 DEF Goto
    <3>2. d \in Minds /\ d.pc = "requeue" /\ d.before = w[x].before /\ d.item = w[x].item
      BY <1>0 DEF Minds, Steps, Passes
    <3> HIDE DEF d
    <3>3. MindStep(x)
      BY <1>0, <2>2, <3>1, <3>2 DEF MindStep
    <3> QED
      BY <2>1, <3>3, QuietTakes
  <2>3. CASE NextItem(x) \/ Goto(x, "complete") \/ Goto(x, "postpone") \/ Goto(x, "fail")
    <3>1. MindStep(x)
      BY <2>3, NextItemMind, GotoMind DEF Steps, Passes
    <3> QED
      BY <2>1, <3>1, QuietTakes
  <2> QED
    BY <1>3, <2>2, <2>3 DEF processItem
<1> QED
  BY <1>1, <1>2, <1>3

LEMMA LookTakes ==
    ASSUME QueueAssumption, TInv, NEW x \in Threads,
           \/ shouldRecoverMissingActiveQueueOrgs(x) \/ QueueItemExists(x) \/ FailItemRead(x)
           \/ GetOldestQueuedAt(x) \/ GetOrgQueueStats(x)
    PROVE  Takes(x)
<1>0. w \in [Threads -> Minds] /\ w[x] \in Minds
  BY MindOf
<1>1. UNCHANGED <<clock, tables, snap, late>>
  BY DEF shouldRecoverMissingActiveQueueOrgs, QueueItemExists, FailItemRead, GetOldestQueuedAt, GetOrgQueueStats
<1>2. CASE Goto(x, "remove") /\ queue = {}
  <2> DEFINE d == [w[x] EXCEPT !.pc = "remove"]
  <2>1. w' = [w EXCEPT ![x] = d]
    BY <1>0, <1>2 DEF Goto
  <2>2. d \in Minds /\ d.pc = "remove" /\ d.before = w[x].before
    BY <1>0 DEF Minds, Steps, Passes
  <2> HIDE DEF d
  <2>3. MindStep(x)
    BY <1>0, <1>1, <1>2, <2>1, <2>2 DEF MindStep, tables
  <2> QED
    BY <1>1, <2>3, QuietTakes
<1>3. CASE \/ NextItem(x) \/ EndOfPass(x) \/ End(x) \/ Goto(x, "recover") \/ Goto(x, "list") \/ Goto(x, "fail")
           \/ Goto(x, "failing") \/ Goto(x, "clear") \/ Goto(x, "scan")
  <2>1. MindStep(x)
    BY <1>3, NextItemMind, GotoMind DEF Steps, Passes
  <2> QED
    BY <1>1, <2>1, QuietTakes
<1> QED
  BY <1>2, <1>3 DEF shouldRecoverMissingActiveQueueOrgs, QueueItemExists, FailItemRead, GetOldestQueuedAt, GetOrgQueueStats

\* The refresh of the snapshot, and the markers.
LEMMA RefreshTakes ==
    ASSUME QueueAssumption, TInv, NEW x \in Threads,
           ListDirtyOrgs(x) \/ refreshOrgQueueStatsNow(x) \/ scanOrgQueueStats(x)
    PROVE  Takes(x)
<1>0. w \in [Threads -> Minds] /\ w[x] \in Minds /\ dirty \in Times
  BY MindOf DEF TInv, TablesOK
<1>1. UNCHANGED <<clock, tables, snap, late>>
  BY DEF ListDirtyOrgs, refreshOrgQueueStatsNow, scanOrgQueueStats
<1>2. CASE End(x)
  <2>1. MindStep(x)
    BY <1>2, NextItemMind
  <2> QED
    BY <1>1, <2>1, QuietTakes
<1>3. ASSUME NEW s \in {"stats", "scan"}, w' = [w EXCEPT ![x].pc = s, ![x].marked = dirty]
      PROVE  Takes(x)
  <2> DEFINE d == [w[x] EXCEPT !.pc = s, !.marked = dirty]
  <2>1. w' = [w EXCEPT ![x] = d]
    BY <1>0, <1>3
  <2>2. d \in Minds /\ d.pc = s /\ d.before = w[x].before
    BY <1>0 DEF Minds, Steps, Passes
  <2> HIDE DEF d
  <2>3. MindStep(x)
    BY <2>1, <2>2, SetMind
  <2> QED
    BY <1>1, <2>3, QuietTakes
<1>4. CASE scanOrgQueueStats(x)
  <2> DEFINE n == Cardinality(queue)
             d == [w[x] EXCEPT !.pc = "save", !.depth = n]
  <2>1. w' = [w EXCEPT ![x] = d]
    BY <1>0, <1>4 DEF scanOrgQueueStats
  <2>2. n \in Nat
    BY FS_CardinalityType DEF TInv, TablesOK
  <2> HIDE DEF n
  <2>3. d \in Minds /\ d.pc = "save" /\ d.before = w[x].before
    BY <1>0, <2>2 DEF Minds, Steps, Passes
  <2> HIDE DEF d
  <2>4. MindStep(x)
    BY <2>1, <2>3, SetMind
  <2> QED
    BY <1>1, <2>4, QuietTakes
<1> QED
  BY <1>2, <1>3, <1>4 DEF ListDirtyOrgs, refreshOrgQueueStatsNow

LEMMA SetAside ==
    ASSUME NEW t, SetActive(t) \/ SetDirty(t) \/ SetBoth(t) \/ UNCHANGED late
    PROVE  Unmarks
  BY DEF SetActive, SetDirty, SetBoth, Unmarks

LEMMA MarkTakes ==
    ASSUME QueueAssumption, TInv, NEW x \in Threads,
           \/ recoverMissingActiveQueueOrgs(x) \/ RemoveOrgFromActiveSet(x) \/ RecalculateOrgQueueStats(x)
           \/ ClearDirtyOrg(x) \/ DeleteExpiredFailedItemRead(x)
    PROVE  Takes(x)
<1>0. w[x] \in Minds /\ w[x].depth \in Nat /\ snap \in [depth : Nat, at : Times] /\ clock \in Times
  BY MindOf DEF Minds, TInv
<1>1. MindStep(x)
  BY NextItemMind, GotoMind
     DEF Steps, Passes, Calls, recoverMissingActiveQueueOrgs, RemoveOrgFromActiveSet, RecalculateOrgQueueStats, ClearDirtyOrg,
         DeleteExpiredFailedItemRead
<1>2. CASE recoverMissingActiveQueueOrgs(x)
  <2>1. Stamp => clock' = clock + 1
    BY DEF Stamp
  <2>2. Unmarks
    BY <1>2, SetAside DEF recoverMissingActiveQueueOrgs
  <2>3. Aside(x)
    BY <1>2, <2>1, <2>2 DEF Aside, recoverMissingActiveQueueOrgs, SetBoth, SetDirty
  <2> QED
    BY <1>0, <1>1, <1>2, <2>3 DEF Takes, recoverMissingActiveQueueOrgs
<1>3. CASE RemoveOrgFromActiveSet(x)
  <2>1. Unmarks
    BY <1>3, SetAside DEF RemoveOrgFromActiveSet
  <2>2. Aside(x)
    BY <1>3, <2>1 DEF Aside, RemoveOrgFromActiveSet, SetActive
  <2> QED
    BY <1>0, <1>1, <1>3, <2>2 DEF Takes, RemoveOrgFromActiveSet
<1>4. CASE RecalculateOrgQueueStats(x)
  <2>1. Stamp /\ clock' = clock + 1 /\ clock' \in Times
    BY <1>4, StampTimes DEF RecalculateOrgQueueStats
  <2>2. Unmarks
    BY <1>4, SetAside DEF RecalculateOrgQueueStats
  <2>3. Aside(x)
    BY <1>4, <2>1, <2>2 DEF Aside, RecalculateOrgQueueStats, SetActive
  <2> QED
    BY <1>0, <1>1, <1>4, <2>1, <2>3 DEF Takes, RecalculateOrgQueueStats
<1>5. CASE ClearDirtyOrg(x)
  <2>1. Unmarks
    BY <1>5, SetAside DEF ClearDirtyOrg
  <2>2. Aside(x)
    BY <1>5, <2>1 DEF Aside, ClearDirtyOrg, SetDirty
  <2> QED
    BY <1>0, <1>1, <1>5, <2>2 DEF Takes, ClearDirtyOrg
<1>6. CASE DeleteExpiredFailedItemRead(x)
  <2>1. Stamp => clock' = clock + 1
    BY DEF Stamp
  <2>2. Unmarks
    BY <1>6, SetAside DEF DeleteExpiredFailedItemRead
  <2>3. Aside(x)
    BY <1>6, <2>1, <2>2 DEF Aside, DeleteExpiredFailedItemRead, SetDirty
  <2> QED
    BY <1>0, <1>1, <1>6, <2>3 DEF Takes, DeleteExpiredFailedItemRead
<1> QED
  BY <1>2, <1>3, <1>4, <1>5, <1>6

LEMMA StepCases ==
    ASSUME QueueAssumption, TInv, Next
    PROVE  (\E b \in late : ReplayBatch(b)) \/ (\E x \in Threads : Takes(x))
<1>1. ASSUME NEW x \in Threads, WorkerStep(x) PROVE Takes(x)
  BY <1>1, PassTakes, LookTakes, MarkTakes, MoveTakes, FinishTakes, RefreshTakes DEF WorkerStep
<1>2. ASSUME NEW x \in Threads, CallerStep(x) PROVE Takes(x)
  <2>1. CASE \E i \in Items : PendingItemExists(x, i)
    BY <2>1, ProduceTakes
  <2>2. CASE \E f \in failed : RequeueFailedItemRead(x, f) \/ DeleteFailedItemRead(x, f) \/ ListFailedItemExpiriesByDay(x, f)
    BY <2>2, ReadFailedTakes
  <2>3. CASE EnqueueBatch(x)
    BY <2>3, ProduceTakes DEF QueueAssumption
  <2>4. CASE RequeueFailedItem(x) \/ DeleteFailedItem(x) \/ DeleteExpiredFailedItem(x)
    BY <2>4, CallTakes
  <2>5. CASE refreshOrgQueueStatsNow(x) \/ DeleteExpiredFailedItemRead(x)
    BY <2>5, RefreshTakes, MarkTakes
  <2> QED
    BY <1>2, <2>1, <2>2, <2>3, <2>4, <2>5 DEF CallerStep
<1>3. ASSUME NEW x \in Threads, Reconcile(x) PROVE Takes(x)
  BY <1>3, RefreshTakes, MarkTakes DEF Reconcile
<1> QED
  BY <1>1, <1>2, <1>3 DEF Next, Threads

-----------------------------------------------------------------------------
(***************************************************************************)
(* Types                                                                   *)
(***************************************************************************)
LEMMA InitTInv == QueueAssumption /\ Init => TInv
<1> SUFFICES ASSUME QueueAssumption, Init PROVE TInv
  OBVIOUS
<1>1. Idle \in Minds /\ Idle.pc = "idle"
  BY IdleMind DEF Idle
<1>2. MindsOK
  BY <1>1 DEF Init, MindsOK
<1>3. TablesOK
  BY Bounds, FS_EmptySet DEF Init, TablesOK
<1> QED
  BY <1>2, <1>3, Bounds DEF Init, TInv

LEMMA TakesMinds ==
    ASSUME TInv, NEW x \in Threads, Takes(x)
    PROVE  MindsOK'
<1>1. /\ \A y \in Threads \ {x} : w'[y] = w[y]
      /\ w' \in [Threads -> Minds]
      /\ w'[x].pc = "requeue" => w'[x].item.retry < MaxRetry
  BY DEF Takes, MindStep
<1>2. \A y \in Threads : w[y].pc = "requeue" => w[y].item.retry < MaxRetry
  BY DEF TInv, MindsOK
<1>3. \A y \in Threads : w'[y].pc = "requeue" => w'[y].item.retry < MaxRetry
  BY <1>1, <1>2
<1> QED
  BY <1>1, <1>3 DEF MindsOK

LEMMA NextTInv == QueueAssumption /\ TInv /\ [Next]_vars => TInv'
<1> SUFFICES ASSUME QueueAssumption, TInv, [Next]_vars PROVE TInv'
  OBVIOUS
<1>1. CASE UNCHANGED vars
  BY <1>1 DEF vars, TInv, TablesOK, MindsOK
<1>2. ASSUME NEW b \in late, ReplayBatch(b) PROVE TInv'
  <2>1. TablesOK'
    BY <1>2, ApplyType DEF TInv, TablesOK, ReplayBatch
  <2> QED
    BY <1>2, <2>1 DEF TInv, ReplayBatch, MindsOK
<1>3. ASSUME NEW x \in Threads, Takes(x) PROVE TInv'
  <2>1. MindsOK'
    BY <1>3, TakesMinds
  <2>2. clock' \in Times /\ TablesOK'
    BY <1>3, AsideType, AcceptedType DEF Takes
  <2> QED
    BY <1>3, <2>1, <2>2 DEF TInv, Takes
<1> QED
  BY <1>1, <1>2, <1>3, StepCases

LEMMA TInvTypes == TInv => TypeOK
<1> SUFFICES ASSUME TInv PROVE TypeOK
  OBVIOUS
<1>1. w \in [Threads -> [pc : {"idle"} \cup Passes \cup Calls, before : Times, todo : SUBSET Rows, got : BOOLEAN,
                        item : Rows, failed : FailedRows, marked : Times, depth : Nat]]
  BY DEF TInv, MindsOK, Minds, Steps
<1> QED
  BY <1>1 DEF TInv, TablesOK, TypeOK

\* Every register of the queue, its dead letter queue and its threads has its type, whatever
\* overlaps and whatever comes late.
THEOREM QueueTypes == QueueAssumption => (Spec => []TypeOK)
<1> SUFFICES ASSUME QueueAssumption
             PROVE  Spec => []TypeOK
  OBVIOUS
<1>1. Init => TInv
  BY InitTInv
<1>2. TInv /\ [Next]_vars => TInv'
  BY NextTInv
<1> QED
  BY <1>1, <1>2, TInvTypes, PTL DEF Spec

-----------------------------------------------------------------------------
(***************************************************************************)
(* Nothing is lost                                                         *)
(***************************************************************************)
\* A row of item i that late batches take away only with the pending row of i, or to write it anew.
FirmRow(r, i) == r.item = i /\ \A c \in late : Hits(c, r) => Touches(c, i)
FirmFailed(f, i) == f.item = i /\ \A c \in late : f \in c.fdel => Touches(c, i)
Firm(i) == (\E r \in queue : FirmRow(r, i)) \/ (\E f \in failed : FirmFailed(f, i))

\* Late batches have different times, of the past; a pending row in one comes with a row; and of a
\* batch that has lost the pending row of an item, every older one has lost it too.
LateInv ==
    /\ \A c \in late : c.at <= clock
    /\ \A c, d \in late : c.at = d.at => c = d
    /\ \A c \in late : \A i \in Items : i \in c.pend => Houses(c, i)
    /\ \A c, d \in late : \A i \in Items : c.at < d.at /\ Concerns(d, i) /\ ~Touches(d, i) => ~Touches(c, i)
LInv == LateInv /\ \A i \in pending : Firm(i)

\* What a batch b must meet to be applied beside the late ones.
Fits(b) ==
    /\ \A c \in late \ {b} : \A i \in Items : c.at <= b.at /\ Concerns(b, i) /\ ~Touches(b, i) => ~Touches(c, i)
    /\ \A c \in late \ {b} : \A i \in Items : c.at > b.at /\ Concerns(c, i) /\ ~Touches(c, i) => ~Touches(b, i)
    /\ \A i \in Items : i \in b.pend => Houses(b, i)
    /\ \A i \in Items : ~Touches(b, i) => /\ \A r \in queue : FirmRow(r, i) => ~Hits(b, r)
                                          /\ \A f \in failed : FirmFailed(f, i) => f \notin b.fdel

\* What is left of c once b is applied.
LEMMA Left ==
    ASSUME NEW c \in Batches, NEW b \in Batches, NEW i
    PROVE  LET d == Superseded(c, b)
           IN /\ d.at = c.at /\ d.del \subseteq c.del /\ d.ins \subseteq c.ins /\ d.fdel \subseteq c.fdel /\ d.fins \subseteq c.fins
              /\ d.pend \subseteq c.pend /\ d.unpend \subseteq c.unpend
              /\ c.at > b.at => d = c
              /\ c.at <= b.at => /\ Touches(d, i) <=> Touches(c, i) /\ ~Touches(b, i)
                                 /\ i \in d.pend <=> i \in c.pend /\ ~Touches(b, i)
                                 /\ \A r : Hits(d, r) => Hits(c, r)
                                 /\ \A r \in b.ins : ~Hits(d, r)
                                 /\ \A f \in b.fins : f \notin d.fdel
                                 /\ \A r \in c.ins : r \in d.ins \/ \E s \in b.del \cup b.ins : SameRow(r, s)
                                 /\ \A f \in c.fins : f \in d.fins \/ f \in b.fdel
<1> DEFINE d == Superseded(c, b)
<1>0. c.at \in Int /\ b.at \in Int
  BY DEF Batches, Times
<1>1. CASE c.at > b.at
  <2>1. d = c
    BY <1>1 DEF Superseded
  <2> HIDE DEF d
  <2> QED
    BY <1>0, <1>1, <2>1 DEF d
<1>2. CASE c.at <= b.at
  <2>0. ~(c.at > b.at)
    BY <1>0, <1>2
  <2>1. /\ d.at = c.at /\ d.del = Without(c.del, b.del \cup b.ins) /\ d.ins = Without(c.ins, b.del \cup b.ins)
        /\ d.fdel = c.fdel \ b.fins /\ d.fins = c.fins \ b.fdel
        /\ d.pend = c.pend \ (b.pend \cup b.unpend) /\ d.unpend = c.unpend \ (b.pend \cup b.unpend)
    BY <2>0 DEF Superseded
  <2> HIDE DEF d
  <2>2. d.del \subseteq c.del /\ d.ins \subseteq c.ins
    BY <2>1 DEF Without
  <2>3. Touches(d, i) <=> Touches(c, i) /\ ~Touches(b, i)
    BY <2>1 DEF Touches
  <2>4. i \in d.pend <=> i \in c.pend /\ ~Touches(b, i)
    BY <2>1 DEF Touches
  <2>5. \A r : Hits(d, r) => Hits(c, r)
    BY <2>2 DEF Hits
  <2>6. \A r \in b.ins : ~Hits(d, r)
    BY <2>1 DEF Hits, Without, SameRow
  <2>7. \A r \in c.ins : r \in d.ins \/ \E s \in b.del \cup b.ins : SameRow(r, s)
    BY <2>1 DEF Without
  <2> QED
    BY <1>0, <1>2, <2>0, <2>1, <2>2, <2>3, <2>4, <2>5, <2>6, <2>7 DEF d
<1> QED
  BY <1>0, <1>1, <1>2

LEMMA ConcernsLess ==
    ASSUME NEW c, NEW d, d.del \subseteq c.del, d.ins \subseteq c.ins, d.fdel \subseteq c.fdel, d.fins \subseteq c.fins,
           NEW i, Concerns(d, i)
    PROVE  Concerns(c, i)
  BY DEF Concerns, Houses

LEMMA ApplyLate ==
    ASSUME TInv, LateInv, NEW b \in Batches, Fits(b), Apply(b), clock' \in Times, clock <= clock'
    PROVE  LateInv'
<1>0. /\ late \in SUBSET Batches /\ late' = {Superseded(c, b) : c \in late \ {b}} /\ clock \in Int /\ clock' \in Int
      /\ \A c \in Batches : c.at \in Int
  BY DEF TInv, TablesOK, Apply, Times, Batches
<1>1. \A d \in late' : d.at <= clock'
  <2> SUFFICES ASSUME NEW c \in late PROVE Superseded(c, b).at <= clock'
    BY <1>0
  <2>1. Superseded(c, b).at = c.at
    BY <1>0, Left
  <2> QED
    BY <1>0, <2>1 DEF LateInv
<1>2. \A d, e \in late' : d.at = e.at => d = e
  <2> SUFFICES ASSUME NEW c \in late, NEW g \in late, Superseded(c, b).at = Superseded(g, b).at
               PROVE  Superseded(c, b) = Superseded(g, b)
    BY <1>0
  <2>1. Superseded(c, b).at = c.at /\ Superseded(g, b).at = g.at
    BY <1>0, Left
  <2>2. c = g
    BY <2>1 DEF LateInv
  <2> QED
    BY <2>2
<1>3. \A d \in late' : \A i \in Items : i \in d.pend => Houses(d, i)
  <2> SUFFICES ASSUME NEW c \in late \ {b}, NEW i \in Items, i \in Superseded(c, b).pend
               PROVE  Houses(Superseded(c, b), i)
    BY <1>0
  <2> DEFINE d == Superseded(c, b)
  <2>1. i \in c.pend /\ Houses(c, i) /\ Touches(c, i)
    <3>1. d.pend \subseteq c.pend
      BY <1>0, Left
    <3> QED
      BY <3>1 DEF LateInv, Touches
  <2>2. CASE c.at > b.at
    <3>1. d = c
      BY <1>0, <2>2, Left
    <3> QED
      BY <2>1, <3>1
  <2>3. CASE c.at <= b.at
    <3>1. ~Touches(b, i)
      BY <1>0, <2>3, Left
    <3>2. ~Concerns(b, i)
      BY <2>1, <2>3, <3>1 DEF Fits
    <3>3. /\ \A r \in c.ins : r \in d.ins \/ \E s \in b.del \cup b.ins : SameRow(r, s)
          /\ \A f \in c.fins : f \in d.fins \/ f \in b.fdel
      BY <1>0, <2>3, Left
    <3>4. \A r \in c.ins : r.item = i => r \in d.ins
      BY <3>2, <3>3 DEF Concerns, Houses, SameRow
    <3>5. \A f \in c.fins : f.item = i => f \in d.fins
      BY <3>2, <3>3 DEF Concerns
    <3> HIDE DEF d
    <3>6. Houses(d, i)
      BY <2>1, <3>4, <3>5 DEF Houses
    <3> QED
      BY <3>6 DEF d
  <2> QED
    BY <1>0, <2>2, <2>3
<1>4. \A d, e \in late' : \A i \in Items : d.at < e.at /\ Concerns(e, i) /\ ~Touches(e, i) => ~Touches(d, i)
  <2> SUFFICES ASSUME NEW c \in late \ {b}, NEW g \in late \ {b}, NEW i \in Items,
                      Superseded(c, b).at < Superseded(g, b).at, Concerns(Superseded(g, b), i), ~Touches(Superseded(g, b), i)
               PROVE  ~Touches(Superseded(c, b), i)
    BY <1>0
  <2> DEFINE d == Superseded(c, b)
             e == Superseded(g, b)
  <2>1. /\ d.at = c.at /\ e.at = g.at /\ d.pend \subseteq c.pend /\ d.unpend \subseteq c.unpend
        /\ e.del \subseteq g.del /\ e.ins \subseteq g.ins /\ e.fdel \subseteq g.fdel /\ e.fins \subseteq g.fins
    BY <1>0, Left
  <2>2. c.at < g.at /\ Concerns(g, i)
    BY <2>1, ConcernsLess
  <2>3. CASE ~Touches(g, i)
    <3>1. ~Touches(c, i)
      BY <2>2, <2>3 DEF LateInv
    <3> QED
      BY <2>1, <3>1 DEF Touches
  <2>4. CASE Touches(g, i)
    <3>1. g.at <= b.at
      BY <1>0, <2>4, Left
    <3>2. Touches(b, i)
      BY <1>0, <2>4, <3>1, Left
    <3>3. c.at <= b.at
      BY <1>0, <2>2, <3>1
    <3> QED
      BY <1>0, <3>2, <3>3, Left
  <2> QED
    BY <2>3, <2>4
<1> QED
  BY <1>1, <1>2, <1>3, <1>4 DEF LateInv

\* A firm row stays firm beside what b leaves of the late batches.
LEMMA ApplyFirm ==
    ASSUME TInv, NEW b \in Batches, Fits(b), Apply(b), NEW i \in Items, i \in pending', i \in pending => Firm(i)
    PROVE  Firm(i)'
<1>0. /\ late \in SUBSET Batches /\ late' = {Superseded(c, b) : c \in late \ {b}}
      /\ queue' = Without(queue, b.del \cup b.ins) \cup b.ins
      /\ failed' = (failed \ b.fdel) \cup b.fins /\ \A c \in Batches : c.at \in Int
  BY DEF TInv, TablesOK, Apply, Batches, Times
<1>1. CASE i \in b.pend
  <2>0. Touches(b, i) /\ Houses(b, i)
    BY <1>1 DEF Fits, Touches
  <2>1. ASSUME NEW r \in b.ins, r.item = i PROVE FirmRow(r, i)'
    <3> SUFFICES ASSUME NEW c \in late \ {b}, Hits(Superseded(c, b), r) PROVE Touches(Superseded(c, b), i)
      BY <1>0, <2>1 DEF FirmRow
    <3>1. c.at > b.at
      BY <1>0, Left
    <3>2. Superseded(c, b) = c
      BY <1>0, <3>1, Left
    <3>3. Concerns(c, i)
      BY <2>1, <3>2 DEF Hits, Concerns, SameRow
    <3> QED
      BY <2>0, <3>1, <3>2, <3>3 DEF Fits
  <2>2. ASSUME NEW f \in b.fins, f.item = i PROVE FirmFailed(f, i)'
    <3> SUFFICES ASSUME NEW c \in late \ {b}, f \in Superseded(c, b).fdel PROVE Touches(Superseded(c, b), i)
      BY <1>0, <2>2 DEF FirmFailed
    <3>1. c.at > b.at
      BY <1>0, Left
    <3>2. Superseded(c, b) = c
      BY <1>0, <3>1, Left
    <3>3. Concerns(c, i)
      BY <2>2, <3>2 DEF Concerns
    <3> QED
      BY <2>0, <3>1, <3>2, <3>3 DEF Fits
  <2> QED
    BY <1>0, <2>0, <2>1, <2>2 DEF Houses, Firm
<1>2. CASE i \notin b.pend
  <2>0. ~Touches(b, i) /\ Firm(i)
    BY <1>2 DEF Apply, Touches
  <2>1. ASSUME NEW c \in late \ {b}, Touches(c, i) PROVE Touches(Superseded(c, b), i)
    BY <1>0, <2>0, <2>1, Left
  <2>2. ASSUME NEW r \in queue, FirmRow(r, i) PROVE Firm(i)'
    <3>0. ~Hits(b, r) /\ r.item = i
      BY <2>0, <2>2 DEF Fits, FirmRow
    <3>1. ASSUME NEW s \in b.ins, SameRow(r, s) PROVE Firm(i)'
      <4>1. FirmRow(s, i)'
        <5> SUFFICES ASSUME NEW c \in late \ {b}, Hits(Superseded(c, b), s) PROVE Touches(Superseded(c, b), i)
          BY <1>0, <3>0, <3>1 DEF FirmRow, SameRow
        <5>1. c.at > b.at
          BY <1>0, Left
        <5>2. Superseded(c, b) = c
          BY <1>0, <5>1, Left
        <5>3. Hits(c, r)
          BY <3>1, <5>2 DEF Hits, SameRow
        <5> QED
          BY <2>2, <5>2, <5>3 DEF FirmRow
      <4> QED
        BY <1>0, <4>1 DEF Firm
    <3>2. CASE \A s \in b.ins : ~SameRow(r, s)
      <4>1. r \in queue'
        BY <1>0, <3>0, <3>2 DEF Without, Hits
      <4>2. FirmRow(r, i)'
        <5> SUFFICES ASSUME NEW c \in late \ {b}, Hits(Superseded(c, b), r) PROVE Touches(Superseded(c, b), i)
          BY <1>0, <3>0 DEF FirmRow
        <5>1. Hits(c, r)
          BY <1>0, Left
        <5>2. Touches(c, i)
          BY <2>2, <5>1 DEF FirmRow
        <5> QED
          BY <2>1, <5>2
      <4> QED
        BY <4>1, <4>2 DEF Firm
    <3> QED
      BY <3>1, <3>2
  <2>3. ASSUME NEW f \in failed, FirmFailed(f, i) PROVE Firm(i)'
    <3>0. f \in failed' /\ f.item = i
      BY <1>0, <2>0, <2>3 DEF Fits, FirmFailed
    <3>1. FirmFailed(f, i)'
      <4> SUFFICES ASSUME NEW c \in late \ {b}, f \in Superseded(c, b).fdel PROVE Touches(Superseded(c, b), i)
        BY <1>0, <3>0 DEF FirmFailed
      <4>1. f \in c.fdel
        BY <1>0, Left
      <4>2. Touches(c, i)
        BY <2>3, <4>1 DEF FirmFailed
      <4> QED
        BY <2>1, <4>2
    <3> QED
      BY <3>0, <3>1 DEF Firm
  <2> QED
    BY <2>0, <2>2, <2>3 DEF Firm
<1> QED
  BY <1>1, <1>2

LEMMA ApplyLInv ==
    ASSUME TInv, LInv, NEW b \in Batches, Fits(b), Apply(b), clock' \in Times, clock <= clock', pending' \in SUBSET Items
    PROVE  LInv'
<1>1. LateInv'
  BY ApplyLate DEF LInv
<1>2. \A i \in pending' : Firm(i)'
  BY ApplyFirm DEF LInv
<1> QED
  BY <1>1, <1>2 DEF LInv

\* A new batch is newer than all others, and whole.
LEMMA NewFits ==
    ASSUME TInv, LInv, NEW b \in Batches, b.at = clock + 1, Whole(b)
    PROVE  Fits(b)
<1>0. late \in SUBSET Batches /\ clock \in Int /\ \A c \in late : c.at \in Int /\ c.at <= clock
  BY DEF TInv, TablesOK, LInv, LateInv, Batches, Times
<1>1. \A i \in Items : ~Touches(b, i) => ~Concerns(b, i) /\ (i \in b.pend => Houses(b, i))
  BY DEF Whole
<1>2. \A i \in Items : ~Touches(b, i) => /\ \A r \in queue : FirmRow(r, i) => ~Hits(b, r)
                                         /\ \A f \in failed : FirmFailed(f, i) => f \notin b.fdel
  BY <1>1 DEF FirmRow, FirmFailed, Concerns, Hits, SameRow
<1>3. \A c \in late : ~(c.at > b.at)
  BY <1>0
<1> QED
  BY <1>1, <1>2, <1>3 DEF Fits, Whole

LEMMA LateFits ==
    ASSUME TInv, LInv, NEW b \in late
    PROVE  Fits(b)
<1>0. late \in SUBSET Batches /\ \A c \in late : c.at \in Int
  BY DEF TInv, TablesOK, Batches, Times
<1>1. ASSUME NEW c \in late \ {b}, NEW i \in Items, c.at <= b.at, Concerns(b, i), ~Touches(b, i) PROVE ~Touches(c, i)
  <2>1. c.at < b.at
    BY <1>0, <1>1 DEF LInv, LateInv
  <2> QED
    BY <1>1, <2>1 DEF LInv, LateInv
<1>2. ASSUME NEW c \in late \ {b}, NEW i \in Items, c.at > b.at, Concerns(c, i), ~Touches(c, i) PROVE ~Touches(b, i)
  <2>1. b.at < c.at
    BY <1>0, <1>2
  <2> QED
    BY <1>2, <2>1 DEF LInv, LateInv
<1>3. \A i \in Items : i \in b.pend => Houses(b, i)
  BY DEF LInv, LateInv
<1>4. \A i \in Items : ~Touches(b, i) => /\ \A r \in queue : FirmRow(r, i) => ~Hits(b, r)
                                         /\ \A f \in failed : FirmFailed(f, i) => f \notin b.fdel
  BY DEF FirmRow, FirmFailed
<1> QED
  BY <1>1, <1>2, <1>3, <1>4 DEF Fits

LEMMA AcceptLInv ==
    ASSUME QueueAssumption, TInv, LInv, NEW b \in Batches, Accepted(b)
    PROVE  LInv'
<1>0. clock \in Int /\ clock' \in Times /\ clock' = clock + 1 /\ b.at = clock + 1 /\ Whole(b) /\ TablesOK'
  <2>1. TablesOK'
    BY AcceptedType
  <2>2. Stamp /\ b.at = clock' /\ Whole(b)
    BY DEF Accepted
  <2> QED
    BY <2>1, <2>2, StampTimes DEF TInv, Times
<1>1. CASE Apply(b)
  <2>1. clock <= clock' /\ pending' \in SUBSET Items /\ Fits(b)
    BY <1>0, NewFits DEF TablesOK
  <2> QED
    BY <1>0, <1>1, <2>1, ApplyLInv
<1>2. CASE UNCHANGED tables /\ late' \in {late, late \cup {b}}
  <2>0. late \in SUBSET Batches /\ (\A c \in late : c.at \in Int /\ c.at <= clock) /\ pending' = pending /\ pending \in SUBSET Items
        /\ queue' = queue /\ failed' = failed
    BY <1>2 DEF TInv, TablesOK, LInv, LateInv, Batches, Times, tables
  <2>1. \A c \in late' : c.at <= clock'
    BY <1>0, <1>2, <2>0
  <2>2. \A c, d \in late' : c.at = d.at => c = d
    BY <1>0, <1>2, <2>0 DEF LInv, LateInv
  <2>3. \A c \in late' : \A i \in Items : i \in c.pend => Houses(c, i)
    BY <1>0, <1>2 DEF LInv, LateInv, Whole
  <2>4. ASSUME NEW c \in late', NEW d \in late', NEW i \in Items, c.at < d.at, Concerns(d, i), ~Touches(d, i)
        PROVE  ~Touches(c, i)
    <3>1. d # b
      BY <1>0, <2>4 DEF Whole
    <3>2. d \in late /\ c # b
      BY <1>0, <1>2, <2>0, <2>4, <3>1
    <3> QED
      BY <1>2, <2>4, <3>2 DEF LInv, LateInv
  <2>5. ASSUME NEW i \in pending PROVE Firm(i)'
    <3>0. i \in Items /\ Firm(i)
      BY <2>0 DEF LInv
    <3>1. \A r : r.item = i /\ Hits(b, r) => Touches(b, i)
      BY <1>0, <3>0 DEF Whole, Concerns, Hits, SameRow
    <3>2. \A f : f.item = i /\ f \in b.fdel => Touches(b, i)
      BY <1>0, <3>0 DEF Whole, Concerns
    <3>3. ASSUME NEW r \in queue, FirmRow(r, i) PROVE FirmRow(r, i)'
      BY <1>2, <3>1, <3>3 DEF FirmRow
    <3>4. ASSUME NEW f \in failed, FirmFailed(f, i) PROVE FirmFailed(f, i)'
      BY <1>2, <3>2, <3>4 DEF FirmFailed
    <3> QED
      BY <2>0, <3>0, <3>3, <3>4 DEF Firm
  <2>6. LateInv'
    BY <2>1, <2>2, <2>3, <2>4 DEF LateInv
  <2> QED
    BY <2>0, <2>5, <2>6 DEF LInv
<1> QED
  BY <1>1, <1>2 DEF Accepted, Lost

LEMMA AsideLInv ==
    ASSUME QueueAssumption, TInv, LInv, NEW x \in Threads, Aside(x)
    PROVE  LInv'
<1> DEFINE Same(d, c) == /\ d.at = c.at /\ d.del = c.del /\ d.ins = c.ins /\ d.fdel = c.fdel
                         /\ d.fins = c.fins /\ d.pend = c.pend /\ d.unpend = c.unpend
<1>0. /\ late \in SUBSET Batches /\ clock \in Int /\ clock' \in Int /\ clock <= clock' /\ UNCHANGED <<queue, failed, pending>>
      /\ Unmarks
  BY DEF Aside, TInv, TablesOK, Times
<1>1. \A d \in late' : \E c \in late : Same(d, c)
  <2>1. \A c \in Batches : \A d \in Unmarked(c) : Same(d, c)
    BY DEF Unmarked, Batches
  <2> HIDE DEF Same
  <2> QED
    BY <1>0, <2>1, UnmarksEach
<1>2. \A d, e \in late' : d.at = e.at => d = e
  <2> DEFINE A(c) == [c EXCEPT !.act = 0]
             M(c) == [c EXCEPT !.mark = 0]
             B(c) == [c EXCEPT !.act = 0, !.mark = 0]
  <2>1. \A c \in late : A(c).at = c.at /\ M(c).at = c.at /\ B(c).at = c.at
    BY <1>0 DEF Batches
  <2>2. \A c, d \in late : c.at = d.at => c = d
    BY DEF LInv, LateInv
  <2>3. late' = late \/ late' = {A(c) : c \in late} \/ late' = {M(c) : c \in late} \/ late' = {B(c) : c \in late}
    BY <1>0 DEF Unmarks
  <2> HIDE DEF A, M, B
  <2>4. CASE late' = late
    BY <2>2, <2>4
  <2>5. CASE late' = {A(c) : c \in late}
    BY <2>1, <2>2, <2>5
  <2>6. CASE late' = {M(c) : c \in late}
    BY <2>1, <2>2, <2>6
  <2>7. CASE late' = {B(c) : c \in late}
    BY <2>1, <2>2, <2>7
  <2> QED
    BY <2>3, <2>4, <2>5, <2>6, <2>7
<1>3. ASSUME NEW d, NEW c, Same(d, c), NEW i
      PROVE  /\ Touches(d, i) = Touches(c, i) /\ Houses(d, i) = Houses(c, i) /\ Concerns(d, i) = Concerns(c, i)
             /\ \A r : Hits(d, r) = Hits(c, r)
  BY <1>3 DEF Touches, Houses, Concerns, Hits
<1>4. \A d \in late' : d.at <= clock'
  <2>1. \A c \in late : c.at \in Int /\ c.at <= clock
    BY <1>0 DEF LInv, LateInv, Batches, Times
  <2> QED
    BY <1>0, <1>1, <2>1
<1>5. ASSUME NEW d \in late', NEW i \in Items, i \in d.pend PROVE Houses(d, i)
  BY <1>1, <1>3, <1>5 DEF LInv, LateInv
<1>6. ASSUME NEW d \in late', NEW e \in late', NEW i \in Items, d.at < e.at, Concerns(e, i), ~Touches(e, i)
      PROVE  ~Touches(d, i)
  <2>1. PICK c \in late, g \in late : Same(d, c) /\ Same(e, g)
    BY <1>1
  <2>2. c.at < g.at /\ Concerns(g, i) /\ ~Touches(g, i)
    BY <1>3, <1>6, <2>1
  <2>3. ~Touches(c, i)
    BY <2>2 DEF LInv, LateInv
  <2> QED
    BY <1>3, <2>1, <2>3
<1>7. ASSUME NEW i \in pending PROVE Firm(i)'
  <2>1. ASSUME NEW r \in queue, FirmRow(r, i) PROVE FirmRow(r, i)'
    <3> SUFFICES ASSUME NEW d \in late', Hits(d, r) PROVE Touches(d, i)
      BY <2>1 DEF FirmRow
    <3>1. PICK c \in late : Same(d, c)
      BY <1>1
    <3> HIDE DEF Same
    <3> QED
      BY <1>3, <2>1, <3>1 DEF FirmRow
  <2>2. ASSUME NEW f \in failed, FirmFailed(f, i) PROVE FirmFailed(f, i)'
    <3> SUFFICES ASSUME NEW d \in late', f \in d.fdel PROVE Touches(d, i)
      BY <2>2 DEF FirmFailed
    <3>1. PICK c \in late : Same(d, c)
      BY <1>1
    <3>2. f \in c.fdel
      BY <3>1
    <3> HIDE DEF Same
    <3> QED
      BY <1>3, <2>2, <3>1, <3>2 DEF FirmFailed
  <2>3. Firm(i)
    BY DEF LInv
  <2> QED
    BY <1>0, <2>1, <2>2, <2>3 DEF Firm
<1>8. LateInv'
  BY <1>2, <1>4, <1>5, <1>6 DEF LateInv
<1> QED
  BY <1>0, <1>7, <1>8 DEF LInv

LEMMA NextLInv == QueueAssumption /\ TInv /\ LInv /\ [Next]_vars => LInv'
<1> SUFFICES ASSUME QueueAssumption, TInv, LInv, [Next]_vars PROVE LInv'
  OBVIOUS
<1>1. CASE UNCHANGED vars
  BY <1>1 DEF vars, LInv, LateInv, Firm, FirmRow, FirmFailed
<1>2. ASSUME NEW b \in late, ReplayBatch(b) PROVE LInv'
  <2>1. TInv'
    BY <1>2, NextTInv DEF Next
  <2>2. b \in Batches /\ Apply(b) /\ clock' = clock /\ clock \in Int
    BY <1>2 DEF TInv, TablesOK, ReplayBatch, Times
  <2>3. clock' \in Times /\ clock <= clock' /\ pending' \in SUBSET Items
    BY <2>1, <2>2 DEF TInv, TablesOK
  <2> QED
    BY <2>2, <2>3, LateFits, ApplyLInv
<1>3. ASSUME NEW x \in Threads, Takes(x) PROVE LInv'
  BY <1>3, AsideLInv, AcceptLInv DEF Takes
<1> QED
  BY <1>1, <1>2, <1>3, StepCases

\* A pending row never stands for nothing: its item is in the queue or in the dead letter queue,
\* for any number of workers, producers and admins whose calls overlap, on one or several
\* instances, and with batches that are applied after their caller gave up.
THEOREM NothingLost == QueueAssumption => (Spec => []NotLost)
<1> SUFFICES ASSUME QueueAssumption
             PROVE  Spec => []NotLost
  OBVIOUS
<1>1. Init => TInv /\ LInv
  BY InitTInv DEF Init, LInv, LateInv
<1>2. TInv /\ LInv /\ [Next]_vars => TInv' /\ LInv'
  BY NextTInv, NextLInv
<1>3. LInv => NotLost
  BY DEF LInv, Firm, FirmRow, FirmFailed, NotLost, InQueue, InDLQ
<1> QED
  BY <1>1, <1>2, <1>3, PTL DEF Spec

-----------------------------------------------------------------------------
(***************************************************************************)
(* Rows are found                                                          *)
(***************************************************************************)
\* While there are rows the organisation is active, and with a time that the workers about to
\* remove the marker do not find old.
FindInv ==
    /\ late = {} /\ (queue # {} => active # 0)
    /\ \A x \in Threads : /\ w[x].before <= clock /\ w[x].pc # "take back"
                          /\ w[x].pc = "remove" /\ queue # {} => active >= w[x].before

\* Where RowsFound is claimed.
Plain == ~Late /\ "take back" \notin Ops

LEMMA NextFind ==
    ASSUME QueueAssumption, Plain, TInv, FindInv, [Next]_vars
    PROVE  FindInv'
<1>1. CASE UNCHANGED vars
  BY <1>1 DEF vars, FindInv
<1>2. ASSUME NEW x \in Threads, Takes(x) PROVE FindInv'
  <2>0. /\ clock \in Int /\ active \in Int /\ (\A y \in Threads : w[y].before \in Int) /\ clock' \in Int
        /\ clock' = clock \/ clock' = clock + 1
    <3>1. clock' \in Times
      BY <1>2, AsideType, AcceptedType DEF Takes
    <3>2. clock' = clock \/ clock' = clock + 1
      BY <1>2 DEF Takes, Aside, Accepted, Stamp
    <3>3. \A y \in Threads : w[y].before \in Times
      BY MindOf
    <3> QED
      BY <3>1, <3>2, <3>3 DEF TInv, TablesOK, Times
  <2>1. /\ \A y \in Threads \ {x} : w'[y] = w[y]
        /\ w'[x].pc = "remove" => queue = {} /\ queue' = queue
        /\ w'[x].pc # "take back"
        /\ w'[x].before \in {0, w[x].before, clock, clock'}
    BY <1>2 DEF Takes, MindStep, Plain
  <2>1a. \A y \in Threads : /\ w[y].before <= clock /\ w[y].pc # "take back"
                            /\ w[y].pc = "remove" /\ queue # {} => active >= w[y].before
    BY DEF FindInv
  <2>2. ASSUME NEW y \in Threads PROVE w'[y].before <= clock' /\ w'[y].pc # "take back"
    <3>1. 0 <= clock'
      BY <1>2, AsideType, AcceptedType, Bounds DEF Takes, Times
    <3>2. w'[y].pc # "take back"
      BY <2>1, <2>1a
    <3>3. w[y].before \in Int /\ w[y].before <= clock /\ w'[y].before \in {0, w[y].before, clock, clock'}
      BY <2>0, <2>1, <2>1a
    <3>4. w'[y].before <= clock'
      <4> DEFINE n == w'[y].before
                 m == w[y].before
                 k == clock'
      <4>1. m \in Int /\ m <= clock /\ n \in {0, m, clock, k} /\ 0 <= k /\ (k = clock \/ k = clock + 1) /\ clock \in Int
        BY <2>0, <3>1, <3>3
      <4> HIDE DEF n, m, k
      <4>2. n <= k
        BY <4>1
      <4> QED
        BY <4>2 DEF n, k
    <3> QED
      BY <3>2, <3>4
  <2>3. CASE Aside(x)
    <3>1. late' = {} /\ queue' = queue
      BY <2>3 DEF Aside, Unmarks, FindInv
    <3>2. CASE active' = active
      BY <2>0, <2>1, <2>2, <3>1, <3>2 DEF FindInv
    <3>3. CASE active' = clock' /\ clock' = clock + 1
      <4>1. clock' # 0
        BY <2>3, <3>3, Bounds DEF TInv, Times
      <4>2. ASSUME NEW y \in Threads \ {x} PROVE active' >= w'[y].before
        <5>1. w'[y] = w[y] /\ w[y].before \in Int /\ w[y].before <= clock
          BY <2>0, <2>1, <2>1a
        <5> QED
          BY <2>0, <3>3, <5>1
      <4> QED
        BY <2>1, <2>2, <3>1, <3>3, <4>1, <4>2 DEF FindInv
    <3>4. CASE w[x].pc = "remove" /\ active < w[x].before
      <4>1. queue # {} => active >= w[x].before
        BY <2>1a, <3>4
      <4>2. queue = {}
        BY <2>0, <3>4, <4>1
      <4> QED
        BY <2>2, <3>1, <4>2 DEF FindInv
    <3> QED
      BY <2>3, <3>2, <3>3, <3>4 DEF Aside
  <2>4. ASSUME NEW b \in Batches, Accepted(b) PROVE FindInv'
    <3>0. clock' = clock + 1 /\ clock' # 0 /\ (b.act = clock' \/ (b.act = 0 /\ b.ins = {})) /\ Lost(b)
      BY <2>4, StampTimes DEF Accepted, FindInv
    <3>1. late' = {}
      BY <3>0 DEF Lost, Apply, FindInv, Plain
    <3>2. CASE UNCHANGED <<queue, active>>
      BY <2>0, <2>1, <2>2, <3>1, <3>2 DEF FindInv
    <3>3. CASE Apply(b) /\ b.act = clock'
      <4>1. active' = clock'
        BY <3>0, <3>3 DEF Apply
      <4>2. ASSUME NEW y \in Threads \ {x} PROVE active' >= w'[y].before
        <5>1. w'[y] = w[y] /\ w[y].before \in Int /\ w[y].before <= clock
          BY <2>0, <2>1, <2>1a
        <5> QED
          BY <2>0, <3>0, <4>1, <5>1
      <4>3. w'[x].pc = "remove" => queue' = {}
        BY <2>1
      <4> QED
        BY <2>2, <3>0, <3>1, <4>1, <4>2, <4>3 DEF FindInv
    <3>4. CASE Apply(b) /\ b.act = 0 /\ b.ins = {}
      <4>1. active' = active /\ queue' \subseteq queue
        BY <3>4 DEF Apply, Without
      <4> QED
        BY <2>0, <2>1, <2>2, <3>1, <4>1 DEF FindInv
    <3> QED
      BY <3>0, <3>2, <3>3, <3>4 DEF Lost, tables
  <2> QED
    BY <1>2, <2>3, <2>4 DEF Takes
<1> QED
  BY <1>1, <1>2, StepCases DEF FindInv

\* Where no batch comes late and nothing is taken back from the dead letter queue, a live row is
\* found by the next pass, whatever workers, producers and deletions overlap.
THEOREM RowsFound == QueueAssumption /\ ~Late /\ "take back" \notin Ops => (Spec => []QueueFindable)
<1> SUFFICES ASSUME QueueAssumption, Plain
             PROVE  Spec => []QueueFindable
  BY DEF Plain
<1>1. Init => TInv /\ FindInv
  <2> SUFFICES ASSUME Init PROVE FindInv
    BY InitTInv
  <2>1. Idle.before = 0 /\ Idle.pc = "idle"
    BY DEF Idle
  <2>2. \A x \in Threads : w[x].before <= clock /\ w[x].pc = "idle"
    BY <2>1 DEF Init
  <2> QED
    BY <2>2 DEF Init, FindInv
<1>2. TInv /\ FindInv /\ [Next]_vars => TInv' /\ FindInv'
  BY NextTInv, NextFind
<1>3. FindInv => QueueFindable
  BY DEF FindInv, QueueFindable
<1> QED
  BY <1>1, <1>2, <1>3, PTL DEF Spec
=============================================================================
