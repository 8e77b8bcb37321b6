------------------------------ MODULE GCLease ------------------------------
(***************************************************************************)
(* The leader lease of the garbage collector (gc/lease.go) and the life of *)
(* the service that holds it (gc/gc.go): one row with a TTL, an instance's *)
(* cached belief that it leads, the renewal loop, the claim an admin       *)
(* request may make for it, and the shutdown that drains the work first.   *)
(* Time is kept as ages (of the heartbeat in the row, of the row, of a     *)
(* call, since the last tick): it is unbounded and the state is not.       *)
(***************************************************************************)
EXTENDS Integers

CONSTANTS Instances, Renewal, TTL, QueryTime, Admins, Passers, MaxFaults

\* leaseRenewalInterval is a third of the TTL; an admin takes a lease over after two intervals.  One
\* statement is answered or given up within QueryTime, the timeout of the driver (database.timeout),
\* and nothing relates that to the interval: 10 s by default, 25 s in config.prod.yaml, 30 s at least.
\* Admins are the instances an admin's requests come to, Passers those whose worker or scanner has work.
\* An instance id is a fresh UUID: neither the empty column nor the id of a process that died.
LeaseAssumption == /\ "none" \notin Instances /\ "dead" \notin Instances
                   /\ Renewal \in Nat \ {0}
                   /\ TTL = 3 * Renewal
                   /\ QueryTime \in Nat
                   /\ Admins \subseteq Instances /\ Passers \subseteq Instances
                   /\ MaxFaults \in Nat

Threads == {"renew", "admin"}
\* The row: beat is the age of its heartbeat, the time stamp of the call; age that of the write, for the TTL.
NoRow == [owner |-> "none", beat |-> 0, age |-> 0]
\* A call: the statement it is at, its age, what the statement did (nobody knows yet), and for a
\* takeover the owner and the heartbeat that were read.
Idle == [pc |-> "idle", age |-> 0, did |-> "nothing", owner |-> "none", beat |-> 0]
Calling(pc) == [Idle EXCEPT !.pc = pc]
Down == [life |-> "down", flag |-> FALSE, beat |-> 0, since |-> 0, due |-> FALSE, call |-> [t \in Threads |-> Idle],
         admin |-> "idle", pass |-> FALSE, drained |-> FALSE]

VARIABLES row,    \* the row of gc_leases
          svc,    \* the service of each instance; beat is the age of the heartbeat it wrote last
          faults  \* lost answers and crashes so far

vars == <<row, svc, faults>>

Owners == Instances \cup {"none", "dead"}
Rows == [owner : Owners, beat : Nat, age : Nat]
Calls == [pc : {"idle", "insert", "update", "read", "take", "release"}, age : Nat,
          did : {"nothing", "applied", "refused"}, owner : Owners, beat : Nat]

TypeOK ==
    /\ row \in Rows
    /\ svc \in [Instances -> [life : {"down", "starting", "running", "stopping"}, flag : BOOLEAN, beat : Nat,
                              since : Nat, due : BOOLEAN, call : [Threads -> Calls],
                              admin : {"idle", "claim", "takeover", "mutate"},
                              pass : BOOLEAN, drained : BOOLEAN]]
    /\ faults \in 0..MaxFaults

Init == row = NoRow /\ svc = [i \in Instances |-> Down] /\ faults = 0

Fault == faults < MaxFaults /\ faults' = faults + 1

(***************************************************************************)
(* The lease.  A call of TryAcquireOrRenew takes its time stamp, inserts   *)
(* IF NOT EXISTS and, when the row is there, updates IF the row is its own.*)
(* What a statement does and its answer are two steps: the cached flag is  *)
(* set by the answer, and other instances go on in between.                *)
(***************************************************************************)
Writes(i, t) == row' = [owner |-> i, beat |-> svc[i].call[t].age, age |-> 0]
Wrote(s, t) == [s EXCEPT !.beat = s.call[t].age, !.call[t].did = "applied"]
\* The call is over and leaves its answer in the cached flag; Start begins the loops after its call.
Ends(s, t, leads) ==
    [s EXCEPT !.flag = leads, !.call[t] = Idle, !.life = IF @ = "starting" THEN "running" ELSE @]
At(i, t, pc) == svc[i].call[t].pc = pc /\ svc[i].call[t].did = "nothing"

\* A mutant: an insert that is refused is taken for a renewal of one's own lease.
InsertAndKeep(i, t) ==
    /\ At(i, t, "insert")
    /\ row' = IF row = NoRow THEN [owner |-> i, beat |-> svc[i].call[t].age, age |-> 0] ELSE row
    /\ svc' = [svc EXCEPT ![i] = Wrote(@, t)]
    /\ UNCHANGED faults

Insert(i, t) ==
    /\ At(i, t, "insert")
    /\ \/ row = NoRow /\ Writes(i, t) /\ svc' = [svc EXCEPT ![i] = Wrote(@, t)]
       \/ row # NoRow /\ UNCHANGED row /\ svc' = [svc EXCEPT ![i].call[t].pc = "update"]
    /\ UNCHANGED faults

Update(i, t) ==
    /\ At(i, t, "update")
    /\ \/ row.owner = i /\ Writes(i, t) /\ svc' = [svc EXCEPT ![i] = Wrote(@, t)]
       \/ row.owner # i /\ UNCHANGED row /\ svc' = [svc EXCEPT ![i].call[t].did = "refused"]
    /\ UNCHANGED faults

\* A mutant: an update that is refused leaves the cached flag as it is.
AnswerKept(i, t) ==
    /\ svc[i].call[t].pc \in {"insert", "update", "take"} /\ svc[i].call[t].did # "nothing"
    /\ svc' = [svc EXCEPT ![i] = Ends(@, t, @.flag \/ @.call[t].did = "applied")]
    /\ UNCHANGED <<row, faults>>

Answer(i, t) ==
    /\ svc[i].call[t].pc \in {"insert", "update", "take"} /\ svc[i].call[t].did # "nothing"
    /\ svc' = [svc EXCEPT ![i] = Ends(@, t, @.call[t].did = "applied")]
    /\ UNCHANGED <<row, faults>>

\* The statement fails or its answer is lost: applied or not, the instance takes itself for a follower,
\* and an admin's takeover gives up.
LeaseError(i, t) ==
    /\ svc[i].call[t].pc \in {"insert", "update", "read", "take"}
    /\ Fault
    /\ svc' = [svc EXCEPT ![i] =
                 LET s == Ends(@, t, @.flag /\ @.call[t].pc = "read") IN
                 IF t = "admin" /\ @.admin = "takeover" THEN [s EXCEPT !.admin = "idle"] ELSE s]
    /\ UNCHANGED row

\* TryTakeoverIfStale reads the row: gone or its own, it acquires; fresh, it refuses; stale, it takes over.
\* A stop cancels the context of the read and of the acquire.
TryTakeoverIfStale(i) ==
    /\ At(i, "admin", "read")
    /\ svc' = [svc EXCEPT ![i] =
                 IF @.life # "running" THEN [@ EXCEPT !.call["admin"] = Idle, !.admin = "idle"]
                 ELSE [@ EXCEPT !.call["admin"] =
                         IF row.owner \in {"none", i} THEN Calling("insert")
                         ELSE IF row.beat < 2 * Renewal THEN Idle
                         ELSE [Calling("take") EXCEPT !.owner = row.owner, !.beat = row.beat]]]
    /\ UNCHANGED <<row, faults>>

\* The conditional update of a takeover: IF instance_id and heartbeat are still what was read.
Take(i) ==
    LET c == svc[i].call["admin"]
        same == row # NoRow /\ row.owner = c.owner /\ row.beat = c.beat IN
    /\ At(i, "admin", "take")
    /\ \/ same /\ Writes(i, "admin") /\ svc' = [svc EXCEPT ![i] = Wrote(@, "admin")]
       \/ ~same /\ UNCHANGED row /\ svc' = [svc EXCEPT ![i].call["admin"].did = "refused"]
    /\ UNCHANGED faults

\* runLeaseRenewalLoop: one call for each tick, the ticker keeping one tick while a call runs.
Renew(i) ==
    /\ svc[i].due /\ svc[i].call["renew"].pc = "idle"
    /\ svc' = [svc EXCEPT ![i].call["renew"] = Calling("insert"), ![i].due = FALSE]
    /\ UNCHANGED <<row, faults>>

(***************************************************************************)
(* The service.                                                            *)
(***************************************************************************)
\* Start acquires the lease before it starts the loops.
Start(i) ==
    /\ svc[i].life = "down"
    /\ svc' = [svc EXCEPT ![i] = [Down EXCEPT !.life = "starting", !.call["renew"] = Calling("insert")]]
    /\ UNCHANGED <<row, faults>>

\* A pass of the worker or of the scanner asks for the cached flag, once.
BeginPass(i) ==
    /\ i \in Passers /\ svc[i].life = "running" /\ svc[i].flag /\ ~svc[i].pass
    /\ svc' = [svc EXCEPT ![i].pass = TRUE]
    /\ UNCHANGED <<row, faults>>

EndPass(i) ==
    /\ svc[i].pass
    /\ svc' = [svc EXCEPT ![i].pass = FALSE]
    /\ UNCHANGED <<row, faults>>

\* An admin requeues or deletes a failed item: it holds the gate of DLQ operations while it is under
\* way (admin is not idle), and claims leadership if it has to.  A request that waits for the gate, and
\* one that is refused because the service does not accept work, change nothing.
withDLQOperation(i) ==
    /\ i \in Admins /\ svc[i].admin = "idle" /\ svc[i].life = "running"
    /\ svc' = [svc EXCEPT ![i] =
                 IF @.flag THEN [@ EXCEPT !.admin = "mutate"]
                 ELSE [@ EXCEPT !.admin = "claim", !.call["admin"] = Calling("insert")]]
    /\ UNCHANGED <<row, faults>>

\* tryClaimLeadershipForAdmin, after its first and after its second call: acquire, take over, give up.
\* A stop cancels the request's context, and a cancelled takeover is not tried.
tryClaimLeadershipForAdmin(i) ==
    /\ svc[i].admin \in {"claim", "takeover"} /\ svc[i].call["admin"].pc = "idle"
    /\ svc' = [svc EXCEPT ![i] =
                 IF @.flag THEN [@ EXCEPT !.admin = "mutate"]
                 ELSE IF @.admin = "claim" /\ @.life = "running"
                      THEN [@ EXCEPT !.admin = "takeover", !.call["admin"] = Calling("read")]
                      ELSE [@ EXCEPT !.admin = "idle"]]
    /\ UNCHANGED <<row, faults>>

\* The mutation commits (or its cancelled context stops it) and the gate is given back.
MutationEnds(i) ==
    /\ svc[i].admin = "mutate"
    /\ svc' = [svc EXCEPT ![i].admin = "idle"]
    /\ UNCHANGED <<row, faults>>

StopWithContext(i) ==
    /\ svc[i].life = "running"
    /\ svc' = [svc EXCEPT ![i].life = "stopping"]
    /\ UNCHANGED <<row, faults>>

\* finishStop waits for the gate once,
waitForDLQDrain(i) ==
    /\ svc[i].life = "stopping" /\ ~svc[i].drained /\ svc[i].admin = "idle"
    /\ svc' = [svc EXCEPT ![i].drained = TRUE]
    /\ UNCHANGED <<row, faults>>

\* then for the passes and the renewal loop, and releases the lease.
finishStop(i) ==
    /\ svc[i].life = "stopping" /\ svc[i].drained /\ ~svc[i].pass
    /\ svc[i].call["renew"].pc = "idle"
    /\ svc' = [svc EXCEPT ![i].call["renew"] = Calling("release"), ![i].since = 0, ![i].due = FALSE]
    /\ UNCHANGED <<row, faults>>

\* Release deletes the row IF it is its own,
Release(i) ==
    /\ At(i, "renew", "release")
    /\ row' = IF row.owner = i THEN NoRow ELSE row
    /\ svc' = [svc EXCEPT ![i].call["renew"].did = "applied"]
    /\ UNCHANGED faults

\* and is best effort: with an answer or an error, the service is stopped and leads no more.
Released(i) ==
    /\ svc[i].call["renew"].pc = "release"
    /\ \/ svc[i].call["renew"].did = "applied" /\ UNCHANGED faults
       \/ Fault
    /\ svc' = [svc EXCEPT ![i].life = "down", ![i].flag = FALSE, ![i].drained = FALSE, ![i].beat = 0,
                          ![i].call["renew"] = Idle]
    /\ UNCHANGED row

\* The process dies; the instance that follows it has another id.
Died(i, owner) == IF owner = i THEN "dead" ELSE owner
Crash(i) ==
    /\ svc[i].life # "down"
    /\ Fault
    /\ row' = [row EXCEPT !.owner = Died(i, @)]
    /\ svc' = [j \in Instances |-> IF j = i THEN Down ELSE [svc[j] EXCEPT !.call["admin"].owner = Died(i, @)]]

(***************************************************************************)
(* Time passes.  The ticker of a live instance ticks every Renewal and the *)
(* loop takes a tick at once when it is not in a call; a statement is      *)
(* answered or given up within QueryTime, so a call of two within twice    *)
(* that; the row goes when its TTL has passed.                             *)
(***************************************************************************)
Limit(pc) == IF pc = "update" THEN 2 * QueryTime ELSE QueryTime
MayTick ==
    \A i \in Instances :
        /\ svc[i].due => svc[i].call["renew"].pc # "idle"
        /\ \A t \in Threads : svc[i].call[t].pc = "idle" \/ svc[i].call[t].age < Limit(svc[i].call[t].pc)
Older(c) == IF c.pc = "idle" THEN c
            ELSE [c EXCEPT !.age = @ + 1, !.beat = IF c.pc = "take" THEN @ + 1 ELSE @]
\* The ticker runs while the loop does.
Ticks(s) == s.life \in {"running", "stopping"} /\ s.call["renew"].pc # "release"
\* No belief is this old (BeliefEnds), so an older heartbeat need not be told from it.
VeryOld == 2 * Renewal + 8 * QueryTime
LaterService(s) ==
    [s EXCEPT !.call = [t \in Threads |-> Older(s.call[t])],
              !.beat = IF ~s.flag /\ \A t \in Threads : s.call[t].did # "applied" THEN 0
                       ELSE IF @ < VeryOld THEN @ + 1 ELSE @,
              !.since = IF ~Ticks(s) THEN @ ELSE IF @ + 1 < Renewal THEN @ + 1 ELSE 0,
              !.due = @ \/ (Ticks(s) /\ s.since + 1 >= Renewal)]

\* A mutant: the row of a process that died is kept: the insert was made without a TTL.
TickForever ==
    /\ MayTick
    /\ row' = IF row = NoRow \/ row.age = TTL THEN row ELSE [row EXCEPT !.age = @ + 1, !.beat = @ + 1]
    /\ svc' = [i \in Instances |-> LaterService(svc[i])]
    /\ UNCHANGED faults

Tick ==
    /\ MayTick
    /\ row' = IF row = NoRow \/ row.age + 1 = TTL THEN NoRow ELSE [row EXCEPT !.age = @ + 1, !.beat = @ + 1]
    /\ svc' = [i \in Instances |-> LaterService(svc[i])]
    /\ UNCHANGED faults

Lease(i) == \/ \E t \in Threads : Insert(i, t) \/ Update(i, t) \/ Answer(i, t) \/ LeaseError(i, t)
            \/ TryTakeoverIfStale(i) \/ Take(i) \/ Renew(i)
Service(i) == \/ Start(i) \/ BeginPass(i) \/ EndPass(i) \/ withDLQOperation(i)
              \/ tryClaimLeadershipForAdmin(i) \/ MutationEnds(i) \/ StopWithContext(i)
              \/ waitForDLQDrain(i) \/ finishStop(i) \/ Release(i) \/ Released(i) \/ Crash(i)
Next == Tick \/ \E i \in Instances : Lease(i) \/ Service(i)

Spec == Init /\ [][Next]_vars

-----------------------------------------------------------------------------
(***************************************************************************)
(* Properties                                                              *)
(***************************************************************************)
\* The cached flag is IsLeader until the service begins to release the lease.
Believes(i) == svc[i].flag /\ svc[i].call["renew"].pc # "release"

\* An instance that believes it leads owns the row as long as the heartbeat it wrote last is younger
\* than two renewals, however long its calls take and whichever answers are lost: nobody else's insert,
\* takeover, release or expiry takes the row from it.  So two instances believe at the same time only
\* when the heartbeat of one of them is older than that.
FreshLeaderOwns ==
    \A i \in Instances : Believes(i) /\ svc[i].beat < 2 * Renewal => row.owner = i

\* And a belief comes to an end: an instance that cannot renew takes itself for a follower one renewal
\* (or one whole call, when that is longer) and three calls after the heartbeat it wrote last.
BeliefEnds ==
    \A i \in Instances : Believes(i) => svc[i].beat <= (IF Renewal < 2 * QueryTime THEN 2 * QueryTime ELSE Renewal) + 6 * QueryTime

\* What a service that gives up its lease leaves behind: nothing.  No pass and no mutation of the dead
\* letter queue runs on when finishStop releases the row to another instance.
NoWorkAfterRelease ==
    \A i \in Instances : svc[i].life = "down" \/ svc[i].call["renew"].pc = "release" => ~svc[i].pass /\ svc[i].admin # "mutate"
=============================================================================
