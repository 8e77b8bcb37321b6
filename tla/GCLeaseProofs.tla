--------------------------- MODULE GCLeaseProofs ---------------------------
(***************************************************************************)
(* A fresh leader owns the row, for any number of instances, any renewal   *)
(* interval, any bound on a statement and any number of lost answers and   *)
(* crashes (GCLease).                                                      *)
(*                                                                         *)
(* Nothing is assumed of how long a call takes.  The argument is about the *)
(* heartbeat: as long as the one an instance wrote last is younger than    *)
(* two renewals, the row is its own and carries that heartbeat, from the   *)
(* moment the statement is applied, before its answer sets the flag        *)
(* (LeaderInv).  A takeover is of a heartbeat read as stale (CallInv), and *)
(* the row is never older than its heartbeat (RowInv), so neither an admin *)
(* of another instance nor the TTL takes it away.  DrainInv says what a    *)
(* stopping service still waits for: without it the claim of an admin      *)
(* could set the flag of a service that has released the row.              *)
(***************************************************************************)
EXTENDS GCLease, TLAPS

Lives == {"down", "starting", "running", "stopping"}
Phases == {"idle", "claim", "takeover", "mutate"}
Services == [life : Lives, flag : BOOLEAN, beat : Nat, since : Nat, due : BOOLEAN, call : [Threads -> Calls],
             admin : Phases, pass : BOOLEAN, drained : BOOLEAN]

-----------------------------------------------------------------------------
(***************************************************************************)
(* The inductive invariant, as predicates of one service.                  *)
(***************************************************************************)
\* A heartbeat is stamped before it is written.
RowInv == row.age <= row.beat

\* Only a heartbeat that was read as stale is taken over.
CallInv(s) ==
    \A t \in Threads : /\ s.call[t].pc = "idle" => s.call[t].did = "nothing"
                       /\ s.call[t].pc = "take" => s.call[t].beat >= 2 * Renewal

\* Who is in a call, and that a service releases the lease and is down only when nothing of it is under way.
DrainInv(s) ==
    /\ s.call["admin"].pc # "idle" => s.admin \in {"claim", "takeover"}
    /\ s.admin # "idle" => s.life \in {"running", "stopping"} /\ ~s.drained
    /\ s.drained => s.life = "stopping"
    /\ s.pass \/ s.due => s.life \in {"running", "stopping"}
    /\ s.call["renew"].pc = "release" => s.drained /\ ~s.pass /\ ~s.due
    /\ s.life = "down" => ~s.flag /\ s.call["renew"].pc = "idle"

\* The instance's belief, or a statement that was applied and not answered yet, and no release begun.
Claims(s) == (s.flag \/ \E t \in Threads : s.call[t].did = "applied") /\ s.call["renew"].pc # "release"

\* While its heartbeat is young, the row of an instance that claims it is its own and has that heartbeat.
LeaderInv(i, s, r) == Claims(s) /\ s.beat < 2 * Renewal => r.owner = i /\ r.beat = s.beat

LInv ==
    /\ TypeOK /\ RowInv
    /\ \A i \in Instances : CallInv(svc[i]) /\ DrainInv(svc[i]) /\ LeaderInv(i, svc[i], row)

-----------------------------------------------------------------------------
(***************************************************************************)
(* A step of one service keeps the invariant when the new service has its  *)
(* part of it and the row changes only where it is nobody else's fresh one.*)
(***************************************************************************)
LEMMA OneService ==
    ASSUME LeaseAssumption, LInv, NEW i \in Instances, NEW s \in Services,
           svc' = [svc EXCEPT ![i] = s],
           CallInv(s), DrainInv(s), LeaderInv(i, s, row'),
           row' \in Rows, row'.age <= row'.beat, faults' \in 0..MaxFaults,
           row' = row \/ row = NoRow \/ row.owner = i \/ row.beat >= 2 * Renewal
    PROVE  LInv'
<1>1. svc \in [Instances -> Services]
  BY DEF LInv, TypeOK, Services, Lives, Phases
<1>2. svc' \in [Instances -> Services] /\ svc'[i] = s /\ \A j \in Instances \ {i} : svc'[j] = svc[j]
  BY <1>1
<1>3. TypeOK'
  BY <1>2 DEF TypeOK, Services, Lives, Phases
<1>4. RowInv'
  BY DEF RowInv
<1>5. ASSUME NEW j \in Instances
      PROVE  CallInv(svc'[j]) /\ DrainInv(svc'[j]) /\ LeaderInv(j, svc'[j], row')
  <2>1. CASE j = i
    BY <2>1, <1>2
  <2>2. CASE j # i
    <3>1. svc'[j] = svc[j]
      BY <1>2, <2>2
    <3>2. CallInv(svc[j]) /\ DrainInv(svc[j]) /\ LeaderInv(j, svc[j], row)
      BY DEF LInv
    <3>3. NoRow.owner # j /\ row.beat \in Nat /\ svc[j].beat \in Nat /\ Renewal \in Nat
      BY <1>1 DEF NoRow, LeaseAssumption, LInv, TypeOK, Rows, Services
    <3>4. LeaderInv(j, svc[j], row')
      BY <2>2, <3>2, <3>3 DEF LeaderInv
    <3> QED
      BY <3>1, <3>2, <3>4
  <2> QED
    BY <2>1, <2>2
<1> QED
  BY <1>3, <1>4, <1>5 DEF LInv

\* What the invariant says of one service.
LEMMA ServiceFacts ==
    ASSUME LeaseAssumption, LInv, NEW i \in Instances
    PROVE  /\ svc[i] \in Services /\ svc \in [Instances -> Services]
           /\ CallInv(svc[i]) /\ DrainInv(svc[i]) /\ LeaderInv(i, svc[i], row)
           /\ row \in Rows /\ row.age \in Nat /\ row.beat \in Nat /\ row.age <= row.beat /\ faults \in 0..MaxFaults
           /\ Renewal \in Nat /\ TTL \in Nat /\ QueryTime \in Nat /\ TTL = 3 * Renewal /\ Renewal > 0
           /\ \A t \in Threads : svc[i].call[t] \in Calls
           /\ svc[i].call \in [Threads -> Calls] /\ svc[i].beat \in Nat
  BY DEF LInv, TypeOK, RowInv, Services, Lives, Phases, LeaseAssumption, Rows

LEMMA CallFacts ==
    ASSUME LeaseAssumption
    PROVE  /\ Idle \in Calls /\ NoRow \in Rows /\ Idle.pc = "idle" /\ Idle.did = "nothing"
           /\ \A p \in {"insert", "read", "take", "release"} :
                Calling(p) \in Calls /\ Calling(p).pc = p /\ Calling(p).did = "nothing"
           /\ "admin" \in Threads /\ "renew" \in Threads
  BY DEF Idle, NoRow, Calls, Rows, Owners, Calling, Threads

-----------------------------------------------------------------------------
(***************************************************************************)
(* The steps of the lease.                                                 *)
(***************************************************************************)
\* A statement that is applied writes the time stamp of its call in a row that is free, its own or stale.
LEMMA WriteInv ==
    ASSUME LeaseAssumption, LInv, NEW i \in Instances, NEW t \in Threads,
           svc[i].call[t].pc \in {"insert", "update", "take"},
           svc' = [svc EXCEPT ![i] = Wrote(svc[i], t)], Writes(i, t), faults' = faults,
           row = NoRow \/ row.owner = i \/ row.beat >= 2 * Renewal
    PROVE  LInv'
<1> DEFINE s == Wrote(svc[i], t)
<1>0. svc[i].call[t].age \in Nat
  BY ServiceFacts DEF Calls
<1>1. /\ s.flag = svc[i].flag /\ s.life = svc[i].life /\ s.due = svc[i].due /\ s.beat = svc[i].call[t].age
      /\ s.admin = svc[i].admin /\ s.pass = svc[i].pass /\ s.drained = svc[i].drained
      /\ s.call[t] = [svc[i].call[t] EXCEPT !.did = "applied"] /\ \A u \in Threads \ {t} : s.call[u] = svc[i].call[u]
  BY ServiceFacts DEF Wrote, Services
<1>2. [svc[i].call[t] EXCEPT !.did = "applied"] \in Calls
  BY ServiceFacts DEF Calls
<1>3. s \in Services
  BY <1>0, <1>2, ServiceFacts DEF Wrote, Services
<1>4. \A u \in Threads : /\ s.call[u].pc = svc[i].call[u].pc /\ s.call[u].beat = svc[i].call[u].beat
                         /\ s.call[u].did = IF u = t THEN "applied" ELSE svc[i].call[u].did
  BY <1>1, ServiceFacts DEF Calls
<1>5. row' = [owner |-> i, beat |-> svc[i].call[t].age, age |-> 0]
  BY DEF Writes
<1>6. row' \in Rows /\ row'.owner = i /\ row'.beat = svc[i].call[t].age /\ row'.age <= row'.beat
  BY <1>0, <1>5 DEF Rows, Owners
<1> HIDE DEF s
<1>7. CallInv(svc[i]) /\ DrainInv(svc[i])
  BY ServiceFacts
<1>8. CallInv(s)
  BY <1>4, <1>7 DEF CallInv
<1>9. DrainInv(s)
  BY <1>1, <1>4, <1>7 DEF DrainInv, Threads
<1>10. LeaderInv(i, s, row')
  BY <1>1, <1>6 DEF LeaderInv
<1> QED
  BY <1>3, <1>6, <1>8, <1>9, <1>10, OneService, ServiceFacts DEF s

\* A step that leaves the row, the flag, the heartbeat and the release alone, and has nothing applied.
LEMMA QuietService ==
    ASSUME LeaseAssumption, LInv, NEW i \in Instances, NEW s \in Services,
           svc' = [svc EXCEPT ![i] = s], row' = row, faults' \in 0..MaxFaults,
           s.flag => svc[i].flag, s.beat = svc[i].beat,
           svc[i].call["renew"].pc = "release" => s.call["renew"].pc = "release",
           \A t \in Threads : s.call[t].did = "applied" => svc[i].call[t].did = "applied",
           CallInv(s), DrainInv(s)
    PROVE  LInv'
<1>1. LeaderInv(i, svc[i], row)
  BY ServiceFacts
<1>2. LeaderInv(i, s, row')
  BY <1>1 DEF LeaderInv, Claims
<1> QED
  BY <1>2, OneService, ServiceFacts

\* A call that goes on from one statement to the next, or whose statement is refused.
LEMMA RefusedInv ==
    ASSUME LeaseAssumption, LInv, NEW i \in Instances, NEW t \in Threads, NEW c \in Calls,
           svc[i].call[t].pc \in {"insert", "update", "take"}, svc[i].call[t].did = "nothing",
           c.pc \in {"update", svc[i].call[t].pc}, c.did \in {"nothing", "refused"}, c.beat = svc[i].call[t].beat,
           svc' = [svc EXCEPT ![i].call[t] = c], row' = row, faults' = faults
    PROVE  LInv'
<1> DEFINE s == [svc[i] EXCEPT !.call[t] = c]
<1>1. svc' = [svc EXCEPT ![i] = s]
  BY ServiceFacts DEF Services
<1>2. /\ s.flag = svc[i].flag /\ s.life = svc[i].life /\ s.due = svc[i].due /\ s.beat = svc[i].beat
      /\ s.admin = svc[i].admin /\ s.pass = svc[i].pass /\ s.drained = svc[i].drained
      /\ s.call[t] = c /\ \A u \in Threads \ {t} : s.call[u] = svc[i].call[u]
  BY ServiceFacts DEF Services
<1>3. s \in Services
  BY ServiceFacts DEF Services
<1> HIDE DEF s
<1>4. CallInv(svc[i]) /\ DrainInv(svc[i])
  BY ServiceFacts
<1>5. CallInv(s)
  BY <1>2, <1>4 DEF CallInv
<1>6. DrainInv(s)
  BY <1>2, <1>4 DEF DrainInv, Threads
<1>7. svc[i].call["renew"].pc = "release" => s.call["renew"].pc = "release"
  BY <1>2 DEF Threads
<1>8. \A u \in Threads : s.call[u].did = "applied" => svc[i].call[u].did = "applied"
  BY <1>2
<1> QED
  BY <1>1, <1>2, <1>3, <1>5, <1>6, <1>7, <1>8, QuietService, ServiceFacts

LEMMA InsertInv ==
    ASSUME LeaseAssumption, LInv, NEW i \in Instances, NEW t \in Threads, Insert(i, t)
    PROVE  LInv'
<1>1. CASE row = NoRow
  BY <1>1, WriteInv DEF Insert, At
<1>2. CASE row # NoRow
  <2> DEFINE c == [svc[i].call[t] EXCEPT !.pc = "update"]
  <2>1. c \in Calls /\ c.pc = "update" /\ c.did = svc[i].call[t].did /\ c.beat = svc[i].call[t].beat
    BY ServiceFacts DEF Calls
  <2>2. svc' = [svc EXCEPT ![i].call[t] = c]
    BY <1>2, ServiceFacts DEF Insert, Services, Calls
  <2> HIDE DEF c
  <2> QED
    BY <1>2, <2>1, <2>2, RefusedInv DEF Insert, At
<1> QED
  BY <1>1, <1>2

LEMMA UpdateInv ==
    ASSUME LeaseAssumption, LInv, NEW i \in Instances, NEW t \in Threads, Update(i, t)
    PROVE  LInv'
<1>1. CASE row.owner = i
  BY <1>1, WriteInv DEF Update, At
<1>2. CASE row.owner # i
  <2> DEFINE c == [svc[i].call[t] EXCEPT !.did = "refused"]
  <2>1. c \in Calls /\ c.pc = svc[i].call[t].pc /\ c.did = "refused" /\ c.beat = svc[i].call[t].beat
    BY ServiceFacts DEF Calls
  <2>2. svc' = [svc EXCEPT ![i].call[t] = c]
    BY <1>2, ServiceFacts DEF Update, Services, Calls
  <2> HIDE DEF c
  <2> QED
    BY <1>2, <2>1, <2>2, RefusedInv DEF Update, At
<1> QED
  BY <1>1, <1>2

LEMMA TakeInv ==
    ASSUME LeaseAssumption, LInv, NEW i \in Instances, Take(i)
    PROVE  LInv'
<1> DEFINE c0 == svc[i].call["admin"]
           same == row # NoRow /\ row.owner = c0.owner /\ row.beat = c0.beat
<1>0. c0 \in Calls /\ c0.pc = "take" /\ c0.did = "nothing" /\ "admin" \in Threads
  BY ServiceFacts, CallFacts DEF Take, At
<1>1. CASE same
  <2>1. row.beat >= 2 * Renewal
    BY <1>0, <1>1, ServiceFacts DEF CallInv
  <2> QED
    BY <1>0, <1>1, <2>1, WriteInv DEF Take
<1>2. CASE ~same
  <2> DEFINE c == [svc[i].call["admin"] EXCEPT !.did = "refused"]
  <2>1. c \in Calls /\ c.pc = "take" /\ c.did = "refused" /\ c.beat = svc[i].call["admin"].beat
    BY <1>0 DEF Calls
  <2>2. svc' = [svc EXCEPT ![i].call["admin"] = c] /\ row' = row /\ faults' = faults
    BY <1>0, <1>2, ServiceFacts DEF Take, Services, Calls
  <2> HIDE DEF c
  <2> QED
    BY <1>0, <2>1, <2>2, RefusedInv
<1> QED
  BY <1>1, <1>2

(***************************************************************************)
(* The end of a call: the instance leads if its statement was applied.     *)
(***************************************************************************)
LEMMA EndsInv ==
    ASSUME LeaseAssumption, LInv, NEW i \in Instances, NEW t \in Threads, NEW s \in Services,
           svc[i].call[t].pc \in {"insert", "update", "read", "take"},
           svc' = [svc EXCEPT ![i] = s], row' = row, faults' \in 0..MaxFaults,
           s.flag => svc[i].flag \/ svc[i].call[t].did = "applied",
           s.life = (IF svc[i].life = "starting" THEN "running" ELSE svc[i].life),
           s.due = svc[i].due, s.beat = svc[i].beat, s.pass = svc[i].pass, s.drained = svc[i].drained,
           s.call[t] = Idle, \A u \in Threads \ {t} : s.call[u] = svc[i].call[u],
           s.admin = svc[i].admin \/ (s.admin = "idle" /\ t = "admin")
    PROVE  LInv'
<1>3. CallInv(svc[i]) /\ DrainInv(svc[i]) /\ LeaderInv(i, svc[i], row) /\ Idle.pc = "idle" /\ Idle.did = "nothing"
  BY ServiceFacts, CallFacts
<1>4. CallInv(s)
  BY <1>3 DEF CallInv
<1>5. DrainInv(s)
  <2>1. CASE t = "admin"
    <3>1. s.call["admin"] = Idle /\ s.call["renew"] = svc[i].call["renew"]
      BY <2>1 DEF Threads
    <3>2. svc[i].call["admin"].pc # "idle"
      BY <2>1
    <3> QED
      BY <1>3, <2>1, <3>1, <3>2 DEF DrainInv
  <2>2. CASE t = "renew"
    <3>1. s.call["renew"] = Idle /\ s.call["admin"] = svc[i].call["admin"]
      BY <2>2 DEF Threads
    <3>2. svc[i].call["renew"].pc # "idle"
      BY <2>2
    <3> QED
      BY <1>3, <2>2, <3>1, <3>2 DEF DrainInv
  <2> QED
    BY <2>1, <2>2 DEF Threads
<1>6. Claims(s) => Claims(svc[i])
  BY <1>3 DEF Claims, Threads
<1>7. LeaderInv(i, s, row')
  BY <1>3, <1>6 DEF LeaderInv
<1> QED
  BY <1>4, <1>5, <1>7, OneService, ServiceFacts

\* What a service is when its call t has ended, but for the flag and the admin's phase.
Ended(s0, t, x) ==
    /\ x \in Services
    /\ x.life = (IF s0.life = "starting" THEN "running" ELSE s0.life)
    /\ x.due = s0.due /\ x.beat = s0.beat /\ x.pass = s0.pass /\ x.drained = s0.drained
    /\ x.call[t] = Idle /\ \A u \in Threads \ {t} : x.call[u] = s0.call[u]

LEMMA EndsFields ==
    ASSUME LeaseAssumption, LInv, NEW i \in Instances, NEW t \in Threads
    PROVE  LET s == Ends(svc[i], t, svc[i].call[t].did = "applied")
               e == Ends(svc[i], t, svc[i].flag /\ svc[i].call[t].pc = "read")
               g == [e EXCEPT !.admin = "idle"]
           IN  /\ s.flag = (svc[i].call[t].did = "applied") /\ s.admin = svc[i].admin /\ Ended(svc[i], t, s)
               /\ e.flag = (svc[i].flag /\ svc[i].call[t].pc = "read") /\ e.admin = svc[i].admin /\ Ended(svc[i], t, e)
               /\ g.flag = (svc[i].flag /\ svc[i].call[t].pc = "read") /\ g.admin = "idle" /\ Ended(svc[i], t, g)
<1> DEFINE s == Ends(svc[i], t, svc[i].call[t].did = "applied")
           e == Ends(svc[i], t, svc[i].flag /\ svc[i].call[t].pc = "read")
           g == [e EXCEPT !.admin = "idle"]
<1>1. s.flag = (svc[i].call[t].did = "applied") /\ s.admin = svc[i].admin /\ Ended(svc[i], t, s)
  BY ServiceFacts, CallFacts DEF Ends, Services, Lives, Ended
<1>2. e.flag = (svc[i].flag /\ svc[i].call[t].pc = "read") /\ e.admin = svc[i].admin /\ Ended(svc[i], t, e)
  BY ServiceFacts, CallFacts DEF Ends, Services, Lives, Ended
<1>3. g.flag = e.flag /\ g.admin = "idle" /\ Ended(svc[i], t, g)
  <2> HIDE DEF e
  <2> QED
    BY <1>2 DEF Services, Phases, Ended
<1> QED
  BY <1>1, <1>2, <1>3

LEMMA AnswerInv ==
    ASSUME LeaseAssumption, LInv, NEW i \in Instances, NEW t \in Threads, Answer(i, t)
    PROVE  LInv'
<1> DEFINE s == Ends(svc[i], t, svc[i].call[t].did = "applied")
<1>1. /\ svc' = [svc EXCEPT ![i] = s] /\ row' = row /\ faults' \in 0..MaxFaults
      /\ svc[i].call[t].pc \in {"insert", "update", "take"}
  BY ServiceFacts DEF Answer
<1>2. (s.flag => svc[i].call[t].did = "applied") /\ s.admin = svc[i].admin /\ Ended(svc[i], t, s)
  BY EndsFields
<1> HIDE DEF s
<1> QED
  BY <1>1, <1>2, EndsInv DEF Ended

LEMMA LeaseErrorInv ==
    ASSUME LeaseAssumption, LInv, NEW i \in Instances, NEW t \in Threads, LeaseError(i, t)
    PROVE  LInv'
<1>1. faults' \in 0..MaxFaults
  BY DEF LeaseError, Fault, LInv, TypeOK, LeaseAssumption
<1> DEFINE e == Ends(svc[i], t, svc[i].flag /\ svc[i].call[t].pc = "read")
           g == [e EXCEPT !.admin = "idle"]
           s == IF t = "admin" /\ svc[i].admin = "takeover" THEN g ELSE e
<1>2. svc' = [svc EXCEPT ![i] = s] /\ row' = row /\ svc[i].call[t].pc \in {"insert", "update", "read", "take"}
  BY DEF LeaseError
<1>3. /\ s.flag => svc[i].flag
      /\ s.admin = svc[i].admin \/ (s.admin = "idle" /\ t = "admin")
      /\ Ended(svc[i], t, s)
  BY EndsFields
<1> HIDE DEF s
<1> QED
  BY <1>1, <1>2, <1>3, EndsInv DEF Ended

\* A step of the admin's request: its phase changes, and its call ends or another begins.
LEMMA AdminInv ==
    ASSUME LeaseAssumption, LInv, NEW i \in Instances, NEW c \in Calls, NEW admin \in Phases,
           svc' = [svc EXCEPT ![i] = [svc[i] EXCEPT !.admin = admin, !.call["admin"] = c]],
           row' = row, faults' = faults,
           c = svc[i].call["admin"] \/ c.did = "nothing",
           c.pc = "idle" => c.did = "nothing",
           c.pc = "take" => c.beat >= 2 * Renewal,
           c.pc # "idle" => admin \in {"claim", "takeover"},
           svc[i].admin # "idle" \/ (svc[i].life = "running")
    PROVE  LInv'
<1> DEFINE s == [svc[i] EXCEPT !.admin = admin, !.call["admin"] = c]
<1>1. /\ s.flag = svc[i].flag /\ s.life = svc[i].life /\ s.due = svc[i].due /\ s.beat = svc[i].beat
      /\ s.admin = admin /\ s.pass = svc[i].pass /\ s.drained = svc[i].drained
      /\ s.call["admin"] = c /\ s.call["renew"] = svc[i].call["renew"]
  BY ServiceFacts DEF Services, Threads
<1>2. s \in Services
  BY ServiceFacts DEF Services, Threads
<1> HIDE DEF s
<1>3. CallInv(svc[i]) /\ DrainInv(svc[i])
  BY ServiceFacts
<1>4. CallInv(s)
  BY <1>1, <1>3 DEF CallInv, Threads
<1>5. DrainInv(s)
  BY <1>1, <1>3 DEF DrainInv
<1>6. \A t \in Threads : s.call[t].did = "applied" => svc[i].call[t].did = "applied"
  BY <1>1 DEF Threads
<1> QED
  BY <1>1, <1>2, <1>4, <1>5, <1>6, QuietService, ServiceFacts DEF s

LEMMA TryTakeoverInv ==
    ASSUME LeaseAssumption, LInv, NEW i \in Instances, TryTakeoverIfStale(i)
    PROVE  LInv'
<1>0. /\ row' = row /\ faults' = faults /\ svc[i].call["admin"].pc = "read" /\ svc[i].admin \in {"claim", "takeover"}
  BY ServiceFacts DEF TryTakeoverIfStale, At, DrainInv
<1>1. CASE svc[i].life # "running"
  <2>1. svc' = [svc EXCEPT ![i] = [svc[i] EXCEPT !.admin = "idle", !.call["admin"] = Idle]]
    BY <1>1, ServiceFacts DEF TryTakeoverIfStale, Services
  <2>2. "idle" \in Phases
    BY DEF Phases
  <2> QED
    BY <1>0, <2>1, <2>2, AdminInv, CallFacts
<1>2. CASE svc[i].life = "running"
  <2> DEFINE c == IF row.owner \in {"none", i} THEN Calling("insert")
                  ELSE IF row.beat < 2 * Renewal THEN Idle
                  ELSE [Calling("take") EXCEPT !.owner = row.owner, !.beat = row.beat]
  <2>1. svc' = [svc EXCEPT ![i] = [svc[i] EXCEPT !.admin = svc[i].admin, !.call["admin"] = c]] /\ svc[i].admin \in Phases
    BY <1>2, ServiceFacts DEF TryTakeoverIfStale, Services
  <2>2. c \in Calls /\ c.did = "nothing" /\ (c.pc = "take" => c.beat >= 2 * Renewal)
    <3>1. row.beat \in Nat /\ row.owner \in Owners /\ Renewal \in Nat
      BY ServiceFacts DEF Rows
    <3>2. CASE row.owner \in {"none", i}
      BY <3>2, CallFacts
    <3>3. CASE row.owner \notin {"none", i} /\ row.beat < 2 * Renewal
      BY <3>3, CallFacts
    <3>4. CASE row.owner \notin {"none", i} /\ ~(row.beat < 2 * Renewal)
      <4>1. c = [Calling("take") EXCEPT !.owner = row.owner, !.beat = row.beat]
        BY <3>4
      <4>2. Calling("take") \in Calls /\ Calling("take").did = "nothing"
        BY CallFacts
      <4>3. c \in Calls /\ c.did = "nothing" /\ c.beat = row.beat
        BY <3>1, <4>1, <4>2 DEF Calls
      <4> QED
        BY <3>1, <3>4, <4>3
    <3> QED
      BY <3>2, <3>3, <3>4
  <2> HIDE DEF c
  <2> QED
    BY <1>0, <2>1, <2>2, AdminInv
<1> QED
  BY <1>1, <1>2

\* A call of the renewal thread that begins.
LEMMA RenewInv ==
    ASSUME LeaseAssumption, LInv, NEW i \in Instances, Renew(i)
    PROVE  LInv'
<1> DEFINE s == [svc[i] EXCEPT !.call["renew"] = Calling("insert"), !.due = FALSE]
<1>1. svc' = [svc EXCEPT ![i] = s] /\ row' = row /\ faults' = faults /\ svc[i].due /\ svc[i].call["renew"].pc = "idle"
  BY ServiceFacts DEF Renew, Services
<1>2. /\ s.flag = svc[i].flag /\ s.life = svc[i].life /\ s.due = FALSE /\ s.beat = svc[i].beat
      /\ s.admin = svc[i].admin /\ s.pass = svc[i].pass /\ s.drained = svc[i].drained
      /\ s.call["renew"] = Calling("insert") /\ s.call["admin"] = svc[i].call["admin"]
  BY ServiceFacts DEF Services, Threads
<1>3. s \in Services
  BY ServiceFacts, CallFacts DEF Services, Threads
<1> HIDE DEF s
<1>4. CallInv(svc[i]) /\ DrainInv(svc[i]) /\ Calling("insert").pc = "insert" /\ Calling("insert").did = "nothing"
  BY ServiceFacts, CallFacts
<1>5. CallInv(s)
  BY <1>2, <1>4 DEF CallInv, Threads
<1>6. DrainInv(s)
  BY <1>1, <1>2, <1>4 DEF DrainInv
<1>7. \A t \in Threads : s.call[t].did = "applied" => svc[i].call[t].did = "applied"
  BY <1>2, <1>4 DEF Threads
<1> QED
  BY <1>1, <1>2, <1>3, <1>5, <1>6, <1>7, QuietService, ServiceFacts

-----------------------------------------------------------------------------
(***************************************************************************)
(* The steps of the service.                                               *)
(***************************************************************************)
\* The steps that change the life, the pass or the admin's phase, and no call.
LEMMA PhaseInv ==
    ASSUME LeaseAssumption, LInv, NEW i \in Instances,
           \/ BeginPass(i) \/ EndPass(i) \/ MutationEnds(i) \/ StopWithContext(i) \/ waitForDLQDrain(i)
    PROVE  LInv'
<1>1. PICK s \in Services :
          /\ svc' = [svc EXCEPT ![i] = s]
          /\ s.call = svc[i].call /\ s.flag = svc[i].flag /\ s.beat = svc[i].beat
          /\ DrainInv(s)
  <2>1. CASE BeginPass(i)
    <3> DEFINE s == [svc[i] EXCEPT !.pass = TRUE]
    <3>1. s \in Services /\ svc' = [svc EXCEPT ![i] = s]
      BY <2>1, ServiceFacts DEF BeginPass, Services
    <3>2. /\ s.call = svc[i].call /\ s.flag = svc[i].flag /\ s.beat = svc[i].beat /\ s.life = svc[i].life
          /\ s.due = svc[i].due /\ s.admin = svc[i].admin /\ s.pass = TRUE /\ s.drained = svc[i].drained
      BY ServiceFacts DEF Services
    <3> HIDE DEF s
    <3>3. DrainInv(s)
      BY <2>1, <3>2, ServiceFacts DEF DrainInv, BeginPass
    <3> QED
      BY <3>1, <3>2, <3>3
  <2>2. CASE EndPass(i)
    <3> DEFINE s == [svc[i] EXCEPT !.pass = FALSE]
    <3>1. s \in Services /\ svc' = [svc EXCEPT ![i] = s]
      BY <2>2, ServiceFacts DEF EndPass, Services
    <3>2. /\ s.call = svc[i].call /\ s.flag = svc[i].flag /\ s.beat = svc[i].beat /\ s.life = svc[i].life
          /\ s.due = svc[i].due /\ s.admin = svc[i].admin /\ s.pass = FALSE /\ s.drained = svc[i].drained
      BY ServiceFacts DEF Services
    <3> HIDE DEF s
    <3>3. DrainInv(s)
      BY <2>2, <3>2, ServiceFacts DEF DrainInv, EndPass
    <3> QED
      BY <3>1, <3>2, <3>3
  <2>3. CASE MutationEnds(i)
    <3> DEFINE s == [svc[i] EXCEPT !.admin = "idle"]
    <3>1. s \in Services /\ svc' = [svc EXCEPT ![i] = s]
      BY <2>3, ServiceFacts DEF MutationEnds, Services, Phases
    <3>2. /\ s.call = svc[i].call /\ s.flag = svc[i].flag /\ s.beat = svc[i].beat /\ s.life = svc[i].life
          /\ s.due = svc[i].due /\ s.admin = "idle" /\ s.pass = svc[i].pass /\ s.drained = svc[i].drained
      BY ServiceFacts DEF Services
    <3> HIDE DEF s
    <3>3. DrainInv(s)
      BY <2>3, <3>2, ServiceFacts DEF DrainInv, MutationEnds
    <3> QED
      BY <3>1, <3>2, <3>3
  <2>4. CASE StopWithContext(i)
    <3> DEFINE s == [svc[i] EXCEPT !.life = "stopping"]
    <3>1. s \in Services /\ svc' = [svc EXCEPT ![i] = s]
      BY <2>4, ServiceFacts DEF StopWithContext, Services, Lives
    <3>2. /\ s.call = svc[i].call /\ s.flag = svc[i].flag /\ s.beat = svc[i].beat /\ s.life = "stopping"
          /\ s.due = svc[i].due /\ s.admin = svc[i].admin /\ s.pass = svc[i].pass /\ s.drained = svc[i].drained
      BY ServiceFacts DEF Services
    <3> HIDE DEF s
    <3>3. DrainInv(s)
      BY <2>4, <3>2, ServiceFacts DEF DrainInv, StopWithContext
    <3> QED
      BY <3>1, <3>2, <3>3
  <2>5. CASE waitForDLQDrain(i)
    <3> DEFINE s == [svc[i] EXCEPT !.drained = TRUE]
    <3>1. s \in Services /\ svc' = [svc EXCEPT ![i] = s]
      BY <2>5, ServiceFacts DEF waitForDLQDrain, Services
    <3>2. /\ s.call = svc[i].call /\ s.flag = svc[i].flag /\ s.beat = svc[i].beat /\ s.life = svc[i].life
          /\ s.due = svc[i].due /\ s.admin = svc[i].admin /\ s.pass = svc[i].pass /\ s.drained = TRUE
      BY ServiceFacts DEF Services
    <3> HIDE DEF s
    <3>3. DrainInv(s)
      BY <2>5, <3>2, ServiceFacts DEF DrainInv, waitForDLQDrain
    <3> QED
      BY <3>1, <3>2, <3>3
  <2> QED
    BY <2>1, <2>2, <2>3, <2>4, <2>5
<1>2. row' = row /\ faults' = faults
  BY DEF BeginPass, EndPass, MutationEnds, StopWithContext, waitForDLQDrain
<1>3. CallInv(s)
  BY <1>1, ServiceFacts DEF CallInv
<1> QED
  BY <1>1, <1>2, <1>3, QuietService, ServiceFacts

LEMMA WithDLQInv ==
    ASSUME LeaseAssumption, LInv, NEW i \in Instances, withDLQOperation(i)
    PROVE  LInv'
<1>0. /\ svc[i].admin = "idle" /\ svc[i].life = "running" /\ row' = row /\ faults' = faults
      /\ svc[i].call["admin"].pc = "idle" /\ svc[i].call["admin"].did = "nothing" /\ svc[i].call["admin"] \in Calls
  BY ServiceFacts DEF withDLQOperation, DrainInv, CallInv, Threads
<1>1. "mutate" \in Phases /\ "claim" \in Phases
  BY DEF Phases
<1>2. CASE svc[i].flag
  <2>1. svc' = [svc EXCEPT ![i] = [svc[i] EXCEPT !.admin = "mutate", !.call["admin"] = svc[i].call["admin"]]]
    BY <1>2, ServiceFacts DEF withDLQOperation, Services
  <2> QED
    BY <1>0, <1>1, <2>1, AdminInv
<1>3. CASE ~svc[i].flag
  <2>1. svc' = [svc EXCEPT ![i] = [svc[i] EXCEPT !.admin = "claim", !.call["admin"] = Calling("insert")]]
    BY <1>3 DEF withDLQOperation
  <2> QED
    BY <1>0, <1>1, <2>1, AdminInv, CallFacts
<1> QED
  BY <1>2, <1>3

LEMMA TryClaimInv ==
    ASSUME LeaseAssumption, LInv, NEW i \in Instances, tryClaimLeadershipForAdmin(i)
    PROVE  LInv'
<1>0. /\ svc[i].admin \in {"claim", "takeover"} /\ row' = row /\ faults' = faults
      /\ svc[i].call["admin"].pc = "idle" /\ svc[i].call["admin"].did = "nothing" /\ svc[i].call["admin"] \in Calls
  BY ServiceFacts DEF tryClaimLeadershipForAdmin, DrainInv, CallInv, Threads
<1>1. "mutate" \in Phases /\ "takeover" \in Phases /\ "idle" \in Phases
  BY DEF Phases
<1>2. CASE svc[i].flag
  <2>1. svc' = [svc EXCEPT ![i] = [svc[i] EXCEPT !.admin = "mutate", !.call["admin"] = svc[i].call["admin"]]]
    BY <1>2, ServiceFacts DEF tryClaimLeadershipForAdmin, Services
  <2> QED
    BY <1>0, <1>1, <2>1, AdminInv
<1>3. CASE ~svc[i].flag /\ svc[i].admin = "claim" /\ svc[i].life = "running"
  <2>1. svc' = [svc EXCEPT ![i] = [svc[i] EXCEPT !.admin = "takeover", !.call["admin"] = Calling("read")]]
    BY <1>3 DEF tryClaimLeadershipForAdmin
  <2> QED
    BY <1>0, <1>1, <2>1, AdminInv, CallFacts
<1>4. CASE ~svc[i].flag /\ ~(svc[i].admin = "claim" /\ svc[i].life = "running")
  <2>1. svc' = [svc EXCEPT ![i] = [svc[i] EXCEPT !.admin = "idle", !.call["admin"] = svc[i].call["admin"]]]
    BY <1>4, ServiceFacts DEF tryClaimLeadershipForAdmin, Services
  <2> QED
    BY <1>0, <1>1, <2>1, AdminInv
<1> QED
  BY <1>2, <1>3, <1>4

\* A service that is not started has nothing under way, and one that starts makes its first call.
LEMMA DownInv ==
    ASSUME LeaseAssumption, NEW i \in Instances, NEW r
    PROVE  LET s == [Down EXCEPT !.life = "starting", !.call["renew"] = Calling("insert")]
           IN  /\ Down \in Services /\ CallInv(Down) /\ DrainInv(Down) /\ LeaderInv(i, Down, r)
               /\ s \in Services /\ CallInv(s) /\ DrainInv(s) /\ LeaderInv(i, s, r)
<1>1. Down \in Services /\ CallInv(Down) /\ DrainInv(Down) /\ LeaderInv(i, Down, r)
  BY CallFacts DEF Down, Services, Lives, Phases, CallInv, DrainInv, LeaderInv, Claims
<1> DEFINE s == [Down EXCEPT !.life = "starting", !.call["renew"] = Calling("insert")]
<1>2. s \in Services
  BY <1>1, CallFacts DEF Services, Lives
<1>3. /\ s.flag = FALSE /\ s.life = "starting" /\ s.due = FALSE /\ s.admin = "idle" /\ s.pass = FALSE /\ s.drained = FALSE
      /\ s.call["renew"] = Calling("insert") /\ s.call["admin"] = Idle
  BY DEF Down, Threads
<1> HIDE DEF s
<1>4. CallInv(s) /\ DrainInv(s) /\ LeaderInv(i, s, r)
  BY <1>3, CallFacts DEF CallInv, DrainInv, LeaderInv, Claims, Threads
<1> QED
  BY <1>1, <1>2, <1>4 DEF s

LEMMA StartInv ==
    ASSUME LeaseAssumption, LInv, NEW i \in Instances, Start(i)
    PROVE  LInv'
<1> DEFINE s == [Down EXCEPT !.life = "starting", !.call["renew"] = Calling("insert")]
<1>1. svc' = [svc EXCEPT ![i] = s] /\ row' = row /\ faults' = faults
  BY DEF Start
<1>2. s \in Services /\ CallInv(s) /\ DrainInv(s) /\ LeaderInv(i, s, row')
  BY DownInv
<1> HIDE DEF s
<1> QED
  BY <1>1, <1>2, OneService, ServiceFacts

LEMMA FinishStopInv ==
    ASSUME LeaseAssumption, LInv, NEW i \in Instances, finishStop(i)
    PROVE  LInv'
<1> DEFINE s == [svc[i] EXCEPT !.call["renew"] = Calling("release"), !.since = 0, !.due = FALSE]
<1>1. /\ svc' = [svc EXCEPT ![i] = s] /\ row' = row /\ faults' = faults
      /\ svc[i].life = "stopping" /\ svc[i].drained /\ ~svc[i].pass
  BY ServiceFacts DEF finishStop, Services
<1>2. s \in Services
  BY ServiceFacts, CallFacts DEF Services, Threads
<1>3. /\ s.flag = svc[i].flag /\ s.life = svc[i].life /\ s.due = FALSE /\ s.beat = svc[i].beat
      /\ s.admin = svc[i].admin /\ s.pass = svc[i].pass /\ s.drained = svc[i].drained
      /\ s.call["renew"] = Calling("release") /\ s.call["admin"] = svc[i].call["admin"]
  BY ServiceFacts DEF Services, Threads
<1> HIDE DEF s
<1>4. /\ CallInv(svc[i]) /\ DrainInv(svc[i])
      /\ Calling("release").pc = "release" /\ Calling("release").did = "nothing"
  BY ServiceFacts, CallFacts
<1>5. CallInv(s)
  BY <1>3, <1>4 DEF CallInv, Threads
<1>6. DrainInv(s)
  BY <1>1, <1>3, <1>4 DEF DrainInv
<1>7. \A t \in Threads : s.call[t].did = "applied" => svc[i].call[t].did = "applied"
  BY <1>3, <1>4 DEF Threads
<1> QED
  BY <1>1, <1>2, <1>3, <1>4, <1>5, <1>6, <1>7, QuietService, ServiceFacts

LEMMA ReleaseInv ==
    ASSUME LeaseAssumption, LInv, NEW i \in Instances, Release(i)
    PROVE  LInv'
<1> DEFINE c == [svc[i].call["renew"] EXCEPT !.did = "applied"]
           s == [svc[i] EXCEPT !.call["renew"] = c]
<1>0. svc[i].call["renew"] \in Calls /\ svc[i].call["renew"].pc = "release"
  BY ServiceFacts, CallFacts DEF Release, At
<1>1. c \in Calls /\ c.pc = "release"
  BY <1>0 DEF Calls
<1>2. svc' = [svc EXCEPT ![i] = s] /\ faults' = faults /\ row' = IF row.owner = i THEN NoRow ELSE row
  BY ServiceFacts DEF Release, Services, Calls
<1> HIDE DEF c
<1>3. s \in Services
  BY <1>1, ServiceFacts DEF Services, Threads
<1>4. /\ s.flag = svc[i].flag /\ s.life = svc[i].life /\ s.due = svc[i].due
      /\ s.admin = svc[i].admin /\ s.pass = svc[i].pass /\ s.drained = svc[i].drained
      /\ s.call["renew"] = c /\ s.call["admin"] = svc[i].call["admin"]
  BY ServiceFacts DEF Services, Threads
<1> HIDE DEF s
<1>5. CallInv(svc[i]) /\ DrainInv(svc[i])
  BY ServiceFacts
<1>6. CallInv(s) /\ DrainInv(s) /\ LeaderInv(i, s, row')
  BY <1>0, <1>1, <1>4, <1>5 DEF CallInv, DrainInv, LeaderInv, Claims, Threads
<1>7. row' \in Rows /\ row'.age <= row'.beat
  BY <1>2, CallFacts, ServiceFacts DEF NoRow
<1> QED
  BY <1>2, <1>3, <1>6, <1>7, OneService, ServiceFacts

LEMMA ReleasedInv ==
    ASSUME LeaseAssumption, LInv, NEW i \in Instances, Released(i)
    PROVE  LInv'
<1> DEFINE s == [svc[i] EXCEPT !.life = "down", !.flag = FALSE, !.drained = FALSE, !.beat = 0, !.call["renew"] = Idle]
<1>1. /\ svc' = [svc EXCEPT ![i] = s] /\ row' = row /\ svc[i].call["renew"].pc = "release"
  BY ServiceFacts DEF Released, Services
<1>2. faults' \in 0..MaxFaults
  BY DEF Released, Fault, LInv, TypeOK, LeaseAssumption
<1>3. s \in Services
  BY ServiceFacts, CallFacts DEF Services, Threads, Lives
<1>4. /\ s.flag = FALSE /\ s.life = "down" /\ s.due = svc[i].due /\ s.admin = svc[i].admin /\ s.pass = svc[i].pass
      /\ s.drained = FALSE /\ s.call["renew"] = Idle /\ s.call["admin"] = svc[i].call["admin"]
  BY ServiceFacts DEF Services, Threads
<1> HIDE DEF s
<1>5. CallInv(svc[i]) /\ DrainInv(svc[i]) /\ Idle.pc = "idle" /\ Idle.did = "nothing"
  BY ServiceFacts, CallFacts
<1>6. svc[i].call["admin"].pc = "idle" /\ svc[i].call["admin"].did = "nothing" /\ svc[i].admin = "idle"
  BY <1>1, <1>5 DEF CallInv, DrainInv, Threads
<1>7. CallInv(s) /\ DrainInv(s)
  BY <1>1, <1>4, <1>5, <1>6 DEF CallInv, DrainInv, Threads
<1>8. LeaderInv(i, s, row')
  BY <1>4, <1>5, <1>6 DEF LeaderInv, Claims, Threads
<1> QED
  BY <1>1, <1>2, <1>3, <1>7, <1>8, OneService, ServiceFacts

\* The row and what the others have read of it keep their heartbeat when their owner dies.
LEMMA CrashInv ==
    ASSUME LeaseAssumption, LInv, NEW i \in Instances, Crash(i)
    PROVE  LInv'
<1>1. faults' \in 0..MaxFaults /\ row' = [row EXCEPT !.owner = Died(i, row.owner)]
  BY DEF Crash, Fault, LInv, TypeOK, LeaseAssumption
<1>2. \A o \in Owners : Died(i, o) \in Owners /\ (o # i => Died(i, o) = o)
  BY DEF Died, Owners
<1>3. row' \in Rows /\ row'.age <= row'.beat /\ row'.beat = row.beat /\ row'.owner = Died(i, row.owner)
  BY <1>1, <1>2, ServiceFacts DEF Rows
<1>4. DOMAIN svc' = Instances /\ svc' = [j \in Instances |-> svc'[j]]
  BY DEF Crash
<1>5. ASSUME NEW j \in Instances
      PROVE  svc'[j] \in Services /\ CallInv(svc'[j]) /\ DrainInv(svc'[j]) /\ LeaderInv(j, svc'[j], row')
  <2>1. CASE j = i
    BY <2>1, DownInv DEF Crash
  <2>2. CASE j # i
    <3> DEFINE c == [svc[j].call["admin"] EXCEPT !.owner = Died(i, svc[j].call["admin"].owner)]
               s == [svc[j] EXCEPT !.call["admin"] = c]
    <3>1. svc'[j] = s
      BY <2>2, ServiceFacts DEF Crash, Services, Calls, Threads
    <3>2. svc[j].call["admin"] \in Calls /\ "admin" \in Threads
      BY ServiceFacts DEF Threads
    <3>3. c \in Calls /\ c.pc = svc[j].call["admin"].pc /\ c.did = svc[j].call["admin"].did
          /\ c.beat = svc[j].call["admin"].beat
      BY <3>2, <1>2 DEF Calls
    <3> HIDE DEF c
    <3>4. s \in Services
      BY <3>2, <3>3, ServiceFacts DEF Services
    <3>5. /\ s.flag = svc[j].flag /\ s.life = svc[j].life /\ s.beat = svc[j].beat /\ s.due = svc[j].due
          /\ s.admin = svc[j].admin /\ s.pass = svc[j].pass /\ s.drained = svc[j].drained
          /\ s.call["renew"] = svc[j].call["renew"] /\ s.call["admin"] = c
      BY ServiceFacts DEF Services, Threads
    <3> HIDE DEF s
    <3>6. CallInv(svc[j]) /\ DrainInv(svc[j]) /\ LeaderInv(j, svc[j], row) /\ row.owner \in Owners
      BY ServiceFacts DEF Rows
    <3>7. CallInv(s) /\ DrainInv(s)
      BY <3>3, <3>5, <3>6 DEF CallInv, DrainInv, Threads
    <3>8. Claims(s) => Claims(svc[j])
      BY <3>3, <3>5 DEF Claims, Threads
    <3>9. LeaderInv(j, s, row')
      BY <1>2, <1>3, <2>2, <3>5, <3>6, <3>8 DEF LeaderInv
    <3> QED
      BY <3>1, <3>4, <3>7, <3>9
  <2> QED
    BY <2>1, <2>2
<1>6. svc' \in [Instances -> Services]
  BY <1>4, <1>5
<1>7. TypeOK'
  BY <1>1, <1>3, <1>6 DEF TypeOK, Services, Lives, Phases
<1> QED
  BY <1>3, <1>5, <1>7 DEF LInv, RowInv

\* A call that is older by one tick.
LEMMA OlderCall ==
    ASSUME NEW c \in Calls
    PROVE  /\ Older(c) \in Calls /\ Older(c).pc = c.pc /\ Older(c).did = c.did
           /\ c.beat \in Nat /\ Older(c).beat \in Nat /\ Older(c).beat >= c.beat
<1>1. c.age \in Nat /\ c.beat \in Nat
  BY DEF Calls
<1>2. CASE c.pc = "idle"
  BY <1>1, <1>2 DEF Older
<1>3. CASE c.pc # "idle"
  <2> DEFINE b == IF c.pc = "take" THEN c.beat + 1 ELSE c.beat
  <2>1. Older(c) = [c EXCEPT !.age = c.age + 1, !.beat = b]
    BY <1>3 DEF Older, Calls
  <2>2. b \in Nat /\ b >= c.beat
    BY <1>1
  <2> HIDE DEF b
  <2>3. c.age + 1 \in Nat
    BY <1>1
  <2> QED
    BY <1>1, <2>1, <2>2, <2>3 DEF Calls
<1> QED
  BY <1>2, <1>3

LEMMA TickInv ==
    ASSUME LeaseAssumption, LInv, Tick
    PROVE  LInv'
<1>1. row' = IF row = NoRow \/ row.age + 1 = TTL THEN NoRow ELSE [row EXCEPT !.age = @ + 1, !.beat = @ + 1]
  BY DEF Tick
<1>0. row \in Rows /\ row.age \in Nat /\ row.beat \in Nat /\ row.age <= row.beat
      /\ TTL \in Nat /\ Renewal \in Nat /\ TTL = 3 * Renewal /\ QueryTime \in Nat
      /\ Renewal > 0 /\ faults \in 0..MaxFaults
  BY DEF LInv, TypeOK, RowInv, Rows, LeaseAssumption
<1>2. row' \in Rows /\ row'.age <= row'.beat
  <2>1. NoRow \in Rows /\ NoRow.age = 0 /\ NoRow.beat = 0
    BY CallFacts DEF NoRow
  <2>2. CASE row = NoRow \/ row.age + 1 = TTL
    BY <1>1, <2>1, <2>2
  <2>3. CASE ~(row = NoRow \/ row.age + 1 = TTL)
    <3>1. row' = [row EXCEPT !.age = row.age + 1, !.beat = row.beat + 1]
      BY <1>1, <2>3
    <3>2. row.age + 1 \in Nat /\ row.beat + 1 \in Nat /\ row.age + 1 <= row.beat + 1
      BY <1>0
    <3>3. row' \in Rows /\ row'.age = row.age + 1 /\ row'.beat = row.beat + 1
      BY <1>0, <3>1, <3>2 DEF Rows
    <3> QED
      BY <3>2, <3>3
  <2> QED
    BY <2>2, <2>3
<1>3. ASSUME NEW i \in Instances
      PROVE  svc'[i] \in Services /\ CallInv(svc'[i]) /\ DrainInv(svc'[i]) /\ LeaderInv(i, svc'[i], row')
  <2> DEFINE s0 == svc[i]
             call == [t \in Threads |-> Older(s0.call[t])]
             beat == IF ~s0.flag /\ \A t \in Threads : s0.call[t].did # "applied" THEN 0
                     ELSE IF s0.beat < VeryOld THEN s0.beat + 1 ELSE s0.beat
             since == IF ~Ticks(s0) THEN s0.since ELSE IF s0.since + 1 < Renewal THEN s0.since + 1 ELSE 0
             due == s0.due \/ (Ticks(s0) /\ s0.since + 1 >= Renewal)
             s == [s0 EXCEPT !.call = call, !.beat = beat, !.since = since, !.due = due]
  <2>0. s0 \in Services /\ s0.beat \in Nat /\ s0.since \in Nat /\ s0.due \in BOOLEAN
    BY ServiceFacts DEF Services
  <2>1. svc'[i] = s
    BY <2>0 DEF Tick, LaterService, Services
  <2>2. CallInv(s0) /\ DrainInv(s0) /\ LeaderInv(i, s0, row)
    BY ServiceFacts
  <2>3. VeryOld \in Nat /\ VeryOld >= 2 * Renewal
    BY <1>0 DEF VeryOld
  <2>4. beat \in Nat /\ since \in Nat /\ due \in BOOLEAN
    BY <2>0, <2>3
  <2>5. ASSUME NEW t \in Threads
        PROVE  /\ call[t] \in Calls /\ call[t].pc = s0.call[t].pc /\ call[t].did = s0.call[t].did
               /\ call[t].beat >= s0.call[t].beat /\ call[t].beat \in Nat /\ s0.call[t].beat \in Nat
    BY ServiceFacts, OlderCall
  <2>6. call \in [Threads -> Calls]
    BY <2>5
  <2>a. (s0.flag \/ \E t \in Threads : s0.call[t].did = "applied") /\ beat < 2 * Renewal => beat = s0.beat + 1
    BY <1>0, <2>0, <2>3
  <2>b. due => s0.due \/ (s0.life \in {"running", "stopping"} /\ s0.call["renew"].pc # "release")
    BY DEF Ticks
  <2> HIDE DEF call, beat, since, due
  <2>7. s \in Services
    BY <2>0, <2>4, <2>6 DEF Services
  <2>8. /\ s.flag = s0.flag /\ s.life = s0.life /\ s.due = due /\ s.beat = beat
        /\ s.admin = s0.admin /\ s.pass = s0.pass /\ s.drained = s0.drained /\ s.call = call
    BY <2>0 DEF Services
  <2> HIDE DEF s
  <2>9. CallInv(s)
    <3> SUFFICES ASSUME NEW t \in Threads
                 PROVE  /\ call[t].pc = "idle" => call[t].did = "nothing"
                        /\ call[t].pc = "take" => call[t].beat >= 2 * Renewal
      BY <2>8 DEF CallInv
    <3>1. /\ s0.call[t].pc = "idle" => s0.call[t].did = "nothing"
          /\ s0.call[t].pc = "take" => s0.call[t].beat >= 2 * Renewal
      BY <2>2 DEF CallInv
    <3> QED
      BY <1>0, <2>5, <3>1
  <2>10. DrainInv(s)
    BY <2>2, <2>5, <2>8, <2>b DEF DrainInv, Threads
  <2>11. LeaderInv(i, s, row')
    <3> SUFFICES ASSUME Claims(s), beat < 2 * Renewal
                 PROVE  row'.owner = i /\ row'.beat = beat
      BY <2>8 DEF LeaderInv
    <3>1. Claims(s0)
      BY <2>5, <2>8 DEF Claims, Threads
    <3>2. beat = s0.beat + 1
      BY <3>1, <2>a DEF Claims
    <3>3. s0.beat < 2 * Renewal
      BY <1>0, <2>0, <3>2
    <3>4. row.owner = i /\ row.beat = s0.beat
      BY <2>2, <3>1, <3>3 DEF LeaderInv
    <3>5. row # NoRow
      BY <3>4 DEF NoRow, LeaseAssumption
    <3>6. row.age + 1 # TTL
      BY <1>0, <2>0, <3>2, <3>4
    <3>7. row' = [row EXCEPT !.age = row.age + 1, !.beat = row.beat + 1]
      BY <1>1, <3>5, <3>6
    <3> QED
      BY <1>0, <3>2, <3>4, <3>7 DEF Rows
  <2> QED
    BY <2>1, <2>7, <2>9, <2>10, <2>11
<1>4. svc' \in [Instances -> Services]
  BY <1>3 DEF Tick
<1>5. TypeOK'
  BY <1>0, <1>2, <1>4 DEF TypeOK, Services, Lives, Phases, Tick
<1> QED
  BY <1>2, <1>3, <1>5 DEF LInv, RowInv

-----------------------------------------------------------------------------
LEMMA InitLInv == LeaseAssumption /\ Init => LInv
<1> SUFFICES ASSUME LeaseAssumption, Init
             PROVE  LInv
  OBVIOUS
<1>1. row \in Rows /\ row.age <= row.beat /\ faults \in 0..MaxFaults
  BY CallFacts DEF Init, NoRow, LeaseAssumption
<1>2. \A i \in Instances : svc[i] = Down
  BY DEF Init
<1>3. svc \in [Instances -> Services]
  BY DownInv DEF Init
<1>4. \A i \in Instances : CallInv(svc[i]) /\ DrainInv(svc[i]) /\ LeaderInv(i, svc[i], row)
  BY <1>2, DownInv
<1> QED
  BY <1>1, <1>3, <1>4 DEF LInv, TypeOK, RowInv, Services, Lives, Phases

LEMMA NextLInv == LeaseAssumption /\ LInv /\ [Next]_vars => LInv'
<1> SUFFICES ASSUME LeaseAssumption, LInv, [Next]_vars
             PROVE  LInv'
  OBVIOUS
<1>1. CASE Tick
  BY <1>1, TickInv
<1>2. ASSUME NEW i \in Instances, Lease(i)
      PROVE  LInv'
  <2>1. CASE \E t \in Threads : Insert(i, t) \/ Update(i, t) \/ Answer(i, t) \/ LeaseError(i, t)
    BY <2>1, InsertInv, UpdateInv, AnswerInv, LeaseErrorInv
  <2>2. CASE TryTakeoverIfStale(i)
    BY <2>2, TryTakeoverInv
  <2>3. CASE Take(i)
    BY <2>3, TakeInv
  <2>4. CASE Renew(i)
    BY <2>4, RenewInv
  <2> QED
    BY <1>2, <2>1, <2>2, <2>3, <2>4 DEF Lease
<1>3. ASSUME NEW i \in Instances, Service(i)
      PROVE  LInv'
  BY <1>3, StartInv, PhaseInv, WithDLQInv, TryClaimInv, FinishStopInv, ReleaseInv, ReleasedInv, CrashInv DEF Service
<1>4. CASE UNCHANGED vars
  BY <1>4 DEF vars, LInv, TypeOK, RowInv
<1> QED
  BY <1>1, <1>2, <1>3, <1>4 DEF Next

\* The inductive invariant holds in every reachable state: the type of every variable, what a takeover
\* has read, what a stopping service waits for, and that the row of a young heartbeat is its writer's.
THEOREM LeaseInvariant == LeaseAssumption => (Spec => []LInv)
<1> SUFFICES ASSUME LeaseAssumption
             PROVE  Spec => []LInv
  OBVIOUS
<1> QED
  BY InitLInv, NextLInv, PTL DEF Spec

\* However many instances run, start, stop, crash and lose answers, and however long their statements
\* take: one that believes it leads owns the row while its heartbeat is younger than two renewals, and
\* one that releases the row has no pass and no mutation running (gc/lease.go: TryAcquireOrRenew,
\* TryTakeoverIfStale, Release; gc/gc.go: finishStop).
THEOREM FreshLeader == LeaseAssumption => (Spec => [](FreshLeaderOwns /\ NoWorkAfterRelease))
<1> SUFFICES ASSUME LeaseAssumption
             PROVE  Spec => [](FreshLeaderOwns /\ NoWorkAfterRelease)
  OBVIOUS
<1>1. LInv => FreshLeaderOwns /\ NoWorkAfterRelease
  <2> SUFFICES ASSUME LInv
               PROVE  FreshLeaderOwns /\ NoWorkAfterRelease
    OBVIOUS
  <2>1. \A i \in Instances : DrainInv(svc[i]) /\ LeaderInv(i, svc[i], row)
    BY DEF LInv
  <2>2. FreshLeaderOwns
    BY <2>1 DEF FreshLeaderOwns, Believes, LeaderInv, Claims
  <2>3. NoWorkAfterRelease
    BY <2>1 DEF NoWorkAfterRelease, DrainInv
  <2> QED
    BY <2>2, <2>3
<1> QED
  BY <1>1, LeaseInvariant, PTL

\* Hence two instances believe at once only when the heartbeat of one of them is two renewals old or
\* more: the cached flag outlives the lease, and never a fresh one.
THEOREM OneFreshLeader ==
    LeaseAssumption => (Spec => [](\A i, j \in Instances :
        Believes(i) /\ Believes(j) /\ i # j => svc[i].beat >= 2 * Renewal \/ svc[j].beat >= 2 * Renewal))
<1> SUFFICES ASSUME LeaseAssumption
             PROVE  Spec => [](\A i, j \in Instances :
                       Believes(i) /\ Believes(j) /\ i # j => svc[i].beat >= 2 * Renewal \/ svc[j].beat >= 2 * Renewal)
  OBVIOUS
<1>1. LInv => \A i, j \in Instances :
                  Believes(i) /\ Believes(j) /\ i # j => svc[i].beat >= 2 * Renewal \/ svc[j].beat >= 2 * Renewal
  <2> SUFFICES ASSUME LInv, NEW i \in Instances, NEW j \in Instances, Believes(i), Believes(j), i # j
               PROVE  svc[i].beat >= 2 * Renewal \/ svc[j].beat >= 2 * Renewal
    OBVIOUS
  <2>1. LeaderInv(i, svc[i], row) /\ LeaderInv(j, svc[j], row) /\ svc[i].beat \in Nat /\ svc[j].beat \in Nat /\ Renewal \in Nat
    BY ServiceFacts
  <2> QED
    BY <2>1 DEF Believes, LeaderInv, Claims
<1> QED
  BY <1>1, LeaseInvariant, PTL
=============================================================================
