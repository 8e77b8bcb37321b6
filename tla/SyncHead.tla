----------------------------- MODULE SyncHead ------------------------------
(***************************************************************************)
(* The upload half of the Seafile sync protocol.  A client edits the tree  *)
(* it last saw as HEAD, uploads the commit and its objects, and asks the   *)
(* server to make the commit HEAD (PUT commit/HEAD, update-branch).  The   *)
(* server publishes it on top of its parent or, when HEAD has moved on,    *)
(* merges it; every publication stages references to the blocks, queues a  *)
(* durable repair, moves HEAD with a compare-and-set, brings counters and  *)
(* the lookup row of HEAD up to date, turns the staged references into     *)
(* permanent ones and drops the repair.  Any of these may fail, the answer *)
(* of the compare-and-set may be lost, the server may die, and the client  *)
(* asks again for the same commit.                                         *)
(*                                                                         *)
(* A commit is a number in the order of creation.  The references of a     *)
(* commit stand for those of the files it adds; counters and quotas only   *)
(* for whether their step fails.                                           *)
(***************************************************************************)
EXTENDS SyncMerge, FiniteSets

CONSTANTS
    Clients,       \* sync clients, each with one commit to publish
    Requests,      \* requests the server may work on at the same time
    Owner,         \* Owner[r]: the client that sends request r
    FirstTree,     \* the tree of the first commit
    Edits,         \* Edits[c]: what client c may make of a tree, as a set of functions from names to entries or {}
    MaxAttempts,   \* RetryAttempts()
    MaxPromotions, \* bound on how often a request is sent again
    LoseAnswers    \* may the answer of a compare-and-set be lost?

SyncAttemptsAssumption == MaxAttempts \in Nat \ {0} /\ MaxPromotions \in Nat \ {0} /\ LoseAnswers \in BOOLEAN

VARIABLES
    commits,  \* commits[i]: [parent, root, by] of the i-th commit; parent 0: none
    head,     \* libraries.head_commit_id
    lookup,   \* libraries_by_id.head_commit_id, with the admin projections written in the same batch
    objs,     \* fs_objects stored
    pub,      \* staged references, <<attempt, commit>>
    repair,   \* commits with a durable publish repair row
    refs,     \* commits whose permanent references are registered
    req,      \* req[r]: the request at the server
    answer    \* answer[r]: the last answer the client got to it

vars == <<commits, head, lookup, objs, pub, repair, refs, req, answer>>

Root(i) == commits[i].root
Parent(i) == commits[i].parent
\* The commit client c uploaded, 0 if it has not yet.
CommitOf(c) == IF \E i \in DOMAIN commits : commits[i].by = <<c>>
               THEN CHOOSE i \in DOMAIN commits : commits[i].by = <<c>> ELSE 0
Target(r) == CommitOf(Owner[r])
Idle == [pc |-> "idle", cur |-> 0, com |-> 0, att |-> 0, tries |-> 0, pend |-> FALSE, asked |-> 0]

Init ==
    /\ commits = <<[parent |-> 0, root |-> FirstTree, by |-> <<>>]>>
    /\ head = 1 /\ lookup = 1
    /\ objs = collectSyncReachableFiles(FirstTree)
    /\ pub = {} /\ repair = {} /\ refs = {1}
    /\ req = [r \in Requests |-> Idle]
    /\ answer = [r \in Requests |-> "none"]

RECURSIVE Lineage(_)
\* The commits a commit descends from, itself included.
Lineage(i) == IF i = 0 THEN {} ELSE {i} \cup Lineage(Parent(i))
syncCommitHasAncestor(i, ancestor) == ancestor # 0 /\ ancestor \in Lineage(i)
Stored(i) == collectSyncReachableFiles(Root(i)) \subseteq objs
Applied(t, e) == [n \in {m \in DOMAIN t \cup DOMAIN e : m \notin DOMAIN e \/ e[m] # {}} |->
                    IF n \in DOMAIN e THEN CHOOSE x \in e[n] : TRUE ELSE t[n]]

Stay(r, q) == req' = [req EXCEPT ![r] = q]
Answer(r, a) ==
    /\ req' = [req EXCEPT ![r] = [Idle EXCEPT !.asked = req[r].asked]]
    /\ answer' = [answer EXCEPT ![r] = a]
Own(r) == <<req[r].att, req[r].com>>
Merging(r) == req[r].com # Target(r)

-----------------------------------------------------------------------------
\* The client commits an edit of a HEAD it has seen, or of a commit that is not published yet
\* (the id is the content's, and PutCommit arbitrates it).
PutCommit(c) ==
    /\ CommitOf(c) = 0
    /\ \E p \in DOMAIN commits, e \in Edits[c] :
          /\ Applied(Root(p), e) # Root(p)
          /\ commits' = Append(commits, [parent |-> p, root |-> Applied(Root(p), e), by |-> <<c>>])
    /\ UNCHANGED <<head, lookup, objs, pub, repair, refs, req, answer>>

\* RecvFS stores the objects of a request one by one; storing one again changes nothing.
RecvFS(c) ==
    /\ CommitOf(c) # 0
    /\ \E o \in collectSyncReachableFiles(Root(CommitOf(c))) \ objs : objs' = objs \cup {o}
    /\ UNCHANGED <<commits, head, lookup, pub, repair, refs, req, answer>>

UpdateBranch(r) ==
    /\ req[r].pc = "idle" /\ Target(r) # 0 /\ answer[r] # "ok"
    /\ req[r].asked < MaxPromotions
    /\ Stay(r, [Idle EXCEPT !.pc = "head", !.asked = req[r].asked + 1])
    /\ UNCHANGED <<commits, head, lookup, objs, pub, repair, refs, answer>>

\* The loop's next turn after a lost race, or 503.
TryAgain(r) ==
    IF req[r].tries + 1 < MaxAttempts
    THEN Stay(r, [Idle EXCEPT !.pc = "head", !.asked = req[r].asked, !.tries = req[r].tries + 1]) /\ UNCHANGED answer
    ELSE Answer(r, "retry")

\* HEAD is the commit's parent: publish it as it is.
PublishOnParent(r) ==
    /\ req[r].pc = "head" /\ head = Parent(Target(r))
    /\ Stay(r, [req[r] EXCEPT !.pc = "stage", !.cur = head, !.com = Target(r)])
    /\ UNCHANGED <<commits, head, lookup, objs, pub, repair, refs, answer>>

\* HEAD is the commit already.
AlreadyHead(r) ==
    /\ req[r].pc = "head" /\ head = Target(r)
    /\ Stay(r, [req[r] EXCEPT !.pc = "idem", !.com = Target(r)])
    /\ UNCHANGED <<commits, head, lookup, objs, pub, repair, refs, answer>>

(***************************************************************************)
(* HEAD has moved on from the commit's parent: merge it with HEAD over its *)
(* parent.  Nothing new is answered at once; otherwise the merged          *)
(* directories and a merge commit are stored and published like any other. *)
(***************************************************************************)
tryAutoMerge(r) ==
    LET t == Target(r)
        merge == mergeSyncDirectoryTrees(Root(Parent(t)), Root(head), Root(t))
    IN  /\ req[r].pc = "head" /\ head \notin {t, Parent(t)}
        /\ UNCHANGED <<head, lookup, pub, repair, refs>>
        /\ \/ /\ ~syncCommitHasAncestor(head, Parent(t))
              /\ TryAgain(r) /\ UNCHANGED <<commits, objs>>
           \/ /\ syncCommitHasAncestor(head, Parent(t)) /\ ~Stored(t)
              /\ Answer(r, "error") /\ UNCHANGED <<commits, objs>>
           \/ /\ syncCommitHasAncestor(head, Parent(t)) /\ Stored(t) /\ merge = Conflict
              /\ TryAgain(r) /\ UNCHANGED <<commits, objs>>
           \/ /\ syncCommitHasAncestor(head, Parent(t)) /\ Stored(t) /\ merge = {Root(head)}
              /\ Answer(r, "ok") /\ UNCHANGED <<commits, objs>>
           \/ /\ syncCommitHasAncestor(head, Parent(t)) /\ Stored(t)
              /\ \E root \in merge \ {Root(head)} :
                    /\ commits' = Append(commits, [parent |-> head, root |-> root, by |-> <<Owner[r], "merge">>])
                    /\ objs' = objs \cup {o \in collectSyncReachableFiles(root) : o.dir}
              /\ Stay(r, [req[r] EXCEPT !.pc = "stage", !.cur = head, !.com = Len(commits) + 1])
              /\ UNCHANGED answer

\* The walk of the whole tree finds every object, and the blocks it adds get references of a fresh attempt.
stageSyncCommitBlockDelta(r) ==
    LET n == CHOOSE m \in 1..(Cardinality(pub) + 1) : <<m, req[r].com>> \notin pub
    IN  /\ req[r].pc = "stage"
        /\ \/ /\ ~Stored(req[r].com)
              /\ Answer(r, "retry") /\ UNCHANGED pub
           \/ /\ Stored(req[r].com)
              /\ pub' = pub \cup {<<n, req[r].com>>}
              /\ Stay(r, [req[r] EXCEPT !.pc = "queue", !.att = n]) /\ UNCHANGED answer
        /\ UNCHANGED <<commits, head, lookup, objs, repair, refs>>

(***************************************************************************)
(* Readiness of the blocks, the durable repair row, and the fences again.  *)
(* A failure drops this attempt's references; the repair row is shared by  *)
(* every request for the commit and is dropped only for a merge commit,    *)
(* which no other request knows.                                           *)
(***************************************************************************)
prepareSyncPublication(r) ==
    /\ req[r].pc = "queue"
    /\ \/ pub' = pub \ {Own(r)} /\ Answer(r, "retry") /\ UNCHANGED repair
       \/ /\ pub' = pub \ {Own(r)} /\ Answer(r, "retry")
          /\ repair' = IF Merging(r) THEN repair \ {req[r].com} ELSE repair \cup {req[r].com}
       \/ /\ repair' = repair \cup {req[r].com}
          /\ Stay(r, [req[r] EXCEPT !.pc = "cas"]) /\ UNCHANGED <<pub, answer>>
    /\ UNCHANGED <<commits, head, lookup, objs, refs>>

\* updateLibraryHeadWithStats: HEAD moves only from the HEAD the request read; the answer may be lost.
updateLibraryHead(r) ==
    /\ req[r].pc = "cas" /\ head = req[r].cur
    /\ \/ head' = req[r].com /\ Stay(r, [req[r] EXCEPT !.pc = "counters"]) /\ UNCHANGED answer
       \/ LoseAnswers /\ head' \in {head, req[r].com} /\ Answer(r, "retry")
    /\ UNCHANGED <<commits, lookup, objs, pub, repair, refs>>

\* Another request moved HEAD: drop what this attempt staged; its commit may be HEAD through that request.
lostHead(r) ==
    /\ req[r].pc = "cas" /\ head # req[r].cur
    /\ pub' = pub \ {Own(r)}
    /\ repair' = IF Merging(r) THEN repair \ {req[r].com} ELSE repair
    /\ IF head = Target(r)
       THEN Stay(r, [req[r] EXCEPT !.pc = "idem", !.att = 0]) /\ UNCHANGED answer
       ELSE TryAgain(r)
    /\ UNCHANGED <<commits, head, lookup, objs, refs>>

\* The storage counters; when they fail the request goes on and answers 503 at the end.
applySyncHeadPostCASMutations(r) ==
    /\ req[r].pc = "counters"
    /\ \E failed \in BOOLEAN : Stay(r, [req[r] EXCEPT !.pc = "derive", !.pend = failed])
    /\ UNCHANGED <<commits, head, lookup, objs, pub, repair, refs, answer>>

\* The lookup row gets the commit this request published, not what HEAD is by now; it may fail.
syncLibraryHeadDerivedState(r) ==
    /\ req[r].pc = "derive"
    /\ \/ lookup' = req[r].com /\ Stay(r, [req[r] EXCEPT !.pc = "finalize"])
       \/ UNCHANGED lookup /\ Stay(r, [req[r] EXCEPT !.pc = "finalize", !.pend = TRUE])
    /\ UNCHANGED <<commits, head, objs, pub, repair, refs, answer>>

\* A mutant: a failed registration of the references is passed over, and the attempt's are dropped.
finalizeIgnoresFailure(r) ==
    /\ req[r].pc = "finalize"
    /\ refs' \in {refs, refs \cup {req[r].com}} /\ pub' = pub \ {Own(r)}
    /\ Stay(r, [req[r] EXCEPT !.pc = "settle"])
    /\ UNCHANGED <<commits, head, lookup, objs, repair, answer>>

\* Permanent references, then the end of the attempt's, then of the repair row.
finalizeSyncCommitBlockDelta(r) ==
    /\ req[r].pc = "finalize"
    /\ \/ refs' = refs \cup {req[r].com} /\ pub' = pub \ {Own(r)}
          /\ Stay(r, [req[r] EXCEPT !.pc = "settle"]) /\ UNCHANGED answer
       \/ Answer(r, "retry") /\ UNCHANGED <<refs, pub>>
    /\ UNCHANGED <<commits, head, lookup, objs, repair>>

\* A row that cannot be cleared is left to the repair sweep.
settleRepairIntent(r) ==
    /\ req[r].pc = "settle"
    /\ repair' \in {repair, repair \ {req[r].com}}
    /\ Answer(r, IF req[r].pend THEN "retry" ELSE "ok")
    /\ UNCHANGED <<commits, head, lookup, objs, pub, refs>>

(***************************************************************************)
(* HEAD is the commit: its references are reconciled like those of a first *)
(* publication, with a repair row of their own, then the lookup row is     *)
(* compared with HEAD and written again when it drifted.                   *)
(***************************************************************************)
repairPublishedBlockDelta(r) ==
    /\ req[r].pc = "idem"
    /\ \/ Answer(r, "retry") /\ repair' \in {repair, repair \cup {req[r].com}} /\ UNCHANGED refs
       \/ /\ refs' = refs \cup {req[r].com} /\ repair' \in {repair \ {req[r].com}, repair \cup {req[r].com}}
          /\ Stay(r, [req[r] EXCEPT !.pc = "canary"]) /\ UNCHANGED answer
    /\ UNCHANGED <<commits, head, lookup, objs, pub>>

repairDerivedStateIfDrifted(r) ==
    /\ req[r].pc = "canary"
    /\ \/ head # Target(r) /\ Answer(r, "retry")
       \/ head = Target(r) /\ lookup = Target(r) /\ Answer(r, "ok")
       \/ head = Target(r) /\ lookup # Target(r) /\ Stay(r, [req[r] EXCEPT !.pc = "redrive"]) /\ UNCHANGED answer
    /\ UNCHANGED <<commits, head, lookup, objs, pub, repair, refs>>

repairAfterCounterFailure(r) ==
    /\ req[r].pc = "redrive"
    /\ \/ lookup' = Target(r) /\ Answer(r, "ok")
       \/ UNCHANGED lookup /\ Answer(r, "retry")
    /\ UNCHANGED <<commits, head, objs, pub, repair, refs>>

\* The publish repair sweep settles the row of a commit HEAD descends from.
RepairSweep ==
    \E i \in repair :
        /\ i \in Lineage(head)
        /\ refs' = refs \cup {i} /\ repair' = repair \ {i}
        /\ UNCHANGED <<commits, head, lookup, objs, pub, req, answer>>

\* The server dies, or the connection does: the client asks again.
Crash(r) ==
    /\ req[r].pc # "idle" /\ Answer(r, "retry")
    /\ UNCHANGED <<commits, head, lookup, objs, pub, repair, refs>>

Next ==
    \/ RepairSweep
    \/ \E c \in Clients : PutCommit(c) \/ RecvFS(c)
    \/ \E r \in Requests :
        \/ UpdateBranch(r) \/ PublishOnParent(r) \/ AlreadyHead(r)
        \/ tryAutoMerge(r) \/ stageSyncCommitBlockDelta(r) \/ prepareSyncPublication(r) \/ updateLibraryHead(r)
        \/ lostHead(r) \/ applySyncHeadPostCASMutations(r) \/ syncLibraryHeadDerivedState(r)
        \/ finalizeSyncCommitBlockDelta(r) \/ settleRepairIntent(r) \/ repairPublishedBlockDelta(r)
        \/ repairDerivedStateIfDrifted(r) \/ repairAfterCounterFailure(r) \/ Crash(r)

Spec == Init /\ [][Next]_vars

-----------------------------------------------------------------------------
\* Every register holds a value of its kind, and nothing refers to a commit that does not exist.
TypeOK ==
    /\ head \in DOMAIN commits /\ lookup \in DOMAIN commits
    /\ \A i \in DOMAIN commits : Parent(i) < i
    /\ refs \cup repair \subseteq DOMAIN commits
    /\ \A a \in pub : a[2] \in DOMAIN commits
    /\ \A r \in Requests : req[r].com \in 0..Len(commits) /\ answer[r] \in {"none", "ok", "retry", "error"}

\* HEAD never names a tree of which an object is missing: the walk before publication finds every one
\* (a client may ask for its commit before it has sent them).
TreeComplete == Stored(head)

(***************************************************************************)
(* A commit that is, or was, HEAD has its permanent references, or a       *)
(* durable repair row and staged references that hold its blocks meanwhile:*)
(* no failure, crash, lost answer or cleanup of a losing request leaves it *)
(* with neither.                                                           *)
(***************************************************************************)
PublishedHeld ==
    \A i \in Lineage(head) : i \in refs \/ (i \in repair /\ \E a \in pub : a[2] = i)

\* A client told "ok" has its whole edit in HEAD or in a commit HEAD descends from.
AnsweredIsPublished ==
    \A r \in Requests : answer[r] = "ok" =>
        \E i \in Lineage(head) :
            \A p \in Changes(Root(Parent(Target(r))), Root(Target(r))) : At(Root(i), p) = At(Root(Target(r)), p)

(***************************************************************************)
(* A step of HEAD extends its lineage, and what it changes in the tree is  *)
(* what one client changed: the value of every path that differs is the    *)
(* client's, and differs from what the client started from.  A concurrent  *)
(* edit is never undone by a publication on top of it.                     *)
(***************************************************************************)
StepIsOneEdit ==
    head' # head =>
        /\ Parent(head)' = head
        /\ \E c \in Clients :
              /\ CommitOf(c) # 0
              /\ LET t == Root(CommitOf(c)) base == Root(Parent(CommitOf(c)))
                 IN  \A p \in Changes(Root(head), Root(head)') :
                        At(Root(head)', p) = At(t, p) /\ At(t, p) # At(base, p)

(***************************************************************************)
(* The contract stated with updateLibraryHeadWithStats: after "ok" the     *)
(* lookup row shows what was published.  Once no request is at work and    *)
(* every client that published was told "ok", the lookup row names HEAD,   *)
(* whatever failed between the update of HEAD and that answer.             *)
(***************************************************************************)
PublishedBy(c) == {i \in Lineage(head) : commits[i].by # <<>> /\ commits[i].by[1] = c}
LookupVisible ==
    /\ \A r \in Requests : req[r].pc = "idle"
    /\ \A c \in Clients : PublishedBy(c) # {} => \E r \in Requests : Owner[r] = c /\ answer[r] = "ok"
    => lookup = head

\* Not kept by the code (README, section 5):
\* A publication whose outcome is uncertain may be retried: the edit of a client is published once.
AppliedOnce == \A c \in Clients : Cardinality(PublishedBy(c)) <= 1
=============================================================================
