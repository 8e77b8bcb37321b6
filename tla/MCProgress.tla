----------------------------- MODULE MCProgress -----------------------------
(***************************************************************************)
(* What must happen in the end: requests are answered, leadership of the   *)
(* GC comes back, deletions end in the purge.  As in MCRequests, MCHistory *)
(* and MCRecords a behaviour is one of one part, here under the fairness   *)
(* of its module.                                                          *)
(***************************************************************************)
EXTENDS Naturals

CONSTANTS q1, q2, q3, q4, user, link, client, alice, bob, n1, t1, t2, u1, l1, o1, e1, s1, p1, p2,
          None, NoGate, Reset, Drop, Dead, Super

VARIABLES part,
    \* download admission
    dPc, dGone, dExpired, woken, once, active, activeByProfile, dimActive, dimWaiters, tracked, dWaiters,
    \* sync admission
    sPc, sGone, sExpired, perUser, sem, refs, sWaiters, gate, node, entries, nodeWaiters,
    \* the stream of a download
    hPc, hGone, connDead, prep, stream, terminal, released, cause, preparing, writer, parentCb, prepCb,
    finished, failed, err, timer, gen, fired, interval, overdue, sockDeadline, notify, out, writes,
    \* uploads by chunks
    uploads, tracker, swept, outcomes, permit, lease, published, cleaned, cReq,
    \* the lease of the GC
    gRow, svc, faults,
    \* libraries
    canon, byId, byOwner, byOrg, trash, marker, policy, contents, links, lLock, pending, lItems, lTime, purged, committed, lReq,
    \* accounts
    account, byEmail, byOidc, found, list, byStatus, state, aOrg, mark, orgList, orgByStatus, orgState, aLock, aItems, aTime, begun, signedIn, aReq,
    \* processes that have crashed in a rollback
    crashes

-----------------------------------------------------------------------------
\* Admission as in MCRequests, with one place to wait for a sync request.
Downloads == INSTANCE DownloadAdmission WITH
    Requests <- {q1, q2, q3, q4}, Profiles <- {"zip", "file"}, Dims <- {user, link, client},
    ProfileOf <- [r \in {q1, q2, q3, q4} |-> IF r = q1 THEN "zip" ELSE "file"],
    DimsOf <- [r \in {q1, q2, q3, q4} |-> IF r \in {q1, q2} THEN {user} ELSE {link, client}],
    ProfileCap <- [p \in {"zip", "file"} |-> IF p = "zip" THEN 1 ELSE 0],
    DimCap <- [d \in {user, link, client} |-> IF d = client THEN 1 ELSE IF d = user THEN 2 ELSE 0],
    MaxActivePerNode <- 2, MaxWaitersPerNode <- 2, MaxWaitersPerIdentity <- 1,
    pc <- dPc, gone <- dGone, expired <- dExpired, waiters <- dWaiters
Sync == INSTANCE SyncAdmission WITH
    Requests <- {q1, q2, q3}, Users <- {alice, bob}, UserOf <- [r \in {q1, q2, q3} |-> IF r = q3 THEN bob ELSE alice],
    MaxPerUser <- 1, MaxPerNode <- 1, MaxWaitersPerUser <- 1, MaxWaitersPerNode <- 1,
    pc <- sPc, gone <- sGone, expired <- sExpired, waiters <- sWaiters
\* A response of two chunks.
Stream == INSTANCE DownloadStream WITH MaxWrites <- 2, pc <- hPc, gone <- hGone
\* Two requests with the two bytes of one upload, one of which may wait for the outcome of the other.
Chunks == INSTANCE ChunkUpload WITH
    Nodes <- {n1}, Uploads <- {u1}, Reqs <- {q1, q2}, Trackers <- {t1, t2}, TotalSize <- 2, MaxChunk <- 1, MaxStaging <- 8,
    Attempts <- 2, MaxPublished <- 2, Faults <- {"block", "panic", "timeout"}, req <- cReq
\* Two instances that start and stop, and one that crashes and loses answers.
Leadership == INSTANCE GCLease WITH
    Instances <- {p1, p2}, Admins <- {p1, p2}, Passers <- {p1, p2}, Renewal <- 1, TTL <- 3, QueryTime <- 0, MaxFaults <- 0, row <- gRow
Failing == INSTANCE GCLease WITH
    Instances <- {p1}, Admins <- {p1}, Passers <- {p1}, Renewal <- 1, TTL <- 3, QueryTime <- 0, MaxFaults <- 2, row <- gRow
\* A library that is deleted for good, and one whose first commit fails.
Purge == INSTANCE LibraryRows WITH
    Users <- {u1}, Libs <- {l1}, Names <- {n1}, MaxLibraries <- 1, MaxTime <- 1, Reqs <- {q1, q2}, Workers <- {q1}, Faults <- {"enqueue"},
    Calls <- {"CreateLibrary", "DeleteLibrary", "RestoreDeletedRepo", "PermanentDeleteRepo", "scan", "worker", "links"},
    lock <- lLock, items <- lItems, time <- lTime, req <- lReq
Rollback == INSTANCE LibraryRows WITH
    Users <- {u1}, Libs <- {l1}, Names <- {n1}, MaxLibraries <- 1, MaxTime <- 1, Reqs <- {q1, q2}, Workers <- {}, Faults <- {"crash", "batch"},
    Calls <- {"CreateGroupLibrary", "GetHeadCommit", "reaper"},
    lock <- lLock, items <- lItems, time <- lTime, req <- lReq
\* An organization and its owner.
Deletion == INSTANCE Accounts WITH
    Orgs <- {o1}, Users <- {1}, Emails <- {e1}, Subs <- {s1}, Quotas <- {0}, Claims <- {}, Platform <- None, MaxUsers <- 2,
    MaxTime <- 1, DisableOrgUserWrites <- FALSE, Reqs <- {q1, q2}, Faults <- {},
    Calls <- {"CreateOrganization", "DeleteUserByEmail", "RestoreUser", "SoftDeleteOrganization", "RestoreOrganization", "scan", "worker"},
    user <- account, org <- aOrg, lock <- aLock, items <- aItems, time <- aTime, req <- aReq

ASSUME Downloads!AdmissionAssumption /\ Sync!LimiterAssumption /\ Stream!WritesAssumption /\ Chunks!ChunkUploadAssumption
ASSUME Leadership!LeaseAssumption /\ Failing!LeaseAssumption /\ Purge!LibraryAssumption /\ Rollback!LibraryAssumption /\ Deletion!AccountsAssumption

-----------------------------------------------------------------------------
downloadVars == <<dPc, dGone, dExpired, woken, once, active, activeByProfile, dimActive, dimWaiters, tracked, dWaiters>>
syncVars == <<sPc, sGone, sExpired, perUser, sem, refs, sWaiters, gate, node, entries, nodeWaiters>>
streamVars == <<hPc, hGone, connDead, prep, stream, terminal, released, cause, preparing, writer, parentCb, prepCb,
    finished, failed, err, timer, gen, fired, interval, overdue, sockDeadline, notify, out, writes>>
chunkVars == <<uploads, tracker, swept, outcomes, permit, lease, published, cleaned, cReq>>
leaseVars == <<gRow, svc, faults>>
libraryVars == <<canon, byId, byOwner, byOrg, trash, marker, policy, contents, links, lLock, pending, lItems, lTime, purged, committed, lReq>>
accountVars == <<account, byEmail, byOidc, found, list, byStatus, state, aOrg, mark, orgList, orgByStatus, orgState, aLock, aItems, aTime, begun,
                 signedIn, aReq>>
vars == <<part, downloadVars, syncVars, streamVars, chunkVars, leaseVars, libraryVars, accountVars, crashes>>

LeaseParts == {"lease", "crash"}

\* A process may crash twice in a rollback.
MaxCrashes == 2

Init ==
    /\ part \in {"downloads", "sync", "stream", "chunks", "lease", "crash", "purge", "rollback", "deletion"}
    /\ crashes = 0
    /\ Downloads!Init /\ Sync!Init /\ Stream!Init /\ Chunks!Init /\ Deletion!Init
    /\ IF part = "crash" THEN Failing!Init ELSE Leadership!Init
    /\ IF part = "rollback" THEN Rollback!Init ELSE Purge!Init

OnlyDownloads == UNCHANGED <<part, syncVars, streamVars, chunkVars, leaseVars, libraryVars, accountVars, crashes>>
OnlySync == UNCHANGED <<part, downloadVars, streamVars, chunkVars, leaseVars, libraryVars, accountVars, crashes>>
OnlyStream == UNCHANGED <<part, downloadVars, syncVars, chunkVars, leaseVars, libraryVars, accountVars, crashes>>
OnlyChunks == UNCHANGED <<part, downloadVars, syncVars, streamVars, leaseVars, libraryVars, accountVars, crashes>>
OnlyLease == UNCHANGED <<part, downloadVars, syncVars, streamVars, chunkVars, libraryVars, accountVars, crashes>>
OnlyLibraries == UNCHANGED <<part, downloadVars, syncVars, streamVars, chunkVars, leaseVars, accountVars, crashes>>
OnlyAccounts == UNCHANGED <<part, downloadVars, syncVars, streamVars, chunkVars, leaseVars, libraryVars, crashes>>

DownloadStep == part = "downloads" /\ Downloads!Next /\ OnlyDownloads
SyncStep == part = "sync" /\ Sync!Next /\ OnlySync
StreamStep == part = "stream" /\ Stream!Next /\ OnlyStream
ChunkStep == part = "chunks" /\ Chunks!Next /\ OnlyChunks
LeaseStep == part = "lease" /\ Leadership!Next /\ OnlyLease
FailingStep == part = "crash" /\ Failing!Next /\ OnlyLease
PurgeStep == part = "purge" /\ Purge!Next /\ OnlyLibraries
RollbackStep == part = "rollback" /\ (\E q \in {q1, q2} : Rollback!Client(q) \/ Rollback!Rollback(q)) /\ OnlyLibraries
CrashStep ==
    /\ part = "rollback" /\ crashes < MaxCrashes /\ crashes' = crashes + 1
    /\ \E q \in {q1, q2} : Rollback!Crash(q)
    /\ UNCHANGED <<part, downloadVars, syncVars, streamVars, chunkVars, leaseVars, accountVars>>
DeletionStep == part = "deletion" /\ Deletion!Next /\ OnlyAccounts

Next ==
    \/ DownloadStep \/ SyncStep \/ StreamStep \/ ChunkStep
    \/ LeaseStep \/ FailingStep \/ PurgeStep \/ RollbackStep \/ CrashStep \/ DeletionStep

-----------------------------------------------------------------------------
(* The part that moves is scheduled as its code is. *)

\* Every goroutine goes on and every download and sync request ends; no timer has to fire.
AdmissionFairness ==
    /\ \A r \in {q1, q2, q3, q4} : WF_downloadVars(part = "downloads" /\ Downloads!RequestStep(r))
    /\ \A r \in {q1, q2, q3} : WF_syncVars(part = "sync" /\ Sync!RequestStep(r))

\* Timers fire and goroutines run; no read, write or client has to go on.
StreamFairness ==
    /\ WF_streamVars(part = "stream" /\ Stream!Handler)
    /\ WF_streamVars(part = "stream" /\ Stream!PreparationDeadline)
    /\ WF_streamVars(part = "stream" /\ Stream!IdleDeadline)
    /\ WF_streamVars(part = "stream" /\ Stream!ParentCancelled)
    /\ WF_streamVars(part = "stream" /\ Stream!PreparationDone)
    /\ WF_streamVars(part = "stream" /\ Stream!expire)
    /\ WF_streamVars(part = "stream" /\ Stream!notifyFailure)

\* A handler that can go on goes on; it always can while it waits for the permit or the lease, as the
\* two minutes of the finalisation end.
ChunkFairness ==
    \A q \in {q1, q2} : WF_chunkVars(part = "chunks" /\ (Chunks!Receive(q) \/ Chunks!Finalize(q) \/ Chunks!Settle(q)))

\* Time passes: there is no endless run of restarts within one interval.  The intervals of the
\* ticker and the length of a call are in the guard of Tick.
LeaseTick == IF part = "crash" THEN Failing!Tick ELSE Leadership!Tick
LeaseFairness == part \in LeaseParts => []<><<LeaseTick>>_leaseVars

\* A request that was begun goes on, and so does a purge or a rollback; the scanner comes round.
PurgeFairness ==
    /\ \A q \in {q1, q2} : WF_libraryVars(\/ part = "purge" /\ Purge!Begun(q)
                                          \/ part = "rollback" /\ (Rollback!Begun(q) \/ Rollback!Rollback(q)))
    /\ WF_libraryVars(part = "purge" /\ Purge!Scanner(l1))
DeletionFairness ==
    /\ \A q \in {q1, q2} : WF_accountVars(part = "deletion" /\ (Deletion!Write(q) \/ Deletion!Purge(q)))
    /\ WF_accountVars(part = "deletion" /\ Deletion!scanExpiredDeletedUsers)
    /\ WF_accountVars(part = "deletion" /\ Deletion!scanExpiredDeletedOrgs)

\* What gets its turn although it is not ready all the time: the worker takes what is queued, and the
\* reaper what is pending.
Turn ==
    \E q \in {q1, q2} :
        \/ part = "purge" /\ (Purge!processLibraryCascade(q) \/ Purge!processObject(q)) /\ UNCHANGED accountVars
        \/ part = "rollback" /\ Rollback!recoverPendingLibraryRollback(q) /\ UNCHANGED accountVars
        \/ part = "deletion" /\ Deletion!Take(q) /\ UNCHANGED libraryVars
TurnFairness == SF_<<libraryVars, accountVars>>(Turn)

Fairness ==
    /\ AdmissionFairness /\ StreamFairness /\ ChunkFairness /\ LeaseFairness
    /\ PurgeFairness /\ DeletionFairness /\ TurnFairness

Spec == Init /\ [][Next]_vars /\ Fairness

-----------------------------------------------------------------------------
\* A request that waits for a download slot, a sync request that has arrived, a chunk that has no
\* answer yet, and a download that has its slot.
Waiting(r) ==
    CASE part = "downloads" -> dPc[r] = "waiting"
      [] part = "sync" /\ r \in {q1, q2, q3} -> sPc[r] \notin {"arrived", "done"}
      [] part = "chunks" /\ r \in {q1, q2} -> cReq[r].at \notin {"done", "id", "ack", "error"}
      [] part = "stream" -> ~released
      [] OTHER -> FALSE

\* Every request comes to its end: who waits for a download slot gets an answer, a sync request ends,
\* a chunk is answered even when it waits for the outcome of another, and the slot of a download comes
\* back whatever hangs (admission.go, sync_admission_limiter.go, seafhttp.go, response.go).  The
\* fourth request of a download is like the third.
RequestsEnd == \A r \in {q1, q2, q3} : Waiting(r) ~> ~Waiting(r)

\* While one instance keeps running the GC has a leader again and again, that one or the other
\* (lease.go, gc.go).  The instances are alike, so the one is p1.
LeadershipReturns ==
    <>[](part \in LeaseParts /\ svc[p1].life = "running") => []<>(\E i \in DOMAIN svc : svc[i].flag)

\* A library that is to be purged, a rollback that was begun, and the deletion of a user or an organization.
Doomed(x) ==
    CASE part = "purge" -> marker[l1].purge [] part = "rollback" -> pending[l1] # None
      [] part = "deletion" -> IF x = "user" THEN Deletion!GetUserDeletedAt(1) > 0 ELSE Deletion!GetOrgDeletedAt(o1) > 0
      [] OTHER -> FALSE
Ended(x) ==
    CASE part = "purge" -> contents[l1] = {} /\ marker[l1].del = 0 /\ l1 \notin links
      [] OTHER -> ~Doomed(x)

\* What is deleted for good is gone in the end, libraries, users and organizations, and a rollback
\* that was begun ends (scanner.go, worker.go, library_rollback.go).
PurgesEnd == \A x \in {"user", "organization"} : Doomed(x) ~> Ended(x)
=============================================================================
