----------------------------- MODULE MCRequests -----------------------------
(***************************************************************************)
(* What a node does for the requests of its clients: the admission of      *)
(* downloads and of sync requests, the stream of a download, uploads by    *)
(* blocks and uploads by chunks, and the commits of sync clients.  These   *)
(* parts share no state, so a behaviour is one of one part: the others     *)
(* stay as they are at the start.  The parts of one module have the same   *)
(* variables and other constants.                                          *)
(***************************************************************************)
EXTENDS Naturals, Sequences, TLC

CONSTANTS q1, q2, q3, q4, r1, r2, r3, user, link, client, alice, bob, n1, n2, s1, s2, s3, t1, t2, u1, u2,
          k1, k2, x1, x2, x3, None, NoGate, Reset, Drop

VARIABLES part,
    \* download admission
    dPc, dGone, dExpired, woken, once, active, activeByProfile, dimActive, dimWaiters, tracked, dWaiters,
    \* sync admission
    sPc, sGone, sExpired, perUser, sem, refs, sWaiters, gate, node, entries, nodeWaiters,
    \* the stream of a download
    hPc, hGone, connDead, prep, stream, terminal, released, cause, preparing, writer, parentCb, prepCb,
    finished, failed, err, timer, gen, fired, interval, overdue, sockDeadline, notify, out, writes,
    \* uploads by blocks
    row, slot, minted, known, aged, staged, stored, pins, fsRefs, inflight, files, bReq,
    \* uploads by chunks
    uploads, tracker, swept, outcomes, permit, lease, published, cleaned, cReq,
    \* the commits of sync clients
    commits, head, lookup, objs, pub, repair, mRefs, mReq, answer

-----------------------------------------------------------------------------
\* Two requests of one user, two of one client of a public link, and two
\* profiles one of which has a cap.
Downloads == INSTANCE DownloadAdmission WITH
    Requests <- {q1, q2, q3, q4}, Profiles <- {"zip", "file"}, Dims <- {user, link, client},
    ProfileOf <- [r \in {q1, q2, q3, q4} |-> IF r = q1 THEN "zip" ELSE "file"],
    DimsOf <- [r \in {q1, q2, q3, q4} |-> IF r \in {q1, q2} THEN {user} ELSE {link, client}],
    ProfileCap <- [p \in {"zip", "file"} |-> IF p = "zip" THEN 1 ELSE 0],
    DimCap <- [d \in {user, link, client} |-> IF d = client THEN 1 ELSE IF d = user THEN 2 ELSE 0],
    MaxActivePerNode <- 2, MaxWaitersPerNode <- 2, MaxWaitersPerIdentity <- 1,
    pc <- dPc, gone <- dGone, expired <- dExpired, waiters <- dWaiters

\* Two requests of one user and one of another, with one slot and two places to wait.
Sync == INSTANCE SyncAdmission WITH
    Requests <- {q1, q2, q4}, Users <- {alice, bob}, UserOf <- [r \in {q1, q2, q4} |-> IF r = q4 THEN bob ELSE alice],
    MaxPerUser <- 1, MaxPerNode <- 1, MaxWaitersPerUser <- 1, MaxWaitersPerNode <- 2,
    pc <- sPc, gone <- sGone, expired <- sExpired, waiters <- sWaiters

\* A response of three chunks.
Stream == INSTANCE DownloadStream WITH MaxWrites <- 3, pc <- hPc, gone <- hGone

\* One session, three requests, and everything that can fail in a commit.
Commit == INSTANCE BlockUpload WITH
    Sessions <- {s1}, Blocks <- {0, 1}, Manifests <- {{0}, {1}}, Replacing <- {}, Borrowed <- {0}, Nodes <- {n1},
    Reqs <- {r1, r2, r3}, Calls <- {"create", "upload", "commit"},
    Faults <- {"finalize", "claim", "mark", "release", "refuse", "insert", "slot", "crash"},
    MaxUncommittedBlockSessionsPerUser <- 1, MaxConcurrentBlockUploadsPerUser <- 1, MaxStagedBlocksPerSession <- 2,
    req <- bReq
\* More sessions than a user may have.
Slots == INSTANCE BlockUpload WITH
    Sessions <- {s1, s2, s3}, Blocks <- {0}, Manifests <- {{0}}, Replacing <- {}, Borrowed <- {0}, Nodes <- {n1},
    Reqs <- {r1, r2}, Calls <- {"create", "commit"}, Faults <- {"expire"},
    MaxUncommittedBlockSessionsPerUser <- 1, MaxConcurrentBlockUploadsPerUser <- 1, MaxStagedBlocksPerSession <- 2,
    req <- bReq
\* More blocks than a session may stage, two of them under way at once.
Staging == INSTANCE BlockUpload WITH
    Sessions <- {s1}, Blocks <- 0 .. 6, Manifests <- {{0}}, Replacing <- {}, Borrowed <- {}, Nodes <- {n1},
    Reqs <- {r1, r2}, Calls <- {"create", "upload"}, Faults <- {},
    MaxUncommittedBlockSessionsPerUser <- 1, MaxConcurrentBlockUploadsPerUser <- 2, MaxStagedBlocksPerSession <- 1,
    req <- bReq

\* Three requests with the two bytes of one upload, whose finalisation may fail.
Finalize == INSTANCE ChunkUpload WITH
    Nodes <- {n1}, Uploads <- {u1}, Reqs <- {r1, r2, r3}, Trackers <- {t1, t2}, TotalSize <- 2, MaxChunk <- 1, MaxStaging <- 8,
    Attempts <- 2, MaxPublished <- 1, Faults <- {"block", "panic", "leave", "head"}, req <- cReq
\* The janitor drops trackers while requests hold them.
Sweep == INSTANCE ChunkUpload WITH
    Nodes <- {n1}, Uploads <- {u1}, Reqs <- {r1, r2}, Trackers <- {t1, t2}, TotalSize <- 2, MaxChunk <- 1, MaxStaging <- 8,
    Attempts <- 2, MaxPublished <- 2, Faults <- {"sweep", "block", "panic"}, req <- cReq
\* Chunks of every place and length, so that ranges overlap, touch and leave gaps.
Ranges == INSTANCE ChunkUpload WITH
    Nodes <- {n1}, Uploads <- {u1}, Reqs <- {r1, r2}, Trackers <- {t1}, TotalSize <- 3, MaxChunk <- 2, MaxStaging <- 8,
    Attempts <- 2, MaxPublished <- 2, Faults <- {"write", "expire", "crash"}, req <- cReq
\* Two uploads with room for one of them, and chunks that are sent again.
Retry == INSTANCE ChunkUpload WITH
    Nodes <- {n1}, Uploads <- {u1, u2}, Reqs <- {r1, r2}, Trackers <- {t1, t2}, TotalSize <- 2, MaxChunk <- 1, MaxStaging <- 2,
    Attempts <- 2, MaxPublished <- 1, Faults <- {"counters", "quota", "conflict"}, req <- cReq
\* Two nodes that finalise one upload.
Lease == INSTANCE ChunkUpload WITH
    Nodes <- {n1, n2}, Uploads <- {u1}, Reqs <- {r1, r2}, Trackers <- {t1, t2}, TotalSize <- 1, MaxChunk <- 1, MaxStaging <- 8,
    Attempts <- 2, MaxPublished <- 1, Faults <- {"lapse", "timeout", "release"}, req <- cReq

\* Sync: a library with a file and a directory with one file, and clients
\* whose edits overlap, agree or are disjoint.
SM == INSTANCE SyncMerge

Base == "f" :> SM!File(x1) @@ "d" :> SM!Dir("g" :> SM!File(x1))
Put(n, entry) == n :> {entry}
Gone(n) == n :> {}
InDir(t) == Put("d", SM!Dir(t))
MergeEdits ==
    k1 :> {Put("f", SM!File(x2)), Gone("d"), InDir("g" :> SM!File(x2))}
    @@ k2 :> {Gone("f"), Put("f", SM!File(x2)), InDir("g" :> SM!File(x1) @@ "h" :> SM!File(x3)), Put("d", SM!File(x3))}

\* One request of each of two clients.
Merge == INSTANCE SyncHead WITH
    Clients <- {k1, k2}, Requests <- {q1, q2}, Owner <- (q1 :> k1 @@ q2 :> k2), FirstTree <- Base, Edits <- MergeEdits,
    MaxAttempts <- 2, MaxPromotions <- 1, LoseAnswers <- TRUE, refs <- mRefs, req <- mReq
\* One client, whose request is sent again, also while the first is at work.
Resend == INSTANCE SyncHead WITH
    Clients <- {k1}, Requests <- {q1, q2}, Owner <- (q1 :> k1 @@ q2 :> k1), FirstTree <- Base, Edits <- (k1 :> {Put("f", SM!File(x2))}),
    MaxAttempts <- 2, MaxPromotions <- 3, LoseAnswers <- TRUE, refs <- mRefs, req <- mReq

ASSUME Downloads!AdmissionAssumption /\ Sync!LimiterAssumption /\ Stream!WritesAssumption
ASSUME Commit!BlockUploadAssumption /\ Slots!BlockUploadAssumption /\ Staging!BlockUploadAssumption
ASSUME Finalize!ChunkUploadAssumption /\ Sweep!ChunkUploadAssumption /\ Ranges!ChunkUploadAssumption
       /\ Retry!ChunkUploadAssumption /\ Lease!ChunkUploadAssumption
ASSUME Merge!SyncAttemptsAssumption /\ Resend!SyncAttemptsAssumption

-----------------------------------------------------------------------------
downloadVars == <<dPc, dGone, dExpired, woken, once, active, activeByProfile, dimActive, dimWaiters, tracked, dWaiters>>
syncVars == <<sPc, sGone, sExpired, perUser, sem, refs, sWaiters, gate, node, entries, nodeWaiters>>
streamVars == <<hPc, hGone, connDead, prep, stream, terminal, released, cause, preparing, writer, parentCb, prepCb,
    finished, failed, err, timer, gen, fired, interval, overdue, sockDeadline, notify, out, writes>>
blockVars == <<row, slot, minted, known, aged, staged, stored, pins, fsRefs, inflight, files, bReq>>
chunkVars == <<uploads, tracker, swept, outcomes, permit, lease, published, cleaned, cReq>>
mergeVars == <<commits, head, lookup, objs, pub, repair, mRefs, mReq, answer>>
vars == <<part, downloadVars, syncVars, streamVars, blockVars, chunkVars, mergeVars>>

BlockParts == {"commit", "slots", "staging"}
ChunkParts == {"finalize", "sweep", "ranges", "retry", "lease"}
MergeParts == {"merge", "resend"}

Init ==
    /\ part \in {"downloads", "sync", "stream"} \cup BlockParts \cup ChunkParts \cup MergeParts
    /\ Downloads!Init /\ Sync!Init /\ Stream!Init
    /\ CASE part = "slots" -> Slots!Init [] part = "staging" -> Staging!Init [] OTHER -> Commit!Init
    /\ CASE part = "sweep" -> Sweep!Init [] part = "ranges" -> Ranges!Init [] part = "retry" -> Retry!Init
         [] part = "lease" -> Lease!Init [] OTHER -> Finalize!Init
    /\ IF part = "resend" THEN Resend!Init ELSE Merge!Init

DownloadStep == part = "downloads" /\ Downloads!Next /\ UNCHANGED <<part, syncVars, streamVars, blockVars, chunkVars, mergeVars>>
SyncStep == part = "sync" /\ Sync!Next /\ UNCHANGED <<part, downloadVars, streamVars, blockVars, chunkVars, mergeVars>>
StreamStep == part = "stream" /\ Stream!Next /\ UNCHANGED <<part, downloadVars, syncVars, blockVars, chunkVars, mergeVars>>

NotBlocks == UNCHANGED <<part, downloadVars, syncVars, streamVars, chunkVars, mergeVars>>
CommitStep == part = "commit" /\ Commit!Next /\ NotBlocks
SlotsStep == part = "slots" /\ Slots!Next /\ NotBlocks
StagingStep == part = "staging" /\ Staging!Next /\ NotBlocks

NotChunks == UNCHANGED <<part, downloadVars, syncVars, streamVars, blockVars, mergeVars>>
FinalizeStep == part = "finalize" /\ Finalize!Next /\ NotChunks
SweepStep == part = "sweep" /\ Sweep!Next /\ NotChunks
RangesStep == part = "ranges" /\ Ranges!Next /\ NotChunks
RetryStep == part = "retry" /\ Retry!Next /\ NotChunks
LeaseStep == part = "lease" /\ Lease!Next /\ NotChunks

NotMerge == UNCHANGED <<part, downloadVars, syncVars, streamVars, blockVars, chunkVars>>
MergeStep == part = "merge" /\ Merge!Next /\ NotMerge
ResendStep == part = "resend" /\ Resend!Next /\ NotMerge

Next ==
    \/ DownloadStep \/ SyncStep \/ StreamStep
    \/ CommitStep \/ SlotsStep \/ StagingStep
    \/ FinalizeStep \/ SweepStep \/ RangesStep \/ RetryStep \/ LeaseStep
    \/ MergeStep \/ ResendStep

Spec == Init /\ [][Next]_vars

\* The requests of an upload are alike.
Symmetric == Permutations({r1, r2, r3})

-----------------------------------------------------------------------------
\* Every variable has its type.
TypeOK ==
    CASE part = "downloads" -> Downloads!TypeOK [] part = "sync" -> Sync!TypeOK [] part = "stream" -> Stream!TypeOK
      [] part = "commit" -> Commit!TypeOK [] part = "slots" -> Slots!TypeOK [] part = "staging" -> Staging!TypeOK
      [] part = "finalize" -> Finalize!TypeOK [] part = "sweep" -> Sweep!TypeOK [] part = "ranges" -> Ranges!TypeOK
      [] part = "retry" -> Retry!TypeOK [] part = "lease" -> Lease!TypeOK
      [] part = "merge" -> Merge!TypeOK [] part = "resend" -> Resend!TypeOK

\* No limit is passed, however the requests meet: running and waiting downloads of the node, a
\* profile and an identity (admission.go), sync requests of a user (sync_admission_limiter.go),
\* upload sessions of a user and blocks of a session (block_upload_sessions.go), and the bytes the
\* trackers of a node reserve (seafhttp.go: GetOrCreateUpload).
LimitsHold ==
    /\ part = "downloads" => Downloads!WithinCaps
    /\ part = "sync" => Sync!UserWithinCap
    /\ part = "slots" => Slots!SessionsBounded
    /\ part = "staging" => Staging!StagedBounded
    /\ part = "retry" => Retry!StagingBounded

\* What a request takes is given back and kept no longer than it is used: an identity stays in the
\* map while a request counts in it, the gate a request refers to is the one in the map, an idle
\* limiter has nothing taken, and the uploads in flight of a node and the finalize permit of a library
\* belong to requests under way (evictIdle, releaseUserGate, tryBeginBlockUpload, releaseLocalPermit).
NothingLeaks ==
    /\ part = "downloads" => Downloads!TrackedWhileUsed
    /\ part = "sync" => Sync!ReferredGateInMap /\ Sync!NothingLeaks
    /\ part = "commit" => Commit!InflightCounts
    /\ part = "lease" => Lease!PermitReturned

\* Nobody waits for what has already happened: a waiter of the download gate that fits in was told so,
\* a request that waits for another's finalisation has somebody who will wake it, and a chunk that is
\* sent again after the file was published is answered with the file (admission.go: Acquire;
\* seafhttp.go: AwaitFinalization, cachedFinalizeOutcome).
NoLostWakeup ==
    /\ part = "downloads" => Downloads!NoLostWakeup
    /\ part = "finalize" => Finalize!NoLostWaiter
    /\ part = "retry" => Retry!LateRetryAnswered

\* A file is published by one request: a session is committed by one and makes one file, a tracker is
\* finalised by one, and two nodes publish together only when one of them has let its lease lapse
\* (ClaimBlockUploadSessionCommit, ClaimFinalization, acquireSeafHTTPDistributedUploadFinalizeLease).
OnePublisher ==
    /\ part = "commit" => Commit!OneCommitter /\ Commit!OneFilePerSession
    /\ part = "finalize" => Finalize!OneFinalizer
    /\ part = "lease" => Lease!LeaseExclusive

\* What a client is told is so: no download ends in an empty success, none that was killed counts as
\* completed, and the connection it leaves carries no deadline; a commit or a finalisation that was
\* answered with a file has published it, whole and from blocks that are stored
\* (streaming.go, file_from_blocks.go, seafhttp.go).
AnswersTrue ==
    /\ part = "stream" => Stream!NoEmptySuccess /\ Stream!KilledNotCompleted /\ Stream!ConnectionLeftClean
    /\ part = "commit" => Commit!AnswerTrue
    /\ part = "slots" => Slots!FilesStored
    /\ part = "finalize" => Finalize!AnswerTrue
    /\ part = "sweep" => Sweep!FinalizedWhole
    /\ part = "ranges" => Ranges!NoneForgotten /\ Ranges!FinalizedWhole

\* What sync publishes is there to stay: HEAD names only stored objects, every published commit has its
\* references or a repair that will give it them, and a client told "ok" has its edit in the history and
\* in the lookup row (sync.go: stageSyncCommitBlockDelta, finalizeSyncCommitBlockDelta, tryAutoMerge).
PublishedHeld ==
    /\ part = "merge" => Merge!TreeComplete /\ Merge!PublishedHeld /\ Merge!AnsweredIsPublished
    /\ part = "resend" => Resend!TreeComplete /\ Resend!PublishedHeld /\ Resend!AnsweredIsPublished /\ Resend!LookupVisible

\* A publication of sync changes in HEAD what one client changed and undoes nothing of another's edit,
\* whichever edits overlap and whichever requests are sent again (sync.go: tryAutoMerge,
\* mergeSyncDirectoryEntry).
EditsKept ==
    [][/\ part = "merge" => Merge!StepIsOneEdit
       /\ part = "resend" => Resend!StepIsOneEdit]_vars
=============================================================================
