---------------------------- MODULE ChunkUpload ----------------------------
(***************************************************************************)
(* The upload of a file in byte ranges through /seafhttp/upload.  Each     *)
(* instance keeps a tracker per upload (what arrived, in a temporary file) *)
(* and, for retries, the outcome of the uploads it finished.  The request  *)
(* whose bytes complete the file wins its finalisation: it stores the      *)
(* blocks, takes the permit of the library in this process and then its    *)
(* lease in Cassandra, publishes the file, tells the requests that wait    *)
(* for it, caches the outcome and drops the tracker.  A janitor drops      *)
(* trackers that nobody touched for an hour.                               *)
(*                                                                         *)
(* One library.  An upload is its tracker key: token, identifier (not      *)
(* empty), path and size, the same size for all.  Storing the blocks, with *)
(* the per-tracker record of the ones that are accounted for, is a step    *)
(* that succeeds or fails: see BlockLifecycle.  A published file is the    *)
(* number of its publication, as each gets a name or a commit of its own.  *)
(* A body is no longer than the range it declares.                         *)
(***************************************************************************)
EXTENDS Integers, Sequences, FiniteSets, SequencesExt

CONSTANTS Nodes, Uploads, Reqs, Faults, None,
          Reset, Drop,   \* what a failed finalisation does with its tracker
          Trackers,      \* trackers that can exist together
          TotalSize,     \* of every upload, in bytes
          MaxChunk,      \* bytes of a chunk, at most
          MaxStaging,    \* chunked_staging_max_bytes
          Attempts,      \* uploadMetadataRetryAttempts
          MaxPublished   \* publications of one upload, at most

Orphan == "orphan"  \* a lease whose holder is gone

ChunkUploadAssumption ==
    /\ TotalSize \in Nat \ {0} /\ MaxChunk \in 1 .. TotalSize /\ MaxStaging \in Nat
    /\ Attempts \in Nat \ {0} /\ MaxPublished \in Nat \ {0}
    /\ IsFiniteSet(Uploads) /\ None \notin Trackers /\ Reqs \cap {None, Orphan} = {} /\ None # Orphan
    /\ Reset # Drop /\ {Reset, Drop, None} \cap (1 .. MaxPublished) = {} /\ None \notin {Reset, Drop}

VARIABLES uploads,    \* ChunkManager.uploads of each instance
          tracker,    \* the ChunkUpload objects
          swept,      \* dropped by a sweep, the file not yet closed
          outcomes,   \* ChunkManager.outcomes of each instance
          permit,     \* chunkedUploadLibraryFinalizePermits, for this library
          lease,      \* gc_leases, the role upload-finalize:<library>
          published,  \* how often each upload was published
          cleaned,    \* uploads whose tracker was dropped after a success
          req

managerVars == <<uploads, swept, outcomes, cleaned>>
lockVars == <<permit, lease>>
vars == <<managerVars, tracker, lockVars, published, req>>

Bytes == 0 .. TotalSize - 1
Chunks == {c \in [s : Bytes, e : Bytes] : c.s <= c.e /\ c.e - c.s < MaxChunk}
BytesOf(c) == c.s .. c.e
Covered(ranges) == UNION {BytesOf(ranges[i]) : i \in DOMAIN ranges}

Fresh == [u |-> None, n |-> None, ranges |-> <<>>, data |-> {}, open |-> TRUE,
          finalizing |-> FALSE, started |-> FALSE, done |-> "nil", result |-> None]
Done == [at |-> "done", n |-> None, u |-> None, c |-> None, t |-> None, woken |-> FALSE,
         ctx |-> TRUE, lapsed |-> FALSE, current |-> FALSE, try |-> 0, out |-> None, late |-> FALSE]

Stages == {"done", "create", "write", "claim", "wait", "finalize", "permit", "lease", "commit", "publish",
           "release", "unpermit", "tell", "cache", "cleanup", "count", "settle", "id", "ack", "error"}
(* The stages of the request that owns a finalisation, until it told its outcome; and those with the lease. *)
Winning == {"finalize", "permit", "lease", "commit", "publish", "release", "unpermit", "tell"}
Leased == {"commit", "publish", "release"}
Outcome == (1 .. MaxPublished) \cup {Reset, Drop, None}

TypeOK ==
    /\ uploads \in [Nodes -> [Uploads -> Trackers \cup {None}]] /\ swept \subseteq Trackers
    /\ \A t \in Trackers : /\ tracker[t].u \in Uploads \cup {None} /\ tracker[t].done \in {"nil", "open", "closed"}
                           /\ tracker[t].data \subseteq Bytes /\ \A i \in DOMAIN tracker[t].ranges : tracker[t].ranges[i] \in [s : Bytes, e : Bytes]
                           /\ tracker[t].result \in Outcome
    /\ outcomes \in [Nodes -> [Uploads -> (1 .. MaxPublished) \cup {None}]] /\ cleaned \in [Nodes -> SUBSET Uploads]
    /\ permit \in [Nodes -> Reqs \cup {None}] /\ lease \in Reqs \cup {None, Orphan}
    /\ published \in [Uploads -> 0 .. MaxPublished]
    /\ \A q \in Reqs : /\ req[q].at \in Stages /\ req[q].t \in Trackers \cup {None} /\ req[q].out \in Outcome
                       /\ req[q].try \in 0 .. Attempts

Goto(q, at) == req' = [req EXCEPT ![q].at = at]
End(q, at) == req' = [req EXCEPT ![q] = [Done EXCEPT !.at = at, !.u = req[q].u, !.out = req[q].out, !.late = req[q].late]]
T(q) == tracker[req[q].t]

-----------------------------------------------------------------------------
(* A chunk arrives. *)

reservedStagingBytes(n) == TotalSize * Cardinality({u \in Uploads : uploads[n][u] # None})
validateUploadByKey(n, u) == uploads[n][u] # None \/ reservedStagingBytes(n) <= MaxStaging - TotalSize

LookupFinalizeOutcome(n, u, c) == outcomes[n][u]

(* A cached outcome answers the chunk.  One that the room or the quota refuses at once is not modelled. *)
HandleUpload(q, n, u, c) ==
    /\ req[q].at = "done"
    /\ LET k == LookupFinalizeOutcome(n, u, c)
           r == [Done EXCEPT !.u = u, !.late = u \in cleaned[n]] IN
        /\ k = None => validateUploadByKey(n, u)
        /\ req' = [req EXCEPT ![q] = IF k # None THEN [r EXCEPT !.at = "id", !.out = k]
                                      ELSE [r EXCEPT !.at = "create", !.n = n, !.c = c]]
    /\ UNCHANGED <<managerVars, tracker, lockVars, published>>

InUse(t) == \/ \E n \in Nodes, u \in Uploads : uploads[n][u] = t
            \/ \E q \in Reqs : req[q].t = t
            \/ t \in swept

(* The room is looked at again, under the lock that enters the tracker. *)
EnterWithRoom(n, u) == validateUploadByKey(n, u)
GetOrCreateUpload(q) ==
    /\ req[q].at = "create"
    /\ LET n == req[q].n
           u == req[q].u IN
        \/ /\ uploads[n][u] # None
           /\ req' = [req EXCEPT ![q].at = "write", ![q].t = uploads[n][u]]
           /\ UNCHANGED <<uploads, tracker>>
        \/ /\ uploads[n][u] = None /\ EnterWithRoom(n, u)
           /\ \E t \in Trackers :
                /\ ~InUse(t)
                /\ uploads' = [uploads EXCEPT ![n][u] = t]
                /\ tracker' = [tracker EXCEPT ![t] = [Fresh EXCEPT !.u = u, !.n = n]]
                /\ req' = [req EXCEPT ![q].at = "write", ![q].t = t]
        \/ /\ uploads[n][u] = None
           /\ ~EnterWithRoom(n, u) \/ "quota" \in Faults
           /\ End(q, "error") /\ UNCHANGED <<uploads, tracker>>
    /\ UNCHANGED <<swept, outcomes, cleaned, lockVars, published>>

mergeRange(merged, r) ==
    IF merged = <<>> \/ r.s > Last(merged).e + 1 THEN Append(merged, r)
    ELSE Append(Front(merged), [Last(merged) EXCEPT !.e = IF r.e > @ THEN r.e ELSE @])
(* The new range is appended, the ranges sorted by their start and merged in that order. *)
markRangeReceived(ranges, c) ==
    FoldLeft(mergeRange, <<>>, SortSeq(Append(ranges, c), LAMBDA a, b : a.s < b.s))

isComplete(ranges) == Len(ranges) = 1 /\ ranges[1].s = 0 /\ ranges[1].e >= TotalSize - 1
hasRange(ranges, c) == \E i \in DOMAIN ranges : c.s >= ranges[i].s /\ c.e <= ranges[i].e

AcceptsChunks(tr) == tr.open /\ ~tr.started

(* Once a finalisation started the file is not written again, and only a chunk it holds is accepted.
   A write that fails leaves some bytes that no range counts. *)
WriteChunkFromReader(q) ==
    /\ req[q].at = "write"
    /\ LET t == req[q].t
           c == req[q].c IN
        \/ /\ AcceptsChunks(tracker[t]) /\ Goto(q, "claim")
           /\ tracker' = [tracker EXCEPT ![t].data = @ \cup BytesOf(c), ![t].ranges = markRangeReceived(@, c)]
        \/ /\ AcceptsChunks(tracker[t]) /\ "write" \in Faults /\ End(q, "error")
           /\ \E b \in BytesOf(c) : tracker' = [tracker EXCEPT ![t].data = @ \cup (c.s .. b - 1)]
        \/ /\ ~AcceptsChunks(tracker[t]) /\ UNCHANGED tracker
           /\ IF tracker[t].started /\ hasRange(tracker[t].ranges, c) THEN Goto(q, "claim") ELSE End(q, "error")
    /\ UNCHANGED <<managerVars, lockVars, published>>

(* A mutant: a finalisation that has not told its outcome is not seen. *)
TakenWhenTold(tr) == tr.done = "closed"
Taken(tr) == tr.finalizing \/ tr.done # "nil"

(* One request wins; the ones that come while it works, or after it told its outcome, wait for its channel. *)
ClaimFinalization(q) ==
    /\ req[q].at = "claim"
    /\ LET t == req[q].t IN
        IF Taken(T(q))
        THEN req' = [req EXCEPT ![q].at = "wait", ![q].woken = T(q).done = "closed"] /\ UNCHANGED tracker
        ELSE IF ~isComplete(T(q).ranges)
        THEN End(q, "ack") /\ UNCHANGED tracker
        ELSE Goto(q, "finalize") /\ tracker' = [tracker EXCEPT ![t].finalizing = TRUE, ![t].started = TRUE, ![t].done = "open"]
    /\ UNCHANGED <<managerVars, lockVars, published>>

(* The waiter reads what the tracker holds by then; its client may also have left. *)
AwaitOutcome(q) ==
    /\ req[q].at = "wait"
    /\ \/ /\ req[q].woken
          /\ IF T(q).result \in 1 .. MaxPublished
             THEN req' = [req EXCEPT ![q] = [Done EXCEPT !.at = "id", !.u = req[q].u, !.out = T(q).result, !.late = req[q].late]]
             ELSE End(q, "error")
       \/ "leave" \in Faults /\ End(q, "error")
    /\ UNCHANGED <<managerVars, tracker, lockVars, published>>

-----------------------------------------------------------------------------
(* The finalisation. *)

Fail(q, at, how) == req' = [req EXCEPT ![q].at = at, ![q].out = how]

(* The whole file is read and its blocks stored, a few at a time.  An exceeded quota and a block whose
   write has no known outcome give the tracker up, other errors keep it. *)
finalizeUploadStreaming(q) ==
    /\ req[q].at = "finalize"
    /\ \/ T(q).open /\ Goto(q, "permit")
       \/ ~T(q).open /\ Fail(q, "tell", Reset)
       \/ "block" \in Faults /\ \E how \in {Reset, Drop} : Fail(q, "tell", how)
    /\ UNCHANGED <<managerVars, tracker, lockVars, published>>

(* The permit of the process; the wait ends with the two minutes of the finalisation. *)
acquireChunkedUploadLibraryFinalizePermit(q) ==
    /\ req[q].at = "permit"
    /\ \/ /\ permit[req[q].n] = None
          /\ permit' = [permit EXCEPT ![req[q].n] = q] /\ Goto(q, "lease")
       \/ "timeout" \in Faults /\ Fail(q, "tell", Reset) /\ UNCHANGED permit
    /\ UNCHANGED <<managerVars, tracker, lease, published>>

(* The lease is inserted if there is none, and asked for again while there is one. *)
acquireSeafHTTPDistributedUploadFinalizeLease(q) ==
    /\ req[q].at = "lease"
    /\ \/ lease = None /\ lease' = q /\ Goto(q, "commit")
       \/ "timeout" \in Faults /\ Fail(q, "unpermit", Reset) /\ UNCHANGED lease
    /\ UNCHANGED <<managerVars, tracker, permit, published>>

(* Nobody renewed the lease for 30 seconds. *)
LeaseExpires ==
    /\ lease # None /\ (lease = Orphan \/ "lapse" \in Faults)
    /\ lease' = None
    /\ req' = [q \in Reqs |-> IF q = lease THEN [req[q] EXCEPT !.lapsed = TRUE] ELSE req[q]]
    /\ UNCHANGED <<managerVars, tracker, permit, published>>

(* The renewer finds that the lease is not its own, and cancels the context; so does the end of the two minutes. *)
renewSeafHTTPUploadFinalizeLease(q) ==
    /\ req[q].at \in Leased /\ req[q].ctx
    /\ lease # q \/ "timeout" \in Faults
    /\ req' = [req EXCEPT ![q].ctx = FALSE]
    /\ UNCHANGED <<managerVars, tracker, lockVars, published>>

(* An attempt begins with the context and a snapshot of HEAD; the quota is looked at again. *)
commitUploadedFileMultiBlock(q) ==
    /\ req[q].at = "commit"
    /\ \/ req[q].ctx /\ req' = [req EXCEPT ![q].at = "publish", ![q].current = TRUE, ![q].try = @ + 1]
       \/ ~req[q].ctx /\ Fail(q, "release", Reset)
       \/ "quota" \in Faults /\ Fail(q, "release", Drop)
    /\ UNCHANGED <<managerVars, tracker, lockVars, published>>

(* HEAD moves: the snapshots of the others are old. *)
HeadMoves(q, r) == [p \in Reqs |-> IF p = q THEN r ELSE [req[p] EXCEPT !.current = FALSE]]

Retries(q) == req[q].try < Attempts

HeadError(k) == Reset

(* The context is looked at for the last time, then HEAD is set if it is the one of the snapshot.  An
   error of that write that is no conflict leaves open whether it was done. *)
UpdateLibraryHeadFromSnapshot(q) ==
    /\ req[q].at = "publish"
    /\ LET u == req[q].u
           k == published[u] + 1
           Win(out) == /\ req[q].current /\ k <= MaxPublished
                       /\ published' = [published EXCEPT ![u] = k]
                       /\ req' = HeadMoves(q, [req[q] EXCEPT !.at = "release", !.current = FALSE, !.out = out]) IN
        \/ Win(k)
        \/ "head" \in Faults /\ Win(Reset)
        \/ "head" \in Faults /\ Fail(q, "release", HeadError(k)) /\ UNCHANGED published
        \/ ~req[q].ctx /\ Fail(q, "release", Reset) /\ UNCHANGED published
        \/ /\ ~req[q].current /\ UNCHANGED published
           /\ IF Retries(q) THEN Goto(q, "commit") ELSE Fail(q, "release", Drop)
    /\ UNCHANGED <<managerVars, tracker, lockVars>>

(* Another writer of the library. *)
OtherWriter ==
    /\ "conflict" \in Faults /\ \E q \in Reqs : req[q].current
    /\ req' = [p \in Reqs |-> [req[p] EXCEPT !.current = FALSE]]
    /\ UNCHANGED <<managerVars, tracker, lockVars, published>>

(* The lease is deleted if it is one's own. *)
releasedLease(q) == IF lease = q THEN None ELSE lease

(* The delete may fail and leave the lease to its expiry. *)
releaseSeafHTTPUploadFinalizeLease(q) ==
    /\ req[q].at = "release"
    /\ lease' \in {releasedLease(q)} \cup (IF "release" \in Faults THEN {IF lease = q THEN Orphan ELSE lease} ELSE {})
    /\ Goto(q, "unpermit")
    /\ UNCHANGED <<managerVars, tracker, permit, published>>

releasedPermit(q) == [permit EXCEPT ![req[q].n] = None]
releaseLocalPermit(q) ==
    /\ req[q].at = "unpermit"
    /\ permit' = releasedPermit(q)
    /\ Goto(q, "tell")
    /\ UNCHANGED <<managerVars, tracker, lease, published>>

-----------------------------------------------------------------------------
(* The outcome. *)

(* Nothing is told without a channel, and nothing twice; closing it wakes the waiters. *)
Tells(t) == tracker[t].done = "open"
Wake(t) == [p \in Reqs |-> IF Tells(t) /\ req[p].t = t /\ req[p].at = "wait" THEN [req[p] EXCEPT !.woken = TRUE] ELSE req[p]]
publishFinalizeOutcome(t, out) ==
    IF Tells(t) THEN [tracker EXCEPT ![t].result = out, ![t].done = "closed"] ELSE tracker

(* A success and a failure are told before the tracker leaves the map or can be claimed again. *)
PublishFinalizeOutcome(q) ==
    LET t == req[q].t IN
    /\ req[q].at = "tell"
    /\ tracker' = publishFinalizeOutcome(t, req[q].out)
    /\ req' = [Wake(t) EXCEPT ![q].at = IF req[q].out \in {Reset, Drop} THEN "settle" ELSE "cache"]
    /\ UNCHANGED <<managerVars, lockVars, published>>

CacheFinalizeOutcome(q) ==
    /\ req[q].at = "cache"
    /\ outcomes' = [outcomes EXCEPT ![req[q].n][req[q].u] = req[q].out]
    /\ Goto(q, "cleanup")
    /\ UNCHANGED <<uploads, swept, cleaned, tracker, lockVars, published>>

(* The tracker that the key has by now is closed and dropped. *)
cleanupUploadByKey(n, u) ==
    /\ uploads' = [uploads EXCEPT ![n][u] = None]
    /\ tracker' = IF uploads[n][u] = None THEN tracker ELSE [tracker EXCEPT ![uploads[n][u]].open = FALSE]

CleanupTrackedUpload(q) ==
    /\ req[q].at = "cleanup"
    /\ cleanupUploadByKey(req[q].n, req[q].u)
    /\ cleaned' = [cleaned EXCEPT ![req[q].n] = @ \cup {req[q].u}]
    /\ Goto(q, "count")
    /\ UNCHANGED <<swept, outcomes, lockVars, published>>

(* The storage counters are updated at last; an error of theirs is answered though the file is there. *)
AdjustStorageCounters(q) ==
    /\ req[q].at = "count"
    /\ End(q, "id") \/ ("counters" \in Faults /\ End(q, "error"))
    /\ UNCHANGED <<managerVars, tracker, lockVars, published>>

(* A failure that the same tracker cannot get over drops it; any other one lets the next request claim it. *)
handleChunkedFinalizeError(q) ==
    /\ req[q].at = "settle"
    /\ \/ /\ req[q].out = Drop /\ cleanupUploadByKey(req[q].n, req[q].u)
       \/ /\ req[q].out = Reset /\ UNCHANGED uploads
          /\ tracker' = [tracker EXCEPT ![req[q].t].finalizing = FALSE, ![req[q].t].done = "nil"]
    /\ End(q, "error")
    /\ UNCHANGED <<swept, outcomes, cleaned, lockVars, published>>

(* A panic of the finalisation: what it holds is given back, and a failure told; nothing is settled. *)
FinalizationPanics(q) ==
    LET t == req[q].t IN
    /\ "panic" \in Faults /\ req[q].at \in {"finalize", "commit", "publish"}
    /\ tracker' = publishFinalizeOutcome(t, Reset)
    /\ req' = [Wake(t) EXCEPT ![q] = [Done EXCEPT !.at = "error", !.u = req[q].u, !.late = req[q].late]]
    /\ lease' = IF req[q].at \in Leased THEN releasedLease(q) ELSE lease
    /\ permit' = IF req[q].at \in Leased THEN releasedPermit(q) ELSE permit
    /\ UNCHANGED <<managerVars, published>>

-----------------------------------------------------------------------------
(* The janitor, and what else passes. *)

(* A tracker is old when every request that holds it has not yet touched it. *)
sweepOnce(n, u) ==
    LET t == uploads[n][u] IN
    /\ "sweep" \in Faults /\ t # None
    /\ \A q \in Reqs : req[q].t = t => req[q].at = "write"
    /\ uploads' = [uploads EXCEPT ![n][u] = None] /\ swept' = swept \cup {t}
    /\ UNCHANGED <<outcomes, cleaned, tracker, lockVars, published, req>>

(* The files of the trackers it dropped are closed after the lock of the map is given back. *)
Cleanup(t) ==
    /\ t \in swept /\ swept' = swept \ {t}
    /\ tracker' = [tracker EXCEPT ![t].open = FALSE]
    /\ UNCHANGED <<uploads, outcomes, cleaned, lockVars, published, req>>

(* An outcome is old after 15 minutes, or makes room for newer ones. *)
pruneFinalizeOutcomes(n, u) ==
    /\ "expire" \in Faults /\ outcomes[n][u] # None
    /\ outcomes' = [outcomes EXCEPT ![n][u] = None] /\ cleaned' = [cleaned EXCEPT ![n] = @ \ {u}]
    /\ UNCHANGED <<uploads, swept, tracker, lockVars, published, req>>

(* An instance dies: what it kept in memory is gone, its lease expires. *)
Crash(n) ==
    /\ "crash" \in Faults /\ \E q \in Reqs : req[q].n = n
    /\ uploads' = [uploads EXCEPT ![n] = [u \in Uploads |-> None]] /\ outcomes' = [outcomes EXCEPT ![n] = [u \in Uploads |-> None]]
    /\ cleaned' = [cleaned EXCEPT ![n] = {}] /\ swept' = {t \in swept : tracker[t].n # n}
    /\ permit' = [permit EXCEPT ![n] = None]
    /\ lease' = IF lease \in Reqs /\ req[lease].n = n THEN Orphan ELSE lease
    /\ req' = [q \in Reqs |-> IF req[q].n = n THEN Done ELSE req[q]]
    /\ UNCHANGED <<tracker, published>>

(* The client reads its answer. *)
Read(q) ==
    /\ req[q].at \in {"id", "ack", "error"}
    /\ req' = [req EXCEPT ![q] = Done]
    /\ UNCHANGED <<managerVars, tracker, lockVars, published>>

-----------------------------------------------------------------------------
Init ==
    /\ uploads = [n \in Nodes |-> [u \in Uploads |-> None]] /\ tracker = [t \in Trackers |-> Fresh] /\ swept = {}
    /\ outcomes = [n \in Nodes |-> [u \in Uploads |-> None]] /\ cleaned = [n \in Nodes |-> {}]
    /\ permit = [n \in Nodes |-> None] /\ lease = None
    /\ published = [u \in Uploads |-> 0] /\ req = [q \in Reqs |-> Done]

Receive(q) == GetOrCreateUpload(q) \/ WriteChunkFromReader(q) \/ ClaimFinalization(q) \/ AwaitOutcome(q)
Finalize(q) ==
    \/ finalizeUploadStreaming(q)
    \/ acquireChunkedUploadLibraryFinalizePermit(q) \/ acquireSeafHTTPDistributedUploadFinalizeLease(q)
    \/ commitUploadedFileMultiBlock(q) \/ UpdateLibraryHeadFromSnapshot(q)
    \/ releaseSeafHTTPUploadFinalizeLease(q) \/ releaseLocalPermit(q)
Settle(q) ==
    \/ PublishFinalizeOutcome(q) \/ CacheFinalizeOutcome(q) \/ CleanupTrackedUpload(q)
    \/ AdjustStorageCounters(q) \/ handleChunkedFinalizeError(q)

Next ==
    \/ \E q \in Reqs : \/ \E n \in Nodes, u \in Uploads, c \in Chunks : HandleUpload(q, n, u, c)
                       \/ Receive(q) \/ Finalize(q) \/ Settle(q)
                       \/ renewSeafHTTPUploadFinalizeLease(q) \/ FinalizationPanics(q) \/ Read(q)
    \/ \E n \in Nodes, u \in Uploads : sweepOnce(n, u) \/ pruneFinalizeOutcomes(n, u)
    \/ \E t \in Trackers : Cleanup(t)
    \/ \E n \in Nodes : Crash(n)
    \/ LeaseExpires \/ OtherWriter

Spec == Init /\ [][Next]_vars

-----------------------------------------------------------------------------
(* What a reader of the upload relies on. *)

(* A finalisation has every byte: no file is published with a hole.  Its tracker is then not written again. *)
FinalizedWhole ==
    \A q \in Reqs : req[q].at \in Winning => T(q).data = Bytes /\ Covered(T(q).ranges) = Bytes

(* The merged ranges are those of the bytes that were accepted, apart and in order, and no upload whose
   bytes are all there is left without a finalisation: the request that brought the last one claims it. *)
NoneForgotten ==
    \A t \in Trackers :
      /\ Covered(tracker[t].ranges) \subseteq tracker[t].data
      /\ \A i \in 1 .. Len(tracker[t].ranges) - 1 : tracker[t].ranges[i].e + 1 < tracker[t].ranges[i + 1].s
      /\ InUse(t) /\ Covered(tracker[t].ranges) = Bytes
         => tracker[t].started \/ \E q \in Reqs : req[q].t = t /\ req[q].at = "claim"

(* One request at a time finalises a tracker, and it is the one that will close the open channel. *)
OneFinalizer ==
    \A t \in Trackers :
      LET winners == {q \in Reqs : req[q].t = t /\ req[q].at \in Winning} IN
      /\ Cardinality(winners) <= 1
      /\ winners # {} => tracker[t].done = "open"

(* A request that waits has been woken, or somebody is going to wake it: no outcome is missed. *)
NoLostWaiter ==
    \A q \in Reqs : req[q].at = "wait" /\ ~req[q].woken =>
      \E r \in Reqs : req[r].at \in Winning /\ req[r].t = req[q].t

(* An answer with a file id names a file that was published for this upload. *)
AnswerTrue ==
    \A q \in Reqs : req[q].at = "id" => req[q].out \in 1 .. published[req[q].u]

(* A chunk that is sent again after the upload's tracker was dropped is answered with the file, as long as
   its outcome is kept. *)
LateRetryAnswered ==
    \A q \in Reqs : req[q].late => req[q].at \in {"id", "done"}

(* The trackers of an instance reserve no more than its staging limit. *)
StagingBounded == \A n \in Nodes : reservedStagingBytes(n) <= MaxStaging

(* Two finalisations publish together only when one of them has let its lease lapse. *)
LeaseExclusive ==
    \A q, r \in Reqs : {req[q].at, req[r].at} \subseteq Leased /\ ~req[q].lapsed /\ ~req[r].lapsed => q = r

(* The permit of the library is held by a finalisation that is under way, and each one has it while it publishes. *)
PermitReturned ==
    \A n \in Nodes, q \in Reqs :
      permit[n] = q <=> req[q].n = n /\ req[q].at \in Leased \cup {"lease", "unpermit"}

(* Not kept by the code (README, section 5). Once the file is published no chunk of the upload is answered with a bare acknowledgement. *)
NoBareAck ==
    [][\A q \in Reqs : req[q].at = "claim" /\ req'[q].at = "ack" => published[req[q].u] = 0]_vars
=============================================================================
