---------------------------- MODULE BlockUpload ----------------------------
(***************************************************************************)
(* The upload of a file from a browser, in blocks: a session is minted     *)
(* (one of the user's slots is taken), blocks are uploaded under it (each  *)
(* pinned by a reference up:<session>, the new ones entered in a ledger    *)
(* with a cap), and a manifest is committed: the session is claimed, the   *)
(* file published, its name recorded for retries, and the slot given back. *)
(* Rows expire: the slot and the session 48 hours after the mint, cells    *)
(* that a claim, a release or a result wrote again 48 hours after that.    *)
(*                                                                         *)
(* One user, one library and one parent directory.  A manifest is the set  *)
(* of its blocks, of one block size each; a block is its hash as a number. *)
(* Installing a block and the collector's fences are BlockLifecycle's: a   *)
(* block is stored here while it has metadata and its object, and may be   *)
(* collected when no reference is left.                                    *)
(***************************************************************************)
EXTENDS Integers, FiniteSets

CONSTANTS Sessions, Blocks, Manifests,
          Replacing,      \* the manifests that replace the file of their name
          Borrowed,       \* blocks that other files refer to at the start
          Nodes, Reqs, Calls, Faults, None,
          MaxUncommittedBlockSessionsPerUser,
          MaxConcurrentBlockUploadsPerUser,
          MaxStagedBlocksPerSession \* the ceiling of a session, in blocks

BlockUploadAssumption ==
    /\ Blocks \subseteq Nat /\ Manifests \subseteq SUBSET Blocks /\ {} \notin Manifests
    /\ Replacing \subseteq Manifests /\ Borrowed \subseteq Blocks
    /\ MaxUncommittedBlockSessionsPerUser \in Nat \ {0}
    /\ MaxConcurrentBlockUploadsPerUser \in Nat \ {0} /\ MaxStagedBlocksPerSession \in Nat \ {0}
    /\ IsFiniteSet(Reqs) /\ None \notin Sessions /\ None \notin [s : Sessions, m : Manifests, n : Nat]

VARIABLES row,      \* block_upload_sessions
          slot,     \* block_upload_session_slots_by_user
          minted,   \* session ids that were drawn
          known,    \* sessions whose mint was answered
          aged,     \* sessions minted more than 48 hours ago
          staged,   \* block_upload_session_staged_blocks
          stored, pins, fsRefs, \* blocks, and what refers to them
          inflight, \* uploads each instance counts
          files,    \* what was published, and by which session
          req

blockVars == <<stored, pins, fsRefs>>
sessionVars == <<row, slot, minted, known, aged>>
vars == <<sessionVars, staged, blockVars, inflight, files, req>>

Slots == 0 .. MaxUncommittedBlockSessionsPerUser - 1
Names == 1 .. Cardinality(Reqs) + 2
File == [s : Sessions, m : Manifests, n : Names]
NoRow == [is |-> "absent", committed |-> FALSE, later |-> FALSE, digest |-> None, result |-> None, slot |-> None, expected |-> None]
Done == [at |-> "done", n |-> None, s |-> None, m |-> None, b |-> None, slot |-> None, size |-> None, file |-> None]

TypeOK ==
    /\ row \in [Sessions -> [is : {"absent", "part", "whole"}, committed : BOOLEAN, later : BOOLEAN, digest : Manifests \cup {None},
                             result : File \cup {None}, slot : Slots \cup {None}, expected : Nat \cup {None}]]
    /\ slot \in [Slots -> Sessions \cup {None}]
    /\ known \subseteq minted /\ minted \subseteq Sessions /\ aged \subseteq minted
    /\ staged \in [Sessions -> SUBSET Blocks] /\ pins \in [Blocks -> SUBSET Sessions]
    /\ stored \subseteq Blocks /\ fsRefs \subseteq Blocks
    /\ inflight \in [Nodes -> Nat] /\ files \subseteq File
    /\ \A q \in Reqs : /\ req[q].n \in Nodes \cup {None} /\ req[q].s \in Sessions \cup {None}
                       /\ req[q].m \in Manifests \cup {None} /\ req[q].b \in Blocks \cup {None}
                       /\ req[q].slot \in Slots \cup {None} /\ req[q].size \in Nat \cup {None} /\ req[q].file \in File \cup {None}

Goto(q, at) == req' = [req EXCEPT ![q].at = at]
End(q) == req' = [req EXCEPT ![q] = Done]
Answer(q, f) == req' = [req EXCEPT ![q] = [Done EXCEPT !.at = "answered", !.s = req[q].s, !.m = req[q].m, !.file = f]]

-----------------------------------------------------------------------------
(* Minting a session. *)

Ask(q, r) == req[q].at = "done" /\ req' = [req EXCEPT ![q] = r]

(* A size is required, and is at most the ceiling of a session. *)
CreateBlockUploadSession(q, s, n) ==
    /\ "create" \in Calls /\ s \notin minted
    /\ \E size \in 1 .. MaxStagedBlocksPerSession :
        /\ size \in {Cardinality(m) : m \in Manifests}
        /\ Ask(q, [Done EXCEPT !.at = "slot", !.n = n, !.s = s, !.slot = 0, !.size = size])
    /\ minted' = minted \cup {s}
    /\ UNCHANGED <<row, slot, known, aged, staged, blockVars, inflight, files>>

(* The slots are tried in order, each by an insert that does nothing when the row exists. *)
claimBlockUploadSessionSlot(q) ==
    /\ req[q].at = "slot"
    /\ LET k == req[q].slot IN
        IF slot[k] = None
        THEN slot' = [slot EXCEPT ![k] = req[q].s] /\ Goto(q, "insert")
        ELSE /\ UNCHANGED slot
             /\ IF k + 1 \in Slots THEN req' = [req EXCEPT ![q].slot = k + 1] ELSE End(q)
    /\ UNCHANGED <<row, minted, known, aged, staged, blockVars, inflight, files>>

SessionRow(q) == [NoRow EXCEPT !.is = "whole", !.slot = req[q].slot, !.expected = req[q].size]

(* A failed insert may have been applied; the slot is given back. *)
CreateAdmittedBlockUploadSession(q) ==
    /\ req[q].at = "insert"
    /\ \/ /\ row' = [row EXCEPT ![req[q].s] = SessionRow(q)]
          /\ known' = known \cup {req[q].s} /\ End(q)
       \/ /\ "insert" \in Faults /\ UNCHANGED known /\ Goto(q, "unslot")
          /\ row' \in {row, [row EXCEPT ![req[q].s] = SessionRow(q)]}
    /\ UNCHANGED <<slot, minted, aged, staged, blockVars, inflight, files>>

(* A mutant: the slot is deleted whoever holds it. *)
deleteSlot(k, s) == [slot EXCEPT ![k] = None]
releaseBlockUploadSessionSlot(k, s) == IF slot[k] = s THEN [slot EXCEPT ![k] = None] ELSE slot

RollBackSlot(q) ==
    /\ req[q].at = "unslot"
    /\ slot' \in {releaseBlockUploadSessionSlot(req[q].slot, req[q].s)} \cup (IF "slot" \in Faults THEN {slot} ELSE {})
    /\ End(q)
    /\ UNCHANGED <<row, minted, known, aged, staged, blockVars, inflight, files>>

-----------------------------------------------------------------------------
(* Uploading a block. *)

Usable(s) == row[s].is = "whole" /\ ~row[s].committed

(* resolveUploadSession: the permission of the user may also refuse it. *)
UploadBlock(q, s, b, n) ==
    /\ "upload" \in Calls /\ s \in known /\ Usable(s)
    /\ Ask(q, [Done EXCEPT !.at = "admit", !.n = n, !.s = s, !.b = b])
    /\ UNCHANGED <<sessionVars, staged, blockVars, inflight, files>>

tryAcquire(q) ==
    /\ req[q].at = "admit"
    /\ LET n == req[q].n IN
        IF inflight[n] >= MaxConcurrentBlockUploadsPerUser
        THEN End(q) /\ UNCHANGED inflight
        ELSE Goto(q, "probe") /\ inflight' = [inflight EXCEPT ![n] = @ + 1]
    /\ UNCHANGED <<sessionVars, staged, blockVars, files>>

release(n) == [inflight EXCEPT ![n] = IF @ <= 1 THEN 0 ELSE @ - 1]

(* Metadata, an object, and something that refers to the block. *)
ProbeBlockReuse(b) == b \in stored /\ (pins[b] # {} \/ b \in fsRefs)

(* A block that is there needs no write, and no entry of the ledger. *)
StoreUploadedBlockForProbe(q) ==
    /\ req[q].at = "probe"
    /\ Goto(q, IF ProbeBlockReuse(req[q].b) THEN "register" ELSE "count")
    /\ UNCHANGED <<sessionVars, staged, blockVars, inflight, files>>

(* The number of buckets and the cap of one, from the ceiling of a session. *)
StagedBlockBuckets == 64
StagedBucketCount == IF MaxStagedBlocksPerSession < StagedBlockBuckets THEN MaxStagedBlocksPerSession ELSE StagedBlockBuckets
StagedBucketCap == 2 * ((MaxStagedBlocksPerSession + StagedBucketCount - 1) \div StagedBucketCount) + 3

StagedBlockBucket(b) == b % StagedBucketCount
StagedInBucket(s, k) == {b \in staged[s] : StagedBlockBucket(b) = k}

CountAdmits(s, b) == Cardinality(StagedInBucket(s, StagedBlockBucket(b))) < StagedBucketCap

(* At the cap only a block that is in the ledger goes on. *)
CountSessionStagedBlocksInBucket(q) ==
    /\ req[q].at = "count"
    /\ IF CountAdmits(req[q].s, req[q].b) THEN Goto(q, "reserve") /\ UNCHANGED inflight
       ELSE IF req[q].b \in staged[req[q].s] THEN Goto(q, "register") /\ UNCHANGED inflight
       ELSE End(q) /\ inflight' = release(req[q].n)
    /\ UNCHANGED <<sessionVars, staged, blockVars, files>>

ReserveSessionStagedBlock(q) ==
    /\ req[q].at = "reserve"
    /\ staged' = [staged EXCEPT ![req[q].s] = @ \cup {req[q].b}]
    /\ Goto(q, "register")
    /\ UNCHANGED <<sessionVars, blockVars, inflight, files>>

(* The write, the reference of the session, the metadata; a block that is
   being deleted ends the upload. *)
materializeUploadedBlock(q) ==
    /\ req[q].at = "register"
    /\ stored' = stored \cup {req[q].b} /\ pins' = [pins EXCEPT ![req[q].b] = @ \cup {req[q].s}]
    /\ End(q) /\ inflight' = release(req[q].n)
    /\ UNCHANGED <<sessionVars, staged, fsRefs, files>>

(* The body, its hash, the quota, the store or the materialisation refuses it. *)
UploadRefused(q) ==
    /\ "refuse" \in Faults /\ req[q].at \in {"probe", "count", "reserve", "register"}
    /\ End(q) /\ inflight' = release(req[q].n)
    /\ UNCHANGED <<sessionVars, staged, blockVars, files>>

-----------------------------------------------------------------------------
(* Committing a manifest. *)

(* The session as it is read, and the answers that need no more than that. *)
CreateFileFromBlocks(q, s, m, n) ==
    /\ "commit" \in Calls /\ s \in known /\ row[s].is = "whole"
    /\ Cardinality(m) = row[s].expected
    /\ LET r == [Done EXCEPT !.n = n, !.s = s, !.m = m, !.slot = row[s].slot, !.size = row[s].expected] IN
        IF ~row[s].committed THEN Ask(q, [r EXCEPT !.at = "verify"])
        ELSE /\ row[s].digest = m
             /\ IF row[s].result # None
                THEN Ask(q, [Done EXCEPT !.at = "answered", !.s = s, !.m = m, !.file = row[s].result])
                ELSE Ask(q, [r EXCEPT !.at = "wait"])
    /\ UNCHANGED <<sessionVars, staged, blockVars, inflight, files>>

(* The result of the request that is committing, if it comes in time. *)
ResultFor(s, m) == IF row[s].is # "absent" /\ row[s].result # None /\ row[s].digest = m THEN row[s].result ELSE None

(* Up to 50 reads: one finds the result, or the row gone or claimed for
   another manifest, or the time is over. *)
waitForBlockUploadResult(q) ==
    /\ req[q].at \in {"wait", "lost"}
    /\ LET f == ResultFor(req[q].s, req[q].m) IN
        \/ f # None /\ Answer(q, f)
        \/ f = None /\ IF req[q].at = "wait" THEN End(q) ELSE Goto(q, "conflict")
    /\ UNCHANGED <<sessionVars, staged, blockVars, inflight, files>>

classifyBlockUploadCommitConflict(q) ==
    /\ req[q].at = "conflict"
    /\ LET f == ResultFor(req[q].s, req[q].m) IN IF f # None THEN Answer(q, f) ELSE End(q)
    /\ UNCHANGED <<sessionVars, staged, blockVars, inflight, files>>

classifyBlockReferrerProvenance(s, b) == s \in pins[b] \/ b \in fsRefs
classifyBlockForCommit(s, b) == ProbeBlockReuse(b) /\ classifyBlockReferrerProvenance(s, b)

(* Every block must be stored, and be the session's or borrowed from a file. *)
verifyManifestBlocks(q) ==
    /\ req[q].at = "verify"
    /\ IF \A b \in req[q].m : classifyBlockForCommit(req[q].s, b) THEN Goto(q, "pin") ELSE End(q)
    /\ UNCHANGED <<sessionVars, staged, blockVars, inflight, files>>

ensureCommitBlockOwnLiveness(q) ==
    /\ req[q].at = "pin"
    /\ pins' = [b \in Blocks |-> IF b \in req[q].m THEN pins[b] \cup {req[q].s} ELSE pins[b]]
    /\ Goto(q, "claim")
    /\ UNCHANGED <<sessionVars, staged, stored, fsRefs, inflight, files>>

ClaimApplies(s) == row[s].is # "absent" /\ ~row[s].committed

Claimed(q) == [row EXCEPT ![req[q].s] = [@ EXCEPT !.committed = TRUE, !.later = TRUE, !.digest = req[q].m]]

(* An error answers the request, whether the claim was applied or not. *)
ClaimBlockUploadSessionForCommit(q) ==
    /\ req[q].at = "claim"
    /\ \/ ClaimApplies(req[q].s) /\ row' = Claimed(q) /\ Goto(q, "fence")
       \/ ~ClaimApplies(req[q].s) /\ UNCHANGED row /\ Goto(q, "lost")
       \/ /\ "claim" \in Faults /\ End(q)
          /\ row' = IF ClaimApplies(req[q].s) THEN Claimed(q) ELSE row
    /\ UNCHANGED <<slot, minted, known, aged, staged, blockVars, inflight, files>>

PublicationFence(m) == m \subseteq stored

validateCommitBlockPublicationFences(q) ==
    /\ req[q].at = "fence"
    /\ Goto(q, IF PublicationFence(req[q].m) THEN "head" ELSE "release")
    /\ UNCHANGED <<sessionVars, staged, blockVars, inflight, files>>

(* The name is made unique in the directory unless the file is replaced. *)
NewFile(q) ==
    LET same == {f \in files : f.m = req[q].m} IN
    [s |-> req[q].s, m |-> req[q].m, n |-> IF req[q].m \in Replacing THEN 1 ELSE Cardinality(same) + 1]

finalizeStoredUploadMetadata(q) ==
    /\ req[q].at = "head"
    /\ LET f == NewFile(q) IN
        \/ /\ files' = {g \in files : ~(g.m = f.m /\ g.n = f.n)} \cup {f}
           /\ fsRefs' = fsRefs \cup f.m
           /\ req' = [req EXCEPT ![q].at = "mark", ![q].file = f]
        \/ "finalize" \in Faults /\ Goto(q, "release") /\ UNCHANGED <<files, fsRefs>>
        \/ /\ "head" \in Faults /\ Goto(q, "release")
           /\ files' = {g \in files : ~(g.m = f.m /\ g.n = f.n)} \cup {f} /\ fsRefs' = fsRefs \cup f.m
    /\ UNCHANGED <<sessionVars, staged, stored, pins, inflight>>

(* An update without a condition: it makes a row where there is none. *)
Released(s) ==
    [row EXCEPT ![s] = IF @.is = "absent" THEN [NoRow EXCEPT !.is = "part", !.later = TRUE]
                       ELSE [@ EXCEPT !.committed = FALSE, !.later = TRUE]]

ReleaseBlockUploadSessionCommit(q) ==
    /\ req[q].at = "release"
    /\ row' \in {Released(req[q].s)} \cup (IF "release" \in Faults THEN {row} ELSE {})
    /\ End(q)
    /\ UNCHANGED <<slot, minted, known, aged, staged, blockVars, inflight, files>>

Marked(q) == [row EXCEPT ![req[q].s] = [NoRow EXCEPT !.is = "whole", !.committed = TRUE, !.digest = req[q].m, !.result = req[q].file,
                                        !.slot = req[q].slot, !.expected = req[q].size]]

(* The whole row is written again; after three failures the commit goes on without it. *)
MarkBlockUploadSessionCommitted(q) ==
    /\ req[q].at = "mark"
    /\ row' \in {Marked(q)} \cup (IF "mark" \in Faults THEN {row} ELSE {})
    /\ Goto(q, "cleanup")
    /\ UNCHANGED <<slot, minted, known, aged, staged, blockVars, inflight, files>>

CleanupCommittedBlockUploadSessionCaps(q) ==
    /\ req[q].at = "cleanup"
    /\ slot' \in {releaseBlockUploadSessionSlot(req[q].slot, req[q].s)} \cup (IF "slot" \in Faults THEN {slot} ELSE {})
    /\ Answer(q, req[q].file)
    /\ UNCHANGED <<row, minted, known, aged, staged, blockVars, inflight, files>>

Read(q) == /\ req[q].at = "answered" /\ End(q)
           /\ UNCHANGED <<sessionVars, staged, blockVars, inflight, files>>

-----------------------------------------------------------------------------
(* Time, other users, and crashes. *)

InFlight(s) == {q \in Reqs : req[q].s = s /\ req[q].at \notin {"done", "answered"}}

(* The slot and the cells of the mint; what was written again stays. *)
Expire(s) ==
    /\ "expire" \in Faults /\ s \in minted \ aged
    /\ \A q \in InFlight(s) : req[q].at \notin {"slot", "insert", "unslot"}
    /\ aged' = aged \cup {s}
    /\ slot' = [k \in Slots |-> IF slot[k] = s THEN None ELSE slot[k]]
    /\ row' = IF row[s].is # "whole" \/ row[s].result # None THEN row
              ELSE IF row[s].later THEN [row EXCEPT ![s].is = "part", ![s].slot = None, ![s].expected = None]
              ELSE [row EXCEPT ![s] = NoRow]
    /\ UNCHANGED <<minted, known, staged, blockVars, inflight, files, req>>

ExpireRest(s) ==
    /\ s \in aged /\ row[s].is # "absent"
    /\ row' = [row EXCEPT ![s] = NoRow]
    /\ UNCHANGED <<slot, minted, known, aged, staged, blockVars, inflight, files, req>>

(* References of a session are never older than its row, and a commit renews
   them: it lasts less than 48 hours. *)
ExpirePins(s) ==
    /\ s \in aged /\ \E b \in Blocks : s \in pins[b]
    /\ \A q \in InFlight(s) : req[q].at \notin {"claim", "fence", "head"}
    /\ pins' = [b \in Blocks |-> pins[b] \ {s}]
    /\ UNCHANGED <<sessionVars, staged, stored, fsRefs, inflight, files, req>>

(* A file that shared the block is deleted. *)
DropBorrowed(b) ==
    /\ b \in fsRefs /\ \A f \in files : b \notin f.m
    /\ fsRefs' = fsRefs \ {b}
    /\ UNCHANGED <<sessionVars, staged, stored, pins, inflight, files, req>>

Collect(b) ==
    /\ b \in stored /\ pins[b] = {} /\ b \notin fsRefs
    /\ stored' = stored \ {b}
    /\ UNCHANGED <<sessionVars, staged, pins, fsRefs, inflight, files, req>>

Crash(n) ==
    /\ "crash" \in Faults /\ \E q \in Reqs : req[q].n = n
    /\ req' = [q \in Reqs |-> IF req[q].n = n THEN Done ELSE req[q]]
    /\ inflight' = [inflight EXCEPT ![n] = 0]
    /\ UNCHANGED <<sessionVars, staged, blockVars, files>>

-----------------------------------------------------------------------------
Init ==
    /\ row = [s \in Sessions |-> NoRow] /\ slot = [k \in Slots |-> None]
    /\ minted = {} /\ known = {} /\ aged = {}
    /\ staged = [s \in Sessions |-> {}] /\ pins = [b \in Blocks |-> {}]
    /\ stored = Borrowed /\ fsRefs = Borrowed
    /\ inflight = [n \in Nodes |-> 0] /\ files = {}
    /\ req = [q \in Reqs |-> Done]

Step(q) ==
    \/ claimBlockUploadSessionSlot(q) \/ CreateAdmittedBlockUploadSession(q) \/ RollBackSlot(q)
    \/ tryAcquire(q) \/ StoreUploadedBlockForProbe(q) \/ CountSessionStagedBlocksInBucket(q)
    \/ ReserveSessionStagedBlock(q) \/ materializeUploadedBlock(q) \/ UploadRefused(q)
    \/ waitForBlockUploadResult(q) \/ classifyBlockUploadCommitConflict(q)
    \/ verifyManifestBlocks(q) \/ ensureCommitBlockOwnLiveness(q) \/ ClaimBlockUploadSessionForCommit(q)
    \/ validateCommitBlockPublicationFences(q) \/ finalizeStoredUploadMetadata(q)
    \/ ReleaseBlockUploadSessionCommit(q) \/ MarkBlockUploadSessionCommitted(q)
    \/ CleanupCommittedBlockUploadSessionCaps(q) \/ Read(q)

Next ==
    \/ \E q \in Reqs : Step(q)
    \/ \E q \in Reqs, s \in Sessions, n \in Nodes :
        \/ CreateBlockUploadSession(q, s, n)
        \/ \E b \in Blocks : UploadBlock(q, s, b, n)
        \/ \E m \in Manifests : CreateFileFromBlocks(q, s, m, n)
    \/ \E s \in Sessions : Expire(s) \/ ExpireRest(s) \/ ExpirePins(s)
    \/ \E b \in Blocks : DropBorrowed(b) \/ Collect(b)
    \/ \E n \in Nodes : Crash(n)

Spec == Init /\ [][Next]_vars

-----------------------------------------------------------------------------
(* One request at most is publishing for a session, whatever was claimed,
   given back, expired or lost in between: ClaimBlockUploadSessionForCommit is
   conditional, ReleaseBlockUploadSessionCommit is not. *)
OneCommitter ==
    \A s \in Sessions : Cardinality({q \in Reqs : req[q].s = s /\ req[q].at \in {"fence", "head", "release", "mark"}}) <= 1

(* Commits of a session, retried or concurrent, make one file: no duplicate
   with another name (R7), also when a server dies between the publication and
   the record of its result. *)
OneFilePerSession == \A s \in Sessions : Cardinality({f \in files : f.s = s}) <= 1

(* The file a commit is answered with is the one its session published for its
   manifest: a request that waited for another never gets that one's file. *)
AnswerTrue ==
    \A q \in Reqs : req[q].at = "answered" =>
        req[q].file \in files /\ req[q].file.s = req[q].s /\ req[q].file.m = req[q].m

(* A user has no more sessions to upload to than slots: a slot is not given
   away while the session that took it can be used, though slots expire and a
   late commit gives back the one it remembers. *)
SessionsBounded == Cardinality({s \in known : Usable(s)}) <= MaxUncommittedBlockSessionsPerUser

(* The count of an instance is the number of its uploads: none is lost on a
   refusal or an error, where it would shut the user out. *)
InflightCounts ==
    \A n \in Nodes : inflight[n] = Cardinality({q \in Reqs : req[q].n = n /\ req[q].at \in {"probe", "count", "reserve", "register"}})

(* The ledger is counted and then written: uploads that run together may pass
   its cap, by no more than the uploads that may run. *)
StagedBounded ==
    \A s \in Sessions, k \in 0 .. StagedBucketCount - 1 :
        Cardinality(StagedInBucket(s, k)) <= StagedBucketCap + Cardinality(Nodes) * MaxConcurrentBlockUploadsPerUser - 1

(* No published file has a block that was collected, though blocks are
   verified long before, and some are borrowed from files that may go. *)
FilesStored == \A f \in files : f.m \subseteq stored
=============================================================================
