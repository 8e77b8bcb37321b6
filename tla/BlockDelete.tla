----------------------------- MODULE BlockDelete -----------------------------
(***************************************************************************)
(* Deletion of a block: the GC worker that claims the row, proves that     *)
(* nothing references the block, hands the delete over to the orphan table *)
(* and retires the row; and the orphan recoverer, the only one that        *)
(* deletes the S3 object.  Several workers and recoverers may run at once, *)
(* because a GC lease can be taken over while its old holder still runs.   *)
(*                                                                         *)
(* internal/gc/worker.go and internal/gc/store_cassandra.go                *)
(***************************************************************************)
EXTENDS BlockState

CONSTANTS
    Workers, Recoverers,
    Stamps,     \* candidate_at values of GC candidates
    NoStamp

ASSUME DeleteAssumption == NoStamp \notin Stamps

VARIABLES
    dkey,       \* authority -> the physical key it may delete
    orphan,     \* gc_s3_orphans, by authority
    root,       \* S3 orphan recovery roots, by authority
    life,       \* block delete lifecycle certificates, by authority
    cand,       \* block GC candidates, by physical key
    wpc, wkey, wauth, wcand, wscan,     \* workers
    rpc, rauth                          \* recoverers

tableVars == <<dkey, orphan, root, life>>
workerVars == <<wpc, wkey, wauth, wcand, wscan>>
recovererVars == <<rpc, rauth>>
deleteVars == <<tableVars, cand, workerVars, recovererVars>>

WorkerPC == {"idle", "stale", "claim", "settle_claim", "refs", "repairs",
             "unref", "unwind", "prepare", "orphan", "commit",
             "settle_commit", "promote", "publish", "finalize", "clear"}
RecovererPC == {"idle", "abort", "classify", "drop", "drop_root", "promote",
                "publish", "reread", "observe", "finalize", "reload", "delete_object",
                "mark", "terminate", "delete_orphan", "delete_root"}
OrphanState == {"none", "PREPARED", "pending_s3", "pending_mapping"}
LifePhase == {"none", "published", "terminal"}

DeleteInit ==
    /\ dkey = [d \in Auths |-> NoKey]
    /\ orphan = [d \in Auths |-> "none"]
    /\ root = {}
    /\ life = [d \in Auths |-> "none"]
    /\ cand = [k \in Keys |-> NoStamp]
    /\ wpc = [g \in Workers |-> "idle"]
    /\ wkey = [g \in Workers |-> NoKey]
    /\ wauth = [g \in Workers |-> NoAuth]
    /\ wcand = [g \in Workers |-> NoStamp]
    /\ wscan = [g \in Workers |-> {}]
    /\ rpc = [r \in Recoverers |-> "idle"]
    /\ rauth = [r \in Recoverers |-> NoAuth]

DeleteTypeOK ==
    /\ dkey \in [Auths -> Keys \cup {NoKey}]
    /\ orphan \in [Auths -> OrphanState]
    /\ root \subseteq Auths
    /\ life \in [Auths -> LifePhase]
    /\ cand \in [Keys -> Stamps \cup {NoStamp}]
    /\ wpc \in [Workers -> WorkerPC]
    /\ wkey \in [Workers -> Keys \cup {NoKey}]
    /\ wauth \in [Workers -> Auths \cup {NoAuth}]
    /\ wcand \in [Workers -> Stamps \cup {NoStamp}]
    /\ wscan \in [Workers -> SUBSET Attempts]
    /\ rpc \in [Recoverers -> RecovererPC]
    /\ rauth \in [Recoverers -> Auths \cup {NoAuth}]

-----------------------------------------------------------------------------
(* The exact authority on the row *)

\* The row is the exact authority d: its target and its claim id.
Owned(d) == row.key = dkey[d] /\ row.claim = d
OwnedUncommitted(d) == Owned(d) /\ ~row.handoff
OwnedCommitted(d) == Owned(d) /\ row.handoff

\* Mutant: the CAS does not test gc_orphan_handoff.
ClearClaimCommittedToo(d) == Owned(d) /\ row' = FreshRow(row.key)

\* UPDATE blocks ... IF exact authority AND gc_orphan_handoff = null: the CAS
\* of ReleaseBlockClaim and of AbortBlockDeleteHandoff.  Acknowledged at the
\* session's local consistency, so other DCs may keep reading the claim.
ClearClaim(d) == OwnedUncommitted(d) /\ row' = FreshRow(row.key)

-----------------------------------------------------------------------------
(* Candidates *)

\* A scanner or fs_object pass that read no reference ensures a candidate for
\* the key it reads from blocks(L).  By the time of the insert that key may be
\* retired.  An existing candidate is moved when the caller's clock is earlier.
EnsureBlockGCCandidate(k) ==
    /\ ReadsReference(FALSE)
    /\ row.key = k \/ \E d \in Auths : dkey[d] = k
    /\ \E t \in Stamps \ {cand[k]} :
        /\ \A g \in Workers : wcand[g] # t
        /\ cand' = [cand EXCEPT ![k] = t]
    /\ UNCHANGED <<stateVars, tableVars, workerVars, recovererVars>>

-----------------------------------------------------------------------------
(* The worker: processBlock, from the claim to the retired row *)

Goto(g, l) == wpc' = [wpc EXCEPT ![g] = l] /\ UNCHANGED <<wkey, wauth, wcand, wscan>>

\* processBlock returns: the item is completed, postponed or left untouched.
Return(g) ==
    /\ wpc' = [wpc EXCEPT ![g] = "idle"]
    /\ wkey' = [wkey EXCEPT ![g] = NoKey]
    /\ wauth' = [wauth EXCEPT ![g] = NoAuth]
    /\ wcand' = [wcand EXCEPT ![g] = NoStamp]
    /\ wscan' = [wscan EXCEPT ![g] = {}]

\* The exact candidate is read, then the references at local consistency.
ReadCandidate(g, k) ==
    /\ wpc[g] = "idle"
    /\ cand[k] # NoStamp
    /\ \E b \in BOOLEAN :
        /\ ReadsReference(b)
        /\ wpc' = [wpc EXCEPT ![g] = IF b THEN "stale" ELSE "claim"]
    /\ wkey' = [wkey EXCEPT ![g] = k]
    /\ wcand' = [wcand EXCEPT ![g] = cand[k]]
    /\ UNCHANGED <<stateVars, tableVars, cand, wauth, wscan, recovererVars>>

\* References were seen: only a claim older than the staleness limit may be
\* released.  How old a claim is is left open (clocks of two hosts).
ReleaseStaleBlockClaim(g) ==
    /\ wpc[g] = "stale"
    /\ \/ /\ row.claim = NoAuth                 \* no row, or no claim on it
          /\ Goto(g, "clear")
          /\ UNCHANGED row
       \/ /\ row.claim # NoAuth                 \* too fresh, or another key
          /\ ~(row.handoff /\ row.key = wkey[g])
          /\ Return(g)
          /\ UNCHANGED row
       \/ /\ row.key = wkey[g] /\ row.handoff   \* committed: go on with it
          /\ Goto(g, "claim")
          /\ UNCHANGED row
       \/ /\ row.key = wkey[g] /\ row.claim # NoAuth
          /\ ClearClaim(row.claim)
          /\ Goto(g, "clear")
    /\ UNCHANGED <<seen, obj, refVars, tableVars, cand, recovererVars>>

\* Another attempt's delete is committed: confirmed at EACH_QUORUM, it is
\* carried on under the authority that committed it.
AdoptCommittedOwner(g) ==
    /\ row.key = wkey[g] /\ row.handoff
    /\ seen' = VisibleEverywhere(row)
    /\ wauth' = [wauth EXCEPT ![g] = row.claim]
    /\ wpc' = [wpc EXCEPT ![g] = "promote"]
    /\ UNCHANGED <<row, wkey, wcand, wscan>>

\* A claim older than the staleness limit is released; the item waits.
TakeOverStaleBlockClaim(g) ==
    /\ row.key = wkey[g] /\ row.claim # NoAuth
    /\ ClearClaim(row.claim)
    /\ Return(g)
    /\ UNCHANGED seen

\* The row is not this worker's: what ClaimBlockDelete's classification makes
\* of it, after a CAS that did not apply and after a serial settlement.
ForeignClaim(g) ==
    \/ /\ row.key # wkey[g]                     \* TargetChanged, row missing
       /\ Goto(g, "clear")
       /\ UNCHANGED <<row, seen>>
    \/ /\ row.key = wkey[g] /\ ~row.handoff     \* FreshOwner, Ambiguous
       /\ Return(g)
       /\ UNCHANGED <<row, seen>>
    \/ AdoptCommittedOwner(g)
    \/ TakeOverStaleBlockClaim(g)

\* Mutant: the claim counts as acquired once the local DC acknowledged it.
AcquireClaimLocally(g, d) ==
    /\ dkey[d] = NoKey
    /\ row.key = wkey[g] /\ row.claim = NoAuth
    /\ row' = [key |-> row.key, claim |-> d, handoff |-> row.handoff]
    /\ dkey' = [dkey EXCEPT ![d] = wkey[g]]
    /\ wauth' = [wauth EXCEPT ![g] = d]
    /\ wpc' = [wpc EXCEPT ![g] = "refs"]
    /\ UNCHANGED <<seen, wkey, wcand, wscan>>

\* The CAS applies: acknowledged by every DC, or timed out on the client.
AcquireClaim(g, d) ==
    /\ dkey[d] = NoKey
    /\ row.key = wkey[g] /\ row.claim = NoAuth
    /\ row' = [key |-> row.key, claim |-> d, handoff |-> row.handoff]
    /\ dkey' = [dkey EXCEPT ![d] = wkey[g]]
    /\ wauth' = [wauth EXCEPT ![g] = d]
    /\ \/ /\ seen' = VisibleEverywhere(row')
          /\ wpc' = [wpc EXCEPT ![g] = "refs"]
       \/ /\ Timeout /\ UNCHANGED seen
          /\ wpc' = [wpc EXCEPT ![g] = "settle_claim"]
    /\ UNCHANGED <<wkey, wcand, wscan>>

\* BlockExists is a local read: a DC that does not show the row yet ends the
\* visit before the CAS.
ClaimBlockDelete(g) ==
    /\ wpc[g] = "claim"
    /\ \/ \E d \in Auths : AcquireClaim(g, d)
       \/ /\ \E dc \in DCs : seen[dc] = NoRow
          /\ Goto(g, "clear")
          /\ UNCHANGED <<row, seen, dkey>>
       \/ /\ ~(row.key = wkey[g] /\ row.claim = NoAuth)
          /\ ForeignClaim(g)
          /\ UNCHANGED dkey
    /\ UNCHANGED <<obj, refVars, orphan, root, life, cand, recovererVars>>

\* Mutant: the settled claim is not confirmed at EACH_QUORUM.
SettleBlockClaimUnconfirmed(g) ==
    /\ wpc[g] = "settle_claim"
    /\ \/ row.claim = wauth[g] /\ Goto(g, "refs") /\ UNCHANGED <<row, seen>>
       \/ row.claim # wauth[g] /\ ForeignClaim(g)
    /\ UNCHANGED <<obj, refVars, tableVars, cand, recovererVars>>

\* The claim's CAS timed out.  A SERIAL read settles it, and an own claim is
\* only Acquired once an EACH_QUORUM read has shown it.
SettleBlockClaim(g) ==
    /\ wpc[g] = "settle_claim"
    /\ \/ /\ row.claim = wauth[g]
          /\ seen' = VisibleEverywhere(row)
          /\ Goto(g, "refs")
          /\ UNCHANGED row
       \/ /\ row.claim # wauth[g]
          /\ ForeignClaim(g)
    /\ UNCHANGED <<obj, refVars, tableVars, cand, recovererVars>>

\* BlockPublicationLivenessGlobal: references, then the repair buckets one
\* after the other, then the references again, each read at EACH_QUORUM.
CheckReferences(g) ==
    /\ wpc[g] = "refs"
    /\ wpc' = [wpc EXCEPT ![g] = IF Referenced THEN "unref" ELSE "repairs"]
    /\ wscan' = [wscan EXCEPT ![g] = IF Referenced THEN {} ELSE Attempts]
    /\ UNCHANGED <<stateVars, tableVars, cand, wkey, wauth, wcand, recovererVars>>

ScanRepairBucket(g, a) ==
    /\ wpc[g] = "repairs"
    /\ a \in wscan[g]
    /\ wscan' = [wscan EXCEPT ![g] = IF a \in repairs THEN {} ELSE @ \ {a}]
    /\ wpc' = [wpc EXCEPT ![g] = IF a \in repairs THEN "unwind" ELSE @]
    /\ UNCHANGED <<stateVars, tableVars, cand, wkey, wauth, wcand, recovererVars>>

RecheckReferences(g) ==
    /\ wpc[g] = "repairs"
    /\ wscan[g] = {}
    /\ Goto(g, IF Referenced THEN "unref" ELSE "prepare")
    /\ UNCHANGED <<stateVars, tableVars, cand, recovererVars>>

\* A liveness read failed, or block info or the topology gate refused.
FailBeforeHandoff(g) ==
    /\ wpc[g] \in {"refs", "repairs", "prepare"}
    /\ wpc' = [wpc EXCEPT ![g] = "unwind"]
    /\ wscan' = [wscan EXCEPT ![g] = {}]
    /\ UNCHANGED <<stateVars, tableVars, cand, wkey, wauth, wcand, recovererVars>>

\* A reference was found: release the claim and, only if it was still ours,
\* settle the candidate.
ReleaseReferenced(g) ==
    /\ wpc[g] = "unref"
    /\ \/ /\ ClearClaim(wauth[g])
          /\ Goto(g, "clear")
       \/ /\ ~OwnedUncommitted(wauth[g])
          /\ Return(g)
          /\ UNCHANGED row
    /\ UNCHANGED <<seen, obj, refVars, tableVars, cand, recovererVars>>

\* A repair guards the block or a check failed: release and keep the item.
ReleaseAndPostpone(g) ==
    /\ wpc[g] = "unwind"
    /\ \/ ClearClaim(wauth[g])
       \/ ~OwnedUncommitted(wauth[g]) /\ UNCHANGED row
    /\ Return(g)
    /\ UNCHANGED <<seen, obj, refVars, tableVars, cand, recovererVars>>

\* The recovery root is published before the PREPARED orphan.
PrepareBlockDeleteOrphan(g) ==
    /\ wpc[g] = "prepare"
    /\ \/ /\ OwnedUncommitted(wauth[g])
          /\ root' = root \cup {wauth[g]}
          /\ Goto(g, "orphan")
       \/ /\ ~OwnedUncommitted(wauth[g])
          /\ Return(g)
          /\ UNCHANGED root
    /\ UNCHANGED <<stateVars, dkey, orphan, life, cand, recovererVars>>

InsertPreparedOrphan(g) ==
    /\ wpc[g] = "orphan"
    /\ orphan[wauth[g]] = "none"
    /\ orphan' = [orphan EXCEPT ![wauth[g]] = "PREPARED"]
    /\ Goto(g, "commit")
    /\ UNCHANGED <<stateVars, dkey, root, life, cand, recovererVars>>

\* Mutant: the CAS tests the target and that some claim is there, not whose.
CommitAnyClaim(g) ==
    /\ wpc[g] = "commit"
    /\ \/ /\ row.key = wkey[g] /\ row.claim # NoAuth /\ ~row.handoff
          /\ row' = [key |-> row.key, claim |-> row.claim, handoff |-> TRUE]
          /\ seen' = VisibleEverywhere(row')
          /\ Goto(g, "promote")
       \/ /\ ~OwnedUncommitted(wauth[g])
          /\ Return(g)
          /\ UNCHANGED <<row, seen>>
    /\ UNCHANGED <<obj, refVars, tableVars, cand, recovererVars>>

\* The irrevocable step: gc_orphan_handoff = true on the exact claim.
CommitBlockDeleteOrphanHandoff(g) ==
    /\ wpc[g] = "commit"
    /\ \/ /\ OwnedUncommitted(wauth[g])
          /\ row' = [key |-> row.key, claim |-> row.claim, handoff |-> TRUE]
          /\ \/ seen' = VisibleEverywhere(row') /\ Goto(g, "promote")
             \/ Timeout /\ UNCHANGED seen /\ Goto(g, "settle_commit")
       \/ /\ ~OwnedUncommitted(wauth[g])
          /\ Return(g)
          /\ UNCHANGED <<row, seen>>
    /\ UNCHANGED <<obj, refVars, tableVars, cand, recovererVars>>

SettleBlockDeleteHandoff(g) ==
    /\ wpc[g] = "settle_commit"
    /\ \/ /\ OwnedCommitted(wauth[g])
          /\ seen' = VisibleEverywhere(row)
          /\ Goto(g, "promote")
       \/ /\ ~OwnedCommitted(wauth[g])
          /\ Return(g)
          /\ UNCHANGED seen
    /\ UNCHANGED <<row, obj, refVars, tableVars, cand, recovererVars>>

-----------------------------------------------------------------------------
(* Store operations the worker and the recoverer share *)

\* PromoteBlockDeleteOrphan: the certificate first, then PREPARED to COMMITTED.
Promotable(d) == OwnedCommitted(d) /\ orphan[d] \in {"PREPARED", "pending_s3"}
                 /\ life[d] # "terminal"
InsertLifecycle(d) == life' = [life EXCEPT ![d] = "published"]
CommitOrphan(d) == orphan' = [orphan EXCEPT ![d] = "pending_s3"]

\* FinalizeBlockDelete: DELETE the row IF it is the exact committed authority;
\* otherwise the absent row's orphan and certificate say what happened.
Finalizable(d) == OwnedCommitted(d)
AlreadyFinalized(d) ==
    row.key # dkey[d] /\ orphan[d] # "none" /\ life[d] = "published"
AlreadyComplete(d) ==
    row.key # dkey[d] /\ orphan[d] # "none" /\ life[d] = "terminal"
RetireRow(d) == row' = IF Finalizable(d) THEN NoRow ELSE row

-----------------------------------------------------------------------------
(* The worker after the handoff *)

PromoteBlockDeleteOrphan(g) ==
    /\ wpc[g] = "promote"
    /\ \/ /\ Promotable(wauth[g])
          /\ InsertLifecycle(wauth[g])
          /\ Goto(g, IF orphan[wauth[g]] = "PREPARED" THEN "publish" ELSE "finalize")
       \/ /\ ~Promotable(wauth[g])
          /\ Return(g)
          /\ UNCHANGED life
    /\ UNCHANGED <<stateVars, dkey, orphan, root, cand, recovererVars>>

PublishCommittedOrphan(g) ==
    /\ wpc[g] = "publish"
    /\ \/ /\ orphan[wauth[g]] = "PREPARED"
          /\ CommitOrphan(wauth[g])
          /\ Goto(g, "finalize")
       \/ /\ orphan[wauth[g]] # "PREPARED"      \* a recoverer was faster
          /\ IF orphan[wauth[g]] # "none" /\ life[wauth[g]] = "published"
             THEN Goto(g, "finalize") ELSE Return(g)
          /\ UNCHANGED orphan
    /\ UNCHANGED <<stateVars, dkey, root, life, cand, recovererVars>>

FinalizeBlockDelete(g) ==
    /\ wpc[g] = "finalize"
    /\ RetireRow(wauth[g])
    /\ IF Finalizable(wauth[g]) \/ AlreadyFinalized(wauth[g]) \/ AlreadyComplete(wauth[g])
       THEN Goto(g, "clear") ELSE Return(g)
    /\ UNCHANGED <<seen, obj, refVars, tableVars, cand, recovererVars>>

\* DeleteBlockGCCandidate IF candidate_at is the one read at the start.
SettleBlockCandidate(g) ==
    /\ wpc[g] = "clear"
    /\ cand' = [cand EXCEPT ![wkey[g]] = IF @ = wcand[g] THEN NoStamp ELSE @]
    /\ Return(g)
    /\ UNCHANGED <<stateVars, tableVars, recovererVars>>

\* The process dies, or an error returns from processBlock, at any point.
CrashWorker(g) ==
    /\ "worker" \in Faults
    /\ wpc[g] # "idle"
    /\ Return(g)
    /\ UNCHANGED <<stateVars, tableVars, cand, recovererVars>>

WorkerStep(g) ==
    \/ \E k \in Keys : ReadCandidate(g, k)
    \/ ReleaseStaleBlockClaim(g)
    \/ ClaimBlockDelete(g)
    \/ SettleBlockClaim(g)
    \/ CheckReferences(g)
    \/ \E a \in Attempts : ScanRepairBucket(g, a)
    \/ RecheckReferences(g)
    \/ FailBeforeHandoff(g)
    \/ ReleaseReferenced(g)
    \/ ReleaseAndPostpone(g)
    \/ PrepareBlockDeleteOrphan(g)
    \/ InsertPreparedOrphan(g)
    \/ CommitBlockDeleteOrphanHandoff(g)
    \/ SettleBlockDeleteHandoff(g)
    \/ PromoteBlockDeleteOrphan(g)
    \/ PublishCommittedOrphan(g)
    \/ FinalizeBlockDelete(g)
    \/ SettleBlockCandidate(g)
-----------------------------------------------------------------------------
(* The recoverer: RecoverS3Orphans, one recovery root at a time *)

RGoto(r, l) == rpc' = [rpc EXCEPT ![r] = l] /\ UNCHANGED rauth

\* The root's visit ends: recovered, retained for a later pass, or failed.
RReturn(r) ==
    /\ rpc' = [rpc EXCEPT ![r] = "idle"]
    /\ rauth' = [rauth EXCEPT ![r] = NoAuth]

\* Where the phase of the canonical orphan row leads.
OrphanStep(d) ==
    CASE orphan[d] = "PREPARED" -> "abort"
      [] orphan[d] = "pending_s3" -> "observe"
      [] OTHER -> "terminate"

\* A root whose orphan row is gone is only finished if its certificate is
\* terminal; otherwise it is retained.
RecoverS3OrphanRoot(r, d) ==
    /\ rpc[r] = "idle"
    /\ d \in root
    /\ orphan[d] # "none" \/ life[d] = "terminal"
    /\ rauth' = [rauth EXCEPT ![r] = d]
    /\ rpc' = [rpc EXCEPT ![r] = OrphanStep(d)]
    /\ UNCHANGED <<stateVars, tableVars, cand, workerVars>>

\* Mutant: a committed handoff is left to its worker instead of promoted.
AbortLeavesCommitted(r) ==
    /\ rpc[r] = "abort"
    /\ LET d == rauth[r] IN
       \/ ClearClaim(d) /\ seen' = VisibleEverywhere(row') /\ RGoto(r, "drop")
       \/ OwnedCommitted(d) /\ RReturn(r) /\ UNCHANGED <<row, seen>>
       \/ ~Owned(d) /\ RReturn(r) /\ UNCHANGED <<row, seen>>
    /\ UNCHANGED <<obj, refVars, tableVars, cand, workerVars>>

\* AbortBlockDeleteHandoff revokes an uncommitted claim; a committed one is
\* promoted; a missing row proves nothing about the orphan, which is reread.
AbortBlockDeleteHandoff(r) ==
    /\ rpc[r] = "abort"
    /\ LET d == rauth[r] IN
       \/ /\ ClearClaim(d)                         \* acknowledged everywhere,
          /\ \/ seen' = VisibleEverywhere(row') /\ RGoto(r, "drop")
             \/ Timeout /\ UNCHANGED <<seen, recovererVars>>  \* or look again
       \/ OwnedCommitted(d) /\ RGoto(r, "promote") /\ UNCHANGED <<row, seen>>
       \/ row = NoRow /\ RGoto(r, "reread") /\ UNCHANGED <<row, seen>>
       \/ row # NoRow /\ ~Owned(d) /\ RGoto(r, "classify") /\ UNCHANGED <<row, seen>>
    /\ UNCHANGED <<obj, refVars, tableVars, cand, workerVars>>

\* Not the owner any more: the exact orphan row decides.
ClassifyPreparedOrphan(r) ==
    /\ rpc[r] = "classify"
    /\ CASE orphan[rauth[r]] = "PREPARED" -> RGoto(r, "drop")
         [] orphan[rauth[r]] = "none" -> RReturn(r)
         [] OTHER -> RGoto(r, "reread")
    /\ UNCHANGED <<stateVars, tableVars, cand, workerVars>>

\* DELETE the orphan IF it is PREPARED; a committed one is refused.
DeletePreparedBlockDeleteOrphan(r) ==
    /\ rpc[r] = "drop"
    /\ IF orphan[rauth[r]] \in {"PREPARED", "none"}
       THEN /\ orphan' = [orphan EXCEPT ![rauth[r]] = "none"]
            /\ RGoto(r, "drop_root")
       ELSE UNCHANGED orphan /\ RReturn(r)
    /\ UNCHANGED <<stateVars, dkey, root, life, cand, workerVars>>

\* The recovery root goes last.
DeleteS3OrphanRecoveryRoot(r) ==
    /\ rpc[r] \in {"drop_root", "delete_root"}
    /\ root' = root \ {rauth[r]}
    /\ RReturn(r)
    /\ UNCHANGED <<stateVars, dkey, orphan, life, cand, workerVars>>

RecoverPromote(r) ==
    /\ rpc[r] = "promote"
    /\ IF Promotable(rauth[r])
       THEN InsertLifecycle(rauth[r]) /\ RGoto(r, "publish")
       ELSE UNCHANGED life /\ RReturn(r)
    /\ UNCHANGED <<stateVars, dkey, orphan, root, cand, workerVars>>

RecoverPublish(r) ==
    /\ rpc[r] = "publish"
    /\ IF orphan[rauth[r]] = "PREPARED"
       THEN CommitOrphan(rauth[r]) /\ RGoto(r, "reread")
       ELSE /\ UNCHANGED orphan
            /\ IF orphan[rauth[r]] # "none" /\ life[rauth[r]] = "published"
               THEN RGoto(r, "reread") ELSE RReturn(r)
    /\ UNCHANGED <<stateVars, dkey, root, life, cand, workerVars>>

\* Once the PREPARED row is dealt with, only a COMMITTED one is worked on.
RereadOrphan(r) ==
    /\ rpc[r] = "reread"
    /\ IF orphan[rauth[r]] \in {"PREPARED", "none"}
       THEN RReturn(r) ELSE RGoto(r, OrphanStep(rauth[r]))
    /\ UNCHANGED <<stateVars, tableVars, cand, workerVars>>

ObserveBlockDeleteLifecycle(r) ==
    /\ rpc[r] = "observe"
    /\ CASE life[rauth[r]] = "published" -> RGoto(r, "finalize")
         [] life[rauth[r]] = "terminal" /\ orphan[rauth[r]] = "pending_s3" -> RGoto(r, "terminate")
         [] OTHER -> RReturn(r)
    /\ UNCHANGED <<stateVars, tableVars, cand, workerVars>>

RecoverFinalize(r) ==
    /\ rpc[r] = "finalize"
    /\ RetireRow(rauth[r])
    /\ IF Finalizable(rauth[r]) \/ AlreadyFinalized(rauth[r])
       THEN RGoto(r, "reload") ELSE RReturn(r)
    /\ UNCHANGED <<seen, obj, refVars, tableVars, cand, workerVars>>

\* The orphan row must not have moved since it was first read.
ReloadCanonical(r) ==
    /\ rpc[r] = "reload"
    /\ IF orphan[rauth[r]] = "pending_s3" THEN RGoto(r, "delete_object") ELSE RReturn(r)
    /\ UNCHANGED <<stateVars, tableVars, cand, workerVars>>

\* A failed S3 delete is a crash of this visit: the orphan row stays.
DeleteBlockByStorageKey(r) ==
    /\ rpc[r] = "delete_object"
    /\ obj' = obj \ {dkey[rauth[r]]}
    /\ RGoto(r, "mark")
    /\ UNCHANGED <<row, seen, refVars, tableVars, cand, workerVars>>

\* UPDATE ... IF EXISTS: an orphan row another recoverer removed stays removed.
MarkS3OrphanMappingCleanupPending(r) ==
    /\ rpc[r] = "mark"
    /\ orphan' = [orphan EXCEPT ![rauth[r]] = IF @ = "none" THEN @ ELSE "pending_mapping"]
    /\ RGoto(r, "terminate")
    /\ UNCHANGED <<stateVars, dkey, root, life, cand, workerVars>>

TerminateBlockDeleteLifecycle(r) ==
    /\ rpc[r] = "terminate"
    /\ IF life[rauth[r]] # "none"
       THEN /\ life' = [life EXCEPT ![rauth[r]] = "terminal"]
            /\ RGoto(r, "delete_orphan")
       ELSE UNCHANGED life /\ RReturn(r)
    /\ UNCHANGED <<stateVars, dkey, orphan, root, cand, workerVars>>

\* An orphan row already gone needs the recovery root as its token.
DeleteS3Orphan(r) ==
    /\ rpc[r] = "delete_orphan"
    /\ orphan' = [orphan EXCEPT ![rauth[r]] = "none"]
    /\ IF orphan[rauth[r]] # "none" \/ rauth[r] \in root
       THEN RGoto(r, "delete_root") ELSE RReturn(r)
    /\ UNCHANGED <<stateVars, dkey, root, life, cand, workerVars>>

CrashRecoverer(r) ==
    /\ "recoverer" \in Faults
    /\ rpc[r] # "idle"
    /\ RReturn(r)
    /\ UNCHANGED <<stateVars, tableVars, cand, workerVars>>

RecovererStep(r) ==
    \/ \E d \in Auths : RecoverS3OrphanRoot(r, d)
    \/ AbortBlockDeleteHandoff(r)
    \/ ClassifyPreparedOrphan(r)
    \/ DeletePreparedBlockDeleteOrphan(r)
    \/ DeleteS3OrphanRecoveryRoot(r)
    \/ RecoverPromote(r)
    \/ RecoverPublish(r)
    \/ RereadOrphan(r)
    \/ ObserveBlockDeleteLifecycle(r)
    \/ RecoverFinalize(r)
    \/ ReloadCanonical(r)
    \/ DeleteBlockByStorageKey(r)
    \/ MarkS3OrphanMappingCleanupPending(r)
    \/ TerminateBlockDeleteLifecycle(r)
    \/ DeleteS3Orphan(r)

DeleteNext ==
    \/ \E k \in Keys : EnsureBlockGCCandidate(k)
    \/ \E g \in Workers : WorkerStep(g) \/ CrashWorker(g)
    \/ \E r \in Recoverers : RecovererStep(r) \/ CrashRecoverer(r)
=============================================================================
