------------------------ MODULE BlockLifecycleProofs ------------------------
(***************************************************************************)
(* BlockLifecycle, for every number of keys, authorities, workers,         *)
(* recoverers, writers, attempts and datacenters: its types; its safety,   *)
(* what a claim, a minted key, a retired key and a committed handoff may   *)
(* rely on; and publication against deletion, where a published commit is  *)
(* pinned, a condemned key is fenced in every datacenter, and content that *)
(* HEAD reaches can be read.                                               *)
(***************************************************************************)
EXTENDS BlockLifecycle, TLAPS

-----------------------------------------------------------------------------
(* The inductive strengthening of TypeOK: program counters and their data *)

\* Only the absent row is without a key, and a handoff has an owner.
WellFormed(r) == (r.key = NoKey => r = NoRow) /\ (r.handoff => r.claim # NoAuth)

\* The row, and what any datacenter shows of it.
RowInv == WellFormed(row) /\ \A dc \in DCs : WellFormed(seen[dc])

\* A worker that holds an item has its key, and one past the claim an authority.
WorkerInv ==
    \A g \in Workers :
        /\ wpc[g] # "idle" => wkey[g] \in Keys
        /\ wpc[g] \notin {"idle", "stale", "claim", "clear"} => wauth[g] \in Auths

\* A recoverer on a visit has an authority.
RecovererInv == \A r \in Recoverers : rpc[r] # "idle" => rauth[r] \in Auths

\* A writer that has probed has a key, and one that has staged an attempt.
WriterInv ==
    \A w \in Writers :
        /\ pc[w] \notin {"probe", "done"} => key[w] \in Keys
        /\ pc[w] \in {"queue", "validate", "head", "settle_head", "conflict_refs",
                      "conflict_repair", "abort_refs", "abort_repair",
                      "promote", "unpin", "clear"} => att[w] \in Attempts

\* The inductive strengthening of TypeOK.
TInv == TypeOK /\ RowInv /\ WorkerInv /\ RecovererInv /\ WriterInv

\* The part of it that is about the row and what the datacenters show of it.
RowsOK == row \in Row /\ seen \in [DCs -> Row] /\ RowInv

-----------------------------------------------------------------------------
\* TInv holds initially.
LEMMA InitTInv == Init => TInv
  <1> SUFFICES ASSUME Init PROVE TInv
    OBVIOUS
  <1> USE StateAssumption, DeleteAssumption, PublishAssumption
      DEF Init, StateInit, DeleteInit, PublishInit
  <1>1. StateTypeOK
    BY DEF StateTypeOK, Row, FreshRow, VisibleEverywhere
  <1>2. DeleteTypeOK
    BY DEF DeleteTypeOK, OrphanState, LifePhase, WorkerPC, RecovererPC
  <1>3. PublishTypeOK
    BY DEF PublishTypeOK, WriterPC, SweepPC
  <1>4. RowInv
    BY DEF RowInv, WellFormed, FreshRow, NoRow, VisibleEverywhere
  <1>5. WorkerInv /\ RecovererInv /\ WriterInv
    BY DEF WorkerInv, RecovererInv, WriterInv
  <1> QED
    BY <1>1, <1>2, <1>3, <1>4, <1>5 DEF TInv, TypeOK

\* A row without a claim has its type and is well formed.
LEMMA FreshRowOK ==
    ASSUME NEW k \in Keys \cup {NoKey}
    PROVE  FreshRow(k) \in Row /\ WellFormed(FreshRow(k))
  BY DEF FreshRow, Row, WellFormed, NoRow

\* The CAS of ReleaseBlockClaim and AbortBlockDeleteHandoff leaves such a row.
LEMMA ClearClaimOK ==
    ASSUME NEW d, ClearClaim(d), row \in Row
    PROVE  row' \in Row /\ WellFormed(row')
  <1>1. row.key \in Keys \cup {NoKey}
    BY DEF Row
  <1> QED
    BY <1>1, FreshRowOK DEF ClearClaim

\* What a worker does on a row that is not its own keeps the rows well formed.
LEMMA ForeignClaimOK ==
    ASSUME NEW g \in Workers, TInv, ForeignClaim(g)
    PROVE  RowsOK'
  <1> USE DEF TInv, TypeOK, StateTypeOK, RowInv, RowsOK
  <1>1. CASE AdoptCommittedOwner(g)
    BY <1>1 DEF AdoptCommittedOwner, VisibleEverywhere
  <1>2. CASE TakeOverStaleBlockClaim(g)
    BY <1>2, ClearClaimOK DEF TakeOverStaleBlockClaim
  <1> QED
    BY <1>1, <1>2 DEF ForeignClaim

\* The claim CAS of ClaimBlockDelete keeps the rows well formed.
LEMMA AcquireClaimOK ==
    ASSUME NEW g \in Workers, NEW d \in Auths, TInv, wpc[g] = "claim", AcquireClaim(g, d)
    PROVE  RowsOK'
  <1> USE DEF TInv, TypeOK, StateTypeOK, RowInv, RowsOK
  <1>1. row' \in Row
    BY DEF AcquireClaim, Row
  <1>2. row.key \in Keys /\ ~row.handoff
    BY DEF AcquireClaim, WorkerInv, WellFormed, Row
  <1>3. WellFormed(row')
    BY <1>2, StateAssumption DEF AcquireClaim, WellFormed
  <1> QED
    BY <1>1, <1>3 DEF AcquireClaim, VisibleEverywhere

\* The handoff CAS sets gc_orphan_handoff only on a row that has an owner.
LEMMA CommitOK ==
    ASSUME NEW g \in Workers, TInv, CommitBlockDeleteOrphanHandoff(g)
    PROVE  RowsOK'
  <1> USE DEF TInv, TypeOK, StateTypeOK, RowInv, RowsOK
  <1>1. CASE OwnedUncommitted(wauth[g]) /\ row' = [key |-> row.key, claim |-> row.claim, handoff |-> TRUE]
    <2>1. row' \in Row
      BY <1>1 DEF Row
    <2>2. row.claim \in Auths
      BY <1>1 DEF OwnedUncommitted, Owned, WorkerInv, CommitBlockDeleteOrphanHandoff
    <2>3. WellFormed(row')
      BY <1>1, <2>2, StateAssumption DEF WellFormed, NoRow
    <2> QED
      BY <2>1, <2>3 DEF VisibleEverywhere, CommitBlockDeleteOrphanHandoff
  <1> QED
    BY <1>1 DEF CommitBlockDeleteOrphanHandoff

\* Every step of a worker keeps the rows well formed.
LEMMA WorkerRowsOK ==
    ASSUME NEW g \in Workers, TInv, WorkerStep(g)
    PROVE  RowsOK'
  <1> USE DEF TInv, TypeOK, StateTypeOK, RowInv, RowsOK, stateVars, refVars
  <1>1. CASE ReleaseStaleBlockClaim(g)
    BY <1>1, ClearClaimOK DEF ReleaseStaleBlockClaim
  <1>2. CASE ClaimBlockDelete(g)
    BY <1>2, AcquireClaimOK, ForeignClaimOK DEF ClaimBlockDelete
  <1>3. CASE SettleBlockClaim(g)
    BY <1>3, ForeignClaimOK DEF SettleBlockClaim, VisibleEverywhere
  <1>4. CASE ReleaseReferenced(g)
    BY <1>4, ClearClaimOK DEF ReleaseReferenced
  <1>5. CASE ReleaseAndPostpone(g)
    BY <1>5, ClearClaimOK DEF ReleaseAndPostpone
  <1>6. CASE CommitBlockDeleteOrphanHandoff(g)
    BY <1>6, CommitOK
  <1>7. CASE SettleBlockDeleteHandoff(g)
    BY <1>7 DEF SettleBlockDeleteHandoff, VisibleEverywhere
  <1>8. CASE FinalizeBlockDelete(g)
    BY <1>8, FreshRowOK DEF FinalizeBlockDelete, RetireRow, FreshRow, NoRow
  <1>9. CASE \/ \E k \in Keys : ReadCandidate(g, k)
             \/ CheckReferences(g) \/ (\E a \in Attempts : ScanRepairBucket(g, a))
             \/ RecheckReferences(g) \/ FailBeforeHandoff(g) \/ PrepareBlockDeleteOrphan(g)
             \/ InsertPreparedOrphan(g) \/ PromoteBlockDeleteOrphan(g)
             \/ PublishCommittedOrphan(g) \/ SettleBlockCandidate(g)
    BY <1>9 DEF ReadCandidate, CheckReferences, ScanRepairBucket, RecheckReferences,
                FailBeforeHandoff, PrepareBlockDeleteOrphan, InsertPreparedOrphan,
                PromoteBlockDeleteOrphan, PublishCommittedOrphan, SettleBlockCandidate
  <1> QED
    BY <1>1, <1>2, <1>3, <1>4, <1>5, <1>6, <1>7, <1>8, <1>9 DEF WorkerStep

\* Every step of a recoverer keeps the rows well formed.
LEMMA RecovererRowsOK ==
    ASSUME NEW r \in Recoverers, TInv, RecovererStep(r)
    PROVE  RowsOK'
  <1> USE DEF TInv, TypeOK, StateTypeOK, RowInv, RowsOK, stateVars, refVars
  <1>1. CASE AbortBlockDeleteHandoff(r)
    BY <1>1, ClearClaimOK DEF AbortBlockDeleteHandoff, VisibleEverywhere
  <1>2. CASE RecoverFinalize(r)
    BY <1>2, FreshRowOK DEF RecoverFinalize, RetireRow, FreshRow, NoRow
  <1>3. CASE \/ \E d \in Auths : RecoverS3OrphanRoot(r, d)
             \/ ClassifyPreparedOrphan(r) \/ DeletePreparedBlockDeleteOrphan(r)
             \/ DeleteS3OrphanRecoveryRoot(r) \/ RecoverPromote(r) \/ RecoverPublish(r)
             \/ RereadOrphan(r) \/ ObserveBlockDeleteLifecycle(r) \/ ReloadCanonical(r)
             \/ DeleteBlockByStorageKey(r) \/ MarkS3OrphanMappingCleanupPending(r)
             \/ TerminateBlockDeleteLifecycle(r) \/ DeleteS3Orphan(r)
    BY <1>3 DEF RecoverS3OrphanRoot, ClassifyPreparedOrphan, DeletePreparedBlockDeleteOrphan,
                DeleteS3OrphanRecoveryRoot, RecoverPromote, RecoverPublish, RereadOrphan,
                ObserveBlockDeleteLifecycle, ReloadCanonical, DeleteBlockByStorageKey,
                MarkS3OrphanMappingCleanupPending, TerminateBlockDeleteLifecycle, DeleteS3Orphan
  <1> QED
    BY <1>1, <1>2, <1>3 DEF RecovererStep

\* The INSTALL of a writer keeps the rows well formed.
LEMMA InstallOK ==
    ASSUME NEW w \in Writers, TInv, InstallBlockMetadata(w)
    PROVE  RowsOK'
  <1> USE DEF TInv, TypeOK, StateTypeOK, RowInv, RowsOK
  <1>1. CASE row' = FreshRow(key[w])
    <2>1. row' \in Row /\ WellFormed(row')
      BY <1>1, FreshRowOK DEF PublishTypeOK
    <2> QED
      BY <2>1 DEF InstallBlockMetadata
  <1> QED
    BY <1>1 DEF InstallBlockMetadata

\* Every step of the publication side keeps the rows well formed.
LEMMA PublishRowsOK ==
    ASSUME TInv, PublishNext
    PROVE  RowsOK'
  <1> USE DEF TInv, TypeOK, StateTypeOK, RowInv, RowsOK, stateVars, refVars
  <1>1. ASSUME NEW w \in Writers, WriterStep(w) PROVE RowsOK'
    <2>1. CASE InstallBlockMetadata(w)
      BY <2>1, InstallOK
    <2>2. CASE \/ \E k \in Keys : ProbeRowless(w, k)
               \/ ProbeRow(w) \/ ValidateRepairAuthority(w) \/ PutObject(w)
               \/ VerifyManifestBlock(w) \/ AddProvisionalReference(w)
               \/ CheckDeleteFence(w) \/ SettleInstalledBlockMetadata(w)
               \/ CleanupFreshInstallTarget(w) \/ RepairBlockMetadataIfCurrent(w)
               \/ ConfirmMaterialization(w)
      BY <2>2 DEF ProbeRowless, ProbeRow, ValidateRepairAuthority, PutObject,
                  VerifyManifestBlock, AddProvisionalReference, CheckDeleteFence,
                  SettleInstalledBlockMetadata, CleanupFreshInstallTarget,
                  RepairBlockMetadataIfCurrent, ConfirmMaterialization
    <2>3. CASE \/ \E a \in Attempts : StagePublishAttempt(w, a)
               \/ QueueDurableRepair(w) \/ ValidatePublicationFence(w)
               \/ UpdateLibraryHead(w) \/ ResolveHeadUpdate(w)
               \/ CleanupFailedPublishAttempt(w) \/ ClearFailedRepair(w)
               \/ PromoteReference(w) \/ RemovePublishAttemptReference(w)
               \/ ClearPublishedRepair(w)
      BY <2>3 DEF StagePublishAttempt, QueueDurableRepair, ValidatePublicationFence,
                  UpdateLibraryHead, ResolveHeadUpdate, CleanupFailedPublishAttempt,
                  ClearFailedRepair, PromoteReference, RemovePublishAttemptReference,
                  ClearPublishedRepair
    <2> QED
      BY <1>1, <2>1, <2>2, <2>3 DEF WriterStep
  <1>2. ASSUME NEW w \in Writers, GiveUp(w) \/ ExpireUpReference(w) PROVE RowsOK'
    BY <1>2 DEF GiveUp, ExpireUpReference
  <1>3. ASSUME NEW a \in Attempts,
               SweepStep(a) \/ SweepCrash(a) \/ ExpirePubReference(a)
               \/ ExpireVersion(a) \/ RemoveFSObjectReference(a)
        PROVE  RowsOK'
    BY <1>3 DEF SweepStep, SweepReachable, SweepSuperseded, SweepRetained, SweepPromote,
                SweepUnpin, SweepClear, SweepCrash, ExpirePubReference, ExpireVersion,
                RemoveFSObjectReference
  <1> QED
    BY <1>1, <1>2, <1>3 DEF PublishNext

\* On a row that is not its own a worker ends, waits or adopts the committed owner.
LEMMA ForeignClaimData ==
    ASSUME NEW g \in Workers, TInv, wpc[g] # "idle", ForeignClaim(g),
           UNCHANGED <<tableVars, cand, recovererVars>>
    PROVE  DeleteTypeOK' /\ WorkerInv'
  <1> USE DEF TInv, TypeOK, DeleteTypeOK, WorkerInv, WorkerPC, Goto, Return,
              tableVars, recovererVars
  <1>1. CASE Goto(g, "clear")
    BY <1>1
  <1>2. CASE Return(g)
    BY <1>2
  <1>3. CASE AdoptCommittedOwner(g)
    <2>1. row.claim \in Auths
      BY <1>3 DEF AdoptCommittedOwner, StateTypeOK, RowInv, WellFormed, Row
    <2> QED
      BY <1>3, <2>1 DEF AdoptCommittedOwner
  <1> QED
    BY <1>1, <1>2, <1>3 DEF ForeignClaim, TakeOverStaleBlockClaim

\* A worker keeps its own data typed and leaves objects and references alone.
LEMMA WorkerDataOK ==
    ASSUME NEW g \in Workers, TInv, WorkerStep(g)
    PROVE  DeleteTypeOK' /\ WorkerInv' /\ UNCHANGED <<obj, refVars, recovererVars>>
  <1> DEFINE Goal == DeleteTypeOK' /\ WorkerInv' /\ UNCHANGED <<obj, refVars, recovererVars>>
  <1> USE DEF TInv, TypeOK, DeleteTypeOK, WorkerInv, WorkerPC, Goto, Return,
              stateVars, refVars, tableVars, recovererVars
  <1>1. ASSUME NEW k \in Keys, ReadCandidate(g, k) PROVE Goal
    BY <1>1 DEF ReadCandidate
  <1>2. CASE ReleaseStaleBlockClaim(g)
    BY <1>2 DEF ReleaseStaleBlockClaim
  <1>3. CASE ClaimBlockDelete(g)
    <2>1. ASSUME NEW d \in Auths, AcquireClaim(g, d),
                 UNCHANGED <<obj, refVars, orphan, root, life, cand, recovererVars>>
          PROVE  Goal
      BY <2>1, <1>3 DEF ClaimBlockDelete, AcquireClaim
    <2>2. CASE Goto(g, "clear") /\ UNCHANGED <<obj, refVars, tableVars, cand, recovererVars>>
      BY <2>2, <1>3 DEF ClaimBlockDelete
    <2>3. CASE ForeignClaim(g) /\ UNCHANGED <<obj, refVars, tableVars, cand, recovererVars>>
      BY <2>3, <1>3, ForeignClaimData DEF ClaimBlockDelete
    <2> QED
      BY <1>3, <2>1, <2>2, <2>3 DEF ClaimBlockDelete
  <1>4. CASE SettleBlockClaim(g)
    <2>1. CASE Goto(g, "refs")
      BY <2>1, <1>4 DEF SettleBlockClaim
    <2>2. CASE ForeignClaim(g)
      BY <2>2, <1>4, ForeignClaimData DEF SettleBlockClaim
    <2> QED
      BY <1>4, <2>1, <2>2 DEF SettleBlockClaim
  <1>5. CASE CheckReferences(g)
    BY <1>5 DEF CheckReferences
  <1>6. ASSUME NEW a \in Attempts, ScanRepairBucket(g, a) PROVE Goal
    BY <1>6 DEF ScanRepairBucket
  <1>7. CASE RecheckReferences(g)
    BY <1>7 DEF RecheckReferences
  <1>8. CASE FailBeforeHandoff(g)
    BY <1>8 DEF FailBeforeHandoff
  <1>9. CASE ReleaseReferenced(g)
    BY <1>9 DEF ReleaseReferenced
  <1>10. CASE ReleaseAndPostpone(g)
    BY <1>10 DEF ReleaseAndPostpone
  <1>11. CASE PrepareBlockDeleteOrphan(g)
    BY <1>11 DEF PrepareBlockDeleteOrphan
  <1>12. CASE InsertPreparedOrphan(g)
    BY <1>12 DEF InsertPreparedOrphan, OrphanState
  <1>13. CASE CommitBlockDeleteOrphanHandoff(g)
    BY <1>13 DEF CommitBlockDeleteOrphanHandoff
  <1>14. CASE SettleBlockDeleteHandoff(g)
    BY <1>14 DEF SettleBlockDeleteHandoff
  <1>15. CASE PromoteBlockDeleteOrphan(g)
    BY <1>15 DEF PromoteBlockDeleteOrphan, InsertLifecycle, LifePhase
  <1>16. CASE PublishCommittedOrphan(g)
    BY <1>16 DEF PublishCommittedOrphan, CommitOrphan, OrphanState
  <1>17. CASE FinalizeBlockDelete(g)
    BY <1>17 DEF FinalizeBlockDelete
  <1>18. CASE SettleBlockCandidate(g)
    BY <1>18 DEF SettleBlockCandidate
  <1> QED
    BY <1>1, <1>2, <1>3, <1>4, <1>5, <1>6, <1>7, <1>8, <1>9, <1>10, <1>11, <1>12, <1>13, <1>14, <1>15, <1>16, <1>17, <1>18 DEF WorkerStep

\* A recoverer keeps its own data typed and removes objects at most.
LEMMA RecovererDataOK ==
    ASSUME NEW r \in Recoverers, TInv, RecovererStep(r)
    PROVE  DeleteTypeOK' /\ RecovererInv' /\ obj' \subseteq obj /\ UNCHANGED <<refVars, workerVars>>
  <1> DEFINE Goal == /\ DeleteTypeOK' /\ RecovererInv' /\ obj' \subseteq obj
                     /\ UNCHANGED <<refVars, workerVars>>
  <1> USE DEF TInv, TypeOK, DeleteTypeOK, RecovererInv, RecovererPC, RGoto, RReturn,
              OrphanStep, stateVars, refVars, tableVars, workerVars, recovererVars
  <1>1. ASSUME NEW d \in Auths, RecoverS3OrphanRoot(r, d) PROVE Goal
    BY <1>1 DEF RecoverS3OrphanRoot
  <1>2. CASE AbortBlockDeleteHandoff(r)
    BY <1>2 DEF AbortBlockDeleteHandoff
  <1>3. CASE ClassifyPreparedOrphan(r)
    BY <1>3 DEF ClassifyPreparedOrphan
  <1>4. CASE DeletePreparedBlockDeleteOrphan(r)
    BY <1>4 DEF DeletePreparedBlockDeleteOrphan, OrphanState
  <1>5. CASE DeleteS3OrphanRecoveryRoot(r)
    BY <1>5 DEF DeleteS3OrphanRecoveryRoot
  <1>6. CASE RecoverPromote(r)
    BY <1>6 DEF RecoverPromote, InsertLifecycle, LifePhase
  <1>7. CASE RecoverPublish(r)
    BY <1>7 DEF RecoverPublish, CommitOrphan, OrphanState
  <1>8. CASE RereadOrphan(r)
    BY <1>8 DEF RereadOrphan
  <1>9. CASE ObserveBlockDeleteLifecycle(r)
    BY <1>9 DEF ObserveBlockDeleteLifecycle
  <1>10. CASE RecoverFinalize(r)
    BY <1>10 DEF RecoverFinalize
  <1>11. CASE ReloadCanonical(r)
    BY <1>11 DEF ReloadCanonical
  <1>12. CASE DeleteBlockByStorageKey(r)
    BY <1>12 DEF DeleteBlockByStorageKey
  <1>13. CASE MarkS3OrphanMappingCleanupPending(r)
    BY <1>13 DEF MarkS3OrphanMappingCleanupPending, OrphanState
  <1>14. CASE TerminateBlockDeleteLifecycle(r)
    BY <1>14 DEF TerminateBlockDeleteLifecycle, LifePhase
  <1>15. CASE DeleteS3Orphan(r)
    BY <1>15 DEF DeleteS3Orphan, OrphanState
  <1> QED
    BY <1>1, <1>2, <1>3, <1>4, <1>5, <1>6, <1>7, <1>8, <1>9, <1>10, <1>11, <1>12, <1>13, <1>14, <1>15 DEF RecovererStep

\* The objects and references have their types.
StoreOK == /\ obj \subseteq Keys
           /\ upRefs \subseteq Writers
           /\ pubRefs \cup fsRefs \cup repairs \subseteq Attempts

\* A row that shows no claim and is not the absent row names a key.
LEMMA ViewHasKey ==
    ASSUME TInv, NEW w \in Writers, View(w) # NoRow
    PROVE  View(w).key \in Keys
  BY StateAssumption DEF TInv, TypeOK, StateTypeOK, RowInv, View, WellFormed, Row

\* A request that ends or starts over forgets its key and its attempt.
LEMMA LeaveOK ==
    ASSUME NEW w \in Writers, TInv, NEW l \in {"probe", "done"}, Leave(w, l),
           UNCHANGED <<minted, headVars, spc>>
    PROVE  PublishTypeOK' /\ WriterInv'
  BY DEF TInv, TypeOK, PublishTypeOK, WriterInv, WriterPC, Leave, headVars

\* A writer stores, references and publishes only with a key and an attempt.
LEMMA WriterDataOK ==
    ASSUME NEW w \in Writers, TInv, WriterStep(w)
    PROVE  PublishTypeOK' /\ WriterInv' /\ StoreOK'
  <1> DEFINE Goal == PublishTypeOK' /\ WriterInv' /\ StoreOK'
  <1> USE DEF TInv, TypeOK, PublishTypeOK, WriterInv, StoreOK, StateTypeOK, WriterPC,
              stateVars, refVars, headVars
  <1>1. ASSUME NEW k \in Keys, ProbeRowless(w, k) PROVE Goal
    BY <1>1 DEF ProbeRowless
  <1>2. ASSUME NEW a \in Attempts, StagePublishAttempt(w, a) PROVE Goal
    BY <1>2 DEF StagePublishAttempt
  <1>3. CASE ProbeRow(w)
    BY <1>3, ViewHasKey DEF ProbeRow
  <1>4. CASE ValidateRepairAuthority(w)
    <2>1. CASE Leave(w, "probe")
      BY <1>4, <2>1, LeaveOK DEF ValidateRepairAuthority
    <2>2. CASE ~Leave(w, "probe")
      BY <1>4, <2>2 DEF ValidateRepairAuthority, Jump
    <2> QED
      BY <2>1, <2>2
  <1>5. CASE PutObject(w)
    BY <1>5 DEF PutObject, Jump
  <1>6. CASE VerifyManifestBlock(w)
    BY <1>6, ViewHasKey DEF VerifyManifestBlock
  <1>7. CASE AddProvisionalReference(w)
    BY <1>7 DEF AddProvisionalReference, Jump
  <1>8. CASE CheckDeleteFence(w)
    <2>1. CASE Leave(w, "probe")
      BY <1>8, <2>1, LeaveOK DEF CheckDeleteFence
    <2>2. CASE ~Leave(w, "probe")
      BY <1>8, <2>2 DEF CheckDeleteFence, Jump
    <2> QED
      BY <2>1, <2>2
  <1>9. CASE InstallBlockMetadata(w)
    BY <1>9 DEF InstallBlockMetadata, Jump
  <1>10. CASE SettleInstalledBlockMetadata(w)
    BY <1>10 DEF SettleInstalledBlockMetadata, Jump
  <1>11. CASE CleanupFreshInstallTarget(w)
    BY <1>11 DEF CleanupFreshInstallTarget, Leave
  <1>12. CASE RepairBlockMetadataIfCurrent(w)
    <2>1. CASE Leave(w, "probe")
      BY <1>12, <2>1, LeaveOK DEF RepairBlockMetadataIfCurrent
    <2>2. CASE ~Leave(w, "probe")
      BY <1>12, <2>2 DEF RepairBlockMetadataIfCurrent, Jump
    <2> QED
      BY <2>1, <2>2
  <1>13. CASE ConfirmMaterialization(w)
    <2>1. CASE View(w).claim # NoAuth
      BY <1>13, <2>1, LeaveOK DEF ConfirmMaterialization
    <2>2. CASE View(w).claim = NoAuth
      <3>1. View(w).key \in Keys
        BY <1>13, ViewHasKey DEF ConfirmMaterialization
      <3>2. \/ pc' = [pc EXCEPT ![w] = "stage"]
            \/ pc' = [pc EXCEPT ![w] = "reauthority"]
        BY <1>13, <2>2 DEF ConfirmMaterialization
      <3> QED
        BY <1>13, <2>2, <3>1, <3>2, ZenonT(40) DEF ConfirmMaterialization
    <2> QED
      BY <2>1, <2>2
  <1>14. CASE QueueDurableRepair(w)
    BY <1>14 DEF QueueDurableRepair, Jump
  <1>15. CASE ValidatePublicationFence(w)
    BY <1>15 DEF ValidatePublicationFence, Jump
  <1>16. CASE UpdateLibraryHead(w)
    BY <1>16 DEF UpdateLibraryHead, Jump
  <1>17. CASE ResolveHeadUpdate(w)
    <2>1. CASE Leave(w, "done")
      BY <1>17, <2>1, LeaveOK DEF ResolveHeadUpdate
    <2>2. CASE ~Leave(w, "done")
      BY <1>17, <2>2 DEF ResolveHeadUpdate, Jump
    <2> QED
      BY <2>1, <2>2
  <1>18. CASE CleanupFailedPublishAttempt(w)
    BY <1>18 DEF CleanupFailedPublishAttempt, Jump
  <1>19. CASE ClearFailedRepair(w)
    <2>1. CASE Leave(w, "done")
      BY <1>19, <2>1, LeaveOK DEF ClearFailedRepair
    <2>2. CASE ~Leave(w, "done")
      BY <1>19, <2>2 DEF ClearFailedRepair, Jump
    <2> QED
      BY <2>1, <2>2
  <1>20. CASE PromoteReference(w)
    BY <1>20 DEF PromoteReference, Jump
  <1>21. CASE RemovePublishAttemptReference(w)
    BY <1>21 DEF RemovePublishAttemptReference, Jump
  <1>22. CASE ClearPublishedRepair(w)
    BY <1>22 DEF ClearPublishedRepair, Leave
  <1> QED
    BY <1>1, <1>2, <1>3, <1>4, <1>5, <1>6, <1>7, <1>8, <1>9, <1>10, <1>11, <1>12, <1>13, <1>14, <1>15, <1>16, <1>17, <1>18, <1>19, <1>20, <1>21, <1>22 DEF WriterStep

\* Every step of the publication side keeps its data typed.
LEMMA PublishDataOK ==
    ASSUME TInv, PublishNext
    PROVE  PublishTypeOK' /\ WriterInv' /\ StoreOK'
  <1> DEFINE Goal == PublishTypeOK' /\ WriterInv' /\ StoreOK'
  <1> USE DEF TInv, TypeOK, PublishTypeOK, WriterInv, StoreOK, StateTypeOK, Leave,
              stateVars, refVars, headVars, writerVars, publishVars
  <1>1. ASSUME NEW w \in Writers, GiveUp(w) PROVE Goal
    BY <1>1 DEF GiveUp, WriterPC
  <1>2. ASSUME NEW w \in Writers, ExpireUpReference(w) PROVE Goal
    BY <1>2 DEF ExpireUpReference
  <1>3. ASSUME NEW a \in Attempts, SweepStep(a) \/ SweepCrash(a) PROVE Goal
    BY <1>3 DEF SweepStep, SweepReachable, SweepSuperseded, SweepRetained, SweepPromote,
                SweepUnpin, SweepClear, SweepCrash, SweepTo, SweepPC
  <1>4. ASSUME NEW a \in Attempts,
               ExpirePubReference(a) \/ ExpireVersion(a) \/ RemoveFSObjectReference(a)
        PROVE  Goal
    BY <1>4 DEF ExpirePubReference, ExpireVersion, RemoveFSObjectReference
  <1> QED
    BY WriterDataOK, <1>1, <1>2, <1>3, <1>4 DEF PublishNext

\* TInv is preserved by every step.
LEMMA NextTInv == TInv /\ [Next]_vars => TInv'
  <1> SUFFICES ASSUME TInv, [Next]_vars PROVE TInv'
    OBVIOUS
  <1> USE DEF TInv, TypeOK
  <1>1. ASSUME NEW g \in Workers, WorkerStep(g), UNCHANGED publishVars PROVE TInv'
    <2>1. StateTypeOK' /\ RowInv'
      BY <1>1, WorkerRowsOK, WorkerDataOK DEF StateTypeOK, RowsOK, refVars
    <2>2. DeleteTypeOK' /\ WorkerInv' /\ RecovererInv'
      BY <1>1, WorkerDataOK DEF RecovererInv, recovererVars
    <2>3. PublishTypeOK' /\ WriterInv'
      BY <1>1 DEF PublishTypeOK, WriterInv, publishVars, writerVars, headVars
    <2> QED
      BY <2>1, <2>2, <2>3
  <1>2. ASSUME NEW r \in Recoverers, RecovererStep(r), UNCHANGED publishVars PROVE TInv'
    <2>1. StateTypeOK' /\ RowInv'
      BY <1>2, RecovererRowsOK, RecovererDataOK DEF StateTypeOK, RowsOK, refVars
    <2>2. DeleteTypeOK' /\ WorkerInv' /\ RecovererInv'
      BY <1>2, RecovererDataOK DEF WorkerInv, workerVars
    <2>3. PublishTypeOK' /\ WriterInv'
      BY <1>2 DEF PublishTypeOK, WriterInv, publishVars, writerVars, headVars
    <2> QED
      BY <2>1, <2>2, <2>3
  <1>3. ASSUME NEW g \in Workers, CrashWorker(g), UNCHANGED publishVars PROVE TInv'
    BY <1>3 DEF CrashWorker, Return, StateTypeOK, DeleteTypeOK, PublishTypeOK, RowInv, WorkerInv,
                RecovererInv, WriterInv, WorkerPC, stateVars, tableVars, recovererVars,
                publishVars, writerVars, headVars
  <1>4. ASSUME NEW r \in Recoverers, CrashRecoverer(r), UNCHANGED publishVars PROVE TInv'
    BY <1>4 DEF CrashRecoverer, RReturn, StateTypeOK, DeleteTypeOK, PublishTypeOK, RowInv, WorkerInv,
                RecovererInv, WriterInv, RecovererPC, stateVars, tableVars, workerVars,
                publishVars, writerVars, headVars
  <1>5. ASSUME NEW k \in Keys, EnsureBlockGCCandidate(k), UNCHANGED publishVars PROVE TInv'
    BY <1>5 DEF EnsureBlockGCCandidate, StateTypeOK, DeleteTypeOK, PublishTypeOK, RowInv, WorkerInv,
                RecovererInv, WriterInv, stateVars, tableVars, workerVars, recovererVars,
                publishVars, writerVars, headVars
  <1>6. CASE PublishNext /\ UNCHANGED deleteVars
    <2>1. StateTypeOK' /\ RowInv' /\ PublishTypeOK' /\ WriterInv'
      BY <1>6, PublishRowsOK, PublishDataOK DEF StateTypeOK, RowsOK, StoreOK
    <2>2. DeleteTypeOK' /\ WorkerInv' /\ RecovererInv'
      BY <1>6 DEF DeleteTypeOK, WorkerInv, RecovererInv, deleteVars, tableVars, workerVars,
                  recovererVars
    <2> QED
      BY <2>1, <2>2
  <1>7. ASSUME NEW dc \in DCs, Replicate(dc), UNCHANGED <<deleteVars, publishVars>> PROVE TInv'
    BY <1>7 DEF Replicate, StateTypeOK, DeleteTypeOK, PublishTypeOK, RowInv, WorkerInv,
                RecovererInv, WriterInv, refVars, deleteVars, tableVars, workerVars,
                recovererVars, publishVars, writerVars, headVars
  <1>8. CASE UNCHANGED vars
    BY <1>8 DEF vars, StateTypeOK, DeleteTypeOK, PublishTypeOK, RowInv, WorkerInv,
                RecovererInv, WriterInv, stateVars, deleteVars, tableVars, workerVars,
                recovererVars, publishVars, writerVars, headVars
  <1> QED
    BY <1>1, <1>2, <1>3, <1>4, <1>5, <1>6, <1>7, <1>8 DEF Next, DeleteNext

\* The program counters and the data they stand for agree in every state.
THEOREM TInvInvariant == Spec => []TInv
  BY InitTInv, NextTInv, PTL DEF Spec

\* Type correctness: no object, reference or repair is ever written under NoKey
\* or NoAttempt, and no table under NoAuth.
THEOREM TypeCorrect == Spec => []TypeOK
  <1>1. TInv => TypeOK
    BY DEF TInv
  <1> QED
    BY TInvInvariant, <1>1, PTL

-----------------------------------------------------------------------------
(* The inductive strengthening of the safety invariants *)

\* An authority that the row, a table or a process knows has been bound to its
\* key, so that no claim mints it again; the row's claim is bound to the row's key.
AuthorityInv ==
    /\ row.claim # NoAuth => row.key = dkey[row.claim]
    /\ \A d \in Auths :
        d \in root \/ orphan[d] # "none" \/ life[d] # "none" => dkey[d] \in Keys
    /\ \A g \in Workers : wauth[g] \in Auths => dkey[wauth[g]] \in Keys
    /\ \A r \in Recoverers : rauth[r] \in Auths => dkey[rauth[r]] \in Keys

\* A writer between the mint of its key and the outcome of its INSTALL.
Minting(w) == fresh[w] /\ pc[w] \in {"put", "ref", "fence", "install", "settle_install", "lost"}

\* Keys are minted once: the one a writer has yet to install is no other
\* writer's, is not in the row and was never condemned.
MintInv ==
    /\ row.key \in minted \cup {NoKey}
    /\ \A d \in Auths : dkey[d] \in minted \cup {NoKey}
    /\ \A w \in Writers :
        /\ pc[w] \in {"install", "settle_install", "lost"} => fresh[w]
        /\ pc[w] = "authority" => ~fresh[w]
        /\ Minting(w) => key[w] \in minted
        /\ Minting(w) /\ pc[w] # "settle_install" => key[w] # row.key
        /\ Minting(w) /\ pc[w] \notin {"settle_install", "lost"} =>
                \A d \in Auths : dkey[d] # key[w]
    /\ \A v, w \in Writers : Minting(v) /\ Minting(w) /\ v # w => key[v] # key[w]

\* The recoverer is past the retirement of the row.
RetiredInv ==
    /\ RetiredNotReinstalled
    /\ \A r \in Recoverers : rpc[r] \in {"reload", "delete_object"} => row.key # dkey[rauth[r]]

\* The worker that claimed has not committed yet, and nobody else has its claim.
PreCommit == {"settle_claim", "refs", "repairs", "unref", "unwind", "prepare", "orphan", "commit"}

PendingS3 == {"pending_s3", "pending_mapping"}

\* What the certificate and the orphan row of an authority say about the row.
TableInv(d) ==
    /\ life[d] = "terminal" \/ orphan[d] = "pending_mapping" => row.claim # d
    /\ life[d] # "none" /\ orphan[d] = "PREPARED" => OwnedCommitted(d)

\* What a worker at each step of the handoff has behind it, as long as the
\* claim is still its own.
WorkerHandoff(g) ==
    /\ wpc[g] \in PreCommit =>
        /\ life[wauth[g]] = "none"
        /\ row.claim = wauth[g] => ~row.handoff
        /\ \A h \in Workers : wauth[h] = wauth[g] => h = g
    /\ row.claim = wauth[g] =>
        /\ wpc[g] \in {"orphan", "commit"} => wauth[g] \in root
        /\ wpc[g] = "commit" => orphan[wauth[g]] # "none"
        /\ wpc[g] = "finalize" => orphan[wauth[g]] \in PendingS3

\* What a recoverer at each step knows of the authority it works on.
Revoked == {"classify", "drop", "drop_root", "reload", "delete_object", "mark", "terminate",
            "delete_orphan", "delete_root"}
RecovererHandoff(r) ==
    /\ rpc[r] \in Revoked => row.claim # rauth[r]
    /\ rpc[r] = "drop_root" => life[rauth[r]] # "published"
    /\ rpc[r] \in {"delete_orphan", "delete_root"} => life[rauth[r]] = "terminal"
    /\ rpc[r] \in {"observe", "finalize"} /\ row.claim = rauth[r] =>
            orphan[rauth[r]] \in PendingS3

\* All of the handoff: tables, workers and recoverers.
HandoffInv ==
    /\ CommittedRecoverable
    /\ \A d \in Auths : TableInv(d)
    /\ \A g \in Workers : WorkerHandoff(g)
    /\ \A r \in Recoverers : RecovererHandoff(r)

\* The inductive invariant.
IInv == TInv /\ AuthorityInv /\ MintInv /\ RetiredInv /\ HandoffInv

-----------------------------------------------------------------------------
(* The steps that change the row *)

\* ReleaseBlockClaim, ReleaseStaleBlockClaim, AbortBlockDeleteHandoff.
RowReleased ==
    \E d \in Auths : OwnedUncommitted(d) /\ row' = FreshRow(row.key) /\ dkey' = dkey

\* ClaimBlockDelete.
RowClaimed ==
    \E d \in Auths :
        /\ dkey[d] = NoKey
        /\ row.key \in Keys /\ row.claim = NoAuth
        /\ row' = [key |-> row.key, claim |-> d, handoff |-> FALSE]
        /\ dkey' = [dkey EXCEPT ![d] = row.key]

\* CommitBlockDeleteOrphanHandoff.
RowCondemned ==
    \E g \in Workers :
        /\ wpc[g] = "commit" /\ OwnedUncommitted(wauth[g])
        /\ wpc'[g] \in {"settle_commit", "promote"}
        /\ row' = [key |-> row.key, claim |-> row.claim, handoff |-> TRUE]
        /\ dkey' = dkey

\* FinalizeBlockDelete.
RowRetired == \E d \in Auths : OwnedCommitted(d) /\ row' = NoRow /\ dkey' = dkey

\* InstallBlockMetadata.
RowInstalled ==
    \E w \in Writers :
        pc[w] = "install" /\ row = NoRow /\ row' = FreshRow(key[w]) /\ dkey' = dkey

\* What the delete side may do to the row, and what any step may.
DeleteRowStep ==
    UNCHANGED <<row, dkey>> \/ RowReleased \/ RowClaimed \/ RowCondemned \/ RowRetired

RowStep == DeleteRowStep \/ RowInstalled

\* A cleared claim is a release.
LEMMA ClearClaimReleases ==
    ASSUME NEW d \in Auths, ClearClaim(d), dkey' = dkey
    PROVE  DeleteRowStep
  BY DEF ClearClaim, DeleteRowStep, RowReleased

\* An acquired claim is a claim on an unclaimed, uncommitted row.
LEMMA AcquireClaims ==
    ASSUME TInv, NEW g \in Workers, NEW d \in Auths, wpc[g] = "claim", AcquireClaim(g, d)
    PROVE  DeleteRowStep
  <1>1. row.key \in Keys /\ row.handoff = FALSE
    BY DEF AcquireClaim, TInv, TypeOK, StateTypeOK, RowInv, WorkerInv, WellFormed, Row
  <1> QED
    BY <1>1 DEF AcquireClaim, DeleteRowStep, RowClaimed

\* What the steps of a worker do to the row.
LEMMA WorkerRowStep ==
    ASSUME TInv, NEW g \in Workers, WorkerStep(g)
    PROVE  DeleteRowStep
  <1>0. row.claim \in Auths \cup {NoAuth}
    BY DEF TInv, TypeOK, StateTypeOK, Row
  <1>1. CASE ReleaseStaleBlockClaim(g)
    BY <1>0, <1>1, ClearClaimReleases DEF ReleaseStaleBlockClaim, DeleteRowStep, tableVars
  <1>2. CASE ClaimBlockDelete(g)
    BY <1>0, <1>2, AcquireClaims, ClearClaimReleases
    DEF ClaimBlockDelete, ForeignClaim, AdoptCommittedOwner, TakeOverStaleBlockClaim, DeleteRowStep
  <1>3. CASE SettleBlockClaim(g)
    BY <1>0, <1>3, ClearClaimReleases
    DEF SettleBlockClaim, ForeignClaim, AdoptCommittedOwner, TakeOverStaleBlockClaim, DeleteRowStep, tableVars
  <1>4. CASE ReleaseReferenced(g)
    BY <1>4, ClearClaimReleases DEF ReleaseReferenced, DeleteRowStep, tableVars, TInv, WorkerInv
  <1>5. CASE ReleaseAndPostpone(g)
    BY <1>5, ClearClaimReleases DEF ReleaseAndPostpone, DeleteRowStep, tableVars, TInv, WorkerInv
  <1>6. CASE CommitBlockDeleteOrphanHandoff(g)
    BY <1>6 DEF CommitBlockDeleteOrphanHandoff, DeleteRowStep, RowCondemned, tableVars, Goto,
                TInv, TypeOK, DeleteTypeOK
  <1>7. CASE FinalizeBlockDelete(g)
    BY <1>7 DEF FinalizeBlockDelete, RetireRow, Finalizable, DeleteRowStep, RowRetired, tableVars,
                TInv, WorkerInv
  <1>8. CASE \/ \E k \in Keys : ReadCandidate(g, k)
             \/ CheckReferences(g) \/ (\E a \in Attempts : ScanRepairBucket(g, a))
             \/ RecheckReferences(g) \/ FailBeforeHandoff(g) \/ PrepareBlockDeleteOrphan(g)
             \/ InsertPreparedOrphan(g) \/ SettleBlockDeleteHandoff(g)
             \/ PromoteBlockDeleteOrphan(g) \/ PublishCommittedOrphan(g)
             \/ SettleBlockCandidate(g)
    BY <1>8 DEF ReadCandidate, CheckReferences, ScanRepairBucket, RecheckReferences,
                FailBeforeHandoff, PrepareBlockDeleteOrphan, InsertPreparedOrphan,
                SettleBlockDeleteHandoff, PromoteBlockDeleteOrphan, PublishCommittedOrphan,
                SettleBlockCandidate, DeleteRowStep, stateVars, tableVars
  <1> QED
    BY <1>1, <1>2, <1>3, <1>4, <1>5, <1>6, <1>7, <1>8 DEF WorkerStep

\* What the steps of a recoverer do to the row.
LEMMA RecovererRowStep ==
    ASSUME TInv, NEW r \in Recoverers, RecovererStep(r)
    PROVE  DeleteRowStep
  <1>1. CASE AbortBlockDeleteHandoff(r)
    BY <1>1, ClearClaimReleases DEF AbortBlockDeleteHandoff, DeleteRowStep, tableVars, TInv, RecovererInv
  <1>2. CASE RecoverFinalize(r)
    BY <1>2 DEF RecoverFinalize, RetireRow, Finalizable, DeleteRowStep, RowRetired, tableVars,
                TInv, RecovererInv
  <1>3. CASE \/ \E d \in Auths : RecoverS3OrphanRoot(r, d)
             \/ ClassifyPreparedOrphan(r) \/ DeletePreparedBlockDeleteOrphan(r)
             \/ DeleteS3OrphanRecoveryRoot(r) \/ RecoverPromote(r) \/ RecoverPublish(r)
             \/ RereadOrphan(r) \/ ObserveBlockDeleteLifecycle(r) \/ ReloadCanonical(r)
             \/ DeleteBlockByStorageKey(r) \/ MarkS3OrphanMappingCleanupPending(r)
             \/ TerminateBlockDeleteLifecycle(r) \/ DeleteS3Orphan(r)
    BY <1>3 DEF RecoverS3OrphanRoot, ClassifyPreparedOrphan, DeletePreparedBlockDeleteOrphan,
                DeleteS3OrphanRecoveryRoot, RecoverPromote, RecoverPublish, RereadOrphan,
                ObserveBlockDeleteLifecycle, ReloadCanonical, DeleteBlockByStorageKey,
                MarkS3OrphanMappingCleanupPending, TerminateBlockDeleteLifecycle,
                DeleteS3Orphan, DeleteRowStep, stateVars, tableVars
  <1> QED
    BY <1>1, <1>2, <1>3 DEF RecovererStep

\* A writer changes the row by its INSTALL only.
LEMMA WriterRowStep ==
    ASSUME NEW w \in Writers, WriterStep(w), UNCHANGED deleteVars
    PROVE  RowStep
  <1> USE DEF RowStep, DeleteRowStep, stateVars, deleteVars, tableVars
  <1>1. CASE InstallBlockMetadata(w)
    BY <1>1 DEF InstallBlockMetadata, RowInstalled
  <1>2. CASE \/ \E k \in Keys : ProbeRowless(w, k)
             \/ ProbeRow(w) \/ ValidateRepairAuthority(w) \/ PutObject(w)
             \/ VerifyManifestBlock(w) \/ AddProvisionalReference(w)
             \/ CheckDeleteFence(w) \/ SettleInstalledBlockMetadata(w)
             \/ CleanupFreshInstallTarget(w) \/ RepairBlockMetadataIfCurrent(w)
             \/ ConfirmMaterialization(w)
    BY <1>2 DEF ProbeRowless, ProbeRow, ValidateRepairAuthority, PutObject,
                VerifyManifestBlock, AddProvisionalReference, CheckDeleteFence,
                SettleInstalledBlockMetadata, CleanupFreshInstallTarget,
                RepairBlockMetadataIfCurrent, ConfirmMaterialization
  <1>3. CASE \/ \E a \in Attempts : StagePublishAttempt(w, a)
             \/ QueueDurableRepair(w) \/ ValidatePublicationFence(w)
             \/ UpdateLibraryHead(w) \/ ResolveHeadUpdate(w)
             \/ CleanupFailedPublishAttempt(w) \/ ClearFailedRepair(w)
             \/ PromoteReference(w) \/ RemovePublishAttemptReference(w)
             \/ ClearPublishedRepair(w)
    BY <1>3 DEF StagePublishAttempt, QueueDurableRepair, ValidatePublicationFence,
                UpdateLibraryHead, ResolveHeadUpdate, CleanupFailedPublishAttempt,
                ClearFailedRepair, PromoteReference, RemovePublishAttemptReference,
                ClearPublishedRepair
  <1> QED
    BY <1>1, <1>2, <1>3 DEF WriterStep

\* Every step changes the row in one of the five ways.
LEMMA NextRowStep ==
    ASSUME TInv, [Next]_vars
    PROVE  RowStep
  <1> USE DEF RowStep, DeleteRowStep, stateVars, deleteVars, tableVars
  <1>1. ASSUME NEW g \in Workers, CrashWorker(g) PROVE RowStep
    BY <1>1 DEF CrashWorker
  <1>2. ASSUME NEW r \in Recoverers, CrashRecoverer(r) PROVE RowStep
    BY <1>2 DEF CrashRecoverer
  <1>3. ASSUME NEW k \in Keys, EnsureBlockGCCandidate(k) PROVE RowStep
    BY <1>3 DEF EnsureBlockGCCandidate
  <1>4. CASE PublishNext /\ UNCHANGED deleteVars
    <2>1. ASSUME NEW w \in Writers, GiveUp(w) \/ ExpireUpReference(w) PROVE RowStep
      BY <1>4, <2>1 DEF GiveUp, ExpireUpReference
    <2>2. ASSUME NEW a \in Attempts,
                 SweepStep(a) \/ SweepCrash(a) \/ ExpirePubReference(a)
                 \/ ExpireVersion(a) \/ RemoveFSObjectReference(a)
          PROVE  RowStep
      BY <1>4, <2>2 DEF SweepStep, SweepReachable, SweepSuperseded, SweepRetained, SweepPromote,
                        SweepUnpin, SweepClear, SweepCrash, ExpirePubReference, ExpireVersion,
                        RemoveFSObjectReference
    <2> QED
      BY <1>4, <2>1, <2>2, WriterRowStep DEF PublishNext
  <1>5. ASSUME NEW dc \in DCs, Replicate(dc), UNCHANGED deleteVars PROVE RowStep
    BY <1>5 DEF Replicate
  <1>6. CASE UNCHANGED vars
    BY <1>6 DEF vars
  <1> QED
    BY <1>1, <1>2, <1>3, <1>4, <1>5, <1>6, WorkerRowStep, RecovererRowStep DEF Next, DeleteNext

\* COMMITTED is irrevocable, whatever the other actors do: no release, abort,
\* takeover, claim or install is enabled on a row with gc_orphan_handoff set.
THEOREM CommittedStaysCommitted == Spec => CommittedIrrevocable
  <1>1. ASSUME TInv, [Next]_vars PROVE [row.handoff => row' \in {row, NoRow}]_vars
    <2>1. RowStep
      BY <1>1, NextRowStep
    <2>2. row.handoff => row.claim # NoAuth
      BY <1>1 DEF TInv, RowInv, WellFormed
    <2> QED
      BY <2>1, <2>2 DEF RowStep, DeleteRowStep, RowReleased, RowClaimed, RowCondemned, RowRetired, RowInstalled,
                        OwnedUncommitted, NoRow
  <1> QED
    BY TInvInvariant, <1>1, PTL DEF Spec, CommittedIrrevocable

-----------------------------------------------------------------------------
(* Authorities are bound once *)

\* A bound authority keeps its key and does not get a lost claim back.
LEMMA BoundOnce ==
    ASSUME TInv, RowStep, NEW d \in Auths, dkey[d] \in Keys
    PROVE  dkey'[d] = dkey[d] /\ (row.claim # d => row'.claim # d)
  BY StateAssumption DEF TInv, TypeOK, DeleteTypeOK, RowStep, DeleteRowStep, RowReleased, RowClaimed, RowCondemned,
         RowRetired, RowInstalled, FreshRow, NoRow

\* The row's claim stays bound to the row's key.
LEMMA ClaimBound ==
    ASSUME TInv, AuthorityInv, RowStep
    PROVE  row'.claim # NoAuth => row'.key = dkey'[row'.claim]
  BY DEF TInv, TypeOK, DeleteTypeOK, AuthorityInv, RowStep, DeleteRowStep, RowReleased, RowClaimed, RowCondemned,
         RowRetired, RowInstalled, FreshRow, NoRow

\* A worker enters only its own authority into the tables.
LEMMA WorkerTables ==
    ASSUME TInv, AuthorityInv, NEW g \in Workers, WorkerStep(g), NEW d \in Auths,
           d \in root' \/ orphan'[d] # "none" \/ life'[d] # "none"
    PROVE  dkey[d] \in Keys
  <1> USE DEF TInv, TypeOK, DeleteTypeOK, WorkerInv, AuthorityInv, stateVars, tableVars
  <1>1. CASE PrepareBlockDeleteOrphan(g)
    BY <1>1 DEF PrepareBlockDeleteOrphan
  <1>2. CASE InsertPreparedOrphan(g)
    BY <1>2 DEF InsertPreparedOrphan
  <1>3. CASE PromoteBlockDeleteOrphan(g)
    BY <1>3 DEF PromoteBlockDeleteOrphan, InsertLifecycle
  <1>4. CASE PublishCommittedOrphan(g)
    BY <1>4 DEF PublishCommittedOrphan, CommitOrphan
  <1>5. CASE UNCHANGED <<root, orphan, life>>
    BY <1>5
  <1> QED
    BY <1>1, <1>2, <1>3, <1>4, <1>5
    DEF WorkerStep, ReadCandidate, ReleaseStaleBlockClaim, ClaimBlockDelete, SettleBlockClaim,
        CheckReferences, ScanRepairBucket, RecheckReferences, FailBeforeHandoff,
        ReleaseReferenced, ReleaseAndPostpone, CommitBlockDeleteOrphanHandoff,
        SettleBlockDeleteHandoff, FinalizeBlockDelete, SettleBlockCandidate

\* The authority of a worker, minted or adopted, is bound.
LEMMA WorkerAuthority ==
    ASSUME TInv, AuthorityInv, NEW g \in Workers, WorkerStep(g), NEW h \in Workers,
           wauth'[h] \in Auths
    PROVE  dkey'[wauth'[h]] \in Keys
  <1> USE DEF TInv, TypeOK, DeleteTypeOK, AuthorityInv
  <1>1. ASSUME NEW d \in Auths, wpc[g] = "claim", AcquireClaim(g, d) PROVE dkey'[wauth'[h]] \in Keys
    BY <1>1 DEF AcquireClaim, WorkerInv
  <1>2. CASE AdoptCommittedOwner(g) /\ UNCHANGED dkey
    <2>1. row.key \in Keys /\ row.claim # NoAuth
      BY <1>2 DEF AdoptCommittedOwner, StateTypeOK, RowInv, WellFormed, NoRow, Row
    <2> QED
      BY <1>2, <2>1 DEF AdoptCommittedOwner
  <1>3. CASE Return(g) /\ UNCHANGED dkey
    BY <1>3, StateAssumption DEF Return
  <1>4. CASE UNCHANGED <<wauth, dkey>>
    BY <1>4
  <1> QED
    BY <1>1, <1>2, <1>3, <1>4
    DEF WorkerStep, ReadCandidate, ReleaseStaleBlockClaim, ClaimBlockDelete, SettleBlockClaim,
        ForeignClaim, TakeOverStaleBlockClaim, Goto,
        CheckReferences, ScanRepairBucket, RecheckReferences, FailBeforeHandoff,
        ReleaseReferenced, ReleaseAndPostpone, PrepareBlockDeleteOrphan, InsertPreparedOrphan,
        CommitBlockDeleteOrphanHandoff, SettleBlockDeleteHandoff, PromoteBlockDeleteOrphan,
        PublishCommittedOrphan, FinalizeBlockDelete, SettleBlockCandidate, tableVars

\* A recoverer adds nothing to the tables.
LEMMA RecovererTables ==
    ASSUME TInv, NEW r \in Recoverers, RecovererStep(r), NEW d \in Auths,
           d \in root' \/ orphan'[d] # "none" \/ life'[d] # "none"
    PROVE  d \in root \/ orphan[d] # "none" \/ life[d] # "none" \/ rauth[r] = d
  <1> USE DEF TInv, TypeOK, DeleteTypeOK, tableVars
  <1>1. CASE DeletePreparedBlockDeleteOrphan(r)
    BY <1>1 DEF DeletePreparedBlockDeleteOrphan
  <1>2. CASE DeleteS3OrphanRecoveryRoot(r)
    BY <1>2 DEF DeleteS3OrphanRecoveryRoot
  <1>3. CASE RecoverPromote(r)
    BY <1>3 DEF RecoverPromote, InsertLifecycle
  <1>4. CASE RecoverPublish(r)
    BY <1>4 DEF RecoverPublish, CommitOrphan
  <1>5. CASE MarkS3OrphanMappingCleanupPending(r)
    BY <1>5 DEF MarkS3OrphanMappingCleanupPending
  <1>6. CASE TerminateBlockDeleteLifecycle(r)
    BY <1>6 DEF TerminateBlockDeleteLifecycle
  <1>7. CASE DeleteS3Orphan(r)
    BY <1>7 DEF DeleteS3Orphan
  <1>8. CASE UNCHANGED <<root, orphan, life>>
    BY <1>8
  <1> QED
    BY <1>1, <1>2, <1>3, <1>4, <1>5, <1>6, <1>7, <1>8
    DEF RecovererStep, RecoverS3OrphanRoot, AbortBlockDeleteHandoff, ClassifyPreparedOrphan,
        RereadOrphan, ObserveBlockDeleteLifecycle, RecoverFinalize, ReloadCanonical,
        DeleteBlockByStorageKey

\* A recoverer takes its authority from a recovery root.
LEMMA RecovererAuthority ==
    ASSUME TInv, NEW r \in Recoverers, RecovererStep(r), NEW q \in Recoverers,
           rauth'[q] \in Auths
    PROVE  rauth'[q] = rauth[q] \/ rauth'[q] \in root
  <1> USE DEF TInv, TypeOK, DeleteTypeOK
  <1>1. ASSUME NEW d \in Auths, RecoverS3OrphanRoot(r, d) PROVE rauth'[q] = rauth[q] \/ rauth'[q] \in root
    BY <1>1 DEF RecoverS3OrphanRoot
  <1>2. CASE RReturn(r)
    BY <1>2, StateAssumption DEF RReturn
  <1>3. CASE UNCHANGED rauth
    BY <1>3
  <1> QED
    BY <1>1, <1>2, <1>3
    DEF RecovererStep, AbortBlockDeleteHandoff, ClassifyPreparedOrphan, RGoto, recovererVars,
        DeletePreparedBlockDeleteOrphan, DeleteS3OrphanRecoveryRoot, RecoverPromote,
        RecoverPublish, RereadOrphan, ObserveBlockDeleteLifecycle, RecoverFinalize,
        ReloadCanonical, DeleteBlockByStorageKey, MarkS3OrphanMappingCleanupPending,
        TerminateBlockDeleteLifecycle, DeleteS3Orphan

\* The steps of neither a worker nor a recoverer leave the delete tables alone.
LEMMA OtherSteps ==
    ASSUME [Next]_vars
    PROVE  \/ \E g \in Workers : WorkerStep(g) /\ UNCHANGED <<publishVars, recovererVars>>
           \/ \E r \in Recoverers : RecovererStep(r) /\ UNCHANGED <<publishVars, workerVars>>
           \/ /\ \E g \in Workers : Return(g)
              /\ UNCHANGED <<stateVars, tableVars, recovererVars, publishVars>>
           \/ /\ \E r \in Recoverers : RReturn(r)
              /\ UNCHANGED <<stateVars, tableVars, workerVars, publishVars>>
           \/ PublishNext /\ UNCHANGED deleteVars
           \/ UNCHANGED <<row, obj, refVars, tableVars, workerVars, recovererVars, publishVars>>
  <1>1. ASSUME NEW g \in Workers, WorkerStep(g) PROVE UNCHANGED recovererVars
    BY <1>1 DEF WorkerStep, ReadCandidate, ReleaseStaleBlockClaim, ClaimBlockDelete,
        SettleBlockClaim, CheckReferences, ScanRepairBucket, RecheckReferences,
        FailBeforeHandoff, ReleaseReferenced, ReleaseAndPostpone, PrepareBlockDeleteOrphan,
        InsertPreparedOrphan, CommitBlockDeleteOrphanHandoff, SettleBlockDeleteHandoff,
        PromoteBlockDeleteOrphan, PublishCommittedOrphan, FinalizeBlockDelete,
        SettleBlockCandidate
  <1>2. ASSUME NEW r \in Recoverers, RecovererStep(r) PROVE UNCHANGED workerVars
    BY <1>2 DEF RecovererStep, RecoverS3OrphanRoot, AbortBlockDeleteHandoff,
        ClassifyPreparedOrphan, DeletePreparedBlockDeleteOrphan, DeleteS3OrphanRecoveryRoot,
        RecoverPromote, RecoverPublish, RereadOrphan, ObserveBlockDeleteLifecycle,
        RecoverFinalize, ReloadCanonical, DeleteBlockByStorageKey,
        MarkS3OrphanMappingCleanupPending, TerminateBlockDeleteLifecycle, DeleteS3Orphan
  <1>3. CASE DeleteNext /\ UNCHANGED publishVars
    BY <1>1, <1>2, <1>3 DEF DeleteNext, CrashWorker, CrashRecoverer, EnsureBlockGCCandidate,
                            stateVars, refVars
  <1>4. CASE PublishNext /\ UNCHANGED deleteVars
    BY <1>4
  <1>5. ASSUME NEW dc \in DCs, Replicate(dc), UNCHANGED <<deleteVars, publishVars>>
        PROVE  UNCHANGED <<row, obj, refVars, tableVars, workerVars, recovererVars, publishVars>>
    BY <1>5 DEF Replicate, deleteVars
  <1>6. CASE UNCHANGED vars
    BY <1>6 DEF vars, stateVars, refVars, deleteVars
  <1> QED
    BY <1>3, <1>4, <1>5, <1>6 DEF Next

\* AuthorityInv is preserved by every step.
LEMMA NextAuthority ==
    ASSUME TInv, AuthorityInv, [Next]_vars
    PROVE  AuthorityInv'
  <1> USE DEF TInv, TypeOK, DeleteTypeOK
  <1>0. RowStep
    BY NextRowStep
  <1>1. (row.claim # NoAuth => row.key = dkey[row.claim])'
    BY <1>0, ClaimBound
  <1>2. \A d \in Auths : dkey[d] \in Keys => dkey'[d] \in Keys
    BY <1>0, BoundOnce
  <1>3. ASSUME NEW g \in Workers, WorkerStep(g), UNCHANGED recovererVars PROVE AuthorityInv'
    <2>1. \A d \in Auths : d \in root' \/ orphan'[d] # "none" \/ life'[d] # "none" => dkey'[d] \in Keys
      BY <1>2, <1>3, WorkerTables
    <2>2. \A h \in Workers : wauth'[h] \in Auths => dkey'[wauth'[h]] \in Keys
      BY <1>3, WorkerAuthority
    <2>3. \A r \in Recoverers : rauth'[r] \in Auths => dkey'[rauth'[r]] \in Keys
      BY <1>2, <1>3 DEF recovererVars, AuthorityInv
    <2> QED
      BY <1>1, <2>1, <2>2, <2>3 DEF AuthorityInv
  <1>4. ASSUME NEW r \in Recoverers, RecovererStep(r), UNCHANGED workerVars PROVE AuthorityInv'
    <2>1. \A d \in Auths : d \in root' \/ orphan'[d] # "none" \/ life'[d] # "none" => dkey'[d] \in Keys
      BY <1>2, <1>4, RecovererTables DEF AuthorityInv
    <2>2. \A h \in Workers : wauth'[h] \in Auths => dkey'[wauth'[h]] \in Keys
      BY <1>2, <1>4 DEF workerVars, AuthorityInv
    <2>3. \A q \in Recoverers : rauth'[q] \in Auths => dkey'[rauth'[q]] \in Keys
      BY <1>2, <1>4, RecovererAuthority DEF AuthorityInv
    <2> QED
      BY <1>1, <2>1, <2>2, <2>3 DEF AuthorityInv
  <1>5. ASSUME NEW g \in Workers, Return(g), UNCHANGED <<tableVars, recovererVars>> PROVE AuthorityInv'
    BY <1>1, <1>5, StateAssumption DEF AuthorityInv, Return, tableVars, recovererVars
  <1>6. ASSUME NEW r \in Recoverers, RReturn(r), UNCHANGED <<tableVars, workerVars>> PROVE AuthorityInv'
    BY <1>1, <1>6, StateAssumption DEF AuthorityInv, RReturn, tableVars, workerVars
  <1>7. CASE UNCHANGED <<tableVars, workerVars, recovererVars>>
    BY <1>1, <1>7 DEF AuthorityInv, tableVars, workerVars, recovererVars
  <1> QED
    BY OtherSteps, <1>3, <1>4, <1>5, <1>6, <1>7 DEF deleteVars

-----------------------------------------------------------------------------
(* Keys are minted once *)

\* The delete side cannot put an unpublished fresh key into the row or a table.
LEMMA DeleteMint ==
    ASSUME TInv, MintInv, DeleteRowStep, UNCHANGED publishVars
    PROVE  MintInv'
  <1> USE DEF TInv, TypeOK, DeleteTypeOK, PublishTypeOK, MintInv, Minting, publishVars, writerVars, headVars
  <1>1. CASE UNCHANGED <<row, dkey>>
    BY <1>1
  <1>2. CASE RowReleased \/ RowCondemned
    BY <1>2 DEF RowReleased, RowCondemned, FreshRow
  <1>3. CASE RowClaimed
    BY <1>3 DEF RowClaimed
  <1>4. CASE RowRetired
    BY <1>4, StateAssumption DEF RowRetired, NoRow, WriterInv
  <1> QED
    BY <1>1, <1>2, <1>3, <1>4 DEF DeleteRowStep

\* A writer that is not minting afterwards endangers nothing it did not before.
LEMMA NotMinting ==
    ASSUME TInv, MintInv, NEW w \in Writers, UNCHANGED <<row, dkey, minted>>,
           NEW l \in WriterPC \ {"put", "ref", "fence", "install", "settle_install", "lost"},
           pc' = [pc EXCEPT ![w] = l], l = "authority" => ~fresh'[w],
           \A v \in Writers \ {w} : key'[v] = key[v] /\ fresh'[v] = fresh[v]
    PROVE  MintInv'
  BY DEF TInv, TypeOK, PublishTypeOK, MintInv, Minting

\* A writer that reuses the key of the row mints nothing.
LEMMA ReusingMint ==
    ASSUME TInv, MintInv, NEW w \in Writers, UNCHANGED <<row, dkey, minted>>,
           NEW l \in {"put", "ref", "fence"},
           pc' = [pc EXCEPT ![w] = l], ~fresh'[w],
           \A v \in Writers \ {w} : key'[v] = key[v] /\ fresh'[v] = fresh[v]
    PROVE  MintInv'
  BY DEF TInv, TypeOK, PublishTypeOK, MintInv, Minting

\* An installed key stops being a fresh one.
LEMMA InstallMint ==
    ASSUME TInv, MintInv, NEW w \in Writers, InstallBlockMetadata(w), UNCHANGED deleteVars
    PROVE  MintInv'
  <1> USE DEF TInv, TypeOK, PublishTypeOK, MintInv, Minting, Jump, headVars, deleteVars, tableVars
  <1>1. CASE row' = FreshRow(key[w]) /\ row = NoRow
    BY <1>1 DEF InstallBlockMetadata, FreshRow
  <1>2. CASE UNCHANGED row
    BY <1>2 DEF InstallBlockMetadata
  <1> QED
    BY <1>1, <1>2 DEF InstallBlockMetadata

\* MintInv is preserved by every step of a writer.
LEMMA WriterMint ==
    ASSUME TInv, MintInv, NEW w \in Writers, WriterStep(w), UNCHANGED deleteVars
    PROVE  MintInv'
  <1> USE DEF TInv, TypeOK, PublishTypeOK, deleteVars, tableVars, stateVars, WriterPC
  <1>1. ASSUME NEW k \in Keys, ProbeRowless(w, k) PROVE MintInv'
    BY <1>1, StateAssumption DEF ProbeRowless, MintInv, Minting
  <1>2. CASE ProbeRow(w)
    BY <1>2, ReusingMint, NotMinting DEF ProbeRow
  <1>3. CASE ValidateRepairAuthority(w)
    <2>1. CASE pc[w] = "authority" /\ Authorizes(row, key[w])
      BY <1>3, <2>1, ReusingMint DEF ValidateRepairAuthority, Jump, MintInv
    <2>2. CASE ~(pc[w] = "authority" /\ Authorizes(row, key[w]))
      BY <1>3, <2>2, NotMinting DEF ValidateRepairAuthority, Jump, Leave
    <2> QED
      BY <2>1, <2>2
  <1>4. CASE PutObject(w)
    BY <1>4 DEF PutObject, Jump, MintInv, Minting
  <1>5. CASE VerifyManifestBlock(w)
    BY <1>5, NotMinting DEF VerifyManifestBlock
  <1>6. CASE AddProvisionalReference(w)
    BY <1>6 DEF AddProvisionalReference, Jump, MintInv, Minting
  <1>7. CASE CheckDeleteFence(w)
    BY <1>7, NotMinting DEF CheckDeleteFence, Jump, Leave, MintInv, Minting
  <1>8. CASE InstallBlockMetadata(w)
    BY <1>8, InstallMint
  <1>9. CASE SettleInstalledBlockMetadata(w)
    BY <1>9 DEF SettleInstalledBlockMetadata, Jump, MintInv, Minting
  <1>10. CASE CleanupFreshInstallTarget(w)
    BY <1>10, NotMinting DEF CleanupFreshInstallTarget, Jump, Leave
  <1>11. CASE RepairBlockMetadataIfCurrent(w)
    BY <1>11, NotMinting DEF RepairBlockMetadataIfCurrent, Jump, Leave
  <1>12. CASE ConfirmMaterialization(w)
    BY <1>12, NotMinting DEF ConfirmMaterialization, Jump, Leave
  <1>13. CASE \/ \E a \in Attempts : StagePublishAttempt(w, a)
              \/ QueueDurableRepair(w) \/ ValidatePublicationFence(w)
              \/ UpdateLibraryHead(w) \/ ResolveHeadUpdate(w)
              \/ CleanupFailedPublishAttempt(w) \/ ClearFailedRepair(w)
              \/ PromoteReference(w) \/ RemovePublishAttemptReference(w)
              \/ ClearPublishedRepair(w)
    BY <1>13, NotMinting
    DEF StagePublishAttempt, QueueDurableRepair, ValidatePublicationFence, UpdateLibraryHead,
        ResolveHeadUpdate, CleanupFailedPublishAttempt, ClearFailedRepair, PromoteReference,
        RemovePublishAttemptReference, ClearPublishedRepair, Jump, Leave
  <1> QED
    BY <1>1, <1>2, <1>3, <1>4, <1>5, <1>6, <1>7, <1>8, <1>9, <1>10, <1>11, <1>12, <1>13 DEF WriterStep

\* MintInv is preserved by every step of the publication side.
LEMMA PublishMint ==
    ASSUME TInv, MintInv, PublishNext, UNCHANGED deleteVars
    PROVE  MintInv'
  <1> USE DEF TInv, TypeOK, PublishTypeOK, deleteVars, tableVars, stateVars
  <1>1. ASSUME NEW w \in Writers, GiveUp(w) PROVE MintInv'
    BY <1>1, NotMinting DEF GiveUp, Leave, WriterPC
  <1>2. ASSUME NEW w \in Writers, ExpireUpReference(w) PROVE MintInv'
    BY <1>2 DEF ExpireUpReference, MintInv, Minting, publishVars, writerVars
  <1>3. ASSUME NEW a \in Attempts,
               SweepStep(a) \/ SweepCrash(a) \/ ExpirePubReference(a)
               \/ ExpireVersion(a) \/ RemoveFSObjectReference(a)
        PROVE  MintInv'
    <2>1. UNCHANGED <<row, minted, writerVars>>
      BY <1>3 DEF SweepStep, SweepReachable, SweepSuperseded, SweepRetained, SweepPromote,
                  SweepUnpin, SweepClear, SweepCrash, ExpirePubReference, ExpireVersion,
                  RemoveFSObjectReference, publishVars
    <2> QED
      BY <2>1 DEF MintInv, Minting, writerVars
  <1> QED
    BY WriterMint, <1>1, <1>2, <1>3 DEF PublishNext

\* MintInv is preserved by every step.
LEMMA NextMint ==
    ASSUME TInv, MintInv, [Next]_vars
    PROVE  MintInv'
  <1>1. ASSUME DeleteRowStep, UNCHANGED publishVars PROVE MintInv'
    BY <1>1, DeleteMint
  <1> QED
    BY OtherSteps, <1>1, WorkerRowStep, RecovererRowStep, PublishMint
    DEF DeleteRowStep, stateVars, tableVars

-----------------------------------------------------------------------------
(* Retired keys *)

\* A certificate appears only for the committed owner of the row, and only
\* goes from published to terminal.
LEMMA LifeStep ==
    ASSUME TInv, [Next]_vars, NEW d \in Auths
    PROVE  \/ life'[d] = life[d]
           \/ life[d] = "none" /\ life'[d] = "published" /\ OwnedCommitted(d)
           \/ life[d] = "published" /\ life'[d] = "terminal"
  <1> DEFINE Goal == \/ life'[d] = life[d]
                     \/ life[d] = "none" /\ life'[d] = "published" /\ OwnedCommitted(d)
                     \/ life[d] = "published" /\ life'[d] = "terminal"
  <1> USE DEF TInv, TypeOK, DeleteTypeOK, LifePhase, tableVars
  <1>1. ASSUME NEW g \in Workers, PromoteBlockDeleteOrphan(g) PROVE Goal
    BY <1>1 DEF PromoteBlockDeleteOrphan, InsertLifecycle, Promotable
  <1>2. ASSUME NEW r \in Recoverers, RecoverPromote(r) PROVE Goal
    BY <1>2 DEF RecoverPromote, InsertLifecycle, Promotable
  <1>3. ASSUME NEW r \in Recoverers, TerminateBlockDeleteLifecycle(r) PROVE Goal
    BY <1>3 DEF TerminateBlockDeleteLifecycle
  <1>4. CASE UNCHANGED life
    BY <1>4
  <1>5. ASSUME NEW g \in Workers, WorkerStep(g) PROVE Goal
    BY <1>1, <1>4, <1>5
    DEF WorkerStep, ReadCandidate, ReleaseStaleBlockClaim, ClaimBlockDelete, SettleBlockClaim,
        CheckReferences, ScanRepairBucket, RecheckReferences, FailBeforeHandoff,
        ReleaseReferenced, ReleaseAndPostpone, PrepareBlockDeleteOrphan, InsertPreparedOrphan,
        CommitBlockDeleteOrphanHandoff, SettleBlockDeleteHandoff, PublishCommittedOrphan,
        FinalizeBlockDelete, SettleBlockCandidate
  <1>6. ASSUME NEW r \in Recoverers, RecovererStep(r) PROVE Goal
    BY <1>2, <1>3, <1>4, <1>6
    DEF RecovererStep, RecoverS3OrphanRoot, AbortBlockDeleteHandoff, ClassifyPreparedOrphan,
        DeletePreparedBlockDeleteOrphan, DeleteS3OrphanRecoveryRoot, RecoverPublish,
        RereadOrphan, ObserveBlockDeleteLifecycle, RecoverFinalize, ReloadCanonical,
        DeleteBlockByStorageKey, MarkS3OrphanMappingCleanupPending, DeleteS3Orphan
  <1> QED
    BY OtherSteps, <1>4, <1>5, <1>6 DEF deleteVars

\* The row does not return to a key whose delete it has left behind.
LEMMA RetiredStays ==
    ASSUME TInv, MintInv, RowStep, NEW d \in Auths, dkey[d] \in Keys, row.key # dkey[d]
    PROVE  row'.key # dkey'[d]
  <1>1. dkey'[d] = dkey[d]
    BY BoundOnce
  <1>2. CASE RowInstalled
    BY <1>1, <1>2 DEF RowInstalled, MintInv, Minting, FreshRow
  <1>3. CASE DeleteRowStep
    BY <1>1, <1>3, StateAssumption
    DEF DeleteRowStep, RowReleased, RowClaimed, RowCondemned, RowRetired, FreshRow, NoRow
  <1> QED
    BY <1>2, <1>3 DEF RowStep

\* RetiredInv is preserved by every step.
LEMMA NextRetired ==
    ASSUME TInv, AuthorityInv, MintInv, RetiredInv, [Next]_vars
    PROVE  RetiredInv'
  <1> USE DEF TInv, TypeOK, DeleteTypeOK
  <1>0. RowStep
    BY NextRowStep
  <1>1. ASSUME NEW d \in Auths, life'[d] # "none", row'.key = dkey'[d] PROVE OwnedCommitted(d)'
    <2>1. (life[d] # "none" \/ OwnedCommitted(d)) /\ (row.key = dkey[d] => OwnedCommitted(d))
      BY <1>1, LifeStep DEF RetiredInv, RetiredNotReinstalled
    <2>2. dkey[d] \in Keys
      BY <2>1 DEF AuthorityInv, OwnedCommitted, Owned, StateTypeOK, RowInv, WellFormed, NoRow, Row
    <2>3. OwnedCommitted(d) /\ dkey'[d] = dkey[d]
      BY <1>0, <1>1, <2>1, <2>2, BoundOnce, RetiredStays
    <2>4. row' = row
      BY <1>0, <1>1, <2>2, <2>3, StateAssumption
      DEF RowStep, DeleteRowStep, RowReleased, RowClaimed, RowCondemned, RowRetired, RowInstalled,
          OwnedCommitted, OwnedUncommitted, Owned, NoRow
    <2> QED
      BY <2>3, <2>4 DEF OwnedCommitted, Owned
  <1>2. ASSUME NEW r \in Recoverers, rpc'[r] \in {"reload", "delete_object"}
        PROVE  row'.key # dkey'[rauth'[r]]
    <2>1. CASE rpc[r] \in {"reload", "delete_object"} /\ rauth'[r] = rauth[r]
      <3>1. rauth[r] \in Auths
        BY <2>1 DEF RecovererInv
      <3> QED
        BY <1>0, <2>1, <3>1, RetiredStays DEF RetiredInv, AuthorityInv
    <2>2. CASE RecoverFinalize(r)
      BY <1>2, <2>2, StateAssumption
      DEF RecoverFinalize, RGoto, RReturn, RetireRow, Finalizable, AlreadyFinalized, tableVars,
          OwnedCommitted, Owned, RecovererInv, RowInv, WellFormed, NoRow
    <2> QED
      <3>1. CASE UNCHANGED <<rpc, rauth>>
        BY <1>2, <2>1, <3>1
      <3>2. ASSUME NEW q \in Recoverers, RReturn(q) PROVE rpc[r] \in {"reload", "delete_object"} /\ rauth'[r] = rauth[r]
        BY <1>2, <3>2 DEF RReturn
      <3>3. ASSUME NEW q \in Recoverers, RecovererStep(q)
            PROVE  \/ rpc[r] \in {"reload", "delete_object"} /\ rauth'[r] = rauth[r]
                   \/ RecoverFinalize(r)
        BY <1>2, <3>3
        DEF RecovererStep, RGoto, RReturn, OrphanStep, recovererVars, RecoverS3OrphanRoot,
            AbortBlockDeleteHandoff, ClassifyPreparedOrphan, DeletePreparedBlockDeleteOrphan,
            DeleteS3OrphanRecoveryRoot, RecoverPromote, RecoverPublish, RereadOrphan,
            ObserveBlockDeleteLifecycle, RecoverFinalize, ReloadCanonical,
            DeleteBlockByStorageKey, MarkS3OrphanMappingCleanupPending,
            TerminateBlockDeleteLifecycle, DeleteS3Orphan
      <3> QED
        BY OtherSteps, <2>1, <2>2, <3>1, <3>2, <3>3 DEF deleteVars, recovererVars
  <1> QED
    BY <1>1, <1>2 DEF RetiredInv, RetiredNotReinstalled

-----------------------------------------------------------------------------
(* The handoff *)

\* How the orphan row of an authority changes, and what guards each change.
LEMMA OrphanSteps ==
    ASSUME TInv, HandoffInv, [Next]_vars, NEW d \in Auths
    PROVE  \/ orphan'[d] = orphan[d]
           \/ /\ orphan[d] = "none" /\ orphan'[d] = "PREPARED"
              /\ \E g \in Workers : wpc[g] = "orphan" /\ wauth[g] = d
           \/ orphan[d] = "PREPARED" /\ orphan'[d] = "pending_s3"
           \/ orphan[d] # "none" /\ orphan'[d] = "pending_mapping" /\ row.claim # d
           \/ orphan[d] = "PREPARED" /\ orphan'[d] = "none" /\ row.claim # d
           \/ orphan'[d] = "none" /\ life[d] = "terminal"
  <1> DEFINE Goal ==
           \/ orphan'[d] = orphan[d]
           \/ /\ orphan[d] = "none" /\ orphan'[d] = "PREPARED"
              /\ \E g \in Workers : wpc[g] = "orphan" /\ wauth[g] = d
           \/ orphan[d] = "PREPARED" /\ orphan'[d] = "pending_s3"
           \/ orphan[d] # "none" /\ orphan'[d] = "pending_mapping" /\ row.claim # d
           \/ orphan[d] = "PREPARED" /\ orphan'[d] = "none" /\ row.claim # d
           \/ orphan'[d] = "none" /\ life[d] = "terminal"
  <1> USE DEF TInv, TypeOK, DeleteTypeOK, HandoffInv, RecovererHandoff, Revoked, tableVars
  <1>1. ASSUME NEW g \in Workers, InsertPreparedOrphan(g) PROVE Goal
    BY <1>1 DEF InsertPreparedOrphan
  <1>2. ASSUME NEW g \in Workers, PublishCommittedOrphan(g) PROVE Goal
    BY <1>2 DEF PublishCommittedOrphan, CommitOrphan
  <1>3. ASSUME NEW r \in Recoverers, DeletePreparedBlockDeleteOrphan(r) PROVE Goal
    BY <1>3 DEF DeletePreparedBlockDeleteOrphan
  <1>4. ASSUME NEW r \in Recoverers, RecoverPublish(r) PROVE Goal
    BY <1>4 DEF RecoverPublish, CommitOrphan
  <1>5. ASSUME NEW r \in Recoverers, MarkS3OrphanMappingCleanupPending(r) PROVE Goal
    BY <1>5 DEF MarkS3OrphanMappingCleanupPending
  <1>6. ASSUME NEW r \in Recoverers, DeleteS3Orphan(r) PROVE Goal
    BY <1>6 DEF DeleteS3Orphan
  <1>7. CASE UNCHANGED orphan
    BY <1>7
  <1>8. ASSUME NEW g \in Workers, WorkerStep(g) PROVE Goal
    BY <1>1, <1>2, <1>7, <1>8
    DEF WorkerStep, ReadCandidate, ReleaseStaleBlockClaim, ClaimBlockDelete, SettleBlockClaim,
        CheckReferences, ScanRepairBucket, RecheckReferences, FailBeforeHandoff,
        ReleaseReferenced, ReleaseAndPostpone, PrepareBlockDeleteOrphan,
        CommitBlockDeleteOrphanHandoff, SettleBlockDeleteHandoff, PromoteBlockDeleteOrphan,
        FinalizeBlockDelete, SettleBlockCandidate
  <1>9. ASSUME NEW r \in Recoverers, RecovererStep(r) PROVE Goal
    BY <1>3, <1>4, <1>5, <1>6, <1>7, <1>9
    DEF RecovererStep, RecoverS3OrphanRoot, AbortBlockDeleteHandoff, ClassifyPreparedOrphan,
        DeleteS3OrphanRecoveryRoot, RecoverPromote, RereadOrphan, ObserveBlockDeleteLifecycle,
        RecoverFinalize, ReloadCanonical, DeleteBlockByStorageKey, TerminateBlockDeleteLifecycle
  <1> QED
    BY OtherSteps, <1>7, <1>8, <1>9 DEF deleteVars

\* A recovery root goes only once nothing depends on it.
LEMMA RootSteps ==
    ASSUME TInv, HandoffInv, [Next]_vars, NEW d \in Auths, d \in root
    PROVE  d \in root' \/ (row.claim # d /\ life[d] # "published")
  <1> DEFINE Goal == d \in root' \/ (row.claim # d /\ life[d] # "published")
  <1> USE DEF TInv, TypeOK, DeleteTypeOK, HandoffInv, RecovererHandoff, Revoked, tableVars
  <1>1. ASSUME NEW r \in Recoverers, DeleteS3OrphanRecoveryRoot(r) PROVE Goal
    BY <1>1 DEF DeleteS3OrphanRecoveryRoot
  <1>2. ASSUME NEW g \in Workers, WorkerStep(g) PROVE Goal
    BY <1>2
    DEF WorkerStep, ReadCandidate, ReleaseStaleBlockClaim, ClaimBlockDelete, SettleBlockClaim,
        CheckReferences, ScanRepairBucket, RecheckReferences, FailBeforeHandoff,
        ReleaseReferenced, ReleaseAndPostpone, PrepareBlockDeleteOrphan, InsertPreparedOrphan,
        CommitBlockDeleteOrphanHandoff, SettleBlockDeleteHandoff, PromoteBlockDeleteOrphan,
        PublishCommittedOrphan, FinalizeBlockDelete, SettleBlockCandidate
  <1>3. ASSUME NEW r \in Recoverers, RecovererStep(r) PROVE Goal
    BY <1>1, <1>3
    DEF RecovererStep, RecoverS3OrphanRoot, AbortBlockDeleteHandoff, ClassifyPreparedOrphan,
        DeletePreparedBlockDeleteOrphan, RecoverPromote, RecoverPublish, RereadOrphan,
        ObserveBlockDeleteLifecycle, RecoverFinalize, ReloadCanonical, DeleteBlockByStorageKey,
        MarkS3OrphanMappingCleanupPending, TerminateBlockDeleteLifecycle, DeleteS3Orphan
  <1> QED
    BY OtherSteps, <1>2, <1>3 DEF deleteVars

\* A certificate is terminated only once the row has lost its claim.
LEMMA TerminalStep ==
    ASSUME TInv, HandoffInv, [Next]_vars, NEW d \in Auths, life'[d] = "terminal"
    PROVE  row.claim # d
  <1> USE DEF TInv, TypeOK, DeleteTypeOK, HandoffInv, tableVars
  <1>1. ASSUME NEW r \in Recoverers, TerminateBlockDeleteLifecycle(r) PROVE row.claim # d
    BY <1>1 DEF TerminateBlockDeleteLifecycle, RecovererHandoff, Revoked, TableInv
  <1>2. ASSUME NEW g \in Workers, WorkerStep(g) PROVE life[d] = "terminal"
    BY <1>2
    DEF WorkerStep, ReadCandidate, ReleaseStaleBlockClaim, ClaimBlockDelete, SettleBlockClaim,
        CheckReferences, ScanRepairBucket, RecheckReferences, FailBeforeHandoff,
        ReleaseReferenced, ReleaseAndPostpone, PrepareBlockDeleteOrphan, InsertPreparedOrphan,
        CommitBlockDeleteOrphanHandoff, SettleBlockDeleteHandoff, PromoteBlockDeleteOrphan,
        PublishCommittedOrphan, FinalizeBlockDelete, SettleBlockCandidate, InsertLifecycle
  <1>3. ASSUME NEW r \in Recoverers, RecovererStep(r)
        PROVE  TerminateBlockDeleteLifecycle(r) \/ life[d] = "terminal"
    BY <1>3
    DEF RecovererStep, RecoverS3OrphanRoot, AbortBlockDeleteHandoff, ClassifyPreparedOrphan,
        DeletePreparedBlockDeleteOrphan, DeleteS3OrphanRecoveryRoot, RecoverPromote,
        RecoverPublish, RereadOrphan, ObserveBlockDeleteLifecycle, RecoverFinalize,
        ReloadCanonical, DeleteBlockByStorageKey, MarkS3OrphanMappingCleanupPending,
        DeleteS3Orphan, InsertLifecycle
  <1>4. life[d] = "terminal" => row.claim # d
    BY DEF TableInv
  <1> QED
    BY OtherSteps, <1>1, <1>2, <1>3, <1>4 DEF deleteVars

\* The row is retired only by a finalizer that has seen the orphan COMMITTED.
LEMMA RetireStep ==
    ASSUME TInv, HandoffInv, [Next]_vars, NEW d \in Auths, OwnedCommitted(d), row' # row
    PROVE  orphan[d] \in PendingS3
  <1> USE DEF TInv, TypeOK, StateTypeOK, DeleteTypeOK, HandoffInv, OwnedCommitted, Owned, stateVars
  <1>1. ASSUME NEW g \in Workers, FinalizeBlockDelete(g) PROVE orphan[d] \in PendingS3
    BY <1>1 DEF FinalizeBlockDelete, RetireRow, Finalizable, WorkerHandoff
  <1>2. ASSUME NEW r \in Recoverers, RecoverFinalize(r) PROVE orphan[d] \in PendingS3
    BY <1>2 DEF RecoverFinalize, RetireRow, Finalizable, RecovererHandoff
  <1>3. ASSUME NEW g \in Workers, WorkerStep(g) PROVE FinalizeBlockDelete(g)
    BY <1>3, StateAssumption
    DEF WorkerStep, ReadCandidate, ReleaseStaleBlockClaim, ClaimBlockDelete, SettleBlockClaim,
        AcquireClaim, ForeignClaim, AdoptCommittedOwner, TakeOverStaleBlockClaim, ClearClaim,
        OwnedUncommitted,
        CheckReferences, ScanRepairBucket, RecheckReferences, FailBeforeHandoff,
        ReleaseReferenced, ReleaseAndPostpone, PrepareBlockDeleteOrphan, InsertPreparedOrphan,
        CommitBlockDeleteOrphanHandoff, SettleBlockDeleteHandoff, PromoteBlockDeleteOrphan,
        PublishCommittedOrphan, SettleBlockCandidate
  <1>4. ASSUME NEW r \in Recoverers, RecovererStep(r) PROVE RecoverFinalize(r)
    BY <1>4
    DEF RecovererStep, RecoverS3OrphanRoot, AbortBlockDeleteHandoff, ClearClaim, OwnedUncommitted,
        ClassifyPreparedOrphan, DeletePreparedBlockDeleteOrphan, DeleteS3OrphanRecoveryRoot,
        RecoverPromote, RecoverPublish, RereadOrphan, ObserveBlockDeleteLifecycle,
        ReloadCanonical, DeleteBlockByStorageKey, MarkS3OrphanMappingCleanupPending,
        TerminateBlockDeleteLifecycle, DeleteS3Orphan
  <1>5. CASE PublishNext
    <2>1. ASSUME NEW w \in Writers, InstallBlockMetadata(w) PROVE FALSE
      BY <2>1, StateAssumption DEF InstallBlockMetadata, NoRow
    <2>2. ASSUME NEW w \in Writers, WriterStep(w) PROVE InstallBlockMetadata(w)
      BY <2>2 DEF WriterStep, ProbeRowless, ProbeRow, ValidateRepairAuthority, PutObject,
        VerifyManifestBlock, AddProvisionalReference, CheckDeleteFence,
        SettleInstalledBlockMetadata, CleanupFreshInstallTarget, RepairBlockMetadataIfCurrent,
        ConfirmMaterialization, StagePublishAttempt, QueueDurableRepair,
        ValidatePublicationFence, UpdateLibraryHead, ResolveHeadUpdate,
        CleanupFailedPublishAttempt, ClearFailedRepair, PromoteReference,
        RemovePublishAttemptReference, ClearPublishedRepair
    <2> QED
      BY <1>5, <2>1, <2>2
      DEF PublishNext, GiveUp, ExpireUpReference, SweepStep, SweepReachable, SweepSuperseded,
          SweepRetained, SweepPromote, SweepUnpin, SweepClear, SweepCrash, ExpirePubReference,
          ExpireVersion, RemoveFSObjectReference
  <1> QED
    BY OtherSteps, <1>1, <1>2, <1>3, <1>4, <1>5

\* A row that is committed afterwards was committed before, or is by the
\* worker that had its claim.
LEMMA CommittedFrom ==
    ASSUME TInv, AuthorityInv, RowStep, NEW d \in Auths, OwnedCommitted(d)'
    PROVE  \/ OwnedCommitted(d)
           \/ /\ row.claim = d /\ ~row.handoff
              /\ \E g \in Workers : /\ wpc[g] = "commit" /\ wauth[g] = d
                                    /\ wpc'[g] \in {"settle_commit", "promote"}
  BY DEF RowStep, DeleteRowStep, RowReleased, RowClaimed, RowCondemned, RowRetired, RowInstalled,
         OwnedCommitted, OwnedUncommitted, Owned, FreshRow, NoRow

\* CommittedRecoverable is preserved by every step.
LEMMA NextRecoverable ==
    ASSUME TInv, AuthorityInv, HandoffInv, [Next]_vars
    PROVE  CommittedRecoverable'
  <1> SUFFICES ASSUME NEW d \in Auths, OwnedCommitted(d)' \/ life'[d] = "published"
               PROVE  d \in root' /\ orphan'[d] # "none"
    BY DEF CommittedRecoverable
  <1>1. \/ OwnedCommitted(d) \/ life[d] = "published"
        \/ row.claim = d /\ \E g \in Workers : wpc[g] = "commit" /\ wauth[g] = d
    BY NextRowStep, CommittedFrom, LifeStep
  <1>2. d \in root /\ orphan[d] # "none"
    BY <1>1 DEF HandoffInv, CommittedRecoverable, WorkerHandoff
  <1>3. row.claim = d \/ life[d] = "published"
    BY <1>1 DEF OwnedCommitted, Owned
  <1>4. ~(orphan[d] = "PREPARED" /\ row.claim # d) /\ life[d] # "terminal"
    BY <1>3 DEF HandoffInv, TableInv, OwnedCommitted, Owned
  <1> QED
    BY <1>2, <1>3, <1>4, RootSteps, OrphanSteps

\* TableInv is preserved by every step.
LEMMA NextTable ==
    ASSUME TInv, AuthorityInv, HandoffInv, [Next]_vars, NEW d \in Auths
    PROVE  TableInv(d)'
  <1>0. RowStep
    BY NextRowStep
  <1>1. ASSUME life'[d] = "terminal" \/ orphan'[d] = "pending_mapping" PROVE row'.claim # d
    <2>1. row.claim # d
      BY <1>1, TerminalStep, OrphanSteps DEF HandoffInv, TableInv
    <2>2. dkey[d] \in Keys
      BY <1>1, LifeStep, OrphanSteps DEF AuthorityInv
    <2> QED
      BY <1>0, <2>1, <2>2, BoundOnce
  <1>2. ASSUME life'[d] # "none", orphan'[d] = "PREPARED" PROVE OwnedCommitted(d)'
    <2>1. OwnedCommitted(d) /\ orphan[d] = "PREPARED"
      <3>1. CASE orphan[d] = "PREPARED"
        BY <1>2, <3>1, LifeStep DEF HandoffInv, TableInv
      <3>2. ASSUME NEW g \in Workers, wpc[g] = "orphan", wauth[g] = d PROVE FALSE
        BY <1>2, <3>2, LifeStep DEF HandoffInv, WorkerHandoff, PreCommit, OwnedCommitted, Owned
      <3> QED
        BY <1>2, <3>1, <3>2, OrphanSteps
    <2>2. row' = row
      BY <2>1, RetireStep DEF PendingS3
    <2>3. dkey'[d] = dkey[d]
      BY <1>0, <2>1, BoundOnce DEF AuthorityInv
    <2> QED
      BY <2>1, <2>2, <2>3 DEF OwnedCommitted, Owned
  <1> QED
    BY <1>1, <1>2 DEF TableInv

\* A worker that does not move keeps what it has behind it, unless it has lost
\* its claim.
LEMMA WorkerWaits ==
    ASSUME TInv, AuthorityInv, HandoffInv, [Next]_vars, NEW g \in Workers, wpc[g] # "idle",
           wauth[g] \in Auths, wpc'[g] = wpc[g], wauth'[g] = wauth[g],
           \A h \in Workers : wauth'[h] = wauth[g] /\ wpc[g] \in PreCommit => h = g
    PROVE  WorkerHandoff(g)'
  <1> DEFINE d == wauth[g]
  <1>0. RowStep
    BY NextRowStep
  <1>1. dkey[d] \in Keys /\ WorkerHandoff(g)
    BY DEF AuthorityInv, HandoffInv
  <1>2. row'.claim = d => row.claim = d
    BY <1>0, <1>1, BoundOnce
  <1>3. ASSUME wpc[g] \in PreCommit PROVE life'[d] = "none"
    BY <1>1, <1>3, LifeStep DEF WorkerHandoff, OwnedCommitted, Owned
  <1>4. ASSUME wpc[g] \in PreCommit, row'.claim = d PROVE ~row'.handoff
    <2>1. row.claim = d /\ ~row.handoff
      BY <1>1, <1>2, <1>4 DEF WorkerHandoff
    <2>2. ASSUME RowCondemned PROVE FALSE
      BY <1>1, <1>4, <2>1, <2>2
      DEF RowCondemned, OwnedUncommitted, Owned, WorkerHandoff, PreCommit
    <2> QED
      BY <1>0, <1>4, <2>1, <2>2, StateAssumption
      DEF RowStep, DeleteRowStep, RowReleased, RowClaimed, RowRetired, RowInstalled, FreshRow, NoRow
  <1>5. ASSUME row'.claim = d, wpc[g] \in {"orphan", "commit"} PROVE d \in root'
    BY <1>1, <1>2, <1>5, RootSteps DEF WorkerHandoff
  <1>6. ASSUME row'.claim = d, orphan[d] # "none" PROVE orphan'[d] # "none"
    BY <1>2, <1>6, OrphanSteps DEF HandoffInv, TableInv
  <1>7. ASSUME row'.claim = d, orphan[d] \in PendingS3 PROVE orphan'[d] \in PendingS3
    BY <1>2, <1>7, OrphanSteps DEF HandoffInv, TableInv, PendingS3
  <1> QED
    BY <1>1, <1>2, <1>3, <1>4, <1>5, <1>6, <1>7 DEF WorkerHandoff

\* The same for a recoverer.
LEMMA RecovererWaits ==
    ASSUME TInv, AuthorityInv, HandoffInv, [Next]_vars, NEW r \in Recoverers,
           rpc'[r] = rpc[r], rauth'[r] = rauth[r]
    PROVE  RecovererHandoff(r)'
  <1> DEFINE d == rauth[r]
  <1>1. CASE rpc[r] = "idle"
    BY <1>1 DEF RecovererHandoff, Revoked
  <1>2. CASE rpc[r] # "idle"
    <2>1. d \in Auths /\ dkey[d] \in Keys /\ RecovererHandoff(r)
      BY <1>2 DEF AuthorityInv, HandoffInv, TInv, RecovererInv
    <2>2. row'.claim = d => row.claim = d
      BY <2>1, NextRowStep, BoundOnce
    <2>3. ASSUME rpc[r] = "drop_root" PROVE life'[d] # "published"
      BY <2>1, <2>3, LifeStep DEF RecovererHandoff, Revoked, OwnedCommitted, Owned
    <2>4. life[d] = "terminal" => life'[d] = "terminal"
      BY <2>1, LifeStep
    <2>5. ASSUME row'.claim = d, orphan[d] \in PendingS3 PROVE orphan'[d] \in PendingS3
      BY <2>1, <2>2, <2>5, OrphanSteps DEF HandoffInv, TableInv, PendingS3
    <2> QED
      BY <2>1, <2>2, <2>3, <2>4, <2>5 DEF RecovererHandoff
  <1> QED
    BY <1>1, <1>2

\* Nobody comes to share the authority of a worker that has not committed.
LEMMA AuthorityUnique ==
    ASSUME TInv, AuthorityInv, HandoffInv, NEW g \in Workers, WorkerStep(g),
           NEW h \in Workers, h # g, wpc[h] \in PreCommit
    PROVE  wauth'[g] # wauth[h]
  <1> USE DEF TInv, TypeOK, DeleteTypeOK
  <1>0. /\ wauth[h] \in Auths /\ dkey[wauth[h]] \in Keys
        /\ wauth[g] # wauth[h]
        /\ row.claim = wauth[h] => ~row.handoff
    BY DEF WorkerInv, AuthorityInv, HandoffInv, WorkerHandoff, PreCommit
  <1>1. ASSUME NEW d \in Auths, AcquireClaim(g, d) PROVE wauth'[g] # wauth[h]
    BY <1>0, <1>1, StateAssumption DEF AcquireClaim
  <1>2. CASE AdoptCommittedOwner(g)
    BY <1>0, <1>2 DEF AdoptCommittedOwner
  <1>3. CASE Return(g)
    BY <1>0, <1>3, StateAssumption DEF Return
  <1>4. CASE UNCHANGED wauth
    BY <1>0, <1>4
  <1> QED
    BY <1>1, <1>2, <1>3, <1>4
    DEF WorkerStep, ReadCandidate, ReleaseStaleBlockClaim, ClaimBlockDelete, SettleBlockClaim,
        ForeignClaim, TakeOverStaleBlockClaim, Goto,
        CheckReferences, ScanRepairBucket, RecheckReferences, FailBeforeHandoff,
        ReleaseReferenced, ReleaseAndPostpone, PrepareBlockDeleteOrphan, InsertPreparedOrphan,
        CommitBlockDeleteOrphanHandoff, SettleBlockDeleteHandoff, PromoteBlockDeleteOrphan,
        PublishCommittedOrphan, FinalizeBlockDelete, SettleBlockCandidate

\* Where a worker's own step leaves the protocol of the claim, nothing is owed.
LEMMA NothingOwed ==
    ASSUME NEW g \in Workers,
           wpc'[g] \in {"idle", "stale", "claim", "clear", "settle_commit", "promote", "publish"}
    PROVE  WorkerHandoff(g)'
  BY DEF WorkerHandoff, PreCommit

\* A worker's own step establishes what its next step relies on.
LEMMA WorkerMoves ==
    ASSUME TInv, AuthorityInv, HandoffInv, NEW g \in Workers, WorkerStep(g)
    PROVE  WorkerHandoff(g)'
  <1> USE DEF TInv, TypeOK, DeleteTypeOK, stateVars, tableVars
  <1>0. WorkerHandoff(g)
    BY DEF HandoffInv
  <1>1. ASSUME NEW d \in Auths, AcquireClaim(g, d), wpc[g] = "claim", UNCHANGED <<orphan, root, life>>
        PROVE  WorkerHandoff(g)'
    <2>1. life[d] = "none"
      BY <1>1, StateAssumption DEF AcquireClaim, AuthorityInv
    <2>2. \A h \in Workers : wauth[h] # d
      BY <1>1, StateAssumption DEF AcquireClaim, AuthorityInv
    <2>3. ~row.handoff
      BY <1>1 DEF AcquireClaim, RowInv, WellFormed
    <2> QED
      BY <1>1, <2>1, <2>2, <2>3 DEF AcquireClaim, WorkerHandoff, PreCommit
  <1>2. CASE ClaimBlockDelete(g)
    BY <1>1, <1>2, NothingOwed
    DEF ClaimBlockDelete, ForeignClaim, AdoptCommittedOwner, TakeOverStaleBlockClaim, Goto, Return
  <1>3. CASE SettleBlockClaim(g)
    <2>1. CASE Goto(g, "refs") /\ UNCHANGED row
      BY <1>0, <1>3, <2>1 DEF SettleBlockClaim, Goto, WorkerHandoff, PreCommit
    <2>2. CASE ForeignClaim(g)
      BY <1>3, <2>2, NothingOwed
      DEF ForeignClaim, AdoptCommittedOwner, TakeOverStaleBlockClaim, Goto, Return
    <2> QED
      BY <1>3, <2>1, <2>2 DEF SettleBlockClaim
  <1>4. CASE CheckReferences(g)
    BY <1>0, <1>4 DEF CheckReferences, WorkerHandoff, PreCommit
  <1>5. ASSUME NEW a \in Attempts, ScanRepairBucket(g, a) PROVE WorkerHandoff(g)'
    BY <1>0, <1>5 DEF ScanRepairBucket, WorkerHandoff, PreCommit
  <1>6. CASE RecheckReferences(g)
    BY <1>0, <1>6 DEF RecheckReferences, Goto, WorkerHandoff, PreCommit
  <1>7. CASE FailBeforeHandoff(g)
    BY <1>0, <1>7 DEF FailBeforeHandoff, WorkerHandoff, PreCommit
  <1>8. CASE PrepareBlockDeleteOrphan(g)
    BY <1>0, <1>8, NothingOwed DEF PrepareBlockDeleteOrphan, Goto, Return, WorkerHandoff, PreCommit
  <1>9. CASE InsertPreparedOrphan(g)
    BY <1>0, <1>9 DEF InsertPreparedOrphan, Goto, WorkerHandoff, PreCommit, WorkerInv
  <1>10. CASE PromoteBlockDeleteOrphan(g)
    BY <1>10, NothingOwed
    DEF PromoteBlockDeleteOrphan, Promotable, Goto, Return, WorkerHandoff, PreCommit, PendingS3
  <1>11. CASE PublishCommittedOrphan(g)
    BY <1>11, NothingOwed
    DEF PublishCommittedOrphan, CommitOrphan, Goto, Return, WorkerHandoff, PreCommit, PendingS3,
        WorkerInv, OrphanState
  <1>12. CASE \/ (\E k \in Keys : ReadCandidate(g, k)) \/ ReleaseStaleBlockClaim(g)
              \/ ReleaseReferenced(g) \/ ReleaseAndPostpone(g)
              \/ CommitBlockDeleteOrphanHandoff(g) \/ SettleBlockDeleteHandoff(g)
              \/ FinalizeBlockDelete(g) \/ SettleBlockCandidate(g)
    BY <1>12, NothingOwed
    DEF ReadCandidate, ReleaseStaleBlockClaim, ReleaseReferenced, ReleaseAndPostpone,
        CommitBlockDeleteOrphanHandoff, SettleBlockDeleteHandoff, FinalizeBlockDelete,
        SettleBlockCandidate, Goto, Return
  <1> QED
    BY <1>2, <1>3, <1>4, <1>5, <1>6, <1>7, <1>8, <1>9, <1>10, <1>11, <1>12 DEF WorkerStep

\* A recoverer's own step establishes what its next step relies on.
LEMMA RecovererMoves ==
    ASSUME TInv, AuthorityInv, HandoffInv, NEW r \in Recoverers, RecovererStep(r)
    PROVE  RecovererHandoff(r)'
  <1> USE DEF TInv, TypeOK, DeleteTypeOK, stateVars, tableVars, RGoto, RReturn, Revoked, PendingS3
  <1>0. RecovererHandoff(r) /\ RecovererInv
    BY DEF HandoffInv
  <1>1. ASSUME NEW d \in Auths, RecoverS3OrphanRoot(r, d) PROVE RecovererHandoff(r)'
    BY <1>1 DEF RecoverS3OrphanRoot, OrphanStep, RecovererHandoff, HandoffInv, TableInv, OrphanState
  <1>2. CASE AbortBlockDeleteHandoff(r)
    <2>1. rauth[r] \in Auths
      BY <1>0, <1>2 DEF AbortBlockDeleteHandoff, RecovererInv
    <2>2. ~Owned(rauth[r]) => row.claim # rauth[r]
      BY <2>1, StateAssumption DEF Owned, AuthorityInv
    <2> QED
      BY <1>2, <2>1, <2>2, StateAssumption
      DEF AbortBlockDeleteHandoff, RecovererHandoff, ClearClaim, FreshRow, recovererVars
  <1>3. CASE ClassifyPreparedOrphan(r)
    BY <1>0, <1>3 DEF ClassifyPreparedOrphan, RecovererHandoff
  <1>4. CASE DeletePreparedBlockDeleteOrphan(r)
    <2>1. rauth[r] \in Auths /\ row.claim # rauth[r]
      BY <1>0, <1>4 DEF DeletePreparedBlockDeleteOrphan, RecovererInv, RecovererHandoff
    <2>2. orphan[rauth[r]] \in {"PREPARED", "none"} => life[rauth[r]] # "published"
      BY <2>1 DEF HandoffInv, TableInv, CommittedRecoverable, OwnedCommitted, Owned
    <2> QED
      BY <1>4, <2>1, <2>2 DEF DeletePreparedBlockDeleteOrphan, RecovererHandoff
  <1>5. CASE RereadOrphan(r)
    <2>1. rauth[r] \in Auths
      BY <1>0, <1>5 DEF RereadOrphan, RecovererInv
    <2> QED
      BY <1>5, <2>1 DEF RereadOrphan, OrphanStep, RecovererHandoff, HandoffInv, TableInv, OrphanState
  <1>6. CASE ObserveBlockDeleteLifecycle(r)
    <2>1. rauth[r] \in Auths
      BY <1>0, <1>6 DEF ObserveBlockDeleteLifecycle, RecovererInv
    <2> QED
      BY <1>0, <1>6, <2>1 DEF ObserveBlockDeleteLifecycle, RecovererHandoff, HandoffInv, TableInv
  <1>7. CASE RecoverFinalize(r)
    <2>1. rauth[r] \in Auths
      BY <1>0, <1>7 DEF RecoverFinalize, RecovererInv
    <2> QED
      BY <1>7, <2>1, StateAssumption
      DEF RecoverFinalize, RetireRow, Finalizable, AlreadyFinalized, RecovererHandoff, AuthorityInv,
          NoRow
  <1>8. CASE TerminateBlockDeleteLifecycle(r)
    BY <1>0, <1>8 DEF TerminateBlockDeleteLifecycle, RecovererHandoff, RecovererInv
  <1>9. CASE DeleteS3Orphan(r)
    BY <1>0, <1>9 DEF DeleteS3Orphan, RecovererHandoff
  <1>10. CASE ReloadCanonical(r) \/ DeleteBlockByStorageKey(r)
              \/ MarkS3OrphanMappingCleanupPending(r)
    BY <1>0, <1>10
    DEF ReloadCanonical, DeleteBlockByStorageKey, MarkS3OrphanMappingCleanupPending,
        RecovererHandoff
  <1>11. CASE DeleteS3OrphanRecoveryRoot(r) \/ RecoverPromote(r) \/ RecoverPublish(r)
    BY <1>11 DEF DeleteS3OrphanRecoveryRoot, RecoverPromote, RecoverPublish, RecovererHandoff
  <1> QED
    BY <1>1, <1>2, <1>3, <1>4, <1>5, <1>6, <1>7, <1>8, <1>9, <1>10, <1>11 DEF RecovererStep

\* A worker moves no other worker.
LEMMA OthersStay ==
    ASSUME TInv, NEW g \in Workers, WorkerStep(g), NEW h \in Workers, h # g
    PROVE  wpc'[h] = wpc[h] /\ wauth'[h] = wauth[h]
  BY DEF TInv, TypeOK, DeleteTypeOK, Goto, Return, AcquireClaim, ForeignClaim, AdoptCommittedOwner,
         TakeOverStaleBlockClaim,
         WorkerStep, ReadCandidate, ReleaseStaleBlockClaim, ClaimBlockDelete, SettleBlockClaim,
         CheckReferences, ScanRepairBucket, RecheckReferences, FailBeforeHandoff,
         ReleaseReferenced, ReleaseAndPostpone, PrepareBlockDeleteOrphan, InsertPreparedOrphan,
         CommitBlockDeleteOrphanHandoff, SettleBlockDeleteHandoff, PromoteBlockDeleteOrphan,
         PublishCommittedOrphan, FinalizeBlockDelete, SettleBlockCandidate

\* A recoverer moves no other recoverer.
LEMMA OtherRecoverersStay ==
    ASSUME TInv, NEW r \in Recoverers, RecovererStep(r), NEW q \in Recoverers, q # r
    PROVE  rpc'[q] = rpc[q] /\ rauth'[q] = rauth[q]
  BY DEF TInv, TypeOK, DeleteTypeOK, RGoto, RReturn, recovererVars,
         RecovererStep, RecoverS3OrphanRoot, AbortBlockDeleteHandoff, ClassifyPreparedOrphan,
         DeletePreparedBlockDeleteOrphan, DeleteS3OrphanRecoveryRoot, RecoverPromote,
         RecoverPublish, RereadOrphan, ObserveBlockDeleteLifecycle, RecoverFinalize,
         ReloadCanonical, DeleteBlockByStorageKey, MarkS3OrphanMappingCleanupPending,
         TerminateBlockDeleteLifecycle, DeleteS3Orphan

\* HandoffInv is preserved by every step.
LEMMA NextHandoff ==
    ASSUME TInv, AuthorityInv, HandoffInv, [Next]_vars
    PROVE  HandoffInv'
  <1> USE DEF TInv, TypeOK, DeleteTypeOK
  <1>1. ASSUME NEW h \in Workers, wpc'[h] = wpc[h], wauth'[h] = wauth[h],
               \A k \in Workers : wauth'[k] = wauth[h] /\ wpc[h] \in PreCommit => k = h
        PROVE  WorkerHandoff(h)'
    <2>1. CASE wpc[h] \in {"idle", "stale", "claim", "clear"}
      BY <1>1, <2>1, NothingOwed
    <2>2. CASE wpc[h] \notin {"idle", "stale", "claim", "clear"}
      BY <1>1, <2>2, WorkerWaits DEF WorkerInv
    <2> QED
      BY <2>1, <2>2
  <1>2. \A g \in Workers : WorkerHandoff(g)'
    <2>1. ASSUME NEW g \in Workers, WorkerStep(g), NEW h \in Workers PROVE WorkerHandoff(h)'
      <3>1. CASE h = g
        BY <2>1, <3>1, WorkerMoves
      <3>2. CASE h # g
        <4>1. \A k \in Workers : wauth'[k] = wauth[h] /\ wpc[h] \in PreCommit => k = h
          BY <2>1, <3>2, OthersStay, AuthorityUnique DEF HandoffInv, WorkerHandoff
        <4> QED
          BY <1>1, <2>1, <3>2, <4>1, OthersStay
      <3> QED
        BY <3>1, <3>2
    <2>2. ASSUME NEW g \in Workers, Return(g), NEW h \in Workers PROVE WorkerHandoff(h)'
      <3>1. CASE h = g
        BY <2>2, <3>1, NothingOwed DEF Return
      <3>2. CASE h # g
        <4>1. \A k \in Workers : wauth'[k] = wauth[h] /\ wpc[h] \in PreCommit => k = h
          BY <2>2, <3>2, StateAssumption DEF Return, HandoffInv, WorkerHandoff, WorkerInv, PreCommit
        <4> QED
          BY <1>1, <2>2, <3>2, <4>1 DEF Return
      <3> QED
        BY <3>1, <3>2
    <2>3. CASE UNCHANGED workerVars
      BY <1>1, <2>3 DEF workerVars, HandoffInv, WorkerHandoff
    <2> QED
      BY OtherSteps, <2>1, <2>2, <2>3 DEF deleteVars
  <1>3. \A r \in Recoverers : RecovererHandoff(r)'
    <2>1. ASSUME NEW r \in Recoverers, RecovererStep(r), NEW q \in Recoverers PROVE RecovererHandoff(q)'
      BY <2>1, RecovererMoves, RecovererWaits, OtherRecoverersStay
    <2>2. ASSUME NEW r \in Recoverers, RReturn(r), NEW q \in Recoverers PROVE RecovererHandoff(q)'
      <3>1. CASE q = r
        BY <2>2, <3>1 DEF RReturn, RecovererHandoff, Revoked
      <3>2. CASE q # r
        BY <2>2, <3>2, RecovererWaits DEF RReturn
      <3> QED
        BY <3>1, <3>2
    <2>3. CASE UNCHANGED recovererVars
      BY <2>3, RecovererWaits DEF recovererVars
    <2> QED
      BY OtherSteps, <2>1, <2>2, <2>3 DEF deleteVars
  <1> QED
    BY <1>2, <1>3, NextRecoverable, NextTable DEF HandoffInv

-----------------------------------------------------------------------------
(* The theorems *)

\* IInv holds initially.
LEMMA InitIInv == Init => IInv
  <1> SUFFICES ASSUME Init PROVE IInv
    OBVIOUS
  <1> USE StateAssumption DEF Init, StateInit, DeleteInit, PublishInit, FreshRow
  <1>1. AuthorityInv
    BY DEF AuthorityInv
  <1>2. MintInv
    BY DEF MintInv, Minting
  <1>3. RetiredInv
    BY DEF RetiredInv, RetiredNotReinstalled
  <1>4. HandoffInv
    BY DEF HandoffInv, CommittedRecoverable, TableInv, WorkerHandoff, RecovererHandoff,
           OwnedCommitted, PreCommit, Revoked
  <1> QED
    BY <1>1, <1>2, <1>3, <1>4, InitTInv DEF IInv

\* The conjunction is inductive.
THEOREM IInvInvariant == Spec => []IInv
  <1>1. IInv /\ [Next]_vars => IInv'
    BY NextTInv, NextAuthority, NextMint, NextRetired, NextHandoff DEF IInv
  <1> QED
    BY InitIInv, <1>1, PTL DEF Spec

\* A storage key whose delete has been certified (the lifecycle certificate of
\* PromoteBlockDeleteOrphan) is never installed again by an upload.
THEOREM RetiredStaysRetired == Spec => []RetiredNotReinstalled
  <1>1. IInv => RetiredNotReinstalled
    BY DEF IInv, RetiredInv
  <1> QED
    BY IInvInvariant, <1>1, PTL

\* Whatever dies between the commit of a handoff and the end of its recovery,
\* the recovery root and the orphan row that lead the recoverer to it stand.
THEOREM CommittedStaysRecoverable == Spec => []CommittedRecoverable
  <1>1. IInv => CommittedRecoverable
    BY DEF IInv, HandoffInv
  <1> QED
    BY IInvInvariant, <1>1, PTL

\* The two kinds of S3 delete.
LEMMA ObjectSteps ==
    ASSUME TInv, [Next]_vars
    PROVE  \/ obj \subseteq obj'
           \/ \E w \in Writers : pc[w] = "lost" /\ obj' = obj \ {key[w]}
           \/ \E r \in Recoverers : rpc[r] = "delete_object" /\ obj' = obj \ {dkey[rauth[r]]}
  <1>1. ASSUME NEW g \in Workers, WorkerStep(g) PROVE obj' = obj
    BY <1>1, WorkerDataOK
  <1>2. ASSUME NEW r \in Recoverers, RecovererStep(r)
        PROVE  obj' = obj \/ (rpc[r] = "delete_object" /\ obj' = obj \ {dkey[rauth[r]]})
    BY <1>2
    DEF RecovererStep, RecoverS3OrphanRoot, AbortBlockDeleteHandoff, ClassifyPreparedOrphan,
        DeletePreparedBlockDeleteOrphan, DeleteS3OrphanRecoveryRoot, RecoverPromote,
        RecoverPublish, RereadOrphan, ObserveBlockDeleteLifecycle, RecoverFinalize,
        ReloadCanonical, DeleteBlockByStorageKey, MarkS3OrphanMappingCleanupPending,
        TerminateBlockDeleteLifecycle, DeleteS3Orphan, stateVars
  <1>3. ASSUME NEW w \in Writers, WriterStep(w)
        PROVE  obj \subseteq obj' \/ (pc[w] = "lost" /\ obj' = obj \ {key[w]})
    BY <1>3
    DEF WriterStep, ProbeRowless, ProbeRow, ValidateRepairAuthority, PutObject,
        VerifyManifestBlock, AddProvisionalReference, CheckDeleteFence, InstallBlockMetadata,
        SettleInstalledBlockMetadata, CleanupFreshInstallTarget, RepairBlockMetadataIfCurrent,
        ConfirmMaterialization, StagePublishAttempt, QueueDurableRepair,
        ValidatePublicationFence, UpdateLibraryHead, ResolveHeadUpdate,
        CleanupFailedPublishAttempt, ClearFailedRepair, PromoteReference,
        RemovePublishAttemptReference, ClearPublishedRepair, stateVars
  <1>4. ASSUME NEW a \in Attempts,
               SweepStep(a) \/ SweepCrash(a) \/ ExpirePubReference(a)
               \/ ExpireVersion(a) \/ RemoveFSObjectReference(a)
        PROVE  obj' = obj
    BY <1>4 DEF SweepStep, SweepReachable, SweepSuperseded, SweepRetained, SweepPromote,
                SweepUnpin, SweepClear, SweepCrash, ExpirePubReference, ExpireVersion,
                RemoveFSObjectReference, stateVars
  <1>5. CASE PublishNext
    BY <1>3, <1>4, <1>5 DEF PublishNext, GiveUp, ExpireUpReference, stateVars
  <1> QED
    BY OtherSteps, <1>1, <1>2, <1>5 DEF stateVars

\* Neither the loser of an INSTALL nor the recoverer of a committed delete ever
\* removes the object that blocks(L) names.
THEOREM NamedObjectStays == Spec => NamedObjectKept
  <1>1. ASSUME IInv, [Next]_vars PROVE [\A k \in obj \ obj' : row.key # k]_vars
    <2>1. ASSUME NEW w \in Writers, pc[w] = "lost" PROVE key[w] # row.key
      BY <1>1, <2>1 DEF IInv, MintInv, Minting
    <2>2. ASSUME NEW r \in Recoverers, rpc[r] = "delete_object" PROVE row.key # dkey[rauth[r]]
      BY <1>1, <2>2 DEF IInv, RetiredInv
    <2>3. TInv
      BY <1>1 DEF IInv
    <2> QED
      BY <1>1, <2>1, <2>2, <2>3, ObjectSteps
  <1> QED
    BY IInvInvariant, <1>1, PTL DEF Spec, NamedObjectKept


-----------------------------------------------------------------------------
(* The commit chain and the pins *)

\* A writer whose attempt has not become HEAD, and one whose attempt has.
Unpublished == {"queue", "validate", "head", "conflict_refs", "conflict_repair",
                "abort_refs", "abort_repair"}
Settling == {"settle_head", "promote", "unpin", "clear"}

\* An attempt takes one position in the commit chain, next to or below HEAD;
\* what was staged, queued or swept has taken it, and only HEAD's or a lower
\* one can be published.
ChainInv ==
    /\ live \subseteq published
    /\ fsRefs \subseteq published
    /\ \A a \in Attempts :
        /\ snap[a] <= head + 1
        /\ a \in published => snap[a] <= head
        /\ a \in published \cup repairs \/ spc[a] # "idle" => snap[a] # 0
    /\ \A w \in Writers : att[w] # NoAttempt => snap[att[w]] # 0
    /\ \A v, w \in Writers : att[v] = att[w] /\ att[v] # NoAttempt => v = w

\* What a writer knows of its attempt: before HEAD the repair row stands unless
\* the attempt is superseded, and after the promotion the permanent reference.
WriterPins(w) ==
    /\ pc[w] \in Unpublished => att[w] \notin published
    /\ pc[w] \in {"validate", "head"} => att[w] \in repairs \/ snap[att[w]] <= head
    /\ pc[w] \in Settling => att[w] \in published
    /\ pc[w] \in {"unpin", "clear"} => att[w] \in fsRefs \/ att[w] \notin live

\* What the sweep knows of the attempt it visits: it is published, or its
\* position in the chain is taken.
SweepPins(a) ==
    /\ spc[a] = "promote" => a \in published
    /\ spc[a] \in {"unpin", "clear"} => a \in fsRefs \/ (a \notin live /\ snap[a] <= head)

\* The inductive strengthening of PublishedPinned.
PinInv ==
    /\ ChainInv
    /\ PublishedPinned
    /\ \A w \in Writers : WriterPins(w)
    /\ \A a \in Attempts : SweepPins(a)

-----------------------------------------------------------------------------
(* What the datacenters show of a claim *)

\* A worker that has seen its claim confirmed in every datacenter.
Confirmed == {"refs", "repairs", "unref", "unwind", "prepare", "orphan", "commit"}

ClaimSeen == \A dc \in DCs : seen[dc].claim # NoAuth

\* An unclaimed view names the current key, and while a confirmed claim or a
\* committed one stands every datacenter shows a claim.
ViewInv ==
    /\ \A dc \in DCs : seen[dc].claim = NoAuth => seen[dc].key \in {NoKey, row.key}
    /\ row.handoff => ClaimSeen
    /\ \A g \in Workers : wpc[g] \in Confirmed /\ row.claim = wauth[g] => ClaimSeen

-----------------------------------------------------------------------------
(* Attempts that the block may not be deleted under *)

\* The attempt is reachable content, or its HEAD CAS can still succeed.
Depends(a) ==
    \/ a \in live
    \/ \E w \in Writers : pc[w] = "head" /\ att[w] = a /\ snap[a] = head + 1

\* While a worker holds its claim, its scan has yet to meet the repair row of
\* every attempt that depends on the block, or the reread will meet its
\* permanent reference; past the scan no attempt depends on the block.
GuardInv ==
    /\ row.handoff \/ row = NoRow => \A a \in Attempts : ~Depends(a)
    /\ \A g \in Workers : row.claim = wauth[g] =>
        /\ wpc[g] = "repairs" => \A a \in Attempts : Depends(a) => a \in wscan[g] \cup fsRefs
        /\ wpc[g] \in {"prepare", "orphan", "commit"} => \A a \in Attempts : ~Depends(a)

\* blocks(L) names a stored object: a fresh object stays from its PUT to the
\* INSTALL of its key.
StoredInv ==
    /\ row.key \in obj \cup {NoKey}
    /\ \A w \in Writers : fresh[w] /\ pc[w] \in {"ref", "fence", "install"} => key[w] \in obj

\* The inductive invariant.
PInv == PinInv /\ ViewInv /\ GuardInv /\ StoredInv

-----------------------------------------------------------------------------
(* Pins: the invariant PinInv *)

\* The variables PinInv speaks of.
pinVars == <<pc, att, snap, head, published, live, fsRefs, repairs, spc>>

\* Steps that touch neither the chain, the references nor the repairs.
LEMMA PinUnchanged ==
    ASSUME PinInv, UNCHANGED pinVars
    PROVE  PinInv'
  BY DEF PinInv, ChainInv, PublishedPinned, WriterPins, SweepPins, pinVars

\* A writer that materialises, or ends, owes its attempt nothing.
LEMMA QuietWriter ==
    ASSUME TInv, PinInv, NEW w \in Writers, NEW l \in WriterPC \ (Unpublished \cup Settling),
           pc' = [pc EXCEPT ![w] = l],
           att' = att \/ att' = [att EXCEPT ![w] = NoAttempt],
           UNCHANGED <<snap, head, published, live, fsRefs, repairs, spc>>
    PROVE  PinInv'
  <1> USE DEF TInv, TypeOK, PublishTypeOK, PinInv
  <1>1. ChainInv'
    BY DEF ChainInv
  <1>2. PublishedPinned'
    BY DEF PublishedPinned
  <1>3. ASSUME NEW v \in Writers PROVE WriterPins(v)'
    BY DEF WriterPins, Unpublished, Settling
  <1>4. ASSUME NEW a \in Attempts PROVE SweepPins(a)'
    BY DEF SweepPins
  <1> QED
    BY <1>1, <1>2, <1>3, <1>4

\* Materialisation ends in a program counter of its own.
LEMMA MaterialisePins ==
    ASSUME TInv, PinInv, NEW w \in Writers,
           \/ \E k \in Keys : ProbeRowless(w, k)
           \/ ProbeRow(w) \/ ValidateRepairAuthority(w) \/ PutObject(w)
           \/ VerifyManifestBlock(w) \/ AddProvisionalReference(w)
           \/ CheckDeleteFence(w) \/ InstallBlockMetadata(w)
           \/ SettleInstalledBlockMetadata(w) \/ CleanupFreshInstallTarget(w)
           \/ RepairBlockMetadataIfCurrent(w) \/ ConfirmMaterialization(w)
           \/ GiveUp(w)
    PROVE  PinInv'
  <1>1. /\ \E l \in WriterPC \ (Unpublished \cup Settling) : pc' = [pc EXCEPT ![w] = l]
        /\ att' = att \/ att' = [att EXCEPT ![w] = NoAttempt]
    BY DEF ProbeRowless, ProbeRow, ValidateRepairAuthority, PutObject, VerifyManifestBlock,
           AddProvisionalReference, CheckDeleteFence, InstallBlockMetadata,
           SettleInstalledBlockMetadata, CleanupFreshInstallTarget,
           RepairBlockMetadataIfCurrent, ConfirmMaterialization, GiveUp, Jump, Leave,
           WriterPC, Unpublished, Settling
  <1>2. UNCHANGED <<snap, head, published, live, fsRefs, repairs, spc>>
    BY DEF ProbeRowless, ProbeRow, ValidateRepairAuthority, PutObject, VerifyManifestBlock,
           AddProvisionalReference, CheckDeleteFence, InstallBlockMetadata,
           SettleInstalledBlockMetadata, CleanupFreshInstallTarget,
           RepairBlockMetadataIfCurrent, ConfirmMaterialization, GiveUp,
           stateVars, refVars, headVars
  <1> QED
    BY <1>1, <1>2, QuietWriter

\* A new attempt takes the position above HEAD and is nobody else's.
LEMMA StagePins ==
    ASSUME TInv, PinInv, NEW w \in Writers, NEW a \in Attempts, StagePublishAttempt(w, a)
    PROVE  PinInv'
  <1> USE PublishAssumption DEF TInv, TypeOK, PublishTypeOK, PinInv, StagePublishAttempt
  <1>1. ChainInv'
    BY DEF ChainInv
  <1>2. PublishedPinned'
    BY DEF PublishedPinned
  <1>3. ASSUME NEW v \in Writers PROVE WriterPins(v)'
    BY DEF WriterPins, Unpublished, Settling, ChainInv, WriterInv
  <1>4. ASSUME NEW b \in Attempts PROVE SweepPins(b)'
    BY DEF SweepPins, ChainInv
  <1> QED
    BY <1>1, <1>2, <1>3, <1>4

\* The repair row stands from here until the attempt is settled.
LEMMA QueuePins ==
    ASSUME TInv, PinInv, NEW w \in Writers, QueueDurableRepair(w) \/ ValidatePublicationFence(w)
    PROVE  PinInv'
  <1> USE DEF TInv, TypeOK, PublishTypeOK, WriterInv, PinInv, QueueDurableRepair,
              ValidatePublicationFence, Jump, headVars, stateVars
  <1>1. ChainInv'
    BY PublishAssumption DEF ChainInv
  <1>2. PublishedPinned'
    BY DEF PublishedPinned
  <1>3. ASSUME NEW v \in Writers PROVE WriterPins(v)'
    BY DEF WriterPins, Unpublished, Settling
  <1>4. ASSUME NEW b \in Attempts PROVE SweepPins(b)'
    BY DEF SweepPins
  <1> QED
    BY <1>1, <1>2, <1>3, <1>4

\* The HEAD CAS publishes an attempt only while its repair row stands.
LEMMA HeadPins ==
    ASSUME TInv, PinInv, NEW w \in Writers, UpdateLibraryHead(w)
    PROVE  PinInv'
  <1> USE DEF TInv, TypeOK, PublishTypeOK, WriterInv, PinInv, UpdateLibraryHead, Jump, stateVars
  <1>0. att[w] \in Attempts /\ WriterPins(w)
    OBVIOUS
  <1>1. ChainInv'
    BY <1>0 DEF ChainInv
  <1>2. PublishedPinned'
    BY <1>0 DEF PublishedPinned, WriterPins, ChainInv
  <1>3. ASSUME NEW v \in Writers PROVE WriterPins(v)'
    <2>1. v # w => att[v] # att[w]
      BY <1>0, PublishAssumption DEF ChainInv
    <2> QED
      BY <1>0, <2>1 DEF WriterPins, Unpublished, Settling
  <1>4. ASSUME NEW b \in Attempts PROVE SweepPins(b)'
    BY <1>0 DEF SweepPins
  <1> QED
    BY <1>1, <1>2, <1>3, <1>4

\* After the CAS: resolution, promotion and the removal of the pub: reference.
LEMMA SettlePins ==
    ASSUME TInv, PinInv, NEW w \in Writers,
           ResolveHeadUpdate(w) \/ CleanupFailedPublishAttempt(w)
           \/ PromoteReference(w) \/ RemovePublishAttemptReference(w)
    PROVE  PinInv'
  <1> USE DEF TInv, TypeOK, PublishTypeOK, WriterInv, PinInv, ResolveHeadUpdate,
              CleanupFailedPublishAttempt, PromoteReference, RemovePublishAttemptReference,
              Jump, Leave, headVars, stateVars
  <1>0. att[w] \in Attempts /\ WriterPins(w)
    OBVIOUS
  <1>1. ChainInv'
    BY <1>0 DEF ChainInv, WriterPins, Settling
  <1>2. PublishedPinned'
    BY DEF PublishedPinned
  <1>3. ASSUME NEW v \in Writers PROVE WriterPins(v)'
    BY <1>0 DEF WriterPins, Unpublished, Settling
  <1>4. ASSUME NEW b \in Attempts PROVE SweepPins(b)'
    BY DEF SweepPins
  <1> QED
    BY <1>1, <1>2, <1>3, <1>4

\* A writer clears the repair row of an attempt that never was published, or
\* whose permanent reference is written.
LEMMA ClearPins ==
    ASSUME TInv, PinInv, NEW w \in Writers, ClearFailedRepair(w) \/ ClearPublishedRepair(w)
    PROVE  PinInv'
  <1> USE DEF TInv, TypeOK, PublishTypeOK, WriterInv, PinInv, ClearFailedRepair,
              ClearPublishedRepair, Jump, Leave, headVars
  <1>0. att[w] \in Attempts /\ WriterPins(w)
    OBVIOUS
  <1>1. ChainInv'
    BY <1>0 DEF ChainInv
  <1>2. PublishedPinned'
    BY <1>0 DEF PublishedPinned, WriterPins, Unpublished, ChainInv
  <1>3. ASSUME NEW v \in Writers PROVE WriterPins(v)'
    <2>1. v # w => att[v] # att[w]
      BY <1>0, PublishAssumption DEF ChainInv
    <2> QED
      BY <1>0, <2>1 DEF WriterPins, Unpublished, Settling
  <1>4. ASSUME NEW b \in Attempts PROVE SweepPins(b)'
    BY DEF SweepPins
  <1> QED
    BY <1>1, <1>2, <1>3, <1>4

\* The sweep takes a repair row away from an attempt only when it has its
\* permanent reference or can never be published.
LEMMA SweepStepPins ==
    ASSUME TInv, PinInv, NEW a \in Attempts, SweepStep(a) \/ SweepCrash(a)
    PROVE  PinInv'
  <1> USE DEF TInv, TypeOK, PublishTypeOK, WriterInv, PinInv, SweepStep, SweepCrash,
              SweepReachable, SweepSuperseded, SweepRetained, SweepPromote, SweepUnpin,
              SweepClear, SweepTo, headVars, stateVars, refVars, publishVars, writerVars
  <1>0. SweepPins(a)
    OBVIOUS
  <1>1. ChainInv'
    BY <1>0 DEF ChainInv, SweepPins
  <1>2. PublishedPinned'
    BY <1>0 DEF PublishedPinned, SweepPins
  <1>3. ASSUME NEW v \in Writers PROVE WriterPins(v)'
    BY <1>0 DEF WriterPins, SweepPins, Unpublished, Settling, ChainInv
  <1>4. ASSUME NEW b \in Attempts PROVE SweepPins(b)'
    BY <1>0 DEF SweepPins, ChainInv
  <1> QED
    BY <1>1, <1>2, <1>3, <1>4

\* References expire, versions leave the history and the permanent reference
\* of an unreachable one is removed.
LEMMA ExpiryPins ==
    ASSUME TInv, PinInv, NEW a \in Attempts,
           ExpirePubReference(a) \/ ExpireVersion(a) \/ RemoveFSObjectReference(a)
    PROVE  PinInv'
  <1> USE DEF TInv, TypeOK, PublishTypeOK, WriterInv, PinInv, ExpirePubReference,
              ExpireVersion, RemoveFSObjectReference, headVars, stateVars, refVars,
              publishVars, writerVars
  <1>1. ChainInv'
    BY DEF ChainInv
  <1>2. PublishedPinned'
    BY DEF PublishedPinned
  <1>3. ASSUME NEW v \in Writers PROVE WriterPins(v)'
    BY DEF WriterPins, Unpublished, Settling
  <1>4. ASSUME NEW b \in Attempts PROVE SweepPins(b)'
    BY DEF SweepPins, ChainInv
  <1> QED
    BY <1>1, <1>2, <1>3, <1>4

\* PinInv is preserved by every step.
LEMMA NextPins ==
    ASSUME TInv, PinInv, [Next]_vars
    PROVE  PinInv'
  <1>1. CASE PublishNext
    <2>1. ASSUME NEW w \in Writers, WriterStep(w) \/ GiveUp(w) PROVE PinInv'
      BY <2>1, MaterialisePins, StagePins, QueuePins, HeadPins, SettlePins, ClearPins DEF WriterStep
    <2>2. ASSUME NEW w \in Writers, ExpireUpReference(w) PROVE PinInv'
      BY <2>2, PinUnchanged DEF ExpireUpReference, pinVars, publishVars, writerVars, headVars
    <2> QED
      BY <1>1, <2>1, <2>2, SweepStepPins, ExpiryPins DEF PublishNext
  <1>2. ASSUME NEW g \in Workers, WorkerStep(g) PROVE UNCHANGED refVars
    BY <1>2, WorkerDataOK DEF refVars
  <1>3. ASSUME NEW r \in Recoverers, RecovererStep(r) PROVE UNCHANGED refVars
    BY <1>3, RecovererDataOK DEF refVars
  <1>4. CASE UNCHANGED <<refVars, publishVars>>
    BY <1>4, PinUnchanged DEF pinVars, refVars, publishVars, writerVars, headVars
  <1> QED
    BY OtherSteps, <1>1, <1>2, <1>3, <1>4 DEF stateVars, refVars

-----------------------------------------------------------------------------
(* Views: the invariant ViewInv *)

\* How the row and the views of it change together: everyone sees the new row,
\* nobody does yet, one datacenter catches up, or the installer's does.
ViewStep ==
    \/ seen' = VisibleEverywhere(row')
    \/ UNCHANGED seen
    \/ UNCHANGED row /\ \E dc \in DCs : seen' = [seen EXCEPT ![dc] = row]
    \/ row = NoRow /\ \E dc \in DCs : seen' = [seen EXCEPT ![dc] = row']

\* Every step changes the views in one of these ways.
LEMMA NextViewStep ==
    ASSUME TInv, [Next]_vars
    PROVE  ViewStep
  <1> USE DEF ViewStep, stateVars
  <1>1. ASSUME NEW g \in Workers, WorkerStep(g) PROVE ViewStep
    BY <1>1
    DEF WorkerStep, ReadCandidate, ReleaseStaleBlockClaim, ClaimBlockDelete, SettleBlockClaim,
        AcquireClaim, ForeignClaim, AdoptCommittedOwner, TakeOverStaleBlockClaim,
        CheckReferences, ScanRepairBucket, RecheckReferences, FailBeforeHandoff,
        ReleaseReferenced, ReleaseAndPostpone, PrepareBlockDeleteOrphan, InsertPreparedOrphan,
        CommitBlockDeleteOrphanHandoff, SettleBlockDeleteHandoff, PromoteBlockDeleteOrphan,
        PublishCommittedOrphan, FinalizeBlockDelete, SettleBlockCandidate
  <1>2. ASSUME NEW r \in Recoverers, RecovererStep(r) PROVE ViewStep
    BY <1>2
    DEF RecovererStep, RecoverS3OrphanRoot, AbortBlockDeleteHandoff, ClassifyPreparedOrphan,
        DeletePreparedBlockDeleteOrphan, DeleteS3OrphanRecoveryRoot, RecoverPromote,
        RecoverPublish, RereadOrphan, ObserveBlockDeleteLifecycle, RecoverFinalize,
        ReloadCanonical, DeleteBlockByStorageKey, MarkS3OrphanMappingCleanupPending,
        TerminateBlockDeleteLifecycle, DeleteS3Orphan
  <1>3. ASSUME NEW w \in Writers, InstallBlockMetadata(w) PROVE ViewStep
    BY <1>3, StateAssumption DEF InstallBlockMetadata
  <1>4. ASSUME NEW w \in Writers, WriterStep(w), ~InstallBlockMetadata(w) PROVE UNCHANGED seen
    BY <1>4
    DEF WriterStep, ProbeRowless, ProbeRow, ValidateRepairAuthority, PutObject,
        VerifyManifestBlock, AddProvisionalReference, CheckDeleteFence,
        SettleInstalledBlockMetadata, CleanupFreshInstallTarget, RepairBlockMetadataIfCurrent,
        ConfirmMaterialization, StagePublishAttempt, QueueDurableRepair,
        ValidatePublicationFence, UpdateLibraryHead, ResolveHeadUpdate,
        CleanupFailedPublishAttempt, ClearFailedRepair, PromoteReference,
        RemovePublishAttemptReference, ClearPublishedRepair
  <1>5. ASSUME NEW w \in Writers, GiveUp(w) \/ ExpireUpReference(w) PROVE UNCHANGED seen
    BY <1>5 DEF GiveUp, ExpireUpReference
  <1>6. ASSUME NEW a \in Attempts,
               SweepStep(a) \/ SweepCrash(a) \/ ExpirePubReference(a)
               \/ ExpireVersion(a) \/ RemoveFSObjectReference(a)
        PROVE  UNCHANGED seen
    BY <1>6 DEF SweepStep, SweepReachable, SweepSuperseded, SweepRetained, SweepPromote,
                SweepUnpin, SweepClear, SweepCrash, ExpirePubReference, ExpireVersion,
                RemoveFSObjectReference
  <1>7. CASE PublishNext
    BY <1>3, <1>4, <1>5, <1>6, <1>7 DEF PublishNext
  <1>8. CASE DeleteNext
    BY <1>1, <1>2, <1>8 DEF DeleteNext, CrashWorker, CrashRecoverer, EnsureBlockGCCandidate
  <1>9. CASE \E dc \in DCs : Replicate(dc)
    BY <1>9 DEF Replicate
  <1> QED
    BY <1>7, <1>8, <1>9 DEF Next, vars

\* A worker enters the steps behind a confirmed claim when every datacenter
\* shows the claim, and moves among them.
LEMMA ConfirmedSteps ==
    ASSUME TInv, [Next]_vars, NEW g \in Workers, wpc'[g] \in Confirmed
    PROVE  \/ wpc[g] \in Confirmed /\ wauth'[g] = wauth[g]
           \/ seen' = VisibleEverywhere(row')
  <1> DEFINE Goal == \/ wpc[g] \in Confirmed /\ wauth'[g] = wauth[g]
                     \/ seen' = VisibleEverywhere(row')
  <1> USE DEF TInv, TypeOK, DeleteTypeOK, Confirmed, Goto, Return
  <1>1. ASSUME NEW h \in Workers, WorkerStep(h) PROVE Goal
    <2>1. CASE h = g
      BY <1>1, <2>1
      DEF WorkerStep, ReadCandidate, ReleaseStaleBlockClaim, ClaimBlockDelete, SettleBlockClaim,
          AcquireClaim, ForeignClaim, AdoptCommittedOwner, TakeOverStaleBlockClaim,
          CheckReferences, ScanRepairBucket, RecheckReferences, FailBeforeHandoff,
          ReleaseReferenced, ReleaseAndPostpone, PrepareBlockDeleteOrphan, InsertPreparedOrphan,
          CommitBlockDeleteOrphanHandoff, SettleBlockDeleteHandoff, PromoteBlockDeleteOrphan,
          PublishCommittedOrphan, FinalizeBlockDelete, SettleBlockCandidate
    <2>2. CASE h # g
      BY <1>1, <2>2, OthersStay
    <2> QED
      BY <2>1, <2>2
  <1>2. ASSUME NEW h \in Workers, Return(h) PROVE Goal
    BY <1>2
  <1>3. CASE UNCHANGED workerVars
    BY <1>3 DEF workerVars
  <1> QED
    BY OtherSteps, <1>1, <1>2, <1>3 DEF deleteVars

\* ViewInv is preserved by every step.
LEMMA NextViews ==
    ASSUME TInv, AuthorityInv, ViewInv, [Next]_vars
    PROVE  ViewInv'
  <1> USE DEF TInv, TypeOK, StateTypeOK, DeleteTypeOK
  <1>0. RowStep /\ ViewStep
    BY NextRowStep, NextViewStep
  <1>1. (\A dc \in DCs : seen[dc].claim = NoAuth => seen[dc].key \in {NoKey, row.key})'
    <2>1. row'.key = row.key \/ (row.handoff /\ row' = NoRow) \/ row = NoRow
      BY <1>0 DEF RowStep, DeleteRowStep, RowReleased, RowClaimed, RowCondemned, RowRetired,
                  RowInstalled, FreshRow, OwnedCommitted
    <2>2. ASSUME NEW dc \in DCs, seen[dc].claim = NoAuth PROVE seen[dc].key \in {NoKey, row'.key}
      BY <2>1, <2>2 DEF ViewInv, ClaimSeen, NoRow
    <2> QED
      BY <1>0, <2>2 DEF ViewStep, VisibleEverywhere
  <1>2. ASSUME row'.claim # NoAuth, row.claim # NoAuth, ClaimSeen PROVE ClaimSeen'
    BY <1>0, <1>2 DEF ViewStep, VisibleEverywhere, ClaimSeen, NoRow
  <1>3. ASSUME row'.claim # NoAuth, seen' = VisibleEverywhere(row') PROVE ClaimSeen'
    BY <1>3 DEF VisibleEverywhere, ClaimSeen
  <1>4. ASSUME row'.handoff PROVE ClaimSeen'
    <2>1. row'.claim # NoAuth /\ row.claim # NoAuth /\ ClaimSeen
      <3>1. CASE row.handoff
        BY <1>0, <1>4, <3>1
        DEF RowInv, WellFormed, ViewInv, RowStep, DeleteRowStep, RowReleased, RowClaimed,
            RowCondemned, RowRetired, RowInstalled, FreshRow, NoRow, OwnedUncommitted
      <3>2. CASE ~row.handoff
        <4>1. PICK g \in Workers : /\ wpc[g] = "commit" /\ OwnedUncommitted(wauth[g])
                                   /\ row' = [key |-> row.key, claim |-> row.claim, handoff |-> TRUE]
          BY <1>0, <1>4, <3>2
          DEF RowStep, DeleteRowStep, RowReleased, RowClaimed, RowCondemned, RowRetired,
              RowInstalled, FreshRow, NoRow
        <4> QED
          BY <4>1, StateAssumption
          DEF ViewInv, Confirmed, OwnedUncommitted, Owned, WorkerInv
      <3> QED
        BY <3>1, <3>2
    <2> QED
      BY <1>2, <2>1
  <1>5. ASSUME NEW g \in Workers, wpc'[g] \in Confirmed, row'.claim = wauth'[g] PROVE ClaimSeen'
    <2>0. wauth'[g] \in Auths
      BY <1>5, NextTInv DEF WorkerInv, Confirmed
    <2>1. CASE seen' = VisibleEverywhere(row')
      BY <1>3, <1>5, <2>0, <2>1, StateAssumption
    <2>2. CASE wpc[g] \in Confirmed /\ wauth'[g] = wauth[g]
      <3>1. row.claim = wauth[g]
        BY <1>0, <1>5, <2>0, <2>2, BoundOnce DEF AuthorityInv
      <3> QED
        BY <1>2, <1>5, <2>0, <2>2, <3>1, StateAssumption DEF ViewInv
    <2> QED
      BY <1>5, <2>1, <2>2, ConfirmedSteps
  <1> QED
    BY <1>1, <1>4, <1>5 DEF ViewInv

-----------------------------------------------------------------------------
(* Objects: the invariant StoredInv *)

\* A writer comes to hold a fresh key at one of the three steps by its PUT, or
\* it was there already.
LEMMA FreshSteps ==
    ASSUME TInv, MintInv, [Next]_vars, NEW w \in Writers,
           fresh'[w], pc'[w] \in {"ref", "fence", "install"}
    PROVE  \/ key'[w] = key[w] /\ fresh[w] /\ pc[w] \in {"ref", "fence", "install"}
           \/ key'[w] \in obj'
  <1> DEFINE Goal == \/ key'[w] = key[w] /\ fresh[w] /\ pc[w] \in {"ref", "fence", "install"}
                     \/ key'[w] \in obj'
  <1> USE DEF TInv, TypeOK, PublishTypeOK, Jump, Leave
  <1>1. ASSUME NEW v \in Writers, WriterStep(v) PROVE Goal
    BY <1>1
    DEF WriterStep, ProbeRowless, ProbeRow, ValidateRepairAuthority, PutObject,
        VerifyManifestBlock, AddProvisionalReference, CheckDeleteFence, InstallBlockMetadata,
        SettleInstalledBlockMetadata, CleanupFreshInstallTarget, RepairBlockMetadataIfCurrent,
        ConfirmMaterialization, StagePublishAttempt, QueueDurableRepair,
        ValidatePublicationFence, UpdateLibraryHead, ResolveHeadUpdate,
        CleanupFailedPublishAttempt, ClearFailedRepair, PromoteReference,
        RemovePublishAttemptReference, ClearPublishedRepair
  <1>2. ASSUME NEW v \in Writers, GiveUp(v) PROVE Goal
    BY <1>2 DEF GiveUp
  <1>3. CASE UNCHANGED writerVars
    BY <1>3 DEF writerVars
  <1>4. ASSUME NEW v \in Writers, ExpireUpReference(v) PROVE Goal
    BY <1>3, <1>4 DEF ExpireUpReference, publishVars
  <1>5. ASSUME NEW a \in Attempts,
               SweepStep(a) \/ SweepCrash(a) \/ ExpirePubReference(a)
               \/ ExpireVersion(a) \/ RemoveFSObjectReference(a)
        PROVE  Goal
    BY <1>3, <1>5
    DEF SweepStep, SweepReachable, SweepSuperseded, SweepRetained, SweepPromote,
        SweepUnpin, SweepClear, SweepCrash, ExpirePubReference, ExpireVersion,
        RemoveFSObjectReference, publishVars
  <1>6. CASE PublishNext
    BY <1>1, <1>2, <1>4, <1>5, <1>6 DEF PublishNext
  <1> QED
    BY OtherSteps, <1>3, <1>6 DEF publishVars

\* StoredInv is preserved by every step.
LEMMA NextStored ==
    ASSUME IInv, StoredInv, [Next]_vars
    PROVE  StoredInv'
  <1> USE DEF IInv, TInv, TypeOK, StateTypeOK, PublishTypeOK
  <1>0. RowStep
    BY NextRowStep
  <1>1. ASSUME NEW k \in obj, k = row.key \/ \E w \in Writers : /\ k = key[w] /\ fresh[w]
                                                            /\ pc[w] \in {"ref", "fence", "install"}
        PROVE  k \in obj'
    <2>1. ASSUME NEW v \in Writers, pc[v] = "lost" PROVE k # key[v]
      BY <1>1, <2>1 DEF MintInv, Minting
    <2>2. ASSUME NEW r \in Recoverers, rpc[r] = "delete_object" PROVE k # dkey[rauth[r]]
      BY <1>1, <2>2 DEF MintInv, Minting, RetiredInv, RecovererInv
    <2> QED
      BY <2>1, <2>2, ObjectSteps
  <1>2. row'.key \in obj' \cup {NoKey}
    <2>1. row'.key \in {row.key, NoKey} \/ \E w \in Writers : pc[w] = "install" /\ row'.key = key[w]
      BY <1>0 DEF RowStep, DeleteRowStep, RowReleased, RowClaimed, RowCondemned, RowRetired,
                  RowInstalled, FreshRow, NoRow
    <2> QED
      BY <1>1, <2>1 DEF StoredInv, MintInv
  <1>3. ASSUME NEW w \in Writers, fresh'[w], pc'[w] \in {"ref", "fence", "install"}
        PROVE  key'[w] \in obj'
    BY <1>1, <1>3, FreshSteps DEF StoredInv
  <1> QED
    BY <1>2, <1>3 DEF StoredInv

-----------------------------------------------------------------------------
(* Attempts that depend on the block: the invariant GuardInv *)

\* An attempt comes to depend on the block only by the last look at the row
\* before HEAD, which finds no claim on the key it publishes.
LEMMA DependsSteps ==
    ASSUME TInv, PinInv, [Next]_vars, NEW a \in Attempts, Depends(a)'
    PROVE  \/ Depends(a)
           \/ \E w \in Writers : ValidatePublicationFence(w) /\ Authorizes(View(w), key[w])
  <1> DEFINE Goal == \/ Depends(a)
                     \/ \E w \in Writers : ValidatePublicationFence(w) /\ Authorizes(View(w), key[w])
  <1> USE DEF TInv, TypeOK, PublishTypeOK, Depends
  <1>1. ASSUME NEW w \in Writers, UpdateLibraryHead(w) PROVE Goal
    BY <1>1 DEF UpdateLibraryHead, Jump, PinInv, ChainInv
  <1>2. ASSUME NEW w \in Writers, ValidatePublicationFence(w) PROVE Goal
    BY <1>2 DEF ValidatePublicationFence, Jump, headVars
  <1>3. ASSUME NEW w \in Writers, NEW b \in Attempts, StagePublishAttempt(w, b) PROVE Goal
    BY <1>3, PublishAssumption DEF StagePublishAttempt, PinInv, ChainInv, WriterInv
  <1>4. ASSUME NEW w \in Writers,
               \/ \E k \in Keys : ProbeRowless(w, k)
               \/ ProbeRow(w) \/ ValidateRepairAuthority(w) \/ PutObject(w)
               \/ VerifyManifestBlock(w) \/ AddProvisionalReference(w)
               \/ CheckDeleteFence(w) \/ InstallBlockMetadata(w)
               \/ SettleInstalledBlockMetadata(w) \/ CleanupFreshInstallTarget(w)
               \/ RepairBlockMetadataIfCurrent(w) \/ ConfirmMaterialization(w)
        PROVE  Goal
    BY <1>4
    DEF ProbeRowless, ProbeRow, ValidateRepairAuthority, PutObject, VerifyManifestBlock,
        AddProvisionalReference, CheckDeleteFence, InstallBlockMetadata,
        SettleInstalledBlockMetadata, CleanupFreshInstallTarget,
        RepairBlockMetadataIfCurrent, ConfirmMaterialization, Jump, Leave, headVars
  <1>5. ASSUME NEW w \in Writers,
               QueueDurableRepair(w) \/ ResolveHeadUpdate(w) \/ CleanupFailedPublishAttempt(w)
               \/ ClearFailedRepair(w) \/ PromoteReference(w)
               \/ RemovePublishAttemptReference(w) \/ ClearPublishedRepair(w) \/ GiveUp(w)
        PROVE  Goal
    BY <1>5
    DEF QueueDurableRepair, ResolveHeadUpdate, CleanupFailedPublishAttempt, ClearFailedRepair,
        PromoteReference, RemovePublishAttemptReference, ClearPublishedRepair, GiveUp, Jump,
        Leave, headVars
  <1>6. CASE live' \subseteq live /\ UNCHANGED <<writerVars, snap, head>>
    BY <1>6 DEF writerVars
  <1>7. ASSUME NEW w \in Writers, ExpireUpReference(w) PROVE Goal
    BY <1>6, <1>7 DEF ExpireUpReference, publishVars, headVars
  <1>8. ASSUME NEW b \in Attempts,
               SweepStep(b) \/ SweepCrash(b) \/ ExpirePubReference(b)
               \/ ExpireVersion(b) \/ RemoveFSObjectReference(b)
        PROVE  Goal
    BY <1>6, <1>8
    DEF SweepStep, SweepReachable, SweepSuperseded, SweepRetained, SweepPromote,
        SweepUnpin, SweepClear, SweepCrash, ExpirePubReference, ExpireVersion,
        RemoveFSObjectReference, publishVars, headVars
  <1>9. CASE PublishNext
    BY <1>1, <1>2, <1>3, <1>4, <1>5, <1>7, <1>8, <1>9 DEF PublishNext, WriterStep
  <1>10. CASE UNCHANGED publishVars
    BY <1>6, <1>10 DEF publishVars, headVars
  <1> QED
    BY OtherSteps, <1>9, <1>10

\* An attempt that depends on the block is pinned, and its permanent reference
\* is not removed under it.
LEMMA DependsPinned ==
    ASSUME TInv, PinInv, NEW a \in Attempts, Depends(a)
    PROVE  a \in fsRefs \cup repairs /\ (a \in fsRefs => a \in live)
  BY PublishAssumption DEF TInv, TypeOK, PublishTypeOK, PinInv, ChainInv, PublishedPinned, WriterPins, Depends, Unpublished

\* A permanent reference of reachable content stays.
LEMMA ReferenceStays ==
    ASSUME TInv, [Next]_vars, NEW a \in fsRefs, a \in live
    PROVE  a \in fsRefs'
  <1>1. ASSUME NEW w \in Writers, WriterStep(w) PROVE a \in fsRefs'
    BY <1>1
    DEF WriterStep, ProbeRowless, ProbeRow, ValidateRepairAuthority, PutObject,
        VerifyManifestBlock, AddProvisionalReference, CheckDeleteFence, InstallBlockMetadata,
        SettleInstalledBlockMetadata, CleanupFreshInstallTarget, RepairBlockMetadataIfCurrent,
        ConfirmMaterialization, StagePublishAttempt, QueueDurableRepair,
        ValidatePublicationFence, UpdateLibraryHead, ResolveHeadUpdate,
        CleanupFailedPublishAttempt, ClearFailedRepair, PromoteReference,
        RemovePublishAttemptReference, ClearPublishedRepair, stateVars, refVars
  <1>2. ASSUME NEW w \in Writers, GiveUp(w) \/ ExpireUpReference(w) PROVE a \in fsRefs'
    BY <1>2 DEF GiveUp, ExpireUpReference, stateVars
  <1>3. ASSUME NEW b \in Attempts,
               SweepStep(b) \/ SweepCrash(b) \/ ExpirePubReference(b)
               \/ ExpireVersion(b) \/ RemoveFSObjectReference(b)
        PROVE  a \in fsRefs'
    BY <1>3
    DEF SweepStep, SweepReachable, SweepSuperseded, SweepRetained, SweepPromote,
        SweepUnpin, SweepClear, SweepCrash, ExpirePubReference, ExpireVersion,
        RemoveFSObjectReference, stateVars
  <1>4. CASE PublishNext
    BY <1>1, <1>2, <1>3, <1>4 DEF PublishNext
  <1> QED
    BY OtherSteps, <1>4, WorkerDataOK, RecovererDataOK DEF stateVars, refVars

\* How a worker comes to the scan of the repair rows and past it.
LEMMA ScanSteps ==
    ASSUME TInv, [Next]_vars, NEW g \in Workers,
           wpc'[g] \in {"repairs", "prepare", "orphan", "commit"}
    PROVE  /\ wpc[g] \in Confirmed /\ wauth'[g] = wauth[g]
           /\ wpc'[g] = "repairs" =>
                \/ wscan'[g] = Attempts
                \/ wpc[g] = "repairs" /\ \A a \in Attempts :
                        a \in wscan[g] => a \in wscan'[g] \/ a \notin repairs
           /\ wpc'[g] # "repairs" =>
                \/ wpc[g] \in {"prepare", "orphan", "commit"}
                \/ wpc[g] = "repairs" /\ wscan[g] = {} /\ ~Referenced
  <1> DEFINE Goal ==
           /\ wpc[g] \in Confirmed /\ wauth'[g] = wauth[g]
           /\ wpc'[g] = "repairs" =>
                \/ wscan'[g] = Attempts
                \/ wpc[g] = "repairs" /\ \A a \in Attempts :
                        a \in wscan[g] => a \in wscan'[g] \/ a \notin repairs
           /\ wpc'[g] # "repairs" =>
                \/ wpc[g] \in {"prepare", "orphan", "commit"}
                \/ wpc[g] = "repairs" /\ wscan[g] = {} /\ ~Referenced
  <1> USE DEF TInv, TypeOK, DeleteTypeOK, Confirmed, Goto, Return
  <1>1. ASSUME NEW h \in Workers, h # g,
               \/ (\E k \in Keys : ReadCandidate(h, k)) \/ ReleaseStaleBlockClaim(h)
               \/ ClaimBlockDelete(h) \/ SettleBlockClaim(h) \/ CheckReferences(h)
               \/ (\E a \in Attempts : ScanRepairBucket(h, a)) \/ RecheckReferences(h)
               \/ FailBeforeHandoff(h) \/ ReleaseReferenced(h) \/ ReleaseAndPostpone(h)
               \/ PrepareBlockDeleteOrphan(h) \/ InsertPreparedOrphan(h)
               \/ CommitBlockDeleteOrphanHandoff(h) \/ SettleBlockDeleteHandoff(h)
               \/ PromoteBlockDeleteOrphan(h) \/ PublishCommittedOrphan(h)
               \/ FinalizeBlockDelete(h) \/ SettleBlockCandidate(h)
        PROVE  wpc'[g] = wpc[g] /\ wauth'[g] = wauth[g] /\ wscan'[g] = wscan[g]
    BY <1>1
    DEF ReadCandidate, ReleaseStaleBlockClaim, ClaimBlockDelete, SettleBlockClaim,
        AcquireClaim, ForeignClaim, AdoptCommittedOwner, TakeOverStaleBlockClaim,
        CheckReferences, ScanRepairBucket, RecheckReferences, FailBeforeHandoff,
        ReleaseReferenced, ReleaseAndPostpone, PrepareBlockDeleteOrphan, InsertPreparedOrphan,
        CommitBlockDeleteOrphanHandoff, SettleBlockDeleteHandoff, PromoteBlockDeleteOrphan,
        PublishCommittedOrphan, FinalizeBlockDelete, SettleBlockCandidate
  <1>2. CASE CheckReferences(g)
    BY <1>2 DEF CheckReferences
  <1>3. ASSUME NEW a \in Attempts, ScanRepairBucket(g, a) PROVE Goal
    BY <1>3 DEF ScanRepairBucket
  <1>4. CASE RecheckReferences(g)
    BY <1>4 DEF RecheckReferences
  <1>5. CASE \/ (\E k \in Keys : ReadCandidate(g, k)) \/ ReleaseStaleBlockClaim(g)
             \/ ClaimBlockDelete(g) \/ SettleBlockClaim(g)
             \/ FailBeforeHandoff(g) \/ ReleaseReferenced(g) \/ ReleaseAndPostpone(g)
             \/ PrepareBlockDeleteOrphan(g) \/ InsertPreparedOrphan(g)
             \/ CommitBlockDeleteOrphanHandoff(g) \/ SettleBlockDeleteHandoff(g)
             \/ PromoteBlockDeleteOrphan(g) \/ PublishCommittedOrphan(g)
             \/ FinalizeBlockDelete(g) \/ SettleBlockCandidate(g)
    BY <1>5
    DEF ReadCandidate, ReleaseStaleBlockClaim, ClaimBlockDelete, SettleBlockClaim,
        AcquireClaim, ForeignClaim, AdoptCommittedOwner, TakeOverStaleBlockClaim,
        FailBeforeHandoff, ReleaseReferenced, ReleaseAndPostpone, PrepareBlockDeleteOrphan,
        InsertPreparedOrphan, CommitBlockDeleteOrphanHandoff, SettleBlockDeleteHandoff,
        PromoteBlockDeleteOrphan, PublishCommittedOrphan, FinalizeBlockDelete,
        SettleBlockCandidate
  <1>6. ASSUME NEW h \in Workers, Return(h) PROVE Goal
    BY <1>6
  <1>7. CASE wpc'[g] = wpc[g] /\ wauth'[g] = wauth[g] /\ wscan'[g] = wscan[g]
    BY <1>7
  <1>8. ASSUME NEW h \in Workers, WorkerStep(h) PROVE Goal
    BY <1>1, <1>2, <1>3, <1>4, <1>5, <1>7, <1>8 DEF WorkerStep
  <1> QED
    BY OtherSteps, <1>6, <1>7, <1>8 DEF deleteVars, workerVars

\* Where every datacenter shows a claim, or the row is absent, no attempt can
\* come to depend on the block.
LEMMA NoneJoins ==
    ASSUME TInv, PinInv, ViewInv, [Next]_vars, NEW a \in Attempts, Depends(a)',
           ClaimSeen \/ row = NoRow
    PROVE  Depends(a)
  <1> SUFFICES ASSUME NEW w \in Writers, ValidatePublicationFence(w), Authorizes(View(w), key[w])
               PROVE  FALSE
    BY DependsSteps
  <1>1. key[w] \in Keys /\ Home[w] \in DCs
    BY StateAssumption DEF TInv, WriterInv, ValidatePublicationFence
  <1> QED
    BY <1>1, StateAssumption DEF ViewInv, ClaimSeen, Authorizes, View, NoRow

\* GuardInv is preserved by every step.
LEMMA NextGuard ==
    ASSUME IInv, PinInv, ViewInv, GuardInv, [Next]_vars
    PROVE  GuardInv'
  <1> USE DEF IInv
  <1>0. RowStep
    BY NextRowStep
  <1>1. ASSUME row'.handoff \/ row' = NoRow, NEW a \in Attempts, Depends(a)' PROVE FALSE
    <2>1. CASE row.handoff \/ row = NoRow
      BY <1>1, <2>1, NoneJoins DEF ViewInv, GuardInv
    <2>2. CASE ~(row.handoff \/ row = NoRow)
      <3>1. PICK g \in Workers : wpc[g] = "commit" /\ OwnedUncommitted(wauth[g])
        BY <1>0, <1>1, <2>2
        DEF RowStep, DeleteRowStep, RowReleased, RowClaimed, RowCondemned, RowRetired,
            RowInstalled, FreshRow, NoRow, OwnedCommitted, TInv, RowInv, WellFormed
      <3>2. row.claim = wauth[g] /\ ClaimSeen
        BY <3>1 DEF OwnedUncommitted, Owned, ViewInv, Confirmed
      <3> QED
        BY <1>1, <3>1, <3>2, NoneJoins DEF GuardInv
    <2> QED
      BY <2>1, <2>2
  <1>2. ASSUME NEW g \in Workers, row'.claim = wauth'[g],
               wpc'[g] \in {"repairs", "prepare", "orphan", "commit"},
               NEW a \in Attempts, Depends(a)'
        PROVE  /\ wpc'[g] = "repairs" /\ a \in wscan'[g] \cup fsRefs'
    <2>0. wpc[g] \in Confirmed /\ wauth'[g] = wauth[g] /\ wauth[g] \in Auths
      BY <1>2, ScanSteps DEF TInv, WorkerInv, Confirmed
    <2>1. row.claim = wauth[g]
      BY <1>0, <1>2, <2>0, BoundOnce DEF AuthorityInv
    <2>2. Depends(a)
      BY <1>2, <2>0, <2>1, NoneJoins DEF ViewInv
    <2>3. a \in fsRefs \cup repairs /\ (a \in fsRefs => a \in fsRefs')
      BY <2>2, DependsPinned, ReferenceStays
    <2>4. CASE wpc'[g] = "repairs"
      BY <1>2, <2>1, <2>2, <2>3, <2>4, ScanSteps DEF GuardInv
    <2>5. CASE wpc'[g] # "repairs"
      BY <1>2, <2>1, <2>2, <2>5, ScanSteps DEF GuardInv, Referenced
    <2> QED
      BY <2>4, <2>5
  <1> QED
    BY <1>1, <1>2 DEF GuardInv

-----------------------------------------------------------------------------
(* The theorems *)

\* PInv holds initially.
LEMMA InitPInv == Init => PInv
  <1> SUFFICES ASSUME Init PROVE PInv
    OBVIOUS
  <1> USE StateAssumption, PublishAssumption DEF Init, StateInit, DeleteInit, PublishInit, FreshRow
  <1>1. PinInv
    BY DEF PinInv, ChainInv, PublishedPinned, WriterPins, SweepPins, Unpublished, Settling
  <1>2. ViewInv
    BY DEF ViewInv, VisibleEverywhere, Confirmed
  <1>3. GuardInv
    BY DEF GuardInv, Depends
  <1>4. StoredInv
    BY DEF StoredInv
  <1> QED
    BY <1>1, <1>2, <1>3, <1>4 DEF PInv

\* Pins, views, guards and stored objects hold together in every state, for
\* any number of writers, workers, recoverers, attempts and datacenters.
THEOREM PInvInvariant == Spec => [](IInv /\ PInv)
  <1>1. IInv /\ PInv /\ [Next]_vars => PInv'
    BY NextPins, NextViews, NextGuard, NextStored DEF IInv, PInv
  <1> QED
    BY IInvInvariant, InitPInv, <1>1, PTL DEF Spec

\* From the HEAD CAS on the permanent reference or the repair row stands for a
\* published attempt, whoever dies and whatever expires
\* (finalizeStoredUploadMetadataOnce, settlePublishedBlockReferenceRepair).
THEOREM PublishedStaysPinned == Spec => []PublishedPinned
  <1>1. PInv => PublishedPinned
    BY DEF PInv, PinInv
  <1> QED
    BY PInvInvariant, <1>1, PTL

\* No datacenter shows a condemned key without its claim, even when the CAS
\* that claimed it or the one that committed the handoff timed out
\* (ClaimBlockDelete's EACH_QUORUM confirmation).
THEOREM CondemnedStaysFenced == Spec => []CondemnedFenced
  <1>1. PInv => CondemnedFenced
    BY DEF PInv, ViewInv, ClaimSeen, CondemnedFenced, Authorizes
  <1> QED
    BY PInvInvariant, <1>1, PTL

\* The X1 invariant of the delete protocol: content that HEAD reaches has a row
\* that names a stored object and is not condemned, however uploads, deletes,
\* retries, expiries and crashes interleave.
THEOREM PublishedStaysReadable == Spec => []PublishedReadable
  <1>1. IInv /\ PInv => PublishedReadable
    <2> SUFFICES ASSUME IInv, PInv, live # {}
                 PROVE  row.key # NoKey /\ row.key \in obj /\ ~row.handoff
      BY DEF PublishedReadable
    <2>1. \E a \in Attempts : Depends(a)
      BY DEF Depends, IInv, TInv, TypeOK, PublishTypeOK
    <2>2. ~row.handoff /\ row # NoRow
      BY <2>1 DEF PInv, GuardInv
    <2>3. row.key # NoKey
      BY <2>2 DEF IInv, TInv, RowInv, WellFormed
    <2> QED
      BY <2>2, <2>3 DEF PInv, StoredInv
  <1> QED
    BY PInvInvariant, <1>1, PTL

-----------------------------------------------------------------------------
(* The refinement of PhysicalBlock *)

\* The row is retired only behind a certificate: PromoteBlockDeleteOrphan
\* writes it before either process comes to its finalisation.
CertInv ==
    /\ \A g \in Workers : wpc[g] \in {"publish", "finalize"} => life[wauth[g]] # "none"
    /\ \A r \in Recoverers : rpc[r] \in {"publish", "finalize"} => life[rauth[r]] # "none"

\* CertInv is preserved by every step.
LEMMA NextCert ==
    ASSUME TInv, CertInv, [Next]_vars
    PROVE  CertInv'
  <1> USE DEF TInv, TypeOK, DeleteTypeOK
  <1>0. \A d \in Auths : life[d] # "none" => life'[d] # "none"
    BY LifeStep
  <1>1. ASSUME NEW g \in Workers, wpc'[g] \in {"publish", "finalize"}
        PROVE  life'[wauth'[g]] # "none"
    <2>1. CASE PromoteBlockDeleteOrphan(g)
      BY <1>1, <2>1 DEF PromoteBlockDeleteOrphan, InsertLifecycle, Goto, Return, WorkerInv
    <2>2. CASE wpc[g] \in {"publish", "finalize"} /\ wauth'[g] = wauth[g]
      BY <1>0, <2>2 DEF CertInv, WorkerInv
    <2>3. ASSUME NEW h \in Workers, WorkerStep(h)
          PROVE  PromoteBlockDeleteOrphan(g) \/ (wpc[g] \in {"publish", "finalize"} /\ wauth'[g] = wauth[g])
      <3>1. CASE h = g
        BY <1>1, <2>3, <3>1
        DEF WorkerStep, ReadCandidate, ReleaseStaleBlockClaim, ClaimBlockDelete, SettleBlockClaim,
            AcquireClaim, ForeignClaim, AdoptCommittedOwner, TakeOverStaleBlockClaim,
            CheckReferences, ScanRepairBucket, RecheckReferences, FailBeforeHandoff,
            ReleaseReferenced, ReleaseAndPostpone, PrepareBlockDeleteOrphan, InsertPreparedOrphan,
            CommitBlockDeleteOrphanHandoff, SettleBlockDeleteHandoff,
            PublishCommittedOrphan, FinalizeBlockDelete, SettleBlockCandidate, Goto, Return
      <3>2. CASE h # g
        BY <1>1, <2>3, <3>2, OthersStay
      <3> QED
        BY <3>1, <3>2
    <2>4. ASSUME NEW h \in Workers, Return(h) PROVE wpc[g] \in {"publish", "finalize"} /\ wauth'[g] = wauth[g]
      BY <1>1, <2>4 DEF Return
    <2>5. CASE UNCHANGED workerVars
      BY <1>1, <2>2, <2>5 DEF workerVars
    <2> QED
      BY OtherSteps, <2>1, <2>2, <2>3, <2>4, <2>5 DEF deleteVars
  <1>2. ASSUME NEW r \in Recoverers, rpc'[r] \in {"publish", "finalize"}
        PROVE  life'[rauth'[r]] # "none"
    <2>1. CASE RecoverPromote(r) \/ ObserveBlockDeleteLifecycle(r)
      BY <1>2, <2>1 DEF RecoverPromote, ObserveBlockDeleteLifecycle, InsertLifecycle, RGoto, RReturn,
                        RecovererInv, tableVars
    <2>2. CASE rpc[r] \in {"publish", "finalize"} /\ rauth'[r] = rauth[r]
      BY <1>0, <2>2 DEF CertInv, RecovererInv
    <2>3. ASSUME NEW q \in Recoverers, RecovererStep(q)
          PROVE  \/ RecoverPromote(r) \/ ObserveBlockDeleteLifecycle(r)
                 \/ rpc[r] \in {"publish", "finalize"} /\ rauth'[r] = rauth[r]
      <3>1. CASE q = r
        BY <1>2, <2>3, <3>1
        DEF RecovererStep, RecoverS3OrphanRoot, AbortBlockDeleteHandoff, ClassifyPreparedOrphan,
            DeletePreparedBlockDeleteOrphan, DeleteS3OrphanRecoveryRoot, RecoverPublish,
            RereadOrphan, RecoverFinalize, ReloadCanonical, DeleteBlockByStorageKey,
            MarkS3OrphanMappingCleanupPending, TerminateBlockDeleteLifecycle, DeleteS3Orphan,
            RGoto, RReturn, OrphanStep, recovererVars
      <3>2. CASE q # r
        BY <1>2, <2>3, <3>2, OtherRecoverersStay
      <3> QED
        BY <3>1, <3>2
    <2>4. ASSUME NEW q \in Recoverers, RReturn(q) PROVE rpc[r] \in {"publish", "finalize"} /\ rauth'[r] = rauth[r]
      BY <1>2, <2>4 DEF RReturn
    <2>5. CASE UNCHANGED recovererVars
      BY <1>2, <2>2, <2>5 DEF recovererVars
    <2> QED
      BY OtherSteps, <2>1, <2>2, <2>3, <2>4, <2>5 DEF deleteVars
  <1> QED
    BY <1>1, <1>2 DEF CertInv

\* A retired row leaves the certificate of its owner behind.
LEMMA RetireCertified ==
    ASSUME IInv, CertInv, [Next]_vars, row.handoff, row' = NoRow
    PROVE  life[row.claim] # "none"
  <1> USE DEF IInv, TInv
  <1>0. row # NoRow
    BY DEF NoRow
  <1>1. ASSUME NEW g \in Workers, FinalizeBlockDelete(g) PROVE life[row.claim] # "none"
    BY <1>0, <1>1 DEF FinalizeBlockDelete, RetireRow, Finalizable, OwnedCommitted, Owned, CertInv
  <1>2. ASSUME NEW r \in Recoverers, RecoverFinalize(r) PROVE life[row.claim] # "none"
    BY <1>0, <1>2 DEF RecoverFinalize, RetireRow, Finalizable, OwnedCommitted, Owned, CertInv
  <1>3. ASSUME NEW g \in Workers, WorkerStep(g) PROVE FinalizeBlockDelete(g)
    BY <1>0, <1>3
    DEF WorkerStep, ReadCandidate, ReleaseStaleBlockClaim, ClaimBlockDelete, SettleBlockClaim,
        AcquireClaim, ForeignClaim, AdoptCommittedOwner, TakeOverStaleBlockClaim,
        CheckReferences, ScanRepairBucket, RecheckReferences, FailBeforeHandoff,
        ReleaseReferenced, ReleaseAndPostpone, PrepareBlockDeleteOrphan, InsertPreparedOrphan,
        CommitBlockDeleteOrphanHandoff, SettleBlockDeleteHandoff, PromoteBlockDeleteOrphan,
        PublishCommittedOrphan, SettleBlockCandidate, ClearClaim, OwnedUncommitted, NoRow, stateVars
  <1>4. ASSUME NEW r \in Recoverers, RecovererStep(r) PROVE RecoverFinalize(r)
    BY <1>0, <1>4
    DEF RecovererStep, RecoverS3OrphanRoot, AbortBlockDeleteHandoff, ClassifyPreparedOrphan,
        DeletePreparedBlockDeleteOrphan, DeleteS3OrphanRecoveryRoot, RecoverPromote,
        RecoverPublish, RereadOrphan, ObserveBlockDeleteLifecycle,
        ReloadCanonical, DeleteBlockByStorageKey, MarkS3OrphanMappingCleanupPending,
        TerminateBlockDeleteLifecycle, DeleteS3Orphan, ClearClaim, OwnedUncommitted, NoRow, stateVars
  <1>5. CASE PublishNext /\ UNCHANGED deleteVars
    <2>1. ASSUME NEW w \in Writers, WriterStep(w) PROVE UNCHANGED row \/ row = NoRow
      BY <2>1
      DEF WriterStep, ProbeRowless, ProbeRow, ValidateRepairAuthority, PutObject,
          VerifyManifestBlock, AddProvisionalReference, CheckDeleteFence, InstallBlockMetadata,
          SettleInstalledBlockMetadata, CleanupFreshInstallTarget, RepairBlockMetadataIfCurrent,
          ConfirmMaterialization, StagePublishAttempt, QueueDurableRepair,
          ValidatePublicationFence, UpdateLibraryHead, ResolveHeadUpdate,
          CleanupFailedPublishAttempt, ClearFailedRepair, PromoteReference,
          RemovePublishAttemptReference, ClearPublishedRepair, stateVars
    <2>2. ASSUME NEW a \in Attempts,
                 SweepStep(a) \/ SweepCrash(a) \/ ExpirePubReference(a)
                 \/ ExpireVersion(a) \/ RemoveFSObjectReference(a)
          PROVE  UNCHANGED row
      BY <2>2 DEF SweepStep, SweepReachable, SweepSuperseded, SweepRetained, SweepPromote,
                  SweepUnpin, SweepClear, SweepCrash, ExpirePubReference, ExpireVersion,
                  RemoveFSObjectReference, stateVars
    <2> QED
      BY <1>0, <1>5, <2>1, <2>2 DEF PublishNext, GiveUp, ExpireUpReference, stateVars
  <1> QED
    BY OtherSteps, <1>0, <1>1, <1>2, <1>3, <1>4, <1>5 DEF stateVars

\* HEAD moves and versions expire one attempt at a time, and not while the row,
\* an authority or a certificate changes.
LEMMA LiveSteps ==
    ASSUME TInv, [Next]_vars
    PROVE  \/ live' = live
           \/ /\ \E a \in Attempts : live' = live \cup {a} \/ live' = live \ {a}
              /\ UNCHANGED <<row, dkey, life>>
  <1> DEFINE Goal == \/ live' = live
                     \/ /\ \E a \in Attempts : live' = live \cup {a} \/ live' = live \ {a}
                        /\ UNCHANGED row
  <1> USE DEF TInv
  <1>1. ASSUME NEW w \in Writers, UpdateLibraryHead(w) PROVE Goal
    BY <1>1 DEF UpdateLibraryHead, WriterInv, stateVars
  <1>2. ASSUME NEW w \in Writers, WriterStep(w), ~UpdateLibraryHead(w) PROVE live' = live
    BY <1>2
    DEF WriterStep, ProbeRowless, ProbeRow, ValidateRepairAuthority, PutObject,
        VerifyManifestBlock, AddProvisionalReference, CheckDeleteFence, InstallBlockMetadata,
        SettleInstalledBlockMetadata, CleanupFreshInstallTarget, RepairBlockMetadataIfCurrent,
        ConfirmMaterialization, StagePublishAttempt, QueueDurableRepair,
        ValidatePublicationFence, ResolveHeadUpdate,
        CleanupFailedPublishAttempt, ClearFailedRepair, PromoteReference,
        RemovePublishAttemptReference, ClearPublishedRepair, headVars
  <1>3. ASSUME NEW a \in Attempts, ExpireVersion(a) PROVE Goal
    BY <1>3 DEF ExpireVersion, stateVars
  <1>4. ASSUME NEW a \in Attempts,
               SweepStep(a) \/ SweepCrash(a) \/ ExpirePubReference(a) \/ RemoveFSObjectReference(a)
        PROVE  live' = live
    BY <1>4 DEF SweepStep, SweepReachable, SweepSuperseded, SweepRetained, SweepPromote,
                SweepUnpin, SweepClear, SweepCrash, ExpirePubReference,
                RemoveFSObjectReference, publishVars, headVars
  <1>5. ASSUME NEW w \in Writers, GiveUp(w) \/ ExpireUpReference(w) PROVE live' = live
    BY <1>5 DEF GiveUp, ExpireUpReference, publishVars, headVars
  <1>6. CASE PublishNext /\ UNCHANGED deleteVars
    <2>1. Goal
      BY <1>1, <1>2, <1>3, <1>4, <1>5, <1>6 DEF PublishNext
    <2> QED
      BY <1>6, <2>1 DEF deleteVars, tableVars
  <1> QED
    BY OtherSteps, <1>6 DEF publishVars, headVars

\* The delete of the incarnation has a certificate.
Certified(k) == \E d \in Auths : dkey[d] = k /\ life[d] # "none"

\* The refinement mapping, state by state.
LEMMA IncarnationCases ==
    ASSUME TInv, NEW k \in Keys
    PROVE  /\ Incarnation(k) \in {"free", "live", "condemned", "retired"}
           /\ Incarnation(k) = "live" <=> row.key = k /\ ~row.handoff
           /\ Incarnation(k) = "condemned" <=> row.key = k /\ row.handoff
           /\ Incarnation(k) = "retired" <=> row.key # k /\ Certified(k)
  BY DEF Incarnation, Certified, TInv, TypeOK, StateTypeOK, Row

\* Away from the row a certificate is neither gained nor lost.
LEMMA CertifiedStays ==
    ASSUME IInv, [Next]_vars, NEW k \in Keys, row.key # k
    PROVE  Certified(k)' <=> Certified(k)
  <1> USE DEF IInv, TInv, TypeOK, DeleteTypeOK
  <1>0. RowStep
    BY NextRowStep
  <1>1. ASSUME NEW d \in Auths, dkey[d] = k, life[d] # "none"
        PROVE  dkey'[d] = k /\ life'[d] # "none"
    BY <1>0, <1>1, BoundOnce, LifeStep
  <1>2. ASSUME NEW d \in Auths, dkey'[d] = k, life'[d] # "none"
        PROVE  dkey[d] = k /\ life[d] # "none"
    <2>1. life[d] # "none" \/ OwnedCommitted(d)
      BY <1>2, LifeStep
    <2>2. dkey[d] \in Keys
      BY <2>1 DEF AuthorityInv, OwnedCommitted, Owned, StateTypeOK, RowInv, WellFormed, NoRow, Row
    <2>3. dkey[d] = k
      BY <1>0, <1>2, <2>2, BoundOnce
    <2> QED
      BY <2>1, <2>3 DEF OwnedCommitted, Owned
  <1> QED
    BY <1>1, <1>2 DEF Certified

\* Away from the row before and after a step an incarnation stays as it is.
LEMMA IncarnationStays ==
    ASSUME IInv, [Next]_vars, NEW k \in Keys, row.key # k, row'.key # k
    PROVE  Incarnation(k)' = Incarnation(k)
  <1>1. TInv /\ TInv'
    BY NextTInv DEF IInv
  <1> QED
    BY <1>1, CertifiedStays DEF Incarnation, Certified

\* The incarnation the row keeps changes only with the handoff.
LEMMA IncarnationKept ==
    ASSUME TInv, TInv', NEW k \in Keys, row.key = k, row'.key = k, row'.handoff = row.handoff
    PROVE  Incarnation(k)' = Incarnation(k)
  BY DEF Incarnation, TInv, TypeOK, StateTypeOK, Row

\* Every step of the protocol is a step of PhysicalBlock or a stutter.
LEMMA StepSimulation ==
    ASSUME IInv, PInv, PInv', CertInv, [Next]_vars
    PROVE  [Physical!Next]_<<[k \in Keys |-> Incarnation(k)], live>>
  <1> DEFINE st == [k \in Keys |-> Incarnation(k)]
             Goal == [Physical!Next]_<<st, live>>
  <1>0. TInv /\ TInv' /\ RowStep
    BY NextTInv, NextRowStep DEF IInv
  <1>1. CASE live' # live
    <2>1. UNCHANGED <<row, dkey, life>>
      BY <1>1, LiveSteps, <1>0
    <2>2. \A k \in Keys : Incarnation(k)' = Incarnation(k)
      BY <2>1 DEF Incarnation
    <2>3. st' = st
      BY <2>2
    <2>4. PICK a \in Attempts : live' = live \cup {a} \/ live' = live \ {a}
      BY <1>0, <1>1, LiveSteps
    <2>5. CASE live' = live \cup {a}
      <3>1. row'.key # NoKey /\ ~row'.handoff
        <4>1. \E b \in Attempts : Depends(b)'
          BY <2>5 DEF Depends
        <4>2. ~row'.handoff /\ row' # NoRow
          BY <4>1 DEF PInv, GuardInv
        <4> QED
          BY <1>0, <4>2 DEF TInv, RowInv, WellFormed
      <3>2. row.key \in Keys /\ ~row.handoff
        BY <1>0, <2>1, <3>1 DEF TInv, TypeOK, StateTypeOK, Row
      <3>3. \E k \in Keys : st[k] = "live"
        BY <1>0, <3>2, IncarnationCases
      <3>4. Physical!Publish(a)
        BY <2>3, <2>5, <3>3 DEF Physical!Publish
      <3> QED
        BY <3>4 DEF Physical!Next
    <2>6. CASE live' = live \ {a}
      <3>1. Physical!Unpublish(a)
        BY <2>3, <2>6 DEF Physical!Unpublish
      <3> QED
        BY <3>1 DEF Physical!Next
    <2> QED
      BY <2>4, <2>5, <2>6
  <1>2. ASSUME live' = live, row'.key = row.key, row'.handoff = row.handoff PROVE Goal
    <2>1. \A k \in Keys : Incarnation(k)' = Incarnation(k)
      BY <1>0, <1>2, IncarnationStays, IncarnationKept
    <2>2. st' = st
      BY <2>1
    <2> QED
      BY <1>2, <2>2
  <1>3. ASSUME live' = live, NEW g \in Workers, wpc[g] = "commit", OwnedUncommitted(wauth[g]),
               row' = [key |-> row.key, claim |-> row.claim, handoff |-> TRUE]
        PROVE  Goal
    <2>1. PICK l \in Keys : l = row.key /\ ~row.handoff
      BY <1>0, <1>3 DEF TInv, WorkerInv, TypeOK, StateTypeOK, Row, RowInv, WellFormed, NoRow,
                        OwnedUncommitted, Owned, IInv, AuthorityInv
    <2>2. live = {}
      BY <1>0, <1>3 DEF PInv, GuardInv, Depends, OwnedUncommitted, Owned, TInv, TypeOK, PublishTypeOK
    <2>3. Incarnation(l) = "live"
      BY <1>0, <2>1, IncarnationCases
    <2>4. Incarnation(l)' = "condemned"
      BY <1>3, <2>1 DEF Incarnation
    <2>5. \A k \in Keys \ {l} : Incarnation(k)' = Incarnation(k)
      BY <1>3, <2>1, IncarnationStays
    <2>6. Physical!Condemn(l)
      BY <1>3, <2>2, <2>3, <2>4, <2>5 DEF Physical!Condemn
    <2> QED
      BY <2>6 DEF Physical!Next
  <1>4. ASSUME live' = live, NEW d \in Auths, OwnedCommitted(d), row' = NoRow, dkey' = dkey PROVE Goal
    <2>1. PICK l \in Keys : l = row.key /\ row.handoff /\ row.claim = d /\ dkey[d] = l
      BY <1>0, <1>4 DEF TInv, TypeOK, StateTypeOK, Row, RowInv, WellFormed, NoRow, OwnedCommitted,
                        Owned
    <2>2. \A k \in Keys : row'.key # k
      BY <1>4, StateAssumption DEF NoRow
    <2>3. life'[d] # "none"
      BY <1>0, <1>4, <2>1, RetireCertified, LifeStep
    <2>4. Incarnation(l) = "condemned"
      BY <1>0, <2>1, IncarnationCases
    <2>5. Incarnation(l)' = "retired"
      BY <1>4, <2>1, <2>2, <2>3 DEF Incarnation
    <2>6. \A k \in Keys \ {l} : Incarnation(k)' = Incarnation(k)
      BY <2>1, <2>2, IncarnationStays
    <2>7. Physical!Retire(l)
      BY <1>4, <2>4, <2>5, <2>6 DEF Physical!Retire
    <2> QED
      BY <2>7 DEF Physical!Next
  <1>5. ASSUME live' = live, NEW w \in Writers, pc[w] = "install", row = NoRow, row' = FreshRow(key[w])
        PROVE  Goal
    <2>1. PICK l \in Keys : l = key[w] /\ \A d \in Auths : dkey[d] # l
      BY <1>0, <1>5 DEF TInv, WriterInv, IInv, MintInv, Minting
    <2>2. row'.key = l /\ ~row'.handoff /\ \A k \in Keys : row.key # k
      BY <1>5, <2>1, StateAssumption DEF FreshRow, NoRow
    <2>3. Incarnation(l) = "free"
      BY <1>0, <2>1, <2>2, IncarnationCases DEF Certified
    <2>4. Incarnation(l)' = "live"
      BY <2>2 DEF Incarnation
    <2>5. \A k \in Keys \ {l} : Incarnation(k)' = Incarnation(k)
      BY <2>2, IncarnationStays
    <2>6. \A k \in Keys : Incarnation(k) \notin {"live", "condemned"}
      BY <1>0, <2>2, IncarnationCases
    <2>7. Physical!Install(l)
      BY <1>5, <2>3, <2>4, <2>5, <2>6 DEF Physical!Install, Physical!Current
    <2> QED
      BY <2>7 DEF Physical!Next
  <1>6. CASE live' = live
    <2>1. CASE row'.key = row.key /\ row'.handoff = row.handoff
      BY <1>2, <1>6, <2>1
    <2>2. CASE ~(row'.key = row.key /\ row'.handoff = row.handoff)
      <3>1. RowCondemned \/ RowRetired \/ RowInstalled
        BY <1>0, <2>2
        DEF RowStep, DeleteRowStep, RowReleased, RowClaimed, OwnedUncommitted, FreshRow,
            TInv, TypeOK, StateTypeOK, Row, RowInv, WellFormed
      <3> QED
        BY <1>3, <1>4, <1>5, <1>6, <3>1 DEF RowCondemned, RowRetired, RowInstalled
    <2> QED
      BY <2>1, <2>2
  <1> QED
    BY <1>1, <1>6

\* The protocol implements the abstract life cycle of a physical block: a
\* storage key is installed at most once, condemned only while no published
\* content depends on the block, then only retired, and HEAD moves to content
\* only on a live incarnation (delete protocol of internal/gc against the
\* publication of internal/api/v2).
THEOREM ImplementsPhysicalBlock == Spec => RefinesPhysicalBlock
  <1>1. Init => Physical!Init /\ CertInv
    <2> SUFFICES ASSUME Init PROVE Physical!Init /\ CertInv
      OBVIOUS
    <2>1. TInv
      BY InitTInv
    <2>2. ~row.handoff /\ \A k \in Keys : ~Certified(k)
      BY DEF Init, StateInit, DeleteInit, FreshRow, Certified
    <2>3. \A k \in Keys : /\ Incarnation(k) \in {"free", "live"}
                          /\ Incarnation(k) = "live" <=> row.key = k
      BY <2>1, <2>2, IncarnationCases
    <2>4. Physical!Init
      BY <2>3 DEF Physical!Init, Physical!Current, Init, PublishInit
    <2>5. CertInv
      BY DEF Init, DeleteInit, CertInv
    <2> QED
      BY <2>4, <2>5
  <1>2. IInv /\ CertInv /\ [Next]_vars => CertInv'
    BY NextCert DEF IInv
  <1>3. IInv /\ PInv /\ PInv' /\ CertInv /\ [Next]_vars =>
            [Physical!Next]_<<[k \in Keys |-> Incarnation(k)], live>>
    BY StepSimulation
  <1> QED
    BY PInvInvariant, <1>1, <1>2, <1>3, PTL DEF Spec, RefinesPhysicalBlock, Physical!Spec
=============================================================================
