----------------------------- MODULE BlockPublish -----------------------------
(***************************************************************************)
(* Upload and publication of a file that consists of the block: a writer   *)
(* materialises the block (reusing the object blocks(L) names or storing a *)
(* new one under a freshly minted key), then publishes a commit that       *)
(* refers to it and promotes its reference from provisional to permanent.  *)
(* A background sweep settles the publications whose writer is gone.       *)
(*                                                                         *)
(* internal/api/v2/{upload_reuse,fs_helpers,files,publish_repair}.go       *)
(***************************************************************************)
EXTENDS BlockState

CONSTANT NoAttempt

ASSUME PublishAssumption == NoAttempt \notin Attempts

VARIABLES
    minted,     \* storage keys already minted
    pc, key, fresh, att,    \* writers
    snap,       \* attempt -> the position its commit is to take in the chain
    head,       \* the position of HEAD in the library's commit chain
    published,  \* attempts whose commit became HEAD
    live,       \* ... and is still reachable content
    spc         \* the repair sweep's visit of each attempt

writerVars == <<pc, key, fresh, att>>
headVars == <<snap, head, published, live>>
publishVars == <<minted, writerVars, headVars, spc>>

WriterPC == {"probe", "authority", "put", "ref", "own_ref", "fence", "install",
             "settle_install", "lost", "repair", "confirm", "reauthority",
             "reput", "stage", "queue", "validate", "head", "settle_head",
             "conflict_refs", "conflict_repair", "abort_refs", "abort_repair",
             "promote", "unpin", "clear", "done"}
SweepPC == {"idle", "promote", "unpin", "clear"}

PublishInit ==
    /\ minted = {Installed} \cap Keys
    /\ pc = [w \in Writers |-> "probe"]
    /\ key = [w \in Writers |-> NoKey]
    /\ fresh = [w \in Writers |-> FALSE]
    /\ att = [w \in Writers |-> NoAttempt]
    /\ snap = [a \in Attempts |-> 0]
    /\ head = 0
    /\ published = {} /\ live = {}
    /\ spc = [a \in Attempts |-> "idle"]

PublishTypeOK ==
    /\ minted \subseteq Keys
    /\ pc \in [Writers -> WriterPC]
    /\ key \in [Writers -> Keys \cup {NoKey}]
    /\ fresh \in [Writers -> BOOLEAN]
    /\ att \in [Writers -> Attempts \cup {NoAttempt}]
    /\ snap \in [Attempts -> Nat]
    /\ head \in Nat
    /\ published \subseteq Attempts
    /\ live \subseteq Attempts
    /\ spc \in [Attempts -> SweepPC]

-----------------------------------------------------------------------------
(* Materialisation: RetryUploadedBlockMaterializationPhasedContext *)

Jump(w, l) == pc' = [pc EXCEPT ![w] = l] /\ UNCHANGED <<key, fresh, att>>

\* The request ends, or starts over from the probe.
Leave(w, l) ==
    /\ pc' = [pc EXCEPT ![w] = l]
    /\ key' = [key EXCEPT ![w] = NoKey]
    /\ fresh' = [fresh EXCEPT ![w] = FALSE]
    /\ att' = [att EXCEPT ![w] = NoAttempt]

View(w) == seen[Home[w]]

\* A row that names k and carries no claim, as one of the reads returns it.
Authorizes(r, k) == r.key = k /\ r.claim = NoAuth

\* A writer's local read of the references cannot miss its own.
ProbesReference(w, b) == ReadsReference(b) /\ (w \in upRefs => b)

\* Mutant: the storage key is derived from the block, so it can come back.
ProbeRowlessReusesKey(w, k) ==
    /\ pc[w] = "probe"
    /\ View(w) = NoRow
    /\ minted' = minted \cup {k}
    /\ key' = [key EXCEPT ![w] = k]
    /\ fresh' = [fresh EXCEPT ![w] = TRUE]
    /\ pc' = [pc EXCEPT ![w] = "put"]
    /\ UNCHANGED <<stateVars, att, headVars, spc>>

\* No row: a new storage key is minted for the object.
ProbeRowless(w, k) ==
    /\ pc[w] = "probe"
    /\ View(w) = NoRow
    /\ k \notin minted
    /\ minted' = minted \cup {k}
    /\ key' = [key EXCEPT ![w] = k]
    /\ fresh' = [fresh EXCEPT ![w] = TRUE]
    /\ pc' = [pc EXCEPT ![w] = "put"]
    /\ UNCHANGED <<stateVars, att, headVars, spc>>

\* A row without a claim: reusable if referenced and stored, else the bytes are
\* stored again under the key it names.  A claimed row blocks the writer.
ProbeRow(w) ==
    /\ pc[w] = "probe"
    /\ View(w) # NoRow /\ View(w).claim = NoAuth
    /\ key' = [key EXCEPT ![w] = View(w).key]
    /\ fresh' = [fresh EXCEPT ![w] = FALSE]
    /\ \E b \in BOOLEAN :
        /\ ProbesReference(w, b)
        /\ pc' = [pc EXCEPT ![w] = IF b /\ View(w).key \in obj THEN "ref" ELSE "authority"]
    /\ UNCHANGED <<stateVars, minted, att, headVars, spc>>

\* Mutant: a refused authority drops the target and stores the bytes anyway.
ValidateRepairAuthorityIgnored(w) ==
    /\ pc[w] \in {"authority", "reauthority"}
    /\ IF Authorizes(row, key[w])
       THEN Jump(w, IF pc[w] = "authority" THEN "put" ELSE "reput")
       ELSE Leave(w, "put")
    /\ UNCHANGED <<stateVars, minted, headVars, spc>>

\* ValidateBlockRepairAuthority, a SERIAL read, comes before any PUT to an
\* existing key.  A confirmation that meets another unclaimed key probes again.
ValidateRepairAuthority(w) ==
    /\ pc[w] \in {"authority", "reauthority"}
    /\ CASE Authorizes(row, key[w]) ->
              Jump(w, IF pc[w] = "authority" THEN "put" ELSE "reput")
         [] row.claim = NoAuth /\ row.key # key[w] /\ pc[w] = "reauthority" ->
              Jump(w, "confirm")
         [] OTHER -> Leave(w, "probe")
    /\ UNCHANGED <<stateVars, minted, headVars, spc>>

PutObject(w) ==
    /\ pc[w] \in {"put", "reput"}
    /\ obj' = obj \cup {key[w]}
    /\ Jump(w, IF pc[w] = "put" THEN "ref" ELSE "stage")
    /\ UNCHANGED <<row, seen, refVars, minted, headVars, spc>>

\* verifyManifestBlocks: a commit from blocks already stored stores nothing.
\* It takes the key of a block that another file or its own session pins.
VerifyManifestBlock(w) ==
    /\ pc[w] = "probe"
    /\ View(w) # NoRow /\ View(w).claim = NoAuth
    /\ View(w).key \in obj
    /\ fsRefs # {} \/ w \in upRefs
    /\ key' = [key EXCEPT ![w] = View(w).key]
    /\ pc' = [pc EXCEPT ![w] = "own_ref"]
    /\ UNCHANGED <<stateVars, minted, fresh, att, headVars, spc>>

\* The up: reference of the request, before the fence of an upload and before
\* the publication of a commit from blocks (ensureCommitBlockOwnLiveness).
AddProvisionalReference(w) ==
    /\ pc[w] \in {"ref", "own_ref"}
    /\ upRefs' = upRefs \cup {w}
    /\ Jump(w, IF pc[w] = "ref" THEN "fence" ELSE "stage")
    /\ UNCHANGED <<row, seen, obj, pubRefs, fsRefs, repairs, minted, headVars, spc>>

\* A fenced writer retries from the probe; a fresh object stays behind.
CheckDeleteFence(w) ==
    /\ pc[w] = "fence"
    /\ IF View(w).claim = NoAuth
       THEN Jump(w, IF fresh[w] THEN "install" ELSE "repair")
       ELSE Leave(w, "probe")
    /\ UNCHANGED <<stateVars, minted, headVars, spc>>

\* INSERT ... IF NOT EXISTS, acknowledged in the writer's DC or timed out.
InstallBlockMetadata(w) ==
    /\ pc[w] = "install"
    /\ \/ /\ row = NoRow
          /\ row' = FreshRow(key[w])
          /\ \/ seen' = [seen EXCEPT ![Home[w]] = row'] /\ Jump(w, "confirm")
             \/ Timeout /\ UNCHANGED seen /\ Jump(w, "settle_install")
       \/ /\ row # NoRow \/ "writer" \in Faults   \* lost, or never submitted
          /\ Jump(w, "lost")
          /\ UNCHANGED <<row, seen>>
       \/ /\ Timeout                            \* timed out, not applied
          /\ Jump(w, "settle_install")
          /\ UNCHANGED <<row, seen>>
    /\ UNCHANGED <<obj, refVars, minted, headVars, spc>>

\* Mutant: a timed out INSTALL is taken for a lost one.
SettleInstalledAsLost(w) ==
    /\ pc[w] = "settle_install"
    /\ Jump(w, "lost")
    /\ UNCHANGED <<stateVars, minted, headVars, spc>>

\* The serial settlement of a timed out INSTALL; if it fails too the request
\* fails and keeps the object (GiveUp).
SettleInstalledBlockMetadata(w) ==
    /\ pc[w] = "settle_install"
    /\ Jump(w, IF row.key = key[w] THEN "confirm" ELSE "lost")
    /\ UNCHANGED <<stateVars, minted, headVars, spc>>

\* The loser of an INSTALL deletes the object it stored, and probes again.
CleanupFreshInstallTarget(w) ==
    /\ pc[w] = "lost"
    /\ obj' = obj \ {key[w]}
    /\ Leave(w, "probe")
    /\ UNCHANGED <<row, seen, refVars, minted, headVars, spc>>

\* RepairBlockMetadataIfCurrent: an advisory read, then CASes that fill columns
\* this model leaves out.
RepairBlockMetadataIfCurrent(w) ==
    /\ pc[w] = "repair"
    /\ IF Authorizes(View(w), key[w]) THEN Jump(w, "confirm") ELSE Leave(w, "probe")
    /\ UNCHANGED <<stateVars, minted, headVars, spc>>

\* The confirmation probe: it decides which key the writer publishes.  A row
\* that is not visible yet is probed again.
ConfirmMaterialization(w) ==
    /\ pc[w] = "confirm"
    /\ View(w) # NoRow
    /\ IF View(w).claim # NoAuth
       THEN Leave(w, "probe")
       ELSE /\ key' = [key EXCEPT ![w] = View(w).key]
            /\ fresh' = [fresh EXCEPT ![w] = FALSE]
            /\ \E b \in BOOLEAN :
                /\ ProbesReference(w, b)
                /\ pc' = [pc EXCEPT ![w] =
                            IF b /\ View(w).key \in obj THEN "stage" ELSE "reauthority"]
            /\ UNCHANGED att
    /\ UNCHANGED <<stateVars, minted, headVars, spc>>

-----------------------------------------------------------------------------
(* Publication: finalizeStoredUploadMetadata *)

\* A new attempt on the HEAD just read, with its pub: reference.
StagePublishAttempt(w, a) ==
    /\ pc[w] = "stage"
    /\ snap[a] = 0
    /\ att' = [att EXCEPT ![w] = a]
    /\ snap' = [snap EXCEPT ![a] = head + 1]
    /\ pubRefs' = pubRefs \cup {a}
    /\ pc' = [pc EXCEPT ![w] = "queue"]
    /\ UNCHANGED <<row, seen, obj, upRefs, fsRefs, repairs, minted, key, fresh,
                   head, published, live, spc>>

\* The durable repair row is written before HEAD may move; if that fails the
\* attempt is taken back.
QueueDurableRepair(w) ==
    /\ pc[w] = "queue"
    /\ \/ repairs' = repairs \cup {att[w]} /\ Jump(w, "validate")
       \/ UNCHANGED repairs /\ Jump(w, "abort_refs")
    /\ UNCHANGED <<row, seen, obj, upRefs, pubRefs, fsRefs, minted, headVars, spc>>

\* Mutant: HEAD moves without the last look at the row.
ValidatePublicationFenceOmitted(w) ==
    /\ pc[w] = "validate"
    /\ Jump(w, "head")
    /\ UNCHANGED <<stateVars, minted, headVars, spc>>

\* ValidateBorrowedFSPublicationAuthority: an advisory LOCAL_QUORUM read, the
\* last thing before HEAD.
ValidatePublicationFence(w) ==
    /\ pc[w] = "validate"
    /\ Jump(w, IF Authorizes(View(w), key[w]) THEN "head" ELSE "abort_refs")
    /\ UNCHANGED <<stateVars, minted, headVars, spc>>

\* UPDATE libraries ... IF head_commit_id = the snapshot's.
UpdateLibraryHead(w) ==
    /\ pc[w] = "head"
    /\ \/ /\ snap[att[w]] = head + 1
          /\ head' = head + 1
          /\ published' = published \cup {att[w]}
          /\ live' = live \cup {att[w]}
          /\ \/ Jump(w, "promote")
             \/ Timeout /\ Jump(w, "settle_head")
       \/ /\ snap[att[w]] # head + 1
          /\ Jump(w, "conflict_refs")
          /\ UNCHANGED <<head, published, live>>
    /\ UNCHANGED <<stateVars, minted, snap, spc>>

\* A timed out CAS is only a success if HEAD still is this commit; otherwise
\* the outcome is left to the repair sweep, with the repair retained.
ResolveHeadUpdate(w) ==
    /\ pc[w] = "settle_head"
    /\ IF head = snap[att[w]] THEN Jump(w, "promote") ELSE Leave(w, "done")
    /\ UNCHANGED <<stateVars, minted, headVars, spc>>

\* CleanupFailedPublishAttempt, then the repair row: after a HEAD conflict,
\* which retries with a new attempt, and after any refusal before HEAD.
CleanupFailedPublishAttempt(w) ==
    /\ pc[w] \in {"conflict_refs", "abort_refs"}
    /\ pubRefs' = pubRefs \ {att[w]}
    /\ Jump(w, IF pc[w] = "conflict_refs" THEN "conflict_repair" ELSE "abort_repair")
    /\ UNCHANGED <<row, seen, obj, upRefs, fsRefs, repairs, minted, headVars, spc>>

ClearFailedRepair(w) ==
    /\ pc[w] \in {"conflict_repair", "abort_repair"}
    /\ \/ repairs' = repairs \ {att[w]}
       \/ "writer" \in Faults /\ UNCHANGED repairs   \* the clear fails: only logged
    /\ IF pc[w] = "conflict_repair" THEN Jump(w, "stage") ELSE Leave(w, "done")
    /\ UNCHANGED <<row, seen, obj, upRefs, pubRefs, fsRefs, minted, headVars, spc>>

\* Mutant: the provisional reference is dropped without the permanent one.
PromoteReferenceOmitted(w) ==
    /\ pc[w] = "promote"
    /\ Jump(w, "unpin")
    /\ UNCHANGED <<stateVars, minted, headVars, spc>>

\* PromotePublishAttemptReferences adds the permanent reference before it
\* removes the provisional one; the repair row goes last.
PromoteReference(w) ==
    /\ pc[w] = "promote"
    /\ fsRefs' = fsRefs \cup {att[w]}
    /\ Jump(w, "unpin")
    /\ UNCHANGED <<row, seen, obj, upRefs, pubRefs, repairs, minted, headVars, spc>>

RemovePublishAttemptReference(w) ==
    /\ pc[w] = "unpin"
    /\ pubRefs' = pubRefs \ {att[w]}
    /\ Jump(w, "clear")
    /\ UNCHANGED <<row, seen, obj, upRefs, fsRefs, repairs, minted, headVars, spc>>

ClearPublishedRepair(w) ==
    /\ pc[w] = "clear"
    /\ repairs' = repairs \ {att[w]}
    /\ Leave(w, "done")
    /\ UNCHANGED <<row, seen, obj, upRefs, pubRefs, fsRefs, minted, headVars, spc>>

\* The request fails with an error, runs out of retries, or its process dies:
\* whatever it wrote stays.
GiveUp(w) ==
    /\ "writer" \in Faults
    /\ pc[w] # "done"
    /\ Leave(w, "done")
    /\ UNCHANGED <<stateVars, minted, headVars, spc>>

-----------------------------------------------------------------------------
(* The repair sweep: settlePublishedBlockReferenceRepair *)

SweepTo(a, l) == spc' = [spc EXCEPT ![a] = l]

\* The walk from HEAD meets the commit: it was published.
SweepReachable(a) ==
    /\ spc[a] = "idle"
    /\ a \in repairs /\ a \in live
    /\ SweepTo(a, "promote")
    /\ UNCHANGED <<stateVars, minted, writerVars, headVars>>

\* Mutant: a commit the walk does not meet counts as superseded, without the
\* witness that its parent has another child.
SweepSupersededUnwitnessed(a) ==
    /\ spc[a] = "idle"
    /\ a \in repairs /\ a \notin published
    /\ SweepTo(a, "unpin")
    /\ UNCHANGED <<stateVars, minted, writerVars, headVars>>

\* The walk meets the parent of the commit below HEAD and not the commit: its
\* CAS can no longer apply.
SweepSuperseded(a) ==
    /\ spc[a] = "idle"
    /\ a \in repairs /\ a \notin published /\ snap[a] # head + 1
    /\ SweepTo(a, "unpin")
    /\ UNCHANGED <<stateVars, minted, writerVars, headVars>>

\* The walk proves neither, or fails: the repair is retained and its pub:
\* reference renewed.
SweepRetained(a) ==
    /\ spc[a] = "idle"
    /\ a \in repairs
    /\ pubRefs' = pubRefs \cup {a}
    /\ UNCHANGED <<row, seen, obj, upRefs, fsRefs, repairs, publishVars>>

SweepPromote(a) ==
    /\ spc[a] = "promote"
    /\ fsRefs' = fsRefs \cup {a}
    /\ SweepTo(a, "unpin")
    /\ UNCHANGED <<row, seen, obj, upRefs, pubRefs, repairs, minted, writerVars, headVars>>

SweepUnpin(a) ==
    /\ spc[a] = "unpin"
    /\ pubRefs' = pubRefs \ {a}
    /\ SweepTo(a, "clear")
    /\ UNCHANGED <<row, seen, obj, upRefs, fsRefs, repairs, minted, writerVars, headVars>>

SweepClear(a) ==
    /\ spc[a] = "clear"
    /\ repairs' = repairs \ {a}
    /\ SweepTo(a, "idle")
    /\ UNCHANGED <<row, seen, obj, upRefs, pubRefs, fsRefs, minted, writerVars, headVars>>

SweepCrash(a) ==
    /\ "sweep" \in Faults
    /\ spc[a] # "idle"
    /\ SweepTo(a, "idle")
    /\ UNCHANGED <<stateVars, minted, writerVars, headVars>>

-----------------------------------------------------------------------------
(* Expiry *)

\* Provisional references carry a TTL that may pass at any time.
ExpireUpReference(w) ==
    /\ w \in upRefs
    /\ upRefs' = upRefs \ {w}
    /\ UNCHANGED <<row, seen, obj, pubRefs, fsRefs, repairs, publishVars>>

ExpirePubReference(a) ==
    /\ a \in pubRefs
    /\ pubRefs' = pubRefs \ {a}
    /\ UNCHANGED <<row, seen, obj, upRefs, fsRefs, repairs, publishVars>>

\* The file is deleted and its version leaves the retained history.
ExpireVersion(a) ==
    /\ a \in live
    /\ live' = live \ {a}
    /\ UNCHANGED <<stateVars, minted, writerVars, snap, head, published, spc>>

\* processFSObject removes the permanent reference of an unreachable object.
RemoveFSObjectReference(a) ==
    /\ a \in fsRefs /\ a \notin live
    /\ fsRefs' = fsRefs \ {a}
    /\ UNCHANGED <<row, seen, obj, upRefs, pubRefs, repairs, publishVars>>

WriterStep(w) ==
    \/ \E k \in Keys : ProbeRowless(w, k)
    \/ ProbeRow(w)
    \/ ValidateRepairAuthority(w)
    \/ PutObject(w)
    \/ VerifyManifestBlock(w)
    \/ AddProvisionalReference(w)
    \/ CheckDeleteFence(w)
    \/ InstallBlockMetadata(w)
    \/ SettleInstalledBlockMetadata(w)
    \/ CleanupFreshInstallTarget(w)
    \/ RepairBlockMetadataIfCurrent(w)
    \/ ConfirmMaterialization(w)
    \/ \E a \in Attempts : StagePublishAttempt(w, a)
    \/ QueueDurableRepair(w)
    \/ ValidatePublicationFence(w)
    \/ UpdateLibraryHead(w)
    \/ ResolveHeadUpdate(w)
    \/ CleanupFailedPublishAttempt(w)
    \/ ClearFailedRepair(w)
    \/ PromoteReference(w)
    \/ RemovePublishAttemptReference(w)
    \/ ClearPublishedRepair(w)

SweepStep(a) ==
    \/ SweepReachable(a) \/ SweepSuperseded(a) \/ SweepRetained(a)
    \/ SweepPromote(a) \/ SweepUnpin(a) \/ SweepClear(a)

PublishNext ==
    \/ \E w \in Writers : WriterStep(w) \/ GiveUp(w) \/ ExpireUpReference(w)
    \/ \E a \in Attempts : \/ SweepStep(a) \/ SweepCrash(a)
                           \/ ExpirePubReference(a) \/ ExpireVersion(a)
                           \/ RemoveFSObjectReference(a)
=============================================================================
