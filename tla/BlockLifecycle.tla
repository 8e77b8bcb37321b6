--------------------------- MODULE BlockLifecycle ---------------------------
(***************************************************************************)
(* Block deletion and publication together: GC workers and recoverers      *)
(* against upload requests and the repair sweep, over the row, the objects *)
(* and the references of one block.                                        *)
(***************************************************************************)
EXTENDS BlockDelete, BlockPublish

vars == <<stateVars, deleteVars, publishVars>>

Init == StateInit /\ DeleteInit /\ PublishInit

Next ==
    \/ DeleteNext /\ UNCHANGED publishVars
    \/ PublishNext /\ UNCHANGED deleteVars
    \/ (\E dc \in DCs : Replicate(dc)) /\ UNCHANGED <<deleteVars, publishVars>>

Spec == Init /\ [][Next]_vars

-----------------------------------------------------------------------------
(* Safety *)

\* Every variable has its type; in particular a process that acts on a key, an
\* authority or an attempt has one (a refused target is never stored under).
TypeOK == StateTypeOK /\ DeleteTypeOK /\ PublishTypeOK

\* Content that HEAD reaches can be read: blocks(L) names a key that holds an
\* object and is not condemned (the X1 invariant of the delete protocol).
PublishedReadable ==
    live # {} => row.key # NoKey /\ row.key \in obj /\ ~row.handoff

\* From the HEAD CAS on, a durable pin - the permanent reference or the repair
\* row - stands for every published attempt, whatever TTLs expire and whoever
\* crashes (finalizeStoredUploadMetadataOnce, settlePublishedBlockReferenceRepair).
PublishedPinned == \A a \in live : a \in fsRefs \cup repairs

\* A condemned or retired incarnation can still be found by the recoverer:
\* its root and its orphan row stay until its certificate is terminal.
CommittedRecoverable ==
    \A d \in Auths :
        OwnedCommitted(d) \/ life[d] = "published" =>
            d \in root /\ orphan[d] # "none"

\* No datacenter shows a writer the condemned key as free to publish on, not
\* even when the commit of the handoff timed out.
CondemnedFenced ==
    row.handoff => \A dc \in DCs : ~Authorizes(seen[dc], row.key)

\* A retired key does not come back: once its delete has a certificate the row
\* names it only as that very committed delete.
RetiredNotReinstalled ==
    \A d \in Auths : life[d] # "none" /\ row.key = dkey[d] => OwnedCommitted(d)

-----------------------------------------------------------------------------
(* Action properties *)

\* COMMITTED is irrevocable: a committed claim is neither released, aborted,
\* taken over nor replaced; the only step it allows on the row is retirement.
CommittedIrrevocable == [][row.handoff => row' \in {row, NoRow}]_vars

\* No S3 delete - of a recoverer or of a losing installer - removes the object
\* the row names.
NamedObjectKept == [][\A k \in obj \ obj' : row.key # k]_vars

-----------------------------------------------------------------------------
(* Refinement *)

\* The state of a physical incarnation, read off the row and the certificates.
Incarnation(k) ==
    CASE row.key = k /\ ~row.handoff -> "live"
      [] row.key = k /\ row.handoff -> "condemned"
      [] row.key # k /\ (\E d \in Auths : dkey[d] = k /\ life[d] # "none") -> "retired"
      [] OTHER -> "free"

Physical == INSTANCE PhysicalBlock
                WITH st <- [k \in Keys |-> Incarnation(k)], pub <- live

\* Every behaviour of the protocol is one the abstract life cycle allows.
RefinesPhysicalBlock == Physical!Spec

-----------------------------------------------------------------------------
(* Liveness *)

\* A visit of the recoverer goes on until it returns; every pass of it lists
\* all recovery roots, so a root it can make progress on is visited again and
\* again whatever the other roots do (RecoverS3Orphans, ListS3OrphanRecoveryRoots).
RecoveryFairness ==
    /\ \A r \in Recoverers : WF_vars(rpc[r] # "idle" /\ RecovererStep(r) /\ UNCHANGED publishVars)
    /\ \A d \in Auths :
        SF_vars((\E r \in Recoverers : RecoverS3OrphanRoot(r, d)) /\ UNCHANGED publishVars)

\* The sweep repeats its walk of HEAD's ancestry for every queued repair, and a
\* walk that could reach the commit does not fail for ever.
SweepFairness ==
    \A a \in Attempts :
        /\ SF_vars(SweepReachable(a) /\ UNCHANGED deleteVars)
        /\ WF_vars((SweepPromote(a) \/ SweepUnpin(a) \/ SweepClear(a)) /\ UNCHANGED deleteVars)

FairSpec == Spec /\ RecoveryFairness /\ SweepFairness

\* A committed delete completes although its worker may die at any step: the
\* recoverer terminates its certificate and removes its orphan row and root.
CommittedDeleteCompletes ==
    \A d \in Auths :
        OwnedCommitted(d) ~> life[d] = "terminal" /\ orphan[d] = "none" /\ d \notin root

\* A published commit gets its permanent reference although its writer may die
\* right after the HEAD CAS: the sweep finishes the promotion.
PublishedPromoted == \A a \in Attempts : a \in live ~> a \in fsRefs \/ a \notin live
=============================================================================
