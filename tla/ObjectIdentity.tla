-------------------------- MODULE ObjectIdentity --------------------------
(***************************************************************************)
(* The content of one commit or fs object id of a library                  *)
(* (internal/db/identity_authority.go, internal/db/identity_gateway.go).   *)
(*                                                                         *)
(* The first writer of an id claims a digest of what it writes with IF NOT *)
(* EXISTS; only a writer whose content has the claimed digest may write    *)
(* the row, and only a row with the claimed digest may be deleted. A       *)
(* digest is the tuple of the fields it hashes. Rows from before the       *)
(* claims, and the row without content that the update of a file's name    *)
(* leaves behind a deletion, are there as well. Sizes follow from the      *)
(* block lists and are left out; an empty list column is an absent one.    *)
(***************************************************************************)
EXTENDS Integers
CONSTANTS Kind,       \* "commit" or "fs_object"
          Data,       \* root trees, directory entries and lists of block ids
          Empty,      \* the empty list, or an absent column
          Times,      \* creation times of commits
          LegacyRows, \* rows that may be there without a claim
          Writers, Deleters, None

Columns == Data \cup {Empty}
Projections == [type : {"commit", "dir", "file"}, layout : {"none", "sha1", "paired"}, a : Columns, b : Columns, t : Times \cup {0}]
Digests == [type : {"commit", "dir", "file"}, a : Columns, b : Columns, t : Times \cup {0}]
Rows == [is : {"absent", "row"}, type : {"none", "commit", "dir", "file"}, entries : Columns, ids : Columns, sha1s : Columns, t : Times \cup {0}]
Absent == [is |-> "absent", type |-> "none", entries |-> Empty, ids |-> Empty, sha1s |-> Empty, t |-> 0]
Placeholder == [Absent EXCEPT !.is = "row"]
IdentityAssumption == /\ Kind \in {"commit", "fs_object"} /\ Empty \notin Data /\ Times \subseteq Nat /\ 0 \notin Times
                      /\ None \notin Digests
NoInput == [type |-> "dir", layout |-> "none", a |-> Empty, b |-> Empty, t |-> 0]
\* A row of commits is a commit, one of fs_objects is not and has no creation time.
LegacyAssumption == \A r \in LegacyRows :
    /\ r \in Rows \ {Absent, Placeholder} /\ r.is = "row"
    /\ IF Kind = "commit" THEN r.type = "commit" ELSE r.type # "commit" /\ r.t = 0

VARIABLES claim,   \* identity_authority_claims: a digest or None
          row,     \* the row of commits or fs_objects
          legacy,  \* the row that was there before the first claim
          pc, inp, auth,  \* writers: step, projection asked for, projection authorised
          dpc, saw        \* deleters: step and the row they read
writers == <<pc, inp, auth>>
deleters == <<dpc, saw>>
vars == <<claim, row, legacy, writers, deleters>>

\* Types of the variables.
TypeOK ==
    /\ claim \in Digests \cup {None} /\ row \in Rows /\ legacy \in Rows
    /\ pc \in [Writers -> {"idle", "claim", "retry", "compatible", "verify", "ready", "written", "conflict", "failed"}]
    /\ inp \in [Writers -> Projections] /\ auth \in [Writers -> Projections]
    /\ dpc \in [Deleters -> {"idle", "verify", "delete", "refused"}] /\ saw \in [Deleters -> Rows]
-----------------------------------------------------------------------------
(* Digests and rows *)

Digest(p) == [type |-> p.type, a |-> p.a, b |-> p.b, t |-> p.t]
\* validateCommitProjection, validateFSObjectProjection
validateProjection(p) ==
    IF Kind = "commit" THEN p.type = "commit" /\ p.layout = "none" /\ p.a # Empty /\ p.b = Empty /\ p.t # 0
    ELSE /\ p.t = 0
         /\ \/ p.type = "dir" /\ p.layout = "none" /\ p.a # Empty /\ p.b = Empty
            \/ p.type = "file" /\ p.layout = "sha1" /\ p.b = Empty
            \/ p.type = "file" /\ p.layout = "paired" /\ (p.a = Empty <=> p.b = Empty)
Inputs == {p \in Projections : validateProjection(p)}

identitySourceRowIsEmptyFile(r) == r.type = "file" /\ r.entries = Empty /\ r.ids = Empty /\ r.sha1s = Empty
IdentitySourceRowIsMetadataPlaceholder(r) == r.type = "none" /\ r.entries = Empty /\ r.ids = Empty /\ r.sha1s = Empty
\* The content of a row is whole: of one kind and with the columns of its kind.
Complete(r) ==
    \/ r.type = "commit" /\ r.entries # Empty /\ r.t # 0
    \/ r.type = "dir" /\ r.entries # Empty /\ r.ids = Empty /\ r.sha1s = Empty
    \/ r.type = "file" /\ r.entries = Empty /\ r.ids # Empty
commitProjectionFromIdentitySourceRow(r) == [type |-> "commit", a |-> r.entries, b |-> Empty, t |-> r.t]
fsObjectProjectionFromIdentitySourceRow(r) ==
    IF r.type = "dir" THEN [type |-> "dir", a |-> r.entries, b |-> Empty, t |-> 0]
    ELSE IF r.sha1s # Empty THEN [type |-> "file", a |-> r.sha1s, b |-> r.ids, t |-> 0]
    ELSE [type |-> "file", a |-> r.ids, b |-> Empty, t |-> 0]
DigestOf(r) == IF Kind = "commit" THEN commitProjectionFromIdentitySourceRow(r) ELSE fsObjectProjectionFromIdentitySourceRow(r)

verifyCommitSourceProjection(d) == row.is = "absent" \/ (Complete(row) /\ DigestOf(row) = d)
verifyFSObjectSourceProjection(d) ==
    \/ row.is = "absent" \/ IdentitySourceRowIsMetadataPlaceholder(row)
    \/ identitySourceRowIsEmptyFile(row) /\ d.type = "file" /\ d.a = Empty /\ d.b = Empty
    \/ Complete(row) /\ DigestOf(row) = d
verifySource(d) == IF Kind = "commit" THEN verifyCommitSourceProjection(d) ELSE verifyFSObjectSourceProjection(d)
VerifyIdentityAuthority(d) == claim = d
ReadIdentityAuthority == claim
-----------------------------------------------------------------------------
(* Writers *)

At(q, s) == pc[q] = s
Go(q, s) == pc' = [pc EXCEPT ![q] = s]
Keep == UNCHANGED <<row, legacy, deleters>>

commitRetryCreatedAt(p, c) == [p EXCEPT !.t = c.t]
\* A commit reads the claim first and takes its time; a mismatch is a conflict.
AuthorizeCommitProjection(q) ==
    /\ Kind = "commit" /\ At(q, "idle")
    /\ \E p \in Inputs :
         /\ inp' = [inp EXCEPT ![q] = p]
         /\ IF ReadIdentityAuthority = None THEN auth' = [auth EXCEPT ![q] = p] /\ Go(q, "claim")
            ELSE /\ auth' = [auth EXCEPT ![q] = commitRetryCreatedAt(p, claim)]
                 /\ Go(q, IF Digest(commitRetryCreatedAt(p, claim)) = claim THEN "verify" ELSE "conflict")
    /\ UNCHANGED claim /\ Keep
AuthorizeFSObjectProjection(q) ==
    /\ Kind = "fs_object" /\ At(q, "idle")
    /\ \E p \in Inputs : inp' = [inp EXCEPT ![q] = p] /\ auth' = [auth EXCEPT ![q] = p]
    /\ Go(q, "claim") /\ UNCHANGED claim /\ Keep

\* A file whose SHA-1 list was claimed alone is written without its SHA-256 list.
compatibleSHA1OnlyProjection(p, d) ==
    p.type = "file" /\ p.layout = "paired" /\ d = [type |-> "file", a |-> p.a, b |-> Empty, t |-> 0]
SHA1Only(p) == [p EXCEPT !.layout = "sha1", !.b = Empty]

\* A mutant: the claim is an ordinary write.
ClaimIdentityAuthorityAny(q) ==
    /\ At(q, "claim") /\ claim' = Digest(auth[q]) /\ Go(q, "verify") /\ UNCHANGED <<inp, auth>> /\ Keep
\* INSERT ... IF NOT EXISTS: established, idempotent, or a conflict whose content is compared again.
ClaimIdentityAuthorityAt(q) ==
    /\ At(q, "claim")
    /\ claim' = IF claim = None THEN Digest(auth[q]) ELSE claim
    /\ \/ claim' = Digest(auth[q]) /\ Go(q, "verify") /\ UNCHANGED auth
       \/ /\ claim' # Digest(auth[q])
          /\ \/ /\ Kind = "commit" /\ Digest(commitRetryCreatedAt(auth[q], claim)) = claim
                /\ auth' = [auth EXCEPT ![q] = commitRetryCreatedAt(auth[q], claim)] /\ Go(q, "retry")
             \/ /\ Kind = "fs_object" /\ compatibleSHA1OnlyProjection(auth[q], claim)
                /\ auth' = [auth EXCEPT ![q] = SHA1Only(auth[q])] /\ Go(q, "compatible")
             \/ /\ ~(Kind = "commit" /\ Digest(commitRetryCreatedAt(auth[q], claim)) = claim)
                /\ ~(Kind = "fs_object" /\ compatibleSHA1OnlyProjection(auth[q], claim))
                /\ Go(q, "conflict") /\ UNCHANGED auth
    /\ UNCHANGED inp /\ Keep
\* The answer of the claim is lost: unavailable, whether it was applied or not.
claimUnknown(q) ==
    /\ At(q, "claim")
    /\ claim' \in {claim, IF claim = None THEN Digest(auth[q]) ELSE claim}
    /\ Go(q, "failed") /\ UNCHANGED <<inp, auth>> /\ Keep
\* The exact retry must be idempotent.
identityExactRetryMatches(q) ==
    /\ pc[q] \in {"retry", "compatible"}
    /\ claim' = IF claim = None THEN Digest(auth[q]) ELSE claim
    /\ Go(q, IF claim = Digest(auth[q]) THEN "verify" ELSE "conflict")
    /\ UNCHANGED <<inp, auth>> /\ Keep
\* A mutant: the row that is there is not compared with the content.
writeUnverified(q) == At(q, "verify") /\ Go(q, "ready") /\ UNCHANGED <<claim, inp, auth>> /\ Keep
verifyBeforeWrite(q) ==
    /\ At(q, "verify")
    /\ Go(q, IF verifySource(Digest(auth[q])) THEN "ready" ELSE "conflict")
    /\ UNCHANGED <<claim, inp, auth>> /\ Keep

\* INSERT writes the columns of its kind and leaves the others as they are.
fsObjectStorageBlockColumns(r, p) ==
    IF p.layout = "sha1" THEN [r EXCEPT !.is = "row", !.type = "file", !.ids = p.a]
    ELSE [r EXCEPT !.is = "row", !.type = "file", !.ids = p.b, !.sha1s = p.a]
commitProjectionSourceValues(p) == [is |-> "row", type |-> "commit", entries |-> p.a, ids |-> Empty, sha1s |-> Empty, t |-> p.t]
AuthorizedRow(r, p) ==
    IF p.type = "commit" THEN commitProjectionSourceValues(p)
    ELSE IF p.type = "dir" THEN [r EXCEPT !.is = "row", !.type = "dir", !.entries = p.a]
    ELSE fsObjectStorageBlockColumns(r, p)
MaterializeAuthorizedCommit(q) ==
    /\ Kind = "commit" /\ At(q, "ready") /\ row' = AuthorizedRow(row, auth[q]) /\ Go(q, "written")
    /\ UNCHANGED <<claim, legacy, inp, auth, deleters>>
MaterializeAuthorizedFSObject(q) ==
    /\ Kind = "fs_object" /\ At(q, "ready") /\ row' = AuthorizedRow(row, auth[q]) /\ Go(q, "written")
    /\ UNCHANGED <<claim, legacy, inp, auth, deleters>>
\* The batch fails or the process dies; a new request starts.
Abandon(q) ==
    /\ pc[q] # "idle" /\ Go(q, "idle")
    /\ inp' = [inp EXCEPT ![q] = NoInput] /\ auth' = [auth EXCEPT ![q] = NoInput]
    /\ UNCHANGED claim /\ Keep

\* updateFullPaths of the sync server: an UPDATE of the name leaves a row without content.
UpdateName ==
    /\ Kind = "fs_object" /\ row.is = "absent" /\ row' = Placeholder
    /\ UNCHANGED <<claim, legacy, writers, deleters>>
-----------------------------------------------------------------------------
(* Deletion *)

requireIdentityClaimForBlindDelete == claim # None
verifyIdentityBeforeDelete(r) == Complete(r) /\ VerifyIdentityAuthority(DigestOf(r))
verifyFSObjectAuthorityBeforeDelete(r) ==
    \/ identitySourceRowIsEmptyFile(r) /\ VerifyIdentityAuthority([type |-> "file", a |-> Empty, b |-> Empty, t |-> 0])
    \/ Complete(r) /\ VerifyIdentityAuthority(DigestOf(r))
Deletable(r) ==
    IF r.is = "absent" THEN requireIdentityClaimForBlindDelete
    ELSE IF Kind = "commit" THEN verifyIdentityBeforeDelete(r) ELSE verifyFSObjectAuthorityBeforeDelete(r)

Read(x) == saw' = [saw EXCEPT ![x] = row] /\ dpc' = [dpc EXCEPT ![x] = "verify"] /\ UNCHANGED <<claim, row, legacy, writers>>
DeleteCommitIdentity(x) == Kind = "commit" /\ dpc[x] = "idle" /\ Read(x)
DeleteFSObjectIdentity(x) == Kind = "fs_object" /\ dpc[x] = "idle" /\ Read(x)
verifyBeforeDelete(x) ==
    /\ dpc[x] = "verify"
    /\ dpc' = [dpc EXCEPT ![x] = IF Deletable(saw[x]) THEN "delete" ELSE "refused"]
    /\ UNCHANGED <<claim, row, legacy, writers, saw>>
deleteRow(x) ==
    /\ dpc[x] = "delete" /\ row' = Absent /\ dpc' = [dpc EXCEPT ![x] = "idle"] /\ saw' = [saw EXCEPT ![x] = Absent]
    /\ UNCHANGED <<claim, legacy, writers>>
GiveUp(x) ==
    /\ dpc[x] # "idle" /\ dpc' = [dpc EXCEPT ![x] = "idle"] /\ saw' = [saw EXCEPT ![x] = Absent]
    /\ UNCHANGED <<claim, row, legacy, writers>>
\* The rollback of a library that was never published, which has no row from before.
AddUnpublishedLibraryIdentityPartitionDeletesToBatch ==
    /\ legacy = Absent /\ row' = Absent /\ UNCHANGED <<claim, legacy, writers, deleters>>
-----------------------------------------------------------------------------
Init ==
    /\ claim = None /\ legacy \in LegacyRows \cup {Absent} /\ row = legacy
    /\ pc = [q \in Writers |-> "idle"]
    /\ inp = [q \in Writers |-> NoInput] /\ auth = [q \in Writers |-> NoInput]
    /\ dpc = [x \in Deleters |-> "idle"] /\ saw = [x \in Deleters |-> Absent]
Writer(q) ==
    \/ AuthorizeCommitProjection(q) \/ AuthorizeFSObjectProjection(q) \/ ClaimIdentityAuthorityAt(q) \/ claimUnknown(q) \/ identityExactRetryMatches(q)
    \/ verifyBeforeWrite(q) \/ MaterializeAuthorizedCommit(q) \/ MaterializeAuthorizedFSObject(q) \/ Abandon(q)
Deleter(x) == DeleteCommitIdentity(x) \/ DeleteFSObjectIdentity(x) \/ verifyBeforeDelete(x) \/ deleteRow(x) \/ GiveUp(x)
Next ==
    \/ \E q \in Writers : Writer(q)
    \/ \E x \in Deleters : Deleter(x)
    \/ UpdateName \/ AddUnpublishedLibraryIdentityPartitionDeletesToBatch
Spec == Init /\ [][Next]_vars
-----------------------------------------------------------------------------
Whole(r) == Complete(r) \/ (Kind = "fs_object" /\ identitySourceRowIsEmptyFile(r))
ContentOf(r) == IF Complete(r) THEN DigestOf(r) ELSE [type |-> "file", a |-> Empty, b |-> Empty, t |-> 0]

\* An id never names two contents: a row with content, unless it is the one
\* from before the claims, has the digest that was claimed first, whatever
\* writers, deletions and rollbacks came in between.
RowsMatchClaim == row = legacy \/ row \in {Absent, Placeholder} \/ (Whole(row) /\ claim = ContentOf(row))

\* What a writer may write has the claimed digest.
AuthorizedMatch == \A q \in Writers : pc[q] = "ready" => claim = Digest(auth[q])

\* A row from before the claims that does not have the claimed digest is
\* neither overwritten nor deleted.
LegacyKept == row = legacy /\ legacy # Absent /\ ~(Whole(row) /\ claim' = ContentOf(row)) => row' = row

\* A retry of the same content, at another time or with the SHA-256 list the
\* claim does not have, is not refused as another content.
RetriesAccepted ==
    legacy = Absent => \A q \in Writers : pc[q] = "conflict" =>
        /\ Digest(inp[q]) # claim
        /\ Kind = "commit" => [Digest(inp[q]) EXCEPT !.t = claim.t] # claim
        /\ Kind = "fs_object" => ~compatibleSHA1OnlyProjection(inp[q], claim)
=============================================================================
