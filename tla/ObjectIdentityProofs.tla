------------------------ MODULE ObjectIdentityProofs ------------------------
(***************************************************************************)
(* An id names one content, for any number of writers, deleters, contents  *)
(* and rows from before the claims (ObjectIdentity).                       *)
(*                                                                         *)
(* The claim is written once (ClaimInv).  A row matches the claim when it  *)
(* has no content or the claimed one: a row that once matched keeps        *)
(* matching, because every writer writes the claimed content over a        *)
(* matching row (WriterInv), and a row that does not match is the one from *)
(* before the claims, untouched, so that what a deleter read of it is what *)
(* is there (DeleterInv).                                                  *)
(***************************************************************************)
EXTENDS ObjectIdentity, TLAPS

Steps == {"idle", "claim", "retry", "compatible", "verify", "ready", "written", "conflict", "failed"}
DeleteSteps == {"idle", "verify", "delete", "refused"}

\* The row r has no content, or the one that claim c is about.
Matches(r, c) == r \in {Absent, Placeholder} \/ (Whole(r) /\ c = ContentOf(r))

\* The rows of the two tables.
TableRow(r) ==
    /\ r.is = "absent" => r = Absent
    /\ IF Kind = "commit" THEN r = Absent \/ r.type = "commit" ELSE r.type # "commit" /\ r.t = 0

\* What was claimed is the digest of something that may be written.
ClaimInv == claim # None => \E p \in Inputs : claim = Digest(p)

\* A row without a match is the one from before the claims.
RowInv ==
    /\ TableRow(row)
    /\ legacy \in LegacyRows \cup {Absent}
    /\ row = legacy \/ Matches(row, claim)

\* A writer at step l, asked for i and authorised to write a, when the claim is c and the row r.
WriterInv(l, i, a, c, r) ==
    /\ l = "claim" => a = i
    /\ l \in {"claim", "retry", "compatible", "verify", "ready"} => a \in Inputs
    /\ l \in {"retry", "compatible", "verify", "ready"} => c = Digest(a)
    /\ l = "ready" => Matches(r, c)
    /\ l = "conflict" => c # None

\* Its content is really another one.
Refused(i, c) ==
    /\ Digest(i) # c
    /\ Kind = "commit" => [Digest(i) EXCEPT !.t = c.t] # c
    /\ Kind = "fs_object" => ~compatibleSHA1OnlyProjection(i, c)

\* A deleter at step d that read s, when the claim is c, the row r, and g was there before the claims.
DeleterInv(d, s, c, r, g) ==
    /\ d = "verify" => Matches(r, c) \/ (r = g /\ s = r)
    /\ d = "delete" => Matches(r, c)

IdInv ==
    /\ TypeOK /\ ClaimInv /\ RowInv
    /\ \A q \in Writers : /\ WriterInv(pc[q], inp[q], auth[q], claim, row)
                          /\ legacy = Absent /\ pc[q] = "conflict" => Refused(inp[q], claim)
    /\ \A x \in Deleters : DeleterInv(dpc[x], saw[x], claim, row, legacy)

-----------------------------------------------------------------------------
(***************************************************************************)
(* Digests and rows.                                                       *)
(***************************************************************************)
LEMMA Types ==
    ASSUME IdentityAssumption
    PROVE  /\ Absent \in Rows /\ Placeholder \in Rows /\ NoInput \in Projections
           /\ \A p \in Projections : Digest(p) \in Digests
           /\ \A r \in Rows : ContentOf(r) \in Digests
           /\ \A p \in Inputs : p \in Projections
<1>1. Absent \in Rows /\ Placeholder \in Rows /\ NoInput \in Projections
  BY DEF Absent, Placeholder, NoInput, Rows, Projections, Columns
<1>2. \A p \in Projections : Digest(p) \in Digests
  BY DEF Digest, Digests, Projections
<1>3. ASSUME NEW r \in Rows
      PROVE  ContentOf(r) \in Digests
  <2>1. [type |-> "file", a |-> Empty, b |-> Empty, t |-> 0] \in Digests
    BY DEF Digests, Columns
  <2>2. commitProjectionFromIdentitySourceRow(r) \in Digests
    BY DEF commitProjectionFromIdentitySourceRow, Digests, Rows, Columns
  <2>3. fsObjectProjectionFromIdentitySourceRow(r) \in Digests
    BY DEF fsObjectProjectionFromIdentitySourceRow, Digests, Rows, Columns
  <2> QED
    BY <2>1, <2>2, <2>3 DEF ContentOf, DigestOf
<1> QED
  BY <1>1, <1>2, <1>3 DEF Inputs

\* A commit written over nothing or over the claimed commit is the claimed commit.
LEMMA CommitWritten ==
    ASSUME IdentityAssumption, Kind = "commit", NEW r \in Rows, NEW p \in Inputs
    PROVE  LET n == AuthorizedRow(r, p) IN n \in Rows /\ TableRow(n) /\ Matches(n, Digest(p))
<1> DEFINE n == AuthorizedRow(r, p)
<1>1. p \in Projections /\ p.type = "commit" /\ p.a # Empty /\ p.b = Empty /\ p.t # 0
  BY DEF Inputs, validateProjection
<1>2. n = [is |-> "row", type |-> "commit", entries |-> p.a, ids |-> Empty, sha1s |-> Empty, t |-> p.t]
  BY <1>1 DEF AuthorizedRow, commitProjectionSourceValues
<1>3. n \in Rows /\ TableRow(n)
  BY <1>1, <1>2 DEF Rows, Projections, Columns, TableRow
<1>4. Complete(n)
  BY <1>1, <1>2 DEF Complete
<1>5. DigestOf(n) = Digest(p)
  BY <1>1, <1>2 DEF DigestOf, commitProjectionFromIdentitySourceRow, Digest
<1> QED
  BY <1>3, <1>4, <1>5 DEF Matches, Whole, ContentOf

\* An fs object written over nothing or over its own content is that content: no column is left over.
LEMMA ObjectWritten ==
    ASSUME IdentityAssumption, Kind = "fs_object", NEW r \in Rows, NEW p \in Inputs, TableRow(r), Matches(r, Digest(p))
    PROVE  LET n == AuthorizedRow(r, p) IN n \in Rows /\ TableRow(n) /\ Matches(n, Digest(p))
<1> DEFINE n == AuthorizedRow(r, p)
<1>1. /\ p \in Projections /\ p.t = 0
      /\ \/ p.type = "dir" /\ p.layout = "none" /\ p.a # Empty /\ p.b = Empty
         \/ p.type = "file" /\ p.layout = "sha1" /\ p.b = Empty
         \/ p.type = "file" /\ p.layout = "paired" /\ (p.a = Empty <=> p.b = Empty)
  BY DEF Inputs, validateProjection
<1>2. r.t = 0 /\ r.type # "commit"
  BY DEF TableRow
<1>3. CASE p.type = "dir"
  <2>1. n = [r EXCEPT !.is = "row", !.type = "dir", !.entries = p.a]
    BY <1>3 DEF AuthorizedRow
  <2>2. r.ids = Empty /\ r.sha1s = Empty
    <3>1. CASE r \in {Absent, Placeholder}
      BY <3>1 DEF Absent, Placeholder
    <3>2. CASE Whole(r) /\ Digest(p) = ContentOf(r)
      BY <1>3, <1>2, <3>2 DEF Whole, ContentOf, Complete, DigestOf, fsObjectProjectionFromIdentitySourceRow, Digest, identitySourceRowIsEmptyFile
    <3> QED
      BY <3>1, <3>2 DEF Matches
  <2>3. n.is = "row" /\ n.type = "dir" /\ n.entries = p.a /\ n.ids = Empty /\ n.sha1s = Empty /\ n.t = 0 /\ n \in Rows
    BY <1>1, <1>2, <2>1, <2>2 DEF Rows, Projections
  <2> HIDE DEF n
  <2>4. Complete(n) /\ TableRow(n)
    BY <1>1, <1>3, <2>3 DEF Complete, TableRow
  <2>5. DigestOf(n) = Digest(p)
    BY <1>1, <1>3, <2>3 DEF DigestOf, fsObjectProjectionFromIdentitySourceRow, Digest
  <2> QED
    BY <2>3, <2>4, <2>5 DEF Matches, Whole, ContentOf, n
<1>4. CASE p.type = "file"
  <2>1. n = fsObjectStorageBlockColumns(r, p)
    BY <1>4 DEF AuthorizedRow
  <2>2. r.entries = Empty /\ (p.layout = "sha1" => r.sha1s = Empty)
    <3>1. CASE r \in {Absent, Placeholder}
      BY <3>1 DEF Absent, Placeholder
    <3>2. CASE Whole(r) /\ Digest(p) = ContentOf(r)
      BY <1>1, <1>4, <1>2, <3>2 DEF Whole, ContentOf, Complete, DigestOf, fsObjectProjectionFromIdentitySourceRow, Digest, identitySourceRowIsEmptyFile
    <3> QED
      BY <3>1, <3>2 DEF Matches
  <2>3. /\ n.is = "row" /\ n.type = "file" /\ n.entries = Empty /\ n.t = 0 /\ n \in Rows
        /\ p.layout = "sha1" => n.ids = p.a /\ n.sha1s = Empty
        /\ p.layout # "sha1" => n.ids = p.b /\ n.sha1s = p.a
    BY <1>1, <1>2, <2>1, <2>2 DEF Rows, Projections, fsObjectStorageBlockColumns
  <2> HIDE DEF n
  <2>4. TableRow(n)
    BY <2>3 DEF TableRow
  <2>5. Whole(n)
    BY <1>1, <1>4, <2>3 DEF Whole, Complete, identitySourceRowIsEmptyFile
  <2>6. ContentOf(n) = Digest(p)
    <3>1. CASE n.ids = Empty
      <4>1. ~Complete(n) /\ p.a = Empty /\ p.b = Empty
        BY <1>1, <1>4, <2>3, <3>1 DEF Complete
      <4> QED
        BY <1>1, <1>4, <4>1 DEF ContentOf, Digest
    <3>2. CASE n.ids # Empty
      <4>1. Complete(n)
        BY <2>3, <3>2 DEF Complete
      <4> QED
        BY <1>1, <1>4, <2>3, <3>2, <4>1 DEF ContentOf, DigestOf, fsObjectProjectionFromIdentitySourceRow, Digest
    <3> QED
      BY <3>1, <3>2
  <2> QED
    BY <2>3, <2>4, <2>5, <2>6 DEF Matches, n
<1> QED
  BY <1>1, <1>3, <1>4

\* A matching row passes the check before a write of the claimed content, when it is not one from before.
LEMMA MatchVerifies ==
    ASSUME IdentityAssumption, NEW p \in Inputs, row \in Rows, TableRow(row), Matches(row, Digest(p))
    PROVE  verifySource(Digest(p))
<1>1. CASE row \in {Absent, Placeholder}
  <2>1. Kind = "commit" => row = Absent
    BY <1>1 DEF TableRow, Placeholder, Absent
  <2> QED
    BY <1>1, <2>1 DEF verifySource, verifyCommitSourceProjection, verifyFSObjectSourceProjection, Absent, Placeholder,
       IdentitySourceRowIsMetadataPlaceholder
<1>2. CASE Whole(row) /\ Digest(p) = ContentOf(row)
  BY <1>2 DEF verifySource, verifyCommitSourceProjection, verifyFSObjectSourceProjection, Whole, ContentOf
<1> QED
  BY <1>1, <1>2 DEF Matches

\* The check before a write accepts only a matching row.
LEMMA VerifiedMatches ==
    ASSUME IdentityAssumption, LegacyAssumption, NEW p \in Inputs, RowInv, row \in Rows, verifySource(Digest(p))
    PROVE  Matches(row, Digest(p))
<1>1. CASE row.is = "absent"
  BY <1>1 DEF RowInv, TableRow, Matches
<1>2. CASE Complete(row) /\ DigestOf(row) = Digest(p)
  BY <1>2 DEF Matches, Whole, ContentOf
<1>3. CASE Kind = "fs_object" /\ IdentitySourceRowIsMetadataPlaceholder(row) /\ row.is # "absent"
  <2>1. row.is = "row" /\ row.type = "none" /\ row.entries = Empty /\ row.ids = Empty /\ row.sha1s = Empty /\ row.t = 0
    BY <1>3 DEF RowInv, TableRow, Rows, IdentitySourceRowIsMetadataPlaceholder
  <2>2. row = Placeholder
    BY <2>1 DEF Rows, Placeholder, Absent
  <2> QED
    BY <2>2 DEF Matches
<1>4. CASE Kind = "fs_object" /\ identitySourceRowIsEmptyFile(row) /\ Digest(p).type = "file" /\ Digest(p).a = Empty /\ Digest(p).b = Empty
  <2>1. ~Complete(row)
    BY <1>4 DEF Complete, identitySourceRowIsEmptyFile
  <2>2. Digest(p).t = 0
    BY <1>4 DEF Digest, Inputs, validateProjection
  <2>3. Digest(p) = [type |-> "file", a |-> Empty, b |-> Empty, t |-> 0]
    BY <1>4, <2>2 DEF Digest
  <2> QED
    BY <1>4, <2>1, <2>3 DEF Matches, Whole, ContentOf
<1> QED
  BY <1>1, <1>2, <1>3, <1>4 DEF verifySource, verifyCommitSourceProjection, verifyFSObjectSourceProjection, IdentityAssumption

-----------------------------------------------------------------------------
(***************************************************************************)
(* The claim is set once and the row is only ever replaced by one that     *)
(* matches it.                                                             *)
(***************************************************************************)
ClaimStep == claim' = claim \/ (claim = None /\ \E p \in Inputs : claim' = Digest(p))
RowStep == row' = row \/ (row' \in Rows /\ TableRow(row') /\ Matches(row', claim'))

LEMMA ClaimRowStep ==
    ASSUME IdentityAssumption, IdInv, ClaimStep, RowStep, legacy' = legacy
    PROVE  /\ ClaimInv' /\ RowInv' /\ row' \in Rows /\ legacy' \in Rows /\ claim' \in Digests \cup {None}
           /\ claim # None => claim' = claim
           /\ Matches(row, claim) => Matches(row', claim')
           /\ row' = row \/ Matches(row', claim')
<1>1. row \in Rows /\ legacy \in Rows /\ claim \in Digests \cup {None}
  BY DEF IdInv, TypeOK
<1>2. claim # None => claim' = claim
  BY DEF ClaimStep
<1>3. ClaimInv' /\ claim' \in Digests \cup {None}
  BY <1>1, Types DEF IdInv, ClaimInv, ClaimStep
<1>4. \A r \in Rows : Matches(r, claim) => Matches(r, claim')
  <2> TAKE r \in Rows
  <2>1. ContentOf(r) # None
    BY Types DEF IdentityAssumption
  <2> QED
    BY <1>2, <2>1 DEF Matches
<1>5. row' \in Rows /\ TableRow(row')
  BY <1>1 DEF RowStep, IdInv, RowInv
<1>6. RowInv'
  BY <1>1, <1>4, <1>5 DEF RowStep, IdInv, RowInv
<1> QED
  BY <1>1, <1>2, <1>3, <1>4, <1>5, <1>6 DEF RowStep

\* What the processes that do not move know stays true.
LEMMA OthersKeep ==
    ASSUME IdentityAssumption, IdInv, ClaimStep, RowStep, legacy' = legacy
    PROVE  /\ \A q \in Writers : /\ WriterInv(pc[q], inp[q], auth[q], claim', row')
                                 /\ legacy = Absent /\ pc[q] = "conflict" => Refused(inp[q], claim')
           /\ \A x \in Deleters : DeleterInv(dpc[x], saw[x], claim', row', legacy)
<1>1. /\ claim # None => claim' = claim
      /\ Matches(row, claim) => Matches(row', claim')
      /\ row' = row \/ Matches(row', claim')
  BY ClaimRowStep
<1>2. ASSUME NEW q \in Writers
      PROVE  /\ WriterInv(pc[q], inp[q], auth[q], claim', row')
             /\ legacy = Absent /\ pc[q] = "conflict" => Refused(inp[q], claim')
  <2>1. /\ WriterInv(pc[q], inp[q], auth[q], claim, row)
        /\ legacy = Absent /\ pc[q] = "conflict" => Refused(inp[q], claim)
    BY DEF IdInv
  <2>2. Digest(auth[q]) # None
    BY Types DEF IdInv, TypeOK, IdentityAssumption
  <2> QED
    BY <1>1, <2>1, <2>2 DEF WriterInv
<1>3. ASSUME NEW x \in Deleters
      PROVE  DeleterInv(dpc[x], saw[x], claim', row', legacy)
  <2>1. DeleterInv(dpc[x], saw[x], claim, row, legacy)
    BY DEF IdInv
  <2> QED
    BY <1>1, <2>1 DEF DeleterInv
<1> QED
  BY <1>2, <1>3

LEMMA WriterStep ==
    ASSUME IdentityAssumption, IdInv, ClaimStep, RowStep, UNCHANGED <<legacy, deleters>>,
           NEW q \in Writers, NEW l \in Steps, NEW i \in Projections, NEW a \in Projections,
           pc' = [pc EXCEPT ![q] = l], inp' = [inp EXCEPT ![q] = i], auth' = [auth EXCEPT ![q] = a],
           WriterInv(l, i, a, claim', row'),
           legacy = Absent /\ l = "conflict" => Refused(i, claim')
    PROVE  IdInv'
<1>1. /\ pc \in [Writers -> Steps] /\ inp \in [Writers -> Projections] /\ auth \in [Writers -> Projections]
      /\ dpc \in [Deleters -> DeleteSteps] /\ saw \in [Deleters -> Rows]
  BY DEF IdInv, TypeOK, Steps, DeleteSteps
<1>2. dpc' = dpc /\ saw' = saw /\ legacy' = legacy
  BY DEF deleters
<1>3. ClaimInv' /\ RowInv' /\ row' \in Rows /\ legacy' \in Rows /\ claim' \in Digests \cup {None}
  BY <1>2, ClaimRowStep
<1>4. TypeOK'
  BY <1>1, <1>2, <1>3 DEF TypeOK, Steps, DeleteSteps
<1>5. ASSUME NEW p \in Writers
      PROVE  /\ WriterInv(pc'[p], inp'[p], auth'[p], claim', row')
             /\ legacy' = Absent /\ pc'[p] = "conflict" => Refused(inp'[p], claim')
  <2>1. CASE p = q
    BY <1>1, <1>2, <2>1
  <2>2. CASE p # q
    <3>1. pc'[p] = pc[p] /\ inp'[p] = inp[p] /\ auth'[p] = auth[p]
      BY <1>1, <2>2
    <3> QED
      BY <1>2, <3>1, OthersKeep
  <2> QED
    BY <2>1, <2>2
<1>6. \A x \in Deleters : DeleterInv(dpc'[x], saw'[x], claim', row', legacy')
  BY <1>2, OthersKeep
<1> QED
  BY <1>3, <1>4, <1>5, <1>6 DEF IdInv

LEMMA DeleterStep ==
    ASSUME IdentityAssumption, IdInv, claim' = claim, RowStep, UNCHANGED <<legacy, writers>>,
           NEW x \in Deleters, NEW d \in DeleteSteps, NEW s \in Rows,
           dpc' = [dpc EXCEPT ![x] = d], saw' = [saw EXCEPT ![x] = s],
           DeleterInv(d, s, claim, row', legacy)
    PROVE  IdInv'
<1>1. /\ pc \in [Writers -> Steps] /\ inp \in [Writers -> Projections] /\ auth \in [Writers -> Projections]
      /\ dpc \in [Deleters -> DeleteSteps] /\ saw \in [Deleters -> Rows]
  BY DEF IdInv, TypeOK, Steps, DeleteSteps
<1>2. pc' = pc /\ inp' = inp /\ auth' = auth /\ legacy' = legacy /\ ClaimStep
  BY DEF writers, ClaimStep
<1>3. ClaimInv' /\ RowInv' /\ row' \in Rows /\ legacy' \in Rows /\ claim' \in Digests \cup {None}
  BY <1>2, ClaimRowStep
<1>4. TypeOK'
  BY <1>1, <1>2, <1>3 DEF TypeOK, Steps, DeleteSteps
<1>5. ASSUME NEW y \in Deleters
      PROVE  DeleterInv(dpc'[y], saw'[y], claim', row', legacy')
  <2>1. CASE y = x
    BY <1>1, <1>2, <2>1
  <2>2. CASE y # x
    <3>1. dpc'[y] = dpc[y] /\ saw'[y] = saw[y]
      BY <1>1, <2>2
    <3> QED
      BY <1>2, <3>1, OthersKeep
  <2> QED
    BY <2>1, <2>2
<1>6. ASSUME NEW q \in Writers
      PROVE  /\ WriterInv(pc'[q], inp'[q], auth'[q], claim', row')
             /\ legacy' = Absent /\ pc'[q] = "conflict" => Refused(inp'[q], claim')
  BY <1>2, OthersKeep
<1>7. \A y \in Deleters : DeleterInv(dpc'[y], saw'[y], claim', row', legacy')
  BY <1>5
<1> QED
  BY <1>3, <1>4, <1>6, <1>7 DEF IdInv

-----------------------------------------------------------------------------
(***************************************************************************)
(* The steps of a writer.                                                  *)
(***************************************************************************)
\* What the invariant says of one writer.
LEMMA WriterFacts ==
    ASSUME IdInv, NEW q \in Writers
    PROVE  /\ pc[q] \in Steps /\ inp[q] \in Projections /\ auth[q] \in Projections
           /\ WriterInv(pc[q], inp[q], auth[q], claim, row)
           /\ row \in Rows /\ legacy \in Rows /\ claim \in Digests \cup {None} /\ RowInv /\ ClaimInv
           /\ inp = [inp EXCEPT ![q] = inp[q]] /\ auth = [auth EXCEPT ![q] = auth[q]]
  BY DEF IdInv, TypeOK, Steps

\* A commit at the time of the claim is a commit that may be written, if the claim is about it.
LEMMA RetryIsInput ==
    ASSUME IdentityAssumption, IdInv, Kind = "commit", claim # None, NEW p \in Inputs
    PROVE  LET a == commitRetryCreatedAt(p, claim)
           IN  /\ a \in Inputs /\ a \in Projections
               /\ Digest(a) = [Digest(p) EXCEPT !.t = claim.t]
               /\ Digest(p) = claim => Digest(a) = claim
<1>1. PICK c \in Inputs : claim = Digest(c)
  BY DEF IdInv, ClaimInv
<1>2. c \in Projections /\ c.t # 0 /\ claim.t = c.t
  BY <1>1 DEF Inputs, validateProjection, Digest
<1>3. p \in Projections /\ p.type = "commit" /\ p.layout = "none" /\ p.a # Empty /\ p.b = Empty /\ p.t # 0
  BY DEF Inputs, validateProjection
<1> DEFINE a == commitRetryCreatedAt(p, claim)
<1>4. a = [p EXCEPT !.t = c.t]
  BY <1>2 DEF commitRetryCreatedAt
<1>5. a \in Projections /\ a.type = "commit" /\ a.layout = "none" /\ a.a = p.a /\ a.b = Empty /\ a.t = c.t
  BY <1>2, <1>3, <1>4 DEF Projections
<1> HIDE DEF a
<1>6. a \in Inputs
  BY <1>2, <1>3, <1>5 DEF Inputs, validateProjection
<1>7. Digest(a) = [type |-> "commit", a |-> p.a, b |-> Empty, t |-> claim.t]
  BY <1>2, <1>5 DEF Digest
<1>8. Digest(p) = [type |-> "commit", a |-> p.a, b |-> Empty, t |-> p.t]
  BY <1>3 DEF Digest
<1>9. Digest(p) = claim => p.t = claim.t
  BY <1>8
<1> QED
  BY <1>5, <1>6, <1>7, <1>8, <1>9 DEF a

\* A file without its SHA-256 list is a file that may be written.
LEMMA SHA1IsInput ==
    ASSUME IdentityAssumption, Kind = "fs_object", NEW p \in Inputs, NEW c, compatibleSHA1OnlyProjection(p, c)
    PROVE  SHA1Only(p) \in Inputs /\ SHA1Only(p) \in Projections /\ Digest(SHA1Only(p)) = c
<1>1. p \in Projections /\ p.t = 0 /\ p.type = "file" /\ c = [type |-> "file", a |-> p.a, b |-> Empty, t |-> 0]
  BY DEF Inputs, validateProjection, compatibleSHA1OnlyProjection
<1> DEFINE a == SHA1Only(p)
<1>2. a \in Projections /\ a.type = "file" /\ a.layout = "sha1" /\ a.a = p.a /\ a.b = Empty /\ a.t = 0
  BY <1>1 DEF SHA1Only, Projections, Columns
<1> HIDE DEF a
<1>3. a \in Inputs
  BY <1>2 DEF Inputs, validateProjection, IdentityAssumption
<1>4. Digest(a) = c
  BY <1>1, <1>2 DEF Digest
<1> QED
  BY <1>2, <1>3, <1>4 DEF a

LEMMA AuthorizeCommitInv ==
    ASSUME IdentityAssumption, IdInv, NEW q \in Writers, AuthorizeCommitProjection(q)
    PROVE  IdInv'
<1>1. PICK p \in Inputs :
         /\ inp' = [inp EXCEPT ![q] = p]
         /\ IF claim = None THEN auth' = [auth EXCEPT ![q] = p] /\ pc' = [pc EXCEPT ![q] = "claim"]
            ELSE /\ auth' = [auth EXCEPT ![q] = commitRetryCreatedAt(p, claim)]
                 /\ pc' = [pc EXCEPT ![q] = IF Digest(commitRetryCreatedAt(p, claim)) = claim THEN "verify" ELSE "conflict"]
  BY DEF AuthorizeCommitProjection, ReadIdentityAuthority, Go
<1>2. Kind = "commit" /\ claim' = claim /\ row' = row /\ UNCHANGED <<legacy, deleters>> /\ ClaimStep /\ RowStep
  BY DEF AuthorizeCommitProjection, Keep, ClaimStep, RowStep
<1>3. p \in Projections
  BY DEF Inputs
<1>4. CASE claim = None
  <2>1. WriterInv("claim", p, p, claim', row') /\ "claim" \in Steps
    BY DEF WriterInv, Steps
  <2> QED
    BY <1>1, <1>2, <1>3, <1>4, <2>1, WriterStep
<1>5. CASE claim # None
  <2> DEFINE a == commitRetryCreatedAt(p, claim)
             l == IF Digest(a) = claim THEN "verify" ELSE "conflict"
  <2>1. a \in Inputs /\ a \in Projections /\ Digest(a) = [Digest(p) EXCEPT !.t = claim.t] /\ (Digest(p) = claim => Digest(a) = claim)
    BY <1>2, <1>5, RetryIsInput
  <2>2. pc' = [pc EXCEPT ![q] = l] /\ auth' = [auth EXCEPT ![q] = a] /\ inp' = [inp EXCEPT ![q] = p]
    BY <1>1, <1>5
  <2> HIDE DEF a
  <2>3. WriterInv(l, p, a, claim', row') /\ l \in Steps
    BY <1>2, <1>5, <2>1 DEF WriterInv, Steps
  <2>4. l = "conflict" => Refused(p, claim')
    BY <1>2, <2>1 DEF Refused
  <2> HIDE DEF l
  <2> QED
    BY <1>2, <1>3, <2>1, <2>2, <2>3, <2>4, WriterStep
<1> QED
  BY <1>4, <1>5

LEMMA AuthorizeFSObjectInv ==
    ASSUME IdentityAssumption, IdInv, NEW q \in Writers, AuthorizeFSObjectProjection(q)
    PROVE  IdInv'
<1>1. PICK p \in Inputs : inp' = [inp EXCEPT ![q] = p] /\ auth' = [auth EXCEPT ![q] = p]
  BY DEF AuthorizeFSObjectProjection
<1>2. pc' = [pc EXCEPT ![q] = "claim"] /\ claim' = claim /\ row' = row /\ UNCHANGED <<legacy, deleters>> /\ ClaimStep /\ RowStep
  BY DEF AuthorizeFSObjectProjection, Go, Keep, ClaimStep, RowStep
<1>3. p \in Projections /\ "claim" \in Steps /\ WriterInv("claim", p, p, claim', row')
  BY DEF Inputs, Steps, WriterInv
<1> QED
  BY <1>1, <1>2, <1>3, WriterStep

LEMMA ClaimIdentityInv ==
    ASSUME IdentityAssumption, IdInv, NEW q \in Writers, ClaimIdentityAuthorityAt(q)
    PROVE  IdInv'
<1> DEFINE p == auth[q]
<1>1. /\ pc[q] = "claim" /\ inp' = inp /\ row' = row /\ UNCHANGED <<legacy, deleters>>
      /\ claim' = IF claim = None THEN Digest(p) ELSE claim
  BY DEF ClaimIdentityAuthorityAt, At, Keep
<1>2. /\ p \in Inputs /\ p \in Projections /\ inp[q] = p /\ inp' = [inp EXCEPT ![q] = p] /\ auth = [auth EXCEPT ![q] = p]
  BY <1>1, WriterFacts DEF WriterInv
<1>3. ClaimStep /\ RowStep /\ claim' # None
  <2>1. Digest(p) # None
    BY <1>2, Types DEF IdentityAssumption
  <2> QED
    BY <1>1, <1>2, <2>1 DEF ClaimStep, RowStep
<1>4. CASE claim' = Digest(p) /\ Go(q, "verify") /\ UNCHANGED auth
  <2>1. WriterInv("verify", p, p, claim', row') /\ "verify" \in Steps
    BY <1>2, <1>4 DEF WriterInv, Steps
  <2>2. pc' = [pc EXCEPT ![q] = "verify"] /\ auth' = [auth EXCEPT ![q] = p]
    BY <1>2, <1>4 DEF Go
  <2> HIDE DEF p
  <2> QED
    BY <1>1, <1>2, <1>3, <2>1, <2>2, WriterStep
<1>5. CASE claim' # Digest(p)
  <2>1. claim # None /\ claim' = claim
    BY <1>1, <1>5
  <2>2. CASE /\ Kind = "commit" /\ Digest(commitRetryCreatedAt(p, claim)) = claim
             /\ auth' = [auth EXCEPT ![q] = commitRetryCreatedAt(p, claim)] /\ Go(q, "retry")
    <3> DEFINE a == commitRetryCreatedAt(p, claim)
    <3>1. a \in Inputs /\ a \in Projections
      BY <1>2, <2>1, <2>2, RetryIsInput
    <3>2. Digest(a) = claim' /\ auth' = [auth EXCEPT ![q] = a] /\ pc' = [pc EXCEPT ![q] = "retry"]
      BY <2>1, <2>2 DEF Go
    <3> HIDE DEF a, p
    <3>3. WriterInv("retry", p, a, claim', row') /\ "retry" \in Steps
      BY <3>1, <3>2 DEF WriterInv, Steps
    <3> QED
      BY <1>1, <1>2, <1>3, <3>1, <3>2, <3>3, WriterStep
  <2>3. CASE /\ Kind = "fs_object" /\ compatibleSHA1OnlyProjection(p, claim)
             /\ auth' = [auth EXCEPT ![q] = SHA1Only(p)] /\ Go(q, "compatible")
    <3> DEFINE a == SHA1Only(p)
    <3>1. a \in Inputs /\ a \in Projections /\ Digest(a) = claim
      BY <1>2, <2>3, SHA1IsInput
    <3>2. auth' = [auth EXCEPT ![q] = a] /\ pc' = [pc EXCEPT ![q] = "compatible"]
      BY <2>3 DEF Go
    <3> HIDE DEF a, p
    <3>3. WriterInv("compatible", p, a, claim', row') /\ "compatible" \in Steps
      BY <2>1, <3>1 DEF WriterInv, Steps
    <3> QED
      BY <1>1, <1>2, <1>3, <3>1, <3>2, <3>3, WriterStep
  <2>4. CASE /\ ~(Kind = "commit" /\ Digest(commitRetryCreatedAt(p, claim)) = claim)
             /\ ~(Kind = "fs_object" /\ compatibleSHA1OnlyProjection(p, claim))
             /\ Go(q, "conflict") /\ UNCHANGED auth
    <3>1. WriterInv("conflict", p, p, claim', row') /\ "conflict" \in Steps
      BY <1>3 DEF WriterInv, Steps
    <3>2. Refused(p, claim')
      <4>1. Kind = "commit" => [Digest(p) EXCEPT !.t = claim.t] # claim
        <5>1. Kind = "commit" => Digest(commitRetryCreatedAt(p, claim)) = [Digest(p) EXCEPT !.t = claim.t]
          BY <1>2, <2>1, RetryIsInput
        <5> QED
          BY <2>4, <5>1
      <4> QED
        BY <1>5, <2>1, <2>4, <4>1 DEF Refused
    <3>3. pc' = [pc EXCEPT ![q] = "conflict"] /\ auth' = [auth EXCEPT ![q] = p]
      BY <1>2, <2>4 DEF Go
    <3> HIDE DEF p
    <3> QED
      BY <1>1, <1>2, <1>3, <3>1, <3>2, <3>3, WriterStep
  <2> QED
    BY <1>5, <2>2, <2>3, <2>4 DEF ClaimIdentityAuthorityAt
<1> QED
  BY <1>4, <1>5 DEF ClaimIdentityAuthorityAt

LEMMA ClaimUnknownInv ==
    ASSUME IdentityAssumption, IdInv, NEW q \in Writers, claimUnknown(q)
    PROVE  IdInv'
<1> DEFINE p == auth[q]
<1>1. /\ pc[q] = "claim" /\ inp' = inp /\ auth' = auth /\ row' = row /\ UNCHANGED <<legacy, deleters>>
      /\ claim' = claim \/ claim' = IF claim = None THEN Digest(p) ELSE claim
      /\ pc' = [pc EXCEPT ![q] = "failed"]
  BY DEF claimUnknown, At, Go, Keep
<1>2. p \in Inputs /\ p \in Projections /\ inp' = [inp EXCEPT ![q] = p] /\ auth' = [auth EXCEPT ![q] = p]
  BY <1>1, WriterFacts DEF WriterInv
<1>3. ClaimStep /\ RowStep
  BY <1>1, <1>2 DEF ClaimStep, RowStep
<1>4. WriterInv("failed", p, p, claim', row') /\ "failed" \in Steps
  BY DEF WriterInv, Steps
<1> HIDE DEF p
<1> QED
  BY <1>1, <1>2, <1>3, <1>4, WriterStep

LEMMA ExactRetryInv ==
    ASSUME IdentityAssumption, IdInv, NEW q \in Writers, identityExactRetryMatches(q)
    PROVE  IdInv'
<1> DEFINE i == inp[q]
           p == auth[q]
<1>1. /\ pc[q] \in {"retry", "compatible"} /\ inp' = inp /\ auth' = auth /\ row' = row /\ UNCHANGED <<legacy, deleters>>
      /\ claim' = IF claim = None THEN Digest(p) ELSE claim
      /\ pc' = [pc EXCEPT ![q] = IF claim = Digest(p) THEN "verify" ELSE "conflict"]
  BY DEF identityExactRetryMatches, Go, Keep
<1>2. /\ p \in Inputs /\ p \in Projections /\ i \in Projections /\ claim = Digest(p)
      /\ inp' = [inp EXCEPT ![q] = i] /\ auth' = [auth EXCEPT ![q] = p]
  BY <1>1, WriterFacts DEF WriterInv
<1>3. claim' = claim /\ pc' = [pc EXCEPT ![q] = "verify"]
  BY <1>1, <1>2
<1>4. ClaimStep /\ RowStep
  BY <1>1, <1>3 DEF ClaimStep, RowStep
<1>5. WriterInv("verify", i, p, claim', row') /\ "verify" \in Steps
  BY <1>2, <1>3 DEF WriterInv, Steps
<1> HIDE DEF i, p
<1> QED
  BY <1>1, <1>2, <1>3, <1>4, <1>5, WriterStep

LEMMA VerifyBeforeWriteInv ==
    ASSUME IdentityAssumption, LegacyAssumption, IdInv, NEW q \in Writers, verifyBeforeWrite(q)
    PROVE  IdInv'
<1> DEFINE i == inp[q]
           p == auth[q]
           l == IF verifySource(Digest(p)) THEN "ready" ELSE "conflict"
<1>1. /\ pc[q] = "verify" /\ inp' = inp /\ auth' = auth /\ row' = row /\ claim' = claim /\ UNCHANGED <<legacy, deleters>>
      /\ pc' = [pc EXCEPT ![q] = l]
  BY DEF verifyBeforeWrite, At, Go, Keep
<1>2. /\ p \in Inputs /\ p \in Projections /\ i \in Projections /\ claim = Digest(p) /\ RowInv /\ row \in Rows
      /\ inp' = [inp EXCEPT ![q] = i] /\ auth' = [auth EXCEPT ![q] = p]
  BY <1>1, WriterFacts DEF WriterInv
<1>3. claim # None
  BY <1>2, Types DEF IdentityAssumption
<1>4. ClaimStep /\ RowStep
  BY <1>1 DEF ClaimStep, RowStep
<1>5. verifySource(Digest(p)) => Matches(row, claim)
  BY <1>2, VerifiedMatches
<1>6. legacy = Absent => verifySource(Digest(p))
  <2> SUFFICES ASSUME legacy = Absent
               PROVE  verifySource(Digest(p))
    OBVIOUS
  <2>1. Matches(row, Digest(p)) /\ TableRow(row)
    BY <1>2 DEF RowInv, Matches
  <2> HIDE DEF p
  <2> QED
    BY <1>2, <2>1, MatchVerifies
<1>7. /\ l \in Steps /\ (legacy = Absent => l # "conflict")
      /\ WriterInv(l, i, p, claim', row')
  BY <1>1, <1>2, <1>3, <1>5, <1>6 DEF WriterInv, Steps
<1> HIDE DEF i, p, l
<1> QED
  BY <1>1, <1>2, <1>4, <1>7, WriterStep

\* A write of the authorised content leaves a matching row.
LEMMA MaterializeInv ==
    ASSUME IdentityAssumption, IdInv, NEW q \in Writers, MaterializeAuthorizedCommit(q) \/ MaterializeAuthorizedFSObject(q)
    PROVE  IdInv'
<1> DEFINE i == inp[q]
           p == auth[q]
<1>1. /\ pc[q] = "ready" /\ inp' = inp /\ auth' = auth /\ claim' = claim /\ UNCHANGED <<legacy, deleters>>
      /\ row' = AuthorizedRow(row, p) /\ pc' = [pc EXCEPT ![q] = "written"]
  BY DEF MaterializeAuthorizedCommit, MaterializeAuthorizedFSObject, At, Go
<1>2. /\ p \in Inputs /\ p \in Projections /\ i \in Projections /\ claim = Digest(p) /\ RowInv /\ row \in Rows /\ Matches(row, claim)
      /\ inp' = [inp EXCEPT ![q] = i] /\ auth' = [auth EXCEPT ![q] = p]
  BY <1>1, WriterFacts DEF WriterInv
<1>3. TableRow(row) /\ (Kind = "commit" \/ Kind = "fs_object")
  BY <1>2 DEF RowInv, IdentityAssumption
<1> HIDE DEF i, p
<1>4. row' \in Rows /\ TableRow(row') /\ Matches(row', claim')
  <2>1. CASE Kind = "commit"
    BY <1>1, <1>2, <2>1, CommitWritten
  <2>2. CASE Kind = "fs_object"
    BY <1>1, <1>2, <1>3, <2>2, ObjectWritten
  <2> QED
    BY <1>3, <2>1, <2>2
<1>5. ClaimStep /\ RowStep
  BY <1>1, <1>4 DEF ClaimStep, RowStep
<1>6. WriterInv("written", i, p, claim', row') /\ "written" \in Steps
  BY DEF WriterInv, Steps
<1> QED
  BY <1>1, <1>2, <1>5, <1>6, WriterStep

LEMMA AbandonInv ==
    ASSUME IdentityAssumption, IdInv, NEW q \in Writers, Abandon(q)
    PROVE  IdInv'
<1>1. /\ pc' = [pc EXCEPT ![q] = "idle"] /\ inp' = [inp EXCEPT ![q] = NoInput] /\ auth' = [auth EXCEPT ![q] = NoInput]
      /\ claim' = claim /\ row' = row /\ UNCHANGED <<legacy, deleters>>
  BY DEF Abandon, Go, Keep
<1>2. ClaimStep /\ RowStep /\ NoInput \in Projections
  BY <1>1, Types DEF ClaimStep, RowStep
<1>3. WriterInv("idle", NoInput, NoInput, claim', row') /\ "idle" \in Steps
  BY DEF WriterInv, Steps
<1> QED
  BY <1>1, <1>2, <1>3, WriterStep
-----------------------------------------------------------------------------
(***************************************************************************)
(* The steps of a deleter, and the ones nobody owns.                       *)
(***************************************************************************)
\* A row that the check before a deletion accepts has the claimed content.
LEMMA DeletableMatches ==
    ASSUME IdentityAssumption, NEW r \in Rows, r.is # "absent", Deletable(r)
    PROVE  Matches(r, claim)
<1>1. CASE Complete(r) /\ claim = DigestOf(r)
  BY <1>1 DEF Matches, Whole, ContentOf
<1>2. CASE Kind = "fs_object" /\ identitySourceRowIsEmptyFile(r) /\ claim = [type |-> "file", a |-> Empty, b |-> Empty, t |-> 0]
  <2>1. ~Complete(r)
    BY <1>2 DEF Complete, identitySourceRowIsEmptyFile
  <2> QED
    BY <1>2, <2>1 DEF Matches, Whole, ContentOf
<1> QED
  BY <1>1, <1>2 DEF Deletable, verifyIdentityBeforeDelete, verifyFSObjectAuthorityBeforeDelete, VerifyIdentityAuthority, IdentityAssumption

LEMMA DeleterInvariant ==
    ASSUME IdentityAssumption, IdInv, NEW x \in Deleters, Deleter(x)
    PROVE  IdInv'
<1>1. /\ row \in Rows /\ saw[x] \in Rows /\ dpc[x] \in DeleteSteps /\ RowInv /\ Absent \in Rows
      /\ DeleterInv(dpc[x], saw[x], claim, row, legacy) /\ saw = [saw EXCEPT ![x] = saw[x]]
  BY Types DEF IdInv, TypeOK, DeleteSteps
<1>2. "idle" \in DeleteSteps /\ "verify" \in DeleteSteps /\ "delete" \in DeleteSteps /\ "refused" \in DeleteSteps
  BY DEF DeleteSteps
<1>3. TableRow(Absent) /\ Matches(Absent, claim)
  BY DEF TableRow, Absent, Matches
<1>4. CASE DeleteCommitIdentity(x) \/ DeleteFSObjectIdentity(x)
  <2>1. /\ saw' = [saw EXCEPT ![x] = row] /\ dpc' = [dpc EXCEPT ![x] = "verify"]
        /\ claim' = claim /\ row' = row /\ UNCHANGED <<legacy, writers>>
    BY <1>4 DEF DeleteCommitIdentity, DeleteFSObjectIdentity, Read
  <2>2. RowStep
    BY <2>1 DEF RowStep
  <2>3. DeleterInv("verify", row, claim, row', legacy)
    BY <1>1, <2>1 DEF DeleterInv, RowInv
  <2> QED
    BY <1>1, <1>2, <2>1, <2>2, <2>3, DeleterStep
<1>5. CASE verifyBeforeDelete(x)
  <2> DEFINE d == IF Deletable(saw[x]) THEN "delete" ELSE "refused"
  <2>1. /\ dpc[x] = "verify" /\ saw' = [saw EXCEPT ![x] = saw[x]] /\ dpc' = [dpc EXCEPT ![x] = d] /\ d \in DeleteSteps
        /\ claim' = claim /\ row' = row /\ UNCHANGED <<legacy, writers>>
    BY <1>1, <1>2, <1>5 DEF verifyBeforeDelete
  <2>2. RowStep
    BY <2>1 DEF RowStep
  <2>3. Deletable(saw[x]) => Matches(row, claim)
    <3> SUFFICES ASSUME Deletable(saw[x]), row = legacy, saw[x] = row
                 PROVE  Matches(row, claim)
      BY <1>1, <2>1 DEF DeleterInv
    <3>1. CASE row.is = "absent"
      BY <1>1, <3>1 DEF RowInv, TableRow, Matches
    <3>2. CASE row.is # "absent"
      BY <1>1, <3>2, DeletableMatches
    <3> QED
      BY <3>1, <3>2
  <2>4. DeleterInv(d, saw[x], claim, row', legacy)
    BY <2>1, <2>3 DEF DeleterInv
  <2> HIDE DEF d
  <2> QED
    BY <1>1, <2>1, <2>2, <2>4, DeleterStep
<1>6. CASE deleteRow(x)
  <2>1. /\ saw' = [saw EXCEPT ![x] = Absent] /\ dpc' = [dpc EXCEPT ![x] = "idle"]
        /\ claim' = claim /\ row' = Absent /\ UNCHANGED <<legacy, writers>>
    BY <1>6 DEF deleteRow
  <2>2. RowStep
    BY <1>1, <1>3, <2>1 DEF RowStep
  <2>3. DeleterInv("idle", Absent, claim, row', legacy)
    BY DEF DeleterInv
  <2> QED
    BY <1>1, <1>2, <2>1, <2>2, <2>3, DeleterStep
<1>7. CASE GiveUp(x)
  <2>1. /\ saw' = [saw EXCEPT ![x] = Absent] /\ dpc' = [dpc EXCEPT ![x] = "idle"]
        /\ claim' = claim /\ row' = row /\ UNCHANGED <<legacy, writers>>
    BY <1>7 DEF GiveUp
  <2>2. RowStep
    BY <2>1 DEF RowStep
  <2>3. DeleterInv("idle", Absent, claim, row', legacy)
    BY DEF DeleterInv
  <2> QED
    BY <1>1, <1>2, <2>1, <2>2, <2>3, DeleterStep
<1> QED
  BY <1>4, <1>5, <1>6, <1>7 DEF Deleter

\* A step that changes the row alone, to one without content.
LEMMA RowOnlyInv ==
    ASSUME IdentityAssumption, IdInv, UpdateName \/ AddUnpublishedLibraryIdentityPartitionDeletesToBatch
    PROVE  IdInv'
<1>1. claim' = claim /\ legacy' = legacy /\ pc' = pc /\ inp' = inp /\ auth' = auth /\ dpc' = dpc /\ saw' = saw
  BY DEF UpdateName, AddUnpublishedLibraryIdentityPartitionDeletesToBatch, writers, deleters
<1>2. row' \in Rows /\ TableRow(row') /\ Matches(row', claim')
  <2>1. CASE UpdateName
    BY <2>1, Types DEF UpdateName, TableRow, Matches, Placeholder, Absent, IdentityAssumption
  <2>2. CASE AddUnpublishedLibraryIdentityPartitionDeletesToBatch
    BY <2>2, Types DEF AddUnpublishedLibraryIdentityPartitionDeletesToBatch, TableRow, Matches, Absent, IdentityAssumption
  <2> QED
    BY <2>1, <2>2
<1>3. ClaimStep /\ RowStep
  BY <1>1, <1>2 DEF ClaimStep, RowStep
<1>4. ClaimInv' /\ RowInv' /\ row' \in Rows /\ legacy' \in Rows /\ claim' \in Digests \cup {None}
  BY <1>1, <1>3, ClaimRowStep
<1>5. TypeOK'
  BY <1>1, <1>4 DEF IdInv, TypeOK
<1>6. ASSUME NEW q \in Writers
      PROVE  /\ WriterInv(pc'[q], inp'[q], auth'[q], claim', row')
             /\ legacy' = Absent /\ pc'[q] = "conflict" => Refused(inp'[q], claim')
  BY <1>1, <1>3, OthersKeep
<1>7. \A y \in Deleters : DeleterInv(dpc'[y], saw'[y], claim', row', legacy')
  BY <1>1, <1>3, OthersKeep
<1> QED
  BY <1>4, <1>5, <1>6, <1>7 DEF IdInv
-----------------------------------------------------------------------------
LEMMA InitIdInv ==
    ASSUME IdentityAssumption, LegacyAssumption, Init
    PROVE  IdInv
<1>1. row = legacy /\ legacy \in LegacyRows \cup {Absent} /\ claim = None
  BY DEF Init
<1>2. row \in Rows /\ TableRow(row)
  <2>1. CASE row = Absent
    BY <2>1, Types DEF TableRow, Absent, IdentityAssumption
  <2>2. CASE row \in LegacyRows
    BY <2>2 DEF LegacyAssumption, TableRow
  <2> QED
    BY <1>1, <2>1, <2>2
<1>3. TypeOK
  BY <1>1, <1>2, Types DEF Init, TypeOK
<1>4. ClaimInv /\ RowInv
  BY <1>1, <1>2 DEF ClaimInv, RowInv
<1>5. \A q \in Writers : WriterInv(pc[q], inp[q], auth[q], claim, row) /\ pc[q] = "idle"
  BY DEF Init, WriterInv
<1>6. \A x \in Deleters : DeleterInv(dpc[x], saw[x], claim, row, legacy)
  BY DEF Init, DeleterInv
<1> QED
  BY <1>3, <1>4, <1>5, <1>6 DEF IdInv

LEMMA NextIdInv ==
    ASSUME IdentityAssumption, LegacyAssumption, IdInv, [Next]_vars
    PROVE  IdInv'
<1>1. CASE UNCHANGED vars
  BY <1>1 DEF vars, writers, deleters, IdInv, TypeOK, ClaimInv, RowInv
<1>2. ASSUME NEW q \in Writers, Writer(q)
      PROVE  IdInv'
  BY <1>2, AuthorizeCommitInv, AuthorizeFSObjectInv, ClaimIdentityInv, ClaimUnknownInv, ExactRetryInv, VerifyBeforeWriteInv,
     MaterializeInv, AbandonInv DEF Writer
<1>3. ASSUME NEW x \in Deleters, Deleter(x)
      PROVE  IdInv'
  BY <1>3, DeleterInvariant
<1>4. CASE UpdateName \/ AddUnpublishedLibraryIdentityPartitionDeletesToBatch
  BY <1>4, RowOnlyInv
<1> QED
  BY <1>1, <1>2, <1>3, <1>4 DEF Next

\* The invariant of the claims, the rows and the processes that read them.
THEOREM IdentityInvariant == IdentityAssumption /\ LegacyAssumption => (Spec => []IdInv)
<1> SUFFICES ASSUME IdentityAssumption, LegacyAssumption
             PROVE  Spec => []IdInv
  OBVIOUS
<1>1. Init => IdInv
  BY InitIdInv
<1>2. IdInv /\ [Next]_vars => IdInv'
  BY NextIdInv
<1> QED
  BY <1>1, <1>2, PTL DEF Spec

LEMMA IdInvImplies ==
    ASSUME IdInv
    PROVE  RowsMatchClaim /\ AuthorizedMatch /\ RetriesAccepted
<1>1. RowsMatchClaim
  BY DEF IdInv, RowInv, Matches, RowsMatchClaim
<1>2. AuthorizedMatch
  BY DEF IdInv, WriterInv, AuthorizedMatch
<1>3. RetriesAccepted
  BY DEF IdInv, Refused, RetriesAccepted
<1> QED
  BY <1>1, <1>2, <1>3

\* An id never names two contents; a writer writes only the claimed one, and a
\* retry of the claimed content is never refused (identity_gateway.go).
THEOREM OneContentPerId ==
    IdentityAssumption /\ LegacyAssumption => (Spec => [](RowsMatchClaim /\ AuthorizedMatch /\ RetriesAccepted))
<1> SUFFICES ASSUME IdentityAssumption, LegacyAssumption
             PROVE  Spec => [](RowsMatchClaim /\ AuthorizedMatch /\ RetriesAccepted)
  OBVIOUS
<1>1. IdInv => RowsMatchClaim /\ AuthorizedMatch /\ RetriesAccepted
  BY IdInvImplies
<1> QED
  BY <1>1, IdentityInvariant, PTL

LEMMA StepKeepsLegacy ==
    ASSUME IdentityAssumption, LegacyAssumption, IdInv, [Next]_vars
    PROVE  LegacyKept
<1> SUFFICES ASSUME row = legacy, legacy # Absent, ~(Whole(row) /\ claim' = ContentOf(row))
             PROVE  row' = row
  BY DEF LegacyKept
<1>1. row \in LegacyRows /\ row # Absent /\ row # Placeholder /\ row.is = "row"
  BY DEF IdInv, RowInv, LegacyAssumption
<1>2. claim' = claim => ~Matches(row, claim)
  BY <1>1 DEF Matches
<1>3. ASSUME NEW q \in Writers, Writer(q)
      PROVE  row' = row
  <2>1. CASE MaterializeAuthorizedCommit(q) \/ MaterializeAuthorizedFSObject(q)
    <3>1. pc[q] = "ready" /\ claim' = claim
      BY <2>1 DEF MaterializeAuthorizedCommit, MaterializeAuthorizedFSObject, At
    <3> QED
      BY <1>2, <3>1, WriterFacts DEF WriterInv
  <2>2. CASE ~(MaterializeAuthorizedCommit(q) \/ MaterializeAuthorizedFSObject(q))
    BY <1>3, <2>2 DEF Writer, AuthorizeCommitProjection, AuthorizeFSObjectProjection, ClaimIdentityAuthorityAt, claimUnknown,
       identityExactRetryMatches, verifyBeforeWrite, Abandon, Keep
  <2> QED
    BY <2>1, <2>2
<1>4. ASSUME NEW x \in Deleters, Deleter(x)
      PROVE  row' = row
  <2>1. CASE deleteRow(x)
    <3>1. dpc[x] = "delete" /\ claim' = claim
      BY <2>1 DEF deleteRow
    <3> QED
      BY <1>2, <3>1 DEF IdInv, DeleterInv
  <2>2. CASE ~deleteRow(x)
    BY <1>4, <2>2 DEF Deleter, DeleteCommitIdentity, DeleteFSObjectIdentity, Read, verifyBeforeDelete, GiveUp
  <2> QED
    BY <2>1, <2>2
<1>5. ~UpdateName /\ ~AddUnpublishedLibraryIdentityPartitionDeletesToBatch
  BY <1>1 DEF UpdateName, AddUnpublishedLibraryIdentityPartitionDeletesToBatch
<1>6. CASE UNCHANGED vars
  BY <1>6 DEF vars
<1> QED
  BY <1>3, <1>4, <1>5, <1>6 DEF Next

\* No step overwrites or deletes a row from before the claims that is not the claimed content.
THEOREM LegacyRowsKept == IdentityAssumption /\ LegacyAssumption => (Spec => [][LegacyKept]_vars)
<1> SUFFICES ASSUME IdentityAssumption, LegacyAssumption
             PROVE  Spec => [][LegacyKept]_vars
  OBVIOUS
<1>1. IdInv /\ [Next]_vars => [LegacyKept]_vars
  BY StepKeepsLegacy
<1> QED
  BY <1>1, IdentityInvariant, PTL DEF Spec
=============================================================================
