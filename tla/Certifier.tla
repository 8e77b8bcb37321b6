----------------------------- MODULE Certifier -----------------------------
(***************************************************************************)
(* Certification of the HEAD of a library                                  *)
(* (internal/db/library_continuity_certifier.go, library_continuity.go)    *)
(* against publications, the deletion of the library and the garbage       *)
(* collection of its blocks.                                               *)
(*                                                                         *)
(* The certifier walks the tree of HEAD, pins every block with a permanent *)
(* reference, checks after the pin that no delete has the block, checks    *)
(* everything once more and then writes the witness with a compare-and-set *)
(* on HEAD. What it finds may date from before the identity claims and the *)
(* references: rows without a claim, blocks without a reference, locators  *)
(* that were not minted. The garbage collector takes the references of an  *)
(* fs object away only when it is not in the tree of HEAD.                 *)
(***************************************************************************)
EXTENDS Integers, Sequences, FiniteSets
CONSTANTS Commits, Objects, Blocks, Keys,
          Root,          \* [Commits -> Objects]
          Kids,          \* [Objects -> SUBSET Objects]: the entries of a directory
          Holds,         \* [Objects -> SUBSET Blocks]: the SHA-256 ids of a file
          SHA1Files,     \* files with one SHA-1 id and no SHA-256 id
          Minted,        \* keys of the minted form; the others are legacy locators
          Child,         \* [Commits -> Commits \cup {None}]: what may be published on top
          Rows, Refs, Mappings, \* fs object rows, references and mappings there may be at first
          EmptyID,       \* the id of the empty object
          MaxDepth, MaxFSObjects, MaxUniqueBlocks,
          None
\* The empty object has no entries, and no commit is published on top of itself, however many lie between.
CertifierAssumption ==
    /\ None \notin Commits \cup Blocks \cup Keys /\ IsFiniteSet(Objects) /\ Minted \subseteq Keys /\ SHA1Files \subseteq Objects
    /\ Root \in [Commits -> Objects] /\ Kids \in [Objects -> SUBSET Objects] /\ Holds \in [Objects -> SUBSET Blocks]
    /\ EmptyID \in Objects => Kids[EmptyID] = {}
    /\ Child \in [Commits -> Commits \cup {None}]
    /\ \A c \in Commits : \E S \in SUBSET Commits :
          c \notin S /\ \A d \in S \cup {c} : Child[d] \in S \cup {None}
    /\ Rows \subseteq [Objects -> {"good", "unproven", "placeholder", "absent"}]
    /\ Refs \subseteq [Objects -> [Blocks -> {"none", "ttl", "permanent"}]]
    /\ Mappings \subseteq [SHA1Files -> [val : Blocks \cup {None}, frozen : BOOLEAN]]
    /\ MaxDepth \in Nat /\ MaxFSObjects \in Nat /\ MaxUniqueBlocks \in Nat

VARIABLES lib, head, witness,       \* libraries: state, head_commit_id, continuity_certified_head_commit_id
          row,                      \* [Objects -> Rows]
          mapped,                   \* [SHA1Files -> [val, frozen]]
          ref,                      \* [Objects -> [Blocks -> "none", "ttl" or "permanent"]]
          key, claim, orphan,       \* blocks: key and GC claim; block_s3_orphans
          obj,                      \* objects in the store
          gpc,                      \* the garbage collection of a block
          pc, obs,                  \* the certifier: step and observed HEAD
          todo, seen, deps, resolved, \* its walk: stack, visited, fsByBlock, sha1Mappings
          pass, left, cur, loc      \* its checks: pass, blocks left, the block at hand, locations
library == <<lib, head, witness>>
blocks == <<key, claim, orphan, obj, gpc>>
walk == <<todo, seen, deps, resolved>>
checks == <<pass, left, cur, loc>>
vars == <<library, row, mapped, ref, blocks, pc, obs, walk, checks>>

Steps == {"idle", "commit", "walk", "blocks", "locate", "pin", "row", "orphan", "exists", "recheck", "state", "projections", "mappings", "witness", "settle",
          "certified", "not_certified", "unknown"}
\* Types of the variables.
TypeOK ==
    /\ lib \in {"live", "deleted", "gone"} /\ head \in Commits /\ witness \in Commits \cup {None}
    /\ row \in [Objects -> {"good", "unproven", "placeholder", "absent"}]
    /\ mapped \in [SHA1Files -> [val : Blocks \cup {None}, frozen : BOOLEAN]]
    /\ ref \in [Objects -> [Blocks -> {"none", "ttl", "permanent"}]]
    /\ key \in [Blocks -> Keys \cup {None}] /\ claim \in [Blocks -> {"none", "deleting", "committed"}]
    /\ orphan \in [Blocks -> Keys \cup {None}] /\ obj \in SUBSET (Blocks \X Keys)
    /\ gpc \in [Blocks -> {"idle", "references", "orphan", "commit", "retire", "delete", "clear"}]
    /\ pc \in Steps /\ obs \in Commits \cup {None}
    /\ todo \in Seq(Objects \X SUBSET Objects) /\ seen \in SUBSET Objects /\ deps \in SUBSET (Objects \X Blocks)
    /\ resolved \in [SHA1Files -> Blocks \cup {None}]
    /\ pass \in 1 .. 2 /\ left \in SUBSET Blocks /\ cur \in Blocks \cup {None} /\ loc \in [Blocks -> Keys \cup {None}]
-----------------------------------------------------------------------------
(* The tree of a commit and what a reader needs of it *)

\* The least set that has the root and with a directory its entries.
Closed(S) == \A g \in S : Kids[g] \subseteq S
Reach(c) == {f \in Objects : \A S \in SUBSET Objects : Root[c] \in S /\ Closed(S) => f \in S}
BlocksOf(f) == IF f \in SHA1Files THEN {mapped[f].val} ELSE Holds[f]
-----------------------------------------------------------------------------
(* The other actors *)

\* A publication moves HEAD; the witness stays behind.
Publish ==
    /\ lib = "live" /\ Child[head] # None /\ head' = Child[head]
    /\ UNCHANGED <<lib, witness, row, mapped, ref, blocks, pc, obs, walk, checks>>
SoftDelete == lib = "live" /\ lib' = "deleted" /\ UNCHANGED <<head, witness, row, mapped, ref, blocks, pc, obs, walk, checks>>
Restore == lib = "deleted" /\ lib' = "live" /\ UNCHANGED <<head, witness, row, mapped, ref, blocks, pc, obs, walk, checks>>
HardDelete == lib = "deleted" /\ lib' = "gone" /\ UNCHANGED <<head, witness, row, mapped, ref, blocks, pc, obs, walk, checks>>
\* An fs object that is not in the tree of HEAD, or whose library is gone.
CollectObject(f) ==
    /\ lib = "gone" \/ f \notin Reach(head)
    /\ row' = [row EXCEPT ![f] = "absent"] /\ ref' = [ref EXCEPT ![f] = [b \in Blocks |-> "none"]]
    /\ UNCHANGED <<library, mapped, blocks, pc, obs, walk, checks>>
ExpireReference(f, b) ==
    /\ ref[f][b] = "ttl" /\ ref' = [ref EXCEPT ![f][b] = "none"]
    /\ UNCHANGED <<library, row, mapped, blocks, pc, obs, walk, checks>>
\* An ordinary write of a mapping has no effect on a frozen row.
WriteMapping(f, b) ==
    /\ mapped' = [mapped EXCEPT ![f].val = IF mapped[f].frozen THEN mapped[f].val ELSE b]
    /\ UNCHANGED <<library, row, ref, blocks, pc, obs, walk, checks>>

\* The deletion of a block: claim, references at EACH_QUORUM, orphan, commit, row, object, orphan.
Collector(b, from, to) == gpc[b] = from /\ gpc' = [gpc EXCEPT ![b] = to]
ClaimBlock(b) ==
    /\ Collector(b, "idle", "references") /\ key[b] # None /\ claim[b] = "none" /\ claim' = [claim EXCEPT ![b] = "deleting"]
    /\ UNCHANGED <<library, row, mapped, ref, key, orphan, obj, pc, obs, walk, checks>>
RecheckReferences(b) ==
    /\ IF \E f \in Objects : ref[f][b] # "none" THEN Collector(b, "references", "idle") /\ claim' = [claim EXCEPT ![b] = "none"]
       ELSE Collector(b, "references", "orphan") /\ UNCHANGED claim
    /\ UNCHANGED <<library, row, mapped, ref, key, orphan, obj, pc, obs, walk, checks>>
PrepareOrphan(b) ==
    /\ Collector(b, "orphan", "commit") /\ orphan' = [orphan EXCEPT ![b] = key[b]]
    /\ UNCHANGED <<library, row, mapped, ref, key, claim, obj, pc, obs, walk, checks>>
CommitDelete(b) ==
    /\ Collector(b, "commit", "retire") /\ claim' = [claim EXCEPT ![b] = "committed"]
    /\ UNCHANGED <<library, row, mapped, ref, key, orphan, obj, pc, obs, walk, checks>>
RetireRow(b) ==
    /\ Collector(b, "retire", "delete") /\ key' = [key EXCEPT ![b] = None] /\ claim' = [claim EXCEPT ![b] = "none"]
    /\ UNCHANGED <<library, row, mapped, ref, orphan, obj, pc, obs, walk, checks>>
DeleteObject(b) ==
    /\ Collector(b, "delete", "clear") /\ obj' = obj \ {<<b, orphan[b]>>}
    /\ UNCHANGED <<library, row, mapped, ref, key, claim, orphan, pc, obs, walk, checks>>
ClearOrphan(b) ==
    /\ Collector(b, "clear", "idle") /\ orphan' = [orphan EXCEPT ![b] = None]
    /\ UNCHANGED <<library, row, mapped, ref, key, claim, obj, pc, obs, walk, checks>>
\* An upload installs the block under another minted key.
Install(b) ==
    /\ key[b] = None
    /\ \E k \in Minted : k # orphan[b] /\ key' = [key EXCEPT ![b] = k] /\ obj' = obj \cup {<<b, k>>}
    /\ UNCHANGED <<library, row, mapped, ref, claim, orphan, gpc, pc, obs, walk, checks>>
-----------------------------------------------------------------------------
(* The certifier *)

Environment == UNCHANGED <<library, row, ref, blocks>>
To(s) == pc' = s
\* A step that reads, and goes on or ends with an answer.
Check(from, ok, to) == pc = from /\ To(IF ok THEN to ELSE "not_certified")

\* ReadLibraryStateContext: not deleted, and HEAD is the observed one.
StateHolds(c) == lib = "live" /\ head = c
CertifyLibraryBaseline(c) ==
    /\ pc = "idle" /\ obs' = c /\ To(IF StateHolds(c) THEN "commit" ELSE "not_certified")
    /\ Environment /\ UNCHANGED <<mapped, walk, checks>>
\* The commit itself may be missing, or without a claim.
readContinuityCommitProjection ==
    /\ pc = "commit" /\ (To("walk") \/ To("not_certified")) /\ todo' = <<<<Root[obs], {}>>>>
    /\ Environment /\ UNCHANGED <<mapped, obs, seen, deps, resolved, checks>>

\* readContinuityFSObjectProjection: whole and claimed.
readContinuityFSObjectProjection(f) == row[f] = "good"
checkMappedBlockRepresentation(b) == key[b] # None
\* A promotion that is consumable has frozen the row.
resolveSHA1MappingAuthority(f) ==
    /\ mapped[f].val # None
    /\ mapped' = [mapped EXCEPT ![f].frozen = TRUE]
    /\ resolved' = [resolved EXCEPT ![f] = mapped[f].val]
resolveBlockIDs(f) ==
    IF f \in SHA1Files THEN resolveSHA1MappingAuthority(f) /\ deps' = deps \cup {<<f, mapped[f].val>>}
    ELSE deps' = deps \cup {<<f, b>> : b \in Holds[f]} /\ UNCHANGED <<mapped, resolved>>

\* One object from the stack, with the objects above it: the empty object and one
\* that was visited have nothing to add.
visit ==
    /\ pc = "walk" /\ todo # <<>>
    /\ LET f == Head(todo)[1]
           active == Head(todo)[2] IN
         /\ f \notin active
         /\ \/ /\ f = EmptyID \/ (f \in seen /\ Cardinality(active) <= MaxDepth)
               /\ todo' = Tail(todo) /\ UNCHANGED <<seen, deps, resolved, mapped>>
            \/ /\ f \notin seen \cup {EmptyID} /\ Cardinality(active) <= MaxDepth /\ Cardinality(seen) < MaxFSObjects
               /\ readContinuityFSObjectProjection(f) /\ seen' = seen \cup {f}
               /\ \E kids \in [1 .. Cardinality(Kids[f]) -> Kids[f]] :
                    /\ {kids[n] : n \in DOMAIN kids} = Kids[f]
                    /\ todo' = [n \in DOMAIN kids |-> <<kids[n], active \cup {f}>>] \o Tail(todo)
               /\ resolveBlockIDs(f) /\ Cardinality({d[2] : d \in deps'}) <= MaxUniqueBlocks
    /\ Environment /\ UNCHANGED <<pc, obs, checks>>
\* A cycle, a limit, a missing, unproven or incomplete object, an unproven mapping.
visitFails ==
    /\ pc = "walk" /\ todo # <<>>
    /\ LET f == Head(todo)[1]
           active == Head(todo)[2] IN
         /\ f # EmptyID
         /\ \/ f \in active \/ Cardinality(active) > MaxDepth
            \/ /\ f \notin seen
               /\ \/ Cardinality(seen) >= MaxFSObjects \/ ~readContinuityFSObjectProjection(f)
                  \/ f \in SHA1Files /\ mapped[f].val = None
                  \/ Cardinality({d[2] : d \in deps} \cup BlocksOf(f)) > MaxUniqueBlocks
    /\ To("not_certified") /\ Environment /\ UNCHANGED <<mapped, obs, walk, checks>>

\* The blocks one after the other, in each of the two passes.
BlockIDs == {d[2] : d \in deps}
ObjectsOf(b) == {f \in Objects : <<f, b>> \in deps}
Quiet == Environment /\ UNCHANGED <<mapped, obs, walk>>
Walked ==
    /\ pc = "walk" /\ todo = <<>> /\ To("blocks") /\ left' = BlockIDs /\ pass' = 1
    /\ Quiet /\ UNCHANGED <<cur, loc>>
NextBlock ==
    /\ pc = "blocks"
    /\ \/ \E b \in left : cur' = b /\ left' = left \ {b} /\ To("locate")
       \/ left = {} /\ To(IF pass = 1 THEN "state" ELSE "projections") /\ UNCHANGED <<cur, left>>
    /\ Quiet /\ UNCHANGED <<pass, loc>>
ValidateMintedPhysicalLocator == key[cur] \in Minted
\* The location is noted in the first pass and must be the same in the second.
readContinuityPhysicalLocation ==
    /\ Check("locate", IF pass = 1 THEN ValidateMintedPhysicalLocator ELSE key[cur] = loc[cur], IF pass = 1 THEN "pin" ELSE "row")
    /\ loc' = IF pass = 1 THEN [loc EXCEPT ![cur] = key[cur]] ELSE loc
    /\ Quiet /\ UNCHANGED <<pass, left, cur>>
\* A mutant: a reference that will expire counts.
BlockReferenceExists(f, b) == ref[f][b] # "none"
BlockReferencePermanentExists(f, b) == ref[f][b] = "permanent"
Pinned == pc = "pin" /\ (\A f \in ObjectsOf(cur) : BlockReferencePermanentExists(f, cur)) /\ To("row") /\ Quiet /\ UNCHANGED checks
AddBlockReference ==
    /\ pc = "pin"
    /\ \E f \in ObjectsOf(cur) :
         /\ ~BlockReferencePermanentExists(f, cur) /\ ref' = [ref EXCEPT ![f][cur] = "permanent"]
         /\ To("pin") \/ To("unknown")
    /\ UNCHANGED <<library, row, blocks, mapped, obs, walk, checks>>
\* ValidateLibraryContinuityPhysicalAuthority: the row and then the orphan.
RowAuthorized == key[cur] = loc[cur] /\ claim[cur] = "none"
readBlockRepairAuthority == Check("row", RowAuthorized, "orphan") /\ Quiet /\ UNCHANGED checks
blockRepairHasS3Orphan == Check("orphan", orphan[cur] = None, "exists") /\ Quiet /\ UNCHANGED checks
ObjectExists == Check("exists", <<cur, loc[cur]>> \in obj, "recheck") /\ Quiet /\ UNCHANGED checks
RecheckPermanent ==
    /\ pc = "recheck" /\ To(IF \A f \in ObjectsOf(cur) : BlockReferencePermanentExists(f, cur) THEN "blocks" ELSE "unknown")
    /\ Quiet /\ UNCHANGED checks
ReadFinalState ==
    /\ Check("state", StateHolds(obs), "blocks") /\ left' = BlockIDs /\ pass' = 2
    /\ Quiet /\ UNCHANGED <<cur, loc>>
\* The projections of the commit and of every object of the walk once more, one at a time.
sameContinuityProjection ==
    /\ pc = "projections"
    /\ \/ seen = {} /\ To("mappings") /\ UNCHANGED seen
       \/ \E f \in seen : seen' = seen \ {f} /\ To(IF readContinuityFSObjectProjection(f) THEN "projections" ELSE "not_certified")
    /\ Environment /\ UNCHANGED <<mapped, obs, todo, deps, resolved, checks>>
checkFrozenMappingProjection(f) == mapped[f].frozen /\ mapped[f].val = resolved[f]
revalidateContinuityMappingAuthority ==
    /\ Check("mappings", \A f \in SHA1Files : resolved[f] # None => checkFrozenMappingProjection(f) /\ checkMappedBlockRepresentation(resolved[f]), "witness")
    /\ Quiet /\ UNCHANGED checks

\* UPDATE libraries ... IF head_commit_id = ? AND deleted_at = null
Applies == StateHolds(obs)
CertifyWitness(w, s) == pc = "witness" /\ witness' = w /\ To(s) /\ UNCHANGED <<lib, head, row, mapped, ref, blocks, obs, walk, checks>>
CommitLibraryContinuityWitness == CertifyWitness(IF Applies THEN obs ELSE witness, IF Applies THEN "certified" ELSE "not_certified")
WitnessUnknown == \E w \in {witness, IF Applies THEN obs ELSE witness} : CertifyWitness(w, "settle")
ContinuityWitnessValid == lib = "live" /\ witness = head
settleLibraryContinuityWitness == Check("settle", ContinuityWitnessValid /\ head = obs, "certified") /\ Quiet /\ UNCHANGED checks
\* A read or write fails, or the context is cancelled.
DependencyReadFailed ==
    /\ pc \notin {"idle", "certified", "not_certified", "unknown"} /\ To("unknown")
    /\ Quiet /\ UNCHANGED checks
\* The next run starts afresh.
Again ==
    /\ pc \in {"certified", "not_certified", "unknown"} /\ To("idle") /\ obs' = None
    /\ todo' = <<>> /\ seen' = {} /\ deps' = {} /\ resolved' = [f \in SHA1Files |-> None]
    /\ pass' = 1 /\ left' = {} /\ cur' = None /\ loc' = [b \in Blocks |-> None]
    /\ Environment /\ UNCHANGED mapped
-----------------------------------------------------------------------------
Init ==
    /\ lib = "live" /\ head \in Commits /\ witness = None /\ row \in Rows /\ mapped \in Mappings /\ ref \in Refs
    /\ key \in [Blocks -> Keys \cup {None}] /\ claim = [b \in Blocks |-> "none"] /\ orphan = [b \in Blocks |-> None]
    /\ obj = {<<b, key[b]>> : b \in {x \in Blocks : key[x] # None}} /\ gpc = [b \in Blocks |-> "idle"]
    /\ pc = "idle" /\ obs = None /\ todo = <<>> /\ seen = {} /\ deps = {} /\ resolved = [f \in SHA1Files |-> None]
    /\ pass = 1 /\ left = {} /\ cur = None /\ loc = [b \in Blocks |-> None]
Collect(b) == ClaimBlock(b) \/ RecheckReferences(b) \/ PrepareOrphan(b) \/ CommitDelete(b) \/ RetireRow(b) \/ DeleteObject(b) \/ ClearOrphan(b)
Certify ==
    \/ \E c \in Commits : CertifyLibraryBaseline(c)
    \/ readContinuityCommitProjection \/ visit \/ visitFails \/ Walked \/ NextBlock \/ readContinuityPhysicalLocation \/ Pinned \/ AddBlockReference
    \/ readBlockRepairAuthority \/ blockRepairHasS3Orphan \/ ObjectExists \/ RecheckPermanent \/ ReadFinalState \/ sameContinuityProjection
    \/ revalidateContinuityMappingAuthority \/ CommitLibraryContinuityWitness \/ WitnessUnknown \/ settleLibraryContinuityWitness \/ DependencyReadFailed \/ Again
Next ==
    \/ Publish \/ SoftDelete \/ Restore \/ HardDelete \/ Certify
    \/ \E f \in Objects : CollectObject(f) \/ \E b \in Blocks : ExpireReference(f, b)
    \/ \E f \in SHA1Files, b \in Blocks : WriteMapping(f, b)
    \/ \E b \in Blocks : Collect(b) \/ Install(b)
Spec == Init /\ [][Next]_vars
-----------------------------------------------------------------------------
\* The block of an object is there for every reader and nothing will take it.
Safe(f, b) == b # None /\ key[b] # None /\ <<b, key[b]>> \in obj /\ ref[f][b] = "permanent" /\ claim[b] # "committed" /\ gpc[b] \in {"idle", "references", "clear"}

\* While the witness is valid, every object of HEAD is whole and claimed, and
\* every block a reader resolves from it is stored, permanently referenced
\* and out of reach of a delete, whatever the garbage collector had begun.
WitnessSafe == ContinuityWitnessValid => \A f \in Reach(head) \ {EmptyID} : row[f] = "good" /\ \A b \in BlocksOf(f) : Safe(f, b)

\* A block the first pass is through with, or one whose row and orphan were
\* read after the pin, cannot be deleted any more while HEAD stays: the second
\* pass finds nothing the first one missed.
CheckedSafe ==
    StateHolds(obs) =>
        /\ pc = "exists" => \A f \in ObjectsOf(cur) : Safe(f, cur)
        /\ pc \in {"projections", "mappings", "witness"} => \A d \in deps : Safe(d[1], d[2])

\* The witness is only ever set to the HEAD of the moment, and a certified
\* answer was true when it was given.
AnswerTrue ==
    /\ witness' # witness => witness' = head
    /\ pc' = "certified" /\ pc # "certified" => ContinuityWitnessValid'
=============================================================================
