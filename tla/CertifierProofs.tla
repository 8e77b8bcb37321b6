-------------------------- MODULE CertifierProofs --------------------------
(***************************************************************************)
(* What a witness promises (Certifier), for any number of commits, objects *)
(* and blocks.                                                             *)
(*                                                                         *)
(* While a commit is HEAD and its library is not gone, the garbage         *)
(* collector leaves its tree alone, and a commit that was HEAD and is not  *)
(* any more never is again.  So what the certifier has read of the tree of *)
(* the commit it observed stays true, or the last compare-and-set fails.   *)
(* Of a block, a permanent reference that is there before the row and the  *)
(* orphan are read is what the argument rests on: a delete that has not    *)
(* read the references yet finds it and turns back, and one that has would *)
(* show in the row or in the orphan.                                       *)
(***************************************************************************)
EXTENDS Certifier, FiniteSetTheorems, TLAPS

-----------------------------------------------------------------------------
(* HEAD and the tree of a commit *)

\* The commits that may be HEAD after c.
After(c) == CHOOSE S \in SUBSET Commits : c \notin S /\ \A d \in S \cup {c} : Child[d] \in S \cup {None}

\* c is HEAD, or was and never will be again.
Passed(c) == head \in After(c) \cup {c}

\* The garbage collector leaves the tree of c alone.
Kept(c) == head = c /\ lib # "gone"

-----------------------------------------------------------------------------
(* The inductive invariant *)

Active == {"commit", "walk", "blocks", "locate", "pin", "row", "orphan", "exists", "recheck", "state",
           "projections", "mappings", "witness", "settle"}
BlockSteps == {"locate", "pin", "row", "orphan", "exists", "recheck"}
Checking == BlockSteps \cup {"blocks", "state", "projections", "mappings", "witness"}

\* A certifier observes what was HEAD, and so does the witness.
PassedInv ==
    /\ pc \in Active => obs \in Commits /\ Passed(obs)
    /\ witness # None => Passed(witness)

\* The deletion of a block: its claim, the orphan and the key at each step.
BlockInv(b) ==
    /\ key[b] # None => <<b, key[b]>> \in obj
    /\ claim[b] = CASE gpc[b] \in {"references", "orphan", "commit"} -> "deleting" [] gpc[b] = "retire" -> "committed" [] OTHER -> "none"
    /\ gpc[b] \in {"references", "orphan", "commit", "retire"} => key[b] # None
    /\ (orphan[b] = None) <=> (gpc[b] \in {"idle", "references", "orphan"})
    /\ gpc[b] = "delete" => orphan[b] # key[b]
StoreInv == \A b \in Blocks : BlockInv(b)

\* What was resolved is frozen.
MappingInv == \A f \in SHA1Files : resolved[f] # None => mapped[f].frozen /\ mapped[f].val = resolved[f]

\* The walk knows the blocks of an object.
Known(f) ==
    IF f \in SHA1Files THEN resolved[f] # None /\ <<f, resolved[f]>> \in deps
    ELSE \A b \in Holds[f] : <<f, b>> \in deps

Firsts(s) == {f \in Objects : \E n \in 1 .. Len(s) : f = s[n][1]}
Stacked == Firsts(todo)

\* During the walk: it stays in the tree, and what it has not visited is below what is on the stack.
Walking ==
    /\ Stacked \subseteq Reach(obs) /\ seen \subseteq Reach(obs)
    /\ Root[obs] \in seen \cup Stacked \cup {EmptyID}
    /\ \A f \in seen : Kids[f] \subseteq seen \cup Stacked \cup {EmptyID}
    /\ \A f \in seen : Known(f) /\ (Kept(obs) => row[f] = "good")
WalkInv == pc = "walk" => Walking
\* Before it there is nothing.
StartInv == pc \in {"idle", "commit"} => seen = {} /\ deps = {}
DepsInv == pc \in {"commit", "walk"} \cup Checking => \A d \in deps : d[1] \in Reach(obs)

\* After it the whole tree is known.
TreeInv ==
    pc \in Checking => \A f \in Reach(obs) \ {EmptyID} : Known(f) /\ (Kept(obs) => row[f] = "good")

\* The block is referenced for good, and no deletion of it can begin.
Firm(f, b) == key[b] # None /\ ref[f][b] = "permanent" /\ gpc[b] \in {"idle", "references", "delete", "clear"}

\* The blocks the certifier is through with.
PassInv ==
    /\ pc = "state" => left = {}
    /\ pc \in {"projections", "mappings", "witness"} => pass = 2
    /\ pc \in BlockSteps => \E f \in Objects : <<f, cur>> \in deps
    /\ pc = "pin" => pass = 1
    /\ pc \in Checking => left \subseteq BlockIDs
PinInv ==
    pc \in Checking /\ Kept(obs) =>
        \A d \in deps : pass = 2 \/ (d[2] \notin left /\ (pc \in BlockSteps => d[2] # cur)) => Safe(d[1], d[2])

\* The block at hand.
AtHand ==
    /\ pc \in {"pin", "row"} => loc[cur] # None
    /\ pc \in {"row", "orphan", "exists", "recheck"} => \A f \in ObjectsOf(cur) : ref[f][cur] = "permanent"
    /\ pc = "orphan" => \A f \in ObjectsOf(cur) : Firm(f, cur)
    /\ pc \in {"exists", "recheck"} => \A f \in ObjectsOf(cur) : Safe(f, cur)
CurInv == Kept(obs) => AtHand

\* What the witness promises, as long as no other commit is HEAD.
WitnessInv ==
    witness # None /\ Kept(witness) =>
        \A f \in Reach(witness) \ {EmptyID} :
            /\ row[f] = "good" /\ (f \in SHA1Files => mapped[f].frozen)
            /\ \A b \in BlocksOf(f) : Safe(f, b)

CInv == /\ TypeOK /\ PassedInv /\ StoreInv /\ MappingInv /\ WalkInv /\ StartInv /\ DepsInv /\ TreeInv
        /\ PassInv /\ PinInv /\ CurInv /\ WitnessInv

-----------------------------------------------------------------------------
(* The operators *)

LEMMA AfterProperty ==
    ASSUME CertifierAssumption, NEW c \in Commits
    PROVE  c \notin After(c) /\ After(c) \subseteq Commits /\ \A d \in After(c) \cup {c} : Child[d] \in After(c) \cup {None}
<1> DEFINE P(S) == c \notin S /\ \A d \in S \cup {c} : Child[d] \in S \cup {None}
<1>1. \E S \in SUBSET Commits : P(S)
  BY DEF CertifierAssumption
<1>2. After(c) = CHOOSE S \in SUBSET Commits : P(S)
  BY DEF After
<1> HIDE DEF P
<1>3. After(c) \in SUBSET Commits /\ P(After(c))
  BY <1>1, <1>2
<1> QED
  BY <1>3 DEF P

LEMMA ReachProperty ==
    ASSUME CertifierAssumption, NEW c \in Commits
    PROVE  Root[c] \in Reach(c) /\ Reach(c) \subseteq Objects /\ \A f \in Reach(c) : Kids[f] \subseteq Reach(c)
<1>1. Root[c] \in Objects
  BY DEF CertifierAssumption
<1>2. ASSUME NEW f \in Reach(c), NEW g \in Kids[f] PROVE g \in Reach(c)
  <2>1. f \in Objects /\ g \in Objects
    BY <1>2 DEF CertifierAssumption, Reach
  <2>2. ASSUME NEW S \in SUBSET Objects, Root[c] \in S /\ Closed(S) PROVE g \in S
    BY <1>2, <2>2 DEF Reach, Closed
  <2> QED
    BY <2>1, <2>2 DEF Reach
<1> QED
  BY <1>1, <1>2 DEF Reach

LEMMA ReachLeast ==
    ASSUME NEW c \in Commits, NEW S \in SUBSET Objects, Root[c] \in S, Closed(S)
    PROVE  Reach(c) \subseteq S
BY DEF Reach

-----------------------------------------------------------------------------
(* What a step leaves alone *)

USE DEF library, blocks, walk, checks, Environment, Quiet, Check, To, Collector

\* Only a publication moves HEAD, and a library that is gone stays so.
LEMMA HeadStep ==
    ASSUME [Next]_vars
    PROVE  /\ head' = head \/ (lib # "gone" /\ Child[head] # None /\ head' = Child[head])
           /\ lib = "gone" => lib' = "gone" /\ head' = head
<1>1. CASE Publish \/ SoftDelete \/ Restore \/ HardDelete
  BY <1>1 DEF Publish, SoftDelete, Restore, HardDelete
<1>2. CASE Certify
  BY <1>2 DEF Certify, CertifyLibraryBaseline, readContinuityCommitProjection, visit, visitFails, Walked, NextBlock,
       readContinuityPhysicalLocation, Pinned, AddBlockReference, readBlockRepairAuthority, blockRepairHasS3Orphan,
       ObjectExists, RecheckPermanent, ReadFinalState, sameContinuityProjection, revalidateContinuityMappingAuthority,
       CommitLibraryContinuityWitness, WitnessUnknown, CertifyWitness, settleLibraryContinuityWitness,
       DependencyReadFailed, Again
<1>3. ASSUME NEW f \in Objects, CollectObject(f) \/ \E b \in Blocks : ExpireReference(f, b)
      PROVE  head' = head /\ lib' = lib
  BY <1>3 DEF CollectObject, ExpireReference
<1>4. ASSUME NEW f \in SHA1Files, NEW b \in Blocks, WriteMapping(f, b)
      PROVE  head' = head /\ lib' = lib
  BY <1>4 DEF WriteMapping
<1>5. ASSUME NEW b \in Blocks, Collect(b) \/ Install(b)
      PROVE  head' = head /\ lib' = lib
  BY <1>5 DEF Collect, ClaimBlock, RecheckReferences, PrepareOrphan, CommitDelete, RetireRow, DeleteObject, ClearOrphan, Install
<1>6. CASE UNCHANGED vars
  BY <1>6 DEF vars
<1> QED
  BY <1>1, <1>2, <1>3, <1>4, <1>5, <1>6 DEF Next

LEMMA PassedStays ==
    ASSUME CertifierAssumption, [Next]_vars, NEW c \in Commits, Passed(c)
    PROVE  Passed(c)' /\ (Kept(c)' => Kept(c))
BY HeadStep, AfterProperty DEF Passed, Kept

-----------------------------------------------------------------------------
(* Types *)

LEMMA TypeInit == CertifierAssumption /\ Init => TypeOK
BY DEF CertifierAssumption, Init, TypeOK, Steps

\* One step of the walk extends the stack by the entries of the object.
Lists(kids, f) ==
    /\ kids \in [1 .. Cardinality(Kids[f]) -> Kids[f]]
    /\ \A x \in Kids[f] : \E n \in DOMAIN kids : x = kids[n]
Pushed(kids, a, s) == [n \in DOMAIN kids |-> <<kids[n], a>>] \o Tail(s)
LEMMA Stack ==
    ASSUME CertifierAssumption, NEW f \in Objects, NEW a \in SUBSET Objects, NEW s \in Seq(Objects \X SUBSET Objects), s # <<>>,
           NEW kids, Lists(kids, f)
    PROVE  /\ Pushed(kids, a, s) \in Seq(Objects \X SUBSET Objects)
           /\ Firsts(Pushed(kids, a, s)) = Kids[f] \cup Firsts(Tail(s))
<1> USE DEF Lists
<1> DEFINE N == Cardinality(Kids[f])
           h == [n \in 1 .. N |-> <<kids[n], a>>]
           r == Tail(s)
           t == h \o r
<1>1. N \in Nat
  <2>1. Kids[f] \subseteq Objects /\ IsFiniteSet(Objects)
    BY DEF CertifierAssumption
  <2>2. IsFiniteSet(Kids[f])
    BY <2>1, FS_Subset
  <2> QED
    BY <2>2, FS_CardinalityType
<1>2. Kids[f] \subseteq Objects
  BY DEF CertifierAssumption
<1>3. h \in Seq(Objects \X SUBSET Objects) /\ Len(h) = N
  <2>1. \A n \in 1 .. N : <<kids[n], a>> \in Objects \X SUBSET Objects
    BY <1>2
  <2>2. h \in [1 .. N -> Objects \X SUBSET Objects]
    BY <2>1
  <2> QED
    BY <1>1, <2>2
<1>4. r \in Seq(Objects \X SUBSET Objects) /\ Len(r) \in Nat
  OBVIOUS
<1>5. \A n \in 1 .. N : h[n][1] = kids[n]
  OBVIOUS
<1> HIDE DEF h, r, N
<1>6. t \in Seq(Objects \X SUBSET Objects) /\ Len(t) = N + Len(r)
  <2> DEFINE X == Objects \X SUBSET Objects
  <2>1. h \in Seq(X) /\ r \in Seq(X)
    BY <1>3, <1>4
  <2> HIDE DEF X
  <2>2. h \o r \in Seq(X) /\ Len(h \o r) = Len(h) + Len(r)
    BY <2>1
  <2> QED
    BY <2>2, <1>3 DEF X
<1>7. ASSUME NEW n \in 1 .. Len(t) PROVE t[n] = IF n <= N THEN h[n] ELSE r[n - N]
  BY <1>1, <1>3, <1>4, <1>6
<1> HIDE DEF t
<1>8. ASSUME NEW n \in 1 .. Len(t) PROVE t[n][1] \in Kids[f] \cup Firsts(r)
  <2>1. CASE n <= N
    <3>1. n \in 1 .. N
      BY <1>1, <1>6, <2>1
    <3>2. kids[n] \in Kids[f]
      BY <3>1 DEF N
    <3> QED
      BY <3>1, <3>2, <2>1, <1>5, <1>7
  <2>2. CASE ~(n <= N)
    <3>1. n - N \in 1 .. Len(r)
      BY <1>1, <1>4, <1>6, <2>2
    <3>2. t[n][1] = r[n - N][1] /\ r[n - N][1] \in Objects
      BY <2>2, <3>1, <1>4, <1>7
    <3> QED
      BY <3>1, <3>2 DEF Firsts
  <2> QED
    BY <2>1, <2>2
<1>9. ASSUME NEW x \in Kids[f] PROVE \E n \in 1 .. Len(t) : x = t[n][1]
  <2>1. PICK n \in 1 .. N : x = kids[n]
    BY DEF N
  <2>2. n \in 1 .. Len(t) /\ n <= N
    BY <1>1, <1>4, <1>6
  <2>3. t[n][1] = x
    BY <2>1, <2>2, <1>5, <1>7
  <2> QED
    BY <2>2, <2>3
<1>10. ASSUME NEW n \in 1 .. Len(r) PROVE \E k \in 1 .. Len(t) : r[n][1] = t[k][1]
  <2>1. N + n \in 1 .. Len(t) /\ ~(N + n <= N) /\ (N + n) - N = n
    BY <1>1, <1>4, <1>6
  <2>2. t[N + n] = r[n]
    BY <2>1, <1>7
  <2> QED
    BY <2>1, <2>2
<1>11. Pushed(kids, a, s) = t
  BY DEF t, h, r, N, Pushed
<1>12. Firsts(t) \subseteq Kids[f] \cup Firsts(r)
  BY <1>8 DEF Firsts
<1>13. Kids[f] \subseteq Firsts(t)
  BY <1>2, <1>9 DEF Firsts
<1>14. Firsts(r) \subseteq Firsts(t)
  BY <1>10 DEF Firsts
<1> QED
  BY <1>6, <1>11, <1>12, <1>13, <1>14 DEF r

\* The steps of the other actors.
LEMMA TypeOthers ==
    ASSUME CertifierAssumption, TypeOK,
           \/ Publish \/ SoftDelete \/ Restore \/ HardDelete
           \/ \E f \in Objects : CollectObject(f) \/ \E b \in Blocks : ExpireReference(f, b)
           \/ \E f \in SHA1Files, b \in Blocks : WriteMapping(f, b)
           \/ \E b \in Blocks : Collect(b) \/ Install(b)
    PROVE  TypeOK'
<1> USE DEF TypeOK
<1>1. CASE Publish \/ SoftDelete \/ Restore \/ HardDelete
  BY <1>1 DEF Publish, SoftDelete, Restore, HardDelete, CertifierAssumption
<1>2. ASSUME NEW f \in Objects, CollectObject(f) \/ \E b \in Blocks : ExpireReference(f, b)
      PROVE  TypeOK'
  <2>1. CASE CollectObject(f)
    BY <2>1 DEF CollectObject
  <2>2. ASSUME NEW b \in Blocks, ExpireReference(f, b) PROVE TypeOK'
    <3>1. ref' \in [Objects -> [Blocks -> {"none", "ttl", "permanent"}]]
      BY <2>2 DEF ExpireReference
    <3> QED
      BY <2>2, <3>1 DEF ExpireReference
  <2> QED
    BY <1>2, <2>1, <2>2
<1>3. ASSUME NEW f \in SHA1Files, NEW b \in Blocks, WriteMapping(f, b)
      PROVE  TypeOK'
  BY <1>3 DEF WriteMapping
<1>4. ASSUME NEW b \in Blocks, Collect(b) \/ Install(b)
      PROVE  TypeOK'
  <2>1. CASE ClaimBlock(b) \/ RecheckReferences(b) \/ PrepareOrphan(b) \/ CommitDelete(b)
    BY <2>1, ZenonT(40) DEF ClaimBlock, RecheckReferences, PrepareOrphan, CommitDelete
  <2>2. CASE RetireRow(b) \/ DeleteObject(b) \/ ClearOrphan(b)
    BY <2>2 DEF RetireRow, DeleteObject, ClearOrphan
  <2>3. CASE Install(b)
    BY <2>3 DEF Install, CertifierAssumption
  <2> QED
    BY <1>4, <2>1, <2>2, <2>3 DEF Collect
<1> QED
  BY <1>1, <1>2, <1>3, <1>4

\* The steps of the certifier.
LEMMA TypeCertify ==
    ASSUME CertifierAssumption, TypeOK, pc = "commit" => obs \in Commits, Certify
    PROVE  TypeOK'
<1> USE DEF Steps
<1>1. CASE \E c \in Commits : CertifyLibraryBaseline(c)
  BY <1>1 DEF CertifyLibraryBaseline, TypeOK
<1>2. CASE readContinuityCommitProjection
  <2>1. obs \in Commits /\ Root \in [Commits -> Objects]
    BY <1>2 DEF CertifierAssumption, readContinuityCommitProjection
  <2> QED
    BY <1>2, <2>1 DEF readContinuityCommitProjection, TypeOK
<1>3. CASE visit
  <2> DEFINE f == Head(todo)[1]
             active == Head(todo)[2]
  <2>1. f \in Objects /\ active \in SUBSET Objects
    BY <1>3 DEF visit, TypeOK
  <2>2. CASE todo' = Tail(todo) /\ UNCHANGED <<seen, deps, resolved, mapped>>
    BY <1>3, <2>2 DEF visit, TypeOK
  <2>3. CASE /\ f \notin seen \cup {EmptyID} /\ seen' = seen \cup {f}
             /\ \E kids \in [1 .. Cardinality(Kids[f]) -> Kids[f]] :
                    /\ {kids[n] : n \in DOMAIN kids} = Kids[f]
                    /\ todo' = [n \in DOMAIN kids |-> <<kids[n], active \cup {f}>>] \o Tail(todo)
             /\ resolveBlockIDs(f)
    <3>1. todo' \in Seq(Objects \X SUBSET Objects)
      <4>1. active \cup {f} \in SUBSET Objects /\ todo # <<>> /\ todo \in Seq(Objects \X SUBSET Objects)
        BY <1>3, <2>1 DEF visit, TypeOK
      <4> HIDE DEF f, active
      <4>2. PICK kids \in [1 .. Cardinality(Kids[f]) -> Kids[f]] :
                    /\ {kids[n] : n \in DOMAIN kids} = Kids[f]
                    /\ todo' = [n \in DOMAIN kids |-> <<kids[n], active \cup {f}>>] \o Tail(todo)
        BY <2>3
      <4> DEFINE a == active \cup {f}
      <4>3. todo' = Pushed(kids, a, todo) /\ a \in SUBSET Objects
        BY <4>1, <4>2 DEF Pushed
      <4>4. Lists(kids, f)
        BY <4>2 DEF Lists
      <4> HIDE DEF a
      <4> QED
        BY <4>1, <4>3, <4>4, <2>1, Stack
    <3> HIDE DEF f, active
    <3>2. seen' \in SUBSET Objects
      BY <2>1, <2>3 DEF TypeOK
    <3>3. /\ deps' \in SUBSET (Objects \X Blocks) /\ resolved' \in [SHA1Files -> Blocks \cup {None}]
          /\ mapped' \in [SHA1Files -> [val : Blocks \cup {None}, frozen : BOOLEAN]]
      <4>1. CASE f \in SHA1Files
        <5>1. mapped[f] \in [val : Blocks \cup {None}, frozen : BOOLEAN] /\ mapped[f].val # None
          BY <2>3, <4>1 DEF TypeOK, resolveBlockIDs, resolveSHA1MappingAuthority
        <5>2. mapped[f].val \in Blocks
          BY <5>1
        <5>3. mapped' = [mapped EXCEPT ![f].frozen = TRUE] /\ deps' = deps \cup {<<f, mapped[f].val>>}
              /\ resolved' = [resolved EXCEPT ![f] = mapped[f].val]
          BY <2>3, <4>1 DEF resolveBlockIDs, resolveSHA1MappingAuthority
        <5>4. deps' \in SUBSET (Objects \X Blocks)
          BY <2>1, <5>2, <5>3 DEF TypeOK
        <5>5. resolved' \in [SHA1Files -> Blocks \cup {None}]
          BY <5>2, <5>3 DEF TypeOK
        <5>6. mapped' \in [SHA1Files -> [val : Blocks \cup {None}, frozen : BOOLEAN]]
          <6>1. [mapped[f] EXCEPT !.frozen = TRUE] \in [val : Blocks \cup {None}, frozen : BOOLEAN]
            BY <5>1
          <6>2. mapped' = [mapped EXCEPT ![f] = [mapped[f] EXCEPT !.frozen = TRUE]]
            BY <5>3
          <6> QED
            BY <4>1, <6>1, <6>2 DEF TypeOK
        <5> QED
          BY <5>4, <5>5, <5>6
      <4>2. CASE f \notin SHA1Files
        <5>1. Holds[f] \subseteq Blocks
          BY <2>1 DEF CertifierAssumption
        <5> QED
          BY <2>1, <2>3, <4>2, <5>1 DEF TypeOK, resolveBlockIDs
      <4> QED
        BY <4>1, <4>2
    <3> QED
      BY <1>3, <3>1, <3>2, <3>3 DEF visit, TypeOK
  <2> QED
    BY <1>3, <2>2, <2>3 DEF visit
<1>4. CASE visitFails \/ Walked \/ NextBlock
  BY <1>4 DEF visitFails, Walked, NextBlock, BlockIDs, TypeOK
<1>5. CASE readContinuityPhysicalLocation
  BY <1>5 DEF readContinuityPhysicalLocation, TypeOK
<1>6. CASE AddBlockReference
  BY <1>6 DEF AddBlockReference, ObjectsOf, TypeOK
<1>7. CASE Pinned \/ readBlockRepairAuthority \/ blockRepairHasS3Orphan \/ ObjectExists \/ RecheckPermanent
  BY <1>7 DEF Pinned, readBlockRepairAuthority, blockRepairHasS3Orphan, ObjectExists, RecheckPermanent, TypeOK
<1>8. CASE ReadFinalState \/ sameContinuityProjection \/ revalidateContinuityMappingAuthority
  BY <1>8 DEF ReadFinalState, BlockIDs, sameContinuityProjection, revalidateContinuityMappingAuthority, TypeOK
<1>9. CASE CommitLibraryContinuityWitness \/ WitnessUnknown
  BY <1>9 DEF CommitLibraryContinuityWitness, WitnessUnknown, CertifyWitness, TypeOK
<1>10. CASE settleLibraryContinuityWitness \/ DependencyReadFailed
  BY <1>10 DEF settleLibraryContinuityWitness, DependencyReadFailed, TypeOK
<1>11. CASE Again
  BY <1>11 DEF Again, TypeOK
<1> QED
  BY <1>1, <1>2, <1>3, <1>4, <1>5, <1>6, <1>7, <1>8, <1>9, <1>10, <1>11 DEF Certify

-----------------------------------------------------------------------------
(* What a step cannot undo *)

\* The certifier writes references and the witness only, and freezes mappings.
LEMMA CertifyFrame ==
    ASSUME Certify
    PROVE  /\ UNCHANGED <<lib, head, row, key, claim, orphan, obj, gpc>>
           /\ ref' = ref \/ AddBlockReference
           /\ mapped' = mapped \/ \E f \in SHA1Files : mapped' = [mapped EXCEPT ![f].frozen = TRUE]
<1>1. CASE visit
  BY <1>1 DEF visit, resolveBlockIDs, resolveSHA1MappingAuthority
<1>2. CASE AddBlockReference
  BY <1>2 DEF AddBlockReference
<1>3. CASE ~visit /\ ~AddBlockReference
  BY <1>3 DEF Certify, CertifyLibraryBaseline, readContinuityCommitProjection, visitFails, Walked, NextBlock,
       readContinuityPhysicalLocation, Pinned, readBlockRepairAuthority, blockRepairHasS3Orphan,
       ObjectExists, RecheckPermanent, ReadFinalState, sameContinuityProjection, revalidateContinuityMappingAuthority,
       CommitLibraryContinuityWitness, WitnessUnknown, CertifyWitness, settleLibraryContinuityWitness,
       DependencyReadFailed, Again
<1> QED
  BY <1>1, <1>2, <1>3

\* An object of a tree that is kept stays whole, and so does a permanent reference of it.
LEMMA ObjectStays ==
    ASSUME TypeOK, [Next]_vars, NEW c, Kept(c), NEW f \in Reach(c)
    PROVE  /\ row[f] = "good" => row'[f] = "good"
           /\ \A b \in Blocks : ref[f][b] = "permanent" => ref'[f][b] = "permanent"
<1>1. f \in Objects
  BY DEF Reach
<1>2. CASE Publish \/ SoftDelete \/ Restore \/ HardDelete
  BY <1>2 DEF Publish, SoftDelete, Restore, HardDelete
<1>3. CASE Certify
  <2>1. row' = row
    BY <1>3, CertifyFrame
  <2>2. CASE ref' = ref
    BY <2>1, <2>2
  <2>3. CASE AddBlockReference
    BY <1>1, <2>1, <2>3 DEF AddBlockReference, TypeOK
  <2> QED
    BY <1>3, <2>2, <2>3, CertifyFrame
<1>4. ASSUME NEW g \in Objects, CollectObject(g) PROVE row'[f] = row[f] /\ ref'[f] = ref[f]
  BY <1>1, <1>4 DEF CollectObject, Kept, TypeOK
<1>5. ASSUME NEW g \in Objects, NEW b \in Blocks, ExpireReference(g, b)
      PROVE  row' = row /\ \A a \in Blocks : ref[f][a] = "permanent" => ref'[f][a] = "permanent"
  BY <1>1, <1>5 DEF ExpireReference, TypeOK
<1>6. ASSUME NEW g \in SHA1Files, NEW b \in Blocks, WriteMapping(g, b)
      PROVE  UNCHANGED <<row, ref>>
  BY <1>6 DEF WriteMapping
<1>7. ASSUME NEW b \in Blocks, Collect(b) \/ Install(b)
      PROVE  UNCHANGED <<row, ref>>
  BY <1>7 DEF Collect, ClaimBlock, RecheckReferences, PrepareOrphan, CommitDelete, RetireRow, DeleteObject, ClearOrphan, Install
<1>8. CASE UNCHANGED vars
  BY <1>8 DEF vars
<1> QED
  BY <1>2, <1>3, <1>4, <1>5, <1>6, <1>7, <1>8 DEF Next

\* A frozen mapping stays as it is.
LEMMA FrozenStays ==
    ASSUME TypeOK, [Next]_vars, NEW f \in SHA1Files, mapped[f].frozen
    PROVE  mapped'[f].frozen /\ mapped'[f].val = mapped[f].val
<1>1. mapped[f] \in [val : Blocks \cup {None}, frozen : BOOLEAN]
  BY DEF TypeOK
<1>2. CASE Publish \/ SoftDelete \/ Restore \/ HardDelete
  BY <1>2 DEF Publish, SoftDelete, Restore, HardDelete
<1>3. CASE Certify
  <2>1. CASE mapped' = mapped
    BY <2>1
  <2>2. ASSUME NEW g \in SHA1Files, mapped' = [mapped EXCEPT ![g].frozen = TRUE]
        PROVE  mapped'[f].frozen /\ mapped'[f].val = mapped[f].val
    BY <2>2 DEF TypeOK
  <2> QED
    BY <1>3, <2>1, <2>2, CertifyFrame
<1>4. ASSUME NEW g \in Objects, CollectObject(g) \/ \E b \in Blocks : ExpireReference(g, b)
      PROVE  mapped' = mapped
  BY <1>4 DEF CollectObject, ExpireReference
<1>5. ASSUME NEW g \in SHA1Files, NEW b \in Blocks, WriteMapping(g, b)
      PROVE  mapped'[f].frozen /\ mapped'[f].val = mapped[f].val
  <2>1. mapped' = [mapped EXCEPT ![g].val = IF mapped[g].frozen THEN mapped[g].val ELSE b]
    BY <1>5 DEF WriteMapping
  <2>2. CASE g = f
    BY <1>1, <2>1, <2>2 DEF TypeOK
  <2>3. CASE g # f
    BY <2>1, <2>3 DEF TypeOK
  <2> QED
    BY <2>2, <2>3
<1>6. ASSUME NEW b \in Blocks, Collect(b) \/ Install(b)
      PROVE  mapped' = mapped
  BY <1>6 DEF Collect, ClaimBlock, RecheckReferences, PrepareOrphan, CommitDelete, RetireRow, DeleteObject, ClearOrphan, Install
<1>7. CASE UNCHANGED vars
  BY <1>7 DEF vars
<1> QED
  BY <1>2, <1>3, <1>4, <1>5, <1>6, <1>7 DEF Next

\* A step concerns the deletion of one block, or of none.
LEMMA BlockFrame ==
    ASSUME [Next]_vars
    PROVE  \/ UNCHANGED <<key, claim, orphan, obj, gpc>>
           \/ \E b \in Blocks : Collect(b) \/ Install(b)
<1>1. CASE Publish \/ SoftDelete \/ Restore \/ HardDelete
  BY <1>1 DEF Publish, SoftDelete, Restore, HardDelete
<1>2. CASE Certify
  BY <1>2, CertifyFrame
<1>3. ASSUME NEW g \in Objects, CollectObject(g) \/ \E b \in Blocks : ExpireReference(g, b)
      PROVE  UNCHANGED <<key, claim, orphan, obj, gpc>>
  BY <1>3 DEF CollectObject, ExpireReference
<1>4. ASSUME NEW g \in SHA1Files, NEW b \in Blocks, WriteMapping(g, b)
      PROVE  UNCHANGED <<key, claim, orphan, obj, gpc>>
  BY <1>4 DEF WriteMapping
<1>5. CASE UNCHANGED vars
  BY <1>5 DEF vars
<1> QED
  BY <1>1, <1>2, <1>3, <1>4, <1>5 DEF Next

LEMMA StoreStays ==
    ASSUME CertifierAssumption, TypeOK, StoreInv, [Next]_vars
    PROVE  StoreInv'
<1>1. CASE UNCHANGED <<key, claim, orphan, obj, gpc>>
  BY <1>1 DEF StoreInv, BlockInv
<1>2. ASSUME NEW b \in Blocks, Collect(b) \/ Install(b), NEW a \in Blocks
      PROVE  BlockInv(a)'
  <2> USE DEF TypeOK, CertifierAssumption
  <2>1. BlockInv(a) /\ BlockInv(b)
    BY DEF StoreInv
  <2>2. CASE ClaimBlock(b)
    BY <2>1, <2>2 DEF BlockInv, ClaimBlock
  <2>3. CASE RecheckReferences(b)
    BY <2>1, <2>3 DEF BlockInv, RecheckReferences
  <2>4. CASE PrepareOrphan(b)
    BY <2>1, <2>4 DEF BlockInv, PrepareOrphan
  <2>5. CASE CommitDelete(b)
    BY <2>1, <2>5 DEF BlockInv, CommitDelete
  <2>6. CASE RetireRow(b)
    BY <2>1, <2>6 DEF BlockInv, RetireRow
  <2>7. CASE DeleteObject(b)
    BY <2>1, <2>7 DEF BlockInv, DeleteObject
  <2>8. CASE ClearOrphan(b)
    BY <2>1, <2>8 DEF BlockInv, ClearOrphan
  <2>9. CASE Install(b)
    <3>1. PICK k \in Minted : k # orphan[b] /\ key' = [key EXCEPT ![b] = k] /\ obj' = obj \cup {<<b, k>>}
      BY <2>9 DEF Install
    <3>2. key[b] = None /\ k # None /\ UNCHANGED <<claim, orphan, gpc>>
      BY <2>9 DEF Install
    <3>3. CASE a = b
      BY <2>1, <3>1, <3>2, <3>3 DEF BlockInv
    <3>4. CASE a # b
      BY <2>1, <3>1, <3>2, <3>4 DEF BlockInv
    <3> QED
      BY <3>3, <3>4
  <2> QED
    BY <1>2, <2>2, <2>3, <2>4, <2>5, <2>6, <2>7, <2>8, <2>9 DEF Collect
<1> QED
  BY <1>1, <1>2, BlockFrame DEF StoreInv

\* No deletion of a block begins while an object of a tree that is kept has a permanent reference to
\* it, and one that is at its end is of another key.
LEMMA FirmStays ==
    ASSUME CertifierAssumption, TypeOK, StoreInv, [Next]_vars, NEW c, Kept(c), NEW f \in Reach(c), NEW b \in Blocks, Firm(f, b)
    PROVE  Firm(f, b)' /\ (gpc[b] # "delete" => gpc'[b] # "delete")
<1>1. f \in Objects
  BY DEF Reach
<1>2. ref'[f][b] = "permanent"
  BY ObjectStays DEF Firm
<1>3. CASE UNCHANGED <<key, claim, orphan, obj, gpc>>
  BY <1>2, <1>3 DEF Firm
<1>4. ASSUME NEW a \in Blocks, Collect(a) \/ Install(a)
      PROVE  /\ key'[b] # None /\ gpc'[b] \in {"idle", "references", "delete", "clear"}
             /\ gpc[b] # "delete" => gpc'[b] # "delete"
  <2> USE DEF TypeOK
  <2>1. key[b] # None /\ ref[f][b] = "permanent" /\ gpc[b] \in {"idle", "references", "delete", "clear"}
    BY DEF Firm
  <2>2. CASE ClaimBlock(a)
    BY <2>1, <2>2 DEF ClaimBlock
  <2>3. CASE RecheckReferences(a)
    <3>1. CASE a = b
      BY <1>1, <2>1, <2>3, <3>1 DEF RecheckReferences
    <3>2. CASE a # b
      BY <2>1, <2>3, <3>2 DEF RecheckReferences
    <3> QED
      BY <3>1, <3>2
  <2>4. CASE PrepareOrphan(a)
    BY <2>1, <2>4 DEF PrepareOrphan
  <2>5. CASE CommitDelete(a)
    BY <2>1, <2>5 DEF CommitDelete
  <2>6. CASE RetireRow(a)
    BY <2>1, <2>6 DEF RetireRow
  <2>7. CASE DeleteObject(a)
    BY <2>1, <2>7 DEF DeleteObject
  <2>8. CASE ClearOrphan(a)
    BY <2>1, <2>8 DEF ClearOrphan
  <2>9. CASE Install(a)
    <3>1. a # b
      BY <2>1, <2>9 DEF Install
    <3> QED
      BY <2>1, <2>9, <3>1 DEF Install
  <2> QED
    BY <1>4, <2>2, <2>3, <2>4, <2>5, <2>6, <2>7, <2>8, <2>9 DEF Collect
<1>5. CASE \E a \in Blocks : Collect(a) \/ Install(a)
  BY <1>2, <1>4, <1>5 DEF Firm
<1> QED
  BY <1>3, <1>5, BlockFrame

\* What the store shows of a block no deletion can begin of.
LEMMA SafeIsFirm ==
    ASSUME StoreInv, NEW f, NEW b \in Blocks
    PROVE  Safe(f, b) <=> b # None /\ Firm(f, b) /\ gpc[b] # "delete"
<1>1. BlockInv(b)
  BY DEF StoreInv
<1> QED
  BY <1>1 DEF BlockInv, Safe, Firm

LEMMA SafeStays ==
    ASSUME CertifierAssumption, TypeOK, StoreInv, [Next]_vars, NEW c, Kept(c), NEW f \in Reach(c), NEW b \in Blocks, Safe(f, b)
    PROVE  Safe(f, b)'
<1>1. b # None /\ Firm(f, b) /\ gpc[b] # "delete"
  BY SafeIsFirm
<1>2. Firm(f, b)' /\ gpc'[b] # "delete"
  BY <1>1, FirmStays
<1>3. BlockInv(b)'
  BY StoreStays DEF StoreInv
<1> QED
  BY <1>1, <1>2, <1>3 DEF BlockInv, Safe, Firm

-----------------------------------------------------------------------------
(* The steps of the other actors *)

LEMMA OthersFrame ==
    ASSUME [Next]_vars, ~Certify
    PROVE  UNCHANGED <<witness, pc, obs, walk, checks>>
<1>1. CASE Publish \/ SoftDelete \/ Restore \/ HardDelete
  BY <1>1 DEF Publish, SoftDelete, Restore, HardDelete
<1>2. ASSUME NEW f \in Objects, CollectObject(f) \/ \E b \in Blocks : ExpireReference(f, b)
      PROVE  UNCHANGED <<witness, pc, obs, walk, checks>>
  BY <1>2 DEF CollectObject, ExpireReference
<1>3. ASSUME NEW f \in SHA1Files, NEW b \in Blocks, WriteMapping(f, b)
      PROVE  UNCHANGED <<witness, pc, obs, walk, checks>>
  BY <1>3 DEF WriteMapping
<1>4. ASSUME NEW b \in Blocks, Collect(b) \/ Install(b)
      PROVE  UNCHANGED <<witness, pc, obs, walk, checks>>
  BY <1>4 DEF Collect, ClaimBlock, RecheckReferences, PrepareOrphan, CommitDelete, RetireRow, DeleteObject, ClearOrphan, Install
<1>5. CASE UNCHANGED vars
  BY <1>5 DEF vars
<1> QED
  BY <1>1, <1>2, <1>3, <1>4, <1>5 DEF Next

\* What is kept of the commit c after a step was kept before, and what was true of its tree still is.
LEMMA TreeStays ==
    ASSUME CertifierAssumption, TypeOK, StoreInv, [Next]_vars, NEW c \in Commits, Passed(c), Kept(c)'
    PROVE  /\ Kept(c)
           /\ \A f \in Reach(c) : row[f] = "good" => row'[f] = "good"
           /\ \A f \in Reach(c), b \in Blocks :
                 /\ ref[f][b] = "permanent" => ref'[f][b] = "permanent"
                 /\ Firm(f, b) => Firm(f, b)'
                 /\ Safe(f, b) => Safe(f, b)'
<1>1. Kept(c)
  BY PassedStays
<1>2. \A f \in Reach(c) : row[f] = "good" => row'[f] = "good"
  BY <1>1, ObjectStays
<1>3. \A f \in Reach(c), b \in Blocks : ref[f][b] = "permanent" => ref'[f][b] = "permanent"
  BY <1>1, ObjectStays
<1>4. \A f \in Reach(c), b \in Blocks : Firm(f, b) => Firm(f, b)'
  BY <1>1, FirmStays
<1>5. \A f \in Reach(c), b \in Blocks : Safe(f, b) => Safe(f, b)'
  BY <1>1, SafeStays
<1> HIDE DEF Firm, Safe
<1> QED
  BY <1>1, <1>2, <1>3, <1>4, <1>5

LEMMA OthersKeep ==
    ASSUME CertifierAssumption, CInv, [Next]_vars, ~Certify
    PROVE  /\ PassedInv' /\ MappingInv' /\ WalkInv' /\ StartInv' /\ DepsInv' /\ TreeInv'
           /\ PassInv' /\ PinInv' /\ CurInv'
<1>1. UNCHANGED <<witness, pc, obs, todo, seen, deps, resolved, pass, left, cur, loc>>
  BY OthersFrame
<1>2. TypeOK /\ StoreInv /\ PassedInv
  BY DEF CInv
<1>3. pc \in Active => obs \in Commits /\ Passed(obs)
  BY <1>2 DEF PassedInv
<1>4. ASSUME pc \in Active, Kept(obs)'
      PROVE  /\ Kept(obs)
             /\ \A f \in Reach(obs) : row[f] = "good" => row'[f] = "good"
             /\ \A f \in Reach(obs), b \in Blocks :
                   /\ ref[f][b] = "permanent" => ref'[f][b] = "permanent"
                   /\ Firm(f, b) => Firm(f, b)'
                   /\ Safe(f, b) => Safe(f, b)'
  <2>1. obs \in Commits /\ Passed(obs)
    BY <1>3, <1>4
  <2>2. obs' = obs
    BY <1>1
  <2>3. (head' = obs) /\ (lib' # "gone")
    BY <1>4, <2>2 DEF Kept
  <2> DEFINE c == obs
  <2> HIDE DEF c
  <2> QED
    BY <1>2, <2>1, <2>3, TreeStays DEF Kept
<1> USE DEF Active, Checking, BlockSteps
<1>5. PassedInv'
  <2>1. pc \in Active => obs' \in Commits /\ Passed(obs)'
    BY <1>1, <1>3, PassedStays DEF Passed
  <2>2. witness # None => witness \in Commits /\ Passed(witness)
    BY <1>2 DEF TypeOK, PassedInv
  <2>3. witness # None => Passed(witness)'
    BY <1>1, <2>2, PassedStays DEF Passed
  <2> QED
    BY <1>1, <2>1, <2>3 DEF PassedInv
<1>6. MappingInv'
  BY <1>1, <1>2, FrozenStays DEF CInv, MappingInv
<1>7. \A f : Known(f)' <=> Known(f)
  BY <1>1 DEF Known
<1>8. WalkInv'
  <2> SUFFICES ASSUME pc = "walk" PROVE Walking'
    BY <1>1 DEF WalkInv
  <2>1. Walking
    BY DEF CInv, WalkInv
  <2>2. Stacked' = Stacked /\ Reach(obs)' = Reach(obs)
    BY <1>1 DEF Stacked, Firsts, Reach, Closed
  <2> QED
    BY <1>1, <1>4, <1>7, <2>1, <2>2 DEF Walking
<1>9. StartInv' /\ PassInv'
  BY <1>1 DEF CInv, StartInv, PassInv, BlockIDs
<1>10. Reach(obs)' = Reach(obs)
  BY <1>1 DEF Reach, Closed
<1>11. DepsInv'
  BY <1>1, <1>10 DEF CInv, DepsInv
<1>12. TreeInv'
  BY <1>1, <1>4, <1>7, <1>10 DEF CInv, TreeInv
<1>13. \A d \in deps : d[2] \in Blocks /\ d[1] \in Objects
  BY <1>2 DEF TypeOK
<1>14. PinInv'
  <2> SUFFICES ASSUME pc \in Checking, Kept(obs)', NEW d \in deps,
                      pass = 2 \/ (d[2] \notin left /\ (pc \in BlockSteps => d[2] # cur))
               PROVE  Safe(d[1], d[2])'
    BY <1>1 DEF PinInv
  <2>1. d[1] \in Reach(obs) /\ d[2] \in Blocks /\ pc \in Active
    BY <1>13 DEF CInv, DepsInv
  <2>2. Kept(obs)
    BY <2>1, <1>4
  <2>3. Safe(d[1], d[2])
    BY <2>2 DEF CInv, PinInv
  <2> QED
    BY <2>1, <2>3, <1>1, <1>4 DEF Safe
<1>15. CurInv'
  <2> SUFFICES ASSUME Kept(obs)', pc \in BlockSteps
               PROVE  AtHand'
    BY <1>1 DEF CurInv, AtHand
  <2>1. pc \in Active /\ Kept(obs)
    BY <1>4
  <2>2. \A f \in ObjectsOf(cur) : f \in Reach(obs) /\ cur \in Blocks
    BY <1>13 DEF CInv, DepsInv, ObjectsOf
  <2>3. ObjectsOf(cur)' = ObjectsOf(cur)
    BY <1>1 DEF ObjectsOf
  <2>4. AtHand
    BY <2>1 DEF CInv, CurInv
  <2> QED
    BY <2>1, <2>2, <2>3, <2>4, <1>1, <1>4 DEF Safe, Firm, AtHand
<1> QED
  BY <1>5, <1>6, <1>8, <1>9, <1>11, <1>12, <1>14, <1>15

-----------------------------------------------------------------------------
(* The steps of the certifier *)

USE DEF Active, Checking, BlockSteps

\* How the certifier moves on: from the walk to the checks, and through the checks.
LEMMA CheckingStep ==
    ASSUME Certify, pc' \in Checking
    PROVE  Walked \/ (pc \in Checking /\ UNCHANGED <<obs, deps, resolved>>)
<1>1. CASE \/ \E c \in Commits : CertifyLibraryBaseline(c)
           \/ readContinuityCommitProjection \/ visit \/ visitFails
  BY <1>1 DEF CertifyLibraryBaseline, readContinuityCommitProjection, visit, visitFails
<1>2. CASE NextBlock \/ readContinuityPhysicalLocation \/ Pinned \/ AddBlockReference
  BY <1>2 DEF NextBlock, readContinuityPhysicalLocation, Pinned, AddBlockReference
<1>3. CASE readBlockRepairAuthority \/ blockRepairHasS3Orphan \/ ObjectExists \/ RecheckPermanent
  BY <1>3 DEF readBlockRepairAuthority, blockRepairHasS3Orphan, ObjectExists, RecheckPermanent
<1>4. CASE ReadFinalState \/ sameContinuityProjection \/ revalidateContinuityMappingAuthority
  BY <1>4 DEF ReadFinalState, sameContinuityProjection, revalidateContinuityMappingAuthority
<1>5. CASE CommitLibraryContinuityWitness \/ WitnessUnknown \/ settleLibraryContinuityWitness \/ DependencyReadFailed \/ Again
  BY <1>5 DEF CommitLibraryContinuityWitness, WitnessUnknown, CertifyWitness, settleLibraryContinuityWitness, DependencyReadFailed, Again
<1> QED
  BY <1>1, <1>2, <1>3, <1>4, <1>5 DEF Certify

\* What an active certifier observed it observes until it ends.
LEMMA ObservedStep ==
    ASSUME Certify, pc' \in Active
    PROVE  \/ pc \in Active /\ obs' = obs
           \/ pc = "idle" /\ \E c \in Commits : obs' = c /\ StateHolds(c)
<1>1. CASE \E c \in Commits : CertifyLibraryBaseline(c)
  BY <1>1 DEF CertifyLibraryBaseline
<1>2. CASE readContinuityCommitProjection \/ visit \/ visitFails \/ Walked
  BY <1>2 DEF readContinuityCommitProjection, visit, visitFails, Walked
<1>3. CASE ReadFinalState \/ sameContinuityProjection \/ revalidateContinuityMappingAuthority
  BY <1>3 DEF ReadFinalState, sameContinuityProjection, revalidateContinuityMappingAuthority
<1>4. CASE CommitLibraryContinuityWitness \/ WitnessUnknown \/ settleLibraryContinuityWitness \/ DependencyReadFailed \/ Again
  BY <1>4 DEF CommitLibraryContinuityWitness, WitnessUnknown, CertifyWitness, settleLibraryContinuityWitness, DependencyReadFailed, Again
<1>5. CASE NextBlock \/ readContinuityPhysicalLocation \/ Pinned \/ AddBlockReference
  BY <1>5 DEF NextBlock, readContinuityPhysicalLocation, Pinned, AddBlockReference
<1>6. CASE readBlockRepairAuthority \/ blockRepairHasS3Orphan \/ ObjectExists \/ RecheckPermanent
  BY <1>6 DEF readBlockRepairAuthority, blockRepairHasS3Orphan, ObjectExists, RecheckPermanent
<1> QED
  BY <1>1, <1>2, <1>3, <1>4, <1>5, <1>6 DEF Certify

\* The witness is written to the HEAD of the moment.
LEMMA WitnessStep ==
    ASSUME Certify
    PROVE  witness' = witness \/ (pc = "witness" /\ witness' = obs /\ StateHolds(obs) /\ UNCHANGED <<row, ref, mapped>>)
<1>1. CASE CommitLibraryContinuityWitness \/ WitnessUnknown
  BY <1>1 DEF CommitLibraryContinuityWitness, WitnessUnknown, CertifyWitness, Applies
<1>2. CASE ~CommitLibraryContinuityWitness /\ ~WitnessUnknown
  BY <1>2 DEF Certify, CertifyLibraryBaseline, readContinuityCommitProjection, visit, visitFails, Walked, NextBlock,
       readContinuityPhysicalLocation, Pinned, AddBlockReference, readBlockRepairAuthority, blockRepairHasS3Orphan,
       ObjectExists, RecheckPermanent, ReadFinalState, sameContinuityProjection, revalidateContinuityMappingAuthority,
       settleLibraryContinuityWitness, DependencyReadFailed, Again
<1> QED
  BY <1>1, <1>2

LEMMA PassedCertify ==
    ASSUME CertifierAssumption, CInv, Certify
    PROVE  PassedInv'
<1>1. head' = head
  BY CertifyFrame
<1>2. PassedInv /\ TypeOK
  BY DEF CInv
<1>3. pc' \in Active => obs' \in Commits /\ Passed(obs)'
  BY <1>1, <1>2, ObservedStep DEF PassedInv, Passed, StateHolds
<1>4. witness' # None => Passed(witness)'
  BY <1>1, <1>2, WitnessStep DEF PassedInv, Passed, StateHolds
<1> QED
  BY <1>3, <1>4 DEF PassedInv

\* What is resolved is what is frozen.
LEMMA MappingCertify ==
    ASSUME CertifierAssumption, CInv, Certify
    PROVE  MappingInv'
<1>1. TypeOK /\ MappingInv
  BY DEF CInv
<1>2. CASE \E g \in SHA1Files : resolveSHA1MappingAuthority(g)
  <2>1. PICK g \in SHA1Files : resolveSHA1MappingAuthority(g)
    BY <1>2
  <2>2. /\ mapped' = [mapped EXCEPT ![g].frozen = TRUE]
        /\ resolved' = [resolved EXCEPT ![g] = mapped[g].val]
    BY <2>1 DEF resolveSHA1MappingAuthority
  <2> QED
    BY <1>1, <2>2 DEF MappingInv, TypeOK
<1>3. CASE resolved' = resolved /\ mapped' = mapped
  BY <1>1, <1>3 DEF MappingInv
<1>4. CASE Again
  BY <1>4 DEF Again, MappingInv
<1>5. CASE visit
  <2>1. (resolved' = resolved /\ mapped' = mapped) \/ \E f : resolveBlockIDs(f)
    BY <1>5 DEF visit
  <2> QED
    BY <2>1, <1>2, <1>3 DEF resolveBlockIDs
<1>6. CASE ~Again /\ ~visit
  <2>1. resolved' = resolved /\ mapped' = mapped
    BY <1>6 DEF Certify, CertifyLibraryBaseline, readContinuityCommitProjection, visitFails, Walked, NextBlock,
         readContinuityPhysicalLocation, Pinned, AddBlockReference, readBlockRepairAuthority, blockRepairHasS3Orphan,
         ObjectExists, RecheckPermanent, ReadFinalState, sameContinuityProjection, revalidateContinuityMappingAuthority,
         CommitLibraryContinuityWitness, WitnessUnknown, CertifyWitness, settleLibraryContinuityWitness, DependencyReadFailed
  <2> QED
    BY <2>1, <1>3
<1> QED
  BY <1>4, <1>5, <1>6

LEMMA StackTop ==
    ASSUME NEW s \in Seq(Objects \X SUBSET Objects), s # <<>>
    PROVE  Firsts(s) = {Head(s)[1]} \cup Firsts(Tail(s))
<1>1. Len(s) \in Nat /\ Len(s) >= 1 /\ Head(s) = s[1] /\ s[1][1] \in Objects /\ Len(Tail(s)) = Len(s) - 1
  OBVIOUS
<1>2. \A n \in 1 .. Len(s) - 1 : Tail(s)[n] = s[n + 1]
  OBVIOUS
<1>3. ASSUME NEW n \in 1 .. Len(s), n # 1 PROVE n - 1 \in 1 .. Len(Tail(s)) /\ Tail(s)[n - 1] = s[n]
  BY <1>1, <1>2, <1>3
<1>4. ASSUME NEW n \in 1 .. Len(Tail(s)) PROVE n + 1 \in 1 .. Len(s) /\ Tail(s)[n] = s[n + 1]
  BY <1>1, <1>2
<1>5. ASSUME NEW f \in Firsts(s), f # Head(s)[1] PROVE f \in Firsts(Tail(s))
  <2>1. PICK n \in 1 .. Len(s) : f = s[n][1]
    BY DEF Firsts
  <2>2. n # 1
    BY <1>1, <1>5, <2>1
  <2> QED
    BY <1>3, <2>1, <2>2 DEF Firsts
<1>6. Head(s)[1] \in Firsts(s)
  <2>1. 1 \in 1 .. Len(s)
    BY <1>1
  <2> QED
    BY <2>1, <1>1 DEF Firsts
<1>7. Firsts(Tail(s)) \subseteq Firsts(s)
  BY <1>4 DEF Firsts
<1> QED
  BY <1>5, <1>6, <1>7

LEMMA WalkStep ==
    ASSUME Certify, pc' = "walk"
    PROVE  readContinuityCommitProjection \/ visit
BY DEF Certify, CertifyLibraryBaseline, visitFails, Walked, NextBlock,
       readContinuityPhysicalLocation, Pinned, AddBlockReference, readBlockRepairAuthority, blockRepairHasS3Orphan,
       ObjectExists, RecheckPermanent, ReadFinalState, sameContinuityProjection, revalidateContinuityMappingAuthority,
       CommitLibraryContinuityWitness, WitnessUnknown, CertifyWitness, settleLibraryContinuityWitness,
       DependencyReadFailed, Again

\* The blocks of an object are known when it was visited, and what was known before still is.
LEMMA Visited ==
    ASSUME CertifierAssumption, TypeOK, NEW f \in Objects, resolveBlockIDs(f)
    PROVE  /\ Known(f)'
           /\ \A g \in Objects \ {f} : Known(g) => Known(g)'
           /\ \A d \in deps' : d \in deps \/ d[1] = f
<1>1. CASE f \in SHA1Files
  <2>1. /\ mapped[f].val # None /\ resolved' = [resolved EXCEPT ![f] = mapped[f].val]
        /\ deps' = deps \cup {<<f, mapped[f].val>>}
    BY <1>1 DEF resolveBlockIDs, resolveSHA1MappingAuthority
  <2> QED
    BY <1>1, <2>1 DEF Known, TypeOK
<1>2. CASE f \notin SHA1Files
  <2>1. deps' = deps \cup {<<f, b>> : b \in Holds[f]} /\ resolved' = resolved
    BY <1>2 DEF resolveBlockIDs
  <2> QED
    BY <1>2, <2>1 DEF Known
<1> QED
  BY <1>1, <1>2

LEMMA WalkCertify ==
    ASSUME CertifierAssumption, CInv, Certify
    PROVE  WalkInv'
<1> SUFFICES ASSUME pc' = "walk" PROVE Walking'
  BY DEF WalkInv
<1>1. UNCHANGED <<lib, head, row>>
  BY CertifyFrame
<1>2. TypeOK /\ PassedInv /\ StartInv /\ WalkInv
  BY DEF CInv
<1>3. CASE readContinuityCommitProjection
  <2>1. pc = "commit" /\ obs' = obs /\ seen' = {} /\ todo' = <<<<Root[obs], {}>>>>
    BY <1>2, <1>3 DEF readContinuityCommitProjection, StartInv
  <2>2. obs \in Commits
    BY <1>2, <2>1 DEF PassedInv
  <2>3. Root[obs] \in Reach(obs) /\ Root[obs] \in Objects
    BY <2>2, ReachProperty
  <2>4. Stacked' = {Root[obs]}
    BY <2>1, <2>3 DEF Stacked, Firsts
  <2>5. Reach(obs)' = Reach(obs)
    BY <2>1 DEF Reach, Closed
  <2> QED
    BY <2>1, <2>3, <2>4, <2>5 DEF Walking
<1>4. CASE visit
  <2> DEFINE f == Head(todo)[1]
             active == Head(todo)[2]
             below == Firsts(Tail(todo))
  <2>1. pc = "walk" /\ todo # <<>> /\ obs' = obs /\ todo \in Seq(Objects \X SUBSET Objects)
    BY <1>2, <1>4 DEF visit, TypeOK
  <2>2. obs \in Commits
    BY <1>2, <2>1 DEF PassedInv
  <2>3. f \in Objects /\ active \in SUBSET Objects
    BY <2>1
  <2>4. Stacked = {f} \cup below
    BY <2>1, StackTop DEF Stacked
  <2>5. Walking
    BY <1>2, <2>1 DEF WalkInv
  <2>6. Reach(obs)' = Reach(obs)
    BY <2>1 DEF Reach, Closed
  <2>7. CASE f \in seen \cup {EmptyID} /\ todo' = Tail(todo) /\ UNCHANGED <<seen, deps, resolved, mapped>>
    <3>1. Stacked' = below
      BY <2>7 DEF Stacked
    <3> HIDE DEF f, below
    <3>2. \A g \in seen : Known(g)'
      BY <2>5, <2>7 DEF Walking, Known
    <3>3. Kept(obs)' = Kept(obs)
      BY <1>1, <2>1 DEF Kept
    <3> QED
      BY <1>1, <2>1, <2>4, <2>5, <2>6, <2>7, <3>1, <3>2, <3>3 DEF Walking
  <2>8. CASE /\ f \notin seen \cup {EmptyID} /\ seen' = seen \cup {f} /\ row[f] = "good"
             /\ \E kids \in [1 .. Cardinality(Kids[f]) -> Kids[f]] :
                    /\ {kids[n] : n \in DOMAIN kids} = Kids[f]
                    /\ todo' = [n \in DOMAIN kids |-> <<kids[n], active \cup {f}>>] \o Tail(todo)
             /\ resolveBlockIDs(f)
    <3>1. Stacked' = Kids[f] \cup below
      <4>1. active \cup {f} \in SUBSET Objects
        BY <2>3
      <4> HIDE DEF f, active
      <4>2. PICK kids \in [1 .. Cardinality(Kids[f]) -> Kids[f]] :
                    /\ {kids[n] : n \in DOMAIN kids} = Kids[f]
                    /\ todo' = [n \in DOMAIN kids |-> <<kids[n], active \cup {f}>>] \o Tail(todo)
        BY <2>8
      <4> DEFINE a == active \cup {f}
      <4>3. todo' = Pushed(kids, a, todo) /\ a \in SUBSET Objects
        BY <4>1, <4>2 DEF Pushed
      <4>4. Lists(kids, f)
        BY <4>2 DEF Lists
      <4> HIDE DEF a
      <4>5. Firsts(Pushed(kids, a, todo)) = Kids[f] \cup Firsts(Tail(todo))
        BY <2>1, <2>3, <4>3, <4>4, Stack
      <4> QED
        BY <4>3, <4>5 DEF Stacked
    <3> HIDE DEF f, active, below
    <3>2. seen \subseteq Objects
      BY <1>2 DEF TypeOK
    <3>3. \A g \in seen' : Known(g)'
      BY <1>2, <2>3, <2>5, <2>8, <3>2, Visited DEF Walking
    <3>4. Kept(obs)' = Kept(obs)
      BY <1>1, <2>1 DEF Kept
    <3>5. f \in Reach(obs) /\ Kids[f] \subseteq Reach(obs)
      BY <2>2, <2>4, <2>5, ReachProperty DEF Walking
    <3> QED
      BY <1>1, <2>1, <2>4, <2>5, <2>6, <2>8, <3>1, <3>3, <3>4, <3>5 DEF Walking
  <2> QED
    BY <1>4, <2>7, <2>8 DEF visit, readContinuityFSObjectProjection
<1> QED
  BY <1>3, <1>4, WalkStep

LEMMA StartCertify ==
    ASSUME CInv, Certify
    PROVE  StartInv'
<1> SUFFICES ASSUME pc' \in {"idle", "commit"} PROVE seen' = {} /\ deps' = {}
  BY DEF StartInv
<1>1. Again \/ \E c \in Commits : CertifyLibraryBaseline(c)
  BY DEF Certify, readContinuityCommitProjection, visit, visitFails, Walked, NextBlock,
       readContinuityPhysicalLocation, Pinned, AddBlockReference, readBlockRepairAuthority, blockRepairHasS3Orphan,
       ObjectExists, RecheckPermanent, ReadFinalState, sameContinuityProjection, revalidateContinuityMappingAuthority,
       CommitLibraryContinuityWitness, WitnessUnknown, CertifyWitness, settleLibraryContinuityWitness,
       DependencyReadFailed
<1> QED
  BY <1>1 DEF Again, CertifyLibraryBaseline, CInv, StartInv

LEMMA DepsCertify ==
    ASSUME CertifierAssumption, CInv, Certify
    PROVE  DepsInv'
<1> SUFFICES ASSUME pc' \in {"commit", "walk"} \cup Checking, NEW d \in deps' PROVE d[1] \in Reach(obs)'
  BY DEF DepsInv
<1>1. DepsInv /\ WalkInv /\ StartInv /\ TypeOK /\ PassedInv
  BY DEF CInv
<1>2. CASE pc \in {"commit", "walk"} \cup Checking /\ UNCHANGED <<obs, deps>>
  BY <1>1, <1>2 DEF DepsInv, Reach, Closed
<1>3. CASE pc' = "commit"
  <2>1. deps' = {}
    BY <1>3, StartCertify DEF StartInv
  <2> QED
    BY <2>1
<1>4. CASE pc' \in Checking
  BY <1>2, <1>4, CheckingStep DEF Walked
<1>5. CASE readContinuityCommitProjection
  BY <1>2, <1>5 DEF readContinuityCommitProjection
<1>6. CASE visit
  <2> DEFINE f == Head(todo)[1]
  <2>1. pc = "walk" /\ todo # <<>> /\ obs' = obs /\ todo \in Seq(Objects \X SUBSET Objects)
    BY <1>1, <1>6 DEF visit, TypeOK
  <2>2. f \in Objects /\ f \in Stacked
    BY <2>1, StackTop DEF Stacked
  <2>3. f \in Reach(obs)
    BY <1>1, <2>1, <2>2 DEF WalkInv, Walking
  <2>4. deps' = deps \/ resolveBlockIDs(f)
    BY <1>6 DEF visit
  <2> HIDE DEF f
  <2>5. d \in deps \/ d[1] = f
    BY <1>1, <2>2, <2>4, Visited
  <2>6. d \in deps => d[1] \in Reach(obs)
    BY <1>1, <2>1 DEF DepsInv
  <2> QED
    BY <2>1, <2>3, <2>5, <2>6 DEF Reach, Closed
<1> QED
  BY <1>3, <1>4, <1>5, <1>6, WalkStep

\* When the stack is empty the walk has been everywhere.
LEMMA TreeCertify ==
    ASSUME CertifierAssumption, CInv, Certify
    PROVE  TreeInv'
<1> SUFFICES ASSUME pc' \in Checking, NEW f \in Reach(obs)' \ {EmptyID}
             PROVE  Known(f)' /\ (Kept(obs)' => row'[f] = "good")
  BY DEF TreeInv
<1>1. UNCHANGED <<lib, head, row>>
  BY CertifyFrame
<1>2. obs' = obs /\ UNCHANGED <<deps, resolved>>
  BY CheckingStep DEF Walked
<1>3. f \in Reach(obs)
  BY <1>2 DEF Reach, Closed
<1>4. (Known(f)' <=> Known(f)) /\ (Kept(obs)' <=> Kept(obs))
  BY <1>1, <1>2 DEF Known, Kept
<1>5. CASE pc \in Checking
  BY <1>1, <1>3, <1>4, <1>5 DEF CInv, TreeInv
<1>6. CASE Walked
  <2>1. pc = "walk" /\ todo = <<>>
    BY <1>6 DEF Walked
  <2>2. Walking /\ obs \in Commits
    BY <2>1 DEF CInv, WalkInv, PassedInv
  <2>3. Stacked = {}
    BY <2>1 DEF Stacked, Firsts
  <2> DEFINE S == (seen \cup {EmptyID}) \cap Objects
  <2>4. Root[obs] \in S
    <3>1. Root[obs] \in Objects
      BY <2>2 DEF CertifierAssumption
    <3> QED
      BY <2>2, <2>3, <3>1 DEF Walking
  <2>5. Closed(S)
    <3> SUFFICES ASSUME NEW g \in S PROVE Kids[g] \subseteq S
      BY DEF Closed
    <3>1. Kids[g] \subseteq Objects
      BY DEF CertifierAssumption
    <3>2. CASE g \in seen
      BY <2>2, <2>3, <3>1, <3>2 DEF Walking
    <3>3. CASE g = EmptyID
      BY <3>3 DEF CertifierAssumption
    <3> QED
      BY <3>2, <3>3
  <2>6. Reach(obs) \subseteq S
    <3> HIDE DEF S
    <3>1. S \in SUBSET Objects
      BY DEF S
    <3> QED
      BY <2>2, <2>4, <2>5, <3>1, ReachLeast
  <2>7. f \in seen
    BY <1>3, <2>6
  <2> QED
    BY <1>1, <1>4, <2>2, <2>7 DEF Walking
<1> QED
  BY <1>5, <1>6, CheckingStep

\* The blocks are taken one after the other.
LEMMA PassCertify ==
    ASSUME CInv, Certify
    PROVE  PassInv'
<1> SUFFICES ASSUME pc' \in Checking PROVE PassInv'
  BY DEF PassInv
<1>1. TypeOK /\ PassInv
  BY DEF CInv
<1>2. CASE Walked
  <2>1. BlockIDs' = BlockIDs /\ left' = BlockIDs /\ pc' = "blocks"
    BY <1>2 DEF Walked, BlockIDs
  <2> QED
    BY <2>1 DEF PassInv
<1>3. CASE NextBlock
  <2>1. CASE left = {} /\ To(IF pass = 1 THEN "state" ELSE "projections") /\ UNCHANGED <<cur, left>>
    BY <1>1, <1>3, <2>1 DEF NextBlock, PassInv, TypeOK, BlockIDs
  <2>2. ASSUME NEW b \in left, cur' = b, left' = left \ {b}, To("locate") PROVE PassInv'
    <3>1. left \subseteq BlockIDs /\ deps' = deps
      BY <1>1, <1>3 DEF NextBlock, PassInv
    <3>2. \E f \in Objects : <<f, b>> \in deps
      <4>1. PICK d \in deps : b = d[2]
        BY <3>1 DEF BlockIDs
      <4>2. d[1] \in Objects /\ d = <<d[1], d[2]>>
        BY <1>1 DEF TypeOK
      <4> QED
        BY <4>1, <4>2
    <3> QED
      BY <2>2, <3>1, <3>2 DEF PassInv, BlockIDs
  <2> QED
    BY <1>3, <2>1, <2>2 DEF NextBlock
<1>4. CASE readContinuityPhysicalLocation
  BY <1>1, <1>4 DEF readContinuityPhysicalLocation, PassInv, BlockIDs
<1>5. CASE Pinned \/ AddBlockReference \/ readBlockRepairAuthority \/ blockRepairHasS3Orphan \/ ObjectExists \/ RecheckPermanent
  BY <1>1, <1>5 DEF Pinned, AddBlockReference, readBlockRepairAuthority, blockRepairHasS3Orphan, ObjectExists, RecheckPermanent,
     PassInv, BlockIDs
<1>6. CASE ReadFinalState
  BY <1>1, <1>6 DEF ReadFinalState, PassInv, BlockIDs
<1>7. CASE sameContinuityProjection \/ revalidateContinuityMappingAuthority
  BY <1>1, <1>7 DEF sameContinuityProjection, revalidateContinuityMappingAuthority, PassInv, BlockIDs
<1>8. CASE \/ \E c \in Commits : CertifyLibraryBaseline(c)
           \/ readContinuityCommitProjection \/ visit \/ visitFails
           \/ CommitLibraryContinuityWitness \/ WitnessUnknown \/ settleLibraryContinuityWitness \/ DependencyReadFailed \/ Again
  BY <1>8 DEF CertifyLibraryBaseline, readContinuityCommitProjection, visit, visitFails,
       CommitLibraryContinuityWitness, WitnessUnknown, CertifyWitness, settleLibraryContinuityWitness, DependencyReadFailed, Again
<1> QED
  BY <1>2, <1>3, <1>4, <1>5, <1>6, <1>7, <1>8 DEF Certify

\* The blocks the certifier is through with are safe.
LEMMA PinCertify ==
    ASSUME CertifierAssumption, CInv, Certify
    PROVE  PinInv'
<1> SUFFICES ASSUME pc' \in Checking, Kept(obs)', NEW d \in deps',
                    pass' = 2 \/ (d[2] \notin left' /\ (pc' \in BlockSteps => d[2] # cur'))
             PROVE  Safe(d[1], d[2])'
  BY DEF PinInv
<1>1. TypeOK /\ StoreInv /\ PassedInv /\ DepsInv /\ PassInv /\ PinInv /\ CurInv
  BY DEF CInv
<1>2. UNCHANGED <<lib, head, obs, deps>>
  BY CertifyFrame, CheckingStep DEF Walked
<1>3. Kept(obs) /\ obs \in Commits /\ (pc \in Checking \/ pc = "walk")
  BY <1>1, <1>2, CheckingStep DEF Kept, PassedInv, Walked
<1>4. d[1] \in Reach(obs) /\ d[2] \in Blocks /\ d[2] \in BlockIDs /\ d[1] \in ObjectsOf(d[2])
  <2>1. d \in deps /\ d[1] \in Objects /\ d[2] \in Blocks /\ d = <<d[1], d[2]>>
    BY <1>1, <1>2 DEF TypeOK
  <2>2. d[1] \in Reach(obs)
    BY <1>1, <1>3, <2>1 DEF DepsInv
  <2> QED
    BY <2>1, <2>2 DEF BlockIDs, ObjectsOf
<1>5. CASE Safe(d[1], d[2])
  <2>1. [Next]_vars
    BY DEF Next
  <2> DEFINE f == d[1]
             b == d[2]
  <2>2. d = <<f, b>>
    BY <1>1, <1>2 DEF TypeOK
  <2>3. f \in Reach(obs) /\ b \in Blocks /\ Safe(f, b)
    BY <1>4, <1>5
  <2> HIDE DEF f, b
  <2>4. Safe(f, b)'
    BY <1>1, <1>3, <2>1, <2>3, SafeStays
  <2> QED
    BY <2>4 DEF f, b
<1>6. ASSUME pc \in Checking, pass = 2 \/ (d[2] \notin left /\ (pc \in BlockSteps => d[2] # cur))
      PROVE  Safe(d[1], d[2])
  BY <1>1, <1>2, <1>3, <1>6 DEF PinInv
<1>7. CASE Walked
  BY <1>2, <1>4, <1>7 DEF Walked
<1>8. CASE NextBlock
  BY <1>5, <1>6, <1>8 DEF NextBlock
<1>9. CASE readContinuityPhysicalLocation
  BY <1>5, <1>6, <1>9 DEF readContinuityPhysicalLocation
<1>10. CASE Pinned \/ AddBlockReference \/ readBlockRepairAuthority \/ blockRepairHasS3Orphan \/ ObjectExists
  BY <1>5, <1>6, <1>10 DEF Pinned, AddBlockReference, readBlockRepairAuthority, blockRepairHasS3Orphan, ObjectExists
<1>11. CASE RecheckPermanent
  <2>1. pc = "recheck" /\ UNCHANGED <<pass, left>>
    BY <1>11 DEF RecheckPermanent
  <2>2. CASE d[2] = cur
    BY <1>1, <1>3, <1>4, <1>5, <2>1, <2>2 DEF CurInv, AtHand
  <2>3. CASE d[2] # cur
    BY <1>5, <1>6, <2>1, <2>3
  <2> QED
    BY <2>2, <2>3
<1>12. CASE ReadFinalState
  BY <1>1, <1>5, <1>6, <1>12 DEF ReadFinalState, PassInv
<1>13. CASE sameContinuityProjection \/ revalidateContinuityMappingAuthority
  BY <1>1, <1>5, <1>6, <1>13 DEF sameContinuityProjection, revalidateContinuityMappingAuthority, PassInv
<1>14. CASE \/ \E c \in Commits : CertifyLibraryBaseline(c)
            \/ readContinuityCommitProjection \/ visit \/ visitFails
            \/ CommitLibraryContinuityWitness \/ WitnessUnknown \/ settleLibraryContinuityWitness \/ DependencyReadFailed \/ Again
  BY <1>14 DEF CertifyLibraryBaseline, readContinuityCommitProjection, visit, visitFails,
       CommitLibraryContinuityWitness, WitnessUnknown, CertifyWitness, settleLibraryContinuityWitness, DependencyReadFailed, Again
<1> QED
  BY <1>7, <1>8, <1>9, <1>10, <1>11, <1>12, <1>13, <1>14 DEF Certify

\* The block at hand: pinned, then out of reach of a deletion that has begun.
LEMMA CurCertify ==
    ASSUME CertifierAssumption, CInv, Certify
    PROVE  CurInv'
<1> SUFFICES ASSUME Kept(obs)', pc' \in BlockSteps PROVE AtHand'
  BY DEF CurInv, AtHand
<1>1. TypeOK /\ StoreInv /\ PassedInv /\ DepsInv /\ PassInv /\ PinInv /\ CurInv
  BY DEF CInv
<1>2. UNCHANGED <<lib, head, obs, deps, key, claim, orphan, obj, gpc>> /\ (pc \in Checking \/ pc = "walk")
  BY CertifyFrame, CheckingStep DEF Walked
<1>3. Kept(obs) /\ AtHand
  BY <1>1, <1>2 DEF Kept, CurInv
<1>4. NextBlock \/ (pc \in BlockSteps /\ cur' = cur)
  <2>1. CASE Walked \/ ReadFinalState \/ sameContinuityProjection \/ revalidateContinuityMappingAuthority
    BY <2>1 DEF Walked, ReadFinalState, sameContinuityProjection, revalidateContinuityMappingAuthority
  <2>2. CASE readContinuityPhysicalLocation \/ Pinned \/ AddBlockReference \/ readBlockRepairAuthority
    BY <2>2 DEF readContinuityPhysicalLocation, Pinned, AddBlockReference, readBlockRepairAuthority
  <2>3. CASE blockRepairHasS3Orphan \/ ObjectExists \/ RecheckPermanent
    BY <2>3 DEF blockRepairHasS3Orphan, ObjectExists, RecheckPermanent
  <2>4. CASE \/ \E c \in Commits : CertifyLibraryBaseline(c)
             \/ readContinuityCommitProjection \/ visit \/ visitFails
             \/ CommitLibraryContinuityWitness \/ WitnessUnknown \/ settleLibraryContinuityWitness \/ DependencyReadFailed \/ Again
    BY <2>4 DEF CertifyLibraryBaseline, readContinuityCommitProjection, visit, visitFails,
         CommitLibraryContinuityWitness, WitnessUnknown, CertifyWitness, settleLibraryContinuityWitness, DependencyReadFailed, Again
  <2> QED
    BY <2>1, <2>2, <2>3, <2>4 DEF Certify
<1>5. CASE NextBlock
  BY <1>5 DEF NextBlock, AtHand
<1>6. CASE pc \in BlockSteps /\ cur' = cur
  <2>1. cur \in Blocks /\ ObjectsOf(cur)' = ObjectsOf(cur) /\ \A f \in ObjectsOf(cur) : f \in Objects /\ <<f, cur>> \in deps
    BY <1>1, <1>2, <1>6 DEF PassInv, TypeOK, ObjectsOf
  <2>2. BlockInv(cur)
    BY <1>1, <2>1 DEF StoreInv
  <2>3. \E f \in Objects : f \in ObjectsOf(cur)
    BY <1>1, <1>6 DEF PassInv, ObjectsOf
  <2>4. CASE readContinuityPhysicalLocation
    <3>1. CASE pass = 1
      <4>1. pc' = "pin" /\ key[cur] \in Minted /\ loc' = [loc EXCEPT ![cur] = key[cur]]
        BY <2>4, <3>1 DEF readContinuityPhysicalLocation, ValidateMintedPhysicalLocator
      <4>2. loc'[cur'] # None
        BY <1>1, <1>6, <2>1, <4>1 DEF TypeOK, CertifierAssumption
      <4> QED
        BY <4>1, <4>2 DEF AtHand
    <3>2. CASE pass # 1
      <4>1. pc = "locate" /\ pc' = "row" /\ key[cur] = loc[cur] /\ UNCHANGED <<loc, ref>> /\ pass = 2
        BY <1>1, <2>4, <3>2 DEF readContinuityPhysicalLocation, TypeOK
      <4>2. \A f \in ObjectsOf(cur) : Safe(f, cur)
        BY <1>1, <1>3, <2>1, <4>1 DEF PinInv
      <4>3. loc[cur] # None /\ \A f \in ObjectsOf(cur) : ref[f][cur] = "permanent"
        BY <2>3, <4>1, <4>2 DEF Safe
      <4> QED
        BY <1>6, <2>1, <4>1, <4>3 DEF AtHand
    <3> QED
      BY <3>1, <3>2
  <2>5. CASE Pinned \/ AddBlockReference
    BY <1>3, <1>6, <2>1, <2>5 DEF Pinned, AddBlockReference, BlockReferencePermanentExists, AtHand
  <2>6. CASE readBlockRepairAuthority
    <3>1. pc = "row" /\ pc' = "orphan" /\ key[cur] = loc[cur] /\ claim[cur] = "none" /\ ref' = ref
      BY <2>6 DEF readBlockRepairAuthority, RowAuthorized
    <3>2. gpc[cur] \in {"idle", "delete", "clear"} /\ key[cur] # None
      BY <1>1, <1>3, <2>1, <2>2, <3>1 DEF BlockInv, AtHand, TypeOK
    <3>3. \A f \in ObjectsOf(cur) : ref[f][cur] = "permanent"
      BY <1>3, <3>1 DEF AtHand
    <3> QED
      BY <1>2, <1>6, <2>1, <3>1, <3>2, <3>3 DEF AtHand, Firm
  <2>7. CASE blockRepairHasS3Orphan
    <3>1. pc = "orphan" /\ pc' = "exists" /\ orphan[cur] = None /\ ref' = ref
      BY <2>7 DEF blockRepairHasS3Orphan
    <3>2. \A f \in ObjectsOf(cur) : Firm(f, cur)
      BY <1>3, <3>1 DEF AtHand
    <3>3. gpc[cur] # "delete" /\ cur # None
      BY <2>1, <2>2, <3>1 DEF BlockInv, CertifierAssumption
    <3>4. \A f \in ObjectsOf(cur) : Safe(f, cur) /\ ref[f][cur] = "permanent"
      BY <1>1, <2>1, <3>2, <3>3, SafeIsFirm DEF Firm
    <3> QED
      BY <1>2, <1>6, <2>1, <3>1, <3>4 DEF AtHand, Safe
  <2>8. CASE ObjectExists
    <3>1. pc = "exists" /\ pc' = "recheck" /\ ref' = ref
      BY <2>8 DEF ObjectExists
    <3> QED
      BY <1>2, <1>3, <1>6, <2>1, <3>1 DEF AtHand, Safe
  <2>9. CASE RecheckPermanent
    BY <2>9 DEF RecheckPermanent
  <2>10. CASE ~(\/ readContinuityPhysicalLocation \/ Pinned \/ AddBlockReference \/ readBlockRepairAuthority
                \/ blockRepairHasS3Orphan \/ ObjectExists \/ RecheckPermanent)
    BY <1>6, <2>10 DEF Certify, CertifyLibraryBaseline, readContinuityCommitProjection, visit, visitFails, Walked, NextBlock,
       ReadFinalState, sameContinuityProjection, revalidateContinuityMappingAuthority,
       CommitLibraryContinuityWitness, WitnessUnknown, CertifyWitness, settleLibraryContinuityWitness, DependencyReadFailed, Again
  <2> QED
    BY <2>4, <2>5, <2>6, <2>7, <2>8, <2>9, <2>10
<1> QED
  BY <1>4, <1>5, <1>6

-----------------------------------------------------------------------------
(* The witness *)

\* When the witness is written, everything of the observed tree is safe.
LEMMA WitnessWritten ==
    ASSUME CertifierAssumption, CInv, pc = "witness", StateHolds(obs), NEW f \in Reach(obs) \ {EmptyID}
    PROVE  /\ row[f] = "good" /\ (f \in SHA1Files => mapped[f].frozen)
           /\ \A b \in BlocksOf(f) : Safe(f, b)
<1>1. Kept(obs)
  BY DEF Kept, StateHolds
<1>2. Known(f) /\ row[f] = "good"
  BY <1>1 DEF CInv, TreeInv
<1>3. \A d \in deps : Safe(d[1], d[2])
  BY <1>1 DEF CInv, PinInv, PassInv
<1>4. CASE f \in SHA1Files
  <2>1. mapped[f].frozen /\ mapped[f].val = resolved[f] /\ <<f, resolved[f]>> \in deps
    BY <1>2, <1>4 DEF CInv, MappingInv, Known
  <2>2. Safe(f, resolved[f])
    BY <1>3, <2>1
  <2> QED
    BY <1>2, <1>4, <2>1, <2>2 DEF BlocksOf
<1>5. CASE f \notin SHA1Files
  <2>1. \A b \in Holds[f] : Safe(f, b)
    BY <1>2, <1>3, <1>5 DEF Known
  <2> QED
    BY <1>2, <1>5, <2>1 DEF BlocksOf
<1> QED
  BY <1>4, <1>5

LEMMA WitnessStays ==
    ASSUME CertifierAssumption, CInv, [Next]_vars
    PROVE  WitnessInv'
<1>1. TypeOK /\ StoreInv /\ PassedInv /\ WitnessInv
  BY DEF CInv
<1>2. CASE witness' = witness
  <2> SUFFICES ASSUME witness # None, head' = witness, lib' # "gone", NEW f \in Reach(witness) \ {EmptyID}
               PROVE  /\ row'[f] = "good" /\ (f \in SHA1Files => mapped'[f].frozen)
                      /\ \A b \in BlocksOf(f)' : Safe(f, b)'
    BY <1>2 DEF WitnessInv, Kept, Reach, Closed
  <2> DEFINE c == witness
  <2>1. c \in Commits /\ Passed(c) /\ head' = c /\ f \in Reach(c)
    BY <1>1 DEF TypeOK, PassedInv
  <2> HIDE DEF c
  <2>2. Kept(c)
    BY <2>1, PassedStays DEF Kept
  <2>3. /\ row[f] = "good" /\ (f \in SHA1Files => mapped[f].frozen)
        /\ \A b \in BlocksOf(f) : Safe(f, b)
    BY <1>1, <2>2 DEF c, WitnessInv
  <2>4. row'[f] = "good"
    BY <1>1, <2>1, <2>2, <2>3, ObjectStays
  <2>5. (f \in SHA1Files => mapped'[f].frozen) /\ BlocksOf(f)' = BlocksOf(f)
    BY <1>1, <2>3, FrozenStays DEF BlocksOf
  <2>6. ASSUME NEW b \in BlocksOf(f) PROVE Safe(f, b)'
    <3>1. Safe(f, b)
      BY <2>3
    <3>2. b \in Blocks
      <4>1. f \in Objects /\ b # None
        BY <2>1, <3>1 DEF Reach, Safe
      <4> QED
        BY <1>1, <4>1 DEF BlocksOf, TypeOK, CertifierAssumption
    <3> QED
      BY <1>1, <2>1, <2>2, <3>1, <3>2, SafeStays
  <2> QED
    BY <2>4, <2>5, <2>6
<1>3. CASE Certify /\ pc = "witness" /\ witness' = obs /\ StateHolds(obs) /\ UNCHANGED <<row, ref, mapped>>
  <2>1. UNCHANGED <<lib, head, key, claim, orphan, obj, gpc>>
    BY <1>3, CertifyFrame
  <2>2. \A f \in Reach(obs) \ {EmptyID} :
            /\ row[f] = "good" /\ (f \in SHA1Files => mapped[f].frozen)
            /\ \A b \in BlocksOf(f) : Safe(f, b)
    BY <1>3, WitnessWritten
  <2>3. \A f : BlocksOf(f)' = BlocksOf(f) /\ \A b : Safe(f, b)' <=> Safe(f, b)
    BY <1>3, <2>1 DEF BlocksOf, Safe
  <2>4. Reach(witness)' = Reach(obs)
    BY <1>3 DEF Reach, Closed
  <2> QED
    BY <1>3, <2>2, <2>3, <2>4 DEF WitnessInv
<1> QED
  BY <1>2, <1>3, WitnessStep, OthersFrame

-----------------------------------------------------------------------------
(* The theorems *)

\* The invariant is inductive.
THEOREM CertifierInvariant == CertifierAssumption => (Spec => []CInv)
<1> SUFFICES ASSUME CertifierAssumption
             PROVE  Spec => []CInv
  OBVIOUS
<1>1. Init => CInv
  <2> SUFFICES ASSUME Init PROVE CInv
    OBVIOUS
  <2>1. TypeOK
    BY TypeInit
  <2>2. StoreInv
    <3>1. \A b \in Blocks : key[b] # None => <<b, key[b]>> \in obj
      BY DEF Init
    <3>2. \A b \in Blocks : claim[b] = "none" /\ orphan[b] = None /\ gpc[b] = "idle"
      BY DEF Init
    <3> QED
      BY <3>1, <3>2 DEF StoreInv, BlockInv
  <2>3. pc = "idle" /\ witness = None /\ seen = {} /\ deps = {} /\ \A f \in SHA1Files : resolved[f] = None
    BY DEF Init
  <2>4. PassedInv /\ MappingInv /\ WalkInv /\ StartInv /\ DepsInv /\ TreeInv /\ WitnessInv
    BY <2>3 DEF PassedInv, MappingInv, WalkInv, StartInv, DepsInv, TreeInv, WitnessInv
  <2>5. PassInv /\ PinInv /\ CurInv
    BY <2>3 DEF PassInv, PinInv, CurInv, AtHand
  <2> QED
    BY <2>1, <2>2, <2>4, <2>5 DEF CInv
<1>2. CInv /\ [Next]_vars => CInv'
  <2> SUFFICES ASSUME CInv, [Next]_vars PROVE CInv'
    OBVIOUS
  <2>1. TypeOK'
    <3>1. CASE Certify
      <4>1. TypeOK /\ (pc = "commit" => obs \in Commits)
        BY DEF CInv, PassedInv
      <4> QED
        BY <3>1, <4>1, TypeCertify
    <3>2. CASE UNCHANGED vars
      BY <3>2 DEF CInv, TypeOK, vars
    <3>3. CASE Next /\ ~Certify
      <4>1. TypeOK
        BY DEF CInv
      <4> QED
        BY <3>3, <4>1, TypeOthers DEF Next
    <3> QED
      BY <3>1, <3>2, <3>3
  <2>2. StoreInv' /\ WitnessInv'
    BY StoreStays, WitnessStays DEF CInv
  <2>3. CASE Certify
    BY <2>1, <2>2, <2>3, PassedCertify, MappingCertify, WalkCertify, StartCertify, DepsCertify, TreeCertify,
       PassCertify, PinCertify, CurCertify DEF CInv
  <2>4. CASE ~Certify
    BY <2>1, <2>2, <2>4, OthersKeep DEF CInv
  <2> QED
    BY <2>3, <2>4
<1> QED
  BY <1>1, <1>2, PTL DEF Spec

\* While the witness is valid, everything a reader of HEAD needs is there and nothing will take it, and
\* what the certifier has checked stays so until it writes the witness
\* (library_continuity_certifier.go: CertifyLibraryBaseline).
THEOREM WitnessHolds == CertifierAssumption => (Spec => [](WitnessSafe /\ CheckedSafe))
<1> SUFFICES ASSUME CertifierAssumption
             PROVE  Spec => [](WitnessSafe /\ CheckedSafe)
  OBVIOUS
<1>1. CInv => WitnessSafe
  <2> SUFFICES ASSUME CInv, ContinuityWitnessValid, NEW f \in Reach(head) \ {EmptyID}
               PROVE  row[f] = "good" /\ \A b \in BlocksOf(f) : Safe(f, b)
    BY DEF WitnessSafe
  <2>1. witness = head /\ lib = "live" /\ witness # None
    BY DEF ContinuityWitnessValid, CInv, TypeOK, CertifierAssumption
  <2>2. Kept(witness)
    BY <2>1 DEF Kept
  <2>3. f \in Reach(witness) \ {EmptyID}
    BY <2>1
  <2> QED
    BY <2>1, <2>2, <2>3 DEF CInv, WitnessInv
<1>2. CInv => CheckedSafe
  <2> SUFFICES ASSUME CInv, StateHolds(obs)
               PROVE  /\ pc = "exists" => \A f \in ObjectsOf(cur) : Safe(f, cur)
                      /\ pc \in {"projections", "mappings", "witness"} => \A d \in deps : Safe(d[1], d[2])
    BY DEF CheckedSafe
  <2>1. Kept(obs)
    BY DEF Kept, StateHolds
  <2> QED
    BY <2>1 DEF CInv, CurInv, AtHand, PinInv, PassInv
<1>3. Spec => []CInv
  BY CertifierInvariant
<1> QED
  BY <1>1, <1>2, <1>3, PTL

\* The witness is only ever set to the HEAD of the moment, and a certified answer is true when it is
\* given, also when the answer of the compare-and-set was lost (settleLibraryContinuityWitness).
THEOREM AnswersAreTrue == Spec => [][AnswerTrue]_vars
<1>1. [Next]_vars => [AnswerTrue]_vars
  <2> SUFFICES ASSUME Next PROVE AnswerTrue
    OBVIOUS
  <2>1. CASE ~Certify
    <3>1. UNCHANGED <<witness, pc>>
      BY <2>1, OthersFrame
    <3> QED
      BY <3>1 DEF AnswerTrue
  <2>2. CASE Certify
    <3>1. UNCHANGED <<lib, head>>
      BY <2>2, CertifyFrame
    <3>2. witness' # witness => witness' = head
      BY <2>2, WitnessStep DEF StateHolds
    <3>3. ASSUME pc' = "certified", pc # "certified" PROVE lib = "live" /\ witness' = head
      <4>1. CommitLibraryContinuityWitness \/ settleLibraryContinuityWitness
        BY <2>2, <3>3 DEF Certify, CertifyLibraryBaseline, readContinuityCommitProjection, visit, visitFails, Walked, NextBlock,
           readContinuityPhysicalLocation, Pinned, AddBlockReference, readBlockRepairAuthority, blockRepairHasS3Orphan,
           ObjectExists, RecheckPermanent, ReadFinalState, sameContinuityProjection, revalidateContinuityMappingAuthority,
           WitnessUnknown, CertifyWitness, DependencyReadFailed, Again
      <4>2. CASE CommitLibraryContinuityWitness
        BY <3>3, <4>2 DEF CommitLibraryContinuityWitness, CertifyWitness, Applies, StateHolds
      <4>3. CASE settleLibraryContinuityWitness
        BY <3>3, <4>3 DEF settleLibraryContinuityWitness, ContinuityWitnessValid
      <4> QED
        BY <4>1, <4>2, <4>3
    <3> QED
      BY <3>1, <3>2, <3>3 DEF AnswerTrue, ContinuityWitnessValid
  <2> QED
    BY <2>1, <2>2
<1> QED
  BY <1>1, PTL DEF Spec
=============================================================================
