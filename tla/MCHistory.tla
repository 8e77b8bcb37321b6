------------------------------ MODULE MCHistory ------------------------------
(***************************************************************************)
(* The history of a library and what watches over it: the handlers that    *)
(* publish commits, the identity of commits and objects, the certification *)
(* of HEAD, and the queue and the lease of the garbage collector.  These   *)
(* parts share no state here, so a behaviour is one of one part and the    *)
(* variables of the others hold nothing.  Parts of one module have the     *)
(* same variables and other constants; a part that is proved about is an   *)
(* instance of the module with its proofs, for HistoryProofs to use them.  *)
(***************************************************************************)
EXTENDS Naturals, Sequences, TLC

CONSTANTS p1, p2, q3, l1, l2, u1, u2, c1, c2, c3, dx, dy,
          m1, m2, d1, d2, f1, f2, e0, b1, b2, s1, s2, old, i1, i2, g1, g2, Empty, None

VARIABLES part,
    \* the handlers
    hist, rows, wk, held,
    \* identity
    iClaim, iRow, legacy, iPc, inp, auth, dpc, saw,
    \* certification
    lib, cHead, witness, cRow, mapped, ref, key, cClaim, orphan, obj, gpc, cPc, obs, todo, seen, deps, resolved,
    pass, left, cur, loc,
    \* queue and lease of the garbage collector
    clock, queue, failed, pending, active, dirty, snap, late, w,
    lRow, svc, faults

-----------------------------------------------------------------------------
(***************************************************************************)
(* Handlers: two libraries, two users, and one request per handler and     *)
(* conflict policy, chosen to meet on the same paths.                      *)
(***************************************************************************)
LT == INSTANCE LibraryTree

A == <<"a">>
B == <<"b">>
pA == <<A>>
pB == <<B>>
pAB == <<A, B>>
pAA == <<A, A>>

Trees == (l1 :> (<<>> :> LT!Dir @@ pA :> LT!Dir @@ pAB :> LT!File(c1) @@ pB :> LT!File(c2))
          @@ l2 :> (<<>> :> LT!Dir @@ pA :> LT!Dir))
OthersLock == (l1 :> (pB :> u2) @@ l2 :> [p \in {} |-> u1])
OwnLock == (l1 :> (pAB :> u1) @@ l2 :> [p \in {} |-> u1])

Req(op, u, items, dst, dlib, name, policy, content) ==
    [op |-> op, user |-> u, lib |-> l1, items |-> items, dst |-> dst, dlib |-> dlib, name |-> name,
     policy |-> policy, content |-> content, old |-> 1]
One(op, u, p, policy) == Req(op, u, <<p>>, <<>>, l1, A, policy, c3)

\* Everything that publishes in one library.
TreeRequests ==
    { One("CreateDirectory", u1, pAA, ""), One("CreateFile", u2, pAA, ""),
      Req("RenameDirectory", u1, <<pA>>, <<>>, l1, <<"x">>, "", c3), Req("RenameFile", u2, <<pB>>, <<>>, l1, <<"x">>, "", c3),
      One("DeleteDirectory", u1, pA, ""), One("DeleteFile", u1, pAB, ""),
      Req("BatchDeleteItems", u1, <<pA, pB>>, <<>>, l1, A, "", c3),
      One("UploadFile", u1, pAB, "replace"), One("UploadFile", u2, pB, "autorename"),
      Req("CopyFile", u1, <<pB>>, pA, l1, A, "replace", c3), Req("copyBatch", u1, <<pB, pAB>>, pA, l1, A, "autorename", c3),
      Req("MoveFile", u2, <<pB>>, pA, l1, A, "replace", c3), Req("MoveFile", u1, <<pAB>>, <<>>, l1, A, "autorename", c3),
      One("RevertFile", u1, pAB, "replace"), One("RevertDirectory", u1, pA, "replace"),
      One("RestoreTrashItem", u1, pA, ""), One("RevertDirents", u2, pAB, "") }

\* Moves and copies between libraries, and what meets them.
MoveRequests ==
    { Req("batchMove", u1, <<pAB>>, <<>>, l2, A, "", c3), Req("asyncMove", u1, <<pAB, pA>>, pA, l2, A, "autorename", c3),
      Req("batchCopy", u1, <<pA>>, pA, l2, A, "skip", c3), Req("asyncCopy", u1, <<pA, pAB>>, <<>>, l2, A, "replace", c3),
      Req("batchMove", u2, <<pB>>, pA, l1, A, "replace", c3), Req("batchCopy", u2, <<pB>>, pA, l1, A, "autorename", c3),
      One("UploadFile", u1, pAB, "replace"), One("DeleteDirectory", u1, pA, "") }

\* Locks and unlocks, and what clears or moves the rows of locks.
LockRequests ==
    { One("lock", u1, pAB, ""), One("lock", u2, pAB, ""), One("unlock", u1, pAB, ""), One("unlock", u2, pAB, ""),
      One("DeleteFile", u1, pAB, ""), One("DeleteFile", u2, pAB, ""), One("DeleteDirectory", u1, pA, ""),
      Req("RenameDirectory", u1, <<pA>>, <<>>, l1, <<"x">>, "", c3), Req("RenameFile", u2, <<pAB>>, <<>>, l1, A, "", c3),
      Req("MoveFile", u1, <<pAB>>, <<>>, l1, A, "replace", c3), Req("BatchDeleteItems", u1, <<pAB>>, <<>>, l1, A, "", c3) }

Tree == INSTANCE LibraryHeadProofs WITH
    Workers <- {p1, p2}, Libs <- {l1, l2}, Requests <- TreeRequests, Locks <- OthersLock, MaxAttempts <- 2, LockAttempts <- 2
Cross == INSTANCE LibraryHeadProofs WITH
    Workers <- {p1, p2}, Libs <- {l1, l2}, Requests <- MoveRequests, Locks <- OthersLock, MaxAttempts <- 2, LockAttempts <- 2
Locks == INSTANCE LibraryHeadProofs WITH
    Workers <- {p1, p2}, Libs <- {l1, l2}, Requests <- LockRequests, Locks <- OwnLock, MaxAttempts <- 2, LockAttempts <- 2

-----------------------------------------------------------------------------
(***************************************************************************)
(* Identity: two writers of two contents and a deleter of one id, with the *)
(* rows that may be there from before the claims.                          *)
(***************************************************************************)
Legacy(type, entries, ids, sha1s, t) ==
    [is |-> "row", type |-> type, entries |-> entries, ids |-> ids, sha1s |-> sha1s, t |-> t]
CommitID == INSTANCE ObjectIdentityProofs WITH
    Kind <- "commit", Data <- {dx, dy}, Times <- {1, 2}, Writers <- {p1, p2}, Deleters <- {d1},
    LegacyRows <- {Legacy("commit", dx, Empty, Empty, 1)},
    claim <- iClaim, row <- iRow, pc <- iPc
ObjectID == INSTANCE ObjectIdentityProofs WITH
    Kind <- "fs_object", Data <- {dx, dy}, Times <- {1, 2}, Writers <- {p1, p2}, Deleters <- {d1},
    LegacyRows <- {Legacy("dir", dx, Empty, Empty, 0), Legacy("file", Empty, dx, dy, 0), Legacy("file", dx, dy, Empty, 0)},
    claim <- iClaim, row <- iRow, pc <- iPc

-----------------------------------------------------------------------------
(***************************************************************************)
(* Certification: two commits with one directory each, a file they share   *)
(* and a file of the second one with a SHA-1 id.                           *)
(***************************************************************************)
RootOf(cs) == [c \in cs |-> IF c = m1 THEN d1 ELSE d2]
KidsOf(fs) == [f \in fs |-> CASE f = d1 -> {f1, e0} \cap fs [] f = d2 -> {f1, f2} \cap fs [] OTHER -> {}]
HoldsOf(fs) == [f \in fs |-> IF f = f1 THEN {b1} ELSE {}]
Good(fs) == [f \in fs |-> "good"]
Bad(fs) == {[f \in fs |-> IF f = f1 THEN s ELSE "good"] : s \in {"unproven", "placeholder", "absent"}}
NoRefs(fs, bs) == [f \in fs |-> [v \in bs |-> "none"]]
AnyRefs(fs, bs) == {[f \in fs |-> [v \in bs |-> IF f = f1 /\ v = b1 THEN s ELSE "none"]] : s \in {"none", "ttl", "permanent"}}

\* One commit whose objects and references may be in any state.
Baseline == INSTANCE CertifierProofs WITH
    Commits <- {m1}, Objects <- {d1, f1, e0}, Blocks <- {b1}, Keys <- {s1, s2, old}, Minted <- {s1, s2}, SHA1Files <- {},
    EmptyID <- e0, MaxDepth <- 3, MaxFSObjects <- 4, MaxUniqueBlocks <- 2, Child <- (m1 :> None),
    Root <- RootOf({m1}), Kids <- KidsOf({d1, f1, e0}), Holds <- HoldsOf({d1, f1, e0}),
    Rows <- Bad({d1, f1, e0}) \cup {Good({d1, f1, e0})}, Refs <- AnyRefs({d1, f1, e0}, {b1}), Mappings <- {<<>>},
    head <- cHead, row <- cRow, claim <- cClaim, pc <- cPc
\* A commit that is replaced by the next while it is certified.
Moves == INSTANCE CertifierProofs WITH
    Commits <- {m1, m2}, Objects <- {d1, d2, f1}, Blocks <- {b1}, Keys <- {s1, s2}, Minted <- {s1, s2}, SHA1Files <- {},
    EmptyID <- e0, MaxDepth <- 3, MaxFSObjects <- 4, MaxUniqueBlocks <- 2, Child <- (m1 :> m2 @@ m2 :> None),
    Root <- RootOf({m1, m2}), Kids <- KidsOf({d1, d2, f1}), Holds <- HoldsOf({d1, d2, f1}),
    Rows <- {Good({d1, d2, f1})}, Refs <- AnyRefs({d1, d2, f1}, {b1}), Mappings <- {<<>>},
    head <- cHead, row <- cRow, claim <- cClaim, pc <- cPc
\* A file of which only the SHA-1 id is known, whose mapping may change.
SHA1 == INSTANCE CertifierProofs WITH
    Commits <- {m2}, Objects <- {d2, f2}, Blocks <- {b1, b2}, Keys <- {s1}, Minted <- {s1}, SHA1Files <- {f2},
    EmptyID <- e0, MaxDepth <- 3, MaxFSObjects <- 4, MaxUniqueBlocks <- 2, Child <- (m2 :> None),
    Root <- RootOf({m2}), Kids <- KidsOf({d2, f2}), Holds <- HoldsOf({d2, f2}),
    Rows <- {Good({d2, f2})}, Refs <- {NoRefs({d2, f2}, {b1, b2})}, Mappings <- {f2 :> [val |-> b2, frozen |-> FALSE]},
    head <- cHead, row <- cRow, claim <- cClaim, pc <- cPc

-----------------------------------------------------------------------------
(***************************************************************************)
(* Garbage collector.  The queue: one worker and one caller on two items;  *)
(* one worker and callers that overlap, on two instances; the same with    *)
(* items taken back from the dead letter queue, with cascades and batches  *)
(* that arrive late; two workers that both believe they lead.  The lease:  *)
(* two instances with calls that take time, and with answers that are lost.*)
(***************************************************************************)
AllCalls == {"enqueue", "take back", "delete", "expire"}
Queue == INSTANCE GCQueueProofs WITH
    Items <- {i1, i2}, Cascades <- {}, Workers <- {q3}, Callers <- {u1}, Ops <- AllCalls,
    MaxRetry <- 1, MaxClock <- 7, Late <- FALSE, OneNode <- TRUE
Overlap == INSTANCE GCQueueProofs WITH
    Items <- {i1}, Cascades <- {}, Workers <- {q3}, Callers <- {p1, p2}, Ops <- AllCalls \ {"take back"},
    MaxRetry <- 1, MaxClock <- 7, Late <- FALSE, OneNode <- FALSE
LateCalls == INSTANCE GCQueueProofs WITH
    Items <- {i1}, Cascades <- {i1}, Workers <- {q3}, Callers <- {p1, p2}, Ops <- AllCalls,
    MaxRetry <- 0, MaxClock <- 5, Late <- TRUE, OneNode <- FALSE
TwoLeaders == INSTANCE GCQueueProofs WITH
    Items <- {i1}, Cascades <- {}, Workers <- {p1, p2}, Callers <- {q3}, Ops <- {"enqueue"},
    MaxRetry <- 0, MaxClock <- 4, Late <- TRUE, OneNode <- FALSE
Slow == INSTANCE GCLeaseProofs WITH
    Instances <- {g1, g2}, Admins <- {g2}, Passers <- {}, Renewal <- 3, TTL <- 9, QueryTime <- 1, MaxFaults <- 0, row <- lRow
Faulty == INSTANCE GCLeaseProofs WITH
    Instances <- {p1, p2}, Admins <- {p1, p2}, Passers <- {p1, p2}, Renewal <- 1, TTL <- 3, QueryTime <- 0, MaxFaults <- 1, row <- lRow

ASSUME HeadsAssumption == Tree!HeadAssumption /\ Cross!HeadAssumption /\ Locks!HeadAssumption
ASSUME IdentitiesAssumption ==
       CommitID!IdentityAssumption /\ CommitID!LegacyAssumption /\ ObjectID!IdentityAssumption /\ ObjectID!LegacyAssumption
ASSUME CertifiersAssumption == Baseline!CertifierAssumption /\ Moves!CertifierAssumption /\ SHA1!CertifierAssumption
ASSUME QueuesAssumption ==
       Queue!QueueAssumption /\ Overlap!QueueAssumption /\ LateCalls!QueueAssumption /\ TwoLeaders!QueueAssumption
ASSUME LeasesAssumption == Slow!LeaseAssumption /\ Faulty!LeaseAssumption

-----------------------------------------------------------------------------
headVars == <<hist, rows, wk, held>>
identityVars == <<iClaim, iRow, legacy, iPc, inp, auth, dpc, saw>>
certifierVars == <<lib, cHead, witness, cRow, mapped, ref, key, cClaim, orphan, obj, gpc, cPc, obs, todo, seen, deps,
                   resolved, pass, left, cur, loc>>
gcVars == <<clock, queue, failed, pending, active, dirty, snap, late, w, lRow, svc, faults>>
vars == <<part, headVars, identityVars, certifierVars, gcVars>>

HeadParts == {"tree", "cross", "locks"}
IdentityParts == {"commitID", "objectID"}
CertifierParts == {"baseline", "moves", "sha1"}
QueueParts == {"queue", "overlap", "lateCalls", "twoLeaders"}
LeaseParts == {"slow", "faulty"}

\* The variables of the parts that are not there.
NoHead ==
    /\ hist = None /\ rows = None /\ wk = None /\ held = None
NoIdentity ==
    /\ iClaim = None /\ iRow = None /\ legacy = None /\ iPc = None /\ inp = None /\ auth = None /\ dpc = None
    /\ saw = None
NoCertifier ==
    /\ lib = None /\ cHead = None /\ witness = None /\ cRow = None /\ mapped = None /\ ref = None /\ key = None
    /\ cClaim = None /\ orphan = None /\ obj = None /\ gpc = None /\ cPc = None /\ obs = None /\ todo = None
    /\ seen = None /\ deps = None /\ resolved = None /\ pass = None /\ left = None /\ cur = None /\ loc = None
NoQueue ==
    /\ clock = None /\ queue = None /\ failed = None /\ pending = None /\ active = None /\ dirty = None /\ snap = None
    /\ late = None /\ w = None
NoLease ==
    /\ lRow = None /\ svc = None /\ faults = None

Init ==
    /\ part \in HeadParts \cup IdentityParts \cup CertifierParts \cup QueueParts \cup LeaseParts
    /\ CASE part = "tree" -> Tree!Init [] part = "cross" -> Cross!Init [] part = "locks" -> Locks!Init [] OTHER -> NoHead
    /\ CASE part = "commitID" -> CommitID!Init [] part = "objectID" -> ObjectID!Init [] OTHER -> NoIdentity
    /\ CASE part = "baseline" -> Baseline!Init [] part = "moves" -> Moves!Init [] part = "sha1" -> SHA1!Init
         [] OTHER -> NoCertifier
    /\ CASE part = "queue" -> Queue!Init [] part = "overlap" -> Overlap!Init [] part = "lateCalls" -> LateCalls!Init
         [] part = "twoLeaders" -> TwoLeaders!Init [] OTHER -> NoQueue
    /\ CASE part = "slow" -> Slow!Init [] part = "faulty" -> Faulty!Init [] OTHER -> NoLease

OnlyHead == UNCHANGED <<part, identityVars, certifierVars, gcVars>>
TreeStep == part = "tree" /\ Tree!Next /\ OnlyHead
CrossStep == part = "cross" /\ Cross!Next /\ OnlyHead
LocksStep == part = "locks" /\ Locks!Next /\ OnlyHead

OnlyIdentity == UNCHANGED <<part, headVars, certifierVars, gcVars>>
CommitIDStep == part = "commitID" /\ CommitID!Next /\ OnlyIdentity
ObjectIDStep == part = "objectID" /\ ObjectID!Next /\ OnlyIdentity

OnlyCertifier == UNCHANGED <<part, headVars, identityVars, gcVars>>
BaselineStep == part = "baseline" /\ Baseline!Next /\ OnlyCertifier
MovesStep == part = "moves" /\ Moves!Next /\ OnlyCertifier
SHA1Step == part = "sha1" /\ SHA1!Next /\ OnlyCertifier

OnlyQueue == UNCHANGED <<part, headVars, identityVars, certifierVars, lRow, svc, faults>>
QueueStep == part = "queue" /\ Queue!Next /\ OnlyQueue
OverlapStep == part = "overlap" /\ Overlap!Next /\ OnlyQueue
LateCallsStep == part = "lateCalls" /\ LateCalls!Next /\ OnlyQueue
TwoLeadersStep == part = "twoLeaders" /\ TwoLeaders!Next /\ OnlyQueue

OnlyLease == UNCHANGED <<part, headVars, identityVars, certifierVars,
                         clock, queue, failed, pending, active, dirty, snap, late, w>>
SlowStep == part = "slow" /\ Slow!Next /\ OnlyLease
FaultyStep == part = "faulty" /\ Faulty!Next /\ OnlyLease

Next ==
    \/ TreeStep \/ CrossStep \/ LocksStep \/ CommitIDStep \/ ObjectIDStep
    \/ BaselineStep \/ MovesStep \/ SHA1Step
    \/ QueueStep \/ OverlapStep \/ LateCallsStep \/ TwoLeadersStep \/ SlowStep \/ FaultyStep

Spec == Init /\ [][Next]_vars

\* The workers, writers or instances p1 and p2 are alike.
Symmetric == Permutations({p1, p2})

-----------------------------------------------------------------------------
\* Every variable has its type.
TypeOK ==
    CASE part = "tree" -> Tree!TypeOK [] part = "cross" -> Cross!TypeOK [] part = "locks" -> Locks!TypeOK
      [] part = "commitID" -> CommitID!TypeOK [] part = "objectID" -> ObjectID!TypeOK
      [] part = "baseline" -> Baseline!TypeOK [] part = "moves" -> Moves!TypeOK [] part = "sha1" -> SHA1!TypeOK
      [] part = "queue" -> Queue!TypeOK [] part = "overlap" -> Overlap!TypeOK
      [] part = "lateCalls" -> LateCalls!TypeOK [] part = "twoLeaders" -> TwoLeaders!TypeOK
      [] part = "slow" -> Slow!TypeOK [] part = "faulty" -> Faulty!TypeOK

\* The history of a library is serial: every commit is the effect of one request on the commit before
\* it, and no request is in it twice, though answers of the compare-and-set on HEAD are lost and
\* requests try again (fs_helpers.go: UpdateLibraryHead, resolveLibraryHeadUpdateError).
SerialHistory ==
    /\ part = "tree" => Tree!SerialHistory /\ Tree!AppliedOnce
    /\ part = "cross" => Cross!SerialHistory /\ Cross!AppliedOnce

\* What a move takes from one library is in the other, whichever of the two publications fails, is lost
\* or meets another request (batch_operations.go: shouldSkipSourceRemovalAfterMove).
MovedNotLost == part = "cross" => Cross!MovedNotLost

\* The locks of files hold: a file that another user locked before a request began is not removed, moved
\* or overwritten by it, and a lock disappears, moves or changes hands only by a request of its holder
\* (files.go: the lock checks of the handlers; file_locks.go: ClearLocksUnder, RelocateLocksUnder).
LocksKept ==
    [][/\ part = "tree" => Tree!LockedFileKept
       /\ part = "locks" => Locks!HolderTouchesLock]_vars

\* No step undoes what it does not know of: a row from before the claims that has another content is
\* neither overwritten nor deleted; the witness is set to the HEAD of the moment only, and a certified
\* answer is true when given (identity_gateway.go: verifySource; continuity:
\* CommitLibraryContinuityWitness).
StepsKeepOthers ==
    [][/\ part = "commitID" => CommitID!LegacyKept
       /\ part = "objectID" => ObjectID!LegacyKept
       /\ part = "baseline" => Baseline!AnswerTrue
       /\ part = "moves" => Moves!AnswerTrue
       /\ part = "sha1" => SHA1!AnswerTrue]_vars

\* An id never names two contents: rows and what writers may write have the digest that was claimed
\* first, a retry of the same content is accepted (identity gateway: ClaimIdentityAuthorityAt).
IdentityKept ==
    /\ part = "commitID" => CommitID!RowsMatchClaim /\ CommitID!RetriesAccepted /\ CommitID!AuthorizedMatch
    /\ part = "objectID" => ObjectID!RowsMatchClaim /\ ObjectID!RetriesAccepted /\ ObjectID!AuthorizedMatch

\* While the witness of a library is valid, everything a reader of HEAD needs is stored, permanently
\* referenced and out of the reach of a deletion under way; what the certifier has checked stays so
\* until it writes the witness (continuity certifier: CertifyLibraryBaseline).
WitnessSafe ==
    /\ part = "baseline" => Baseline!WitnessSafe /\ Baseline!CheckedSafe
    /\ part = "moves" => Moves!WitnessSafe /\ Moves!CheckedSafe
    /\ part = "sha1" => SHA1!WitnessSafe /\ SHA1!CheckedSafe


\* The leader's flag is right while its heartbeat is fresh: an instance of the garbage collector that
\* believes it leads owns the row until the heartbeat it wrote last is two renewals old, whatever the
\* others insert, take over or release and however late its answers come; and one that releases the row
\* has no pass or mutation running (gc/lease.go: TryAcquireOrRenew, TryTakeoverIfStale; gc.go: finishStop).
FreshLeaderOwns ==
    /\ part = "slow" => Slow!FreshLeaderOwns /\ Slow!NoWorkAfterRelease
    /\ part = "faulty" => Faulty!FreshLeaderOwns /\ Faulty!NoWorkAfterRelease

\* An instance that has lost the lease does not believe in it for ever: its flag is FALSE one renewal and
\* three calls after the heartbeat it wrote last, though its two threads answer out of order (gc/lease.go:
\* TryAcquireOrRenew; gc.go: runLeaseRenewalLoop).
BeliefEnds ==
    /\ part = "slow" => Slow!BeliefEnds
    /\ part = "faulty" => Faulty!BeliefEnds
=============================================================================
