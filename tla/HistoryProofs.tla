---------------------------- MODULE HistoryProofs ----------------------------
(***************************************************************************)
(* The parts of MCHistory share no state: a behaviour of it in which part  *)
(* p is active is a behaviour of the specification of p.                   *)
(***************************************************************************)
EXTENDS MCHistory, TLAPS

-----------------------------------------------------------------------------
\* The active part never changes.
LEMMA PartStays == [Next]_vars => UNCHANGED part
BY DEF Next, vars, TreeStep, CrossStep, LocksStep, CommitIDStep, ObjectIDStep, BaselineStep, MovesStep, SHA1Step,
       QueueStep, OverlapStep, LateCallsStep, TwoLeadersStep, SlowStep, FaultyStep, OnlyHead, OnlyIdentity, OnlyCertifier, OnlyQueue, OnlyLease

\* With calls that take time.
LEMMA SlowIsLease == Spec /\ part = "slow" => [](part = "slow") /\ Slow!Spec
<1>1. Init /\ part = "slow" => Slow!Init
  BY DEF Init
<1>2. part = "slow" /\ [Next]_vars => [Slow!Next]_(Slow!vars)
  BY DEF Next, vars, TreeStep, CrossStep, LocksStep, CommitIDStep, ObjectIDStep, BaselineStep, MovesStep, SHA1Step,
         QueueStep, OverlapStep, LateCallsStep, TwoLeadersStep, SlowStep, FaultyStep, Slow!vars, gcVars
<1>3. part = "slow" /\ [Next]_vars => (part = "slow")'
  BY PartStays
<1> QED
  BY <1>1, <1>2, <1>3, PTL DEF Spec, Slow!Spec

\* With answers that are lost.
LEMMA FaultyIsLease == Spec /\ part = "faulty" => [](part = "faulty") /\ Faulty!Spec
<1>1. Init /\ part = "faulty" => Faulty!Init
  BY DEF Init
<1>2. part = "faulty" /\ [Next]_vars => [Faulty!Next]_(Faulty!vars)
  BY DEF Next, vars, TreeStep, CrossStep, LocksStep, CommitIDStep, ObjectIDStep, BaselineStep, MovesStep, SHA1Step,
         QueueStep, OverlapStep, LateCallsStep, TwoLeadersStep, SlowStep, FaultyStep, Faulty!vars, gcVars
<1>3. part = "faulty" /\ [Next]_vars => (part = "faulty")'
  BY PartStays
<1> QED
  BY <1>1, <1>2, <1>3, PTL DEF Spec, Faulty!Spec

\* The run History checks that a fresh leader owns the row on its instances; this is
\* GCLeaseProofs!FreshLeader for them.
THEOREM FreshLeaderInHistory == Spec => []FreshLeaderOwns
<1>1. Slow!LeaseAssumption /\ Faulty!LeaseAssumption
  BY LeasesAssumption
<1>2. Slow!Spec => [](Slow!FreshLeaderOwns /\ Slow!NoWorkAfterRelease)
  BY <1>1, Slow!FreshLeader
<1>3. Faulty!Spec => [](Faulty!FreshLeaderOwns /\ Faulty!NoWorkAfterRelease)
  BY <1>1, Faulty!FreshLeader
<1>4. part = "slow" /\ Slow!FreshLeaderOwns /\ Slow!NoWorkAfterRelease => FreshLeaderOwns
  BY DEF FreshLeaderOwns
<1>5. part = "faulty" /\ Faulty!FreshLeaderOwns /\ Faulty!NoWorkAfterRelease => FreshLeaderOwns
  BY DEF FreshLeaderOwns
<1>6. part \notin LeaseParts => FreshLeaderOwns
  BY DEF FreshLeaderOwns, LeaseParts
<1>7. part \notin LeaseParts /\ [Next]_vars => (part \notin LeaseParts)'
  BY PartStays DEF LeaseParts
<1>8. part \notin LeaseParts \/ part = "slow" \/ part = "faulty"
  BY DEF LeaseParts
<1> QED
  BY <1>2, <1>3, <1>4, <1>5, <1>6, <1>7, <1>8, SlowIsLease, FaultyIsLease, PTL DEF Spec

-----------------------------------------------------------------------------
\* The writers and the deleter of a commit.
LEMMA CommitIDIsIdentity == Spec /\ part = "commitID" => [](part = "commitID") /\ CommitID!Spec
<1>1. Init /\ part = "commitID" => CommitID!Init
  BY DEF Init
<1>2. part = "commitID" /\ [Next]_vars => [CommitID!Next]_(CommitID!vars)
  BY DEF Next, vars, TreeStep, CrossStep, LocksStep, CommitIDStep, ObjectIDStep, BaselineStep, MovesStep, SHA1Step,
         QueueStep, OverlapStep, LateCallsStep, TwoLeadersStep, SlowStep, FaultyStep, CommitID!vars, CommitID!writers, CommitID!deleters, identityVars
<1>3. part = "commitID" /\ [Next]_vars => (part = "commitID")'
  BY PartStays
<1> QED
  BY <1>1, <1>2, <1>3, PTL DEF Spec, CommitID!Spec

\* The writers and the deleter of an fs object.
LEMMA ObjectIDIsIdentity == Spec /\ part = "objectID" => [](part = "objectID") /\ ObjectID!Spec
<1>1. Init /\ part = "objectID" => ObjectID!Init
  BY DEF Init
<1>2. part = "objectID" /\ [Next]_vars => [ObjectID!Next]_(ObjectID!vars)
  BY DEF Next, vars, TreeStep, CrossStep, LocksStep, CommitIDStep, ObjectIDStep, BaselineStep, MovesStep, SHA1Step,
         QueueStep, OverlapStep, LateCallsStep, TwoLeadersStep, SlowStep, FaultyStep, ObjectID!vars, ObjectID!writers, ObjectID!deleters, identityVars
<1>3. part = "objectID" /\ [Next]_vars => (part = "objectID")'
  BY PartStays
<1> QED
  BY <1>1, <1>2, <1>3, PTL DEF Spec, ObjectID!Spec

\* The run History checks that an id names one content on its instances; this is
\* ObjectIdentityProofs!OneContentPerId for them (identity_authority.go, identity_gateway.go).
THEOREM IdentityKeptInHistory == Spec => []IdentityKept
<1> DEFINE CommitKept == CommitID!RowsMatchClaim /\ CommitID!AuthorizedMatch /\ CommitID!RetriesAccepted
           ObjectKept == ObjectID!RowsMatchClaim /\ ObjectID!AuthorizedMatch /\ ObjectID!RetriesAccepted
           Other == part # "commitID" /\ part # "objectID"
<1>1. CommitID!Spec => []CommitKept
  <2>1. CommitID!IdentityAssumption /\ CommitID!LegacyAssumption
    BY IdentitiesAssumption
  <2> QED
    BY <2>1, CommitID!OneContentPerId
<1>2. ObjectID!Spec => []ObjectKept
  <2>1. ObjectID!IdentityAssumption /\ ObjectID!LegacyAssumption
    BY IdentitiesAssumption
  <2> QED
    BY <2>1, ObjectID!OneContentPerId
<1>3. part = "commitID" /\ CommitKept => IdentityKept
  BY DEF IdentityKept
<1>4. part = "objectID" /\ ObjectKept => IdentityKept
  BY DEF IdentityKept
<1>5. Other => IdentityKept
  BY DEF IdentityKept
<1>6. Other /\ [Next]_vars => Other'
  BY PartStays
<1>7. Other \/ part = "commitID" \/ part = "objectID"
  OBVIOUS
<1> HIDE DEF CommitKept, ObjectKept, Other
<1> QED
  BY <1>1, <1>2, <1>3, <1>4, <1>5, <1>6, <1>7, CommitIDIsIdentity, ObjectIDIsIdentity, PTL DEF Spec

-----------------------------------------------------------------------------
\* One worker and one caller.
LEMMA QueueIsQueue == Spec /\ part = "queue" => [](part = "queue") /\ Queue!Spec
<1>1. Init /\ part = "queue" => Queue!Init
  BY DEF Init
<1>2. part = "queue" /\ [Next]_vars => [Queue!Next]_(Queue!vars)
  BY DEF Next, vars, TreeStep, CrossStep, LocksStep, CommitIDStep, ObjectIDStep, BaselineStep, MovesStep, SHA1Step,
         QueueStep, OverlapStep, LateCallsStep, TwoLeadersStep, SlowStep, FaultyStep, Queue!vars, gcVars
<1>3. part = "queue" /\ [Next]_vars => (part = "queue")'
  BY PartStays
<1> QED
  BY <1>1, <1>2, <1>3, PTL DEF Spec, Queue!Spec

\* Callers that overlap.
LEMMA OverlapIsQueue == Spec /\ part = "overlap" => [](part = "overlap") /\ Overlap!Spec
<1>1. Init /\ part = "overlap" => Overlap!Init
  BY DEF Init
<1>2. part = "overlap" /\ [Next]_vars => [Overlap!Next]_(Overlap!vars)
  BY DEF Next, vars, TreeStep, CrossStep, LocksStep, CommitIDStep, ObjectIDStep, BaselineStep, MovesStep, SHA1Step,
         QueueStep, OverlapStep, LateCallsStep, TwoLeadersStep, SlowStep, FaultyStep, Overlap!vars, gcVars
<1>3. part = "overlap" /\ [Next]_vars => (part = "overlap")'
  BY PartStays
<1> QED
  BY <1>1, <1>2, <1>3, PTL DEF Spec, Overlap!Spec

\* Callers that overlap, and late batches.
LEMMA LateCallsIsQueue == Spec /\ part = "lateCalls" => [](part = "lateCalls") /\ LateCalls!Spec
<1>1. Init /\ part = "lateCalls" => LateCalls!Init
  BY DEF Init
<1>2. part = "lateCalls" /\ [Next]_vars => [LateCalls!Next]_(LateCalls!vars)
  BY DEF Next, vars, TreeStep, CrossStep, LocksStep, CommitIDStep, ObjectIDStep, BaselineStep, MovesStep, SHA1Step,
         QueueStep, OverlapStep, LateCallsStep, TwoLeadersStep, SlowStep, FaultyStep, LateCalls!vars, gcVars
<1>3. part = "lateCalls" /\ [Next]_vars => (part = "lateCalls")'
  BY PartStays
<1> QED
  BY <1>1, <1>2, <1>3, PTL DEF Spec, LateCalls!Spec

\* Two workers and late batches.
LEMMA TwoLeadersIsQueue == Spec /\ part = "twoLeaders" => [](part = "twoLeaders") /\ TwoLeaders!Spec
<1>1. Init /\ part = "twoLeaders" => TwoLeaders!Init
  BY DEF Init
<1>2. part = "twoLeaders" /\ [Next]_vars => [TwoLeaders!Next]_(TwoLeaders!vars)
  BY DEF Next, vars, TreeStep, CrossStep, LocksStep, CommitIDStep, ObjectIDStep, BaselineStep, MovesStep, SHA1Step,
         QueueStep, OverlapStep, LateCallsStep, TwoLeadersStep, SlowStep, FaultyStep, TwoLeaders!vars, gcVars
<1>3. part = "twoLeaders" /\ [Next]_vars => (part = "twoLeaders")'
  BY PartStays
<1> QED
  BY <1>1, <1>2, <1>3, PTL DEF Spec, TwoLeaders!Spec

\* The part of QueueKeeps that holds whatever overlaps: no pending row stands for nothing, and where
\* nothing is taken back and no batch is late the rows are found.  These are GCQueueProofs!NothingLost
\* and GCQueueProofs!RowsFound for the instances of the run History (store_cassandra.go: EnqueueBatch,
\* RequeueItem, FailItem, CompleteItem, DeleteExpiredFailedItem).  PendingCovers and OneHome, which the
\* run checks for one caller and one worker, are not claimed.
THEOREM QueueKeptInHistory ==
    Spec => [](/\ part = "queue" => Queue!NotLost
               /\ part = "overlap" => Overlap!NotLost /\ Overlap!QueueFindable
               /\ part = "lateCalls" => LateCalls!NotLost
               /\ part = "twoLeaders" => TwoLeaders!NotLost)
<1> DEFINE Kept == /\ part = "queue" => Queue!NotLost
                   /\ part = "overlap" => Overlap!NotLost /\ Overlap!QueueFindable
                   /\ part = "lateCalls" => LateCalls!NotLost
                   /\ part = "twoLeaders" => TwoLeaders!NotLost
           Other == part \notin QueueParts
<1>1. Queue!Spec => []Queue!NotLost
  BY QueuesAssumption, Queue!NothingLost
<1>2. Overlap!Spec => []Overlap!NotLost
  BY QueuesAssumption, Overlap!NothingLost
<1>3. Overlap!Spec => []Overlap!QueueFindable
  <2>1. Overlap!QueueAssumption
    BY QueuesAssumption
  <2>2. ~FALSE /\ "take back" \notin AllCalls \ {"take back"}
    OBVIOUS
  <2> QED
    BY <2>1, <2>2, Overlap!RowsFound
<1>4. LateCalls!Spec => []LateCalls!NotLost
  BY QueuesAssumption, LateCalls!NothingLost
<1>5. TwoLeaders!Spec => []TwoLeaders!NotLost
  BY QueuesAssumption, TwoLeaders!NothingLost
<1>6. /\ part = "queue" /\ Queue!NotLost => Kept
      /\ part = "overlap" /\ Overlap!NotLost /\ Overlap!QueueFindable => Kept
      /\ part = "lateCalls" /\ LateCalls!NotLost => Kept
      /\ part = "twoLeaders" /\ TwoLeaders!NotLost => Kept
  OBVIOUS
<1>7. Other => Kept
  BY DEF QueueParts
<1>8. Other /\ [Next]_vars => Other'
  BY PartStays
<1>9. Other \/ part = "queue" \/ part = "overlap" \/ part = "lateCalls" \/ part = "twoLeaders"
  BY DEF QueueParts
<1> HIDE DEF Kept, Other
<1>10. Spec => []Kept
  BY <1>1, <1>2, <1>3, <1>4, <1>5, <1>6, <1>7, <1>8, <1>9, QueueIsQueue, OverlapIsQueue, LateCallsIsQueue,
     TwoLeadersIsQueue, PTL DEF Spec
<1> QED
  BY <1>10 DEF Kept

-----------------------------------------------------------------------------
\* One commit in any state.
LEMMA BaselineIsCertifier == Spec /\ part = "baseline" => [](part = "baseline") /\ Baseline!Spec
<1>1. Init /\ part = "baseline" => Baseline!Init
  BY DEF Init
<1>2. part = "baseline" /\ [Next]_vars => [Baseline!Next]_(Baseline!vars)
  BY DEF Next, vars, TreeStep, CrossStep, LocksStep, CommitIDStep, ObjectIDStep, BaselineStep, MovesStep, SHA1Step,
         QueueStep, OverlapStep, LateCallsStep, TwoLeadersStep, SlowStep, FaultyStep, Baseline!vars, Baseline!library, Baseline!blocks, Baseline!walk, Baseline!checks, certifierVars
<1>3. part = "baseline" /\ [Next]_vars => (part = "baseline")'
  BY PartStays
<1> QED
  BY <1>1, <1>2, <1>3, PTL DEF Spec, Baseline!Spec

\* A commit that is replaced while it is certified.
LEMMA MovesIsCertifier == Spec /\ part = "moves" => [](part = "moves") /\ Moves!Spec
<1>1. Init /\ part = "moves" => Moves!Init
  BY DEF Init
<1>2. part = "moves" /\ [Next]_vars => [Moves!Next]_(Moves!vars)
  BY DEF Next, vars, TreeStep, CrossStep, LocksStep, CommitIDStep, ObjectIDStep, BaselineStep, MovesStep, SHA1Step,
         QueueStep, OverlapStep, LateCallsStep, TwoLeadersStep, SlowStep, FaultyStep, Moves!vars, Moves!library, Moves!blocks, Moves!walk, Moves!checks, certifierVars
<1>3. part = "moves" /\ [Next]_vars => (part = "moves")'
  BY PartStays
<1> QED
  BY <1>1, <1>2, <1>3, PTL DEF Spec, Moves!Spec

\* A file with a SHA-1 id.
LEMMA SHA1IsCertifier == Spec /\ part = "sha1" => [](part = "sha1") /\ SHA1!Spec
<1>1. Init /\ part = "sha1" => SHA1!Init
  BY DEF Init
<1>2. part = "sha1" /\ [Next]_vars => [SHA1!Next]_(SHA1!vars)
  BY DEF Next, vars, TreeStep, CrossStep, LocksStep, CommitIDStep, ObjectIDStep, BaselineStep, MovesStep, SHA1Step,
         QueueStep, OverlapStep, LateCallsStep, TwoLeadersStep, SlowStep, FaultyStep, SHA1!vars, SHA1!library, SHA1!blocks, SHA1!walk, SHA1!checks, certifierVars
<1>3. part = "sha1" /\ [Next]_vars => (part = "sha1")'
  BY PartStays
<1> QED
  BY <1>1, <1>2, <1>3, PTL DEF Spec, SHA1!Spec

\* The run History checks the witness on its instances; this is CertifierProofs!WitnessHolds for them
\* (continuity certifier: CertifyLibraryBaseline).
THEOREM WitnessSafeInHistory == Spec => []WitnessSafe
<1> DEFINE BaselineSafe == Baseline!WitnessSafe /\ Baseline!CheckedSafe
           MovesSafe == Moves!WitnessSafe /\ Moves!CheckedSafe
           SHA1Safe == SHA1!WitnessSafe /\ SHA1!CheckedSafe
           Other == part \notin CertifierParts
<1>1. Baseline!Spec => []BaselineSafe
  <2>1. Baseline!CertifierAssumption
    BY CertifiersAssumption
  <2> QED
    BY <2>1, Baseline!WitnessHolds
<1>2. Moves!Spec => []MovesSafe
  <2>1. Moves!CertifierAssumption
    BY CertifiersAssumption
  <2> QED
    BY <2>1, Moves!WitnessHolds
<1>3. SHA1!Spec => []SHA1Safe
  <2>1. SHA1!CertifierAssumption
    BY CertifiersAssumption
  <2> QED
    BY <2>1, SHA1!WitnessHolds
<1>4. part = "baseline" /\ BaselineSafe => WitnessSafe
  BY DEF WitnessSafe
<1>5. part = "moves" /\ MovesSafe => WitnessSafe
  BY DEF WitnessSafe
<1>6. part = "sha1" /\ SHA1Safe => WitnessSafe
  BY DEF WitnessSafe
<1>7. Other => WitnessSafe
  BY DEF WitnessSafe, CertifierParts
<1>8. Other /\ [Next]_vars => Other'
  BY PartStays
<1>9. Other \/ part = "baseline" \/ part = "moves" \/ part = "sha1"
  BY DEF CertifierParts
<1> HIDE DEF BaselineSafe, MovesSafe, SHA1Safe, Other
<1> QED
  BY <1>1, <1>2, <1>3, <1>4, <1>5, <1>6, <1>7, <1>8, <1>9, BaselineIsCertifier, MovesIsCertifier, SHA1IsCertifier, PTL DEF Spec

\* The run History checks that no step undoes what it does not know of; for its instances this is
\* ObjectIdentityProofs!LegacyRowsKept and CertifierProofs!AnswersAreTrue (identity_gateway.go:
\* verifySource; continuity: CommitLibraryContinuityWitness).
THEOREM StepsKeepOthersInHistory == Spec => StepsKeepOthers
<1> DEFINE Keeps == /\ part = "commitID" => CommitID!LegacyKept
                    /\ part = "objectID" => ObjectID!LegacyKept
                    /\ part = "baseline" => Baseline!AnswerTrue
                    /\ part = "moves" => Moves!AnswerTrue
                    /\ part = "sha1" => SHA1!AnswerTrue
           Other == part \notin IdentityParts \cup CertifierParts
<1> USE DEF Next, TreeStep, CrossStep, LocksStep, CommitIDStep, ObjectIDStep, BaselineStep, MovesStep, SHA1Step,
            QueueStep, OverlapStep, LateCallsStep, TwoLeadersStep, SlowStep, FaultyStep, vars
<1>1. part = "commitID" /\ [Next]_vars /\ [CommitID!LegacyKept]_(CommitID!vars) => [Keeps]_vars
  BY DEF CommitID!vars, CommitID!writers, CommitID!deleters, identityVars, OnlyIdentity
<1>2. part = "objectID" /\ [Next]_vars /\ [ObjectID!LegacyKept]_(ObjectID!vars) => [Keeps]_vars
  BY DEF ObjectID!vars, ObjectID!writers, ObjectID!deleters, identityVars, OnlyIdentity
<1>3. part = "baseline" /\ [Next]_vars /\ [Baseline!AnswerTrue]_(Baseline!vars) => [Keeps]_vars
  BY DEF Baseline!vars, Baseline!library, Baseline!blocks, Baseline!walk, Baseline!checks, certifierVars, OnlyCertifier
<1>4. part = "moves" /\ [Next]_vars /\ [Moves!AnswerTrue]_(Moves!vars) => [Keeps]_vars
  BY DEF Moves!vars, Moves!library, Moves!blocks, Moves!walk, Moves!checks, certifierVars, OnlyCertifier
<1>5. part = "sha1" /\ [Next]_vars /\ [SHA1!AnswerTrue]_(SHA1!vars) => [Keeps]_vars
  BY ZenonT(40) DEF SHA1!vars, SHA1!library, SHA1!blocks, SHA1!walk, SHA1!checks, certifierVars, OnlyCertifier
<1>6. Other => [Keeps]_vars
  BY DEF IdentityParts, CertifierParts
<1>7. Other /\ [Next]_vars => Other'
  BY PartStays
<1>8. Other \/ part = "commitID" \/ part = "objectID" \/ part = "baseline" \/ part = "moves" \/ part = "sha1"
  BY DEF IdentityParts, CertifierParts
<1>9. /\ CommitID!Spec => [][CommitID!LegacyKept]_(CommitID!vars)
      /\ ObjectID!Spec => [][ObjectID!LegacyKept]_(ObjectID!vars)
  BY IdentitiesAssumption, CommitID!LegacyRowsKept, ObjectID!LegacyRowsKept
<1>10. /\ Baseline!Spec => [][Baseline!AnswerTrue]_(Baseline!vars)
       /\ Moves!Spec => [][Moves!AnswerTrue]_(Moves!vars)
       /\ SHA1!Spec => [][SHA1!AnswerTrue]_(SHA1!vars)
  BY Baseline!AnswersAreTrue, Moves!AnswersAreTrue, SHA1!AnswersAreTrue
<1>11. ([][Keeps]_vars) <=> StepsKeepOthers
  BY DEF StepsKeepOthers
<1> HIDE DEF Other, Keeps, Next, TreeStep, CrossStep, LocksStep, CommitIDStep, ObjectIDStep, BaselineStep, MovesStep, SHA1Step,
             QueueStep, OverlapStep, LateCallsStep, TwoLeadersStep, SlowStep, FaultyStep, vars
<1>12. Spec /\ part = "commitID" => [][Keeps]_vars
  BY <1>1, <1>9, CommitIDIsIdentity, PTL DEF Spec
<1>13. Spec /\ part = "objectID" => [][Keeps]_vars
  BY <1>2, <1>9, ObjectIDIsIdentity, PTL DEF Spec
<1>14. Spec /\ part = "baseline" => [][Keeps]_vars
  BY <1>3, <1>10, BaselineIsCertifier, PTL DEF Spec
<1>15. Spec /\ part = "moves" => [][Keeps]_vars
  BY <1>4, <1>10, MovesIsCertifier, PTL DEF Spec
<1>16. Spec /\ part = "sha1" => [][Keeps]_vars
  BY <1>5, <1>10, SHA1IsCertifier, PTL DEF Spec
<1>17. Spec /\ Other => [][Keeps]_vars
  BY <1>6, <1>7, PTL DEF Spec
<1> QED
  BY <1>8, <1>11, <1>12, <1>13, <1>14, <1>15, <1>16, <1>17

-----------------------------------------------------------------------------
\* Everything that publishes in one library.
LEMMA TreeIsHead == Spec /\ part = "tree" => [](part = "tree") /\ Tree!Spec
<1>1. Init /\ part = "tree" => Tree!Init
  BY DEF Init
<1>2. part = "tree" /\ [Next]_vars => [Tree!Next]_(Tree!vars)
  BY DEF Next, vars, TreeStep, CrossStep, LocksStep, CommitIDStep, ObjectIDStep, BaselineStep, MovesStep, SHA1Step,
         QueueStep, OverlapStep, LateCallsStep, TwoLeadersStep, SlowStep, FaultyStep, Tree!vars, headVars
<1>3. part = "tree" /\ [Next]_vars => (part = "tree")'
  BY PartStays
<1> QED
  BY <1>1, <1>2, <1>3, PTL DEF Spec, Tree!Spec

\* Moves and copies between libraries.
LEMMA CrossIsHead == Spec /\ part = "cross" => [](part = "cross") /\ Cross!Spec
<1>1. Init /\ part = "cross" => Cross!Init
  BY DEF Init
<1>2. part = "cross" /\ [Next]_vars => [Cross!Next]_(Cross!vars)
  BY DEF Next, vars, TreeStep, CrossStep, LocksStep, CommitIDStep, ObjectIDStep, BaselineStep, MovesStep, SHA1Step,
         QueueStep, OverlapStep, LateCallsStep, TwoLeadersStep, SlowStep, FaultyStep, Cross!vars, headVars
<1>3. part = "cross" /\ [Next]_vars => (part = "cross")'
  BY PartStays
<1> QED
  BY <1>1, <1>2, <1>3, PTL DEF Spec, Cross!Spec

\* Locks, unlocks and what changes their rows.
LEMMA LocksIsHead == Spec /\ part = "locks" => [](part = "locks") /\ Locks!Spec
<1>1. Init /\ part = "locks" => Locks!Init
  BY DEF Init
<1>2. part = "locks" /\ [Next]_vars => [Locks!Next]_(Locks!vars)
  BY DEF Next, vars, TreeStep, CrossStep, LocksStep, CommitIDStep, ObjectIDStep, BaselineStep, MovesStep, SHA1Step,
         QueueStep, OverlapStep, LateCallsStep, TwoLeadersStep, SlowStep, FaultyStep, Locks!vars, headVars
<1>3. part = "locks" /\ [Next]_vars => (part = "locks")'
  BY PartStays
<1> QED
  BY <1>1, <1>2, <1>3, PTL DEF Spec, Locks!Spec

\* The run History checks serial histories on its instances; this is LibraryHeadProofs!HistoryIsSerial
\* for them (fs_helpers.go: UpdateLibraryHead, resolveLibraryHeadUpdateError).
THEOREM SerialInHistory == Spec => []SerialHistory
<1> DEFINE TreeSerial == Tree!SerialHistory /\ Tree!AppliedOnce
           CrossSerial == Cross!SerialHistory /\ Cross!AppliedOnce
           Other == part # "tree" /\ part # "cross"
<1>1. Tree!Spec => []TreeSerial
  BY HeadsAssumption, Tree!HistoryIsSerial
<1>2. Cross!Spec => []CrossSerial
  BY HeadsAssumption, Cross!HistoryIsSerial
<1>3. part = "tree" /\ TreeSerial => SerialHistory
  BY DEF SerialHistory
<1>4. part = "cross" /\ CrossSerial => SerialHistory
  BY DEF SerialHistory
<1>5. Other => SerialHistory
  BY DEF SerialHistory
<1>6. Other /\ [Next]_vars => Other'
  BY PartStays
<1>7. Other \/ part = "tree" \/ part = "cross"
  OBVIOUS
<1> HIDE DEF TreeSerial, CrossSerial, Other
<1> QED
  BY <1>1, <1>2, <1>3, <1>4, <1>5, <1>6, <1>7, TreeIsHead, CrossIsHead, PTL DEF Spec

\* The run History checks that a move loses no file on its instance; this is
\* LibraryHeadProofs!MovesLoseNothing for it (batch_operations.go: shouldSkipSourceRemovalAfterMove).
THEOREM MovedInHistory == Spec => []MovedNotLost
<1>1. Cross!Spec => []Cross!MovedNotLost
  BY HeadsAssumption, Cross!MovesLoseNothing
<1>2. part = "cross" /\ Cross!MovedNotLost => MovedNotLost
  BY DEF MovedNotLost
<1>3. part # "cross" => MovedNotLost
  BY DEF MovedNotLost
<1>4. part # "cross" /\ [Next]_vars => (part # "cross")'
  BY PartStays
<1>5. part # "cross" \/ part = "cross"
  OBVIOUS
<1> QED
  BY <1>1, <1>2, <1>3, <1>4, <1>5, CrossIsHead, PTL DEF Spec

\* The run History checks the locks on its instances; these are LibraryHeadProofs!LocksKeepFiles and
\* LibraryHeadProofs!HoldersKeepLocks for them (files.go: the lock checks; file_locks.go: ClearLocksUnder).
THEOREM LocksKeptInHistory == Spec => LocksKept
<1> DEFINE Keeps == /\ part = "tree" => Tree!LockedFileKept
                    /\ part = "locks" => Locks!HolderTouchesLock
           Other == part # "tree" /\ part # "locks"
<1> USE DEF Next, TreeStep, CrossStep, LocksStep, CommitIDStep, ObjectIDStep, BaselineStep, MovesStep, SHA1Step,
            QueueStep, OverlapStep, LateCallsStep, TwoLeadersStep, SlowStep, FaultyStep, vars
<1>1. part = "tree" /\ [Next]_vars /\ [Tree!LockedFileKept]_(Tree!vars) => [Keeps]_vars
  BY DEF Tree!vars, headVars, OnlyHead
<1>2. part = "locks" /\ [Next]_vars /\ [Locks!HolderTouchesLock]_(Locks!vars) => [Keeps]_vars
  BY DEF Locks!vars, headVars, OnlyHead
<1>3. Other => [Keeps]_vars
  OBVIOUS
<1>4. Other /\ [Next]_vars => Other'
  BY PartStays
<1>5. Other \/ part = "tree" \/ part = "locks"
  OBVIOUS
<1>6. /\ Tree!Spec => [][Tree!LockedFileKept]_(Tree!vars)
      /\ Locks!Spec => [][Locks!HolderTouchesLock]_(Locks!vars)
  BY HeadsAssumption, Tree!LocksKeepFiles, Locks!HoldersKeepLocks
<1>7. ([][Keeps]_vars) <=> LocksKept
  BY DEF LocksKept
<1> HIDE DEF Other, Keeps, Next, TreeStep, CrossStep, LocksStep, CommitIDStep, ObjectIDStep, BaselineStep, MovesStep, SHA1Step,
             QueueStep, OverlapStep, LateCallsStep, TwoLeadersStep, SlowStep, FaultyStep, vars
<1>8. Spec /\ part = "tree" => [][Keeps]_vars
  BY <1>1, <1>6, TreeIsHead, PTL DEF Spec
<1>9. Spec /\ part = "locks" => [][Keeps]_vars
  BY <1>2, <1>6, LocksIsHead, PTL DEF Spec
<1>10. Spec /\ Other => [][Keeps]_vars
  BY <1>3, <1>4, PTL DEF Spec
<1> QED
  BY <1>5, <1>7, <1>8, <1>9, <1>10

-----------------------------------------------------------------------------
\* Every variable of every instance of the run History has its type: the trees of the published commits
\* and the attempts, rows, claims, leases and registers (the theorems on types of the parts).
THEOREM TypesInHistory == Spec => []TypeOK
<1>1. (Tree!Spec => []Tree!TypeOK) /\ (Cross!Spec => []Cross!TypeOK) /\ (Locks!Spec => []Locks!TypeOK)
  BY HeadsAssumption, Tree!HeadTypes, Cross!HeadTypes, Locks!HeadTypes
<1>2. (CommitID!IdInv => CommitID!TypeOK) /\ (ObjectID!IdInv => ObjectID!TypeOK)
  BY DEF CommitID!IdInv, ObjectID!IdInv
<1>3. (CommitID!Spec => []CommitID!IdInv) /\ (ObjectID!Spec => []ObjectID!IdInv)
  BY IdentitiesAssumption, CommitID!IdentityInvariant, ObjectID!IdentityInvariant
<1>4. (Baseline!CInv => Baseline!TypeOK) /\ (Moves!CInv => Moves!TypeOK) /\ (SHA1!CInv => SHA1!TypeOK)
  BY DEF Baseline!CInv, Moves!CInv, SHA1!CInv
<1>5. (Baseline!Spec => []Baseline!CInv) /\ (Moves!Spec => []Moves!CInv) /\ (SHA1!Spec => []SHA1!CInv)
  BY CertifiersAssumption, Baseline!CertifierInvariant, Moves!CertifierInvariant, SHA1!CertifierInvariant
<1>6. /\ Queue!Spec => []Queue!TypeOK
      /\ Overlap!Spec => []Overlap!TypeOK
      /\ LateCalls!Spec => []LateCalls!TypeOK
      /\ TwoLeaders!Spec => []TwoLeaders!TypeOK
  BY QueuesAssumption, Queue!QueueTypes, Overlap!QueueTypes, LateCalls!QueueTypes, TwoLeaders!QueueTypes
<1>7. (Slow!LInv => Slow!TypeOK) /\ (Faulty!LInv => Faulty!TypeOK)
  BY SMTT(20) DEF Slow!LInv, Faulty!LInv
<1>8. (Slow!Spec => []Slow!LInv) /\ (Faulty!Spec => []Faulty!LInv)
  BY LeasesAssumption, Slow!LeaseInvariant, Faulty!LeaseInvariant
<1>9. /\ part = "tree" /\ Tree!TypeOK => TypeOK
      /\ part = "cross" /\ Cross!TypeOK => TypeOK
      /\ part = "locks" /\ Locks!TypeOK => TypeOK
      /\ part = "commitID" /\ CommitID!TypeOK => TypeOK
      /\ part = "objectID" /\ ObjectID!TypeOK => TypeOK
      /\ part = "baseline" /\ Baseline!TypeOK => TypeOK
      /\ part = "moves" /\ Moves!TypeOK => TypeOK
      /\ part = "sha1" /\ SHA1!TypeOK => TypeOK
      /\ part = "queue" /\ Queue!TypeOK => TypeOK
      /\ part = "overlap" /\ Overlap!TypeOK => TypeOK
      /\ part = "lateCalls" /\ LateCalls!TypeOK => TypeOK
      /\ part = "twoLeaders" /\ TwoLeaders!TypeOK => TypeOK
      /\ part = "slow" /\ Slow!TypeOK => TypeOK
      /\ part = "faulty" /\ Faulty!TypeOK => TypeOK
  BY DEF TypeOK
<1>10. Spec /\ part = "tree" => []TypeOK
  BY <1>1, <1>9, TreeIsHead, PTL
<1>11. Spec /\ part = "cross" => []TypeOK
  BY <1>1, <1>9, CrossIsHead, PTL
<1>12. Spec /\ part = "locks" => []TypeOK
  BY <1>1, <1>9, LocksIsHead, PTL
<1>13. Spec /\ part = "commitID" => []TypeOK
  BY <1>2, <1>3, <1>9, CommitIDIsIdentity, PTL
<1>14. Spec /\ part = "objectID" => []TypeOK
  BY <1>2, <1>3, <1>9, ObjectIDIsIdentity, PTL
<1>15. Spec /\ part = "baseline" => []TypeOK
  BY <1>4, <1>5, <1>9, BaselineIsCertifier, PTL
<1>16. Spec /\ part = "moves" => []TypeOK
  BY <1>4, <1>5, <1>9, MovesIsCertifier, PTL
<1>17. Spec /\ part = "sha1" => []TypeOK
  BY <1>4, <1>5, <1>9, SHA1IsCertifier, PTL
<1>18. Spec /\ part = "queue" => []TypeOK
  BY <1>6, <1>9, QueueIsQueue, PTL
<1>18a. Spec /\ part = "overlap" => []TypeOK
  BY <1>6, <1>9, OverlapIsQueue, PTL
<1>18b. Spec /\ part = "lateCalls" => []TypeOK
  BY <1>6, <1>9, LateCallsIsQueue, PTL
<1>19. Spec /\ part = "twoLeaders" => []TypeOK
  BY <1>6, <1>9, TwoLeadersIsQueue, PTL
<1>20. Spec /\ part = "slow" => []TypeOK
  BY <1>7, <1>8, <1>9, SlowIsLease, PTL
<1>21. Spec /\ part = "faulty" => []TypeOK
  BY <1>7, <1>8, <1>9, FaultyIsLease, PTL
<1>22. Init => part \in HeadParts \cup IdentityParts \cup CertifierParts \cup QueueParts \cup LeaseParts
  BY DEF Init
<1>23. Init => \/ part = "tree" \/ part = "cross" \/ part = "locks" \/ part = "commitID" \/ part = "objectID"
               \/ part = "baseline" \/ part = "moves" \/ part = "sha1" \/ part = "queue" \/ part = "overlap"
               \/ part = "lateCalls" \/ part = "twoLeaders" \/ part = "slow" \/ part = "faulty"
  BY <1>22 DEF HeadParts, IdentityParts, CertifierParts, QueueParts, LeaseParts
<1> QED
  BY <1>10, <1>11, <1>12, <1>13, <1>14, <1>15, <1>16, <1>17, <1>18, <1>18a, <1>18b, <1>19, <1>20, <1>21, <1>23, PTL DEF Spec
=============================================================================
