----------------------- MODULE MappingAdmissionProofs -----------------------
(***************************************************************************)
(* Five components, for every value of their constants.                    *)
(*                                                                         *)
(* The name of a block: what a promotion of a SHA-1 id gave out stays, for *)
(* every number of blocks, datacenters, writers and promotions and every   *)
(* bound of the clock (internal/db/block_mapping_authority.go).            *)
(*                                                                         *)
(* The two limiters: caps hold and nothing they hand out is lost, for      *)
(* every number of requests, users, profiles and identities and every      *)
(* value of the caps.  Both arguments are about counting: a counter is the *)
(* number of requests at certain places of the code, so a step that moves  *)
(* one request changes it by at most one                                   *)
(* (internal/downloadadmission/admission.go,                               *)
(* internal/api/sync_admission_limiter.go).                                *)
(*                                                                         *)
(* Uploads in blocks: one publisher per session and, with the exceptions   *)
(* the theorem names, one file; for every number of sessions, requests,    *)
(* blocks and servers (internal/db/block_upload_sessions.go,               *)
(* internal/api/v2/file_from_blocks.go).                                   *)
(*                                                                         *)
(* Uploads in byte ranges: one request finalises what arrived, and all who *)
(* wait for it are told, for every number of instances, uploads, requests  *)
(* and trackers and every size (internal/api/seafhttp.go).                 *)
(***************************************************************************)
EXTENDS MappingAuthority, FiniteSetTheorems, TLAPS

-----------------------------------------------------------------------------
(* The name of a block *)

\* The inductive invariant: types, proved claims, and frozen writes that carry the claim.
IInv == TypeOK /\ ClaimGenuine /\ FreezeSafe

\* The clock: the frozen timestamp comes after every ordinary one.
LEMMA StampsOrdered == Frozen \in Nat /\ Frozen > 0 /\ (\A t \in 1 .. MaxClock : t \in Stamps \ {0} /\ t < Frozen) /\ \A t \in Stamps : t \in Nat /\ t <= Frozen
  BY ClockAssumption DEF Frozen, Stamps

\* The invariant holds initially.
LEMMA InitIInv == Init => IInv
  <1> SUFFICES ASSUME Init PROVE IInv
    OBVIOUS
  <1>1. TypeOK
    BY StampsOrdered DEF Init, TypeOK, Absent, Cells, Stamps, WriterStates, Promotions
  <1>2. ClaimGenuine
    BY DEF Init, ClaimGenuine
  <1>3. FreezeSafe
    BY StampsOrdered DEF Init, FreezeSafe, Absent
  <1> QED
    BY <1>1, <1>2, <1>3 DEF IInv

\* A writer that reads.
LEMMA WriterReads == ASSUME IInv, NEW x \in Writers, WriteBlockIDMapping(x) PROVE IInv'
  <1> USE BlocksAssumption, StampsOrdered DEF IInv, WriteBlockIDMapping, getBlockIDMappingForWriteCheck
  <1>1. TypeOK'
    BY DEF TypeOK, Cells, Writes, WriterStates, Promotions, ClaimGenuine, FreezeSafe, Stamps
  <1>2. ClaimGenuine'
    BY DEF TypeOK, ClaimGenuine, Promotions
  <1>3. FreezeSafe'
    BY DEF TypeOK, FreezeSafe, Cells, Writes, Promotions
  <1> QED
    BY <1>1, <1>2, <1>3 DEF IInv

\* A writer that writes.
LEMMA WriterWrites == ASSUME IInv, NEW x \in Writers, writeCheckedBlockIDMapping(x) PROVE IInv'
  <1> USE BlocksAssumption, StampsOrdered DEF IInv, writeCheckedBlockIDMapping
  <1>1. TypeOK'
    BY DEF TypeOK, Cells, Writes, WriterStates, Promotions, ClaimGenuine, FreezeSafe, Stamps
  <1>2. ClaimGenuine'
    BY DEF TypeOK, ClaimGenuine, Promotions
  <1>3. FreezeSafe'
    BY DEF TypeOK, FreezeSafe, Cells, Writes, Promotions
  <1> QED
    BY <1>1, <1>2, <1>3 DEF IInv

\* A write lands: an ordinary one loses against a frozen cell.
LEMMA Lands == ASSUME IInv, NEW f \in flight, Land(f) PROVE IInv'
  <1> USE BlocksAssumption, StampsOrdered DEF IInv, Land
  <1>1. TypeOK'
    BY DEF TypeOK, Cells, Writes, WriterStates, Promotions, ClaimGenuine, FreezeSafe, Stamps
  <1>2. ClaimGenuine'
    BY DEF TypeOK, ClaimGenuine, Promotions
  <1>3. FreezeSafe'
    BY DEF TypeOK, FreezeSafe, Cells, Writes, Promotions
  <1> QED
    BY <1>1, <1>2, <1>3 DEF IInv

\* A write is lost.
LEMMA Loses == ASSUME IInv, NEW f \in flight, Lose(f) PROVE IInv'
  <1> USE BlocksAssumption, StampsOrdered DEF IInv, Lose
  <1>1. TypeOK'
    BY DEF TypeOK, Cells, Writes, WriterStates, Promotions, ClaimGenuine, FreezeSafe, Stamps
  <1>2. ClaimGenuine'
    BY DEF TypeOK, ClaimGenuine, Promotions
  <1>3. FreezeSafe'
    BY DEF TypeOK, FreezeSafe, Cells, Writes, Promotions
  <1> QED
    BY <1>1, <1>2, <1>3 DEF IInv

\* A block is stored.
LEMMA Stores == ASSUME IInv, NEW b \in Blocks, Store(b) PROVE IInv'
  <1> USE BlocksAssumption, StampsOrdered DEF IInv, Store
  <1>1. TypeOK'
    BY DEF TypeOK, Cells, Writes, WriterStates, Promotions, ClaimGenuine, FreezeSafe, Stamps
  <1>2. ClaimGenuine'
    BY DEF TypeOK, ClaimGenuine, Promotions
  <1>3. FreezeSafe'
    BY DEF TypeOK, FreezeSafe, Cells, Writes, Promotions
  <1> QED
    BY <1>1, <1>2, <1>3 DEF IInv

\* A block is collected.
LEMMA Collects == ASSUME IInv, NEW b \in Blocks, Collect(b) PROVE IInv'
  <1> USE BlocksAssumption, StampsOrdered DEF IInv, Collect
  <1>1. TypeOK'
    BY DEF TypeOK, Cells, Writes, WriterStates, Promotions, ClaimGenuine, FreezeSafe, Stamps
  <1>2. ClaimGenuine'
    BY DEF TypeOK, ClaimGenuine, Promotions
  <1>3. FreezeSafe'
    BY DEF TypeOK, FreezeSafe, Cells, Writes, Promotions
  <1> QED
    BY <1>1, <1>2, <1>3 DEF IInv

\* A promotion reads the claim.
LEMMA Acquires == ASSUME IInv, NEW x \in Promoters, acquireBlockMappingClaim(x) PROVE IInv'
  <1> USE BlocksAssumption, StampsOrdered DEF IInv, acquireBlockMappingClaim, At, Go, To
  <1>1. TypeOK'
    BY DEF TypeOK, Cells, Writes, WriterStates, Promotions, ClaimGenuine, FreezeSafe, Stamps
  <1>2. ClaimGenuine'
    BY DEF TypeOK, ClaimGenuine, Promotions
  <1>3. FreezeSafe'
    BY SMTT(20) DEF TypeOK, FreezeSafe, Cells, Writes, Promotions
  <1> QED
    BY <1>1, <1>2, <1>3 DEF IInv

\* A promotion reads the row that nominates the candidate.
LEMMA Nominates == ASSUME IInv, NEW x \in Promoters, readCandidate(x) PROVE IInv'
  <1> USE BlocksAssumption, StampsOrdered DEF IInv
  <1>1. PICK pc \in {"prove", "end"}, c \in Blocks \cup {None} : To(x, pc, c, p[x].auth, p[x].state)
    <2>1. cell[p[x].dc].val \in Blocks \cup {None} /\ p[x].cand \in Blocks \cup {None}
      BY DEF TypeOK, Cells, Promotions
    <2> QED
      BY <2>1 DEF readCandidate, Go, GetBlockIDMapping
  <1>2. UNCHANGED <<claim, cell, flight, used, stored, w>>
    BY DEF readCandidate
  <1>3. TypeOK'
    BY <1>1, <1>2 DEF TypeOK, To, Promotions
  <1>4. ClaimGenuine'
    BY <1>1, <1>2 DEF TypeOK, ClaimGenuine, To, Promotions
  <1>5. FreezeSafe'
    <2>1. p[x].pc = "candidate" /\ p \in [Promoters -> Promotions]
      BY DEF readCandidate, At, TypeOK
    <2>2. \A y \in Promoters : p'[y].auth = p[y].auth /\ p'[y].state = p[y].state /\ (p'[y].pc \in {"decide", "freeze", "check"} => p[y].pc \in {"decide", "freeze", "check"})
      BY <1>1, <2>1 DEF To, Promotions
    <2> QED
      BY <1>2, <2>2 DEF FreezeSafe
  <1> QED
    BY <1>3, <1>4, <1>5 DEF IInv

\* A promotion proves its candidate.
LEMMA Proves == ASSUME IInv, NEW x \in Promoters, proveBlockMappingCandidate(x) PROVE IInv'
  <1> USE BlocksAssumption, StampsOrdered DEF IInv, proveBlockMappingCandidate, blockMappingProvenanceFromEvidence, At, Go, To
  <1>1. TypeOK'
    BY DEF TypeOK, Cells, Writes, WriterStates, Promotions, ClaimGenuine, FreezeSafe, Stamps
  <1>2. ClaimGenuine'
    BY DEF TypeOK, ClaimGenuine, Promotions
  <1>3. FreezeSafe'
    BY DEF TypeOK, FreezeSafe, Cells, Writes, Promotions
  <1> QED
    BY <1>1, <1>2, <1>3 DEF IInv

\* A promotion claims.
LEMMA Claims == ASSUME IInv, NEW x \in Promoters, claimBlockMappingAuthority(x) PROVE IInv'
  <1> USE BlocksAssumption, StampsOrdered DEF IInv, claimBlockMappingAuthority, At, Go, To
  <1>1. TypeOK'
    BY DEF TypeOK, Cells, Writes, WriterStates, Promotions, ClaimGenuine, FreezeSafe, Stamps
  <1>2. ClaimGenuine'
    BY DEF TypeOK, ClaimGenuine, Promotions
  <1>3. FreezeSafe'
    <2>1. claim' # None /\ (claim # None => claim' = claim)
      BY DEF TypeOK, ClaimGenuine
    <2>2. \A d \in DCs : cell'[d].ts = Frozen => cell'[d].val = claim'
      BY <2>1 DEF FreezeSafe
    <2>3. \A f \in flight' : f.ts = Frozen => f.val = claim'
      BY <2>1 DEF FreezeSafe
    <2>4. \A y \in Promoters : p'[y].pc \in {"decide", "freeze", "check"} \/ p'[y].auth # None => p'[y].auth = claim'
      BY <2>1 DEF TypeOK, Promotions, FreezeSafe
    <2>5. \A y \in Promoters : p'[y].state = "frozen" => p'[y].auth = claim' /\ \A d \in DCs : cell'[d].ts = Frozen
      BY <2>1 DEF TypeOK, Promotions, FreezeSafe
    <2> QED
      BY <2>1, <2>2, <2>3, <2>4, <2>5 DEF FreezeSafe
  <1> QED
    BY <1>1, <1>2, <1>3 DEF IInv

\* A promotion does not learn whether it claimed.
LEMMA ClaimsUnknown == ASSUME IInv, NEW x \in Promoters, claimUnknown(x) PROVE IInv'
  <1> USE BlocksAssumption, StampsOrdered DEF IInv, claimUnknown, At, Go, To
  <1>1. TypeOK'
    BY DEF TypeOK, Cells, Writes, WriterStates, Promotions, ClaimGenuine, FreezeSafe, Stamps
  <1>2. ClaimGenuine'
    BY DEF TypeOK, ClaimGenuine, Promotions
  <1>3. FreezeSafe'
    BY DEF TypeOK, FreezeSafe, Cells, Writes, Promotions
  <1> QED
    BY <1>1, <1>2, <1>3 DEF IInv

\* A promotion settles an unknown claim.
LEMMA Settles == ASSUME IInv, NEW x \in Promoters, settledBlockMappingClaim(x) PROVE IInv'
  <1> USE BlocksAssumption, StampsOrdered DEF IInv, settledBlockMappingClaim, At, Go, To
  <1>1. TypeOK'
    BY DEF TypeOK, Cells, Writes, WriterStates, Promotions, ClaimGenuine, FreezeSafe, Stamps
  <1>2. ClaimGenuine'
    BY DEF TypeOK, ClaimGenuine, Promotions
  <1>3. FreezeSafe'
    BY DEF TypeOK, FreezeSafe, Cells, Writes, Promotions
  <1> QED
    BY <1>1, <1>2, <1>3 DEF IInv

\* A promotion reads the row at EACH_QUORUM before the freeze.
LEMMA Decides == ASSUME IInv, NEW x \in Promoters, freezeBlockMappingProjection(x) PROVE IInv'
  <1> USE BlocksAssumption, StampsOrdered DEF IInv, freezeBlockMappingProjection, readBlockMappingProjection, blockMappingProjectionDecision, At, Go, To
  <1>1. TypeOK'
    BY DEF TypeOK, Cells, Writes, WriterStates, Promotions, ClaimGenuine, FreezeSafe, Stamps
  <1>2. ClaimGenuine'
    BY DEF TypeOK, ClaimGenuine, Promotions
  <1>3. FreezeSafe'
    BY DEF TypeOK, FreezeSafe, Cells, Writes, Promotions
  <1> QED
    BY <1>1, <1>2, <1>3 DEF IInv

\* A promotion freezes the row.
LEMMA Freezes == ASSUME IInv, NEW x \in Promoters, writeFrozen(x) PROVE IInv'
  <1> USE BlocksAssumption, StampsOrdered DEF IInv, writeFrozen, At, Go, To
  <1>1. TypeOK'
    BY DEF TypeOK, Cells, Writes, WriterStates, Promotions, ClaimGenuine, FreezeSafe, Stamps
  <1>2. ClaimGenuine'
    BY DEF TypeOK, ClaimGenuine, Promotions
  <1>3. FreezeSafe'
    BY DEF TypeOK, FreezeSafe, Cells, Writes, Promotions
  <1> QED
    BY <1>1, <1>2, <1>3 DEF IInv

\* The freeze of a promotion fails.
LEMMA FreezeFails == ASSUME IInv, NEW x \in Promoters, writeFrozenFails(x) PROVE IInv'
  <1> USE BlocksAssumption, StampsOrdered DEF IInv, writeFrozenFails, At, Go, To
  <1>1. TypeOK'
    BY DEF TypeOK, Cells, Writes, WriterStates, Promotions, ClaimGenuine, FreezeSafe, Stamps
  <1>2. ClaimGenuine'
    BY DEF TypeOK, ClaimGenuine, Promotions
  <1>3. FreezeSafe'
    BY DEF TypeOK, FreezeSafe, Cells, Writes, Promotions
  <1> QED
    BY <1>1, <1>2, <1>3 DEF IInv

\* A promotion reads the row at EACH_QUORUM after the freeze.
LEMMA Checks == ASSUME IInv, NEW x \in Promoters, checkFrozen(x) PROVE IInv'
  <1> USE BlocksAssumption, StampsOrdered DEF IInv, checkFrozen, readBlockMappingProjection, blockMappingProjectionDecision, At, Go, To
  <1>1. TypeOK'
    BY DEF TypeOK, Cells, Writes, WriterStates, Promotions, ClaimGenuine, FreezeSafe, Stamps
  <1>2. ClaimGenuine'
    BY DEF TypeOK, ClaimGenuine, Promotions
  <1>3. FreezeSafe'
    BY DEF TypeOK, FreezeSafe, Cells, Writes, Promotions
  <1> QED
    BY <1>1, <1>2, <1>3 DEF IInv

\* A promotion gives up.
LEMMA Gives == ASSUME IInv, NEW x \in Promoters, Unavailable(x) PROVE IInv'
  <1> USE BlocksAssumption, StampsOrdered DEF IInv, Unavailable, At, Go, To
  <1>1. TypeOK'
    BY DEF TypeOK, Cells, Writes, WriterStates, Promotions, ClaimGenuine, FreezeSafe, Stamps
  <1>2. ClaimGenuine'
    BY DEF TypeOK, ClaimGenuine, Promotions
  <1>3. FreezeSafe'
    BY DEF TypeOK, FreezeSafe, Cells, Writes, Promotions
  <1> QED
    BY <1>1, <1>2, <1>3 DEF IInv

\* Every step keeps the invariant.
LEMMA NextIInv == IInv /\ [Next]_vars => IInv'
  <1> SUFFICES ASSUME IInv, [Next]_vars PROVE IInv'
    OBVIOUS
  <1>1. ASSUME NEW x \in Writers, WriteBlockIDMapping(x) \/ WriteVerifiedWebBlockMapping(x) \/ writeCheckedBlockIDMapping(x) PROVE IInv'
    BY <1>1, WriterReads, WriterWrites DEF WriteVerifiedWebBlockMapping
  <1>2. ASSUME NEW f \in flight, Land(f) \/ Lose(f) PROVE IInv'
    BY <1>2, Lands, Loses
  <1>3. ASSUME NEW b \in Blocks, Store(b) \/ Collect(b) PROVE IInv'
    BY <1>3, Stores, Collects
  <1>4. ASSUME NEW x \in Promoters, promoteBlockMappingAuthority(x) PROVE IInv'
    BY <1>4, Acquires, Nominates, Proves, Claims, ClaimsUnknown, Settles, Decides, Freezes, FreezeFails, Checks, Gives DEF promoteBlockMappingAuthority
  <1>5. CASE UNCHANGED vars
    BY <1>5 DEF vars, IInv, TypeOK, ClaimGenuine, FreezeSafe
  <1> QED
    BY <1>1, <1>2, <1>3, <1>4, <1>5 DEF Next

\* Every reachable state has the invariant.
THEOREM Invariance == Spec => []IInv
  BY InitIInv, NextIInv, PTL DEF Spec

\* Types (TypeOK), for every instance.
THEOREM TypeCorrect == Spec => []TypeOK
  <1>1. IInv => TypeOK
    BY DEF IInv
  <1> QED
    BY <1>1, Invariance, PTL

\* A claim is always for bytes that were proved (ClaimGenuine), for every instance.
THEOREM ClaimsAreGenuine == Spec => []ClaimGenuine
  <1>1. IInv => ClaimGenuine
    BY DEF IInv
  <1> QED
    BY <1>1, Invariance, PTL

\* What a promotion gave to the certifier is what every datacenter resolves,
\* from then on (ConsumableHolds), for every instance.
THEOREM ConsumedStays == Spec => []ConsumableHolds
  <1>1. IInv => ConsumableHolds
    BY BlocksAssumption DEF IInv, TypeOK, FreezeSafe, ConsumableHolds, ConsumableInternalID, GetBlockIDMapping, Cells, Promotions
  <1> QED
    BY <1>1, Invariance, PTL

-----------------------------------------------------------------------------
(* Counting *)

\* A set that differs from another at most in one request has at most one member more or less.
LEMMA CountStep ==
    ASSUME NEW R, IsFiniteSet(R), NEW S \in SUBSET R, NEW T \in SUBSET R, NEW r \in R,
           \A q \in R \ {r} : q \in S <=> q \in T
    PROVE  /\ Cardinality(S) \in Nat /\ Cardinality(T) \in Nat
           /\ (r \in S /\ r \notin T) => Cardinality(S) > 0 /\ Cardinality(T) = Cardinality(S) - 1
           /\ (r \notin S /\ r \in T) => Cardinality(T) = Cardinality(S) + 1
           /\ (r \in S <=> r \in T) => Cardinality(T) = Cardinality(S)
<1>1. IsFiniteSet(S) /\ IsFiniteSet(T)
  BY FS_Subset
<1>2. Cardinality(S) \in Nat /\ Cardinality(T) \in Nat
  BY <1>1, FS_CardinalityType
<1>3. ASSUME r \in S, r \notin T PROVE Cardinality(S) > 0 /\ Cardinality(T) = Cardinality(S) - 1
  <2>1. T = S \ {r}
    BY <1>3
  <2>2. Cardinality(T) = Cardinality(S) - 1
    BY <1>1, <1>3, <2>1, FS_RemoveElement
  <2> QED
    BY <1>2, <2>2
<1>4. ASSUME r \notin S, r \in T PROVE Cardinality(T) = Cardinality(S) + 1
  <2>1. T = S \cup {r}
    BY <1>4
  <2> QED
    BY <1>1, <1>4, <2>1, FS_AddElement
<1>5. ASSUME r \in S <=> r \in T PROVE Cardinality(T) = Cardinality(S)
  <2>1. T = S
    BY <1>5
  <2> QED
    BY <2>1
<1> QED
  BY <1>2, <1>3, <1>4, <1>5

\* A set of requests without members counts zero, and no other does.
LEMMA CountZero ==
    ASSUME NEW R, IsFiniteSet(R), NEW S \in SUBSET R
    PROVE  Cardinality(S) \in Nat /\ (Cardinality(S) = 0 <=> S = {})
  BY FS_Subset, FS_EmptySet, FS_CardinalityType

-----------------------------------------------------------------------------
(* Downloads: the inductive invariant *)

CONSTANTS Downloads, Profiles, ProfileOf, Dims, DimsOf, MaxActivePerNode, ProfileCap, DimCap,
          DownWaitersPerNode, MaxWaitersPerIdentity
VARIABLES downPc, downGone, downExpired, woken, once, active, activeByProfile, dimActive, dimWaiters,
          tracked, downWaiters

Down == INSTANCE DownloadAdmission WITH
    Requests <- Downloads, MaxWaitersPerNode <- DownWaitersPerNode,
    pc <- downPc, gone <- downGone, expired <- downExpired, waiters <- downWaiters

\* The instance has its own names for the operators of FiniteSets.
LEMMA DownCounts ==
    /\ \A S : Down!IsFiniteSet(S) <=> IsFiniteSet(S)
    /\ \A S : Down!Cardinality(S) = Cardinality(S)
<1>1. ASSUME NEW S PROVE Down!IsFiniteSet(S) <=> IsFiniteSet(S)
  BY DEF Down!IsFiniteSet, IsFiniteSet
<1>2. ASSUME NEW S PROVE Down!Cardinality(S) = Cardinality(S)
  BY DEF Down!Cardinality, Cardinality
<1> QED
  BY <1>1, <1>2

LEMMA FinitelyMany == ASSUME Down!AdmissionAssumption PROVE IsFiniteSet(Downloads)
  BY DownCounts DEF Down!AdmissionAssumption

HoldersIn(pf) == {r \in Down!Holders : ProfileOf[r] = pf}
HoldersOf(d) == {r \in Down!Holders : d \in DimsOf[r]}
WaitersOf(d) == {r \in downWaiters : d \in DimsOf[r]}

\* The queue is the requests that wait, the released leases those of requests that are past their
\* first release, and every counter is the number of requests it stands for.
Counting ==
    /\ downWaiters = {r \in Downloads : downPc[r] = "waiting"}
    /\ once = {r \in Downloads : downPc[r] \in {"finishing", "done"}}
    /\ active = Cardinality(Down!Holders)
    /\ \A pf \in Profiles : activeByProfile[pf] = Cardinality(HoldersIn(pf))
    /\ \A d \in Dims : dimActive[d] = Cardinality(HoldersOf(d)) /\ dimWaiters[d] = Cardinality(WaitersOf(d))

DInv == Down!TypeOK /\ Counting /\ Down!WithinCaps /\ Down!NoLostWakeup /\ Down!TrackedWhileUsed

\* A counter of an identity is zero when nobody is counted.
LEMMA DimCounts ==
    ASSUME Down!AdmissionAssumption, Down!TypeOK, Counting, NEW d \in Dims
    PROVE  /\ dimActive[d] = 0 <=> ~ \E r \in Down!Holders : d \in DimsOf[r]
           /\ dimWaiters[d] = 0 <=> ~ \E r \in downWaiters : d \in DimsOf[r]
<1>1. HoldersOf(d) \in SUBSET Downloads /\ WaitersOf(d) \in SUBSET Downloads
  BY DEF HoldersOf, WaitersOf, Down!Holders, Down!TypeOK
<1>2. dimActive[d] = 0 <=> HoldersOf(d) = {}
  BY <1>1, CountZero, FinitelyMany DEF Counting
<1>3. dimWaiters[d] = 0 <=> WaitersOf(d) = {}
  BY <1>1, CountZero, FinitelyMany DEF Counting
<1> QED
  BY <1>2, <1>3 DEF HoldersOf, WaitersOf

LEMMA InitDInv == ASSUME Down!AdmissionAssumption, Down!Init PROVE DInv
<1>1. Down!TypeOK
  BY DEF Down!Init, Down!TypeOK, Down!RequestPC, Down!AdmissionAssumption
<1>2. Down!Holders = {}
  BY DEF Down!Init, Down!Holders
<1>3. Counting
  <2>1. \A pf : HoldersIn(pf) = {}
    BY <1>2 DEF HoldersIn
  <2>2. \A d : HoldersOf(d) = {} /\ WaitersOf(d) = {}
    BY <1>2 DEF HoldersOf, WaitersOf, Down!Init
  <2> QED
    BY <1>2, <2>1, <2>2, FS_EmptySet DEF Down!Init, Counting
<1>4. Down!WithinCaps
  <2>1. Cardinality(Down!Holders) = 0
    BY <1>2, FS_EmptySet
  <2>2. \A pf \in Profiles : Cardinality({r \in Down!Holders : ProfileOf[r] = pf}) = 0
    BY <1>3 DEF Counting, HoldersIn, Down!Init
  <2>3. \A d \in Dims : Cardinality({r \in Down!Holders : d \in DimsOf[r]}) = 0
    BY <1>3 DEF Counting, HoldersOf, Down!Init
  <2> QED
    BY <2>1, <2>2, <2>3, DownCounts DEF Down!WithinCaps, Down!AdmissionAssumption
<1>5. Down!NoLostWakeup
  BY DEF Down!Init, Down!NoLostWakeup
<1>6. Down!TrackedWhileUsed
  BY <1>2 DEF Down!Init, Down!TrackedWhileUsed
<1> QED
  BY <1>1, <1>3, <1>4, <1>5, <1>6 DEF DInv

-----------------------------------------------------------------------------
(* Downloads: what a step that moves one request does to the counts *)

\* A request moves and the counters of the holders follow it.
Follows(r) ==
    LET was == downPc[r] = "admitted"
        is == downPc'[r] = "admitted"
        by == IF is /\ ~was THEN 1 ELSE IF was /\ ~is THEN 0 - 1 ELSE 0
    IN  /\ active' = active + by
        /\ \A pf \in Profiles : activeByProfile'[pf] = IF pf = ProfileOf[r] THEN activeByProfile[pf] + by ELSE activeByProfile[pf]
        /\ \A d \in Dims : dimActive'[d] = IF d \in DimsOf[r] THEN dimActive[d] + by ELSE dimActive[d]

\* ... and those of the queue.
QueueFollows(r) ==
    LET was == downPc[r] = "waiting"
        is == downPc'[r] = "waiting"
        by == IF is /\ ~was THEN 1 ELSE IF was /\ ~is THEN 0 - 1 ELSE 0
    IN  /\ downWaiters' = IF is THEN downWaiters \cup {r} ELSE downWaiters \ {r}
        /\ \A d \in Dims : dimWaiters'[d] = IF d \in DimsOf[r] THEN dimWaiters[d] + by ELSE dimWaiters[d]

\* Then the counters still count.
LEMMA StillCounting ==
    ASSUME Down!AdmissionAssumption, Down!TypeOK, Counting, NEW r \in Downloads, NEW l \in Down!RequestPC,
           Down!Goto(r, l), Follows(r), QueueFollows(r),
           once' = IF l \in {"finishing", "done"} THEN once \cup {r} ELSE once \ {r}
    PROVE  Counting'
<1> DEFINE was == downPc[r] = "admitted"
           is == l = "admitted"
<1>0. downPc'[r] = l /\ (\A q \in Downloads \ {r} : downPc'[q] = downPc[q])
  BY DEF Down!Goto, Down!TypeOK
<1>1. downWaiters' = {q \in Downloads : downPc'[q] = "waiting"}
  BY <1>0 DEF QueueFollows, Counting
<1>2. once' = {q \in Downloads : downPc'[q] \in {"finishing", "done"}}
  BY <1>0 DEF Counting
<1>3. Down!Holders \in SUBSET Downloads /\ Down!Holders' \in SUBSET Downloads
      /\ (r \in Down!Holders <=> downPc[r] = "admitted") /\ (r \in Down!Holders' <=> l = "admitted")
      /\ \A q \in Downloads \ {r} : q \in Down!Holders <=> q \in Down!Holders'
  BY <1>0 DEF Down!Holders
<1>4. active' = Cardinality(Down!Holders')
  <2>1. active = Cardinality(Down!Holders)
    BY DEF Counting
  <2> QED
    BY <1>0, <1>3, <2>1, CountStep, FinitelyMany DEF Follows
<1>5. ASSUME NEW pf \in Profiles PROVE activeByProfile'[pf] = Cardinality(HoldersIn(pf)')
  <2>1. activeByProfile[pf] = Cardinality(HoldersIn(pf))
    BY DEF Counting
  <2>2. HoldersIn(pf) \in SUBSET Downloads /\ HoldersIn(pf)' \in SUBSET Downloads
        /\ (r \in HoldersIn(pf) <=> was /\ ProfileOf[r] = pf) /\ (r \in HoldersIn(pf)' <=> is /\ ProfileOf[r] = pf)
        /\ \A q \in Downloads \ {r} : q \in HoldersIn(pf) <=> q \in HoldersIn(pf)'
    BY <1>3 DEF HoldersIn
  <2> HIDE DEF HoldersIn
  <2> QED
    BY <1>0, <2>1, <2>2, CountStep, FinitelyMany DEF Follows
<1>6. ASSUME NEW d \in Dims PROVE dimActive'[d] = Cardinality(HoldersOf(d)')
  <2>1. dimActive[d] = Cardinality(HoldersOf(d))
    BY DEF Counting
  <2>2. HoldersOf(d) \in SUBSET Downloads /\ HoldersOf(d)' \in SUBSET Downloads
        /\ (r \in HoldersOf(d) <=> was /\ d \in DimsOf[r]) /\ (r \in HoldersOf(d)' <=> is /\ d \in DimsOf[r])
        /\ \A q \in Downloads \ {r} : q \in HoldersOf(d) <=> q \in HoldersOf(d)'
    BY <1>3 DEF HoldersOf
  <2> QED
    BY <1>0, <2>1, <2>2, CountStep, FinitelyMany DEF Follows
<1>7. ASSUME NEW d \in Dims PROVE dimWaiters'[d] = Cardinality(WaitersOf(d)')
  <2>1. dimWaiters[d] = Cardinality(WaitersOf(d)) /\ downWaiters = {q \in Downloads : downPc[q] = "waiting"}
    BY DEF Counting
  <2>2. WaitersOf(d) \in SUBSET Downloads /\ WaitersOf(d)' \in SUBSET Downloads
        /\ (r \in WaitersOf(d) <=> downPc[r] = "waiting" /\ d \in DimsOf[r])
        /\ (r \in WaitersOf(d)' <=> l = "waiting" /\ d \in DimsOf[r])
        /\ \A q \in Downloads \ {r} : q \in WaitersOf(d) <=> q \in WaitersOf(d)'
    BY <1>0, <1>1, <2>1 DEF WaitersOf
  <2> QED
    BY <1>0, <2>1, <2>2, CountStep, FinitelyMany DEF QueueFollows
<1> QED
  BY <1>1, <1>2, <1>4, <1>5, <1>6, <1>7 DEF Counting

\* The caps and the map in terms of the counters.
CountersWithin ==
    /\ active <= MaxActivePerNode
    /\ \A pf \in Profiles : ProfileCap[pf] > 0 => activeByProfile[pf] <= ProfileCap[pf]
    /\ \A d \in Dims : DimCap[d] > 0 => dimActive[d] <= DimCap[d]
MapCounted == tracked = {d \in Dims : dimActive[d] > 0 \/ dimWaiters[d] > 0}

LEMMA CapsCounted == ASSUME Counting PROVE Down!WithinCaps <=> CountersWithin
  BY DownCounts DEF Counting, Down!WithinCaps, CountersWithin, HoldersIn, HoldersOf

LEMMA TrackedCounted ==
    ASSUME Down!AdmissionAssumption, Down!TypeOK, Counting
    PROVE  Down!TrackedWhileUsed <=> MapCounted
<1>1. \A d \in Dims : (dimActive[d] > 0 \/ dimWaiters[d] > 0) <=> \E r \in Down!Holders \cup downWaiters : d \in DimsOf[r]
  <2> TAKE d \in Dims
  <2>1. dimActive[d] \in Nat /\ dimWaiters[d] \in Nat
    BY DEF Down!TypeOK
  <2> QED
    BY <2>1, DimCounts
<1>2. Down!Holders \cup downWaiters \subseteq Downloads
  BY DEF Down!Holders, Down!TypeOK
<1>3. UNION {DimsOf[r] : r \in Down!Holders \cup downWaiters} = {d \in Dims : \E r \in Down!Holders \cup downWaiters : d \in DimsOf[r]}
  BY <1>2 DEF Down!AdmissionAssumption
<1> QED
  BY <1>1, <1>3 DEF Down!TrackedWhileUsed, MapCounted

\* A request that is served counts everywhere, and so does one that waits.
LEMMA CountedInAll ==
    ASSUME Down!AdmissionAssumption, Down!TypeOK, Counting, NEW r \in Downloads
    PROVE  /\ downPc[r] = "admitted" => /\ active > 0 /\ activeByProfile[ProfileOf[r]] > 0
                                    /\ \A d \in DimsOf[r] : dimActive[d] > 0
           /\ downPc[r] = "waiting" => \A d \in DimsOf[r] : dimWaiters[d] > 0
<1>1. ProfileOf[r] \in Profiles /\ DimsOf[r] \subseteq Dims
  BY DEF Down!AdmissionAssumption
<1>2. \A d \in DimsOf[r] : d \in Dims /\ dimActive[d] \in Nat /\ dimWaiters[d] \in Nat
  BY <1>1 DEF Down!TypeOK
<1>3. ASSUME downPc[r] = "admitted" PROVE active > 0 /\ activeByProfile[ProfileOf[r]] > 0
  <2>1. r \in Down!Holders /\ r \in HoldersIn(ProfileOf[r])
    BY <1>3 DEF Down!Holders, HoldersIn
  <2>2. Down!Holders \in SUBSET Downloads /\ HoldersIn(ProfileOf[r]) \in SUBSET Downloads
    BY DEF Down!Holders, HoldersIn
  <2>3. active # 0 /\ activeByProfile[ProfileOf[r]] # 0
    BY <1>1, <2>1, <2>2, CountZero, FinitelyMany DEF Counting
  <2> QED
    BY <1>1, <2>3 DEF Down!TypeOK
<1>4. ASSUME downPc[r] = "admitted" PROVE \A d \in DimsOf[r] : dimActive[d] > 0
  BY <1>2, <1>4, DimCounts DEF Down!Holders
<1>5. ASSUME downPc[r] = "waiting" PROVE \A d \in DimsOf[r] : dimWaiters[d] > 0
  <2>1. r \in downWaiters
    BY <1>5 DEF Counting
  <2> QED
    BY <1>2, <2>1, DimCounts
<1> QED
  BY <1>3, <1>4, <1>5

\* What is to be shown of a step that moves a request.
LEMMA MoveKeeps ==
    ASSUME Down!AdmissionAssumption, DInv, Down!TypeOK', NEW r \in Downloads, NEW l \in Down!RequestPC,
           Down!Goto(r, l), Follows(r), QueueFollows(r),
           once' = IF l \in {"finishing", "done"} THEN once \cup {r} ELSE once \ {r},
           CountersWithin', MapCounted', Down!NoLostWakeup'
    PROVE  DInv'
<1>1. Counting'
  BY StillCounting DEF DInv
<1>2. Down!WithinCaps'
  <2>1. (Counting => (Down!WithinCaps <=> CountersWithin))'
    BY CapsCounted, PTL
  <2> QED
    BY <1>1, <2>1
<1>3. Down!TrackedWhileUsed'
  <2>1. (Down!TypeOK /\ Counting => (Down!TrackedWhileUsed <=> MapCounted))'
    BY TrackedCounted, PTL
  <2> QED
    BY <1>1, <2>1
<1> QED
  BY <1>1, <1>2, <1>3 DEF DInv

-----------------------------------------------------------------------------
(* Downloads: the steps *)

\* The numbers of the invariant.
LEMMA Numbers ==
    ASSUME Down!AdmissionAssumption, DInv
    PROVE  /\ CountersWithin /\ MapCounted
           /\ active \in Nat /\ MaxActivePerNode \in Nat
           /\ \A pf \in Profiles : activeByProfile[pf] \in Nat /\ ProfileCap[pf] \in Nat
           /\ \A d \in Dims : dimActive[d] \in Nat /\ dimWaiters[d] \in Nat /\ DimCap[d] \in Nat
           /\ \A r \in Downloads : ProfileOf[r] \in Profiles /\ DimsOf[r] \subseteq Dims
<1>1. CountersWithin
  BY CapsCounted DEF DInv
<1>2. MapCounted
  BY TrackedCounted DEF DInv
<1> QED
  BY <1>1, <1>2 DEF DInv, Down!TypeOK, Down!AdmissionAssumption

\* More downloads running never unblock a waiter.
LEMMA BlockedStays ==
    ASSUME Down!AdmissionAssumption, DInv, active' \in Nat, active <= active',
           \A pf \in Profiles : activeByProfile'[pf] \in Nat /\ activeByProfile[pf] <= activeByProfile'[pf],
           \A d \in Dims : dimActive'[d] \in Nat /\ dimActive[d] <= dimActive'[d],
           NEW r \in Downloads, Down!Blocked(r)
    PROVE  Down!Blocked(r)'
<1>1. ProfileOf[r] \in Profiles /\ DimsOf[r] \subseteq Dims /\ Down!profileCap(r) \in Nat
  BY Numbers DEF Down!profileCap
<1>2. CASE active >= MaxActivePerNode
  BY <1>2, Numbers DEF Down!Blocked
<1>3. CASE Down!profileCap(r) > 0 /\ activeByProfile[ProfileOf[r]] >= Down!profileCap(r)
  BY <1>1, <1>3, Numbers DEF Down!Blocked, Down!profileCap
<1>4. CASE \E d \in DimsOf[r] : DimCap[d] > 0 /\ dimActive[d] >= DimCap[d]
  <2>1. PICK d \in DimsOf[r] : DimCap[d] > 0 /\ dimActive[d] >= DimCap[d]
    BY <1>4
  <2>2. dimActive'[d] >= DimCap[d]
    BY <1>1, <2>1, Numbers
  <2> QED
    BY <2>1, <2>2 DEF Down!Blocked
<1> QED
  BY <1>2, <1>3, <1>4 DEF Down!Blocked

\* A slot is given to a request none of whose gates is full.
LEMMA GrantWithin ==
    ASSUME Down!AdmissionAssumption, DInv, NEW r \in Downloads, ~Down!Blocked(r), Down!grantLocked(r)
    PROVE  /\ CountersWithin'
           /\ active' = active + 1
           /\ \A pf \in Profiles : activeByProfile'[pf] = IF pf = ProfileOf[r] THEN activeByProfile[pf] + 1 ELSE activeByProfile[pf]
           /\ \A d \in Dims : dimActive'[d] = IF d \in DimsOf[r] THEN dimActive[d] + 1 ELSE dimActive[d]
           /\ active' \in Nat /\ activeByProfile' \in [Profiles -> Nat] /\ dimActive' \in [Dims -> Nat]
<1>0. activeByProfile \in [Profiles -> Nat]
  BY DEF DInv, Down!TypeOK
<1>1. active' = active + 1 /\ active' \in Nat
  BY Numbers DEF Down!grantLocked
<1>2. /\ activeByProfile' \in [Profiles -> Nat]
      /\ \A pf \in Profiles : activeByProfile'[pf] = IF pf = ProfileOf[r] THEN activeByProfile[pf] + 1 ELSE activeByProfile[pf]
  BY <1>0, Numbers DEF Down!grantLocked
<1>3. /\ dimActive' \in [Dims -> Nat]
      /\ \A d \in Dims : dimActive'[d] = IF d \in DimsOf[r] THEN dimActive[d] + 1 ELSE dimActive[d]
  BY Numbers DEF Down!grantLocked
<1>4. active' <= MaxActivePerNode
  BY <1>1, Numbers DEF Down!Blocked
<1>5. \A pf \in Profiles : ProfileCap[pf] > 0 => activeByProfile'[pf] <= ProfileCap[pf]
  BY <1>2, Numbers DEF Down!Blocked, Down!profileCap, CountersWithin
<1>6. \A d \in Dims : DimCap[d] > 0 => dimActive'[d] <= DimCap[d]
  BY <1>3, Numbers DEF Down!Blocked, CountersWithin
<1> QED
  BY <1>1, <1>2, <1>3, <1>4, <1>5, <1>6 DEF CountersWithin

\* A request leaves the queue.
LEMMA LeavesQueue ==
    ASSUME Down!AdmissionAssumption, DInv, NEW r \in Downloads, downPc[r] = "waiting", Down!removeWaiterLocked(r)
    PROVE  /\ downWaiters' = downWaiters \ {r} /\ woken' = woken \ {r}
           /\ dimWaiters' \in [Dims -> Nat]
           /\ \A d \in Dims : dimWaiters'[d] = IF d \in DimsOf[r] THEN dimWaiters[d] + (0 - 1) ELSE dimWaiters[d]
           /\ tracked' = tracked \ {d \in DimsOf[r] : dimActive'[d] = 0 /\ dimWaiters'[d] = 0}
<1>1. \A d \in DimsOf[r] : dimWaiters[d] > 0
  BY CountedInAll DEF DInv
<1>2. \A d \in Dims : dimWaiters[d] \in Nat
  BY Numbers
<1> QED
  BY <1>1, <1>2 DEF Down!removeWaiterLocked

\* A waiter gives up.
LEMMA GivesUpKeeps ==
    ASSUME Down!AdmissionAssumption, DInv, NEW r \in Downloads, downPc[r] = "waiting",
           UNCHANGED <<downGone, downExpired, once, Down!counters>>, Down!removeWaiterLocked(r), Down!Goto(r, "rejected")
    PROVE  DInv'
<1> USE DEF Down!counters
<1>1. downPc' \in [Downloads -> Down!RequestPC] /\ downPc'[r] = "rejected"
  BY DEF DInv, Down!TypeOK, Down!Goto, Down!RequestPC
<1>2. Down!TypeOK'
  BY <1>1, LeavesQueue DEF DInv, Down!TypeOK
<1>3. Follows(r)
  BY <1>1, Numbers DEF Follows
<1>4. QueueFollows(r)
  BY <1>1, LeavesQueue DEF QueueFollows
<1>5. r \notin once
  BY DEF DInv, Counting
<1>6. CountersWithin'
  BY Numbers DEF CountersWithin
<1>7. MapCounted'
  <2>1. \A d \in Dims : dimWaiters[d] \in Nat /\ dimWaiters'[d] \in Nat
    BY <1>2 DEF DInv, Down!TypeOK
  <2> QED
    BY <2>1, LeavesQueue, Numbers DEF MapCounted
<1>8. Down!NoLostWakeup'
  <2>1. ASSUME NEW q \in downWaiters' \ woken' PROVE Down!Blocked(q)'
    <3>1. q \in downWaiters \ woken
      BY LeavesQueue
    <3> QED
      BY <3>1 DEF DInv, Down!NoLostWakeup, Down!Blocked
  <2> QED
    BY <2>1 DEF Down!NoLostWakeup
<1> QED
  BY <1>2, <1>3, <1>4, <1>5, <1>6, <1>7, <1>8, MoveKeeps DEF Down!RequestPC

\* A waiter that was woken gets a slot.
LEMMA GrantedKeeps ==
    ASSUME Down!AdmissionAssumption, DInv, NEW r \in Downloads, downPc[r] = "waiting", ~Down!Blocked(r),
           UNCHANGED <<downGone, downExpired, once>>, Down!grantLocked(r), Down!removeWaiterLocked(r), Down!Goto(r, "admitted")
    PROVE  DInv'
<1>1. downPc' \in [Downloads -> Down!RequestPC] /\ downPc'[r] = "admitted"
  BY DEF DInv, Down!TypeOK, Down!Goto, Down!RequestPC
<1>2. Down!TypeOK'
  BY <1>1, LeavesQueue, GrantWithin DEF DInv, Down!TypeOK
<1>3. Follows(r)
  BY <1>1, GrantWithin DEF Follows
<1>4. QueueFollows(r)
  BY <1>1, LeavesQueue DEF QueueFollows
<1>5. r \notin once
  BY DEF DInv, Counting
<1>6. CountersWithin'
  BY GrantWithin
<1>7. MapCounted'
  <2>1. \A d \in Dims : dimWaiters[d] \in Nat /\ dimWaiters'[d] \in Nat /\ dimActive[d] \in Nat /\ dimActive'[d] \in Nat
    BY <1>2 DEF DInv, Down!TypeOK
  <2>2. \A d \in DimsOf[r] : d \in Dims /\ d \in tracked
    BY CountedInAll, Numbers DEF DInv, MapCounted
  <2> QED
    BY <2>1, <2>2, LeavesQueue, GrantWithin, Numbers DEF MapCounted
<1>8. Down!NoLostWakeup'
  <2>1. ASSUME NEW q \in downWaiters' \ woken' PROVE Down!Blocked(q)'
    <3>1. q \in downWaiters \ woken /\ q \in Downloads
      BY LeavesQueue DEF DInv, Down!TypeOK
    <3>2. Down!Blocked(q)
      BY <3>1 DEF DInv, Down!NoLostWakeup
    <3>3. /\ active <= active'
          /\ \A pf \in Profiles : activeByProfile'[pf] \in Nat /\ activeByProfile[pf] <= activeByProfile'[pf]
          /\ \A d \in Dims : dimActive'[d] \in Nat /\ dimActive[d] <= dimActive'[d]
      BY GrantWithin, Numbers
    <3> QED
      BY <3>1, <3>2, <3>3, GrantWithin, BlockedStays
  <2> QED
    BY <2>1 DEF Down!NoLostWakeup
<1> QED
  BY <1>2, <1>3, <1>4, <1>5, <1>6, <1>7, <1>8, MoveKeeps DEF Down!RequestPC

\* Acquire: refused, served at once, or a place in the queue.
LEMMA AcquireKeeps ==
    ASSUME Down!AdmissionAssumption, DInv, NEW r \in Downloads, Down!Acquire(r)
    PROVE  DInv'
<1>1. PICK l \in Down!RequestPC : Down!Goto(r, l) /\ l \in {"rejected", "admitted", "waiting"}
  BY DEF Down!Acquire, Down!RequestPC
<1>2. downPc' \in [Downloads -> Down!RequestPC] /\ downPc'[r] = l /\ downPc[r] = "arrived" /\ r \notin once /\ r \notin downWaiters
  BY <1>1 DEF DInv, Down!TypeOK, Counting, Down!Goto, Down!Acquire
<1>3. UNCHANGED <<downGone, downExpired, once>>
  BY DEF Down!Acquire
<1>4. CASE l = "rejected"
  <2>1. UNCHANGED <<Down!counters, Down!queue, tracked>>
    BY <1>1, <1>2, <1>4 DEF Down!Acquire, Down!Goto
  <2>2. Down!TypeOK'
    BY <1>2, <1>3, <2>1 DEF DInv, Down!TypeOK, Down!counters, Down!queue
  <2>3. Follows(r) /\ QueueFollows(r)
    BY <1>2, <1>4, <2>1, Numbers DEF Follows, QueueFollows, Down!counters, Down!queue
  <2>4. CountersWithin' /\ MapCounted'
    BY <2>1, Numbers DEF CountersWithin, MapCounted, Down!counters, Down!queue
  <2>5. Down!NoLostWakeup'
    BY <2>1 DEF DInv, Down!NoLostWakeup, Down!Blocked, Down!counters, Down!queue
  <2> QED
    BY <1>1, <1>2, <1>3, <1>4, <2>2, <2>3, <2>4, <2>5, MoveKeeps
<1>5. CASE l = "admitted"
  <2>1. ~Down!Blocked(r) /\ Down!grantLocked(r) /\ tracked' = tracked \cup DimsOf[r] /\ UNCHANGED Down!queue
    BY <1>1, <1>2, <1>5 DEF Down!Acquire, Down!Goto
  <2>2. Down!TypeOK'
    BY <1>2, <1>3, <2>1, GrantWithin, Numbers DEF DInv, Down!TypeOK, Down!queue
  <2>3. Follows(r)
    BY <1>2, <1>5, <2>1, GrantWithin DEF Follows
  <2>4. QueueFollows(r)
    BY <1>2, <1>5, <2>1, Numbers DEF QueueFollows, Down!queue
  <2>5. CountersWithin'
    BY <2>1, GrantWithin
  <2>6. MapCounted'
    <3>1. \A d \in Dims : dimWaiters[d] \in Nat /\ dimWaiters'[d] = dimWaiters[d] /\ dimActive[d] \in Nat /\ dimActive'[d] \in Nat
      BY <2>1, <2>2 DEF DInv, Down!TypeOK, Down!queue
    <3> QED
      BY <2>1, <3>1, GrantWithin, Numbers DEF MapCounted
  <2>7. Down!NoLostWakeup'
    <3>1. ASSUME NEW q \in downWaiters' \ woken' PROVE Down!Blocked(q)'
      <4>1. q \in downWaiters \ woken /\ q \in Downloads
        BY <2>1 DEF DInv, Down!TypeOK, Down!queue
      <4>2. Down!Blocked(q)
        BY <4>1 DEF DInv, Down!NoLostWakeup
      <4>3. /\ active <= active'
            /\ \A pf \in Profiles : activeByProfile'[pf] \in Nat /\ activeByProfile[pf] <= activeByProfile'[pf]
            /\ \A d \in Dims : dimActive'[d] \in Nat /\ dimActive[d] <= dimActive'[d]
        BY <2>1, GrantWithin, Numbers
      <4> QED
        BY <2>1, <4>1, <4>2, <4>3, GrantWithin, BlockedStays
    <3> QED
      BY <3>1 DEF Down!NoLostWakeup
  <2> QED
    BY <1>1, <1>2, <1>3, <1>5, <2>2, <2>3, <2>4, <2>5, <2>6, <2>7, MoveKeeps
<1>6. CASE l = "waiting"
  <2>1. Down!Blocked(r) /\ Down!addWaiterLocked(r) /\ tracked' = tracked \cup DimsOf[r] /\ UNCHANGED Down!counters
    BY <1>1, <1>2, <1>6 DEF Down!Acquire, Down!Goto
  <2>2. /\ dimWaiters' \in [Dims -> Nat]
        /\ \A d \in Dims : dimWaiters'[d] = IF d \in DimsOf[r] THEN dimWaiters[d] + 1 ELSE dimWaiters[d]
    BY <2>1, Numbers DEF Down!addWaiterLocked
  <2>3. Down!TypeOK'
    BY <1>2, <1>3, <2>1, <2>2, Numbers DEF DInv, Down!TypeOK, Down!addWaiterLocked, Down!counters
  <2>4. Follows(r)
    BY <1>2, <1>6, <2>1, Numbers DEF Follows, Down!counters
  <2>5. QueueFollows(r)
    BY <1>2, <1>6, <2>1, <2>2 DEF QueueFollows, Down!addWaiterLocked
  <2>6. CountersWithin'
    BY <2>1, Numbers DEF CountersWithin, Down!counters
  <2>7. MapCounted'
    BY <2>1, <2>2, Numbers DEF MapCounted, Down!counters
  <2>8. Down!NoLostWakeup'
    <3>1. ASSUME NEW q \in downWaiters' \ woken' PROVE Down!Blocked(q)
      BY <2>1 DEF Down!addWaiterLocked, DInv, Down!NoLostWakeup
    <3> QED
      BY <2>1, <3>1 DEF Down!NoLostWakeup, Down!Blocked, Down!counters
  <2> QED
    BY <1>1, <1>2, <1>3, <1>6, <2>3, <2>4, <2>5, <2>6, <2>7, <2>8, MoveKeeps
<1> QED
  BY <1>1, <1>4, <1>5, <1>6

\* The handler gives the slot back, once whatever its cleanup repeats.
LEMMA ReleaseKeeps ==
    ASSUME Down!AdmissionAssumption, DInv, NEW r \in Downloads, Down!HandlerReleases(r)
    PROVE  DInv'
<1>1. CASE downPc[r] = "admitted"
  <2>1. r \notin once /\ Down!release(r) /\ once' = once \cup {r} /\ Down!Goto(r, "finishing") /\ UNCHANGED <<downGone, downExpired>>
    BY <1>1 DEF DInv, Counting, Down!HandlerReleases, Down!Release
  <2>2. downPc' \in [Downloads -> Down!RequestPC] /\ downPc'[r] = "finishing"
    BY <2>1 DEF DInv, Down!TypeOK, Down!Goto, Down!RequestPC
  <2>3. /\ active > 0 /\ activeByProfile[ProfileOf[r]] > 0
        /\ \A d \in DimsOf[r] : dimActive[d] > 0
    BY <1>1, CountedInAll DEF DInv
  <2>4. active' = active + (0 - 1) /\ active' \in Nat
    BY <2>1, <2>3, Numbers DEF Down!release
  <2>5. /\ activeByProfile' \in [Profiles -> Nat]
        /\ \A pf \in Profiles : activeByProfile'[pf] = IF pf = ProfileOf[r] THEN activeByProfile[pf] + (0 - 1) ELSE activeByProfile[pf]
    <3>1. activeByProfile \in [Profiles -> Nat]
      BY DEF DInv, Down!TypeOK
    <3> QED
      BY <2>1, <2>3, <3>1, Numbers DEF Down!release
  <2>6. /\ dimActive' \in [Dims -> Nat]
        /\ \A d \in Dims : dimActive'[d] = IF d \in DimsOf[r] THEN dimActive[d] + (0 - 1) ELSE dimActive[d]
    BY <2>1, <2>3, Numbers DEF Down!release
  <2>7. UNCHANGED <<dimWaiters, downWaiters>> /\ downWaiters' \subseteq woken' /\ woken' \subseteq woken \cup downWaiters
    BY <2>1 DEF Down!release, Down!signalLocked
  <2>8. Down!TypeOK'
    BY <2>1, <2>2, <2>4, <2>5, <2>6, <2>7 DEF DInv, Down!TypeOK, Down!release
  <2>9. Follows(r)
    BY <1>1, <2>2, <2>4, <2>5, <2>6 DEF Follows
  <2>10. QueueFollows(r)
    <3>1. r \notin downWaiters
      BY <1>1 DEF DInv, Counting
    <3> QED
      BY <1>1, <2>2, <2>7, <3>1, Numbers DEF QueueFollows
  <2>11. CountersWithin'
    BY <2>4, <2>5, <2>6, Numbers DEF CountersWithin
  <2>12. MapCounted'
    <3>1. tracked' = tracked \ {d \in DimsOf[r] : dimActive'[d] = 0 /\ dimWaiters[d] = 0}
      BY <2>1 DEF Down!release
    <3>2. \A d \in Dims : dimActive'[d] \in Nat
      BY <2>6
    <3> QED
      BY <2>3, <2>6, <2>7, <3>1, <3>2, Numbers DEF MapCounted
  <2>13. Down!NoLostWakeup'
    BY <2>7 DEF Down!NoLostWakeup
  <2> QED
    BY <2>1, <2>2, <2>8, <2>9, <2>10, <2>11, <2>12, <2>13, MoveKeeps DEF Down!RequestPC
<1>2. CASE downPc[r] = "finishing"
  <2>1. r \in once /\ UNCHANGED <<once, Down!counters, Down!queue, tracked, downGone, downExpired>> /\ Down!Goto(r, "done")
    BY <1>2 DEF DInv, Counting, Down!HandlerReleases, Down!Release
  <2>2. downPc' \in [Downloads -> Down!RequestPC] /\ downPc'[r] = "done"
    BY <2>1 DEF DInv, Down!TypeOK, Down!Goto, Down!RequestPC
  <2>3. Down!TypeOK'
    BY <2>1, <2>2 DEF DInv, Down!TypeOK, Down!counters, Down!queue
  <2>4. Follows(r)
    BY <1>2, <2>1, <2>2, Numbers DEF Follows, Down!counters
  <2>5. QueueFollows(r)
    <3>1. r \notin downWaiters
      BY <1>2 DEF DInv, Counting
    <3> QED
      BY <1>2, <2>1, <2>2, <3>1, Numbers DEF QueueFollows, Down!queue
  <2>6. CountersWithin' /\ MapCounted'
    BY <2>1, Numbers DEF CountersWithin, MapCounted, Down!counters, Down!queue
  <2>7. Down!NoLostWakeup'
    BY <2>1 DEF DInv, Down!NoLostWakeup, Down!Blocked, Down!counters, Down!queue
  <2> QED
    BY <2>1, <2>2, <2>3, <2>4, <2>5, <2>6, <2>7, MoveKeeps DEF Down!RequestPC
<1> QED
  BY <1>1, <1>2 DEF Down!HandlerReleases

\* What only a client or a timer does, and a wake-up that finds every gate full.
LEMMA OtherKeeps ==
    ASSUME Down!AdmissionAssumption, DInv, UNCHANGED <<downPc, once, Down!counters, dimWaiters, downWaiters, tracked>>,
           downGone' \subseteq Downloads, downExpired' \subseteq Downloads, woken' \subseteq woken,
           \A r \in woken \ woken' : Down!Blocked(r)
    PROVE  DInv'
<1>1. Down!TypeOK'
  BY DEF DInv, Down!TypeOK, Down!counters
<1>2. Down!Holders' = Down!Holders
  BY DEF Down!Holders
<1>3. Counting'
  BY <1>2 DEF DInv, Counting, HoldersIn, HoldersOf, WaitersOf, Down!counters
<1>4. Down!WithinCaps' /\ Down!TrackedWhileUsed'
  BY <1>2 DEF DInv, Down!WithinCaps, Down!TrackedWhileUsed
<1>5. Down!NoLostWakeup'
  <2>1. ASSUME NEW q \in downWaiters' \ woken' PROVE Down!Blocked(q)
    BY DEF DInv, Down!NoLostWakeup
  <2> QED
    BY <2>1 DEF Down!NoLostWakeup, Down!Blocked, Down!counters
<1> QED
  BY <1>1, <1>3, <1>4, <1>5 DEF DInv

LEMMA NextDInv == ASSUME Down!AdmissionAssumption, DInv, [Down!Next]_Down!vars PROVE DInv'
<1>1. ASSUME NEW r \in Downloads, Down!Acquire(r) PROVE DInv'
  BY <1>1, AcquireKeeps
<1>2. ASSUME NEW r \in Downloads, Down!WaitDone(r) PROVE DInv'
  BY <1>2, GivesUpKeeps DEF Down!WaitDone
<1>3. ASSUME NEW r \in Downloads, Down!WaitNotified(r) PROVE DInv'
  <2>1. CASE UNCHANGED Down!counters /\ Down!removeWaiterLocked(r) /\ Down!Goto(r, "rejected")
    BY <1>3, <2>1, GivesUpKeeps DEF Down!WaitNotified
  <2>2. CASE ~Down!Blocked(r) /\ Down!grantLocked(r) /\ Down!removeWaiterLocked(r) /\ Down!Goto(r, "admitted")
    BY <1>3, <2>2, GrantedKeeps DEF Down!WaitNotified
  <2>3. CASE Down!Blocked(r) /\ woken' = woken \ {r} /\ UNCHANGED <<downPc, Down!counters, dimWaiters, downWaiters, tracked>>
    <3>1. UNCHANGED <<once, downGone, downExpired>> /\ downGone \subseteq Downloads /\ downExpired \subseteq Downloads
      BY <1>3 DEF Down!WaitNotified, DInv, Down!TypeOK
    <3> QED
      BY <2>3, <3>1, OtherKeeps
  <2> QED
    BY <1>3, <2>1, <2>2, <2>3 DEF Down!WaitNotified
<1>4. ASSUME NEW r \in Downloads, Down!HandlerReleases(r) PROVE DInv'
  BY <1>4, ReleaseKeeps
<1>5. ASSUME NEW r \in Downloads, Down!ClientGone(r) \/ Down!WaitExpires(r) PROVE DInv'
  <2>1. downGone' \subseteq Downloads /\ downExpired' \subseteq Downloads
    BY <1>5 DEF Down!ClientGone, Down!WaitExpires, DInv, Down!TypeOK
  <2>2. UNCHANGED <<downPc, once, Down!counters, dimWaiters, downWaiters, tracked, woken>>
    BY <1>5 DEF Down!ClientGone, Down!WaitExpires, Down!queue
  <2> QED
    BY <2>1, <2>2, OtherKeeps
<1>6. CASE UNCHANGED Down!vars
  <2>1. downGone' \subseteq Downloads /\ downExpired' \subseteq Downloads
    BY <1>6 DEF Down!vars, DInv, Down!TypeOK
  <2>2. UNCHANGED <<downPc, once, Down!counters, dimWaiters, downWaiters, tracked, woken>>
    BY <1>6 DEF Down!vars, Down!queue
  <2> QED
    BY <2>1, <2>2, OtherKeeps
<1> QED
  BY <1>1, <1>2, <1>3, <1>4, <1>5, <1>6 DEF Down!Next, Down!RequestStep

\* Downloads stay within every cap (node, profile, identity), an identity is in the map as long as
\* a request counts in it and no longer, and a waiter nothing will wake is blocked by a gate
\* (admission.go: Acquire, tryGrantLocked, grantLocked, removeWaiterLocked, release, signalLocked).
THEOREM DownloadsAdmitted ==
    Down!AdmissionAssumption => (Down!Spec => [](Down!TypeOK /\ Down!WithinCaps /\ Down!TrackedWhileUsed /\ Down!NoLostWakeup))
<1> SUFFICES ASSUME Down!AdmissionAssumption PROVE Down!Spec => [](Down!TypeOK /\ Down!WithinCaps /\ Down!TrackedWhileUsed /\ Down!NoLostWakeup)
  OBVIOUS
<1>1. Down!Init => DInv
  BY InitDInv
<1>2. DInv /\ [Down!Next]_Down!vars => DInv'
  BY NextDInv
<1>3. DInv => Down!TypeOK /\ Down!WithinCaps /\ Down!TrackedWhileUsed /\ Down!NoLostWakeup
  BY DEF DInv
<1> QED
  BY <1>1, <1>2, <1>3, PTL DEF Down!Spec

-----------------------------------------------------------------------------
(* Sync requests: the inductive invariant *)

CONSTANTS SyncRequests, Users, UserOf, MaxPerUser, MaxPerNode, MaxWaitersPerUser, SyncWaitersPerNode, NoGate
VARIABLES syncPc, syncGone, syncExpired, perUser, sem, refs, gateWaiters, gate, node, entries, nodeWaiters

Sync == INSTANCE SyncAdmission WITH
    Requests <- SyncRequests, MaxWaitersPerNode <- SyncWaitersPerNode,
    pc <- syncPc, gone <- syncGone, expired <- syncExpired, waiters <- gateWaiters

\* Where a request has a slot of its user, refers to a gate, waits for one, has a slot of the node,
\* counts as a waiter of the node, and holds an entry.
SlotPlaces == {"userSent", "userHeld", "nodeWait", "nodeSent", "nodeHeld", "admitted", "relSem"}
RefPlaces == {"userWait", "userSent", "userHeld", "nodeWait", "nodeSent", "nodeHeld", "admitted", "relSem", "relRef"}
GateQueue == {"userWait", "userSent"}
NodePlaces == {"nodeSent", "nodeHeld", "admitted"}
NodeQueue == {"userWait", "userSent", "nodeWait", "nodeSent"}
EntryPlaces == Sync!RequestPC \ {"arrived", "done"}

\* The instance has its own names for the operators of FiniteSets.
LEMMA SyncCounts ==
    /\ \A S : Sync!IsFiniteSet(S) <=> IsFiniteSet(S)
    /\ \A S : Sync!Cardinality(S) = Cardinality(S)
<1>1. ASSUME NEW S PROVE Sync!IsFiniteSet(S) <=> IsFiniteSet(S)
  BY DEF Sync!IsFiniteSet, IsFiniteSet
<1>2. ASSUME NEW S PROVE Sync!Cardinality(S) = Cardinality(S)
  BY DEF Sync!Cardinality, Cardinality
<1> QED
  BY <1>1, <1>2

\* The requests at some places that refer to gate g.
Of(ls, g) == {r \in SyncRequests : syncPc[r] \in ls /\ gate[r] = g}

GateCounts ==
    \A g \in SyncRequests :
        /\ sem[g] = Cardinality(Of(SlotPlaces, g))
        /\ refs[g] = Cardinality(Of(RefPlaces, g))
        /\ gateWaiters[g] = Cardinality(Of(GateQueue, g))
NodeCounts ==
    /\ node = Cardinality(Sync!At(NodePlaces))
    /\ nodeWaiters = Cardinality(Sync!At(NodeQueue))
    /\ entries = Cardinality(Sync!At(EntryPlaces))
SlotsBounded == (\A g \in SyncRequests : sem[g] <= MaxPerUser) /\ node <= MaxPerNode
GateUse == \A r \in SyncRequests : gate[r] # NoGate <=> syncPc[r] \in RefPlaces
\* A gate in the map is its user's and somebody refers to it.
MapUse ==
    \A u \in Users : perUser[u] # NoGate =>
        UserOf[perUser[u]] = u /\ \E r \in SyncRequests : gate[r] = perUser[u]

SInv ==
    /\ Sync!TypeOK /\ GateCounts /\ NodeCounts /\ SlotsBounded
    /\ GateUse /\ MapUse /\ Sync!ReferredGateInMap

LEMMA InitSInv == ASSUME Sync!LimiterAssumption, Sync!Init PROVE SInv
<1>1. Sync!TypeOK
  BY DEF Sync!Init, Sync!TypeOK, Sync!RequestPC, Sync!LimiterAssumption, Sync!Gates
<1>2. GateCounts
  <2>1. \A ls, g : g \in SyncRequests => Of(ls, g) = {}
    BY DEF Of, Sync!Init, Sync!LimiterAssumption
  <2> QED
    BY <2>1, FS_EmptySet DEF GateCounts, Sync!Init, Sync!Gates
<1>3. NodeCounts
  <2>1. Sync!At(NodePlaces) = {} /\ Sync!At(NodeQueue) = {} /\ Sync!At(EntryPlaces) = {}
    BY DEF Sync!At, Sync!Init, NodePlaces, NodeQueue, EntryPlaces
  <2> QED
    BY <2>1, FS_EmptySet DEF NodeCounts, Sync!Init
<1>4. SlotsBounded
  BY DEF SlotsBounded, Sync!Init, Sync!LimiterAssumption, Sync!Gates
<1>5. GateUse /\ MapUse /\ Sync!ReferredGateInMap
  BY DEF GateUse, MapUse, Sync!ReferredGateInMap, Sync!Init, RefPlaces
<1> QED
  BY <1>1, <1>2, <1>3, <1>4, <1>5 DEF SInv

-----------------------------------------------------------------------------
(* Sync requests: what a step that moves one request does to the counts *)

Delta(was, is) == IF is /\ ~was THEN 1 ELSE IF was /\ ~is THEN 0 - 1 ELSE 0

LEMMA AtMoves ==
    ASSUME Sync!LimiterAssumption, Sync!TypeOK, NEW r \in SyncRequests, NEW l, Sync!Goto(r, l), NEW ls
    PROVE  /\ Cardinality(Sync!At(ls)) \in Nat /\ Cardinality(Sync!At(ls)') \in Nat
           /\ Cardinality(Sync!At(ls)') = Cardinality(Sync!At(ls)) + Delta(syncPc[r] \in ls, l \in ls)
<1>1. /\ Sync!At(ls) \in SUBSET SyncRequests /\ Sync!At(ls)' \in SUBSET SyncRequests
      /\ (r \in Sync!At(ls) <=> syncPc[r] \in ls) /\ (r \in Sync!At(ls)' <=> l \in ls)
      /\ \A q \in SyncRequests \ {r} : q \in Sync!At(ls) <=> q \in Sync!At(ls)'
  BY DEF Sync!At, Sync!Goto, Sync!TypeOK
<1>2. IsFiniteSet(SyncRequests)
  BY SyncCounts DEF Sync!LimiterAssumption
<1> QED
  BY <1>1, <1>2, CountStep DEF Delta

\* The request refers to gate b from now on.
Refers(r, b) == gate' = [gate EXCEPT ![r] = b]

LEMMA OfMoves ==
    ASSUME Sync!LimiterAssumption, Sync!TypeOK, NEW r \in SyncRequests, NEW l, Sync!Goto(r, l),
           NEW b, Refers(r, b), NEW ls, NEW g
    PROVE  /\ Cardinality(Of(ls, g)) \in Nat /\ Cardinality(Of(ls, g)') \in Nat
           /\ Cardinality(Of(ls, g)') = Cardinality(Of(ls, g)) + Delta(syncPc[r] \in ls /\ gate[r] = g, l \in ls /\ b = g)
<1>1. /\ Of(ls, g) \in SUBSET SyncRequests /\ Of(ls, g)' \in SUBSET SyncRequests
      /\ (r \in Of(ls, g) <=> syncPc[r] \in ls /\ gate[r] = g) /\ (r \in Of(ls, g)' <=> l \in ls /\ b = g)
      /\ \A q \in SyncRequests \ {r} : q \in Of(ls, g) <=> q \in Of(ls, g)'
  BY DEF Of, Sync!Goto, Sync!TypeOK, Refers
<1>2. IsFiniteSet(SyncRequests)
  BY SyncCounts DEF Sync!LimiterAssumption
<1> QED
  BY <1>1, <1>2, CountStep DEF Delta

\* A request moves to l, and the counters of the node and the gates follow it.
NodeFollows(r, l) ==
    /\ node' = node + Delta(syncPc[r] \in NodePlaces, l \in NodePlaces)
    /\ nodeWaiters' = nodeWaiters + Delta(syncPc[r] \in NodeQueue, l \in NodeQueue)
    /\ entries' = entries + Delta(syncPc[r] \in EntryPlaces, l \in EntryPlaces)
GateFollows(r, l, b) ==
    /\ Refers(r, b)
    /\ sem' \in [SyncRequests -> Int] /\ refs' \in [SyncRequests -> Int] /\ gateWaiters' \in [SyncRequests -> Int]
    /\ \A g \in SyncRequests :
        /\ sem'[g] = sem[g] + Delta(syncPc[r] \in SlotPlaces /\ gate[r] = g, l \in SlotPlaces /\ b = g)
        /\ refs'[g] = refs[g] + Delta(syncPc[r] \in RefPlaces /\ gate[r] = g, l \in RefPlaces /\ b = g)
        /\ gateWaiters'[g] = gateWaiters[g] + Delta(syncPc[r] \in GateQueue /\ gate[r] = g, l \in GateQueue /\ b = g)

\* What is to be shown of such a step.
LEMMA SyncMoveKeeps ==
    ASSUME Sync!LimiterAssumption, SInv, NEW r \in SyncRequests, NEW l \in Sync!RequestPC, Sync!Goto(r, l),
           NEW b \in SyncRequests \cup {NoGate}, b # NoGate <=> l \in RefPlaces,
           NodeFollows(r, l), GateFollows(r, l, b),
           syncGone' \subseteq SyncRequests, syncExpired' \subseteq SyncRequests,
           perUser' \in [Users -> SyncRequests \cup {NoGate}],
           SlotsBounded', MapUse', Sync!ReferredGateInMap'
    PROVE  SInv'
<1>0. Sync!TypeOK /\ GateCounts /\ NodeCounts /\ GateUse
  BY DEF SInv
<1>1. GateCounts' /\ \A g \in SyncRequests : sem'[g] \in Nat /\ refs'[g] \in Nat /\ gateWaiters'[g] \in Nat
  <2>1. ASSUME NEW g \in SyncRequests, NEW ls, NEW n, n = Cardinality(Of(ls, g)),
               NEW m, m = n + Delta(syncPc[r] \in ls /\ gate[r] = g, l \in ls /\ b = g)
        PROVE  m = Cardinality(Of(ls, g)') /\ m \in Nat
    <3>1. Refers(r, b)
      BY DEF GateFollows
    <3>2. /\ Cardinality(Of(ls, g)) \in Nat /\ Cardinality(Of(ls, g)') \in Nat
          /\ Cardinality(Of(ls, g)') = Cardinality(Of(ls, g)) + Delta(syncPc[r] \in ls /\ gate[r] = g, l \in ls /\ b = g)
      BY <1>0, <3>1, OfMoves
    <3> QED
      BY <2>1, <3>2
  <2>2. ASSUME NEW g \in SyncRequests
        PROVE  /\ sem'[g] = Cardinality(Of(SlotPlaces, g)') /\ sem'[g] \in Nat
               /\ refs'[g] = Cardinality(Of(RefPlaces, g)') /\ refs'[g] \in Nat
               /\ gateWaiters'[g] = Cardinality(Of(GateQueue, g)') /\ gateWaiters'[g] \in Nat
    <3>1. /\ sem[g] = Cardinality(Of(SlotPlaces, g))
          /\ refs[g] = Cardinality(Of(RefPlaces, g))
          /\ gateWaiters[g] = Cardinality(Of(GateQueue, g))
      BY <1>0 DEF GateCounts
    <3>2. /\ sem'[g] = sem[g] + Delta(syncPc[r] \in SlotPlaces /\ gate[r] = g, l \in SlotPlaces /\ b = g)
          /\ refs'[g] = refs[g] + Delta(syncPc[r] \in RefPlaces /\ gate[r] = g, l \in RefPlaces /\ b = g)
          /\ gateWaiters'[g] = gateWaiters[g] + Delta(syncPc[r] \in GateQueue /\ gate[r] = g, l \in GateQueue /\ b = g)
      BY DEF GateFollows
    <3> QED
      BY <2>1, <3>1, <3>2
  <2> QED
    BY <2>2 DEF GateCounts, SlotPlaces, RefPlaces, GateQueue
<1>2. NodeCounts' /\ node' \in Nat /\ nodeWaiters' \in Nat /\ entries' \in Nat
  <2>1. node' = Cardinality(Sync!At(NodePlaces)') /\ node' \in Nat
    BY <1>0, AtMoves DEF NodeCounts, NodeFollows
  <2>2. nodeWaiters' = Cardinality(Sync!At(NodeQueue)') /\ nodeWaiters' \in Nat
    BY <1>0, AtMoves DEF NodeCounts, NodeFollows
  <2>3. entries' = Cardinality(Sync!At(EntryPlaces)') /\ entries' \in Nat
    BY <1>0, AtMoves DEF NodeCounts, NodeFollows
  <2> QED
    BY <2>1, <2>2, <2>3 DEF NodeCounts, NodePlaces, NodeQueue, EntryPlaces
<1>3. syncPc' \in [SyncRequests -> Sync!RequestPC] /\ gate' \in [SyncRequests -> SyncRequests \cup {NoGate}]
  BY <1>0 DEF Sync!TypeOK, Sync!Goto, GateFollows, Refers, Sync!Gates
<1>4. Sync!TypeOK'
  <2>1. sem' \in [SyncRequests -> Nat] /\ refs' \in [SyncRequests -> Nat] /\ gateWaiters' \in [SyncRequests -> Nat]
    BY <1>1 DEF GateFollows
  <2> QED
    BY <1>2, <1>3, <2>1 DEF Sync!TypeOK, Sync!Gates
<1>5. GateUse'
  BY <1>0 DEF GateUse, GateFollows, Refers, Sync!Goto, Sync!TypeOK
<1> QED
  BY <1>1, <1>2, <1>4, <1>5 DEF SInv

\* The types of the fields of the gates and of the counters of the node.
LEMMA SyncNumbers ==
    ASSUME Sync!LimiterAssumption, SInv
    PROVE  /\ syncPc \in [SyncRequests -> Sync!RequestPC] /\ gate \in [SyncRequests -> SyncRequests \cup {NoGate}]
           /\ perUser \in [Users -> SyncRequests \cup {NoGate}]
           /\ sem \in [SyncRequests -> Nat] /\ refs \in [SyncRequests -> Nat] /\ gateWaiters \in [SyncRequests -> Nat]
           /\ node \in Nat /\ entries \in Nat /\ nodeWaiters \in Nat
           /\ syncGone \subseteq SyncRequests /\ syncExpired \subseteq SyncRequests
           /\ MaxPerUser \in Nat \ {0} /\ MaxPerNode \in Nat \ {0} /\ NoGate \notin SyncRequests
           /\ UserOf \in [SyncRequests -> Users]
  BY DEF SInv, Sync!TypeOK, Sync!Gates, Sync!LimiterAssumption

\* A step of a request that keeps the gate it refers to, or has none before and after.
LEMMA SameGateKeeps ==
    ASSUME Sync!LimiterAssumption, SInv, NEW r \in SyncRequests, NEW l \in Sync!RequestPC, Sync!Goto(r, l),
           syncPc[r] \in RefPlaces <=> l \in RefPlaces,
           UNCHANGED <<syncGone, syncExpired, gate, perUser, refs>>,
           NodeFollows(r, l),
           sem' \in [SyncRequests -> Int], gateWaiters' \in [SyncRequests -> Int],
           \A g \in SyncRequests :
               /\ sem'[g] = sem[g] + IF gate[r] = g THEN Delta(syncPc[r] \in SlotPlaces, l \in SlotPlaces) ELSE 0
               /\ gateWaiters'[g] = gateWaiters[g] + IF gate[r] = g THEN Delta(syncPc[r] \in GateQueue, l \in GateQueue) ELSE 0,
           SlotsBounded'
    PROVE  SInv'
<1>1. gate[r] \in SyncRequests \cup {NoGate} /\ (gate[r] # NoGate <=> l \in RefPlaces)
  BY SyncNumbers DEF SInv, GateUse
<1>2. Refers(r, gate[r])
  BY SyncNumbers DEF Refers
<1>3. GateFollows(r, l, gate[r])
  BY <1>2, SyncNumbers DEF GateFollows, Delta
<1>4. MapUse' /\ Sync!ReferredGateInMap'
  BY DEF SInv, MapUse, Sync!ReferredGateInMap
<1>5. /\ syncGone' \subseteq SyncRequests /\ syncExpired' \subseteq SyncRequests
      /\ perUser' \in [Users -> SyncRequests \cup {NoGate}]
  BY SyncNumbers
<1> QED
  BY <1>1, <1>3, <1>4, <1>5, SyncMoveKeeps

-----------------------------------------------------------------------------
(* Sync requests: the steps *)

\* A step that leaves the gates alone: the counters of the node follow the request.
LEMMA GatesAlone ==
    ASSUME Sync!LimiterAssumption, SInv, NEW r \in SyncRequests, NEW l \in Sync!RequestPC, Sync!Goto(r, l),
           syncPc[r] \in RefPlaces <=> l \in RefPlaces, syncPc[r] \in SlotPlaces <=> l \in SlotPlaces,
           syncPc[r] \in GateQueue <=> l \in GateQueue,
           UNCHANGED <<syncGone, syncExpired, Sync!gates>>, NodeFollows(r, l), node' <= MaxPerNode
    PROVE  SInv'
<1>1. UNCHANGED <<gate, perUser, refs, sem, gateWaiters>>
  BY DEF Sync!gates
<1>2. SlotsBounded'
  BY <1>1 DEF SInv, SlotsBounded
<1>3. /\ sem' \in [SyncRequests -> Int] /\ gateWaiters' \in [SyncRequests -> Int]
      /\ \A g \in SyncRequests :
               /\ sem'[g] = sem[g] + IF gate[r] = g THEN Delta(syncPc[r] \in SlotPlaces, l \in SlotPlaces) ELSE 0
               /\ gateWaiters'[g] = gateWaiters[g] + IF gate[r] = g THEN Delta(syncPc[r] \in GateQueue, l \in GateQueue) ELSE 0
  BY <1>1, SyncNumbers DEF Delta
<1> QED
  BY <1>1, <1>2, <1>3, SameGateKeeps

LEMMA EntryKeeps ==
    ASSUME Sync!LimiterAssumption, SInv, NEW r \in SyncRequests, Sync!acquireEntry(r) \/ Sync!releaseEntry(r)
    PROVE  SInv'
<1>1. PICK l \in {"entered", "done"} :
        /\ Sync!Goto(r, l) /\ UNCHANGED <<syncGone, syncExpired, Sync!gates, node, nodeWaiters>>
        /\ \/ syncPc[r] = "arrived" /\ l = "done" /\ entries' = entries
           \/ syncPc[r] = "arrived" /\ l = "entered" /\ entries' = entries + 1
           \/ syncPc[r] = "relEntry" /\ l = "done" /\ entries' = entries - 1
  BY DEF Sync!acquireEntry, Sync!releaseEntry
<1>2. NodeFollows(r, l)
  BY <1>1, SyncNumbers DEF NodeFollows, Delta, NodePlaces, NodeQueue, EntryPlaces, Sync!RequestPC
<1>3. node' <= MaxPerNode
  BY <1>1 DEF SInv, SlotsBounded
<1> QED
  BY <1>1, <1>2, <1>3, GatesAlone DEF RefPlaces, SlotPlaces, GateQueue, Sync!RequestPC

LEMMA NodeKeeps ==
    ASSUME Sync!LimiterAssumption, SInv, NEW r \in SyncRequests,
           \/ Sync!acquireNode(r) \/ Sync!NodeSend(r) \/ Sync!NodeLeavesQueue(r) \/ Sync!NodeGivesUp(r)
           \/ Sync!acquire(r) \/ Sync!releaseNode(r)
    PROVE  SInv'
<1>1. PICK l \in {"relSem", "nodeHeld", "nodeWait", "nodeSent", "admitted"} :
        /\ Sync!Goto(r, l) /\ UNCHANGED <<syncGone, syncExpired, Sync!gates, entries>>
        /\ \/ syncPc[r] = "userHeld" /\ l = "relSem" /\ node' = node /\ nodeWaiters' = nodeWaiters
           \/ syncPc[r] = "userHeld" /\ l = "nodeHeld" /\ node < MaxPerNode /\ node' = node + 1 /\ nodeWaiters' = nodeWaiters
           \/ syncPc[r] = "userHeld" /\ l = "nodeWait" /\ node' = node /\ nodeWaiters' = nodeWaiters + 1
           \/ syncPc[r] = "nodeWait" /\ l = "nodeSent" /\ node < MaxPerNode /\ node' = node + 1 /\ nodeWaiters' = nodeWaiters
           \/ syncPc[r] = "nodeSent" /\ l = "nodeHeld" /\ node' = node /\ nodeWaiters' = nodeWaiters - 1
           \/ syncPc[r] = "nodeWait" /\ l = "relSem" /\ node' = node /\ nodeWaiters' = nodeWaiters - 1
           \/ syncPc[r] = "nodeHeld" /\ l = "relSem" /\ node' = node - 1 /\ nodeWaiters' = nodeWaiters
           \/ syncPc[r] = "nodeHeld" /\ l = "admitted" /\ node' = node /\ nodeWaiters' = nodeWaiters
           \/ syncPc[r] = "admitted" /\ l = "relSem" /\ node' = node - 1 /\ nodeWaiters' = nodeWaiters
  <2>1. CASE Sync!acquireNode(r)
    BY <2>1 DEF Sync!acquireNode
  <2>2. CASE Sync!NodeSend(r) \/ Sync!NodeLeavesQueue(r) \/ Sync!NodeGivesUp(r)
    BY <2>2 DEF Sync!NodeSend, Sync!NodeLeavesQueue, Sync!NodeGivesUp
  <2>3. CASE Sync!acquire(r) \/ Sync!releaseNode(r)
    BY <2>3 DEF Sync!acquire, Sync!releaseNode
  <2> QED
    BY <2>1, <2>2, <2>3
<1>2. NodeFollows(r, l)
  BY <1>1, SyncNumbers DEF NodeFollows, Delta, NodePlaces, NodeQueue, EntryPlaces, Sync!RequestPC
<1>3. node' <= MaxPerNode
  BY <1>1, SyncNumbers DEF SInv, SlotsBounded
<1> QED
  BY <1>1, <1>2, <1>3, GatesAlone DEF RefPlaces, SlotPlaces, GateQueue, Sync!RequestPC

\* A send and a receive on the gate, and the place in its queue.
LEMMA GateKeeps ==
    ASSUME Sync!LimiterAssumption, SInv, NEW r \in SyncRequests,
           Sync!UserSend(r) \/ Sync!UserLeavesQueue(r) \/ Sync!releaseUserSem(r)
    PROVE  SInv'
<1>0. syncPc[r] \in {"userWait", "userSent", "relSem"} /\ gate[r] \in SyncRequests
  BY SyncNumbers DEF SInv, GateUse, RefPlaces, Sync!UserSend, Sync!UserLeavesQueue, Sync!releaseUserSem
<1>1. PICK l \in {"userSent", "userHeld", "relRef"} :
        /\ Sync!Goto(r, l) /\ UNCHANGED <<syncGone, syncExpired, perUser, refs, gate, node, entries>>
        /\ \/ /\ syncPc[r] = "userWait" /\ l = "userSent" /\ sem[gate[r]] < MaxPerUser
              /\ sem' = [sem EXCEPT ![gate[r]] = @ + 1] /\ UNCHANGED <<gateWaiters, nodeWaiters>>
           \/ /\ syncPc[r] = "userSent" /\ l = "userHeld"
              /\ gateWaiters' = [gateWaiters EXCEPT ![gate[r]] = @ - 1] /\ nodeWaiters' = nodeWaiters - 1 /\ UNCHANGED sem
           \/ /\ syncPc[r] = "relSem" /\ l = "relRef"
              /\ sem' = [sem EXCEPT ![gate[r]] = @ - 1] /\ UNCHANGED <<gateWaiters, nodeWaiters>>
  BY DEF Sync!UserSend, Sync!UserLeavesQueue, Sync!releaseUserSem
<1>2. NodeFollows(r, l)
  BY <1>1, SyncNumbers DEF NodeFollows, Delta, NodePlaces, NodeQueue, EntryPlaces, Sync!RequestPC
<1>3. /\ sem' \in [SyncRequests -> Int] /\ gateWaiters' \in [SyncRequests -> Int]
      /\ \A g \in SyncRequests :
               /\ sem'[g] = sem[g] + IF gate[r] = g THEN Delta(syncPc[r] \in SlotPlaces, l \in SlotPlaces) ELSE 0
               /\ gateWaiters'[g] = gateWaiters[g] + IF gate[r] = g THEN Delta(syncPc[r] \in GateQueue, l \in GateQueue) ELSE 0
  <2>1. CASE syncPc[r] = "userWait" /\ l = "userSent"
    BY <1>0, <1>1, <2>1, SyncNumbers DEF Delta, SlotPlaces, GateQueue
  <2>2. CASE syncPc[r] = "userSent" /\ l = "userHeld"
    BY <1>0, <1>1, <2>2, SyncNumbers DEF Delta, SlotPlaces, GateQueue
  <2>3. CASE syncPc[r] = "relSem" /\ l = "relRef"
    BY <1>0, <1>1, <2>3, SyncNumbers DEF Delta, SlotPlaces, GateQueue
  <2> QED
    BY <1>1, <2>1, <2>2, <2>3
<1>4. SlotsBounded'
  <2>1. ASSUME NEW g \in SyncRequests PROVE sem'[g] <= MaxPerUser
    BY <1>0, <1>1, SyncNumbers DEF SInv, SlotsBounded
  <2> QED
    BY <1>1, <2>1 DEF SInv, SlotsBounded
<1>5. syncPc[r] \in RefPlaces <=> l \in RefPlaces
  BY <1>1 DEF RefPlaces
<1> QED
  BY <1>1, <1>2, <1>3, <1>4, <1>5, SameGateKeeps DEF Sync!RequestPC

\* A gate that nobody refers to counts nothing, and one that somebody refers to counts.
LEMMA RefsCount ==
    ASSUME Sync!LimiterAssumption, SInv, NEW g \in SyncRequests
    PROVE  /\ refs[g] = 0 <=> ~ \E q \in SyncRequests : gate[q] = g
           /\ refs[g] = 0 => sem[g] = 0
<1>1. IsFiniteSet(SyncRequests) /\ g # NoGate
  BY SyncCounts DEF Sync!LimiterAssumption
<1>2. Of(RefPlaces, g) \in SUBSET SyncRequests /\ Of(SlotPlaces, g) \in SUBSET Of(RefPlaces, g)
  BY DEF Of, RefPlaces, SlotPlaces
<1>3. (refs[g] = 0 <=> Of(RefPlaces, g) = {}) /\ (sem[g] = 0 <=> Of(SlotPlaces, g) = {})
  BY <1>1, <1>2, CountZero DEF SInv, GateCounts
<1>4. Of(RefPlaces, g) = {q \in SyncRequests : gate[q] = g}
  BY <1>1 DEF Of, SInv, GateUse
<1> QED
  BY <1>2, <1>3, <1>4

\* The gate a request works on is its user's; a new one has no slot taken.
LEMMA GateChosen ==
    ASSUME Sync!LimiterAssumption, SInv, NEW r \in SyncRequests
    PROVE  LET g == Sync!GateFor(r) IN
           /\ g \in SyncRequests /\ UserOf[g] = UserOf[r] /\ UserOf[r] \in Users
           /\ perUser[UserOf[r]] = NoGate => g = r /\ refs[r] = 0 /\ sem[r] = 0
           /\ perUser[UserOf[r]] # NoGate => g = perUser[UserOf[r]] /\ refs[g] # 0
<1> DEFINE u == UserOf[r]
           g == Sync!GateFor(r)
<1>1. u \in Users /\ perUser[u] \in SyncRequests \cup {NoGate}
  BY SyncNumbers
<1>2. CASE perUser[u] = NoGate
  <2>1. g = r
    BY <1>2 DEF Sync!GateFor
  <2>2. ASSUME NEW q \in SyncRequests, gate[q] = r PROVE FALSE
    <3>1. perUser[UserOf[q]] = r /\ UserOf[q] \in Users /\ r # NoGate
      BY <2>2, SyncNumbers DEF SInv, Sync!ReferredGateInMap
    <3>2. UserOf[r] = UserOf[q]
      BY <3>1 DEF SInv, MapUse
    <3> QED
      BY <1>2, <3>1, <3>2
  <2>3. refs[r] = 0 /\ sem[r] = 0
    BY <2>2, RefsCount
  <2> QED
    BY <1>1, <1>2, <2>1, <2>3
<1>3. CASE perUser[u] # NoGate
  <2>1. g = perUser[u] /\ g \in SyncRequests
    BY <1>1, <1>3 DEF Sync!GateFor
  <2>2. UserOf[g] = u /\ \E q \in SyncRequests : gate[q] = g
    BY <1>1, <1>3, <2>1 DEF SInv, MapUse
  <2>3. refs[g] # 0
    BY <2>1, <2>2, RefsCount
  <2> QED
    BY <1>1, <1>3, <2>1, <2>2, <2>3
<1> QED
  BY <1>2, <1>3

\* acquireUser: a slot, a place in the queue, or a refusal that leaves the map as it was.
LEMMA AcquireUserKeeps ==
    ASSUME Sync!LimiterAssumption, SInv, NEW r \in SyncRequests, Sync!acquireUser(r)
    PROVE  SInv'
<1> DEFINE u == UserOf[r]
           g == Sync!GateFor(r)
<1>0. /\ g \in SyncRequests /\ UserOf[g] = u /\ u \in Users
      /\ perUser[u] = NoGate => g = r /\ refs[r] = 0 /\ sem[r] = 0
      /\ perUser[u] # NoGate => g = perUser[u] /\ refs[g] # 0
  BY GateChosen
<1>1. syncPc[r] = "entered" /\ gate[r] = NoGate /\ UNCHANGED <<syncGone, syncExpired, node, entries>>
  BY SyncNumbers DEF Sync!acquireUser, SInv, GateUse, RefPlaces
<1>2. syncGone' \subseteq SyncRequests /\ syncExpired' \subseteq SyncRequests
  BY <1>1, SyncNumbers
<1> HIDE DEF g, u
<1>3. ASSUME NEW l \in {"userHeld", "userWait"}, Sync!Goto(r, l), NodeFollows(r, l), GateFollows(r, l, g),
             perUser' = [perUser EXCEPT ![u] = g], \A h \in SyncRequests : sem'[h] <= MaxPerUser
      PROVE  SInv'
  <2>1. gate' = [gate EXCEPT ![r] = g]
    BY <1>3 DEF GateFollows, Refers
  <2>2. perUser' \in [Users -> SyncRequests \cup {NoGate}]
    BY <1>0, <1>3, SyncNumbers
  <2>3. Sync!ReferredGateInMap'
    <3>1. ASSUME NEW q \in SyncRequests, gate'[q] # NoGate PROVE perUser'[UserOf[q]] = gate'[q]
      <4>1. CASE q = r
        BY <1>0, <1>3, <2>1, <4>1, SyncNumbers DEF u
      <4>2. CASE q # r
        <5>1. gate'[q] = gate[q] /\ perUser[UserOf[q]] = gate[q] /\ UserOf[q] \in Users
          BY <2>1, <3>1, <4>2, SyncNumbers DEF SInv, Sync!ReferredGateInMap
        <5> QED
          BY <1>0, <1>3, <3>1, <5>1, SyncNumbers
      <4> QED
        BY <4>1, <4>2
    <3> QED
      BY <3>1 DEF Sync!ReferredGateInMap
  <2>4. MapUse'
    <3>1. ASSUME NEW v \in Users, perUser'[v] # NoGate
          PROVE  UserOf[perUser'[v]] = v /\ \E q \in SyncRequests : gate'[q] = perUser'[v]
      <4>1. CASE v = u
        <5>1. perUser'[v] = g /\ gate'[r] = g
          BY <1>0, <1>3, <2>1, <4>1, SyncNumbers
        <5> QED
          BY <1>0, <4>1, <5>1
      <4>2. CASE v # u
        <5>1. perUser'[v] = perUser[v]
          BY <1>0, <1>3, <4>2, SyncNumbers
        <5>2. PICK q \in SyncRequests : gate[q] = perUser[v]
          BY <3>1, <5>1 DEF SInv, MapUse
        <5>3. gate'[q] = gate[q]
          BY <1>1, <2>1, <3>1, <5>1, <5>2, SyncNumbers
        <5> QED
          BY <3>1, <5>1, <5>2, <5>3 DEF SInv, MapUse
      <4> QED
        BY <4>1, <4>2
    <3> QED
      BY <3>1 DEF MapUse
  <2>5. SlotsBounded'
    BY <1>1, <1>3 DEF SInv, SlotsBounded
  <2>6. l \in Sync!RequestPC /\ g \in SyncRequests \cup {NoGate} /\ (g # NoGate <=> l \in RefPlaces)
    BY <1>0, SyncNumbers DEF Sync!RequestPC, RefPlaces
  <2> QED
    BY <1>2, <1>3, <2>2, <2>3, <2>4, <2>5, <2>6, SyncMoveKeeps
<1>4. CASE /\ sem[g] < MaxPerUser
           /\ sem' = [sem EXCEPT ![g] = @ + 1]
           /\ refs' = [refs EXCEPT ![g] = @ + 1]
           /\ perUser' = [perUser EXCEPT ![u] = g]
           /\ gate' = [gate EXCEPT ![r] = g]
           /\ Sync!Goto(r, "userHeld") /\ UNCHANGED <<gateWaiters, nodeWaiters>>
  <2>1. NodeFollows(r, "userHeld")
    BY <1>1, <1>4, SyncNumbers DEF NodeFollows, Delta, NodePlaces, NodeQueue, EntryPlaces, Sync!RequestPC
  <2>2. GateFollows(r, "userHeld", g)
    BY <1>0, <1>1, <1>4, SyncNumbers DEF GateFollows, Refers, Delta, SlotPlaces, RefPlaces, GateQueue
  <2>3. \A h \in SyncRequests : sem'[h] <= MaxPerUser
    BY <1>0, <1>4, SyncNumbers DEF SInv, SlotsBounded
  <2> QED
    BY <1>3, <1>4, <2>1, <2>2, <2>3
<1>5. CASE /\ sem[g] >= MaxPerUser
           /\ refs' = [refs EXCEPT ![g] = @ + 1]
           /\ gateWaiters' = [gateWaiters EXCEPT ![g] = @ + 1]
           /\ nodeWaiters' = nodeWaiters + 1
           /\ perUser' = [perUser EXCEPT ![u] = g]
           /\ gate' = [gate EXCEPT ![r] = g]
           /\ Sync!Goto(r, "userWait") /\ UNCHANGED sem
  <2>1. NodeFollows(r, "userWait")
    BY <1>1, <1>5, SyncNumbers DEF NodeFollows, Delta, NodePlaces, NodeQueue, EntryPlaces, Sync!RequestPC
  <2>2. GateFollows(r, "userWait", g)
    BY <1>0, <1>1, <1>5, SyncNumbers DEF GateFollows, Refers, Delta, SlotPlaces, RefPlaces, GateQueue
  <2>3. \A h \in SyncRequests : sem'[h] <= MaxPerUser
    BY <1>5 DEF SInv, SlotsBounded
  <2> QED
    BY <1>3, <1>5, <2>1, <2>2, <2>3
<1>6. CASE /\ sem[g] >= MaxPerUser
           /\ perUser' = [perUser EXCEPT ![u] = IF refs[g] = 0 THEN NoGate ELSE g]
           /\ Sync!Goto(r, "relEntry") /\ UNCHANGED <<sem, refs, gateWaiters, gate, nodeWaiters>>
  <2>1. perUser[u] = g /\ refs[g] # 0
    <3>1. sem[g] # 0
      BY <1>0, <1>6, SyncNumbers
    <3> QED
      BY <1>0, <3>1
  <2>2. perUser' = perUser
    BY <1>0, <1>6, <2>1, SyncNumbers
  <2>3. UNCHANGED <<syncGone, syncExpired, Sync!gates>>
    BY <1>1, <1>6, <2>2 DEF Sync!gates
  <2>4. NodeFollows(r, "relEntry")
    BY <1>1, <1>6, SyncNumbers DEF NodeFollows, Delta, NodePlaces, NodeQueue, EntryPlaces, Sync!RequestPC
  <2>5. node' <= MaxPerNode
    BY <1>1 DEF SInv, SlotsBounded
  <2> QED
    BY <1>1, <1>6, <2>3, <2>4, <2>5, GatesAlone DEF RefPlaces, SlotPlaces, GateQueue, Sync!RequestPC
<1> QED
  BY <1>4, <1>5, <1>6 DEF Sync!acquireUser, g, u

\* A reference is dropped: the gate leaves the map with the last one.
LEMMA DropRefKeeps ==
    ASSUME Sync!LimiterAssumption, SInv, NEW r \in SyncRequests, Sync!UserGivesUp(r) \/ Sync!releaseUserRef(r)
    PROVE  SInv'
<1> DEFINE u == UserOf[r]
           l == "relEntry"
<1>g. PICK g \in SyncRequests \cup {NoGate} : g = gate[r]
  BY SyncNumbers
<1>0. /\ Sync!Goto(r, l) /\ UNCHANGED <<syncGone, syncExpired, sem, node, entries>>
      /\ refs' = [refs EXCEPT ![g] = @ - 1]
      /\ perUser' = [perUser EXCEPT ![u] = IF refs'[g] = 0 /\ @ = g THEN NoGate ELSE @]
      /\ gate' = [gate EXCEPT ![r] = NoGate]
      /\ \/ /\ syncPc[r] = "userWait"
            /\ gateWaiters' = [gateWaiters EXCEPT ![g] = @ - 1] /\ nodeWaiters' = nodeWaiters - 1
         \/ syncPc[r] = "relRef" /\ UNCHANGED <<gateWaiters, nodeWaiters>>
  BY <1>g DEF Sync!UserGivesUp, Sync!releaseUserRef, Sync!dropRefLocked
<1>1. g \in SyncRequests /\ u \in Users /\ perUser[u] = g /\ UserOf[g] = u /\ g # NoGate
  <2>1. g \in SyncRequests /\ u \in Users /\ g # NoGate
    BY <1>0, <1>g, SyncNumbers DEF SInv, GateUse, RefPlaces
  <2>2. perUser[u] = g
    BY <1>g, <2>1 DEF SInv, Sync!ReferredGateInMap
  <2> QED
    BY <2>1, <2>2 DEF SInv, MapUse
<1>2. NodeFollows(r, l)
  BY <1>0, SyncNumbers DEF NodeFollows, Delta, NodePlaces, NodeQueue, EntryPlaces, Sync!RequestPC
<1>3. GateFollows(r, l, NoGate)
  <2>1. CASE syncPc[r] = "userWait"
    BY <1>0, <1>1, <1>g, <2>1, SyncNumbers DEF GateFollows, Refers, Delta, SlotPlaces, RefPlaces, GateQueue
  <2>2. CASE syncPc[r] = "relRef"
    BY <1>0, <1>1, <1>g, <2>2, SyncNumbers DEF GateFollows, Refers, Delta, SlotPlaces, RefPlaces, GateQueue
  <2> QED
    BY <1>0, <2>1, <2>2
<1>4. refs'[g] = 0 <=> ~ \E q \in SyncRequests : gate'[q] = g
  <2>1. Refers(r, NoGate) /\ Sync!TypeOK /\ Sync!Goto(r, l)
    BY <1>0 DEF Refers, SInv
  <2>2. /\ Cardinality(Of(RefPlaces, g)) \in Nat
        /\ Cardinality(Of(RefPlaces, g)') = Cardinality(Of(RefPlaces, g)) + Delta(syncPc[r] \in RefPlaces /\ gate[r] = g, l \in RefPlaces /\ NoGate = g)
    <3> HIDE DEF l
    <3> QED
      BY <2>1, OfMoves
  <2>3. Delta(syncPc[r] \in RefPlaces /\ gate[r] = g, l \in RefPlaces /\ NoGate = g) = 0 - 1
    BY <1>0, <1>1, <1>g DEF Delta, RefPlaces
  <2>4. refs[g] = Cardinality(Of(RefPlaces, g)) /\ refs'[g] = refs[g] - 1
    BY <1>0, <1>1, SyncNumbers DEF SInv, GateCounts
  <2>5. refs'[g] = Cardinality(Of(RefPlaces, g)')
    BY <2>2, <2>3, <2>4
  <2>6. Of(RefPlaces, g)' = {q \in SyncRequests : gate'[q] = g}
    <3>1. syncPc'[r] = l /\ gate'[r] = NoGate
          /\ \A q \in SyncRequests \ {r} : syncPc'[q] = syncPc[q] /\ gate'[q] = gate[q]
      BY <1>0, SyncNumbers DEF Sync!Goto
    <3>2. \A q \in SyncRequests : gate[q] = g => syncPc[q] \in RefPlaces
      BY <1>1 DEF SInv, GateUse
    <3>3. RefPlaces' = RefPlaces
      BY DEF RefPlaces
    <3> QED
      BY <1>1, <3>1, <3>2, <3>3 DEF Of
  <2>7. Of(RefPlaces, g)' \in SUBSET SyncRequests /\ IsFiniteSet(SyncRequests)
    BY <2>6, SyncCounts DEF Sync!LimiterAssumption
  <2>8. Cardinality(Of(RefPlaces, g)') = 0 <=> Of(RefPlaces, g)' = {}
    BY <2>7, CountZero
  <2> QED
    BY <2>5, <2>6, <2>8
<1>5. perUser' \in [Users -> SyncRequests \cup {NoGate}]
      /\ perUser'[u] = (IF refs'[g] = 0 THEN NoGate ELSE g) /\ \A v \in Users \ {u} : perUser'[v] = perUser[v]
  BY <1>0, <1>1, SyncNumbers
<1>6. gate'[r] = NoGate /\ \A q \in SyncRequests \ {r} : gate'[q] = gate[q]
  BY <1>0, SyncNumbers
<1>7. Sync!ReferredGateInMap'
  <2>1. ASSUME NEW q \in SyncRequests, gate'[q] # NoGate PROVE perUser'[UserOf[q]] = gate'[q]
    <3>1. gate'[q] = gate[q] /\ perUser[UserOf[q]] = gate[q] /\ UserOf[q] \in Users
      BY <1>6, <2>1, SyncNumbers DEF SInv, Sync!ReferredGateInMap
    <3>2. CASE UserOf[q] = u
      <4>1. gate'[q] = g
        BY <1>1, <3>1, <3>2
      <4> QED
        BY <1>4, <1>5, <3>2, <4>1
    <3>3. CASE UserOf[q] # u
      BY <1>5, <3>1, <3>3
    <3> QED
      BY <3>2, <3>3
  <2> QED
    BY <2>1 DEF Sync!ReferredGateInMap
<1>8. MapUse'
  <2>1. ASSUME NEW v \in Users, perUser'[v] # NoGate
        PROVE  UserOf[perUser'[v]] = v /\ \E q \in SyncRequests : gate'[q] = perUser'[v]
    <3>1. CASE v = u
      BY <1>1, <1>4, <1>5, <2>1, <3>1
    <3>2. CASE v # u
      <4>1. perUser'[v] = perUser[v] /\ UserOf[perUser[v]] = v
        BY <1>5, <2>1, <3>2 DEF SInv, MapUse
      <4>2. PICK q \in SyncRequests : gate[q] = perUser[v]
        BY <2>1, <4>1 DEF SInv, MapUse
      <4>3. q # r
        BY <1>1, <1>g, <3>2, <4>1, <4>2
      <4> QED
        BY <1>6, <4>1, <4>2, <4>3
    <3> QED
      BY <3>1, <3>2
  <2> QED
    BY <2>1 DEF MapUse
<1>9. SlotsBounded'
  BY <1>0 DEF SInv, SlotsBounded
<1>10. syncGone' \subseteq SyncRequests /\ syncExpired' \subseteq SyncRequests
  BY <1>0, SyncNumbers
<1> QED
  BY <1>0, <1>2, <1>3, <1>5, <1>7, <1>8, <1>9, <1>10, SyncMoveKeeps DEF Sync!RequestPC, RefPlaces

LEMMA NextSInv == ASSUME Sync!LimiterAssumption, SInv, [Sync!Next]_Sync!vars PROVE SInv'
<1>1. ASSUME NEW r \in SyncRequests, Sync!RequestStep(r) PROVE SInv'
  BY <1>1, EntryKeeps, NodeKeeps, GateKeeps, AcquireUserKeeps, DropRefKeeps DEF Sync!RequestStep
<1>2. ASSUME UNCHANGED <<syncPc, Sync!gates, node, entries, nodeWaiters>>,
             syncGone' \subseteq SyncRequests, syncExpired' \subseteq SyncRequests
      PROVE  SInv'
  <2>1. UNCHANGED <<syncPc, perUser, sem, refs, gateWaiters, gate, node, entries, nodeWaiters>>
    BY <1>2 DEF Sync!gates
  <2>2. Sync!TypeOK'
    BY <1>2, <2>1 DEF SInv, Sync!TypeOK
  <2>3. GateCounts'
    BY <2>1 DEF SInv, GateCounts, Of, SlotPlaces, RefPlaces, GateQueue
  <2>4. NodeCounts'
    BY <2>1 DEF SInv, NodeCounts, Sync!At, NodePlaces, NodeQueue, EntryPlaces
  <2>5. SlotsBounded' /\ GateUse' /\ MapUse' /\ Sync!ReferredGateInMap'
    BY <2>1 DEF SInv, SlotsBounded, GateUse, MapUse, Sync!ReferredGateInMap, RefPlaces
  <2> QED
    BY <2>2, <2>3, <2>4, <2>5 DEF SInv
<1>3. ASSUME NEW r \in SyncRequests, Sync!ClientGone(r) \/ Sync!BudgetSpent(r) PROVE SInv'
  BY <1>2, <1>3, SyncNumbers DEF Sync!ClientGone, Sync!BudgetSpent
<1>4. CASE UNCHANGED Sync!vars
  BY <1>2, <1>4, SyncNumbers DEF Sync!vars
<1> QED
  BY <1>1, <1>3, <1>4 DEF Sync!Next

\* What the invariant says of the requests.
LEMMA SInvSafe ==
    ASSUME Sync!LimiterAssumption, SInv
    PROVE  Sync!UserWithinCap /\ Sync!NothingLeaks
<1>1. ASSUME NEW u \in Users PROVE Sync!Cardinality({r \in Sync!HoldsUserSlot : UserOf[r] = u}) <= MaxPerUser
  <2> DEFINE H == {r \in Sync!HoldsUserSlot : UserOf[r] = u}
  <2>1. \A r \in H : r \in SyncRequests /\ gate[r] # NoGate /\ perUser[u] = gate[r] /\ syncPc[r] \in SlotPlaces
    BY DEF Sync!HoldsUserSlot, Sync!At, SInv, GateUse, SlotPlaces, RefPlaces, Sync!ReferredGateInMap
  <2>2. CASE perUser[u] = NoGate
    <3>1. H = {}
      BY <2>1, <2>2
    <3>2. Cardinality(H) = 0
      BY <3>1, FS_EmptySet
    <3> QED
      BY <3>2, SyncCounts, SyncNumbers
  <2>3. CASE perUser[u] # NoGate
    <3>1. perUser[u] \in SyncRequests /\ UserOf[perUser[u]] = u
      BY <2>3, SyncNumbers DEF SInv, MapUse
    <3>2. ASSUME NEW r \in Of(SlotPlaces, perUser[u]) PROVE r \in H
      <4>1. r \in SyncRequests /\ syncPc[r] \in SlotPlaces /\ gate[r] = perUser[u] /\ UserOf[r] \in Users
        BY SyncNumbers DEF Of
      <4>2. perUser[UserOf[r]] = gate[r]
        BY <2>3, <4>1 DEF SInv, Sync!ReferredGateInMap
      <4>3. UserOf[gate[r]] = UserOf[r]
        BY <2>3, <4>1, <4>2 DEF SInv, MapUse
      <4> QED
        BY <3>1, <4>1, <4>3 DEF Sync!HoldsUserSlot, Sync!At, SlotPlaces
    <3>3. H = Of(SlotPlaces, perUser[u])
      BY <2>1, <3>2 DEF Of
    <3>4. Cardinality(H) = sem[perUser[u]]
      BY <3>1, <3>3 DEF SInv, GateCounts
    <3> QED
      BY <3>1, <3>4, SyncCounts DEF SInv, SlotsBounded
  <2> QED
    BY <2>2, <2>3
<1>2. node = Sync!Cardinality(Sync!HoldsNodeSlot) /\ node <= MaxPerNode
  BY SyncCounts DEF SInv, NodeCounts, SlotsBounded, Sync!HoldsNodeSlot, NodePlaces
<1>3. nodeWaiters = Sync!Cardinality(Sync!At({"userWait", "userSent", "nodeWait", "nodeSent"}))
  BY SyncCounts DEF SInv, NodeCounts, NodeQueue
<1>4. entries = Sync!Cardinality(SyncRequests \ Sync!At({"arrived", "done"}))
  <2>1. SyncRequests \ Sync!At({"arrived", "done"}) = Sync!At(EntryPlaces)
    BY SyncNumbers DEF Sync!At, EntryPlaces
  <2> QED
    BY <2>1, SyncCounts DEF SInv, NodeCounts
<1>5. ASSUME NEW u \in Users, \A r \in SyncRequests : UserOf[r] = u => gate[r] = NoGate PROVE perUser[u] = NoGate
  <2> SUFFICES ASSUME perUser[u] # NoGate PROVE FALSE
    OBVIOUS
  <2>1. UserOf[perUser[u]] = u
    BY DEF SInv, MapUse
  <2>2. PICK r \in SyncRequests : gate[r] = perUser[u]
    BY DEF SInv, MapUse
  <2>3. perUser[UserOf[r]] = gate[r] /\ UserOf[r] \in Users
    BY <2>2, SyncNumbers DEF SInv, Sync!ReferredGateInMap
  <2>4. UserOf[r] = u
    BY <2>1, <2>2, <2>3 DEF SInv, MapUse
  <2> QED
    BY <1>5, <2>2, <2>4
<1> QED
  BY <1>1, <1>2, <1>3, <1>4, <1>5 DEF Sync!UserWithinCap, Sync!NothingLeaks

\* A user never has more requests past its gate than the cap, although the gate leaves the map and
\* is made again; a gate stays in the map while a request refers to it and no longer; every slot,
\* place in a queue and entry belongs to a request that uses it (sync_admission_limiter.go:
\* acquireEntry, acquireUser, acquireNode, dropRefLocked, the closure of acquire).
THEOREM SyncAdmitted ==
    Sync!LimiterAssumption =>
        (Sync!Spec => [](Sync!TypeOK /\ Sync!UserWithinCap /\ Sync!ReferredGateInMap /\ Sync!NothingLeaks))
<1> SUFFICES ASSUME Sync!LimiterAssumption
             PROVE  Sync!Spec => [](Sync!TypeOK /\ Sync!UserWithinCap /\ Sync!ReferredGateInMap /\ Sync!NothingLeaks)
  OBVIOUS
<1>1. Sync!Init => SInv
  BY InitSInv
<1>2. SInv /\ [Sync!Next]_Sync!vars => SInv'
  BY NextSInv
<1>3. SInv => Sync!TypeOK /\ Sync!UserWithinCap /\ Sync!ReferredGateInMap /\ Sync!NothingLeaks
  BY SInvSafe DEF SInv
<1> QED
  BY <1>1, <1>2, <1>3, PTL DEF Sync!Spec

-----------------------------------------------------------------------------
(* Uploads in blocks: the inductive invariant *)

CONSTANTS Sessions, UpBlocks, Manifests, Replacing, Borrowed, Nodes, Reqs, Calls, Faults, Nothing,
          MaxUncommittedBlockSessionsPerUser, MaxConcurrentBlockUploadsPerUser, MaxStagedBlocksPerSession
VARIABLES row, slot, minted, known, aged, staged, upStored, pins, fsRefs, inflight, files, req

Up == INSTANCE BlockUpload WITH Blocks <- UpBlocks, None <- Nothing, stored <- upStored

\* The instance has its own names for the operators of FiniteSets.
LEMMA UpCounts ==
    /\ \A S : Up!IsFiniteSet(S) <=> IsFiniteSet(S)
    /\ \A S : Up!Cardinality(S) = Cardinality(S)
<1>1. ASSUME NEW S PROVE Up!IsFiniteSet(S) <=> IsFiniteSet(S)
  BY DEF Up!IsFiniteSet, IsFiniteSet
<1>2. ASSUME NEW S PROVE Up!Cardinality(S) = Cardinality(S)
  BY DEF Up!Cardinality, Cardinality
<1> QED
  BY <1>1, <1>2

\* Where a request takes a slot and writes the row, counts as an upload, and has the claim of its session.
Minting == {"slot", "insert", "unslot"}
Uploading == {"probe", "count", "reserve", "register"}
Holding == {"fence", "head", "release", "mark", "cleanup"}
Publishing == {"fence", "head", "release"}
Before == {"wait", "lost", "conflict", "verify", "pin", "claim"}

\* Files with any number, rows and requests.
AnyFile == [s : Sessions, m : Manifests, n : Nat]
Row == [is : {"absent", "part", "whole"}, committed : BOOLEAN, later : BOOLEAN, digest : Manifests \cup {Nothing},
        result : AnyFile \cup {Nothing}, slot : Up!Slots \cup {Nothing}, expected : Nat \cup {Nothing}]
Request == [at : {"done", "answered", "admit"} \cup Minting \cup Uploading \cup Holding \cup Before,
            n : Nodes \cup {Nothing}, s : Sessions \cup {Nothing}, m : Manifests \cup {Nothing}, b : UpBlocks \cup {Nothing},
            slot : Up!Slots \cup {Nothing}, size : Nat \cup {Nothing}, file : AnyFile \cup {Nothing}]

\* What the assumption on the constants says.
LEMMA UpAssumed ==
    ASSUME Up!BlockUploadAssumption
    PROVE  /\ IsFiniteSet(Reqs) /\ Nothing \notin Sessions /\ Nothing \notin AnyFile
           /\ UpBlocks \subseteq Nat /\ Manifests \subseteq SUBSET UpBlocks /\ Borrowed \subseteq UpBlocks /\ Replacing \subseteq Manifests
           /\ MaxUncommittedBlockSessionsPerUser \in Nat \ {0} /\ MaxConcurrentBlockUploadsPerUser \in Nat \ {0}
  BY UpCounts DEF Up!BlockUploadAssumption, AnyFile

Types ==
    /\ row \in [Sessions -> Row] /\ slot \in [Up!Slots -> Sessions \cup {Nothing}]
    /\ known \subseteq minted /\ minted \subseteq Sessions
    /\ pins \in [UpBlocks -> SUBSET Sessions] /\ upStored \subseteq UpBlocks /\ fsRefs \subseteq UpBlocks
    /\ inflight \in [Nodes -> Nat] /\ files \subseteq AnyFile /\ IsFiniteSet(files)
    /\ req \in [Reqs -> Request]

\* What a request at some place has in its registers.
Registered(q) ==
    /\ req[q].at \in Minting => req[q].s \in minted \ known /\ req[q].slot \in Up!Slots /\ req[q].size \in Nat
    /\ req[q].at \in Uploading \cup {"admit"} => req[q].n \in Nodes /\ req[q].s \in known /\ req[q].b \in UpBlocks
    /\ req[q].at \in Before \cup Holding =>
         req[q].s \in known /\ req[q].m \in Manifests /\ req[q].slot \in Up!Slots /\ req[q].size \in Nat
    /\ req[q].at \in {"mark", "cleanup"} => req[q].file \in AnyFile /\ req[q].file.s = req[q].s /\ req[q].file.m = req[q].m

\* The mint of a session has one request, and the row is its own until the answer.
Mints ==
    /\ \A q, r \in Reqs : req[q].at \in Minting /\ req[r].at \in Minting /\ req[q].s = req[r].s => q = r
    /\ \A q \in Reqs : req[q].at = "insert" => slot[req[q].slot] = req[q].s

\* A session has one claim; its row says so, or is gone.  Until the file is published the row names no
\* result and, if it is whole, was written again after the mint and has its slot.
Taken(s) == row[s].is = "absent" \/ row[s].committed
OneClaim ==
    /\ \A q, r \in Reqs : req[q].at \in Holding /\ req[r].at \in Holding /\ req[q].s = req[r].s => q = r
    /\ \A q \in Reqs : req[q].at \in Holding => Taken(req[q].s)
    /\ \A q \in Reqs : req[q].at \in Publishing =>
         row[req[q].s].result = Nothing /\ (row[req[q].s].is = "whole" => row[req[q].s].later /\ slot[row[req[q].s].slot] = req[q].s)

\* A row that names its result stays claimed; a whole row has a slot; one that can be used has its slot.
Rows ==
    \A s \in Sessions :
        /\ row[s].is = "whole" => row[s].slot \in Up!Slots /\ row[s].expected \in Nat
        /\ row[s].result # Nothing => row[s].is = "whole" /\ row[s].committed /\ row[s].result.s = s /\ row[s].result.m = row[s].digest
        /\ s \in known /\ Up!Usable(s) => slot[row[s].slot] = s

\* The blocks of a commit are pinned by its session, and stored from the last check on.
Pinned ==
    \A q \in Reqs :
        /\ req[q].at \in {"claim", "fence", "head"} => \A b \in req[q].m : req[q].s \in pins[b]
        /\ req[q].at = "head" => req[q].m \subseteq upStored
Kept == \A f \in files : f.m \subseteq fsRefs \cap upStored

\* Without a lost answer of the update of HEAD, a session that has a file has no claim that may publish.
OneFile ==
    "head" \notin Faults =>
        /\ \A f, g \in files : f.s = g.s => f = g
        /\ \A f \in files : f.s \in known /\ Taken(f.s) /\ \A q \in Reqs : req[q].at \in {"fence", "head", "release"} => req[q].s # f.s

\* Where no upload replaces a file, the files of a name have the numbers from 1 on, and files stay.
Alike(m) == {f \in files : f.m = m}
Numbered ==
    Replacing = {} =>
        /\ \A f \in files : f.n <= Cardinality(Alike(f.m))
        /\ \A s \in Sessions : row[s].result # Nothing => row[s].result \in files
        /\ \A q \in Reqs : req[q].at \in {"mark", "cleanup"} => req[q].file \in files
        /\ Up!AnswerTrue

\* The inductive invariant.  Types and registers come first: what a row names as its result is never
\* mistaken for nothing.
UInv ==
    /\ Types /\ (\A q \in Reqs : Registered(q)) /\ Mints /\ OneClaim /\ Rows
    /\ Pinned /\ Kept /\ Up!InflightCounts /\ OneFile /\ Numbered

\* A step of one request.
Moves(q) == req' \in [Reqs -> Request] /\ \A r \in Reqs \ {q} : req'[r] = req[r]
\* Everything but the place of a request.
Same(q) == /\ req'[q].n = req[q].n /\ req'[q].s = req[q].s /\ req'[q].m = req[q].m /\ req'[q].b = req[q].b
           /\ req'[q].slot = req[q].slot /\ req'[q].size = req[q].size /\ req'[q].file = req[q].file
\* The places of a request.
Places == {"done", "answered", "admit"} \cup Minting \cup Uploading \cup Holding \cup Before

\* The fields of a request.
LEMMA RequestFields ==
    ASSUME NEW x \in Request
    PROVE  /\ x.at \in Places /\ x.n \in Nodes \cup {Nothing} /\ x.s \in Sessions \cup {Nothing} /\ x.m \in Manifests \cup {Nothing}
           /\ x.b \in UpBlocks \cup {Nothing} /\ x.slot \in Up!Slots \cup {Nothing} /\ x.size \in Nat \cup {Nothing} /\ x.file \in AnyFile \cup {Nothing}
  BY DEF Request, Places

\* A request that ended is a request again.
LEMMA DoneRequest == Up!Done \in Request /\ Up!Done.at = "done"
  BY DEF Up!Done, Request

\* Going on to a place changes nothing else of the request.
LEMMA GotoMoves ==
    ASSUME req \in [Reqs -> Request], NEW q \in Reqs, NEW at \in Places, Up!Goto(q, at)
    PROVE  Moves(q) /\ req'[q].at = at /\ Same(q)
<1>1. req' = [req EXCEPT ![q] = [req[q] EXCEPT !.at = at]] /\ req[q] \in Request
  BY DEF Up!Goto
<1> DEFINE x == [req[q] EXCEPT !.at = at]
<1>2. /\ x \in Request /\ x.at = at /\ x.n = req[q].n /\ x.s = req[q].s /\ x.m = req[q].m /\ x.b = req[q].b
      /\ x.slot = req[q].slot /\ x.size = req[q].size /\ x.file = req[q].file
  BY <1>1 DEF Request, Places
<1> HIDE DEF x
<1>3. req' \in [Reqs -> Request] /\ req'[q] = x /\ \A r \in Reqs \ {q} : req'[r] = req[r]
  BY <1>1, <1>2 DEF x
<1> QED
  BY <1>2, <1>3 DEF Moves, Same

\* A request that ends forgets its registers.
LEMMA EndMoves ==
    ASSUME req \in [Reqs -> Request], NEW q \in Reqs, Up!End(q)
    PROVE  Moves(q) /\ req'[q] = Up!Done
  BY DoneRequest DEF Up!End, Moves

\* An answer keeps the session and the manifest, and names the file.
LEMMA AnswerMoves ==
    ASSUME req \in [Reqs -> Request], NEW q \in Reqs, NEW f \in AnyFile, Up!Answer(q, f)
    PROVE  Moves(q) /\ req'[q].at = "answered" /\ req'[q].s = req[q].s /\ req'[q].m = req[q].m /\ req'[q].file = f
<1> DEFINE x == [Up!Done EXCEPT !.at = "answered", !.s = req[q].s, !.m = req[q].m, !.file = f]
<1>1. x \in Request /\ x.at = "answered" /\ x.s = req[q].s /\ x.m = req[q].m /\ x.file = f
  BY DEF Up!Done, Request
<1>2. req' = [req EXCEPT ![q] = x]
  BY DEF Up!Answer
<1> HIDE DEF x
<1> QED
  BY <1>1, <1>2 DEF Moves

\* A new request takes the place of one that ended.
LEMMA AskMoves ==
    ASSUME req \in [Reqs -> Request], NEW q \in Reqs, NEW x \in Request, Up!Ask(q, x)
    PROVE  Moves(q) /\ req'[q] = x /\ req[q].at = "done"
  BY DEF Up!Ask, Moves

-----------------------------------------------------------------------------
(* What keeps the parts of the invariant. *)

\* A step after which nobody else mints keeps the mints apart.
LEMMA MintsStay ==
    ASSUME Mints,
           \A r \in Reqs : req'[r].at \in Minting => req[r].at \in Minting /\ req'[r].s = req[r].s,
           \A r \in Reqs : req'[r].at = "insert" => slot'[req'[r].slot] = req'[r].s
    PROVE  Mints'
  BY DEF Mints

\* A step that makes no claim, and neither gives back nor answers one in the row, keeps one claim per session.
LEMMA OneClaimStays ==
    ASSUME OneClaim,
           \A r \in Reqs : req'[r].at \in Holding =>
               /\ req[r].at \in Holding /\ req'[r].s = req[r].s
               /\ Taken(req[r].s) => row'[req[r].s].is = "absent" \/ row'[req[r].s].committed,
           \A r \in Reqs : req'[r].at \in Publishing =>
               /\ req[r].at \in Publishing /\ req'[r].s = req[r].s
               /\ row[req[r].s].result = Nothing => row'[req[r].s].result = Nothing
               /\ row'[req[r].s].is = "whole" => row[req[r].s].is = "whole" /\ row'[req[r].s].later = row[req[r].s].later
                                               /\ row'[req[r].s].slot = row[req[r].s].slot
               /\ row'[req[r].s].is = "whole" /\ slot[row[req[r].s].slot] = req[r].s => slot'[row[req[r].s].slot] = req[r].s
    PROVE  OneClaim'
<1>1. \A q, r \in Reqs : req'[q].at \in Holding /\ req'[r].at \in Holding /\ req'[q].s = req'[r].s => q = r
  BY DEF OneClaim
<1>2. \A q \in Reqs : req'[q].at \in Holding => row'[req'[q].s].is = "absent" \/ row'[req'[q].s].committed
  BY DEF OneClaim
<1>3. ASSUME NEW q \in Reqs, req'[q].at \in Publishing
      PROVE  /\ row'[req'[q].s].result = Nothing
             /\ row'[req'[q].s].is = "whole" => row'[req'[q].s].later /\ slot'[row'[req'[q].s].slot] = req'[q].s
  <2>1. req[q].at \in Publishing /\ req'[q].s = req[q].s
    BY <1>3
  <2>2. row[req[q].s].result = Nothing /\ (row[req[q].s].is = "whole" => row[req[q].s].later /\ slot[row[req[q].s].slot] = req[q].s)
    BY <2>1 DEF OneClaim
  <2> QED
    BY <1>3, <2>1, <2>2
<1> QED
  BY <1>1, <1>2, <1>3 DEF OneClaim, Taken

\* A step that publishes nothing and makes no claim keeps one file per session.
LEMMA OneFileStays ==
    ASSUME OneFile, files' = files, known \subseteq known',
           \A f \in files : f.s \in known /\ Taken(f.s) => Taken(f.s)',
           \A r \in Reqs : req'[r].at \in Publishing => req[r].at \in Publishing /\ req'[r].s = req[r].s
    PROVE  OneFile'
  BY DEF OneFile, Taken, Publishing

\* A step that publishes nothing, and answers or records only what was published, keeps answers true.
LEMMA NumberedStays ==
    ASSUME Numbered, files' = files,
           \A s \in Sessions : row'[s].result # Nothing => row'[s].result \in {row[s].result} \cup {req[r].file : r \in {q \in Reqs : req[q].at = "mark"}},
           \A r \in Reqs : req'[r].at \in {"mark", "cleanup"} => req[r].at \in {"mark", "cleanup"} /\ req'[r].file = req[r].file,
           \A r \in Reqs : req'[r].at = "answered" =>
               \/ req'[r] = req[r]
               \/ /\ req'[r].file.s = req'[r].s /\ req'[r].file.m = req'[r].m
                  /\ \/ req[r].at = "cleanup" /\ req'[r].file = req[r].file
                     \/ \E s \in Sessions : row[s].result # Nothing /\ req'[r].file = row[s].result
    PROVE  Numbered'
<1> SUFFICES ASSUME Replacing = {} PROVE Numbered'
  BY DEF Numbered
<1>1. /\ \A f \in files : f.n <= Cardinality(Alike(f.m))
      /\ \A s \in Sessions : row[s].result # Nothing => row[s].result \in files
      /\ \A q \in Reqs : req[q].at \in {"mark", "cleanup"} => req[q].file \in files
      /\ Up!AnswerTrue
  BY DEF Numbered
<1>2. \A f \in files' : f.n <= Cardinality(Alike(f.m)')
  BY <1>1 DEF Alike
<1>3. \A s \in Sessions : row'[s].result # Nothing => row'[s].result \in files'
  BY <1>1
<1>4. \A q \in Reqs : req'[q].at \in {"mark", "cleanup"} => req'[q].file \in files'
  BY <1>1
<1>5. Up!AnswerTrue'
  BY <1>1 DEF Up!AnswerTrue
<1> QED
  BY <1>2, <1>3, <1>4, <1>5 DEF Numbered, Alike

\* A step that takes no pin of a commit under way keeps the blocks of commits.
LEMMA PinnedStays ==
    ASSUME Pinned,
           \A r \in Reqs : req'[r].at \in {"claim", "fence", "head"} =>
               /\ req[r].at \in {"claim", "fence", "head"} /\ req'[r].s = req[r].s /\ req'[r].m = req[r].m
               /\ \A b \in req[r].m : req[r].s \in pins[b] => req[r].s \in pins'[b],
           \A r \in Reqs : req'[r].at = "head" => req'[r].m \subseteq upStored'
    PROVE  Pinned'
  BY DEF Pinned

\* The registers of the requests that do not move.
LEMMA OthersRegistered ==
    ASSUME NEW q \in Reqs, Moves(q), minted \subseteq minted', known \subseteq known',
           \A r \in Reqs \ {q} : Registered(r),
           \A r \in Reqs \ {q} : req[r].at \in Minting => req[r].s \notin known'
    PROVE  \A r \in Reqs \ {q} : Registered(r)'
  BY DEF Registered, Moves

\* The count of a node, when a request begins, ends, or goes on with an upload.
UploadsOf(n) == {q \in Reqs : req[q].n = n /\ req[q].at \in Uploading}

\* A request that neither begins nor ends an upload leaves the counts.
LEMMA CountsStay ==
    ASSUME IsFiniteSet(Reqs), Up!InflightCounts, NEW q \in Reqs, Moves(q), inflight' = inflight,
           req[q].at \in Uploading <=> req'[q].at \in Uploading, req[q].at \in Uploading => req'[q].n = req[q].n
    PROVE  Up!InflightCounts'
<1> SUFFICES ASSUME NEW n \in Nodes PROVE UploadsOf(n)' = UploadsOf(n)
  BY UpCounts DEF Up!InflightCounts, UploadsOf, Uploading
<1> QED
  BY DEF UploadsOf, Moves

\* An upload that ends, for whatever reason, takes one off the count of its node (release).
LEMMA CountsEnd ==
    ASSUME IsFiniteSet(Reqs), inflight \in [Nodes -> Nat], Up!InflightCounts, NEW q \in Reqs, Moves(q), req[q].at \in Uploading,
           req[q].n \in Nodes, inflight' = Up!release(req[q].n), req'[q].at \notin Uploading
    PROVE  Up!InflightCounts' /\ inflight' \in [Nodes -> Nat]
<1>0. \A n \in Nodes : inflight[n] = Cardinality(UploadsOf(n))
  BY UpCounts DEF Up!InflightCounts, UploadsOf, Uploading
<1>1. ASSUME NEW n \in Nodes PROVE inflight'[n] = Cardinality(UploadsOf(n)') /\ inflight'[n] \in Nat
  <2>1. UploadsOf(n) \in SUBSET Reqs /\ UploadsOf(n)' \in SUBSET Reqs /\ \A r \in Reqs \ {q} : r \in UploadsOf(n) <=> r \in UploadsOf(n)'
    BY DEF UploadsOf, Moves
  <2>2. (q \in UploadsOf(n) <=> n = req[q].n) /\ q \notin UploadsOf(n)'
    BY DEF UploadsOf
  <2>3. inflight'[n] = IF n = req[q].n THEN (IF inflight[n] <= 1 THEN 0 ELSE inflight[n] - 1) ELSE inflight[n]
    BY DEF Up!release
  <2>4. /\ Cardinality(UploadsOf(n)) \in Nat /\ Cardinality(UploadsOf(n)') \in Nat
        /\ n = req[q].n => Cardinality(UploadsOf(n)) > 0 /\ Cardinality(UploadsOf(n)') = Cardinality(UploadsOf(n)) - 1
        /\ n # req[q].n => Cardinality(UploadsOf(n)') = Cardinality(UploadsOf(n))
    <3> HIDE DEF UploadsOf
    <3> QED
      BY <2>1, <2>2, CountStep
  <2> QED
    BY <1>0, <2>3, <2>4
<1>2. inflight' \in [Nodes -> Nat]
  <2>1. inflight' = [n \in Nodes |-> inflight'[n]]
    BY DEF Up!release
  <2> QED
    BY <1>1, <2>1
<1> QED
  BY <1>1, <1>2, UpCounts DEF Up!InflightCounts, UploadsOf, Uploading

\* An upload that is admitted adds one to the count of its node (tryAcquire).
LEMMA CountsBegin ==
    ASSUME IsFiniteSet(Reqs), inflight \in [Nodes -> Nat], Up!InflightCounts, NEW q \in Reqs, Moves(q), req[q].at \notin Uploading,
           req[q].n \in Nodes, inflight' = [inflight EXCEPT ![req[q].n] = @ + 1], req'[q].at \in Uploading, req'[q].n = req[q].n
    PROVE  Up!InflightCounts' /\ inflight' \in [Nodes -> Nat]
<1>0. \A n \in Nodes : inflight[n] = Cardinality(UploadsOf(n))
  BY UpCounts DEF Up!InflightCounts, UploadsOf, Uploading
<1>1. ASSUME NEW n \in Nodes PROVE inflight'[n] = Cardinality(UploadsOf(n)') /\ inflight'[n] \in Nat
  <2>1. UploadsOf(n) \in SUBSET Reqs /\ UploadsOf(n)' \in SUBSET Reqs /\ \A r \in Reqs \ {q} : r \in UploadsOf(n) <=> r \in UploadsOf(n)'
    BY DEF UploadsOf, Moves
  <2>2. (q \in UploadsOf(n)' <=> n = req[q].n) /\ q \notin UploadsOf(n)
    BY DEF UploadsOf
  <2>3. inflight'[n] = IF n = req[q].n THEN inflight[n] + 1 ELSE inflight[n]
    OBVIOUS
  <2>4. /\ Cardinality(UploadsOf(n)) \in Nat
        /\ n = req[q].n => Cardinality(UploadsOf(n)') = Cardinality(UploadsOf(n)) + 1
        /\ n # req[q].n => Cardinality(UploadsOf(n)') = Cardinality(UploadsOf(n))
    <3> HIDE DEF UploadsOf
    <3> QED
      BY <2>1, <2>2, CountStep
  <2> QED
    BY <1>0, <2>3, <2>4
<1>2. inflight' \in [Nodes -> Nat]
  <2>1. inflight' = [n \in Nodes |-> inflight'[n]]
    OBVIOUS
  <2> QED
    BY <1>1, <2>1
<1> QED
  BY <1>1, <1>2, UpCounts DEF Up!InflightCounts, UploadsOf, Uploading


-----------------------------------------------------------------------------
\* A step of one request that leaves the tables as they are.
LEMMA SlotStep ==
    ASSUME Up!BlockUploadAssumption, UInv, NEW q \in Reqs, Moves(q),
           UNCHANGED <<row, minted, known, upStored, pins, fsRefs, files>>, slot' \in [Up!Slots -> Sessions \cup {Nothing}],
           inflight' \in [Nodes -> Nat], Up!InflightCounts', Registered(q)', Mints', Rows',
           \A r \in Reqs : req'[r].at \in Publishing /\ row[req[r].s].is = "whole" /\ slot[row[req[r].s].slot] = req[r].s
               => slot'[row[req[r].s].slot] = req[r].s,
           req'[q].at \in Holding => req[q].at \in Holding /\ req'[q].s = req[q].s,
           req'[q].at \in Publishing => req[q].at \in Publishing,
           req'[q].at \in {"mark", "cleanup"} => req[q].at \in {"mark", "cleanup"} /\ req'[q].file = req[q].file,
           req'[q].at \in {"claim", "fence", "head"} =>
               req[q].at \in {"claim", "fence", "head"} /\ req'[q].s = req[q].s /\ req'[q].m = req[q].m,
           req'[q].at = "head" => req'[q].m \subseteq upStored,
           req'[q].at = "answered" =>
               /\ req'[q].file.s = req'[q].s /\ req'[q].file.m = req'[q].m
               /\ \/ req[q].at = "cleanup" /\ req'[q].file = req[q].file
                  \/ \E s \in Sessions : row[s].result # Nothing /\ req'[q].file = row[s].result
    PROVE  UInv'
<1>0. /\ Types /\ (\A r \in Reqs : Registered(r)) /\ OneClaim /\ Pinned /\ Kept /\ OneFile /\ Numbered
      /\ \A r \in Reqs \ {q} : req'[r] = req[r]
  BY DEF UInv, Moves
<1>1. Types'
  BY <1>0 DEF Types, Moves
<1>2. \A r \in Reqs : Registered(r)'
  <2>1. \A r \in Reqs \ {q} : req[r].at \in Minting => req[r].s \notin known'
    BY <1>0 DEF Registered
  <2> QED
    BY <1>0, <2>1, OthersRegistered
<1>3. \A r \in Reqs : req'[r].at \in Publishing => req[r].at \in Publishing /\ req'[r].s = req[r].s
  BY <1>0 DEF Holding, Publishing
<1>4. OneClaim'
  <2>1. \A r \in Reqs : req'[r].at \in Holding =>
               /\ req[r].at \in Holding /\ req'[r].s = req[r].s
               /\ Taken(req[r].s) => row'[req[r].s].is = "absent" \/ row'[req[r].s].committed
    BY <1>0 DEF Taken
  <2> QED
    BY <1>0, <1>3, <2>1, OneClaimStays
<1>5. Kept'
  BY <1>0 DEF Kept
<1>6. Pinned'
  <2>1. \A r \in Reqs : req'[r].at = "head" => req'[r].m \subseteq upStored'
    BY <1>0 DEF Pinned
  <2> QED
    BY <1>0, <2>1, PinnedStays
<1>7. OneFile'
  BY <1>0, <1>3, OneFileStays DEF Taken
<1>8. Numbered'
  BY <1>0, NumberedStays
<1> QED
  BY <1>1, <1>2, <1>4, <1>5, <1>6, <1>7, <1>8 DEF UInv

\* A step of one request that leaves the slots as they are, too.
LEMMA QuietStep ==
    ASSUME Up!BlockUploadAssumption, UInv, NEW q \in Reqs, Moves(q),
           UNCHANGED <<row, slot, minted, known, upStored, pins, fsRefs, files>>,
           inflight' \in [Nodes -> Nat], Up!InflightCounts', Registered(q)',
           req'[q].at \in Minting => req[q].at \in Minting /\ req'[q].s = req[q].s,
           req'[q].at = "insert" => req[q].at = "insert" /\ req'[q].slot = req[q].slot,
           req'[q].at \in Holding => req[q].at \in Holding /\ req'[q].s = req[q].s,
           req'[q].at \in Publishing => req[q].at \in Publishing,
           req'[q].at \in {"mark", "cleanup"} => req[q].at \in {"mark", "cleanup"} /\ req'[q].file = req[q].file,
           req'[q].at \in {"claim", "fence", "head"} =>
               req[q].at \in {"claim", "fence", "head"} /\ req'[q].s = req[q].s /\ req'[q].m = req[q].m,
           req'[q].at = "head" => req'[q].m \subseteq upStored,
           req'[q].at = "answered" =>
               /\ req'[q].file.s = req'[q].s /\ req'[q].file.m = req'[q].m
               /\ \E s \in Sessions : row[s].result # Nothing /\ req'[q].file = row[s].result
    PROVE  UInv'
<1>0. Types /\ Mints /\ Rows /\ \A r \in Reqs \ {q} : req'[r] = req[r]
  BY DEF UInv, Moves
<1>1. Mints'
  <2>1. \A r \in Reqs : req'[r].at = "insert" => slot'[req'[r].slot] = req'[r].s
    BY <1>0 DEF Mints, Minting
  <2> QED
    BY <1>0, <2>1, MintsStay
<1>2. Rows'
  BY <1>0 DEF Rows, Up!Usable
<1>3. slot' \in [Up!Slots -> Sessions \cup {Nothing}]
  BY <1>0 DEF Types
<1> QED
  BY <1>1, <1>2, <1>3, SlotStep

\* What is known of a request at a place.
LEMMA Known ==
    ASSUME UInv, NEW q \in Reqs
    PROVE  /\ req \in [Reqs -> Request] /\ inflight \in [Nodes -> Nat] /\ Up!InflightCounts /\ Registered(q) /\ req[q].at \in Places
           /\ row \in [Sessions -> Row] /\ slot \in [Up!Slots -> Sessions \cup {Nothing}] /\ known \subseteq minted /\ minted \subseteq Sessions
           /\ pins \in [UpBlocks -> SUBSET Sessions] /\ upStored \subseteq UpBlocks /\ fsRefs \subseteq UpBlocks
           /\ files \subseteq AnyFile /\ IsFiniteSet(files)
  BY RequestFields DEF UInv, Types

\* The call of UploadBlock: a usable session is read.
LEMMA UploadBlockKeeps ==
    ASSUME Up!BlockUploadAssumption, UInv, NEW q \in Reqs, NEW s \in Sessions, NEW b \in UpBlocks, NEW n \in Nodes, Up!UploadBlock(q, s, b, n)
    PROVE  UInv'
<1> DEFINE x == [Up!Done EXCEPT !.at = "admit", !.n = n, !.s = s, !.b = b]
<1>1. x \in Request /\ x.at = "admit" /\ x.n = n /\ x.s = s /\ x.b = b
  BY DEF x, Up!Done, Request
<1>2. Up!Ask(q, x) /\ s \in known /\ UNCHANGED <<row, slot, minted, known, upStored, pins, fsRefs, files, inflight>>
  BY DEF Up!UploadBlock, Up!sessionVars, Up!blockVars
<1> HIDE DEF x
<1>3. Moves(q) /\ req'[q] = x /\ req[q].at = "done"
  BY <1>1, <1>2, Known, AskMoves
<1>4. Up!InflightCounts' /\ inflight' \in [Nodes -> Nat]
  BY <1>1, <1>2, <1>3, Known, CountsStay, UpAssumed DEF Uploading
<1>5. Registered(q)'
  BY <1>1, <1>2, <1>3 DEF Registered, Uploading, Minting, Before, Holding
<1> QED
  BY <1>1, <1>2, <1>3, <1>4, <1>5, QuietStep DEF Minting, Holding, Publishing

\* A request that ends, with nothing else changed but the count of its node.
LEMMA EndKeeps ==
    ASSUME Up!BlockUploadAssumption, UInv, NEW q \in Reqs, Up!End(q), UNCHANGED <<row, slot, minted, known, upStored, pins, fsRefs, files>>,
           \/ req[q].at \notin Uploading /\ inflight' = inflight
           \/ req[q].at \in Uploading /\ inflight' = Up!release(req[q].n)
    PROVE  UInv'
<1>1. Moves(q) /\ req'[q].at = "done"
  BY Known, EndMoves, DoneRequest
<1>2. Up!InflightCounts' /\ inflight' \in [Nodes -> Nat]
  <2>1. CASE req[q].at \notin Uploading /\ inflight' = inflight
    BY <1>1, <2>1, Known, CountsStay, UpAssumed DEF Uploading
  <2>2. CASE req[q].at \in Uploading /\ inflight' = Up!release(req[q].n)
    <3>1. req[q].n \in Nodes /\ req'[q].at \notin Uploading
      BY <1>1, <2>2, Known DEF Registered, Uploading
    <3> QED
      BY <1>1, <2>2, <3>1, Known, CountsEnd, UpAssumed
  <2> QED
    BY <2>1, <2>2
<1>3. Registered(q)'
  BY <1>1 DEF Registered, Uploading, Minting, Before, Holding
<1> QED
  BY <1>1, <1>2, <1>3, QuietStep DEF Minting, Holding, Publishing

\* A request that goes on to another place, with nothing else changed.
LEMMA GotoKeeps ==
    ASSUME Up!BlockUploadAssumption, UInv, NEW q \in Reqs, NEW at \in Places, Up!Goto(q, at),
           UNCHANGED <<row, slot, minted, known, upStored, pins, fsRefs, files, inflight>>,
           \/ req[q].at \in Uploading /\ at \in Uploading
           \/ req[q].at \in {"lost", "verify", "claim"} /\ at \in {"conflict", "pin", "lost"}
           \/ req[q].at = "fence" /\ at = "head" /\ req[q].m \subseteq upStored
           \/ req[q].at \in {"fence", "head"} /\ at = "release"
    PROVE  UInv'
<1>1. Moves(q) /\ req'[q].at = at /\ Same(q)
  BY Known, GotoMoves
<1>2. Up!InflightCounts' /\ inflight' \in [Nodes -> Nat]
  BY <1>1, Known, CountsStay, UpAssumed DEF Uploading, Same
<1>3. Registered(q)'
  BY <1>1, Known DEF Registered, Uploading, Minting, Before, Holding, Same
<1> QED
  BY <1>1, <1>2, <1>3, QuietStep DEF Uploading, Minting, Holding, Publishing, Same

\* The count of the node admits an upload or refuses it.
LEMMA tryAcquireKeeps ==
    ASSUME Up!BlockUploadAssumption, UInv, NEW q \in Reqs, Up!tryAcquire(q)
    PROVE  UInv'
<1>0. req[q].at = "admit" /\ UNCHANGED <<row, slot, minted, known, upStored, pins, fsRefs, files>>
  BY DEF Up!tryAcquire, Up!sessionVars, Up!blockVars
<1>1. CASE Up!End(q) /\ inflight' = inflight
  BY <1>0, <1>1, EndKeeps DEF Uploading
<1>2. CASE Up!Goto(q, "probe") /\ inflight' = [inflight EXCEPT ![req[q].n] = @ + 1]
  <2>1. Moves(q) /\ req'[q].at = "probe" /\ Same(q)
    BY <1>2, Known, GotoMoves DEF Places, Uploading
  <2>2. Up!InflightCounts' /\ inflight' \in [Nodes -> Nat]
    <3>1. req[q].n \in Nodes /\ req'[q].n = req[q].n /\ req[q].at \notin Uploading /\ req'[q].at \in Uploading
      BY <1>0, <2>1, Known DEF Registered, Same, Uploading
    <3> QED
      BY <1>2, <2>1, <3>1, Known, CountsBegin, UpAssumed
  <2>3. Registered(q)'
    BY <1>0, <2>1, Known DEF Registered, Uploading, Minting, Before, Holding, Same
  <2> QED
    BY <1>0, <2>1, <2>2, <2>3, QuietStep DEF Minting, Holding, Publishing
<1> QED
  BY <1>1, <1>2 DEF Up!tryAcquire

\* The steps of an upload before the block is written, and its refusal at any of them.
LEMMA UploadStepsKeep ==
    ASSUME Up!BlockUploadAssumption, UInv, NEW q \in Reqs,
           Up!StoreUploadedBlockForProbe(q) \/ Up!CountSessionStagedBlocksInBucket(q) \/ Up!ReserveSessionStagedBlock(q) \/ Up!UploadRefused(q)
    PROVE  UInv'
<1>1. CASE Up!StoreUploadedBlockForProbe(q)
  BY <1>1, GotoKeeps DEF Up!StoreUploadedBlockForProbe, Up!sessionVars, Up!blockVars, Uploading, Places
<1>2. CASE Up!CountSessionStagedBlocksInBucket(q)
  <2>1. CASE Up!End(q) /\ inflight' = Up!release(req[q].n)
    BY <1>2, <2>1, EndKeeps DEF Up!CountSessionStagedBlocksInBucket, Up!sessionVars, Up!blockVars, Uploading
  <2>2. CASE (Up!Goto(q, "reserve") \/ Up!Goto(q, "register")) /\ inflight' = inflight
    BY <1>2, <2>2, GotoKeeps DEF Up!CountSessionStagedBlocksInBucket, Up!sessionVars, Up!blockVars, Uploading, Places
  <2> QED
    BY <1>2, <2>1, <2>2 DEF Up!CountSessionStagedBlocksInBucket
<1>3. CASE Up!ReserveSessionStagedBlock(q)
  BY <1>3, GotoKeeps DEF Up!ReserveSessionStagedBlock, Up!sessionVars, Up!blockVars, Uploading, Places
<1>4. CASE Up!UploadRefused(q)
  BY <1>4, EndKeeps DEF Up!UploadRefused, Up!sessionVars, Up!blockVars, Uploading
<1> QED
  BY <1>1, <1>2, <1>3, <1>4

\* A request that is answered with the result of the row.
LEMMA AnswerKeeps ==
    ASSUME Up!BlockUploadAssumption, UInv, NEW q \in Reqs, NEW s \in Sessions, Moves(q),
           UNCHANGED <<row, slot, minted, known, upStored, pins, fsRefs, files, inflight>>,
           req[q].at \notin Uploading, row[s].result # Nothing, req'[q].at = "answered",
           req'[q].s = s, req'[q].m = row[s].digest, req'[q].file = row[s].result
    PROVE  UInv'
<1>1. Up!InflightCounts' /\ inflight' \in [Nodes -> Nat]
  BY Known, CountsStay, UpAssumed DEF Uploading
<1>2. Registered(q)'
  BY DEF Registered, Uploading, Minting, Before, Holding
<1>3. row[s].result.s = s /\ row[s].result.m = row[s].digest
  BY DEF UInv, Rows
<1> QED
  BY <1>1, <1>2, <1>3, QuietStep DEF Minting, Holding, Publishing

\* A request that lost the claim waits for the result, or classifies the conflict.
LEMMA ResultKeeps ==
    ASSUME Up!BlockUploadAssumption, UInv, NEW q \in Reqs, Up!waitForBlockUploadResult(q) \/ Up!classifyBlockUploadCommitConflict(q)
    PROVE  UInv'
<1> DEFINE f == Up!ResultFor(req[q].s, req[q].m)
<1>0. /\ req[q].at \in {"wait", "lost", "conflict"} /\ UNCHANGED <<row, slot, minted, known, upStored, pins, fsRefs, files, inflight>>
      /\ \/ f # Nothing /\ Up!Answer(q, f)
         \/ Up!End(q)
         \/ req[q].at = "lost" /\ Up!Goto(q, "conflict")
  BY DEF Up!waitForBlockUploadResult, Up!classifyBlockUploadCommitConflict, Up!sessionVars, Up!blockVars
<1>1. req[q].s \in Sessions
  BY <1>0, Known DEF Registered, Before
<1>2. CASE f # Nothing /\ Up!Answer(q, f)
  <2>1. f = row[req[q].s].result /\ row[req[q].s].result # Nothing /\ row[req[q].s].digest = req[q].m
    BY <1>2 DEF Up!ResultFor
  <2>2. f \in AnyFile
    BY <1>1, <2>1, Known DEF Row
  <2> HIDE DEF f
  <2>3. Moves(q) /\ req'[q].at = "answered" /\ req'[q].s = req[q].s /\ req'[q].m = req[q].m /\ req'[q].file = f
    BY <1>2, <2>2, Known, AnswerMoves
  <2> QED
    BY <1>0, <1>1, <2>1, <2>3, AnswerKeeps DEF Uploading
<1>3. CASE Up!End(q)
  BY <1>0, <1>3, EndKeeps DEF Uploading
<1>4. CASE req[q].at = "lost" /\ Up!Goto(q, "conflict")
  BY <1>0, <1>4, GotoKeeps DEF Places, Before
<1> QED
  BY <1>0, <1>2, <1>3, <1>4

\* The call of CreateFileFromBlocks, which may answer from the row alone.
LEMMA CreateFileFromBlocksKeeps ==
    ASSUME Up!BlockUploadAssumption, UInv, NEW q \in Reqs, NEW s \in Sessions, NEW m \in Manifests, NEW n \in Nodes, Up!CreateFileFromBlocks(q, s, m, n)
    PROVE  UInv'
<1> DEFINE a == [Up!Done EXCEPT !.n = n, !.s = s, !.m = m, !.slot = row[s].slot, !.size = row[s].expected]
           x(at) == [a EXCEPT !.at = at]
           y == [Up!Done EXCEPT !.at = "answered", !.s = s, !.m = m, !.file = row[s].result]
<1>0. /\ s \in known /\ row[s].is = "whole" /\ UNCHANGED <<row, slot, minted, known, upStored, pins, fsRefs, files, inflight>>
      /\ \/ Up!Ask(q, x("verify"))
         \/ Up!Ask(q, x("wait"))
         \/ row[s].digest = m /\ row[s].result # Nothing /\ Up!Ask(q, y)
  BY DEF Up!CreateFileFromBlocks, Up!sessionVars, Up!blockVars
<1>1. row[s].slot \in Up!Slots /\ row[s].expected \in Nat
  BY <1>0 DEF UInv, Rows
<1>2. ASSUME NEW at \in {"verify", "wait"}, Up!Ask(q, x(at)) PROVE UInv'
  <2> DEFINE z == x(at)
  <2>1. z \in Request /\ z.at = at /\ z.s = s /\ z.m = m /\ z.slot = row[s].slot /\ z.size = row[s].expected
    BY <1>1 DEF Up!Done, Request, Before
  <2> HIDE DEF z
  <2>2. Moves(q) /\ req'[q] = z /\ req[q].at = "done"
    BY <1>2, <2>1, Known, AskMoves DEF z
  <2>3. Up!InflightCounts' /\ inflight' \in [Nodes -> Nat]
    BY <1>0, <2>1, <2>2, Known, CountsStay, UpAssumed DEF Uploading
  <2>4. Registered(q)'
    BY <1>0, <1>1, <2>1, <2>2 DEF Registered, Uploading, Minting, Before, Holding
  <2> QED
    BY <1>0, <2>1, <2>2, <2>3, <2>4, QuietStep DEF Minting, Holding, Publishing
<1>3. CASE row[s].digest = m /\ row[s].result # Nothing /\ Up!Ask(q, y)
  <2>1. y \in Request /\ y.at = "answered" /\ y.s = s /\ y.m = m /\ y.file = row[s].result
    <3>1. row[s].result \in AnyFile
      BY <1>3, Known DEF Row
    <3> QED
      BY <3>1 DEF Up!Done, Request
  <2> HIDE DEF y
  <2>2. Moves(q) /\ req'[q] = y /\ req[q].at = "done"
    BY <1>3, <2>1, Known, AskMoves
  <2> QED
    BY <1>0, <1>3, <2>1, <2>2, AnswerKeeps DEF Uploading
<1> QED
  BY <1>0, <1>2, <1>3

\* The checks of a commit before the pins and after the claim, and the answer that is read.
LEMMA CheckStepsKeep ==
    ASSUME Up!BlockUploadAssumption, UInv, NEW q \in Reqs, Up!verifyManifestBlocks(q) \/ Up!validateCommitBlockPublicationFences(q) \/ Up!Read(q)
    PROVE  UInv'
<1>1. CASE Up!verifyManifestBlocks(q)
  <2>1. req[q].at = "verify" /\ (Up!Goto(q, "pin") \/ Up!End(q)) /\ UNCHANGED <<row, slot, minted, known, upStored, pins, fsRefs, files, inflight>>
    BY <1>1 DEF Up!verifyManifestBlocks, Up!sessionVars, Up!blockVars
  <2> QED
    BY <2>1, GotoKeeps, EndKeeps DEF Uploading, Places, Before
<1>2. CASE Up!validateCommitBlockPublicationFences(q)
  <2>1. /\ req[q].at = "fence" /\ UNCHANGED <<row, slot, minted, known, upStored, pins, fsRefs, files, inflight>>
        /\ (Up!Goto(q, "head") /\ req[q].m \subseteq upStored) \/ Up!Goto(q, "release")
    BY <1>2 DEF Up!validateCommitBlockPublicationFences, Up!PublicationFence, Up!sessionVars, Up!blockVars
  <2> QED
    BY <2>1, GotoKeeps DEF Places, Holding
<1>3. CASE Up!Read(q)
  BY <1>3, EndKeeps DEF Up!Read, Up!sessionVars, Up!blockVars, Uploading
<1> QED
  BY <1>1, <1>2, <1>3


-----------------------------------------------------------------------------
(* The mint of a session *)

\* The call of CreateBlockUploadSession draws a session nobody has.
LEMMA CreateBlockUploadSessionKeeps ==
    ASSUME Up!BlockUploadAssumption, UInv, NEW q \in Reqs, NEW s \in Sessions, NEW n \in Nodes, Up!CreateBlockUploadSession(q, s, n)
    PROVE  UInv'
<1>0. /\ s \notin minted /\ minted' = minted \cup {s} /\ UNCHANGED <<row, slot, known, upStored, pins, fsRefs, files, inflight>>
      /\ \E size \in 1 .. MaxStagedBlocksPerSession : Up!Ask(q, [Up!Done EXCEPT !.at = "slot", !.n = n, !.s = s, !.slot = 0, !.size = size])
  BY DEF Up!CreateBlockUploadSession, Up!blockVars
<1>1. PICK size \in 1 .. MaxStagedBlocksPerSession : Up!Ask(q, [Up!Done EXCEPT !.at = "slot", !.n = n, !.s = s, !.slot = 0, !.size = size])
  BY <1>0
<1> DEFINE x == [Up!Done EXCEPT !.at = "slot", !.n = n, !.s = s, !.slot = 0, !.size = size]
<1>2. x \in Request /\ x.at = "slot" /\ x.s = s /\ x.slot = 0 /\ 0 \in Up!Slots /\ x.size = size /\ size \in Nat
  <2>1. 0 \in Up!Slots /\ size \in Nat
    BY UpAssumed DEF Up!Slots
  <2> QED
    BY <2>1 DEF Up!Done, Request, Minting
<1> HIDE DEF x
<1>3. Moves(q) /\ req'[q] = x /\ req[q].at = "done"
  BY <1>1, <1>2, Known, AskMoves DEF x
<1>4. /\ Types /\ (\A r \in Reqs : Registered(r)) /\ Mints /\ OneClaim /\ Rows /\ Pinned /\ Kept /\ OneFile /\ Numbered
      /\ \A r \in Reqs \ {q} : req'[r] = req[r]
  BY <1>3 DEF UInv, Moves
<1>5. Up!InflightCounts'
  BY <1>0, <1>2, <1>3, Known, CountsStay, UpAssumed DEF Uploading
<1>6. Types'
  BY <1>0, <1>3, <1>4 DEF Types, Moves
<1>7. \A r \in Reqs : Registered(r)'
  <2>1. Registered(q)'
    BY <1>0, <1>2, <1>3, <1>4 DEF Registered, Uploading, Minting, Before, Holding, Types
  <2>2. \A r \in Reqs \ {q} : req[r].at \in Minting => req[r].s \notin known'
    BY <1>0, <1>4 DEF Registered
  <2> QED
    BY <1>0, <1>3, <1>4, <2>1, <2>2, OthersRegistered
<1>8. Mints'
  <2>1. \A r \in Reqs \ {q} : req'[r].at \in Minting => req'[r].s # req'[q].s
    BY <1>0, <1>2, <1>3, <1>4 DEF Registered
  <2>2. \A r \in Reqs : req'[r].at = "insert" => slot'[req'[r].slot] = req'[r].s
    BY <1>0, <1>2, <1>3, <1>4 DEF Mints
  <2>3. \A r, v \in Reqs \ {q} : req'[r].at \in Minting /\ req'[v].at \in Minting /\ req'[r].s = req'[v].s => r = v
    BY <1>4 DEF Mints
  <2> QED
    BY <2>1, <2>2, <2>3 DEF Mints
<1>9. \A r \in Reqs : req'[r].at \in Holding \cup Publishing \cup {"mark", "cleanup", "claim", "answered"} => req'[r] = req[r]
  BY <1>2, <1>3, <1>4 DEF Holding, Publishing
<1>10. OneClaim'
  BY <1>0, <1>4, <1>9, OneClaimStays DEF Taken
<1>11. Rows' /\ Kept'
  BY <1>0, <1>4 DEF Rows, Kept, Up!Usable
<1>12. Pinned'
  <2>1. \A r \in Reqs : req'[r].at = "head" => req'[r].m \subseteq upStored'
    BY <1>0, <1>4, <1>9 DEF Pinned, Publishing
  <2> QED
    BY <1>0, <1>4, <1>9, <2>1, PinnedStays DEF Publishing
<1>13. OneFile'
  BY <1>0, <1>4, <1>9, OneFileStays DEF Taken
<1>14. Numbered'
  BY <1>0, <1>4, <1>9, NumberedStays
<1> QED
  BY <1>5, <1>6, <1>7, <1>8, <1>10, <1>11, <1>12, <1>13, <1>14 DEF UInv

\* A slot is taken where it is free: the one who took it is the only one with that session.
LEMMA claimSlotKeeps ==
    ASSUME Up!BlockUploadAssumption, UInv, NEW q \in Reqs, Up!claimBlockUploadSessionSlot(q)
    PROVE  UInv'
<1> DEFINE k == req[q].slot
           s == req[q].s
<1>0. /\ req[q].at = "slot" /\ UNCHANGED <<row, minted, known, upStored, pins, fsRefs, files, inflight>>
      /\ \/ slot[k] = Nothing /\ slot' = [slot EXCEPT ![k] = s] /\ Up!Goto(q, "insert")
         \/ slot' = slot /\ k + 1 \in Up!Slots /\ req' = [req EXCEPT ![q].slot = k + 1]
         \/ slot' = slot /\ Up!End(q)
  BY DEF Up!claimBlockUploadSessionSlot, Up!blockVars
<1>1. k \in Up!Slots /\ s \in minted \ known /\ s \in Sessions /\ req[q].size \in Nat /\ Nothing \notin Sessions
  BY <1>0, Known, UpAssumed DEF Registered, Minting
<1>2. CASE slot[k] = Nothing /\ slot' = [slot EXCEPT ![k] = s] /\ Up!Goto(q, "insert")
  <2>1. Moves(q) /\ req'[q].at = "insert" /\ Same(q)
    BY <1>2, Known, GotoMoves DEF Places, Minting
  <2>2. slot' \in [Up!Slots -> Sessions \cup {Nothing}] /\ \A j \in Up!Slots : slot'[j] = IF j = k THEN s ELSE slot[j]
    BY <1>1, <1>2, Known
  <2>3. Mints /\ Rows /\ (\A r \in Reqs : Registered(r)) /\ \A r \in Reqs \ {q} : req'[r] = req[r]
    BY <2>1 DEF UInv, Moves
  <2>4. \A r \in Reqs : req'[r].at = "insert" => slot'[req'[r].slot] = req'[r].s
    <3>1. ASSUME NEW r \in Reqs \ {q}, req'[r].at = "insert" PROVE slot'[req'[r].slot] = req'[r].s
      <4>1. req'[r] = req[r] /\ req[r].slot \in Up!Slots /\ slot[req[r].slot] = req[r].s /\ req[r].s \in Sessions
        BY <2>3, <3>1, Known DEF Mints, Registered, Minting
      <4> QED
        BY <1>1, <1>2, <2>2, <4>1
    <3> QED
      BY <1>1, <2>1, <2>2, <3>1 DEF Same
  <2>5. Mints'
    BY <1>0, <2>1, <2>3, <2>4, MintsStay DEF Minting, Same
  <2>6. \A j \in Up!Slots : slot[j] \in Sessions => slot'[j] = slot[j]
    BY <1>1, <1>2, <2>2
  <2>7. Rows'
    BY <1>0, <2>3, <2>6 DEF Rows, Up!Usable
  <2>8. Up!InflightCounts' /\ inflight' \in [Nodes -> Nat]
    BY <1>0, <2>1, Known, CountsStay, UpAssumed DEF Uploading
  <2>9. Registered(q)'
    BY <1>0, <1>1, <2>1 DEF Registered, Uploading, Minting, Before, Holding, Same
  <2>10. \A r \in Reqs : req'[r].at \in Publishing /\ row[req[r].s].is = "whole" /\ slot[row[req[r].s].slot] = req[r].s
               => slot'[row[req[r].s].slot] = req[r].s
    <3>1. ASSUME NEW r \in Reqs, req'[r].at \in Publishing, row[req[r].s].is = "whole" PROVE req[r].s \in Sessions /\ row[req[r].s].slot \in Up!Slots
      <4>1. req'[r] = req[r]
        BY <2>1, <2>3, <3>1 DEF Publishing
      <4>2. req[r].s \in Sessions
        BY <2>3, <3>1, <4>1, Known DEF Registered, Publishing, Holding
      <4> QED
        BY <2>3, <3>1, <4>2 DEF Rows
    <3> QED
      BY <2>6, <3>1
  <2> QED
    BY <1>0, <2>1, <2>2, <2>5, <2>7, <2>8, <2>9, <2>10, SlotStep DEF Holding, Publishing
<1>3. CASE slot' = slot /\ k + 1 \in Up!Slots /\ req' = [req EXCEPT ![q].slot = k + 1]
  <2> DEFINE x == [req[q] EXCEPT !.slot = k + 1]
  <2>1. x \in Request /\ x.at = "slot" /\ x.s = s /\ x.slot \in Up!Slots /\ x.size = req[q].size
    BY <1>0, <1>3, Known DEF Request
  <2>2. req' = [req EXCEPT ![q] = x]
    BY <1>3, Known
  <2> HIDE DEF x
  <2>3. Moves(q) /\ req'[q] = x
    BY <2>1, <2>2, Known DEF Moves
  <2>4. Up!InflightCounts' /\ inflight' \in [Nodes -> Nat]
    BY <1>0, <2>1, <2>3, Known, CountsStay, UpAssumed DEF Uploading
  <2>5. Registered(q)'
    BY <1>0, <1>1, <2>1, <2>3 DEF Registered, Uploading, Minting, Before, Holding
  <2> QED
    BY <1>0, <1>3, <2>1, <2>3, <2>4, <2>5, QuietStep DEF Minting, Holding, Publishing
<1>4. CASE slot' = slot /\ Up!End(q)
  BY <1>0, <1>4, EndKeeps DEF Uploading
<1> QED
  BY <1>0, <1>2, <1>3, <1>4

\* The slot that a session gives back: the claims and the rows of the others keep theirs.
LEMMA releaseKeeps ==
    ASSUME UInv, NEW k \in Up!Slots, NEW s \in Sessions, Nothing \notin Sessions, slot' \in {Up!releaseBlockUploadSessionSlot(k, s), slot}
    PROVE  /\ slot' \in [Up!Slots -> Sessions \cup {Nothing}]
           /\ \A j \in Up!Slots, t \in Sessions \ {s} : slot[j] = t => slot'[j] = t
  BY DEF UInv, Types, Up!releaseBlockUploadSessionSlot

\* The slot of a mint that failed is given back, if it is its own.
LEMMA RollBackSlotKeeps ==
    ASSUME Up!BlockUploadAssumption, UInv, NEW q \in Reqs, Up!RollBackSlot(q)
    PROVE  UInv'
<1> DEFINE k == req[q].slot
           s == req[q].s
<1>0. /\ req[q].at = "unslot" /\ UNCHANGED <<row, minted, known, upStored, pins, fsRefs, files, inflight>>
      /\ slot' \in {Up!releaseBlockUploadSessionSlot(k, s), slot} /\ Up!End(q)
  BY DEF Up!RollBackSlot, Up!blockVars
<1>1. k \in Up!Slots /\ s \in minted \ known /\ s \in Sessions /\ Nothing \notin Sessions
  BY <1>0, Known, UpAssumed DEF Registered, Minting
<1>2. Moves(q) /\ req'[q].at = "done"
  BY <1>0, Known, EndMoves, DoneRequest
<1>3. /\ slot' \in [Up!Slots -> Sessions \cup {Nothing}] /\ \A j \in Up!Slots, t \in Sessions \ {s} : slot[j] = t => slot'[j] = t
  BY <1>0, <1>1, releaseKeeps
<1>4. Mints /\ Rows /\ (\A r \in Reqs : Registered(r)) /\ \A r \in Reqs \ {q} : req'[r] = req[r]
  BY <1>2 DEF UInv, Moves
<1>5. Mints'
  <2>1. ASSUME NEW r \in Reqs, req'[r].at = "insert" PROVE slot'[req'[r].slot] = req'[r].s
    <3>1. req'[r] = req[r] /\ r # q
      BY <1>2, <1>4, <2>1
    <3>2. req[r].slot \in Up!Slots /\ slot[req[r].slot] = req[r].s /\ req[r].s \in Sessions
      BY <1>4, <2>1, <3>1, Known DEF Mints, Registered, Minting
    <3>3. req[r].s # s
      BY <1>0, <1>4, <2>1, <3>1 DEF Mints, Minting
    <3> QED
      BY <1>3, <3>1, <3>2, <3>3
  <2> QED
    BY <1>2, <1>4, <2>1, MintsStay DEF Minting
<1>6. Rows'
  <2>1. \A t \in Sessions : row[t].is = "whole" => row[t].slot \in Up!Slots
    BY <1>4 DEF Rows
  <2> QED
    BY <1>0, <1>1, <1>3, <1>4, <2>1 DEF Rows, Up!Usable
<1>7. \A r \in Reqs : req'[r].at \in Publishing /\ row[req[r].s].is = "whole" /\ slot[row[req[r].s].slot] = req[r].s
             => slot'[row[req[r].s].slot] = req[r].s
  <2>1. ASSUME NEW r \in Reqs, req'[r].at \in Publishing, row[req[r].s].is = "whole" PROVE req[r].s \in Sessions \ {s} /\ row[req[r].s].slot \in Up!Slots
    <3>1. req'[r] = req[r]
      BY <1>2, <1>4, <2>1 DEF Publishing
    <3>2. req[r].s \in known /\ req[r].s \in Sessions
      BY <1>4, <2>1, <3>1, Known DEF Registered, Publishing, Holding
    <3> QED
      BY <1>1, <1>4, <2>1, <3>2 DEF Rows
  <2> QED
    BY <1>3, <2>1
<1>8. Up!InflightCounts' /\ inflight' \in [Nodes -> Nat]
  BY <1>0, <1>2, Known, CountsStay, UpAssumed DEF Uploading
<1>9. Registered(q)'
  BY <1>2 DEF Registered, Uploading, Minting, Before, Holding
<1> QED
  BY <1>0, <1>2, <1>3, <1>5, <1>6, <1>7, <1>8, <1>9, SlotStep DEF Holding, Publishing

\* The slot of a commit is given back, if it is still its own, and the commit answered.
LEMMA CleanupKeeps ==
    ASSUME Up!BlockUploadAssumption, UInv, NEW q \in Reqs, Up!CleanupCommittedBlockUploadSessionCaps(q)
    PROVE  UInv'
<1> DEFINE k == req[q].slot
           s == req[q].s
<1>0. /\ req[q].at = "cleanup" /\ UNCHANGED <<row, minted, known, upStored, pins, fsRefs, files, inflight>>
      /\ slot' \in {Up!releaseBlockUploadSessionSlot(k, s), slot} /\ Up!Answer(q, req[q].file)
  BY DEF Up!CleanupCommittedBlockUploadSessionCaps, Up!blockVars
<1>1. k \in Up!Slots /\ s \in known /\ s \in Sessions /\ Nothing \notin Sessions /\ req[q].file \in AnyFile /\ req[q].file.s = s /\ req[q].file.m = req[q].m
  BY <1>0, Known, UpAssumed DEF Registered, Holding
<1>2. Moves(q) /\ req'[q].at = "answered" /\ req'[q].s = s /\ req'[q].m = req[q].m /\ req'[q].file = req[q].file
  BY <1>0, <1>1, Known, AnswerMoves
<1>3. /\ slot' \in [Up!Slots -> Sessions \cup {Nothing}] /\ \A j \in Up!Slots, t \in Sessions \ {s} : slot[j] = t => slot'[j] = t
  BY <1>0, <1>1, releaseKeeps
<1>4. Mints /\ OneClaim /\ Rows /\ (\A r \in Reqs : Registered(r)) /\ \A r \in Reqs \ {q} : req'[r] = req[r]
  BY <1>2 DEF UInv, Moves
<1>5. Mints'
  <2>1. ASSUME NEW r \in Reqs, req'[r].at = "insert" PROVE slot'[req'[r].slot] = req'[r].s
    <3>1. req'[r] = req[r] /\ r # q
      BY <1>2, <1>4, <2>1
    <3>2. req[r].slot \in Up!Slots /\ slot[req[r].slot] = req[r].s /\ req[r].s \in Sessions /\ req[r].s \notin known
      BY <1>4, <2>1, <3>1, Known DEF Mints, Registered, Minting
    <3> QED
      BY <1>1, <1>3, <3>1, <3>2
  <2> QED
    BY <1>2, <1>4, <2>1, MintsStay DEF Minting
<1>6. Rows'
  <2>1. \A t \in Sessions : row[t].is = "whole" => row[t].slot \in Up!Slots
    BY <1>4 DEF Rows
  <2>2. ~Up!Usable(s)
    BY <1>0, <1>4 DEF OneClaim, Taken, Up!Usable, Holding
  <2> QED
    BY <1>0, <1>1, <1>3, <1>4, <2>1, <2>2 DEF Rows, Up!Usable
<1>7. \A r \in Reqs : req'[r].at \in Publishing /\ row[req[r].s].is = "whole" /\ slot[row[req[r].s].slot] = req[r].s
             => slot'[row[req[r].s].slot] = req[r].s
  <2>1. ASSUME NEW r \in Reqs, req'[r].at \in Publishing, row[req[r].s].is = "whole" PROVE req[r].s \in Sessions \ {s} /\ row[req[r].s].slot \in Up!Slots
    <3>1. req'[r] = req[r] /\ r # q
      BY <1>2, <1>4, <2>1 DEF Publishing
    <3>2. req[r].s \in Sessions
      BY <1>4, <2>1, <3>1, Known DEF Registered, Publishing, Holding
    <3>3. req[r].s # s
      BY <1>0, <1>4, <2>1, <3>1 DEF OneClaim, Holding, Publishing
    <3> QED
      BY <1>4, <2>1, <3>2, <3>3 DEF Rows
  <2> QED
    BY <1>3, <2>1
<1>8. Up!InflightCounts' /\ inflight' \in [Nodes -> Nat]
  BY <1>0, <1>2, Known, CountsStay, UpAssumed DEF Uploading
<1>9. Registered(q)'
  BY <1>2 DEF Registered, Uploading, Minting, Before, Holding
<1> QED
  BY <1>0, <1>1, <1>2, <1>3, <1>5, <1>6, <1>7, <1>8, <1>9, SlotStep DEF Holding, Publishing


-----------------------------------------------------------------------------
(* The row of a session *)

\* A step of a request that writes the row of its session, which nobody else has claimed.
LEMMA RowStep ==
    ASSUME Up!BlockUploadAssumption, UInv, NEW q \in Reqs, Moves(q), NEW s \in Sessions, s \in minted,
           row' \in [Sessions -> Row], \A t \in Sessions \ {s} : row'[t] = row[t],
           UNCHANGED <<slot, minted, upStored, pins, fsRefs, files, inflight>>, known' \in {known, known \cup {s}},
           Registered(q)', req[q].at \notin Uploading, req'[q].at \notin Uploading, req'[q].at \notin {"insert", "answered", "head"},
           req'[q].at \in Minting => req[q].at \in Minting /\ req'[q].s = req[q].s,
           \A r \in Reqs \ {q} : req[r].at \in Minting => req[r].s \notin known',
           \A r \in Reqs \ {q} : req[r].at \in Holding => req[r].s # s,
           req'[q].at \in Holding => req'[q].s = s /\ (row'[s].is = "absent" \/ row'[s].committed),
           req'[q].at \in Publishing => row'[s].result = Nothing /\ (row'[s].is = "whole" => row'[s].later /\ slot[row'[s].slot] = s),
           row'[s].is = "whole" => row'[s].slot \in Up!Slots /\ row'[s].expected \in Nat,
           row'[s].result # Nothing => row'[s].is = "whole" /\ row'[s].committed /\ row'[s].result.s = s /\ row'[s].result.m = row'[s].digest,
           s \in known' /\ row'[s].is = "whole" /\ ~row'[s].committed => slot[row'[s].slot] = s,
           "head" \notin Faults => \A f \in files : f.s = s => (row'[s].is = "absent" \/ row'[s].committed) /\ req'[q].at \notin Publishing,
           row'[s].result # Nothing => row'[s].result = row[s].result \/ (req[q].at = "mark" /\ row'[s].result = req[q].file),
           req'[q].at \in {"mark", "cleanup"} => req[q].at \in {"mark", "cleanup"} /\ req'[q].file = req[q].file,
           req'[q].at \in {"claim", "fence"} => req[q].at \in {"claim", "fence"} /\ req'[q].s = req[q].s /\ req'[q].m = req[q].m
    PROVE  UInv'
<1>0. /\ Types /\ (\A r \in Reqs : Registered(r)) /\ Mints /\ OneClaim /\ Rows /\ Pinned /\ Kept /\ OneFile /\ Numbered /\ Up!InflightCounts
      /\ \A r \in Reqs \ {q} : req'[r] = req[r]
  BY DEF UInv, Moves
<1>1. Types'
  BY <1>0 DEF Types, Moves
<1>2. \A r \in Reqs : Registered(r)'
  BY <1>0, OthersRegistered
<1>3. Mints'
  <2>1. \A r \in Reqs : req'[r].at = "insert" => slot'[req'[r].slot] = req'[r].s
    BY <1>0 DEF Mints
  <2> QED
    BY <1>0, <2>1, MintsStay
<1>4. OneClaim'
  <2>1. \A r, v \in Reqs : req'[r].at \in Holding /\ req'[v].at \in Holding /\ req'[r].s = req'[v].s => r = v
    BY <1>0 DEF OneClaim
  <2>2. ASSUME NEW r \in Reqs \ {q}, req'[r].at \in Holding
        PROVE  /\ row'[req'[r].s].is = "absent" \/ row'[req'[r].s].committed
               /\ req'[r].at \in Publishing =>
                    /\ row'[req'[r].s].result = Nothing
                    /\ row'[req'[r].s].is = "whole" => row'[req'[r].s].later /\ slot'[row'[req'[r].s].slot] = req'[r].s
    <3>1. req'[r] = req[r] /\ req[r].s # s
      BY <1>0, <2>2
    <3>2. req[r].s \in Sessions
      BY <1>0, <2>2, <3>1, Known DEF Registered
    <3>3. row'[req[r].s] = row[req[r].s]
      BY <3>1, <3>2
    <3> QED
      BY <1>0, <2>2, <3>1, <3>3 DEF OneClaim, Taken
  <2>3. Publishing \subseteq Holding
    BY DEF Publishing, Holding
  <2> QED
    BY <2>1, <2>2, <2>3 DEF OneClaim, Taken
<1>5. Rows'
  <2>1. ASSUME NEW t \in Sessions \ {s} PROVE row'[t] = row[t] /\ (t \in known' <=> t \in known)
    OBVIOUS
  <2> QED
    BY <1>0, <2>1 DEF Rows, Up!Usable
<1>6. Kept'
  BY <1>0 DEF Kept
<1>7. Pinned'
  <2>1. \A r \in Reqs : req'[r].at = "head" => req'[r].m \subseteq upStored'
    BY <1>0 DEF Pinned
  <2> QED
    BY <1>0, <2>1, PinnedStays
<1>8. OneFile'
  <2> SUFFICES ASSUME "head" \notin Faults PROVE OneFile'
    BY DEF OneFile
  <2>1. \A f, g \in files : f.s = g.s => f = g
    BY <1>0 DEF OneFile
  <2>2. ASSUME NEW f \in files
        PROVE  /\ f.s \in known' /\ (row'[f.s].is = "absent" \/ row'[f.s].committed)
               /\ \A r \in Reqs : req'[r].at \in Publishing => req'[r].s # f.s
    <3>0. f.s \in Sessions
      BY <1>0 DEF Types, AnyFile
    <3>1. f.s \in known /\ (row[f.s].is = "absent" \/ row[f.s].committed) /\ \A r \in Reqs : req[r].at \in Publishing => req[r].s # f.s
      BY <1>0 DEF OneFile, Taken, Publishing
    <3>2. req'[q].at \in Publishing => req'[q].s = s
      BY DEF Publishing, Holding
    <3> QED
      BY <1>0, <3>0, <3>1, <3>2
  <2> QED
    BY <2>1, <2>2 DEF OneFile, Taken, Publishing
<1>9. Numbered'
  <2>1. \A t \in Sessions : row'[t].result # Nothing =>
            row'[t].result \in {row[t].result} \cup {req[r].file : r \in {v \in Reqs : req[v].at = "mark"}}
    OBVIOUS
  <2> QED
    BY <1>0, <2>1, NumberedStays
<1>10. Up!InflightCounts'
  BY <1>0, CountsStay, UpAssumed
<1> QED
  BY <1>1, <1>2, <1>3, <1>4, <1>5, <1>6, <1>7, <1>8, <1>9, <1>10 DEF UInv

\* The cells of a row.
LEMMA RowFields ==
    ASSUME NEW x \in Row
    PROVE  /\ x.is \in {"absent", "part", "whole"} /\ x.committed \in BOOLEAN /\ x.later \in BOOLEAN /\ x.digest \in Manifests \cup {Nothing}
           /\ x.result \in AnyFile \cup {Nothing} /\ x.slot \in Up!Slots \cup {Nothing} /\ x.expected \in Nat \cup {Nothing}
  BY DEF Row

\* One row is written.
LEMMA RowPut ==
    ASSUME row \in [Sessions -> Row], NEW s \in Sessions, NEW x \in Row, row' = [row EXCEPT ![s] = x]
    PROVE  row' \in [Sessions -> Row] /\ row'[s] = x /\ \A t \in Sessions \ {s} : row'[t] = row[t]
  OBVIOUS

\* The row of a new session is written, or may have been.
LEMMA InsertKeeps ==
    ASSUME Up!BlockUploadAssumption, UInv, NEW q \in Reqs, Up!CreateAdmittedBlockUploadSession(q)
    PROVE  UInv'
<1> DEFINE s == req[q].s
           x == Up!SessionRow(q)
<1>0. /\ req[q].at = "insert" /\ UNCHANGED <<slot, minted, upStored, pins, fsRefs, files, inflight>>
      /\ \/ row' = [row EXCEPT ![s] = x] /\ known' = known \cup {s} /\ Up!End(q)
         \/ row' \in {row, [row EXCEPT ![s] = x]} /\ known' = known /\ Up!Goto(q, "unslot")
  BY DEF Up!CreateAdmittedBlockUploadSession, Up!blockVars
<1>1. req[q].slot \in Up!Slots /\ s \in minted \ known /\ s \in Sessions /\ req[q].size \in Nat
  BY <1>0, Known DEF Registered, Minting
<1>2. /\ x \in Row /\ x.is = "whole" /\ ~x.committed /\ x.result = Nothing /\ x.slot = req[q].slot /\ x.expected = req[q].size
  BY <1>1 DEF Up!SessionRow, Up!NoRow, Row
<1> HIDE DEF x
<1>3. /\ Mints /\ OneClaim /\ Rows /\ OneFile /\ (\A r \in Reqs : Registered(r)) /\ slot[req[q].slot] = s
  BY <1>0 DEF UInv, Mints
<1>4. row' \in [Sessions -> Row] /\ (row'[s] = x \/ (row'[s] = row[s] /\ known' = known)) /\ \A t \in Sessions \ {s} : row'[t] = row[t]
  <2>1. CASE row' = [row EXCEPT ![s] = x]
    <3>1. row' \in [Sessions -> Row] /\ row'[s] = x /\ \A t \in Sessions \ {s} : row'[t] = row[t]
      BY <1>1, <1>2, <2>1, Known, RowPut
    <3> QED
      BY <3>1
  <2>2. CASE row' = row /\ known' = known
    BY <2>2, Known
  <2> QED
    BY <1>0, <2>1, <2>2
<1>5. \A r \in Reqs \ {q} : req[r].at \in Minting => req[r].s \notin known'
  BY <1>0, <1>3 DEF Mints, Minting, Registered
<1>6. \A r \in Reqs \ {q} : req[r].at \in Holding => req[r].s # s
  BY <1>1, <1>3 DEF Registered
<1>7. "head" \notin Faults => \A f \in files : f.s # s
  BY <1>1, <1>3 DEF OneFile
<1>8. /\ row'[s].is = "whole" => row'[s].slot \in Up!Slots /\ row'[s].expected \in Nat
      /\ row'[s].result # Nothing => row'[s].is = "whole" /\ row'[s].committed /\ row'[s].result.s = s /\ row'[s].result.m = row'[s].digest
      /\ row'[s].result # Nothing => row'[s].result = row[s].result
      /\ s \in known' /\ row'[s].is = "whole" /\ ~row'[s].committed => slot[row'[s].slot] = s
  BY <1>1, <1>2, <1>3, <1>4 DEF Rows
<1>9. Moves(q) /\ (req'[q].at = "done" \/ (req'[q].at = "unslot" /\ Same(q) /\ known' = known))
  <2>1. CASE Up!End(q)
    <3>1. Moves(q) /\ req'[q].at = "done"
      BY <2>1, Known, EndMoves, DoneRequest
    <3> QED
      BY <3>1
  <2>2. CASE Up!Goto(q, "unslot") /\ known' = known
    BY <2>2, Known, GotoMoves DEF Places, Minting
  <2> QED
    BY <1>0, <2>1, <2>2
<1>10. Registered(q)'
  BY <1>0, <1>1, <1>9 DEF Registered, Uploading, Minting, Before, Holding, Same
<1>11. known' \in {known, known \cup {s}}
  BY <1>0
<1> QED
  BY <1>0, <1>1, <1>4, <1>5, <1>6, <1>7, <1>8, <1>9, <1>10, <1>11, RowStep DEF Uploading, Minting, Holding, Publishing, Same

\* Whoever holds the claim of a session finds it taken, and whoever finds it free is alone.
LEMMA HoldersApart ==
    ASSUME UInv, NEW q \in Reqs, NEW s \in Sessions, req[q].s = s, req[q].at \in Holding \/ ~Taken(s)
    PROVE  \A r \in Reqs \ {q} : req[r].at \in Holding => req[r].s # s
  BY DEF UInv, OneClaim

\* The claim applies to a row that is there and not claimed: then nobody else has one.
LEMMA ClaimKeeps ==
    ASSUME Up!BlockUploadAssumption, UInv, NEW q \in Reqs, Up!ClaimBlockUploadSessionForCommit(q)
    PROVE  UInv'
<1> DEFINE s == req[q].s
           x == [row[s] EXCEPT !.committed = TRUE, !.later = TRUE, !.digest = req[q].m]
<1>0. /\ req[q].at = "claim" /\ UNCHANGED <<slot, minted, known, upStored, pins, fsRefs, files, inflight>>
      /\ \/ Up!ClaimApplies(s) /\ row' = [row EXCEPT ![s] = x] /\ (Up!Goto(q, "fence") \/ Up!End(q))
         \/ row' = row /\ (Up!Goto(q, "lost") \/ Up!End(q))
  BY DEF Up!ClaimBlockUploadSessionForCommit, Up!blockVars, Up!Claimed
<1>1. s \in known /\ s \in minted /\ s \in Sessions /\ req[q].m \in Manifests /\ req[q].slot \in Up!Slots /\ req[q].size \in Nat
  BY <1>0, Known DEF Registered, Before
<1>2. CASE Up!ClaimApplies(s) /\ row' = [row EXCEPT ![s] = x] /\ (Up!Goto(q, "fence") \/ Up!End(q))
  <2>1. row[s] \in Row /\ row[s].is # "absent" /\ ~row[s].committed /\ ~Taken(s)
    BY <1>1, <1>2, Known DEF Up!ClaimApplies, Taken
  <2>2. /\ x \in Row /\ x.is = row[s].is /\ x.committed /\ x.later /\ x.digest = req[q].m /\ x.result = row[s].result
        /\ x.slot = row[s].slot /\ x.expected = row[s].expected
    BY <1>1, <2>1 DEF Row
  <2> HIDE DEF x
  <2>3. row' \in [Sessions -> Row] /\ row'[s] = x /\ \A t \in Sessions \ {s} : row'[t] = row[t]
    BY <1>1, <1>2, <2>2, Known, RowPut
  <2>4. Rows /\ OneFile /\ (\A r \in Reqs : Registered(r))
    BY DEF UInv
  <2>5. row[s].result = Nothing /\ (row[s].is = "whole" => slot[row[s].slot] = s /\ row[s].slot \in Up!Slots /\ row[s].expected \in Nat)
    BY <1>1, <2>1, <2>4 DEF Rows, Up!Usable
  <2>6. Moves(q) /\ (req'[q].at = "done" \/ (req'[q].at = "fence" /\ Same(q)))
    <3>1. CASE Up!End(q)
      <4>1. Moves(q) /\ req'[q].at = "done"
        BY <3>1, Known, EndMoves, DoneRequest
      <4> QED
        BY <4>1
    <3>2. CASE Up!Goto(q, "fence")
      BY <3>2, Known, GotoMoves DEF Places, Holding
    <3> QED
      BY <1>2, <3>1, <3>2
  <2>7. Registered(q)'
    BY <1>0, <1>1, <2>6 DEF Registered, Uploading, Minting, Before, Holding, Same
  <2>8. "head" \notin Faults => \A f \in files : f.s # s
    BY <2>1, <2>4 DEF OneFile
  <2>9. \A r \in Reqs \ {q} : req[r].at \in Minting => req[r].s \notin known'
    BY <1>0, <2>4 DEF Registered
  <2>10. \A r \in Reqs \ {q} : req[r].at \in Holding => req[r].s # s
    BY <1>1, <2>1, HoldersApart
  <2> QED
    BY <1>0, <1>1, <2>2, <2>3, <2>5, <2>6, <2>7, <2>8, <2>9, <2>10, RowStep DEF Uploading, Minting, Holding, Publishing, Same
<1>3. CASE row' = row /\ Up!End(q)
  BY <1>0, <1>3, EndKeeps DEF Uploading
<1>4. CASE row' = row /\ Up!Goto(q, "lost")
  BY <1>0, <1>4, GotoKeeps DEF Places, Before
<1> QED
  BY <1>0, <1>2, <1>3, <1>4

\* A claim is given back without a condition: it was the only one, and no file was published under it.
LEMMA ReleaseCommitKeeps ==
    ASSUME Up!BlockUploadAssumption, UInv, NEW q \in Reqs, Up!ReleaseBlockUploadSessionCommit(q)
    PROVE  UInv'
<1> DEFINE s == req[q].s
           x == IF row[s].is = "absent" THEN [Up!NoRow EXCEPT !.is = "part", !.later = TRUE]
                ELSE [row[s] EXCEPT !.committed = FALSE, !.later = TRUE]
<1>0. /\ req[q].at = "release" /\ UNCHANGED <<slot, minted, known, upStored, pins, fsRefs, files, inflight>> /\ Up!End(q)
      /\ row' \in {Up!Released(s), row}
  BY DEF Up!ReleaseBlockUploadSessionCommit, Up!blockVars
<1>1. s \in known /\ s \in minted /\ s \in Sessions
  BY <1>0, Known DEF Registered, Holding
<1>2. CASE row' = Up!Released(s)
  <2>1. row' = [row EXCEPT ![s] = x] /\ row[s] \in Row
    BY <1>1, <1>2, Known DEF Up!Released
  <2>2. /\ x \in Row /\ x.is # "absent" /\ (x.is = "whole" => row[s].is = "whole" /\ x.slot = row[s].slot /\ x.expected = row[s].expected)
        /\ (x.result = row[s].result \/ x.result = Nothing)
    BY <2>1 DEF Row, Up!NoRow
  <2> HIDE DEF x
  <2>3. row' \in [Sessions -> Row] /\ row'[s] = x /\ \A t \in Sessions \ {s} : row'[t] = row[t]
    BY <1>1, <2>1, <2>2, Known, RowPut
  <2>4. Rows /\ OneClaim /\ OneFile /\ (\A r \in Reqs : Registered(r))
    BY DEF UInv
  <2>5. row[s].result = Nothing /\ (row[s].is = "whole" => slot[row[s].slot] = s /\ row[s].slot \in Up!Slots /\ row[s].expected \in Nat)
    BY <1>0, <1>1, <2>4 DEF Rows, OneClaim, Publishing
  <2>6. Moves(q) /\ req'[q].at = "done"
    BY <1>0, Known, EndMoves, DoneRequest
  <2>7. Registered(q)'
    BY <2>6 DEF Registered, Uploading, Minting, Before, Holding
  <2>8. "head" \notin Faults => \A f \in files : f.s # s
    BY <1>0, <2>4 DEF OneFile
  <2>9. \A r \in Reqs \ {q} : req[r].at \in Minting => req[r].s \notin known'
    BY <1>0, <2>4 DEF Registered
  <2>10. \A r \in Reqs \ {q} : req[r].at \in Holding => req[r].s # s
    BY <1>0, <1>1, HoldersApart DEF Holding
  <2> QED
    BY <1>0, <1>1, <2>2, <2>3, <2>5, <2>6, <2>7, <2>8, <2>9, <2>10, RowStep DEF Uploading, Minting, Holding, Publishing
<1>3. CASE row' = row
  BY <1>0, <1>3, EndKeeps DEF Uploading
<1> QED
  BY <1>0, <1>2, <1>3

\* The row is written again with the result of the commit.
LEMMA MarkKeeps ==
    ASSUME Up!BlockUploadAssumption, UInv, NEW q \in Reqs, Up!MarkBlockUploadSessionCommitted(q)
    PROVE  UInv'
<1> DEFINE s == req[q].s
           x == [Up!NoRow EXCEPT !.is = "whole", !.committed = TRUE, !.digest = req[q].m, !.result = req[q].file,
                              !.slot = req[q].slot, !.expected = req[q].size]
<1>0. /\ req[q].at = "mark" /\ UNCHANGED <<slot, minted, known, upStored, pins, fsRefs, files, inflight>> /\ Up!Goto(q, "cleanup")
      /\ row' \in {[row EXCEPT ![s] = x], row}
  BY DEF Up!MarkBlockUploadSessionCommitted, Up!blockVars, Up!Marked
<1>1. /\ s \in known /\ s \in minted /\ s \in Sessions /\ req[q].m \in Manifests /\ req[q].slot \in Up!Slots /\ req[q].size \in Nat
      /\ req[q].file \in AnyFile /\ req[q].file.s = s /\ req[q].file.m = req[q].m
  BY <1>0, Known DEF Registered, Holding
<1>2. /\ x \in Row /\ x.is = "whole" /\ x.committed /\ x.digest = req[q].m /\ x.result = req[q].file /\ x.slot = req[q].slot /\ x.expected = req[q].size
  BY <1>1 DEF Up!NoRow, Row
<1> HIDE DEF x
<1>3. row' \in [Sessions -> Row] /\ (row'[s] = x \/ row'[s] = row[s]) /\ \A t \in Sessions \ {s} : row'[t] = row[t]
  BY <1>0, <1>1, <1>2, Known, RowPut
<1>4. Rows /\ OneClaim /\ (\A r \in Reqs : Registered(r)) /\ Taken(s)
  BY <1>0 DEF UInv, OneClaim, Holding
<1>5. Moves(q) /\ req'[q].at = "cleanup" /\ Same(q)
  BY <1>0, Known, GotoMoves DEF Places, Holding
<1>6. Registered(q)'
  BY <1>0, <1>1, <1>5 DEF Registered, Uploading, Minting, Before, Holding, Same
<1>7. \A r \in Reqs \ {q} : req[r].at \in Minting => req[r].s \notin known'
  BY <1>0, <1>4 DEF Registered
<1>8. \A r \in Reqs \ {q} : req[r].at \in Holding => req[r].s # s
  BY <1>0, <1>1, HoldersApart DEF Holding
<1>9. /\ row'[s].is = "whole" => row'[s].slot \in Up!Slots /\ row'[s].expected \in Nat
      /\ row'[s].result # Nothing => row'[s].is = "whole" /\ row'[s].committed /\ row'[s].result.s = s /\ row'[s].result.m = row'[s].digest
      /\ row'[s].is = "absent" \/ row'[s].committed
  BY <1>1, <1>2, <1>3, <1>4 DEF Rows, Taken
<1>10. row'[s].result # Nothing => row'[s].result = row[s].result \/ row'[s].result = req[q].file
  BY <1>2, <1>3
<1> QED
  BY <1>0, <1>1, <1>3, <1>5, <1>6, <1>7, <1>8, <1>9, <1>10, RowStep DEF Uploading, Minting, Holding, Publishing, Same


-----------------------------------------------------------------------------
(* Blocks and files *)

\* A step of one request that leaves the rows and the slots as they are.
LEMMA BlockStep ==
    ASSUME Up!BlockUploadAssumption, UInv, NEW q \in Reqs, Moves(q), UNCHANGED <<row, slot, minted, known>>,
           Types', Registered(q)', Up!InflightCounts', Pinned', Kept', OneFile', Numbered',
           req'[q].at \notin Minting, req'[q].at \in Holding => req[q].at \in Holding /\ req'[q].s = req[q].s,
           req'[q].at \in Publishing => req[q].at \in Publishing
    PROVE  UInv'
<1>0. /\ Types /\ (\A r \in Reqs : Registered(r)) /\ Mints /\ OneClaim /\ Rows /\ \A r \in Reqs \ {q} : req'[r] = req[r]
  BY DEF UInv, Moves
<1>1. \A r \in Reqs : Registered(r)'
  <2>1. \A r \in Reqs \ {q} : req[r].at \in Minting => req[r].s \notin known'
    BY <1>0 DEF Registered
  <2> QED
    BY <1>0, <2>1, OthersRegistered
<1>2. Mints'
  <2>1. \A r \in Reqs : req'[r].at = "insert" => slot'[req'[r].slot] = req'[r].s
    BY <1>0 DEF Mints, Minting
  <2> QED
    BY <1>0, <2>1, MintsStay
<1>3. OneClaim'
  <2>1. \A r \in Reqs : req'[r].at \in Publishing => req[r].at \in Publishing /\ req'[r].s = req[r].s
    BY <1>0 DEF Holding, Publishing
  <2> QED
    BY <1>0, <2>1, OneClaimStays DEF Taken
<1>4. Rows'
  BY <1>0 DEF Rows, Up!Usable
<1> QED
  BY <1>1, <1>2, <1>3, <1>4 DEF UInv

\* The block is stored and pinned by the session.
LEMMA materializeKeeps ==
    ASSUME Up!BlockUploadAssumption, UInv, NEW q \in Reqs, Up!materializeUploadedBlock(q)
    PROVE  UInv'
<1>0. /\ req[q].at = "register" /\ upStored' = upStored \cup {req[q].b} /\ pins' = [pins EXCEPT ![req[q].b] = @ \cup {req[q].s}]
      /\ Up!End(q) /\ inflight' = Up!release(req[q].n) /\ UNCHANGED <<row, slot, minted, known, fsRefs, files>>
  BY DEF Up!materializeUploadedBlock, Up!sessionVars
<1>1. req[q].n \in Nodes /\ req[q].s \in Sessions /\ req[q].b \in UpBlocks /\ req[q].at \in Uploading
  BY <1>0, Known DEF Registered, Uploading
<1>2. Moves(q) /\ req'[q].at = "done"
  BY <1>0, Known, EndMoves, DoneRequest
<1>3. Up!InflightCounts' /\ inflight' \in [Nodes -> Nat]
  <2>1. req'[q].at \notin Uploading
    BY <1>2 DEF Uploading
  <2> QED
    BY <1>0, <1>1, <1>2, <2>1, Known, CountsEnd, UpAssumed
<1>4. /\ Types /\ Pinned /\ Kept /\ OneFile /\ Numbered /\ (\A r \in Reqs : Registered(r)) /\ \A r \in Reqs \ {q} : req'[r] = req[r]
  BY <1>2 DEF UInv, Moves
<1>5. /\ pins' \in [UpBlocks -> SUBSET Sessions] /\ upStored' \subseteq UpBlocks /\ \A b \in UpBlocks : pins[b] \subseteq pins'[b]
  BY <1>0, <1>1, <1>4 DEF Types
<1>6. Types'
  BY <1>0, <1>2, <1>3, <1>4, <1>5 DEF Types, Moves
<1>7. Registered(q)'
  BY <1>2 DEF Registered, Uploading, Minting, Before, Holding
<1>8. Pinned'
  <2>1. \A r \in Reqs : req'[r].at = "head" => req'[r].m \subseteq upStored'
    BY <1>0, <1>2, <1>4 DEF Pinned
  <2>2. ASSUME NEW r \in Reqs, req'[r].at \in {"claim", "fence", "head"}
        PROVE  /\ req'[r] = req[r] /\ req[r].m \subseteq UpBlocks
    <3>1. req'[r] = req[r]
      BY <1>2, <1>4, <2>2
    <3> QED
      BY <1>4, <2>2, <3>1, UpAssumed DEF Registered, Before, Holding
  <2> QED
    BY <1>4, <1>5, <2>1, <2>2, PinnedStays
<1>9. Kept'
  BY <1>0, <1>4 DEF Kept
<1>10. OneFile'
  BY <1>0, <1>2, <1>4, OneFileStays DEF Taken, Publishing
<1>11. Numbered'
  BY <1>0, <1>2, <1>4, NumberedStays
<1> QED
  BY <1>0, <1>2, <1>3, <1>6, <1>7, <1>8, <1>9, <1>10, <1>11, BlockStep DEF Minting, Holding, Publishing

\* The blocks of a manifest are pinned before the claim.
LEMMA ensureKeeps ==
    ASSUME Up!BlockUploadAssumption, UInv, NEW q \in Reqs, Up!ensureCommitBlockOwnLiveness(q)
    PROVE  UInv'
<1>0. /\ req[q].at = "pin" /\ pins' = [b \in UpBlocks |-> IF b \in req[q].m THEN pins[b] \cup {req[q].s} ELSE pins[b]]
      /\ Up!Goto(q, "claim") /\ UNCHANGED <<row, slot, minted, known, upStored, fsRefs, files, inflight>>
  BY DEF Up!ensureCommitBlockOwnLiveness, Up!sessionVars
<1>1. /\ req[q].s \in known /\ req[q].s \in Sessions /\ req[q].m \in Manifests /\ req[q].m \subseteq UpBlocks
      /\ req[q].slot \in Up!Slots /\ req[q].size \in Nat
  BY <1>0, Known, UpAssumed DEF Registered, Before
<1>2. Moves(q) /\ req'[q].at = "claim" /\ Same(q)
  BY <1>0, Known, GotoMoves DEF Places, Before
<1>3. Up!InflightCounts'
  BY <1>0, <1>2, Known, CountsStay, UpAssumed DEF Uploading
<1>4. /\ Types /\ Pinned /\ Kept /\ OneFile /\ Numbered /\ (\A r \in Reqs : Registered(r)) /\ \A r \in Reqs \ {q} : req'[r] = req[r]
  BY <1>2 DEF UInv, Moves
<1>5. pins' \in [UpBlocks -> SUBSET Sessions] /\ (\A b \in UpBlocks : pins[b] \subseteq pins'[b]) /\ \A b \in req[q].m : req[q].s \in pins'[b]
  BY <1>0, <1>1, <1>4 DEF Types
<1>6. Types'
  BY <1>0, <1>2, <1>4, <1>5 DEF Types, Moves
<1>7. Registered(q)'
  BY <1>0, <1>1, <1>2 DEF Registered, Uploading, Minting, Before, Holding, Same
<1>8. Pinned'
  <2>1. ASSUME NEW r \in Reqs \ {q}, req'[r].at \in {"claim", "fence", "head"}
        PROVE  (\A b \in req'[r].m : req'[r].s \in pins'[b]) /\ (req'[r].at = "head" => req'[r].m \subseteq upStored')
    <3>1. req'[r] = req[r]
      BY <1>4
    <3>2. req[r].m \subseteq UpBlocks
      BY <1>4, <2>1, <3>1, UpAssumed DEF Registered, Before, Holding
    <3> QED
      BY <1>0, <1>4, <1>5, <2>1, <3>1, <3>2 DEF Pinned
  <2> QED
    BY <1>2, <1>5, <2>1 DEF Pinned, Same
<1>9. Kept'
  BY <1>0, <1>4 DEF Kept
<1>10. OneFile'
  BY <1>0, <1>2, <1>4, OneFileStays DEF Taken, Publishing
<1>11. Numbered'
  BY <1>0, <1>2, <1>4, NumberedStays
<1> QED
  BY <1>0, <1>2, <1>3, <1>6, <1>7, <1>8, <1>9, <1>10, <1>11, BlockStep DEF Minting, Holding, Publishing


\* A file that is published, in the place of the one of its name and number if there is one.
LEMMA PublishedFile ==
    ASSUME Up!BlockUploadAssumption, UInv, NEW q \in Reqs, req[q].at = "head",
           files' = {g \in files : ~(g.m = Up!NewFile(q).m /\ g.n = Up!NewFile(q).n)} \cup {Up!NewFile(q)},
           fsRefs' = fsRefs \cup Up!NewFile(q).m, upStored' = upStored
    PROVE  /\ Up!NewFile(q) \in AnyFile /\ Up!NewFile(q).s = req[q].s /\ Up!NewFile(q).m = req[q].m /\ Up!NewFile(q) \in files'
           /\ files' \subseteq files \cup {Up!NewFile(q)} /\ IsFiniteSet(files') /\ fsRefs' \subseteq UpBlocks /\ Kept'
           /\ Replacing = {} => files \subseteq files' /\ \A g \in files' : g.n <= Cardinality(Alike(g.m)')
<1> DEFINE f == Up!NewFile(q)
<1> PICK m : m = req[q].m
  OBVIOUS
<1>0. /\ req[q].s \in Sessions /\ m \in Manifests /\ m \subseteq UpBlocks /\ m \subseteq upStored
      /\ Types /\ Kept /\ Numbered /\ files \subseteq AnyFile /\ IsFiniteSet(files)
  <2>1. Registered(q) /\ Types /\ Kept /\ Numbered /\ Pinned
    BY DEF UInv
  <2> QED
    BY <2>1, Known, UpAssumed DEF Registered, Holding, Pinned
<1>1. \A x : IsFiniteSet(Alike(x)) /\ Cardinality(Alike(x)) \in Nat
  BY <1>0, FS_Subset, FS_CardinalityType DEF Alike
<1>2. f = [s |-> req[q].s, m |-> m, n |-> IF m \in Replacing THEN 1 ELSE Cardinality(Alike(m)) + 1]
  BY UpCounts DEF Up!NewFile, Alike
<1>3. f \in AnyFile /\ f.s = req[q].s /\ f.m = m /\ f.n = IF m \in Replacing THEN 1 ELSE Cardinality(Alike(m)) + 1
  BY <1>0, <1>1, <1>2 DEF AnyFile
<1> HIDE DEF f
<1>4. files' = {g \in files : ~(g.m = f.m /\ g.n = f.n)} \cup {f} /\ fsRefs' = fsRefs \cup f.m
  BY DEF f
<1>5. IsFiniteSet(files')
  <2>1. IsFiniteSet({g \in files : ~(g.m = f.m /\ g.n = f.n)})
    BY <1>0, FS_Subset
  <2> QED
    BY <1>4, <2>1, FS_AddElement
<1>6. Kept' /\ fsRefs' \subseteq UpBlocks
  BY <1>0, <1>3, <1>4 DEF Kept, Types
<1>7. ASSUME Replacing = {} PROVE files \subseteq files' /\ \A g \in files' : g.n <= Cardinality(Alike(g.m)')
  <2>1. f.n = Cardinality(Alike(m)) + 1
    BY <1>3, <1>7
  <2>2. \A g \in files : g.n \in Nat /\ g.n <= Cardinality(Alike(g.m))
    BY <1>0, <1>7 DEF Numbered, AnyFile
  <2>3. \A g \in files : ~(g.m = f.m /\ g.n = f.n)
    BY <1>1, <1>3, <2>1, <2>2
  <2>4. files' = files \cup {f} /\ f \notin files
    BY <1>4, <2>3
  <2>5. Alike(m)' = Alike(m) \cup {f} /\ f \notin Alike(m) /\ \A x : x # m => Alike(x)' = Alike(x)
    BY <1>3, <2>4 DEF Alike
  <2>6. Cardinality(Alike(m)') = Cardinality(Alike(m)) + 1
    BY <1>1, <2>5, FS_AddElement
  <2>7. ASSUME NEW g \in files' PROVE g.n <= Cardinality(Alike(g.m)')
    <3>1. CASE g = f
      BY <1>1, <1>3, <2>1, <2>6, <3>1
    <3>2. CASE g \in files /\ g.m = m
      <4>1. g.n \in Nat /\ g.n <= Cardinality(Alike(m)) /\ Cardinality(Alike(m)) \in Nat
        BY <1>1, <2>2, <3>2
      <4>2. Cardinality(Alike(g.m)') = Cardinality(Alike(m)) + 1
        BY <2>6, <3>2
      <4> QED
        BY <4>1, <4>2
    <3>3. CASE g \in files /\ g.m # m
      BY <2>2, <2>5, <3>3
    <3> QED
      BY <2>4, <3>1, <3>2, <3>3
  <2> QED
    BY <2>4, <2>7
<1> QED
  BY <1>3, <1>4, <1>5, <1>6, <1>7 DEF f

\* The file is published, or not, or with an answer that is lost.
LEMMA finalizeKeeps ==
    ASSUME Up!BlockUploadAssumption, UInv, NEW q \in Reqs, Up!finalizeStoredUploadMetadata(q)
    PROVE  UInv'
<1> DEFINE f == Up!NewFile(q)
           s == req[q].s
           Published == files' = {g \in files : ~(g.m = f.m /\ g.n = f.n)} \cup {f} /\ fsRefs' = fsRefs \cup f.m
<1>0. /\ req[q].at = "head" /\ UNCHANGED <<row, slot, minted, known, upStored, pins, inflight>>
      /\ \/ Published /\ req' = [req EXCEPT ![q].at = "mark", ![q].file = f]
         \/ Up!Goto(q, "release") /\ UNCHANGED <<files, fsRefs>>
         \/ Published /\ "head" \in Faults /\ Up!Goto(q, "release")
  BY DEF Up!finalizeStoredUploadMetadata, Up!sessionVars
<1>1. s \in known /\ s \in Sessions /\ req[q].m \in Manifests /\ req[q].slot \in Up!Slots /\ req[q].size \in Nat
  BY <1>0, Known DEF Registered, Holding
<1>2. CASE Up!Goto(q, "release") /\ UNCHANGED <<files, fsRefs>>
  BY <1>0, <1>2, GotoKeeps DEF Places, Holding
<1>3. ASSUME Published, Moves(q),
             \/ req'[q].at = "mark" /\ req'[q].file = f
             \/ req'[q].at = "release" /\ "head" \in Faults,
             req'[q].s = s, req'[q].m = req[q].m, req'[q].slot = req[q].slot, req'[q].size = req[q].size
      PROVE  UInv'
  <2>1. /\ f \in AnyFile /\ f.s = s /\ f.m = req[q].m /\ f \in files' /\ files' \subseteq files \cup {f} /\ IsFiniteSet(files')
        /\ fsRefs' \subseteq UpBlocks /\ Kept'
        /\ Replacing = {} => files \subseteq files' /\ \A g \in files' : g.n <= Cardinality(Alike(g.m)')
    BY <1>0, <1>3, PublishedFile
  <2> HIDE DEF f
  <2>2. /\ Types /\ Pinned /\ OneClaim /\ OneFile /\ Numbered /\ Up!InflightCounts /\ \A r \in Reqs \ {q} : req'[r] = req[r]
    BY <1>3 DEF UInv, Moves
  <2>3. Types'
    BY <1>0, <1>3, <2>1, <2>2 DEF Types, Moves
  <2>4. Registered(q)'
    BY <1>0, <1>1, <1>3, <2>1 DEF Registered, Uploading, Minting, Before, Holding
  <2>5. Up!InflightCounts'
    BY <1>0, <1>3, <2>2, CountsStay, UpAssumed DEF Uploading
  <2>6. Pinned'
    BY <1>0, <1>3, <2>2 DEF Pinned
  <2>7. OneFile'
    <3> SUFFICES ASSUME "head" \notin Faults PROVE OneFile'
      BY DEF OneFile
    <3>1. req'[q].at = "mark" /\ \A g \in files : g.s # s
      BY <1>0, <1>3, <2>2 DEF OneFile
    <3>2. \A g, h \in files' : g.s = h.s => g = h
      BY <2>1, <2>2, <3>1 DEF OneFile
    <3>3. Taken(s) /\ \A r \in Reqs \ {q} : req[r].at \in Publishing => req[r].s # s
      BY <1>0, <2>2 DEF OneClaim, Holding, Publishing
    <3>4. ASSUME NEW g \in files' PROVE g.s \in known' /\ Taken(g.s)' /\ \A r \in Reqs : req'[r].at \in Publishing => req'[r].s # g.s
      <4>1. CASE g = f
        BY <1>0, <1>1, <2>1, <2>2, <3>1, <3>3, <4>1 DEF Taken, Publishing
      <4>2. CASE g \in files
        BY <1>0, <2>2, <3>1, <4>2 DEF OneFile, Taken, Publishing
      <4> QED
        BY <2>1, <4>1, <4>2
    <3> QED
      BY <3>2, <3>4 DEF OneFile, Taken, Publishing
  <2>8. Numbered'
    <3> SUFFICES ASSUME Replacing = {} PROVE Numbered'
      BY DEF Numbered
    <3>1. /\ \A t \in Sessions : row[t].result # Nothing => row[t].result \in files
          /\ \A r \in Reqs : req[r].at \in {"mark", "cleanup"} => req[r].file \in files
          /\ \A r \in Reqs : req[r].at = "answered" => req[r].file \in files /\ req[r].file.s = req[r].s /\ req[r].file.m = req[r].m
      BY <2>2 DEF Numbered, Up!AnswerTrue
    <3>2. \A t \in Sessions : row'[t].result # Nothing => row'[t].result \in files'
      BY <1>0, <2>1, <3>1
    <3>3. \A r \in Reqs : req'[r].at \in {"mark", "cleanup"} => req'[r].file \in files'
      BY <1>3, <2>1, <2>2, <3>1
    <3>4. \A r \in Reqs : req'[r].at = "answered" => req'[r].file \in files' /\ req'[r].file.s = req'[r].s /\ req'[r].file.m = req'[r].m
      BY <1>3, <2>1, <2>2, <3>1
    <3> QED
      BY <2>1, <3>2, <3>3, <3>4 DEF Numbered, Up!AnswerTrue
  <2> QED
    BY <1>0, <1>3, <2>1, <2>3, <2>4, <2>5, <2>6, <2>7, <2>8, BlockStep DEF Minting, Holding, Publishing
<1>4. CASE Published /\ req' = [req EXCEPT ![q].at = "mark", ![q].file = f]
  <2>1. f \in AnyFile
    BY <1>0, <1>4, PublishedFile
  <2> DEFINE x == [req[q] EXCEPT !.at = "mark", !.file = f]
  <2> HIDE DEF f
  <2>2. /\ x \in Request /\ x.at = "mark" /\ x.file = f /\ x.s = s /\ x.m = req[q].m /\ x.slot = req[q].slot /\ x.size = req[q].size
    <3>1. req[q] \in Request
      BY Known
    <3> QED
      BY <2>1, <3>1 DEF Request, Holding
  <2>3. req' = [req EXCEPT ![q] = x]
    BY <1>4, Known
  <2> HIDE DEF x
  <2>4. Moves(q) /\ req'[q] = x
    BY <2>2, <2>3, Known DEF Moves
  <2> QED
    BY <1>3, <1>4, <2>2, <2>4
<1>5. CASE Published /\ "head" \in Faults /\ Up!Goto(q, "release")
  <2>1. Moves(q) /\ req'[q].at = "release" /\ Same(q)
    BY <1>5, Known, GotoMoves DEF Places, Holding
  <2> HIDE DEF f
  <2> QED
    BY <1>3, <1>5, <2>1 DEF Same
<1> QED
  BY <1>0, <1>2, <1>4, <1>5

-----------------------------------------------------------------------------
(* Time, other files, and crashes *)

\* Pins expire, borrowed references go and blocks are collected, but none that a commit or a file needs.
LEMMA BlocksGo ==
    ASSUME Up!BlockUploadAssumption, UInv,
           \/ \E s \in Sessions : Up!ExpirePins(s)
           \/ \E b \in UpBlocks : Up!DropBorrowed(b) \/ Up!Collect(b)
    PROVE  UInv'
<1>0. /\ UNCHANGED <<row, slot, minted, known, inflight, files, req>>
      /\ Types /\ (\A r \in Reqs : Registered(r)) /\ Mints /\ OneClaim /\ Rows /\ Pinned /\ Kept /\ OneFile /\ Numbered /\ Up!InflightCounts
  BY DEF UInv, Up!ExpirePins, Up!DropBorrowed, Up!Collect, Up!sessionVars
<1>1. Types' /\ Pinned' /\ Kept'
  <2>1. ASSUME NEW s \in Sessions, Up!ExpirePins(s) PROVE Types' /\ Pinned' /\ Kept'
    <3>1. /\ pins' = [b \in UpBlocks |-> pins[b] \ {s}] /\ UNCHANGED <<upStored, fsRefs>>
          /\ \A r \in Reqs : req[r].at \in {"claim", "fence", "head"} => req[r].s # s
      BY <2>1 DEF Up!ExpirePins, Up!InFlight
    <3>2. Types' /\ Kept'
      BY <1>0, <3>1 DEF Types, Kept
    <3>3. ASSUME NEW r \in Reqs, req[r].at \in {"claim", "fence", "head"}, NEW b \in req[r].m PROVE req[r].s \in pins'[b]
      <4>1. b \in UpBlocks
        BY <1>0, <3>3, UpAssumed DEF Registered, Before, Holding
      <4> QED
        BY <1>0, <3>1, <3>3, <4>1 DEF Pinned
    <3> QED
      BY <1>0, <3>1, <3>2, <3>3 DEF Pinned
  <2>2. ASSUME NEW b \in UpBlocks, Up!DropBorrowed(b) PROVE Types' /\ Pinned' /\ Kept'
    BY <1>0, <2>2 DEF Up!DropBorrowed, Types, Pinned, Kept
  <2>3. ASSUME NEW b \in UpBlocks, Up!Collect(b) PROVE Types' /\ Pinned' /\ Kept'
    BY <1>0, <2>3 DEF Up!Collect, Types, Pinned, Kept
  <2> QED
    BY <2>1, <2>2, <2>3
<1>2. (\A r \in Reqs : Registered(r)') /\ Mints' /\ OneClaim' /\ Rows'
  BY <1>0 DEF Registered, Mints, OneClaim, Rows, Taken, Up!Usable
<1>3. OneFile' /\ Numbered'
  BY <1>0 DEF OneFile, Numbered, Taken, Alike, Up!AnswerTrue
<1>4. Up!InflightCounts'
  BY <1>0, UpCounts DEF Up!InflightCounts
<1> QED
  BY <1>1, <1>2, <1>3, <1>4 DEF UInv

\* The row of a session, or part of it, and its slot are gone.
LEMMA RowGoes ==
    ASSUME Up!BlockUploadAssumption, UInv, NEW s \in Sessions, UNCHANGED <<minted, known, upStored, pins, fsRefs, inflight, files, req>>,
           row' \in [Sessions -> Row], slot' \in [Up!Slots -> Sessions \cup {Nothing}],
           \A t \in Sessions \ {s} : row'[t] = row[t], \A k \in Up!Slots : slot[k] \in Sessions \ {s} => slot'[k] = slot[k],
           slot' = slot \/ \A r \in Reqs : req[r].at \in Minting => req[r].s # s,
           \/ row'[s] = row[s] /\ (slot' = slot \/ row[s].is # "whole" \/ row[s].result # Nothing)
           \/ row'[s].is # "whole" /\ row'[s].result = Nothing /\ (row'[s].is = "absent" \/ (row[s].is = "whole" /\ row'[s].committed = row[s].committed))
    PROVE  UInv'
<1>0. Types /\ (\A r \in Reqs : Registered(r)) /\ Mints /\ OneClaim /\ Rows /\ Pinned /\ Kept /\ OneFile /\ Numbered /\ Up!InflightCounts
  BY DEF UInv
<1>1. Types' /\ Pinned' /\ Kept' /\ Up!InflightCounts' /\ \A r \in Reqs : Registered(r)'
  <2>1. Types'
    BY <1>0 DEF Types
  <2>2. Pinned' /\ Kept' /\ \A r \in Reqs : Registered(r)'
    BY <1>0 DEF Pinned, Kept, Registered
  <2>3. Up!InflightCounts'
    BY <1>0, UpCounts DEF Up!InflightCounts
  <2> QED
    BY <2>1, <2>2, <2>3
<1>2. \A t \in Sessions : Taken(t) => Taken(t)'
  BY DEF Taken
<1>3. Mints'
  <2>1. ASSUME NEW r \in Reqs, req[r].at = "insert" PROVE slot'[req[r].slot] = req[r].s
    <3>1. req[r].slot \in Up!Slots /\ slot[req[r].slot] = req[r].s /\ req[r].s \in Sessions
      BY <1>0, <2>1, Known DEF Mints, Registered, Minting
    <3> QED
      BY <2>1, <3>1 DEF Minting
  <2> QED
    BY <1>0, <2>1, MintsStay
<1>4. OneClaim'
  <2>1. ASSUME NEW r \in Reqs, req[r].at \in Holding PROVE Taken(req[r].s) => row'[req[r].s].is = "absent" \/ row'[req[r].s].committed
    <3>1. req[r].s \in Sessions
      BY <1>0, <2>1, Known DEF Registered
    <3> QED
      BY <1>2, <3>1 DEF Taken
  <2>2. ASSUME NEW r \in Reqs, req[r].at \in Publishing
        PROVE  /\ row'[req[r].s].result = Nothing
               /\ row'[req[r].s].is = "whole" => row'[req[r].s] = row[req[r].s]
               /\ row'[req[r].s].is = "whole" /\ slot[row[req[r].s].slot] = req[r].s => slot'[row[req[r].s].slot] = req[r].s
    <3>1. req[r].s \in Sessions
      BY <1>0, <2>2, Known DEF Registered, Publishing, Holding
    <3>2. row[req[r].s].result = Nothing /\ (row[req[r].s].is = "whole" => row[req[r].s].slot \in Up!Slots)
      BY <1>0, <2>2, <3>1 DEF OneClaim, Rows
    <3> QED
      BY <3>1, <3>2
  <2> QED
    BY <1>0, <2>1, <2>2, OneClaimStays
<1>5. Rows'
  <2> SUFFICES ASSUME NEW t \in Sessions
               PROVE  /\ row'[t].is = "whole" => row'[t].slot \in Up!Slots /\ row'[t].expected \in Nat
                      /\ row'[t].result # Nothing => row'[t].is = "whole" /\ row'[t].committed /\ row'[t].result.s = t /\ row'[t].result.m = row'[t].digest
                      /\ t \in known /\ row'[t].is = "whole" /\ ~row'[t].committed => slot'[row'[t].slot] = t
    BY DEF Rows, Up!Usable
  <2>1. /\ row[t].is = "whole" => row[t].slot \in Up!Slots /\ row[t].expected \in Nat
        /\ row[t].result # Nothing => row[t].is = "whole" /\ row[t].committed /\ row[t].result.s = t /\ row[t].result.m = row[t].digest
        /\ t \in known /\ row[t].is = "whole" /\ ~row[t].committed => slot[row[t].slot] = t
    BY <1>0 DEF Rows, Up!Usable
  <2>2. CASE row'[t] = row[t]
    BY <2>1, <2>2
  <2>3. CASE t = s /\ row'[s].is # "whole" /\ row'[s].result = Nothing
    BY <2>3
  <2> QED
    BY <2>2, <2>3
<1>6. OneFile'
  <2>1. \A f \in files : f.s \in Sessions
    BY <1>0 DEF Types, AnyFile
  <2> QED
    BY <1>0, <1>2, <2>1, OneFileStays
<1>7. Numbered'
  BY <1>0, NumberedStays
<1> QED
  BY <1>1, <1>3, <1>4, <1>5, <1>6, <1>7 DEF UInv

\* The slot and the row of a session expire, as a whole or in part.
LEMMA ExpireKeeps ==
    ASSUME Up!BlockUploadAssumption, UInv, NEW s \in Sessions, Up!Expire(s) \/ Up!ExpireRest(s)
    PROVE  UInv'
<1>0. /\ UNCHANGED <<minted, known, upStored, pins, fsRefs, inflight, files, req>> /\ row \in [Sessions -> Row]
      /\ slot \in [Up!Slots -> Sessions \cup {Nothing}] /\ Nothing \notin Sessions /\ row[s] \in Row
  BY UpAssumed DEF Up!Expire, Up!ExpireRest, Up!blockVars, UInv, Types
<1>1. Up!NoRow \in Row /\ Up!NoRow.is = "absent" /\ Up!NoRow.result = Nothing
  BY DEF Up!NoRow, Row
<1>2. CASE Up!ExpireRest(s)
  <2>1. slot' = slot /\ row' \in [Sessions -> Row] /\ row'[s] = Up!NoRow /\ \A t \in Sessions \ {s} : row'[t] = row[t]
    BY <1>0, <1>1, <1>2, RowPut DEF Up!ExpireRest
  <2> QED
    BY <1>0, <1>1, <2>1, RowGoes
<1>3. CASE Up!Expire(s)
  <2> DEFINE x == [row[s] EXCEPT !.is = "part", !.slot = Nothing, !.expected = Nothing]
  <2>1. /\ slot' = [k \in Up!Slots |-> IF slot[k] = s THEN Nothing ELSE slot[k]]
        /\ \A r \in Reqs : req[r].at \in Minting => req[r].s # s
        /\ row' = IF row[s].is # "whole" \/ row[s].result # Nothing THEN row
                  ELSE IF row[s].later THEN [row EXCEPT ![s].is = "part", ![s].slot = Nothing, ![s].expected = Nothing]
                  ELSE [row EXCEPT ![s] = Up!NoRow]
    BY <1>3 DEF Up!Expire, Up!InFlight, Minting
  <2>2. slot' \in [Up!Slots -> Sessions \cup {Nothing}] /\ \A k \in Up!Slots : slot[k] \in Sessions \ {s} => slot'[k] = slot[k]
    BY <1>0, <2>1
  <2>3. x \in Row /\ x.is = "part" /\ x.result = row[s].result /\ x.committed = row[s].committed
    BY <1>0 DEF Row
  <2>4. CASE row[s].is # "whole" \/ row[s].result # Nothing
    BY <1>0, <2>1, <2>2, <2>4, RowGoes
  <2>5. CASE ~(row[s].is # "whole" \/ row[s].result # Nothing) /\ row[s].later
    <3>1. row' = [row EXCEPT ![s] = x]
      BY <1>0, <2>1, <2>5
    <3> HIDE DEF x
    <3>2. row' \in [Sessions -> Row] /\ row'[s] = x /\ \A t \in Sessions \ {s} : row'[t] = row[t]
      BY <1>0, <2>3, <3>1, RowPut
    <3> QED
      BY <1>0, <2>1, <2>2, <2>3, <2>5, <3>2, RowGoes
  <2>6. CASE ~(row[s].is # "whole" \/ row[s].result # Nothing) /\ ~row[s].later
    <3>1. row' = [row EXCEPT ![s] = Up!NoRow]
      BY <2>1, <2>6
    <3>2. row' \in [Sessions -> Row] /\ row'[s] = Up!NoRow /\ \A t \in Sessions \ {s} : row'[t] = row[t]
      BY <1>0, <1>1, <3>1, RowPut
    <3> QED
      BY <1>0, <1>1, <2>1, <2>2, <3>2, RowGoes
  <2> QED
    BY <2>4, <2>5, <2>6
<1> QED
  BY <1>2, <1>3


\* A node stops: its requests and its count are gone together.
LEMMA CrashKeeps ==
    ASSUME Up!BlockUploadAssumption, UInv, NEW n \in Nodes, Up!Crash(n)
    PROVE  UInv'
<1>0. /\ UNCHANGED <<row, slot, minted, known, upStored, pins, fsRefs, files>> /\ inflight' = [inflight EXCEPT ![n] = 0]
      /\ req' = [r \in Reqs |-> IF req[r].n = n THEN Up!Done ELSE req[r]]
      /\ Types /\ (\A r \in Reqs : Registered(r)) /\ Mints /\ OneClaim /\ Rows /\ Pinned /\ Kept /\ OneFile /\ Numbered /\ Up!InflightCounts
  BY DEF UInv, Up!Crash, Up!sessionVars, Up!blockVars
<1>1. \A r \in Reqs : IF req[r].n = n THEN req'[r] = Up!Done ELSE req'[r] = req[r]
  BY <1>0
<1>2. \A r \in Reqs : req'[r].at # "done" => req'[r] = req[r] /\ req[r].n # n
  BY <1>1, DoneRequest
<1>3. Types'
  <2>1. req' \in [Reqs -> Request]
    BY <1>0, DoneRequest DEF Types
  <2>2. inflight' \in [Nodes -> Nat]
    BY <1>0 DEF Types
  <2> QED
    BY <1>0, <2>1, <2>2 DEF Types
<1>4. \A r \in Reqs : Registered(r)'
  <2>1. ASSUME NEW r \in Reqs, req'[r] = req[r] PROVE Registered(r)'
    BY <1>0, <2>1 DEF Registered
  <2>2. ASSUME NEW r \in Reqs, req'[r].at = "done" PROVE Registered(r)'
    BY <2>2 DEF Registered, Minting, Uploading, Before, Holding
  <2> QED
    BY <1>2, <2>1, <2>2
<1>5. Mints'
  BY <1>0, <1>2 DEF Mints, Minting
<1>6. OneClaim'
  BY <1>0, <1>2 DEF OneClaim, Taken, Holding, Publishing
<1>7. Rows' /\ Kept'
  BY <1>0 DEF Rows, Kept, Up!Usable
<1>8. Pinned'
  BY <1>0, <1>2 DEF Pinned
<1>9. OneFile'
  BY <1>0, <1>2, OneFileStays DEF Taken, Publishing
<1>10. Numbered'
  BY <1>0, <1>2, NumberedStays
<1>11. Up!InflightCounts'
  <2>1. \A c \in Nodes : inflight[c] = Cardinality(UploadsOf(c))
    BY <1>0, UpCounts DEF Up!InflightCounts, UploadsOf, Uploading
  <2>2. ASSUME NEW c \in Nodes PROVE inflight'[c] = Cardinality(UploadsOf(c)')
    <3>1. CASE c = n
      <4>1. UploadsOf(c)' = {}
        BY <1>2, <3>1 DEF UploadsOf, Uploading
      <4>2. inflight'[c] = 0
        BY <1>0, <3>1 DEF Types
      <4> QED
        BY <4>1, <4>2, FS_EmptySet
    <3>2. CASE c # n
      <4>1. UploadsOf(c)' = UploadsOf(c)
        BY <1>1, <1>2, <3>2 DEF UploadsOf, Uploading
      <4>2. inflight'[c] = inflight[c]
        BY <1>0, <3>2 DEF Types
      <4> QED
        BY <2>1, <4>1, <4>2
    <3> QED
      BY <3>1, <3>2
  <2> QED
    BY <2>2, UpCounts DEF Up!InflightCounts, UploadsOf, Uploading
<1> QED
  BY <1>3, <1>4, <1>5, <1>6, <1>7, <1>8, <1>9, <1>10, <1>11 DEF UInv

-----------------------------------------------------------------------------
(* Uploads in blocks: the theorem *)

\* The invariant holds initially.
LEMMA UInvInit == ASSUME Up!BlockUploadAssumption, Up!Init PROVE UInv
<1>0. \A q \in Reqs : req[q] = Up!Done /\ req[q].at = "done"
  BY DoneRequest DEF Up!Init
<1>1. Up!NoRow \in Row /\ Up!NoRow.is = "absent" /\ Up!NoRow.result = Nothing
  BY DEF Up!NoRow, Row
<1>2. Types
  <2>1. req \in [Reqs -> Request] /\ row \in [Sessions -> Row]
    BY <1>1, DoneRequest DEF Up!Init
  <2>2. IsFiniteSet(files) /\ files \subseteq AnyFile
    BY FS_EmptySet DEF Up!Init
  <2> QED
    BY <2>1, <2>2, UpAssumed DEF Up!Init, Types
<1>3. (\A q \in Reqs : Registered(q)) /\ Mints /\ OneClaim /\ Pinned
  BY <1>0 DEF Registered, Mints, OneClaim, Pinned, Minting, Uploading, Before, Holding, Publishing
<1>4. Rows
  BY <1>1 DEF Up!Init, Rows, Up!Usable
<1>5. Kept /\ OneFile
  BY DEF Up!Init, Kept, OneFile
<1>6. Numbered
  <2>1. files = {} /\ Up!AnswerTrue /\ (\A s \in Sessions : row[s].result = Nothing) /\ \A q \in Reqs : req[q].at \notin {"mark", "cleanup"}
    BY <1>0, <1>1 DEF Up!Init, Up!AnswerTrue
  <2> QED
    BY <2>1 DEF Numbered
<1>7. Up!InflightCounts
  <2>1. \A n \in Nodes : inflight[n] = 0 /\ {q \in Reqs : req[q].n = n /\ req[q].at \in {"probe", "count", "reserve", "register"}} = {}
    BY <1>0 DEF Up!Init
  <2> QED
    BY <2>1, FS_EmptySet, UpCounts DEF Up!InflightCounts
<1> QED
  BY <1>2, <1>3, <1>4, <1>5, <1>6, <1>7 DEF UInv

\* Every step keeps the invariant.
LEMMA UInvNext == ASSUME Up!BlockUploadAssumption, UInv, [Up!Next]_Up!vars PROVE UInv'
<1>1. CASE UNCHANGED Up!vars
  <2>1. UNCHANGED <<row, slot, minted, known, upStored, pins, fsRefs, inflight, files, req>>
    BY <1>1 DEF Up!vars, Up!sessionVars, Up!blockVars
  <2>2. Types /\ (\A r \in Reqs : Registered(r)) /\ Mints /\ OneClaim /\ Rows /\ Pinned /\ Kept /\ OneFile /\ Numbered /\ Up!InflightCounts
    BY DEF UInv
  <2>3. Types' /\ (\A r \in Reqs : Registered(r)') /\ Mints' /\ OneClaim' /\ Rows' /\ Pinned' /\ Kept'
    BY <2>1, <2>2 DEF Types, Registered, Mints, OneClaim, Rows, Pinned, Kept, Taken, Up!Usable
  <2>4. OneFile' /\ Numbered' /\ Up!InflightCounts'
    BY <2>1, <2>2, UpCounts DEF OneFile, Numbered, Up!InflightCounts, Taken, Alike, Up!AnswerTrue
  <2> QED
    BY <2>3, <2>4 DEF UInv
<1>2. ASSUME NEW q \in Reqs, Up!Step(q) PROVE UInv'
  BY <1>2, claimSlotKeeps, InsertKeeps, RollBackSlotKeeps, tryAcquireKeeps, UploadStepsKeep, materializeKeeps, ResultKeeps,
     CheckStepsKeep, ensureKeeps, ClaimKeeps, finalizeKeeps, ReleaseCommitKeeps, MarkKeeps, CleanupKeeps DEF Up!Step
<1>3. ASSUME NEW q \in Reqs, NEW s \in Sessions, NEW n \in Nodes, Up!CreateBlockUploadSession(q, s, n) PROVE UInv'
  BY <1>3, CreateBlockUploadSessionKeeps
<1>4. ASSUME NEW q \in Reqs, NEW s \in Sessions, NEW n \in Nodes, NEW b \in UpBlocks, Up!UploadBlock(q, s, b, n) PROVE UInv'
  BY <1>4, UploadBlockKeeps
<1>5. ASSUME NEW q \in Reqs, NEW s \in Sessions, NEW n \in Nodes, NEW m \in Manifests, Up!CreateFileFromBlocks(q, s, m, n) PROVE UInv'
  BY <1>5, CreateFileFromBlocksKeeps
<1>6. ASSUME NEW s \in Sessions, Up!Expire(s) \/ Up!ExpireRest(s) PROVE UInv'
  BY <1>6, ExpireKeeps
<1>7. ASSUME NEW n \in Nodes, Up!Crash(n) PROVE UInv'
  BY <1>7, CrashKeeps
<1> QED
  BY <1>1, <1>2, <1>3, <1>4, <1>5, <1>6, <1>7, BlocksGo DEF Up!Next

\* A set whose members are equal has one member at most.
LEMMA AtMostOne == ASSUME NEW S, \A x, y \in S : x = y PROVE Cardinality(S) <= 1
<1>1. CASE S = {}
  BY <1>1, FS_EmptySet
<1>2. CASE S # {}
  <2>1. PICK x \in S : TRUE
    BY <1>2
  <2>2. S = {x}
    BY <2>1
  <2> QED
    BY <2>2, FS_Singleton
<1> QED
  BY <1>1, <1>2

\* There are as many slots as sessions a user may have open.
LEMMA SlotsCount == ASSUME Up!BlockUploadAssumption PROVE IsFiniteSet(Up!Slots) /\ Cardinality(Up!Slots) = MaxUncommittedBlockSessionsPerUser
<1>1. 0 \in Int /\ MaxUncommittedBlockSessionsPerUser - 1 \in Int /\ MaxUncommittedBlockSessionsPerUser \in Nat \ {0}
  BY UpAssumed
<1>2. IsFiniteSet(0 .. MaxUncommittedBlockSessionsPerUser - 1)
      /\ Cardinality(0 .. MaxUncommittedBlockSessionsPerUser - 1)
           = IF 0 > MaxUncommittedBlockSessionsPerUser - 1 THEN 0 ELSE MaxUncommittedBlockSessionsPerUser - 1 - 0 + 1
  BY <1>1, FS_Interval
<1> QED
  BY <1>1, <1>2 DEF Up!Slots

\* What the invariant says of committers, files, counts and sessions.
LEMMA UInvHolds ==
    ASSUME Up!BlockUploadAssumption, UInv
    PROVE  /\ Up!OneCommitter /\ Up!FilesStored /\ Up!InflightCounts /\ Up!SessionsBounded
           /\ "head" \notin Faults => Up!OneFilePerSession
           /\ Replacing = {} => Up!AnswerTrue
<1>1. Up!OneCommitter
  <2> SUFFICES ASSUME NEW s \in Sessions
               PROVE  Cardinality({q \in Reqs : req[q].s = s /\ req[q].at \in {"fence", "head", "release", "mark"}}) <= 1
    BY UpCounts DEF Up!OneCommitter
  <2>1. \A q, r \in {v \in Reqs : req[v].s = s /\ req[v].at \in {"fence", "head", "release", "mark"}} : q = r
    BY DEF UInv, OneClaim, Holding
  <2> QED
    BY <2>1, AtMostOne
<1>2. Up!FilesStored /\ Up!InflightCounts /\ (Replacing = {} => Up!AnswerTrue)
  BY DEF UInv, Kept, Up!FilesStored, Numbered
<1>3. ASSUME "head" \notin Faults PROVE Up!OneFilePerSession
  <2> SUFFICES ASSUME NEW s \in Sessions PROVE Cardinality({f \in files : f.s = s}) <= 1
    BY UpCounts DEF Up!OneFilePerSession
  <2>1. \A f, g \in {h \in files : h.s = s} : f = g
    BY <1>3 DEF UInv, OneFile
  <2> QED
    BY <2>1, AtMostOne
<1>4. Up!SessionsBounded
  <2> DEFINE S == {s \in known : Up!Usable(s)}
             at == [s \in S |-> row[s].slot]
  <2>1. \A s \in S : row[s].slot \in Up!Slots /\ slot[row[s].slot] = s
    BY DEF UInv, Types, Rows, Up!Usable
  <2>2. at \in Injection(S, Up!Slots)
    BY <2>1 DEF Injection, IsInjective
  <2>3. Cardinality(S) <= Cardinality(Up!Slots)
    <3> HIDE DEF S, at
    <3> QED
      BY <2>2, SlotsCount, FS_Injection
  <2> QED
    BY <2>3, SlotsCount, UpCounts DEF Up!SessionsBounded
<1> QED
  BY <1>1, <1>2, <1>3, <1>4

\* However many sessions, requests, blocks and servers there are, and whatever fails, expires or crashes:
\* one request at most publishes for a session (ClaimBlockUploadSessionForCommit is conditional, the
\* release is not); no block of a published file is collected; the count of a server is the number of
\* its uploads (tryAcquire, release); and a user has no more usable sessions than slots, each with its
\* own.  A session makes one file, unless the answer of the update of HEAD may be lost; and where no
\* upload replaces a file, a commit is answered with the file that its own session published for its
\* own manifest (file_from_blocks.go: CreateFileFromBlocks, block_upload_sessions.go).
THEOREM UploadsHold ==
    Up!BlockUploadAssumption =>
        (Up!Spec => [](/\ Up!OneCommitter /\ Up!FilesStored /\ Up!InflightCounts /\ Up!SessionsBounded
                       /\ "head" \notin Faults => Up!OneFilePerSession
                       /\ Replacing = {} => Up!AnswerTrue))
<1> SUFFICES ASSUME Up!BlockUploadAssumption
             PROVE  Up!Spec => [](/\ Up!OneCommitter /\ Up!FilesStored /\ Up!InflightCounts /\ Up!SessionsBounded
                                  /\ "head" \notin Faults => Up!OneFilePerSession
                                  /\ Replacing = {} => Up!AnswerTrue)
  OBVIOUS
<1>1. Up!Init => UInv
  BY UInvInit
<1>2. UInv /\ [Up!Next]_Up!vars => UInv'
  BY UInvNext
<1>3. UInv => /\ Up!OneCommitter /\ Up!FilesStored /\ Up!InflightCounts /\ Up!SessionsBounded
              /\ "head" \notin Faults => Up!OneFilePerSession
              /\ Replacing = {} => Up!AnswerTrue
  BY UInvHolds
<1> QED
  BY <1>1, <1>2, <1>3, PTL DEF Up!Spec

-----------------------------------------------------------------------------
(* Uploads in byte ranges: the inductive invariant *)

CONSTANTS Uploads, Reset, Drop, Trackers, TotalSize, MaxChunk, MaxStaging, Attempts, MaxPublished
VARIABLES uploads, tracker, swept, outcomes, permit, lease, published, cleaned, chunkReq

Chunk == INSTANCE ChunkUpload WITH None <- Nothing, req <- chunkReq

\* The instance has its own names for the operators of FiniteSets.
LEMMA ChunkCounts ==
    /\ \A S : Chunk!IsFiniteSet(S) <=> IsFiniteSet(S)
    /\ \A S : Chunk!Cardinality(S) = Cardinality(S)
<1>1. ASSUME NEW S PROVE Chunk!IsFiniteSet(S) <=> IsFiniteSet(S)
  BY DEF Chunk!IsFiniteSet, IsFiniteSet
<1>2. ASSUME NEW S PROVE Chunk!Cardinality(S) = Cardinality(S)
  BY DEF Chunk!Cardinality, Cardinality
<1> QED
  BY <1>1, <1>2

\* What the assumption on the constants says.
LEMMA ChunkAssumed ==
    ASSUME Chunk!ChunkUploadAssumption
    PROVE  /\ TotalSize \in Nat \ {0} /\ MaxStaging \in Nat /\ MaxPublished \in Nat \ {0}
           /\ IsFiniteSet(Uploads) /\ Nothing \notin Trackers /\ Nothing \notin Reqs
           /\ Reset # Drop /\ {Reset, Drop, Nothing} \cap (1 .. MaxPublished) = {} /\ Nothing \notin {Reset, Drop}
  BY ChunkCounts DEF Chunk!ChunkUploadAssumption

\* The stages of a request that told the outcome of its finalisation, and has still to settle it.
Told == {"cache", "cleanup", "count", "settle"}
\* The stages of the request a finalisation belongs to: it claimed the tracker (ClaimFinalization).
Owning == Chunk!Winning \cup Told
\* The stages at which a request has a tracker.
Attached == Owning \cup {"write", "claim", "wait"}
\* The stages at which a request has the permit of the library.
Permitted == Chunk!Leased \cup {"lease", "unpermit"}
\* The stages after the publication, when the outcome is known.
Decided == {"release", "unpermit", "tell"} \cup Told
\* A request, with its registers.
ChunkRequest == [at : Chunk!Stages, n : Nodes \cup {Nothing}, u : Uploads \cup {Nothing}, c : Chunk!Chunks \cup {Nothing}, t : Trackers \cup {Nothing},
           woken : BOOLEAN, ctx : BOOLEAN, lapsed : BOOLEAN, current : BOOLEAN, try : Nat, out : Chunk!Outcome, late : BOOLEAN]
\* A tracker is a record with these fields.  What its ranges and its data hold plays no part here.
Shaped(x) == DOMAIN x = {"u", "n", "ranges", "data", "open", "finalizing", "started", "done", "result"}
\* Types.  A tracker under finalisation has a channel (ChunkUpload.finalizeDone).
ChunkTypes ==
    /\ uploads \in [Nodes -> [Uploads -> Trackers \cup {Nothing}]] /\ outcomes \in [Nodes -> [Uploads -> (1 .. MaxPublished) \cup {Nothing}]]
    /\ cleaned \in [Nodes -> SUBSET Uploads] /\ permit \in [Nodes -> Reqs \cup {Nothing}] /\ published \in [Uploads -> 0 .. MaxPublished]
    /\ chunkReq \in [Reqs -> ChunkRequest]
    /\ tracker = [t \in Trackers |-> tracker[t]]
    /\ \A t \in Trackers : /\ Shaped(tracker[t]) /\ tracker[t].done \in {"nil", "open", "closed"}
                           /\ tracker[t].result \in Chunk!Outcome /\ (tracker[t].finalizing => tracker[t].done # "nil")
\* The tracker of a request is one of its upload on its instance.
Held(q) ==
    /\ chunkReq[q].at \in Attached => chunkReq[q].t \in Trackers
    /\ chunkReq[q].t \in Trackers => tracker[chunkReq[q].t].n = chunkReq[q].n /\ tracker[chunkReq[q].t].u = chunkReq[q].u
    /\ chunkReq[q].at \in Attached \cup {"create"} => chunkReq[q].n \in Nodes /\ chunkReq[q].u \in Uploads
    /\ chunkReq[q].at = "id" => chunkReq[q].u \in Uploads
\* The map of an instance enters a tracker under its own upload.
Entered == \A n \in Nodes, u \in Uploads : uploads[n][u] # Nothing => tracker[uploads[n][u]].n = n /\ tracker[uploads[n][u]].u = u
\* A finalisation belongs to one request; the channel is open until that one told the outcome, and
\* closed until it settled it; who waits and was not woken waits on an open channel.
Owners ==
    /\ \A q, r \in Reqs : chunkReq[q].at \in Owning /\ chunkReq[r].at \in Owning /\ chunkReq[q].t = chunkReq[r].t => q = r
    /\ \A q \in Reqs : /\ chunkReq[q].at \in Chunk!Winning => tracker[chunkReq[q].t].done = "open"
                       /\ chunkReq[q].at \in Told => tracker[chunkReq[q].t].done = "closed"
                       /\ chunkReq[q].at = "wait" /\ ~chunkReq[q].woken => tracker[chunkReq[q].t].done = "open"
\* A tracker some request or the map of some instance can still come to.
Reached(t) == (\E q \in Reqs : chunkReq[q].t = t) \/ \E n \in Nodes, u \in Uploads : uploads[n][u] = t
\* The channel of a tracker that can be reached is open only while a finalisation will close it.  Without
\* this part a request could wait on a channel that nobody closes.
Opened == \A t \in Trackers : Reached(t) /\ tracker[t].done = "open" => \E r \in Reqs : chunkReq[r].t = t /\ chunkReq[r].at \in Chunk!Winning
\* A request that publishes has the lease, unless it lapsed.
Leases == \A q \in Reqs : chunkReq[q].at \in Chunk!Leased /\ ~chunkReq[q].lapsed => lease = q
\* Whatever names a file, in a tracker, in the cache of outcomes or in a request, names one that was
\* published.
Results ==
    /\ \A t \in Trackers : tracker[t].result \in 1 .. MaxPublished => tracker[t].u \in Uploads /\ tracker[t].result <= published[tracker[t].u]
    /\ \A n \in Nodes, u \in Uploads : outcomes[n][u] # Nothing => outcomes[n][u] <= published[u]
    /\ \A q \in Reqs : /\ chunkReq[q].at \in Decided => chunkReq[q].out \in {Reset, Drop} \cup (1 .. published[chunkReq[q].u])
                       /\ chunkReq[q].at \in Told \ {"settle"} => chunkReq[q].out \notin {Reset, Drop}
\* Where outcomes do not expire, an upload whose tracker was dropped after a success has its outcome in the
\* cache: it is cached first (CacheFinalizeOutcome before CleanupTrackedUpload).
Lates ==
    "expire" \notin Faults =>
      /\ \A n \in Nodes : \A u \in cleaned[n] : outcomes[n][u] # Nothing
      /\ \A q \in Reqs : chunkReq[q].at = "cleanup" => outcomes[chunkReq[q].n][chunkReq[q].u] # Nothing
      /\ Chunk!LateRetryAnswered
\* The inductive invariant.
CInv == ChunkTypes /\ (\A q \in Reqs : Held(q)) /\ Entered /\ Owners /\ Opened /\ Leases /\ Chunk!PermitReturned /\ Results /\ Chunk!AnswerTrue
        /\ Lates /\ Chunk!StagingBounded

\* A request that does not move: it may be woken, lose its lease or have an old snapshot.
AsBefore(r) ==
    /\ chunkReq'[r].at = chunkReq[r].at /\ chunkReq'[r].n = chunkReq[r].n /\ chunkReq'[r].u = chunkReq[r].u /\ chunkReq'[r].t = chunkReq[r].t
    /\ chunkReq'[r].out = chunkReq[r].out /\ chunkReq'[r].late = chunkReq[r].late
    /\ chunkReq[r].woken => chunkReq'[r].woken
    /\ chunkReq[r].lapsed => chunkReq'[r].lapsed
\* At most one request moves.
Steady(q) == chunkReq' \in [Reqs -> ChunkRequest] /\ \A r \in Reqs \ {q} : AsBefore(r)
\* Trackers keep their upload and their instance.
Kindred ==
    /\ tracker' = [t \in Trackers |-> tracker'[t]]
    /\ \A t \in Trackers : Shaped(tracker'[t]) /\ tracker'[t].n = tracker[t].n /\ tracker'[t].u = tracker[t].u
\* Trackers keep all but their ranges, their data and their file.
SameTrackers ==
    /\ tracker' = [t \in Trackers |-> tracker'[t]]
    /\ \A t \in Trackers : /\ Shaped(tracker'[t]) /\ tracker'[t].n = tracker[t].n /\ tracker'[t].u = tracker[t].u
                           /\ tracker'[t].done = tracker[t].done /\ tracker'[t].result = tracker[t].result
                           /\ tracker'[t].finalizing = tracker[t].finalizing
\* A result that is new is a failure, or a file that was published.
Reported ==
    \A t \in Trackers : \/ tracker'[t].result = tracker[t].result
                        \/ tracker'[t].result \in {Reset, Drop, Nothing}
                        \/ tracker[t].u \in Uploads /\ tracker'[t].result <= published'[tracker[t].u]
\* The map of an instance gains nothing.
Shrinks ==
    /\ uploads' \in [Nodes -> [Uploads -> Trackers \cup {Nothing}]]
    /\ \A n \in Nodes, u \in Uploads : uploads'[n][u] # Nothing => uploads'[n][u] = uploads[n][u]
\* A publication is not taken back.
Grows == published' \in [Uploads -> 0 .. MaxPublished] /\ \A u \in Uploads : published[u] <= published'[u]

\* The fields of a request.
LEMMA ChunkFields ==
    ASSUME NEW x \in ChunkRequest
    PROVE  /\ x.at \in Chunk!Stages /\ x.n \in Nodes \cup {Nothing} /\ x.u \in Uploads \cup {Nothing} /\ x.c \in Chunk!Chunks \cup {Nothing} /\ x.t \in Trackers \cup {Nothing}
           /\ x.woken \in BOOLEAN /\ x.ctx \in BOOLEAN /\ x.lapsed \in BOOLEAN /\ x.current \in BOOLEAN /\ x.try \in Nat /\ x.out \in Chunk!Outcome
           /\ x.late \in BOOLEAN
  BY DEF ChunkRequest

\* The parts of the invariant, and the types of the variables.
LEMMA CInvParts ==
    ASSUME CInv
    PROVE  /\ ChunkTypes /\ (\A q \in Reqs : Held(q)) /\ Entered /\ Owners /\ Opened /\ Leases /\ Chunk!PermitReturned /\ Results /\ Chunk!AnswerTrue
           /\ Lates /\ Chunk!StagingBounded
           /\ uploads \in [Nodes -> [Uploads -> Trackers \cup {Nothing}]] /\ outcomes \in [Nodes -> [Uploads -> (1 .. MaxPublished) \cup {Nothing}]]
           /\ cleaned \in [Nodes -> SUBSET Uploads] /\ permit \in [Nodes -> Reqs \cup {Nothing}] /\ published \in [Uploads -> 0 .. MaxPublished]
           /\ chunkReq \in [Reqs -> ChunkRequest]
  BY DEF CInv, ChunkTypes

\* What does not change, changes as little as the lemmas below ask.
LEMMA Unmoved ==
    ASSUME Chunk!ChunkUploadAssumption, ChunkTypes
    PROVE  /\ tracker' = tracker => SameTrackers
           /\ uploads' = uploads => Shrinks
           /\ published' = published => Grows
<1>1. ASSUME tracker' = tracker PROVE SameTrackers
  BY <1>1 DEF ChunkTypes, SameTrackers
<1>2. ASSUME uploads' = uploads PROVE Shrinks
  BY <1>2 DEF ChunkTypes, Shrinks
<1>3. ASSUME published' = published PROVE Grows
  BY <1>3, ChunkAssumed DEF ChunkTypes, Grows
<1> QED
  BY <1>1, <1>2, <1>3

\* The map still enters trackers under their own uploads.
LEMMA EnteredStays ==
    ASSUME ChunkTypes, Entered, Kindred, Shrinks
    PROVE  Entered'
<1> SUFFICES ASSUME NEW n \in Nodes, NEW u \in Uploads, uploads'[n][u] # Nothing
             PROVE  tracker'[uploads'[n][u]].n = n /\ tracker'[uploads'[n][u]].u = u
  BY DEF Entered
<1>1. uploads'[n][u] \in Trackers /\ uploads'[n][u] = uploads[n][u]
  BY DEF Shrinks
<1> QED
  BY <1>1 DEF Entered, Kindred

\* The tracker of a request that does not move is still one of its upload.
LEMMA HeldStays ==
    ASSUME NEW r \in Reqs, Held(r), AsBefore(r), Kindred
    PROVE  Held(r)'
  BY DEF Held, AsBefore, Kindred

\* Trackers that keep that much keep their upload.
LEMMA SameKindred ==
    ASSUME SameTrackers
    PROVE  Kindred
  BY DEF Kindred, SameTrackers

\* The places of the map that are in use.
Keys(n) == {u \in Uploads : uploads[n][u] # Nothing}

\* A map that gains nothing reserves no more (reservedStagingBytes).
LEMMA StagingStays ==
    ASSUME Chunk!ChunkUploadAssumption, Chunk!StagingBounded, Shrinks
    PROVE  Chunk!StagingBounded'
<1> SUFFICES ASSUME NEW n \in Nodes PROVE TotalSize * Cardinality(Keys(n)') <= MaxStaging
  BY ChunkCounts DEF Chunk!StagingBounded, Chunk!reservedStagingBytes, Keys
<1>1. Keys(n)' \subseteq Keys(n) /\ Keys(n) \subseteq Uploads
  BY DEF Keys, Shrinks
<1>2. IsFiniteSet(Keys(n)) /\ IsFiniteSet(Keys(n)')
  BY <1>1, FS_Subset, ChunkAssumed
<1>3. Cardinality(Keys(n)') \in Nat /\ Cardinality(Keys(n)) \in Nat /\ Cardinality(Keys(n)') <= Cardinality(Keys(n))
  <2> HIDE DEF Keys
  <2> QED
    BY <1>1, <1>2, FS_Subset, FS_CardinalityType
<1>4. TotalSize * Cardinality(Keys(n)) <= MaxStaging
  BY ChunkCounts DEF Chunk!StagingBounded, Chunk!reservedStagingBytes, Keys
<1>5. TotalSize \in Nat /\ MaxStaging \in Nat
  BY ChunkAssumed
<1>6. ASSUME NEW a \in Nat, NEW b \in Nat, NEW c \in Nat, a <= b PROVE c * a <= c * b /\ c * a \in Nat /\ c * b \in Nat
  BY <1>6
<1>7. /\ TotalSize * Cardinality(Keys(n)') <= TotalSize * Cardinality(Keys(n))
      /\ TotalSize * Cardinality(Keys(n)') \in Nat /\ TotalSize * Cardinality(Keys(n)) \in Nat
  <2> HIDE DEF Keys
  <2> QED
    BY <1>3, <1>5, <1>6
<1> QED
  <2> HIDE DEF Keys
  <2> QED
    BY <1>4, <1>5, <1>7

\* A step that neither claims nor tells a finalisation leaves each to its request, and none without one.
LEMMA OwnersStay ==
    ASSUME Chunk!ChunkUploadAssumption, CInv, NEW q, Steady(q), SameTrackers, Shrinks,
           q \in Reqs =>
             /\ Held(q)'
             /\ chunkReq'[q].at \in Chunk!Winning => chunkReq[q].at \in Chunk!Winning
             /\ chunkReq[q].at \in Chunk!Winning => chunkReq'[q].at \in Chunk!Winning
             /\ chunkReq'[q].at \in Told => chunkReq[q].at \in Told
             /\ chunkReq'[q].at \in Owning => chunkReq'[q].t = chunkReq[q].t
             /\ chunkReq'[q].t \in Trackers => chunkReq'[q].t = chunkReq[q].t \/ Reached(chunkReq'[q].t)
             /\ chunkReq'[q].at = "wait" /\ ~chunkReq'[q].woken => tracker[chunkReq'[q].t].done = "open"
    PROVE  Owners' /\ Opened'
<1>0. ChunkTypes /\ Owners /\ Opened /\ (\A r \in Reqs : Held(r)) /\ \A r \in Reqs : Held(r)'
  BY CInvParts, SameKindred, HeldStays DEF Steady
<1>1. \A r \in Reqs : chunkReq'[r].at \in Attached => chunkReq'[r].t \in Trackers
  BY <1>0 DEF Held
<1>2. \A r \in Reqs : /\ chunkReq'[r].at \in Chunk!Winning => chunkReq[r].at \in Chunk!Winning /\ chunkReq'[r].t = chunkReq[r].t
                      /\ chunkReq'[r].at \in Told => chunkReq[r].at \in Told /\ chunkReq'[r].t = chunkReq[r].t
                      /\ chunkReq[r].at \in Chunk!Winning => chunkReq'[r].at \in Chunk!Winning
                      /\ chunkReq'[r].at = "wait" /\ ~chunkReq'[r].woken => tracker[chunkReq'[r].t].done = "open"
  <2>1. ASSUME NEW r \in Reqs, r # q
        PROVE  /\ chunkReq'[r].at = chunkReq[r].at /\ chunkReq'[r].t = chunkReq[r].t
               /\ chunkReq'[r].at = "wait" /\ ~chunkReq'[r].woken => tracker[chunkReq'[r].t].done = "open"
    BY <1>0, <2>1 DEF Steady, AsBefore, Owners
  <2> QED
    BY <2>1 DEF Owning
<1>3. Owners'
  <2>1. \A other, r \in Reqs : chunkReq'[other].at \in Owning /\ chunkReq'[r].at \in Owning /\ chunkReq'[other].t = chunkReq'[r].t => other = r
    BY <1>0, <1>2 DEF Owners, Owning
  <2>2. \A r \in Reqs : /\ chunkReq'[r].at \in Chunk!Winning => tracker[chunkReq'[r].t].done = "open"
                        /\ chunkReq'[r].at \in Told => tracker[chunkReq'[r].t].done = "closed"
    BY <1>0, <1>2 DEF Owners
  <2>3. \A r \in Reqs : chunkReq'[r].at \in Chunk!Winning \cup Told \cup {"wait"} => tracker'[chunkReq'[r].t].done = tracker[chunkReq'[r].t].done
    BY <1>1 DEF SameTrackers, Attached, Owning
  <2> QED
    BY <1>2, <2>1, <2>2, <2>3 DEF Owners
<1>4. ASSUME NEW t \in Trackers, Reached(t)', tracker'[t].done = "open"
      PROVE  \E r \in Reqs : chunkReq'[r].t = t /\ chunkReq'[r].at \in Chunk!Winning
  <2>1. Reached(t)
    <3>1. ASSUME NEW r \in Reqs, chunkReq'[r].t = t PROVE Reached(t)
      <4>1. CASE r = q
        BY <3>1, <4>1 DEF Reached
      <4>2. CASE r # q
        BY <3>1, <4>2 DEF Steady, AsBefore, Reached
      <4> QED
        BY <4>1, <4>2
    <3>2. ASSUME NEW n \in Nodes, NEW u \in Uploads, uploads'[n][u] = t, t # Nothing PROVE Reached(t)
      BY <3>2 DEF Shrinks, Reached
    <3>3. CASE t = Nothing
      BY <3>3, ChunkAssumed
    <3> QED
      BY <1>4, <3>1, <3>2, <3>3 DEF Reached
  <2>2. tracker[t].done = "open"
    BY <1>4 DEF SameTrackers
  <2>3. PICK r \in Reqs : chunkReq[r].t = t /\ chunkReq[r].at \in Chunk!Winning
    BY <1>0, <2>1, <2>2 DEF Opened
  <2> QED
    BY <1>2, <2>3
<1> QED
  BY <1>3, <1>4 DEF Opened

\* A step that gives out only what was published keeps results and answers true.
LEMMA ResultsStay ==
    ASSUME Chunk!ChunkUploadAssumption, CInv, NEW q, Steady(q), Kindred, Reported, Grows,
           outcomes' \in [Nodes -> [Uploads -> (1 .. MaxPublished) \cup {Nothing}]],
           \A n \in Nodes, u \in Uploads : outcomes'[n][u] \in {outcomes[n][u], Nothing} \/ outcomes'[n][u] <= published'[u],
           q \in Reqs =>
             /\ chunkReq'[q].at \in Decided => chunkReq'[q].out \in {Reset, Drop} \cup (1 .. published'[chunkReq'[q].u])
             /\ chunkReq'[q].at \in Told \ {"settle"} => chunkReq'[q].out \notin {Reset, Drop}
             /\ chunkReq'[q].at = "id" => chunkReq'[q].out \in 1 .. published'[chunkReq'[q].u]
    PROVE  Results' /\ Chunk!AnswerTrue'
<1>0. ChunkTypes /\ Results /\ Chunk!AnswerTrue /\ (\A r \in Reqs : Held(r)) /\ published \in [Uploads -> 0 .. MaxPublished] /\ MaxPublished \in Nat
  BY CInvParts, ChunkAssumed
<1>1. \A u \in Uploads : published[u] \in Nat /\ published'[u] \in Nat /\ published[u] <= published'[u]
  BY <1>0 DEF Grows
<1>2. ASSUME NEW t \in Trackers, tracker'[t].result \in 1 .. MaxPublished
      PROVE  tracker'[t].u \in Uploads /\ tracker'[t].result <= published'[tracker'[t].u]
  <2>1. /\ tracker'[t].u = tracker[t].u /\ tracker'[t].result \notin {Reset, Drop, Nothing}
        /\ tracker'[t].result = tracker[t].result \/ (tracker[t].u \in Uploads /\ tracker'[t].result <= published'[tracker[t].u])
    BY <1>2, ChunkAssumed DEF Kindred, Reported
  <2>2. CASE tracker'[t].result = tracker[t].result
    <3>1. tracker[t].u \in Uploads /\ tracker[t].result <= published[tracker[t].u]
      BY <1>0, <1>2, <2>2 DEF Results
    <3> QED
      BY <1>1, <1>2, <2>1, <2>2, <3>1
  <2> QED
    BY <2>1, <2>2
<1>3. ASSUME NEW n \in Nodes, NEW u \in Uploads, outcomes'[n][u] # Nothing PROVE outcomes'[n][u] <= published'[u]
  <2>1. CASE outcomes'[n][u] = outcomes[n][u]
    <3>1. outcomes[n][u] <= published[u] /\ outcomes[n][u] \in Nat
      BY <1>0, <1>3, <2>1 DEF Results, ChunkTypes
    <3> QED
      BY <1>1, <2>1, <3>1
  <2> QED
    BY <1>3, <2>1
<1>4. ASSUME NEW r \in Reqs
      PROVE  /\ chunkReq'[r].at \in Decided => chunkReq'[r].out \in {Reset, Drop} \cup (1 .. published'[chunkReq'[r].u])
             /\ chunkReq'[r].at \in Told \ {"settle"} => chunkReq'[r].out \notin {Reset, Drop}
             /\ chunkReq'[r].at = "id" => chunkReq'[r].out \in 1 .. published'[chunkReq'[r].u]
  <2>1. CASE r = q
    BY <2>1
  <2>2. CASE r # q
    <3>1. chunkReq'[r].at = chunkReq[r].at /\ chunkReq'[r].out = chunkReq[r].out /\ chunkReq'[r].u = chunkReq[r].u
      BY <2>2 DEF Steady, AsBefore
    <3>2. chunkReq[r].at \in Decided \cup {"id"} => chunkReq[r].u \in Uploads
      BY <1>0 DEF Held, Decided, Attached, Owning, Chunk!Winning, Told
    <3>3. chunkReq[r].u \in Uploads => 1 .. published[chunkReq[r].u] \subseteq 1 .. published'[chunkReq[r].u]
      BY <1>1
    <3> QED
      BY <1>0, <3>1, <3>2, <3>3 DEF Results, Chunk!AnswerTrue
  <2> QED
    BY <2>1, <2>2
<1> QED
  BY <1>2, <1>3, <1>4 DEF Results, Chunk!AnswerTrue

\* A step that forgets no outcome and drops no tracker after a success keeps late retries answered.
LEMMA LatesStay ==
    ASSUME CInv, NEW q, Steady(q), cleaned' = cleaned,
           \A n \in Nodes, u \in Uploads : outcomes[n][u] # Nothing => outcomes'[n][u] # Nothing,
           q \in Reqs =>
             /\ chunkReq'[q].at = "cleanup" => outcomes'[chunkReq'[q].n][chunkReq'[q].u] # Nothing
             /\ "expire" \notin Faults /\ chunkReq'[q].late => chunkReq'[q].at \in {"id", "done"} \/ (chunkReq[q].late /\ chunkReq[q].at \notin {"id", "done"})
    PROVE  Lates'
<1> SUFFICES ASSUME "expire" \notin Faults PROVE Lates'
  BY DEF Lates
<1>0. /\ \A n \in Nodes : \A u \in cleaned[n] : outcomes[n][u] # Nothing
      /\ \A r \in Reqs : chunkReq[r].at = "cleanup" => outcomes[chunkReq[r].n][chunkReq[r].u] # Nothing
      /\ Chunk!LateRetryAnswered /\ (\A r \in Reqs : Held(r)) /\ cleaned \in [Nodes -> SUBSET Uploads]
  BY CInvParts DEF Lates
<1>1. \A n \in Nodes : \A u \in cleaned'[n] : outcomes'[n][u] # Nothing
  BY <1>0
<1>2. ASSUME NEW r \in Reqs
      PROVE  (chunkReq'[r].at = "cleanup" => outcomes'[chunkReq'[r].n][chunkReq'[r].u] # Nothing) /\ (chunkReq'[r].late => chunkReq'[r].at \in {"id", "done"})
  <2>1. CASE r = q
    BY <1>0, <2>1 DEF Chunk!LateRetryAnswered
  <2>2. CASE r # q
    <3>1. chunkReq'[r].at = chunkReq[r].at /\ chunkReq'[r].n = chunkReq[r].n /\ chunkReq'[r].u = chunkReq[r].u /\ chunkReq'[r].late = chunkReq[r].late
      BY <2>2 DEF Steady, AsBefore
    <3>2. chunkReq[r].at = "cleanup" => chunkReq[r].n \in Nodes /\ chunkReq[r].u \in Uploads
      BY <1>0 DEF Held, Attached, Owning, Told
    <3> QED
      BY <1>0, <3>1, <3>2 DEF Chunk!LateRetryAnswered
  <2> QED
    BY <2>1, <2>2
<1> QED
  BY <1>1, <1>2 DEF Lates, Chunk!LateRetryAnswered

\* The lease and the permit, when a request neither takes nor gives one back.
LEMMA LocksStay ==
    ASSUME CInv, NEW q, Steady(q), UNCHANGED <<permit, lease>>,
           q \in Reqs =>
             /\ chunkReq'[q].at \in Permitted <=> chunkReq[q].at \in Permitted
             /\ chunkReq'[q].at \in Chunk!Leased => chunkReq[q].at \in Chunk!Leased
             /\ chunkReq[q].at \in Permitted => chunkReq'[q].n = chunkReq[q].n
             /\ chunkReq[q].lapsed /\ chunkReq'[q].at \in Chunk!Leased => chunkReq'[q].lapsed
    PROVE  Leases' /\ Chunk!PermitReturned'
<1>0. Leases /\ Chunk!PermitReturned
  BY CInvParts
<1>1. Leases'
  BY <1>0 DEF Leases, Steady, AsBefore
<1>2. ASSUME NEW n \in Nodes, NEW r \in Reqs PROVE permit'[n] = r <=> chunkReq'[r].n = n /\ chunkReq'[r].at \in Permitted
  BY <1>0 DEF Chunk!PermitReturned, Steady, AsBefore, Permitted
<1> QED
  BY <1>1, <1>2 DEF Chunk!PermitReturned, Permitted

\* A step of one request, or of none, that leaves the outcomes of trackers.
LEMMA StepKeeps ==
    ASSUME Chunk!ChunkUploadAssumption, CInv, NEW q, Steady(q), SameTrackers, Shrinks, Grows,
           outcomes' \in [Nodes -> [Uploads -> (1 .. MaxPublished) \cup {Nothing}]],
           \A n \in Nodes, u \in Uploads : outcomes'[n][u] \in {outcomes[n][u], Nothing} \/ outcomes'[n][u] <= published'[u],
           cleaned' \in [Nodes -> SUBSET Uploads], permit' \in [Nodes -> Reqs \cup {Nothing}],
           Leases', Chunk!PermitReturned', Lates',
           q \in Reqs =>
             /\ Held(q)'
             /\ chunkReq'[q].at \in Chunk!Winning <=> chunkReq[q].at \in Chunk!Winning
             /\ chunkReq'[q].at \in Told => chunkReq[q].at \in Told
             /\ chunkReq'[q].at \in Owning => chunkReq'[q].t = chunkReq[q].t
             /\ chunkReq'[q].t \in Trackers => chunkReq'[q].t = chunkReq[q].t \/ Reached(chunkReq'[q].t)
             /\ chunkReq'[q].at = "wait" /\ ~chunkReq'[q].woken => tracker[chunkReq'[q].t].done = "open"
             /\ chunkReq'[q].at \in Decided => chunkReq'[q].out \in {Reset, Drop} \cup (1 .. published'[chunkReq'[q].u])
             /\ chunkReq'[q].at \in Told \ {"settle"} => chunkReq'[q].out \notin {Reset, Drop}
             /\ chunkReq'[q].at = "id" => chunkReq'[q].out \in 1 .. published'[chunkReq'[q].u]
    PROVE  CInv'
<1>0. ChunkTypes /\ Entered /\ Chunk!StagingBounded /\ \A r \in Reqs : Held(r)
  BY CInvParts
<1>1. ChunkTypes'
  <2>1. \A t \in Trackers : /\ Shaped(tracker[t]) /\ tracker[t].done \in {"nil", "open", "closed"}
                            /\ tracker[t].result \in Chunk!Outcome /\ (tracker[t].finalizing => tracker[t].done # "nil")
    BY <1>0 DEF ChunkTypes
  <2>2. \A t \in Trackers : /\ Shaped(tracker'[t]) /\ tracker'[t].done \in {"nil", "open", "closed"}
                            /\ tracker'[t].result \in Chunk!Outcome /\ (tracker'[t].finalizing => tracker'[t].done # "nil")
    BY <2>1 DEF SameTrackers
  <2>3. tracker' = [t \in Trackers |-> tracker'[t]] /\ uploads' \in [Nodes -> [Uploads -> Trackers \cup {Nothing}]] /\ published' \in [Uploads -> 0 .. MaxPublished] /\ chunkReq' \in [Reqs -> ChunkRequest]
    BY DEF SameTrackers, Shrinks, Grows, Steady
  <2> QED
    BY <2>2, <2>3 DEF ChunkTypes, Shaped
<1>2. \A r \in Reqs : Held(r)'
  BY <1>0, SameKindred, HeldStays DEF Steady
<1>3. Entered' /\ Chunk!StagingBounded'
  BY <1>0, SameKindred, EnteredStays, StagingStays
<1>4. Owners' /\ Opened'
  BY OwnersStay
<1>5. Results' /\ Chunk!AnswerTrue'
  <2>1. \A t \in Trackers : tracker'[t].result = tracker[t].result
    BY DEF SameTrackers
  <2>2. Reported
    BY <2>1 DEF Reported
  <2> QED
    BY <2>2, SameKindred, ResultsStay
<1> QED
  BY <1>1, <1>2, <1>3, <1>4, <1>5 DEF CInv

-----------------------------------------------------------------------------
(* Uploads in byte ranges: one request moves *)

\* One request is written.
LEMMA PutSteady ==
    ASSUME chunkReq \in [Reqs -> ChunkRequest], NEW q \in Reqs, NEW x \in ChunkRequest, chunkReq' = [chunkReq EXCEPT ![q] = x]
    PROVE  Steady(q) /\ chunkReq'[q] = x
  BY DEF Steady, AsBefore

\* A request that ended is a request again.
LEMMA DoneChunk == Chunk!Done \in ChunkRequest /\ Chunk!Done.at = "done" /\ Chunk!Done.t = Nothing /\ Chunk!Done.late = FALSE
  BY DEF Chunk!Done, ChunkRequest, Chunk!Stages, Chunk!Outcome

\* Going on to a stage changes nothing else of the request.
LEMMA GotoSteady ==
    ASSUME chunkReq \in [Reqs -> ChunkRequest], NEW q \in Reqs, NEW at \in Chunk!Stages, Chunk!Goto(q, at)
    PROVE  /\ Steady(q) /\ chunkReq'[q].at = at /\ chunkReq'[q].n = chunkReq[q].n /\ chunkReq'[q].u = chunkReq[q].u /\ chunkReq'[q].t = chunkReq[q].t /\ chunkReq'[q].out = chunkReq[q].out
           /\ chunkReq'[q].late = chunkReq[q].late /\ chunkReq'[q].lapsed = chunkReq[q].lapsed /\ chunkReq'[q].woken = chunkReq[q].woken
<1> DEFINE x == [chunkReq[q] EXCEPT !.at = at]
<1>1. /\ x \in ChunkRequest /\ x.at = at /\ x.n = chunkReq[q].n /\ x.u = chunkReq[q].u /\ x.t = chunkReq[q].t /\ x.out = chunkReq[q].out
      /\ x.late = chunkReq[q].late /\ x.lapsed = chunkReq[q].lapsed /\ x.woken = chunkReq[q].woken
  BY DEF ChunkRequest
<1>2. chunkReq' = [chunkReq EXCEPT ![q] = x]
  BY DEF Chunk!Goto
<1> HIDE DEF x
<1> QED
  BY <1>1, <1>2, PutSteady

\* A failure sets the outcome and the stage.
LEMMA FailSteady ==
    ASSUME chunkReq \in [Reqs -> ChunkRequest], NEW q \in Reqs, NEW at \in Chunk!Stages, NEW how \in Chunk!Outcome, Chunk!Fail(q, at, how)
    PROVE  /\ Steady(q) /\ chunkReq'[q].at = at /\ chunkReq'[q].n = chunkReq[q].n /\ chunkReq'[q].u = chunkReq[q].u /\ chunkReq'[q].t = chunkReq[q].t /\ chunkReq'[q].out = how
           /\ chunkReq'[q].late = chunkReq[q].late /\ chunkReq'[q].lapsed = chunkReq[q].lapsed /\ chunkReq'[q].woken = chunkReq[q].woken
<1> DEFINE x == [chunkReq[q] EXCEPT !.at = at, !.out = how]
<1>1. /\ x \in ChunkRequest /\ x.at = at /\ x.n = chunkReq[q].n /\ x.u = chunkReq[q].u /\ x.t = chunkReq[q].t /\ x.out = how
      /\ x.late = chunkReq[q].late /\ x.lapsed = chunkReq[q].lapsed /\ x.woken = chunkReq[q].woken
  BY DEF ChunkRequest
<1>2. chunkReq' = [chunkReq EXCEPT ![q] = x]
  BY DEF Chunk!Fail
<1> HIDE DEF x
<1> QED
  BY <1>1, <1>2, PutSteady

\* A request that ends keeps the upload, its answer and whether it came late.
Ended(a, u, f, l) == [Chunk!Done EXCEPT !.at = a, !.u = u, !.out = f, !.late = l]

\* Its fields.
LEMMA EndedFields ==
    ASSUME NEW a \in Chunk!Stages, NEW u \in Uploads \cup {Nothing}, NEW f \in Chunk!Outcome, NEW l \in BOOLEAN
    PROVE  /\ Ended(a, u, f, l) \in ChunkRequest /\ Ended(a, u, f, l).at = a /\ Ended(a, u, f, l).u = u /\ Ended(a, u, f, l).out = f
           /\ Ended(a, u, f, l).t = Nothing /\ Ended(a, u, f, l).late = l
  BY DoneChunk DEF ChunkRequest, Chunk!Done, Ended

\* A request that ends moves alone, and gives its tracker up.
LEMMA EndSteady ==
    ASSUME chunkReq \in [Reqs -> ChunkRequest], NEW q \in Reqs, NEW at \in Chunk!Stages, Chunk!End(q, at)
    PROVE  /\ Steady(q) /\ chunkReq'[q].at = at /\ chunkReq'[q].u = chunkReq[q].u /\ chunkReq'[q].t = Nothing /\ chunkReq'[q].out = chunkReq[q].out
           /\ chunkReq'[q].late = chunkReq[q].late
<1> DEFINE x == Ended(at, chunkReq[q].u, chunkReq[q].out, chunkReq[q].late)
<1>0. chunkReq[q].u \in Uploads \cup {Nothing} /\ chunkReq[q].out \in Chunk!Outcome /\ chunkReq[q].late \in BOOLEAN
  <2>1. chunkReq[q] \in ChunkRequest
    OBVIOUS
  <2> QED
    BY <2>1, ChunkFields
<1>1. /\ x \in ChunkRequest /\ x.at = at /\ x.u = chunkReq[q].u /\ x.t = Nothing /\ x.out = chunkReq[q].out /\ x.late = chunkReq[q].late
  BY <1>0, EndedFields
<1>2. chunkReq' = [chunkReq EXCEPT ![q] = x]
  BY DEF Chunk!End, Ended
<1> HIDE DEF x
<1> QED
  BY <1>1, <1>2, PutSteady

-----------------------------------------------------------------------------
(* Uploads in byte ranges: steps that tell nothing *)

\* A step of one request, or of none, that touches neither outcomes nor locks nor publications.
LEMMA QuietKeeps ==
    ASSUME Chunk!ChunkUploadAssumption, CInv, NEW q, Steady(q), SameTrackers, Shrinks, UNCHANGED <<outcomes, cleaned, permit, lease, published>>,
           q \in Reqs =>
             /\ Held(q)'
             /\ chunkReq'[q].at \in Chunk!Winning <=> chunkReq[q].at \in Chunk!Winning
             /\ chunkReq'[q].at \in Told => chunkReq[q].at \in Told
             /\ chunkReq'[q].at # "cleanup"
             /\ chunkReq'[q].at \in Owning => chunkReq'[q].t = chunkReq[q].t
             /\ chunkReq'[q].t \in Trackers => chunkReq'[q].t = chunkReq[q].t \/ Reached(chunkReq'[q].t)
             /\ chunkReq'[q].at = "wait" /\ ~chunkReq'[q].woken => tracker[chunkReq'[q].t].done = "open"
             /\ chunkReq'[q].at \in Decided => chunkReq'[q].out \in {Reset, Drop} \cup (1 .. published[chunkReq'[q].u])
             /\ chunkReq'[q].at \in Told \ {"settle"} => chunkReq'[q].out \notin {Reset, Drop}
             /\ chunkReq'[q].at = "id" => chunkReq'[q].out \in 1 .. published[chunkReq'[q].u]
             /\ chunkReq'[q].at \in Permitted <=> chunkReq[q].at \in Permitted
             /\ chunkReq'[q].at \in Chunk!Leased => chunkReq[q].at \in Chunk!Leased
             /\ chunkReq[q].at \in Permitted => chunkReq'[q].n = chunkReq[q].n
             /\ chunkReq[q].lapsed /\ chunkReq'[q].at \in Chunk!Leased => chunkReq'[q].lapsed
             /\ "expire" \notin Faults /\ chunkReq'[q].late => chunkReq'[q].at \in {"id", "done"} \/ (chunkReq[q].late /\ chunkReq[q].at \notin {"id", "done"})
    PROVE  CInv'
<1>0. ChunkTypes
  BY CInvParts
<1>1. Grows
  BY <1>0, Unmoved
<1>2. Leases' /\ Chunk!PermitReturned'
  BY LocksStay
<1>3. Lates'
  BY LatesStay
<1>4. /\ outcomes' \in [Nodes -> [Uploads -> (1 .. MaxPublished) \cup {Nothing}]]
      /\ \A n \in Nodes, u \in Uploads : outcomes'[n][u] \in {outcomes[n][u], Nothing} \/ outcomes'[n][u] <= published'[u]
      /\ cleaned' \in [Nodes -> SUBSET Uploads] /\ permit' \in [Nodes -> Reqs \cup {Nothing}]
  BY <1>0 DEF ChunkTypes
<1> QED
  BY <1>1, <1>2, <1>3, <1>4, StepKeeps

\* A request that ends without a file.
LEMMA RefusedKeeps ==
    ASSUME Chunk!ChunkUploadAssumption, CInv, NEW q \in Reqs, NEW at \in {"ack", "error"}, Chunk!End(q, at),
           chunkReq[q].at \in {"create", "write", "claim", "wait", "count", "settle"},
           SameTrackers, Shrinks, UNCHANGED <<outcomes, cleaned, permit, lease, published>>
    PROVE  CInv'
<1>0. chunkReq \in [Reqs -> ChunkRequest] /\ Nothing \notin Trackers
  BY CInvParts, ChunkAssumed
<1>1. Steady(q) /\ chunkReq'[q].at = at /\ chunkReq'[q].t = Nothing /\ chunkReq'[q].late = chunkReq[q].late
  BY <1>0, EndSteady DEF Chunk!Stages
<1>2. Held(q)'
  BY <1>0, <1>1 DEF Held, Attached, Owning, Chunk!Winning, Told
<1> QED
  BY <1>0, <1>1, <1>2, QuietKeeps DEF Chunk!Winning, Told, Owning, Decided, Permitted, Chunk!Leased

\* A finalisation that goes on.
LEMMA WinnerKeeps ==
    ASSUME Chunk!ChunkUploadAssumption, CInv, NEW q \in Reqs, Steady(q), UNCHANGED <<uploads, outcomes, cleaned, tracker>>, Grows,
           permit' \in [Nodes -> Reqs \cup {Nothing}], Leases', Chunk!PermitReturned',
           chunkReq[q].at \in Chunk!Winning, chunkReq'[q].at \in Chunk!Winning,
           chunkReq'[q].n = chunkReq[q].n, chunkReq'[q].u = chunkReq[q].u, chunkReq'[q].t = chunkReq[q].t, chunkReq'[q].late = chunkReq[q].late,
           chunkReq'[q].at \in {"release", "unpermit", "tell"} => chunkReq'[q].out \in {Reset, Drop} \cup (1 .. published'[chunkReq[q].u])
    PROVE  CInv'
<1>0. Held(q) /\ ChunkTypes
  BY CInvParts
<1>1. Held(q)'
  BY <1>0 DEF Held, Attached, Owning, Chunk!Winning
<1>2. chunkReq'[q].at \notin Told /\ chunkReq'[q].at \notin {"wait", "id", "cleanup"} /\ chunkReq[q].at \notin {"id", "done"}
  BY DEF Chunk!Winning, Told
<1>3. chunkReq'[q].at \in Decided => chunkReq'[q].out \in {Reset, Drop} \cup (1 .. published'[chunkReq'[q].u])
  BY <1>2 DEF Decided
<1>4. SameTrackers /\ Shrinks
  BY <1>0, Unmoved
<1>5. /\ outcomes' \in [Nodes -> [Uploads -> (1 .. MaxPublished) \cup {Nothing}]]
      /\ \A n \in Nodes, u \in Uploads : outcomes'[n][u] \in {outcomes[n][u], Nothing} \/ outcomes'[n][u] <= published'[u]
      /\ cleaned' \in [Nodes -> SUBSET Uploads]
  BY <1>0 DEF ChunkTypes
<1>6. Lates'
  BY <1>2, LatesStay
<1> QED
  BY <1>1, <1>2, <1>3, <1>4, <1>5, <1>6, StepKeeps

\* One that neither takes nor gives anything back.
LEMMA WinnerGoes ==
    ASSUME Chunk!ChunkUploadAssumption, CInv, NEW q \in Reqs, Steady(q),
           UNCHANGED <<uploads, outcomes, cleaned, tracker, permit, lease, published>>,
           chunkReq[q].at \in Chunk!Winning, chunkReq'[q].at \in Chunk!Winning,
           chunkReq'[q].n = chunkReq[q].n, chunkReq'[q].u = chunkReq[q].u, chunkReq'[q].t = chunkReq[q].t, chunkReq'[q].late = chunkReq[q].late, chunkReq'[q].lapsed = chunkReq[q].lapsed,
           chunkReq'[q].at \in Permitted <=> chunkReq[q].at \in Permitted, chunkReq'[q].at \in Chunk!Leased => chunkReq[q].at \in Chunk!Leased,
           chunkReq'[q].at \in {"release", "unpermit", "tell"} => chunkReq'[q].out \in {Reset, Drop} \cup (1 .. published[chunkReq[q].u])
    PROVE  CInv'
<1>1. Leases' /\ Chunk!PermitReturned'
  BY LocksStay
<1>2. ChunkTypes /\ Grows /\ permit' \in [Nodes -> Reqs \cup {Nothing}]
  BY CInvParts, Unmoved
<1> QED
  BY <1>1, <1>2, WinnerKeeps

-----------------------------------------------------------------------------
(* Uploads in byte ranges: the operations *)

\* HandleUpload: the cached outcome answers, or the chunk goes on to its tracker.
LEMMA HandleUploadKeeps ==
    ASSUME Chunk!ChunkUploadAssumption, CInv, NEW q \in Reqs, NEW n \in Nodes, NEW u \in Uploads, NEW c \in Chunk!Chunks, Chunk!HandleUpload(q, n, u, c)
    PROVE  CInv'
<1>0. /\ chunkReq \in [Reqs -> ChunkRequest] /\ ChunkTypes /\ Results /\ Lates /\ Nothing \notin Trackers /\ outcomes[n][u] \in (1 .. MaxPublished) \cup {Nothing}
      /\ Nothing \notin 1 .. MaxPublished /\ MaxPublished \in Nat /\ published[u] \in Nat
  BY CInvParts, ChunkAssumed
<1> DEFINE k == outcomes[n][u]
           late == u \in cleaned[n]
           r == [Chunk!Done EXCEPT !.u = u, !.late = late]
           x == IF k # Nothing THEN [r EXCEPT !.at = "id", !.out = k] ELSE [r EXCEPT !.at = "create", !.n = n, !.c = c]
<1>1. /\ chunkReq[q].at = "done" /\ UNCHANGED <<uploads, outcomes, cleaned, tracker, permit, lease, published>> /\ chunkReq' = [chunkReq EXCEPT ![q] = x]
  BY DEF Chunk!HandleUpload, Chunk!LookupFinalizeOutcome, Chunk!managerVars, Chunk!lockVars
<1>2. late \in BOOLEAN
  OBVIOUS
<1> HIDE DEF late
<1>3. /\ x \in ChunkRequest /\ x.u = u /\ x.t = Nothing /\ x.late = late
      /\ k # Nothing => x.at = "id" /\ x.out = k
      /\ k = Nothing => x.at = "create" /\ x.n = n
  <2>1. CASE k # Nothing
    BY <1>0, <1>2, <2>1, DoneChunk DEF ChunkRequest, Chunk!Outcome, Chunk!Stages, Chunk!Done
  <2>2. CASE k = Nothing
    <3>1. x = [at |-> "create", n |-> n, u |-> u, c |-> c, t |-> Nothing, woken |-> FALSE, ctx |-> TRUE, lapsed |-> FALSE,
               current |-> FALSE, try |-> 0, out |-> Nothing, late |-> late]
      BY <2>2 DEF Chunk!Done
    <3>2. "create" \in Chunk!Stages /\ Nothing \in Chunk!Outcome
      BY DEF Chunk!Stages, Chunk!Outcome
    <3> HIDE DEF x
    <3> QED
      BY <1>2, <2>2, <3>1, <3>2 DEF ChunkRequest
  <2> QED
    BY <2>1, <2>2
<1> HIDE DEF r, x
<1>4. Steady(q) /\ chunkReq'[q] = x
  BY <1>0, <1>1, <1>3, PutSteady
<1>5. k # Nothing => k \in 1 .. published[u]
  BY <1>0 DEF Results
<1>6. "expire" \notin Faults /\ u \in cleaned[n] => k # Nothing
  BY <1>0 DEF Lates
<1>7. Held(q)'
  BY <1>0, <1>3, <1>4 DEF Held, Attached, Owning, Chunk!Winning, Told
<1>8. chunkReq'[q].at \in {"id", "create"} /\ chunkReq'[q].t \notin Trackers
  BY <1>0, <1>3, <1>4
<1>9. /\ chunkReq'[q].at = "id" => chunkReq'[q].out \in 1 .. published[chunkReq'[q].u]
      /\ "expire" \notin Faults /\ chunkReq'[q].late => chunkReq'[q].at \in {"id", "done"}
  BY <1>3, <1>4, <1>5, <1>6 DEF late
<1>10. SameTrackers /\ Shrinks
  BY <1>0, <1>1, Unmoved
<1> QED
  BY <1>1, <1>4, <1>7, <1>8, <1>9, <1>10, QuietKeeps DEF Chunk!Winning, Told, Owning, Decided, Permitted, Chunk!Leased

\* A waiter reads the result of its tracker, which is true, or leaves.
LEMMA AwaitKeeps ==
    ASSUME Chunk!ChunkUploadAssumption, CInv, NEW q \in Reqs, Chunk!AwaitOutcome(q)
    PROVE  CInv'
<1>0. /\ chunkReq \in [Reqs -> ChunkRequest] /\ ChunkTypes /\ Results /\ Held(q) /\ Nothing \notin Trackers /\ MaxPublished \in Nat
      /\ published \in [Uploads -> 0 .. MaxPublished]
  BY CInvParts, ChunkAssumed
<1>1. chunkReq[q].at = "wait" /\ UNCHANGED <<uploads, outcomes, cleaned, tracker, permit, lease, published>>
  BY DEF Chunk!AwaitOutcome, Chunk!managerVars, Chunk!lockVars
<1>2. SameTrackers /\ Shrinks
  BY <1>0, <1>1, Unmoved
<1>3. CASE Chunk!End(q, "error")
  BY <1>1, <1>2, <1>3, RefusedKeeps
<1>4. ASSUME Chunk!T(q).result \in 1 .. MaxPublished,
             chunkReq' = [chunkReq EXCEPT ![q] = [Chunk!Done EXCEPT !.at = "id", !.u = chunkReq[q].u, !.out = Chunk!T(q).result, !.late = chunkReq[q].late]]
      PROVE  CInv'
  <2> DEFINE x == Ended("id", chunkReq[q].u, Chunk!T(q).result, chunkReq[q].late)
  <2>1. chunkReq[q].t \in Trackers /\ chunkReq[q].u \in Uploads /\ tracker[chunkReq[q].t].u = chunkReq[q].u
    BY <1>0, <1>1 DEF Held, Attached
  <2>2. Chunk!T(q).result \in 1 .. published[chunkReq[q].u]
    BY <1>0, <1>4, <2>1 DEF Results, Chunk!T
  <2>3. chunkReq[q] \in ChunkRequest /\ Chunk!T(q).result \in Chunk!Outcome
    BY <1>0, <1>4 DEF Chunk!Outcome
  <2>4. x \in ChunkRequest /\ x.at = "id" /\ x.u = chunkReq[q].u /\ x.out = Chunk!T(q).result /\ x.t = Nothing
    <3>1. chunkReq[q].u \in Uploads \cup {Nothing} /\ chunkReq[q].late \in BOOLEAN /\ "id" \in Chunk!Stages
      BY <2>3, ChunkFields DEF Chunk!Stages
    <3> QED
      BY <2>3, <3>1, EndedFields
  <2> HIDE DEF x
  <2>5. Steady(q) /\ chunkReq'[q] = x
    BY <1>0, <1>4, <2>4, PutSteady DEF x, Ended
  <2>6. Held(q)' /\ chunkReq'[q].at = "id" /\ chunkReq'[q].t \notin Trackers /\ chunkReq'[q].out \in 1 .. published[chunkReq'[q].u]
    BY <1>0, <2>1, <2>2, <2>4, <2>5 DEF Held, Attached, Owning, Chunk!Winning, Told
  <2> QED
    BY <1>1, <1>2, <2>5, <2>6, QuietKeeps DEF Chunk!Winning, Told, Owning, Decided, Permitted, Chunk!Leased
<1> QED
  BY <1>3, <1>4 DEF Chunk!AwaitOutcome

\* A tracker of which the data, the ranges or the file change.
LEMMA Touched ==
    ASSUME ChunkTypes, NEW t \in Trackers, NEW y, tracker' = [tracker EXCEPT ![t] = y], Shaped(y), y.n = tracker[t].n, y.u = tracker[t].u,
           y.done = tracker[t].done, y.result = tracker[t].result, y.finalizing = tracker[t].finalizing
    PROVE  SameTrackers
<1>1. \A s \in Trackers : tracker'[s] = IF s = t THEN y ELSE tracker[s]
  BY DEF ChunkTypes
<1>2. tracker' = [s \in Trackers |-> tracker'[s]]
  BY DEF ChunkTypes
<1> HIDE DEF Shaped
<1>3. \A s \in Trackers : Shaped(tracker[s])
  BY DEF ChunkTypes
<1> QED
  BY <1>1, <1>2, <1>3 DEF SameTrackers

\* Closing the temporary file changes nothing else of a tracker.
LEMMA Closed ==
    ASSUME ChunkTypes, NEW t \in Trackers, tracker' = [tracker EXCEPT ![t].open = FALSE]
    PROVE  SameTrackers
<1> DEFINE y == [tracker[t] EXCEPT !.open = FALSE]
<1>1. tracker' = [tracker EXCEPT ![t] = y] /\ Shaped(tracker[t])
  BY DEF ChunkTypes
<1>2. Shaped(y) /\ y.n = tracker[t].n /\ y.u = tracker[t].u /\ y.done = tracker[t].done /\ y.result = tracker[t].result /\ y.finalizing = tracker[t].finalizing
  BY <1>1 DEF Shaped
<1> HIDE DEF y
<1> QED
  BY <1>1, <1>2, Touched

\* WriteChunkFromReader, with a write that fails and a tracker that accepts no chunk.
LEMMA WriteKeeps ==
    ASSUME Chunk!ChunkUploadAssumption, CInv, NEW q \in Reqs, Chunk!WriteChunkFromReader(q)
    PROVE  CInv'
<1>0. chunkReq \in [Reqs -> ChunkRequest] /\ ChunkTypes /\ Held(q)
  BY CInvParts
<1>1. chunkReq[q].at = "write" /\ UNCHANGED <<uploads, outcomes, cleaned, permit, lease, published>>
  BY DEF Chunk!WriteChunkFromReader, Chunk!managerVars, Chunk!lockVars
<1>2. Shrinks /\ chunkReq[q].t \in Trackers
  BY <1>0, <1>1, Unmoved DEF Held, Attached
<1> DEFINE t == chunkReq[q].t
<1>3. SameTrackers
  <2>1. ASSUME NEW d, NEW g, tracker' = [tracker EXCEPT ![t].data = d, ![t].ranges = g] PROVE SameTrackers
    <3> DEFINE y == [tracker[t] EXCEPT !.data = d, !.ranges = g]
    <3>1. tracker' = [tracker EXCEPT ![t] = y] /\ Shaped(tracker[t])
      BY <1>0, <1>2, <2>1 DEF ChunkTypes
    <3>2. Shaped(y) /\ y.n = tracker[t].n /\ y.u = tracker[t].u /\ y.done = tracker[t].done /\ y.result = tracker[t].result /\ y.finalizing = tracker[t].finalizing
      BY <3>1 DEF Shaped
    <3> HIDE DEF y
    <3> QED
      BY <1>0, <1>2, <3>1, <3>2, Touched
  <2>2. ASSUME NEW d, tracker' = [tracker EXCEPT ![t].data = d] PROVE SameTrackers
    <3> DEFINE y == [tracker[t] EXCEPT !.data = d]
    <3>1. tracker' = [tracker EXCEPT ![t] = y] /\ Shaped(tracker[t])
      BY <1>0, <1>2, <2>2 DEF ChunkTypes
    <3>2. Shaped(y) /\ y.n = tracker[t].n /\ y.u = tracker[t].u /\ y.done = tracker[t].done /\ y.result = tracker[t].result /\ y.finalizing = tracker[t].finalizing
      BY <3>1 DEF Shaped
    <3> HIDE DEF y
    <3> QED
      BY <1>0, <1>2, <3>1, <3>2, Touched
  <2>3. CASE tracker' = tracker
    BY <1>0, <2>3, Unmoved
  <2> QED
    BY <2>1, <2>2, <2>3 DEF Chunk!WriteChunkFromReader
<1>4. CASE Chunk!End(q, "error")
  BY <1>1, <1>2, <1>3, <1>4, RefusedKeeps
<1>5. CASE Chunk!Goto(q, "claim")
  <2>1. Steady(q) /\ chunkReq'[q].at = "claim" /\ chunkReq'[q].n = chunkReq[q].n /\ chunkReq'[q].u = chunkReq[q].u /\ chunkReq'[q].t = chunkReq[q].t /\ chunkReq'[q].late = chunkReq[q].late
    BY <1>0, <1>5, GotoSteady DEF Chunk!Stages
  <2>2. Held(q)'
    BY <1>0, <1>1, <1>3, <2>1 DEF Held, Attached, Owning, SameTrackers
  <2> QED
    BY <1>1, <1>2, <1>3, <2>1, <2>2, QuietKeeps DEF Chunk!Winning, Told, Owning, Decided, Permitted, Chunk!Leased
<1> QED
  BY <1>4, <1>5 DEF Chunk!WriteChunkFromReader

\* finalizeUploadStreaming: the blocks are stored, or the finalisation fails.
LEMMA StreamingKeeps ==
    ASSUME Chunk!ChunkUploadAssumption, CInv, NEW q \in Reqs, Chunk!finalizeUploadStreaming(q)
    PROVE  CInv'
<1>0. chunkReq \in [Reqs -> ChunkRequest]
  BY CInvParts
<1>1. chunkReq[q].at = "finalize" /\ UNCHANGED <<uploads, outcomes, cleaned, tracker, permit, lease, published>>
  BY DEF Chunk!finalizeUploadStreaming, Chunk!managerVars, Chunk!lockVars
<1>2. CASE Chunk!Goto(q, "permit")
  BY <1>0, <1>1, <1>2, GotoSteady, WinnerGoes DEF Chunk!Stages, Chunk!Winning, Permitted, Chunk!Leased
<1>3. ASSUME NEW how \in {Reset, Drop}, Chunk!Fail(q, "tell", how) PROVE CInv'
  <2>1. how \in Chunk!Outcome /\ "tell" \in Chunk!Stages
    BY DEF Chunk!Outcome, Chunk!Stages
  <2>2. /\ Steady(q) /\ chunkReq'[q].at = "tell" /\ chunkReq'[q].n = chunkReq[q].n /\ chunkReq'[q].u = chunkReq[q].u /\ chunkReq'[q].t = chunkReq[q].t /\ chunkReq'[q].out = how
        /\ chunkReq'[q].late = chunkReq[q].late /\ chunkReq'[q].lapsed = chunkReq[q].lapsed
    BY <1>0, <1>3, <2>1, FailSteady
  <2> QED
    BY <1>1, <2>2, WinnerGoes DEF Chunk!Winning, Permitted, Chunk!Leased
<1> QED
  BY <1>2, <1>3 DEF Chunk!finalizeUploadStreaming

\* The permit of the process is taken where nobody has it, or not in time.
LEMMA PermitKeeps ==
    ASSUME Chunk!ChunkUploadAssumption, CInv, NEW q \in Reqs, Chunk!acquireChunkedUploadLibraryFinalizePermit(q)
    PROVE  CInv'
<1>0. chunkReq \in [Reqs -> ChunkRequest] /\ ChunkTypes /\ Held(q) /\ Chunk!PermitReturned /\ Leases /\ permit \in [Nodes -> Reqs \cup {Nothing}] /\ Nothing \notin Reqs
  BY CInvParts, ChunkAssumed
<1>1. chunkReq[q].at = "permit" /\ UNCHANGED <<uploads, outcomes, cleaned, tracker, lease, published>>
  BY DEF Chunk!acquireChunkedUploadLibraryFinalizePermit, Chunk!managerVars, Chunk!lockVars
<1>2. CASE Chunk!Fail(q, "tell", Reset) /\ UNCHANGED permit
  <2>1. Reset \in Chunk!Outcome /\ "tell" \in Chunk!Stages
    BY DEF Chunk!Outcome, Chunk!Stages
  <2>2. /\ Steady(q) /\ chunkReq'[q].at = "tell" /\ chunkReq'[q].n = chunkReq[q].n /\ chunkReq'[q].u = chunkReq[q].u /\ chunkReq'[q].t = chunkReq[q].t /\ chunkReq'[q].out = Reset
        /\ chunkReq'[q].late = chunkReq[q].late /\ chunkReq'[q].lapsed = chunkReq[q].lapsed
    BY <1>0, <1>2, <2>1, FailSteady
  <2> QED
    BY <1>1, <1>2, <2>2, WinnerGoes DEF Chunk!Winning, Permitted, Chunk!Leased
<1>3. CASE permit[chunkReq[q].n] = Nothing /\ permit' = [permit EXCEPT ![chunkReq[q].n] = q] /\ Chunk!Goto(q, "lease")
  <2>1. /\ Steady(q) /\ chunkReq'[q].at = "lease" /\ chunkReq'[q].n = chunkReq[q].n /\ chunkReq'[q].u = chunkReq[q].u /\ chunkReq'[q].t = chunkReq[q].t /\ chunkReq'[q].out = chunkReq[q].out
        /\ chunkReq'[q].late = chunkReq[q].late
    BY <1>0, <1>3, GotoSteady DEF Chunk!Stages
  <2>2. chunkReq[q].n \in Nodes
    BY <1>0, <1>1 DEF Held, Attached, Owning, Chunk!Winning
  <2>3. Leases'
    BY <1>0, <1>1, <2>1 DEF Leases, Steady, AsBefore, Chunk!Leased
  <2>4. ASSUME NEW n \in Nodes, NEW r \in Reqs PROVE permit'[n] = r <=> chunkReq'[r].n = n /\ chunkReq'[r].at \in Chunk!Leased \cup {"lease", "unpermit"}
    <3>1. permit[n] = r <=> chunkReq[r].n = n /\ chunkReq[r].at \in Chunk!Leased \cup {"lease", "unpermit"}
      BY <1>0 DEF Chunk!PermitReturned
    <3>2. CASE r = q
      <4>1. permit[n] # q
        BY <1>1, <3>1, <3>2 DEF Chunk!Leased
      <4> QED
        BY <1>0, <1>3, <2>1, <2>2, <3>2, <4>1
    <3>3. CASE r # q
      <4>1. chunkReq'[r].n = chunkReq[r].n /\ chunkReq'[r].at = chunkReq[r].at
        BY <2>1, <3>3 DEF Steady, AsBefore
      <4> QED
        BY <1>0, <1>3, <2>2, <3>1, <3>3, <4>1
    <3> QED
      BY <3>2, <3>3
  <2>5. permit' \in [Nodes -> Reqs \cup {Nothing}] /\ Grows
    BY <1>0, <1>1, <1>3, Unmoved
  <2> QED
    BY <1>1, <2>1, <2>3, <2>4, <2>5, WinnerKeeps DEF Chunk!PermitReturned, Chunk!Winning
<1> QED
  BY <1>2, <1>3 DEF Chunk!acquireChunkedUploadLibraryFinalizePermit

\* The lease is taken where there is none, or not in time.
LEMMA LeaseKeeps ==
    ASSUME Chunk!ChunkUploadAssumption, CInv, NEW q \in Reqs, Chunk!acquireSeafHTTPDistributedUploadFinalizeLease(q)
    PROVE  CInv'
<1>0. chunkReq \in [Reqs -> ChunkRequest] /\ ChunkTypes /\ Chunk!PermitReturned /\ Leases /\ permit \in [Nodes -> Reqs \cup {Nothing}] /\ Nothing \notin Reqs
  BY CInvParts, ChunkAssumed
<1>1. chunkReq[q].at = "lease" /\ UNCHANGED <<uploads, outcomes, cleaned, tracker, permit, published>>
  BY DEF Chunk!acquireSeafHTTPDistributedUploadFinalizeLease, Chunk!managerVars
<1>2. CASE Chunk!Fail(q, "unpermit", Reset) /\ UNCHANGED lease
  <2>1. Reset \in Chunk!Outcome /\ "unpermit" \in Chunk!Stages
    BY DEF Chunk!Outcome, Chunk!Stages
  <2>2. /\ Steady(q) /\ chunkReq'[q].at = "unpermit" /\ chunkReq'[q].n = chunkReq[q].n /\ chunkReq'[q].u = chunkReq[q].u /\ chunkReq'[q].t = chunkReq[q].t /\ chunkReq'[q].out = Reset
        /\ chunkReq'[q].late = chunkReq[q].late /\ chunkReq'[q].lapsed = chunkReq[q].lapsed
    BY <1>0, <1>2, <2>1, FailSteady
  <2> QED
    BY <1>1, <1>2, <2>2, WinnerGoes DEF Chunk!Winning, Permitted, Chunk!Leased
<1>3. CASE lease = Nothing /\ lease' = q /\ Chunk!Goto(q, "commit")
  <2>1. /\ Steady(q) /\ chunkReq'[q].at = "commit" /\ chunkReq'[q].n = chunkReq[q].n /\ chunkReq'[q].u = chunkReq[q].u /\ chunkReq'[q].t = chunkReq[q].t /\ chunkReq'[q].out = chunkReq[q].out
        /\ chunkReq'[q].late = chunkReq[q].late
    BY <1>0, <1>3, GotoSteady DEF Chunk!Stages
  <2>2. Leases'
    BY <1>0, <1>3, <2>1 DEF Leases, Steady, AsBefore
  <2>3. Chunk!PermitReturned'
    BY <1>0, <1>1, <2>1 DEF Chunk!PermitReturned, Steady, AsBefore, Chunk!Leased
  <2>4. permit' \in [Nodes -> Reqs \cup {Nothing}] /\ Grows
    BY <1>0, <1>1, Unmoved
  <2> QED
    BY <1>1, <2>1, <2>2, <2>3, <2>4, WinnerKeeps DEF Chunk!Winning
<1> QED
  BY <1>2, <1>3 DEF Chunk!acquireSeafHTTPDistributedUploadFinalizeLease

\* The renewer cancels the context.
LEMMA RenewKeeps ==
    ASSUME Chunk!ChunkUploadAssumption, CInv, NEW q \in Reqs, Chunk!renewSeafHTTPUploadFinalizeLease(q)
    PROVE  CInv'
<1>0. chunkReq \in [Reqs -> ChunkRequest]
  BY CInvParts
<1>1. chunkReq[q].at \in Chunk!Leased /\ UNCHANGED <<uploads, outcomes, cleaned, tracker, permit, lease, published>> /\ chunkReq' = [chunkReq EXCEPT ![q].ctx = FALSE]
  BY DEF Chunk!renewSeafHTTPUploadFinalizeLease, Chunk!managerVars, Chunk!lockVars
<1> DEFINE x == [chunkReq[q] EXCEPT !.ctx = FALSE]
<1>2. /\ x \in ChunkRequest /\ x.at = chunkReq[q].at /\ x.n = chunkReq[q].n /\ x.u = chunkReq[q].u /\ x.t = chunkReq[q].t /\ x.out = chunkReq[q].out
      /\ x.late = chunkReq[q].late /\ x.lapsed = chunkReq[q].lapsed
  BY <1>0 DEF ChunkRequest
<1>3. chunkReq' = [chunkReq EXCEPT ![q] = x]
  BY <1>1
<1> HIDE DEF x
<1>4. Steady(q) /\ chunkReq'[q] = x
  BY <1>0, <1>2, <1>3, PutSteady
<1>5. chunkReq[q].at \in Chunk!Winning /\ (chunkReq[q].at \in {"release", "unpermit", "tell"} => chunkReq[q].out \in {Reset, Drop} \cup (1 .. published[chunkReq[q].u]))
  BY <1>1, CInvParts DEF Results, Decided, Chunk!Winning, Chunk!Leased
<1> QED
  BY <1>1, <1>2, <1>4, <1>5, WinnerGoes

\* An attempt to publish begins, or the finalisation fails.
LEMMA CommitKeeps ==
    ASSUME Chunk!ChunkUploadAssumption, CInv, NEW q \in Reqs, Chunk!commitUploadedFileMultiBlock(q)
    PROVE  CInv'
<1>0. chunkReq \in [Reqs -> ChunkRequest]
  BY CInvParts
<1>1. chunkReq[q].at = "commit" /\ UNCHANGED <<uploads, outcomes, cleaned, tracker, permit, lease, published>>
  BY DEF Chunk!commitUploadedFileMultiBlock, Chunk!managerVars, Chunk!lockVars
<1>2. ASSUME NEW how \in {Reset, Drop}, Chunk!Fail(q, "release", how) PROVE CInv'
  <2>1. how \in Chunk!Outcome /\ "release" \in Chunk!Stages
    BY DEF Chunk!Outcome, Chunk!Stages
  <2>2. /\ Steady(q) /\ chunkReq'[q].at = "release" /\ chunkReq'[q].n = chunkReq[q].n /\ chunkReq'[q].u = chunkReq[q].u /\ chunkReq'[q].t = chunkReq[q].t /\ chunkReq'[q].out = how
        /\ chunkReq'[q].late = chunkReq[q].late /\ chunkReq'[q].lapsed = chunkReq[q].lapsed
    BY <1>0, <1>2, <2>1, FailSteady
  <2> QED
    BY <1>1, <2>2, WinnerGoes DEF Chunk!Winning, Permitted, Chunk!Leased
<1>3. CASE chunkReq' = [chunkReq EXCEPT ![q].at = "publish", ![q].current = TRUE, ![q].try = @ + 1]
  <2> DEFINE x == [chunkReq[q] EXCEPT !.at = "publish", !.current = TRUE, !.try = @ + 1]
  <2>1. /\ x \in ChunkRequest /\ x.at = "publish" /\ x.n = chunkReq[q].n /\ x.u = chunkReq[q].u /\ x.t = chunkReq[q].t
        /\ x.late = chunkReq[q].late /\ x.lapsed = chunkReq[q].lapsed
    <3>1. chunkReq[q] \in ChunkRequest /\ "publish" \in Chunk!Stages
      BY <1>0 DEF Chunk!Stages
    <3>2. chunkReq[q].try + 1 \in Nat
      BY <3>1, ChunkFields
    <3> QED
      BY <3>1, <3>2 DEF ChunkRequest
  <2>2. chunkReq' = [chunkReq EXCEPT ![q] = x]
    BY <1>0, <1>3
  <2> HIDE DEF x
  <2>3. Steady(q) /\ chunkReq'[q] = x
    BY <1>0, <2>1, <2>2, PutSteady
  <2> QED
    BY <1>1, <2>1, <2>3, WinnerGoes DEF Chunk!Winning, Permitted, Chunk!Leased
<1> QED
  BY <1>2, <1>3 DEF Chunk!commitUploadedFileMultiBlock

\* An old snapshot changes nothing else of a request.
LEMMA AgedFields ==
    ASSUME NEW x \in ChunkRequest
    PROVE  LET y == [x EXCEPT !.current = FALSE]
           IN  /\ y \in ChunkRequest /\ y.at = x.at /\ y.n = x.n /\ y.u = x.u /\ y.t = x.t /\ y.out = x.out
               /\ y.late = x.late /\ y.woken = x.woken /\ y.lapsed = x.lapsed
  BY DEF ChunkRequest

\* HEAD moves, or the snapshots of all are old: nobody else changes but for that.
LEMMA HeadMovesSteady ==
    ASSUME chunkReq \in [Reqs -> ChunkRequest], NEW q, NEW x \in ChunkRequest, chunkReq' = [other \in Reqs |-> IF other = q THEN x ELSE [chunkReq[other] EXCEPT !.current = FALSE]]
    PROVE  Steady(q) /\ (q \in Reqs => chunkReq'[q] = x)
<1>1. ASSUME NEW r \in Reqs
      PROVE  LET y == [chunkReq[r] EXCEPT !.current = FALSE]
             IN  /\ y \in ChunkRequest /\ y.at = chunkReq[r].at /\ y.n = chunkReq[r].n /\ y.u = chunkReq[r].u /\ y.t = chunkReq[r].t /\ y.out = chunkReq[r].out
                 /\ y.late = chunkReq[r].late /\ y.woken = chunkReq[r].woken /\ y.lapsed = chunkReq[r].lapsed
  <2>1. chunkReq[r] \in ChunkRequest
    OBVIOUS
  <2> QED
    BY <2>1, AgedFields
<1>2. chunkReq' \in [Reqs -> ChunkRequest]
  BY <1>1
<1>3. \A r \in Reqs \ {q} : chunkReq'[r] = [chunkReq[r] EXCEPT !.current = FALSE]
  OBVIOUS
<1>4. \A r \in Reqs \ {q} : AsBefore(r)
  BY <1>1, <1>3 DEF AsBefore
<1> QED
  BY <1>2, <1>4 DEF Steady

\* Another writer moves HEAD.
LEMMA OtherWriterKeeps ==
    ASSUME Chunk!ChunkUploadAssumption, CInv, Chunk!OtherWriter
    PROVE  CInv'
<1>0. chunkReq \in [Reqs -> ChunkRequest] /\ ChunkTypes /\ Nothing \notin Reqs
  BY CInvParts, ChunkAssumed
<1>1. UNCHANGED <<uploads, outcomes, cleaned, tracker, permit, lease, published>> /\ chunkReq' = [other \in Reqs |-> [chunkReq[other] EXCEPT !.current = FALSE]]
  BY DEF Chunk!OtherWriter, Chunk!managerVars, Chunk!lockVars
<1>2. chunkReq' = [other \in Reqs |-> IF other = Nothing THEN Chunk!Done ELSE [chunkReq[other] EXCEPT !.current = FALSE]]
  BY <1>0, <1>1
<1>3. Steady(Nothing)
  BY <1>0, <1>2, DoneChunk, HeadMovesSteady
<1>4. SameTrackers /\ Shrinks
  BY <1>0, <1>1, Unmoved
<1> QED
  BY <1>0, <1>1, <1>3, <1>4, QuietKeeps

\* HEAD is set, or not, or with an answer that is lost: the file a success names is the one published.
LEMMA UpdateHeadKeeps ==
    ASSUME Chunk!ChunkUploadAssumption, CInv, NEW q \in Reqs, Chunk!UpdateLibraryHeadFromSnapshot(q)
    PROVE  CInv'
<1>0. /\ chunkReq \in [Reqs -> ChunkRequest] /\ ChunkTypes /\ Held(q) /\ published \in [Uploads -> 0 .. MaxPublished] /\ MaxPublished \in Nat
      /\ permit \in [Nodes -> Reqs \cup {Nothing}]
  BY CInvParts, ChunkAssumed
<1>1. chunkReq[q].at = "publish" /\ UNCHANGED <<uploads, outcomes, cleaned, tracker, permit, lease>>
  BY DEF Chunk!UpdateLibraryHeadFromSnapshot, Chunk!managerVars, Chunk!lockVars
<1>2. ASSUME NEW how \in {Reset, Drop}, Chunk!Fail(q, "release", how), UNCHANGED published PROVE CInv'
  <2>1. how \in Chunk!Outcome /\ "release" \in Chunk!Stages
    BY DEF Chunk!Outcome, Chunk!Stages
  <2>2. /\ Steady(q) /\ chunkReq'[q].at = "release" /\ chunkReq'[q].n = chunkReq[q].n /\ chunkReq'[q].u = chunkReq[q].u /\ chunkReq'[q].t = chunkReq[q].t /\ chunkReq'[q].out = how
        /\ chunkReq'[q].late = chunkReq[q].late /\ chunkReq'[q].lapsed = chunkReq[q].lapsed
    BY <1>0, <1>2, <2>1, FailSteady
  <2> QED
    BY <1>1, <1>2, <2>2, WinnerGoes DEF Chunk!Winning, Permitted, Chunk!Leased
<1>3. CASE Chunk!Goto(q, "commit") /\ UNCHANGED published
  BY <1>0, <1>1, <1>3, GotoSteady, WinnerGoes DEF Chunk!Stages, Chunk!Winning, Permitted, Chunk!Leased
<1> DEFINE u == chunkReq[q].u
           k == published[u] + 1
<1>4. ASSUME NEW out \in {k, Reset}, k <= MaxPublished, published' = [published EXCEPT ![u] = k],
             chunkReq' = Chunk!HeadMoves(q, [chunkReq[q] EXCEPT !.at = "release", !.current = FALSE, !.out = out])
      PROVE  CInv'
  <2>1. u \in Uploads
    BY <1>0, <1>1 DEF Held, Attached, Owning, Chunk!Winning
  <2>2. k \in 1 .. MaxPublished /\ published[u] \in Nat
    BY <1>0, <1>4, <2>1
  <2>3. published' \in [Uploads -> 0 .. MaxPublished] /\ published'[u] = k /\ \A v \in Uploads \ {u} : published'[v] = published[v]
    BY <1>0, <1>4, <2>1, <2>2
  <2>4. Grows
    BY <1>0, <2>2, <2>3 DEF Grows
  <2> DEFINE x == [chunkReq[q] EXCEPT !.at = "release", !.current = FALSE, !.out = out]
  <2>5. out \in Chunk!Outcome /\ "release" \in Chunk!Stages /\ chunkReq[q] \in ChunkRequest
    BY <1>0, <2>2 DEF Chunk!Outcome, Chunk!Stages
  <2> HIDE DEF k, u
  <2>6. /\ x \in ChunkRequest /\ x.at = "release" /\ x.n = chunkReq[q].n /\ x.u = chunkReq[q].u /\ x.t = chunkReq[q].t /\ x.out = out /\ x.late = chunkReq[q].late /\ x.lapsed = chunkReq[q].lapsed
    BY <2>5 DEF ChunkRequest
  <2>7. chunkReq' = [other \in Reqs |-> IF other = q THEN x ELSE [chunkReq[other] EXCEPT !.current = FALSE]]
    BY <1>4 DEF Chunk!HeadMoves
  <2> HIDE DEF x
  <2>8. Steady(q) /\ chunkReq'[q] = x
    BY <1>0, <2>6, <2>7, HeadMovesSteady
  <2>9. Leases' /\ Chunk!PermitReturned'
    BY <1>1, <2>6, <2>8, LocksStay DEF Permitted, Chunk!Leased
  <2>10. chunkReq'[q].out \in {Reset, Drop} \cup (1 .. published'[chunkReq[q].u])
    BY <2>2, <2>3, <2>6, <2>8 DEF u
  <2> QED
    BY <1>0, <1>1, <2>4, <2>6, <2>8, <2>9, <2>10, WinnerKeeps DEF Chunk!Winning
<1> QED
  BY <1>2, <1>3, <1>4 DEF Chunk!UpdateLibraryHeadFromSnapshot, Chunk!HeadError

\* The lease expires: its holder, if there is one, is lapsed from then on.
LEMMA LeaseExpiresKeeps ==
    ASSUME Chunk!ChunkUploadAssumption, CInv, Chunk!LeaseExpires
    PROVE  CInv'
<1>0. chunkReq \in [Reqs -> ChunkRequest] /\ ChunkTypes /\ Leases /\ Chunk!PermitReturned /\ Nothing \notin Reqs /\ permit \in [Nodes -> Reqs \cup {Nothing}]
  BY CInvParts, ChunkAssumed
<1>1. /\ lease' = Nothing /\ UNCHANGED <<uploads, outcomes, cleaned, tracker, permit, published>>
      /\ chunkReq' = [q \in Reqs |-> IF q = lease THEN [chunkReq[q] EXCEPT !.lapsed = TRUE] ELSE chunkReq[q]]
  BY DEF Chunk!LeaseExpires, Chunk!managerVars
<1>2. ASSUME NEW r \in Reqs
      PROVE  LET y == [chunkReq[r] EXCEPT !.lapsed = TRUE]
             IN  /\ y \in ChunkRequest /\ y.at = chunkReq[r].at /\ y.n = chunkReq[r].n /\ y.u = chunkReq[r].u /\ y.t = chunkReq[r].t /\ y.out = chunkReq[r].out
                 /\ y.late = chunkReq[r].late /\ y.woken = chunkReq[r].woken /\ y.lapsed = TRUE
  <2>1. chunkReq[r] \in ChunkRequest
    BY <1>0
  <2> QED
    BY <2>1 DEF ChunkRequest
<1>3. \A r \in Reqs : AsBefore(r) /\ (r = lease => chunkReq'[r].lapsed) /\ chunkReq'[r] \in ChunkRequest
  BY <1>0, <1>1, <1>2 DEF AsBefore
<1>4. Steady(Nothing)
  BY <1>1, <1>3 DEF Steady
<1>5. Leases'
  BY <1>0, <1>3 DEF Leases, AsBefore
<1>6. Chunk!PermitReturned'
  BY <1>0, <1>1, <1>3 DEF Chunk!PermitReturned, AsBefore
<1>7. Lates'
  BY <1>0, <1>1, <1>4, LatesStay
<1>8. SameTrackers /\ Shrinks /\ Grows
  BY <1>0, <1>1, Unmoved
<1>9. /\ outcomes' \in [Nodes -> [Uploads -> (1 .. MaxPublished) \cup {Nothing}]]
      /\ \A n \in Nodes, u \in Uploads : outcomes'[n][u] \in {outcomes[n][u], Nothing} \/ outcomes'[n][u] <= published'[u]
      /\ cleaned' \in [Nodes -> SUBSET Uploads] /\ permit' \in [Nodes -> Reqs \cup {Nothing}]
  BY <1>0, <1>1 DEF ChunkTypes
<1> QED
  BY <1>0, <1>4, <1>5, <1>6, <1>7, <1>8, <1>9, StepKeeps

\* The lease is deleted if it is one's own, so nobody else loses it.
LEMMA ReleaseLeaseKeeps ==
    ASSUME Chunk!ChunkUploadAssumption, CInv, NEW q \in Reqs, Chunk!releaseSeafHTTPUploadFinalizeLease(q)
    PROVE  CInv'
<1>0. chunkReq \in [Reqs -> ChunkRequest] /\ ChunkTypes /\ Leases /\ Chunk!PermitReturned /\ Results /\ permit \in [Nodes -> Reqs \cup {Nothing}]
  BY CInvParts
<1>1. /\ chunkReq[q].at = "release" /\ Chunk!Goto(q, "unpermit") /\ UNCHANGED <<uploads, outcomes, cleaned, tracker, permit, published>>
      /\ lease # q => lease' = lease
  BY DEF Chunk!releaseSeafHTTPUploadFinalizeLease, Chunk!managerVars, Chunk!releasedLease
<1>2. /\ Steady(q) /\ chunkReq'[q].at = "unpermit" /\ chunkReq'[q].n = chunkReq[q].n /\ chunkReq'[q].u = chunkReq[q].u /\ chunkReq'[q].t = chunkReq[q].t /\ chunkReq'[q].out = chunkReq[q].out
      /\ chunkReq'[q].late = chunkReq[q].late
  BY <1>0, <1>1, GotoSteady DEF Chunk!Stages
<1>3. Leases'
  <2> SUFFICES ASSUME NEW r \in Reqs, chunkReq'[r].at \in Chunk!Leased, ~chunkReq'[r].lapsed PROVE lease' = r
    BY DEF Leases
  <2>1. r # q
    BY <1>2 DEF Chunk!Leased
  <2>2. chunkReq[r].at \in Chunk!Leased /\ ~chunkReq[r].lapsed
    BY <1>2, <2>1 DEF Steady, AsBefore
  <2> QED
    BY <1>0, <1>1, <2>1, <2>2 DEF Leases
<1>4. Chunk!PermitReturned'
  BY <1>0, <1>1, <1>2 DEF Chunk!PermitReturned, Steady, AsBefore, Chunk!Leased
<1>5. chunkReq'[q].out \in {Reset, Drop} \cup (1 .. published'[chunkReq[q].u])
  BY <1>0, <1>1, <1>2 DEF Results, Decided
<1>6. permit' \in [Nodes -> Reqs \cup {Nothing}] /\ Grows
  BY <1>0, <1>1, Unmoved
<1> QED
  BY <1>1, <1>2, <1>3, <1>4, <1>5, <1>6, WinnerKeeps DEF Chunk!Winning

\* The permit is given back on every way out.
LEMMA ReleasePermitKeeps ==
    ASSUME Chunk!ChunkUploadAssumption, CInv, NEW q \in Reqs, Chunk!releaseLocalPermit(q)
    PROVE  CInv'
<1>0. /\ chunkReq \in [Reqs -> ChunkRequest] /\ ChunkTypes /\ Leases /\ Chunk!PermitReturned /\ Results /\ permit \in [Nodes -> Reqs \cup {Nothing}]
      /\ Held(q) /\ Nothing \notin Reqs
  BY CInvParts, ChunkAssumed
<1>1. /\ chunkReq[q].at = "unpermit" /\ Chunk!Goto(q, "tell") /\ UNCHANGED <<uploads, outcomes, cleaned, tracker, lease, published>>
      /\ permit' = [permit EXCEPT ![chunkReq[q].n] = Nothing]
  BY DEF Chunk!releaseLocalPermit, Chunk!managerVars, Chunk!releasedPermit
<1>2. /\ Steady(q) /\ chunkReq'[q].at = "tell" /\ chunkReq'[q].n = chunkReq[q].n /\ chunkReq'[q].u = chunkReq[q].u /\ chunkReq'[q].t = chunkReq[q].t /\ chunkReq'[q].out = chunkReq[q].out
      /\ chunkReq'[q].late = chunkReq[q].late
  BY <1>0, <1>1, GotoSteady DEF Chunk!Stages
<1>3. Leases'
  BY <1>0, <1>1, <1>2 DEF Leases, Steady, AsBefore, Chunk!Leased
<1>4. chunkReq[q].n \in Nodes /\ permit[chunkReq[q].n] = q
  BY <1>0, <1>1 DEF Held, Attached, Owning, Chunk!Winning, Chunk!PermitReturned
<1>5. ASSUME NEW n \in Nodes, NEW r \in Reqs PROVE permit'[n] = r <=> chunkReq'[r].n = n /\ chunkReq'[r].at \in Chunk!Leased \cup {"lease", "unpermit"}
  <2>1. permit[n] = r <=> chunkReq[r].n = n /\ chunkReq[r].at \in Chunk!Leased \cup {"lease", "unpermit"}
    BY <1>0 DEF Chunk!PermitReturned
  <2>2. CASE r = q
    <3>1. permit'[n] # q
      BY <1>0, <1>1, <1>4, <2>1, <2>2
    <3> QED
      BY <1>2, <2>2, <3>1 DEF Chunk!Leased
  <2>3. CASE r # q
    <3>1. chunkReq'[r].n = chunkReq[r].n /\ chunkReq'[r].at = chunkReq[r].at
      BY <1>2, <2>3 DEF Steady, AsBefore
    <3> QED
      BY <1>0, <1>1, <1>4, <2>1, <2>3, <3>1
  <2> QED
    BY <2>2, <2>3
<1>6. chunkReq'[q].out \in {Reset, Drop} \cup (1 .. published'[chunkReq[q].u])
  BY <1>0, <1>1, <1>2 DEF Results, Decided
<1>7. permit' \in [Nodes -> Reqs \cup {Nothing}] /\ Grows
  BY <1>0, <1>1, Unmoved
<1> QED
  BY <1>1, <1>2, <1>3, <1>5, <1>6, <1>7, WinnerKeeps DEF Chunk!Winning, Chunk!PermitReturned

\* cleanupUploadByKey takes a tracker off the map and closes its file.
LEMMA DroppedKey ==
    ASSUME Chunk!ChunkUploadAssumption, ChunkTypes, NEW n \in Nodes, NEW u \in Uploads, Chunk!cleanupUploadByKey(n, u)
    PROVE  Shrinks /\ SameTrackers
<1>0. uploads \in [Nodes -> [Uploads -> Trackers \cup {Nothing}]]
  BY DEF ChunkTypes
<1>1. Shrinks
  <2>1. uploads' = [uploads EXCEPT ![n] = [uploads[n] EXCEPT ![u] = Nothing]]
    BY DEF Chunk!cleanupUploadByKey
  <2>2. [uploads[n] EXCEPT ![u] = Nothing] \in [Uploads -> Trackers \cup {Nothing}]
    BY <1>0
  <2> QED
    BY <1>0, <2>1, <2>2 DEF Shrinks
<1>2. CASE uploads[n][u] = Nothing
  BY <1>1, <1>2, Unmoved DEF Chunk!cleanupUploadByKey
<1>3. CASE uploads[n][u] # Nothing
  <2> DEFINE t == uploads[n][u]
  <2>1. t \in Trackers
    BY <1>0, <1>3
  <2>2. tracker' = [tracker EXCEPT ![t].open = FALSE]
    BY <1>3 DEF Chunk!cleanupUploadByKey
  <2> HIDE DEF t
  <2> QED
    BY <1>1, <2>1, <2>2, Closed
<1> QED
  BY <1>2, <1>3

\* The outcome is cached: it names the file that was published.
LEMMA CacheKeeps ==
    ASSUME Chunk!ChunkUploadAssumption, CInv, NEW q \in Reqs, Chunk!CacheFinalizeOutcome(q)
    PROVE  CInv'
<1>0. /\ chunkReq \in [Reqs -> ChunkRequest] /\ ChunkTypes /\ Results /\ Held(q) /\ published \in [Uploads -> 0 .. MaxPublished] /\ MaxPublished \in Nat
      /\ outcomes \in [Nodes -> [Uploads -> (1 .. MaxPublished) \cup {Nothing}]] /\ Nothing \notin 1 .. MaxPublished
      /\ cleaned \in [Nodes -> SUBSET Uploads] /\ permit \in [Nodes -> Reqs \cup {Nothing}]
  BY CInvParts, ChunkAssumed
<1> DEFINE n == chunkReq[q].n
           u == chunkReq[q].u
           k == chunkReq[q].out
<1>1. /\ chunkReq[q].at = "cache" /\ outcomes' = [outcomes EXCEPT ![n][u] = k] /\ Chunk!Goto(q, "cleanup")
      /\ UNCHANGED <<uploads, cleaned, tracker, permit, lease, published>>
  BY DEF Chunk!CacheFinalizeOutcome, Chunk!lockVars
<1>2. n \in Nodes /\ u \in Uploads /\ chunkReq[q].t \in Trackers
  BY <1>0, <1>1 DEF Held, Attached, Owning, Told
<1>3. k \in 1 .. published[u] /\ published[u] \in 0 .. MaxPublished
  BY <1>0, <1>1, <1>2 DEF Results, Decided, Told
<1>4. k \in 1 .. MaxPublished /\ k <= published[u]
  BY <1>0, <1>3
<1>5. /\ Steady(q) /\ chunkReq'[q].at = "cleanup" /\ chunkReq'[q].n = n /\ chunkReq'[q].u = u /\ chunkReq'[q].t = chunkReq[q].t /\ chunkReq'[q].out = k
      /\ chunkReq'[q].late = chunkReq[q].late
  BY <1>0, <1>1, GotoSteady DEF Chunk!Stages
<1> HIDE DEF n, u, k
<1>6. \A m \in Nodes, v \in Uploads : outcomes'[m][v] = IF m = n /\ v = u THEN k ELSE outcomes[m][v]
  BY <1>0, <1>1, <1>2
<1>7. outcomes' \in [Nodes -> [Uploads -> (1 .. MaxPublished) \cup {Nothing}]]
  <2>1. [outcomes[n] EXCEPT ![u] = k] \in [Uploads -> (1 .. MaxPublished) \cup {Nothing}]
    BY <1>0, <1>2, <1>4
  <2> QED
    BY <1>0, <1>1, <1>2, <2>1
<1>8. \A m \in Nodes, v \in Uploads : outcomes'[m][v] \in {outcomes[m][v], Nothing} \/ outcomes'[m][v] <= published'[v]
  BY <1>1, <1>4, <1>6
<1>9. Lates'
  <2>1. \A m \in Nodes, v \in Uploads : outcomes[m][v] # Nothing => outcomes'[m][v] # Nothing
    BY <1>0, <1>4, <1>6
  <2>2. outcomes'[n][u] # Nothing
    BY <1>0, <1>2, <1>4, <1>6
  <2> QED
    BY <1>1, <1>5, <2>1, <2>2, LatesStay
<1>10. Leases' /\ Chunk!PermitReturned'
  BY <1>1, <1>5, LocksStay DEF Permitted, Chunk!Leased
<1>11. Held(q)'
  BY <1>0, <1>1, <1>2, <1>5 DEF Held, Attached, Owning, Told, n, u
<1>12. SameTrackers /\ Shrinks /\ Grows
  BY <1>0, <1>1, Unmoved
<1>13. /\ chunkReq'[q].out \in {Reset, Drop} \cup (1 .. published'[chunkReq'[q].u])
       /\ chunkReq'[q].out \notin {Reset, Drop}
  BY <1>0, <1>1, <1>3, <1>4, <1>5, ChunkAssumed
<1>14. cleaned' \in [Nodes -> SUBSET Uploads] /\ permit' \in [Nodes -> Reqs \cup {Nothing}]
  BY <1>0, <1>1
<1>15. /\ chunkReq'[q].at \notin Chunk!Winning /\ chunkReq[q].at \notin Chunk!Winning /\ chunkReq[q].at \in Told /\ chunkReq'[q].at \notin {"wait", "id", "settle"}
  BY <1>1, <1>5 DEF Chunk!Winning, Told
<1> QED
  BY <1>5, <1>7, <1>8, <1>9, <1>10, <1>11, <1>12, <1>13, <1>14, <1>15, StepKeeps

\* The tracker is dropped after a success, when the outcome is in the cache.
LEMMA CleanupTrackedKeeps ==
    ASSUME Chunk!ChunkUploadAssumption, CInv, NEW q \in Reqs, Chunk!CleanupTrackedUpload(q)
    PROVE  CInv'
<1>0. /\ chunkReq \in [Reqs -> ChunkRequest] /\ ChunkTypes /\ Results /\ Held(q) /\ Lates
      /\ outcomes \in [Nodes -> [Uploads -> (1 .. MaxPublished) \cup {Nothing}]]
      /\ cleaned \in [Nodes -> SUBSET Uploads] /\ permit \in [Nodes -> Reqs \cup {Nothing}]
  BY CInvParts
<1> DEFINE n == chunkReq[q].n
           u == chunkReq[q].u
<1>1. /\ chunkReq[q].at = "cleanup" /\ Chunk!cleanupUploadByKey(n, u) /\ Chunk!Goto(q, "count") /\ cleaned' = [cleaned EXCEPT ![n] = @ \cup {u}]
      /\ UNCHANGED <<outcomes, permit, lease, published>>
  BY DEF Chunk!CleanupTrackedUpload, Chunk!lockVars
<1>2. n \in Nodes /\ u \in Uploads /\ chunkReq[q].t \in Trackers
  BY <1>0, <1>1 DEF Held, Attached, Owning, Told
<1>3. SameTrackers /\ Shrinks /\ Grows
  BY <1>0, <1>1, <1>2, DroppedKey, Unmoved
<1>4. /\ Steady(q) /\ chunkReq'[q].at = "count" /\ chunkReq'[q].n = n /\ chunkReq'[q].u = u /\ chunkReq'[q].t = chunkReq[q].t /\ chunkReq'[q].out = chunkReq[q].out
      /\ chunkReq'[q].late = chunkReq[q].late
  BY <1>0, <1>1, GotoSteady DEF Chunk!Stages
<1>5. cleaned' \in [Nodes -> SUBSET Uploads] /\ permit' \in [Nodes -> Reqs \cup {Nothing}]
  BY <1>0, <1>1, <1>2
<1>6. Lates'
  <2> SUFFICES ASSUME "expire" \notin Faults PROVE Lates'
    BY DEF Lates
  <2>1. \A m \in Nodes : \A v \in cleaned'[m] : outcomes'[m][v] # Nothing
    BY <1>0, <1>1, <1>2 DEF Lates
  <2>2. \A r \in Reqs : chunkReq'[r].at = "cleanup" => outcomes'[chunkReq'[r].n][chunkReq'[r].u] # Nothing
    BY <1>0, <1>1, <1>4 DEF Lates, Steady, AsBefore
  <2>3. Chunk!LateRetryAnswered'
    BY <1>0, <1>1, <1>4 DEF Lates, Chunk!LateRetryAnswered, Steady, AsBefore
  <2> QED
    BY <2>1, <2>2, <2>3 DEF Lates
<1>7. Leases' /\ Chunk!PermitReturned'
  BY <1>1, <1>4, LocksStay DEF Permitted, Chunk!Leased
<1>8. Held(q)'
  BY <1>0, <1>1, <1>2, <1>3, <1>4 DEF Held, Attached, Owning, Told, SameTrackers
<1>9. /\ chunkReq'[q].out \in {Reset, Drop} \cup (1 .. published'[chunkReq'[q].u])
      /\ chunkReq'[q].out \notin {Reset, Drop}
  BY <1>0, <1>1, <1>4 DEF Results, Decided, Told
<1>10. /\ chunkReq'[q].at \notin Chunk!Winning /\ chunkReq[q].at \notin Chunk!Winning /\ chunkReq[q].at \in Told /\ chunkReq'[q].at \notin {"wait", "id", "settle"}
  BY <1>1, <1>4 DEF Chunk!Winning, Told
<1>11. /\ outcomes' \in [Nodes -> [Uploads -> (1 .. MaxPublished) \cup {Nothing}]]
       /\ \A m \in Nodes, v \in Uploads : outcomes'[m][v] \in {outcomes[m][v], Nothing} \/ outcomes'[m][v] <= published'[v]
  BY <1>0, <1>1
<1> HIDE DEF n, u
<1> QED
  BY <1>3, <1>4, <1>5, <1>6, <1>7, <1>8, <1>9, <1>10, <1>11, StepKeeps

\* The counters are updated, and the request answered with the file or an error.
LEMMA CountKeeps ==
    ASSUME Chunk!ChunkUploadAssumption, CInv, NEW q \in Reqs, Chunk!AdjustStorageCounters(q)
    PROVE  CInv'
<1>0. chunkReq \in [Reqs -> ChunkRequest] /\ ChunkTypes /\ Results /\ Held(q) /\ Nothing \notin Trackers
  BY CInvParts, ChunkAssumed
<1>1. chunkReq[q].at = "count" /\ UNCHANGED <<uploads, outcomes, cleaned, tracker, permit, lease, published>>
  BY DEF Chunk!AdjustStorageCounters, Chunk!managerVars, Chunk!lockVars
<1>2. SameTrackers /\ Shrinks
  BY <1>0, <1>1, Unmoved
<1>3. CASE Chunk!End(q, "error")
  BY <1>1, <1>2, <1>3, RefusedKeeps
<1>4. CASE Chunk!End(q, "id")
  <2>1. Steady(q) /\ chunkReq'[q].at = "id" /\ chunkReq'[q].u = chunkReq[q].u /\ chunkReq'[q].t = Nothing /\ chunkReq'[q].out = chunkReq[q].out
    BY <1>0, <1>4, EndSteady DEF Chunk!Stages
  <2>2. chunkReq[q].u \in Uploads /\ chunkReq[q].out \in 1 .. published[chunkReq[q].u]
    BY <1>0, <1>1 DEF Results, Decided, Told, Held, Attached, Owning
  <2>3. Held(q)'
    BY <1>0, <2>1, <2>2 DEF Held, Attached, Owning, Chunk!Winning, Told
  <2> QED
    BY <1>0, <1>1, <1>2, <2>1, <2>2, <2>3, QuietKeeps DEF Chunk!Winning, Told, Owning, Decided, Permitted, Chunk!Leased
<1> QED
  BY <1>3, <1>4 DEF Chunk!AdjustStorageCounters

\* The client reads the answer.
LEMMA ReadKeeps ==
    ASSUME Chunk!ChunkUploadAssumption, CInv, NEW q \in Reqs, Chunk!Read(q)
    PROVE  CInv'
<1>0. chunkReq \in [Reqs -> ChunkRequest] /\ ChunkTypes /\ Nothing \notin Trackers
  BY CInvParts, ChunkAssumed
<1>1. /\ chunkReq[q].at \in {"id", "ack", "error"} /\ UNCHANGED <<uploads, outcomes, cleaned, tracker, permit, lease, published>>
      /\ chunkReq' = [chunkReq EXCEPT ![q] = Chunk!Done]
  BY DEF Chunk!Read, Chunk!managerVars, Chunk!lockVars
<1>2. SameTrackers /\ Shrinks
  BY <1>0, <1>1, Unmoved
<1>3. Steady(q) /\ chunkReq'[q].at = "done" /\ chunkReq'[q].t = Nothing /\ ~chunkReq'[q].late
  BY <1>0, <1>1, DoneChunk, PutSteady
<1>4. Held(q)'
  BY <1>0, <1>3 DEF Held, Attached, Owning, Chunk!Winning, Told
<1> QED
  BY <1>0, <1>1, <1>2, <1>3, <1>4, QuietKeeps DEF Chunk!Winning, Told, Owning, Decided, Permitted, Chunk!Leased

\* No request moves.
LEMMA StillSteady ==
    ASSUME chunkReq \in [Reqs -> ChunkRequest], chunkReq' = chunkReq, Nothing \notin Reqs
    PROVE  Steady(Nothing)
  BY DEF Steady, AsBefore

\* The janitor takes a tracker off the map (sweepOnce).
LEMMA SweepKeeps ==
    ASSUME Chunk!ChunkUploadAssumption, CInv, NEW n \in Nodes, NEW u \in Uploads, Chunk!sweepOnce(n, u)
    PROVE  CInv'
<1>0. chunkReq \in [Reqs -> ChunkRequest] /\ ChunkTypes /\ Nothing \notin Reqs /\ uploads \in [Nodes -> [Uploads -> Trackers \cup {Nothing}]]
  BY CInvParts, ChunkAssumed
<1>1. UNCHANGED <<outcomes, cleaned, tracker, permit, lease, published, chunkReq>> /\ uploads' = [uploads EXCEPT ![n][u] = Nothing]
  BY DEF Chunk!sweepOnce, Chunk!lockVars
<1>2. Shrinks
  <2>1. [uploads[n] EXCEPT ![u] = Nothing] \in [Uploads -> Trackers \cup {Nothing}]
    BY <1>0
  <2> QED
    BY <1>0, <1>1, <2>1 DEF Shrinks
<1>3. SameTrackers /\ Steady(Nothing)
  BY <1>0, <1>1, Unmoved, StillSteady
<1> QED
  BY <1>0, <1>1, <1>2, <1>3, QuietKeeps

\* And closes its file, after the lock is given back.
LEMMA CloseSweptKeeps ==
    ASSUME Chunk!ChunkUploadAssumption, CInv, NEW t \in Trackers, Chunk!Cleanup(t)
    PROVE  CInv'
<1>0. chunkReq \in [Reqs -> ChunkRequest] /\ ChunkTypes /\ Nothing \notin Reqs
  BY CInvParts, ChunkAssumed
<1>1. UNCHANGED <<uploads, outcomes, cleaned, permit, lease, published, chunkReq>> /\ tracker' = [tracker EXCEPT ![t].open = FALSE]
  BY DEF Chunk!Cleanup, Chunk!lockVars
<1>2. Shrinks /\ SameTrackers /\ Steady(Nothing)
  BY <1>0, <1>1, Unmoved, Closed, StillSteady
<1> QED
  BY <1>0, <1>1, <1>2, QuietKeeps

\* An outcome expires: then nothing is said of late retries.
LEMMA PruneKeeps ==
    ASSUME Chunk!ChunkUploadAssumption, CInv, NEW n \in Nodes, NEW u \in Uploads, Chunk!pruneFinalizeOutcomes(n, u)
    PROVE  CInv'
<1>0. /\ chunkReq \in [Reqs -> ChunkRequest] /\ ChunkTypes /\ Nothing \notin Reqs /\ Leases /\ Chunk!PermitReturned /\ permit \in [Nodes -> Reqs \cup {Nothing}]
      /\ outcomes \in [Nodes -> [Uploads -> (1 .. MaxPublished) \cup {Nothing}]] /\ cleaned \in [Nodes -> SUBSET Uploads]
  BY CInvParts, ChunkAssumed
<1>1. /\ "expire" \in Faults /\ UNCHANGED <<uploads, tracker, permit, lease, published, chunkReq>>
      /\ outcomes' = [outcomes EXCEPT ![n][u] = Nothing] /\ cleaned' = [cleaned EXCEPT ![n] = @ \ {u}]
  BY DEF Chunk!pruneFinalizeOutcomes, Chunk!lockVars
<1>2. SameTrackers /\ Shrinks /\ Grows /\ Steady(Nothing)
  BY <1>0, <1>1, Unmoved, StillSteady
<1>3. Leases' /\ Chunk!PermitReturned'
  BY <1>0, <1>1 DEF Leases, Chunk!PermitReturned
<1>4. Lates'
  BY <1>1 DEF Lates
<1>5. /\ outcomes' \in [Nodes -> [Uploads -> (1 .. MaxPublished) \cup {Nothing}]]
      /\ \A m \in Nodes, v \in Uploads : outcomes'[m][v] \in {outcomes[m][v], Nothing} \/ outcomes'[m][v] <= published'[v]
  <2>1. [outcomes[n] EXCEPT ![u] = Nothing] \in [Uploads -> (1 .. MaxPublished) \cup {Nothing}]
    BY <1>0
  <2> QED
    BY <1>0, <1>1, <2>1
<1>6. cleaned' \in [Nodes -> SUBSET Uploads] /\ permit' \in [Nodes -> Reqs \cup {Nothing}]
  BY <1>0, <1>1
<1> QED
  BY <1>0, <1>2, <1>3, <1>4, <1>5, <1>6, StepKeeps

\* A step that tells or resets what the tracker of a request holds: the finalisation of the others is as it was.
LEMMA OthersOwn ==
    ASSUME Chunk!ChunkUploadAssumption, CInv, NEW q \in Reqs, NEW t \in Trackers, chunkReq[q].t = t, Steady(q), UNCHANGED uploads, chunkReq'[q].t \in {t, Nothing},
           \A s \in Trackers \ {t} : tracker'[s].done = tracker[s].done,
           \A r \in Reqs \ {q} : chunkReq[r].at \in Owning => chunkReq[r].t # t,
           chunkReq'[q].at \in Owning => chunkReq'[q].t = t,
           chunkReq'[q].at \in Chunk!Winning => tracker'[t].done = "open",
           chunkReq'[q].at \in Told => tracker'[t].done = "closed",
           chunkReq'[q].at # "wait",
           \A r \in Reqs \ {q} : chunkReq'[r].at = "wait" /\ ~chunkReq'[r].woken /\ chunkReq'[r].t = t => tracker'[t].done = "open",
           tracker'[t].done = "open" => chunkReq'[q].at \in Chunk!Winning
    PROVE  Owners' /\ Opened'
<1>0. Owners /\ Opened /\ (\A r \in Reqs : Held(r)) /\ Nothing \notin Trackers
  BY CInvParts, ChunkAssumed
<1>1. \A r \in Reqs \ {q} : chunkReq'[r].at = chunkReq[r].at /\ chunkReq'[r].t = chunkReq[r].t /\ (chunkReq[r].woken => chunkReq'[r].woken)
  BY DEF Steady, AsBefore
<1>2. \A r \in Reqs : chunkReq[r].at \in Attached => chunkReq[r].t \in Trackers
  BY <1>0 DEF Held
<1>3. Owners'
  <2>1. \A x, r \in Reqs : chunkReq'[x].at \in Owning /\ chunkReq'[r].at \in Owning /\ chunkReq'[x].t = chunkReq'[r].t => x = r
    BY <1>0, <1>1 DEF Owners
  <2>2. ASSUME NEW r \in Reqs
        PROVE  /\ chunkReq'[r].at \in Chunk!Winning => tracker'[chunkReq'[r].t].done = "open"
               /\ chunkReq'[r].at \in Told => tracker'[chunkReq'[r].t].done = "closed"
               /\ chunkReq'[r].at = "wait" /\ ~chunkReq'[r].woken => tracker'[chunkReq'[r].t].done = "open"
    <3>1. CASE r = q
      BY <3>1 DEF Owning
    <3>2. CASE r # q
      <4>1. chunkReq'[r].at \in Owning => chunkReq[r].t \in Trackers \ {t}
        BY <1>1, <1>2, <3>2 DEF Attached
      <4>2. chunkReq'[r].at \in Owning => tracker'[chunkReq'[r].t].done = tracker[chunkReq[r].t].done
        BY <1>1, <3>2, <4>1
      <4>3. chunkReq'[r].at = "wait" => chunkReq[r].t \in Trackers
        BY <1>1, <1>2, <3>2 DEF Attached
      <4> QED
        BY <1>0, <1>1, <3>2, <4>2, <4>3 DEF Owners, Owning
    <3> QED
      BY <3>1, <3>2
  <2> QED
    BY <2>1, <2>2 DEF Owners
<1>4. ASSUME NEW s \in Trackers, Reached(s)', tracker'[s].done = "open"
      PROVE  \E r \in Reqs : chunkReq'[r].t = s /\ chunkReq'[r].at \in Chunk!Winning
  <2>1. CASE s = t
    <3>1. chunkReq'[q].at \in Chunk!Winning /\ chunkReq'[q].t = t
      BY <1>4, <2>1 DEF Owning
    <3> QED
      BY <2>1, <3>1
  <2>2. CASE s # t
    <3>1. Reached(s)
      BY <1>0, <1>1, <1>4, <2>2 DEF Reached
    <3>2. PICK r \in Reqs : chunkReq[r].t = s /\ chunkReq[r].at \in Chunk!Winning
      BY <1>0, <1>4, <2>2, <3>1 DEF Opened
    <3> QED
      BY <1>1, <2>2, <3>2
  <2> QED
    BY <2>1, <2>2
<1> QED
  BY <1>3, <1>4 DEF Opened

\* Such a step keeps the invariant.
LEMMA TrackerKeeps ==
    ASSUME Chunk!ChunkUploadAssumption, CInv, NEW q \in Reqs, Steady(q), Kindred, Reported, UNCHANGED <<uploads, outcomes, cleaned, published>>,
           permit' \in [Nodes -> Reqs \cup {Nothing}], Leases', Chunk!PermitReturned', Owners', Opened', Held(q)',
           \A t \in Trackers : /\ tracker'[t].done \in {"nil", "open", "closed"} /\ tracker'[t].result \in Chunk!Outcome
                               /\ tracker'[t].finalizing => tracker'[t].done # "nil",
           chunkReq'[q].at \in Decided => chunkReq'[q].out \in {Reset, Drop} \cup (1 .. published[chunkReq'[q].u]),
           chunkReq'[q].at \in Told \ {"settle"} => chunkReq'[q].out \notin {Reset, Drop},
           chunkReq'[q].at \notin {"id", "cleanup"}, chunkReq[q].at \notin {"id", "done"}, chunkReq'[q].late = chunkReq[q].late
    PROVE  CInv'
<1>0. ChunkTypes /\ Entered /\ Chunk!StagingBounded /\ \A r \in Reqs : Held(r)
  BY CInvParts
<1>1. Shrinks /\ Grows
  BY <1>0, Unmoved
<1>2. ChunkTypes'
  <2>1. tracker' = [t \in Trackers |-> tracker'[t]] /\ \A t \in Trackers : Shaped(tracker'[t])
    BY DEF Kindred
  <2> QED
    BY <1>0, <2>1 DEF ChunkTypes, Shaped, Steady
<1>3. \A r \in Reqs : Held(r)'
  BY <1>0, HeldStays DEF Steady
<1>4. Entered' /\ Chunk!StagingBounded'
  BY <1>0, <1>1, EnteredStays, StagingStays
<1>5. Results' /\ Chunk!AnswerTrue'
  <2>1. /\ outcomes' \in [Nodes -> [Uploads -> (1 .. MaxPublished) \cup {Nothing}]]
        /\ \A n \in Nodes, u \in Uploads : outcomes'[n][u] \in {outcomes[n][u], Nothing} \/ outcomes'[n][u] <= published'[u]
    BY <1>0 DEF ChunkTypes
  <2>2. /\ chunkReq'[q].at \in Decided => chunkReq'[q].out \in {Reset, Drop} \cup (1 .. published'[chunkReq'[q].u])
        /\ chunkReq'[q].at \in Told \ {"settle"} => chunkReq'[q].out \notin {Reset, Drop}
        /\ chunkReq'[q].at = "id" => chunkReq'[q].out \in 1 .. published'[chunkReq'[q].u]
    OBVIOUS
  <2> QED
    BY <1>1, <2>1, <2>2, ResultsStay
<1>6. Lates'
  BY LatesStay
<1> QED
  BY <1>2, <1>3, <1>4, <1>5, <1>6 DEF CInv

\* One tracker is written.
LEMMA PutTracker ==
    ASSUME ChunkTypes, NEW t \in Trackers, NEW y, tracker' = [tracker EXCEPT ![t] = y], Shaped(y), y.n = tracker[t].n, y.u = tracker[t].u
    PROVE  Kindred /\ tracker'[t] = y /\ \A s \in Trackers \ {t} : tracker'[s] = tracker[s]
<1>1. \A s \in Trackers : tracker'[s] = IF s = t THEN y ELSE tracker[s]
  BY DEF ChunkTypes
<1>2. tracker' = [s \in Trackers |-> tracker'[s]]
  BY DEF ChunkTypes
<1>3. \A s \in Trackers : Shaped(tracker[s])
  BY DEF ChunkTypes
<1> HIDE DEF Shaped
<1> QED
  BY <1>1, <1>2, <1>3 DEF Kindred

\* handleChunkedFinalizeError: the owner alone resets the channel, which is closed and so has no waiter
\* that was not woken; or it drops the tracker.
LEMMA SettleKeeps ==
    ASSUME Chunk!ChunkUploadAssumption, CInv, NEW q \in Reqs, Chunk!handleChunkedFinalizeError(q)
    PROVE  CInv'
<1>0. /\ chunkReq \in [Reqs -> ChunkRequest] /\ ChunkTypes /\ Held(q) /\ Owners /\ permit \in [Nodes -> Reqs \cup {Nothing}] /\ Nothing \notin Trackers
  BY CInvParts, ChunkAssumed
<1>1. chunkReq[q].at = "settle" /\ Chunk!End(q, "error") /\ UNCHANGED <<outcomes, cleaned, permit, lease, published>>
  BY DEF Chunk!handleChunkedFinalizeError, Chunk!lockVars
<1> DEFINE t == chunkReq[q].t
<1>2. t \in Trackers /\ chunkReq[q].n \in Nodes /\ chunkReq[q].u \in Uploads /\ tracker[t].done = "closed"
  BY <1>0, <1>1 DEF Held, Attached, Owning, Told, Owners
<1>3. CASE Chunk!cleanupUploadByKey(chunkReq[q].n, chunkReq[q].u)
  BY <1>0, <1>1, <1>2, <1>3, DroppedKey, RefusedKeeps
<1>4. CASE UNCHANGED uploads /\ tracker' = [tracker EXCEPT ![t].finalizing = FALSE, ![t].done = "nil"]
  <2> DEFINE y == [tracker[t] EXCEPT !.finalizing = FALSE, !.done = "nil"]
  <2>1. tracker' = [tracker EXCEPT ![t] = y] /\ Shaped(tracker[t])
    BY <1>0, <1>2, <1>4 DEF ChunkTypes
  <2>2. Shaped(y) /\ y.n = tracker[t].n /\ y.u = tracker[t].u /\ y.done = "nil" /\ y.result = tracker[t].result /\ y.finalizing = FALSE
    BY <2>1 DEF Shaped
  <2>3. Steady(q) /\ chunkReq'[q].at = "error" /\ chunkReq'[q].t = Nothing /\ chunkReq'[q].late = chunkReq[q].late
    BY <1>0, <1>1, EndSteady DEF Chunk!Stages
  <2> HIDE DEF y, t
  <2>4. Kindred /\ tracker'[t] = y /\ \A s \in Trackers \ {t} : tracker'[s] = tracker[s]
    BY <1>0, <1>2, <2>1, <2>2, PutTracker
  <2>5. Held(q)'
    BY <1>0, <2>3 DEF Held, Attached, Owning, Chunk!Winning, Told
  <2>6. Leases' /\ Chunk!PermitReturned'
    BY <1>1, <2>3, LocksStay DEF Permitted, Chunk!Leased
  <2>7. \A r \in Reqs \ {q} : chunkReq[r].at \in Owning => chunkReq[r].t # t
    BY <1>0, <1>1 DEF Owners, Owning, Told, t
  <2>8. \A r \in Reqs \ {q} : ~(chunkReq'[r].at = "wait" /\ ~chunkReq'[r].woken /\ chunkReq'[r].t = t)
    BY <1>0, <1>2, <2>3 DEF Owners, Steady, AsBefore
  <2>9. Owners' /\ Opened'
    BY <1>2, <1>4, <2>2, <2>3, <2>4, <2>7, <2>8, OthersOwn DEF Owning, Chunk!Winning, Told, t
  <2>10. \A s \in Trackers : /\ tracker'[s].done \in {"nil", "open", "closed"} /\ tracker'[s].result \in Chunk!Outcome
                             /\ tracker'[s].finalizing => tracker'[s].done # "nil"
    BY <1>0, <1>2, <2>2, <2>4 DEF ChunkTypes
  <2>11. Reported
    BY <2>2, <2>4 DEF Reported
  <2>12. chunkReq'[q].at \notin Decided /\ chunkReq'[q].at \notin Told
    BY <2>3 DEF Decided, Told
  <2>13. permit' \in [Nodes -> Reqs \cup {Nothing}]
    BY <1>0, <1>1
  <2> QED
    BY <1>1, <1>4, <2>3, <2>4, <2>5, <2>6, <2>9, <2>10, <2>11, <2>12, <2>13, TrackerKeeps
<1> QED
  BY <1>3, <1>4 DEF Chunk!handleChunkedFinalizeError

\* ClaimFinalization: nobody owns a tracker that is not taken, so the claim makes one owner; the others
\* wait on its channel, open or closed.
LEMMA ClaimFinalizationKeeps ==
    ASSUME Chunk!ChunkUploadAssumption, CInv, NEW q \in Reqs, Chunk!ClaimFinalization(q)
    PROVE  CInv'
<1>0. /\ chunkReq \in [Reqs -> ChunkRequest] /\ ChunkTypes /\ Held(q) /\ Owners /\ permit \in [Nodes -> Reqs \cup {Nothing}] /\ Nothing \notin Trackers
      /\ \A r \in Reqs : Held(r)
  BY CInvParts, ChunkAssumed
<1> DEFINE t == chunkReq[q].t
<1>1. chunkReq[q].at = "claim" /\ UNCHANGED <<uploads, outcomes, cleaned, permit, lease, published>>
  BY DEF Chunk!ClaimFinalization, Chunk!managerVars, Chunk!lockVars
<1>2. t \in Trackers /\ chunkReq[q].n \in Nodes /\ chunkReq[q].u \in Uploads /\ tracker[t].done \in {"nil", "open", "closed"}
  BY <1>0, <1>1 DEF Held, Attached, ChunkTypes
<1>3. Shrinks
  BY <1>0, <1>1, Unmoved
<1>4. CASE Chunk!Taken(Chunk!T(q)) /\ chunkReq' = [chunkReq EXCEPT ![q].at = "wait", ![q].woken = Chunk!T(q).done = "closed"] /\ UNCHANGED tracker
  <2> DEFINE b == Chunk!T(q).done = "closed"
             x == [chunkReq[q] EXCEPT !.at = "wait", !.woken = b]
  <2>1. b \in BOOLEAN /\ "wait" \in Chunk!Stages /\ chunkReq[q] \in ChunkRequest
    BY <1>0 DEF Chunk!Stages
  <2>2. tracker[t].done # "nil"
    BY <1>0, <1>2, <1>4 DEF ChunkTypes, Chunk!Taken, Chunk!T
  <2>3. ~b => tracker[t].done = "open"
    BY <1>2, <2>2 DEF Chunk!T
  <2>4. chunkReq' = [chunkReq EXCEPT ![q] = x]
    BY <1>0, <1>4
  <2> HIDE DEF b
  <2>5. x \in ChunkRequest /\ x.at = "wait" /\ x.woken = b /\ x.n = chunkReq[q].n /\ x.u = chunkReq[q].u /\ x.t = t /\ x.late = chunkReq[q].late
    BY <2>1 DEF ChunkRequest
  <2> HIDE DEF x
  <2>6. Steady(q) /\ chunkReq'[q] = x
    BY <1>0, <2>4, <2>5, PutSteady
  <2>7. SameTrackers
    BY <1>0, <1>4, Unmoved
  <2>8. Held(q)'
    BY <1>0, <1>1, <1>2, <1>4, <2>5, <2>6 DEF Held, Attached
  <2> QED
    BY <1>1, <1>3, <2>3, <2>5, <2>6, <2>7, <2>8, QuietKeeps DEF Chunk!Winning, Told, Owning, Decided, Permitted, Chunk!Leased
<1>5. CASE Chunk!End(q, "ack") /\ UNCHANGED tracker
  BY <1>0, <1>1, <1>3, <1>5, Unmoved, RefusedKeeps
<1>6. CASE /\ ~Chunk!Taken(Chunk!T(q)) /\ Chunk!Goto(q, "finalize")
           /\ tracker' = [tracker EXCEPT ![t].finalizing = TRUE, ![t].started = TRUE, ![t].done = "open"]
  <2> DEFINE y == [tracker[t] EXCEPT !.finalizing = TRUE, !.started = TRUE, !.done = "open"]
  <2>1. tracker' = [tracker EXCEPT ![t] = y] /\ Shaped(tracker[t])
    BY <1>0, <1>2, <1>6 DEF ChunkTypes
  <2>2. Shaped(y) /\ y.n = tracker[t].n /\ y.u = tracker[t].u /\ y.done = "open" /\ y.result = tracker[t].result
    BY <2>1 DEF Shaped
  <2>3. /\ Steady(q) /\ chunkReq'[q].at = "finalize" /\ chunkReq'[q].n = chunkReq[q].n /\ chunkReq'[q].u = chunkReq[q].u /\ chunkReq'[q].t = t
        /\ chunkReq'[q].late = chunkReq[q].late
    BY <1>0, <1>6, GotoSteady DEF Chunk!Stages
  <2>4. tracker[t].done = "nil"
    BY <1>6 DEF Chunk!Taken, Chunk!T
  <2> HIDE DEF y, t
  <2>5. Kindred /\ tracker'[t] = y /\ \A s \in Trackers \ {t} : tracker'[s] = tracker[s]
    BY <1>0, <1>2, <2>1, <2>2, PutTracker
  <2>6. Held(q)'
    BY <1>0, <1>1, <1>2, <2>3, <2>5 DEF Held, Attached, Owning, Chunk!Winning, Kindred, t
  <2>7. Leases' /\ Chunk!PermitReturned'
    BY <1>1, <2>3, LocksStay DEF Permitted, Chunk!Leased
  <2>8. \A r \in Reqs \ {q} : chunkReq[r].at \in Owning => chunkReq[r].t # t
    BY <1>0, <2>4 DEF Owners, Owning
  <2>9. chunkReq[q].t = t
    BY DEF t
  <2>10. Owners' /\ Opened'
    BY <1>1, <1>2, <2>2, <2>3, <2>5, <2>8, <2>9, OthersOwn DEF Owning, Chunk!Winning, Told
  <2>11. \A s \in Trackers : /\ tracker'[s].done \in {"nil", "open", "closed"} /\ tracker'[s].result \in Chunk!Outcome
                             /\ tracker'[s].finalizing => tracker'[s].done # "nil"
    BY <1>0, <1>2, <2>2, <2>5 DEF ChunkTypes
  <2>12. Reported
    BY <2>2, <2>5 DEF Reported
  <2>13. chunkReq'[q].at \notin Decided /\ chunkReq'[q].at \notin Told
    BY <2>3 DEF Decided, Told
  <2>14. permit' \in [Nodes -> Reqs \cup {Nothing}]
    BY <1>0, <1>1
  <2> QED
    BY <1>1, <2>3, <2>5, <2>6, <2>7, <2>10, <2>11, <2>12, <2>13, <2>14, TrackerKeeps
<1> QED
  BY <1>4, <1>5, <1>6 DEF Chunk!ClaimFinalization

\* Telling an outcome wakes those that wait, and changes nobody else.
LEMMA WakeSteady ==
    ASSUME chunkReq \in [Reqs -> ChunkRequest], NEW q \in Reqs, NEW t, NEW x \in ChunkRequest, chunkReq' = [Chunk!Wake(t) EXCEPT ![q] = x], Chunk!Tells(t)
    PROVE  Steady(q) /\ chunkReq'[q] = x /\ \A r \in Reqs \ {q} : chunkReq'[r].at = "wait" /\ chunkReq'[r].t = t => chunkReq'[r].woken
<1>1. ASSUME NEW r \in Reqs
      PROVE  LET y == [chunkReq[r] EXCEPT !.woken = TRUE]
             IN  /\ y \in ChunkRequest /\ y.at = chunkReq[r].at /\ y.n = chunkReq[r].n /\ y.u = chunkReq[r].u /\ y.t = chunkReq[r].t /\ y.out = chunkReq[r].out
                 /\ y.late = chunkReq[r].late /\ y.woken = TRUE /\ y.lapsed = chunkReq[r].lapsed
  <2>1. chunkReq[r] \in ChunkRequest
    OBVIOUS
  <2> QED
    BY <2>1 DEF ChunkRequest
<1>2. \A r \in Reqs \ {q} : \/ chunkReq'[r] = [chunkReq[r] EXCEPT !.woken = TRUE]
                            \/ chunkReq'[r] = chunkReq[r] /\ ~(chunkReq[r].t = t /\ chunkReq[r].at = "wait")
  BY DEF Chunk!Wake
<1>3. chunkReq'[q] = x /\ chunkReq' = [r \in Reqs |-> chunkReq'[r]]
  BY DEF Chunk!Wake
<1>4. \A r \in Reqs \ {q} : chunkReq'[r] \in ChunkRequest /\ AsBefore(r) /\ (chunkReq'[r].at = "wait" /\ chunkReq'[r].t = t => chunkReq'[r].woken)
  <2> SUFFICES ASSUME NEW r \in Reqs \ {q}
               PROVE  chunkReq'[r] \in ChunkRequest /\ AsBefore(r) /\ (chunkReq'[r].at = "wait" /\ chunkReq'[r].t = t => chunkReq'[r].woken)
    OBVIOUS
  <2> DEFINE y == [chunkReq[r] EXCEPT !.woken = TRUE]
  <2>1. /\ y \in ChunkRequest /\ y.at = chunkReq[r].at /\ y.n = chunkReq[r].n /\ y.u = chunkReq[r].u /\ y.t = chunkReq[r].t /\ y.out = chunkReq[r].out
        /\ y.late = chunkReq[r].late /\ y.woken = TRUE /\ y.lapsed = chunkReq[r].lapsed
    BY <1>1
  <2>2. chunkReq'[r] = y \/ (chunkReq'[r] = chunkReq[r] /\ ~(chunkReq[r].t = t /\ chunkReq[r].at = "wait"))
    BY <1>2
  <2> HIDE DEF y
  <2>3. CASE chunkReq'[r] = y
    BY <2>1, <2>3 DEF AsBefore
  <2>4. CASE chunkReq'[r] = chunkReq[r] /\ ~(chunkReq[r].t = t /\ chunkReq[r].at = "wait")
    BY <2>4 DEF AsBefore
  <2> QED
    BY <2>2, <2>3, <2>4
<1>5. chunkReq' \in [Reqs -> ChunkRequest]
  <2>1. \A r \in Reqs : chunkReq'[r] \in ChunkRequest
    BY <1>3, <1>4
  <2> HIDE DEF ChunkRequest
  <2> QED
    BY <1>3, <2>1
<1> QED
  BY <1>3, <1>4, <1>5 DEF Steady

\* publishFinalizeOutcome writes the result and closes the channel of this tracker alone.
LEMMA ToldTracker ==
    ASSUME ChunkTypes, NEW t \in Trackers, NEW out \in Chunk!Outcome, Chunk!Tells(t), tracker' = Chunk!publishFinalizeOutcome(t, out),
           out \in {Reset, Drop, Nothing} \/ (tracker[t].u \in Uploads /\ out <= published'[tracker[t].u])
    PROVE  /\ Kindred /\ tracker'[t].done = "closed" /\ (\A s \in Trackers \ {t} : tracker'[s] = tracker[s]) /\ Reported
           /\ \A s \in Trackers : /\ tracker'[s].done \in {"nil", "open", "closed"} /\ tracker'[s].result \in Chunk!Outcome
                                  /\ tracker'[s].finalizing => tracker'[s].done # "nil"
<1> DEFINE y == [tracker[t] EXCEPT !.result = out, !.done = "closed"]
<1>1. tracker' = [tracker EXCEPT ![t] = y] /\ Shaped(tracker[t])
  BY DEF ChunkTypes, Chunk!publishFinalizeOutcome
<1>2. Shaped(y) /\ y.n = tracker[t].n /\ y.u = tracker[t].u /\ y.done = "closed" /\ y.result = out
  BY <1>1 DEF Shaped
<1> HIDE DEF y
<1>3. Kindred /\ tracker'[t] = y /\ \A s \in Trackers \ {t} : tracker'[s] = tracker[s]
  BY <1>1, <1>2, PutTracker
<1>4. Reported
  BY <1>2, <1>3 DEF Reported
<1>5. \A s \in Trackers : /\ tracker'[s].done \in {"nil", "open", "closed"} /\ tracker'[s].result \in Chunk!Outcome
                          /\ tracker'[s].finalizing => tracker'[s].done # "nil"
  BY <1>2, <1>3 DEF ChunkTypes
<1> QED
  BY <1>2, <1>3, <1>4, <1>5

\* The outcome is told: the owner goes on to settle it, and every waiter is woken.
LEMMA PublishKeeps ==
    ASSUME Chunk!ChunkUploadAssumption, CInv, NEW q \in Reqs, Chunk!PublishFinalizeOutcome(q)
    PROVE  CInv'
<1>0. /\ chunkReq \in [Reqs -> ChunkRequest] /\ ChunkTypes /\ Held(q) /\ Owners /\ Results /\ permit \in [Nodes -> Reqs \cup {Nothing}] /\ Nothing \notin Trackers
      /\ published \in [Uploads -> 0 .. MaxPublished] /\ MaxPublished \in Nat
  BY CInvParts, ChunkAssumed
<1> DEFINE t == chunkReq[q].t
           z == IF chunkReq[q].out \in {Reset, Drop} THEN "settle" ELSE "cache"
           x == [chunkReq[q] EXCEPT !.at = z]
<1>1. /\ chunkReq[q].at = "tell" /\ UNCHANGED <<uploads, outcomes, cleaned, permit, lease, published>>
      /\ tracker' = Chunk!publishFinalizeOutcome(t, chunkReq[q].out) /\ chunkReq' = [Chunk!Wake(t) EXCEPT ![q].at = z]
  BY DEF Chunk!PublishFinalizeOutcome, Chunk!managerVars, Chunk!lockVars
<1>2. t \in Trackers /\ chunkReq[q].n \in Nodes /\ chunkReq[q].u \in Uploads /\ tracker[t].u = chunkReq[q].u /\ tracker[t].done = "open"
  BY <1>0, <1>1 DEF Held, Attached, Owning, Chunk!Winning, Owners
<1>3. /\ chunkReq[q].out \in {Reset, Drop} \cup (1 .. published[chunkReq[q].u]) /\ published[chunkReq[q].u] \in 0 .. MaxPublished
  BY <1>0, <1>1, <1>2 DEF Results, Decided
<1>4. chunkReq[q].out \in Chunk!Outcome /\ (chunkReq[q].out \in {Reset, Drop, Nothing} \/ chunkReq[q].out <= published[chunkReq[q].u])
  BY <1>0, <1>3 DEF Chunk!Outcome
<1>5. Chunk!Tells(t)
  BY <1>2 DEF Chunk!Tells
<1>6. chunkReq' = [Chunk!Wake(t) EXCEPT ![q] = x]
  <2>1. Chunk!Wake(t)[q] = chunkReq[q] /\ Chunk!Wake(t) = [r \in Reqs |-> Chunk!Wake(t)[r]]
    BY <1>1 DEF Chunk!Wake
  <2> QED
    BY <1>1, <2>1
<1>7. z \in Chunk!Stages /\ z \in {"settle", "cache"} /\ (z # "settle" => chunkReq[q].out \notin {Reset, Drop})
  BY DEF Chunk!Stages
<1> HIDE DEF z
<1>8. /\ x \in ChunkRequest /\ x.at = z /\ x.n = chunkReq[q].n /\ x.u = chunkReq[q].u /\ x.t = t /\ x.out = chunkReq[q].out /\ x.late = chunkReq[q].late
  <2>1. chunkReq[q] \in ChunkRequest
    BY <1>0
  <2> QED
    BY <1>7, <2>1 DEF ChunkRequest
<1> HIDE DEF x
<1>9. Steady(q) /\ chunkReq'[q] = x /\ \A r \in Reqs \ {q} : chunkReq'[r].at = "wait" /\ chunkReq'[r].t = t => chunkReq'[r].woken
  BY <1>0, <1>5, <1>6, <1>8, WakeSteady
<1>10. /\ Kindred /\ tracker'[t].done = "closed" /\ (\A s \in Trackers \ {t} : tracker'[s] = tracker[s]) /\ Reported
       /\ \A s \in Trackers : /\ tracker'[s].done \in {"nil", "open", "closed"} /\ tracker'[s].result \in Chunk!Outcome
                              /\ tracker'[s].finalizing => tracker'[s].done # "nil"
  <2>1. chunkReq[q].out \in {Reset, Drop, Nothing} \/ (tracker[t].u \in Uploads /\ chunkReq[q].out <= published'[tracker[t].u])
    BY <1>1, <1>2, <1>4
  <2> QED
    BY <1>0, <1>1, <1>2, <1>4, <1>5, <2>1, ToldTracker
<1>11. Held(q)'
  <2>1. chunkReq'[q].n = chunkReq[q].n /\ chunkReq'[q].u = chunkReq[q].u /\ chunkReq'[q].t = t /\ chunkReq'[q].at \in {"settle", "cache"}
    BY <1>7, <1>8, <1>9
  <2>2. tracker[t].n = chunkReq[q].n
    BY <1>0, <1>2 DEF Held
  <2>3. tracker'[t].n = chunkReq[q].n /\ tracker'[t].u = chunkReq[q].u
    BY <1>2, <1>10, <2>2 DEF Kindred
  <2> HIDE DEF t
  <2> QED
    BY <1>2, <2>1, <2>3 DEF Held
<1>12. Leases' /\ Chunk!PermitReturned'
  BY <1>1, <1>7, <1>8, <1>9, LocksStay DEF Permitted, Chunk!Leased
<1>13. \A r \in Reqs \ {q} : chunkReq[r].at \in Owning => chunkReq[r].t # t
  BY <1>0, <1>1 DEF Owners, Owning, Chunk!Winning
<1>14. chunkReq[q].t = t
  OBVIOUS
<1> HIDE DEF t
<1>15. Owners' /\ Opened'
  <2>1. /\ chunkReq'[q].at \in {"settle", "cache"} /\ chunkReq'[q].t = t /\ UNCHANGED uploads
        /\ \A s \in Trackers \ {t} : tracker'[s].done = tracker[s].done
        /\ \A r \in Reqs \ {q} : ~(chunkReq'[r].at = "wait" /\ ~chunkReq'[r].woken /\ chunkReq'[r].t = t)
        /\ tracker'[t].done = "closed"
    BY <1>1, <1>7, <1>8, <1>9, <1>10
  <2>2. chunkReq'[q].at \notin Chunk!Winning
    BY <2>1 DEF Chunk!Winning
  <2> QED
    BY <1>2, <1>9, <1>13, <1>14, <2>1, <2>2, OthersOwn
<1>16. chunkReq'[q].at \in Decided => chunkReq'[q].out \in {Reset, Drop} \cup (1 .. published[chunkReq'[q].u])
  BY <1>3, <1>8, <1>9
<1>17. permit' \in [Nodes -> Reqs \cup {Nothing}]
  BY <1>0, <1>1
<1> QED
  BY <1>1, <1>7, <1>8, <1>9, <1>10, <1>11, <1>12, <1>15, <1>16, <1>17, TrackerKeeps

\* A panic gives back the permit and the lease and tells a failure: nobody waits for it in vain.
LEMMA PanicKeeps ==
    ASSUME Chunk!ChunkUploadAssumption, CInv, NEW q \in Reqs, Chunk!FinalizationPanics(q)
    PROVE  CInv'
<1>0. /\ chunkReq \in [Reqs -> ChunkRequest] /\ ChunkTypes /\ Held(q) /\ Owners /\ Leases /\ Chunk!PermitReturned /\ permit \in [Nodes -> Reqs \cup {Nothing}]
      /\ Nothing \notin Trackers /\ Nothing \notin Reqs
  BY CInvParts, ChunkAssumed
<1> DEFINE t == chunkReq[q].t
           u == chunkReq[q].u
           l == chunkReq[q].late
           x == [Chunk!Done EXCEPT !.at = "error", !.u = u, !.late = l]
<1>1. /\ chunkReq[q].at \in {"finalize", "commit", "publish"} /\ UNCHANGED <<uploads, outcomes, cleaned, published>>
      /\ tracker' = Chunk!publishFinalizeOutcome(t, Reset) /\ chunkReq' = [Chunk!Wake(t) EXCEPT ![q] = x]
      /\ lease' = IF chunkReq[q].at \in Chunk!Leased THEN Chunk!releasedLease(q) ELSE lease
      /\ permit' = IF chunkReq[q].at \in Chunk!Leased THEN Chunk!releasedPermit(q) ELSE permit
  BY DEF Chunk!FinalizationPanics, Chunk!managerVars
<1>2. t \in Trackers /\ chunkReq[q].n \in Nodes /\ tracker[t].done = "open"
  BY <1>0, <1>1 DEF Held, Attached, Owning, Chunk!Winning, Owners
<1>3. Chunk!Tells(t)
  BY <1>2 DEF Chunk!Tells
<1>4. u \in Uploads \cup {Nothing} /\ l \in BOOLEAN /\ "error" \in Chunk!Stages
  <2>1. chunkReq[q] \in ChunkRequest
    BY <1>0
  <2> QED
    BY <2>1, ChunkFields DEF Chunk!Stages
<1> HIDE DEF u, l
<1>5. x \in ChunkRequest /\ x.at = "error" /\ x.t = Nothing /\ x.late = l
  BY <1>4, DoneChunk DEF ChunkRequest, Chunk!Done
<1> HIDE DEF x
<1>6. Steady(q) /\ chunkReq'[q] = x /\ \A r \in Reqs \ {q} : chunkReq'[r].at = "wait" /\ chunkReq'[r].t = t => chunkReq'[r].woken
  BY <1>0, <1>1, <1>3, <1>5, WakeSteady
<1>7. /\ Kindred /\ tracker'[t].done = "closed" /\ (\A s \in Trackers \ {t} : tracker'[s] = tracker[s]) /\ Reported
      /\ \A s \in Trackers : /\ tracker'[s].done \in {"nil", "open", "closed"} /\ tracker'[s].result \in Chunk!Outcome
                             /\ tracker'[s].finalizing => tracker'[s].done # "nil"
  <2>1. Reset \in Chunk!Outcome /\ (Reset \in {Reset, Drop, Nothing} \/ (tracker[t].u \in Uploads /\ Reset <= published'[tracker[t].u]))
    BY DEF Chunk!Outcome
  <2> QED
    BY <1>0, <1>1, <1>2, <1>3, <2>1, ToldTracker
<1>8. Held(q)'
  BY <1>0, <1>5, <1>6 DEF Held, Attached, Owning, Chunk!Winning, Told
<1>9. Leases'
  <2> SUFFICES ASSUME NEW r \in Reqs, chunkReq'[r].at \in Chunk!Leased, ~chunkReq'[r].lapsed PROVE lease' = r
    BY DEF Leases
  <2>1. r # q
    BY <1>5, <1>6 DEF Chunk!Leased
  <2>2. chunkReq[r].at \in Chunk!Leased /\ ~chunkReq[r].lapsed
    BY <1>6, <2>1 DEF Steady, AsBefore
  <2> QED
    BY <1>0, <1>1, <2>1, <2>2 DEF Leases, Chunk!releasedLease
<1>10. permit' \in [Nodes -> Reqs \cup {Nothing}]
  BY <1>0, <1>1, <1>2 DEF Chunk!releasedPermit
<1>11. ASSUME NEW n \in Nodes, NEW r \in Reqs PROVE permit'[n] = r <=> chunkReq'[r].n = n /\ chunkReq'[r].at \in Chunk!Leased \cup {"lease", "unpermit"}
  <2>1. permit[n] = r <=> chunkReq[r].n = n /\ chunkReq[r].at \in Chunk!Leased \cup {"lease", "unpermit"}
    BY <1>0 DEF Chunk!PermitReturned
  <2>2. CASE r = q
    <3>1. permit'[n] # q
      <4>1. CASE chunkReq[q].at \in Chunk!Leased
        <5>1. permit' = [permit EXCEPT ![chunkReq[q].n] = Nothing]
          BY <1>1, <4>1 DEF Chunk!releasedPermit
        <5> QED
          BY <1>0, <1>2, <2>1, <2>2, <5>1
      <4>2. CASE chunkReq[q].at \notin Chunk!Leased
        BY <1>1, <2>1, <2>2, <4>2
      <4> QED
        BY <4>1, <4>2
    <3> QED
      BY <1>5, <1>6, <2>2, <3>1 DEF Chunk!Leased
  <2>3. CASE r # q
    <3>1. chunkReq'[r].n = chunkReq[r].n /\ chunkReq'[r].at = chunkReq[r].at
      BY <1>6, <2>3 DEF Steady, AsBefore
    <3>2. permit'[n] = r <=> permit[n] = r
      <4>1. CASE chunkReq[q].at \in Chunk!Leased
        <5>1. permit' = [permit EXCEPT ![chunkReq[q].n] = Nothing]
          BY <1>1, <4>1 DEF Chunk!releasedPermit
        <5>2. permit[chunkReq[q].n] = q
          BY <1>0, <1>2, <4>1 DEF Chunk!PermitReturned
        <5> QED
          BY <1>0, <1>2, <2>3, <5>1, <5>2
      <4>2. CASE chunkReq[q].at \notin Chunk!Leased
        BY <1>1, <4>2
      <4> QED
        BY <4>1, <4>2
    <3> QED
      BY <2>1, <3>1, <3>2
  <2> QED
    BY <2>2, <2>3
<1>12. Chunk!PermitReturned'
  BY <1>11 DEF Chunk!PermitReturned
<1>13. \A r \in Reqs \ {q} : chunkReq[r].at \in Owning => chunkReq[r].t # t
  BY <1>0, <1>1 DEF Owners, Owning, Chunk!Winning
<1>14. chunkReq[q].t = t /\ l = chunkReq[q].late
  BY DEF l
<1> HIDE DEF t
<1>15. Owners' /\ Opened'
  <2>1. /\ chunkReq'[q].at = "error" /\ chunkReq'[q].t = Nothing /\ UNCHANGED uploads
        /\ \A s \in Trackers \ {t} : tracker'[s].done = tracker[s].done
        /\ \A r \in Reqs \ {q} : ~(chunkReq'[r].at = "wait" /\ ~chunkReq'[r].woken /\ chunkReq'[r].t = t)
        /\ tracker'[t].done = "closed"
    BY <1>1, <1>5, <1>6, <1>7
  <2>2. chunkReq'[q].at \notin Owning
    BY <2>1 DEF Owning, Chunk!Winning, Told
  <2> QED
    BY <1>2, <1>6, <1>13, <1>14, <2>1, <2>2, OthersOwn DEF Owning
<1>16. chunkReq'[q].at \notin Decided /\ chunkReq'[q].at \notin Told
  BY <1>5, <1>6 DEF Decided, Told
<1> QED
  BY <1>1, <1>5, <1>6, <1>7, <1>8, <1>9, <1>10, <1>12, <1>14, <1>15, <1>16, TrackerKeeps

\* An instance stops: its requests, trackers, outcomes and permit go; the lease is left to its expiry.
LEMMA NodeCrashKeeps ==
    ASSUME Chunk!ChunkUploadAssumption, CInv, NEW n \in Nodes, Chunk!Crash(n)
    PROVE  CInv'
<1>0. /\ ChunkTypes /\ (\A q \in Reqs : Held(q)) /\ Entered /\ Owners /\ Opened /\ Leases /\ Chunk!PermitReturned /\ Results /\ Chunk!AnswerTrue
      /\ Lates /\ Chunk!StagingBounded
      /\ uploads \in [Nodes -> [Uploads -> Trackers \cup {Nothing}]] /\ outcomes \in [Nodes -> [Uploads -> (1 .. MaxPublished) \cup {Nothing}]]
      /\ cleaned \in [Nodes -> SUBSET Uploads] /\ permit \in [Nodes -> Reqs \cup {Nothing}] /\ published \in [Uploads -> 0 .. MaxPublished]
      /\ chunkReq \in [Reqs -> ChunkRequest] /\ Nothing \notin Reqs /\ Nothing \notin Trackers
  BY CInvParts, ChunkAssumed
<1>1. /\ uploads' = [uploads EXCEPT ![n] = [u \in Uploads |-> Nothing]] /\ outcomes' = [outcomes EXCEPT ![n] = [u \in Uploads |-> Nothing]]
      /\ cleaned' = [cleaned EXCEPT ![n] = {}] /\ permit' = [permit EXCEPT ![n] = Nothing] /\ UNCHANGED <<tracker, published>>
      /\ lease' = IF lease \in Reqs /\ chunkReq[lease].n = n THEN Chunk!Orphan ELSE lease
      /\ chunkReq' = [q \in Reqs |-> IF chunkReq[q].n = n THEN Chunk!Done ELSE chunkReq[q]]
  BY DEF Chunk!Crash
<1>2. \A q \in Reqs : \/ chunkReq'[q] = Chunk!Done
                      \/ chunkReq'[q] = chunkReq[q] /\ chunkReq[q].n # n
  BY <1>1
<1>3. Chunk!Done.at = "done" /\ Chunk!Done.t = Nothing /\ Chunk!Done.late = FALSE /\ Chunk!Done \in ChunkRequest
  BY DoneChunk
<1>4. \A q \in Reqs : chunkReq'[q].at # "done" \/ chunkReq'[q].t \in Trackers \/ chunkReq'[q].late => chunkReq'[q] = chunkReq[q] /\ chunkReq[q].n # n
  BY <1>0, <1>2, <1>3
<1>5. ChunkTypes'
  <2>1. chunkReq' \in [Reqs -> ChunkRequest]
    BY <1>0, <1>1, <1>3
  <2>2. uploads' \in [Nodes -> [Uploads -> Trackers \cup {Nothing}]] /\ outcomes' \in [Nodes -> [Uploads -> (1 .. MaxPublished) \cup {Nothing}]]
    BY <1>0, <1>1
  <2>3. cleaned' \in [Nodes -> SUBSET Uploads] /\ permit' \in [Nodes -> Reqs \cup {Nothing}] /\ published' \in [Uploads -> 0 .. MaxPublished]
    BY <1>0, <1>1
  <2> QED
    BY <1>0, <1>1, <2>1, <2>2, <2>3 DEF ChunkTypes, Shaped
<1>6. Shrinks /\ Kindred
  <2>1. Shrinks
    BY <1>0, <1>1 DEF Shrinks
  <2> QED
    BY <1>0, <1>1, <2>1, Unmoved, SameKindred
<1>7. Entered' /\ Chunk!StagingBounded'
  BY <1>0, <1>6, EnteredStays, StagingStays
<1>8. \A q \in Reqs : Held(q)'
  <2> SUFFICES ASSUME NEW q \in Reqs PROVE Held(q)'
    OBVIOUS
  <2>1. CASE chunkReq'[q] = Chunk!Done
    BY <1>0, <1>3, <2>1 DEF Held, Attached, Owning, Chunk!Winning, Told
  <2>2. CASE chunkReq'[q] = chunkReq[q]
    BY <1>0, <1>1, <2>2 DEF Held
  <2> QED
    BY <1>2, <2>1, <2>2
<1>9. "done" \notin Owning /\ Chunk!Winning \subseteq Owning /\ Told \subseteq Owning /\ "done" \notin Decided /\ "done" \notin Chunk!Leased \cup {"lease", "unpermit"}
  BY DEF Owning, Chunk!Winning, Told, Decided, Chunk!Leased
<1>10. Owners'
  <2>1. \A q, r \in Reqs : chunkReq'[q].at \in Owning /\ chunkReq'[r].at \in Owning /\ chunkReq'[q].t = chunkReq'[r].t => q = r
    BY <1>0, <1>4, <1>9 DEF Owners
  <2>2. \A q \in Reqs : /\ chunkReq'[q].at \in Chunk!Winning => tracker'[chunkReq'[q].t].done = "open"
                        /\ chunkReq'[q].at \in Told => tracker'[chunkReq'[q].t].done = "closed"
                        /\ chunkReq'[q].at = "wait" /\ ~chunkReq'[q].woken => tracker'[chunkReq'[q].t].done = "open"
    BY <1>0, <1>1, <1>4, <1>9 DEF Owners
  <2> QED
    BY <2>1, <2>2 DEF Owners
<1>11. Opened'
  <2> SUFFICES ASSUME NEW t \in Trackers, Reached(t)', tracker'[t].done = "open"
               PROVE  \E r \in Reqs : chunkReq'[r].t = t /\ chunkReq'[r].at \in Chunk!Winning
    BY DEF Opened
  <2>1. Reached(t) /\ tracker[t].n # n
    <3>1. CASE \E q \in Reqs : chunkReq'[q].t = t
      <4>1. PICK q \in Reqs : chunkReq'[q].t = t
        BY <3>1
      <4>2. chunkReq[q].t = t /\ chunkReq[q].n # n
        BY <1>4, <4>1
      <4> QED
        BY <1>0, <4>2 DEF Reached, Held
    <3>2. CASE \E m \in Nodes, u \in Uploads : uploads'[m][u] = t
      <4>1. PICK m \in Nodes, u \in Uploads : uploads'[m][u] = t
        BY <3>2
      <4>2. m # n /\ uploads[m][u] = t
        BY <1>0, <1>1, <4>1
      <4> QED
        BY <1>0, <4>2 DEF Reached, Entered
    <3> QED
      BY <3>1, <3>2 DEF Reached
  <2>2. PICK r \in Reqs : chunkReq[r].t = t /\ chunkReq[r].at \in Chunk!Winning
    BY <1>0, <1>1, <2>1 DEF Opened
  <2>3. chunkReq[r].n # n
    BY <1>0, <2>1, <2>2 DEF Held
  <2> QED
    BY <1>1, <2>2, <2>3
<1>12. Leases'
  <2> SUFFICES ASSUME NEW r \in Reqs, chunkReq'[r].at \in Chunk!Leased, ~chunkReq'[r].lapsed PROVE lease' = r
    BY DEF Leases
  <2>1. chunkReq'[r] = chunkReq[r] /\ chunkReq[r].n # n
    BY <1>4, <1>9
  <2> QED
    BY <1>0, <1>1, <2>1 DEF Leases
<1>13. Chunk!PermitReturned'
  <2> SUFFICES ASSUME NEW m \in Nodes, NEW r \in Reqs PROVE permit'[m] = r <=> chunkReq'[r].n = m /\ chunkReq'[r].at \in Chunk!Leased \cup {"lease", "unpermit"}
    BY DEF Chunk!PermitReturned
  <2>1. permit[m] = r <=> chunkReq[r].n = m /\ chunkReq[r].at \in Chunk!Leased \cup {"lease", "unpermit"}
    BY <1>0 DEF Chunk!PermitReturned
  <2>2. permit'[m] = IF m = n THEN Nothing ELSE permit[m]
    BY <1>0, <1>1
  <2>3. CASE chunkReq'[r] = Chunk!Done
    <3>1. chunkReq'[r].at \notin Chunk!Leased \cup {"lease", "unpermit"}
      BY <1>3, <1>9, <2>3
    <3>2. permit'[m] # r
      <4>1. CASE chunkReq[r].n = n
        BY <1>0, <2>1, <2>2, <4>1
      <4>2. CASE chunkReq[r].n # n
        <5>1. chunkReq[r] = Chunk!Done
          BY <1>1, <2>3, <4>2
        <5> QED
          BY <1>0, <1>3, <1>9, <2>1, <2>2, <5>1
      <4> QED
        BY <4>1, <4>2
    <3> QED
      BY <3>1, <3>2
  <2>4. CASE chunkReq'[r] = chunkReq[r] /\ chunkReq[r].n # n
    BY <1>0, <2>1, <2>2, <2>4
  <2> QED
    BY <1>2, <2>3, <2>4
<1>14. Results'
  <2>1. \A t \in Trackers : tracker'[t].result \in 1 .. MaxPublished => tracker'[t].u \in Uploads /\ tracker'[t].result <= published'[tracker'[t].u]
    BY <1>0, <1>1 DEF Results
  <2>2. \A m \in Nodes, u \in Uploads : outcomes'[m][u] # Nothing => outcomes'[m][u] <= published'[u]
    <3>1. \A m \in Nodes, u \in Uploads : outcomes'[m][u] # Nothing => outcomes'[m][u] = outcomes[m][u]
      BY <1>0, <1>1
    <3> QED
      BY <1>0, <1>1, <3>1 DEF Results
  <2>3. \A q \in Reqs : /\ chunkReq'[q].at \in Decided => chunkReq'[q].out \in {Reset, Drop} \cup (1 .. published'[chunkReq'[q].u])
                        /\ chunkReq'[q].at \in Told \ {"settle"} => chunkReq'[q].out \notin {Reset, Drop}
    BY <1>0, <1>1, <1>4, <1>9 DEF Results
  <2> QED
    BY <2>1, <2>2, <2>3 DEF Results
<1>15. Chunk!AnswerTrue'
  BY <1>0, <1>1, <1>4 DEF Chunk!AnswerTrue
<1>16. Lates'
  <2> SUFFICES ASSUME "expire" \notin Faults PROVE Lates'
    BY DEF Lates
  <2>1. \A m \in Nodes : \A u \in cleaned'[m] : outcomes'[m][u] # Nothing
    <3> SUFFICES ASSUME NEW m \in Nodes, NEW u \in cleaned'[m] PROVE outcomes'[m][u] # Nothing
      OBVIOUS
    <3>1. m # n /\ u \in cleaned[m]
      BY <1>0, <1>1
    <3> QED
      BY <1>0, <1>1, <3>1 DEF Lates
  <2>2. ASSUME NEW r \in Reqs, chunkReq'[r].at = "cleanup" PROVE outcomes'[chunkReq'[r].n][chunkReq'[r].u] # Nothing
    <3>1. chunkReq'[r] = chunkReq[r] /\ chunkReq[r].n # n
      BY <1>4, <2>2
    <3>2. chunkReq[r].n \in Nodes
      BY <1>0, <2>2, <3>1 DEF Held, Attached, Owning, Told
    <3> QED
      BY <1>0, <1>1, <2>2, <3>1, <3>2 DEF Lates
  <2>3. Chunk!LateRetryAnswered'
    BY <1>0, <1>4 DEF Lates, Chunk!LateRetryAnswered
  <2> QED
    BY <2>1, <2>2, <2>3 DEF Lates
<1> QED
  BY <1>5, <1>7, <1>8, <1>10, <1>11, <1>12, <1>13, <1>14, <1>15, <1>16 DEF CInv

\* GetOrCreateUpload: the tracker of the key, or a new one that nobody has, if there is room for it.
LEMMA CreateKeeps ==
    ASSUME Chunk!ChunkUploadAssumption, CInv, NEW q \in Reqs, Chunk!GetOrCreateUpload(q)
    PROVE  CInv'
<1>0. /\ ChunkTypes /\ (\A r \in Reqs : Held(r)) /\ Entered /\ Owners /\ Opened /\ Results /\ Chunk!StagingBounded
      /\ uploads \in [Nodes -> [Uploads -> Trackers \cup {Nothing}]] /\ outcomes \in [Nodes -> [Uploads -> (1 .. MaxPublished) \cup {Nothing}]]
      /\ cleaned \in [Nodes -> SUBSET Uploads] /\ permit \in [Nodes -> Reqs \cup {Nothing}] /\ published \in [Uploads -> 0 .. MaxPublished]
      /\ chunkReq \in [Reqs -> ChunkRequest] /\ Nothing \notin Trackers
  BY CInvParts, ChunkAssumed
<1> DEFINE n == chunkReq[q].n
           u == chunkReq[q].u
<1>1. chunkReq[q].at = "create" /\ UNCHANGED <<outcomes, cleaned, permit, lease, published>>
  BY DEF Chunk!GetOrCreateUpload, Chunk!lockVars
<1>2. n \in Nodes /\ u \in Uploads /\ Held(q)
  BY <1>0, <1>1 DEF Held
<1>3. ASSUME NEW t \in Trackers, chunkReq' = [chunkReq EXCEPT ![q].at = "write", ![q].t = t]
      PROVE  /\ Steady(q) /\ chunkReq'[q].at = "write" /\ chunkReq'[q].t = t /\ chunkReq'[q].n = n /\ chunkReq'[q].u = u /\ chunkReq'[q].late = chunkReq[q].late
  <2> DEFINE x == [chunkReq[q] EXCEPT !.at = "write", !.t = t]
  <2>1. chunkReq[q] \in ChunkRequest /\ "write" \in Chunk!Stages
    BY <1>0 DEF Chunk!Stages
  <2>2. x \in ChunkRequest /\ x.at = "write" /\ x.t = t /\ x.n = chunkReq[q].n /\ x.u = chunkReq[q].u /\ x.late = chunkReq[q].late
    BY <2>1 DEF ChunkRequest
  <2>3. chunkReq' = [chunkReq EXCEPT ![q] = x]
    BY <1>0, <1>3
  <2> HIDE DEF x
  <2> QED
    BY <1>0, <2>2, <2>3, PutSteady
<1>4. CASE uploads[n][u] # Nothing /\ chunkReq' = [chunkReq EXCEPT ![q].at = "write", ![q].t = uploads[n][u]] /\ UNCHANGED <<uploads, tracker>>
  <2> DEFINE t == uploads[n][u]
  <2>1. t \in Trackers /\ tracker[t].n = n /\ tracker[t].u = u /\ Reached(t)
    BY <1>0, <1>2, <1>4 DEF Entered, Reached
  <2>2. /\ Steady(q) /\ chunkReq'[q].at = "write" /\ chunkReq'[q].t = t /\ chunkReq'[q].n = n /\ chunkReq'[q].u = u /\ chunkReq'[q].late = chunkReq[q].late
    BY <1>3, <1>4, <2>1
  <2>3. SameTrackers /\ Shrinks
    BY <1>0, <1>4, Unmoved
  <2>4. Held(q)'
    BY <1>2, <1>4, <2>1, <2>2 DEF Held
  <2> HIDE DEF t, n, u
  <2> QED
    BY <1>1, <2>1, <2>2, <2>3, <2>4, QuietKeeps DEF Chunk!Winning, Told, Owning, Decided, Permitted, Chunk!Leased
<1>5. CASE Chunk!End(q, "error") /\ UNCHANGED <<uploads, tracker>>
  BY <1>0, <1>1, <1>5, Unmoved, RefusedKeeps
<1>6. ASSUME NEW t \in Trackers, uploads[n][u] = Nothing, Chunk!EnterWithRoom(n, u), ~Chunk!InUse(t), uploads' = [uploads EXCEPT ![n][u] = t],
             tracker' = [tracker EXCEPT ![t] = [Chunk!Fresh EXCEPT !.u = u, !.n = n]], chunkReq' = [chunkReq EXCEPT ![q].at = "write", ![q].t = t]
      PROVE  CInv'
  <2>1. /\ Steady(q) /\ chunkReq'[q].at = "write" /\ chunkReq'[q].t = t /\ chunkReq'[q].n = n /\ chunkReq'[q].u = u /\ chunkReq'[q].late = chunkReq[q].late
    BY <1>3, <1>6
  <2>2. (\A r \in Reqs : chunkReq[r].t # t) /\ (\A m \in Nodes, v \in Uploads : uploads[m][v] # t)
    BY <1>6 DEF Chunk!InUse
  <2> DEFINE y == [Chunk!Fresh EXCEPT !.u = u, !.n = n]
  <2>3. Shaped(y) /\ y.n = n /\ y.u = u /\ y.done = "nil" /\ y.result = Nothing /\ y.finalizing = FALSE
    BY DEF Shaped, Chunk!Fresh
  <2>4. tracker' = [s \in Trackers |-> IF s = t THEN y ELSE tracker[s]]
    BY <1>0, <1>6 DEF ChunkTypes
  <2>5. uploads' = [uploads EXCEPT ![n] = [uploads[n] EXCEPT ![u] = t]] /\ [uploads[n] EXCEPT ![u] = t] \in [Uploads -> Trackers \cup {Nothing}]
    BY <1>0, <1>2, <1>6
  <2> HIDE DEF n, u, y
  <2>6. uploads' \in [Nodes -> [Uploads -> Trackers \cup {Nothing}]] /\ uploads'[n][u] = t
    BY <1>0, <1>2, <2>5
  <2>7. \A m \in Nodes, v \in Uploads : m # n \/ v # u => uploads'[m][v] = uploads[m][v]
    BY <1>0, <1>2, <2>5
  <2>8. \A r \in Reqs \ {q} : AsBefore(r) /\ chunkReq'[r].at = chunkReq[r].at /\ chunkReq'[r].t = chunkReq[r].t /\ chunkReq'[r].n = chunkReq[r].n /\ chunkReq'[r].u = chunkReq[r].u
                              /\ (chunkReq[r].woken => chunkReq'[r].woken)
    BY <2>1 DEF Steady, AsBefore
  <2>9. tracker'[t] = y /\ \A s \in Trackers \ {t} : tracker'[s] = tracker[s]
    BY <2>4
  <2>10. ChunkTypes'
    <3>1. \A s \in Trackers : /\ Shaped(tracker'[s]) /\ tracker'[s].done \in {"nil", "open", "closed"}
                              /\ tracker'[s].result \in Chunk!Outcome /\ (tracker'[s].finalizing => tracker'[s].done # "nil")
      <4> SUFFICES ASSUME NEW s \in Trackers
                   PROVE  /\ Shaped(tracker'[s]) /\ tracker'[s].done \in {"nil", "open", "closed"}
                          /\ tracker'[s].result \in Chunk!Outcome /\ (tracker'[s].finalizing => tracker'[s].done # "nil")
        OBVIOUS
      <4>1. CASE s = t
        BY <2>3, <2>9, <4>1 DEF Chunk!Outcome
      <4>2. CASE s # t
        BY <1>0, <2>9, <4>2 DEF ChunkTypes
      <4> QED
        BY <4>1, <4>2
    <3>2. tracker' = [s \in Trackers |-> tracker'[s]]
      BY <2>4
    <3>3. chunkReq' \in [Reqs -> ChunkRequest]
      BY <2>1 DEF Steady
    <3> QED
      BY <1>0, <1>1, <2>6, <3>1, <3>2, <3>3 DEF ChunkTypes, Shaped
  <2>11. \A r \in Reqs : Held(r)'
    <3> SUFFICES ASSUME NEW r \in Reqs PROVE Held(r)'
      OBVIOUS
    <3>1. CASE r = q
      BY <1>2, <2>1, <2>3, <2>9, <3>1 DEF Held
    <3>2. CASE r # q
      BY <1>0, <2>2, <2>8, <2>9, <3>2 DEF Held
    <3> QED
      BY <3>1, <3>2
  <2>12. Entered'
    <3> SUFFICES ASSUME NEW m \in Nodes, NEW v \in Uploads, uploads'[m][v] # Nothing
                 PROVE  tracker'[uploads'[m][v]].n = m /\ tracker'[uploads'[m][v]].u = v
      BY DEF Entered
    <3>1. CASE m = n /\ v = u
      BY <2>3, <2>6, <2>9, <3>1
    <3>2. CASE m # n \/ v # u
      <4>1. uploads'[m][v] = uploads[m][v] /\ uploads[m][v] \in Trackers \ {t}
        BY <1>0, <2>2, <2>7, <3>2
      <4>2. tracker'[uploads'[m][v]] = tracker[uploads[m][v]]
        BY <2>9, <4>1
      <4>3. uploads[m][v] # Nothing /\ tracker[uploads[m][v]].n = m /\ tracker[uploads[m][v]].u = v
        BY <1>0, <4>1 DEF Entered
      <4> QED
        BY <4>2, <4>3
    <3> QED
      BY <3>1, <3>2
  <2>13. Owners'
    <3>0. chunkReq'[q].at \notin Owning /\ chunkReq'[q].at # "wait" /\ Chunk!Winning \subseteq Owning /\ Told \subseteq Owning
      BY <2>1 DEF Owning, Chunk!Winning, Told
    <3>1. \A x, r \in Reqs : chunkReq'[x].at \in Owning /\ chunkReq'[r].at \in Owning /\ chunkReq'[x].t = chunkReq'[r].t => x = r
      BY <1>0, <2>8, <3>0 DEF Owners
    <3>2. ASSUME NEW r \in Reqs
          PROVE  /\ chunkReq'[r].at \in Chunk!Winning => tracker'[chunkReq'[r].t].done = "open"
                 /\ chunkReq'[r].at \in Told => tracker'[chunkReq'[r].t].done = "closed"
                 /\ chunkReq'[r].at = "wait" /\ ~chunkReq'[r].woken => tracker'[chunkReq'[r].t].done = "open"
      <4>1. CASE r = q
        BY <3>0, <4>1
      <4>2. CASE r # q
        <5>1. chunkReq'[r].at \in Owning \cup {"wait"} => chunkReq'[r].t \in Trackers \ {t}
          BY <1>0, <2>2, <2>8, <4>2 DEF Held, Attached
        <5> QED
          BY <1>0, <2>8, <2>9, <3>0, <4>2, <5>1 DEF Owners
      <4> QED
        BY <4>1, <4>2
    <3> QED
      BY <3>1, <3>2 DEF Owners
  <2>14. Opened'
    <3> SUFFICES ASSUME NEW s \in Trackers, Reached(s)', tracker'[s].done = "open"
                 PROVE  \E r \in Reqs : chunkReq'[r].t = s /\ chunkReq'[r].at \in Chunk!Winning
      BY DEF Opened
    <3>1. s # t
      BY <2>3, <2>9
    <3>2. Reached(s)
      <4>1. CASE \E r \in Reqs : chunkReq'[r].t = s
        BY <2>1, <2>8, <3>1, <4>1 DEF Reached
      <4>2. CASE \E m \in Nodes, v \in Uploads : uploads'[m][v] = s
        BY <2>6, <2>7, <3>1, <4>2 DEF Reached
      <4> QED
        BY <4>1, <4>2 DEF Reached
    <3>3. PICK r \in Reqs : chunkReq[r].t = s /\ chunkReq[r].at \in Chunk!Winning
      BY <1>0, <2>9, <3>1, <3>2 DEF Opened
    <3>4. r # q
      BY <1>1, <3>3 DEF Chunk!Winning
    <3> QED
      BY <2>8, <3>3, <3>4
  <2>15. Leases' /\ Chunk!PermitReturned'
    BY <1>1, <2>1, LocksStay DEF Permitted, Chunk!Leased
  <2>16. Lates'
    BY <1>1, <2>1, LatesStay
  <2>17. Results' /\ Chunk!AnswerTrue'
    <3>1. ASSUME NEW s \in Trackers, tracker'[s].result \in 1 .. MaxPublished
          PROVE  tracker'[s].u \in Uploads /\ tracker'[s].result <= published'[tracker'[s].u]
      <4>1. s # t
        BY <2>3, <2>9, <3>1, ChunkAssumed
      <4> QED
        BY <1>0, <1>1, <2>9, <3>1, <4>1 DEF Results
    <3>2. \A m \in Nodes, v \in Uploads : outcomes'[m][v] # Nothing => outcomes'[m][v] <= published'[v]
      BY <1>0, <1>1 DEF Results
    <3>3. \A r \in Reqs \ {q} : chunkReq'[r].out = chunkReq[r].out
      BY <2>1 DEF Steady, AsBefore
    <3>4. \A r \in Reqs : /\ chunkReq'[r].at \in Decided => chunkReq'[r].out \in {Reset, Drop} \cup (1 .. published'[chunkReq'[r].u])
                          /\ chunkReq'[r].at \in Told \ {"settle"} => chunkReq'[r].out \notin {Reset, Drop}
                          /\ chunkReq'[r].at = "id" => chunkReq'[r].out \in 1 .. published'[chunkReq'[r].u]
      <4>1. chunkReq'[q].at \notin Decided /\ chunkReq'[q].at \notin Told /\ chunkReq'[q].at # "id"
        BY <2>1 DEF Decided, Told
      <4>2. Chunk!AnswerTrue
        BY CInvParts
      <4> QED
        BY <1>0, <1>1, <2>8, <3>3, <4>1, <4>2 DEF Results, Chunk!AnswerTrue
    <3> QED
      BY <3>1, <3>2, <3>4 DEF Results, Chunk!AnswerTrue
  <2>18. Chunk!StagingBounded'
    <3> SUFFICES ASSUME NEW m \in Nodes PROVE TotalSize * Cardinality(Keys(m)') <= MaxStaging
      BY ChunkCounts DEF Chunk!StagingBounded, Chunk!reservedStagingBytes, Keys
    <3>1. TotalSize * Cardinality(Keys(m)) <= MaxStaging
      BY <1>0, ChunkCounts DEF Chunk!StagingBounded, Chunk!reservedStagingBytes, Keys
    <3>2. CASE m # n
      <4>1. Keys(m)' = Keys(m)
        BY <2>7, <3>2 DEF Keys
      <4> HIDE DEF Keys
      <4> QED
        BY <3>1, <4>1
    <3>3. CASE m = n
      <4>1. Keys(m)' = Keys(m) \cup {u} /\ u \notin Keys(m) /\ Keys(m) \subseteq Uploads
        BY <1>0, <1>2, <1>6, <2>6, <2>7, <3>3 DEF Keys
      <4>2. IsFiniteSet(Keys(m))
        BY <4>1, FS_Subset, ChunkAssumed
      <4>3. TotalSize * Cardinality(Keys(m)) <= MaxStaging - TotalSize
        BY <1>6, <3>3, ChunkCounts DEF Chunk!EnterWithRoom, Chunk!validateUploadByKey, Chunk!reservedStagingBytes, Keys
      <4>4. TotalSize \in Nat /\ MaxStaging \in Nat
        BY ChunkAssumed
      <4> HIDE DEF Keys
      <4>5. Cardinality(Keys(m)') = Cardinality(Keys(m)) + 1 /\ Cardinality(Keys(m)) \in Nat
        BY <4>1, <4>2, FS_AddElement, FS_CardinalityType
      <4>6. TotalSize * (Cardinality(Keys(m)) + 1) = TotalSize * Cardinality(Keys(m)) + TotalSize /\ TotalSize * Cardinality(Keys(m)) \in Nat
        BY <4>4, <4>5
      <4> QED
        BY <4>3, <4>4, <4>5, <4>6
    <3> QED
      BY <3>2, <3>3
  <2> QED
    BY <2>10, <2>11, <2>12, <2>13, <2>14, <2>15, <2>16, <2>17, <2>18 DEF CInv
<1> QED
  BY <1>4, <1>5, <1>6 DEF Chunk!GetOrCreateUpload

-----------------------------------------------------------------------------
(* Uploads in byte ranges: the theorem *)

\* The invariant holds initially.
LEMMA InitCInv ==
    ASSUME Chunk!ChunkUploadAssumption, Chunk!Init
    PROVE  CInv
<1>0. /\ Nothing \notin Trackers /\ MaxPublished \in Nat /\ MaxStaging \in Nat /\ TotalSize \in Nat /\ Nothing \notin 1 .. MaxPublished
      /\ Nothing \notin Reqs
  BY ChunkAssumed
<1>1. /\ uploads = [n \in Nodes |-> [u \in Uploads |-> Nothing]] /\ tracker = [t \in Trackers |-> Chunk!Fresh]
      /\ outcomes = [n \in Nodes |-> [u \in Uploads |-> Nothing]] /\ cleaned = [n \in Nodes |-> {}]
      /\ permit = [n \in Nodes |-> Nothing] /\ lease = Nothing
      /\ published = [u \in Uploads |-> 0] /\ chunkReq = [q \in Reqs |-> Chunk!Done]
  BY DEF Chunk!Init
<1>2. \A q \in Reqs : chunkReq[q] \in ChunkRequest /\ chunkReq[q].at = "done" /\ chunkReq[q].t = Nothing /\ chunkReq[q].late = FALSE
  BY <1>1, DoneChunk
<1>3. Shaped(Chunk!Fresh) /\ Chunk!Fresh.done = "nil" /\ Chunk!Fresh.result = Nothing /\ Chunk!Fresh.finalizing = FALSE
  BY DEF Shaped, Chunk!Fresh
<1>4. \A t \in Trackers : Shaped(tracker[t]) /\ tracker[t].done = "nil" /\ tracker[t].result = Nothing /\ tracker[t].finalizing = FALSE
  BY <1>1, <1>3
<1>5. ChunkTypes
  <2>1. chunkReq \in [Reqs -> ChunkRequest] /\ tracker = [t \in Trackers |-> tracker[t]]
    BY <1>1, DoneChunk
  <2>2. /\ uploads \in [Nodes -> [Uploads -> Trackers \cup {Nothing}]] /\ outcomes \in [Nodes -> [Uploads -> (1 .. MaxPublished) \cup {Nothing}]]
        /\ cleaned \in [Nodes -> SUBSET Uploads] /\ permit \in [Nodes -> Reqs \cup {Nothing}] /\ published \in [Uploads -> 0 .. MaxPublished]
    BY <1>0, <1>1
  <2> QED
    BY <1>4, <2>1, <2>2 DEF ChunkTypes, Chunk!Outcome, Shaped
<1>6. (\A q \in Reqs : Held(q)) /\ Owners /\ Leases /\ Chunk!AnswerTrue
  BY <1>0, <1>2 DEF Held, Owners, Leases, Chunk!AnswerTrue, Attached, Owning, Chunk!Winning, Told, Chunk!Leased
<1>7. Entered /\ Opened
  BY <1>1, <1>4 DEF Entered, Opened
<1>8. Chunk!PermitReturned
  BY <1>0, <1>1, <1>2 DEF Chunk!PermitReturned, Chunk!Leased
<1>9. Results
  BY <1>0, <1>1, <1>2, <1>4 DEF Results, Decided, Told
<1>10. Lates
  BY <1>1, <1>2 DEF Lates, Chunk!LateRetryAnswered
<1>11. Chunk!StagingBounded
  <2> SUFFICES ASSUME NEW n \in Nodes PROVE TotalSize * Cardinality(Keys(n)) <= MaxStaging
    BY ChunkCounts DEF Chunk!StagingBounded, Chunk!reservedStagingBytes, Keys
  <2>1. Keys(n) = {}
    BY <1>1 DEF Keys
  <2>2. Cardinality(Keys(n)) = 0
    BY <2>1, FS_EmptySet
  <2> QED
    BY <1>0, <2>2
<1> QED
  BY <1>5, <1>6, <1>7, <1>8, <1>9, <1>10, <1>11 DEF CInv

\* Every step keeps it.
LEMMA NextCInv ==
    ASSUME Chunk!ChunkUploadAssumption, CInv, [Chunk!Next]_Chunk!vars
    PROVE  CInv'
<1>1. ASSUME NEW q \in Reqs, NEW n \in Nodes, NEW u \in Uploads, NEW c \in Chunk!Chunks, Chunk!HandleUpload(q, n, u, c) PROVE CInv'
  BY <1>1, HandleUploadKeeps
<1>2. ASSUME NEW q \in Reqs, Chunk!Receive(q) PROVE CInv'
  BY <1>2, CreateKeeps, WriteKeeps, ClaimFinalizationKeeps, AwaitKeeps DEF Chunk!Receive
<1>3. ASSUME NEW q \in Reqs, Chunk!Finalize(q) PROVE CInv'
  BY <1>3, StreamingKeeps, PermitKeeps, LeaseKeeps, CommitKeeps, UpdateHeadKeeps, ReleaseLeaseKeeps, ReleasePermitKeeps DEF Chunk!Finalize
<1>4. ASSUME NEW q \in Reqs, Chunk!Settle(q) PROVE CInv'
  BY <1>4, PublishKeeps, CacheKeeps, CleanupTrackedKeeps, CountKeeps, SettleKeeps DEF Chunk!Settle
<1>5. ASSUME NEW q \in Reqs, Chunk!renewSeafHTTPUploadFinalizeLease(q) \/ Chunk!FinalizationPanics(q) \/ Chunk!Read(q) PROVE CInv'
  BY <1>5, RenewKeeps, PanicKeeps, ReadKeeps
<1>6. ASSUME NEW n \in Nodes, NEW u \in Uploads, Chunk!sweepOnce(n, u) \/ Chunk!pruneFinalizeOutcomes(n, u) PROVE CInv'
  BY <1>6, SweepKeeps, PruneKeeps
<1>7. ASSUME NEW t \in Trackers, Chunk!Cleanup(t) PROVE CInv'
  BY <1>7, CloseSweptKeeps
<1>8. ASSUME NEW n \in Nodes, Chunk!Crash(n) PROVE CInv'
  BY <1>8, NodeCrashKeeps
<1>9. CASE Chunk!LeaseExpires \/ Chunk!OtherWriter
  BY <1>9, LeaseExpiresKeeps, OtherWriterKeeps
<1>10. CASE UNCHANGED Chunk!vars
  <2>1. UNCHANGED <<uploads, outcomes, cleaned, tracker, permit, lease, published, chunkReq>>
    BY <1>10 DEF Chunk!vars, Chunk!managerVars, Chunk!lockVars
  <2>2. ChunkTypes /\ chunkReq \in [Reqs -> ChunkRequest] /\ Nothing \notin Reqs
    BY CInvParts, ChunkAssumed
  <2>3. SameTrackers /\ Shrinks /\ Steady(Nothing)
    BY <2>1, <2>2, Unmoved, StillSteady
  <2> QED
    BY <2>1, <2>2, <2>3, QuietKeeps
<1> QED
  BY <1>1, <1>2, <1>3, <1>4, <1>5, <1>6, <1>7, <1>8, <1>9, <1>10 DEF Chunk!Next

\* It implies what the theorem states.
LEMMA CInvHolds ==
    ASSUME Chunk!ChunkUploadAssumption, CInv
    PROVE  /\ Chunk!OneFinalizer /\ Chunk!NoLostWaiter /\ Chunk!LeaseExclusive /\ Chunk!PermitReturned /\ Chunk!AnswerTrue /\ Chunk!StagingBounded
           /\ "expire" \notin Faults => Chunk!LateRetryAnswered
<1>0. Owners /\ Opened /\ Leases /\ Lates /\ Chunk!PermitReturned /\ Chunk!AnswerTrue /\ Chunk!StagingBounded /\ \A q \in Reqs : Held(q)
  BY CInvParts
<1>1. Chunk!OneFinalizer
  <2> SUFFICES ASSUME NEW t \in Trackers
               PROVE  LET winners == {q \in Reqs : chunkReq[q].t = t /\ chunkReq[q].at \in Chunk!Winning}
                      IN  Cardinality(winners) <= 1 /\ (winners # {} => tracker[t].done = "open")
    BY ChunkCounts DEF Chunk!OneFinalizer
  <2> DEFINE winners == {q \in Reqs : chunkReq[q].t = t /\ chunkReq[q].at \in Chunk!Winning}
  <2>1. \A q, r \in winners : q = r
    BY <1>0 DEF Owners, Owning
  <2>2. winners # {} => tracker[t].done = "open"
    BY <1>0 DEF Owners
  <2> HIDE DEF winners
  <2>3. Cardinality(winners) <= 1
    BY <2>1, AtMostOne
  <2> QED
    BY <2>2, <2>3 DEF winners
<1>2. Chunk!NoLostWaiter
  <2> SUFFICES ASSUME NEW q \in Reqs, chunkReq[q].at = "wait", ~chunkReq[q].woken PROVE \E r \in Reqs : chunkReq[r].at \in Chunk!Winning /\ chunkReq[r].t = chunkReq[q].t
    BY DEF Chunk!NoLostWaiter
  <2>1. chunkReq[q].t \in Trackers /\ tracker[chunkReq[q].t].done = "open" /\ Reached(chunkReq[q].t)
    BY <1>0 DEF Held, Attached, Owners, Reached
  <2> QED
    BY <1>0, <2>1 DEF Opened
<1>3. Chunk!LeaseExclusive
  BY <1>0 DEF Chunk!LeaseExclusive, Leases
<1> QED
  BY <1>0, <1>1, <1>2, <1>3 DEF Lates

\* Uploads in byte ranges through /seafhttp/upload, for every number of instances, uploads, requests and
\* trackers, every size and every fault.  One request at a time finalises a tracker, and it is the one that
\* closes its channel (ClaimFinalization, publishFinalizeOutcome); who waits on it has been woken or will
\* be, also when the finalisation fails, panics or is reset (AwaitOutcome); two finalisations publish
\* together only when one has let its lease lapse (acquireSeafHTTPDistributedUploadFinalizeLease); the
\* permit of the library is held just while a finalisation may publish, and given back on every way out
\* (acquireChunkedUploadLibraryFinalizePermit); an answer with a file names one that was published for that
\* upload; the trackers of an instance reserve no more than the staging limit (GetOrCreateUpload).  A chunk
\* sent again after the success is answered with the file, unless outcomes expire
\* (LookupFinalizeOutcome; all of seafhttp.go).
THEOREM ChunksFinalized ==
    Chunk!ChunkUploadAssumption =>
      (Chunk!Spec => [](/\ Chunk!OneFinalizer /\ Chunk!NoLostWaiter /\ Chunk!LeaseExclusive /\ Chunk!PermitReturned /\ Chunk!AnswerTrue /\ Chunk!StagingBounded
                        /\ "expire" \notin Faults => Chunk!LateRetryAnswered))
<1> SUFFICES ASSUME Chunk!ChunkUploadAssumption
             PROVE  Chunk!Spec => [](/\ Chunk!OneFinalizer /\ Chunk!NoLostWaiter /\ Chunk!LeaseExclusive /\ Chunk!PermitReturned /\ Chunk!AnswerTrue /\ Chunk!StagingBounded
                                     /\ "expire" \notin Faults => Chunk!LateRetryAnswered)
  OBVIOUS
<1>1. Chunk!Init => CInv
  BY InitCInv
<1>2. CInv /\ [Chunk!Next]_Chunk!vars => CInv'
  BY NextCInv
<1>3. CInv => /\ Chunk!OneFinalizer /\ Chunk!NoLostWaiter /\ Chunk!LeaseExclusive /\ Chunk!PermitReturned /\ Chunk!AnswerTrue /\ Chunk!StagingBounded
              /\ "expire" \notin Faults => Chunk!LateRetryAnswered
  BY CInvHolds
<1> QED
  BY <1>1, <1>2, <1>3, PTL DEF Chunk!Spec
=============================================================================
