------------------------- MODULE MappingAuthority -------------------------
(***************************************************************************)
(* Promotion of one SHA-1 block id to a durable internal SHA-256 id        *)
(* (internal/db/block_mapping_authority.go) against the ordinary writers   *)
(* of block_id_mappings (internal/db/block_references.go).                 *)
(*                                                                         *)
(* The row of block_id_mappings is a last-write-wins cell in every         *)
(* datacenter. A write is on its way until it lands, so it may come late,  *)
(* twice in a row with others or (a hint that is dropped) never. The claim *)
(* is a linearizable cell written with IF NOT EXISTS. A read at            *)
(* EACH_QUORUM returns the newest cell and, by Cassandra's blocking read   *)
(* repair, leaves it in every datacenter it asked.                         *)
(***************************************************************************)
EXTENDS Integers
CONSTANTS Blocks,      \* internal SHA-256 ids
          Genuine,     \* those whose bytes hash to the SHA-1 id, in its representation
          DCs,         \* datacenters
          Promoters,   \* calls of PromoteBlockMappingAuthority
          Writers,     \* calls of WriteBlockIDMapping
          MaxClock,    \* the last ordinary timestamp
          None
ASSUME BlocksAssumption == Genuine \subseteq Blocks /\ None \notin Blocks
ASSUME ClockAssumption == MaxClock \in Nat

VARIABLES claim,    \* block_mapping_authority_claims: internal id or None
          cell,     \* block_id_mappings in each datacenter: [val, ts], ts = 0 when absent
          flight,   \* writes on their way: [dc, val, ts]
          used,     \* timestamps ordinary writers have taken
          stored,   \* blocks whose canonical row and bytes are there
          w,        \* writers: [pc, dc, val]
          p         \* promotions: [pc, dc, cand, auth, state]
vars == <<claim, cell, flight, used, stored, w, p>>

\* 1 << 62: later than every clock
Frozen == MaxClock + 1
Stamps == 0 .. Frozen
Cells == [val : Blocks \cup {None}, ts : Stamps]
Writes == [dc : DCs, val : Blocks, ts : Stamps \ {0}]
Absent == [val |-> None, ts |-> 0]
WriterStates == [pc : {"idle", "insert", "end"}, dc : DCs, val : Blocks]
Promotions == [pc : {"idle", "candidate", "prove", "claim", "settle", "decide", "freeze", "check", "end"},
               dc : DCs, cand : Blocks \cup {None}, auth : Blocks \cup {None}, state : {"unknown", "frozen", "diverged"}]

\* Types of the variables.
TypeOK ==
    /\ claim \in Blocks \cup {None} /\ cell \in [DCs -> Cells] /\ flight \in SUBSET Writes
    /\ used \in SUBSET (1 .. MaxClock) /\ stored \in SUBSET Blocks
    /\ w \in [Writers -> WriterStates] /\ p \in [Promoters -> Promotions]

Init ==
    /\ claim = None /\ cell = [d \in DCs |-> Absent] /\ flight = {} /\ used = {} /\ stored = {}
    /\ w \in [Writers -> [pc : {"idle"}, dc : DCs, val : Blocks]]
    /\ p \in [Promoters -> [pc : {"idle"}, dc : DCs, cand : {None}, auth : {None}, state : {"unknown"}]]
-----------------------------------------------------------------------------
(* Ordinary writers *)

getBlockIDMappingForWriteCheck(d) == cell[d].val
WriteBlockIDMapping(x) ==
    /\ w[x].pc = "idle"
    /\ w' = [w EXCEPT ![x].pc = IF getBlockIDMappingForWriteCheck(w[x].dc) = None THEN "insert" ELSE "end"]
    /\ UNCHANGED <<claim, cell, flight, used, stored, p>>
WriteVerifiedWebBlockMapping(x) == w[x].val \in Genuine /\ WriteBlockIDMapping(x)

\* The clocks of two coordinators need not agree: any timestamp that is not taken.
writeCheckedBlockIDMapping(x) ==
    /\ w[x].pc = "insert"
    /\ \E t \in (1 .. MaxClock) \ used :
         /\ used' = used \cup {t}
         /\ flight' = flight \cup {[dc |-> d, val |-> w[x].val, ts |-> t] : d \in DCs}
    /\ w' = [w EXCEPT ![x].pc = "end"]
    /\ UNCHANGED <<claim, cell, stored, p>>

\* A write lands: the newest timestamp wins.
Land(f) ==
    /\ cell' = [cell EXCEPT ![f.dc] = IF f.ts > cell[f.dc].ts THEN [val |-> f.val, ts |-> f.ts] ELSE cell[f.dc]]
    /\ flight' = flight \ {f}
    /\ UNCHANGED <<claim, used, stored, w, p>>
\* A write that timed out and whose hint is dropped.
Lose(f) == flight' = flight \ {f} /\ UNCHANGED <<claim, cell, used, stored, w, p>>

\* The upload and the garbage collection of a block.
Store(b) == stored' = stored \cup {b} /\ UNCHANGED <<claim, cell, flight, used, w, p>>
Collect(b) == stored' = stored \ {b} /\ UNCHANGED <<claim, cell, flight, used, w, p>>
-----------------------------------------------------------------------------
(* Promotion *)

\* Reads at EACH_QUORUM and at LOCAL_QUORUM.
readBlockMappingProjection(row) ==
    /\ \A e \in DCs : cell[e].ts <= row.ts
    /\ cell' = [d \in DCs |-> row]
GetBlockIDMapping(d) == cell[d].val
At(x, pc) == p[x].pc = pc
To(x, pc, cand, auth, state) == p' = [p EXCEPT ![x] = [pc |-> pc, dc |-> p[x].dc, cand |-> cand, auth |-> auth, state |-> state]]
Go(x, pc) == To(x, pc, p[x].cand, p[x].auth, p[x].state)

\* readAuthority: a claim that is there is frozen without a look at the row.
acquireBlockMappingClaim(x) ==
    /\ At(x, "idle")
    /\ IF claim # None THEN To(x, "decide", p[x].cand, claim, p[x].state) ELSE Go(x, "candidate")
    /\ UNCHANGED <<claim, cell, flight, used, stored, w>>
readCandidate(x) ==
    /\ At(x, "candidate")
    /\ IF GetBlockIDMapping(p[x].dc) = None THEN Go(x, "end")
       ELSE To(x, "prove", GetBlockIDMapping(p[x].dc), p[x].auth, p[x].state)
    /\ UNCHANGED <<claim, cell, flight, used, stored, w>>

\* A mutant: the row that nominates the candidate is taken as its proof.
blockMappingProvenanceConverged(b) == b \in stored
blockMappingProvenanceFromEvidence(b) == b \in stored /\ b \in Genuine
proveBlockMappingCandidate(x) ==
    /\ At(x, "prove")
    /\ Go(x, IF blockMappingProvenanceFromEvidence(p[x].cand) THEN "claim" ELSE "end")
    /\ UNCHANGED <<claim, cell, flight, used, stored, w>>

\* The LWT answers: the winner, this one or an earlier one, is what will be frozen.
claimBlockMappingAuthority(x) ==
    /\ At(x, "claim")
    /\ claim' = IF claim = None THEN p[x].cand ELSE claim
    /\ To(x, "decide", p[x].cand, claim', p[x].state)
    /\ UNCHANGED <<cell, flight, used, stored, w>>
\* The answer is lost: the claim is read to settle it.
claimUnknown(x) ==
    /\ At(x, "claim")
    /\ claim' \in {claim, IF claim = None THEN p[x].cand ELSE claim}
    /\ Go(x, "settle") /\ UNCHANGED <<cell, flight, used, stored, w>>
settledBlockMappingClaim(x) ==
    /\ At(x, "settle")
    /\ To(x, IF claim = None THEN "end" ELSE "decide", p[x].cand, claim, p[x].state)
    /\ UNCHANGED <<claim, cell, flight, used, stored, w>>

\* A mutant: a row that resolves to the authority need not be frozen.
blockMappingProjectionAgrees(row, authority) ==
    IF row.val # None /\ row.val # authority THEN "diverged" ELSE IF row.val = authority THEN "frozen" ELSE "unknown"
blockMappingProjectionDecision(row, authority) ==
    IF row.val # None /\ row.val # authority THEN "diverged" ELSE IF row.ts = Frozen THEN "frozen" ELSE "unknown"
freezeBlockMappingProjection(x) ==
    /\ At(x, "decide")
    /\ \E d \in DCs :
         /\ readBlockMappingProjection(cell[d])
         /\ LET s == blockMappingProjectionDecision(cell[d], p[x].auth) IN
              To(x, IF s = "unknown" THEN "freeze" ELSE "end", p[x].cand, p[x].auth, s)
    /\ UNCHANGED <<claim, flight, used, stored, w>>

\* UPDATE ... USING TIMESTAMP at EACH_QUORUM.
writeFrozen(x) ==
    /\ At(x, "freeze") /\ Go(x, "check")
    /\ cell' = [d \in DCs |-> [val |-> p[x].auth, ts |-> Frozen]]
    /\ UNCHANGED <<claim, flight, used, stored, w>>
\* The update fails: it may still land anywhere; the promotion ends without a frozen row.
writeFrozenFails(x) ==
    /\ At(x, "freeze") /\ Go(x, "end")
    /\ flight' = flight \cup {[dc |-> d, val |-> p[x].auth, ts |-> Frozen] : d \in DCs}
    /\ UNCHANGED <<claim, cell, used, stored, w>>
checkFrozen(x) ==
    /\ At(x, "check")
    /\ \E d \in DCs :
         /\ readBlockMappingProjection(cell[d])
         /\ To(x, "end", p[x].cand, p[x].auth, blockMappingProjectionDecision(cell[d], p[x].auth))
    /\ UNCHANGED <<claim, flight, used, stored, w>>
\* A read of the authority, the candidate, the block or the row fails.
Unavailable(x) ==
    /\ p[x].pc \in {"idle", "candidate", "prove", "settle", "decide", "check"}
    /\ Go(x, "end") /\ UNCHANGED <<claim, cell, flight, used, stored, w>>
ConsumableInternalID(x) == IF p[x].pc = "end" /\ p[x].state = "frozen" THEN p[x].auth ELSE None

promoteBlockMappingAuthority(x) ==
    \/ acquireBlockMappingClaim(x) \/ readCandidate(x) \/ proveBlockMappingCandidate(x) \/ claimBlockMappingAuthority(x) \/ claimUnknown(x)
    \/ settledBlockMappingClaim(x) \/ freezeBlockMappingProjection(x) \/ writeFrozen(x) \/ writeFrozenFails(x) \/ checkFrozen(x) \/ Unavailable(x)
Next ==
    \/ \E x \in Writers : WriteBlockIDMapping(x) \/ WriteVerifiedWebBlockMapping(x) \/ writeCheckedBlockIDMapping(x)
    \/ \E f \in flight : Land(f) \/ Lose(f)
    \/ \E b \in Blocks : Store(b) \/ Collect(b)
    \/ \E x \in Promoters : promoteBlockMappingAuthority(x)
Spec == Init /\ [][Next]_vars
-----------------------------------------------------------------------------
\* A claim names a block whose bytes were proved to hash to the SHA-1 id: a
\* row that merely converged is no authority, and no promotion claims for it.
ClaimGenuine == (claim # None => claim \in Genuine) /\ \A x \in Promoters : p[x].pc = "claim" => p[x].cand \in Genuine

\* What the certifier consumes stays what every reader resolves: once a
\* promotion has ended with a frozen row, the row of every datacenter holds
\* that id, whatever ordinary write was on its way, comes late or is replayed.
ConsumableHolds == \A x \in Promoters : ConsumableInternalID(x) # None => \A d \in DCs : GetBlockIDMapping(d) = ConsumableInternalID(x)

\* The inductive invariant behind them: a write with the frozen timestamp, in
\* a cell or on its way, carries the claim, and so does every promotion that
\* has an authority; a promotion that ended frozen left it in every datacenter.
FreezeSafe ==
    /\ \A d \in DCs : cell[d].ts = Frozen => claim # None /\ cell[d].val = claim
    /\ \A f \in flight : f.ts = Frozen => claim # None /\ f.val = claim
    /\ \A d \in DCs : cell[d].ts = 0 <=> cell[d].val = None
    /\ \A x \in Promoters : p[x].pc \in {"decide", "freeze", "check"} \/ p[x].auth # None => claim # None /\ p[x].auth = claim
    /\ \A x \in Promoters : p[x].state = "frozen" => claim # None /\ p[x].auth = claim /\ \A d \in DCs : cell[d].ts = Frozen
=============================================================================
