----------------------------- MODULE BlockState -----------------------------
(***************************************************************************)
(* The state that block deletion and publication share, for ONE logical    *)
(* block L of one organisation: the canonical Cassandra row blocks(L), the *)
(* objects in S3, the liveness references of L and the durable publication *)
(* repairs.  Every conditional write (an LWT) is linearised at its CAS.    *)
(*                                                                         *)
(* internal/gc/store_cassandra.go and internal/db/block_references.go      *)
(***************************************************************************)
EXTENDS Naturals, FiniteSets

CONSTANTS
    Keys,       \* physical storage keys; each one is minted at most once
    NoKey,
    Auths,      \* delete authorities D (gc_claim_id); one per claim attempt
    NoAuth,
    Writers,    \* upload requests
    Attempts,   \* publication attempts (commit ids)
    DCs,        \* datacenters that serve upload requests
    Home,       \* the datacenter of each writer
    Installed,  \* the key blocks(L) names initially, or NoKey
    Faults      \* which failures happen: processes that die, LWTs that time out

ASSUME StateAssumption ==
    /\ NoKey \notin Keys
    /\ NoAuth \notin Auths
    /\ Home \in [Writers -> DCs]
    /\ Installed \in Keys \cup {NoKey}
    /\ Faults \subseteq {"worker", "recoverer", "writer", "sweep", "timeout"}

VARIABLES
    row,        \* blocks(L), as a SERIAL read sees it
    seen,       \* blocks(L), as a LOCAL_QUORUM read in each DC sees it
    obj,        \* the keys that hold an S3 object
    upRefs,     \* up:<operation> references, TTL-bound
    pubRefs,    \* pub:<attempt> references, TTL-bound
    fsRefs,     \* fs:<object> references, permanent
    repairs     \* publication repair rows, not expiring

refVars == <<upRefs, pubRefs, fsRefs, repairs>>
stateVars == <<row, seen, obj, upRefs, pubRefs, fsRefs, repairs>>

\* The columns storage_key, gc_claim_id (with gc_state and gc_claimed_at) and
\* gc_orphan_handoff; the absent row is the one without a key.
Row == [key : Keys \cup {NoKey}, claim : Auths \cup {NoAuth}, handoff : BOOLEAN]
NoRow == [key |-> NoKey, claim |-> NoAuth, handoff |-> FALSE]
FreshRow(k) == [key |-> k, claim |-> NoAuth, handoff |-> FALSE]

\* block_references(L) has a row: what an EACH_QUORUM read of it returns.
Referenced == upRefs \cup pubRefs \cup fsRefs # {}

\* A LOCAL_QUORUM read of the references may miss one written in another DC.
ReadsReference(b) == b => Referenced

\* The write is acknowledged in, or the read repairs, a quorum of every DC.
VisibleEverywhere(r) == [dc \in DCs |-> r]

\* The client gives up on an LWT before it learns whether it applied.
Timeout == "timeout" \in Faults

StateInit ==
    /\ row = FreshRow(Installed)
    /\ seen = VisibleEverywhere(FreshRow(Installed))
    /\ obj = {Installed} \cap Keys
    /\ upRefs = {} /\ pubRefs = {} /\ fsRefs = {} /\ repairs = {}

StateTypeOK ==
    /\ row \in Row
    /\ seen \in [DCs -> Row]
    /\ obj \subseteq Keys
    /\ upRefs \subseteq Writers
    /\ pubRefs \subseteq Attempts
    /\ fsRefs \subseteq Attempts
    /\ repairs \subseteq Attempts

\* Replication brings a datacenter up to date.
Replicate(dc) ==
    /\ seen[dc] # row
    /\ seen' = [seen EXCEPT ![dc] = row]
    /\ UNCHANGED <<row, obj, refVars>>
=============================================================================
