---------------------------- MODULE PhysicalBlock ----------------------------
(***************************************************************************)
(* What the delete protocol promises about the physical incarnations of a  *)
(* block, abstracted from claims, orphan tables and replication: a storage *)
(* key is installed at most once, is condemned only while no published     *)
(* content depends on the block, never leaves the condemned state except   *)
(* into retirement, and content is published only on a live incarnation.   *)
(***************************************************************************)
CONSTANTS Keys, Attempts

VARIABLES
    st,     \* key -> "free", "live", "condemned" or "retired"
    pub     \* the published contents that depend on the block

Current == {k \in Keys : st[k] \in {"live", "condemned"}}

Init ==
    /\ st \in [Keys -> {"free", "live"}]
    /\ \A k, l \in Current : k = l
    /\ pub = {}

Install(k) ==
    /\ Current = {}
    /\ st[k] = "free"
    /\ st' = [st EXCEPT ![k] = "live"]
    /\ UNCHANGED pub

Condemn(k) ==
    /\ st[k] = "live"
    /\ pub = {}
    /\ st' = [st EXCEPT ![k] = "condemned"]
    /\ UNCHANGED pub

Retire(k) ==
    /\ st[k] = "condemned"
    /\ st' = [st EXCEPT ![k] = "retired"]
    /\ UNCHANGED pub

Publish(a) ==
    /\ \E k \in Keys : st[k] = "live"
    /\ pub' = pub \cup {a}
    /\ UNCHANGED st

Unpublish(a) ==
    /\ pub' = pub \ {a}
    /\ UNCHANGED st

Next ==
    \/ \E k \in Keys : Install(k) \/ Condemn(k) \/ Retire(k)
    \/ \E a \in Attempts : Publish(a) \/ Unpublish(a)

Spec == Init /\ [][Next]_<<st, pub>>
=============================================================================
