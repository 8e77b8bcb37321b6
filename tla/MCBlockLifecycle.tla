-------------------------- MODULE MCBlockLifecycle --------------------------
(* Instances of BlockLifecycle for TLC. *)
EXTENDS BlockLifecycle, TLC

CONSTANTS k1, k2, d1, d2, w1, w2, a1, a2, g1, g2, r1, r2, east, west, t1, t2

\* Every writer in the first datacenter, or the second one in its own.
HomeEast == [w \in Writers |-> east]
HomeSplit == [w \in Writers |-> IF w = w1 THEN east ELSE west]

\* Model values that no definition tells apart.
Symmetric == Permutations(Auths) \cup Permutations(Attempts) \cup Permutations(Stamps)
=============================================================================
