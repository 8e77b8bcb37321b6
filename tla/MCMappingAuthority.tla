------------------------ MODULE MCMappingAuthority ------------------------
(* Instances of MappingAuthority for TLC. *)
EXTENDS MappingAuthority, TLC
CONSTANTS a, b, c, d1, d2, p1, p2, w1, w2
Symmetric == Permutations(DCs) \cup Permutations(Promoters) \cup Permutations(Writers) \cup Permutations(Genuine)
===========================================================================
