--------------------------- MODULE MCHazardDomain ---------------------------
(* Instances of HazardDomain for TLC. *)
EXTENDS HazardDomain, TLC

Symmetry == Permutations(Acquirers) \union Permutations(Releasers)
=============================================================================
