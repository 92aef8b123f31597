---------------------------- MODULE MCCoherence ----------------------------
(* Instances of Coherence for TLC. *)
EXTENDS Coherence, TLC

Symmetry == Permutations(Caches) \cup Permutations(Values)
=============================================================================
