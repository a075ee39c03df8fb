---------------------------- MODULE MCMoulCache ----------------------------
(* Instances of MoulCache for TLC. *)
EXTENDS MoulCache, TLC

Symmetry == Permutations(Readers) \cup Permutations(Writers)

=============================================================================
