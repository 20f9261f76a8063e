-------------------------- MODULE MCConfigChange --------------------------
(* Symmetry for the runs of ConfigChange. *)
EXTENDS ConfigChange, TLC

NetworkSymmetry == Permutations(NetworkWrites)
=============================================================================
