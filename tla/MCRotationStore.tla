-------------------------- MODULE MCRotationStore --------------------------
(* Small instances of RotationStore for TLC. *)
EXTENDS RotationStore, TLC

\* Keys and leases are interchangeable: no definition orders them.
Symmetry == Permutations(Keys) \cup Permutations(Leases)
=============================================================================
