-------------------------- MODULE MCRotationPolicy --------------------------
(* Small instances of RotationPolicy for TLC. *)
EXTENDS RotationPolicy, TLC

\* Leases are interchangeable; keys are not, since policies order them.
Symmetry == Permutations(Leases)
=============================================================================
