---------------------------- MODULE MCAttestation ----------------------------
(* Model checking of Attestation. *)
EXTENDS Attestation, TLC

Symmetry == Permutations(Cves) \cup Permutations(Tasks)
=============================================================================
