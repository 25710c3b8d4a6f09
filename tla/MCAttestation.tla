---------------------------- MODULE MCAttestation ----------------------------
(* Instances of Attestation for TLC. *)
EXTENDS Attestation, TLC

CONSTANTS c1, c2

CallerSymmetry == Permutations(Caller)
=============================================================================
