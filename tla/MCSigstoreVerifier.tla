-------------------------- MODULE MCSigstoreVerifier --------------------------
(* Instances of SigstoreVerifier for TLC: a root that is rotated out, the one
   that replaces it and one no verifier can be built from; a bundle that only
   the first accepts, one that only the second does, and a malformed one. *)
EXTENDS SigstoreVerifier

CONSTANTS old, new, broken, early, late, malformed, t1, t2

MCValid == {<<early, old>>, <<late, new>>} \cap (Bundle \X Root)
=============================================================================
