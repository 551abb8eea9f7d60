------------------------ MODULE MCVerifiedReplacement ------------------------
(* TLC instance of the Verified Replacement. *)
EXTENDS VerifiedReplacement, TLC

CONSTANTS a, b
ByteSymmetry == Permutations({a, b})
=============================================================================
