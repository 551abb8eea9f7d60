--------------------------- MODULE MCSafeDeleteRun ---------------------------
(* TLC instance of the Safe Delete run. *)
EXTENDS SafeDeleteRun, TLC

ContentSymmetry == Permutations(Contents)
=============================================================================
