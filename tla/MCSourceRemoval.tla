--------------------------- MODULE MCSourceRemoval ---------------------------
(* TLC instance of the source removal. *)
EXTENDS SourceRemoval

CONSTANTS a, b
=============================================================================
