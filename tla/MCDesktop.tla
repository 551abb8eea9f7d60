------------------------------ MODULE MCDesktop ------------------------------
(* TLC instance of Desktop. *)
EXTENDS Desktop, TLC
=============================================================================
