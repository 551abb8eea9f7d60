------------------------------- MODULE MCSshRun -------------------------------
(* TLC instance of SshRun. *)
EXTENDS SshRun, TLC

ContentSymmetry == Permutations(Contents)
=============================================================================
