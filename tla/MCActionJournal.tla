---------------------------- MODULE MCActionJournal ----------------------------
(* TLC instance of the action journal. *)
EXTENDS JournalReplay, TLC

ContentSymmetry == Permutations(Contents)
=============================================================================
