------------------------------- MODULE MCMirror -------------------------------
(* TLC instance of Mirror. *)
EXTENDS Mirror, TLC

(* Contents are compared for equality only. *)
ContentSymmetry == Permutations(Contents)

(* Where TLC stops.  After the last run only edits are left, and nothing reads
   the files any more.  An edit before the first run and its review leads to
   another initial state, only with more in agreed and fewer edits to come.
   A review with a possible duplicate never revalidates, whatever its decisions
   are: its paths have the decision on a conflict and that one.               *)
StillToSee ==
  /\ run = NoRun => runs < MaxRuns
  /\ edits > 0 => runs > 0 \/ review # NoReview
  /\ review # NoReview =>
       \/ \A e \in DOMAIN review.decisions : e.kind = "same_path"
       \/ \A e \in DOMAIN review.decisions : review.decisions[e] = "defer"
=============================================================================
