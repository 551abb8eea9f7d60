----------------------------- MODULE SourceDrain -----------------------------
(***************************************************************************)
(* What a Safe Delete run promises of each source it may remove: the       *)
(* abstract specification that the local driver (SafeDeleteRun) and the    *)
(* SSH driver (SshRun) implement.  There are no plans, rows, steps,        *)
(* failures or crashes here, only what the report says of a source, what   *)
(* is gone from it, and what was found at its destination.                 *)
(*                                                                         *)
(* A source goes only while the report already sends the user to look for  *)
(* it; it is reported as kept only if it is there, as removed only if it   *)
(* is gone and the destination was found to hold the same; and neither     *)
(* report is ever taken back.  A failure or a crash may cost the report    *)
(* its progress, never its truth.                                          *)
(***************************************************************************)

CONSTANTS
  Sources,  \* the removals a plan may hold
  Items,    \* what may be at a path
  None      \* nothing is

VARIABLES
  said,     \* what the report says of each source
  gone,     \* the item this run took from it
  found     \* the item the run found at its destination

drainVars == <<said, gone, found>>

Blank ==
  /\ said = [s \in Sources |-> "none"]
  /\ gone = [s \in Sources |-> None]
  /\ found = [s \in Sources |-> None]

(* A run begins, or the resumption of one, with a report of its own.        *)
Begin ==
  /\ said' = [s \in Sources |-> "none"]
  /\ gone' = [s \in Sources |-> None]
  /\ found' = [s \in Sources |-> None]

Says(s, word) == said' = [said EXCEPT ![s] = word]

Undecided(s) == said[s] \in {"open", "review"}

Plan(s) ==
  /\ said[s] = "none"
  /\ Says(s, "open")
  /\ UNCHANGED <<gone, found>>

(* The run looks at the destination.                                        *)
Inspect(s, item) ==
  /\ Undecided(s) /\ gone[s] = None
  /\ found' = [found EXCEPT ![s] = item]
  /\ UNCHANGED <<said, gone>>

(* From here on the user is sent to look for the source.                    *)
Announce(s) ==
  /\ said[s] = "open"
  /\ Says(s, "review")
  /\ UNCHANGED <<gone, found>>

Take(s, item, seen) ==
  /\ said[s] = "review" /\ gone[s] = None
  /\ gone' = [gone EXCEPT ![s] = item]
  /\ found' = [found EXCEPT ![s] = seen]
  /\ UNCHANGED said

(* Failed, cancelled, interrupted, deferred or unresolved.                  *)
Spare(s) ==
  /\ Undecided(s) /\ gone[s] = None
  /\ Says(s, "kept")
  /\ UNCHANGED <<gone, found>>

Conclude(s) ==
  /\ said[s] = "review"
  /\ gone[s] # None /\ found[s] = gone[s]
  /\ Says(s, "removed")
  /\ UNCHANGED <<gone, found>>

Touch(s) ==
  \/ Plan(s) \/ Announce(s) \/ Spare(s) \/ Conclude(s)
  \/ \E item \in Items \cup {None} : Inspect(s, item)
  \/ \E item \in Items, seen \in Items \cup {None} : Take(s, item, seen)

Next == Begin \/ \E s \in Sources : Touch(s)

Spec == Blank /\ [][Next]_drainVars

-----------------------------------------------------------------------------
(* What follows from it.                                                    *)

(* What is gone is under review or reported as removed, and what is         *)
(* reported as removed is gone, with the same item at the destination.      *)
Truthful ==
  \A s \in Sources :
    /\ gone[s] # None => said[s] \in {"review", "removed"}
    /\ said[s] = "removed" => gone[s] # None /\ found[s] = gone[s]
=============================================================================
