---------------------------- MODULE ActionJournal ----------------------------
(***************************************************************************)
(* The durable action journal of one run: the rows of table action_events  *)
(* and the checks RunEvidenceStore::append_event makes, inside one         *)
(* immediate transaction, before it inserts a row.  The journal trusts no  *)
(* caller: every event of every kind may be offered at any time, and what  *)
(* keeps the table meaningful is only what append_event refuses.  The one  *)
(* thing taken from the caller is that persist_plan writes the Planned     *)
(* rows of the whole plan, in plan order, before anything else.            *)
(*                                                                         *)
(* Data.  A content value stands for what the code compares of a file: its *)
(* size and, for a regular file, its SHA-256.  NoContent is a missing size *)
(* or digest.  The four presence columns of a RecoveryEvidence are told    *)
(* apart only as far as the checks do (Sides).  Relative paths, byte       *)
(* counts and reasons are left out: append_event stores them unread, and   *)
(* the row as written is complete.  The recovery provenance is stored      *)
(* unread too, but load_journal refuses one that is half recorded.         *)
(***************************************************************************)
EXTENDS Naturals, Sequences

CONSTANTS
  NumActions,   \* actions of the plan, numbered from 1 in plan order
  Operations,   \* the PlanActionKinds the plan may hold
  Contents,     \* distinguishable file contents
  NoContent,    \* no size or no digest was recorded
  MaxProgress,  \* bound: Progress rows of one action
  MaxTime       \* bound: filesystem observation times are 0..MaxTime

ASSUME JournalAssumption ==
  /\ NumActions \in Nat
  /\ Operations \subseteq {"copy", "overwrite", "remove_source", "remove_destination"}
  /\ NoContent \notin Contents
  /\ MaxProgress \in Nat
  /\ MaxTime \in Nat

VARIABLES
  method,   \* the run snapshot's frozen deletion method, NoMethod without Safe Delete
  events    \* events[a] is the sequence of rows of action a

vars == <<method, events>>

-----------------------------------------------------------------------------
(* Rows. *)

Actions == 1..NumActions
NoMethod == "none"
NoOperation == "none"
Methods == {"trash", "permanent"}
TransferOperations == {"copy", "overwrite", "remove_source"}

(* What the presence columns of an evidence say.  "transferred": source and *)
(* destination present, no recovery entry and no recovery target;           *)
(* "trashed": source absent, destination present, recovery entry present at *)
(* a named target; "erased": source absent, destination present, no         *)
(* recovery entry or target; "unproven": any other combination.             *)
Sides == {"transferred", "trashed", "erased", "unproven"}

Phases ==
  {"planned", "started", "progress", "transfer_verified", "proof_boundary",
   "removal_started", "removal_completed", "completed", "failed", "cancelled",
   "interrupted", "deferred", "unresolved", "recovery_review", "recovery_resolved"}

(* What an evidence records of where a removed item came from.  "none":     *)
(* nothing; "whole": the provenance, and size and digest of the removed     *)
(* item; "bare": the provenance without the removed item's size or digest;  *)
(* "torn": the provenance beside a size of the source without its digest,   *)
(* or the other way round.                                                  *)
Provenances == {"none", "whole", "bare", "torn"}

(* A RecoveryEvidence with the metadata_verified flag stored beside it.     *)
Evidence ==
  [src : Contents \cup {NoContent}, dst : Contents \cup {NoContent},
   sides : Sides, metadata : BOOLEAN, provenance : Provenances]

NoEvidence ==
  [src |-> NoContent, dst |-> NoContent, sides |-> "unproven", metadata |-> FALSE,
   provenance |-> "none"]

Row ==
  [phase : Phases, op : Operations \cup {NoOperation}, planned : Contents \cup {NoContent},
   evidence : Evidence, method : Methods \cup {NoMethod},
   completes : BOOLEAN, at : 0..MaxTime]

Event(p) ==
  [phase |-> p, op |-> NoOperation, planned |-> NoContent, evidence |-> NoEvidence,
   method |-> NoMethod, completes |-> FALSE, at |-> 0]

Planned(op, c) == [Event("planned") EXCEPT !.op = op, !.planned = c]

TransferVerified(ev) == [Event("transfer_verified") EXCEPT !.evidence = ev]

ProofBoundary(ev, meth) ==
  [Event("proof_boundary") EXCEPT !.evidence = ev, !.method = meth]

RemovalStarted(meth) == [Event("removal_started") EXCEPT !.method = meth]

RemovalCompleted(ev, meth) ==
  [Event("removal_completed") EXCEPT !.evidence = ev, !.method = meth]

RecoveryReview(t) == [Event("recovery_review") EXCEPT !.at = t]

RecoveryResolved(c, t) ==
  [Event("recovery_resolved") EXCEPT !.completes = c, !.at = t]

(* The same row with an evidence whose provenance is torn.                  *)
Torn(e) == [e EXCEPT !.evidence.provenance = "torn"]

-----------------------------------------------------------------------------
(* What append_event reads from the table. *)

HasPlan(a) == events[a] # <<>>
PlanRow(a) == events[a][1]
PlannedOp(a) == IF HasPlan(a) THEN PlanRow(a).op ELSE NoOperation
LastRow(a) == events[a][Len(events[a])]
LastPhase(a) == IF HasPlan(a) THEN LastRow(a).phase ELSE "none"

SettledPhases ==
  {"completed", "failed", "cancelled", "interrupted", "deferred", "unresolved",
   "removal_completed", "recovery_resolved"}

WorkingPhases ==
  {"started", "progress", "transfer_verified", "proof_boundary", "removal_started"}

(* The rows of action a that record phase p, as positions. *)
RowsOf(a, p) == {i \in 1..Len(events[a]) : events[a][i].phase = p}

-----------------------------------------------------------------------------
(* The checks append_event makes; a row that fails any of them is refused. *)

(* The phases one phase may follow: the transition table at the end of      *)
(* validate_event.  "none" stands for an action without rows.               *)
FirstBoundary == {"none"}

\* Faulty variant: only a planned action can be cancelled or interrupted.
OnlyPlanned == {"planned"}

NothingDone == {"planned", "started", "progress"}

MayFollow(p) ==
  CASE p = "planned" -> FirstBoundary
    [] p = "started" -> {"planned"}
    [] p \in {"progress", "transfer_verified"} -> {"started", "progress"}
    [] p = "proof_boundary" -> {"transfer_verified"}
    [] p = "removal_started" -> {"proof_boundary"}
    [] p = "removal_completed" -> {"removal_started"}
    [] p = "recovery_resolved" -> {"recovery_review"}
    [] p \in {"completed", "failed", "deferred", "unresolved", "recovery_review"} -> WorkingPhases
    [] p \in {"cancelled", "interrupted"} -> NothingDone

(* An evidence that both sides hold a complete, known content. *)
BothSidesProven(ev) ==
  /\ ev.metadata
  /\ ev.sides = "transferred"
  /\ ev.src # NoContent
  /\ ev.dst # NoContent

\* Faulty variant: a removal completes without its chain of boundaries.
NoCompletionCheck(a, e) == TRUE

(* Only a RemovalCompleted settles a source removal. *)
SettlesThroughRemoval(a, e) ==
  PlannedOp(a) = "remove_source" =>
    /\ e.phase # "completed"
    /\ ~(e.phase = "recovery_resolved" /\ e.completes)

(* Every removal boundary carries the method frozen in the run snapshot. *)
FrozenMethod(a, e) ==
  e.phase \in {"proof_boundary", "removal_started", "removal_completed"} =>
    /\ PlannedOp(a) = "remove_source"
    /\ e.method = method

(* A removal result shows the source gone and the outcome its method names. *)
RemovalOutcomeShown(e) ==
  /\ e.evidence.dst # NoContent
  /\ e.evidence.sides = IF e.method = "trash" THEN "trashed" ELSE "erased"

ValidEvent(a, e) ==
  /\ LastPhase(a) \in MayFollow(e.phase)
  /\ e.phase = "transfer_verified" =>
       BothSidesProven(e.evidence) /\ PlannedOp(a) \in TransferOperations
  /\ e.phase = "proof_boundary" => BothSidesProven(e.evidence)
  /\ SettlesThroughRemoval(a, e)
  /\ FrozenMethod(a, e)
  /\ e.phase = "removal_completed" => RemovalOutcomeShown(e)

(* The verified transfer is a transfer of the planned source. *)
TransferMatchesPlan(a, e) ==
  e.phase = "transfer_verified" =>
    /\ HasPlan(a)
    /\ PlanRow(a).planned # NoContent
    /\ e.evidence.src = PlanRow(a).planned

\* Faulty variant: the removal's result is not compared with its proof.
AnyResult(a, e) ==
  e.phase = "removal_completed" => RowsOf(a, "proof_boundary") # {}

(* The destination left behind is the one proved before the removal began. *)
RemovalMatchesProof(a, e) ==
  e.phase = "removal_completed" =>
    \E i \in RowsOf(a, "proof_boundary") :
      /\ \A j \in RowsOf(a, "proof_boundary") : j <= i
      /\ events[a][i].evidence.dst # NoContent
      /\ e.evidence.dst = events[a][i].evidence.dst

(* A later action advances only when every earlier one is settled.  Planned *)
(* is exempt, and so are Cancelled and Interrupted: they record that the    *)
(* action did nothing.                                                      *)
ExemptFromOrder == {"planned", "cancelled", "interrupted"}

\* Faulty variant: an open Recovery Review does not block later actions.
ReviewCountsAsSettled(a, e) ==
  e.phase \notin ExemptFromOrder =>
    \A b \in 1..(a - 1) :
      HasPlan(b) => LastPhase(b) \in SettledPhases \cup {"recovery_review"}

PriorActionsSettled(a, e) ==
  e.phase \notin ExemptFromOrder =>
    \A b \in 1..(a - 1) : HasPlan(b) => LastPhase(b) \in SettledPhases

(* Completing a reviewed action takes an inspection newer than the review's.*)
SameInspectionResolves(a, e) ==
  (e.phase = "recovery_resolved" /\ e.completes) =>
    \E i \in RowsOf(a, "recovery_review") :
      /\ \A j \in RowsOf(a, "recovery_review") : j <= i
      /\ e.at >= events[a][i].at

ResolutionIsNewer(a, e) ==
  (e.phase = "recovery_resolved" /\ e.completes) =>
    \E i \in RowsOf(a, "recovery_review") :
      /\ \A j \in RowsOf(a, "recovery_review") : j <= i
      /\ e.at > events[a][i].at

Accepts(a, e) ==
  /\ ValidEvent(a, e)
  /\ TransferMatchesPlan(a, e)
  /\ RemovalMatchesProof(a, e)
  /\ PriorActionsSettled(a, e)
  /\ ResolutionIsNewer(a, e)

AppendEvent(a, e) ==
  /\ Accepts(a, e)
  /\ events' = [events EXCEPT ![a] = Append(@, e)]
  /\ UNCHANGED method

-----------------------------------------------------------------------------
(* One action per event kind. *)

Init ==
  /\ method \in Methods \cup {NoMethod}
  /\ events = [a \in Actions |-> <<>>]

(* persist_plan: the rows of the plan, in plan order, before any other row. *)
PersistPlanned(a) ==
  /\ \A b \in 1..(a - 1) : HasPlan(b)
  /\ \E op \in Operations, c \in Contents : AppendEvent(a, Planned(op, c))

(* Any event may be offered once the plan is written. *)
Offer(a, e) ==
  /\ \A b \in Actions : HasPlan(b)
  /\ AppendEvent(a, e)

AppendStarted(a) == Offer(a, Event("started"))

AppendProgress(a) ==
  /\ LastPhase(a) = "progress" =>
       Len(events[a]) < MaxProgress + 2  \* bound: planned, started, then progress
  /\ Offer(a, Event("progress"))

(* The evidence offered for a verified transfer or a proof: complete, or    *)
(* with one thing missing.  Their provenance makes no difference: a torn    *)
(* one lacks a size or a digest of the source, and BothSidesProven refuses  *)
(* it; every other reads like none.                                         *)
Observations ==
  {ev \in Evidence :
     /\ ev.provenance = "none"
     /\ \/ /\ ev.sides = "transferred" /\ ev.metadata
           /\ ev.src # NoContent \/ ev.dst # NoContent
        \/ /\ ev.sides = "transferred" /\ ~ev.metadata
           /\ ev.src = ev.dst
        \/ /\ ev.sides = "unproven" /\ ev.metadata
           /\ ev.src = ev.dst}

(* The evidence offered for a removal: taken after the source is gone, with *)
(* any provenance.                                                          *)
RemovalObservations == {ev \in Evidence : ev.src = NoContent /\ ~ev.metadata}

AppendTransferVerified(a) == \E ev \in Observations : Offer(a, TransferVerified(ev))

(* No check compares the source side of a proof: settle_one offers the      *)
(* evidence of the transfer again.                                          *)
AppendProofBoundary(a) ==
  \E ev \in Observations, meth \in Methods :
    /\ ev.src # NoContent => HasPlan(a) /\ ev.src = PlanRow(a).planned
    /\ Offer(a, ProofBoundary(ev, meth))

AppendRemovalStarted(a) ==
  \E meth \in Methods : Offer(a, RemovalStarted(meth))

AppendRemovalCompleted(a) ==
  \E ev \in RemovalObservations, meth \in Methods : Offer(a, RemovalCompleted(ev, meth))

AppendSettled(a) ==
  \E p \in {"completed", "failed", "deferred", "unresolved"} : Offer(a, Event(p))

AppendUntouched(a) ==
  \E p \in {"cancelled", "interrupted"} : Offer(a, Event(p))

AppendRecoveryReview(a) ==
  \E t \in 0..MaxTime :
    /\ t < MaxTime  \* bound: leaves room for a newer inspection
    /\ Offer(a, RecoveryReview(t)) \/ Offer(a, Torn(RecoveryReview(t)))

AppendRecoveryResolved(a) ==
  \E c \in BOOLEAN, t \in 0..MaxTime :
    \/ Offer(a, RecoveryResolved(c, t))
    \/ c /\ Offer(a, Torn(RecoveryResolved(c, t)))

Next ==
  \E a \in Actions :
    \/ PersistPlanned(a)
    \/ AppendStarted(a)
    \/ AppendProgress(a)
    \/ AppendTransferVerified(a)
    \/ AppendProofBoundary(a)
    \/ AppendRemovalStarted(a)
    \/ AppendRemovalCompleted(a)
    \/ AppendSettled(a)
    \/ AppendUntouched(a)
    \/ AppendRecoveryReview(a)
    \/ AppendRecoveryResolved(a)

Spec == Init /\ [][Next]_vars

-----------------------------------------------------------------------------
(* Properties. *)

(* The table holds rows of the shape append_event writes, and an action has *)
(* one plan boundary, its first row (the has_plan and current_phase checks  *)
(* of validate_event).                                                      *)
TypeOK ==
  /\ method \in Methods \cup {NoMethod}
  /\ events \in [Actions -> Seq(Row)]
  /\ \A a \in Actions : \A i \in 1..Len(events[a]) :
       events[a][i].phase = "planned" <=> i = 1

(* The journal's frontier: an action that has done anything has only        *)
(* settled actions before it, so at most one is being worked on, and while  *)
(* one is open or waits for its Recovery Review every later action is still *)
(* planned, or was only cancelled or interrupted (validate_action_order:    *)
(* later work never runs past a boundary whose outcome is unknown).         *)
Untouched(a) == \A i \in 1..Len(events[a]) : events[a][i].phase \in ExemptFromOrder

FrontierInOrder ==
  \A a, b \in Actions : a < b /\ ~Untouched(b) => LastPhase(a) \in SettledPhases

(* A source recorded as removed was removed after its transfer was verified *)
(* against the planned content and its destination proved, by the method    *)
(* frozen in the snapshot, and the destination recorded afterwards is the   *)
(* one that was proved (validate_event, validate_transfer_event_against_    *)
(* plan and validate_removal_result_against_proof together).                *)
RemovalRestsOnProof ==
  \A a \in Actions : \A l \in RowsOf(a, "removal_completed") :
    \E i, j, k \in 1..Len(events[a]) :
      /\ i < j /\ j < k /\ k < l
      /\ events[a][i].phase = "transfer_verified"
      /\ events[a][i].evidence.src = PlanRow(a).planned
      /\ events[a][j].phase = "proof_boundary"
      /\ events[a][j].method = method
      /\ events[a][k].phase = "removal_started"
      /\ events[a][k].method = method
      /\ events[a][l].method = method
      /\ events[a][l].evidence.dst = events[a][j].evidence.dst
=============================================================================
