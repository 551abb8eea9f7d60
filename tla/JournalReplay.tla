---------------------------- MODULE JournalReplay ----------------------------
(***************************************************************************)
(* Reading the journal back.  RunEvidenceStore::load_journal replays the   *)
(* rows of each action in sequence order (apply_stored_event) and refuses  *)
(* a journal it cannot explain (CorruptEvidence).  The transition table,   *)
(* the evidence checks and the outcomes are written a second time there,   *)
(* apart from those of append_event: the properties say where the two      *)
(* agree, for one row refused loses the report of the whole run, the only  *)
(* account of what it did to the user's files.  They agree on everything   *)
(* but the recovery provenance, which append_event does not look at.       *)
(***************************************************************************)
EXTENDS ActionJournal

Outcomes ==
  {"in_progress", "completed", "failed", "cancelled", "interrupted", "deferred",
   "unresolved", "recovery_review"}

(* An ActionJournalEntry; sound is FALSE once a row was refused as corrupt. *)
NoEntry ==
  [op |-> NoOperation, planned |-> NoContent, last |-> "none",
   transferred |-> FALSE, proved |-> FALSE, proof |-> NoContent, removed |-> FALSE,
   reviewed |-> FALSE, reviewAt |-> 0, resolved |-> FALSE,
   outcome |-> "in_progress", sound |-> TRUE]

(* validate_replayed_transition. *)
ReplayMayFollow(entry, p) ==
  CASE p = "started" -> entry.last = "planned"
    [] p = "progress" -> entry.last \in {"started", "progress"}
    [] p = "transfer_verified" ->
         /\ entry.op \in TransferOperations
         /\ entry.last \in {"started", "progress"}
         /\ ~entry.transferred
    [] p = "proof_boundary" ->
         /\ ~entry.proved
         /\ IF entry.op = "remove_source"
              THEN entry.last = "transfer_verified" /\ entry.transferred
              ELSE entry.last \in {"started", "progress"}
    [] p = "removal_started" -> entry.last = "proof_boundary" /\ entry.proved
    [] p = "removal_completed" ->
         entry.last = "removal_started" /\ entry.proved /\ ~entry.removed
    [] p = "recovery_review" -> entry.last \in WorkingPhases /\ ~entry.reviewed
    [] p = "recovery_resolved" ->
         entry.last = "recovery_review" /\ entry.reviewed /\ ~entry.resolved
    [] p \in {"cancelled", "interrupted"} -> entry.last \in {"planned", "started", "progress"}
    [] p \in {"completed", "failed", "deferred", "unresolved"} -> entry.last \in WorkingPhases
    [] OTHER -> FALSE

(* validate_replayed_deletion_method; configured is the snapshot's method.  *)
ReplayMethod(entry, e, configured) ==
  entry.op = "remove_source" /\ e.method = configured

(* decode_recovery_provenance, run on the evidence of a row that holds one, *)
(* and the demand of validate_removal_evidence that a removal with a        *)
(* provenance proves the removed item.                                      *)
WithEvidence ==
  {"transfer_verified", "proof_boundary", "removal_completed",
   "recovery_review", "recovery_resolved"}

Legible(e) ==
  /\ e.phase \in WithEvidence => e.evidence.provenance # "torn"
  /\ e.phase = "removal_completed" => e.evidence.provenance # "bare"

(* The evidence checks of apply_stored_event and of validate_transfer_      *)
(* evidence and validate_removal_evidence.                                  *)
ReplayEvidence(entry, e, configured) ==
  /\ Legible(e)
  /\ CASE e.phase = "transfer_verified" ->
            /\ BothSidesProven(e.evidence)
            /\ e.evidence.src = entry.planned
       [] e.phase = "proof_boundary" -> ReplayMethod(entry, e, configured) /\ BothSidesProven(e.evidence)
       [] e.phase = "removal_started" -> ReplayMethod(entry, e, configured)
       [] e.phase = "removal_completed" ->
            /\ ReplayMethod(entry, e, configured)
            /\ RemovalOutcomeShown(e)
            /\ entry.proved => e.evidence.dst = entry.proof
       [] e.phase = "completed" -> entry.op # "remove_source"
       [] e.phase = "recovery_resolved" /\ e.completes ->
            /\ entry.op # "remove_source"
            /\ entry.reviewed => e.at > entry.reviewAt
       [] OTHER -> TRUE

ReplayOutcome(e) ==
  CASE e.phase \in {"planned", "started", "progress", "transfer_verified"} -> "in_progress"
    [] e.phase \in {"proof_boundary", "removal_started"} -> "recovery_review"
    [] e.phase = "removal_completed" -> "completed"
    [] e.phase = "recovery_resolved" -> IF e.completes THEN "completed" ELSE "unresolved"
    [] OTHER -> e.phase

(* apply_stored_event: one row applied to the entry. *)
ReplayRow(entry, e, configured) ==
  IF e.phase = "planned"
    THEN IF entry.last = "none"
           THEN [NoEntry EXCEPT !.op = e.op, !.planned = e.planned, !.last = "planned"]
           ELSE [entry EXCEPT !.sound = FALSE]
    ELSE [entry EXCEPT
            !.sound = @ /\ ReplayMayFollow(entry, e.phase) /\ ReplayEvidence(entry, e, configured),
            !.transferred = @ \/ e.phase = "transfer_verified",
            !.proved = @ \/ e.phase = "proof_boundary",
            !.proof = IF e.phase = "proof_boundary" THEN e.evidence.dst ELSE @,
            !.removed = @ \/ e.phase = "removal_completed",
            !.reviewed = @ \/ e.phase = "recovery_review",
            !.reviewAt = IF e.phase = "recovery_review" THEN e.at ELSE @,
            !.resolved = @ \/ e.phase = "recovery_resolved",
            !.outcome = ReplayOutcome(e),
            !.last = e.phase]

(* load_journal, for one action: its rows in sequence order. *)
ReplayRows(rows, configured) ==
  LET entry[i \in 0..Len(rows)] ==
        IF i = 0 THEN NoEntry ELSE ReplayRow(entry[i - 1], rows[i], configured)
  IN entry[Len(rows)]

Replay(a) == ReplayRows(events[a], method)

Outcome(a) == Replay(a).outcome

\* Faulty variant: a crash in a removal is told from the proof alone.
ClassifyByProof(entry) ==
  IF entry.proved THEN RecoveryReview(0) ELSE Event("interrupted")

(* classify_open_actions: what a resume records of an action it finds open. *)
Classification(entry) ==
  IF entry.transferred \/ entry.proved THEN RecoveryReview(0) ELSE Event("interrupted")

-----------------------------------------------------------------------------
(* Properties. *)

RowsLegible(a) == \A i \in 1..Len(events[a]) : Legible(events[a][i])

(* Whatever append_event accepted, load_journal can read, except a row      *)
(* whose recovery provenance is half recorded: no other sequence of         *)
(* accepted rows replays as corrupt evidence, and one such row, which       *)
(* append_event takes unread, makes the whole journal unreadable.           *)
ReplayAccepts ==
  \A a \in Actions : HasPlan(a) =>
    (Replay(a).sound <=> RowsLegible(a))

(* load_journal returns the journal of the run: one corrupt row, and all of *)
(* it is refused (load_report and every caller of it return the error).     *)
JournalReadable == \A a \in Actions : HasPlan(a) => Replay(a).sound

(* What the report says of an action is final once it says anything but "in *)
(* progress" or "needs recovery review": no later row can reopen it (the    *)
(* settled check and the transition table of validate_event, seen through   *)
(* the outcomes of the replay).                                             *)
OutcomeIsFinal ==
  [][\A a \in Actions :
       events'[a] = events[a] \/ Outcome(a) \in {"in_progress", "recovery_review"}]_vars

(* A resume always gets past an interrupted run whose journal can be read:  *)
(* in every state a crash can leave behind, append_event accepts what       *)
(* classify_open_actions wants to record of the first open action, although *)
(* that is decided from the replayed evidence and checked against the       *)
(* stored phases.                                                           *)
OpenActionsClassifiable ==
  LET Open == {a \in Actions : HasPlan(a) /\ Outcome(a) = "in_progress"}
  IN \A a \in Open : (\A b \in Open : a <= b) => Accepts(a, Classification(Replay(a)))
=============================================================================
