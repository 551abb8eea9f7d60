------------------------------- MODULE Mirror -------------------------------
(***************************************************************************)
(* Mirror Sync between two local peers: ordinary Mirror Runs, which copy   *)
(* one-sided items, Resolution Runs for reviewed conflicts, reviewed       *)
(* deletions, the reconciliation behind each of them and the durable Sync  *)
(* Baseline (analysis.rs, conflict.rs, resolution.rs, resolution_run.rs,   *)
(* mirror_deletion.rs, reconciliation.rs, baseline.rs, workflow.rs).       *)
(*                                                                         *)
(* Data.  A path is a number: actions run in the order of their paths.     *)
(* What a peer holds at a path is one value, its content and compared      *)
(* metadata together; every item is an included regular file.  One Fresh   *)
(* Analysis reads both peers in one step, and a run's Planned rows are     *)
(* written in one step.  The names that preserved copies get are outside   *)
(* the modelled paths.  The profile does not change, so its baseline and   *)
(* its reviews always match it.  The way an action gets into the journal   *)
(* is ActionJournal's and SafeDeleteRun's subject; here the journal keeps  *)
(* the last phase of each action of the latest run.                        *)
(***************************************************************************)
EXTENDS Integers, FiniteSets

CONSTANTS
  NumPaths,    \* paths either peer may use
  Contents,    \* what a path may hold
  Absent,      \* nothing at the path
  MaxEdits,    \* bound: changes the user makes on a peer
  MaxFaults,   \* bound: transfers, removals and journal writes that fail
  MaxRuns      \* bound: runs

VARIABLES
  files,      \* what each peer holds
  baseline,   \* the stored SyncBaseline: both sides of each settled path
  review,     \* a ResolutionRun: reviewed analysis, decisions and baseline
  run,        \* the run in progress
  journal,    \* the phase of each path's action in the run in progress
  rows,       \* mirror_resolution_items of the latest run
  installed,  \* paths where the latest Resolution Run did as decided (history)
  agreed,     \* states both peers held at once (history)
  edits, faults, runs   \* counted by the bounds

evidence == <<journal, rows, installed>>
bounds == <<edits, faults, runs>>
vars == <<files, baseline, review, run, evidence, agreed, bounds>>

-----------------------------------------------------------------------------
Paths == 1..NumPaths
Sides == {"A", "B"}
Other(s) == IF s = "A" THEN "B" ELSE "A"
Peers == [Sides -> [Paths -> Contents \cup {Absent}]]
OnBoth(c) == [s \in Sides |-> c]

NoItem == OnBoth(Absent)
NoReview == [inv |-> "none"]
NoRun == [kind |-> "none"]
NoAction == [decision |-> "none"]
NoRows == [p \in Paths |-> "none"]

Present(inv, s, p) == inv[s][p] # Absent
At(inv, p) == [s \in Sides |-> inv[s][p]]
Mirrored(inv, p) == inv["A"][p] = inv["B"][p]

AgreedStates(f) == {<<p, f["A"][p]>> : p \in {q \in Paths : Mirrored(f, q)}}
Change(f) == files' = f /\ agreed' = agreed \cup AgreedStates(f)
Fault == faults < MaxFaults /\ faults' = faults + 1

Init ==
  /\ files \in Peers
  /\ agreed = AgreedStates(files)
  /\ baseline = [p \in Paths |-> NoItem]
  /\ review = NoReview /\ run = NoRun
  /\ journal = NoRows /\ rows = NoRows /\ installed = {}
  /\ edits = 0 /\ faults = 0 /\ runs = 0

(* The user writes or removes a file of a peer. *)
Edit(s, p, c) ==
  /\ edits < MaxEdits /\ edits' = edits + 1
  /\ c # files[s][p]
  /\ Change([files EXCEPT ![s][p] = c])
  /\ UNCHANGED <<baseline, review, run, evidence, faults, runs>>

-----------------------------------------------------------------------------
(* Conflict Review and its decisions. *)

SamePath(p) == [kind |-> "same_path", path |-> p, related |-> 0]
Duplicate(p, q) == [kind |-> "duplicate", path |-> p, related |-> q]

(* Equal items at two paths, in the order of peer and path. *)
Duplicates(inv) ==
  {Duplicate(x[1], x[2]) : x \in
     {y \in Paths \X Paths : /\ y[1] # y[2]
                             /\ \E s, t \in Sides :
                                  /\ inv[s][y[1]] # Absent /\ inv[s][y[1]] = inv[t][y[2]]
                                  /\ IF s = t THEN y[1] < y[2] ELSE s = "A"}}

Conflicts(inv) ==
  {p \in Paths : \A s \in Sides : Present(inv, s, p)} \ {p \in Paths : Mirrored(inv, p)}

Entries(inv) == {SamePath(p) : p \in Conflicts(inv)} \cup Duplicates(inv)

(* PreserveBoth and RenamePreserveForReview run alike: "preserve". *)
Available(entry) ==
  IF entry.kind = "same_path" THEN {"keep_A", "keep_B", "preserve", "defer"}
  ELSE {"preserve", "defer"}

Decisions(inv) ==
  {d \in [Entries(inv) -> {"keep_A", "keep_B", "preserve", "defer"}] :
     \A e \in Entries(inv) : d[e] \in Available(e)}

(* ResolutionRun::from_analysis; a baseline it is bound to is compared later. *)
ReviewConflicts ==
  /\ run = NoRun /\ runs < MaxRuns /\ Entries(files) # {}
  /\ \E d \in Decisions(files), bound \in BOOLEAN :
       review' = [inv |-> files, decisions |-> d, baseline |-> baseline, bound |-> bound]
  /\ UNCHANGED <<files, baseline, run, evidence, agreed, bounds>>

ReviewedPaths(r) == {e.path : e \in DOMAIN r.decisions}

(* The decisions made again for a Fresh Analysis, by their paths alone. *)
DecidesAll(r, inv) ==
  /\ Entries(inv) = {SamePath(p) : p \in ReviewedPaths(r)}
  /\ Cardinality(ReviewedPaths(r)) = Cardinality(DOMAIN r.decisions)

(* ResolutionRun::revalidate. *)
Revalidates(r) ==
  /\ \A p \in ReviewedPaths(r) : At(files, p) = At(r.inv, p)
  /\ r.bound => \A p \in ReviewedPaths(r) : baseline[p] = r.baseline[p]
  /\ DecidesAll(r, files)

-----------------------------------------------------------------------------
(* The plans of runs. *)

Action(decision, from, expected) ==
  [decision |-> decision, from |-> from, expected |-> expected]

(* build_plan in Mirror mode: what only one peer has goes to the other. *)
OneSided(inv, s) == {p \in Paths : Present(inv, s, p) /\ ~Present(inv, Other(s), p)}

(* plan_record captures the source anew. *)
CopyPlan(inv) ==
  [p \in Paths |->
     IF p \in OneSided(inv, "A") THEN Action("copy", "A", files["A"][p])
     ELSE IF p \in OneSided(inv, "B") THEN Action("copy", "B", files["B"][p])
     ELSE NoAction]

(* resolution_plan_record takes it from the run's Fresh Analysis. *)
ResolutionAction(d, inv, p) ==
  CASE d = "keep_A" -> Action("keep", "A", inv["A"][p])
    [] d = "keep_B" -> Action("keep", "B", inv["B"][p])
    [] OTHER -> Action(d, "A", inv["A"][p])

ResolutionPlan(r, inv) ==
  [p \in Paths |-> IF p \in ReviewedPaths(r)
                     THEN ResolutionAction(r.decisions[SamePath(p)], inv, p)
                     ELSE NoAction]

NewRun(kind, pc) ==
  [kind |-> kind, pc |-> pc, inv |-> files, plan |-> [p \in Paths |-> NoAction],
   outcomes |-> NoRows]

Planned(plan) ==
  journal' = [p \in Paths |-> IF plan[p] = NoAction THEN "none" ELSE "open"]

(* A step of the run that only moves its control. *)
Goes(pc) == run' = [run EXCEPT !.pc = pc]
RunIsOver == run' = NoRun /\ journal' = NoRows
Quiet == UNCHANGED <<files, baseline, agreed>>

-----------------------------------------------------------------------------
(* An ordinary Mirror Run: analysis and confirmation, then begin_run with
   both inventories and the Planned rows; a source that is gone ends it.   *)
BeginMirrorRun ==
  /\ run = NoRun /\ runs < MaxRuns /\ runs' = runs + 1
  /\ run' = NewRun("mirror", "confirmed")
  /\ Quiet /\ UNCHANGED <<review, evidence, edits, faults>>

PlanMirrorRun ==
  /\ run # NoRun /\ run.pc = "confirmed" /\ run.kind = "mirror"
  /\ rows' = NoRows /\ installed' = {}
  /\ LET plan == CopyPlan(run.inv)
     IN  IF \E p \in Paths : plan[p] # NoAction /\ plan[p].expected = Absent
           THEN RunIsOver
           ELSE run' = [run EXCEPT !.pc = "acting", !.plan = plan] /\ Planned(plan)
  /\ Quiet /\ UNCHANGED <<review, bounds>>

(* A Resolution Run: its first revalidation and the final confirmation ... *)
BeginResolutionRun ==
  /\ run = NoRun /\ review # NoReview /\ runs < MaxRuns
  /\ IF Revalidates(review)
       THEN /\ run' = NewRun("resolution", "confirmed")
            /\ runs' = runs + 1 /\ UNCHANGED review
       ELSE review' = NoReview /\ UNCHANGED <<run, runs>>
  /\ Quiet /\ UNCHANGED <<evidence, edits, faults>>

(* ... and its second one, with begin_run, the inventories, the Planned rows
   and the report's rows, which start unresolved.                           *)
PrepareResolutionRun ==
  /\ run # NoRun /\ run.pc = "confirmed" /\ run.kind = "resolution"
  /\ review' = NoReview
  /\ IF ~Revalidates(review)
       THEN RunIsOver /\ UNCHANGED <<rows, installed>>
       ELSE LET plan == ResolutionPlan(review, files)
            IN  /\ run' = [NewRun("resolution", "acting") EXCEPT !.plan = plan]
                /\ Planned(plan)
                /\ rows' = [p \in Paths |->
                              IF plan[p] = NoAction THEN "none"
                              ELSE IF plan[p].decision = "defer" THEN "deferred"
                              ELSE "unresolved"]
                /\ installed' = {}
  /\ Quiet /\ UNCHANGED bounds

-----------------------------------------------------------------------------
(* The actions of a run, in the order of their paths. *)

ToDo == {p \in Paths : run.plan[p] # NoAction /\ run.outcomes[p] = "none"}
IsNext(p) == p \in ToDo /\ \A q \in ToDo : p <= q
Acting == run # NoRun /\ run.pc = "acting"

(* validate_action_order. *)
MayStart(p) == \A q \in Paths : q < p => journal[q] \notin {"open", "review"}

(* Faulty variant: any transferred version is the planned one. *)
VerifiedAny(p) == files[run.plan[p].from][p] \in Contents

(* validate_transfer_event_against_plan. *)
Verified(p) == files[run.plan[p].from][p] = run.plan[p].expected

(* Verified Replacement of the other side by what this side holds now. *)
Transfer(p) ==
  LET from == run.plan[p].from
  IN  /\ Change([files EXCEPT ![Other(from)][p] = files[from][p]])
      /\ installed' = IF run.kind = "resolution" /\ files[from][p] = run.plan[p].expected
                        THEN installed \cup {p} ELSE installed

Outcome(p, outcome) == run' = [run EXCEPT !.outcomes[p] = outcome]
Phase(p, phase) == journal' = [journal EXCEPT ![p] = phase]

(* The run stops at p: what is left is recorded as Cancelled. *)
Stops(p, phase, outcome) ==
  /\ journal' = [q \in Paths |-> IF q = p THEN phase
                                 ELSE IF q \in ToDo THEN "cancelled" ELSE journal[q]]
  /\ run' = [run EXCEPT !.outcomes = [q \in Paths |-> IF q = p THEN outcome
                                        ELSE IF q \in ToDo THEN "unresolved" ELSE @[q]]]

Continues(p, phase, outcome) == Phase(p, phase) /\ Outcome(p, outcome)

Untransferred == UNCHANGED <<files, agreed, installed>>

Old(p) == files[Other(run.plan[p].from)][p]
New(p) == files[run.plan[p].from][p]

(* A replacement that is not proven leaves one of items in its place. *)
Leaves(p, items) ==
  /\ \E item \in items : Change([files EXCEPT ![Other(run.plan[p].from)][p] = item])
  /\ UNCHANGED installed

(* The destination is as it was, or where nothing was the copy is left behind
   (VerifiedReplacement's CleanFailureRestores).  Only a transfer whose source
   is still there counts as a fault.                                         *)
TransferFails(p) ==
  /\ Continues(p, "failed", "unresolved")
  /\ IF Present(files, run.plan[p].from, p)
       THEN Fault /\ Leaves(p, {i \in {Old(p), New(p)} : i = Old(p) \/ Old(p) = Absent})
       ELSE Untransferred /\ UNCHANGED faults

(* The old item is there, or moved aside, or the new one is. *)
TransferUncertain(p) == Fault /\ Leaves(p, {Old(p), Absent, New(p)})

(* execute_action of an ordinary run; a journal failure ends the run. *)
CopyItem(p) ==
  /\ Acting /\ run.kind = "mirror" /\ IsNext(p)
  /\ \/ /\ Present(files, run.plan[p].from, p) /\ Transfer(p)
        /\ IF Verified(p) THEN Continues(p, "completed", "completed")
           ELSE RunIsOver
        /\ UNCHANGED faults
     \/ TransferFails(p)
     \/ TransferUncertain(p) /\ Stops(p, "review", "unresolved")
  /\ UNCHANGED <<baseline, review, rows, edits, runs>>

(* JournaledResolutionExecutor::start refused or failed. *)
StartRefused(p) ==
  /\ Acting /\ run.kind = "resolution" /\ IsNext(p)
  /\ IF MayStart(p) THEN Fault ELSE UNCHANGED faults
  /\ Stops(p, "open", "unresolved")
  /\ Untransferred
  /\ UNCHANGED <<baseline, review, rows, edits, runs>>

Starts(p) == Acting /\ run.kind = "resolution" /\ IsNext(p) /\ MayStart(p)

(* Keep Peer A or B.  A Completed row that fails leaves a Recovery Review
   behind and still counts as completed.                                  *)
KeepItem(p) ==
  /\ Starts(p) /\ run.plan[p].decision = "keep"
  /\ \/ /\ Present(files, run.plan[p].from, p) /\ Transfer(p)
        /\ IF ~Verified(p)
             THEN Stops(p, "review", "unresolved") /\ UNCHANGED faults
             ELSE \/ Continues(p, "completed", "completed") /\ UNCHANGED faults
                  \/ Continues(p, "review", "completed") /\ Fault
     \/ TransferFails(p)
     \/ TransferUncertain(p) /\ Stops(p, "failed", "unresolved")
  /\ UNCHANGED <<baseline, review, rows, edits, runs>>

(* Preserved copies are installed beside other items, or not. *)
PreserveItem(p) ==
  /\ Starts(p) /\ run.plan[p].decision = "preserve"
  /\ \/ /\ Continues(p, "completed", "completed")
        /\ installed' = installed \cup {p} /\ UNCHANGED faults
     \/ /\ Continues(p, "failed", "unresolved") /\ UNCHANGED installed
        /\ IF \A s \in Sides : Present(files, s, p) THEN Fault ELSE UNCHANGED faults
  /\ UNCHANGED <<files, agreed, baseline, review, rows, edits, runs>>

DeferItem(p) ==
  /\ Starts(p) /\ run.plan[p].decision = "defer"
  /\ Continues(p, "deferred", "deferred")
  /\ Untransferred
  /\ UNCHANGED <<baseline, review, rows, bounds>>

(* The user cancels an ordinary run before its next action. *)
CancelCopies ==
  /\ Acting /\ run.kind = "mirror"
  /\ \E p \in Paths : IsNext(p) /\ Stops(p, "cancelled", "unresolved")
  /\ Untransferred
  /\ UNCHANGED <<baseline, review, rows, bounds>>

(* resolution_report_items; an ordinary run has none. *)
Rows ==
  [p \in Paths |-> IF run.outcomes[p] \in {"none", "completed", "deferred"}
                     THEN run.outcomes[p] ELSE "failed"]

ActionsEnd ==
  /\ Acting /\ ToDo = {} /\ run.kind \in {"mirror", "resolution"}
  /\ rows' = IF run.kind = "resolution" THEN Rows ELSE rows
  /\ Goes("reconciling")
  /\ Quiet /\ UNCHANGED <<review, journal, installed, bounds>>

-----------------------------------------------------------------------------
(* Reviewed deletions. *)

(* Faulty variant: the remaining item is not compared with the baseline. *)
CandidatesByAbsence(inv, s) == {p \in OneSided(inv, s) : baseline[p] # NoItem}

(* SyncBaseline::deletion_candidates, by the peer that still has the item. *)
Candidates(inv, s) ==
  {p \in OneSided(inv, s) : baseline[p] # NoItem /\ baseline[p] = OnBoth(inv[s][p])}

DeletionPlan(choice) ==
  [p \in Paths |-> IF p \in Candidates(files, "A") THEN Action(choice[p], "A", files["A"][p])
                   ELSE IF p \in Candidates(files, "B") THEN Action(choice[p], "B", files["B"][p])
                   ELSE NoAction]

(* deletion_review, resolve and confirm: every candidate has its decision;
   PreserveRemaining and Defer are both "defer".                           *)
BeginDeletionRun ==
  /\ run = NoRun /\ runs < MaxRuns /\ runs' = runs + 1
  /\ \E s \in Sides : Candidates(files, s) # {}
  /\ \E choice \in [Paths -> {"delete", "defer"}] :
       run' = [NewRun("deletion", "acting") EXCEPT !.plan = DeletionPlan(choice)]
  /\ journal' = NoRows /\ rows' = NoRows /\ installed' = {}
  /\ Quiet /\ UNCHANGED <<review, edits, faults>>

(* The deletion executor, which the library does not provide, and the typed
   result it reports.                                                       *)
DeleteItem(p) ==
  /\ Acting /\ run.kind = "deletion" /\ IsNext(p)
  /\ LET a == run.plan[p]
     IN  \/ /\ a.decision = "defer" /\ Outcome(p, "deferred")
            /\ UNCHANGED <<files, agreed, faults>>
         \/ /\ a.decision = "delete" /\ Outcome(p, "completed")
            /\ Change([files EXCEPT ![a.from][p] = Absent]) /\ UNCHANGED faults
         \/ /\ a.decision = "delete" /\ Outcome(p, "failed") /\ Fault
            /\ UNCHANGED <<files, agreed>>
  /\ UNCHANGED <<baseline, review, evidence, edits, runs>>

(* record_mirror_deletion_results. *)
DeletionPhase(p) ==
  CASE run.plan[p] = NoAction -> "none"
    [] run.outcomes[p] = "completed" ->
         IF \A s \in Sides : ~Present(files, s, p) THEN "completed" ELSE "failed"
    [] run.outcomes[p] = "failed" -> "failed"
    [] run.outcomes[p] = "deferred" -> "deferred"

RecordDeletions ==
  /\ Acting /\ ToDo = {} /\ run.kind = "deletion"
  /\ journal' = [p \in Paths |-> DeletionPhase(p)]
  /\ Goes("reconciling")
  /\ Quiet /\ UNCHANGED <<review, rows, installed, bounds>>

-----------------------------------------------------------------------------
(* reconcile_run_with_resolutions_and_deletions. *)

(* What the run's inventories and decisions say each side holds now. *)
Expected(p) ==
  IF run.plan[p].decision = "keep" THEN OnBoth(run.inv[run.plan[p].from][p]) ELSE At(run.inv, p)

DeletedAsReported(p) ==
  run.kind = "deletion" /\ run.plan[p] # NoAction /\ run.outcomes[p] = "completed"

(* Faulty variant: what stayed as it was needs no review. *)
StableIsClean(p) ==
  LET inv == Expected(p)  now == At(files, p)
  IN  IF inv = NoItem \/ DeletedAsReported(p) THEN now = NoItem
      ELSE /\ journal[p] \in {"none", "completed"}
           /\ IF \A s \in Sides : inv[s] # Absent THEN now = inv
              ELSE \E s \in Sides : inv[s] # Absent /\ now = OnBoth(inv[s])

(* reconcile_mirror_with_resolutions_and_deletions finds nothing at p. *)
Clean(p) ==
  LET inv == Expected(p)  now == At(files, p)
  IN  IF inv = NoItem \/ DeletedAsReported(p) THEN now = NoItem
      ELSE /\ journal[p] \in {"none", "completed"}
           /\ \E s \in Sides : inv[s] # Absent /\ now = OnBoth(inv[s])
           /\ (\A s \in Sides : inv[s] # Absent) => now = inv

(* The generated names of preserved copies are found as well. *)
Findings ==
  {p \in Paths : ~Clean(p)}
    \cup {p \in Paths : run.plan[p].decision = "preserve" /\ journal[p] = "completed"}

Reconcile ==
  /\ run # NoRun /\ run.pc = "reconciling"
  /\ run' = [kind |-> run.kind, pc |-> "reconciled", final |-> files, findings |-> Findings]
  /\ Quiet /\ UNCHANGED <<review, evidence, bounds>>

(* Faulty variant: an action's outcome decides alone. *)
SettledByJournal(p) ==
  journal[p] \in {"none", "completed"} /\ \A s \in Sides : Present(run.final, s, p)

(* SyncBaseline::from_reconciled_inventories. *)
Settled(p) ==
  /\ p \notin run.findings
  /\ journal[p] \in {"none", "completed"}
  /\ Present(run.final, "A", p) /\ Mirrored(run.final, p)

(* update_mirror_baseline, merge_settled. *)
UpdateBaseline ==
  /\ run # NoRun /\ run.pc = "reconciled"
  /\ baseline' = [p \in Paths |-> IF Settled(p) THEN At(run.final, p) ELSE baseline[p]]
  /\ RunIsOver
  /\ UNCHANGED <<files, review, rows, installed, agreed, bounds>>

(* The process dies, or the store refuses a write and the call returns. *)
Crash ==
  /\ run # NoRun
  /\ RunIsOver /\ review' = NoReview
  /\ Quiet /\ UNCHANGED <<rows, installed, bounds>>

Next ==
  \/ \E s \in Sides, p \in Paths, c \in Contents \cup {Absent} : Edit(s, p, c)
  \/ ReviewConflicts
  \/ BeginMirrorRun \/ PlanMirrorRun
  \/ BeginResolutionRun \/ PrepareResolutionRun
  \/ \E p \in Paths :
       CopyItem(p) \/ StartRefused(p) \/ KeepItem(p) \/ PreserveItem(p) \/ DeferItem(p)
  \/ CancelCopies \/ ActionsEnd
  \/ BeginDeletionRun
  \/ \E p \in Paths : DeleteItem(p)
  \/ RecordDeletions
  \/ Reconcile \/ UpdateBaseline
  \/ Crash

Spec == Init /\ [][Next]_vars

-----------------------------------------------------------------------------
Phases == {"none", "open", "completed", "failed", "review", "deferred", "cancelled"}
Outcomes == {"none", "completed", "deferred", "unresolved", "failed"}
Items == Contents \cup {Absent}

Actions ==
  {NoAction} \cup [decision : {"copy", "keep", "preserve", "defer", "delete"},
                   from : Sides, expected : Items]

Runs ==
  [kind : {"mirror", "resolution", "deletion"}, pc : {"confirmed", "acting", "reconciling"},
   inv : Peers, plan : [Paths -> Actions], outcomes : [Paths -> Outcomes]]

ReconciledRuns ==
  [kind : {"mirror", "resolution", "deletion"}, pc : {"reconciled"},
   final : Peers, findings : SUBSET Paths]

MirrorTypeOK ==
  /\ files \in Peers
  /\ baseline \in [Paths -> [Sides -> Items]]
  /\ review # NoReview => review.inv \in Peers /\ review.decisions \in Decisions(review.inv)
  /\ run \in {NoRun} \cup Runs \cup ReconciledRuns
  /\ journal \in [Paths -> Phases]
  /\ rows \in [Paths -> Outcomes]
  /\ installed \subseteq Paths

(* The Mirror Invariant: a run whose reconciliation asks for no review left
   the same on both peers, at every path, whatever the user did meanwhile
   (reconcile_mirror_with_resolutions_and_deletions).                       *)
CleanRunMirrors ==
  run # NoRun /\ run.pc = "reconciled" /\ run.findings = {}
    => \A p \in Paths : Mirrored(run.final, p)

(* The baseline holds only states both peers once held at the same time:
   nothing skipped, failed, deferred or half applied enters it
   (from_reconciled_inventories, update_mirror_baseline).                  *)
BaselineWasAgreed ==
  \A p \in Paths : baseline[p] # NoItem =>
    baseline[p]["A"] = baseline[p]["B"] /\ <<p, baseline[p]["A"]>> \in agreed

(* Absence alone authorizes nothing: an item that a reviewed plan deletes was
   on both peers at once, so the other peer had it and lost it
   (deletion_candidates, ADR 0019).                                          *)
DeletesWhatBothHad ==
  Acting /\ run.kind = "deletion" =>
    \A p \in Paths : run.plan[p] # NoAction => <<p, run.plan[p].expected>> \in agreed

(* No row of the report calls a decision completed unless the version the
   user chose was installed on the other peer, or both were preserved; a
   crash, a failed write or a source edited meanwhile leaves the row
   unresolved or failed (execute_resolution_run_with_authorizations).      *)
RowsTellTheTruth == \A p \in Paths : rows[p] = "completed" => p \in installed

(* Decisions complete for a review stay executable while neither peer nor
   the baseline changes: "a same-path conflict and a possible rename can
   legitimately refer to the same path while requiring separate whole-file
   decisions" (ConflictEntryKey).                                          *)
UnchangedIsNotStale ==
  review # NoReview /\ review.inv = files /\ review.baseline = baseline
    => Revalidates(review)
=============================================================================
