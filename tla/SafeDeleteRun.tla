---------------------------- MODULE SafeDeleteRun ----------------------------
(***************************************************************************)
(* One-way Safe Delete runs of one Sync Profile, as RunWorkflow drives     *)
(* them: the frozen plan written to the action journal, one action after   *)
(* the other transferred and verified, sources removed behind their proof  *)
(* boundary (SafeDeleteExecutor::settle_one), cancellation, Completion     *)
(* Reconciliation, and after a crash the classification of open actions    *)
(* and a new run.  The journal is the one of ActionJournal: every row goes *)
(* through AppendEvent, and a row that Accepts refuses is a StorageError   *)
(* the driver has to handle.  Meanwhile the user edits the files of both   *)
(* peers, a journal write or an I/O operation may fail, and the process    *)
(* may die between any two steps.                                          *)
(*                                                                         *)
(* Data.  A peer holds at most one item per path, a regular file with a    *)
(* content; NoContent stands for no item.  One verified replacement and    *)
(* one perform_removal are one step each: what happens inside them is left *)
(* to modules of their own, and here they may succeed, fail, or end        *)
(* uncertain, each with what they may leave behind.  Prechecks,            *)
(* confirmation and the backup are passed; their refusals start no run.    *)
(***************************************************************************)
EXTENDS JournalReplay

CONSTANTS
  NumFiles,            \* paths under the source root, in path order
  DestinationCleanup,  \* the profile's Destination Cleanup option
  MaxRuns,             \* bound: runs started, resumed ones included
  MaxEdits,            \* bound: edits by the user
  MaxFaults            \* bound: I/O operations and journal writes that fail

ASSUME RunAssumption ==
  /\ NumFiles \in Nat
  /\ NumActions = 2 * NumFiles
  /\ DestinationCleanup \in BOOLEAN
  /\ {"copy", "overwrite", "remove_source", "remove_destination"} \subseteq Operations

VARIABLES
  src, dst,   \* the item at each path of the two peers
  trash,      \* the item at each path's recovery target
  taken,      \* what this run removed from the source (history)
  witnessed,  \* the destination as it was when its proof was written (history)
  inventory,  \* the Source Inventory the analysis found
  recorded,   \* the inventory is in the store
  plan,       \* the frozen plan: a sequence of operation and path
  recon,      \* the recorded Completion Reconciliation
  pc, cur,    \* the step of the run in progress and its action
  kept,       \* verified replacements in memory, by the content they prove
  cancel,     \* should_cancel()
  touched,    \* files the user edited while this run went on (history)
  broken,     \* this run lost a write, was given up or was killed (history)
  runs, edits, faults

files == <<src, dst, trash, taken, witnessed>>
record == <<inventory, recorded, plan, recon>>
memory == <<pc, cur, kept, cancel>>
edited == <<edits, touched>>
bounds == <<runs, edits, faults>>
allVars == <<method, events, files, record, memory, touched, broken, bounds>>

Files == 1..NumFiles
Items == Contents \cup {NoContent}
Nothing == [f \in Files |-> NoContent]

Op == plan[cur].op
Path == plan[cur].path

-----------------------------------------------------------------------------
(* Fresh Analysis. *)

Steps(f) ==
  IF src[f] = NoContent
    THEN <<>>
    ELSE (CASE dst[f] = NoContent -> <<[op |-> "copy", path |-> f]>>
            [] dst[f] \in Contents \ {src[f]} -> <<[op |-> "overwrite", path |-> f]>>
            [] OTHER -> <<>>)
         \o <<[op |-> "remove_source", path |-> f]>>

CleanupSteps(f) ==
  IF DestinationCleanup /\ src[f] = NoContent /\ dst[f] # NoContent
    THEN <<[op |-> "remove_destination", path |-> f]>>
    ELSE <<>>

(* build_plan: the steps of every source item, then the cleanup.            *)
BuildPlan ==
  LET upTo[f \in 0..NumFiles] == IF f = 0 THEN <<>> ELSE upTo[f - 1] \o Steps(f)
      cleanup[f \in 0..NumFiles] == IF f = 0 THEN <<>> ELSE cleanup[f - 1] \o CleanupSteps(f)
  IN upTo[NumFiles] \o cleanup[NumFiles]

-----------------------------------------------------------------------------
(* Journal writes. *)

Writes(a, e) == AppendEvent(a, e) /\ UNCHANGED <<broken, faults>>

(* The write fails: the store refuses the row, or the database errors.      *)
WriteFails(a, e) ==
  /\ UNCHANGED <<method, events>>
  /\ broken' = TRUE
  /\ \/ ~Accepts(a, e) /\ UNCHANGED faults
     \/ faults < MaxFaults /\ faults' = faults + 1

Fault == faults < MaxFaults /\ faults' = faults + 1 /\ UNCHANGED <<method, events, broken>>
StoreFault ==
  /\ faults < MaxFaults /\ faults' = faults + 1
  /\ broken' = TRUE
  /\ UNCHANGED <<method, events>>
GiveUp == broken' = TRUE /\ UNCHANGED <<method, events, faults>>
NoFault == UNCHANGED <<method, events, broken, faults>>

Goto(step) == pc' = step /\ UNCHANGED cur
NextAction(step) == pc' = step /\ cur' = cur + 1

(* An error that execute returns to its caller: no reconciliation.          *)
Abort == Goto("idle")

(* A step that appends e and continues at ok, or at bad when it cannot.     *)
Records(e, ok, bad) ==
  /\ \/ Writes(cur, e) /\ ok
     \/ WriteFails(cur, e) /\ bad
  /\ UNCHANGED <<files, record, cancel, runs, edited>>

Proof ==
  [src |-> kept[Path], dst |-> kept[Path], sides |-> "transferred", metadata |-> TRUE,
   provenance |-> "none"]

\* Faulty variant: the removed item is named and not proved.
RemovedItemUnproven ==
  [src |-> NoContent, dst |-> kept[Path], metadata |-> FALSE,
   sides |-> IF method = "trash" THEN "trashed" ELSE "erased",
   provenance |-> IF method = "trash" THEN "bare" ELSE "none"]

(* removal_evidence: only a recovered item has a provenance, and its proof. *)
RemovalProof ==
  [src |-> NoContent, dst |-> kept[Path], metadata |-> FALSE,
   sides |-> IF method = "trash" THEN "trashed" ELSE "erased",
   provenance |-> IF method = "trash" THEN "whole" ELSE "none"]

-----------------------------------------------------------------------------
(* Starting a run. *)

(* execute: a Fresh Analysis, the confirmation, and the run's snapshot.     *)
StartRun ==
  /\ runs < MaxRuns
  /\ runs' = runs + 1
  /\ events' = [a \in Actions |-> <<>>]
  /\ plan' = BuildPlan
  /\ inventory' = src
  /\ recorded' = FALSE
  /\ recon' = "none"
  /\ taken' = Nothing
  /\ witnessed' = Nothing
  /\ pc' = "begun" /\ cur' = 1
  /\ kept' = Nothing
  /\ cancel' = FALSE
  /\ touched' = {}
  /\ broken' = FALSE
  /\ UNCHANGED <<method, src, dst, trash, edits, faults>>

Execute == pc = "idle" /\ StartRun

RecordInventory ==
  /\ pc = "begun"
  /\ \/ NoFault /\ recorded' = TRUE /\ Goto("persist")
     \/ StoreFault /\ UNCHANGED recorded /\ Abort
  /\ UNCHANGED <<files, inventory, plan, recon, kept, cancel, runs, edited>>

(* persist_plan and plan_record: the item is observed as its row is         *)
(* written, after the analysis.                                             *)
PlanAction ==
  /\ pc = "persist" /\ cur <= Len(plan)
  /\ LET item == IF Op = "remove_destination" THEN dst[Path] ELSE src[Path]
     IN IF item = NoContent
          THEN Abort /\ GiveUp /\ UNCHANGED <<files, record, cancel, runs, edited>>
          ELSE Records(Planned(Op, item), NextAction("persist"), Abort)
  /\ UNCHANGED kept

PlanWritten ==
  /\ pc = "persist" /\ cur > Len(plan)
  /\ pc' = "next" /\ cur' = 1
  /\ NoFault
  /\ UNCHANGED <<files, record, kept, cancel, runs, edited>>

-----------------------------------------------------------------------------
(* The loop over the plan: execute_action. *)

BeginAction ==
  /\ pc = "next" /\ cur <= Len(plan) /\ ~cancel
  /\ Records(Event("started"), Goto("started"), Abort)
  /\ UNCHANGED kept

\* Faulty variant: a cancelled run leaves its remaining actions open.
CancelReconciles ==
  /\ pc = "next"
  /\ cur > Len(plan) \/ cancel
  /\ Goto("reconcile")
  /\ NoFault
  /\ UNCHANGED <<files, record, kept, cancel, runs, edited>>

\* Faulty variant: a cancelled run ends without a reconciliation.
CancelReturns ==
  /\ pc = "next"
  /\ \/ cur > Len(plan) /\ Goto("reconcile")
     \/ cur <= Len(plan) /\ cancel /\ Abort
  /\ NoFault
  /\ UNCHANGED <<files, record, kept, cancel, runs, edited>>

StopLoop ==
  /\ pc = "next"
  /\ \/ cur > Len(plan) /\ Goto("reconcile")
     \/ cur <= Len(plan) /\ cancel /\ Goto("cancel_remaining")
  /\ NoFault
  /\ UNCHANGED <<files, record, kept, cancel, runs, edited>>

(* The first Progress row; a source removal whose replacement is kept goes  *)
(* straight to its settlement.                                              *)
FirstProgress ==
  /\ pc = "started"
  /\ Records(Event("progress"),
             Goto(CASE Op = "remove_destination" -> "defer"
                    [] Op = "remove_source" /\ kept[Path] # NoContent -> "settle"
                    [] OTHER -> "transfer"),
             Abort)
  /\ UNCHANGED kept

Defer ==
  /\ pc = "defer"
  /\ Records(Event("deferred"), NextAction("next"), Abort)
  /\ UNCHANGED kept

(* A transfer that ends at step after so many failed I/O operations; a      *)
(* Progress row that could not be written counts only once it has ended.    *)
TransferEnds(step, failures) ==
  \E lost \in 0..1 :
    /\ faults + failures + lost <= MaxFaults
    /\ faults' = faults + failures + lost
    /\ broken' = (broken \/ lost = 1)
    /\ Goto(IF lost = 1 THEN "journal_failure" ELSE step)
    /\ UNCHANGED <<method, events>>

(* The verified replacement of a transfer, or of a source verification,     *)
(* which transfers once more.                                               *)
Transferred ==
  /\ pc = "transfer" /\ ~cancel /\ src[Path] # NoContent
  /\ dst' = [dst EXCEPT ![Path] = src[Path]]
  /\ kept' = [kept EXCEPT ![Path] = src[Path]]
  /\ TransferEnds(IF Op = "remove_source" THEN "settle" ELSE "verified", 0)
  /\ UNCHANGED <<src, trash, taken, witnessed, record, cancel, runs, edited>>

(* An uncertain replacement leaves the previous item moved aside, the new   *)
(* one installed, or the destination as it was.                             *)
LeaveUncertain ==
  \E item \in {dst[Path], NoContent, src[Path]} : dst' = [dst EXCEPT ![Path] = item]

(* A failed one leaves the new item where nothing was, if the lookup behind *)
(* the failed install fails too (VerifiedReplacement's Probe).              *)
LeaveBehind == dst[Path] = NoContent /\ dst' = [dst EXCEPT ![Path] = src[Path]]

(* record_transfer_failure: cancelled or failed with the destination as it  *)
(* was, or with the new item left behind, or uncertain.  An edit while the  *)
(* transfer runs fails it too.                                              *)
TransferFails ==
  /\ pc = "transfer"
  /\ \/ cancel /\ TransferEnds("cancel_action", 0) /\ UNCHANGED dst
     \/ src[Path] = NoContent /\ TransferEnds("fail_action", 0) /\ UNCHANGED dst
     \/ \E failures \in {1} \cup {0 : f \in touched \cap {Path}} :
          \/ TransferEnds("fail_action", failures) /\ UNCHANGED dst
          \/ TransferEnds("review_action", failures) /\ LeaveUncertain
          \/ TransferEnds("fail_action", failures + 1) /\ LeaveBehind
  /\ UNCHANGED <<src, trash, taken, witnessed, record, kept, cancel, runs, edited>>

RecordTransfer ==
  /\ pc = "verified"
  /\ Records(TransferVerified(Proof), Goto("complete"), Goto("journal_failure"))
  /\ UNCHANGED kept

CompleteTransfer ==
  /\ pc = "complete"
  /\ Records(Event("completed"), NextAction("next"), Goto("journal_failure"))
  /\ UNCHANGED kept

(* record_journal_failure: a Recovery Review if it can still be written,    *)
(* and the error either way.                                                *)
RecordJournalFailure ==
  /\ pc = "journal_failure"
  /\ Records(RecoveryReview(0), Abort, Abort)
  /\ UNCHANGED kept

FailAction ==
  /\ pc = "fail_action"
  /\ Records(Event("failed"), NextAction("next"), Abort)
  /\ UNCHANGED kept

ReviewAction ==
  /\ pc = "review_action"
  /\ Records(RecoveryReview(0), NextAction("cancel_remaining"), Abort)
  /\ UNCHANGED kept

CancelAction ==
  /\ pc = "cancel_action"
  /\ Records(Event("cancelled"), NextAction("cancel_remaining"), Abort)
  /\ UNCHANGED kept

CancelRemaining ==
  /\ pc = "cancel_remaining"
  /\ IF cur <= Len(plan)
       THEN Records(Event("cancelled"), NextAction("cancel_remaining"), Abort)
       ELSE Goto("reconcile") /\ NoFault /\ UNCHANGED <<files, record, cancel, runs, edited>>
  /\ UNCHANGED kept

-----------------------------------------------------------------------------
(* Settling a source removal: settle_source_removal and settle_one. *)

\* Faulty variant: earlier removals are not looked at.
NoPriorCheck == TRUE

(* ensure_prior_source_removals_settled. *)
PriorRemovalsCompleted ==
  \A b \in 1..(cur - 1) : plan[b].op = "remove_source" => Outcome(b) = "completed"

(* ensure_journaled_source_proof. *)
SourceIsJournaled ==
  /\ Outcome(cur) = "in_progress"
  /\ PlanRow(cur).planned = kept[Path]

\* Faulty variant: the destination is not looked at again.
SourceHolds ==
  /\ src[Path] = kept[Path]
  /\ method = "trash" => trash[Path] = NoContent

(* The source is still the proved one, the destination holds the proved     *)
(* content, and nothing occupies the recovery target.                       *)
BoundaryHolds ==
  /\ src[Path] = kept[Path]
  /\ dst[Path] = kept[Path]
  /\ method = "trash" => trash[Path] = NoContent

Refuse ==
  \/ cancel /\ NoFault /\ Goto("cancel_action")
  \/ ~cancel /\ ~PriorRemovalsCompleted /\ NoFault /\ Goto("unresolved")
  \/ /\ ~cancel /\ PriorRemovalsCompleted
     /\ ~SourceIsJournaled \/ ~BoundaryHolds
     /\ NoFault /\ Goto("fail_unresolved")
  \/ ~cancel /\ PriorRemovalsCompleted /\ Fault /\ Goto("fail_unresolved")

RefuseRemoval ==
  /\ pc = "settle"
  /\ Refuse
  /\ UNCHANGED <<files, record, kept, cancel, runs, edited>>

ProveTransfer ==
  /\ pc = "settle" /\ ~cancel
  /\ PriorRemovalsCompleted /\ SourceIsJournaled /\ BoundaryHolds
  /\ \/ Writes(cur, TransferVerified(Proof)) /\ Goto("prove")
     \/ WriteFails(cur, TransferVerified(Proof)) /\ Goto("unresolved")
  /\ witnessed' = [witnessed EXCEPT ![Path] = dst[Path]]
  /\ UNCHANGED <<src, dst, trash, taken, record, kept, cancel, runs, edited>>

ProveBoundary ==
  /\ pc = "prove"
  /\ Records(ProofBoundary(Proof, method), Goto("start_removal"), Goto("unresolved"))
  /\ UNCHANGED kept

\* Faulty variant: the source is removed although RemovalStarted was not written.
RemoveAnyway ==
  /\ pc = "start_removal"
  /\ Records(RemovalStarted(method), Goto("remove"), Goto("remove"))
  /\ UNCHANGED kept

(* When the write fails the replayed outcome is already Recovery Review:    *)
(* nothing more is recorded and the loop goes on.                           *)
StartRemoval ==
  /\ pc = "start_removal"
  /\ Records(RemovalStarted(method), Goto("remove"), NextAction("next"))
  /\ UNCHANGED kept

Take ==
  /\ src' = [src EXCEPT ![Path] = NoContent]
  /\ trash' = IF method = "trash" THEN [trash EXCEPT ![Path] = src[Path]] ELSE trash
  /\ taken' = [taken EXCEPT ![Path] = src[Path]]

(* perform_removal: the source is re-verified as it is taken.               *)
RemoveSource ==
  /\ pc = "remove"
  /\ \/ /\ src[Path] = kept[Path]
        /\ Take
        /\ \/ NoFault /\ Goto("record_removal")
           \/ Fault /\ Goto("record_uncertain")
     \/ /\ UNCHANGED <<src, trash, taken>>
        /\ \/ src[Path] # kept[Path] /\ NoFault /\ Goto("record_failure")
           \/ Fault /\ Goto("record_failure")
           \/ Fault /\ Goto("record_uncertain")
  /\ UNCHANGED <<dst, witnessed, record, kept, cancel, runs, edited>>

RecordRemoval ==
  /\ pc = "record_removal"
  /\ Records(RemovalCompleted(RemovalProof, method), NextAction("next"), Goto("record_uncertain"))
  /\ UNCHANGED kept

\* Faulty variant: an uncertain removal is recorded as one that kept the source.
UncertainIsUnresolved ==
  /\ pc = "record_uncertain"
  /\ Records(Event("unresolved"), NextAction("next"), NextAction("next"))
  /\ UNCHANGED kept

(* A Recovery Review that cannot be written turns the uncertain removal     *)
(* into a storage error, after which the loop goes on.                      *)
RecordUncertain ==
  /\ pc = "record_uncertain"
  /\ Records(RecoveryReview(0), NextAction("cancel_remaining"), NextAction("next"))
  /\ UNCHANGED kept

RecordFailure ==
  /\ pc = "record_failure"
  /\ Records(Event("unresolved"), NextAction("next"), NextAction("next"))
  /\ UNCHANGED kept

(* fail_unresolved; when its row is lost settle_source_removal finds the    *)
(* action still in progress and writes it once more.                        *)
FailUnresolved ==
  /\ pc = "fail_unresolved"
  /\ Records(Event("unresolved"), NextAction("next"), Goto("unresolved"))
  /\ UNCHANGED kept

RecordUnresolved ==
  /\ pc = "unresolved"
  /\ Records(Event("unresolved"), NextAction("next"), Abort)
  /\ UNCHANGED kept

-----------------------------------------------------------------------------
(* Completion Reconciliation: a Fresh Analysis against the inventory and    *)
(* the journal, then the record.                                            *)

ActionsOn(f) == {a \in 1..Len(plan) : plan[a].path = f /\ HasPlan(a)}

\* Faulty variant: reconciliation compares the files and not the journal.
LooksDrained(f) ==
  /\ src[f] = NoContent
  /\ inventory[f] # NoContent => dst[f] = inventory[f]

(* CompletionReconciliation::reconcile finds nothing to say of path f.      *)
Drained(f) ==
  IF inventory[f] = NoContent
    THEN /\ src[f] = NoContent
         /\ DestinationCleanup => dst[f] = NoContent
    ELSE /\ src[f] = NoContent
         /\ dst[f] = inventory[f]
         /\ \A a \in ActionsOn(f) : Outcome(a) = "completed"
         /\ \E a \in ActionsOn(f) :
              /\ plan[a].op = "remove_source"
              /\ LastRow(a).evidence.dst = inventory[f]

Reconcile ==
  /\ pc = "reconcile"
  /\ \/ Goto(IF \A f \in Files : Drained(f) THEN "record_drained" ELSE "record_findings")
        /\ NoFault
     \/ Fault /\ Goto("record_findings")
  /\ UNCHANGED <<files, record, kept, cancel, runs, edited>>

RecordReconciliation ==
  /\ pc \in {"record_drained", "record_findings"}
  /\ Abort
  /\ \/ NoFault /\ recon' = IF pc = "record_drained" THEN "drained" ELSE "findings"
     \/ StoreFault /\ UNCHANGED recon
  /\ UNCHANGED <<files, inventory, recorded, plan, kept, cancel, runs, edited>>

-----------------------------------------------------------------------------
(* The report, and the resumption of the last run. *)

PlannedActions == {a \in Actions : HasPlan(a)}
Open == {a \in PlannedActions : Outcome(a) = "in_progress"}
UnderReview == \E a \in PlannedActions : Outcome(a) = "recovery_review"
(* report_status.                                                           *)
Completed ==
  /\ \A a \in PlannedActions : Outcome(a) = "completed"
  /\ recon # "findings"
  /\ recorded => recon = "drained"

(* resume: refused for a completed run and for one under Recovery Review,   *)
(* which report_status shows only when no action is open.                   *)
Resume ==
  /\ pc = "idle" /\ runs \in 1..(MaxRuns - 1)
  /\ ~Completed
  /\ Open = {} => ~UnderReview
  /\ pc' = "classify" /\ cur' = 1
  /\ NoFault
  /\ UNCHANGED <<files, record, kept, cancel, runs, edited>>

(* classify_open_actions, one open action after the other. *)
ClassifyOpen ==
  /\ pc = "classify" /\ cur <= NumActions
  /\ IF cur \in Open
       THEN Records(Classification(Replay(cur)), NextAction("classify"), Abort)
       ELSE NextAction("classify") /\ NoFault /\ UNCHANGED <<files, record, cancel, runs, edited>>
  /\ UNCHANGED kept

Reopen ==
  /\ pc = "classify" /\ cur > NumActions
  /\ \/ ~UnderReview /\ StartRun
     \/ UnderReview /\ Abort /\ NoFault /\ UNCHANGED <<files, record, kept, cancel, runs, edited>>

-----------------------------------------------------------------------------
(* The environment. *)

RequestCancel ==
  /\ pc # "idle" /\ ~cancel
  /\ cancel' = TRUE
  /\ NoFault
  /\ UNCHANGED <<files, record, pc, cur, kept, runs, edited>>

(* The process dies; a transfer leaves the destination uncertain.           *)
Crash ==
  /\ pc # "idle"
  /\ Abort
  /\ broken' = TRUE
  /\ IF pc = "transfer" THEN LeaveUncertain ELSE UNCHANGED dst
  /\ UNCHANGED <<method, events, src, trash, taken, witnessed, record, kept, cancel, touched, bounds>>

Edit ==
  /\ runs > 0  \* bound: an earlier edit only leads to another initial state
  /\ edits < MaxEdits
  /\ edits' = edits + 1
  /\ \E f \in Files, item \in Items :
       /\ touched' = touched \cup {f}
       /\ \/ item # src[f] /\ src' = [src EXCEPT ![f] = item] /\ UNCHANGED dst
          \/ item # dst[f] /\ dst' = [dst EXCEPT ![f] = item] /\ UNCHANGED src
  /\ NoFault
  /\ UNCHANGED <<trash, taken, witnessed, record, memory, runs>>

RunInit ==
  /\ method \in Methods
  /\ events = [a \in Actions |-> <<>>]
  /\ src \in [Files -> Items]
  /\ dst \in [Files -> Items]
  /\ trash = Nothing /\ taken = Nothing /\ witnessed = Nothing
  /\ inventory = Nothing /\ recorded = FALSE /\ plan = <<>> /\ recon = "none"
  /\ pc = "idle" /\ cur = 1 /\ kept = Nothing /\ cancel = FALSE
  /\ touched = {}
  /\ broken = FALSE
  /\ runs = 0 /\ edits = 0 /\ faults = 0

(* The steps of the process itself. *)
Driver ==
  \/ RecordInventory \/ PlanAction \/ PlanWritten
  \/ BeginAction \/ StopLoop \/ FirstProgress \/ Defer
  \/ Transferred \/ TransferFails \/ RecordTransfer \/ CompleteTransfer
  \/ RecordJournalFailure \/ FailAction \/ ReviewAction
  \/ CancelAction \/ CancelRemaining
  \/ RefuseRemoval \/ ProveTransfer \/ ProveBoundary \/ StartRemoval
  \/ RemoveSource \/ RecordRemoval \/ RecordUncertain \/ RecordFailure
  \/ FailUnresolved \/ RecordUnresolved
  \/ Reconcile \/ RecordReconciliation
  \/ ClassifyOpen \/ Reopen

RunNext == Execute \/ Resume \/ Driver \/ RequestCancel \/ Crash \/ Edit

RunSpec == RunInit /\ [][RunNext]_allVars

(* A process that is not killed keeps executing its next statement.         *)
FairRunSpec == RunSpec /\ WF_allVars(Driver)
-----------------------------------------------------------------------------
(* Properties. *)

Working ==
  {"started", "defer", "transfer", "verified", "complete", "journal_failure",
   "fail_action", "review_action", "cancel_action", "settle", "prove",
   "start_removal", "remove", "record_removal", "record_uncertain",
   "record_failure", "fail_unresolved", "unresolved"}

RemovalsOf(f) == {a \in 1..Len(plan) : plan[a].op = "remove_source" /\ plan[a].path = f}

(* A source that is gone by the run's hand is never reported as kept: its   *)
(* action is completed or under Recovery Review from the moment the source  *)
(* is unlinked, through lost writes, a crash at any point and the           *)
(* classification by a later resume (the write-ahead boundary rows of       *)
(* settle_one read back by apply_stored_event).                             *)
RemovalNeverHidden ==
  \A f \in Files : taken[f] # NoContent =>
    \A a \in RemovalsOf(f) : Outcome(a) \in {"completed", "recovery_review"}

(* What was removed is what the plan recorded and what the destination      *)
(* really held when its proof was written, and with the trash method it is  *)
(* at its recovery target (settle_one, perform_removal).                    *)
TakenWasProven ==
  \A f \in Files : taken[f] # NoContent =>
    /\ witnessed[f] = taken[f]
    /\ \A a \in RemovalsOf(f) : PlanRow(a).planned = taken[f]
    /\ method = "trash" => trash[f] = taken[f]

(* A run that reports the source drained took every item of the confirmed   *)
(* inventory itself, in the version the user confirmed, whatever happened   *)
(* to the files during the run (CompletionReconciliation::reconcile).       *)
DrainedIsTrue ==
  recon = "drained" => taken = inventory

(* Sources are removed in plan order: none goes while the removal of an     *)
(* earlier one failed or is uncertain (ensure_prior_source_removals_        *)
(* settled).                                                                *)
RemovedInOrder ==
  \A a, b \in 1..Len(plan) :
    /\ a < b
    /\ plan[a].op = "remove_source" /\ plan[b].op = "remove_source"
    /\ taken[plan[b].path] # NoContent
    => taken[plan[a].path] # NoContent

(* No run reaches Completion Reconciliation with an action in progress,     *)
(* cancelled and failed runs included: a report after it never shows the    *)
(* run as still running (cancel_remaining, settle_source_removal).          *)
NothingLeftOpen ==
  pc \in {"reconcile", "record_drained", "record_findings"} => Open = {}

(* The row each step is about to write.                                     *)
PendingRow ==
  CASE pc = "started" -> Event("progress")
    [] pc = "defer" -> Event("deferred")
    [] pc = "verified" -> TransferVerified(Proof)
    [] pc = "complete" -> Event("completed")
    [] pc \in {"journal_failure", "review_action", "record_uncertain"} -> RecoveryReview(0)
    [] pc = "fail_action" -> Event("failed")
    [] pc \in {"cancel_action", "cancel_remaining"} -> Event("cancelled")
    [] pc = "prove" -> ProofBoundary(Proof, method)
    [] pc = "start_removal" -> RemovalStarted(method)
    [] pc = "record_removal" -> RemovalCompleted(RemovalProof, method)
    [] pc \in {"record_failure", "fail_unresolved", "unresolved"} -> Event("unresolved")
    [] pc = "classify" -> Classification(Replay(cur))
    [] OTHER -> Event("started")

Writing ==
  \/ pc \in Working \ {"transfer", "settle", "remove"}
  \/ pc \in {"next", "cancel_remaining"} /\ cur <= Len(plan)
  \/ pc = "classify" /\ cur \in Open

(* The journal takes every row the driver and a resume mean to write, so    *)
(* that a run is given up only for a failing store; the one exception is a  *)
(* transfer of a source that changed after its plan row (append_event       *)
(* against the control flow of execute_action and settle_one).              *)
JournalTakesEveryRow ==
  /\ Writing
  /\ broken => pc = "classify"
  /\ pc = "verified" => kept[Path] = PlanRow(cur).planned
  => Accepts(cur, PendingRow)

(* Files change only behind the journal: the destination of an action whose *)
(* Progress row is written, the source of one whose RemovalStarted row is   *)
(* written, one action's file at a time and only when every earlier action  *)
(* is settled, also in the step in which the process dies.                  *)
AtWork(f, phase) ==
  /\ cur \in 1..Len(plan)
  /\ Path = f
  /\ LastPhase(cur) = phase
  /\ \A b \in 1..(cur - 1) : LastPhase(b) \in SettledPhases

FilesFollowJournal ==
  [][edits' = edits =>
       \A f \in Files :
         /\ dst'[f] # dst[f] => AtWork(f, "progress")
         /\ src'[f] # src[f] => AtWork(f, "removal_started")]_allVars

(* A run comes to its end, and unless its process died, one of its writes   *)
(* failed or was refused, or an item to be planned was gone, that end is a  *)
(* recorded Completion Reconciliation, for cancelled runs and failed items  *)
(* too (execute_confirmed_with_authorizations).                             *)
RunReconciles ==
  (pc # "idle") ~> (pc = "idle" /\ (recon # "none" \/ broken))

-----------------------------------------------------------------------------
(* The abstract specification this driver implements: SourceDrain, of the   *)
(* removals the plan holds.                                                 *)

IsRemoval(a) == a \in 1..Len(plan) /\ plan[a].op = "remove_source"

(* What the report says of the removal a.                                   *)
Said(a) ==
  IF ~IsRemoval(a) \/ ~HasPlan(a) THEN "none"
  ELSE CASE Outcome(a) = "in_progress" -> "open"
         [] Outcome(a) = "recovery_review" -> "review"
         [] Outcome(a) = "completed" -> "removed"
         [] OTHER -> "kept"

ItemOf(items, a) == IF IsRemoval(a) THEN items[plan[a].path] ELSE NoContent

Drain ==
  INSTANCE SourceDrain WITH
    Sources <- Actions, Items <- Contents, None <- NoContent,
    said <- [a \in Actions |-> Said(a)],
    gone <- [a \in Actions |-> ItemOf(taken, a)],
    found <- [a \in Actions |-> ItemOf(witnessed, a)]

DrainImplemented == Drain!Spec

=============================================================================
