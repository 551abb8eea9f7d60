------------------------------- MODULE SshRun -------------------------------
(***************************************************************************)
(* One-way Safe Delete runs between a local and an SSH peer, as            *)
(* RunWorkflow drives them through a SshRunBackend: attended and           *)
(* unattended runs, transfers that are repeated while the connection broke *)
(* before anything was installed, the verification of what the backend     *)
(* says it did, the move of a remote source into the remote recovery       *)
(* location, Completion Reconciliation, the Blocked mark of an unattended  *)
(* run that gave up, and resume_ssh.  The journal is ActionJournal's.      *)
(*                                                                         *)
(* The backend is the one part that is not in the repository: a trait with *)
(* a contract, and fakes in the tests.  It is modelled by that contract.   *)
(* What it reports it observed; it may break at any boundary; after a      *)
(* plain refusal everything is where it was; when it says that something   *)
(* was installed, or that a recovery is ambiguous, everything is possible. *)
(* The evidence it attaches to a recovery in doubt need not be complete.   *)
(*                                                                         *)
(* Data.  As in SafeDeleteRun: an item is a content.  An analysis, the     *)
(* confirmation of an equal second one and the begin of the run are one    *)
(* step, since the plan's rows are taken from that analysis; a refusal     *)
(* before it starts no attended run and blocks an unattended one.  A       *)
(* permanent removal is modelled behind its authorization.  The verified   *)
(* recovery target always exists here: a passed precheck of a Trash run    *)
(* names it.                                                               *)
(***************************************************************************)
EXTENDS JournalReplay

CONSTANTS
  NumFiles,            \* paths under the source root, in path order
  DestinationCleanup,  \* the profile's Destination Cleanup option
  MaxAttempts,         \* the profile's retry policy
  MaxRuns,             \* bound: runs started
  MaxEdits,            \* bound: edits by the user
  MaxFaults            \* bound: broken connections, failed operations and writes

ASSUME SshAssumption ==
  /\ NumFiles \in Nat
  /\ NumActions = 2 * NumFiles
  /\ DestinationCleanup \in BOOLEAN
  /\ MaxAttempts \in 1..10
  /\ {"copy", "overwrite", "remove_source", "remove_destination"} \subseteq Operations

VARIABLES
  remote,         \* the source is the SSH peer
  attended,       \* a user called execute_ssh or resume_ssh
  src, dst,       \* the item at each path of the two peers
  trash,          \* the item at each path's remote recovery target
  taken,          \* what this run moved away from the source (history)
  witnessed,      \* the destination as a recovery found it (history)
  installed,      \* actions that replaced the destination without a proof (history)
  inventory,      \* the Source Inventory of the confirmed analysis
  plan,           \* the frozen plan: operation, path and item of its inventory
  stored,         \* what the store holds of the run beside its journal
  pc, cur,        \* the step of the run in progress and its action
  attempt,        \* transfers of the action that broke
  seen,           \* the transfer evidence in hand
  kept,           \* paths whose evidence is in verified_transfers
  cancel,         \* should_cancel()
  broken,         \* the run lost a write or was refused one, or was killed (history)
  touched,        \* files the user edited during the run (history)
  runs, edits, faults

files == <<src, dst, trash, taken, witnessed, installed>>
run == <<remote, attended, inventory, plan>>
work == <<attempt, seen, kept>>
allVars ==
  <<method, events, files, run, stored, pc, cur, work, cancel, broken, touched,
    runs, edits, faults>>

Files == 1..NumFiles
Items == Contents \cup {NoContent}
Nothing == [f \in Files |-> NoContent]
Op == plan[cur].op
Path == plan[cur].path

(* An SshTransferEvidence: the digests at both ends.  sound: its paths,     *)
(* metadata and source-stability flag are what the request asks for.        *)
NoEvidenceSeen == [src |-> NoContent, dst |-> NoContent, sound |-> FALSE]

-----------------------------------------------------------------------------
(* FreshAnalysis::from_inventories. *)

Step(op, f, item) == [op |-> op, path |-> f, item |-> item]

Steps(f) ==
  IF src[f] = NoContent
    THEN <<>>
    ELSE (CASE dst[f] = NoContent -> <<Step("copy", f, src[f])>>
            [] dst[f] \in Contents \ {src[f]} -> <<Step("overwrite", f, src[f])>>
            [] OTHER -> <<>>)
         \o <<Step("remove_source", f, src[f])>>

CleanupSteps(f) ==
  IF DestinationCleanup /\ src[f] = NoContent /\ dst[f] # NoContent
    THEN <<Step("remove_destination", f, dst[f])>>
    ELSE <<>>

BuildPlan ==
  LET upTo[f \in 0..NumFiles] == IF f = 0 THEN <<>> ELSE upTo[f - 1] \o Steps(f)
      cleanup[f \in 0..NumFiles] == IF f = 0 THEN <<>> ELSE cleanup[f - 1] \o CleanupSteps(f)
  IN upTo[NumFiles] \o cleanup[NumFiles]

-----------------------------------------------------------------------------
(* The report: report_status, for a run without Mirror resolutions. *)

PlannedActions == {a \in Actions : HasPlan(a)}
Open == {a \in PlannedActions : Outcome(a) = "in_progress"}
InReview == {a \in PlannedActions : Outcome(a) = "recovery_review"}

InProgress ==
  /\ ~stored.blocked
  /\ \/ Open # {}
     \/ PlannedActions = {} /\ stored.inventory /\ stored.recon = "none"

(* A run marked Blocked is shown as Blocked, whatever its items say.        *)
ShownForReview == ~stored.blocked /\ Open = {} /\ InReview # {}

Completed ==
  /\ ~stored.blocked
  /\ \A a \in PlannedActions : Outcome(a) = "completed"
  /\ stored.recon # "findings"
  /\ stored.inventory => stored.recon = "drained"

-----------------------------------------------------------------------------
(* Steps and journal writes. *)

Goto(step) == pc' = step /\ UNCHANGED cur
NextAction(step) == pc' = step /\ cur' = cur + 1

(* The error of a begun run: an attended one returns it, an unattended one  *)
(* looks at its report first.                                               *)
Abort == Goto(IF attended THEN "idle" ELSE "give_up")

NoFault == UNCHANGED <<method, events, broken, faults>>
Fault == faults < MaxFaults /\ faults' = faults + 1 /\ UNCHANGED <<method, events, broken>>
StoreFault ==
  /\ faults < MaxFaults /\ faults' = faults + 1
  /\ broken' = "aborted"
  /\ UNCHANGED <<method, events>>

Writes(e) == AppendEvent(cur, e) /\ UNCHANGED <<broken, faults>>

(* The store refuses the row, or the database errors.                       *)
WriteFails(e) ==
  /\ UNCHANGED <<method, events>>
  /\ broken' = "aborted"
  /\ \/ ~Accepts(cur, e) /\ UNCHANGED faults
     \/ faults < MaxFaults /\ faults' = faults + 1

Stay == UNCHANGED <<files, run, stored, cancel, touched, runs, edits>>

(* A step that appends e and continues at ok, or at bad when it cannot.     *)
Records(e, ok, bad) ==
  /\ \/ Writes(e) /\ ok
     \/ WriteFails(e) /\ bad
  /\ Stay

Proof ==
  [src |-> seen.src, dst |-> seen.dst, sides |-> "transferred", metadata |-> TRUE,
   provenance |-> "none"]

\* Faulty variant: a recovery is accepted without a proof of the recovered item.
RecoveredItemUnproven ==
  [src |-> seen.src, dst |-> seen.dst, metadata |-> TRUE, sides |-> "trashed",
   provenance |-> "bare"]

(* validate_remote_recovery demands the provenance and the recovered item's *)
(* proof.                                                                   *)
RemovalProof ==
  [src |-> seen.src, dst |-> seen.dst, metadata |-> TRUE, sides |-> "trashed",
   provenance |-> "whole"]

-----------------------------------------------------------------------------
(* Starting a run. *)

(* Two equal analyses, the confirmation, the backup and begin_run.          *)
StartRun(user) ==
  /\ runs < MaxRuns
  /\ runs' = runs + 1
  /\ attended' = user
  /\ events' = [a \in Actions |-> <<>>]
  /\ plan' = BuildPlan
  /\ inventory' = src
  /\ stored' = [inventory |-> FALSE, recon |-> "none", blocked |-> FALSE]
  /\ taken' = Nothing /\ witnessed' = Nothing /\ installed' = {}
  /\ pc' = "begun" /\ cur' = 1
  /\ attempt' = 0 /\ seen' = NoEvidenceSeen /\ kept' = {}
  /\ cancel' = FALSE
  /\ broken' = "no"
  /\ touched' = {}
  /\ UNCHANGED <<method, remote, src, dst, trash, edits, faults>>

ExecuteSsh == pc = "idle" /\ StartRun(TRUE)

ExecuteSshUnattended == pc = "idle" /\ StartRun(FALSE)

(* mark_unattended_blocked, and the error either way.                       *)
MarkBlocked ==
  /\ Goto("idle")
  /\ \/ /\ stored' = [stored EXCEPT !.blocked = TRUE]
        /\ broken' = "aborted"
        /\ UNCHANGED faults
     \/ /\ faults < MaxFaults /\ faults' = faults + 1
        /\ broken' = "killed"
        /\ UNCHANGED stored

(* A precheck, a permit, the second analysis or a lock refuses the run that *)
(* was begun for the schedule.                                              *)
RefuseUnattended ==
  /\ pc = "begun" /\ ~attended
  /\ MarkBlocked
  /\ UNCHANGED <<method, events, files, run, work, cancel, touched, runs, edits>>

RecordInventory ==
  /\ pc = "begun"
  /\ \/ NoFault /\ stored' = [stored EXCEPT !.inventory = TRUE] /\ Goto("persist")
     \/ StoreFault /\ UNCHANGED stored /\ Abort
  /\ UNCHANGED <<files, run, work, cancel, touched, runs, edits>>

(* ssh_plan_record: from the frozen inventories.                            *)
PlanAction ==
  /\ pc = "persist" /\ cur <= Len(plan)
  /\ Records(Planned(Op, plan[cur].item), NextAction("persist"), Abort)
  /\ UNCHANGED work

PlanWritten ==
  /\ pc = "persist" /\ cur > Len(plan)
  /\ pc' = "next" /\ cur' = 1
  /\ NoFault /\ Stay /\ UNCHANGED work

-----------------------------------------------------------------------------
(* The loop over the plan and execute_ssh_action. *)

BeginAction ==
  /\ pc = "next" /\ cur <= Len(plan) /\ ~cancel
  /\ Records(Event("started"), Goto("started"), Abort)
  /\ UNCHANGED work

StopLoop ==
  /\ pc = "next"
  /\ \/ cur > Len(plan) /\ Goto("reconcile")
     \/ cur <= Len(plan) /\ cancel /\ Goto("cancel_remaining")
  /\ NoFault /\ Stay /\ UNCHANGED work

(* The first Progress row.  A removal takes the evidence of its copy out of *)
(* verified_transfers; a local source and a destination are not removed.    *)
FirstProgress ==
  /\ pc = "started"
  /\ LET deferred == Op = "remove_destination" \/ (Op = "remove_source" /\ ~remote)
         reused == Op = "remove_source" /\ Path \in kept
     IN /\ Records(Event("progress"),
                   Goto(CASE deferred -> "defer" [] ~deferred /\ reused -> "verify"
                          [] OTHER -> "transfer"),
                   Abort)
        /\ attempt' = 0
        /\ IF reused /\ ~deferred /\ pc' = "verify"
             THEN /\ seen' = [src |-> inventory[Path], dst |-> inventory[Path], sound |-> TRUE]
                  /\ kept' = kept \ {Path}
             ELSE seen' = NoEvidenceSeen /\ UNCHANGED kept

Defer ==
  /\ pc = "defer"
  /\ Records(Event("deferred"), NextAction("next"), Abort)
  /\ UNCHANGED work

-----------------------------------------------------------------------------
(* run_ssh_transfer and the backend's transfer. *)

(* A call of the backend ends, with so many failures of its own and perhaps *)
(* a Progress row or a retry event that could not be written.               *)
CallEnds(step, failures) ==
  \E lost \in 0..1 :
    /\ faults + failures + lost <= MaxFaults
    /\ faults' = faults + failures + lost
    /\ broken' = IF lost = 1 THEN "aborted" ELSE broken
    /\ Goto(IF lost = 1 THEN "journal_failure" ELSE step)
    /\ UNCHANGED <<method, events>>

(* Failures of the call an edit of the same file may stand for.             *)
Failures == {1} \cup {0 : f \in touched \cap {Path}}

(* Ok, with evidence of both ends.  A clean exit proves nothing: it may     *)
(* hide another content, other metadata, or a source that was not checked   *)
(* again.                                                                   *)
TransferReturns ==
  /\ pc = "transfer" /\ ~cancel /\ src[Path] # NoContent
  /\ \E item \in Contents, sound \in BOOLEAN :
       /\ dst' = [dst EXCEPT ![Path] = item]
       /\ seen' = [src |-> src[Path], dst |-> item, sound |-> sound]
       /\ installed' = installed \cup {cur}
       /\ CallEnds("verify", IF item = src[Path] /\ sound THEN 0 ELSE 1)
  /\ UNCHANGED <<src, trash, taken, witnessed, run, stored, attempt, kept, cancel, touched, runs, edits>>

(* Disconnected or a failed process before anything was installed: again,   *)
(* as often as the policy says.                                             *)
AttemptBreaks ==
  /\ pc = "transfer" /\ ~cancel
  /\ attempt' = attempt + 1
  /\ CallEnds(IF attempt + 1 < MaxAttempts THEN "transfer" ELSE "fail_action", 1)
  /\ UNCHANGED <<files, run, stored, seen, kept, cancel, touched, runs, edits>>

\* Faulty variant: a connection lost behind the installation counts as an ordinary failure.
BoundaryForgotten == "fail_action"

(* requires_recovery_review, of a transfer's boundary.                      *)
BehindInstallation == "review"

(* Disconnected, a failed process, or an unavailable or different digest    *)
(* once the destination was installed.                                      *)
BreaksInstalled ==
  /\ pc = "transfer" /\ ~cancel
  /\ installed' = installed \cup {cur}
  /\ \E item \in {dst[Path], NoContent, src[Path]} : dst' = [dst EXCEPT ![Path] = item]
  /\ CallEnds(BehindInstallation, 1)
  /\ UNCHANGED <<src, trash, taken, witnessed, run, stored, work, cancel, touched, runs, edits>>

(* A verification that failed before the installation, a changed source,    *)
(* other metadata, or any other refusal; and a cancellation, seen by the    *)
(* backend, before an attempt or in the pause between two.                  *)
TransferRefused ==
  /\ pc = "transfer"
  /\ \/ cancel /\ CallEnds("cancel_action", 0)
     \/ src[Path] = NoContent /\ CallEnds("unresolved", 0)
     \/ \E failures \in Failures : CallEnds("unresolved", failures) \/ CallEnds("fail_action", failures)
  /\ UNCHANGED <<files, run, stored, work, cancel, touched, runs, edits>>

-----------------------------------------------------------------------------
(* Verification, and the rows of a transfer. *)

(* matches_request and matches_inventory. *)
MatchesInventory ==
  /\ seen.sound
  /\ seen.src = inventory[Path]
  /\ seen.dst = seen.src

RefuseEvidence ==
  /\ pc = "verify" /\ ~MatchesInventory
  /\ Records(Event("unresolved"), NextAction("next"), Goto("journal_failure"))
  /\ UNCHANGED work

(* TransferVerified; behind it a copy is completed, a removal by Trash      *)
(* proves its boundary, and a permanent one goes no further.                *)
RecordVerified ==
  /\ pc = "verify" /\ MatchesInventory
  /\ \/ /\ Writes(TransferVerified(Proof))
        /\ Goto(CASE Op # "remove_source" -> "complete"
                  [] Op = "remove_source" /\ method = "trash" -> "prove"
                  [] OTHER -> "unresolved")
        /\ installed' = installed \ {cur}
     \/ /\ WriteFails(TransferVerified(Proof))
        /\ Goto("journal_failure")
        /\ UNCHANGED installed
  /\ UNCHANGED <<src, dst, trash, taken, witnessed, run, stored, work, cancel, touched, runs, edits>>

CompleteTransfer ==
  /\ pc = "complete"
  /\ Records(Event("completed"), NextAction("next"), Goto("journal_failure"))
  /\ kept' = kept \cup {Path}
  /\ UNCHANGED <<attempt, seen>>

(* record_ssh_failure, after a transfer or a recovery.  A Recovery Review   *)
(* and a cancellation stop the loop.  The review of a transfer has an empty *)
(* evidence; that of a recovery has the backend's, stored as it came.       *)
FailAction ==
  /\ pc = "fail_action"
  /\ Records(Event("failed"), NextAction("next"), Abort)
  /\ UNCHANGED work

LeaveUnresolved ==
  /\ pc = "unresolved"
  /\ Records(Event("unresolved"), NextAction("next"), Abort)
  /\ UNCHANGED work

ReviewAction ==
  /\ pc = "review"
  /\ \E e \in {RecoveryReview(0), Torn(RecoveryReview(0))} :
       /\ LastPhase(cur) # "removal_started" => e = RecoveryReview(0)
       /\ Records(e, NextAction("cancel_remaining"), Abort)
  /\ UNCHANGED work

CancelAction ==
  /\ pc = "cancel_action"
  /\ Records(Event("cancelled"), NextAction("cancel_remaining"), Abort)
  /\ UNCHANGED work

(* record_journal_failure: a Recovery Review if it can still be written,    *)
(* and the error either way.                                                *)
RecordJournalFailure ==
  /\ pc = "journal_failure"
  /\ Records(RecoveryReview(0), Abort, Abort)
  /\ UNCHANGED work

CancelRemaining ==
  /\ pc = "cancel_remaining"
  /\ IF cur <= Len(plan)
       THEN Records(Event("cancelled"), NextAction("cancel_remaining"), Abort)
       ELSE Goto("reconcile") /\ NoFault /\ Stay
  /\ UNCHANGED work

-----------------------------------------------------------------------------
(* Removing a remote source. *)

ProveBoundary ==
  /\ pc = "prove"
  /\ Records(ProofBoundary(Proof, method), Goto("boundary"), Goto("journal_failure"))
  /\ UNCHANGED work

(* A cancellation behind the proof boundary is offered as Cancelled, which  *)
(* append_event does not take any more.                                     *)
StartRemoval ==
  /\ pc = "boundary"
  /\ IF cancel
       THEN Goto("cancel_action") /\ NoFault /\ Stay
       ELSE Records(RemovalStarted(method), Goto("recover"), Abort)
  /\ UNCHANGED work

\* Faulty variant: the recovered source is compared, the destination is not.
RecoveredSourceProven(left, right) == right = seen.src

(* validate_remote_recovery: what was observed at the destination and at    *)
(* the recovery target is what the transfer proved.                         *)
RecoveryProven(left, right) == left = seen.dst /\ right = seen.src

(* recover_source moved the source and observed both ends.  It checked the  *)
(* source, but the user may have been faster.                               *)
RecoveryReturns ==
  /\ pc = "recover"
  /\ src[Path] # NoContent /\ trash[Path] = NoContent
  /\ src[Path] = seen.src \/ Path \in touched
  /\ src' = [src EXCEPT ![Path] = NoContent]
  /\ trash' = [trash EXCEPT ![Path] = src[Path]]
  /\ taken' = [taken EXCEPT ![Path] = src[Path]]
  /\ witnessed' = [witnessed EXCEPT ![Path] = dst[Path]]
  /\ Goto(IF RecoveryProven(dst[Path], src[Path]) THEN "record_removal" ELSE "review")
  /\ NoFault
  /\ UNCHANGED <<dst, installed, run, stored, work, cancel, touched, runs, edits>>

\* Faulty variant: an ambiguous recovery counts as an ordinary failure.
AmbiguousFails == "fail_action"

(* requires_recovery_review, of RemoteRecoveryFailed and -Ambiguous.        *)
RecoveryInDoubt == "review"

(* RemoteRecoveryAmbiguous: the source may be where it was, or moved.       *)
RecoveryAmbiguous ==
  /\ pc = "recover"
  /\ Fault
  /\ \/ UNCHANGED <<src, trash, taken>>
     \/ /\ src[Path] # NoContent /\ trash[Path] = NoContent
        /\ src' = [src EXCEPT ![Path] = NoContent]
        /\ trash' = [trash EXCEPT ![Path] = src[Path]]
        /\ taken' = [taken EXCEPT ![Path] = src[Path]]
  /\ Goto(RecoveryInDoubt)
  /\ UNCHANGED <<dst, witnessed, installed, run, stored, work, cancel, touched, runs, edits>>

(* Every other error preserves the source: a changed source, a recovery or  *)
(* a connection that failed, a cancellation.                                *)
RecoveryRefused ==
  /\ pc = "recover"
  /\ \/ cancel /\ NoFault /\ Goto("cancel_action")
     \/ src[Path] # seen.src /\ NoFault /\ Goto("unresolved")
     \/ trash[Path] # NoContent /\ NoFault /\ Goto("review")
     \/ Fault /\ \/ Goto("fail_action")
                 \/ Goto(RecoveryInDoubt)
  /\ UNCHANGED <<files, run, stored, work, cancel, touched, runs, edits>>

RecordRemoval ==
  /\ pc = "record_removal"
  /\ Records(RemovalCompleted(RemovalProof, method), NextAction("next"), Goto("journal_failure"))
  /\ UNCHANGED work

-----------------------------------------------------------------------------
(* The end of a run. *)

ActionsOn(f) == {a \in 1..Len(plan) : plan[a].path = f /\ HasPlan(a)}

(* CompletionReconciliation::reconcile finds nothing to say of path f.      *)
Drained(f) ==
  IF inventory[f] = NoContent
    THEN /\ src[f] = NoContent
         /\ DestinationCleanup => dst[f] = NoContent
    ELSE /\ src[f] = NoContent
         /\ dst[f] = inventory[f]
         /\ \A a \in ActionsOn(f) : Outcome(a) = "completed"
         /\ \E a \in ActionsOn(f) :
              /\ plan[a].op = "remove_source"
              /\ LastRow(a).evidence.dst = inventory[f]

(* reconcile_ssh_run: an analysis that fails leaves findings; a journal     *)
(* that cannot be read ends the run with an error.                          *)
Reconcile ==
  /\ pc = "reconcile"
  /\ \/ /\ JournalReadable /\ NoFault
        /\ Goto(IF \A f \in Files : Drained(f) THEN "record_drained" ELSE "record_findings")
     \/ JournalReadable /\ Fault /\ Goto("record_findings")
     \/ ~JournalReadable /\ NoFault /\ Abort
  /\ Stay /\ UNCHANGED work

RecordReconciliation ==
  /\ pc \in {"record_drained", "record_findings"}
  /\ \/ /\ NoFault
        /\ stored' = [stored EXCEPT !.recon = IF pc = "record_drained" THEN "drained" ELSE "findings"]
        /\ Goto("idle")
     \/ StoreFault /\ UNCHANGED stored /\ Abort
  /\ UNCHANGED <<files, run, work, cancel, touched, runs, edits>>

\* Faulty variant: an unattended run that failed returns its error only.
ReturnError ==
  /\ pc = "give_up"
  /\ Goto("idle")
  /\ NoFault
  /\ UNCHANGED <<files, run, stored, work, cancel, touched, runs, edits>>

(* execute_ssh_unattended: a failed run that would look as if it were still *)
(* running is marked Blocked, if its report can be loaded.                  *)
GiveUp ==
  /\ pc = "give_up"
  /\ IF JournalReadable /\ InProgress
       THEN MarkBlocked
       ELSE Goto("idle") /\ UNCHANGED <<broken, faults, stored>>
  /\ UNCHANGED <<method, events, files, run, work, cancel, touched, runs, edits>>

-----------------------------------------------------------------------------
(* resume_ssh. *)

Resume ==
  /\ pc = "idle" /\ runs \in 1..(MaxRuns - 1)
  /\ JournalReadable /\ ~Completed /\ ~ShownForReview
  /\ pc' = "classify" /\ cur' = 1
  /\ attended' = TRUE
  /\ NoFault
  /\ UNCHANGED <<files, remote, inventory, plan, stored, work, cancel, touched, runs, edits>>

(* classify_ssh_open_actions looks at the verified transfer only.           *)
SshClassification(entry) ==
  IF entry.transferred THEN RecoveryReview(0) ELSE Event("interrupted")

ClassifyOpen ==
  /\ pc = "classify" /\ cur <= NumActions
  /\ IF cur \in Open
       THEN Records(SshClassification(Replay(cur)), NextAction("classify"), Goto("idle"))
       ELSE NextAction("classify") /\ NoFault /\ Stay
  /\ UNCHANGED work

Reopen ==
  /\ pc = "classify" /\ cur > NumActions
  /\ \/ ~ShownForReview /\ StartRun(TRUE)
     \/ ShownForReview /\ Goto("idle") /\ NoFault /\ Stay /\ UNCHANGED work

-----------------------------------------------------------------------------
(* The environment. *)

RequestCancel ==
  /\ pc \notin {"idle", "classify"} /\ ~cancel
  /\ cancel' = TRUE
  /\ NoFault
  /\ UNCHANGED <<files, run, stored, pc, cur, work, touched, runs, edits>>

(* The process dies; what the backend was doing is half done or done.       *)
Crash ==
  /\ pc # "idle"
  /\ Goto("idle")
  /\ broken' = "killed"
  /\ IF pc = "transfer"
       THEN \E item \in {dst[Path], NoContent, src[Path]} : dst' = [dst EXCEPT ![Path] = item]
       ELSE UNCHANGED dst
  /\ \/ UNCHANGED <<src, trash, taken>>
     \/ /\ pc = "recover" /\ src[Path] = seen.src /\ trash[Path] = NoContent
        /\ src' = [src EXCEPT ![Path] = NoContent]
        /\ trash' = [trash EXCEPT ![Path] = src[Path]]
        /\ taken' = [taken EXCEPT ![Path] = src[Path]]
  /\ UNCHANGED <<method, events, witnessed, installed, run, stored, work, cancel, touched,
                 runs, edits, faults>>

Edit ==
  /\ runs > 0  \* bound: an earlier edit only leads to another initial state
  /\ edits < MaxEdits
  /\ edits' = edits + 1
  /\ \E f \in Files, item \in Items :
       /\ touched' = touched \cup {f}
       /\ \/ item # src[f] /\ src' = [src EXCEPT ![f] = item] /\ UNCHANGED dst
          \/ item # dst[f] /\ dst' = [dst EXCEPT ![f] = item] /\ UNCHANGED src
  /\ NoFault
  /\ UNCHANGED <<trash, taken, witnessed, installed, run, stored, pc, cur, work, cancel, runs>>

SshInit ==
  /\ method \in Methods
  /\ events = [a \in Actions |-> <<>>]
  /\ remote \in BOOLEAN /\ attended = TRUE
  /\ src \in [Files -> Items]
  /\ dst \in [Files -> Items]
  /\ trash = Nothing /\ taken = Nothing /\ witnessed = Nothing /\ installed = {}
  /\ inventory = Nothing /\ plan = <<>>
  /\ stored = [inventory |-> FALSE, recon |-> "none", blocked |-> FALSE]
  /\ pc = "idle" /\ cur = 1
  /\ attempt = 0 /\ seen = NoEvidenceSeen /\ kept = {}
  /\ cancel = FALSE /\ broken = "no" /\ touched = {}
  /\ runs = 0 /\ edits = 0 /\ faults = 0

(* The steps of the process, and the backend's answers to it.               *)
Driver ==
  \/ RefuseUnattended \/ RecordInventory \/ PlanAction \/ PlanWritten
  \/ BeginAction \/ StopLoop \/ FirstProgress \/ Defer
  \/ TransferReturns \/ AttemptBreaks \/ BreaksInstalled \/ TransferRefused
  \/ RefuseEvidence \/ RecordVerified \/ CompleteTransfer
  \/ FailAction \/ LeaveUnresolved \/ ReviewAction \/ CancelAction
  \/ RecordJournalFailure \/ CancelRemaining
  \/ ProveBoundary \/ StartRemoval
  \/ RecoveryReturns \/ RecoveryAmbiguous \/ RecoveryRefused \/ RecordRemoval
  \/ Reconcile \/ RecordReconciliation \/ GiveUp
  \/ ClassifyOpen \/ Reopen

SshNext ==
  \/ ExecuteSsh \/ ExecuteSshUnattended \/ Resume
  \/ Driver
  \/ RequestCancel \/ Crash \/ Edit

SshSpec == SshInit /\ [][SshNext]_allVars

-----------------------------------------------------------------------------
(* Properties. *)

(* A remote removal that is recorded took the confirmed content, which is   *)
(* at the recovery target, and found the confirmed content at the           *)
(* destination behind the move, whatever was edited meanwhile and whichever *)
(* evidence was reused (matches_inventory, validate_remote_recovery).       *)
RecoveredWasProven ==
  \A a \in 1..Len(plan) : LastPhase(a) = "removal_completed" =>
    \A item \in {taken[plan[a].path], trash[plan[a].path], witnessed[plan[a].path]} :
      item = inventory[plan[a].path]

(* A remote source that is gone by the run's hand is recorded as completed  *)
(* or under Recovery Review at every moment, through ambiguous recoveries,  *)
(* lost rows, refused rows and crashes (record_ssh_failure).  Its rows say  *)
(* so; a review with a torn provenance keeps the report from being loaded.  *)
RecoveryNeverHidden ==
  \A a \in 1..Len(plan) :
    plan[a].op = "remove_source" /\ taken[plan[a].path] # NoContent =>
      Outcome(a) \in {"completed", "recovery_review"}

(* The journal of a run can be read back unless the store was handed a torn *)
(* evidence with the review of a recovery: no lost or refused row, crash or *)
(* resume makes load_journal refuse it (validate_remote_recovery on the way *)
(* in, validate_removal_evidence and decode_recovery_evidence on the way    *)
(* back).                                                                   *)
TornReviews(a) ==
  {i \in RowsOf(a, "recovery_review") :
     /\ i > 1 /\ events[a][i - 1].phase = "removal_started"
     /\ events[a][i].evidence.provenance = "torn"}

ReadableUnlessTorn == JournalReadable <=> \A a \in Actions : TornReviews(a) = {}

(* An action that replaced the destination and could not prove the result   *)
(* is never reported as completed, cancelled, deferred or as an ordinary    *)
(* failure, and is never repeated (SshTransferBoundary).                    *)
InstalledIsShown ==
  \A a \in installed :
    /\ Outcome(a) \in {"in_progress", "unresolved", "interrupted", "recovery_review"}
    /\ cur = a => pc # "transfer"

(* No run whose journal can be read ends without a recorded reconciliation  *)
(* unless a row was lost or refused or the process died; and such a run     *)
(* without a user never ends looking as if it still went on, also when a    *)
(* row of it was refused (execute_ssh_confirmed, execute_ssh_unattended).   *)
EndsAccountedFor ==
  pc = "idle" /\ runs > 0 /\ JournalReadable =>
    /\ stored.recon # "none" \/ broken # "no"
    /\ attended \/ broken = "killed" \/ ~InProgress

-----------------------------------------------------------------------------
(* The abstract specification this driver implements: SourceDrain, of the   *)
(* removals the plan holds.                                                 *)

IsRemoval(a) == a \in 1..Len(plan) /\ plan[a].op = "remove_source"

(* What the rows say of the removal a: the report, if it can be loaded.     *)
Said(a) ==
  IF ~IsRemoval(a) \/ ~HasPlan(a) THEN "none"
  ELSE CASE Outcome(a) = "in_progress" -> "open"
         [] Outcome(a) = "recovery_review" -> "review"
         [] Outcome(a) = "completed" -> "removed"
         [] OTHER -> "kept"

ItemOf(items, a) == IF IsRemoval(a) THEN items[plan[a].path] ELSE NoContent

Drain ==
  INSTANCE SourceDrain WITH
    Sources <- Actions, Items <- Contents, None <- NoContent,
    said <- [a \in Actions |-> Said(a)],
    gone <- [a \in Actions |-> ItemOf(taken, a)],
    found <- [a \in Actions |-> ItemOf(witnessed, a)]

DrainImplemented == Drain!Spec

=============================================================================
