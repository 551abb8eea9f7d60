# A TLA+ verification of SyncPlus

SyncPlus is a desktop program for Linux that synchronises two peers (directory trees) with rsync and
treats every change of the user's files as something to be planned, confirmed, proven and journaled.
Its core is the crate `src/crates/syncplus-core`; the desktop application is `src/crates/syncplus`. This
directory models the parts on which the user's data depends, checks the models with TLC and proves the
central invariants with TLAPS.

A path below without a directory is a file of `src/crates/syncplus-core/src/`, except `app.rs`, which is
`src/crates/syncplus/src/app.rs`, and the documents of the repository (`CONTEXT.md`, `PLAN.md`, `ADR`).
`PROJECT.json` maps each definition to the lines it models.

## 1. The system

### 1.1 Components

| Component | State it keeps | Operations | What makes it correct | Here |
|---|---|---|---|---|
| Action journal (`evidence.rs`) | table `action_events`: rows of each planned action; the run's frozen deletion method | `append_event`, `load_journal`, `apply_stored_event` | later work never runs past an unknown outcome; a recorded removal rests on a proof; what is accepted can be read back, a half-recorded provenance apart; outcomes are final | modelled |
| Run workflow, local (`workflow.rs`) | frozen plan, verified replacements in memory, cancellation flag | `execute`, `execute_action`, `settle_source_removal`, `cancel_remaining`, `resume`, Mirror, resolution and unattended forms | files change only behind the journal; no action is left open; a run ends reconciled | partly |
| Analysis and planning (`analysis.rs`) | Source Inventory, analysis, confirmation | `FreshAnalysis`, `build_plan`, confirmation against a newer analysis | the plan is what was confirmed | partly |
| Controlled transfer (`transfer.rs`) | an rsync child process | `execute_paths` | its exit is never taken for a proof | partly: outcomes |
| Verified replacement (`replacement.rs`) | a temporary, a previous and a failed sibling of the destination | transfer, prove, set aside, install, prove, confirm, roll back | nothing of the user is lost; the destination never shows an unproven copy; a failure is rolled back or says it was not | modelled |
| Safe Delete removal (`removal.rs`) | source preservation guard, recovery target | `settle_one`, `perform_removal` in three variants, `restore_source_from_guard` | only the proven file goes, and while the journal does not vouch for it, it has a name | partly: regular files |
| Completion reconciliation (`reconciliation.rs`) | none | `reconcile`, `reconcile_mirror_...` | "drained" and "mirrored" are said only when true | partly: regular files |
| Run evidence and reports (`evidence.rs`) | runs, inventories, reconciliations, reviews, scheduler events, notices | `report_status`, discard, delete metadata, Review-Cleared | the status of a run says what happened; a live run keeps its report | partly |
| SSH runs (`workflow.rs`, `ssh_workflow.rs`) | evidence of repeated transfers, Blocked mark | `execute_ssh`, `execute_ssh_unattended`, `resume_ssh` | the local properties, over a connection that breaks at any boundary | partly: the driver |
| Scope locks (`scope_lock.rs`) | scopes of active runs, a token counter | `acquire` all or nothing, release on drop | overlapping runs exclude each other; nobody waits | modelled |
| Background scheduler (`scheduler.rs`, `storage.rs`) | due times, claims, notices | `poll_due`, `claim_due_schedule`, `ScheduledRun::execute` | an occurrence runs once; a missed one is not lost; a run moves only what was authorized | partly |
| Prechecks and volumes (`precheck.rs`, `volume.rs`, `local_mount.rs`) | observed identities | probes before a run | a wrong or missing volume starts no run | partly: outcome |
| Mirror (`baseline.rs`, `mirror_deletion.rs`) | baseline of both peers | two-way plan, reviewed deletions, baseline update | a change of one side is never taken for the other's | partly |
| Conflicts, resolution (`conflict.rs`, `resolution.rs`, `resolution_run.rs`, `preserved_copy.rs`) | reviewed conflicts and decisions | revalidation, resolution runs, preserved copies | a decision is applied to what it was made for | partly |
| Profiles, authorizations (`model.rs`, `storage.rs`, `config_transfer.rs`) | profiles, revisions, authorizations | save, import, export | an authorization never reaches other peers | partly |
| Desktop application (`app.rs`) | form, folder gate, review, two threads, quit dialog | checks, Dry Run, confirmation, Synchronise, Stop, Quit | a run starts only for what was shown and confirmed | partly |
| Verification proofs (`verification.rs`) | none | captures, hashes | a capture is of one version of a file | not modelled: data of the models |
| Restore (`restore.rs`) | one report row | restore a removed item | nothing is overwritten | not modelled |
| Database backup (`backup.rs`) | backup and recovery gate | backup, quarantine, recovery | no run on a database that cannot be trusted | not modelled |
| Processes, parsing (`process.rs`, `runner.rs`, `parser.rs`) | child processes | run, cancel, parse progress | a dead child is noticed | not modelled |

### 1.2 How they interact

A run is sequential code in one thread. `RunWorkflow::execute` analyses both peers, has the plan
confirmed, writes a run snapshot and the inventory, and writes one `Planned` row per action. For every
action it writes `Started` and `Progress`, calls the verified replacement, and writes `TransferVerified` and
`Completed`; a source removal goes through `SafeDeleteExecutor::settle_one`, which re-checks everything,
writes `TransferVerified`, `ProofBoundary` and `RemovalStarted`, changes the files, and writes
`RemovalCompleted`. Every row goes through `append_event`, which accepts or refuses it from the stored rows
alone. At the end a second analysis and the journal together decide what the reconciliation says.
After a crash `resume` replays the journal, records `Interrupted` or `RecoveryReview` for each open action
and starts a new run with a new plan. An SSH run has the same driver with a backend in the place of the two
executors; a Mirror run ends by writing the paths that were equal on both peers into the Sync Baseline.

Runs are started by the desktop application, on a thread beside the one that draws, and by processes with
`--background-scheduler`. All share one SQLite store; each workflow has a lock registry, which may be shared
with other workflows of the same process and never is with those of another.

### 1.3 What is hard about it

* **The user.** Files change, disappear and are replaced by other programs between any two system calls;
  profiles are edited while a scheduler polls; clicks arrive between two frames of a check.
* **Crashes.** The journal and the file system cannot be changed in one transaction; the process may die
  between any two steps.
* **Partial failure.** Every journal write and every system call may fail, also the ones that repair an
  earlier failure; a connection may break after the remote side has done its work.
* **Two authorities.** The driver's control flow and the store's checks are written independently: a row
  the store refuses stops a run half-way.
* **Several processes** poll one store, and the user removes reports under a run that is alive.
* **Stale reviews.** Plans, decisions and confirmations are made in one state and used in another.
* **Cancellation** arrives at any time, and the code looks for it at chosen places.

`PROJECT.json` lists these as hazards, each at its line, with the properties aimed at it.

## 2. The modules

| Module | Models | Composition |
|---|---|---|
| `ActionJournal` | `append_event`: all its checks, offered every event in every order | - |
| `JournalReplay` | `load_journal`, `apply_stored_event`, the classification of open actions | extends `ActionJournal` |
| `SafeDeleteRun` | driver, `settle_one`, reconciliation, crash and resume, user and faults | extends `JournalReplay`: each row it writes is an `AppendEvent`, refused or taken |
| `SshRun` | the driver of a run with an SSH peer and a backend that breaks | extends `JournalReplay` in the same way |
| `SourceDrain` | what the report of a run promises of each source it may remove (abstract) | implemented by `SafeDeleteRun` and by `SshRun` |
| `VerifiedReplacement` | one verified replacement, one action per system call or capture | inside the step `Transferred` / `TransferFails` of `SafeDeleteRun` |
| `SourceRemoval` | one `perform_removal` and its last row, one action per system call | inside the step `RemoveSource` of `SafeDeleteRun` |
| `Mirror` | ordinary, resolution and deletion runs, the review between them, the baseline | - |
| `ScopeLock` | the value of a lock registry, `acquire` and release | - |
| `ScopeLockRegistry` | what a registry promises the threads that share it (abstract) | extends `ScopeLock` |
| `Background` | scheduler processes and desktops on one store, with their registries | extends `ScopeLock`; implements `ScopeLockRegistry` |
| `Desktop` | the form, the folder gate, the review, the two threads, the quit dialog | - |
| `ActionJournalProofs`, `SafeDeleteRunProofs`, `SshRunProofs`, `VerifiedReplacementProofs`, `SourceRemovalProofs`, `BackgroundProofs`, `MirrorProofs`, `DesktopProofs` | theorems | extend the module they are about; `SafeDeleteRunProofs` and `SshRunProofs` also extend `ActionJournalProofs`, as the runs extend the journal; `BackgroundProofs` also proves what `ScopeLockRegistry` promises, for an instance of it with a state of its own |
| `MC...` | TLC instances: model values and symmetry | extend the module they instantiate |

A definition headed *Faulty variant* is not part of a specification. It is what a definition would be with
a plausible bug; each is named in `PROJECT.json` beside the property that TLC then finds violated.

### 2.1 ActionJournal and JournalReplay

`events[a]` is the sequence of rows of action `a`, `method` the deletion method of the snapshot. `Accepts(a, e)`
is the conjunction of the checks of `append_event`: `ValidEvent` (`validate_event` with its transition
table `MayFollow`), `TransferMatchesPlan`, `RemovalMatchesProof`, `PriorActionsSettled` and
`ResolutionIsNewer`. `Next` offers every event to every action: the store trusts no caller, so the
properties are those of the store alone. The only thing taken from the caller is that `persist_plan` writes
all plan rows first.

Contents are a small set; a content stands for size and SHA-256. The presence flags of a
`RecoveryEvidence` are told apart only as far as the checks do (`Sides`). The provenance of a removed item is
in the evidence (`Provenances`): absent, whole, without a proof of the removed item, or torn, with one of
the source's size and digest and not the other. `append_event` stores it unread.

`Replay(a)` folds the rows of an action as `apply_stored_event` does, with that function's own transition
checks and its own reading of each evidence: `Legible` is what `decode_recovery_evidence`,
`decode_recovery_provenance` and `validate_removal_evidence` demand of a provenance. There the two disagree:
`Next` offers reviews, resolutions and removals with every provenance, the store takes them, and one row that
is not `Legible` makes `load_journal` refuse the journal of the whole run (`JournalReadable`). `Classification` is what `resume` records of an open action.

### 2.2 SafeDeleteRun

`pc` and `cur` are the step and the action of the driver, `kept` its verified replacements, `plan` the frozen
plan; `src`, `dst` and `trash` are the items at each path of the peers and at its recovery target. A step that
writes a row has two outcomes (`Records`): the row is accepted, or the write fails, because `Accepts` refuses
it or because the database does; the code's error path follows. The user may edit any file at any step,
operations may fail, `Crash` ends the process anywhere.

Two pieces are single steps: a verified replacement and one `perform_removal`. A replacement succeeds with
the source's content, fails with the destination as it was or, where nothing was, with the copy left behind
(`LeaveBehind`), or is uncertain and leaves the destination in one
of three states. That these are its outcomes is what `VerifiedReplacement` shows (`SuccessIsProven`,
`CleanFailureRestores`, `NeverShowsUnproven`). A removal takes the proven file, fails and keeps it, or is
uncertain; `SourceRemoval` shows in `LostOnlyProven`, `CleanFailureKeepsSource` and `GuardOutlivesDoubt`
how far that is so, and two divergences (section 5) say where not. The link between the levels is this
argument, not a checked refinement.

History variables (`taken`, `witnessed`, `touched`, `broken`) are read by properties and by the
bookkeeping of faults only.

### 2.3 SshRun

The same state as `SafeDeleteRun`, with `remote` (which peer is the SSH one), `attempt` (transfers of an
action that broke), `seen` (the evidence the backend returned) and `attended`. The backend is a trait, no
production type of the repository implements it; it is therefore modelled by the contract its users and the
fakes of the tests state, and its actions are marked external: what it reports it observed; it may break at any boundary; after
a plain refusal everything is where it was; when it says that something was installed, or that a recovery is
ambiguous, anything may be. The driver around it is from the source: `AttemptBreaks` repeats a transfer only
while nothing was installed, `BreaksInstalled` does not, `RecordVerified` and `RecordRemoval` compare the
evidence with the inventory, `GiveUp` is the Blocked mark of an unattended run, `Reopen` what `resume_ssh` does.
What the backend says of a recovery in doubt goes into the review as it came, so `ReviewAction` may write a row with
a torn provenance. The journal can then not be read: `Reconcile` ends the run with an error, `GiveUp` marks nothing and
`Resume` is refused.

Simplifications: the analysis, its confirmation and the begin of a run are one step, because the plan rows
are made from that very analysis. A permanent removal stands behind its authorization. The recovery
target always exists in a trash run, since a run is only planned behind a precheck that names it.

### 2.4 VerifiedReplacement

`at` gives the item at each of the five names the call uses: the source, the destination, and the
destination's temporary, previous and failed siblings. An item is an inode with bytes and a time. Each
action is one stretch of `perform_verified_replacement_with_cancel_and_metadata_and_partial` around at most one
change of a name, followed by the rollback (`Probe`, `Identify`, `SetAside`, `RestorePrevious`) and the
clean-up of the temporary file. `Probe` may fail like any other call, and the code reads that as an empty name
(history: `blind`). All renames refuse an existing name, as `renameat2(RENAME_NOREPLACE)` does.

### 2.5 SourceRemoval

Names point to inodes, so that a hard link (the guard), a rename and an unlink are what they are. The
three methods share `CheckSource`, `CreateGuard` and the row at the end. `MatchSource`, `UnlinkSource`
and `CheckAbsent` are `remove_source_exact`; `MoveToRecovery` to `Rematch` are
`move_to_same_filesystem_recovery` with `restore_source_from_guard`; `CopySource` and `InstallRecovery` are
`copy_to_cross_filesystem_recovery`. Comparing a file with the proof is one step, since
`ensure_source_entry_matches` reads the metadata before and after the contents; the unlink or rename that
follows is a step of its own.

### 2.6 Mirror

`files` is what each peer holds at each path, `baseline` the stored baseline, `review` a reviewed analysis with
its decisions, `run` the run in progress. The three kinds of run share the journal and the reconciliation:
`BeginMirrorRun`/`CopyItem` copy what only one peer has; `ReviewConflicts`,
`BeginResolutionRun` and `KeepItem`, `PreserveItem`, `DeferItem` carry out decisions, made again against a
fresh analysis (`Revalidates`); `BeginDeletionRun`, `DeleteItem` and `RecordDeletions` delete candidates that the
baseline has on both sides. The user may edit either peer at any step. `agreed` (history) collects the states
both peers held at once, `installed` the decisions that were really carried out. A transfer that fails leaves what
`VerifiedReplacement` allows it to leave (`TransferFails`, `TransferUncertain`).

### 2.7 ScopeLock, ScopeLockRegistry and Background

`ScopeLock` has the value behind the mutex (`held`, `next`) and its operations; paths are sequences, so that
containment is a prefix. `ScopeLockRegistry` is the abstract specification: threads acquire all scopes of a
request or none and drop their lease. In `Background` each process of `--background-scheduler`
polls: it lists the enabled profiles, loads and claims those that are due, in the order of their identifiers and each in a transaction of its own, and runs each claim
(`Precheck`, `Begin`, `Work`, `Reconcile`, `Return`), then records the outcome and, for a run that did not
take place, a Missed event with its notice. The desktop edits profiles with a revision check, starts manual
runs, answers notices and removes reports. Registries are one for each process or one for all (`shared`); the
refinement `LocksImplemented` maps one registry and the leases of those who use it to the abstract one.
Of a run's journal only its worst outcome is kept: `SafeDeleteRun` has the rest.

### 2.8 Desktop

One action per click or per poll of a frame, since the user interface is one thread, and
`AnalysisReturns` and `RunReturns` for the two worker threads. `gate`, `pending` and `creation` are the state of
the folder check, `review` the `PlanReviewState`, `method` the selected deletion method, `analysis` and `run` the
threads with their messages, `quit` the dialog. A configuration is what `AnalysisConfiguration` compares. The
views decide which clicks are possible, so a view's condition is a guard of the click's action.

## 3. The runs

| Run | Instance | Asks | Distinct states |
|---|---|---|---|
| `journal` | 2 actions, 2 contents, 1 `Progress` row, times 0..1 | Is any sequence of accepted rows ordered, proven, final, resumable, and readable unless a provenance is half recorded? | 428,337 |
| `drain` | 2 files, 4 actions, 1 run, 1 edit, 1 fault, a cancellation, a crash | Is what a run removes proven and visible, what it reports true, and its report readable? | 998,078 |
| `run_ends` | 1 file, 2 actions, 2 runs, 1 edit, 1 fault, fairness | Does the journal take every row of a run and its resumption, and does every run end, reconciled? | 28,374 |
| `replacement` | 2 contents, 3 edits, 2 faults, a cancellation, a crash | Does a replacement lose, show or claim anything it must not? | 2,298,538 |
| `source_removal` | 3 methods, 2 contents, 3 changes, 2 faults, a crash | Does a removal take anything but the proven file, or report a failure that is none? | 81,742 |
| `ssh_run` | 1 file, 2 runs, attended or not, 2 attempts, 1 edit, 2 faults, a cancellation, a crash | Does a broken connection hide a removal, repeat an installation, leave a run open or its report unreadable? | 800,707 |
| `mirror` | 2 paths, 2 contents, 2 edits, 1 fault, 2 runs of any kind, a crash | Do the baseline, deletions and rows rest on what both peers really held? | 1,559,884 |
| `background` | 2 schedulers, 1 desktop, 1 profile, 2 nested pairs of folders, 2 ticks, 2 twists | Is an occurrence run once, as authorized, under its locks, and accounted for? | 2,349,080 |
| `desktop` | 2 local folder pairs and a remote one, 3 twists, 2 runs, fairness | Does a run start only for what is shown and confirmed, and does every check that has a thread or is due end? | 355,974 |
| `overlap_across_processes` | 1 scheduler, 1 desktop, separate registries | violation, section 5 | |
| `decisions_go_stale` | 2 paths, no edit, no fault, 1 run | violation, section 5 | |
| `stopping_ends` | 1 folder pair, 1 run, 3 twists, fairness | violation, section 5 | |

`CHECK_DEADLOCK FALSE` stands in all of them because a run, a call, a journal and an application really end,
and because the bounds stop the rest.

### 3.1 What the properties say

*Journal.* `FrontierInOrder`: an action that has done anything has only settled actions before it.
`RemovalRestsOnProof`: behind each recorded removal lie a verified transfer of the planned content, a proof
boundary and a started removal, in this order and by one method, and the destination left behind is the proven
one. `ReplayAccepts`: the reader refuses what the writer took if and only if a row has a half-recorded provenance, which
only the reader looks at; a check that one of the two has lost for anything else would break it. `OpenActionsClassifiable`: in every state a crash can
leave, the store takes what `resume` wants to record, which is decided from other data than it is checked
against.

*Run.* `RemovalNeverHidden`: a source that is gone by the run's hand is shown as completed or under Recovery
Review at every moment, through lost writes and crashes. `TakenWasProven`: it was the planned
content, the destination held it when its proof was written, and with the trash method it is there.
`DrainedIsTrue`: a run recorded as drained removed each item of the confirmed inventory itself, in the
confirmed version. `RemovedInOrder`, `NothingLeftOpen`: no removal behind one that failed; no reconciliation
with an action in progress. `JournalTakesEveryRow`: the driver never tries to write a row the store refuses,
with one stated exception (a source that changed after its plan row). `FilesFollowJournal`: each step that
changes a file does so behind the row that announces it and behind no open earlier action. `JournalReadable`: the report
of the run can be loaded at every moment, for the driver writes a whole provenance or none. `RunReconciles`
is liveness.

*Replacement.* `NoUserItemLost`, `NeverShowsUnproven`, `CleanFailureRestores` and `SuccessIsProven`: see the
comments above them. A plain error promises that there is nothing to recover; `RecoveryUncertain` does not. One exception is
the code's and stands in `CleanFailureRestores`: where nothing was before, a failed install whose lookup fails too leaves the
proven copy in place (section 5).

*Removal.* `LostOnlyProven`: apart from changes behind the last check, no file of anyone loses its last name
but the one the proof describes. `GuardOutlivesDoubt`: while no `RemovalCompleted` row is stored, the proven
file has a name, also after a crash and also if it was written to in the last moment; an uncertain result
leaves the guard. `RecoveryHoldsProven`: a recoverable removal is recorded only when the target holds the
proven contents. `CleanFailureKeepsSource`: an `Unresolved` source is where it was.

*SSH.* `RecoveredWasProven` and `RecoveryNeverHidden` are the two promises of a removal over a connection
that breaks. `InstalledIsShown`: an action whose installation could not be proven is never reported as
done, cancelled or plainly failed, and not repeated. `ReadableUnlessTorn`: the report of a run can be loaded unless the
backend's evidence of a recovery in doubt was torn; no lost row, crash or resume has the same effect, and a recorded removal never
has. `EndsAccountedFor`: no run whose report can be loaded ends without a reconciliation
unless a write was lost or the process died, and an unattended one never ends looking alive.

*Mirror.* `CleanRunMirrors`: a reconciliation without findings saw equal peers. `BaselineWasAgreed` and
`DeletesWhatBothHad`: the baseline, and each deletion made from it, rest on a state both peers once held;
nothing skipped, deferred or half applied gets in. `RowsTellTheTruth`: a decision reported as completed was
carried out, through crashes, failed writes and edits in between.

*Background.* `OneRunPerOccurrence`, `MovesOnlyAuthorized` (an authorization never reaches other peers than
those it was given for, whatever is saved between a poll and its claim), `SharedRunsDisjoint`,
`LiveRunIsKept` (the user cannot remove the report of a run that changes files), `ScheduledRunsAccounted` (each
scheduled run that came back has its outcome in the timeline; the notice counts each missed one once and
shows the latest, in whichever order two processes record) and the refinement `LocksImplemented`.

*Desktop.* `StartsWhatIsShown`: between a confirmation and the click that uses it, edits, selections, results
of checks and Run Now may arrive; a run still starts with the configuration and method of that frame.
`ConsentUsedOnce`: a confirmation starts one run. `QuitsOnlySettled`: no exit with a live run.
`ChecksEnd` is liveness: a gate at Checking is decided once its check has a thread, or is due in a visible window. Not every
click on Check folders leads there, and the last conjunct says which does not: the gate stays at Checking, with no check
behind it, only when the form did not build (section 5).

### 3.2 Why the bounds are enough

* Two actions and two files are what the order checks compare: each relates an action to one earlier action.
  A file yields up to two actions, so two files give four, with a first item that can block a second. In
  `ssh_run` one file does, for the order checks are the journal's and its properties speak of one action.
* Two contents let a plan, a proof, a copy and a result differ pairwise; a third differs from them in the
  same way. Contents are symmetric except where one is the `Original` or fairness is assumed.
* One fault per run meets every step of every action; two in the call-level modules, and in `ssh_run`, let the
  repair of a failure, or the repetition of a transfer, fail as well. There is no third level of repair in the code.
* Three changes in the call-level modules: the code looks at a name at most three times around one rename
  (before, at the rename, after), and each change can fall in another gap. In `mirror` one edit makes a
  one-sided item or a conflict and a second one makes the decision about it stale.
  Its constraint `StillToSee` (`MCMirror`) stops TLC where nothing new follows: after the last run, whose
  files nothing reads any more; at an edit before the first review or run, which only leads to another
  initial state, with more in `agreed` and fewer edits to come; and at all but one choice of decisions on
  a review with a possible duplicate, which never revalidates. The theorems know no such limit.
* Two runs: a run and its resumption, or a run that writes the baseline and one that uses it.
* In `background` two schedulers race for a claim while a desktop saves; an occurrence that is due, claimed
  and due again takes two ticks. `MaxRuns` ends polls and manual runs, `MaxRunId` leaves a poll under way enough
  identifiers for its claims: four, so none is ever held back. Two twists pair, for example, a crash with a save or with the removal of a report.
  The two pairs of folders are nested, so that containment and not only equality is met.
* In `desktop` three twists are a selection, an edit and a quit around one check; two runs let a
  confirmation outlive the run it was used for.
* One `Progress` row stands for any number, as none of the checks counts them.
* The runs with a liveness property use no symmetry.

### 3.3 Fairness

`RunReconciles` is checked under `FairRunSpec`: weak fairness of `Driver`, the steps of the process itself.
A process that is not killed keeps executing its next statement; in each state one
step of `Driver` is enabled, possibly with several outcomes. Nothing is assumed of `Execute`, `Resume`, the user, cancellation or
faults. The step that waits for the rsync child counts as one of them: that is the assumption that the child ends by itself or is
cancelled, for `runner.rs` polls it without a deadline of its own and kills it only on cancellation.

`ChecksEnd`, and the violation of `StoppingEnds`, use the `Fairness` of `Desktop`: weak fairness of
`AnalysisReturns`, `RunReturns`, `PollAnalysis`, `PollRun` and `CheckPending`. Threads end; `tick_while_running` polls them in every frame and
asks for the next one, also while the window is hidden in the tray. A check that is pending is started by a view, so it needs a visible
window, and the guard of `CheckPending` says so. Nothing is assumed of the user.

## 4. The proofs

The theorems hold for every value of the constants that satisfies the `ASSUME` of the module. Nothing else
is assumed; every bound (`MaxEdits`, `MaxFaults`, `MaxProgress`, `MaxTime`, `MaxTwists`, `MaxRuns`, `MaxRunId`) is arbitrary
there.

| Theorem | States | Argument |
|---|---|---|
| `JournalTypeOK` | rows have the shape of rows, and the plan is an action's first row and only that | inductive: `AcceptedFollows` shows from the transition table that a plan is accepted only by an empty action |
| `JournalFrontier` | `FrontierInOrder`, for plans of any length | inductive with `TypeOK`. A row of `a` cannot unsettle an earlier action, since settled phases have no successor, and it makes `a` touched only past `PriorActionsSettled`, which looks at planned actions only: all are planned by then |
| `JournalRemovalProof` | `RemovalRestsOnProof` | it looks back over four rows and is not inductive. `RowsFollow` (each row follows its predecessor by the table) and `RowsProven` (what each boundary was compared with when it was appended) are; by `RemovalChain` the table leaves one predecessor for each removal boundary, and `ProvenChain` derives the property |
| `JournalReplayAccepts`, `JournalOpenActionsClassifiable`, `JournalOutcomeIsFinal` | `ReplayAccepts` in both directions, `OpenActionsClassifiable` and the action property `OutcomeIsFinal`, for journals of any length | `ReplayAgrees` says what the replay of an action knows of its rows: `EntryAgrees` (outcome and proofs follow from the last row), `BoundariesAgree` (which boundaries have passed) and `EvidenceAgrees` (their contents). That a row appended is a row replayed (`ReplayAppend`) needs the replay of any journal to be defined; `ReplayExists` shows it with the least length that has none (`LeastNat`) |
| `SafeDeleteNeverHidden`, `SafeDeleteTakenWasProven`, `SafeDeleteDrainedIsTrue`, `SafeDeleteInOrder`, `SafeDeleteNothingLeftOpen`, `SafeDeleteRowsAreTaken` | the invariants of a local run, for any trees and contents and any number of runs, edits and faults | one invariant, `Ledger /\ Position`; section 4.1 |
| `SafeDeleteFollowsJournal` | the action property `FilesFollowJournal` | `TreesTouched` lists the steps that change a tree without an edit; `Position` names the last row of the action each of them is at (`At`), and `SettledBehind` and `StepProven` say what lies behind it |
| `SafeDeleteIsReadBack`, `SafeDeleteRestsOnProof` | `JournalReadable` (with `ReplayAccepts`) and `RemovalRestsOnProof` of the journal a run writes | `RowsStayLegible`: each row the driver appends is `Legible`, so that `ReplayAgrees` in the `Ledger` makes the journal readable; the second is a part of the `Ledger` |
| `SafeDeleteImplementsDrain`, `SshImplementsDrain` | the refinement of `SourceDrain` (`DrainImplemented`) by both drivers | section 4.3 |
| `SafeDeleteReportIsTrue`, `SshReportIsTrue` | `Truthful` of `SourceDrain`, of what either driver reports, at every moment and not only where a run ends | the invariants of sections 4.1 and 4.2 with `RowWords` |
| `SshRecoveredWasProven`, `SshNeverHidden`, `SshInstalledIsShown`, `SshEndsAccountedFor` | the invariants of an SSH run, for any number of paths, contents, attempts, runs, edits and failures | one invariant, `Ledger /\ Position`; section 4.2 |
| `SshIsReadBack`, `SshRestsOnProof` | `ReadableUnlessTorn` (with `ReplayAccepts`) and `RemovalRestsOnProof` of the journal an SSH run writes | `TornStays`: each row of an action is `Legible` or a torn review behind a started removal (`TornFits`); the second is a part of the `Ledger` |
| `ReplacementTypeCorrect` | the type invariant of the replacement | `TypeInv` adds from where to where the temporary file and `before` exist, since `Stage` reads both |
| `ReplacementLosesNothing` | `NoUserItemLost` | inductive as `Kept`: a rename takes an item to a free name other than the temporary one, and the call removes the temporary name only |
| `ReplacementShowsNothingUnproven` | `NeverShowsUnproven` | `Presentable` strengthens it to the other names a rename can bring to the destination and to the staged copy from its proof to its installation; `Distinct` (no two names hold one inode, new inodes are new) shows that an edit of one name leaves the others as they are |
| `ReplacementSuccessIsProven`, `ReplacementCleanFailure` | `SuccessIsProven` and `CleanFailureRestores` | `Dated`: whatever another program writes bears a time no reading has. So each capture that still fits its name is of what is there (`Readings`), and `Places` follows the previous item, the copy and the temporary file from name to name, through the rollback and up to each way the call can return |
| `RemovalTypes`, `RemovalLosesOnlyProven`, `GuardIsKept`, `RecoveryIsSound`, `FailureKeepsSource` | the types of the removal and its four properties, for any number of changes and failures | one invariant `IInv` of eight parts. `GuardInv`, `SourceInv` and `TargetInv` say at each step which name points to the proven inode; `MatchedInv` says who may have written to what is about to go; `OthersKept` and `Kept` say that no other inode loses its last name. The four properties follow from it together, because each method trades one name for another under the guard |
| `LocksExclusive` | `HeldDisjoint` and `HeldByLease` of the registry, for any scopes and any number of runs | inductive: a granted request overlaps nothing held and bears a new token (`AcquireKeeps`), and a release takes back the scopes of one token (`ReleaseKeeps`); `OverlapsSymmetric` is needed since `acquire` compares in one order only |
| `BackgroundTypes`, `BackgroundOneRunPerOccurrence`, `BackgroundMovesOnlyAuthorized`, `BackgroundLiveRunIsKept`, `BackgroundRunsAccounted` | all invariants of `Background`, for any number of processes, profiles, runs, edits and failures | `TypeInv` has `RunsApart`: the runs in the hands of two processes differ. Beside it `DueInv` (a claim is earlier than the next occurrence, since a claim moves it past the clock of the poll and a saved schedule begins behind the present), `AuthInv` (profile, loaded row, claims and jobs carry only what is in `granted`), `LiveInv` (the row of a run at work is open, so that no report of it may be removed) and `AccountInv` (a run in hand was claimed and has no Missed event yet, so the notice counts it once) |
| `BackgroundSharedRunsDisjoint`, `BackgroundImplementsLocks` | `SharedRunsDisjoint`, and the refinement of `ScopeLockRegistry` (`LocksImplemented`) | `LeaseInv`: those who share a registry see one value (`OneRegistry`), a lease is of one process (`LeasesApart`) and owns exactly the peers of its run (`LeaseOwns`), and what is held is disjoint (`HeldApart`). `LocksStep` then maps `Precheck` to an acquire, `Return` to a release, `Crash` of a process that shares the registry to `exit`, and every other step to a stutter |
| `MirrorTypes`, `CleanRunsMirror`, `BaselineIsAgreed`, `DeletionsWereAgreed`, `RowsAreTrue` | the types of a Mirror profile and its four properties, for any number of paths, edits, faults and runs | `AgreedInv`: what a reconciled run saw equal on both peers is in `agreed`, which only grows, and the baseline takes its entries from there only; a deletion's candidates come from the baseline. `DoneAsDecided` and `ReportedEverywhere` relate the journal, the rows and `installed` for every path of the run in progress |
| `DesktopTypes`, `ConsentIsUsedOnce`, `RunStartsWhatIsShown`, `QuitIsSettled` | the types of the application and its three safety properties | `DesktopInv` adds `ThreadInv` (a thread is alive only while its run is the active one) and `ConsentInv` (a confirmed plan agrees with its review, which agrees with the form, and with the selected method; its confirmation is unused while no run is active) |

### 4.1 The run and its journal

No promise of a run is inductive by itself: `RemovalNeverHidden` relates what is gone from the source to the
replay of rows, and a step of the driver reads neither. `SafeDeleteRunProofs` strengthens them to
`Ledger /\ Position`, which TLC checked on the instance of `drain` before it was proved.

The `Ledger` holds wherever the driver stands, also with no process alive. `JournalSound` is the
invariant of the journal with the agreement of its replay; `PlanFits` says that the plan fits the journal and
removes no source twice, and `RowsFit` that the rows are those of the plan, planned in its order;
`RemovedTaken` binds a completed removal to the item that was taken.

The `Position` ties `pc` and `cur` to the rows. `Standing` gives, for the action in work, the phases its
last row can have when a step is next (`At`), and says that earlier actions are past their open phases and
later ones only planned. `StepFits` and `StepProven` carry what the driver holds in its variables: the verified
replacement, the proven destination, the earlier removals seen as completed. `TakenShown` is the core of it:
whatever was taken is the witnessed version, and its removal shows it by a row, which was written before the file
went. A crash moves to `idle`, where `Position` asks little and the `Ledger` all the rest.

Each action of the driver has one lemma, which says that its step keeps the invariant (`...Keeps`). Four facts carry
them: what `append_event` accepts is replayed as one entry more (`ReplayAppend`); a boundary row
offered where the driver offers it is accepted (`BoundaryRowAccepted`), which is also `JournalTakesEveryRow`; the
classification of a resume is accepted (`ClassificationAccepted`); and `build_plan` of any two trees gives a plan that
fits (`PlanShape`), an induction over the paths with the least counterexample, as for `ReplayExists`.

`SafeDeleteRowsAreTaken` is about two pieces of code written apart: the driver's control flow and the checks of
the store. It has the exceptions of `JournalTakesEveryRow`: a copy whose source changed behind its plan row is refused, and
what follows a failed write is only promised to a resume.

### 4.2 The SSH run

What both drivers share is proved once, at the end of `ActionJournalProofs`: a step that appends a row, or none, keeps
`JournalSound` (`SoundAppend`, `SoundSame`) and changes the rows of one action only (`Told`, `RowsKept`); what the report says
of an action follows from its last row (`OutcomePhases`); and a plan that joins pieces in path order has the shape of its
pieces (`JoinedPlan`, an induction over the paths by the least counterexample).

`SshRunProofs` proves `Ledger /\ Position` for the other driver; TLC checked it on the instance of `ssh_run` first. The
`Ledger` is as above, with `Recovered`: a recorded removal has the confirmed content at three places, in `taken`, at the
recovery target and in `witnessed`. The `Position` has five parts.

* `Standing`: in the loop every action before `cur` is past its open phases; a transfer is behind `Progress`, a recovery
  behind `RemovalStarted`.
* `StepFits`: from the proof boundary to the record of a removal, the evidence in hand is of the confirmed content at both
  ends; `validate_remote_recovery` compares with it, so that `MovedAsProven` holds before the row is written.
* `TakenShown`: what is gone shows in the last row of its removal (`TakenPhases`), and the driver is past that action or at
  one of the three steps behind the move. So no row that would hide it can follow.
* `InstalledShown`: the same of an unproven installation, with other phases and steps. `InstalledIsShown` is not inductive
  because a driver that stood at *fail* with such an action would write `Failed` next.
* `EndsShown`: what has been lost where the driver gives up.

`RecordsEnd`, `RecordsGoOn`, `QuietGoes` and `RowLost` are the four ways a step of the loop goes (with the last row of an action,
with another row, without one, out of the run after a failed write), and most actions are one of them. `LeavesRun` says that outside the loop
the rows alone carry the promises, which is why a crash and a lost write keep them.

### 4.3 Both drivers implement one specification

`SourceDrain` knows no plans, rows, steps, failures or crashes. Of each source it has what the report says (`said`), what
the run took of it (`gone`) and what it found at its destination (`found`). A source goes (`Take`) only behind `Announce`,
which sends the user to look for it; it may be reported as kept (`Spare`) only if it is there, as removed (`Conclude`) only if it is gone
and the destination was found to hold the same; and neither report changes again before the next run begins (`Begin`).

The mapping is the same for both drivers (`Drain`, at the end of their modules): `said` is `Outcome`, the outcome `apply_stored_event` keeps
of a removal, in the four words *open*, *review*, *removed* and *kept*; `gone` and `found` are `taken` and `witnessed` at
the path of the removal. The start of a run, also of the fresh one behind a resume, maps to `Begin`, a plan row to `Plan`,
the look of `settle_one` at the destination (`ProveTransfer`) to `Inspect`, the proof boundary's row to `Announce`, `RemoveSource` (over SSH
`RecoveryReturns`, `RecoveryAmbiguous` and a crash under way) to `Take`, a `RemovalCompleted` row to `Conclude`, a row that settles
a removal in any other way than by review to `Spare`, and all else to a stutter: edits, transfers, failed writes, other crashes.

Three facts carry the proof. `RowWords`, a lemma of the journal, says what one accepted row can do to the word of an
action: it never takes one back, and it goes to *kept* only from *open* or *review*. That nothing kept is gone follows from
`TakenShown`, and that only proven removals conclude from `RemovedTaken` and `Recovered`: the parts of the two invariants that make
a gone source show in its last row. And every step of a driver writes at most one row and takes at most one source, so that it
maps to at most one step of `SourceDrain`. Here the guard of `Spare` is what could go wrong: a
`Failed` row behind a removal that did happen is legal for the store, and only the order of the driver's steps and its
classification at a resume exclude it.

TLC explored the refinement before it was proved: completely for one file, two runs, one fault and no edit (9,882 states), and in part
for the instances of `drain` and `ssh_run`. No permanent run repeats it.

### 4.4 Only model-checked

Liveness (`RunReconciles`, `ChecksEnd`) and `ENABLED` are beyond the prover. The three runs that expect a violation are
counterexamples. All safety properties of the passing runs are theorems.

The other way round, the type invariants and `OutcomeIsFinal` (only an action in progress or under review gets another
row) are proved for all instances, and no permanent run repeats them.

## 5. Divergences

Where code and documents disagree. The first three are runs whose one property TLC finds violated;
`PROJECT.json` quotes the sentences.

1. `overlap_across_processes`. `execute_manual_run` builds its workflow with `RunWorkflow::new` (`app.rs:7930`), whose registry
   is its own (`workflow.rs:115`), and every scheduler process has another; nothing else keeps two
   runs apart. A manual and a scheduled run of the same folders overlap, while ADR 0055 promises locks "across all
   manual, unattended, and scheduled runs". `SharedRunsDisjoint` is what a shared registry would give.
2. `stopping_ends`. A run settles while the quit dialog asks about it; Stop and Quit then waits for a run
   nobody polls any more (`app.rs:2368`, `app.rs:2104`), and the application neither quits nor leaves the dialog.
3. `decisions_go_stale`. `revalidate` (`resolution_run.rs:281`) rebuilds every decision with the key of a
   same-path conflict, so a review with a possible duplicate is refused as stale although nothing changed. Such a review can never be executed.

The following are part of the models, as the code has them, and are not runs:

4. One changed or failed item leaves every later source removal of the run `Unresolved` (`removal.rs:974`),
   while `CONTEXT.md:157` and ADR 0001 say that an unattended run continues with unaffected items.
5. `plan_record` (`workflow.rs:2299`) observes a file again when it writes its `Planned` row, after the
   confirmation; a file edited in between is transferred and removed in its new version (`CONTEXT.md:149`). The
   journal and the reconciliation stay truthful (`DrainedIsTrue`): the run is then not recorded as drained.
6. A process that dies between `begin_run` and `record_source_inventory` leaves a run the report calls
   `Completed` (`evidence.rs:5781`; `PLAN.md:76`).
7. `remove_source_exact` compares the source and then unlinks its name (`removal.rs:1428`). A file
   another program renames over it in between goes without any other name, and a write in between goes with the
   guard. POSIX has no unlink that compares, so the window can be narrowed but not closed; with a move into the
   recovery root the same change is kept.
8. A file that takes the source's place before the move (`removal.rs:718`) ends at the recovery target only,
   with the old one linked back and the failure saying that the source was restored (ADR 0001:15).
9. A verified replacement captures the destination anew when it begins (`replacement.rs:237`). A destination
   edited since the review is set aside and replaced, while `docs/specs/parent-issues/03-mirror-conflict-review.md:21`
   wants that "a stale conflict decision cannot overwrite newer work". The older version keeps a name until the
   new one is confirmed (`NoUserItemLost`).
10. An unattended run that fails behind its first mutation is marked Blocked (`workflow.rs:334`, `workflow.rs:728`), a mark that
    `evidence.rs:2952` calls a "fail-closed pre-mutation block"; and `report_status` shows Blocked before
    Recovery Review (`evidence.rs:5779`), so `resume` and `resume_ssh` (`workflow.rs:766`) start a new run past a Recovery
    Review nobody resolved.
11. An SSH removal that is cancelled behind its proof boundary offers a `Cancelled` row, which the store
    refuses (`workflow.rs:1317`); `CONTEXT.md:351` promises SSH runs the same cancellation guarantees.
12. `quarantine_after_open_failure` (`evidence.rs:4425`) sets a damaged live database aside by itself, and the next
    open creates an empty one; `restore_validated_backup` then refuses, for the live database is healthy
    (`backup.rs:217`). `CONTEXT.md:522` says it "never silently replaces the live database". A crash between the rename of the
    database and of its `-wal` leaves a stale log (`backup.rs:282`).
13. A lookup that fails counts as an empty name (`replacement.rs:508`). When the capture behind an install fails, that of the
    rollback too, and there was no destination before, the call returns the plain error and leaves the installed copy, proven, where it
    is: a `Failed` action whose file is there. ADR 0022 says what a failed replacement leaves of an existing destination, and nothing
    of a new one.
14. `append_event` stores the provenance of an evidence unread; `load_journal` refuses one with a source size and no digest or
    the reverse (`evidence.rs:5290`), and a regular file's removal with a provenance and no proof of the removed item (`evidence.rs:5144`).
    One such row and the report of the whole run cannot be loaded. The local driver writes none. In an SSH run the review of a
    recovery in doubt takes the backend's evidence as it came (`workflow.rs:1448`); the run then ends with an error, unreconciled,
    an unattended one is not marked Blocked (`workflow.rs:729`), and `resume_ssh` is refused.
15. Check folders on a form that does not build, for example without a name, sets the gate to Checking (`app.rs:2905`)
    before `dispatch_analysis` refuses (`app.rs:2981`). No thread starts, and the button is disabled while the gate
    says Checking; it stays so until other folders or another profile are chosen.
16. `resume`, `resume_ssh` and `restore_validated_backup` have no caller outside the tests, and no production type
    implements the SSH backend. Their models show what the code would do.

## 6. What is not modelled, and why

The map covers about 17 % of the lines of the two crates. The larger part of the rest is system calls, SQL, parsing,
formatting and drawing, whose correctness is not a matter of the order of steps.

* Directories, symbolic links, permissions, and metadata other than one modification time: they follow
  the control flow of files with fewer proofs. Sizes are part of a content.
* Two writes that leave the same time, or a program that sets a file's time back: no check of the code
  could notice a write hidden this way except where contents are read again.
* Captures torn by a concurrent write: each capture compares metadata before and after reading.
* `flock`: it keeps away cooperating programs only.
* The crash of the machine, as opposed to the process: what `fsync` guarantees is not modelled.
* The probes of a precheck and of volume identity: platform I/O. Their outcome is a choice in `Background`
  and `Desktop`; in `SafeDeleteRun` and `SshRun` they are taken as passed.
* Provenance sidecars and `.trashinfo` files: they follow the result of the removal.
* The analysis of a second run over leftovers of the first (guards, `.syncplus-failed` copies).
* SSH: host identity, credentials, Mirror over SSH, the remote helper itself.
* Mirror: names of preserved copies, metadata policies, resuming a Mirror run.
* Scheduler: the automatic retry of a blocked run, `run_now`, clocks that go back, a `poll_due` that fails at
  a later profile and drops the claims before it. The claim of such an occurrence is in `Background`; what it is owed no document says.
* Desktop: reports, restore and settings views, reconnect prompts, the tray, drawing.
* Profiles: validation of fields, import and export: functions of values without state.
* Restore: one copy behind the checks of `VerifiedReplacement`, with no state but its report row.
* Database backup and recovery gate: one-shot file copies around SQLite's own recovery; SQLite's transactions are
  atomic steps everywhere here. What reading it showed is in section 5.
* Processes and rsync's output: child processes and text.

## 7. What is left

1. **Restore**, the **database recovery gate** and resumed Mirror runs as modules of their own.

## 8. Running it

    tlc -workers 2 -config MCSafeDeleteRun.cfg MCSafeDeleteRun
    tlapm SourceRemovalProofs.tla

Each run of section 3 names its module and configuration in `PROJECT.json`. The longest takes a few minutes.
