------------------------------- MODULE Desktop -------------------------------
(***************************************************************************)
(* The desktop application's way to a manual Sync Run: the profile form,   *)
(* the folder gate, the plan review and its Execution Confirmation, the    *)
(* thread that checks and analyzes folders, the thread of the manual run,  *)
(* and the quit dialog (SyncPlusApp).  The user interface is one thread:   *)
(* each action below is one click or one poll of a frame.                  *)
(*                                                                         *)
(* Data.  A configuration is what AnalysisConfiguration compares: folders, *)
(* and options (a name for the profile's other fields, the mode, the       *)
(* authorizations and the schedule).  Every profile has Safe Delete on.    *)
(* Resolution Runs, reconnect prompts, the tray icon, the choice of view   *)
(* and all texts are left out; the views decide which clicks are possible. *)
(***************************************************************************)
EXTENDS Integers, FiniteSets

CONSTANTS
  LocalFolders,    \* pairs of folders on this computer
  RemoteFolders,   \* pairs with an SSH peer
  Simple,          \* options in Simple Mode
  Advanced,        \* options in Advanced Mode
  Unfinished,      \* options of a form that does not build, e.g. no name
  MaxTwists,       \* bound: edits, selections, choices and quits of the user
  MaxRuns,         \* bound: manual runs
  NoPlan           \* no ConfirmedPlan

VARIABLES
  form,       \* the configuration in the form
  review,     \* PlanReviewState
  method,     \* manual_deletion_method
  gate,       \* folder_gate
  pending,    \* pending_folder_check
  creation,   \* destination_creation_required: folders, or "none"
  analysis,   \* active_analysis and the message of its thread
  run,        \* active_manual_run and the message of its thread
  live,       \* the run whose thread is alive, 0 for none
  settled,    \* runs with a durable terminal report
  quit,       \* quit_flow
  exit,       \* exit_requested
  hidden,     \* window_hidden_to_tray
  started,    \* runs started, with the confirmation they used (history)
  consents,   \* Execution Confirmations so far (history)
  twists      \* steps counted by MaxTwists

checking == <<gate, pending, creation, analysis>>
reviewing == <<form, review, method>>
running == <<run, live, settled, started>>
quitting == <<quit, exit, hidden>>
vars == <<reviewing, checking, running, quitting, consents, twists>>

-----------------------------------------------------------------------------
Folders == LocalFolders \cup RemoteFolders
Options == Simple \cup Advanced \cup Unfinished
Configurations == [folders : Folders, options : Options]

Builds(c) == c.options \notin Unfinished
IsRemote(c) == c.folders \in RemoteFolders

Methods == {"trash", "permanent"}
NoReview == [config |-> "none"]
NoAnalysis == [kind |-> "none"]
NoRun == [id |-> 0]
NoQuit == [kind |-> "none", run |-> 0]

DryRunEnabled == gate \in {"ready", "remote_unproven"}
CheckFoldersEnabled == gate \in {"unknown", "blocked"}
HasReview == review # NoReview
Confirmed(r) == r.plan # NoPlan

ReviewGreen ==
  HasReview /\ review.read /\ review.precheck = "ok" /\ ~review.error

(* The window is drawn, and takes clicks. *)
Visible == ~exit /\ ~hidden
Twist == twists < MaxTwists /\ twists' = twists + 1

Init ==
  /\ form \in [folders : LocalFolders, options : Simple]
  /\ review = NoReview /\ method = "none"
  /\ gate = "unknown" /\ pending \in BOOLEAN /\ creation = "none"
  /\ analysis = NoAnalysis
  /\ run = NoRun /\ live = 0 /\ settled = {}
  /\ quit = NoQuit /\ exit = FALSE /\ hidden = FALSE
  /\ started = {} /\ consents = 0 /\ twists = 0

-----------------------------------------------------------------------------
(* The form. *)

ClearReview == review' = NoReview /\ method' = "none"

(* draw_profile_form, which is shown only while no thread works. *)
EditForm(c) ==
  /\ Visible /\ run = NoRun /\ analysis = NoAnalysis
  /\ c # form
  /\ form' = c
  /\ ClearReview
  /\ creation' = "none"
  /\ gate' = IF c.folders # form.folders THEN "unknown" ELSE gate
  /\ Twist
  /\ UNCHANGED <<pending, analysis, running, quitting, consents>>

(* start_new_profile, clone_profile, the wizard's pages, set_mode and
   save_profile: the folder gate keeps the value it has.              *)
ReplaceForm(c) ==
  /\ Visible
  /\ form' = c
  /\ ClearReview
  /\ Twist
  /\ UNCHANGED <<checking, running, quitting, consents>>

(* resolve_pending_folder_pick, from the workspace or from the wizard.  The
   review stays.                                                           *)
PickFolder(f, fromWorkspace) ==
  /\ Visible
  /\ form' = [form EXCEPT !.folders = f]
  /\ gate' = IF fromWorkspace THEN "unknown" ELSE gate
  /\ pending' = (pending \/ fromWorkspace)
  /\ Twist
  /\ UNCHANGED <<review, method, creation, analysis, running, quitting, consents>>

Selected(c) ==
  /\ form' = c
  /\ creation' = "none"
  /\ gate' = "checking"
  /\ pending' = TRUE

SelectProfile(c) ==
  /\ Visible /\ Builds(c)
  /\ Selected(c)
  /\ ClearReview
  /\ Twist
  /\ UNCHANGED <<analysis, running, quitting, consents>>

-----------------------------------------------------------------------------
(* Folder checks and dry runs, on a thread of their own. *)

Started(kind) ==
  analysis' = [kind |-> kind, config |-> form, outcome |-> "pending"]

(* start_folder_check; onError is what the caller does with its error. *)
StartFolderCheck(gateOnError) ==
  IF IsRemote(form)
    THEN gate' = "remote_unproven" /\ UNCHANGED analysis
    ELSE IF analysis = NoAnalysis /\ Builds(form)
      THEN gate' = "checking" /\ Started("folder_check")
      ELSE gate' = gateOnError /\ UNCHANGED analysis

(* The frame that finds pending_folder_check. *)
CheckPending ==
  /\ Visible /\ pending /\ analysis = NoAnalysis
  /\ pending' = FALSE
  /\ StartFolderCheck("blocked")
  /\ UNCHANGED <<reviewing, creation, running, quitting, consents, twists>>

(* Check folders. *)
CheckFolders ==
  /\ Visible /\ CheckFoldersEnabled
  /\ analysis = NoAnalysis \/ ReviewGreen
  /\ StartFolderCheck("checking")
  /\ Twist
  /\ UNCHANGED <<reviewing, pending, creation, running, quitting, consents>>

(* Dry run, from its button or because the Review tab shows no review. *)
DryRun ==
  /\ Visible /\ DryRunEnabled /\ analysis = NoAnalysis /\ Builds(form)
  /\ Started("dry_run")
  /\ ClearReview
  /\ UNCHANGED <<form, gate, pending, creation, running, quitting, consents, twists>>

(* create_destination_folder, then start_folder_check. *)
CreateDestination ==
  /\ Visible /\ run = NoRun /\ analysis = NoAnalysis
  /\ creation # "none" /\ Builds(form)
  /\ creation' = "none"
  /\ IF IsRemote(form) \/ creation # form.folders
       THEN gate' = "unknown" /\ UNCHANGED analysis
       ELSE StartFolderCheck("checking")
  /\ UNCHANGED <<reviewing, pending, running, quitting, consents, twists>>

(* analyze_profile_snapshot_with_progress.  The precheck refuses SSH peers,
   "unread" is a Fresh Analysis that fails behind a good precheck, "lost" a
   thread that ends without a result.                                      *)
Outcomes(kind, c) ==
  IF kind = "folder_check" THEN {"ok", "missing", "blocked", "failed"}
  ELSE IF IsRemote(c) THEN {"failed"} ELSE {"ok", "unread", "blocked", "failed"}

AnalysisReturns ==
  /\ analysis # NoAnalysis /\ analysis.outcome = "pending"
  /\ \E outcome \in Outcomes(analysis.kind, analysis.config) \cup {"lost"} :
       analysis' = [analysis EXCEPT !.outcome = outcome]
  /\ UNCHANGED <<reviewing, gate, pending, creation, running, quitting, consents, twists>>

(* apply_analysis_result. *)
Reviews(c, outcome) ==
  LET new(read, precheck, error) ==
        [config |-> c, read |-> read, precheck |-> precheck, error |-> error, plan |-> NoPlan]
  IN  CASE outcome = "ok" -> {new(TRUE, "ok", FALSE)}
        [] outcome = "unread" -> {new(FALSE, "ok", TRUE)}
        [] outcome = "blocked" -> {new(read, "blocked", FALSE) : read \in BOOLEAN}
        [] outcome = "failed" -> {new(FALSE, "none", TRUE)}

(* apply_folder_check_result. *)
ApplyFolderCheck(c, outcome) ==
  /\ gate' = IF outcome = "ok" THEN "ready" ELSE "blocked"
  /\ creation' = IF outcome = "missing" THEN c.folders ELSE "none"
  /\ UNCHANGED <<review, method>>

ApplyDryRun(c, outcome) ==
  /\ gate' = IF outcome \in {"ok", "unread"} THEN "ready" ELSE "blocked"
  /\ review' \in Reviews(c, outcome)
  /\ method' = "none"
  /\ UNCHANGED creation

Stale(c) == ~Builds(form) \/ c # form

(* Faulty variant: a result for another configuration leaves the gate. *)
PollAnalysisStaleKept ==
  LET c == analysis.config  outcome == analysis.outcome
  IN  /\ ~exit /\ analysis # NoAnalysis /\ outcome # "pending"
      /\ analysis' = NoAnalysis
      /\ IF outcome = "lost" \/ Stale(c)
           THEN UNCHANGED <<gate, creation, review, method>>
           ELSE IF analysis.kind = "folder_check"
             THEN ApplyFolderCheck(c, outcome) ELSE ApplyDryRun(c, outcome)
      /\ UNCHANGED <<form, pending, running, quitting, consents, twists>>

PollAnalysis ==
  LET c == analysis.config  outcome == analysis.outcome
  IN  /\ ~exit /\ analysis # NoAnalysis /\ outcome # "pending"
      /\ analysis' = NoAnalysis
      /\ IF outcome = "lost" \/ Stale(c)
           THEN gate' = "unknown" /\ UNCHANGED <<creation, review, method>>
           ELSE IF analysis.kind = "folder_check"
             THEN ApplyFolderCheck(c, outcome) ELSE ApplyDryRun(c, outcome)
      /\ UNCHANGED <<form, pending, running, quitting, consents, twists>>

(* request_missed_schedule_run_now, after the decision is stored: the
   analysis runs on the user interface's thread.                      *)
RunNow(c) ==
  /\ Visible /\ Builds(c)
  /\ Selected(c)
  /\ \E outcome \in Outcomes("dry_run", c) : review' \in Reviews(c, outcome)
  /\ method' = "none"
  /\ Twist
  /\ UNCHANGED <<analysis, running, quitting, consents>>

-----------------------------------------------------------------------------
(* Execution Confirmation and the start of a run. *)

(* Faulty variant: the plan that was confirmed before stays. *)
ChooseMethodOnly(m) ==
  /\ Visible /\ HasReview /\ review.read
  /\ m # method
  /\ m = "permanent" => review.config.options \in Advanced
  /\ method' = m
  /\ review' = [review EXCEPT !.error = FALSE]
  /\ Twist
  /\ UNCHANGED <<form, checking, running, quitting, consents>>

(* draw_execution_confirmation. *)
ChooseMethod(m) ==
  /\ Visible /\ HasReview /\ review.read
  /\ m # method
  /\ m = "permanent" => review.config.options \in Advanced
  /\ method' = m
  /\ review' = [review EXCEPT !.error = FALSE, !.plan = NoPlan]
  /\ Twist
  /\ UNCHANGED <<form, checking, running, quitting, consents>>

(* invalidate_stale_review. *)
Invalidate ==
  /\ review' = [review EXCEPT !.plan = NoPlan, !.error = TRUE]
  /\ gate' = "unknown"
  /\ UNCHANGED running

(* The run's thread and the cancellation it shares with the window. *)
NewRun(r) ==
  LET id == Cardinality(started) + 1
  IN  /\ run' = [id |-> id, plan |-> r.plan, cancel |-> FALSE, outcome |-> "pending"]
      /\ live' = id
      /\ started' = started \cup {[run |-> id, consent |-> r.plan.consent]}

(* start_manual_run with a review that is confirmed.  next_run_id may fail. *)
TryStart(r) ==
  \/ /\ review' = r
     /\ UNCHANGED <<gate, running>>
  \/ /\ DryRunEnabled /\ r.precheck = "ok" /\ Builds(form)
     /\ r.config # form
     /\ Invalidate
  \/ /\ DryRunEnabled /\ r.precheck = "ok" /\ Builds(form)
     /\ r.config = form
     /\ Cardinality(started) < MaxRuns
     /\ NewRun(r)
     /\ review' = r
     /\ UNCHANGED <<gate, settled>>

ConfirmedPlan == [config |-> form, method |-> method, consent |-> consents + 1]

(* Synchronise: confirm_review, unless the review is confirmed, and at once
   start_manual_run.                                                       *)
Confirm ==
  /\ Visible /\ run = NoRun /\ ReviewGreen /\ ~Confirmed(review)
  /\ Builds(form)
  /\ IF review.config # form
       THEN Invalidate /\ UNCHANGED consents
       ELSE /\ method # "none"
            /\ method = "permanent" => form.options \in Advanced
            /\ \/ /\ review' = [review EXCEPT !.precheck = "none", !.error = TRUE]
                  /\ UNCHANGED <<gate, running, consents>>
               \/ /\ review' = [review EXCEPT !.precheck = "blocked"]
                  /\ UNCHANGED <<gate, running, consents>>
               \/ /\ TryStart([review EXCEPT !.plan = ConfirmedPlan])
                  /\ consents' = consents + 1
  /\ UNCHANGED <<form, method, pending, creation, analysis, quitting, twists>>

Synchronise ==
  /\ Visible /\ run = NoRun /\ HasReview /\ Confirmed(review)
  /\ TryStart(review)
  /\ UNCHANGED <<form, method, pending, creation, analysis, quitting, consents, twists>>

-----------------------------------------------------------------------------
(* The manual run. *)

(* execute_manual_run comes back, with or without a durable terminal report;
   or its thread ends without a message.                                    *)
RunReturns ==
  /\ live # 0
  /\ \E outcome \in {"done", "lost"} : run' = [run EXCEPT !.outcome = outcome]
  /\ settled' \in {settled, settled \cup {live}}
  /\ live' = 0
  /\ UNCHANGED <<reviewing, checking, started, quitting, consents, twists>>

(* Faulty variant: the confirmation outlives the run. *)
KeepsConfirmation == review

Unconfirmed == IF HasReview THEN [review EXCEPT !.plan = NoPlan] ELSE review

(* poll_manual_run; refresh_run_reports may fail. *)
PollRun ==
  LET quits == quit = [kind |-> "stopping", run |-> run.id]
  IN  /\ ~exit /\ run # NoRun /\ run.outcome # "pending"
      /\ run' = NoRun
      /\ review' = Unconfirmed /\ method' = "none"
      /\ \/ /\ run.outcome = "lost"
            /\ quit' = NoQuit /\ UNCHANGED exit
         \/ /\ run.outcome = "done" /\ quits
            /\ quit' = NoQuit
            /\ exit' \in BOOLEAN /\ (exit' => run.id \in settled)
         \/ /\ run.outcome = "done" /\ ~quits
            /\ UNCHANGED <<quit, exit>>
      /\ UNCHANGED <<form, checking, live, settled, started, hidden, consents, twists>>

(* request_manual_cancel, from the Run Report or from the quit dialog. *)
Cancelled(id) == IF run.id = id THEN [run EXCEPT !.cancel = TRUE] ELSE run

RequestCancel ==
  /\ Visible /\ run # NoRun /\ ~run.cancel
  /\ run' = Cancelled(run.id)
  /\ UNCHANGED <<reviewing, checking, live, settled, started, quitting, consents, twists>>

-----------------------------------------------------------------------------
(* Hiding and quitting. *)

(* Faulty variant: a run that was asked to stop counts as stopped. *)
RequestQuitAnyway ==
  /\ ~exit
  /\ IF run = NoRun \/ run.cancel
       THEN exit' = TRUE /\ UNCHANGED <<quit, hidden>>
       ELSE quit' = [kind |-> "confirm", run |-> run.id] /\ hidden' = FALSE /\ UNCHANGED exit
  /\ Twist
  /\ UNCHANGED <<reviewing, checking, running, consents>>

(* request_quit: Exit, Ctrl+Q, the tray's Quit, or closing the window. *)
RequestQuit ==
  /\ ~exit
  /\ IF run = NoRun
       THEN exit' = TRUE /\ UNCHANGED <<quit, hidden>>
       ELSE quit' = [kind |-> "confirm", run |-> run.id] /\ hidden' = FALSE /\ UNCHANGED exit
  /\ Twist
  /\ UNCHANGED <<reviewing, checking, running, consents>>

(* The three buttons of draw_quit_dialog. *)
AnswerQuit ==
  /\ Visible /\ quit.kind = "confirm"
  /\ \/ quit' = NoQuit /\ UNCHANGED <<run, hidden>>
     \/ quit' = NoQuit /\ hidden' = TRUE /\ UNCHANGED run
     \/ /\ run' = Cancelled(quit.run)
        /\ quit' = [quit EXCEPT !.kind = "stopping"]
        /\ UNCHANGED hidden
  /\ UNCHANGED <<reviewing, checking, live, settled, started, exit, consents, twists>>

(* hide_to_tray and show_window. *)
HideOrShow ==
  /\ ~exit
  /\ hidden' = ~hidden
  /\ Twist
  /\ UNCHANGED <<reviewing, checking, running, quit, exit, consents>>

FormStep ==
  \/ \E c \in Configurations : EditForm(c) \/ ReplaceForm(c) \/ SelectProfile(c) \/ RunNow(c)
  \/ \E f \in Folders, fromWorkspace \in BOOLEAN : PickFolder(f, fromWorkspace)

Next ==
  \/ FormStep
  \/ CheckPending \/ CheckFolders \/ DryRun \/ CreateDestination
  \/ AnalysisReturns \/ PollAnalysis
  \/ \E m \in Methods : ChooseMethod(m)
  \/ Confirm \/ Synchronise
  \/ RunReturns \/ PollRun \/ RequestCancel
  \/ RequestQuit \/ AnswerQuit \/ HideOrShow

(* The threads end, logic polls them in every frame, and a visible window
   draws frames.  Nothing is assumed of the user.                         *)
Fairness ==
  /\ WF_vars(AnalysisReturns) /\ WF_vars(PollAnalysis)
  /\ WF_vars(RunReturns) /\ WF_vars(PollRun)
  /\ WF_vars(CheckPending)

Spec == Init /\ [][Next]_vars /\ Fairness

-----------------------------------------------------------------------------
Gates == {"unknown", "checking", "ready", "blocked", "remote_unproven"}

Plans == [config : Configurations, method : Methods, consent : Nat]

PlanReviews ==
  [config : Configurations, read : BOOLEAN, precheck : {"ok", "blocked", "none"},
   error : BOOLEAN, plan : Plans \cup {NoPlan}]

Analyses ==
  [kind : {"folder_check"}, config : [folders : LocalFolders, options : Options],
   outcome : {"pending", "lost", "ok", "missing", "blocked", "failed"}]
  \cup [kind : {"dry_run"}, config : Configurations,
        outcome : {"pending", "lost", "ok", "unread", "blocked", "failed"}]

ManualRuns ==
  [id : Nat \ {0}, plan : Plans, cancel : BOOLEAN, outcome : {"pending", "done", "lost"}]

DesktopTypeOK ==
  /\ form \in Configurations
  /\ review \in PlanReviews \cup {NoReview}
  /\ method \in Methods \cup {"none"}
  /\ gate \in Gates /\ pending \in BOOLEAN
  /\ creation \in LocalFolders \cup {"none"}
  /\ analysis \in Analyses \cup {NoAnalysis}
  /\ run \in ManualRuns \cup {NoRun}
  /\ live \in {0, run.id}
  /\ quit \in [kind : {"confirm", "stopping"}, run : Nat \ {0}] \cup {NoQuit}
  /\ exit \in BOOLEAN /\ hidden \in BOOLEAN
  /\ consents \in Nat

(* A run starts with what the window shows at that moment: the form's
   configuration and the Deletion Method that is selected, though the plan
   was confirmed in an earlier frame and folder picks, edits, profile
   selections, results of analyses and Run Now came in between
   (start_manual_run, draw_execution_confirmation).                        *)
StartsWhatIsShown ==
  [][run = NoRun /\ run' # NoRun =>
       run'.plan.config = form /\ run'.plan.method = method]_vars

(* No Execution Confirmation starts a second run, and none that was given
   before a run ended starts a later one: poll_manual_run takes it back.   *)
ConsentUsedOnce ==
  \A r, s \in started : r.consent = s.consent => r = s

(* The application exits only when no run's thread is alive; a stop that
   was asked for ends in an exit only behind a durable terminal report
   (request_quit, poll_manual_run, ADR 0062).                              *)
QuitsOnlySettled ==
  [][~exit /\ exit' =>
       /\ live' = 0
       /\ quit.kind = "stopping" /\ run.id = quit.run => run.id \in settled]_vars

(* The gate says Checking, and no thread reads and none is due to.         *)
CheckedByNobody == gate = "checking" /\ analysis = NoAnalysis /\ ~pending

(* A gate at Checking is decided once its check has a thread, whatever
   profile the user selects while the thread reads, and once a check is due
   in a window that is drawn (poll_analysis, pending_folder_check).  Only
   Check folders on a form that does not build leaves it at Checking with
   no check behind it: the gate is set before dispatch_analysis refuses.   *)
ChecksEnd ==
  /\ (gate = "checking" /\ analysis # NoAnalysis) ~> (gate # "checking" \/ exit)
  /\ (gate = "checking" /\ pending) ~> (gate # "checking" \/ hidden \/ exit)
  /\ [][~CheckedByNobody /\ CheckedByNobody' => ~Builds(form)]_vars

(* QUIT_STOPPING_COPY: "SyncPlus will quit only after the durable
   cancellation boundary is recorded": Stop and Quit leads to an exit or
   back to an open window.  When the run settles while the dialog still
   asks, the answer waits for a run that is gone.                          *)
StoppingEnds == quit.kind = "stopping" ~> quit.kind # "stopping" \/ exit
=============================================================================
