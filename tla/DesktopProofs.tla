---------------------------- MODULE DesktopProofs ----------------------------
(***************************************************************************)
(* What an Execution Confirmation is worth and when the application exits, *)
(* for any folders, options and number of clicks and runs.  The argument:  *)
(* a confirmed plan agrees with its review and the selected method, its    *)
(* confirmation is among those given, and while no run is active it has    *)
(* not been used; a run's thread is alive only while the run is active.    *)
(***************************************************************************)
EXTENDS Desktop, FiniteSetTheorems, TLAPS

-----------------------------------------------------------------------------
(* Types. *)

TypeInv == DesktopTypeOK /\ IsFiniteSet(started)

LEMMA ReviewTyped ==
  ASSUME DesktopTypeOK, HasReview
  PROVE  review \in PlanReviews
BY DEF DesktopTypeOK, HasReview

LEMMA ClearTyped ==
  ASSUME ClearReview
  PROVE  review' = NoReview /\ method' = "none"
BY DEF ClearReview

(* A thread that is started works on the form's configuration. *)
LEMMA StartedTyped ==
  ASSUME DesktopTypeOK, NEW kind \in {"folder_check", "dry_run"}, Started(kind),
         kind = "folder_check" => ~IsRemote(form)
  PROVE  analysis' \in Analyses
<1>1. form \in Configurations
  BY DEF DesktopTypeOK
<1>2. ~IsRemote(form) => form \in [folders : LocalFolders, options : Options]
  BY <1>1 DEF Configurations, IsRemote, Folders
<1>3. QED
  BY <1>1, <1>2 DEF Started, Analyses

LEMMA CheckTyped ==
  ASSUME DesktopTypeOK, NEW g \in Gates, StartFolderCheck(g)
  PROVE  gate' \in Gates /\ analysis' \in Analyses \cup {NoAnalysis}
<1>1. CASE IsRemote(form)
  BY <1>1 DEF StartFolderCheck, DesktopTypeOK, Gates
<1>2. CASE ~IsRemote(form) /\ analysis = NoAnalysis /\ Builds(form)
  <2>1. gate' = "checking" /\ Started("folder_check")
    BY <1>2 DEF StartFolderCheck
  <2>2. QED
    BY <1>2, <2>1, StartedTyped DEF Gates
<1>3. CASE ~IsRemote(form) /\ ~(analysis = NoAnalysis /\ Builds(form))
  BY <1>3 DEF StartFolderCheck, DesktopTypeOK
<1>4. QED
  BY <1>1, <1>2, <1>3

LEMMA ReviewsTyped ==
  ASSUME NEW c \in Configurations, NEW outcome \in {"ok", "unread", "blocked", "failed"}
  PROVE  \A r \in Reviews(c, outcome) : r \in PlanReviews /\ r.plan = NoPlan
<1> DEFINE new(read, precheck, error) ==
             [config |-> c, read |-> read, precheck |-> precheck, error |-> error, plan |-> NoPlan]
<1>1. ASSUME NEW read \in BOOLEAN, NEW precheck \in {"ok", "blocked", "none"}, NEW error \in BOOLEAN
      PROVE  new(read, precheck, error) \in PlanReviews /\ new(read, precheck, error).plan = NoPlan
  BY DEF PlanReviews
<1> HIDE DEF new
<1>2. CASE outcome = "ok"
  <2>1. Reviews(c, outcome) = {new(TRUE, "ok", FALSE)}
    BY <1>2 DEF Reviews, new
  <2>2. QED
    BY <1>1, <2>1
<1>3. CASE outcome = "unread"
  <2>1. Reviews(c, outcome) = {new(FALSE, "ok", TRUE)}
    BY <1>3 DEF Reviews, new
  <2>2. QED
    BY <1>1, <2>1
<1>4. CASE outcome = "blocked"
  <2>1. Reviews(c, outcome) = {new(read, "blocked", FALSE) : read \in BOOLEAN}
    BY <1>4 DEF Reviews, new
  <2>2. QED
    BY <1>1, <2>1
<1>5. CASE outcome = "failed"
  <2>1. Reviews(c, outcome) = {new(FALSE, "none", TRUE)}
    BY <1>5 DEF Reviews, new
  <2>2. QED
    BY <1>1, <2>1
<1>6. QED
  BY <1>2, <1>3, <1>4, <1>5

(* What a new run looks like, and what else its start changes. *)
LEMMA TryStartTyped ==
  ASSUME TypeInv, HasReview, NEW r \in PlanReviews, r.plan \in Plans, run = NoRun, TryStart(r)
  PROVE  /\ review' \in PlanReviews
         /\ gate' \in Gates
         /\ run' \in ManualRuns \cup {NoRun}
         /\ live' \in {0, run'.id}
         /\ IsFiniteSet(started')
<1>1. CASE review' = r /\ UNCHANGED <<gate, running>>
  BY <1>1 DEF TypeInv, DesktopTypeOK, running
<1>2. CASE Invalidate
  <2>1. review \in PlanReviews
    BY ReviewTyped DEF TypeInv
  <2>2. review' \in PlanReviews
    BY <1>2, <2>1 DEF Invalidate, PlanReviews
  <2>3. gate' \in Gates
    BY <1>2 DEF Invalidate, Gates
  <2>4. UNCHANGED <<run, live, settled, started>>
    BY <1>2 DEF Invalidate, running
  <2>5. QED
    BY <2>2, <2>3, <2>4 DEF TypeInv, DesktopTypeOK
<1>3. CASE /\ review' = r
           /\ UNCHANGED <<gate, settled>>
           /\ NewRun(r)
  <2> DEFINE id == Cardinality(started) + 1
  <2>1. Cardinality(started) \in Nat
    BY FS_CardinalityType DEF TypeInv
  <2>2. id \in Nat \ {0}
    BY <2>1
  <2>4. run' \in ManualRuns /\ run'.id = id /\ live' = id
    BY <1>3, <2>2 DEF NewRun, ManualRuns
  <2>5. IsFiniteSet(started')
    BY <1>3, FS_AddElement DEF NewRun, TypeInv
  <2>6. QED
    BY <1>3, <2>4, <2>5 DEF TypeInv, DesktopTypeOK
<1>4. QED
  BY <1>1, <1>2, <1>3 DEF TryStart

(* A run whose thread reported has no thread any more. *)
ThreadInv == run # NoRun /\ run.outcome # "pending" => live = 0

LEMMA FormTyped ==
  ASSUME TypeInv, FormStep
  PROVE  DesktopTypeOK'
<1>1. UNCHANGED <<analysis, run, live, quit, exit, hidden, consents>>
  BY DEF FormStep, EditForm, ReplaceForm, SelectProfile, RunNow, PickFolder, checking, running, quitting
<1>2. CASE \E c \in Configurations : EditForm(c) \/ ReplaceForm(c) \/ SelectProfile(c)
  <2>1. form' \in Configurations /\ review' = NoReview /\ method' = "none"
    BY <1>2 DEF EditForm, ReplaceForm, SelectProfile, Selected, ClearReview
  <2>2. /\ gate' \in Gates /\ pending' \in BOOLEAN
        /\ creation' = "none" \/ creation' = creation
    BY <1>2 DEF EditForm, ReplaceForm, SelectProfile, Selected, checking, TypeInv, DesktopTypeOK, Gates
  <2>3. QED
    BY <1>1, <2>1, <2>2 DEF TypeInv, DesktopTypeOK
<1>3. CASE \E c \in Configurations : RunNow(c)
  <2>1. PICK c \in Configurations : RunNow(c)
    BY <1>3
  <2>2. /\ form' = c /\ creation' = "none" /\ gate' = "checking" /\ pending' = TRUE
        /\ method' = "none"
    BY <2>1 DEF RunNow, Selected
  <2>3. Outcomes("dry_run", c) \subseteq {"ok", "unread", "blocked", "failed"}
    BY DEF Outcomes
  <2>4. review' \in PlanReviews
    BY <2>1, <2>3, ReviewsTyped DEF RunNow
  <2>5. QED
    BY <1>1, <2>2, <2>4 DEF TypeInv, DesktopTypeOK, Gates
<1>4. CASE \E f \in Folders, fromWorkspace \in BOOLEAN : PickFolder(f, fromWorkspace)
  <2>1. form' \in Configurations
    BY <1>4 DEF PickFolder, TypeInv, DesktopTypeOK, Configurations
  <2>2. gate' \in Gates /\ pending' \in BOOLEAN /\ UNCHANGED <<review, method, creation>>
    BY <1>4 DEF PickFolder, TypeInv, DesktopTypeOK, Gates
  <2>3. QED
    BY <1>1, <2>1, <2>2 DEF TypeInv, DesktopTypeOK
<1>5. QED
  BY <1>2, <1>3, <1>4 DEF FormStep

LEMMA CheckingTyped ==
  ASSUME TypeInv, CheckPending \/ CheckFolders \/ CreateDestination \/ DryRun \/ AnalysisReturns
  PROVE  DesktopTypeOK'
<1>1. UNCHANGED <<form, run, live, quit, exit, hidden, consents>>
  BY DEF CheckPending, CheckFolders, CreateDestination, DryRun, AnalysisReturns, reviewing, running, quitting
<1>2. review' \in PlanReviews \cup {NoReview} /\ method' \in Methods \cup {"none"}
  BY ClearTyped DEF TypeInv, DesktopTypeOK, CheckPending, CheckFolders, CreateDestination, DryRun,
                    AnalysisReturns, reviewing
<1>3. /\ pending' \in BOOLEAN
      /\ creation' \in LocalFolders \cup {"none"}
  BY DEF TypeInv, DesktopTypeOK, CheckPending, CheckFolders, CreateDestination, DryRun, AnalysisReturns
<1>4. gate' \in Gates /\ analysis' \in Analyses \cup {NoAnalysis}
  <2>1. DesktopTypeOK /\ gate \in Gates /\ analysis \in Analyses \cup {NoAnalysis}
    BY DEF TypeInv, DesktopTypeOK
  <2>2. "blocked" \in Gates /\ "checking" \in Gates /\ "unknown" \in Gates
    BY DEF Gates
  <2>3. CASE StartFolderCheck("blocked") \/ StartFolderCheck("checking")
    BY <2>1, <2>2, <2>3, CheckTyped
  <2>4. CASE gate' = "unknown" /\ UNCHANGED analysis
    BY <2>1, <2>2, <2>4
  <2>5. CASE DryRun
    BY <2>1, <2>5, StartedTyped DEF DryRun
  <2>6. CASE AnalysisReturns
    <3>1. PICK outcome \in Outcomes(analysis.kind, analysis.config) \cup {"lost"} :
            analysis' = [analysis EXCEPT !.outcome = outcome]
      BY <2>6 DEF AnalysisReturns
    <3>2. analysis \in Analyses
      BY <2>1, <2>6 DEF AnalysisReturns
    <3>3. analysis' \in Analyses
      BY <3>1, <3>2 DEF Analyses, Outcomes
    <3>4. QED
      BY <2>1, <2>6, <3>3 DEF AnalysisReturns
  <2>7. QED
    BY <2>3, <2>4, <2>5, <2>6 DEF CheckPending, CheckFolders, CreateDestination
<1>5. QED
  BY <1>1, <1>2, <1>3, <1>4 DEF TypeInv, DesktopTypeOK

LEMMA PollAnalysisTyped ==
  ASSUME TypeInv, PollAnalysis
  PROVE  DesktopTypeOK'
<1> DEFINE c == analysis.config
           outcome == analysis.outcome
<1>1. analysis \in Analyses /\ outcome # "pending" /\ analysis' = NoAnalysis
  BY DEF TypeInv, DesktopTypeOK, PollAnalysis
<1>2. UNCHANGED <<form, pending, run, live, quit, exit, hidden, consents>>
  BY DEF PollAnalysis, running, quitting
<1>3. CASE outcome = "lost" \/ Stale(c)
  BY <1>1, <1>2, <1>3 DEF PollAnalysis, TypeInv, DesktopTypeOK, Gates
<1>4. CASE ~(outcome = "lost" \/ Stale(c)) /\ analysis.kind = "folder_check"
  <2>1. c.folders \in LocalFolders
    BY <1>1, <1>4 DEF Analyses
  <2>2. ApplyFolderCheck(c, outcome)
    BY <1>4 DEF PollAnalysis
  <2>3. QED
    BY <1>1, <1>2, <2>1, <2>2 DEF ApplyFolderCheck, TypeInv, DesktopTypeOK, Gates
<1>5. CASE ~(outcome = "lost" \/ Stale(c)) /\ analysis.kind # "folder_check"
  <2>1. c \in Configurations /\ outcome \in {"ok", "unread", "blocked", "failed"}
    BY <1>1, <1>5 DEF Analyses
  <2>2. ApplyDryRun(c, outcome)
    BY <1>5 DEF PollAnalysis
  <2>3. review' \in PlanReviews
    BY <2>1, <2>2, ReviewsTyped DEF ApplyDryRun
  <2>4. QED
    BY <1>1, <1>2, <2>2, <2>3 DEF ApplyDryRun, TypeInv, DesktopTypeOK, Gates
<1>6. QED
  BY <1>3, <1>4, <1>5

LEMMA ConfirmingTyped ==
  ASSUME TypeInv, (\E m \in Methods : ChooseMethod(m)) \/ Confirm \/ Synchronise
  PROVE  TypeInv'
<1>1. HasReview /\ review \in PlanReviews
  BY ReviewTyped DEF TypeInv, ChooseMethod, Confirm, Synchronise, ReviewGreen
<1>2. UNCHANGED <<form, pending, creation, analysis, quit, exit, hidden>>
  BY DEF ChooseMethod, Confirm, Synchronise, checking, quitting
<1>3. /\ method' \in Methods \cup {"none"}
      /\ consents' \in Nat
  BY DEF ChooseMethod, Confirm, Synchronise, TypeInv, DesktopTypeOK
<1>4. /\ review' \in PlanReviews /\ gate' \in Gates
      /\ run' \in ManualRuns \cup {NoRun} /\ live' \in {0, run'.id} /\ IsFiniteSet(started')
  <2>1. CASE \E m \in Methods : ChooseMethod(m)
    BY <1>1, <2>1 DEF ChooseMethod, checking, running, PlanReviews, TypeInv, DesktopTypeOK
  <2>2. CASE Synchronise
    <3>1. review.plan \in Plans
      BY <1>1, <2>2 DEF Synchronise, Confirmed, PlanReviews
    <3>2. QED
      BY <1>1, <2>2, <3>1, TryStartTyped DEF Synchronise
  <2>3. CASE Confirm
    <3>1. CASE Invalidate
      BY <1>1, <3>1 DEF Invalidate, running, PlanReviews, TypeInv, DesktopTypeOK, Gates
    <3>2. CASE /\ \/ review' = [review EXCEPT !.precheck = "none", !.error = TRUE]
                  \/ review' = [review EXCEPT !.precheck = "blocked"]
               /\ UNCHANGED <<gate, running>>
      BY <1>1, <3>2 DEF PlanReviews, running, TypeInv, DesktopTypeOK
    <3>3. CASE TryStart([review EXCEPT !.plan = ConfirmedPlan]) /\ method # "none"
      <4>1. ConfirmedPlan \in Plans
        BY <3>3 DEF ConfirmedPlan, Plans, TypeInv, DesktopTypeOK
      <4>2. /\ [review EXCEPT !.plan = ConfirmedPlan] \in PlanReviews
            /\ [review EXCEPT !.plan = ConfirmedPlan].plan = ConfirmedPlan
        BY <1>1, <4>1 DEF PlanReviews
      <4>3. QED
        BY <1>1, <2>3, <3>3, <4>1, <4>2, TryStartTyped DEF Confirm
    <3>4. QED
      BY <2>3, <3>1, <3>2, <3>3 DEF Confirm
  <2>4. QED
    BY <2>1, <2>2, <2>3
<1>5. QED
  BY <1>2, <1>3, <1>4 DEF TypeInv, DesktopTypeOK

LEMMA RunTyped ==
  ASSUME TypeInv, ThreadInv, RunReturns \/ PollRun \/ RequestCancel
  PROVE  DesktopTypeOK'
<1>1. UNCHANGED <<form, gate, pending, creation, analysis, hidden, consents>>
  BY DEF RunReturns, PollRun, RequestCancel, reviewing, checking, quitting
<1>2. CASE RunReturns
  <2>1. live # 0 /\ run.id # 0
    BY <1>2 DEF RunReturns, TypeInv, DesktopTypeOK
  <2>2. run \in ManualRuns
    BY <2>1 DEF TypeInv, DesktopTypeOK, NoRun
  <2>3. run' \in ManualRuns /\ live' = 0
    BY <1>2, <2>2 DEF RunReturns, ManualRuns
  <2>4. UNCHANGED <<review, method, quit, exit>>
    BY <1>2 DEF RunReturns, reviewing, quitting
  <2>5. QED
    BY <1>1, <2>3, <2>4 DEF TypeInv, DesktopTypeOK
<1>3. CASE RequestCancel
  <2>1. run \in ManualRuns
    BY <1>3 DEF RequestCancel, TypeInv, DesktopTypeOK
  <2>2. run' \in ManualRuns /\ run'.id = run.id
    BY <1>3, <2>1 DEF RequestCancel, Cancelled, ManualRuns
  <2>3. UNCHANGED <<review, method, live, quit, exit>>
    BY <1>3 DEF RequestCancel, reviewing, quitting
  <2>4. QED
    BY <1>1, <2>2, <2>3 DEF TypeInv, DesktopTypeOK
<1>4. CASE PollRun
  <2>1. review' \in PlanReviews \cup {NoReview}
    BY <1>4 DEF PollRun, Unconfirmed, HasReview, PlanReviews, TypeInv, DesktopTypeOK
  <2>2. live' = 0
    BY <1>4 DEF PollRun, ThreadInv
  <2>3. method' = "none" /\ run' = NoRun /\ exit' \in BOOLEAN
    BY <1>4 DEF PollRun, TypeInv, DesktopTypeOK
  <2>4. quit' = NoQuit \/ quit' = quit
    BY <1>4 DEF PollRun
  <2>5. QED
    BY <1>1, <2>1, <2>2, <2>3, <2>4 DEF TypeInv, DesktopTypeOK
<1>5. QED
  BY <1>2, <1>3, <1>4

LEMMA QuitTyped ==
  ASSUME TypeInv, RequestQuit \/ AnswerQuit \/ HideOrShow
  PROVE  DesktopTypeOK'
<1>1. UNCHANGED <<form, review, method, gate, pending, creation, analysis, live, consents>>
  BY DEF RequestQuit, AnswerQuit, HideOrShow, reviewing, checking, running
<1>2. hidden' \in BOOLEAN /\ exit' \in BOOLEAN
  BY DEF RequestQuit, AnswerQuit, HideOrShow, TypeInv, DesktopTypeOK
<1>3. run' \in ManualRuns \cup {NoRun} /\ run'.id = run.id
  <2>1. run' = run \/ (run' = Cancelled(quit.run) /\ quit.run # 0)
    <3>1. quit.kind = "confirm" => quit.run # 0
      BY DEF TypeInv, DesktopTypeOK, NoQuit
    <3>2. QED
      BY <3>1 DEF RequestQuit, AnswerQuit, HideOrShow, running
  <2>2. CASE run \in ManualRuns
    BY <2>1, <2>2 DEF Cancelled, ManualRuns
  <2>3. CASE run = NoRun
    BY <2>1, <2>3 DEF Cancelled, NoRun
  <2>4. QED
    BY <2>2, <2>3 DEF TypeInv, DesktopTypeOK
<1>4. quit' \in [kind : {"confirm", "stopping"}, run : Nat \ {0}] \cup {NoQuit}
  <2>1. CASE RequestQuit
    BY <2>1 DEF RequestQuit, TypeInv, DesktopTypeOK, ManualRuns
  <2>2. CASE AnswerQuit
    BY <2>2 DEF AnswerQuit, TypeInv, DesktopTypeOK, NoQuit
  <2>3. CASE HideOrShow
    BY <2>3 DEF HideOrShow, TypeInv, DesktopTypeOK
  <2>4. QED
    BY <2>1, <2>2, <2>3
<1>5. QED
  BY <1>1, <1>2, <1>3, <1>4 DEF TypeInv, DesktopTypeOK

-----------------------------------------------------------------------------
(* What a confirmation is bound to. *)

ConsentInv ==
  /\ HasReview /\ Confirmed(review) =>
       /\ review.plan.config = review.config
       /\ review.plan.method = method
       /\ review.plan.consent \in 1..consents
  /\ \A r \in started : r.consent \in 1..consents
  /\ run = NoRun /\ HasReview /\ Confirmed(review) =>
       \A r \in started : r.consent # review.plan.consent
  /\ ConsentUsedOnce

DesktopInv == TypeInv /\ ThreadInv /\ ConsentInv

(* Steps that take a confirmed plan away, or leave review, method, run and
   started as they are.                                                    *)
Unconfirms ==
  /\ ~(HasReview' /\ Confirmed(review'))
  /\ UNCHANGED <<started, consents>>

Untouched == UNCHANGED <<review, method, started, consents>> /\ (run' = NoRun <=> run = NoRun)

LEMMA UnconfirmsKeeps ==
  ASSUME ConsentInv, Unconfirms
  PROVE  ConsentInv'
BY DEF ConsentInv, Unconfirms, ConsentUsedOnce

LEMMA UntouchedKeeps ==
  ASSUME ConsentInv, Untouched
  PROVE  ConsentInv'
BY DEF ConsentInv, Untouched, ConsentUsedOnce, HasReview

(* TryStart with a plan whose confirmation no run used: what holds of the
   new review and of the runs started.                                     *)
LEMMA TryStartKeeps ==
  ASSUME DesktopInv, NEW r \in PlanReviews, NEW n \in Nat, n = consents', consents <= n,
         HasReview, run = NoRun, TryStart(r), UNCHANGED method,
         r.plan \in Plans,
         r.plan.config = r.config, r.plan.method = method, r.plan.consent \in 1..n,
         \A x \in started : x.consent # r.plan.consent
  PROVE  ConsentInv'
<1>1. consents \in Nat /\ \A x \in started : x.consent \in 1..n
  BY DEF DesktopInv, TypeInv, DesktopTypeOK, ConsentInv
<1>2. ConsentUsedOnce
  BY DEF DesktopInv, ConsentInv
<1>3. CASE review' = r /\ UNCHANGED running
  <2>1. UNCHANGED <<run, started>>
    BY <1>3 DEF running
  <2>2. QED
    BY <1>1, <1>2, <1>3, <2>1 DEF ConsentInv, ConsentUsedOnce
<1>4. CASE Invalidate
  <2>1. review \in PlanReviews
    BY ReviewTyped DEF DesktopInv, TypeInv
  <2>2. ~Confirmed(review')
    BY <1>4, <2>1 DEF Invalidate, Confirmed, PlanReviews
  <2>3. UNCHANGED started
    BY <1>4 DEF Invalidate, running
  <2>4. QED
    BY <1>1, <1>2, <2>2, <2>3 DEF ConsentInv, ConsentUsedOnce
<1>5. CASE review' = r /\ NewRun(r)
  <2>1. started' = started \cup {[run |-> Cardinality(started) + 1, consent |-> r.plan.consent]}
    BY <1>5 DEF NewRun
  <2>2. \A x \in started' : x.consent \in 1..n
    BY <1>1, <2>1
  <2>3. ConsentUsedOnce'
    BY <1>2, <2>1 DEF ConsentUsedOnce
  <2>4. run' # NoRun
    <3>1. Cardinality(started) \in Nat
      BY FS_CardinalityType DEF DesktopInv, TypeInv
    <3>2. run'.id # 0
      BY <1>5, <3>1 DEF NewRun
    <3>3. QED
      BY <3>2 DEF NoRun
  <2>5. QED
    BY <1>5, <2>2, <2>3, <2>4 DEF ConsentInv
<1>6. QED
  BY <1>3, <1>4, <1>5 DEF TryStart, running

LEMMA ConfirmKeeps ==
  ASSUME DesktopInv, Confirm
  PROVE  ConsentInv'
<1>1. HasReview /\ review \in PlanReviews /\ run = NoRun /\ ~Confirmed(review)
  BY ReviewTyped DEF DesktopInv, TypeInv, Confirm, ReviewGreen
<1>2. UNCHANGED method
  BY DEF Confirm
<1>3. CASE Invalidate /\ UNCHANGED consents
  <2>1. Unconfirms
    BY <1>1, <1>3 DEF Invalidate, Unconfirms, Confirmed, PlanReviews, running
  <2>2. QED
    BY <2>1, UnconfirmsKeeps DEF DesktopInv
<1>4. CASE /\ \/ review' = [review EXCEPT !.precheck = "none", !.error = TRUE]
              \/ review' = [review EXCEPT !.precheck = "blocked"]
           /\ UNCHANGED <<gate, running, consents>>
  <2>1. Unconfirms
    BY <1>1, <1>4 DEF Unconfirms, Confirmed, PlanReviews, running
  <2>2. QED
    BY <2>1, UnconfirmsKeeps DEF DesktopInv
<1>5. CASE /\ review.config = form /\ method # "none"
           /\ TryStart([review EXCEPT !.plan = ConfirmedPlan]) /\ consents' = consents + 1
  <2> DEFINE r == [review EXCEPT !.plan = ConfirmedPlan]
  <2>1. consents \in Nat
    BY DEF DesktopInv, TypeInv, DesktopTypeOK
  <2>2. ConfirmedPlan \in Plans
    BY <1>5, <2>1 DEF ConfirmedPlan, Plans, DesktopInv, TypeInv, DesktopTypeOK
  <2>3. r \in PlanReviews /\ r.plan = ConfirmedPlan /\ r.config = review.config
    BY <1>1, <2>2 DEF PlanReviews
  <2>4. /\ r.plan.config = r.config /\ r.plan.method = method
        /\ r.plan.consent = consents + 1
    BY <1>5, <2>3 DEF ConfirmedPlan
  <2>5. \A x \in started : x.consent # consents + 1
    BY <2>1 DEF DesktopInv, ConsentInv
  <2>6. consents + 1 \in Nat /\ consents <= consents + 1 /\ consents + 1 \in 1..(consents + 1)
    BY <2>1
  <2> HIDE DEF r
  <2>7. TryStart(r)
    BY <1>5 DEF r
  <2>8. QED
    BY <1>1, <1>2, <1>5, <2>2, <2>3, <2>4, <2>5, <2>6, <2>7, TryStartKeeps
<1>6. QED
  BY <1>3, <1>4, <1>5 DEF Confirm

LEMMA SynchroniseKeeps ==
  ASSUME DesktopInv, Synchronise
  PROVE  ConsentInv'
<1>1. HasReview /\ review \in PlanReviews /\ run = NoRun /\ Confirmed(review)
  BY ReviewTyped DEF DesktopInv, TypeInv, Synchronise
<1>2. review.plan \in Plans
  BY <1>1 DEF PlanReviews, Confirmed
<1>3. UNCHANGED <<method, consents>> /\ TryStart(review) /\ consents \in Nat
  BY DEF Synchronise, DesktopInv, TypeInv, DesktopTypeOK
<1>4. /\ review.plan.config = review.config /\ review.plan.method = method
      /\ review.plan.consent \in 1..consents
      /\ \A x \in started : x.consent # review.plan.consent
  BY <1>1 DEF DesktopInv, ConsentInv
<1>5. consents <= consents /\ consents = consents'
  BY <1>3
<1>6. QED
  BY <1>1, <1>2, <1>3, <1>4, <1>5, TryStartKeeps

-----------------------------------------------------------------------------
(* The whole step. *)

(* All other actions; none of them starts a run. *)
NotStarting ==
  \/ FormStep
  \/ CheckPending \/ CheckFolders \/ DryRun \/ CreateDestination
  \/ AnalysisReturns \/ PollAnalysis
  \/ \E m \in Methods : ChooseMethod(m)
  \/ RunReturns \/ PollRun \/ RequestCancel
  \/ RequestQuit \/ AnswerQuit \/ HideOrShow

LEMMA NotStartingKeeps ==
  ASSUME DesktopInv, NotStarting
  PROVE  ConsentInv' /\ UNCHANGED started
<1>1. CASE \E c \in Configurations : EditForm(c) \/ ReplaceForm(c) \/ SelectProfile(c)
  <2>1. review' = NoReview /\ UNCHANGED <<started, consents>>
    BY <1>1 DEF EditForm, ReplaceForm, SelectProfile, ClearReview, running
  <2>2. Unconfirms
    BY <2>1 DEF Unconfirms, HasReview
  <2>3. QED
    BY <2>1, <2>2, UnconfirmsKeeps DEF DesktopInv
<1>2. CASE \E c \in Configurations : RunNow(c)
  <2>1. PICK c \in Configurations : RunNow(c)
    BY <1>2
  <2>2. Outcomes("dry_run", c) \subseteq {"ok", "unread", "blocked", "failed"}
    BY DEF Outcomes
  <2>3. review'.plan = NoPlan /\ UNCHANGED <<started, consents>>
    BY <2>1, <2>2, ReviewsTyped DEF RunNow, running
  <2>4. Unconfirms
    BY <2>3 DEF Unconfirms, Confirmed
  <2>5. QED
    BY <2>3, <2>4, UnconfirmsKeeps DEF DesktopInv
<1>3. CASE \/ \E f \in Folders, fromWorkspace \in BOOLEAN : PickFolder(f, fromWorkspace)
           \/ CheckPending \/ CheckFolders \/ CreateDestination \/ AnalysisReturns
           \/ HideOrShow
  <2>1. UNCHANGED <<review, method, run, started, consents>>
    BY <1>3 DEF PickFolder, CheckPending, CheckFolders, CreateDestination, AnalysisReturns,
                HideOrShow, reviewing, running
  <2>2. QED
    BY <2>1, UntouchedKeeps DEF Untouched, DesktopInv
<1>4. CASE DryRun
  <2>1. review' = NoReview /\ UNCHANGED <<started, consents>>
    BY <1>4 DEF DryRun, ClearReview, running
  <2>2. Unconfirms
    BY <2>1 DEF Unconfirms, HasReview
  <2>3. QED
    BY <2>1, <2>2, UnconfirmsKeeps DEF DesktopInv
<1>5. CASE PollAnalysis
  <2>1. UNCHANGED <<run, started, consents>>
    BY <1>5 DEF PollAnalysis, running
  <2>2. CASE UNCHANGED <<review, method>>
    BY <2>1, <2>2, UntouchedKeeps DEF Untouched, DesktopInv
  <2>3. CASE /\ ApplyDryRun(analysis.config, analysis.outcome)
             /\ analysis.kind # "folder_check" /\ analysis.outcome # "lost"
    <3>1. /\ analysis.config \in Configurations
          /\ analysis.outcome \in {"ok", "unread", "blocked", "failed"}
      BY <1>5, <2>3 DEF PollAnalysis, DesktopInv, TypeInv, DesktopTypeOK, Analyses
    <3>2. review'.plan = NoPlan
      BY <2>3, <3>1, ReviewsTyped DEF ApplyDryRun
    <3>3. Unconfirms
      BY <2>1, <3>2 DEF Unconfirms, Confirmed
    <3>4. QED
      BY <2>1, <3>3, UnconfirmsKeeps DEF DesktopInv
  <2>4. QED
    BY <1>5, <2>2, <2>3 DEF PollAnalysis, ApplyFolderCheck
<1>6. CASE \E m \in Methods : ChooseMethod(m)
  <2>1. review \in PlanReviews
    BY <1>6, ReviewTyped DEF ChooseMethod, DesktopInv, TypeInv
  <2>2. Unconfirms
    BY <1>6, <2>1 DEF ChooseMethod, Unconfirms, Confirmed, PlanReviews, running
  <2>3. QED
    BY <2>2, UnconfirmsKeeps DEF DesktopInv, Unconfirms
<1>7. CASE PollRun
  <2>1. HasReview => review \in PlanReviews
    BY ReviewTyped DEF DesktopInv, TypeInv
  <2>2. HasReview => ~Confirmed(review')
    BY <1>7, <2>1 DEF PollRun, Unconfirmed, Confirmed, PlanReviews
  <2>3. ~HasReview => ~HasReview'
    BY <1>7 DEF PollRun, Unconfirmed, HasReview
  <2>4. Unconfirms
    BY <1>7, <2>2, <2>3 DEF PollRun, Unconfirms
  <2>5. QED
    BY <2>4, UnconfirmsKeeps DEF DesktopInv, Unconfirms
<1>8. CASE RunReturns \/ RequestCancel \/ RequestQuit \/ AnswerQuit
  <2>1. UNCHANGED <<review, method, started, consents>>
    BY <1>8 DEF RunReturns, RequestCancel, RequestQuit, AnswerQuit, reviewing, running
  <2>2. run' = NoRun <=> run = NoRun
    <3>1. run'.id = run.id
      <4>1. CASE run = NoRun
        <5>1. ~RunReturns /\ ~RequestCancel
          BY <4>1 DEF RunReturns, RequestCancel, DesktopInv, TypeInv, DesktopTypeOK, NoRun
        <5>2. quit.kind = "confirm" => quit.run # 0
          BY DEF DesktopInv, TypeInv, DesktopTypeOK, NoQuit
        <5>3. QED
          BY <1>8, <4>1, <5>1, <5>2 DEF RequestQuit, AnswerQuit, Cancelled, NoRun, running
      <4>2. CASE run \in ManualRuns
        BY <1>8, <4>2 DEF RunReturns, RequestCancel, RequestQuit, AnswerQuit, Cancelled,
                          ManualRuns, running
      <4>3. QED
        BY <4>1, <4>2 DEF DesktopInv, TypeInv, DesktopTypeOK
    <3>2. run' \in ManualRuns \cup {NoRun}
      BY <1>8, RunTyped, QuitTyped DEF DesktopInv, DesktopTypeOK
    <3>3. QED
      BY <3>1, <3>2 DEF DesktopInv, TypeInv, DesktopTypeOK, ManualRuns, NoRun
  <2>3. QED
    BY <2>1, <2>2, UntouchedKeeps DEF Untouched, DesktopInv
<1>9. QED
  BY <1>1, <1>2, <1>3, <1>4, <1>5, <1>6, <1>7, <1>8 DEF NotStarting, FormStep

LEMMA ThreadStep ==
  ASSUME DesktopInv, [Next]_vars
  PROVE  ThreadInv'
<1>1. CASE RunReturns \/ PollRun
  BY <1>1 DEF RunReturns, PollRun, ThreadInv
<1>2. CASE Confirm \/ Synchronise
  <2>1. UNCHANGED <<run, live>> \/ run'.outcome = "pending"
    BY <1>2 DEF Confirm, Synchronise, TryStart, Invalidate, NewRun, running
  <2>2. QED
    BY <2>1 DEF DesktopInv, ThreadInv
<1>3. CASE RequestCancel \/ AnswerQuit
  <2>1. UNCHANGED live
    BY <1>3 DEF RequestCancel, AnswerQuit
  <2>2. run' = run \/ run' = [run EXCEPT !.cancel = TRUE]
    BY <1>3 DEF RequestCancel, AnswerQuit, Cancelled
  <2>3. CASE run \in ManualRuns
    BY <2>1, <2>2, <2>3 DEF ManualRuns, DesktopInv, ThreadInv, NoRun
  <2>4. CASE run = NoRun
    <3>1. live = 0
      BY <2>4 DEF DesktopInv, TypeInv, DesktopTypeOK, NoRun
    <3>2. QED
      BY <2>1, <3>1 DEF ThreadInv
  <2>5. QED
    BY <2>3, <2>4 DEF DesktopInv, TypeInv, DesktopTypeOK
<1>4. CASE \/ UNCHANGED vars \/ FormStep
           \/ CheckPending \/ CheckFolders \/ DryRun \/ CreateDestination
           \/ AnalysisReturns \/ PollAnalysis
           \/ \E m \in Methods : ChooseMethod(m)
           \/ RequestQuit \/ HideOrShow
  <2>1. UNCHANGED <<run, live>>
    BY <1>4 DEF vars, FormStep, EditForm, ReplaceForm, SelectProfile, RunNow, PickFolder,
                CheckPending, CheckFolders, DryRun, CreateDestination, AnalysisReturns,
                PollAnalysis, ChooseMethod, RequestQuit, HideOrShow, running
  <2>2. QED
    BY <2>1 DEF DesktopInv, ThreadInv
<1>5. QED
  BY <1>1, <1>2, <1>3, <1>4 DEF Next

LEMMA DesktopStep ==
  ASSUME DesktopInv, [Next]_vars
  PROVE  DesktopInv'
<1>1. ThreadInv'
  BY ThreadStep
<1>2. CASE UNCHANGED vars
  <2>1. UNCHANGED <<form, review, method, gate, pending, creation, analysis, run, live, settled,
                    quit, exit, hidden, started, consents>>
    BY <1>2 DEF vars, reviewing, checking, running, quitting
  <2>2. DesktopTypeOK' /\ IsFiniteSet(started')
    BY <2>1 DEF DesktopInv, TypeInv, DesktopTypeOK
  <2>3. QED
    BY <1>1, <2>1, <2>2, UntouchedKeeps DEF DesktopInv, TypeInv, Untouched
<1>3. CASE Confirm \/ Synchronise
  BY <1>1, <1>3, ConfirmingTyped, ConfirmKeeps, SynchroniseKeeps DEF DesktopInv
<1>4. CASE NotStarting
  <2>1. ConsentInv' /\ IsFiniteSet(started')
    BY <1>4, NotStartingKeeps DEF DesktopInv, TypeInv
  <2>2. DesktopTypeOK'
    BY <1>4, FormTyped, CheckingTyped, PollAnalysisTyped, ConfirmingTyped, RunTyped, QuitTyped
       DEF NotStarting, DesktopInv, TypeInv
  <2>3. QED
    BY <1>1, <2>1, <2>2 DEF DesktopInv, TypeInv
<1>5. QED
  BY <1>2, <1>3, <1>4 DEF Next, NotStarting

LEMMA DesktopInit == Init => DesktopInv
<1> SUFFICES ASSUME Init PROVE DesktopInv
  OBVIOUS
<1>1. form \in Configurations
  BY DEF Init, Configurations, Folders, Options
<1>2. DesktopTypeOK
  BY <1>1 DEF Init, DesktopTypeOK, Gates, NoRun, NoQuit
<1>3. IsFiniteSet(started)
  BY FS_EmptySet DEF Init
<1>4. ThreadInv /\ ConsentInv
  BY DEF Init, ThreadInv, ConsentInv, ConsentUsedOnce, HasReview
<1>5. QED
  BY <1>2, <1>3, <1>4 DEF DesktopInv, TypeInv

LEMMA DesktopAlways == Spec => []DesktopInv
<1>1. DesktopInv /\ [Next]_vars => DesktopInv'
  BY DesktopStep
<1>2. QED
  BY <1>1, DesktopInit, PTL DEF Spec

-----------------------------------------------------------------------------
(* Every variable keeps its type. *)
THEOREM DesktopTypes == Spec => []DesktopTypeOK
<1>1. DesktopInv => DesktopTypeOK
  BY DEF DesktopInv, TypeInv
<1>2. QED
  BY <1>1, DesktopAlways, PTL

(* No Execution Confirmation starts two runs. *)
THEOREM ConsentIsUsedOnce == Spec => []ConsentUsedOnce
<1>1. DesktopInv => ConsentUsedOnce
  BY DEF DesktopInv, ConsentInv
<1>2. QED
  BY <1>1, DesktopAlways, PTL

(* TryStart starts a run only with the form's configuration. *)
LEMMA StartShows ==
  ASSUME NEW r, TryStart(r), run = NoRun, run' # NoRun
  PROVE  r.config = form /\ run'.plan = r.plan
BY DEF TryStart, Invalidate, NewRun, running

(* A run starts with the configuration and the method the window shows. *)
THEOREM RunStartsWhatIsShown == Spec => StartsWhatIsShown
<1>1. ASSUME DesktopInv, [Next]_vars
      PROVE  [run = NoRun /\ run' # NoRun =>
                run'.plan.config = form /\ run'.plan.method = method]_vars
  <2> SUFFICES ASSUME run = NoRun, run' # NoRun
               PROVE  run'.plan.config = form /\ run'.plan.method = method
    OBVIOUS
  <2>1. CASE Synchronise
    <3>1. HasReview /\ Confirmed(review) /\ TryStart(review)
      BY <2>1 DEF Synchronise
    <3>2. review.plan.config = review.config /\ review.plan.method = method
      BY <1>1, <3>1 DEF DesktopInv, ConsentInv
    <3>3. QED
      BY <3>1, <3>2, StartShows
  <2>2. CASE Confirm
    <3> DEFINE r == [review EXCEPT !.plan = ConfirmedPlan]
    <3>1. review \in PlanReviews
      BY <1>1, <2>2, ReviewTyped DEF DesktopInv, TypeInv, Confirm, ReviewGreen
    <3>2. r.plan = ConfirmedPlan
      BY <3>1 DEF PlanReviews
    <3>3. TryStart(r)
      BY <2>2 DEF Confirm, Invalidate, running
    <3>4. run'.plan = ConfirmedPlan
      BY <3>2, <3>3, StartShows
    <3>5. QED
      BY <3>4 DEF ConfirmedPlan
  <2>3. CASE UNCHANGED vars
    BY <2>3 DEF vars, running
  <2>4. CASE NotStarting
    <3>1. CASE \/ FormStep
               \/ CheckPending \/ CheckFolders \/ DryRun \/ CreateDestination
               \/ AnalysisReturns \/ PollAnalysis
               \/ \E m \in Methods : ChooseMethod(m)
               \/ RequestQuit \/ HideOrShow
      <4>1. UNCHANGED run
        BY <3>1 DEF FormStep, EditForm, ReplaceForm, SelectProfile, RunNow, PickFolder,
                    CheckPending, CheckFolders, DryRun, CreateDestination, AnalysisReturns,
                    PollAnalysis, ChooseMethod, RequestQuit, HideOrShow, running
      <4>2. QED
        BY <4>1
    <3>2. CASE PollRun \/ RequestCancel
      BY <3>2 DEF PollRun, RequestCancel
    <3>3. CASE RunReturns
      BY <1>1, <3>3 DEF RunReturns, DesktopInv, TypeInv, DesktopTypeOK, NoRun
    <3>4. CASE AnswerQuit
      <4>1. quit.run # 0
        BY <1>1, <3>4 DEF AnswerQuit, DesktopInv, TypeInv, DesktopTypeOK, NoQuit
      <4>2. UNCHANGED run
        BY <3>4, <4>1 DEF AnswerQuit, Cancelled, NoRun
      <4>3. QED
        BY <4>2
    <3>5. QED
      BY <2>4, <3>1, <3>2, <3>3, <3>4 DEF NotStarting
  <2>5. QED
    BY <1>1, <2>1, <2>2, <2>3, <2>4 DEF Next, NotStarting
<1>2. QED
  BY <1>1, DesktopAlways, PTL DEF Spec, StartsWhatIsShown

(* The application never exits under a live run, nor behind Stop and Quit
   before the run's report is durable.                                     *)
THEOREM QuitIsSettled == Spec => QuitsOnlySettled
<1>1. ASSUME DesktopInv, [Next]_vars
      PROVE  [~exit /\ exit' =>
                /\ live' = 0
                /\ quit.kind = "stopping" /\ run.id = quit.run => run.id \in settled]_vars
  <2> SUFFICES ASSUME ~exit, exit'
               PROVE  /\ live' = 0
                      /\ quit.kind = "stopping" /\ run.id = quit.run => run.id \in settled
    OBVIOUS
  <2>1. CASE RequestQuit
    <3>1. run = NoRun /\ live' = live
      BY <2>1 DEF RequestQuit, running
    <3>2. live = 0 /\ run.id = 0
      BY <1>1, <3>1 DEF DesktopInv, TypeInv, DesktopTypeOK, NoRun
    <3>3. quit.kind = "stopping" => quit.run # 0
      BY <1>1 DEF DesktopInv, TypeInv, DesktopTypeOK, NoQuit
    <3>4. QED
      BY <3>1, <3>2, <3>3
  <2>2. CASE PollRun
    <3>1. live' = live /\ live = 0 /\ run # NoRun
      BY <1>1, <2>2 DEF PollRun, DesktopInv, ThreadInv
    <3>2. CASE UNCHANGED exit
      BY <3>2
    <3>3. CASE exit' => run.id \in settled
      BY <3>1, <3>3
    <3>4. QED
      BY <2>2, <3>2, <3>3 DEF PollRun
  <2>3. CASE ~RequestQuit /\ ~PollRun
    <3>1. UNCHANGED exit
      BY <1>1, <2>3 DEF Next, vars, FormStep, EditForm, ReplaceForm, SelectProfile, RunNow, PickFolder,
           CheckPending, CheckFolders, DryRun, CreateDestination, AnalysisReturns,
           PollAnalysis, ChooseMethod, Confirm, Synchronise, RunReturns, RequestCancel,
           AnswerQuit, HideOrShow, quitting
    <3>2. QED
      BY <3>1
  <2>4. QED
    BY <2>1, <2>2, <2>3
<1>2. QED
  BY <1>1, DesktopAlways, PTL DEF Spec, QuitsOnlySettled
=============================================================================
