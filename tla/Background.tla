----------------------------- MODULE Background -----------------------------
(***************************************************************************)
(* Scheduled and manual Sync Runs that share the store of one user: the    *)
(* processes of --background-scheduler (run_background_scheduler_once,     *)
(* BackgroundScheduler::poll_due, ScheduledRun::execute), the desktop      *)
(* application that saves profiles, starts manual runs, answers Missed     *)
(* Schedule Notices and removes reports meanwhile, and the registry of     *)
(* Peer Scope Locks each of them uses.  A store write may fail, a process  *)
(* may die, time passes.                                                   *)
(*                                                                         *)
(* Data.  Every profile is a local one-way Safe Delete profile with its    *)
(* deletion method chosen, so an unattended run needs the destructive      *)
(* authorization.  Of a run's journal only the worst item outcome is kept; *)
(* SafeDeleteRun and ActionJournal have the rest.  update_schedule reads   *)
(* the clock, the profile and the row in one step: an interval is at       *)
(* least a minute.  Every plan has at least one action, and an item that   *)
(* failed counts as a finding of the reconciliation.  Retry events and     *)
(* delivered notifications are left out.                                   *)
(***************************************************************************)
EXTENDS ScopeLock

CONSTANTS
  NumProfiles,   \* profiles, in the order of their identifiers
  Schedulers,    \* processes started with --background-scheduler
  Desktops,      \* desktop applications, each with its manual run worker
  FirstEndpoints, \* the peer scopes of a profile to begin with
  Endpoints,     \* the pairs of peer scopes a profile may be given
  Sharing,       \* may the workflows be built with one shared registry?
  Interval,      \* of every schedule, in units of the clock
  MaxTime,       \* bound: the last value of the clock
  MaxRuns,       \* bound: no poll or manual run starts past this identifier
  MaxRunId,      \* bound: run identifiers, for the runs that polls then claim
  MaxTwists      \* bound: steps of the user, writes that fail and processes that die

ASSUME BackgroundAssumption ==
  /\ NumProfiles \in Nat \ {0}
  /\ Desktops # {} /\ Schedulers \cap Desktops = {}
  /\ FirstEndpoints \in Endpoints
  /\ Sharing \subseteq BOOLEAN
  /\ Interval \in Nat \ {0}
  /\ MaxTime \in Nat /\ MaxRuns \in Nat /\ MaxRunId \in Nat /\ MaxTwists \in Nat

VARIABLES
  now,
  profile,    \* the rows of sync_profiles and sync_profile_schedules
  nextRun,    \* run_id_sequence
  report,     \* the rows of run_snapshots, by run
  events,     \* scheduler_events
  notices,    \* missed_schedule_notices
  shared,     \* the workflows share one registry (with_scope_lock_registry)
  registry,   \* the Peer Scope Lock registries
  task,       \* where each process is
  form,       \* the profile form of each desktop
  claims,     \* occurrences claimed (history)
  granted,    \* what the user authorized, and on which peers (history)
  moved,      \* runs that changed files (history)
  settled,    \* scheduled runs whose execute came back (history)
  twists      \* steps counted by MaxTwists

store == <<profile, nextRun, report, events, notices>>
history == <<claims, granted, moved, settled>>
bounds == <<twists>>
vars == <<now, store, shared, registry, task, form, history, twists>>

Profiles == 1..NumProfiles
Workers == Schedulers \cup Desktops
RunIds == 1..MaxRunId

NoJob == [run |-> 0]
Idle == [pc |-> "idle", todo |-> {}, at |-> 0, loaded |-> NoJob, queue |-> <<>>,
         job |-> NoJob, lease |-> 0, result |-> "none"]

-----------------------------------------------------------------------------
(* Run Reports. *)

NewReport ==
  [blocked |-> FALSE, inventory |-> FALSE, items |-> "none",
   recon |-> "none", cleared |-> FALSE]

ReportStatus(r) ==
  CASE r.blocked -> "blocked"
    [] ~r.blocked /\ r.items = "open" -> "in_progress"
    [] ~r.blocked /\ r.items # "open" /\ (r.recon = "findings" \/ (r.inventory /\ r.recon = "none"))
       -> "review_required"
    [] OTHER -> IF r.cleared THEN "review_cleared" ELSE "completed"

CanClear(r) ==
  /\ ~r.cleared /\ ~r.blocked
  /\ r.items = "done"
  /\ r.recon = "clean"

Stored(run) == run \in DOMAIN report

Without(f, x) == [y \in DOMAIN f \ {x} |-> f[y]]
With(f, x, v) == [y \in DOMAIN f \cup {x} |-> IF y = x THEN v ELSE f[y]]

Event(p, run, kind) == [profile |-> p, run |-> run, kind |-> kind, notice |-> 0]

-----------------------------------------------------------------------------
(* Steps of a process. *)

Goto(w, pc) == task' = [task EXCEPT ![w].pc = pc]
Ends(w, pc, result) == task' = [task EXCEPT ![w].pc = pc, ![w].result = result]
Job(w) == task[w].job
Scheduled(w) == w \in Schedulers
Twist == twists < MaxTwists /\ twists' = twists + 1

Sharers(w) == IF shared THEN Workers ELSE {w}
SetRegistry(w, reg) ==
  registry' = [v \in Workers |-> IF v \in Sharers(w) THEN reg ELSE registry[v]]

Init ==
  /\ now = 0
  /\ profile \in [Profiles -> [rev : {0}, scopes : {FirstEndpoints}, auth : BOOLEAN,
                               enabled : {TRUE}, next : {Interval}]]
  /\ nextRun = 1
  /\ report = [run \in {} |-> NewReport]
  /\ events = {} /\ notices = {}
  /\ shared \in Sharing
  /\ registry = [w \in Workers |-> NoLeases]
  /\ task = [w \in Workers |-> Idle]
  /\ form = [d \in Desktops |-> [profile |-> 1, rev |-> 0, half |-> FALSE]]
  /\ granted = {<<p, profile[p].scopes>> : p \in {p \in Profiles : profile[p].auth}}
  /\ claims = {} /\ moved = {} /\ settled = {}
  /\ twists = 0

Tick ==
  /\ now < MaxTime
  /\ now' = now + 1
  /\ UNCHANGED <<store, shared, registry, task, form, history, twists>>

-----------------------------------------------------------------------------
(* poll_due: the enabled profiles in one transaction, then one claim each.  *)
(* A poll that begins with nothing due ends without a write and is left out. *)

Due(p, time) == profile[p].enabled /\ profile[p].next <= time

StartPoll(s) ==
  /\ task[s].pc = "idle" /\ nextRun <= MaxRuns
  /\ \E p \in Profiles : Due(p, now)
  /\ task' = [task EXCEPT ![s] = [Idle EXCEPT
       !.pc = "claim", !.at = now,
       !.todo = {p \in Profiles : profile[p].enabled}]]
  /\ UNCHANGED <<now, store, shared, registry, form, history, twists>>

(* claim_due_schedule reads the profile before its transaction begins. *)
LoadDue(s) ==
  LET t == task[s]
  IN  /\ t.pc = "claim"
      /\ \E p \in t.todo :
           /\ \A q \in t.todo : p <= q
           /\ task' = [task EXCEPT
                ![s].todo = t.todo \ {p},
                ![s].pc = IF Due(p, t.at) THEN "txn" ELSE "claim",
                ![s].loaded = IF Due(p, t.at) THEN [profile |-> p, row |-> profile[p]]
                                              ELSE NoJob]
      /\ UNCHANGED <<now, store, shared, registry, form, history, twists>>

(* Faulty variant: the occurrence may have been claimed meanwhile. *)
RevisionOnly(loaded, row) == loaded.rev = row.rev

StillDue(loaded, row) ==
  /\ loaded.rev = row.rev
  /\ row.enabled /\ loaded.next = row.next

NextOccurrence(at, time) == at + Interval * (((time - at) \div Interval) + 1)

Claim(s) ==
  LET t == task[s]  p == t.loaded.profile  row == t.loaded.row
      claim == [run |-> nextRun, profile |-> p, scopes |-> row.scopes,
                auth |-> row.auth, at |-> row.next]
  IN  /\ t.pc = "txn" /\ nextRun \in RunIds
      /\ IF StillDue(row, profile[p])
           THEN /\ profile' = [profile EXCEPT ![p].next = NextOccurrence(row.next, t.at)]
                /\ nextRun' = nextRun + 1
                /\ report' = With(report, nextRun, NewReport)
                /\ events' = events \cup {Event(p, nextRun, "claimed")}
                /\ claims' = claims \cup {claim}
                /\ task' = [task EXCEPT ![s].pc = "claim", ![s].loaded = NoJob,
                                        ![s].queue = Append(t.queue, claim)]
           ELSE /\ nextRun' = IF row.rev = profile[p].rev THEN nextRun + 1 ELSE nextRun
                /\ task' = [task EXCEPT ![s].pc = "claim", ![s].loaded = NoJob]
                /\ UNCHANGED <<profile, report, events, claims>>
      /\ UNCHANGED <<now, notices, shared, registry, form, granted, moved, settled, twists>>

(* The error leaves poll_due, and the process, with every run it has claimed. *)
ClaimFails(s) ==
  /\ task[s].pc = "txn"
  /\ Twist
  /\ task' = [task EXCEPT ![s] = Idle]
  /\ UNCHANGED <<now, store, shared, registry, form, history>>

NextRun(s) ==
  LET t == task[s]
  IN  /\ t.pc = "claim" /\ t.todo = {}
      /\ task' = [task EXCEPT ![s] =
           IF t.queue = <<>> THEN Idle
           ELSE [t EXCEPT !.job = Head(t.queue), !.queue = Tail(t.queue),
                          !.result = IF Head(t.queue).auth THEN "none" ELSE "error",
                          !.pc = IF Head(t.queue).auth THEN "check" ELSE "mark"]]
      /\ UNCHANGED <<now, store, shared, registry, form, history, twists>>

-----------------------------------------------------------------------------
(* One run, scheduled (execute_unattended) or manual (execute).  A manual   *)
(* run has no row before begin_run; a scheduled one has since its claim.    *)

Refusal(w) == IF Scheduled(w) THEN "mark" ELSE "block"

Precheck(w) ==
  LET reg == registry[w]  scopes == Job(w).scopes
  IN  /\ task[w].pc = "check"
      /\ \/ /\ Ends(w, Refusal(w), "error")
            /\ UNCHANGED registry
         \/ /\ Refused(reg, scopes)
            /\ Ends(w, Refusal(w), "overlap")
            /\ UNCHANGED registry
         \/ /\ ~Refused(reg, scopes)
            /\ SetRegistry(w, Grant(reg, Job(w).run, scopes))
            /\ task' = [task EXCEPT ![w].pc = "begin", ![w].lease = reg.next + 1]
      /\ UNCHANGED <<now, store, shared, form, history, twists>>

(* persist_blocked: begin_run, then mark_blocked in a transaction of its own. *)
BlockManual(w) ==
  /\ task[w].pc = "block"
  /\ \/ /\ report' = With(report, Job(w).run, NewReport)
        /\ Goto(w, "mark") /\ UNCHANGED twists
     \/ /\ Twist /\ Ends(w, "return", "error") /\ UNCHANGED report
  /\ UNCHANGED <<now, profile, nextRun, events, notices, shared, registry, form, history>>

MarkBlocked(w) ==
  LET run == Job(w).run
  IN  /\ task[w].pc = "mark"
      /\ \/ /\ Stored(run)
            /\ report' = [report EXCEPT ![run].blocked = TRUE]
            /\ Goto(w, "return") /\ UNCHANGED twists
         \/ /\ Stored(run) /\ Twist
            /\ Ends(w, "return", "error") /\ UNCHANGED report
         \/ /\ ~Stored(run)
            /\ Ends(w, "return", "error") /\ UNCHANGED <<report, twists>>
      /\ UNCHANGED <<now, profile, nextRun, events, notices, shared, registry, form, history>>

(* Fresh Analysis, the confirmation and the second precheck write nothing;
   then the backup, begin_run or record_run_volume_identities, and the plan. *)
Begin(w) ==
  LET run == Job(w).run
  IN  /\ task[w].pc = "begin"
      /\ \/ /\ Ends(w, Refusal(w), "error")
            /\ UNCHANGED <<report, twists>>
         \/ /\ ~Scheduled(w) \/ ~Stored(run)
            /\ Ends(w, "return", "error") /\ UNCHANGED <<report, twists>>
         \/ /\ Scheduled(w) => Stored(run)
            /\ report' = With(report, run, [NewReport EXCEPT !.inventory = TRUE, !.items = "open"])
            /\ Goto(w, "work") /\ UNCHANGED twists
         \/ /\ Twist /\ Ends(w, "return", "error") /\ UNCHANGED report
      /\ UNCHANGED <<now, profile, nextRun, events, notices, shared, registry, form, history>>

(* The actions of the plan change files and the journal takes their outcome.
   A write that fails ends the run; a scheduled run that is then still open
   is marked blocked.                                                        *)
Work(w) ==
  LET run == Job(w).run
  IN  /\ task[w].pc = "work"
      /\ moved' = moved \cup {Job(w)}
      /\ \/ /\ report' = [report EXCEPT ![run].items = "done"]
            /\ Goto(w, "reconcile") /\ UNCHANGED twists
         \/ /\ Twist
            /\ Ends(w, IF Scheduled(w) THEN "mark" ELSE "return", "error")
            /\ UNCHANGED report
      /\ UNCHANGED <<now, profile, nextRun, events, notices, shared, registry, form, claims,
                     granted, settled>>

(* The report may be gone by now: its status no longer was in_progress. *)
Reconcile(w) ==
  LET run == Job(w).run
  IN  /\ task[w].pc = "reconcile"
      /\ \/ /\ Stored(run)
            /\ \E recon \in {"clean", "findings"} :
                 /\ report' = [report EXCEPT ![run].recon = recon]
                 /\ Ends(w, "return", ReportStatus(report'[run]))
            /\ UNCHANGED twists
         \/ /\ ~Stored(run)
            /\ Ends(w, "return", "error") /\ UNCHANGED <<report, twists>>
         \/ /\ Stored(run) /\ Twist
            /\ Ends(w, IF Scheduled(w) /\ ReportStatus(report[run]) = "in_progress"
                         THEN "mark" ELSE "return", "error")
            /\ UNCHANGED report
      /\ UNCHANGED <<now, profile, nextRun, events, notices, shared, registry, form, history>>

(* Faulty variant: a run that failed keeps its lease. *)
ReturnLeaking(w) ==
  /\ task[w].pc = "return"
  /\ IF task[w].lease = 0 \/ task[w].result = "error" THEN UNCHANGED registry
     ELSE SetRegistry(w, GiveBack(registry[w], task[w].lease))
  /\ task' = [task EXCEPT ![w] = IF Scheduled(w) THEN [@ EXCEPT !.pc = "event", !.lease = 0]
                                                 ELSE Idle]
  /\ UNCHANGED <<now, store, shared, form, history, twists>>

(* The workflow returns and its lease is dropped. *)
Return(w) ==
  /\ task[w].pc = "return"
  /\ IF task[w].lease = 0 THEN UNCHANGED registry
     ELSE SetRegistry(w, GiveBack(registry[w], task[w].lease))
  /\ task' = [task EXCEPT ![w] = IF Scheduled(w) THEN [@ EXCEPT !.pc = "event", !.lease = 0]
                                                 ELSE Idle]
  /\ UNCHANGED <<now, store, shared, form, history, twists>>

-----------------------------------------------------------------------------
(* ScheduledRun::execute after its workflow came back. *)

Succeeded(result) == result \notin {"error", "overlap"}

(* record_outcome_event and record_error_event. *)
OutcomeKind(result, run) ==
  LET status == IF Succeeded(result) THEN result
                ELSE IF Stored(run) THEN ReportStatus(report[run]) ELSE "blocked"
  IN  CASE result = "overlap" -> "skipped_overlap"
        [] result # "overlap" /\ status = "blocked" -> "blocked_preflight"
        [] result # "overlap" /\ status = "review_required" -> "pending_review"
        [] Succeeded(result) /\ status = "completed" -> "completed"
        [] OTHER -> "failed"

Settles(s, missed, complete) ==
  /\ settled' = settled \cup {[run |-> Job(s).run, missed |-> missed, complete |-> complete]}
  /\ task' = [task EXCEPT ![s].pc = "claim", ![s].job = NoJob, ![s].result = "none"]

RecordOutcome(s) ==
  LET t == task[s]  run == t.job.run
  IN  /\ t.pc = "event"
      /\ \/ /\ events' = events \cup {Event(t.job.profile, run, OutcomeKind(t.result, run))}
            /\ IF Succeeded(t.result) THEN Settles(s, FALSE, TRUE)
                                      ELSE Goto(s, "missed") /\ UNCHANGED settled
            /\ UNCHANGED twists
         \/ /\ Twist /\ Settles(s, ~Succeeded(t.result), FALSE) /\ UNCHANGED events
      /\ UNCHANGED <<now, profile, nextRun, report, notices, shared, registry, form,
                     claims, granted, moved>>

(* Faulty variant: a notice shows the occurrence that was recorded last. *)
LastRecorded(m, n) == n

Later(m, n) == IF m >= n THEN m ELSE n

PendingNotice(p) == {n \in notices : n.profile = p /\ n.decision = "pending"}

Noticed(p, run, at) ==
  IF PendingNotice(p) # {}
    THEN LET n == CHOOSE n \in PendingNotice(p) : TRUE
         IN  [n EXCEPT !.latest = Later(n.latest, at), !.count = @ + 1]
    ELSE [id |-> Cardinality(notices) + 1, profile |-> p, run |-> run, first |-> at,
          latest |-> at, decision |-> "pending", count |-> 1]

RecordMissed(s) ==
  LET t == task[s]  p == t.job.profile  n == Noticed(p, t.job.run, t.job.at)
  IN  /\ t.pc = "missed"
      /\ \/ /\ notices' = {m \in notices : m.id # n.id} \cup {n}
            /\ events' = events \cup {[Event(p, t.job.run, "missed") EXCEPT !.notice = n.id]}
            /\ Settles(s, TRUE, TRUE) /\ UNCHANGED twists
         \/ /\ Twist /\ Settles(s, TRUE, FALSE) /\ UNCHANGED <<notices, events>>
      /\ UNCHANGED <<now, profile, nextRun, report, shared, registry, form, claims, granted,
                     moved>>

-----------------------------------------------------------------------------
(* The user at a desktop. *)

OpenProfile(d, p) ==
  /\ ~form[d].half
  /\ form' = [form EXCEPT ![d] = [profile |-> p, rev |-> profile[p].rev, half |-> FALSE]]
  /\ form' # form
  /\ UNCHANGED <<now, store, shared, registry, task, history, twists>>

(* Faulty variant: an authorization stays with the profile. *)
KeepsAuthorization(before, scopes, auth) == auth

(* unattended_authorization_scope_changed takes it back. *)
Authorization(before, scopes, auth) == auth /\ before.scopes = scopes

(* update_profile_with_authorizations_if_revision; in Advanced Mode the
   schedule follows in a transaction of its own.                         *)
SaveProfile(d, scopes, auth, advanced) ==
  LET p == form[d].profile  row == profile[p]
  IN  /\ ~form[d].half
      /\ form[d].rev = row.rev
      /\ profile' = [profile EXCEPT ![p] = [row EXCEPT
           !.rev = row.rev + 1, !.scopes = scopes,
           !.auth = Authorization(row, scopes, auth)]]
      /\ granted' = IF auth /\ scopes = row.scopes THEN granted \cup {<<p, scopes>>} ELSE granted
      /\ form' = [form EXCEPT ![d].rev = row.rev + 1, ![d].half = advanced]
      /\ Twist
      /\ UNCHANGED <<now, nextRun, report, events, notices, shared, registry, task,
                     claims, moved, settled>>

(* update_schedule.  The form has no next occurrence: the schedule starts
   afresh.  When it fails the form keeps a revision that is out of date.  *)
SaveSchedule(d, enabled) ==
  LET p == form[d].profile
  IN  /\ form[d].half
      /\ \/ /\ profile' = [profile EXCEPT ![p].rev = @ + 1, ![p].enabled = enabled,
                                          ![p].next = IF enabled THEN now + Interval ELSE 0]
            /\ form' = [form EXCEPT ![d].rev = profile'[p].rev, ![d].half = FALSE]
            /\ UNCHANGED twists
         \/ /\ Twist
            /\ form' = [form EXCEPT ![d].rev = @ - 1, ![d].half = FALSE]
            /\ UNCHANGED profile
      /\ UNCHANGED <<now, nextRun, report, events, notices, shared, registry, task, history>>

(* start_manual_run, on a confirmed review of the saved profile. *)
StartManual(d, p) ==
  /\ task[d].pc = "idle" /\ nextRun <= MaxRuns /\ nextRun \in RunIds
  /\ nextRun' = nextRun + 1
  /\ task' = [task EXCEPT ![d] = [Idle EXCEPT !.pc = "check",
       !.job = [run |-> nextRun, profile |-> p, scopes |-> profile[p].scopes]]]
  /\ Twist
  /\ UNCHANGED <<now, profile, report, events, notices, shared, registry, form, history>>

(* Yes, Run Now and No, Not Now: a run that follows Yes is a manual run. *)
Answer(n) ==
  /\ n.decision = "pending"
  /\ notices' = (notices \ {n}) \cup {[n EXCEPT !.decision = "answered"]}
  /\ Twist
  /\ UNCHANGED <<now, profile, nextRun, report, events, shared, registry, task, form, history>>

(* Faulty variant: the report of an active run may go too. *)
DeleteAnyReport(run) ==
  /\ report' = Without(report, run)
  /\ Twist
  /\ UNCHANGED <<now, profile, nextRun, events, notices, shared, registry, task, form, history>>

(* remove_completed_report and discard_unresolved_run. *)
DeleteReport(run) ==
  /\ ReportStatus(report[run]) # "in_progress"
  /\ report' = Without(report, run)
  /\ Twist
  /\ UNCHANGED <<now, profile, nextRun, events, notices, shared, registry, task, form, history>>

MarkReviewCleared(run) ==
  /\ CanClear(report[run])
  /\ report' = [report EXCEPT ![run].cleared = TRUE]
  /\ events' = events \cup
       {Event(e.profile, run, "review_cleared") :
          e \in {e \in events : e.run = run /\ e.kind = "claimed"}}
  /\ Twist
  /\ UNCHANGED <<now, profile, nextRun, notices, shared, registry, task, form, history>>

-----------------------------------------------------------------------------
(* A process dies; with it its registry and the threads that share it. *)
Crash(w) ==
  /\ task[w].pc # "idle"
  /\ Twist
  /\ task' = [v \in Workers |-> IF v \in Sharers(w) THEN Idle ELSE task[v]]
  /\ form' = [d \in Desktops |-> IF d \in Sharers(w) THEN [form[d] EXCEPT !.half = FALSE]
                                                     ELSE form[d]]
  /\ SetRegistry(w, NoLeases)
  /\ UNCHANGED <<now, store, shared, history>>

WorkerStep(w) ==
  \/ Precheck(w) \/ BlockManual(w) \/ MarkBlocked(w) \/ Begin(w)
  \/ Work(w) \/ Reconcile(w) \/ Return(w)

SchedulerStep(s) ==
  \/ LoadDue(s) \/ Claim(s) \/ ClaimFails(s) \/ NextRun(s)
  \/ RecordOutcome(s) \/ RecordMissed(s)

DesktopStep(d) ==
  \/ \E p \in Profiles : OpenProfile(d, p) \/ StartManual(d, p)
  \/ \E scopes \in Endpoints, auth, advanced \in BOOLEAN : SaveProfile(d, scopes, auth, advanced)
  \/ \E enabled \in BOOLEAN : SaveSchedule(d, enabled)

UserStep ==
  \/ \E n \in notices : Answer(n)
  \/ \E run \in DOMAIN report : DeleteReport(run) \/ MarkReviewCleared(run)

Next ==
  \/ Tick
  \/ \E s \in Schedulers : StartPoll(s) \/ SchedulerStep(s)
  \/ \E w \in Workers : WorkerStep(w)
  \/ \E d \in Desktops : DesktopStep(d)
  \/ UserStep
  \/ \E w \in Workers : Crash(w)

Spec == Init /\ [][Next]_vars

-----------------------------------------------------------------------------
Statuses == {"blocked", "in_progress", "review_required", "review_cleared", "completed"}
Kinds == {"claimed", "completed", "failed", "pending_review", "review_cleared", "missed",
          "skipped_overlap", "blocked_preflight"}
PCs == {"idle", "claim", "txn", "check", "block", "mark", "begin", "work",
        "reconcile", "return", "event", "missed"}

BackgroundTypeOK ==
  /\ \A p \in Profiles : /\ profile[p].scopes \in Endpoints
                         /\ profile[p].next \in 0..(MaxTime + Interval)
                         /\ profile[p].next = 0 <=> ~profile[p].enabled
  /\ DOMAIN report \subseteq 1..(nextRun - 1) /\ nextRun - 1 \in RunIds \cup {0}
  /\ \A run \in DOMAIN report : ReportStatus(report[run]) \in Statuses
  /\ \A e \in events : e.kind \in Kinds /\ e.run < nextRun
  /\ \A p \in Profiles : Cardinality(PendingNotice(p)) <= 1
  /\ \A w \in Workers : /\ task[w].pc \in PCs
                        /\ task[w].result \in Statuses \cup {"none", "error", "overlap"}
                        /\ task[w].lease \in 0..registry[w].next
  /\ \A d \in Desktops : form[d].rev <= profile[form[d].profile].rev

(* Scheduler processes that poll at the same time never both claim one
   occurrence of a schedule, and a save in between does not let them
   (claim_due_schedule, ADR 0047: a poll "cannot duplicate it").           *)
OneRunPerOccurrence ==
  \A c, d \in claims : c.profile = d.profile /\ c.at = d.at => c = d

(* A scheduled run changes files only on the peers the user authorized:
   whenever the peers of a profile change the authorization is asked for
   anew, and a claim takes a profile and its authorization as they are in
   the store (update_profile_with_authorizations_if_revision,
   claim_due_schedule, validate_unattended_authorizations).                *)
MovesOnlyAuthorized ==
  \A m \in moved \cap claims : <<m.profile, m.scopes>> \in granted

(* Workflows that share one registry never run at the same time on trees
   of which one contains the other (acquire, scope_lock_registry).         *)
SharedRunsDisjoint ==
  shared => \A v, w \in Workers :
    v # w /\ task[v].lease # 0 /\ task[w].lease # 0 =>
      \A s \in Job(v).scopes, t \in Job(w).scopes : ~Overlaps(s, t)

(* While a run changes files its lease owns its peers and its report is
   there and in progress, whatever reports the user removes meanwhile
   (delete_report_metadata, report_status).                                *)
LiveRunIsKept ==
  \A w \in Workers : task[w].pc = "work" =>
    /\ Stored(Job(w).run) /\ ReportStatus(report[Job(w).run]) = "in_progress"
    /\ {h.scope : h \in {h \in registry[w].held : h.token = task[w].lease}} = Job(w).scopes

(* Every scheduled run whose execute came back with all its writes made has
   an outcome in the timeline, and one that did not run has a Missed event
   whose notice counts it and does not show an earlier occurrence as the
   latest, whatever order the processes record in (record_outcome_event,
   record_error_event, record_missed_schedule).                            *)
ScheduledRunsAccounted ==
  /\ \A s \in settled : s.complete =>
       /\ \E e \in events : e.run = s.run /\ e.kind \notin {"claimed", "missed", "review_cleared"}
       /\ s.missed => \E e \in events : e.run = s.run /\ e.kind = "missed"
  /\ \A n \in notices :
       LET missed == {e \in events : e.kind = "missed" /\ e.notice = n.id}
       IN  /\ n.count = Cardinality(missed)
           /\ \A e \in missed, c \in claims : c.run = e.run => c.at <= n.latest

(* The registry the desktop uses: its own, or everybody's. *)
ADesktop == CHOOSE d \in Desktops : TRUE

Locks ==
  INSTANCE ScopeLockRegistry WITH
    Requests <- Endpoints, Owners <- RunIds, registry <- registry[ADesktop],
    leases <- {task[v].lease : v \in Sharers(ADesktop)} \ {0}

(* Runs take and drop their leases as the registry's abstract specification
   allows: all scopes of a run or none, no lease left behind or dropped
   twice (PrecheckLease, Drop for PeerScopeLock).                          *)
LocksImplemented == Locks!Spec

-----------------------------------------------------------------------------
(* ADR 0055: "SyncPlus will enforce Peer Scope Locks across all manual,
   unattended, and scheduled runs".  The desktop and every scheduler
   process have a registry of their own.                                   *)
RunsNeverOverlap ==
  \A v, w \in Workers :
    v # w /\ task[v].lease # 0 /\ task[w].lease # 0 =>
      \A s \in Job(v).scopes, t \in Job(w).scopes : ~Overlaps(s, t)
=============================================================================
