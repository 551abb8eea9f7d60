-------------------------- MODULE BackgroundProofs --------------------------
(***************************************************************************)
(* Proofs about Background, for any number of profiles, processes, runs,   *)
(* failures and edits.                                                     *)
(*                                                                         *)
(* The argument.  TypeInv types the rows and the processes, and says that  *)
(* no two processes have the same run in hand.  What each action does to   *)
(* its process is stated once (StartPollGoes to CrashGoes) and so is what  *)
(* it leaves alone (Frames).  On these rest five invariants:               *)
(*   DueInv      a schedule is due later than all claims of it             *)
(*   AuthInv     what a process has claimed was authorized                 *)
(*   LeaseInv    a lease is of one process and owns the peers of its run   *)
(*   LiveInv     the report of a run at work is there and open             *)
(*   AccountInv  each notice counts its Missed events, and a run in hand   *)
(*               has none of its own yet                                   *)
(***************************************************************************)
EXTENDS Background, FiniteSetTheorems, TLAPS

Row == [rev : Nat, scopes : Endpoints, auth : BOOLEAN, enabled : BOOLEAN, next : Nat]
Claimed == [run : Nat \ {0}, profile : Profiles, scopes : Endpoints, auth : BOOLEAN, at : Nat]
Manual == [run : Nat \ {0}, profile : Profiles, scopes : Endpoints]
LoadedRow == [profile : Profiles, row : Row]
Results == Statuses \cup {"none", "error", "overlap"}
Report ==
  [blocked : BOOLEAN, inventory : BOOLEAN, items : {"none", "open", "done"},
   recon : {"none", "clean", "findings"}, cleared : BOOLEAN]
EventRow == [profile : Profiles, run : Nat \ {0}, kind : Kinds, notice : Nat]
Notice ==
  [id : Nat \ {0}, profile : Profiles, run : Nat \ {0}, first : Nat, latest : Nat,
   decision : {"pending", "answered"}, count : Nat]
Registry == [next : Nat, held : SUBSET [scope : UNION Endpoints, owner : Nat, token : Nat \ {0}]]
Task ==
  [pc : PCs, todo : SUBSET Profiles, at : Nat, loaded : {NoJob} \cup LoadedRow,
   queue : Seq(Claimed), job : {NoJob} \cup Manual \cup Claimed, lease : Nat, result : Results]

(* Where a process has a run, and what else goes with its step. *)
Active == {"check", "block", "mark", "begin", "work", "reconcile", "return", "event", "missed"}

TaskFits(w) ==
  /\ task[w].pc \in Active => task[w].job \in IF Scheduled(w) THEN Claimed ELSE Manual
  /\ task[w].pc = "txn" =>
       task[w].loaded \in LoadedRow /\ task[w].loaded.row.next <= task[w].at
  /\ task[w].pc \in {"claim", "txn", "event", "missed"} => Scheduled(w)
  /\ task[w].pc = "block" => ~Scheduled(w)

TaskTypes == task \in [Workers -> Task] /\ \A w \in Workers : TaskFits(w)

StoreTypes ==
  /\ now \in 0..MaxTime
  /\ profile \in [Profiles -> Row]
  /\ nextRun \in 1..(MaxRunId + 1)
  /\ report \in [DOMAIN report -> Report] /\ DOMAIN report \subseteq 1..(nextRun - 1)
  /\ events \subseteq EventRow
  /\ notices \subseteq Notice /\ IsFiniteSet(notices)
  /\ \A e \in events : e.run < nextRun
  /\ form \in [Desktops -> [profile : Profiles, rev : Int, half : BOOLEAN]]
  /\ claims \subseteq Claimed

LockTypes ==
  /\ shared \in BOOLEAN
  /\ registry \in [Workers -> Registry]

-----------------------------------------------------------------------------
(* The steps of Next, each with the process or row it is about. *)
LEMMA Steps ==
  ASSUME Next
  PROVE  \/ Tick
         \/ \E s \in Schedulers : StartPoll(s)
         \/ \E s \in Schedulers : LoadDue(s)
         \/ \E s \in Schedulers : Claim(s)
         \/ \E s \in Schedulers : ClaimFails(s)
         \/ \E s \in Schedulers : NextRun(s)
         \/ \E s \in Schedulers : RecordOutcome(s)
         \/ \E s \in Schedulers : RecordMissed(s)
         \/ \E w \in Workers : Precheck(w)
         \/ \E w \in Workers : BlockManual(w)
         \/ \E w \in Workers : MarkBlocked(w)
         \/ \E w \in Workers : Begin(w)
         \/ \E w \in Workers : Work(w)
         \/ \E w \in Workers : Reconcile(w)
         \/ \E w \in Workers : Return(w)
         \/ \E d \in Desktops, p \in Profiles : OpenProfile(d, p)
         \/ \E d \in Desktops, p \in Profiles : StartManual(d, p)
         \/ \E d \in Desktops, scopes \in Endpoints, auth \in BOOLEAN, advanced \in BOOLEAN :
              SaveProfile(d, scopes, auth, advanced)
         \/ \E d \in Desktops, enabled \in BOOLEAN : SaveSchedule(d, enabled)
         \/ \E n \in notices : Answer(n)
         \/ \E run \in DOMAIN report : DeleteReport(run)
         \/ \E run \in DOMAIN report : MarkReviewCleared(run)
         \/ \E w \in Workers : Crash(w)
<1>1. CASE Tick
  BY <1>1
<1>2. CASE \E s \in Schedulers : StartPoll(s) \/ SchedulerStep(s)
  BY <1>2 DEF SchedulerStep
<1>3. CASE \E w \in Workers : WorkerStep(w)
  BY <1>3 DEF WorkerStep
<1>4. CASE \E d \in Desktops : DesktopStep(d)
  <2>1. PICK d \in Desktops : DesktopStep(d)
    BY <1>4
  <2>2. QED
    BY <2>1 DEF DesktopStep
<1>5. CASE UserStep
  BY <1>5 DEF UserStep
<1>6. CASE \E w \in Workers : Crash(w)
  BY <1>6
<1>7. QED
  BY <1>1, <1>2, <1>3, <1>4, <1>5, <1>6 DEF Next


LEMMA NextOccurrenceLater ==
  ASSUME NEW at \in Nat, NEW time \in Nat, at <= time
  PROVE  /\ NextOccurrence(at, time) \in Nat
         /\ time < NextOccurrence(at, time)
         /\ NextOccurrence(at, time) <= time + Interval
<1>1. Interval \in Nat \ {0}
  BY BackgroundAssumption
<1> DEFINE gap == time - at
           n == gap \div Interval
<1>2. gap \in Nat
  OBVIOUS
<1>3. n \in Nat /\ Interval * n <= gap /\ gap < Interval * n + Interval
  <2> HIDE DEF gap
  <2> QED BY <1>1, <1>2, SMTT(30)
<1>4. Interval * (n + 1) = Interval * n + Interval /\ Interval * n \in Nat
  <2> HIDE DEF n
  <2> QED BY <1>1, <1>3
<1>5. NextOccurrence(at, time) = at + (Interval * n + Interval)
  BY <1>4 DEF NextOccurrence
<1> HIDE DEF n
<1>6. QED
  BY <1>1, <1>3, <1>4, <1>5

-----------------------------------------------------------------------------
(* What each step leaves alone. *)
LEMMA Frames ==
  /\ Tick =>
       UNCHANGED <<profile, nextRun, report, events, notices, shared, registry,
                  task, form, claims, granted, moved, settled>>
  /\ \A s \in Schedulers : StartPoll(s) =>
       UNCHANGED <<now, profile, nextRun, report, events, notices, shared, registry,
                  form, claims, granted, moved, settled>>
  /\ \A s \in Schedulers : LoadDue(s) =>
       UNCHANGED <<now, profile, nextRun, report, events, notices, shared, registry,
                  form, claims, granted, moved, settled>>
  /\ \A s \in Schedulers : Claim(s) =>
       UNCHANGED <<now, notices, shared, registry, form, granted, moved, settled>>
  /\ \A s \in Schedulers : ClaimFails(s) =>
       UNCHANGED <<now, profile, nextRun, report, events, notices, shared, registry,
                  form, claims, granted, moved, settled>>
  /\ \A s \in Schedulers : NextRun(s) =>
       UNCHANGED <<now, profile, nextRun, report, events, notices, shared, registry,
                  form, claims, granted, moved, settled>>
  /\ \A s \in Schedulers : RecordOutcome(s) =>
       UNCHANGED <<now, profile, nextRun, report, notices, shared, registry, form,
                  claims, granted, moved>>
  /\ \A s \in Schedulers : RecordMissed(s) =>
       UNCHANGED <<now, profile, nextRun, report, shared, registry, form, claims,
                  granted, moved>>
  /\ \A w \in Workers : Precheck(w) =>
       UNCHANGED <<now, profile, nextRun, report, events, notices, shared, form,
                  claims, granted, moved, settled>>
  /\ \A w \in Workers : BlockManual(w) =>
       UNCHANGED <<now, profile, nextRun, events, notices, shared, registry, form,
                  claims, granted, moved, settled>>
  /\ \A w \in Workers : MarkBlocked(w) =>
       UNCHANGED <<now, profile, nextRun, events, notices, shared, registry, form,
                  claims, granted, moved, settled>>
  /\ \A w \in Workers : Begin(w) =>
       UNCHANGED <<now, profile, nextRun, events, notices, shared, registry, form,
                  claims, granted, moved, settled>>
  /\ \A w \in Workers : Work(w) =>
       UNCHANGED <<now, profile, nextRun, events, notices, shared, registry, form,
                  claims, granted, settled>>
  /\ \A w \in Workers : Reconcile(w) =>
       UNCHANGED <<now, profile, nextRun, events, notices, shared, registry, form,
                  claims, granted, moved, settled>>
  /\ \A w \in Workers : Return(w) =>
       UNCHANGED <<now, profile, nextRun, report, events, notices, shared, form,
                  claims, granted, moved, settled>>
  /\ \A d \in Desktops, p \in Profiles : OpenProfile(d, p) =>
       UNCHANGED <<now, profile, nextRun, report, events, notices, shared, registry,
                  task, claims, granted, moved, settled>>
  /\ \A d \in Desktops, p \in Profiles : StartManual(d, p) =>
       UNCHANGED <<now, profile, report, events, notices, shared, registry, form,
                  claims, granted, moved, settled>>
  /\ \A d \in Desktops, scopes \in Endpoints, auth \in BOOLEAN, advanced \in BOOLEAN : SaveProfile(d, scopes, auth, advanced) =>
       UNCHANGED <<now, nextRun, report, events, notices, shared, registry, task,
                  claims, moved, settled>>
  /\ \A d \in Desktops, enabled \in BOOLEAN : SaveSchedule(d, enabled) =>
       UNCHANGED <<now, nextRun, report, events, notices, shared, registry, task,
                  claims, granted, moved, settled>>
  /\ \A n \in notices : Answer(n) =>
       UNCHANGED <<now, profile, nextRun, report, events, shared, registry, task,
                  form, claims, granted, moved, settled>>
  /\ \A run \in DOMAIN report : DeleteReport(run) =>
       UNCHANGED <<now, profile, nextRun, events, notices, shared, registry, task,
                  form, claims, granted, moved, settled>>
  /\ \A run \in DOMAIN report : MarkReviewCleared(run) =>
       UNCHANGED <<now, profile, nextRun, notices, shared, registry, task, form,
                  claims, granted, moved, settled>>
  /\ \A w \in Workers : Crash(w) =>
       UNCHANGED <<now, profile, nextRun, report, events, notices, shared, claims,
                  granted, moved, settled>>
<1>1. Tick =>
       UNCHANGED <<profile, nextRun, report, events, notices, shared, registry,
                  task, form, claims, granted, moved, settled>>
  BY DEF Tick, store, history
<1>2. \A s \in Schedulers : StartPoll(s) =>
       UNCHANGED <<now, profile, nextRun, report, events, notices, shared, registry,
                  form, claims, granted, moved, settled>>
  BY DEF StartPoll, store, history
<1>3. \A s \in Schedulers : LoadDue(s) =>
       UNCHANGED <<now, profile, nextRun, report, events, notices, shared, registry,
                  form, claims, granted, moved, settled>>
  BY DEF LoadDue, store, history
<1>4. \A s \in Schedulers : Claim(s) =>
       UNCHANGED <<now, notices, shared, registry, form, granted, moved, settled>>
  BY DEF Claim
<1>5. \A s \in Schedulers : ClaimFails(s) =>
       UNCHANGED <<now, profile, nextRun, report, events, notices, shared, registry,
                  form, claims, granted, moved, settled>>
  BY DEF ClaimFails, store, history
<1>6. \A s \in Schedulers : NextRun(s) =>
       UNCHANGED <<now, profile, nextRun, report, events, notices, shared, registry,
                  form, claims, granted, moved, settled>>
  BY DEF NextRun, store, history
<1>7. \A s \in Schedulers : RecordOutcome(s) =>
       UNCHANGED <<now, profile, nextRun, report, notices, shared, registry, form,
                  claims, granted, moved>>
  BY DEF RecordOutcome
<1>8. \A s \in Schedulers : RecordMissed(s) =>
       UNCHANGED <<now, profile, nextRun, report, shared, registry, form, claims,
                  granted, moved>>
  BY DEF RecordMissed
<1>9. \A w \in Workers : Precheck(w) =>
       UNCHANGED <<now, profile, nextRun, report, events, notices, shared, form,
                  claims, granted, moved, settled>>
  BY DEF Precheck, store, history
<1>10. \A w \in Workers : BlockManual(w) =>
       UNCHANGED <<now, profile, nextRun, events, notices, shared, registry, form,
                  claims, granted, moved, settled>>
  BY DEF BlockManual, history
<1>11. \A w \in Workers : MarkBlocked(w) =>
       UNCHANGED <<now, profile, nextRun, events, notices, shared, registry, form,
                  claims, granted, moved, settled>>
  BY DEF MarkBlocked, history
<1>12. \A w \in Workers : Begin(w) =>
       UNCHANGED <<now, profile, nextRun, events, notices, shared, registry, form,
                  claims, granted, moved, settled>>
  BY DEF Begin, history
<1>13. \A w \in Workers : Work(w) =>
       UNCHANGED <<now, profile, nextRun, events, notices, shared, registry, form,
                  claims, granted, settled>>
  BY DEF Work
<1>14. \A w \in Workers : Reconcile(w) =>
       UNCHANGED <<now, profile, nextRun, events, notices, shared, registry, form,
                  claims, granted, moved, settled>>
  BY DEF Reconcile, history
<1>15. \A w \in Workers : Return(w) =>
       UNCHANGED <<now, profile, nextRun, report, events, notices, shared, form,
                  claims, granted, moved, settled>>
  BY DEF Return, store, history
<1>16. \A d \in Desktops, p \in Profiles : OpenProfile(d, p) =>
       UNCHANGED <<now, profile, nextRun, report, events, notices, shared, registry,
                  task, claims, granted, moved, settled>>
  BY DEF OpenProfile, store, history
<1>17. \A d \in Desktops, p \in Profiles : StartManual(d, p) =>
       UNCHANGED <<now, profile, report, events, notices, shared, registry, form,
                  claims, granted, moved, settled>>
  BY DEF StartManual, history
<1>18. \A d \in Desktops, scopes \in Endpoints, auth \in BOOLEAN, advanced \in BOOLEAN : SaveProfile(d, scopes, auth, advanced) =>
       UNCHANGED <<now, nextRun, report, events, notices, shared, registry, task,
                  claims, moved, settled>>
  BY DEF SaveProfile
<1>19. \A d \in Desktops, enabled \in BOOLEAN : SaveSchedule(d, enabled) =>
       UNCHANGED <<now, nextRun, report, events, notices, shared, registry, task,
                  claims, granted, moved, settled>>
  BY DEF SaveSchedule, history
<1>20. \A n \in notices : Answer(n) =>
       UNCHANGED <<now, profile, nextRun, report, events, shared, registry, task,
                  form, claims, granted, moved, settled>>
  BY DEF Answer, history
<1>21. \A run \in DOMAIN report : DeleteReport(run) =>
       UNCHANGED <<now, profile, nextRun, events, notices, shared, registry, task,
                  form, claims, granted, moved, settled>>
  BY DEF DeleteReport, history
<1>22. \A run \in DOMAIN report : MarkReviewCleared(run) =>
       UNCHANGED <<now, profile, nextRun, notices, shared, registry, task, form,
                  claims, granted, moved, settled>>
  BY DEF MarkReviewCleared, history
<1>23. \A w \in Workers : Crash(w) =>
       UNCHANGED <<now, profile, nextRun, report, events, notices, shared, claims,
                  granted, moved, settled>>
  BY DEF Crash, store, history
<1>24. QED
  BY <1>1, <1>2, <1>3, <1>4, <1>5, <1>6, <1>7, <1>8, <1>9, <1>10, <1>11, <1>12,
     <1>13, <1>14, <1>15, <1>16, <1>17, <1>18, <1>19, <1>20, <1>21, <1>22, <1>23

(* ... and so which steps change a variable. *)
LEMMA TaskChanges ==
  ASSUME Next
  PROVE  \/ UNCHANGED task
         \/ \E s \in Schedulers : StartPoll(s)
         \/ \E s \in Schedulers : LoadDue(s)
         \/ \E s \in Schedulers : Claim(s)
         \/ \E s \in Schedulers : ClaimFails(s)
         \/ \E s \in Schedulers : NextRun(s)
         \/ \E s \in Schedulers : RecordOutcome(s)
         \/ \E s \in Schedulers : RecordMissed(s)
         \/ \E w \in Workers : Precheck(w)
         \/ \E w \in Workers : BlockManual(w)
         \/ \E w \in Workers : MarkBlocked(w)
         \/ \E w \in Workers : Begin(w)
         \/ \E w \in Workers : Work(w)
         \/ \E w \in Workers : Reconcile(w)
         \/ \E w \in Workers : Return(w)
         \/ \E d \in Desktops, p \in Profiles : StartManual(d, p)
         \/ \E w \in Workers : Crash(w)
BY Steps, Frames

LEMMA NowChanges ==
  ASSUME Next
  PROVE  \/ UNCHANGED now
         \/ Tick
BY Steps, Frames

LEMMA ProfileChanges ==
  ASSUME Next
  PROVE  \/ UNCHANGED profile
         \/ \E s \in Schedulers : Claim(s)
         \/ \E d \in Desktops, scopes \in Endpoints, auth \in BOOLEAN, advanced \in BOOLEAN : SaveProfile(d, scopes, auth, advanced)
         \/ \E d \in Desktops, enabled \in BOOLEAN : SaveSchedule(d, enabled)
BY Steps, Frames

LEMMA NextRunChanges ==
  ASSUME Next
  PROVE  \/ UNCHANGED nextRun
         \/ \E s \in Schedulers : Claim(s)
         \/ \E d \in Desktops, p \in Profiles : StartManual(d, p)
BY Steps, Frames

LEMMA ReportChanges ==
  ASSUME Next
  PROVE  \/ UNCHANGED report
         \/ \E s \in Schedulers : Claim(s)
         \/ \E w \in Workers : BlockManual(w)
         \/ \E w \in Workers : MarkBlocked(w)
         \/ \E w \in Workers : Begin(w)
         \/ \E w \in Workers : Work(w)
         \/ \E w \in Workers : Reconcile(w)
         \/ \E run \in DOMAIN report : DeleteReport(run)
         \/ \E run \in DOMAIN report : MarkReviewCleared(run)
BY Steps, Frames

LEMMA EventsChanges ==
  ASSUME Next
  PROVE  \/ UNCHANGED events
         \/ \E s \in Schedulers : Claim(s)
         \/ \E s \in Schedulers : RecordOutcome(s)
         \/ \E s \in Schedulers : RecordMissed(s)
         \/ \E run \in DOMAIN report : MarkReviewCleared(run)
BY Steps, Frames

LEMMA NoticesChanges ==
  ASSUME Next
  PROVE  \/ UNCHANGED notices
         \/ \E s \in Schedulers : RecordMissed(s)
         \/ \E n \in notices : Answer(n)
BY Steps, Frames

LEMMA RegistryChanges ==
  ASSUME Next
  PROVE  \/ UNCHANGED registry
         \/ \E w \in Workers : Precheck(w)
         \/ \E w \in Workers : Return(w)
         \/ \E w \in Workers : Crash(w)
BY Steps, Frames

LEMMA FormChanges ==
  ASSUME Next
  PROVE  \/ UNCHANGED form
         \/ \E d \in Desktops, p \in Profiles : OpenProfile(d, p)
         \/ \E d \in Desktops, scopes \in Endpoints, auth \in BOOLEAN, advanced \in BOOLEAN : SaveProfile(d, scopes, auth, advanced)
         \/ \E d \in Desktops, enabled \in BOOLEAN : SaveSchedule(d, enabled)
         \/ \E w \in Workers : Crash(w)
BY Steps, Frames

LEMMA ClaimsChanges ==
  ASSUME Next
  PROVE  \/ UNCHANGED claims
         \/ \E s \in Schedulers : Claim(s)
BY Steps, Frames

LEMMA GrantedChanges ==
  ASSUME Next
  PROVE  \/ UNCHANGED granted
         \/ \E d \in Desktops, scopes \in Endpoints, auth \in BOOLEAN, advanced \in BOOLEAN : SaveProfile(d, scopes, auth, advanced)
BY Steps, Frames

LEMMA MovedChanges ==
  ASSUME Next
  PROVE  \/ UNCHANGED moved
         \/ \E w \in Workers : Work(w)
BY Steps, Frames

LEMMA SettledChanges ==
  ASSUME Next
  PROVE  \/ UNCHANGED settled
         \/ \E s \in Schedulers : RecordOutcome(s)
         \/ \E s \in Schedulers : RecordMissed(s)
BY Steps, Frames

LEMMA SharedStays == ASSUME Next PROVE UNCHANGED shared
BY Steps, Frames
-----------------------------------------------------------------------------
(* Types of the processes. *)

Untouched(w) == \A v \in Workers \ {w} : task'[v] = task[v]

LEMMA Cast ==
  /\ Schedulers \subseteq Workers /\ Desktops \subseteq Workers
  /\ \A s \in Schedulers : Scheduled(s)
  /\ \A d \in Desktops : ~Scheduled(d)
  /\ \A w \in Workers : ~Scheduled(w) => w \in Desktops
BY BackgroundAssumption DEF Workers, Scheduled

LEMMA IdleFits ==
  /\ Idle \in Task /\ Idle.pc = "idle" /\ Idle.lease = 0 /\ Idle.queue = << >>
  /\ Idle.job = NoJob /\ Idle.at = 0 /\ NoJob.run = 0
<1>1. << >> \in Seq(Claimed)
  OBVIOUS
<1>2. QED
  BY <1>1 DEF Idle, NoJob, Task, PCs, Results

(* Enough to change the task of one process. *)
LEMMA OneTask ==
  ASSUME TaskTypes, NEW w \in Workers, task' \in [Workers -> Task], Untouched(w), TaskFits(w)'
  PROVE  TaskTypes'
<1>1. ASSUME NEW v \in Workers PROVE TaskFits(v)'
  <2>1. CASE v = w
    BY <2>1
  <2>2. CASE v # w
    <3>1. task'[v] = task[v] /\ TaskFits(v)
      BY <2>2 DEF Untouched, TaskTypes
    <3>2. QED
      BY <3>1 DEF TaskFits
  <2>3. QED
    BY <2>1, <2>2
<1>2. QED
  BY <1>1 DEF TaskTypes

(* w goes on with its run. *)
Goes(w, pc) ==
  /\ task'[w].pc = pc /\ task'[w].job = task[w].job /\ task'[w].queue = task[w].queue
  /\ task'[w].lease = task[w].lease /\ task'[w].at = task[w].at
  /\ task'[w].loaded = task[w].loaded
  /\ Untouched(w)

LEMMA GoesOn ==
  ASSUME TaskTypes, NEW w \in Workers, NEW pc \in Active \cap PCs, NEW result \in Results,
         \/ Goto(w, pc) /\ result = task[w].result
         \/ Ends(w, pc, result),
         task[w].pc \in Active, pc = "block" => ~Scheduled(w),
         pc \in {"event", "missed"} => Scheduled(w)
  PROVE  TaskTypes' /\ Goes(w, pc) /\ task'[w].result = result
<1>1. task' \in [Workers -> Task]
  BY DEF TaskTypes, Task, Goto, Ends
<1>2. Goes(w, pc) /\ task'[w].result = result
  BY DEF TaskTypes, Task, Goto, Ends, Goes, Untouched
<1>3. TaskFits(w)'
  <2>1. task'[w].job \in IF Scheduled(w) THEN Claimed ELSE Manual
    BY <1>2 DEF TaskTypes, TaskFits, Goes
  <2>2. task'[w].pc = pc /\ pc \in Active
    BY <1>2 DEF Goes
  <2>3. pc \notin {"txn", "claim"}
    BY DEF Active
  <2>4. QED
    BY <2>1, <2>2, <2>3 DEF TaskFits, Scheduled
<1>4. QED
  BY <1>1, <1>2, <1>3, OneTask DEF Goes

LEMMA StatusKnown == ASSUME NEW r PROVE ReportStatus(r) \in Statuses
BY DEF ReportStatus, Statuses

LEMMA BlockManualGoes ==
  ASSUME TaskTypes, NEW w \in Workers, BlockManual(w)
  PROVE  /\ TaskTypes' /\ task[w].pc = "block"
         /\ Goes(w, "mark") \/ Goes(w, "return")
<1>1. task[w].pc = "block" /\ task[w].result \in Results
  BY DEF BlockManual, TaskTypes, Task
<1>2. CASE Goto(w, "mark")
  BY <1>1, <1>2, GoesOn DEF Active, PCs
<1>3. CASE Ends(w, "return", "error")
  BY <1>1, <1>3, GoesOn DEF Active, PCs, Results
<1>4. QED
  BY <1>1, <1>2, <1>3 DEF BlockManual

LEMMA MarkBlockedGoes ==
  ASSUME TaskTypes, NEW w \in Workers, MarkBlocked(w)
  PROVE  TaskTypes' /\ task[w].pc = "mark" /\ Goes(w, "return")
<1>1. task[w].pc = "mark" /\ task[w].result \in Results
  BY DEF MarkBlocked, TaskTypes, Task
<1>2. CASE Goto(w, "return")
  BY <1>1, <1>2, GoesOn DEF Active, PCs
<1>3. CASE Ends(w, "return", "error")
  BY <1>1, <1>3, GoesOn DEF Active, PCs, Results
<1>4. QED
  BY <1>1, <1>2, <1>3 DEF MarkBlocked

LEMMA RefusalFits ==
  ASSUME NEW w \in Workers
  PROVE  /\ Refusal(w) \in Active \cap PCs /\ Refusal(w) \in {"mark", "block"}
         /\ Refusal(w) = "block" => ~Scheduled(w)
         /\ Refusal(w) \notin {"event", "missed"}
BY DEF Refusal, Active, PCs

LEMMA BeginGoes ==
  ASSUME TaskTypes, NEW w \in Workers, Begin(w)
  PROVE  /\ TaskTypes' /\ task[w].pc = "begin"
         /\ \/ Goes(w, "mark") /\ UNCHANGED report
            \/ Goes(w, "block") /\ UNCHANGED report
            \/ Goes(w, "return") /\ UNCHANGED report
            \/ /\ Goes(w, "work")
               /\ report' = With(report, Job(w).run,
                                 [NewReport EXCEPT !.inventory = TRUE, !.items = "open"])
               /\ Scheduled(w) => Stored(Job(w).run)
<1>1. task[w].pc = "begin" /\ task[w].result \in Results
  BY DEF Begin, TaskTypes, Task
<1>2. CASE Ends(w, Refusal(w), "error") /\ UNCHANGED report
  <2>1. TaskTypes' /\ Goes(w, Refusal(w))
    BY <1>1, <1>2, GoesOn, RefusalFits DEF Active, Results
  <2>2. QED
    BY <1>1, <1>2, <2>1, RefusalFits
<1>3. CASE Ends(w, "return", "error") /\ UNCHANGED report
  BY <1>1, <1>3, GoesOn DEF Active, PCs, Results
<1>4. CASE /\ Goto(w, "work") /\ (Scheduled(w) => Stored(Job(w).run))
           /\ report' = With(report, Job(w).run,
                             [NewReport EXCEPT !.inventory = TRUE, !.items = "open"])
  BY <1>1, <1>4, GoesOn DEF Active, PCs
<1>5. QED
  BY <1>1, <1>2, <1>3, <1>4 DEF Begin

LEMMA WorkGoes ==
  ASSUME TaskTypes, NEW w \in Workers, Work(w)
  PROVE  /\ TaskTypes' /\ task[w].pc = "work"
         /\ \/ Goes(w, "reconcile") /\ report' = [report EXCEPT ![Job(w).run].items = "done"]
            \/ (Goes(w, "mark") \/ Goes(w, "return")) /\ UNCHANGED report
<1>1. task[w].pc = "work" /\ task[w].result \in Results
  BY DEF Work, TaskTypes, Task
<1>2. CASE Goto(w, "reconcile") /\ report' = [report EXCEPT ![Job(w).run].items = "done"]
  BY <1>1, <1>2, GoesOn DEF Active, PCs
<1>3. CASE /\ Ends(w, IF Scheduled(w) THEN "mark" ELSE "return", "error")
           /\ UNCHANGED report
  BY <1>1, <1>3, GoesOn DEF Active, PCs, Results
<1>4. QED
  BY <1>1, <1>2, <1>3 DEF Work

LEMMA ReconcileGoes ==
  ASSUME TaskTypes, NEW w \in Workers, Reconcile(w)
  PROVE  /\ TaskTypes' /\ task[w].pc = "reconcile"
         /\ \/ /\ Goes(w, "return") /\ Stored(Job(w).run)
               /\ \E recon \in {"clean", "findings"} :
                    report' = [report EXCEPT ![Job(w).run].recon = recon]
            \/ (Goes(w, "mark") \/ Goes(w, "return")) /\ UNCHANGED report
<1>1. task[w].pc = "reconcile" /\ task[w].result \in Results
  BY DEF Reconcile, TaskTypes, Task
<1>2. CASE /\ Stored(Job(w).run)
           /\ \E recon \in {"clean", "findings"} :
                /\ report' = [report EXCEPT ![Job(w).run].recon = recon]
                /\ Ends(w, "return", ReportStatus(report'[Job(w).run]))
  <2>1. PICK recon \in {"clean", "findings"} :
           /\ report' = [report EXCEPT ![Job(w).run].recon = recon]
           /\ Ends(w, "return", ReportStatus(report'[Job(w).run]))
    BY <1>2
  <2>2. ReportStatus(report'[Job(w).run]) \in Results
    BY StatusKnown DEF Results
  <2>3. TaskTypes' /\ Goes(w, "return")
    BY <1>1, <2>1, <2>2, GoesOn DEF Active, PCs
  <2>4. QED
    BY <1>1, <1>2, <2>1, <2>3
<1>3. CASE Ends(w, "return", "error") /\ UNCHANGED report
  BY <1>1, <1>3, GoesOn DEF Active, PCs, Results
<1>4. CASE /\ UNCHANGED report
           /\ Ends(w, IF Scheduled(w) /\ ReportStatus(report[Job(w).run]) = "in_progress"
                         THEN "mark" ELSE "return", "error")
  BY <1>1, <1>4, GoesOn DEF Active, PCs, Results
<1>5. QED
  BY <1>1, <1>2, <1>3, <1>4 DEF Reconcile

(* The lease w asks for. *)
Locked(w) == registry[w].next + 1

LEMMA PrecheckGoes ==
  ASSUME TaskTypes, LockTypes, NEW w \in Workers, Precheck(w)
  PROVE  /\ TaskTypes' /\ task[w].pc = "check" /\ Untouched(w)
         /\ \/ (Goes(w, "mark") \/ Goes(w, "block")) /\ UNCHANGED registry
            \/ /\ ~Refused(registry[w], Job(w).scopes)
               /\ SetRegistry(w, Grant(registry[w], Job(w).run, Job(w).scopes))
               /\ task'[w].pc = "begin" /\ task'[w].job = task[w].job
               /\ task'[w].queue = task[w].queue /\ task'[w].at = task[w].at
               /\ task'[w].lease = Locked(w)
<1>1. task[w].pc = "check" /\ task[w] \in Task /\ TaskFits(w) /\ task \in [Workers -> Task]
  BY DEF Precheck, TaskTypes
<1>2. ASSUME NEW result \in {"error", "overlap"}, Ends(w, Refusal(w), result)
      PROVE  TaskTypes' /\ (Goes(w, "mark") \/ Goes(w, "block"))
  <2>1. TaskTypes' /\ Goes(w, Refusal(w))
    BY <1>1, <1>2, GoesOn, RefusalFits DEF Active, Results
  <2>2. QED
    BY <2>1, RefusalFits
<1>3. CASE (Ends(w, Refusal(w), "error") \/ Ends(w, Refusal(w), "overlap")) /\ UNCHANGED registry
  BY <1>1, <1>2, <1>3 DEF Goes
<1>4. CASE /\ ~Refused(registry[w], Job(w).scopes)
           /\ SetRegistry(w, Grant(registry[w], Job(w).run, Job(w).scopes))
           /\ task' = [task EXCEPT ![w].pc = "begin", ![w].lease = registry[w].next + 1]
  <2>1. Locked(w) \in Nat /\ "begin" \in PCs
    BY DEF LockTypes, Registry, Locked, PCs
  <2>2. task' = [task EXCEPT ![w].pc = "begin", ![w].lease = Locked(w)]
    BY <1>4 DEF Locked
  <2>3. task' \in [Workers -> Task]
    BY <2>1, <2>2 DEF TaskTypes, Task
  <2>4. /\ task'[w].pc = "begin" /\ task'[w].job = task[w].job
        /\ task'[w].queue = task[w].queue /\ task'[w].at = task[w].at
        /\ task'[w].lease = Locked(w) /\ Untouched(w)
    BY <2>1, <2>2 DEF TaskTypes, Task, Untouched
  <2>5. TaskFits(w)'
    BY <1>1, <2>4 DEF TaskFits, Active, Scheduled
  <2>6. TaskTypes'
    BY <2>3, <2>4, <2>5, OneTask
  <2>7. QED
    BY <1>1, <1>4, <2>4, <2>6
<1>5. QED
  BY <1>3, <1>4 DEF Precheck

(* A process that has nothing in hand. *)
LEMMA GoesIdle ==
  ASSUME TaskTypes, NEW w \in Workers, task' = [task EXCEPT ![w] = Idle]
  PROVE  TaskTypes' /\ Untouched(w) /\ task'[w] = Idle
<1>1. task'[w] = Idle /\ Untouched(w)
  BY DEF TaskTypes, Untouched
<1>2. TaskFits(w)'
  BY <1>1, IdleFits DEF TaskFits, Active
<1>3. task' \in [Workers -> Task]
  BY IdleFits DEF TaskTypes
<1>4. QED
  BY <1>1, <1>2, <1>3, OneTask

LEMMA ReturnGoes ==
  ASSUME TaskTypes, NEW w \in Workers, Return(w)
  PROVE  /\ TaskTypes' /\ task[w].pc = "return" /\ Untouched(w)
         /\ \/ /\ task'[w].pc = "event" /\ task'[w].job = task[w].job /\ Scheduled(w)
               /\ task'[w].queue = task[w].queue /\ task'[w].at = task[w].at
               /\ task'[w].lease = 0
            \/ task'[w] = Idle
         /\ IF task[w].lease = 0 THEN UNCHANGED registry
            ELSE SetRegistry(w, GiveBack(registry[w], task[w].lease))
<1>1. task[w].pc = "return" /\ task[w] \in Task /\ TaskFits(w) /\ task \in [Workers -> Task]
  BY DEF Return, TaskTypes
<1>2. CASE ~Scheduled(w)
  <2>1. task' = [task EXCEPT ![w] = Idle]
    BY <1>2 DEF Return
  <2>2. QED
    BY <1>1, <2>1, GoesIdle DEF Return
<1>3. CASE Scheduled(w)
  <2>1. "event" \in PCs
    BY DEF PCs
  <2>2. task' = [task EXCEPT ![w] = [task[w] EXCEPT !.pc = "event", !.lease = 0]]
    BY <1>3 DEF Return
  <2>3. [task[w] EXCEPT !.pc = "event", !.lease = 0] \in Task
    BY <1>1, <2>1 DEF Task
  <2>4. /\ task'[w].pc = "event" /\ task'[w].job = task[w].job
        /\ task'[w].queue = task[w].queue /\ task'[w].at = task[w].at
        /\ task'[w].lease = 0
    <3>1. task'[w] = [task[w] EXCEPT !.pc = "event", !.lease = 0]
      BY <1>1, <2>2
    <3>2. QED
      BY <1>1, <3>1 DEF Task
  <2>5. TaskFits(w)'
    BY <1>1, <1>3, <2>4 DEF TaskFits, Active, Scheduled
  <2>6. TaskTypes' /\ Untouched(w)
    <3>1. task' \in [Workers -> Task] /\ Untouched(w)
      BY <1>1, <2>2, <2>3 DEF Untouched
    <3>2. QED
      BY <2>5, <3>1, OneTask
  <2>7. QED
    BY <1>1, <1>3, <2>4, <2>6 DEF Return
<1>4. QED
  BY <1>2, <1>3

(* The run of s is settled, and s turns to the next. *)
LEMMA SettlesGoes ==
  ASSUME TaskTypes, NEW s \in Schedulers, task[s].pc \in {"event", "missed"},
         NEW missed, NEW complete, Settles(s, missed, complete)
  PROVE  /\ TaskTypes' /\ Untouched(s)
         /\ task'[s].pc = "claim" /\ task'[s].job = NoJob
         /\ task'[s].queue = task[s].queue /\ task'[s].at = task[s].at
         /\ task'[s].lease = task[s].lease
<1>1. s \in Workers /\ task[s] \in Task /\ TaskFits(s) /\ task \in [Workers -> Task]
  BY Cast DEF TaskTypes
<1>2. task' = [task EXCEPT ![s].pc = "claim", ![s].job = NoJob, ![s].result = "none"]
  BY DEF Settles
<1>3. "claim" \in PCs /\ "none" \in Results
  BY DEF PCs, Results
<1>4. task' \in [Workers -> Task]
  BY <1>2, <1>3 DEF TaskTypes, Task
<1>5. /\ task'[s].pc = "claim" /\ task'[s].job = NoJob
      /\ task'[s].queue = task[s].queue /\ task'[s].at = task[s].at
      /\ task'[s].lease = task[s].lease /\ Untouched(s)
  BY <1>1, <1>2, <1>3 DEF Task, Untouched
<1>6. TaskFits(s)'
  BY <1>1, <1>5, Cast DEF TaskFits, Active, Scheduled
<1>7. QED
  BY <1>1, <1>4, <1>5, <1>6, OneTask

LEMMA RecordOutcomeGoes ==
  ASSUME TaskTypes, NEW s \in Schedulers, RecordOutcome(s)
  PROVE  /\ TaskTypes' /\ task[s].pc = "event" /\ Untouched(s)
         /\ \/ Goes(s, "missed") /\ UNCHANGED settled
            \/ /\ task'[s].pc = "claim" /\ task'[s].job = NoJob
               /\ task'[s].queue = task[s].queue /\ task'[s].at = task[s].at
               /\ task'[s].lease = task[s].lease
<1>1. /\ task[s].pc = "event" /\ s \in Workers /\ task[s] \in Task
      /\ task[s].result \in Results
  BY Cast DEF RecordOutcome, TaskTypes, Task
<1>2. CASE Goto(s, "missed") /\ UNCHANGED settled
  <2>1. TaskTypes' /\ Goes(s, "missed")
    BY <1>1, <1>2, GoesOn, Cast DEF Active, PCs
  <2>2. QED
    BY <1>1, <1>2, <2>1 DEF Goes
<1>3. CASE \E missed, complete \in BOOLEAN : Settles(s, missed, complete)
  BY <1>1, <1>3, SettlesGoes
<1>4. CASE Settles(s, FALSE, TRUE)
  BY <1>3, <1>4
<1>5. CASE Settles(s, ~Succeeded(task[s].result), FALSE)
  BY <1>3, <1>5
<1>6. QED
  BY <1>2, <1>4, <1>5 DEF RecordOutcome

LEMMA RecordMissedGoes ==
  ASSUME TaskTypes, NEW s \in Schedulers, RecordMissed(s)
  PROVE  /\ TaskTypes' /\ task[s].pc = "missed" /\ Untouched(s)
         /\ task'[s].pc = "claim" /\ task'[s].job = NoJob
         /\ task'[s].queue = task[s].queue /\ task'[s].at = task[s].at
         /\ task'[s].lease = task[s].lease
<1>1. task[s].pc = "missed"
  BY DEF RecordMissed
<1>2. Settles(s, TRUE, TRUE) \/ Settles(s, TRUE, FALSE)
  BY DEF RecordMissed
<1>3. QED
  BY <1>1, <1>2, SettlesGoes

LEMMA StartPollGoes ==
  ASSUME TaskTypes, StoreTypes, NEW s \in Schedulers, StartPoll(s)
  PROVE  /\ TaskTypes' /\ task[s].pc = "idle" /\ Untouched(s)
         /\ task'[s].pc = "claim" /\ task'[s].at = now /\ task'[s].lease = 0
         /\ task'[s].job = NoJob /\ task'[s].queue = << >>
<1>1. s \in Workers /\ now \in Nat /\ "claim" \in PCs /\ task \in [Workers -> Task]
  BY Cast, BackgroundAssumption DEF StoreTypes, PCs, TaskTypes
<1> DEFINE todo == {p \in Profiles : profile[p].enabled}
           t == [Idle EXCEPT !.pc = "claim", !.at = now, !.todo = todo]
<1>2. todo \in SUBSET Profiles
  OBVIOUS
<1>3. task' = [task EXCEPT ![s] = t]
  BY DEF StartPoll
<1>4. /\ t \in Task /\ t.pc = "claim" /\ t.at = now
      /\ t.lease = Idle.lease /\ t.job = Idle.job /\ t.queue = Idle.queue
  <2> HIDE DEF todo
  <2>1. QED
    BY <1>1, <1>2, IdleFits DEF Task
<1> HIDE DEF t, todo
<1>5. task'[s] = t /\ task' \in [Workers -> Task] /\ Untouched(s)
  BY <1>1, <1>3, <1>4 DEF Untouched
<1>6. TaskFits(s)'
  BY <1>4, <1>5, Cast DEF TaskFits, Active, Scheduled
<1>7. QED
  BY <1>1, <1>4, <1>5, <1>6, OneTask, IdleFits DEF StartPoll

LEMMA LoadDueGoes ==
  ASSUME TaskTypes, StoreTypes, NEW s \in Schedulers, LoadDue(s)
  PROVE  /\ TaskTypes' /\ task[s].pc = "claim" /\ Untouched(s)
         /\ task'[s].at = task[s].at /\ task'[s].lease = task[s].lease
         /\ task'[s].job = task[s].job /\ task'[s].queue = task[s].queue
         /\ \/ task'[s].pc = "claim"
            \/ \E p \in Profiles : /\ task'[s].pc = "txn" /\ Due(p, task[s].at)
                                   /\ task'[s].loaded = [profile |-> p, row |-> profile[p]]
<1>1. /\ s \in Workers /\ "claim" \in PCs /\ "txn" \in PCs /\ task \in [Workers -> Task]
      /\ task[s].pc = "claim"
  BY Cast DEF PCs, TaskTypes, LoadDue
<1> DEFINE loaded(p) == IF Due(p, task[s].at) THEN [profile |-> p, row |-> profile[p]] ELSE NoJob
           pc(p) == IF Due(p, task[s].at) THEN "txn" ELSE "claim"
<1>2. PICK p \in task[s].todo :
        task' = [task EXCEPT ![s].todo = task[s].todo \ {p}, ![s].pc = pc(p), ![s].loaded = loaded(p)]
  BY DEF LoadDue
<1>3. p \in Profiles /\ task[s].todo \ {p} \in SUBSET Profiles
  BY <1>1 DEF Task
<1>4. [profile |-> p, row |-> profile[p]] \in LoadedRow
  BY <1>3 DEF StoreTypes, LoadedRow
<1>5. loaded(p) \in {NoJob} \cup LoadedRow /\ pc(p) \in PCs
  BY <1>1, <1>4
<1>6. pc(p) = "txn" => loaded(p) \in LoadedRow /\ loaded(p).row.next <= task[s].at
  BY <1>4 DEF Due
<1>7. pc(p) = "claim" \/ (pc(p) = "txn" /\ Due(p, task[s].at) /\ loaded(p) = [profile |-> p, row |-> profile[p]])
  OBVIOUS
<1> HIDE DEF loaded, pc
<1>8. task' \in [Workers -> Task]
  BY <1>1, <1>2, <1>3, <1>5 DEF Task
<1>9. /\ task'[s].at = task[s].at /\ task'[s].lease = task[s].lease
      /\ task'[s].job = task[s].job /\ task'[s].queue = task[s].queue
      /\ task'[s].pc = pc(p) /\ task'[s].loaded = loaded(p) /\ Untouched(s)
  BY <1>1, <1>2 DEF Task, Untouched
<1>10. TaskFits(s)'
  BY <1>6, <1>7, <1>9, Cast DEF TaskFits, Active, Scheduled
<1>11. TaskTypes'
  BY <1>1, <1>8, <1>9, <1>10, OneTask
<1>12. QED
  BY <1>1, <1>3, <1>7, <1>9, <1>11

(* What Claim puts into the store, the queue and claims. *)
Occurrence(s) ==
  [run |-> nextRun, profile |-> task[s].loaded.profile, scopes |-> task[s].loaded.row.scopes,
   auth |-> task[s].loaded.row.auth, at |-> task[s].loaded.row.next]

Claims(s) ==
  /\ StillDue(task[s].loaded.row, profile[task[s].loaded.profile])
  /\ profile' = [profile EXCEPT ![task[s].loaded.profile].next =
                   NextOccurrence(task[s].loaded.row.next, task[s].at)]
  /\ nextRun' = nextRun + 1
  /\ report' = With(report, nextRun, NewReport)
  /\ events' = events \cup {Event(task[s].loaded.profile, nextRun, "claimed")}
  /\ claims' = claims \cup {Occurrence(s)}
  /\ task'[s].queue = Append(task[s].queue, Occurrence(s))

ClaimsNothing(s) ==
  /\ nextRun' \in {nextRun, nextRun + 1}
  /\ task'[s].queue = task[s].queue
  /\ UNCHANGED <<profile, report, events, claims>>

LEMMA ClaimGoes ==
  ASSUME TaskTypes, StoreTypes, NEW s \in Schedulers, Claim(s)
  PROVE  /\ TaskTypes' /\ task[s].pc = "txn" /\ Untouched(s)
         /\ task'[s].pc = "claim" /\ task'[s].at = task[s].at /\ task'[s].lease = task[s].lease
         /\ task'[s].job = task[s].job
         /\ task[s].loaded \in LoadedRow /\ task[s].loaded.row.next <= task[s].at
         /\ Occurrence(s) \in Claimed
         /\ Claims(s) \/ ClaimsNothing(s)
<1>1. /\ s \in Workers /\ task[s].pc = "txn" /\ task \in [Workers -> Task] /\ task[s] \in Task
      /\ task[s].loaded \in LoadedRow /\ task[s].loaded.row.next <= task[s].at
      /\ "claim" \in PCs
  BY Cast DEF Claim, TaskTypes, TaskFits, PCs
<1>2. /\ task[s].loaded.profile \in Profiles /\ task[s].loaded.row \in Row
      /\ nextRun \in Nat \ {0}
  BY <1>1 DEF LoadedRow, StoreTypes
<1>3. Occurrence(s) \in Claimed
  BY <1>2 DEF Occurrence, Claimed, Row
<1>4. CASE StillDue(task[s].loaded.row, profile[task[s].loaded.profile])
  <2>1. /\ profile' = [profile EXCEPT ![task[s].loaded.profile].next =
                         NextOccurrence(task[s].loaded.row.next, task[s].at)]
        /\ nextRun' = nextRun + 1
        /\ report' = With(report, nextRun, NewReport)
        /\ events' = events \cup {Event(task[s].loaded.profile, nextRun, "claimed")}
        /\ claims' = claims \cup {Occurrence(s)}
        /\ task' = [task EXCEPT ![s].pc = "claim", ![s].loaded = NoJob,
                                ![s].queue = Append(task[s].queue, Occurrence(s))]
    BY <1>4 DEF Claim, Occurrence
  <2>2. Append(task[s].queue, Occurrence(s)) \in Seq(Claimed)
    BY <1>1, <1>3 DEF Task
  <2>3. task' \in [Workers -> Task]
    BY <1>1, <2>1, <2>2 DEF Task
  <2>4. /\ task'[s].pc = "claim" /\ task'[s].at = task[s].at /\ task'[s].lease = task[s].lease
        /\ task'[s].job = task[s].job
        /\ task'[s].queue = Append(task[s].queue, Occurrence(s)) /\ Untouched(s)
    BY <1>1, <2>1 DEF Task, Untouched
  <2>5. TaskFits(s)'
    BY <2>4, Cast DEF TaskFits, Active, Scheduled
  <2>6. TaskTypes'
    BY <1>1, <2>3, <2>4, <2>5, OneTask
  <2>7. Claims(s)
    BY <1>4, <2>1, <2>4 DEF Claims
  <2>8. QED
    BY <1>1, <1>3, <2>4, <2>6, <2>7
<1>5. CASE ~StillDue(task[s].loaded.row, profile[task[s].loaded.profile])
  <2>1. /\ nextRun' \in {nextRun, nextRun + 1}
        /\ task' = [task EXCEPT ![s].pc = "claim", ![s].loaded = NoJob]
        /\ UNCHANGED <<profile, report, events, claims>>
    BY <1>5 DEF Claim
  <2>2. task' \in [Workers -> Task]
    BY <1>1, <2>1 DEF Task
  <2>3. /\ task'[s].pc = "claim" /\ task'[s].at = task[s].at /\ task'[s].lease = task[s].lease
        /\ task'[s].job = task[s].job
        /\ task'[s].queue = task[s].queue /\ Untouched(s)
    BY <1>1, <2>1 DEF Task, Untouched
  <2>4. TaskFits(s)'
    BY <2>3, Cast DEF TaskFits, Active, Scheduled
  <2>5. TaskTypes'
    BY <1>1, <2>2, <2>3, <2>4, OneTask
  <2>6. ClaimsNothing(s)
    BY <2>1, <2>3 DEF ClaimsNothing
  <2>7. QED
    BY <1>1, <1>3, <2>3, <2>5, <2>6
<1>6. QED
  BY <1>4, <1>5

LEMMA ClaimFailsGoes ==
  ASSUME TaskTypes, NEW s \in Schedulers, ClaimFails(s)
  PROVE  TaskTypes' /\ task[s].pc = "txn" /\ Untouched(s) /\ task'[s] = Idle
BY GoesIdle, Cast DEF ClaimFails

LEMMA NextRunGoes ==
  ASSUME TaskTypes, NEW s \in Schedulers, NextRun(s)
  PROVE  /\ TaskTypes' /\ task[s].pc = "claim" /\ Untouched(s)
         /\ \/ task'[s] = Idle
            \/ /\ task[s].queue # << >>
               /\ task'[s].job = Head(task[s].queue) /\ task'[s].queue = Tail(task[s].queue)
               /\ task'[s].lease = task[s].lease /\ task'[s].at = task[s].at
               /\ \/ task'[s].pc = "check" /\ task'[s].job.auth
                  \/ task'[s].pc = "mark"
<1>1. /\ s \in Workers /\ task[s].pc = "claim" /\ task \in [Workers -> Task] /\ task[s] \in Task
      /\ task[s].queue \in Seq(Claimed)
  BY Cast DEF NextRun, TaskTypes, Task
<1>2. CASE task[s].queue = << >>
  <2>1. task' = [task EXCEPT ![s] = Idle]
    BY <1>2 DEF NextRun
  <2>2. QED
    BY <1>1, <2>1, GoesIdle
<1>3. CASE task[s].queue # << >>
  <2> DEFINE job == Head(task[s].queue)
             queue == Tail(task[s].queue)
             result == IF job.auth THEN "none" ELSE "error"
             pc == IF job.auth THEN "check" ELSE "mark"
             t == [task[s] EXCEPT !.job = job, !.queue = queue, !.result = result, !.pc = pc]
  <2>1. task' = [task EXCEPT ![s] = t]
    BY <1>3 DEF NextRun
  <2>2. job \in Claimed /\ queue \in Seq(Claimed)
    BY <1>1, <1>3
  <2>3. result \in Results /\ pc \in PCs /\ pc \in Active /\ pc \notin {"txn", "block"}
    BY DEF Results, PCs, Active
  <2>4. (pc = "check" /\ job.auth) \/ pc = "mark"
    OBVIOUS
  <2> HIDE DEF job, queue, result, pc
  <2>5. /\ t \in Task /\ t.job = job /\ t.queue = queue /\ t.pc = pc
        /\ t.lease = task[s].lease /\ t.at = task[s].at
    BY <1>1, <2>2, <2>3 DEF Task
  <2> HIDE DEF t
  <2>6. task'[s] = t /\ task' \in [Workers -> Task] /\ Untouched(s)
    BY <1>1, <2>1, <2>5 DEF Untouched
  <2>7. TaskFits(s)'
    BY <2>2, <2>3, <2>5, <2>6, Cast DEF TaskFits, Scheduled
  <2>8. TaskTypes'
    BY <1>1, <2>6, <2>7, OneTask
  <2>9. QED
    BY <1>1, <1>3, <2>4, <2>5, <2>6, <2>8 DEF job, queue
<1>4. QED
  BY <1>2, <1>3

LEMMA StartManualGoes ==
  ASSUME TaskTypes, StoreTypes, NEW d \in Desktops, NEW p \in Profiles, StartManual(d, p)
  PROVE  /\ TaskTypes' /\ task[d].pc = "idle" /\ Untouched(d)
         /\ task'[d].pc = "check" /\ task'[d].lease = 0 /\ task'[d].queue = << >>
         /\ task'[d].at = 0
         /\ task'[d].job \in Manual /\ task'[d].job.run = nextRun
         /\ nextRun' = nextRun + 1 /\ nextRun \in RunIds
<1>1. d \in Workers /\ "check" \in PCs /\ task \in [Workers -> Task] /\ task[d].pc = "idle"
  BY Cast DEF PCs, TaskTypes, StartManual
<1> DEFINE job == [run |-> nextRun, profile |-> p, scopes |-> profile[p].scopes]
           t == [Idle EXCEPT !.pc = "check", !.job = job]
<1>2. job \in Manual /\ job.run = nextRun
  BY DEF Manual, StoreTypes, Row
<1>3. task' = [task EXCEPT ![d] = t] /\ nextRun' = nextRun + 1 /\ nextRun \in RunIds
  BY DEF StartManual
<1> HIDE DEF job
<1>4. /\ t \in Task /\ t.pc = "check" /\ t.job = job /\ t.lease = Idle.lease
      /\ t.queue = Idle.queue /\ t.at = Idle.at
  BY <1>1, <1>2, IdleFits DEF Task
<1> HIDE DEF t
<1>5. task'[d] = t /\ task' \in [Workers -> Task] /\ Untouched(d)
  BY <1>1, <1>3, <1>4 DEF Untouched
<1>6. TaskFits(d)'
  BY <1>2, <1>4, <1>5, Cast DEF TaskFits, Scheduled
<1>7. TaskTypes'
  BY <1>1, <1>5, <1>6, OneTask
<1>8. QED
  BY <1>1, <1>2, <1>3, <1>4, <1>5, <1>7, IdleFits

LEMMA CrashGoes ==
  ASSUME TaskTypes, NEW w \in Workers, Crash(w)
  PROVE  /\ TaskTypes'
         /\ \A v \in Workers : task'[v] = IF v \in Sharers(w) THEN Idle ELSE task[v]
<1>1. task' = [v \in Workers |-> IF v \in Sharers(w) THEN Idle ELSE task[v]]
  BY DEF Crash
<1>2. task' \in [Workers -> Task]
  BY <1>1, IdleFits DEF TaskTypes
<1>3. ASSUME NEW v \in Workers PROVE TaskFits(v)'
  <2>1. CASE v \in Sharers(w)
    <3>1. task'[v] = Idle
      BY <1>1, <2>1
    <3>2. QED
      BY <3>1, IdleFits DEF TaskFits, Active
  <2>2. CASE v \notin Sharers(w)
    <3>1. task'[v] = task[v] /\ TaskFits(v)
      BY <1>1, <2>2 DEF TaskTypes
    <3>2. QED
      BY <3>1 DEF TaskFits
  <2>3. QED
    BY <2>1, <2>2
<1>4. QED
  BY <1>1, <1>2, <1>3 DEF TaskTypes

LEMMA TaskTypesStep ==
  ASSUME TaskTypes, StoreTypes, LockTypes, Next
  PROVE  TaskTypes'
<1>1. ASSUME UNCHANGED task PROVE TaskTypes'
  BY <1>1 DEF TaskTypes, TaskFits, Scheduled
<1>2. CASE \E s \in Schedulers : \/ StartPoll(s) \/ LoadDue(s) \/ Claim(s) \/ ClaimFails(s)
                                 \/ NextRun(s) \/ RecordOutcome(s) \/ RecordMissed(s)
  BY <1>2, StartPollGoes, LoadDueGoes, ClaimGoes, ClaimFailsGoes, NextRunGoes,
     RecordOutcomeGoes, RecordMissedGoes
<1>3. CASE \E w \in Workers : \/ Precheck(w) \/ BlockManual(w) \/ MarkBlocked(w) \/ Begin(w)
                              \/ Work(w) \/ Reconcile(w) \/ Return(w) \/ Crash(w)
  BY <1>3, PrecheckGoes, BlockManualGoes, MarkBlockedGoes, BeginGoes, WorkGoes,
     ReconcileGoes, ReturnGoes, CrashGoes
<1>4. CASE \E d \in Desktops, p \in Profiles : StartManual(d, p)
  BY <1>4, StartManualGoes
<1>5. QED
  BY <1>1, <1>2, <1>3, <1>4, TaskChanges

-----------------------------------------------------------------------------
(* Run identifiers: handed out once, and each in the hands of one process. *)

Owned(w) == {task[w].job.run} \cup {task[w].queue[i].run : i \in DOMAIN task[w].queue}

RunsIssued == \A w \in Workers : \A run \in Owned(w) : run < nextRun

RunsApart ==
  \A v, w \in Workers : v # w => \A run \in Owned(v) \cap Owned(w) : run = 0

(* Nobody gets a run, or one process gets a new one. *)
OwnsNoMore(w) == Owned(w)' \subseteq Owned(w) \cup {0}

OwnersStep ==
  \/ (\A w \in Workers : OwnsNoMore(w)) /\ nextRun' \in {nextRun, nextRun + 1}
  \/ \E w \in Workers :
       /\ nextRun' = nextRun + 1
       /\ Owned(w)' \subseteq Owned(w) \cup {0, nextRun}
       /\ \A v \in Workers \ {w} : OwnsNoMore(v)

LEMMA SameHands ==
  ASSUME NEW w \in Workers, task'[w].job = task[w].job, task'[w].queue = task[w].queue
  PROVE  Owned(w)' = Owned(w)
BY DEF Owned

LEMMA EmptyHands ==
  ASSUME NEW w \in Workers, task'[w] = Idle
  PROVE  Owned(w)' = {0}
BY IdleFits DEF Owned

LEMMA OthersOwn ==
  ASSUME NEW w \in Workers, Untouched(w), OwnsNoMore(w), nextRun' \in {nextRun, nextRun + 1}
  PROVE  OwnersStep
<1>1. ASSUME NEW v \in Workers \ {w} PROVE OwnsNoMore(v)
  <2>1. task'[v] = task[v]
    BY DEF Untouched
  <2>2. QED
    BY <2>1, SameHands DEF OwnsNoMore
<1>2. QED
  BY <1>1 DEF OwnersStep

LEMMA OneOwnsMore ==
  ASSUME NEW w \in Workers, Untouched(w), nextRun' = nextRun + 1,
         Owned(w)' \subseteq Owned(w) \cup {0, nextRun}
  PROVE  OwnersStep
<1>1. ASSUME NEW v \in Workers \ {w} PROVE OwnsNoMore(v)
  <2>1. task'[v] = task[v]
    BY DEF Untouched
  <2>2. QED
    BY <2>1, SameHands DEF OwnsNoMore
<1>2. QED
  BY <1>1 DEF OwnersStep

(* The queue takes a run at its end and gives one from its front. *)
LEMMA QueueTakes ==
  ASSUME TaskTypes, NEW s \in Workers, NEW c \in Claimed, task'[s].job = task[s].job,
         task'[s].queue = Append(task[s].queue, c)
  PROVE  Owned(s)' \subseteq Owned(s) \cup {c.run}
<1>1. task[s].queue \in Seq(Claimed)
  BY DEF TaskTypes, Task
<1>2. ASSUME NEW i \in DOMAIN task'[s].queue
      PROVE  task'[s].queue[i].run \in Owned(s) \cup {c.run}
  <2>1. DOMAIN task'[s].queue = 1..(Len(task[s].queue) + 1)
    BY <1>1
  <2>2. CASE i = Len(task[s].queue) + 1
    BY <1>1, <2>2
  <2>3. CASE i # Len(task[s].queue) + 1
    <3>1. i \in DOMAIN task[s].queue /\ task'[s].queue[i] = task[s].queue[i]
      BY <1>1, <2>1, <2>3
    <3>2. QED
      BY <3>1 DEF Owned
  <2>4. QED
    BY <2>2, <2>3
<1>3. QED
  BY <1>2 DEF Owned

LEMMA QueueGives ==
  ASSUME TaskTypes, NEW s \in Workers, task[s].queue # << >>,
         task'[s].job = Head(task[s].queue), task'[s].queue = Tail(task[s].queue)
  PROVE  Owned(s)' \subseteq Owned(s)
<1>1. task[s].queue \in Seq(Claimed)
  BY DEF TaskTypes, Task
<1>2. task'[s].job.run \in Owned(s)
  <2>1. 1 \in DOMAIN task[s].queue /\ task'[s].job = task[s].queue[1]
    BY <1>1
  <2>2. QED
    BY <2>1 DEF Owned
<1>3. ASSUME NEW i \in DOMAIN task'[s].queue
      PROVE  task'[s].queue[i].run \in Owned(s)
  <2>1. /\ i + 1 \in DOMAIN task[s].queue
        /\ task'[s].queue[i] = task[s].queue[i + 1]
    BY <1>1
  <2>2. QED
    BY <2>1 DEF Owned
<1>4. QED
  BY <1>2, <1>3 DEF Owned

LEMMA HandsStep ==
  ASSUME TaskTypes, StoreTypes, LockTypes, Next
  PROVE  OwnersStep
<1>1. ASSUME UNCHANGED <<task, nextRun>> PROVE OwnersStep
  <2>1. \A w \in Workers : Owned(w)' = Owned(w)
    BY <1>1 DEF Owned
  <2>2. QED
    BY <1>1, <2>1 DEF OwnersStep, OwnsNoMore
<1>2. ASSUME NEW w \in Workers, Untouched(w), UNCHANGED nextRun,
             task'[w].job = task[w].job, task'[w].queue = task[w].queue
      PROVE  OwnersStep
  BY <1>2, OthersOwn, SameHands DEF OwnsNoMore
<1>3. ASSUME NEW w \in Workers, Untouched(w), UNCHANGED nextRun,
             task'[w].job = NoJob, task'[w].queue = task[w].queue
      PROVE  OwnersStep
  <2>1. Owned(w)' \subseteq Owned(w) \cup {0}
    BY <1>3, IdleFits DEF Owned
  <2>2. QED
    BY <1>3, <2>1, OthersOwn DEF OwnsNoMore
<1>4. ASSUME NEW w \in Workers, Untouched(w), UNCHANGED nextRun, task'[w] = Idle
      PROVE  OwnersStep
  <2>1. Owned(w)' \subseteq Owned(w) \cup {0}
    BY <1>4, EmptyHands
  <2>2. QED
    BY <1>4, <2>1, OthersOwn DEF OwnsNoMore
<1>5. ASSUME NEW s \in Schedulers, StartPoll(s) PROVE OwnersStep
  <2>1. /\ Untouched(s) /\ task'[s].job = NoJob /\ task'[s].queue = << >> /\ UNCHANGED nextRun
        /\ s \in Workers
    BY <1>5, StartPollGoes, Cast DEF StartPoll, store
  <2>2. Owned(s)' \subseteq Owned(s) \cup {0}
    BY <2>1, IdleFits DEF Owned
  <2>3. QED
    BY <2>1, <2>2, OthersOwn DEF OwnsNoMore
<1>6. ASSUME NEW s \in Schedulers, LoadDue(s) PROVE OwnersStep
  BY <1>2, <1>6, LoadDueGoes, Cast DEF LoadDue, store
<1>7. ASSUME NEW s \in Schedulers, Claim(s) PROVE OwnersStep
  <2>1. /\ s \in Workers /\ Untouched(s) /\ task'[s].job = task[s].job /\ Occurrence(s) \in Claimed
        /\ Claims(s) \/ ClaimsNothing(s)
    BY <1>7, ClaimGoes, Cast
  <2>2. CASE Claims(s)
    <3>1. Occurrence(s).run = nextRun
      BY DEF Occurrence
    <3>2. Owned(s)' \subseteq Owned(s) \cup {nextRun} /\ nextRun' = nextRun + 1
      BY <2>1, <2>2, <3>1, QueueTakes DEF Claims
    <3>3. QED
      BY <2>1, <3>2, OneOwnsMore
  <2>3. CASE ClaimsNothing(s)
    <3>1. nextRun' \in {nextRun, nextRun + 1} /\ OwnsNoMore(s)
      BY <2>1, <2>3, SameHands DEF ClaimsNothing, OwnsNoMore
    <3>2. QED
      BY <2>1, <3>1, OthersOwn
  <2>4. QED
    BY <2>1, <2>2, <2>3
<1>8. ASSUME NEW s \in Schedulers, ClaimFails(s) PROVE OwnersStep
  BY <1>4, <1>8, ClaimFailsGoes, Cast DEF ClaimFails, store
<1>9. ASSUME NEW s \in Schedulers, NextRun(s) PROVE OwnersStep
  <2>1. s \in Workers /\ Untouched(s) /\ UNCHANGED nextRun
    BY <1>9, NextRunGoes, Cast DEF NextRun, store
  <2>2. CASE task'[s] = Idle
    BY <1>4, <2>1, <2>2
  <2>3. CASE /\ task[s].queue # << >>
             /\ task'[s].job = Head(task[s].queue) /\ task'[s].queue = Tail(task[s].queue)
    BY <2>1, <2>3, QueueGives, OthersOwn DEF OwnsNoMore
  <2>4. QED
    BY <1>9, <2>2, <2>3, NextRunGoes
<1>10. ASSUME NEW s \in Schedulers, RecordOutcome(s) PROVE OwnersStep
  <2>1. /\ s \in Workers /\ Untouched(s) /\ UNCHANGED nextRun /\ task'[s].queue = task[s].queue
        /\ task'[s].job = task[s].job \/ task'[s].job = NoJob
    BY <1>10, RecordOutcomeGoes, Cast DEF RecordOutcome, Goes
  <2>2. QED
    BY <1>2, <1>3, <2>1
<1>11. ASSUME NEW s \in Schedulers, RecordMissed(s) PROVE OwnersStep
  BY <1>3, <1>11, RecordMissedGoes, Cast DEF RecordMissed
<1>12. ASSUME NEW w \in Workers, Precheck(w) PROVE OwnersStep
  <2>1. /\ Untouched(w) /\ UNCHANGED nextRun
        /\ task'[w].job = task[w].job /\ task'[w].queue = task[w].queue
    BY <1>12, PrecheckGoes DEF Precheck, store, Goes
  <2>2. QED
    BY <1>2, <2>1
<1>13. ASSUME NEW w \in Workers,
              BlockManual(w) \/ MarkBlocked(w) \/ Begin(w) \/ Work(w) \/ Reconcile(w)
       PROVE  OwnersStep
  <2>1. UNCHANGED nextRun
    BY <1>13 DEF BlockManual, MarkBlocked, Begin, Work, Reconcile
  <2>2. \E pc \in PCs : Goes(w, pc)
    BY <1>13, BlockManualGoes, MarkBlockedGoes, BeginGoes, WorkGoes, ReconcileGoes DEF PCs
  <2>3. /\ Untouched(w) /\ task'[w].job = task[w].job /\ task'[w].queue = task[w].queue
    BY <2>2 DEF Goes
  <2>4. QED
    BY <1>2, <2>1, <2>3
<1>14. ASSUME NEW w \in Workers, Return(w) PROVE OwnersStep
  <2>1. Untouched(w) /\ UNCHANGED nextRun
    BY <1>14, ReturnGoes DEF Return, store
  <2>2. QED
    BY <1>2, <1>4, <1>14, <2>1, ReturnGoes
<1>15. ASSUME NEW d \in Desktops, NEW p \in Profiles, StartManual(d, p) PROVE OwnersStep
  <2>1. /\ d \in Workers /\ Untouched(d) /\ nextRun' = nextRun + 1
        /\ task'[d].job.run = nextRun /\ task'[d].queue = << >>
    BY <1>15, StartManualGoes, Cast
  <2>2. Owned(d)' \subseteq Owned(d) \cup {0, nextRun}
    BY <2>1 DEF Owned
  <2>3. QED
    BY <2>1, <2>2, OneOwnsMore
<1>16. ASSUME NEW w \in Workers, Crash(w) PROVE OwnersStep
  <2>1. UNCHANGED nextRun
    BY <1>16 DEF Crash, store
  <2>2. ASSUME NEW v \in Workers PROVE OwnsNoMore(v)
    <3>1. task'[v] = Idle \/ task'[v] = task[v]
      BY <1>16, CrashGoes
    <3>2. QED
      BY <3>1, EmptyHands, SameHands DEF OwnsNoMore
  <2>3. QED
    BY <2>1, <2>2 DEF OwnersStep
<1>17. QED
  BY <1>1, <1>2, <1>3, <1>4, <1>5, <1>6, <1>7, <1>8, <1>9, <1>10, <1>11, <1>12, <1>13, <1>14, <1>15, <1>16,
     TaskChanges, NextRunChanges

LEMMA RunsInHand ==
  ASSUME TaskTypes, StoreTypes, NEW w \in Workers
  PROVE  Owned(w) \subseteq Nat
<1>1. task[w] \in Task /\ task[w].queue \in Seq(Claimed)
  BY DEF TaskTypes, Task
<1>2. task[w].job.run \in Nat
  BY <1>1, IdleFits DEF Task, Manual, Claimed
<1>3. ASSUME NEW i \in DOMAIN task[w].queue PROVE task[w].queue[i].run \in Nat
  <2>1. task[w].queue[i] \in Claimed
    BY <1>1
  <2>2. QED
    BY <2>1 DEF Claimed
<1>4. QED
  BY <1>2, <1>3 DEF Owned

(* An identifier is given to one process only. *)
LEMMA RunsStep ==
  ASSUME TaskTypes, StoreTypes, RunsIssued, RunsApart, OwnersStep
  PROVE  RunsIssued' /\ RunsApart'
<1>1. nextRun \in Nat \ {0} /\ \A w \in Workers : Owned(w) \subseteq Nat
  BY RunsInHand, BackgroundAssumption DEF StoreTypes
<1>2. CASE (\A w \in Workers : OwnsNoMore(w)) /\ nextRun' \in {nextRun, nextRun + 1}
  <2>1. RunsIssued'
    <3> SUFFICES ASSUME NEW w \in Workers, NEW run \in Owned(w)' PROVE run < nextRun'
      BY DEF RunsIssued
    <3>1. run \in Owned(w) \cup {0}
      BY <1>2 DEF OwnsNoMore
    <3>2. run \in Nat /\ run < nextRun
      BY <1>1, <3>1 DEF RunsIssued
    <3>3. QED
      BY <1>1, <1>2, <3>2
  <2>2. RunsApart'
    BY <1>2 DEF RunsApart, OwnsNoMore
  <2>3. QED
    BY <2>1, <2>2
<1>3. CASE \E w \in Workers :
             /\ nextRun' = nextRun + 1
             /\ Owned(w)' \subseteq Owned(w) \cup {0, nextRun}
             /\ \A v \in Workers \ {w} : OwnsNoMore(v)
  <2>1. PICK w \in Workers :
             /\ nextRun' = nextRun + 1
             /\ Owned(w)' \subseteq Owned(w) \cup {0, nextRun}
             /\ \A v \in Workers \ {w} : OwnsNoMore(v)
    BY <1>3
  <2>2. ASSUME NEW v \in Workers
        PROVE  Owned(v)' \subseteq Owned(v) \cup (IF v = w THEN {0, nextRun} ELSE {0})
    BY <2>1 DEF OwnsNoMore
  <2>3. RunsIssued'
    <3> SUFFICES ASSUME NEW v \in Workers, NEW run \in Owned(v)' PROVE run < nextRun'
      BY DEF RunsIssued
    <3>1. run \in Owned(v) \cup {0, nextRun}
      BY <2>2
    <3>2. run \in Nat /\ run <= nextRun
      BY <1>1, <3>1 DEF RunsIssued
    <3>3. QED
      BY <1>1, <2>1, <3>2
  <2>4. RunsApart'
    <3> SUFFICES ASSUME NEW u \in Workers, NEW v \in Workers, u # v,
                        NEW run \in Owned(u)' \cap Owned(v)'
                 PROVE  run = 0
      BY DEF RunsApart
    <3>1. ASSUME NEW x \in Workers, run \in Owned(x) PROVE run \in Nat /\ run < nextRun
      BY <1>1, <3>1 DEF RunsIssued
    <3>2. CASE run = nextRun
      <4>1. run \notin Owned(u) /\ run \notin Owned(v) /\ run # 0
        BY <1>1, <3>1, <3>2
      <4>2. u = w /\ v = w
        BY <2>2, <4>1
      <4>3. QED
        BY <4>2
    <3>3. CASE run # nextRun
      <4>1. run \in Owned(u) \cup {0} /\ run \in Owned(v) \cup {0}
        BY <2>2, <3>3
      <4>2. QED
        BY <4>1 DEF RunsApart
    <3>4. QED
      BY <3>2, <3>3
  <2>5. QED
    BY <2>3, <2>4
<1>4. QED
  BY <1>2, <1>3 DEF OwnersStep

-----------------------------------------------------------------------------
(* Types of the store. *)

LEMMA SavedRow ==
  ASSUME NEW row \in Row, NEW rev \in Nat, NEW scopes \in Endpoints, NEW auth \in BOOLEAN
  PROVE  [row EXCEPT !.rev = rev, !.scopes = scopes, !.auth = auth] \in Row
BY DEF Row

LEMMA RescheduledRow ==
  ASSUME NEW row \in Row, NEW rev \in Nat, NEW enabled \in BOOLEAN, NEW next \in Nat
  PROVE  [row EXCEPT !.rev = rev, !.enabled = enabled, !.next = next] \in Row
BY DEF Row

LEMMA ProfileTyped ==
  ASSUME TaskTypes, StoreTypes, Next
  PROVE  profile' \in [Profiles -> Row]
<1>1. /\ profile \in [Profiles -> Row] /\ now \in Nat
      /\ form \in [Desktops -> [profile : Profiles, rev : Int, half : BOOLEAN]]
  BY BackgroundAssumption DEF StoreTypes
<1>2. ASSUME NEW s \in Schedulers, Claim(s) PROVE profile' \in [Profiles -> Row]
  <2> DEFINE row == task[s].loaded.row
  <2>1. /\ task[s].loaded.profile \in Profiles /\ row \in Row /\ row.next <= task[s].at
        /\ task[s].at \in Nat
    BY <1>2, ClaimGoes, Cast DEF LoadedRow, TaskTypes, Task
  <2>2. CASE Claims(s)
    <3>1. row.next \in Nat
      BY <2>1 DEF Row
    <3>2. NextOccurrence(row.next, task[s].at) \in Nat
      BY <3>1, <2>1, NextOccurrenceLater
    <3>3. QED
      BY <1>1, <2>1, <2>2, <3>2 DEF Claims, Row
  <2>3. CASE ClaimsNothing(s)
    BY <1>1, <2>3 DEF ClaimsNothing
  <2>4. QED
    BY <1>2, <2>2, <2>3, ClaimGoes
<1>3. ASSUME NEW d \in Desktops, NEW scopes \in Endpoints, NEW auth \in BOOLEAN,
             NEW advanced \in BOOLEAN, SaveProfile(d, scopes, auth, advanced)
      PROVE  profile' \in [Profiles -> Row]
  <2> DEFINE p == form[d].profile
  <2>1. p \in Profiles /\ profile[p] \in Row
    BY <1>1
  <2>2. Authorization(profile[p], scopes, auth) \in BOOLEAN
    BY DEF Authorization
  <2>3. [profile[p] EXCEPT !.rev = profile[p].rev + 1, !.scopes = scopes,
             !.auth = Authorization(profile[p], scopes, auth)] \in Row
    <3>1. profile[p].rev + 1 \in Nat
      BY <2>1 DEF Row
    <3>2. QED
      BY <2>1, <2>2, <3>1, SavedRow
  <2>4. profile' = [profile EXCEPT ![p] =
          [profile[p] EXCEPT !.rev = profile[p].rev + 1, !.scopes = scopes,
             !.auth = Authorization(profile[p], scopes, auth)]]
    BY <1>3 DEF SaveProfile
  <2>5. QED
    BY <1>1, <2>1, <2>3, <2>4
<1>4. ASSUME NEW d \in Desktops, NEW enabled \in BOOLEAN, SaveSchedule(d, enabled)
      PROVE  profile' \in [Profiles -> Row]
  <2> DEFINE p == form[d].profile
             next == IF enabled THEN now + Interval ELSE 0
  <2>1. p \in Profiles /\ next \in Nat
    BY <1>1, BackgroundAssumption
  <2>2. \/ UNCHANGED profile
        \/ profile' = [profile EXCEPT ![p].rev = @ + 1, ![p].enabled = enabled, ![p].next = next]
    BY <1>4 DEF SaveSchedule
  <2> HIDE DEF next, p
  <2>3. ASSUME profile' = [profile EXCEPT ![p].rev = @ + 1, ![p].enabled = enabled,
                                          ![p].next = next]
        PROVE  profile' \in [Profiles -> Row]
    <3>1. profile[p] \in Row /\ profile[p].rev \in Nat
      BY <1>1, <2>1 DEF Row
    <3>2. [profile[p] EXCEPT !.rev = profile[p].rev + 1, !.enabled = enabled, !.next = next] \in Row
      <4>1. profile[p].rev + 1 \in Nat
        BY <3>1
      <4>2. QED
        BY <3>1, <4>1, <2>1, RescheduledRow
    <3>3. profile' = [profile EXCEPT ![p] =
            [profile[p] EXCEPT !.rev = profile[p].rev + 1, !.enabled = enabled, !.next = next]]
      BY <1>1, <2>1, <2>3
    <3>4. QED
      BY <1>1, <2>1, <3>2, <3>3
  <2>4. QED
    BY <1>1, <2>2, <2>3
<1>5. QED
  BY <1>1, <1>2, <1>3, <1>4, ProfileChanges

LEMMA NextRunTyped ==
  ASSUME TaskTypes, StoreTypes, Next
  PROVE  /\ nextRun' \in 1..(MaxRunId + 1)
         /\ nextRun' \in {nextRun, nextRun + 1}
<1>1. nextRun \in 1..(MaxRunId + 1) /\ MaxRunId \in Nat
  BY BackgroundAssumption DEF StoreTypes
<1>2. ASSUME NEW s \in Schedulers, Claim(s)
      PROVE  nextRun \in RunIds /\ nextRun' \in {nextRun, nextRun + 1}
  <2>1. nextRun \in RunIds
    BY <1>2 DEF Claim
  <2>2. QED
    BY <1>2, <2>1, ClaimGoes DEF Claims, ClaimsNothing
<1>3. ASSUME NEW d \in Desktops, NEW p \in Profiles, StartManual(d, p)
      PROVE  nextRun \in RunIds /\ nextRun' \in {nextRun, nextRun + 1}
  BY <1>3, StartManualGoes
<1>4. UNCHANGED nextRun \/ (nextRun \in RunIds /\ nextRun' \in {nextRun, nextRun + 1})
  BY <1>2, <1>3, NextRunChanges
<1>5. QED
  BY <1>1, <1>4 DEF RunIds

(* Of the run in hand. *)
LEMMA JobTyped ==
  ASSUME TaskTypes, StoreTypes, RunsIssued, NEW w \in Workers, task[w].pc \in Active
  PROVE  /\ Job(w).run \in 1..(nextRun - 1) /\ Job(w).run \in Owned(w)
         /\ Job(w).profile \in Profiles /\ Job(w).scopes \in Endpoints
<1>1. Job(w) \in Manual \cup Claimed
  BY DEF TaskTypes, TaskFits, Job
<1>2. Job(w).run \in Owned(w)
  BY DEF Owned, Job
<1>3. Job(w).run < nextRun
  BY <1>2 DEF RunsIssued
<1>4. nextRun \in Nat
  BY BackgroundAssumption DEF StoreTypes
<1>5. QED
  BY <1>1, <1>2, <1>3, <1>4 DEF Manual, Claimed

LEMMA StoredRow ==
  ASSUME report \in [DOMAIN report -> Report], NEW run, NEW v \in Report
  PROVE  /\ With(report, run, v) \in [DOMAIN report \cup {run} -> Report]
         /\ DOMAIN With(report, run, v) = DOMAIN report \cup {run}
         /\ With(report, run, v)[run] = v
         /\ \A other \in DOMAIN report : other # run => With(report, run, v)[other] = report[other]
BY DEF With

LEMMA NewRows ==
  /\ NewReport \in Report
  /\ [NewReport EXCEPT !.inventory = TRUE, !.items = "open"] \in Report
  /\ [NewReport EXCEPT !.inventory = TRUE, !.items = "open"].items = "open"
  /\ [NewReport EXCEPT !.inventory = TRUE, !.items = "open"].blocked = FALSE
BY DEF NewReport, Report

(* What a step may do with the reports. *)
ReportStep ==
  \/ UNCHANGED report
  \/ \E run \in 1..(nextRun' - 1), v \in Report : report' = With(report, run, v)
  \/ \E run \in DOMAIN report : report' = Without(report, run)

LEMMA ReportStepTyped ==
  ASSUME StoreTypes, ReportStep, nextRun' \in {nextRun, nextRun + 1}
  PROVE  report' \in [DOMAIN report' -> Report] /\ DOMAIN report' \subseteq 1..(nextRun' - 1)
<1>1. /\ report \in [DOMAIN report -> Report] /\ DOMAIN report \subseteq 1..(nextRun - 1)
      /\ nextRun \in Nat
  BY BackgroundAssumption DEF StoreTypes
<1>2. DOMAIN report \subseteq 1..(nextRun' - 1)
  BY <1>1
<1>3. CASE UNCHANGED report
  BY <1>1, <1>2, <1>3
<1>4. ASSUME NEW run \in 1..(nextRun' - 1), NEW v \in Report, report' = With(report, run, v)
      PROVE  report' \in [DOMAIN report' -> Report] /\ DOMAIN report' \subseteq 1..(nextRun' - 1)
  <2>1. /\ report' \in [DOMAIN report \cup {run} -> Report]
        /\ DOMAIN report' = DOMAIN report \cup {run}
    BY <1>1, <1>4, StoredRow
  <2>2. QED
    BY <1>2, <2>1
<1>5. ASSUME NEW run \in DOMAIN report, report' = Without(report, run)
      PROVE  report' \in [DOMAIN report' -> Report] /\ DOMAIN report' \subseteq 1..(nextRun' - 1)
  BY <1>1, <1>2, <1>5 DEF Without
<1>6. QED
  BY <1>3, <1>4, <1>5 DEF ReportStep

(* A row that is changed is a row that is stored. *)
LEMMA Rewritten ==
  ASSUME StoreTypes, NEW run \in DOMAIN report, NEW v \in Report, report' = [report EXCEPT ![run] = v]
  PROVE  \E r \in 1..(nextRun - 1) : r = run /\ report' = With(report, r, v)
<1>1. report \in [DOMAIN report -> Report] /\ run \in 1..(nextRun - 1)
  BY DEF StoreTypes
<1>2. report' = With(report, run, v)
  BY <1>1 DEF With
<1>3. QED
  BY <1>1, <1>2

LEMMA ReportFields ==
  ASSUME NEW r \in Report
  PROVE  /\ [r EXCEPT !.blocked = TRUE] \in Report
         /\ [r EXCEPT !.items = "done"] \in Report
         /\ \A recon \in {"clean", "findings"} : [r EXCEPT !.recon = recon] \in Report
         /\ [r EXCEPT !.cleared = TRUE] \in Report
BY DEF Report

LEMMA ReportsStep ==
  ASSUME TaskTypes, StoreTypes, LockTypes, RunsIssued, Next
  PROVE  ReportStep
<1>1. /\ report \in [DOMAIN report -> Report] /\ nextRun \in Nat \ {0}
      /\ nextRun' \in {nextRun, nextRun + 1}
  BY NextRunTyped, BackgroundAssumption DEF StoreTypes
<1>2. ASSUME NEW run \in 1..(nextRun - 1), NEW v \in Report, report' = With(report, run, v)
      PROVE  ReportStep
  <2>1. run \in 1..(nextRun' - 1)
    BY <1>1
  <2>2. QED
    BY <1>2, <2>1 DEF ReportStep
<1>3. ASSUME NEW run \in DOMAIN report, NEW v \in Report, report' = [report EXCEPT ![run] = v]
      PROVE  ReportStep
  BY <1>2, <1>3, Rewritten
<1>4. ASSUME NEW s \in Schedulers, Claim(s) PROVE ReportStep
  <2>1. CASE Claims(s)
    <3>1. nextRun \in 1..(nextRun' - 1) /\ report' = With(report, nextRun, NewReport)
      BY <1>1, <2>1 DEF Claims
    <3>2. QED
      BY <3>1, NewRows DEF ReportStep
  <2>2. CASE ClaimsNothing(s)
    BY <2>2 DEF ClaimsNothing, ReportStep
  <2>3. QED
    BY <1>4, <2>1, <2>2, ClaimGoes
<1>5. ASSUME NEW w \in Workers, BlockManual(w) PROVE ReportStep
  <2>1. UNCHANGED report \/ report' = With(report, Job(w).run, NewReport)
    BY <1>5 DEF BlockManual
  <2>2. Job(w).run \in 1..(nextRun - 1)
    BY <1>5, JobTyped DEF BlockManual, Active
  <2>3. QED
    BY <1>2, <2>1, <2>2, NewRows DEF ReportStep
<1>6. ASSUME NEW w \in Workers, MarkBlocked(w) PROVE ReportStep
  <2>1. \/ UNCHANGED report
        \/ Stored(Job(w).run) /\ report' = [report EXCEPT ![Job(w).run].blocked = TRUE]
    BY <1>6 DEF MarkBlocked
  <2>2. ASSUME Stored(Job(w).run), report' = [report EXCEPT ![Job(w).run].blocked = TRUE]
        PROVE  ReportStep
    <3>1. Job(w).run \in DOMAIN report /\ report[Job(w).run] \in Report
      BY <1>1, <2>2 DEF Stored
    <3>2. QED
      BY <1>3, <2>2, <3>1, ReportFields
  <2>3. QED
    BY <2>1, <2>2 DEF ReportStep
<1>7. ASSUME NEW w \in Workers, Begin(w) PROVE ReportStep
  <2>1. \/ UNCHANGED report
        \/ report' = With(report, Job(w).run,
                          [NewReport EXCEPT !.inventory = TRUE, !.items = "open"])
    BY <1>7, BeginGoes
  <2>2. Job(w).run \in 1..(nextRun - 1)
    BY <1>7, JobTyped DEF Begin, Active
  <2>3. QED
    BY <1>2, <2>1, <2>2, NewRows DEF ReportStep
<1>8. ASSUME NEW w \in Workers, Work(w) PROVE ReportStep
  <2>1. UNCHANGED report \/ report' = [report EXCEPT ![Job(w).run].items = "done"]
    BY <1>8, WorkGoes
  <2>2. ASSUME Job(w).run \in DOMAIN report, report' = [report EXCEPT ![Job(w).run].items = "done"]
        PROVE  ReportStep
    <3>1. report[Job(w).run] \in Report
      BY <1>1, <2>2
    <3>2. QED
      BY <1>3, <2>2, <3>1, ReportFields
  <2>3. ASSUME Job(w).run \notin DOMAIN report,
               report' = [report EXCEPT ![Job(w).run].items = "done"]
        PROVE  UNCHANGED report
    BY <1>1, <2>3
  <2>4. QED
    BY <2>1, <2>2, <2>3 DEF ReportStep
<1>9. ASSUME NEW w \in Workers, Reconcile(w) PROVE ReportStep
  <2>1. \/ UNCHANGED report
        \/ Stored(Job(w).run) /\ \E recon \in {"clean", "findings"} :
             report' = [report EXCEPT ![Job(w).run].recon = recon]
    BY <1>9, ReconcileGoes
  <2>2. ASSUME Stored(Job(w).run), NEW recon \in {"clean", "findings"},
               report' = [report EXCEPT ![Job(w).run].recon = recon]
        PROVE  ReportStep
    <3>1. Job(w).run \in DOMAIN report /\ report[Job(w).run] \in Report
      BY <1>1, <2>2 DEF Stored
    <3>2. [report[Job(w).run] EXCEPT !.recon = recon] \in Report
      BY <3>1, ReportFields
    <3>3. QED
      BY <1>3, <2>2, <3>1, <3>2
  <2>3. QED
    BY <2>1, <2>2 DEF ReportStep
<1>10. ASSUME NEW run \in DOMAIN report, DeleteReport(run) PROVE ReportStep
  BY <1>10 DEF DeleteReport, ReportStep
<1>11. ASSUME NEW run \in DOMAIN report, MarkReviewCleared(run) PROVE ReportStep
  <2>1. report[run] \in Report /\ report' = [report EXCEPT ![run].cleared = TRUE]
    BY <1>1, <1>11 DEF MarkReviewCleared
  <2>2. QED
    BY <1>3, <2>1, ReportFields
<1>12. QED
  BY <1>4, <1>5, <1>6, <1>7, <1>8, <1>9, <1>10, <1>11, ReportChanges DEF ReportStep

(* The timeline only grows, by one run at a time. *)
LEMMA TimelineRow ==
  ASSUME NEW p \in Profiles, NEW run \in 1..(nextRun - 1), NEW kind \in Kinds, StoreTypes
  PROVE  /\ Event(p, run, kind) \in EventRow
         /\ Event(p, run, kind).run = run /\ Event(p, run, kind).kind = kind
         /\ Event(p, run, kind).profile = p
         /\ Event(p, run, kind).notice = 0
         /\ \A id \in Nat :
              /\ [Event(p, run, kind) EXCEPT !.notice = id] \in EventRow
              /\ [Event(p, run, kind) EXCEPT !.notice = id].run = run
              /\ [Event(p, run, kind) EXCEPT !.notice = id].kind = kind
              /\ [Event(p, run, kind) EXCEPT !.notice = id].notice = id
<1>1. run \in Nat \ {0}
  BY BackgroundAssumption DEF StoreTypes
<1>2. QED
  BY <1>1 DEF Event, EventRow

LEMMA OutcomeKnown ==
  ASSUME NEW result, NEW run
  PROVE  /\ OutcomeKind(result, run) \in Kinds
         /\ OutcomeKind(result, run) \notin {"claimed", "missed", "review_cleared"}
<1> DEFINE status == IF Succeeded(result) THEN result
                     ELSE IF Stored(run) THEN ReportStatus(report[run]) ELSE "blocked"
<1> HIDE DEF status
<1>1. OutcomeKind(result, run) =
        CASE result = "overlap" -> "skipped_overlap"
          [] result # "overlap" /\ status = "blocked" -> "blocked_preflight"
          [] result # "overlap" /\ status = "review_required" -> "pending_review"
          [] Succeeded(result) /\ status = "completed" -> "completed"
          [] OTHER -> "failed"
  BY DEF OutcomeKind, status
<1>2. Succeeded(result) => result # "overlap"
  BY DEF Succeeded
<1>3. QED
  BY <1>1, <1>2 DEF Kinds

(* The notice a missed run goes to. *)
LEMMA NoticedRow ==
  ASSUME StoreTypes, NEW p \in Profiles, NEW run \in Nat \ {0}, NEW at \in Nat
  PROVE  /\ Noticed(p, run, at) \in Notice
         /\ Noticed(p, run, at).profile = p /\ Noticed(p, run, at).decision = "pending"
         /\ \/ \E n \in PendingNotice(p) :
                 /\ Noticed(p, run, at).id = n.id /\ Noticed(p, run, at).count = n.count + 1
                 /\ Noticed(p, run, at).latest = Later(n.latest, at)
            \/ /\ PendingNotice(p) = {}
               /\ Noticed(p, run, at).id = Cardinality(notices) + 1
               /\ Noticed(p, run, at).count = 1 /\ Noticed(p, run, at).latest = at
<1>1. CASE PendingNotice(p) # {}
  <2> DEFINE n == CHOOSE n \in PendingNotice(p) : TRUE
             latest == Later(n.latest, at)
  <2>1. n \in PendingNotice(p)
    BY <1>1
  <2>2. n \in Notice /\ n.profile = p /\ n.decision = "pending"
    BY <2>1 DEF PendingNotice, StoreTypes
  <2>3. Noticed(p, run, at) = [n EXCEPT !.latest = latest, !.count = n.count + 1]
    BY <1>1 DEF Noticed
  <2> HIDE DEF n
  <2>4. latest \in Nat
    BY <2>2 DEF Later, Notice
  <2> HIDE DEF latest
  <2>5. n.count + 1 \in Nat
    BY <2>2 DEF Notice
  <2>6. /\ Noticed(p, run, at) \in Notice
        /\ Noticed(p, run, at).profile = p /\ Noticed(p, run, at).decision = "pending"
        /\ Noticed(p, run, at).id = n.id /\ Noticed(p, run, at).count = n.count + 1
        /\ Noticed(p, run, at).latest = latest
    BY <2>2, <2>3, <2>4, <2>5 DEF Notice
  <2>7. QED
    BY <2>1, <2>6 DEF latest
<1>2. CASE PendingNotice(p) = {}
  <2>1. Cardinality(notices) + 1 \in Nat \ {0}
    BY FS_CardinalityType DEF StoreTypes
  <2> DEFINE id == Cardinality(notices) + 1
  <2>2. Noticed(p, run, at) = [id |-> id, profile |-> p, run |-> run, first |-> at, latest |-> at,
                               decision |-> "pending", count |-> 1]
    BY <1>2 DEF Noticed
  <2> HIDE DEF id
  <2>3. id \in Nat \ {0}
    BY <2>1 DEF id
  <2>4. /\ Noticed(p, run, at) \in Notice
        /\ Noticed(p, run, at).profile = p /\ Noticed(p, run, at).decision = "pending"
        /\ Noticed(p, run, at).id = id /\ Noticed(p, run, at).count = 1
        /\ Noticed(p, run, at).latest = at
    BY <2>2, <2>3 DEF Notice
  <2>5. QED
    BY <1>2, <2>4 DEF id
<1>3. QED
  BY <1>1, <1>2

(* What RecordMissed writes, when it writes. *)
Misses(s) ==
  LET n == Noticed(Job(s).profile, Job(s).run, Job(s).at)
  IN  /\ notices' = {m \in notices : m.id # n.id} \cup {n}
      /\ events' = events \cup {[Event(Job(s).profile, Job(s).run, "missed") EXCEPT !.notice = n.id]}

LEMMA MissedWrites ==
  ASSUME NEW s \in Schedulers, RecordMissed(s)
  PROVE  Misses(s) \/ UNCHANGED <<notices, events>>
BY DEF RecordMissed, Misses, Job

LEMMA ScheduledJob ==
  ASSUME TaskTypes, StoreTypes, RunsIssued, NEW s \in Schedulers, task[s].pc \in Active
  PROVE  /\ Job(s) \in Claimed /\ Job(s).run \in 1..(nextRun - 1) /\ Job(s).run \in Owned(s)
         /\ Job(s).profile \in Profiles /\ Job(s).at \in Nat /\ Job(s).run \in Nat \ {0}
<1>1. Job(s) \in Claimed /\ s \in Workers
  BY Cast DEF TaskTypes, TaskFits, Job
<1>2. QED
  BY <1>1, JobTyped DEF Claimed

LEMMA EventsTyped ==
  ASSUME TaskTypes, StoreTypes, LockTypes, RunsIssued, Next
  PROVE  /\ events \subseteq events' /\ events' \subseteq EventRow
         /\ \A e \in events' : e.run < nextRun'
<1>1. /\ events \subseteq EventRow /\ \A e \in events : e.run \in Nat /\ e.run < nextRun
      /\ nextRun \in Nat \ {0} /\ nextRun' \in {nextRun, nextRun + 1}
  BY NextRunTyped, BackgroundAssumption DEF StoreTypes, EventRow
<1>2. \A e \in events : e.run < nextRun'
  BY <1>1
<1>3. ASSUME NEW fresh \in SUBSET EventRow, events' = events \cup fresh,
             \A e \in fresh : e.run < nextRun'
      PROVE  /\ events \subseteq events' /\ events' \subseteq EventRow
             /\ \A e \in events' : e.run < nextRun'
  BY <1>1, <1>2, <1>3
<1>4. CASE UNCHANGED events
  BY <1>1, <1>2, <1>4
<1>5. ASSUME NEW s \in Schedulers, Claim(s), Claims(s)
      PROVE  \E fresh \in SUBSET EventRow : /\ events' = events \cup fresh
                                            /\ \A e \in fresh : e.run < nextRun'
  <2> DEFINE e == Event(task[s].loaded.profile, nextRun, "claimed")
  <2>1. task[s].loaded.profile \in Profiles
    BY <1>5, ClaimGoes DEF LoadedRow
  <2>2. e \in EventRow /\ e.run = nextRun
    BY <1>1, <2>1 DEF Event, EventRow, Kinds
  <2>3. nextRun < nextRun'
    BY <1>1, <1>5 DEF Claims
  <2>4. events' = events \cup {e}
    BY <1>5 DEF Claims
  <2> HIDE DEF e
  <2>5. {e} \in SUBSET EventRow /\ \A x \in {e} : x.run < nextRun'
    BY <2>2, <2>3
  <2>6. QED
    BY <2>4, <2>5
<1>6. ASSUME NEW s \in Schedulers, RecordOutcome(s)
      PROVE  \/ UNCHANGED events
             \/ \E fresh \in SUBSET EventRow : /\ events' = events \cup fresh
                                               /\ \A e \in fresh : e.run < nextRun'
  <2> DEFINE e == Event(Job(s).profile, Job(s).run, OutcomeKind(task[s].result, Job(s).run))
  <2>1. events' = events \cup {e} \/ UNCHANGED events
    BY <1>6 DEF RecordOutcome, Job
  <2>2. Job(s).profile \in Profiles /\ Job(s).run \in 1..(nextRun - 1)
    BY <1>6, ScheduledJob DEF RecordOutcome, Active
  <2>3. e \in EventRow /\ e.run = Job(s).run
    BY <2>2, OutcomeKnown, TimelineRow
  <2> HIDE DEF e
  <2>4. Job(s).run < nextRun'
    BY <1>1, <2>2
  <2>5. {e} \in SUBSET EventRow /\ \A x \in {e} : x.run < nextRun'
    BY <2>3, <2>4
  <2>6. QED
    BY <2>1, <2>5
<1>7. ASSUME NEW s \in Schedulers, RecordMissed(s)
      PROVE  \/ UNCHANGED events
             \/ \E fresh \in SUBSET EventRow : /\ events' = events \cup fresh
                                               /\ \A e \in fresh : e.run < nextRun'
  <2> DEFINE n == Noticed(Job(s).profile, Job(s).run, Job(s).at)
             e == [Event(Job(s).profile, Job(s).run, "missed") EXCEPT !.notice = n.id]
  <2>1. events' = events \cup {e} \/ UNCHANGED events
    BY <1>7, MissedWrites DEF Misses
  <2>2. /\ Job(s).profile \in Profiles /\ Job(s).run \in 1..(nextRun - 1)
        /\ Job(s).run \in Nat \ {0} /\ Job(s).at \in Nat
    BY <1>7, ScheduledJob DEF RecordMissed, Active
  <2>3. n \in Notice
    BY <2>2, NoticedRow
  <2> HIDE DEF n
  <2>4. e \in EventRow /\ e.run = Job(s).run
    <3>1. n.id \in Nat /\ "missed" \in Kinds
      BY <2>3 DEF Notice, Kinds
    <3>2. QED
      BY <2>2, <3>1, TimelineRow
  <2> HIDE DEF e
  <2>5. Job(s).run < nextRun'
    BY <1>1, <2>2
  <2>6. {e} \in SUBSET EventRow /\ \A x \in {e} : x.run < nextRun'
    BY <2>4, <2>5
  <2>7. QED
    BY <2>1, <2>6
<1>8. ASSUME NEW run \in DOMAIN report, MarkReviewCleared(run)
      PROVE  \E fresh \in SUBSET EventRow : /\ events' = events \cup fresh
                                            /\ \A e \in fresh : e.run < nextRun'
  <2> DEFINE fresh == {Event(e.profile, run, "review_cleared") :
                         e \in {e \in events : e.run = run /\ e.kind = "claimed"}}
  <2>1. events' = events \cup fresh
    BY <1>8 DEF MarkReviewCleared
  <2>2. run \in 1..(nextRun - 1) /\ run < nextRun'
    BY <1>1 DEF StoreTypes
  <2>3. ASSUME NEW e \in events
        PROVE  /\ Event(e.profile, run, "review_cleared") \in EventRow
               /\ Event(e.profile, run, "review_cleared").run = run
    <3>1. e.profile \in Profiles /\ "review_cleared" \in Kinds
      BY <1>1 DEF EventRow, Kinds
    <3>2. QED
      BY <2>2, <3>1, TimelineRow
  <2>4. fresh \in SUBSET EventRow /\ \A e \in fresh : e.run < nextRun'
    BY <2>2, <2>3
  <2> HIDE DEF fresh
  <2>5. QED
    BY <2>1, <2>4
<1>9. ASSUME NEW s \in Schedulers, Claim(s), ~Claims(s) PROVE UNCHANGED events
  BY <1>9, ClaimGoes DEF ClaimsNothing
<1>10. \/ UNCHANGED events
       \/ \E fresh \in SUBSET EventRow : /\ events' = events \cup fresh
                                         /\ \A e \in fresh : e.run < nextRun'
  BY <1>5, <1>6, <1>7, <1>8, <1>9, EventsChanges
<1>11. QED
  BY <1>3, <1>4, <1>10

LEMMA NoticesTyped ==
  ASSUME TaskTypes, StoreTypes, LockTypes, RunsIssued, Next
  PROVE  notices' \subseteq Notice /\ IsFiniteSet(notices')
<1>1. notices \subseteq Notice /\ IsFiniteSet(notices)
  BY DEF StoreTypes
<1>2. ASSUME NEW s \in Schedulers, RecordMissed(s)
      PROVE  notices' \subseteq Notice /\ IsFiniteSet(notices')
  <2> DEFINE n == Noticed(Job(s).profile, Job(s).run, Job(s).at)
  <2>1. n \in Notice
    BY <1>2, ScheduledJob, NoticedRow DEF RecordMissed, Active
  <2>2. UNCHANGED notices \/ notices' = {m \in notices : m.id # n.id} \cup {n}
    BY <1>2, MissedWrites DEF Misses
  <2> HIDE DEF n
  <2>3. IsFiniteSet({m \in notices : m.id # n.id})
    BY <1>1, FS_Subset
  <2>4. IsFiniteSet({m \in notices : m.id # n.id} \cup {n})
    BY <2>3, FS_AddElement
  <2>5. QED
    BY <1>1, <2>1, <2>2, <2>4
<1>3. ASSUME NEW n \in notices, Answer(n)
      PROVE  notices' \subseteq Notice /\ IsFiniteSet(notices')
  <2> DEFINE m == [n EXCEPT !.decision = "answered"]
  <2>1. m \in Notice
    BY <1>1 DEF Notice
  <2>2. notices' = (notices \ {n}) \cup {m}
    BY <1>3 DEF Answer
  <2> HIDE DEF m
  <2>3. IsFiniteSet((notices \ {n}) \cup {m})
    BY <1>1, FS_RemoveElement, FS_AddElement
  <2>4. QED
    BY <1>1, <2>1, <2>2, <2>3
<1>4. QED
  BY <1>1, <1>2, <1>3, NoticesChanges

LEMMA FormTyped ==
  ASSUME TaskTypes, StoreTypes, Next
  PROVE  form' \in [Desktops -> [profile : Profiles, rev : Int, half : BOOLEAN]]
<1> DEFINE F == [profile : Profiles, rev : Int, half : BOOLEAN]
<1>1. /\ form \in [Desktops -> F]
      /\ \A p \in Profiles : profile[p].rev \in Nat /\ profile'[p].rev \in Nat
  BY ProfileTyped DEF StoreTypes, Row
<1>2. ASSUME NEW d \in Desktops, NEW p \in Profiles, OpenProfile(d, p) PROVE form' \in [Desktops -> F]
  BY <1>1, <1>2 DEF OpenProfile
<1>3. ASSUME NEW d \in Desktops, NEW scopes \in Endpoints, NEW auth \in BOOLEAN,
             NEW advanced \in BOOLEAN, SaveProfile(d, scopes, auth, advanced)
      PROVE  form' \in [Desktops -> F]
  <2>1. form' = [form EXCEPT ![d].rev = profile[form[d].profile].rev + 1, ![d].half = advanced]
    BY <1>3 DEF SaveProfile
  <2>2. profile[form[d].profile].rev + 1 \in Int
    BY <1>1
  <2>3. QED
    BY <1>1, <2>1, <2>2
<1>4. ASSUME NEW d \in Desktops, NEW enabled \in BOOLEAN, SaveSchedule(d, enabled)
      PROVE  form' \in [Desktops -> F]
  <2>1. \/ form' = [form EXCEPT ![d].rev = profile'[form[d].profile].rev, ![d].half = FALSE]
        \/ form' = [form EXCEPT ![d].rev = @ - 1, ![d].half = FALSE]
    BY <1>4 DEF SaveSchedule
  <2>2. profile'[form[d].profile].rev \in Int /\ form[d].rev - 1 \in Int
    BY <1>1
  <2>3. QED
    BY <1>1, <2>1, <2>2
<1>5. ASSUME NEW w \in Workers, Crash(w) PROVE form' \in [Desktops -> F]
  <2>1. form' = [d \in Desktops |-> IF d \in Sharers(w) THEN [form[d] EXCEPT !.half = FALSE]
                                                        ELSE form[d]]
    BY <1>5 DEF Crash
  <2>2. QED
    BY <1>1, <2>1
<1>6. QED
  BY <1>1, <1>2, <1>3, <1>4, <1>5, FormChanges

LEMMA ClaimsTyped ==
  ASSUME TaskTypes, StoreTypes, Next
  PROVE  claims \subseteq claims' /\ claims' \subseteq Claimed
<1>1. ASSUME NEW s \in Schedulers, Claim(s)
      PROVE  claims \subseteq claims' /\ claims' \subseteq Claimed
  <2>1. Occurrence(s) \in Claimed /\ (Claims(s) \/ ClaimsNothing(s))
    BY <1>1, ClaimGoes
  <2>2. QED
    BY <2>1 DEF Claims, ClaimsNothing, StoreTypes
<1>2. QED
  BY <1>1, ClaimsChanges DEF StoreTypes

LEMMA StoreTypesStep ==
  ASSUME TaskTypes, StoreTypes, LockTypes, RunsIssued, Next
  PROVE  StoreTypes'
<1>1. now' \in 0..MaxTime
  <2>1. now \in 0..MaxTime
    BY DEF StoreTypes
  <2>2. ASSUME Tick PROVE now' \in 0..MaxTime
    BY <2>1, <2>2, BackgroundAssumption DEF Tick
  <2>3. QED
    BY <2>1, <2>2, NowChanges
<1>2. report' \in [DOMAIN report' -> Report] /\ DOMAIN report' \subseteq 1..(nextRun' - 1)
  BY ReportsStep, NextRunTyped, ReportStepTyped
<1>3. QED
  BY <1>1, <1>2, ProfileTyped, NextRunTyped, EventsTyped, NoticesTyped, FormTyped, ClaimsTyped
     DEF StoreTypes

-----------------------------------------------------------------------------
(* Types of the registries. *)

LEMMA SetRegistryEffect ==
  ASSUME LockTypes, NEW w \in Workers, NEW reg \in Registry, SetRegistry(w, reg)
  PROVE  /\ registry' \in [Workers -> Registry]
         /\ \A v \in Sharers(w) : registry'[v] = reg
         /\ \A v \in Workers \ Sharers(w) : registry'[v] = registry[v]
         /\ Sharers(w) \subseteq Workers /\ w \in Sharers(w)
<1>1. registry' = [v \in Workers |-> IF v \in Sharers(w) THEN reg ELSE registry[v]]
  BY DEF SetRegistry
<1>2. Sharers(w) \subseteq Workers /\ w \in Sharers(w)
  BY DEF Sharers
<1>3. QED
  BY <1>1, <1>2 DEF LockTypes

LEMMA GrantTyped ==
  ASSUME NEW reg \in Registry, NEW run \in Nat, NEW scopes \in Endpoints
  PROVE  /\ Grant(reg, run, scopes) \in Registry
         /\ Grant(reg, run, scopes).next = reg.next + 1
         /\ Grant(reg, run, scopes).held =
              reg.held \cup {[scope |-> s, owner |-> run, token |-> reg.next + 1] : s \in scopes}
<1> DEFINE token == reg.next + 1
           fresh == {[scope |-> s, owner |-> run, token |-> token] : s \in scopes}
<1>1. reg.next \in Nat /\ token \in Nat \ {0}
  BY DEF Registry
<1>2. Grant(reg, run, scopes) = [next |-> token, held |-> reg.held \cup fresh]
  BY DEF Grant
<1> HIDE DEF token
<1>3. fresh \subseteq [scope : UNION Endpoints, owner : Nat, token : Nat \ {0}]
  BY <1>1
<1> HIDE DEF fresh
<1>4. QED
  BY <1>1, <1>2, <1>3 DEF Registry, token, fresh

LEMMA GiveBackTyped ==
  ASSUME NEW reg \in Registry, NEW token
  PROVE  /\ GiveBack(reg, token) \in Registry
         /\ GiveBack(reg, token).next = reg.next
         /\ GiveBack(reg, token).held = {h \in reg.held : h.token # token}
BY DEF GiveBack, Registry

LEMMA NoLeasesTyped == NoLeases \in Registry /\ NoLeases.next = 0 /\ NoLeases.held = {}
BY DEF NoLeases, Registry

LEMMA LockTypesStep ==
  ASSUME TaskTypes, StoreTypes, LockTypes, RunsIssued, Next
  PROVE  LockTypes'
<1>1. registry \in [Workers -> Registry] /\ shared' = shared
  BY SharedStays DEF LockTypes
<1>2. ASSUME NEW w \in Workers, Precheck(w) PROVE registry' \in [Workers -> Registry]
  <2>1. registry[w] \in Registry /\ Job(w).run \in Nat /\ Job(w).scopes \in Endpoints
    BY <1>1, <1>2, JobTyped DEF Precheck, Active
  <2>2. QED
    BY <1>1, <1>2, <2>1, PrecheckGoes, GrantTyped, SetRegistryEffect
<1>3. ASSUME NEW w \in Workers, Return(w) PROVE registry' \in [Workers -> Registry]
  BY <1>1, <1>3, ReturnGoes, GiveBackTyped, SetRegistryEffect
<1>4. ASSUME NEW w \in Workers, Crash(w) PROVE registry' \in [Workers -> Registry]
  BY <1>1, <1>4, NoLeasesTyped, SetRegistryEffect DEF Crash
<1>5. QED
  BY <1>1, <1>2, <1>3, <1>4, RegistryChanges DEF LockTypes

-----------------------------------------------------------------------------
(* What everything below rests on. *)
TypeInv == TaskTypes /\ StoreTypes /\ LockTypes /\ RunsIssued /\ RunsApart

FirstRow ==
  [rev : {0}, scopes : {FirstEndpoints}, auth : BOOLEAN, enabled : {TRUE}, next : {Interval}]

LEMMA FirstRows == FirstRow \subseteq Row
<1> SUFFICES ASSUME NEW row \in FirstRow PROVE row \in Row
  OBVIOUS
<1>1. 0 \in Nat /\ FirstEndpoints \in Endpoints /\ Interval \in Nat
  BY BackgroundAssumption
<1>2. QED
  BY <1>1 DEF FirstRow, Row

LEMMA TypeInit == Init => TypeInv
<1> SUFFICES ASSUME Init PROVE TypeInv
  OBVIOUS
<1>1. \A w \in Workers : task[w] = Idle
  BY DEF Init
<1>2. TaskTypes
  <2>1. task \in [Workers -> Task]
    BY IdleFits DEF Init
  <2>2. \A w \in Workers : TaskFits(w)
    BY <1>1, IdleFits DEF TaskFits, Active
  <2>3. QED
    BY <2>1, <2>2 DEF TaskTypes
<1>3. StoreTypes
  <2>1. profile \in [Profiles -> Row]
    BY FirstRows DEF Init, FirstRow
  <2>2. now \in 0..MaxTime /\ nextRun \in 1..(MaxRunId + 1)
    BY BackgroundAssumption DEF Init
  <2>3. report \in [DOMAIN report -> Report] /\ DOMAIN report \subseteq 1..(nextRun - 1)
    BY DEF Init
  <2>4. form \in [Desktops -> [profile : Profiles, rev : Int, half : BOOLEAN]]
    BY BackgroundAssumption DEF Init, Profiles
  <2>5. events = {} /\ notices = {} /\ claims = {} /\ IsFiniteSet(notices)
    BY FS_EmptySet DEF Init
  <2>6. QED
    BY <2>1, <2>2, <2>3, <2>4, <2>5 DEF StoreTypes
<1>4. LockTypes
  BY NoLeasesTyped, BackgroundAssumption DEF Init, LockTypes
<1>5. \A w \in Workers : Owned(w) = {0}
  BY <1>1, IdleFits DEF Owned
<1>6. RunsIssued /\ RunsApart
  BY <1>5 DEF RunsIssued, RunsApart, Init
<1>7. QED
  BY <1>2, <1>3, <1>4, <1>6 DEF TypeInv

LEMMA TypeStep == TypeInv /\ [Next]_vars => TypeInv'
<1>1. ASSUME TypeInv, Next PROVE TypeInv'
  BY <1>1, TaskTypesStep, StoreTypesStep, LockTypesStep, HandsStep, RunsStep DEF TypeInv
<1>2. ASSUME TypeInv, UNCHANGED vars PROVE TypeInv'
  <2>1. UNCHANGED <<now, profile, nextRun, report, events, notices, shared, registry, task, form,
                    claims>>
    BY <1>2 DEF vars, store, history
  <2>2. TaskTypes'
    BY <1>2, <2>1 DEF TypeInv, TaskTypes, TaskFits, Scheduled
  <2>3. StoreTypes'
    BY <1>2, <2>1 DEF TypeInv, StoreTypes
  <2>4. LockTypes'
    BY <1>2, <2>1 DEF TypeInv, LockTypes
  <2>5. \A w \in Workers : Owned(w)' = Owned(w)
    BY <2>1 DEF Owned
  <2>6. RunsIssued' /\ RunsApart'
    BY <1>2, <2>1, <2>5 DEF TypeInv, RunsIssued, RunsApart
  <2>7. QED
    BY <2>2, <2>3, <2>4, <2>6 DEF TypeInv
<1>3. QED
  BY <1>1, <1>2

LEMMA Typed == Spec => []TypeInv
<1>1. Init => TypeInv
  BY TypeInit
<1>2. TypeInv /\ [Next]_vars => TypeInv'
  BY TypeStep
<1>3. QED
  BY <1>1, <1>2, PTL DEF Spec

-----------------------------------------------------------------------------
(* Occurrences.  The next occurrence of a schedule is always later than     *)
(* those claimed: a claim moves it past the poll's clock, and a schedule    *)
(* that is saved starts behind the present.                                 *)

ClocksFit ==
  /\ \A w \in Workers : task[w].at <= now
  /\ \A p \in Profiles : /\ profile[p].next <= MaxTime + Interval
                         /\ profile[p].next = 0 <=> ~profile[p].enabled

ClaimsPast ==
  \A c \in claims :
    /\ c.at <= now
    /\ profile[c.profile].enabled => c.at < profile[c.profile].next

DueInv == ClocksFit /\ ClaimsPast /\ OneRunPerOccurrence

LEMMA PollClock ==
  ASSUME TypeInv, Next, NEW w \in Workers
  PROVE  task'[w].at \in {task[w].at, now, 0}
<1>1. CASE UNCHANGED task
  BY <1>1
<1>2. ASSUME NEW v \in Workers, Untouched(v), task'[v].at \in {task[v].at, now, 0}
      PROVE  task'[w].at \in {task[w].at, now, 0}
  BY <1>2 DEF Untouched
<1>3. CASE \E s \in Schedulers : \/ StartPoll(s) \/ LoadDue(s) \/ Claim(s) \/ ClaimFails(s)
                                 \/ NextRun(s) \/ RecordOutcome(s) \/ RecordMissed(s)
  BY <1>2, <1>3, StartPollGoes, LoadDueGoes, ClaimGoes, ClaimFailsGoes, NextRunGoes,
     RecordOutcomeGoes, RecordMissedGoes, Cast, IdleFits DEF TypeInv, Goes
<1>4. CASE \E v \in Workers : \/ Precheck(v) \/ BlockManual(v) \/ MarkBlocked(v) \/ Begin(v)
                              \/ Work(v) \/ Reconcile(v) \/ Return(v)
  BY <1>2, <1>4, PrecheckGoes, BlockManualGoes, MarkBlockedGoes, BeginGoes, WorkGoes,
     ReconcileGoes, ReturnGoes, IdleFits DEF TypeInv, Goes
<1>5. CASE \E v \in Workers : Crash(v)
  BY <1>5, CrashGoes, IdleFits DEF TypeInv
<1>6. CASE \E d \in Desktops, p \in Profiles : StartManual(d, p)
  BY <1>2, <1>6, StartManualGoes, Cast DEF TypeInv
<1>7. QED
  BY <1>1, <1>3, <1>4, <1>5, <1>6, TaskChanges

(* A claim takes the occurrence that is next, and moves it on. *)
LEMMA ClaimsDue ==
  ASSUME TypeInv, ClocksFit, NEW s \in Schedulers, Claim(s), Claims(s)
  PROVE  LET p == Occurrence(s).profile
         IN  /\ p \in Profiles /\ Occurrence(s).run = nextRun
             /\ profile[p].enabled /\ Occurrence(s).at = profile[p].next
             /\ Occurrence(s).at <= now /\ Occurrence(s).at < profile'[p].next
             /\ profile'[p].enabled /\ profile'[p].next <= MaxTime + Interval
             /\ profile'[p].next # 0
             /\ \A q \in Profiles \ {p} : profile'[q] = profile[q]
             /\ \A q \in Profiles : profile'[q].auth = profile[q].auth
                                    /\ profile'[q].scopes = profile[q].scopes
<1> DEFINE p == task[s].loaded.profile
           row == task[s].loaded.row
           next == NextOccurrence(row.next, task[s].at)
<1>1. /\ s \in Workers /\ p \in Profiles /\ row \in Row /\ row.next <= task[s].at
      /\ task[s].at \in Nat /\ row.next \in Nat /\ task[s].at <= now /\ now \in 0..MaxTime
      /\ MaxTime \in Nat /\ Interval \in Nat \ {0}
  BY ClaimGoes, Cast, BackgroundAssumption
     DEF TypeInv, LoadedRow, Row, TaskTypes, Task, ClocksFit, StoreTypes
<1>2. Occurrence(s).profile = p /\ Occurrence(s).at = row.next /\ Occurrence(s).run = nextRun
  BY DEF Occurrence
<1>3. profile[p].enabled /\ row.next = profile[p].next
  BY DEF Claims, StillDue
<1>4. next \in Nat /\ task[s].at < next /\ next <= task[s].at + Interval
  BY <1>1, NextOccurrenceLater
<1>5. profile' = [profile EXCEPT ![p].next = next]
  BY DEF Claims
<1>6. profile \in [Profiles -> Row]
  BY DEF TypeInv, StoreTypes
<1> HIDE DEF next, p, row
<1>7. /\ profile'[p].next = next /\ profile'[p].enabled = profile[p].enabled
      /\ \A q \in Profiles \ {p} : profile'[q] = profile[q]
      /\ \A q \in Profiles : profile'[q].auth = profile[q].auth
                             /\ profile'[q].scopes = profile[q].scopes
  BY <1>1, <1>5, <1>6 DEF Row
<1>8. row.next <= now /\ row.next < next /\ next <= MaxTime + Interval /\ next # 0
  BY <1>1, <1>4
<1>9. QED
  BY <1>1, <1>2, <1>3, <1>7, <1>8

LEMMA SavesStart ==
  ASSUME TypeInv, ClocksFit, NEW d \in Desktops, NEW enabled \in BOOLEAN, SaveSchedule(d, enabled)
  PROVE  \A p \in Profiles :
           /\ profile'[p].next <= MaxTime + Interval
           /\ profile'[p].next = 0 <=> ~profile'[p].enabled
           /\ profile'[p].enabled => \/ now < profile'[p].next
                                     \/ profile[p].enabled /\ profile'[p].next = profile[p].next
<1> DEFINE p == form[d].profile
           next == IF enabled THEN now + Interval ELSE 0
<1>1. /\ profile \in [Profiles -> Row] /\ now \in 0..MaxTime /\ p \in Profiles
      /\ MaxTime \in Nat /\ Interval \in Nat \ {0}
  BY BackgroundAssumption DEF TypeInv, StoreTypes
<1>2. /\ next \in Nat /\ next <= MaxTime + Interval /\ (next = 0 <=> ~enabled)
      /\ enabled => now < next
  BY <1>1
<1>3. \/ UNCHANGED profile
      \/ profile' = [profile EXCEPT ![p].rev = @ + 1, ![p].enabled = enabled, ![p].next = next]
  BY DEF SaveSchedule
<1> HIDE DEF next, p
<1>4. \A q \in Profiles :
        \/ profile'[q] = profile[q]
        \/ profile'[q].next = next /\ profile'[q].enabled = enabled
  BY <1>1, <1>3 DEF Row
<1>5. QED
  BY <1>2, <1>4 DEF ClocksFit

LEMMA SaveKeepsSchedule ==
  ASSUME TypeInv, NEW d \in Desktops, NEW scopes \in Endpoints, NEW auth \in BOOLEAN,
         NEW advanced \in BOOLEAN, SaveProfile(d, scopes, auth, advanced)
  PROVE  \A p \in Profiles : /\ profile'[p].next = profile[p].next
                             /\ profile'[p].enabled = profile[p].enabled
<1>1. profile \in [Profiles -> Row] /\ form[d].profile \in Profiles
  BY DEF TypeInv, StoreTypes
<1> DEFINE p == form[d].profile
           rev == profile[p].rev + 1
           allowed == Authorization(profile[p], scopes, auth)
<1>2. profile' = [profile EXCEPT ![p] =
        [profile[p] EXCEPT !.rev = rev, !.scopes = scopes, !.auth = allowed]]
  BY DEF SaveProfile
<1> HIDE DEF rev, allowed, p
<1>3. QED
  BY <1>1, <1>2 DEF Row

LEMMA DueStep ==
  ASSUME TypeInv, DueInv, Next
  PROVE  DueInv'
<1>1. /\ now \in Nat /\ now' \in {now, now + 1} /\ profile \in [Profiles -> Row]
      /\ claims \subseteq Claimed
      /\ \A w \in Workers : task[w].at \in Nat /\ task[w].at <= now
  <2>1. now' \in {now, now + 1}
    BY NowChanges DEF Tick
  <2>2. QED
    BY <2>1, BackgroundAssumption DEF TypeInv, StoreTypes, TaskTypes, Task, DueInv, ClocksFit
<1>2. \A w \in Workers : task'[w].at <= now'
  <2> SUFFICES ASSUME NEW w \in Workers PROVE task'[w].at <= now'
    OBVIOUS
  <2>1. task'[w].at \in {task[w].at, now, 0}
    BY PollClock
  <2>2. QED
    BY <1>1, <2>1
<1>3. \A c \in claims : c.at \in Nat /\ c.profile \in Profiles /\ c.at <= now'
  BY <1>1 DEF Claimed, DueInv, ClaimsPast
<1>4. ASSUME NEW s \in Schedulers, Claim(s), Claims(s) PROVE DueInv'
  <2> DEFINE new == Occurrence(s)
  <2>1. /\ claims' = claims \cup {new} /\ UNCHANGED now
    BY <1>4, Frames DEF Claims
  <2>2. /\ new.profile \in Profiles /\ profile[new.profile].enabled
        /\ new.at = profile[new.profile].next
        /\ new.at <= now /\ new.at < profile'[new.profile].next
        /\ profile'[new.profile].enabled /\ profile'[new.profile].next <= MaxTime + Interval
        /\ profile'[new.profile].next # 0
        /\ \A q \in Profiles \ {new.profile} : profile'[q] = profile[q]
    BY <1>4, ClaimsDue DEF DueInv
  <2> HIDE DEF new
  <2>3. ClocksFit'
    <3> SUFFICES ASSUME NEW p \in Profiles
                 PROVE  /\ profile'[p].next <= MaxTime + Interval
                        /\ profile'[p].next = 0 <=> ~profile'[p].enabled
      BY <1>2 DEF ClocksFit
    <3>1. CASE p = new.profile
      BY <2>2, <3>1
    <3>2. CASE p # new.profile
      BY <2>2, <3>2 DEF DueInv, ClocksFit
    <3>3. QED
      BY <3>1, <3>2
  <2>4. ASSUME NEW c \in claims, c.profile = new.profile
        PROVE  c.at < new.at
    BY <2>2, <2>4 DEF DueInv, ClaimsPast
  <2>5. ClaimsPast'
    <3> SUFFICES ASSUME NEW c \in claims'
                 PROVE  /\ c.at <= now'
                        /\ profile'[c.profile].enabled => c.at < profile'[c.profile].next
      BY DEF ClaimsPast
    <3>1. CASE c = new
      BY <2>1, <2>2, <3>1
    <3>2. CASE c \in claims
      <4>1. c.at <= now' /\ c.at \in Nat /\ c.profile \in Profiles
        BY <1>3, <3>2
      <4>2. CASE c.profile = new.profile
        <5>1. c.at < new.at /\ new.at < profile'[c.profile].next
          BY <2>2, <2>4, <3>2, <4>2
        <5>2. profile[new.profile].next \in Nat /\ profile'[c.profile].next \in Nat
          BY <1>1, <2>2, <4>1, ProfileTyped DEF Row, TypeInv
        <5>3. QED
          BY <2>2, <4>1, <5>1, <5>2
      <4>3. CASE c.profile # new.profile
        BY <2>2, <3>2, <4>1, <4>3 DEF DueInv, ClaimsPast
      <4>4. QED
        BY <4>2, <4>3
    <3>3. QED
      BY <2>1, <3>1, <3>2
  <2>6. OneRunPerOccurrence'
    <3> SUFFICES ASSUME NEW c \in claims', NEW d \in claims', c.profile = d.profile, c.at = d.at
                 PROVE  c = d
      BY DEF OneRunPerOccurrence
    <3>1. CASE c \in claims /\ d \in claims
      BY <3>1 DEF DueInv, OneRunPerOccurrence
    <3>2. new.at \in Nat
      BY <1>1, <2>2 DEF Row
    <3>3. c \notin claims => c = new
      BY <2>1
    <3>4. d \notin claims => d = new
      BY <2>1
    <3>5. CASE c = new /\ d \in claims
      BY <1>3, <2>4, <3>2, <3>5
    <3>6. CASE d = new /\ c \in claims
      BY <1>3, <2>4, <3>2, <3>6
    <3>7. QED
      BY <3>1, <3>3, <3>4, <3>5, <3>6
  <2>7. QED
    BY <2>3, <2>5, <2>6 DEF DueInv
<1>5. ASSUME UNCHANGED claims,
             \A p \in Profiles :
               /\ profile'[p].next <= MaxTime + Interval
               /\ profile'[p].next = 0 <=> ~profile'[p].enabled
               /\ profile'[p].enabled => \/ now < profile'[p].next
                                         \/ profile[p].enabled /\ profile'[p].next = profile[p].next
      PROVE  DueInv'
  <2>1. ClocksFit'
    BY <1>2, <1>5 DEF ClocksFit
  <2>2. ClaimsPast'
    <3> SUFFICES ASSUME NEW c \in claims
                 PROVE  /\ c.at <= now'
                        /\ profile'[c.profile].enabled => c.at < profile'[c.profile].next
      BY <1>5 DEF ClaimsPast
    <3>1. /\ c.at \in Nat /\ c.profile \in Profiles /\ c.at <= now /\ c.at <= now'
          /\ profile[c.profile].enabled => c.at < profile[c.profile].next
          /\ profile'[c.profile].next \in Nat
      BY <1>3, ProfileTyped DEF DueInv, ClaimsPast, Row, TypeInv
    <3>2. QED
      BY <1>1, <1>5, <3>1
  <2>3. OneRunPerOccurrence'
    BY <1>5 DEF DueInv, OneRunPerOccurrence
  <2>4. QED
    BY <2>1, <2>2, <2>3 DEF DueInv
<1>6. ASSUME UNCHANGED <<claims, profile>> PROVE DueInv'
  BY <1>5, <1>6 DEF DueInv, ClocksFit
<1>7. ASSUME NEW s \in Schedulers, Claim(s), ~Claims(s) PROVE DueInv'
  BY <1>6, <1>7, ClaimGoes DEF ClaimsNothing, TypeInv
<1>8. ASSUME NEW d \in Desktops, NEW scopes \in Endpoints, NEW auth \in BOOLEAN,
             NEW advanced \in BOOLEAN, SaveProfile(d, scopes, auth, advanced)
      PROVE  DueInv'
  BY <1>5, <1>8, SaveKeepsSchedule, Frames DEF DueInv, ClocksFit
<1>9. ASSUME NEW d \in Desktops, NEW enabled \in BOOLEAN, SaveSchedule(d, enabled)
      PROVE  DueInv'
  BY <1>5, <1>9, SavesStart, Frames DEF DueInv
<1>10. QED
  BY <1>4, <1>6, <1>7, <1>8, <1>9, ProfileChanges, ClaimsChanges

LEMMA DueInit == Init => DueInv
<1> SUFFICES ASSUME Init PROVE DueInv
  OBVIOUS
<1>1. ClocksFit
  <2>1. now = 0 /\ \A w \in Workers : task[w].at = 0
    BY IdleFits DEF Init
  <2>2. ASSUME NEW p \in Profiles PROVE profile[p].next = Interval /\ profile[p].enabled
    <3>1. profile \in [Profiles -> FirstRow]
      BY DEF Init, FirstRow
    <3>2. profile[p] \in FirstRow
      BY <3>1
    <3>3. QED
      BY <3>2 DEF FirstRow
  <2>3. Interval # 0 /\ Interval <= MaxTime + Interval
    BY BackgroundAssumption
  <2>4. QED
    BY <2>1, <2>2, <2>3 DEF ClocksFit
<1>2. claims = {}
  BY DEF Init
<1>3. QED
  BY <1>1, <1>2 DEF DueInv, ClaimsPast, OneRunPerOccurrence

LEMMA Dated == Spec => []DueInv
<1>1. TypeInv /\ DueInv /\ [Next]_vars => DueInv'
  <2>1. ASSUME TypeInv, DueInv, Next PROVE DueInv'
    BY <2>1, DueStep
  <2>2. ASSUME DueInv, UNCHANGED vars PROVE DueInv'
    BY <2>2 DEF DueInv, ClocksFit, ClaimsPast, OneRunPerOccurrence, vars, store, history
  <2>3. QED
    BY <2>1, <2>2
<1>2. QED
  BY <1>1, DueInit, Typed, PTL DEF Spec

(* Scheduler processes that poll at the same time never both claim one
   occurrence of a schedule, however often it is saved meanwhile
   (claim_due_schedule).                                                   *)
THEOREM BackgroundOneRunPerOccurrence == Spec => []OneRunPerOccurrence
<1>1. DueInv => OneRunPerOccurrence
  BY DEF DueInv
<1>2. QED
  BY <1>1, Dated, PTL

-----------------------------------------------------------------------------
(* Authorizations.  A profile, a row that was loaded, a claim and a run     *)
(* that is carried out are authorized only for peers the user said so of.   *)

Working == {"check", "begin", "work", "reconcile"}

ProfilesGranted == \A p \in Profiles : profile[p].auth => <<p, profile[p].scopes>> \in granted

LoadedGranted ==
  \A s \in Schedulers : task[s].pc = "txn" /\ task[s].loaded.row.auth =>
    <<task[s].loaded.profile, task[s].loaded.row.scopes>> \in granted

ClaimsGranted == \A c \in claims : c.auth => <<c.profile, c.scopes>> \in granted

JobsAuthorized == \A s \in Schedulers : task[s].pc \in Working => task[s].job.auth

MovedAuthorized ==
  moved \subseteq Manual \cup Claimed /\ \A m \in moved \cap Claimed : m.auth

AuthInv ==
  /\ ProfilesGranted /\ LoadedGranted /\ ClaimsGranted
  /\ JobsAuthorized /\ MovedAuthorized

LEMMA TwoKinds == Manual \cap Claimed = {}
<1> SUFFICES ASSUME NEW m \in Manual, m \in Claimed PROVE FALSE
  OBVIOUS
<1>1. DOMAIN m = {"run", "profile", "scopes"}
  BY DEF Manual
<1>2. DOMAIN m = {"run", "profile", "scopes", "auth", "at"}
  BY DEF Claimed
<1>3. "auth" \in DOMAIN m /\ "auth" \notin DOMAIN m
  BY <1>1, <1>2
<1>4. QED
  BY <1>3

LEMMA GrantedGrows ==
  ASSUME TypeInv, Next
  PROVE  granted \subseteq granted'
<1>1. ASSUME NEW d \in Desktops, NEW scopes \in Endpoints, NEW auth \in BOOLEAN,
             NEW advanced \in BOOLEAN, SaveProfile(d, scopes, auth, advanced)
      PROVE  granted \subseteq granted'
  BY <1>1 DEF SaveProfile
<1>2. QED
  BY <1>1, GrantedChanges

LEMMA ProfilesGrantedStep ==
  ASSUME TypeInv, DueInv, ProfilesGranted, Next
  PROVE  ProfilesGranted'
<1> SUFFICES ASSUME NEW p \in Profiles, profile'[p].auth
             PROVE  <<p, profile'[p].scopes>> \in granted'
  BY DEF ProfilesGranted
<1>1. granted \subseteq granted' /\ profile \in [Profiles -> Row]
  BY GrantedGrows DEF TypeInv, StoreTypes
<1>2. CASE profile'[p].auth = profile[p].auth /\ profile'[p].scopes = profile[p].scopes
  BY <1>1, <1>2 DEF ProfilesGranted
<1>3. ASSUME NEW s \in Schedulers, Claim(s)
      PROVE  profile'[p].auth = profile[p].auth /\ profile'[p].scopes = profile[p].scopes
  BY <1>3, ClaimGoes, ClaimsDue DEF ClaimsNothing, DueInv, TypeInv
<1>4. ASSUME NEW d \in Desktops, NEW scopes \in Endpoints, NEW auth \in BOOLEAN,
             NEW advanced \in BOOLEAN, SaveProfile(d, scopes, auth, advanced)
      PROVE  <<p, profile'[p].scopes>> \in granted'
  <2> DEFINE q == form[d].profile
             rev == profile[q].rev + 1
             allowed == Authorization(profile[q], scopes, auth)
  <2>1. q \in Profiles /\ profile[q] \in Row
    BY <1>1 DEF TypeInv, StoreTypes
  <2>2. profile' = [profile EXCEPT ![q] =
          [profile[q] EXCEPT !.rev = rev, !.scopes = scopes, !.auth = allowed]]
    BY <1>4 DEF SaveProfile
  <2>3. granted' = IF auth /\ scopes = profile[q].scopes THEN granted \cup {<<q, scopes>>} ELSE granted
    BY <1>4 DEF SaveProfile
  <2>4. allowed <=> auth /\ profile[q].scopes = scopes
    BY DEF Authorization
  <2> HIDE DEF rev, allowed, q
  <2>5. CASE p = q
    <3>1. (profile'[q].auth <=> allowed) /\ profile'[q].scopes = scopes
      BY <1>1, <2>1, <2>2 DEF Row
    <3>2. QED
      BY <2>3, <2>4, <2>5, <3>1
  <2>6. CASE p # q
    <3>1. profile'[p] = profile[p]
      BY <1>1, <2>2, <2>6
    <3>2. QED
      BY <1>2, <3>1
  <2>7. QED
    BY <2>5, <2>6
<1>5. ASSUME NEW d \in Desktops, NEW enabled \in BOOLEAN, SaveSchedule(d, enabled)
      PROVE  profile'[p].auth = profile[p].auth /\ profile'[p].scopes = profile[p].scopes
  <2> DEFINE q == form[d].profile
             next == IF enabled THEN now + Interval ELSE 0
  <2>1. \/ UNCHANGED profile
        \/ profile' = [profile EXCEPT ![q].rev = @ + 1, ![q].enabled = enabled, ![q].next = next]
    BY <1>5 DEF SaveSchedule
  <2> HIDE DEF next, q
  <2>2. CASE profile'[p] = profile[p]
    BY <2>2
  <2>3. CASE profile'[p] # profile[p]
    <3>1. profile'[p] = [profile[p] EXCEPT !.rev = @ + 1, !.enabled = enabled, !.next = next]
      BY <1>1, <2>1, <2>3
    <3>2. profile[p] \in Row
      BY <1>1
    <3>3. QED
      BY <3>1, <3>2 DEF Row
  <2>4. QED
    BY <2>2, <2>3
<1>6. QED
  BY <1>2, <1>3, <1>4, <1>5, ProfileChanges

(* How a scheduler process comes to its transaction, and to work. *)
LEMMA SchedulerMoves ==
  ASSUME TypeInv, Next, NEW s \in Schedulers
  PROVE  /\ task'[s].pc = "txn" =>
              \/ task'[s] = task[s]
              \/ \E p \in Profiles : task'[s].loaded = [profile |-> p, row |-> profile[p]]
         /\ task'[s].pc \in Working =>
              \/ task[s].pc \in Working /\ task'[s].job = task[s].job
              \/ task'[s].job.auth
<1>1. s \in Workers /\ "txn" \notin Working
  BY Cast DEF Working
<1> DEFINE M == /\ task'[s].pc = "txn" =>
                     \/ task'[s] = task[s]
                     \/ \E p \in Profiles : task'[s].loaded = [profile |-> p, row |-> profile[p]]
                /\ task'[s].pc \in Working =>
                     \/ task[s].pc \in Working /\ task'[s].job = task[s].job
                     \/ task'[s].job.auth
<1>2. CASE task'[s] = task[s]
  BY <1>2
<1>3. CASE task'[s].pc \notin {"txn"} \cup Working
  BY <1>3
<1>4. ASSUME NEW v \in Workers, Untouched(v), v = s => M PROVE M
  <2>1. v # s => task'[s] = task[s]
    BY <1>1, <1>4 DEF Untouched
  <2>2. QED
    BY <1>2, <1>4, <2>1
<1>5. ASSUME NEW v \in Schedulers, StartPoll(v) \/ ClaimFails(v) \/ RecordOutcome(v) \/ RecordMissed(v) \/ Claim(v)
      PROVE  M
  <2>1. /\ v \in Workers /\ Untouched(v)
        /\ task'[v].pc \in {"claim", "idle", "missed"}
    BY <1>5, StartPollGoes, ClaimFailsGoes, RecordOutcomeGoes, RecordMissedGoes, ClaimGoes, Cast,
       IdleFits DEF TypeInv, Goes
  <2>2. v = s => M
    BY <1>3, <2>1 DEF Working
  <2>3. QED
    BY <1>4, <2>1, <2>2
<1>6. ASSUME NEW v \in Schedulers, LoadDue(v) PROVE M
  <2>1. /\ v \in Workers /\ Untouched(v)
        /\ \/ task'[v].pc = "claim"
           \/ \E p \in Profiles : /\ task'[v].pc = "txn"
                                  /\ task'[v].loaded = [profile |-> p, row |-> profile[p]]
    BY <1>6, LoadDueGoes, Cast DEF TypeInv
  <2>2. v = s => M
    BY <1>1, <1>3, <2>1 DEF Working
  <2>3. QED
    BY <1>4, <2>1, <2>2
<1>7. ASSUME NEW v \in Schedulers, NextRun(v) PROVE M
  <2>1. /\ v \in Workers /\ Untouched(v)
        /\ \/ task'[v].pc \in {"idle", "mark"}
           \/ task'[v].pc = "check" /\ task'[v].job.auth
    BY <1>7, NextRunGoes, Cast, IdleFits DEF TypeInv
  <2>2. v = s => M
    BY <1>3, <2>1 DEF Working
  <2>3. QED
    BY <1>4, <2>1, <2>2
<1>8. ASSUME NEW v \in Workers, \/ Precheck(v) \/ BlockManual(v) \/ MarkBlocked(v) \/ Begin(v)
                                \/ Work(v) \/ Reconcile(v)
      PROVE  M
  <2>1. /\ Untouched(v) /\ task'[v].job = task[v].job
        /\ task'[v].pc \in {"mark", "block", "return"} \cup Working
        /\ task[v].pc \in {"mark", "block"} \cup Working
        /\ task'[v].pc \in Working => task[v].pc \in Working
    BY <1>8, PrecheckGoes, BlockManualGoes, MarkBlockedGoes, BeginGoes, WorkGoes, ReconcileGoes
       DEF TypeInv, Goes, Working
  <2>2. v = s => M
    BY <1>1, <2>1
  <2>3. QED
    BY <1>4, <2>1, <2>2
<1>9. ASSUME NEW v \in Workers, Return(v) PROVE M
  <2>1. Untouched(v) /\ task'[v].pc \in {"event", "idle"}
    BY <1>9, ReturnGoes, IdleFits DEF TypeInv
  <2>2. v = s => M
    BY <1>3, <2>1 DEF Working
  <2>3. QED
    BY <1>4, <2>1, <2>2
<1>10. ASSUME NEW v \in Workers, Crash(v) PROVE M
  <2>1. task'[s] = task[s] \/ task'[s].pc = "idle"
    BY <1>1, <1>10, CrashGoes, IdleFits DEF TypeInv
  <2>2. QED
    BY <1>2, <1>3, <2>1 DEF Working
<1>11. ASSUME NEW d \in Desktops, NEW p \in Profiles, StartManual(d, p) PROVE M
  <2>1. d \in Workers /\ Untouched(d) /\ d # s
    BY <1>11, StartManualGoes, Cast DEF TypeInv
  <2>2. QED
    BY <1>4, <2>1
<1>12. QED
  BY <1>2, <1>5, <1>6, <1>7, <1>8, <1>9, <1>10, <1>11, TaskChanges

LEMMA AuthStep ==
  ASSUME TypeInv, DueInv, AuthInv, Next
  PROVE  AuthInv'
<1>1. granted \subseteq granted'
  BY GrantedGrows
<1>2. ProfilesGranted'
  BY ProfilesGrantedStep DEF AuthInv
<1>3. LoadedGranted'
  <2> SUFFICES ASSUME NEW s \in Schedulers, task'[s].pc = "txn", task'[s].loaded.row.auth
               PROVE  <<task'[s].loaded.profile, task'[s].loaded.row.scopes>> \in granted'
    BY DEF LoadedGranted
  <2>1. CASE task'[s] = task[s]
    BY <1>1, <2>1 DEF AuthInv, LoadedGranted
  <2>2. CASE \E p \in Profiles : task'[s].loaded = [profile |-> p, row |-> profile[p]]
    BY <1>1, <2>2 DEF AuthInv, ProfilesGranted
  <2>3. QED
    BY <2>1, <2>2, SchedulerMoves
<1>4. ClaimsGranted'
  <2> SUFFICES ASSUME NEW c \in claims', c.auth PROVE <<c.profile, c.scopes>> \in granted'
    BY DEF ClaimsGranted
  <2>1. CASE c \in claims
    BY <1>1, <2>1 DEF AuthInv, ClaimsGranted
  <2>2. CASE c \notin claims
    <3>1. PICK s \in Schedulers : Claim(s) /\ c = Occurrence(s) /\ task[s].pc = "txn"
      <4>1. PICK s \in Schedulers : Claim(s)
        BY <2>2, ClaimsChanges
      <4>2. task[s].pc = "txn" /\ (Claims(s) \/ ClaimsNothing(s))
        BY <4>1, ClaimGoes DEF TypeInv
      <4>3. c = Occurrence(s)
        BY <2>2, <4>2 DEF Claims, ClaimsNothing
      <4>4. QED
        BY <4>1, <4>2, <4>3
    <3>2. /\ c.auth = task[s].loaded.row.auth /\ c.profile = task[s].loaded.profile
          /\ c.scopes = task[s].loaded.row.scopes
      BY <3>1 DEF Occurrence
    <3>3. QED
      BY <1>1, <3>1, <3>2 DEF AuthInv, LoadedGranted
  <2>3. QED
    BY <2>1, <2>2
<1>5. JobsAuthorized'
  BY SchedulerMoves DEF AuthInv, JobsAuthorized
<1>6. MovedAuthorized'
  <2>1. ASSUME NEW w \in Workers, Work(w)
        PROVE  /\ moved' = moved \cup {Job(w)} /\ Job(w) \in Manual \cup Claimed
               /\ Job(w) \in Claimed => Job(w).auth
    <3>1. moved' = moved \cup {Job(w)} /\ task[w].pc = "work"
      BY <2>1 DEF Work
    <3>2. Job(w) \in IF Scheduled(w) THEN Claimed ELSE Manual
      BY <3>1 DEF TypeInv, TaskTypes, TaskFits, Active, Job
    <3>3. CASE Scheduled(w)
      BY <3>1, <3>2, <3>3 DEF AuthInv, JobsAuthorized, Working, Job, Scheduled
    <3>4. CASE ~Scheduled(w)
      BY <3>1, <3>2, <3>4, TwoKinds
    <3>5. QED
      BY <3>3, <3>4
  <2>2. QED
    BY <2>1, MovedChanges DEF AuthInv, MovedAuthorized
<1>7. QED
  BY <1>2, <1>3, <1>4, <1>5, <1>6 DEF AuthInv

LEMMA AuthInit == Init => AuthInv
<1> SUFFICES ASSUME Init PROVE AuthInv
  OBVIOUS
<1>1. \A w \in Workers : task[w].pc = "idle"
  BY IdleFits DEF Init
<1>2. ProfilesGranted
  BY DEF Init, ProfilesGranted
<1>3. QED
  BY <1>1, <1>2, Cast DEF Init, AuthInv, LoadedGranted, ClaimsGranted, JobsAuthorized, Working,
     MovedAuthorized

LEMMA Authorized == Spec => []AuthInv
<1>1. TypeInv /\ DueInv /\ AuthInv /\ [Next]_vars => AuthInv'
  <2>1. ASSUME TypeInv, DueInv, AuthInv, Next PROVE AuthInv'
    BY <2>1, AuthStep
  <2>2. ASSUME AuthInv, UNCHANGED vars PROVE AuthInv'
    BY <2>2 DEF AuthInv, ProfilesGranted, LoadedGranted, ClaimsGranted, JobsAuthorized,
       MovedAuthorized, vars, store, history
  <2>3. QED
    BY <2>1, <2>2
<1>2. QED
  BY <1>1, AuthInit, Typed, Dated, PTL DEF Spec

(* A scheduled run changes files only on the peers the user authorized,
   whatever is saved between its claim and its work
   (update_profile_with_authorizations_if_revision, claim_due_schedule,
   validate_unattended_authorizations).                                    *)
THEOREM BackgroundMovesOnlyAuthorized == Spec => []MovesOnlyAuthorized
<1>1. TypeInv /\ AuthInv => MovesOnlyAuthorized
  BY DEF TypeInv, StoreTypes, AuthInv, ClaimsGranted, MovedAuthorized, MovesOnlyAuthorized
<1>2. QED
  BY <1>1, Typed, Authorized, PTL

-----------------------------------------------------------------------------
(* Leases.  Whoever shares a registry sees the same value, a lease owns     *)
(* exactly the peers of its run there, and no two processes that share a    *)
(* registry have the same lease.                                            *)

Unleased == {"idle", "claim", "txn", "check", "event", "missed"}
Leased == {"begin", "work", "reconcile"}

LeaseFits(w) ==
  /\ task[w].pc \in Unleased => task[w].lease = 0
  /\ task[w].pc \in Leased => task[w].lease # 0

Held(w, token) == {h.scope : h \in {h \in registry[w].held : h.token = token}}

OneRegistry == shared => \A v, w \in Workers : registry[v] = registry[w]

TokensIssued ==
  \A w \in Workers : /\ task[w].lease <= registry[w].next
                     /\ \A h \in registry[w].held : h.token <= registry[w].next

LeasesApart ==
  shared => \A v, w \in Workers : v # w /\ task[v].lease # 0 => task[v].lease # task[w].lease

LeaseOwns == \A w \in Workers : task[w].lease # 0 => Held(w, task[w].lease) = Job(w).scopes

HeldApart(reg) == \A g, h \in reg.held : g.token # h.token => ~Overlaps(g.scope, h.scope)

LeaseInv ==
  /\ OneRegistry /\ TokensIssued /\ LeasesApart /\ LeaseOwns
  /\ \A w \in Workers : LeaseFits(w) /\ HeldApart(registry[w])

LEMMA OverlapsBothWays ==
  ASSUME NEW s, NEW t, Overlaps(s, t)
  PROVE  Overlaps(t, s)
BY DEF Overlaps

(* Leases stay or are forgotten, and the registries stay. *)
LEMMA LeasesKept ==
  ASSUME TypeInv, LeaseInv, UNCHANGED <<shared, registry>>,
         \A v \in Workers : LeaseFits(v)',
         \A v \in Workers : \/ task'[v].lease = 0
                            \/ task'[v].lease = task[v].lease /\ task'[v].job = task[v].job
  PROVE  LeaseInv'
<1>1. registry \in [Workers -> Registry]
  BY DEF TypeInv, LockTypes
<1>2. OneRegistry' /\ \A w \in Workers : HeldApart(registry[w])'
  BY DEF LeaseInv, OneRegistry, HeldApart
<1>3. TokensIssued'
  <2>1. \A w \in Workers : registry[w].next \in Nat
    BY <1>1 DEF Registry
  <2>2. QED
    BY <2>1 DEF LeaseInv, TokensIssued
<1>4. LeasesApart'
  BY DEF LeaseInv, LeasesApart
<1>5. LeaseOwns'
  BY DEF LeaseInv, LeaseOwns, Held, Job
<1>6. QED
  BY <1>2, <1>3, <1>4, <1>5 DEF LeaseInv

(* One process goes on, and the registries stay. *)
LEMMA LeaseKept ==
  ASSUME TypeInv, LeaseInv, UNCHANGED <<shared, registry>>, NEW w \in Workers, Untouched(w),
         LeaseFits(w)',
         \/ task'[w].lease = 0
         \/ task'[w].lease = task[w].lease /\ task'[w].job = task[w].job
  PROVE  LeaseInv'
<1>1. ASSUME NEW v \in Workers, v # w PROVE task'[v] = task[v] /\ LeaseFits(v)'
  <2>1. task'[v] = task[v] /\ LeaseFits(v)
    BY <1>1 DEF Untouched, LeaseInv
  <2>2. QED
    BY <2>1 DEF LeaseFits
<1>2. \A v \in Workers : LeaseFits(v)'
  BY <1>1
<1>3. \A v \in Workers : \/ task'[v].lease = 0
                         \/ task'[v].lease = task[v].lease /\ task'[v].job = task[v].job
  BY <1>1
<1>4. QED
  BY <1>2, <1>3, LeasesKept

(* acquire, for a run that has no lease yet. *)
LEMMA LeaseTaken ==
  ASSUME TypeInv, LeaseInv, UNCHANGED shared, NEW w \in Workers, Untouched(w),
         task[w].pc = "check",
         ~Refused(registry[w], Job(w).scopes),
         SetRegistry(w, Grant(registry[w], Job(w).run, Job(w).scopes)),
         task'[w].pc = "begin", task'[w].job = task[w].job, task'[w].lease = Locked(w)
  PROVE  LeaseInv'
<1> DEFINE reg == registry[w]
           new == Grant(reg, Job(w).run, Job(w).scopes)
           token == Locked(w)
           fresh == {[scope |-> s, owner |-> Job(w).run, token |-> token] : s \in Job(w).scopes}
<1>1. /\ registry \in [Workers -> Registry] /\ shared \in BOOLEAN
      /\ Job(w).run \in Nat /\ Job(w).scopes \in Endpoints
  BY JobTyped DEF TypeInv, LockTypes, Active
<1>2. new \in Registry /\ new.next = token /\ new.held = reg.held \cup fresh
  BY <1>1, GrantTyped DEF Locked
<1>3. /\ reg.next \in Nat /\ token = reg.next + 1 /\ token \in Nat \ {0}
      /\ \A h \in reg.held : h.token \in Nat
  BY <1>1 DEF Locked, Registry
<1>4. \A h \in fresh : h.token = token /\ h.scope \in Job(w).scopes
  OBVIOUS
<1>5. {h.scope : h \in fresh} = Job(w).scopes
  <2>1. ASSUME NEW s \in Job(w).scopes PROVE \E h \in fresh : h.scope = s
    <3>1. [scope |-> s, owner |-> Job(w).run, token |-> token] \in fresh
      OBVIOUS
    <3>2. [scope |-> s, owner |-> Job(w).run, token |-> token].scope = s
      OBVIOUS
    <3>3. QED
      BY <3>1, <3>2
  <2>2. QED
    BY <1>4, <2>1
<1>6. \A g \in fresh, h \in reg.held : ~Overlaps(g.scope, h.scope)
  BY <1>4 DEF Refused
<1>7. /\ \A v \in Sharers(w) : registry'[v] = new
      /\ \A v \in Workers \ Sharers(w) : registry'[v] = registry[v]
      /\ Sharers(w) \subseteq Workers /\ w \in Sharers(w)
  BY <1>2, SetRegistryEffect DEF TypeInv
<1>8. \A v \in Sharers(w) : registry[v] = reg
  BY DEF Sharers, LeaseInv, OneRegistry
<1>9. \A h \in reg.held : h.token <= reg.next
  BY DEF LeaseInv, TokensIssued
<1>10. \A v \in Workers \ {w} : task'[v] = task[v]
  BY DEF Untouched
<1>11. \A v \in Workers : task[v].lease \in Nat /\ task[v].lease <= registry[v].next
  BY DEF TypeInv, TaskTypes, Task, LeaseInv, TokensIssued
<1> HIDE DEF new, token, fresh, reg
<1>12. HeldApart(new)
  <2> SUFFICES ASSUME NEW g \in new.held, NEW h \in new.held, g.token # h.token
               PROVE  ~Overlaps(g.scope, h.scope)
    BY DEF HeldApart
  <2>1. CASE g \in fresh /\ h \in reg.held
    BY <1>6, <2>1
  <2>2. CASE g \in reg.held /\ h \in fresh
    BY <1>6, <2>2, OverlapsBothWays
  <2>3. CASE g \in reg.held /\ h \in reg.held
    BY <2>3 DEF LeaseInv, HeldApart, reg
  <2>4. CASE g \in fresh /\ h \in fresh
    BY <1>4, <2>4
  <2>5. QED
    BY <1>2, <2>1, <2>2, <2>3, <2>4
<1>13. OneRegistry'
  BY <1>7 DEF OneRegistry, Sharers
<1>14. TokensIssued'
  <2> SUFFICES ASSUME NEW v \in Workers
               PROVE  /\ task'[v].lease <= registry'[v].next
                      /\ \A h \in registry'[v].held : h.token <= registry'[v].next
    BY DEF TokensIssued
  <2>1. CASE v \in Sharers(w)
    <3>1. registry'[v] = new /\ registry[v] = reg
      BY <1>7, <1>8, <2>1
    <3>2. task'[v].lease <= token
      BY <1>3, <1>10, <1>11, <3>1 DEF token
    <3>3. \A h \in new.held : h.token <= token
      BY <1>2, <1>3, <1>4, <1>9
    <3>4. QED
      BY <1>2, <3>1, <3>2, <3>3
  <2>2. CASE v \notin Sharers(w)
    <3>1. registry'[v] = registry[v] /\ task'[v] = task[v]
      BY <1>7, <1>10, <2>2
    <3>2. QED
      BY <3>1 DEF LeaseInv, TokensIssued
  <2>3. QED
    BY <2>1, <2>2
<1>15. LeasesApart'
  <2> SUFFICES ASSUME shared', NEW u \in Workers, NEW v \in Workers, u # v, task'[u].lease # 0
               PROVE  task'[u].lease # task'[v].lease
    BY DEF LeasesApart
  <2>1. \A x \in Workers : task[x].lease < token
    BY <1>3, <1>8, <1>11 DEF Sharers
  <2>2. CASE u = w
    BY <1>3, <1>10, <2>1, <2>2, <1>11 DEF token
  <2>3. CASE v = w
    BY <1>3, <1>10, <2>1, <2>3, <1>11 DEF token
  <2>4. CASE u # w /\ v # w
    BY <1>10, <2>4 DEF LeaseInv, LeasesApart
  <2>5. QED
    BY <2>2, <2>3, <2>4
<1>16. LeaseOwns'
  <2> SUFFICES ASSUME NEW v \in Workers, task'[v].lease # 0
               PROVE  Held(v, task[v].lease)' = task'[v].job.scopes
    BY DEF LeaseOwns, Job, Held
  <2>1. CASE v = w
    <3>1. registry'[v] = new /\ task'[v].lease = token /\ task'[v].job.scopes = Job(w).scopes
      BY <1>7, <2>1 DEF Job, token
    <3>2. {h \in new.held : h.token = token} = fresh
      BY <1>2, <1>3, <1>4, <1>9
    <3>3. QED
      BY <1>5, <3>1, <3>2 DEF Held
  <2>2. CASE v # w
    <3>1. task'[v] = task[v] /\ Held(v, task[v].lease) = Job(v).scopes
      BY <1>10, <2>2 DEF LeaseInv, LeaseOwns
    <3>2. CASE v \in Sharers(w)
      <4>1. registry'[v] = new /\ registry[v] = reg
        BY <1>7, <1>8, <3>2
      <4>2. task[v].lease # token
        BY <1>3, <1>11, <4>1
      <4>3. {h \in new.held : h.token = task[v].lease} = {h \in reg.held : h.token = task[v].lease}
        BY <1>2, <1>4, <4>2
      <4>4. QED
        BY <3>1, <4>1, <4>3 DEF Held, Job
    <3>3. CASE v \notin Sharers(w)
      <4>1. registry'[v] = registry[v]
        BY <1>7, <3>3
      <4>2. QED
        BY <3>1, <4>1 DEF Held, Job
    <3>4. QED
      BY <3>2, <3>3
  <2>3. QED
    BY <2>1, <2>2
<1>17. ASSUME NEW v \in Workers PROVE LeaseFits(v)' /\ HeldApart(registry[v])'
  <2>1. LeaseFits(v)'
    <3>1. CASE v = w
      BY <1>3, <3>1 DEF LeaseFits, Unleased, token
    <3>2. CASE v # w
      BY <1>10, <3>2 DEF LeaseInv, LeaseFits
    <3>3. QED
      BY <3>1, <3>2
  <2>2. HeldApart(registry'[v])
    <3>1. CASE v \in Sharers(w)
      BY <1>7, <1>12, <3>1
    <3>2. CASE v \notin Sharers(w)
      <4>1. registry'[v] = registry[v]
        BY <1>7, <3>2
      <4>2. QED
        BY <4>1 DEF LeaseInv
    <3>3. QED
      BY <3>1, <3>2
  <2>3. QED
    BY <2>1, <2>2 DEF HeldApart
<1>18. QED
  BY <1>13, <1>14, <1>15, <1>16, <1>17 DEF LeaseInv

(* Drop for PeerScopeLock: what the lease of w owned is free, what others own stays. *)
LEMMA LeaseGivenBack ==
  ASSUME TypeInv, LeaseInv, UNCHANGED shared, NEW w \in Workers, Untouched(w),
         task[w].lease # 0,
         SetRegistry(w, GiveBack(registry[w], task[w].lease)),
         task'[w].lease = 0, LeaseFits(w)'
  PROVE  LeaseInv'
<1> DEFINE reg == registry[w]
           new == GiveBack(reg, task[w].lease)
<1>1. registry \in [Workers -> Registry]
  BY DEF TypeInv, LockTypes
<1>2. new \in Registry /\ new.next = reg.next /\ new.held = {h \in reg.held : h.token # task[w].lease}
  BY <1>1, GiveBackTyped
<1>3. /\ \A v \in Sharers(w) : registry'[v] = new
      /\ \A v \in Workers \ Sharers(w) : registry'[v] = registry[v]
      /\ Sharers(w) \subseteq Workers /\ w \in Sharers(w)
  BY <1>2, SetRegistryEffect DEF TypeInv
<1>4. \A v \in Sharers(w) : registry[v] = reg
  BY DEF Sharers, LeaseInv, OneRegistry
<1>5. \A v \in Workers \ {w} : task'[v] = task[v]
  BY DEF Untouched
<1>6. \A v \in Workers : registry[v].next \in Nat
  BY <1>1 DEF Registry
<1> HIDE DEF new, reg
<1>7. OneRegistry'
  BY <1>3 DEF OneRegistry, Sharers
<1>8. ASSUME NEW v \in Workers
      PROVE  registry'[v].next = registry[v].next /\ registry'[v].held \subseteq registry[v].held
  <2>1. CASE v \in Sharers(w)
    BY <1>2, <1>3, <1>4, <2>1
  <2>2. CASE v \notin Sharers(w)
    BY <1>3, <2>2
  <2>3. QED
    BY <2>1, <2>2
<1>9. TokensIssued'
  <2> SUFFICES ASSUME NEW v \in Workers
               PROVE  /\ task'[v].lease <= registry'[v].next
                      /\ \A h \in registry'[v].held : h.token <= registry'[v].next
    BY DEF TokensIssued
  <2>1. task'[v].lease \in {0, task[v].lease}
    BY <1>5
  <2>2. QED
    BY <1>6, <1>8, <2>1 DEF LeaseInv, TokensIssued
<1>10. LeasesApart'
  BY <1>5 DEF LeaseInv, LeasesApart
<1>11. LeaseOwns'
  <2> SUFFICES ASSUME NEW v \in Workers, task'[v].lease # 0
               PROVE  Held(v, task[v].lease)' = task'[v].job.scopes
    BY DEF LeaseOwns, Job, Held
  <2>1. v # w /\ task'[v] = task[v] /\ Held(v, task[v].lease) = Job(v).scopes
    BY <1>5 DEF LeaseInv, LeaseOwns
  <2>2. CASE v \in Sharers(w)
    <3>1. registry'[v] = new /\ registry[v] = reg
      BY <1>3, <1>4, <2>2
    <3>2. task[v].lease # task[w].lease
      BY <2>1, <2>2 DEF Sharers, LeaseInv, LeasesApart
    <3>3. {h \in new.held : h.token = task[v].lease} = {h \in reg.held : h.token = task[v].lease}
      BY <1>2, <3>2
    <3>4. QED
      BY <2>1, <3>1, <3>3 DEF Held, Job
  <2>3. CASE v \notin Sharers(w)
    <3>1. registry'[v] = registry[v]
      BY <1>3, <2>3
    <3>2. QED
      BY <2>1, <3>1 DEF Held, Job
  <2>4. QED
    BY <2>2, <2>3
<1>12. ASSUME NEW v \in Workers PROVE LeaseFits(v)' /\ HeldApart(registry[v])'
  <2>1. LeaseFits(v)'
    BY <1>5 DEF LeaseInv, LeaseFits
  <2>2. HeldApart(registry'[v])
    BY <1>8 DEF LeaseInv, HeldApart
  <2>3. QED
    BY <2>1, <2>2 DEF HeldApart
<1>13. QED
  BY <1>7, <1>9, <1>10, <1>11, <1>12 DEF LeaseInv

(* A process dies, with its registry and all threads that use it. *)
LEMMA LeasesDie ==
  ASSUME TypeInv, LeaseInv, UNCHANGED shared, NEW w \in Workers, Crash(w)
  PROVE  LeaseInv'
<1>1. registry \in [Workers -> Registry] /\ SetRegistry(w, NoLeases)
  BY DEF TypeInv, LockTypes, Crash
<1>2. /\ \A v \in Sharers(w) : registry'[v] = NoLeases
      /\ \A v \in Workers \ Sharers(w) : registry'[v] = registry[v]
      /\ Sharers(w) \subseteq Workers /\ w \in Sharers(w)
  BY <1>1, NoLeasesTyped, SetRegistryEffect DEF TypeInv
<1>3. \A v \in Workers : task'[v] = IF v \in Sharers(w) THEN Idle ELSE task[v]
  BY CrashGoes DEF TypeInv
<1>4. OneRegistry'
  BY <1>2 DEF OneRegistry, Sharers
<1>5. LeasesApart'
  BY <1>3, IdleFits DEF LeaseInv, LeasesApart
<1>6. ASSUME NEW v \in Workers
      PROVE  /\ (task[v].lease <= registry[v].next)'
             /\ (\A h \in registry[v].held : h.token <= registry[v].next)'
             /\ (task[v].lease # 0 => Held(v, task[v].lease) = Job(v).scopes)'
             /\ LeaseFits(v)' /\ HeldApart(registry[v])'
  <2>1. CASE v \in Sharers(w)
    <3>1. task'[v] = Idle /\ registry'[v] = NoLeases
      BY <1>2, <1>3, <2>1
    <3>2. QED
      BY <3>1, IdleFits, NoLeasesTyped DEF LeaseFits, HeldApart, Leased
  <2>2. CASE v \notin Sharers(w)
    <3>1. task'[v] = task[v] /\ registry'[v] = registry[v]
      BY <1>2, <1>3, <2>2
    <3>2. QED
      BY <3>1 DEF LeaseInv, TokensIssued, LeaseOwns, LeaseFits, HeldApart, Held, Job
  <2>3. QED
    BY <2>1, <2>2
<1>7. QED
  BY <1>4, <1>5, <1>6 DEF LeaseInv, TokensIssued, LeaseOwns

LEMMA LeaseStep ==
  ASSUME TypeInv, LeaseInv, Next
  PROVE  LeaseInv'
<1>1. UNCHANGED shared
  BY SharedStays
<1>2. ASSUME UNCHANGED <<task, registry>> PROVE LeaseInv'
  <2>1. \A v \in Workers : LeaseFits(v)'
    BY <1>2 DEF LeaseInv, LeaseFits
  <2>2. QED
    BY <1>1, <1>2, <2>1, LeasesKept
<1>3. ASSUME NEW w \in Workers, Untouched(w), UNCHANGED registry, task[w].pc \in Unleased,
             task'[w].lease = task[w].lease, task'[w].pc \notin Leased
      PROVE  LeaseInv'
  <2>1. task'[w].lease = 0
    BY <1>3 DEF LeaseInv, LeaseFits
  <2>2. LeaseFits(w)'
    BY <1>3, <2>1 DEF LeaseFits
  <2>3. QED
    BY <1>1, <1>3, <2>1, <2>2, LeaseKept
<1>4. ASSUME NEW w \in Workers, UNCHANGED registry, NEW pc \in PCs, Goes(w, pc),
             pc \notin Unleased, pc \in Leased => task[w].pc \in Leased
      PROVE  LeaseInv'
  <2>1. /\ Untouched(w) /\ task'[w].pc = pc /\ task'[w].lease = task[w].lease
        /\ task'[w].job = task[w].job
    BY <1>4 DEF Goes
  <2>2. LeaseFits(w)'
    BY <1>4, <2>1 DEF LeaseInv, LeaseFits
  <2>3. QED
    BY <1>1, <1>4, <2>1, <2>2, LeaseKept
<1>5. ASSUME NEW w \in Workers, Untouched(w), UNCHANGED registry, task'[w] = Idle PROVE LeaseInv'
  <2>1. LeaseFits(w)'
    BY <1>5, IdleFits DEF LeaseFits, Leased
  <2>2. QED
    BY <1>1, <1>5, <2>1, IdleFits, LeaseKept
<1>6. ASSUME NEW s \in Schedulers,
             StartPoll(s) \/ LoadDue(s) \/ Claim(s) \/ RecordOutcome(s) \/ RecordMissed(s)
      PROVE  LeaseInv'
  <2>1. UNCHANGED registry /\ s \in Workers
    BY <1>6, Cast DEF StartPoll, LoadDue, Claim, RecordOutcome, RecordMissed
  <2>2. task[s].pc \in {"idle", "claim", "txn", "event", "missed"} /\ Untouched(s)
    BY <1>6, StartPollGoes, LoadDueGoes, ClaimGoes, RecordOutcomeGoes, RecordMissedGoes DEF TypeInv
  <2>3. task'[s].pc \in {"claim", "txn", "missed"}
    BY <1>6, StartPollGoes, LoadDueGoes, ClaimGoes, RecordOutcomeGoes, RecordMissedGoes
       DEF TypeInv, Goes
  <2>4. task'[s].lease = task[s].lease \/ (StartPoll(s) /\ task'[s].lease = 0 /\ task[s].pc = "idle")
    BY <1>6, StartPollGoes, LoadDueGoes, ClaimGoes, RecordOutcomeGoes, RecordMissedGoes
       DEF TypeInv, Goes
  <2>5. task'[s].lease = task[s].lease
    BY <2>1, <2>4 DEF LeaseInv, LeaseFits, Unleased
  <2>6. QED
    BY <1>3, <2>1, <2>2, <2>3, <2>5 DEF Unleased, Leased
<1>7. ASSUME NEW s \in Schedulers, ClaimFails(s) PROVE LeaseInv'
  BY <1>5, <1>7, ClaimFailsGoes, Cast DEF TypeInv, ClaimFails
<1>8. ASSUME NEW s \in Schedulers, NextRun(s) PROVE LeaseInv'
  <2>1. UNCHANGED registry /\ s \in Workers /\ Untouched(s) /\ task[s].pc = "claim"
    BY <1>8, Cast, NextRunGoes DEF NextRun, TypeInv
  <2>2. CASE task'[s] = Idle
    BY <1>5, <2>1, <2>2
  <2>3. CASE task'[s].lease = task[s].lease /\ task'[s].pc \in {"check", "mark"}
    BY <1>3, <2>1, <2>3 DEF Unleased, Leased
  <2>4. QED
    BY <1>8, <2>2, <2>3, NextRunGoes DEF TypeInv
<1>9. ASSUME NEW w \in Workers, BlockManual(w) \/ MarkBlocked(w) \/ Begin(w) \/ Work(w) \/ Reconcile(w)
      PROVE  LeaseInv'
  <2>1. UNCHANGED registry
    BY <1>9 DEF BlockManual, MarkBlocked, Begin, Work, Reconcile
  <2>2. \/ Goes(w, "mark") \/ Goes(w, "return") \/ Goes(w, "block")
        \/ (Goes(w, "work") \/ Goes(w, "reconcile")) /\ task[w].pc \in {"begin", "work"}
    BY <1>9, BlockManualGoes, MarkBlockedGoes, BeginGoes, WorkGoes, ReconcileGoes DEF TypeInv
  <2>3. /\ {"mark", "return", "block", "work", "reconcile"} \subseteq PCs \ Unleased
        /\ {"mark", "return", "block"} \cap Leased = {} /\ {"begin", "work"} \subseteq Leased
    BY DEF PCs, Unleased, Leased
  <2>4. QED
    BY <1>4, <2>1, <2>2, <2>3
<1>10. ASSUME NEW w \in Workers, Precheck(w) PROVE LeaseInv'
  <2>1. CASE (Goes(w, "mark") \/ Goes(w, "block")) /\ UNCHANGED registry
    <3>1. {"mark", "block"} \subseteq PCs \ Unleased /\ {"mark", "block"} \cap Leased = {}
      BY DEF PCs, Unleased, Leased
    <3>2. QED
      BY <1>4, <2>1, <3>1
  <2>2. QED
    BY <1>1, <1>10, <2>1, PrecheckGoes, LeaseTaken DEF TypeInv
<1>11. ASSUME NEW w \in Workers, Return(w) PROVE LeaseInv'
  <2>1. task'[w].lease = 0 /\ task'[w].pc \in {"event", "idle"} /\ Untouched(w)
    BY <1>11, ReturnGoes, IdleFits DEF TypeInv
  <2>2. LeaseFits(w)'
    BY <2>1 DEF LeaseFits, Leased
  <2>3. CASE task[w].lease = 0
    <3>1. UNCHANGED registry
      BY <1>11, <2>3, ReturnGoes DEF TypeInv
    <3>2. QED
      BY <1>1, <2>1, <2>2, <3>1, LeaseKept
  <2>4. CASE task[w].lease # 0
    <3>1. SetRegistry(w, GiveBack(registry[w], task[w].lease))
      BY <1>11, <2>4, ReturnGoes DEF TypeInv
    <3>2. QED
      BY <1>1, <2>1, <2>2, <2>4, <3>1, LeaseGivenBack
  <2>5. QED
    BY <2>3, <2>4
<1>12. ASSUME NEW d \in Desktops, NEW p \in Profiles, StartManual(d, p) PROVE LeaseInv'
  <2>1. UNCHANGED registry /\ d \in Workers /\ Untouched(d) /\ task[d].pc = "idle"
        /\ task'[d].pc = "check" /\ task'[d].lease = 0
    BY <1>12, Cast, StartManualGoes DEF StartManual, TypeInv
  <2>2. LeaseFits(d)'
    BY <2>1 DEF LeaseFits, Leased
  <2>3. QED
    BY <1>1, <2>1, <2>2, LeaseKept
<1>13. ASSUME NEW w \in Workers, Crash(w) PROVE LeaseInv'
  BY <1>1, <1>13, LeasesDie
<1>14. QED
  BY <1>2, <1>6, <1>7, <1>8, <1>9, <1>10, <1>11, <1>12, <1>13, TaskChanges, RegistryChanges

LEMMA LeaseInit == Init => LeaseInv
<1> SUFFICES ASSUME Init PROVE LeaseInv
  OBVIOUS
<1>1. \A w \in Workers : task[w] = Idle /\ registry[w] = NoLeases
  BY DEF Init
<1>2. QED
  BY <1>1, IdleFits, NoLeasesTyped DEF LeaseInv, OneRegistry, TokensIssued, LeasesApart, LeaseOwns,
     LeaseFits, HeldApart, Leased

LEMMA LeasesOwned == Spec => []LeaseInv
<1>1. TypeInv /\ LeaseInv /\ [Next]_vars => LeaseInv'
  <2>1. ASSUME TypeInv, LeaseInv, Next PROVE LeaseInv'
    BY <2>1, LeaseStep
  <2>2. ASSUME TypeInv, LeaseInv, UNCHANGED vars PROVE LeaseInv'
    <3>1. UNCHANGED <<shared, registry, task>>
      BY <2>2 DEF vars
    <3>2. \A v \in Workers : LeaseFits(v)'
      BY <2>2, <3>1 DEF LeaseInv, LeaseFits
    <3>3. QED
      BY <2>2, <3>1, <3>2, LeasesKept
  <2>3. QED
    BY <2>1, <2>2
<1>2. QED
  BY <1>1, LeaseInit, Typed, PTL DEF Spec

(* Workflows that share one registry never run at the same time on trees of
   which one contains the other: the lease of a run owns exactly its peers
   until it is given back, and acquire refuses what touches a tree that is
   owned (acquire, Drop for PeerScopeLock, scope_lock_registry).           *)
THEOREM BackgroundSharedRunsDisjoint == Spec => []SharedRunsDisjoint
<1>1. ASSUME TypeInv, LeaseInv PROVE SharedRunsDisjoint
  <2> SUFFICES ASSUME shared, NEW v \in Workers, NEW w \in Workers, v # w,
                      task[v].lease # 0, task[w].lease # 0,
                      NEW s \in Job(v).scopes, NEW t \in Job(w).scopes
               PROVE  ~Overlaps(s, t)
    BY DEF SharedRunsDisjoint
  <2>1. registry[v] = registry[w] /\ task[v].lease # task[w].lease
    BY <1>1 DEF LeaseInv, OneRegistry, LeasesApart
  <2>2. s \in Held(v, task[v].lease) /\ t \in Held(w, task[w].lease)
    BY <1>1 DEF LeaseInv, LeaseOwns
  <2>3. PICK g \in registry[v].held : g.token = task[v].lease /\ g.scope = s
    BY <2>2 DEF Held
  <2>4. PICK h \in registry[v].held : h.token = task[w].lease /\ h.scope = t
    BY <2>1, <2>2 DEF Held
  <2>5. QED
    BY <1>1, <2>1, <2>3, <2>4 DEF LeaseInv, HeldApart
<1>2. QED
  BY <1>1, Typed, LeasesOwned, PTL

-----------------------------------------------------------------------------
(* The runs implement ScopeLockRegistry: a precheck that passes is acquire,  *)
(* the return of a workflow is release, the death of a process is exit, and  *)
(* all other steps leave the registry and the leases alone.                  *)

Granted(w) ==
  /\ ~Refused(registry[w], Job(w).scopes)
  /\ SetRegistry(w, Grant(registry[w], Job(w).run, Job(w).scopes))
  /\ task'[w].lease = Locked(w)

GivenBack(w) ==
  /\ task[w].lease # 0 /\ task'[w].lease = 0
  /\ SetRegistry(w, GiveBack(registry[w], task[w].lease))

SameLeases == UNCHANGED registry /\ \A v \in Workers : task'[v].lease = task[v].lease

LEMMA LeaseMoves ==
  ASSUME TypeInv, LeaseInv, Next
  PROVE  \/ SameLeases
         \/ \E w \in Workers : Untouched(w) /\ task[w].pc = "check" /\ Granted(w)
         \/ \E w \in Workers : Untouched(w) /\ GivenBack(w)
         \/ \E w \in Workers : Crash(w)
<1>1. ASSUME NEW w \in Workers, Untouched(w), UNCHANGED registry, task'[w].lease = task[w].lease
      PROVE  SameLeases
  BY <1>1 DEF SameLeases, Untouched
<1>2. ASSUME UNCHANGED task PROVE SameLeases \/ \E w \in Workers : Crash(w) \/ Precheck(w) \/ Return(w)
  BY <1>2, RegistryChanges DEF SameLeases
<1>3. ASSUME NEW s \in Schedulers,
             \/ StartPoll(s) \/ LoadDue(s) \/ Claim(s) \/ RecordOutcome(s) \/ RecordMissed(s)
             \/ ClaimFails(s) \/ NextRun(s)
      PROVE  SameLeases
  <2>1. UNCHANGED registry /\ s \in Workers
    BY <1>3, Cast DEF StartPoll, LoadDue, Claim, RecordOutcome, RecordMissed, ClaimFails, NextRun
  <2>2. task[s].pc \in {"idle", "claim", "txn", "event", "missed"} /\ Untouched(s)
    BY <1>3, StartPollGoes, LoadDueGoes, ClaimGoes, RecordOutcomeGoes, RecordMissedGoes,
       ClaimFailsGoes, NextRunGoes DEF TypeInv
  <2>3. task'[s].lease \in {0, task[s].lease}
    BY <1>3, StartPollGoes, LoadDueGoes, ClaimGoes, RecordOutcomeGoes, RecordMissedGoes,
       ClaimFailsGoes, NextRunGoes, IdleFits DEF TypeInv, Goes
  <2>4. task[s].lease = 0
    BY <2>1, <2>2 DEF LeaseInv, LeaseFits, Unleased
  <2>5. QED
    BY <1>1, <2>1, <2>2, <2>3, <2>4
<1>4. ASSUME NEW w \in Workers, BlockManual(w) \/ MarkBlocked(w) \/ Begin(w) \/ Work(w) \/ Reconcile(w)
      PROVE  SameLeases
  <2>1. UNCHANGED registry
    BY <1>4 DEF BlockManual, MarkBlocked, Begin, Work, Reconcile
  <2>2. \E pc \in PCs : Goes(w, pc)
    BY <1>4, BlockManualGoes, MarkBlockedGoes, BeginGoes, WorkGoes, ReconcileGoes DEF TypeInv, PCs
  <2>3. QED
    BY <1>1, <2>1, <2>2 DEF Goes
<1>5. ASSUME NEW w \in Workers, Precheck(w)
      PROVE  SameLeases \/ (Untouched(w) /\ task[w].pc = "check" /\ Granted(w))
  <2>1. CASE (Goes(w, "mark") \/ Goes(w, "block")) /\ UNCHANGED registry
    BY <1>1, <2>1 DEF Goes
  <2>2. QED
    BY <1>5, <2>1, PrecheckGoes DEF TypeInv, Granted
<1>6. ASSUME NEW w \in Workers, Return(w) PROVE SameLeases \/ (Untouched(w) /\ GivenBack(w))
  <2>1. task'[w].lease = 0 /\ Untouched(w)
    BY <1>6, ReturnGoes, IdleFits DEF TypeInv
  <2>2. IF task[w].lease = 0 THEN UNCHANGED registry
        ELSE SetRegistry(w, GiveBack(registry[w], task[w].lease))
    BY <1>6, ReturnGoes DEF TypeInv
  <2>3. QED
    BY <1>1, <2>1, <2>2 DEF GivenBack
<1>7. ASSUME NEW d \in Desktops, NEW p \in Profiles, StartManual(d, p) PROVE SameLeases
  <2>1. UNCHANGED registry /\ d \in Workers /\ Untouched(d) /\ task[d].pc = "idle"
        /\ task'[d].lease = 0
    BY <1>7, Cast, StartManualGoes DEF StartManual, TypeInv
  <2>2. task[d].lease = 0
    BY <2>1 DEF LeaseInv, LeaseFits, Unleased
  <2>3. QED
    BY <1>1, <2>1, <2>2
<1>8. QED
  BY <1>2, <1>3, <1>4, <1>5, <1>6, <1>7, TaskChanges

LEMMA ADesktopWorks == ADesktop \in Workers
BY BackgroundAssumption DEF ADesktop, Workers

(* The instance computes registries as the runs do. *)
LEMMA SameRegistry ==
  /\ Locks!NoLeases = NoLeases
  /\ \A reg, wanted : Locks!Refused(reg, wanted) <=> Refused(reg, wanted)
  /\ \A reg, run, wanted : Locks!Grant(reg, run, wanted) = Grant(reg, run, wanted)
  /\ \A reg, token : Locks!GiveBack(reg, token) = GiveBack(reg, token)
<1>1. \A p, q : Locks!StartsWith(p, q) <=> StartsWith(p, q)
  BY DEF Locks!StartsWith, StartsWith
<1>2. \A s, t : Locks!Overlaps(s, t) <=> Overlaps(s, t)
  BY <1>1 DEF Locks!Overlaps, Overlaps
<1>3. \A reg, wanted : Locks!Refused(reg, wanted) <=> Refused(reg, wanted)
  BY <1>2 DEF Locks!Refused, Refused
<1>4. QED
  BY <1>3 DEF Locks!NoLeases, NoLeases, Locks!Grant, Grant, Locks!GiveBack, GiveBack

LEMMA LocksInit == Init => Locks!Init
<1> SUFFICES ASSUME Init PROVE Locks!Init
  OBVIOUS
<1>1. \A w \in Workers : task[w] = Idle /\ registry[w] = NoLeases
  BY DEF Init
<1>2. \A v \in Sharers(ADesktop) : task[v].lease = 0
  BY <1>1, ADesktopWorks, IdleFits DEF Sharers
<1>3. QED
  BY <1>1, <1>2, ADesktopWorks, SameRegistry DEF Locks!Init

LEMMA LocksStep ==
  ASSUME TypeInv, LeaseInv, Next
  PROVE  [Locks!Next]_(Locks!lockVars)
<1> DEFINE D == ADesktop
           leases == {task[v].lease : v \in Sharers(D)} \ {0}
<1>1. D \in Workers /\ Sharers(D) \subseteq Workers /\ D \in Sharers(D)
  BY ADesktopWorks DEF Sharers
<1>2. /\ UNCHANGED shared /\ Sharers(D)' = Sharers(D)
      /\ leases' = {task'[v].lease : v \in Sharers(D)} \ {0}
  BY SharedStays DEF Sharers
<1>3. \A w \in Workers : w \in Sharers(D) => Sharers(w) = Sharers(D) /\ registry[w] = registry[D]
  BY <1>1 DEF Sharers, LeaseInv, OneRegistry
<1>4. \A w \in Workers : w \notin Sharers(D) => D \notin Sharers(w) /\ Sharers(D) \cap Sharers(w) = {}
  BY <1>1 DEF Sharers
<1>5. registry \in [Workers -> Registry]
  BY DEF TypeInv, LockTypes
<1>6. CASE SameLeases
  <2>1. registry'[D] = registry[D] /\ leases' = leases
    BY <1>1, <1>2, <1>6 DEF SameLeases
  <2>2. QED
    BY <2>1 DEF Locks!lockVars
<1>7. ASSUME NEW w \in Workers, w \notin Sharers(D), Untouched(w),
             NEW reg \in Registry, SetRegistry(w, reg)
      PROVE  UNCHANGED Locks!lockVars
  <2>1. registry'[D] = registry[D]
    BY <1>1, <1>4, <1>7, SetRegistryEffect DEF TypeInv
  <2>2. \A v \in Sharers(D) : task'[v] = task[v]
    BY <1>1, <1>7 DEF Untouched
  <2>3. leases' = leases
    BY <1>2, <2>2
  <2>4. QED
    BY <2>1, <2>3 DEF Locks!lockVars
<1>8. ASSUME NEW w \in Workers, Untouched(w), task[w].pc = "check", Granted(w)
      PROVE  [Locks!Next]_(Locks!lockVars)
  <2>1. Job(w).run \in RunIds /\ Job(w).scopes \in Endpoints
    <3>1. Job(w).run \in 1..(nextRun - 1) /\ Job(w).scopes \in Endpoints
      BY <1>8, JobTyped DEF TypeInv, Active
    <3>2. nextRun \in 1..(MaxRunId + 1) /\ MaxRunId \in Nat
      BY BackgroundAssumption DEF TypeInv, StoreTypes
    <3>3. QED
      BY <3>1, <3>2 DEF RunIds
  <2>2. Grant(registry[w], Job(w).run, Job(w).scopes) \in Registry
    BY <1>5, <2>1, GrantTyped DEF RunIds
  <2>3. CASE w \in Sharers(D)
    <3>1. registry[w] = registry[D] /\ D \in Sharers(w)
      BY <1>1, <1>3, <2>3
    <3>2. registry'[D] = Grant(registry[D], Job(w).run, Job(w).scopes)
      BY <1>8, <2>2, <3>1, SetRegistryEffect DEF TypeInv, Granted
    <3>3. task[w].lease = 0 /\ task'[w].lease = registry[D].next + 1
      BY <1>8, <3>1 DEF LeaseInv, LeaseFits, Unleased, Granted, Locked
    <3>4. registry[D].next + 1 # 0
      BY <1>1, <1>5 DEF Registry
    <3>5. \A v \in Sharers(D) : v # w => task'[v] = task[v]
      BY <1>1, <1>8 DEF Untouched
    <3>6. leases' = leases \cup {registry[D].next + 1}
      BY <1>2, <2>3, <3>3, <3>4, <3>5
    <3>7. PICK run \in RunIds, wanted \in Endpoints : run = Job(w).run /\ wanted = Job(w).scopes
      BY <2>1
    <3>8. ~Refused(registry[D], wanted) /\ registry'[D] = Grant(registry[D], run, wanted)
      BY <1>8, <3>1, <3>2, <3>7 DEF Granted
    <3>9. Locks!acquire(run, wanted)
      BY <3>6, <3>8, SameRegistry DEF Locks!acquire
    <3>10. QED
      BY <3>9 DEF Locks!Next
  <2>4. CASE w \notin Sharers(D)
    BY <1>7, <1>8, <2>2, <2>4 DEF Granted
  <2>5. QED
    BY <2>3, <2>4
<1>9. ASSUME NEW w \in Workers, Untouched(w), GivenBack(w)
      PROVE  [Locks!Next]_(Locks!lockVars)
  <2>1. GiveBack(registry[w], task[w].lease) \in Registry
    BY <1>5, GiveBackTyped
  <2>2. CASE w \in Sharers(D)
    <3>1. registry[w] = registry[D] /\ D \in Sharers(w)
      BY <1>1, <1>3, <2>2
    <3>2. registry'[D] = GiveBack(registry[D], task[w].lease)
      BY <1>9, <2>1, <3>1, SetRegistryEffect DEF TypeInv, GivenBack
    <3>3. \A v \in Sharers(D) : v # w => task'[v] = task[v] /\ task[v].lease # task[w].lease
      BY <1>1, <1>9, <2>2 DEF Untouched, Sharers, LeaseInv, LeasesApart, GivenBack
    <3>4. task[w].lease # 0 /\ task'[w].lease = 0
      BY <1>9 DEF GivenBack
    <3>5. leases' = leases \ {task[w].lease}
      BY <1>2, <2>2, <3>3, <3>4
    <3>6. task[w].lease \in leases
      BY <2>2, <3>4
    <3>7. PICK token \in leases : token = task[w].lease
      BY <3>6
    <3>8. Locks!release(token)
      BY <3>2, <3>5, <3>7, SameRegistry DEF Locks!release
    <3>9. QED
      BY <3>8 DEF Locks!Next
  <2>3. CASE w \notin Sharers(D)
    BY <1>7, <1>9, <2>1, <2>3 DEF GivenBack
  <2>4. QED
    BY <2>2, <2>3
<1>10. ASSUME NEW w \in Workers, Crash(w)
       PROVE  [Locks!Next]_(Locks!lockVars)
  <2>1. \A v \in Workers : task'[v] = IF v \in Sharers(w) THEN Idle ELSE task[v]
    BY <1>10, CrashGoes DEF TypeInv
  <2>2. /\ \A v \in Sharers(w) : registry'[v] = NoLeases
        /\ \A v \in Workers \ Sharers(w) : registry'[v] = registry[v]
    BY <1>10, NoLeasesTyped, SetRegistryEffect DEF TypeInv, Crash
  <2>3. CASE w \in Sharers(D)
    <3>1. registry'[D] = NoLeases
      BY <1>1, <1>3, <2>2, <2>3
    <3>2. \A v \in Sharers(D) : task'[v].lease = 0
      BY <1>1, <1>3, <2>1, <2>3, IdleFits
    <3>3. leases' = {}
      BY <1>2, <3>2
    <3>4. Locks!exit
      BY <3>1, <3>3, SameRegistry DEF Locks!exit
    <3>5. QED
      BY <3>4 DEF Locks!Next
  <2>4. CASE w \notin Sharers(D)
    <3>1. registry'[D] = registry[D]
      BY <1>1, <1>4, <2>2, <2>4
    <3>2. \A v \in Sharers(D) : task'[v] = task[v]
      BY <1>1, <1>4, <2>1, <2>4
    <3>3. leases' = leases
      BY <1>2, <3>2
    <3>4. QED
      BY <3>1, <3>3 DEF Locks!lockVars
  <2>5. QED
    BY <2>3, <2>4
<1>11. QED
  BY <1>6, <1>8, <1>9, <1>10, LeaseMoves

(* The runs of one process take and drop their leases as the abstract
   specification of the registry allows: all scopes of a run or none, and no
   lease is left behind or dropped twice (PrecheckLease, acquire, Drop for
   PeerScopeLock).                                                         *)
THEOREM BackgroundImplementsLocks == Spec => LocksImplemented
<1>1. TypeInv /\ LeaseInv /\ [Next]_vars => [Locks!Next]_(Locks!lockVars)
  <2>1. ASSUME TypeInv, LeaseInv, Next PROVE [Locks!Next]_(Locks!lockVars)
    BY <2>1, LocksStep
  <2>2. ASSUME UNCHANGED vars PROVE UNCHANGED Locks!lockVars
    BY <2>2 DEF vars, Locks!lockVars, Sharers
  <2>3. QED
    BY <2>1, <2>2
<1>2. QED
  BY <1>1, LocksInit, Typed, LeasesOwned, PTL DEF Spec, LocksImplemented, Locks!Spec

-----------------------------------------------------------------------------
(* The report of a run that changes files: nobody else writes to it, and it  *)
(* cannot be removed while it is in progress.                                *)

LiveReport(run) == Stored(run) /\ report[run].items = "open" /\ report[run].blocked = FALSE

LiveInv == \A w \in Workers : task[w].pc = "work" => LiveReport(Job(w).run)

LEMMA LiveStatus ==
  ASSUME NEW run, LiveReport(run)
  PROVE  ReportStatus(report[run]) = "in_progress" /\ ~CanClear(report[run])
BY DEF LiveReport, ReportStatus, CanClear

(* Nothing is written, or the row of one run. *)
Writes(run) ==
  \/ UNCHANGED report
  \/ \E row : report' = With(report, run, row)
  \/ \E row : report' = [report EXCEPT ![run] = row]
  \/ report' = Without(report, run)

LEMMA RunWrites ==
  ASSUME TaskTypes, NEW w \in Workers,
         BlockManual(w) \/ MarkBlocked(w) \/ Begin(w) \/ Work(w) \/ Reconcile(w)
  PROVE  Writes(Job(w).run)
<1>1. CASE BlockManual(w)
  BY <1>1 DEF BlockManual, Writes
<1>2. CASE MarkBlocked(w)
  <2>1. UNCHANGED report \/ report' = [report EXCEPT ![Job(w).run].blocked = TRUE]
    BY <1>2 DEF MarkBlocked
  <2>2. QED
    BY <2>1 DEF Writes
<1>3. CASE Begin(w)
  BY <1>3, BeginGoes DEF Writes
<1>4. CASE Work(w)
  <2>1. UNCHANGED report \/ report' = [report EXCEPT ![Job(w).run].items = "done"]
    BY <1>4, WorkGoes
  <2>2. QED
    BY <2>1 DEF Writes
<1>5. CASE Reconcile(w)
  <2>1. \/ UNCHANGED report
        \/ \E recon \in {"clean", "findings"} : report' = [report EXCEPT ![Job(w).run].recon = recon]
    BY <1>5, ReconcileGoes
  <2>2. QED
    BY <2>1 DEF Writes
<1>6. QED
  BY <1>1, <1>2, <1>3, <1>4, <1>5

LEMMA UserWrites ==
  ASSUME NEW run, DeleteReport(run) \/ MarkReviewCleared(run)
  PROVE  Writes(run)
<1>1. \/ report' = Without(report, run)
      \/ report' = [report EXCEPT ![run].cleared = TRUE]
  BY DEF DeleteReport, MarkReviewCleared
<1>2. QED
  BY <1>1 DEF Writes

(* What is written about one run leaves the others alone. *)
LEMMA RowKept ==
  ASSUME StoreTypes, NEW run, LiveReport(run), NEW other, other # run,
         Writes(other)
  PROVE  LiveReport(run)'
<1>1. report \in [DOMAIN report -> Report] /\ run \in DOMAIN report
  BY DEF StoreTypes, LiveReport, Stored
<1>2. run \in DOMAIN report' /\ report'[run] = report[run]
  BY <1>1 DEF Writes, With, Without
<1>3. QED
  BY <1>2 DEF LiveReport, Stored

LEMMA WorkBegins ==
  ASSUME TypeInv, Next, NEW w \in Workers, task'[w].pc = "work"
  PROVE  \/ task[w].pc = "work" /\ task'[w] = task[w]
         \/ Begin(w) /\ Goes(w, "work")
<1>1. ASSUME NEW v \in Workers, Untouched(v), v = w => task'[v].pc # "work"
      PROVE  task'[w] = task[w]
  BY <1>1 DEF Untouched
<1>2. ASSUME NEW s \in Schedulers,
             \/ StartPoll(s) \/ LoadDue(s) \/ Claim(s) \/ RecordOutcome(s) \/ RecordMissed(s)
             \/ ClaimFails(s) \/ NextRun(s)
      PROVE  task'[w] = task[w]
  <2>1. s \in Workers /\ Untouched(s) /\ task'[s].pc \in {"claim", "txn", "missed", "idle", "check", "mark"}
    BY <1>2, StartPollGoes, LoadDueGoes, ClaimGoes, RecordOutcomeGoes, RecordMissedGoes,
       ClaimFailsGoes, NextRunGoes, IdleFits, Cast DEF TypeInv, Goes
  <2>2. QED
    BY <1>1, <2>1
<1>3. ASSUME NEW v \in Workers,
             \/ Precheck(v) \/ BlockManual(v) \/ MarkBlocked(v) \/ Work(v) \/ Reconcile(v) \/ Return(v)
      PROVE  task'[w] = task[w]
  <2>1. Untouched(v) /\ task'[v].pc \in {"mark", "block", "begin", "return", "reconcile", "event", "idle"}
    BY <1>3, PrecheckGoes, BlockManualGoes, MarkBlockedGoes, WorkGoes, ReconcileGoes, ReturnGoes,
       IdleFits DEF TypeInv, Goes
  <2>2. QED
    BY <1>1, <2>1
<1>4. ASSUME NEW v \in Workers, Begin(v)
      PROVE  task'[w] = task[w] \/ (Begin(w) /\ Goes(w, "work"))
  <2>1. Goes(v, "mark") \/ Goes(v, "block") \/ Goes(v, "return") \/ Goes(v, "work")
    BY <1>4, BeginGoes DEF TypeInv
  <2>2. CASE v = w
    BY <1>4, <2>1, <2>2 DEF Goes
  <2>3. CASE v # w
    BY <2>1, <2>3 DEF Goes, Untouched
  <2>4. QED
    BY <2>2, <2>3
<1>5. ASSUME NEW d \in Desktops, NEW p \in Profiles, StartManual(d, p) PROVE task'[w] = task[w]
  <2>1. d \in Workers /\ Untouched(d) /\ task'[d].pc = "check"
    BY <1>5, Cast, StartManualGoes DEF TypeInv
  <2>2. QED
    BY <1>1, <2>1
<1>6. ASSUME NEW v \in Workers, Crash(v) PROVE task'[w] = task[w]
  BY <1>6, CrashGoes, IdleFits DEF TypeInv
<1>7. QED
  BY <1>2, <1>3, <1>4, <1>5, <1>6, TaskChanges

LEMMA LiveStep ==
  ASSUME TypeInv, LiveInv, Next
  PROVE  LiveInv'
<1> SUFFICES ASSUME NEW w \in Workers, task'[w].pc = "work"
             PROVE  LiveReport(task[w].job.run)'
  BY DEF LiveInv, Job
<1>1. CASE Begin(w) /\ Goes(w, "work")
  <2> DEFINE row == [NewReport EXCEPT !.inventory = TRUE, !.items = "open"]
             run == Job(w).run
  <2>1. task'[w].job.run = run /\ report' = With(report, run, row)
    BY <1>1, BeginGoes DEF TypeInv, Goes, Job
  <2>2. /\ report \in [DOMAIN report -> Report]
        /\ row \in Report /\ row.items = "open" /\ row.blocked = FALSE
    BY NewRows DEF TypeInv, StoreTypes
  <2> HIDE DEF row, run
  <2>3. run \in DOMAIN With(report, run, row) /\ With(report, run, row)[run] = row
    BY DEF With
  <2>4. QED
    BY <2>1, <2>2, <2>3 DEF LiveReport, Stored
<1>2. CASE task[w].pc = "work" /\ task'[w] = task[w]
  <2>0. PICK run : run = Job(w).run
    OBVIOUS
  <2>1. LiveReport(run) /\ run \in Owned(w) /\ run \in 1..(nextRun - 1) /\ nextRun \in Nat
    <3>1. LiveReport(run)
      BY <1>2, <2>0 DEF LiveInv
    <3>2. run \in Owned(w) /\ run \in 1..(nextRun - 1)
      BY <1>2, <2>0, JobTyped DEF TypeInv, Active
    <3>3. QED
      BY <3>1, <3>2, BackgroundAssumption DEF TypeInv, StoreTypes
  <2>2. SUFFICES LiveReport(run)'
    BY <1>2, <2>0 DEF LiveReport, Stored, Job
  <2>3. StoreTypes
    BY DEF TypeInv
  <2>4. ASSUME NEW v \in Workers, v # w, task[v].pc \in Active
        PROVE  Job(v).run # run
    <3>1. Job(v).run \in Owned(v)
      BY <2>4, JobTyped DEF TypeInv
    <3>2. QED
      BY <2>1, <2>4, <3>1 DEF TypeInv, RunsApart
  <2>5. ASSUME NEW s \in Schedulers, Claim(s) PROVE LiveReport(run)'
    <3>1. Writes(nextRun)
      BY <2>5, ClaimGoes DEF TypeInv, Claims, ClaimsNothing, Writes
    <3>2. nextRun # run
      BY <2>1
    <3>3. QED
      BY <2>1, <2>3, <3>1, <3>2, RowKept
  <2>6. ASSUME NEW v \in Workers,
               BlockManual(v) \/ MarkBlocked(v) \/ Begin(v) \/ Work(v) \/ Reconcile(v)
        PROVE  LiveReport(run)'
    <3>1. (task[v].pc \in Active /\ task'[v].pc # "work") \/ task[v].pc = "begin"
      BY <2>6, BlockManualGoes, MarkBlockedGoes, WorkGoes, ReconcileGoes, BeginGoes
         DEF TypeInv, Goes, Active
    <3>2. v # w
      BY <1>2, <3>1
    <3>3. Job(v).run # run
      BY <2>4, <3>1, <3>2 DEF Active
    <3>4. Writes(Job(v).run)
      BY <2>6, RunWrites DEF TypeInv
    <3>5. QED
      BY <2>1, <2>3, <3>3, <3>4, RowKept
  <2>7. ASSUME NEW other \in DOMAIN report, DeleteReport(other) \/ MarkReviewCleared(other)
        PROVE  LiveReport(run)'
    <3>1. other # run
      BY <2>1, <2>7, LiveStatus DEF DeleteReport, MarkReviewCleared
    <3>2. Writes(other)
      BY <2>7, UserWrites
    <3>3. QED
      BY <2>1, <2>3, <3>1, <3>2, RowKept
  <2>8. CASE UNCHANGED report
    BY <2>1, <2>8 DEF LiveReport, Stored
  <2>9. QED
    BY <2>5, <2>6, <2>7, <2>8, ReportChanges
<1>3. QED
  BY <1>1, <1>2, WorkBegins

LEMMA Live == Spec => []LiveInv
<1>1. Init => LiveInv
  BY IdleFits DEF Init, LiveInv
<1>2. TypeInv /\ LiveInv /\ [Next]_vars => LiveInv'
  <2>1. ASSUME TypeInv, LiveInv, Next PROVE LiveInv'
    BY <2>1, LiveStep
  <2>2. ASSUME LiveInv, UNCHANGED vars PROVE LiveInv'
    BY <2>2 DEF LiveInv, LiveReport, Stored, Job, vars, store
  <2>3. QED
    BY <2>1, <2>2
<1>3. QED
  BY <1>1, <1>2, Typed, PTL DEF Spec

(* While a run changes files its lease owns its peers and its report is
   there and in progress, whatever reports the user removes meanwhile
   (delete_report_metadata, report_status, acquire).                       *)
THEOREM BackgroundLiveRunIsKept == Spec => []LiveRunIsKept
<1>1. ASSUME TypeInv, LeaseInv, LiveInv PROVE LiveRunIsKept
  <2> SUFFICES ASSUME NEW w \in Workers, task[w].pc = "work"
               PROVE  /\ Stored(Job(w).run) /\ ReportStatus(report[Job(w).run]) = "in_progress"
                      /\ Held(w, task[w].lease) = Job(w).scopes
    BY DEF LiveRunIsKept, Held
  <2>1. LiveReport(Job(w).run)
    BY <1>1 DEF LiveInv
  <2>2. task[w].lease # 0
    BY <1>1 DEF LeaseInv, LeaseFits, Leased
  <2>3. QED
    BY <1>1, <2>1, <2>2, LiveStatus DEF LiveReport, LeaseInv, LeaseOwns
<1>2. QED
  BY <1>1, Typed, LeasesOwned, Live, PTL

-----------------------------------------------------------------------------
(* Runs in hand: each stands once in the job and the queue of a process, and *)
(* those of a scheduler process are claims.                                  *)

HandsApart ==
  \A w \in Workers :
    /\ \A i \in DOMAIN task[w].queue : task[w].queue[i].run # task[w].job.run
    /\ \A i, j \in DOMAIN task[w].queue : task[w].queue[i].run = task[w].queue[j].run => i = j

HandsClaimed ==
  \A s \in Schedulers : /\ task[s].job \in claims \cup {NoJob}
                        /\ \A i \in DOMAIN task[s].queue : task[s].queue[i] \in claims

ClaimsNumbered ==
  \A c \in claims : c.run < nextRun /\ \A d \in claims : c.run = d.run => c = d

HandsInv == HandsApart /\ HandsClaimed /\ ClaimsNumbered

(* How the job and the queue of w change. *)
Puts(w) == task'[w].queue = << >> /\ (task'[w].job = NoJob \/ w \in Desktops)
Settled(w) == task'[w].job = NoJob /\ task'[w].queue = task[w].queue
Takes(w) ==
  /\ w \in Schedulers /\ Claims(w) /\ Occurrence(w) \in Claimed
  /\ task'[w].job = task[w].job
TurnsTo(w) ==
  /\ task[w].queue # << >>
  /\ task'[w].job = Head(task[w].queue) /\ task'[w].queue = Tail(task[w].queue)

HandsMove(w) ==
  \/ task'[w].job = task[w].job /\ task'[w].queue = task[w].queue
  \/ Puts(w) \/ Settled(w) \/ Takes(w) \/ TurnsTo(w)

LEMMA HandsMoves ==
  ASSUME TypeInv, Next, NEW w \in Workers
  PROVE  HandsMove(w)
<1>1. ASSUME NEW v \in Workers, Untouched(v), HandsMove(v) PROVE HandsMove(w)
  <2>1. CASE v = w
    BY <1>1, <2>1
  <2>2. CASE v # w
    BY <1>1, <2>2 DEF Untouched, HandsMove
  <2>3. QED
    BY <2>1, <2>2
<1>2. ASSUME NEW v \in Workers, Untouched(v), task'[v] = Idle PROVE HandsMove(w)
  BY <1>1, <1>2, IdleFits DEF HandsMove, Puts
<1>3. ASSUME NEW s \in Schedulers, StartPoll(s) PROVE HandsMove(w)
  BY <1>1, <1>3, StartPollGoes, Cast DEF TypeInv, HandsMove, Puts
<1>4. ASSUME NEW s \in Schedulers, LoadDue(s) PROVE HandsMove(w)
  BY <1>1, <1>4, LoadDueGoes, Cast DEF TypeInv, HandsMove
<1>5. ASSUME NEW s \in Schedulers, Claim(s) PROVE HandsMove(w)
  <2>1. /\ s \in Workers /\ Untouched(s) /\ task'[s].job = task[s].job /\ Occurrence(s) \in Claimed
        /\ Claims(s) \/ ClaimsNothing(s)
    BY <1>5, ClaimGoes, Cast DEF TypeInv
  <2>2. HandsMove(s)
    BY <2>1 DEF HandsMove, Takes, ClaimsNothing
  <2>3. QED
    BY <1>1, <2>1, <2>2
<1>6. ASSUME NEW s \in Schedulers, ClaimFails(s) PROVE HandsMove(w)
  BY <1>2, <1>6, ClaimFailsGoes, Cast DEF TypeInv
<1>7. ASSUME NEW s \in Schedulers, NextRun(s) PROVE HandsMove(w)
  <2>1. s \in Workers /\ Untouched(s) /\ (task'[s] = Idle \/ TurnsTo(s))
    BY <1>7, NextRunGoes, Cast DEF TypeInv, TurnsTo
  <2>2. QED
    BY <1>1, <1>2, <2>1 DEF HandsMove
<1>8. ASSUME NEW s \in Schedulers, RecordOutcome(s) \/ RecordMissed(s) PROVE HandsMove(w)
  <2>1. /\ s \in Workers /\ Untouched(s) /\ task'[s].queue = task[s].queue
        /\ task'[s].job = task[s].job \/ task'[s].job = NoJob
    BY <1>8, RecordOutcomeGoes, RecordMissedGoes, Cast DEF TypeInv, Goes
  <2>2. QED
    BY <1>1, <2>1 DEF HandsMove, Settled
<1>9. ASSUME NEW v \in Workers,
             \/ Precheck(v) \/ BlockManual(v) \/ MarkBlocked(v) \/ Begin(v) \/ Work(v) \/ Reconcile(v)
      PROVE  HandsMove(w)
  <2>1. Untouched(v) /\ task'[v].job = task[v].job /\ task'[v].queue = task[v].queue
    BY <1>9, PrecheckGoes, BlockManualGoes, MarkBlockedGoes, BeginGoes, WorkGoes, ReconcileGoes
       DEF TypeInv, Goes
  <2>2. QED
    BY <1>1, <2>1 DEF HandsMove
<1>10. ASSUME NEW v \in Workers, Return(v) PROVE HandsMove(w)
  <2>1. /\ Untouched(v)
        /\ \/ task'[v].job = task[v].job /\ task'[v].queue = task[v].queue
           \/ task'[v] = Idle
    BY <1>10, ReturnGoes DEF TypeInv
  <2>2. QED
    BY <1>1, <1>2, <2>1 DEF HandsMove
<1>11. ASSUME NEW d \in Desktops, NEW p \in Profiles, StartManual(d, p) PROVE HandsMove(w)
  BY <1>1, <1>11, StartManualGoes, Cast DEF TypeInv, HandsMove, Puts
<1>12. ASSUME NEW v \in Workers, Crash(v) PROVE HandsMove(w)
  BY <1>12, CrashGoes, IdleFits DEF TypeInv, HandsMove, Puts
<1>13. CASE UNCHANGED task
  BY <1>13 DEF HandsMove
<1>14. QED
  BY <1>3, <1>4, <1>5, <1>6, <1>7, <1>8, <1>9, <1>10, <1>11, <1>12, <1>13, TaskChanges

(* The queue is one of claims, and the run of a claim is not 0. *)
LEMMA QueueRuns ==
  ASSUME TaskTypes, NEW w \in Workers
  PROVE  /\ task[w].queue \in Seq(Claimed)
         /\ \A i \in DOMAIN task[w].queue : /\ task[w].queue[i] \in Claimed
                                            /\ task[w].queue[i].run \in Owned(w) \ {0}
<1>1. task[w].queue \in Seq(Claimed)
  BY DEF TaskTypes, Task
<1>2. \A i \in DOMAIN task[w].queue : task[w].queue[i] \in Claimed
  BY <1>1
<1>3. \A i \in DOMAIN task[w].queue : task[w].queue[i].run \in Owned(w)
  BY DEF Owned
<1>4. \A c \in Claimed : c.run # 0
  BY DEF Claimed
<1>5. QED
  BY <1>1, <1>2, <1>3, <1>4

LEMMA HandsApartStep ==
  ASSUME TypeInv, HandsApart, NEW w \in Workers, HandsMove(w)
  PROVE  /\ \A i \in DOMAIN task'[w].queue : task'[w].queue[i].run # task'[w].job.run
         /\ \A i, j \in DOMAIN task'[w].queue :
              task'[w].queue[i].run = task'[w].queue[j].run => i = j
<1> DEFINE queue == task[w].queue
<1>1. /\ queue \in Seq(Claimed)
      /\ \A i \in DOMAIN queue : queue[i] \in Claimed /\ queue[i].run \in Owned(w) \ {0}
  BY QueueRuns DEF TypeInv
<1>2. /\ \A i \in DOMAIN queue : queue[i].run # task[w].job.run
      /\ \A i, j \in DOMAIN queue : queue[i].run = queue[j].run => i = j
  BY DEF HandsApart
<1>3. task[w].job.run \in Owned(w)
  BY DEF Owned
<1> HIDE DEF queue
<1>4. CASE task'[w].job = task[w].job /\ task'[w].queue = queue
  BY <1>2, <1>4
<1>5. CASE Puts(w)
  BY <1>5 DEF Puts
<1>6. CASE Settled(w)
  <2>1. task'[w].job.run = 0 /\ task'[w].queue = queue
    BY <1>6, IdleFits DEF Settled, queue
  <2>2. QED
    BY <1>1, <1>2, <2>1
<1>7. CASE Takes(w)
  <2>1. /\ task'[w].queue = Append(queue, Occurrence(w)) /\ Occurrence(w) \in Claimed
        /\ task'[w].job = task[w].job /\ Occurrence(w).run = nextRun
    BY <1>7 DEF Takes, Claims, queue, Occurrence
  <2>2. \A run \in Owned(w) : run # nextRun
    <3>1. nextRun \in Nat
      BY BackgroundAssumption DEF TypeInv, StoreTypes
    <3>2. QED
      BY <3>1 DEF TypeInv, RunsIssued
  <2>3. /\ DOMAIN task'[w].queue = 1..(Len(queue) + 1) /\ Len(queue) \in Nat
        /\ task'[w].queue[Len(queue) + 1] = Occurrence(w)
        /\ DOMAIN queue = 1..Len(queue)
        /\ \A i \in DOMAIN queue : task'[w].queue[i] = queue[i]
    BY <1>1, <2>1
  <2>4. \A i \in DOMAIN task'[w].queue : i \in DOMAIN queue \/ i = Len(queue) + 1
    BY <2>3
  <2>5. QED
    BY <1>1, <1>2, <1>3, <2>1, <2>2, <2>3, <2>4
<1>8. CASE TurnsTo(w)
  <2>1. queue # << >> /\ task'[w].job = Head(queue) /\ task'[w].queue = Tail(queue)
    BY <1>8 DEF TurnsTo, queue
  <2>2. /\ 1 \in DOMAIN queue /\ task'[w].job = queue[1]
        /\ \A i \in DOMAIN task'[w].queue : /\ i \in Nat \ {0} /\ i + 1 \in DOMAIN queue
                                            /\ task'[w].queue[i] = queue[i + 1]
    BY <1>1, <2>1
  <2>3. ASSUME NEW i \in DOMAIN task'[w].queue PROVE task'[w].queue[i].run # task'[w].job.run
    BY <1>2, <2>2
  <2>4. ASSUME NEW i \in DOMAIN task'[w].queue, NEW j \in DOMAIN task'[w].queue,
               task'[w].queue[i].run = task'[w].queue[j].run
        PROVE  i = j
    <3>1. i + 1 = j + 1
      BY <1>2, <2>2, <2>4
    <3>2. QED
      BY <2>2, <3>1
  <2>5. QED
    BY <2>3, <2>4
<1>9. QED
  BY <1>4, <1>5, <1>6, <1>7, <1>8 DEF HandsMove, queue

LEMMA HandsClaimedStep ==
  ASSUME TypeInv, HandsClaimed, claims \subseteq claims', NEW s \in Schedulers, HandsMove(s)
  PROVE  /\ task'[s].job \in claims' \cup {NoJob}
         /\ \A i \in DOMAIN task'[s].queue : task'[s].queue[i] \in claims'
<1> DEFINE queue == task[s].queue
<1>1. s \in Workers /\ s \notin Desktops
  BY Cast
<1>2. queue \in Seq(Claimed)
  BY <1>1, QueueRuns DEF TypeInv
<1>3. task[s].job \in claims' \cup {NoJob} /\ \A i \in DOMAIN queue : queue[i] \in claims'
  BY DEF HandsClaimed
<1> HIDE DEF queue
<1>4. CASE \/ task'[s].job = task[s].job /\ task'[s].queue = queue
           \/ task'[s].job = NoJob /\ task'[s].queue = queue
           \/ task'[s].queue = << >> /\ task'[s].job = NoJob
  BY <1>3, <1>4
<1>5. CASE Takes(s)
  <2>1. /\ task'[s].queue = Append(queue, Occurrence(s)) /\ Occurrence(s) \in Claimed
        /\ task'[s].job = task[s].job /\ Occurrence(s) \in claims'
    BY <1>5 DEF Takes, Claims, queue
  <2>2. ASSUME NEW i \in DOMAIN task'[s].queue PROVE task'[s].queue[i] \in claims'
    <3>1. i \in DOMAIN queue \/ i = Len(queue) + 1
      BY <1>2, <2>1
    <3>2. CASE i \in DOMAIN queue
      <4>1. task'[s].queue[i] = queue[i]
        BY <1>2, <2>1, <3>2
      <4>2. QED
        BY <1>3, <3>2, <4>1
    <3>3. CASE i = Len(queue) + 1
      <4>1. task'[s].queue[i] = Occurrence(s)
        BY <1>2, <2>1, <3>3
      <4>2. QED
        BY <2>1, <4>1
    <3>4. QED
      BY <3>1, <3>2, <3>3
  <2>3. QED
    BY <1>3, <2>1, <2>2
<1>6. CASE TurnsTo(s)
  <2>1. queue # << >> /\ task'[s].job = Head(queue) /\ task'[s].queue = Tail(queue)
    BY <1>6 DEF TurnsTo, queue
  <2>2. /\ 1 \in DOMAIN queue /\ task'[s].job = queue[1]
        /\ \A i \in DOMAIN task'[s].queue : i + 1 \in DOMAIN queue /\ task'[s].queue[i] = queue[i + 1]
    BY <1>2, <2>1
  <2>3. QED
    BY <1>3, <2>2
<1>7. QED
  BY <1>1, <1>4, <1>5, <1>6 DEF HandsMove, Puts, Settled, queue

LEMMA ClaimsNumberedStep ==
  ASSUME TypeInv, ClaimsNumbered, Next
  PROVE  ClaimsNumbered'
<1>1. nextRun \in Nat /\ nextRun' \in {nextRun, nextRun + 1} /\ claims \subseteq Claimed
  BY NextRunTyped, BackgroundAssumption DEF TypeInv, StoreTypes
<1>2. \A c \in claims : c.run \in Nat /\ c.run < nextRun
  BY <1>1 DEF ClaimsNumbered, Claimed
<1>3. CASE UNCHANGED claims
  BY <1>1, <1>2, <1>3 DEF ClaimsNumbered
<1>4. ASSUME NEW s \in Schedulers, Claims(s) PROVE ClaimsNumbered'
  <2>1. claims' = claims \cup {Occurrence(s)} /\ Occurrence(s).run = nextRun /\ nextRun' = nextRun + 1
    BY <1>4 DEF Claims, Occurrence
  <2>2. QED
    BY <1>1, <1>2, <2>1 DEF ClaimsNumbered
<1>5. QED
  BY <1>3, <1>4, ClaimsChanges, ClaimGoes DEF TypeInv, ClaimsNothing

LEMMA HandsInvStep ==
  ASSUME TypeInv, HandsInv, Next
  PROVE  HandsInv'
<1>1. HandsApart'
  BY HandsMoves, HandsApartStep DEF HandsInv, HandsApart
<1>2. HandsClaimed'
  <2>1. claims \subseteq claims'
    BY ClaimsTyped DEF TypeInv
  <2>2. QED
    BY <2>1, HandsMoves, HandsClaimedStep, Cast DEF HandsInv, HandsClaimed
<1>3. QED
  BY <1>1, <1>2, ClaimsNumberedStep DEF HandsInv


-----------------------------------------------------------------------------
(* The timeline: a run is recorded as missed once, after its outcome.        *)

MissedEvents == {e \in events : e.kind = "missed"}

TheNotice(s) == Noticed(Job(s).profile, Job(s).run, Job(s).at)
MissedRow(s) == [Event(Job(s).profile, Job(s).run, "missed") EXCEPT !.notice = TheNotice(s).id]

OwnedUnmissed == \A w \in Workers : \A e \in MissedEvents : e.run \notin Owned(w)

OutcomeSeen(run) ==
  \E e \in events : e.run = run /\ e.kind \notin {"claimed", "missed", "review_cleared"}

MissedSeen(run) == \E e \in MissedEvents : e.run = run

OutcomeFirst == \A s \in Schedulers : task[s].pc = "missed" => OutcomeSeen(Job(s).run)

SettledSeen ==
  \A s \in settled : s.complete => OutcomeSeen(s.run) /\ (s.missed => MissedSeen(s.run))

LEMMA MissedRowFits ==
  ASSUME TypeInv, NEW s \in Schedulers, task[s].pc = "missed"
  PROVE  /\ TheNotice(s) \in Notice /\ MissedRow(s) \in EventRow
         /\ MissedRow(s).run = Job(s).run /\ MissedRow(s).kind = "missed"
         /\ MissedRow(s).notice = TheNotice(s).id
<1>1. /\ Job(s).profile \in Profiles /\ Job(s).run \in 1..(nextRun - 1)
      /\ Job(s).run \in Nat \ {0} /\ Job(s).at \in Nat
  BY ScheduledJob DEF TypeInv, Active
<1>2. TheNotice(s) \in Notice
  BY <1>1, NoticedRow DEF TypeInv, TheNotice
<1>3. TheNotice(s).id \in Nat /\ "missed" \in Kinds
  BY <1>2 DEF Notice, Kinds
<1>4. QED
  BY <1>1, <1>2, <1>3, TimelineRow DEF TypeInv, MissedRow

(* Only RecordMissed says of a run that it is missed. *)
LEMMA MissesOnly ==
  ASSUME TypeInv, Next
  PROVE  \/ MissedEvents' = MissedEvents
         \/ \E s \in Schedulers : /\ RecordMissed(s) /\ Misses(s)
                                  /\ MissedEvents' = MissedEvents \cup {MissedRow(s)}
<1>2. ASSUME UNCHANGED events PROVE MissedEvents' = MissedEvents
  BY <1>2 DEF MissedEvents
<1>3. ASSUME NEW s \in Schedulers, Claim(s) PROVE MissedEvents' = MissedEvents
  <2>1. CASE Claims(s)
    <3> DEFINE e == Event(task[s].loaded.profile, nextRun, "claimed")
    <3>1. events' = events \cup {e} /\ e.kind = "claimed"
      BY <2>1 DEF Claims, Event
    <3> HIDE DEF e
    <3>2. QED
      BY <3>1 DEF MissedEvents
  <2>2. CASE ClaimsNothing(s)
    BY <1>2, <2>2 DEF ClaimsNothing
  <2>3. QED
    BY <1>3, <2>1, <2>2, ClaimGoes DEF TypeInv
<1>4. ASSUME NEW s \in Schedulers, RecordOutcome(s) PROVE MissedEvents' = MissedEvents
  <2> DEFINE e == Event(Job(s).profile, Job(s).run, OutcomeKind(task[s].result, Job(s).run))
  <2>1. events' = events \cup {e} \/ UNCHANGED events
    BY <1>4 DEF RecordOutcome, Job
  <2>2. e.kind = OutcomeKind(task[s].result, Job(s).run)
    BY DEF Event
  <2> HIDE DEF e
  <2>3. e.kind # "missed"
    BY <2>2, OutcomeKnown
  <2>4. QED
    BY <1>2, <2>1, <2>3 DEF MissedEvents
<1>5. ASSUME NEW s \in Schedulers, RecordMissed(s)
      PROVE  \/ MissedEvents' = MissedEvents
             \/ Misses(s) /\ MissedEvents' = MissedEvents \cup {MissedRow(s)}
  <2>1. CASE UNCHANGED events
    BY <1>2, <2>1
  <2>2. CASE Misses(s)
    <3>1. events' = events \cup {MissedRow(s)}
      BY <2>2 DEF Misses, MissedRow, TheNotice
    <3>2. MissedRow(s).kind = "missed"
      BY <1>5, MissedRowFits DEF RecordMissed
    <3>3. QED
      BY <2>2, <3>1, <3>2 DEF MissedEvents
  <2>3. QED
    BY <1>5, <2>1, <2>2, MissedWrites
<1>6. ASSUME NEW run \in DOMAIN report, MarkReviewCleared(run) PROVE MissedEvents' = MissedEvents
  <2> DEFINE fresh == {Event(e.profile, run, "review_cleared") :
                         e \in {e \in events : e.run = run /\ e.kind = "claimed"}}
  <2>1. events' = events \cup fresh
    BY <1>6 DEF MarkReviewCleared
  <2>2. \A e \in fresh : e.kind = "review_cleared"
    BY DEF Event
  <2> HIDE DEF fresh
  <2>3. QED
    BY <2>1, <2>2 DEF MissedEvents
<1>7. QED
  BY <1>2, <1>3, <1>4, <1>5, <1>6, EventsChanges

(* Nobody takes up a run again that is recorded as missed. *)
LEMMA OwnedUnmissedStep ==
  ASSUME TypeInv, HandsInv, OwnedUnmissed, Next
  PROVE  OwnedUnmissed'
<1>1. OwnersStep
  BY HandsStep DEF TypeInv
<1>2. ASSUME NEW w \in Workers PROVE Owned(w)' \subseteq Owned(w) \cup {0, nextRun}
  BY <1>1 DEF OwnersStep, OwnsNoMore
<1>3. \A e \in MissedEvents : e.run \in Nat \ {0} /\ e.run < nextRun
  BY DEF TypeInv, StoreTypes, EventRow, MissedEvents
<1>4. nextRun \in Nat
  BY BackgroundAssumption DEF TypeInv, StoreTypes
<1>5. ASSUME NEW w \in Workers, NEW e \in MissedEvents PROVE e.run \notin Owned(w)'
  <2>1. e.run # 0 /\ e.run # nextRun
    BY <1>3, <1>4
  <2>2. e.run \notin Owned(w)
    BY DEF OwnedUnmissed
  <2>3. QED
    BY <1>2, <2>1, <2>2
<1>6. CASE MissedEvents' = MissedEvents
  BY <1>5, <1>6 DEF OwnedUnmissed
<1>7. ASSUME NEW s \in Schedulers, RecordMissed(s), MissedEvents' = MissedEvents \cup {MissedRow(s)}
      PROVE  OwnedUnmissed'
  <2>1. /\ task[s].pc = "missed" /\ Untouched(s) /\ s \in Workers
        /\ task'[s].job = NoJob /\ task'[s].queue = task[s].queue
    BY <1>7, RecordMissedGoes, Cast DEF TypeInv
  <2>2. /\ MissedRow(s).run = Job(s).run /\ Job(s).run \in Owned(s) /\ Job(s).run # 0
    BY <2>1, MissedRowFits, ScheduledJob DEF TypeInv, Active
  <2>3. ASSUME NEW w \in Workers PROVE Job(s).run \notin Owned(w)'
    <3>1. CASE w = s
      <4>1. Owned(s)' = {0} \cup {task[s].queue[i].run : i \in DOMAIN task[s].queue}
        BY <2>1, IdleFits DEF Owned
      <4>2. \A i \in DOMAIN task[s].queue : task[s].queue[i].run # Job(s).run
        BY <2>1 DEF HandsInv, HandsApart, Job
      <4>3. QED
        BY <2>2, <3>1, <4>1, <4>2
    <3>2. CASE w # s
      <4>1. Owned(w)' = Owned(w)
        BY <2>1, <3>2, SameHands DEF Untouched
      <4>2. Job(s).run \notin Owned(w)
        BY <2>1, <2>2, <3>2 DEF TypeInv, RunsApart
      <4>3. QED
        BY <4>1, <4>2
    <3>3. QED
      BY <3>1, <3>2
  <2>4. QED
    BY <1>5, <1>7, <2>2, <2>3 DEF OwnedUnmissed
<1>8. QED
  BY <1>6, <1>7, MissesOnly

LEMMA SeenStays ==
  ASSUME TypeInv, Next, NEW run
  PROVE  (OutcomeSeen(run) => OutcomeSeen(run)') /\ (MissedSeen(run) => MissedSeen(run)')
<1>1. events \subseteq events'
  BY EventsTyped DEF TypeInv
<1>2. QED
  BY <1>1 DEF OutcomeSeen, MissedSeen, MissedEvents

(* record_outcome_event, record_error_event. *)
LEMMA OutcomeWritten ==
  ASSUME TypeInv, NEW s \in Schedulers, RecordOutcome(s), NEW run, run = Job(s).run
  PROVE  \/ OutcomeSeen(run)'
         \/ /\ task'[s].pc # "missed"
            /\ \E missed : settled' = settled \cup
                             {[run |-> run, missed |-> missed, complete |-> FALSE]}
<1> DEFINE e == Event(Job(s).profile, run, OutcomeKind(task[s].result, run))
<1>1. CASE events' = events \cup {e}
  <2>1. e.run = run /\ e.kind = OutcomeKind(task[s].result, run)
    BY DEF Event
  <2>2. e.kind \notin {"claimed", "missed", "review_cleared"}
    BY <2>1, OutcomeKnown
  <2>3. QED
    BY <1>1, <2>1, <2>2 DEF OutcomeSeen
<1>2. CASE Settles(s, ~Succeeded(task[s].result), FALSE)
  <2>1. task'[s].pc = "claim"
    <3>1. task[s].pc = "event" /\ s \in Workers /\ task \in [Workers -> Task]
      BY Cast DEF RecordOutcome, TypeInv, TaskTypes
    <3>2. QED
      BY <1>2, <3>1 DEF Settles, Task
  <2>2. QED
    BY <1>2, <2>1 DEF Settles
<1>3. QED
  BY <1>1, <1>2 DEF RecordOutcome, Job

LEMMA MissedBegins ==
  ASSUME TypeInv, Next, NEW w \in Workers, task'[w].pc = "missed"
  PROVE  \/ task[w].pc = "missed" /\ task'[w] = task[w]
         \/ w \in Schedulers /\ RecordOutcome(w) /\ Goes(w, "missed")
<1>1. ASSUME NEW v \in Workers, Untouched(v), v = w => task'[v].pc # "missed"
      PROVE  task'[w] = task[w]
  BY <1>1 DEF Untouched
<1>2. ASSUME NEW s \in Schedulers,
             \/ StartPoll(s) \/ LoadDue(s) \/ Claim(s) \/ RecordMissed(s) \/ ClaimFails(s) \/ NextRun(s)
      PROVE  task'[w] = task[w]
  <2>1. s \in Workers /\ Untouched(s) /\ task'[s].pc \in {"claim", "txn", "idle", "check", "mark"}
    BY <1>2, StartPollGoes, LoadDueGoes, ClaimGoes, RecordMissedGoes, ClaimFailsGoes, NextRunGoes,
       IdleFits, Cast DEF TypeInv
  <2>2. QED
    BY <1>1, <2>1
<1>3. ASSUME NEW v \in Workers,
             \/ Precheck(v) \/ BlockManual(v) \/ MarkBlocked(v) \/ Begin(v) \/ Work(v) \/ Reconcile(v)
             \/ Return(v)
      PROVE  task'[w] = task[w]
  <2>1. /\ Untouched(v)
        /\ task'[v].pc \in {"mark", "block", "begin", "work", "return", "reconcile", "event", "idle"}
    BY <1>3, PrecheckGoes, BlockManualGoes, MarkBlockedGoes, BeginGoes, WorkGoes, ReconcileGoes,
       ReturnGoes, IdleFits DEF TypeInv, Goes
  <2>2. QED
    BY <1>1, <2>1
<1>4. ASSUME NEW s \in Schedulers, RecordOutcome(s)
      PROVE  task'[w] = task[w] \/ (w \in Schedulers /\ RecordOutcome(w) /\ Goes(w, "missed"))
  <2>1. /\ s \in Workers /\ Untouched(s)
        /\ Goes(s, "missed") \/ task'[s].pc = "claim"
    BY <1>4, RecordOutcomeGoes, Cast DEF TypeInv
  <2>2. CASE s = w
    BY <1>4, <2>1, <2>2
  <2>3. CASE s # w
    BY <2>1, <2>3 DEF Untouched
  <2>4. QED
    BY <2>2, <2>3
<1>5. ASSUME NEW d \in Desktops, NEW p \in Profiles, StartManual(d, p) PROVE task'[w] = task[w]
  <2>1. d \in Workers /\ Untouched(d) /\ task'[d].pc = "check"
    BY <1>5, Cast, StartManualGoes DEF TypeInv
  <2>2. QED
    BY <1>1, <2>1
<1>6. ASSUME NEW v \in Workers, Crash(v) PROVE task'[w] = task[w]
  BY <1>6, CrashGoes, IdleFits DEF TypeInv
<1>7. QED
  BY <1>2, <1>3, <1>4, <1>5, <1>6, TaskChanges

LEMMA OutcomeFirstStep ==
  ASSUME TypeInv, OutcomeFirst, Next
  PROVE  OutcomeFirst'
<1> SUFFICES ASSUME NEW s \in Schedulers, task'[s].pc = "missed",
                    NEW run, run = task'[s].job.run
             PROVE  OutcomeSeen(run)'
  BY DEF OutcomeFirst, OutcomeSeen, Job
<1>1. CASE task[s].pc = "missed" /\ task'[s] = task[s]
  <2>1. run = Job(s).run
    BY <1>1 DEF Job
  <2>2. OutcomeSeen(run)
    BY <1>1, <2>1 DEF OutcomeFirst
  <2>3. QED
    BY <2>2, SeenStays
<1>2. CASE RecordOutcome(s) /\ Goes(s, "missed")
  <2>1. run = Job(s).run
    BY <1>2 DEF Goes, Job
  <2>2. QED
    BY <1>2, <2>1, OutcomeWritten
<1>3. QED
  BY <1>1, <1>2, MissedBegins, Cast

(* A run is settled with all its writes made only when they are made. *)
LEMMA SettledSeenStep ==
  ASSUME TypeInv, OutcomeFirst, SettledSeen, Next
  PROVE  SettledSeen'
<1> DEFINE Seen(x) == x.complete => OutcomeSeen(x.run)' /\ (x.missed => MissedSeen(x.run)')
<1>1. \A x \in settled : Seen(x)
  BY SeenStays DEF SettledSeen
<1>2. SUFFICES \A x \in settled' : Seen(x)
  BY DEF SettledSeen
<1>3. CASE UNCHANGED settled
  BY <1>1, <1>3
<1>4. ASSUME NEW s \in Schedulers, NEW run, run = Job(s).run, NEW missed, NEW complete,
             settled' = settled \cup {[run |-> run, missed |-> missed, complete |-> complete]},
             complete => OutcomeSeen(run)' /\ (missed => MissedSeen(run)')
      PROVE  \A x \in settled' : Seen(x)
  <2> DEFINE y == [run |-> run, missed |-> missed, complete |-> complete]
  <2>1. y.run = run /\ y.missed = missed /\ y.complete = complete
    OBVIOUS
  <2>2. Seen(y)
    BY <1>4, <2>1
  <2>3. settled' = settled \cup {y}
    BY <1>4
  <2> HIDE DEF y, Seen
  <2>4. QED
    BY <1>1, <2>2, <2>3
<1>5. ASSUME NEW s \in Schedulers, RecordOutcome(s) PROVE \A x \in settled' : Seen(x)
  <2>0. PICK run : run = Job(s).run
    OBVIOUS
  <2>1. CASE \E missed : settled' = settled \cup {[run |-> run, missed |-> missed, complete |-> FALSE]}
    BY <1>4, <2>0, <2>1
  <2>2. CASE OutcomeSeen(run)'
    <3>1. \/ UNCHANGED settled
          \/ settled' = settled \cup {[run |-> run, missed |-> FALSE, complete |-> TRUE]}
          \/ settled' = settled \cup
               {[run |-> run, missed |-> ~Succeeded(task[s].result), complete |-> FALSE]}
      BY <1>5, <2>0 DEF RecordOutcome, Settles
    <3>2. QED
      BY <1>3, <1>4, <2>0, <2>2, <3>1
  <2>3. QED
    BY <1>5, <2>0, <2>1, <2>2, OutcomeWritten
<1>6. ASSUME NEW s \in Schedulers, RecordMissed(s) PROVE \A x \in settled' : Seen(x)
  <2>0. PICK run : run = Job(s).run
    OBVIOUS
  <2>1. /\ task[s].pc = "missed"
        /\ \/ Misses(s) /\ settled' = settled \cup {[run |-> run, missed |-> TRUE, complete |-> TRUE]}
           \/ settled' = settled \cup {[run |-> run, missed |-> TRUE, complete |-> FALSE]}
    BY <1>6, <2>0 DEF RecordMissed, Misses, Settles, Job
  <2>2. OutcomeSeen(run)'
    <3>1. OutcomeSeen(run)
      BY <2>0, <2>1 DEF OutcomeFirst
    <3>2. QED
      BY <3>1, SeenStays
  <2>3. ASSUME Misses(s) PROVE MissedSeen(run)'
    <3>1. events' = events \cup {MissedRow(s)}
      BY <2>3 DEF Misses, MissedRow, TheNotice
    <3>2. MissedRow(s).kind = "missed" /\ MissedRow(s).run = run
      BY <2>0, <2>1, MissedRowFits
    <3>3. QED
      BY <3>1, <3>2 DEF MissedSeen, MissedEvents
  <2>4. CASE Misses(s) /\ settled' = settled \cup {[run |-> run, missed |-> TRUE, complete |-> TRUE]}
    BY <1>4, <2>0, <2>2, <2>3, <2>4
  <2>5. CASE settled' = settled \cup {[run |-> run, missed |-> TRUE, complete |-> FALSE]}
    BY <1>4, <2>0, <2>5
  <2>6. QED
    BY <2>1, <2>4, <2>5
<1>7. QED
  BY <1>3, <1>5, <1>6, SettledChanges

-----------------------------------------------------------------------------
(* Missed Schedule Notices: numbered, at most one of a profile waits for an  *)
(* answer, and each counts its Missed events and shows the latest occurrence *)
(* of them.                                                                  *)

MissedOf(id) == {e \in MissedEvents : e.notice = id}

Numbered ==
  /\ \A n \in notices : n.id \in 1..Cardinality(notices)
  /\ \A m, n \in notices : m.id = n.id => m = n

OnePending ==
  \A m, n \in notices :
    m.profile = n.profile /\ m.decision = "pending" /\ n.decision = "pending" => m = n

MissedNoticed == \A e \in MissedEvents : \E n \in notices : n.id = e.notice

Counted ==
  \A n \in notices : IsFiniteSet(MissedOf(n.id)) /\ n.count = Cardinality(MissedOf(n.id))

LatestShown ==
  \A n \in notices, c \in claims : \A e \in MissedOf(n.id) : c.run = e.run => c.at <= n.latest

NoticeInv == Numbered /\ OnePending /\ MissedNoticed /\ Counted /\ LatestShown

(* A notice is written anew, ... *)
LEMMA NoticeSwapped ==
  ASSUME StoreTypes, Numbered, OnePending, NEW old \in notices, NEW new,
         new.id = old.id, new.profile = old.profile,
         new.decision = "pending" => old.decision = "pending",
         notices' = (notices \ {old}) \cup {new}
  PROVE  /\ Numbered' /\ OnePending'
         /\ \A m \in notices' : m = new \/ (m \in notices /\ m.id # old.id)
         /\ \A m \in notices : \E n \in notices' : n.id = m.id
<1>1. IsFiniteSet(notices) /\ Cardinality(notices) \in Nat
  BY FS_CardinalityType DEF StoreTypes
<1>2. \A m \in notices \ {old} : m.id # new.id
  BY DEF Numbered
<1>3. new \notin notices \ {old}
  BY <1>2
<1>4. /\ IsFiniteSet(notices \ {old})
      /\ Cardinality(notices \ {old}) = Cardinality(notices) - 1
  BY <1>1, FS_RemoveElement
<1>5. Cardinality((notices \ {old}) \cup {new}) = Cardinality(notices \ {old}) + 1
  BY <1>3, <1>4, FS_AddElement
<1>6. Cardinality(notices') = Cardinality(notices)
  BY <1>1, <1>4, <1>5
<1>7. Numbered'
  BY <1>2, <1>6 DEF Numbered
<1>8. OnePending'
  BY DEF OnePending
<1>9. QED
  BY <1>2, <1>7, <1>8

(* ... or a notice is added. *)
LEMMA NoticeAdded ==
  ASSUME StoreTypes, Numbered, OnePending, NEW new,
         new.id = Cardinality(notices) + 1,
         \A m \in notices : ~(m.profile = new.profile /\ m.decision = "pending"),
         notices' = notices \cup {new}
  PROVE  /\ Numbered' /\ OnePending'
         /\ \A m \in notices : m.id # new.id
<1>1. IsFiniteSet(notices) /\ Cardinality(notices) \in Nat
  BY FS_CardinalityType DEF StoreTypes
<1>2. \A m \in notices : m.id \in 1..Cardinality(notices)
  BY DEF Numbered
<1>3. \A m \in notices : m.id # new.id
  BY <1>1, <1>2
<1>4. Cardinality(notices') = Cardinality(notices) + 1
  BY <1>1, <1>3, FS_AddElement
<1>5. Numbered'
  <2>1. ASSUME NEW m \in notices' PROVE m.id \in 1..Cardinality(notices')
    BY <1>1, <1>2, <1>4
  <2>2. QED
    BY <1>3, <2>1 DEF Numbered
<1>6. OnePending'
  BY DEF OnePending
<1>7. QED
  BY <1>3, <1>5, <1>6

(* record_missed_schedule, for a run that has no Missed event yet. *)
LEMMA NoticeTakes ==
  ASSUME StoreTypes, NoticeInv, NEW n \in Notice, NEW row, NEW at \in Nat,
         row.notice = n.id, row \notin MissedEvents,
         \A c \in claims : c.run = row.run => c.at = at,
         MissedEvents' = MissedEvents \cup {row}, UNCHANGED claims,
         notices' = {m \in notices : m.id # n.id} \cup {n},
         \/ \E m \in notices : /\ m.profile = n.profile /\ m.decision = "pending"
                               /\ n.id = m.id /\ n.count = m.count + 1
                               /\ n.latest = Later(m.latest, at)
         \/ /\ \A m \in notices : ~(m.profile = n.profile /\ m.decision = "pending")
            /\ n.id = Cardinality(notices) + 1 /\ n.count = 1 /\ n.latest = at
  PROVE  NoticeInv'
<1> USE DEF NoticeInv
<1>1. /\ notices \subseteq Notice /\ claims \subseteq Claimed
      /\ IsFiniteSet(notices) /\ Cardinality(notices) \in Nat
  BY FS_CardinalityType DEF StoreTypes
<1>2. ASSUME NEW id PROVE MissedOf(id)' = IF id = n.id THEN MissedOf(id) \cup {row} ELSE MissedOf(id)
  BY DEF MissedOf
<1>3. \A id : row \notin MissedOf(id)
  BY DEF MissedOf
(* What is left to show of each notice. *)
<1>4. ASSUME NEW m \in notices, m.id # n.id
      PROVE  /\ IsFiniteSet(MissedOf(m.id)') /\ m.count = Cardinality(MissedOf(m.id)')
             /\ \A c \in claims : \A e \in MissedOf(m.id)' : c.run = e.run => c.at <= m.latest
  <2>1. MissedOf(m.id)' = MissedOf(m.id)
    BY <1>2, <1>4
  <2>2. QED
    BY <2>1 DEF Counted, LatestShown
<1>5. CASE \E m \in notices : /\ m.profile = n.profile /\ m.decision = "pending"
                              /\ n.id = m.id /\ n.count = m.count + 1
                              /\ n.latest = Later(m.latest, at)
  <2>1. PICK old \in notices : /\ old.profile = n.profile /\ old.decision = "pending"
                               /\ n.id = old.id /\ n.count = old.count + 1
                               /\ n.latest = Later(old.latest, at)
    BY <1>5
  <2>2. notices' = (notices \ {old}) \cup {n}
    BY <2>1 DEF Numbered
  <2>3. /\ Numbered' /\ OnePending'
        /\ \A m \in notices' : m = n \/ (m \in notices /\ m.id # old.id)
        /\ \A m \in notices : \E x \in notices' : x.id = m.id
    BY <2>1, <2>2, NoticeSwapped
  <2>4. /\ IsFiniteSet(MissedOf(n.id)) /\ old.count = Cardinality(MissedOf(n.id))
        /\ old.count \in Nat /\ old.latest \in Nat
    BY <1>1, <2>1 DEF Counted, Notice
  <2>5. IsFiniteSet(MissedOf(n.id)') /\ n.count = Cardinality(MissedOf(n.id)')
    <3>1. /\ IsFiniteSet(MissedOf(n.id) \cup {row})
          /\ Cardinality(MissedOf(n.id) \cup {row}) = Cardinality(MissedOf(n.id)) + 1
      BY <1>3, <2>4, FS_AddElement
    <3>2. QED
      BY <1>2, <2>1, <2>4, <3>1
  <2>6. \A c \in claims : \A e \in MissedOf(n.id)' : c.run = e.run => c.at <= n.latest
    <3> SUFFICES ASSUME NEW c \in claims, NEW e \in MissedOf(n.id)', c.run = e.run
                 PROVE  c.at <= n.latest
      OBVIOUS
    <3>1. c.at \in Nat
      BY <1>1 DEF Claimed
    <3>2. CASE e = row
      <4>1. c.at = at
        BY <3>2
      <4>2. QED
        BY <2>1, <2>4, <4>1 DEF Later
    <3>3. CASE e \in MissedOf(n.id)
      <4>1. c.at <= old.latest
        BY <2>1, <3>3 DEF LatestShown
      <4>2. QED
        BY <2>1, <2>4, <3>1, <4>1 DEF Later
    <3>4. QED
      BY <1>2, <3>2, <3>3
  <2>7. MissedNoticed'
    BY <2>3 DEF MissedNoticed
  <2>8. Counted' /\ LatestShown'
    <3>1. ASSUME NEW m \in notices'
          PROVE  /\ IsFiniteSet(MissedOf(m.id)') /\ m.count = Cardinality(MissedOf(m.id)')
                 /\ \A c \in claims : \A e \in MissedOf(m.id)' : c.run = e.run => c.at <= m.latest
      BY <1>4, <2>1, <2>3, <2>5, <2>6
    <3>2. QED
      BY <3>1 DEF Counted, LatestShown
  <2>9. QED
    BY <2>3, <2>7, <2>8
<1>6. CASE /\ \A m \in notices : ~(m.profile = n.profile /\ m.decision = "pending")
           /\ n.id = Cardinality(notices) + 1 /\ n.count = 1 /\ n.latest = at
  <2>1. \A m \in notices : m.id # n.id
    <3>1. \A m \in notices : m.id \in 1..Cardinality(notices)
      BY DEF Numbered
    <3>2. QED
      BY <1>1, <1>6, <3>1
  <2>2. notices' = notices \cup {n}
    BY <2>1
  <2>3. Numbered' /\ OnePending'
    BY <1>6, <2>2, NoticeAdded
  <2>4. MissedOf(n.id) = {}
    BY <2>1 DEF MissedNoticed, MissedOf
  <2>5. MissedOf(n.id)' = {row}
    BY <1>2, <2>4
  <2>6. IsFiniteSet(MissedOf(n.id)') /\ n.count = Cardinality(MissedOf(n.id)')
    BY <1>6, <2>5, FS_Singleton
  <2>7. \A c \in claims : \A e \in MissedOf(n.id)' : c.run = e.run => c.at <= n.latest
    <3>1. \A c \in claims : c.at \in Nat
      BY <1>1 DEF Claimed
    <3>2. QED
      BY <1>6, <2>5, <3>1
  <2>8. MissedNoticed'
    BY <2>2 DEF MissedNoticed
  <2>9. Counted' /\ LatestShown'
    <3>1. ASSUME NEW m \in notices'
          PROVE  /\ IsFiniteSet(MissedOf(m.id)') /\ m.count = Cardinality(MissedOf(m.id)')
                 /\ \A c \in claims : \A e \in MissedOf(m.id)' : c.run = e.run => c.at <= m.latest
      BY <1>4, <2>1, <2>2, <2>6, <2>7
    <3>2. QED
      BY <3>1 DEF Counted, LatestShown
  <2>10. QED
    BY <2>3, <2>8, <2>9
<1>7. QED
  BY <1>5, <1>6

LEMMA NoticeAnswered ==
  ASSUME StoreTypes, NoticeInv, NEW n \in notices, Answer(n),
         MissedEvents' = MissedEvents, UNCHANGED claims
  PROVE  NoticeInv'
<1> USE DEF NoticeInv
<1>1. PICK new : new = [n EXCEPT !.decision = "answered"]
  OBVIOUS
<1>2. n \in Notice
  BY DEF StoreTypes
<1>3. /\ new.id = n.id /\ new.profile = n.profile /\ new.decision = "answered"
      /\ new.count = n.count /\ new.latest = n.latest
  BY <1>1, <1>2 DEF Notice
<1>4. notices' = (notices \ {n}) \cup {new}
  BY <1>1 DEF Answer
<1>5. /\ Numbered' /\ OnePending'
      /\ \A m \in notices' : m = new \/ (m \in notices /\ m.id # n.id)
      /\ \A m \in notices : \E x \in notices' : x.id = m.id
  BY <1>3, <1>4, NoticeSwapped
<1>6. \A id : MissedOf(id)' = MissedOf(id)
  BY DEF MissedOf
<1>7. MissedNoticed'
  BY <1>5 DEF MissedNoticed
<1>8. ASSUME NEW m \in notices'
      PROVE  \E x \in notices : m.id = x.id /\ m.count = x.count /\ m.latest = x.latest
  BY <1>3, <1>5
<1>9. Counted' /\ LatestShown'
  BY <1>6, <1>8 DEF Counted, LatestShown
<1>10. QED
  BY <1>5, <1>7, <1>9

(* A new claim is of a run nothing has been recorded of. *)
LEMMA NoticesStay ==
  ASSUME TypeInv, NoticeInv, Next, UNCHANGED notices, MissedEvents' = MissedEvents
  PROVE  NoticeInv'
<1> USE DEF NoticeInv
<1>1. \A id : MissedOf(id)' = MissedOf(id)
  BY DEF MissedOf
<1>2. /\ \A e \in MissedEvents : e.run \in Nat /\ e.run < nextRun
      /\ nextRun \in Nat
  BY BackgroundAssumption DEF TypeInv, StoreTypes, EventRow, MissedEvents
<1>3. \A c \in claims' \ claims : c.run = nextRun
  <2>1. \A s \in Schedulers : Occurrence(s).run = nextRun
    BY DEF Occurrence
  <2>2. ASSUME NEW s \in Schedulers, Claim(s)
        PROVE  UNCHANGED claims \/ claims' = claims \cup {Occurrence(s)}
    BY <2>2, ClaimGoes DEF TypeInv, Claims, ClaimsNothing
  <2>3. QED
    BY <2>1, <2>2, ClaimsChanges
<1>4. \A id : \A e \in MissedOf(id) : e.run # nextRun
  BY <1>2 DEF MissedOf
<1>5. LatestShown'
  <2> SUFFICES ASSUME NEW n \in notices, NEW c \in claims', NEW e \in MissedOf(n.id), c.run = e.run
               PROVE  c.at <= n.latest
    BY <1>1 DEF LatestShown
  <2>1. c \in claims
    BY <1>3, <1>4
  <2>2. QED
    BY <2>1 DEF LatestShown
<1>6. Numbered' /\ OnePending' /\ MissedNoticed' /\ Counted'
  BY <1>1 DEF Numbered, OnePending, MissedNoticed, Counted
<1>7. QED
  BY <1>5, <1>6

LEMMA NoticeStep ==
  ASSUME TypeInv, HandsInv, OwnedUnmissed, NoticeInv, Next
  PROVE  NoticeInv'
<1>1. ASSUME NEW s \in Schedulers, RecordMissed(s), Misses(s),
             MissedEvents' = MissedEvents \cup {MissedRow(s)}
      PROVE  NoticeInv'
  <2>1. PICK n, row, at : n = TheNotice(s) /\ row = MissedRow(s) /\ at = Job(s).at
    OBVIOUS
  <2>2. task[s].pc = "missed" /\ UNCHANGED claims /\ s \in Workers
    BY <1>1, Cast DEF RecordMissed
  <2>3. n \in Notice /\ row.run = Job(s).run /\ row.notice = n.id
    BY <2>1, <2>2, MissedRowFits
  <2>4. /\ Job(s).profile \in Profiles /\ Job(s).run \in Nat \ {0} /\ at \in Nat
        /\ Job(s) \in Claimed /\ Job(s).run \in Owned(s)
    BY <2>1, <2>2, ScheduledJob DEF TypeInv, Active
  <2>5. row \notin MissedEvents
    BY <2>2, <2>3, <2>4 DEF OwnedUnmissed
  <2>6. \A c \in claims : c.run = row.run => c.at = at
    <3>1. Job(s) \in claims
      <4>1. Job(s) # NoJob
        BY <2>4, IdleFits
      <4>2. QED
        BY <4>1 DEF HandsInv, HandsClaimed, Job
    <3>2. QED
      BY <2>1, <2>3, <3>1 DEF HandsInv, ClaimsNumbered
  <2>7. notices' = {m \in notices : m.id # n.id} \cup {n}
    BY <1>1, <2>1 DEF Misses, TheNotice
  <2>8. /\ n.profile = Job(s).profile
        /\ \/ \E m \in PendingNotice(Job(s).profile) :
                n.id = m.id /\ n.count = m.count + 1 /\ n.latest = Later(m.latest, at)
           \/ /\ PendingNotice(Job(s).profile) = {}
              /\ n.id = Cardinality(notices) + 1 /\ n.count = 1 /\ n.latest = at
    BY <2>1, <2>4, NoticedRow DEF TheNotice, TypeInv
  <2>9. \/ \E m \in notices : /\ m.profile = n.profile /\ m.decision = "pending"
                              /\ n.id = m.id /\ n.count = m.count + 1
                              /\ n.latest = Later(m.latest, at)
        \/ /\ \A m \in notices : ~(m.profile = n.profile /\ m.decision = "pending")
           /\ n.id = Cardinality(notices) + 1 /\ n.count = 1 /\ n.latest = at
    BY <2>8 DEF PendingNotice
  <2>10. MissedEvents' = MissedEvents \cup {row}
    BY <1>1, <2>1
  <2>11. QED
    BY <2>2, <2>3, <2>4, <2>5, <2>6, <2>7, <2>9, <2>10, NoticeTakes DEF TypeInv
<1>2. ASSUME NEW n \in notices, Answer(n) PROVE NoticeInv'
  <2>1. UNCHANGED <<claims, events>>
    BY <1>2 DEF Answer, history
  <2>2. MissedEvents' = MissedEvents
    BY <2>1 DEF MissedEvents
  <2>3. QED
    BY <1>2, <2>1, <2>2, NoticeAnswered DEF TypeInv
<1>3. ASSUME NEW s \in Schedulers, RecordMissed(s) PROVE NoticeInv'
  <2>1. CASE UNCHANGED <<notices, events>>
    <3>1. MissedEvents' = MissedEvents
      BY <2>1 DEF MissedEvents
    <3>2. QED
      BY <2>1, <3>1, NoticesStay
  <2>2. CASE Misses(s)
    <3>1. events' = events \cup {MissedRow(s)}
      BY <2>2 DEF Misses, MissedRow, TheNotice
    <3>2. MissedRow(s).kind = "missed"
      BY <1>3, MissedRowFits DEF RecordMissed
    <3>3. MissedEvents' = MissedEvents \cup {MissedRow(s)}
      BY <3>1, <3>2 DEF MissedEvents
    <3>4. QED
      BY <1>1, <1>3, <2>2, <3>3
  <2>3. QED
    BY <1>3, <2>1, <2>2, MissedWrites
<1>4. CASE UNCHANGED notices /\ MissedEvents' = MissedEvents
  BY <1>4, NoticesStay
<1>5. QED
  BY <1>2, <1>3, <1>4, NoticesChanges, MissesOnly

AccountInv == HandsInv /\ OwnedUnmissed /\ OutcomeFirst /\ SettledSeen /\ NoticeInv

LEMMA AccountInit == Init => AccountInv
<1> SUFFICES ASSUME Init PROVE AccountInv
  OBVIOUS
<1>1. MissedEvents = {} /\ notices = {} /\ settled = {} /\ \A w \in Workers : task[w] = Idle
  BY DEF Init, MissedEvents
<1>2. HandsInv
  BY IdleFits, Cast DEF Init, HandsInv, HandsApart, HandsClaimed, ClaimsNumbered
<1>3. OwnedUnmissed /\ OutcomeFirst /\ SettledSeen
  BY <1>1, IdleFits, Cast DEF OwnedUnmissed, OutcomeFirst, SettledSeen
<1>4. NoticeInv
  BY <1>1 DEF NoticeInv, Numbered, OnePending, MissedNoticed, Counted, LatestShown
<1>5. QED
  BY <1>2, <1>3, <1>4 DEF AccountInv

LEMMA Accounted == Spec => []AccountInv
<1>1. TypeInv /\ AccountInv /\ [Next]_vars => AccountInv'
  <2>1. ASSUME TypeInv, AccountInv, Next PROVE AccountInv'
    BY <2>1, HandsInvStep, OwnedUnmissedStep, OutcomeFirstStep, SettledSeenStep, NoticeStep
       DEF AccountInv
  <2>2. ASSUME AccountInv, UNCHANGED vars PROVE AccountInv'
    <3>1. UNCHANGED <<nextRun, events, notices, task, claims, settled>>
      BY <2>2 DEF vars, store, history
    <3>2. /\ MissedEvents' = MissedEvents
          /\ \A id : MissedOf(id)' = MissedOf(id)
          /\ \A w \in Workers : Owned(w)' = Owned(w)
      BY <3>1 DEF MissedEvents, MissedOf, Owned
    <3>3. HandsInv'
      BY <2>2, <3>1 DEF AccountInv, HandsInv, HandsApart, HandsClaimed, ClaimsNumbered
    <3>4. OwnedUnmissed' /\ OutcomeFirst' /\ SettledSeen'
      BY <2>2, <3>1, <3>2 DEF AccountInv, OwnedUnmissed, OutcomeFirst, SettledSeen, OutcomeSeen,
         MissedSeen, Job
    <3>5. NoticeInv'
      BY <2>2, <3>1, <3>2 DEF AccountInv, NoticeInv, Numbered, OnePending, MissedNoticed, Counted,
         LatestShown
    <3>6. QED
      BY <3>3, <3>4, <3>5 DEF AccountInv
  <2>3. QED
    BY <2>1, <2>2
<1>2. QED
  BY <1>1, AccountInit, Typed, PTL DEF Spec

(* Every scheduled run that came back with all its writes made has its
   outcome in the timeline, and one that did not run has a Missed event
   whose notice counts it and does not show an earlier occurrence as the
   latest (record_outcome_event, record_error_event,
   record_missed_schedule).                                                *)
THEOREM BackgroundRunsAccounted == Spec => []ScheduledRunsAccounted
<1>1. ASSUME AccountInv PROVE ScheduledRunsAccounted
  <2>1. ASSUME NEW s \in settled, s.complete
        PROVE  /\ \E e \in events : e.run = s.run /\ e.kind \notin {"claimed", "missed", "review_cleared"}
               /\ s.missed => \E e \in events : e.run = s.run /\ e.kind = "missed"
    BY <1>1, <2>1 DEF AccountInv, SettledSeen, OutcomeSeen, MissedSeen, MissedEvents
  <2>2. ASSUME NEW n \in notices
        PROVE  LET missed == {e \in events : e.kind = "missed" /\ e.notice = n.id}
               IN  /\ n.count = Cardinality(missed)
                   /\ \A e \in missed, c \in claims : c.run = e.run => c.at <= n.latest
    <3>1. MissedOf(n.id) = {e \in events : e.kind = "missed" /\ e.notice = n.id}
      BY DEF MissedOf, MissedEvents
    <3>2. /\ n.count = Cardinality(MissedOf(n.id))
          /\ \A e \in MissedOf(n.id), c \in claims : c.run = e.run => c.at <= n.latest
      BY <1>1 DEF AccountInv, NoticeInv, Counted, LatestShown
    <3>3. QED
      BY <3>1, <3>2
  <2>3. QED
    BY <2>1, <2>2 DEF ScheduledRunsAccounted
<1>2. QED
  BY <1>1, Accounted, PTL

-----------------------------------------------------------------------------
(* A save writes the revision of the row and of the form that made it. *)
LEMMA SavedForm ==
  ASSUME TypeInv, NEW d \in Desktops, NEW scopes \in Endpoints, NEW auth \in BOOLEAN,
         NEW advanced \in BOOLEAN, SaveProfile(d, scopes, auth, advanced)
  PROVE  /\ form'[d].profile \in Profiles
         /\ form'[d].rev = profile'[form'[d].profile].rev
         /\ \A p \in Profiles : profile'[p].rev \in {profile[p].rev, profile[p].rev + 1}
<1>1. /\ profile \in [Profiles -> Row] /\ form[d].profile \in Profiles
      /\ form \in [Desktops -> [profile : Profiles, rev : Int, half : BOOLEAN]]
  BY DEF TypeInv, StoreTypes
<1> DEFINE p == form[d].profile
           rev == profile[p].rev + 1
           allowed == Authorization(profile[p], scopes, auth)
<1>2. /\ profile' = [profile EXCEPT ![p] =
           [profile[p] EXCEPT !.rev = rev, !.scopes = scopes, !.auth = allowed]]
      /\ form' = [form EXCEPT ![d].rev = rev, ![d].half = advanced]
  BY DEF SaveProfile
<1>3. rev = profile[p].rev + 1
  OBVIOUS
<1> HIDE DEF rev, allowed
<1>4. form'[d].profile = p /\ form'[d].rev = rev
  BY <1>1, <1>2
<1> HIDE DEF p
<1>5. /\ profile'[p].rev = rev
      /\ \A q \in Profiles \ {p} : profile'[q] = profile[q]
  BY <1>1, <1>2, <1>4 DEF Row, p
<1>6. QED
  BY <1>1, <1>3, <1>4, <1>5 DEF p

LEMMA RescheduledForm ==
  ASSUME TypeInv, NEW d \in Desktops, NEW enabled \in BOOLEAN, SaveSchedule(d, enabled)
  PROVE  /\ \A p \in Profiles : profile'[p].rev \in {profile[p].rev, profile[p].rev + 1}
         /\ form'[d].profile = form[d].profile
         /\ \/ form'[d].rev = profile'[form[d].profile].rev /\ form'[d].rev \in Int
            \/ UNCHANGED profile /\ form'[d].rev = form[d].rev - 1
<1>1. /\ profile \in [Profiles -> Row] /\ form[d].profile \in Profiles
      /\ form \in [Desktops -> [profile : Profiles, rev : Int, half : BOOLEAN]]
      /\ \A p \in Profiles : profile[p].rev \in Nat
  BY DEF TypeInv, StoreTypes, Row
<1> DEFINE next == IF enabled THEN now + Interval ELSE 0
           p == form[d].profile
<1>2. CASE /\ profile' = [profile EXCEPT ![p].rev = @ + 1, ![p].enabled = enabled, ![p].next = next]
           /\ form' = [form EXCEPT ![d].rev = profile'[p].rev, ![d].half = FALSE]
  <2> HIDE DEF next
  <2>1. form'[d].profile = form[d].profile /\ form'[d].rev = profile'[p].rev
    BY <1>1, <1>2
  <2>2. PICK q : q = p
    OBVIOUS
  <2>3. profile' = [profile EXCEPT ![q].rev = @ + 1, ![q].enabled = enabled, ![q].next = next]
    BY <1>2, <2>2
  <2> HIDE DEF p
  <2>4. \A r \in Profiles : profile'[r].rev = IF r = q THEN profile[r].rev + 1 ELSE profile[r].rev
    BY <1>1, <2>3 DEF Row
  <2>5. QED
    BY <1>1, <2>1, <2>4 DEF p
<1>3. CASE /\ form' = [form EXCEPT ![d].rev = @ - 1, ![d].half = FALSE]
           /\ UNCHANGED profile
  BY <1>1, <1>3
<1>4. QED
  BY <1>2, <1>3 DEF SaveSchedule

-----------------------------------------------------------------------------
(* Forms.  A form never is ahead of the row it was opened from. *)

FormInv == \A d \in Desktops : form[d].rev <= profile[form[d].profile].rev

LEMMA RevGrows ==
  ASSUME TypeInv, Next
  PROVE  \A p \in Profiles : profile'[p].rev >= profile[p].rev
<1>1. /\ profile \in [Profiles -> Row] /\ \A p \in Profiles : profile[p].rev \in Nat
  BY DEF TypeInv, StoreTypes, Row
<1>2. ASSUME NEW s \in Schedulers, Claim(s)
      PROVE  \A p \in Profiles : profile'[p].rev = profile[p].rev
  <2>1. CASE Claims(s)
    <3> DEFINE next == NextOccurrence(task[s].loaded.row.next, task[s].at)
    <3>1. PICK p : p = task[s].loaded.profile
      OBVIOUS
    <3>2. profile' = [profile EXCEPT ![p].next = next]
      BY <2>1, <3>1 DEF Claims
    <3> HIDE DEF next
    <3>3. QED
      BY <1>1, <3>2 DEF Row
  <2>2. CASE ClaimsNothing(s)
    BY <2>2 DEF ClaimsNothing
  <2>3. QED
    BY <1>2, <2>1, <2>2, ClaimGoes DEF TypeInv
<1>3. ASSUME NEW d \in Desktops, NEW scopes \in Endpoints, NEW auth \in BOOLEAN,
             NEW advanced \in BOOLEAN, SaveProfile(d, scopes, auth, advanced)
      PROVE  \A p \in Profiles : profile'[p].rev >= profile[p].rev
  BY <1>1, <1>3, SavedForm
<1>4. ASSUME NEW d \in Desktops, NEW enabled \in BOOLEAN, SaveSchedule(d, enabled)
      PROVE  \A p \in Profiles : profile'[p].rev >= profile[p].rev
  BY <1>1, <1>4, RescheduledForm
<1>5. QED
  BY <1>1, <1>2, <1>3, <1>4, ProfileChanges

LEMMA FormStep ==
  ASSUME TypeInv, FormInv, Next
  PROVE  FormInv'
<1> DEFINE F == [profile : Profiles, rev : Int, half : BOOLEAN]
<1>1. /\ form \in [Desktops -> F]
      /\ \A p \in Profiles : profile[p].rev \in Nat /\ profile'[p].rev \in Nat
      /\ \A d \in Desktops : form[d].profile \in Profiles /\ form[d].rev \in Int
  BY ProfileTyped DEF TypeInv, StoreTypes, Row
<1>2. \A p \in Profiles : profile'[p].rev >= profile[p].rev
  BY RevGrows
<1>3. ASSUME NEW d \in Desktops, form'[d].profile = form[d].profile, form'[d].rev = form[d].rev
      PROVE  form'[d].rev <= profile'[form'[d].profile].rev
  BY <1>1, <1>2, <1>3 DEF FormInv
<1>4. ASSUME NEW d \in Desktops, NEW p \in Profiles, OpenProfile(d, p) PROVE FormInv'
  <2>1. form' = [form EXCEPT ![d] = [profile |-> p, rev |-> profile[p].rev, half |-> FALSE]]
    BY <1>4 DEF OpenProfile
  <2>2. form'[d].profile = p /\ form'[d].rev = profile[p].rev
    BY <1>1, <2>1
  <2>3. \A e \in Desktops \ {d} : form'[e] = form[e]
    BY <1>1, <2>1
  <2>4. QED
    BY <1>1, <1>2, <1>3, <2>2, <2>3 DEF FormInv
<1>5. ASSUME NEW d \in Desktops, NEW scopes \in Endpoints, NEW auth \in BOOLEAN,
             NEW advanced \in BOOLEAN, SaveProfile(d, scopes, auth, advanced)
      PROVE  FormInv'
  <2>1. form'[d].rev = profile'[form'[d].profile].rev
    BY <1>5, SavedForm
  <2>2. \A e \in Desktops \ {d} : form'[e] = form[e]
    BY <1>1, <1>5 DEF SaveProfile
  <2>3. profile'[form'[d].profile].rev <= profile'[form'[d].profile].rev
    BY <1>1, <1>5, SavedForm
  <2>4. QED
    BY <1>3, <2>1, <2>2, <2>3 DEF FormInv
<1>6. ASSUME NEW d \in Desktops, NEW enabled \in BOOLEAN, SaveSchedule(d, enabled) PROVE FormInv'
  <2>1. form'[d].rev <= profile'[form'[d].profile].rev
    <3>1. form'[d].profile = form[d].profile /\ profile'[form[d].profile].rev \in Nat
      BY <1>1, <1>6, RescheduledForm
    <3>2. CASE form'[d].rev = profile'[form[d].profile].rev
      BY <3>1, <3>2
    <3>3. CASE UNCHANGED profile /\ form'[d].rev = form[d].rev - 1
      BY <1>1, <3>1, <3>3 DEF FormInv
    <3>4. QED
      BY <1>6, <3>2, <3>3, RescheduledForm
  <2>2. \A e \in Desktops \ {d} : form'[e] = form[e]
    BY <1>1, <1>6 DEF SaveSchedule
  <2>3. QED
    BY <1>3, <2>1, <2>2 DEF FormInv
<1>7. ASSUME NEW w \in Workers, Crash(w) PROVE FormInv'
  <2>1. form' = [d \in Desktops |-> IF d \in Sharers(w) THEN [form[d] EXCEPT !.half = FALSE]
                                                        ELSE form[d]]
    BY <1>7 DEF Crash
  <2>2. \A d \in Desktops : form'[d].profile = form[d].profile /\ form'[d].rev = form[d].rev
    BY <1>1, <2>1
  <2>3. QED
    BY <1>3, <2>2 DEF FormInv
<1>8. CASE UNCHANGED form
  BY <1>3, <1>8 DEF FormInv
<1>9. QED
  BY <1>4, <1>5, <1>6, <1>7, <1>8, FormChanges

LEMMA Formed == Spec => []FormInv
<1>1. Init => FormInv
  <2> SUFFICES ASSUME Init PROVE FormInv
    OBVIOUS
  <2>1. \A d \in Desktops : form[d].profile = 1 /\ form[d].rev = 0
    BY DEF Init
  <2>2. profile[1].rev = 0
    <3>1. profile \in [Profiles -> FirstRow]
      BY DEF Init, FirstRow
    <3>2. 1 \in Profiles
      BY BackgroundAssumption DEF Profiles
    <3>3. profile[1] \in FirstRow
      BY <3>1, <3>2
    <3>4. QED
      BY <3>3 DEF FirstRow
  <2>3. QED
    BY <2>1, <2>2 DEF FormInv
<1>2. TypeInv /\ FormInv /\ [Next]_vars => FormInv'
  <2>1. ASSUME FormInv, UNCHANGED vars PROVE FormInv'
    BY <2>1 DEF FormInv, vars, store
  <2>2. QED
    BY <2>1, FormStep
<1>3. QED
  BY <1>1, <1>2, Typed, PTL DEF Spec

(* Only one notice of a profile waits for an answer. *)
LEMMA OneWaits ==
  ASSUME OnePending, NEW p
  PROVE  Cardinality(PendingNotice(p)) <= 1
<1>1. CASE PendingNotice(p) = {}
  BY <1>1, FS_EmptySet
<1>2. CASE PendingNotice(p) # {}
  <2>1. PICK n : n \in PendingNotice(p)
    BY <1>2
  <2>2. PendingNotice(p) = {n}
    BY <2>1 DEF PendingNotice, OnePending
  <2>3. QED
    BY <2>2, FS_Singleton
<1>3. QED
  BY <1>1, <1>2

(* The rows, processes and forms keep their types, and: a schedule has a
   next occurrence exactly while it is enabled, reports and events are of
   runs already numbered, at most one notice of a profile waits for an
   answer, no process has a lease its registry did not issue, and no form
   is ahead of its row (claim_due_schedule, update_schedule, acquire,
   record_missed_schedule).                                               *)
THEOREM BackgroundTypes == Spec => []BackgroundTypeOK
<1>1. ASSUME TypeInv, DueInv, LeaseInv, AccountInv, FormInv PROVE BackgroundTypeOK
  <2>1. \A p \in Profiles : /\ profile[p].scopes \in Endpoints
                            /\ profile[p].next \in 0..(MaxTime + Interval)
                            /\ profile[p].next = 0 <=> ~profile[p].enabled
    <3>1. \A p \in Profiles : profile[p] \in Row
      BY <1>1 DEF TypeInv, StoreTypes
    <3>2. \A p \in Profiles : profile[p].scopes \in Endpoints /\ profile[p].next \in Nat
      BY <3>1 DEF Row
    <3>3. QED
      BY <1>1, <3>2, BackgroundAssumption DEF DueInv, ClocksFit
  <2>2. DOMAIN report \subseteq 1..(nextRun - 1) /\ nextRun - 1 \in RunIds \cup {0}
    BY <1>1, BackgroundAssumption DEF TypeInv, StoreTypes, RunIds
  <2>3. \A run \in DOMAIN report : ReportStatus(report[run]) \in Statuses
    BY StatusKnown
  <2>4. \A e \in events : e.kind \in Kinds /\ e.run < nextRun
    BY <1>1 DEF TypeInv, StoreTypes, EventRow
  <2>5. \A p \in Profiles : Cardinality(PendingNotice(p)) <= 1
    BY <1>1, OneWaits DEF AccountInv, NoticeInv
  <2>6. \A w \in Workers : /\ task[w].pc \in PCs
                           /\ task[w].result \in Statuses \cup {"none", "error", "overlap"}
                           /\ task[w].lease \in 0..registry[w].next
    <3>1. \A w \in Workers : task[w] \in Task /\ registry[w].next \in Nat
      BY <1>1 DEF TypeInv, TaskTypes, LockTypes, Registry
    <3>2. \A w \in Workers : /\ task[w].pc \in PCs /\ task[w].result \in Results
                             /\ task[w].lease \in Nat
      BY <3>1 DEF Task
    <3>3. QED
      BY <1>1, <3>1, <3>2 DEF LeaseInv, TokensIssued, Results
  <2>7. QED
    BY <1>1, <2>1, <2>2, <2>3, <2>4, <2>5, <2>6 DEF BackgroundTypeOK, FormInv
<1>2. QED
  BY <1>1, Typed, Dated, LeasesOwned, Accounted, Formed, PTL

-----------------------------------------------------------------------------
(* The registry by itself: whichever runs ask it for whichever scopes.  Its *)
(* state is not Background's, so it has constants and variables of its own. *)
CONSTANTS LockRequests, LockOwners
VARIABLES lockTable, lockLeases

AnyLock ==
  INSTANCE ScopeLockRegistry WITH
    Requests <- LockRequests, Owners <- LockOwners,
    registry <- lockTable, leases <- lockLeases

LockHolds == AnyLock!LockTypeOK /\ AnyLock!HeldByLease /\ AnyLock!HeldDisjoint

-----------------------------------------------------------------------------
(* Which of two trees was asked for first makes no difference. *)
LEMMA OverlapsSymmetric ==
  ASSUME NEW s, NEW t, AnyLock!Overlaps(s, t)
  PROVE  AnyLock!Overlaps(t, s)
BY DEF AnyLock!Overlaps

(* A new registry owns nothing. *)
LEMMA EmptyRegistry ==
  ASSUME lockTable = AnyLock!NoLeases, lockLeases = {}
  PROVE  LockHolds
<1>1. lockTable.held = {} /\ lockTable.next = 0
  BY DEF AnyLock!NoLeases
<1>2. AnyLock!LockTypeOK
  BY <1>1 DEF AnyLock!LockTypeOK, AnyLock!NoLeases
<1>3. AnyLock!HeldByLease
  BY <1>1 DEF AnyLock!HeldByLease
<1>4. AnyLock!HeldDisjoint
  BY <1>1 DEF AnyLock!HeldDisjoint
<1>5. QED
  BY <1>2, <1>3, <1>4 DEF LockHolds

(* acquire: the new scopes carry a new token and touch no held scope. *)
LEMMA AcquireKeeps ==
  ASSUME LockHolds, NEW run \in LockOwners, NEW wanted \in LockRequests,
         AnyLock!acquire(run, wanted)
  PROVE  LockHolds'
<1> DEFINE token == lockTable.next + 1
           fresh == {[scope |-> s, owner |-> run, token |-> token] : s \in wanted}
<1>1. /\ lockTable.next \in Nat
      /\ lockTable.held \subseteq AnyLock!HeldScope
      /\ lockLeases \subseteq 1..lockTable.next
  BY DEF LockHolds, AnyLock!LockTypeOK
<1>2. /\ lockTable' = [next |-> token, held |-> lockTable.held \cup fresh]
      /\ lockLeases' = lockLeases \cup {token}
  BY DEF AnyLock!acquire, AnyLock!Grant
<1>3. lockTable'.held = lockTable.held \cup fresh /\ lockTable'.next = token
  BY <1>2
<1>4. token \in Nat \ {0}
  BY <1>1
<1>5. fresh \subseteq AnyLock!HeldScope
  <2> SUFFICES ASSUME NEW s \in wanted
               PROVE  [scope |-> s, owner |-> run, token |-> token] \in AnyLock!HeldScope
    OBVIOUS
  <2>1. s \in UNION LockRequests
    OBVIOUS
  <2>2. QED
    BY <2>1, <1>4 DEF AnyLock!HeldScope
<1>6. AnyLock!LockTypeOK'
  <2>1. lockTable' \in [next : Nat, held : SUBSET AnyLock!HeldScope]
    BY <1>1, <1>2, <1>4, <1>5
  <2>2. ASSUME NEW t \in lockLeases'
        PROVE  t \in 1..token
    <3>1. CASE t = token
      BY <3>1, <1>4
    <3>2. CASE t \in lockLeases
      <4>1. t \in 1..lockTable.next
        BY <3>2, <1>1
      <4>2. QED
        BY <4>1, <1>1
    <3>3. QED
      BY <3>1, <3>2, <1>2
  <2>3. lockLeases' \subseteq 1..lockTable'.next
    BY <2>2, <1>3
  <2>4. QED
    BY <2>1, <2>3 DEF AnyLock!LockTypeOK, AnyLock!HeldScope
<1>7. wanted # {}
  BY DEF AnyLock!acquire, AnyLock!Refused
<1>8. {h.token : h \in fresh} = {token}
  <2>1. PICK s \in wanted : TRUE
    BY <1>7
  <2>2. [scope |-> s, owner |-> run, token |-> token] \in fresh
    BY <2>1
  <2>3. [scope |-> s, owner |-> run, token |-> token].token = token
    OBVIOUS
  <2>4. token \in {h.token : h \in fresh}
    BY <2>2, <2>3
  <2>5. \A h \in fresh : h.token = token
    OBVIOUS
  <2>6. QED
    BY <2>4, <2>5
<1>9. AnyLock!HeldByLease'
  <2>1. {h.token : h \in lockTable.held} = lockLeases
    BY DEF LockHolds, AnyLock!HeldByLease
  <2>2. {h.token : h \in lockTable'.held} = lockLeases \cup {token}
    BY <1>3, <1>8, <2>1
  <2>3. QED
    BY <2>2, <1>2 DEF AnyLock!HeldByLease
<1>10. \A g \in fresh, h \in lockTable.held : ~AnyLock!Overlaps(g.scope, h.scope)
  BY DEF AnyLock!acquire, AnyLock!Refused
<1>11. \A g, h \in fresh : g.token = h.token
  OBVIOUS
<1>12. AnyLock!HeldDisjoint'
  <2> SUFFICES ASSUME NEW g \in lockTable'.held, NEW h \in lockTable'.held, g.token # h.token
               PROVE  ~AnyLock!Overlaps(g.scope, h.scope)
    BY DEF AnyLock!HeldDisjoint
  <2>1. CASE g \in lockTable.held /\ h \in lockTable.held
    BY <2>1 DEF LockHolds, AnyLock!HeldDisjoint
  <2>2. CASE g \in fresh /\ h \in lockTable.held
    BY <2>2, <1>10
  <2>3. CASE g \in lockTable.held /\ h \in fresh
    BY <2>3, <1>10, OverlapsSymmetric
  <2>4. CASE g \in fresh /\ h \in fresh
    BY <2>4, <1>11
  <2>5. QED
    BY <2>1, <2>2, <2>3, <2>4, <1>3
<1>13. QED
  BY <1>6, <1>9, <1>12 DEF LockHolds

(* release: exactly the scopes of the dropped lease go. *)
LEMMA ReleaseKeeps ==
  ASSUME LockHolds, NEW token \in lockLeases, AnyLock!release(token)
  PROVE  LockHolds'
<1> DEFINE rest == {h \in lockTable.held : h.token # token}
<1>1. /\ lockTable \in [next : Nat, held : SUBSET AnyLock!HeldScope]
      /\ lockLeases \subseteq 1..lockTable.next
  BY DEF LockHolds, AnyLock!LockTypeOK
<1>2. lockTable' = [next |-> lockTable.next, held |-> rest] /\ lockLeases' = lockLeases \ {token}
  BY <1>1 DEF AnyLock!release, AnyLock!GiveBack
<1>3. lockTable'.held = rest /\ lockTable'.next = lockTable.next
  BY <1>2
<1>4. AnyLock!LockTypeOK'
  BY <1>1, <1>2, <1>3 DEF AnyLock!LockTypeOK, AnyLock!HeldScope
<1>5. AnyLock!HeldByLease'
  <2>1. {h.token : h \in lockTable.held} = lockLeases
    BY DEF LockHolds, AnyLock!HeldByLease
  <2>2. {h.token : h \in rest} = lockLeases \ {token}
    BY <2>1
  <2>3. QED
    BY <2>2, <1>2, <1>3 DEF AnyLock!HeldByLease
<1>6. AnyLock!HeldDisjoint'
  BY <1>3 DEF LockHolds, AnyLock!HeldDisjoint
<1>7. QED
  BY <1>4, <1>5, <1>6 DEF LockHolds

-----------------------------------------------------------------------------
(* Two runs never hold trees of which one contains the other, every held
   tree belongs to a lease, and every lease holds one.                     *)
THEOREM LocksExclusive == AnyLock!Spec => [](AnyLock!HeldDisjoint /\ AnyLock!HeldByLease)
<1>1. AnyLock!Init => LockHolds
  BY EmptyRegistry DEF AnyLock!Init
<1>2. LockHolds /\ [AnyLock!Next]_(AnyLock!lockVars) => LockHolds'
  <2> SUFFICES ASSUME LockHolds, [AnyLock!Next]_(AnyLock!lockVars)
               PROVE  LockHolds'
    OBVIOUS
  <2>1. ASSUME NEW run \in LockOwners, NEW wanted \in LockRequests,
         AnyLock!acquire(run, wanted)
        PROVE  LockHolds'
    BY <2>1, AcquireKeeps
  <2>2. ASSUME NEW token \in lockLeases, AnyLock!release(token)
        PROVE  LockHolds'
    BY <2>2, ReleaseKeeps
  <2>3. CASE AnyLock!exit
    <3>1. lockTable'.held = {} /\ lockTable'.next = 0 /\ lockLeases' = {}
      BY <2>3 DEF AnyLock!exit, AnyLock!NoLeases
    <3>2. AnyLock!LockTypeOK'
      BY <2>3, <3>1 DEF AnyLock!LockTypeOK, AnyLock!exit, AnyLock!NoLeases
    <3>3. AnyLock!HeldByLease' /\ AnyLock!HeldDisjoint'
      BY <3>1 DEF AnyLock!HeldByLease, AnyLock!HeldDisjoint
    <3>4. QED
      BY <3>2, <3>3 DEF LockHolds
  <2>4. CASE UNCHANGED AnyLock!lockVars
    BY <2>4 DEF AnyLock!lockVars, LockHolds, AnyLock!LockTypeOK, AnyLock!HeldByLease,
           AnyLock!HeldDisjoint
  <2>5. QED
    BY <2>1, <2>2, <2>3, <2>4 DEF AnyLock!Next
<1>3. LockHolds => AnyLock!HeldDisjoint /\ AnyLock!HeldByLease
  BY DEF LockHolds
<1>4. QED
  BY <1>1, <1>2, <1>3, PTL DEF AnyLock!Spec
=============================================================================
