---------------------------- MODULE SshRunProofs ----------------------------
(***************************************************************************)
(* What a Safe Delete run over SSH does to the peers, for any number of    *)
(* paths, contents, runs, attempts, edits and failures: every step of the  *)
(* driver, every answer of the backend, every crash and every edit keeps   *)
(* the files, the plan and the rows of the journal in one relation, and    *)
(* from it follow the promises about removed sources and about the end of  *)
(* a run.                                                                  *)
(***************************************************************************)
EXTENDS SshRun, ActionJournalProofs

-----------------------------------------------------------------------------
(* The plan FreshAnalysis::from_inventories makes of any two inventories.   *)

PlanStep == [op : Operations, path : Files, item : Items]
Trees == src \in [Files -> Items] /\ dst \in [Files -> Items]

(* The steps of one source item: at most two, on its path, and one removal. *)
LEMMA StepsShape ==
  ASSUME Trees, NEW f \in Files
  PROVE  PieceFits(Steps(f), CleanupSteps(f), f, PlanStep, Files)
<1> DEFINE copy == Step("copy", f, src[f])
           overwrite == Step("overwrite", f, src[f])
           remove == Step("remove_source", f, src[f])
           clean == Step("remove_destination", f, dst[f])
<1>1. copy \in PlanStep /\ overwrite \in PlanStep /\ remove \in PlanStep /\ clean \in PlanStep
  BY SshAssumption DEF Trees, Step, PlanStep
<1>2. /\ copy.op = "copy" /\ overwrite.op = "overwrite" /\ remove.op = "remove_source"
      /\ clean.op = "remove_destination"
      /\ copy.path = f /\ overwrite.path = f /\ remove.path = f
  BY DEF Step
<1>3. src[f] # NoContent =>
        \E first \in {<<copy>>, <<overwrite>>, <<>>} : Steps(f) = first \o <<remove>>
  <2> DEFINE first == CASE dst[f] = NoContent -> <<copy>>
                        [] dst[f] \in Contents \ {src[f]} -> <<overwrite>>
                        [] OTHER -> <<>>
  <2>1. src[f] # NoContent => Steps(f) = first \o <<remove>>
    BY DEF Steps
  <2>2. first \in {<<copy>>, <<overwrite>>, <<>>}
    OBVIOUS
  <2> QED
    BY <2>1, <2>2
<1>4. src[f] = NoContent => Steps(f) = <<>>
  BY DEF Steps
<1>5. CleanupSteps(f) = <<>> \/ CleanupSteps(f) = <<clean>>
  BY DEF CleanupSteps
<1>6. src[f] # NoContent => CleanupSteps(f) = <<>>
  BY DEF CleanupSteps
<1> HIDE DEF copy, overwrite, remove, clean
<1>7. <<>> \in Seq(PlanStep) /\ Len(<<>>) = 0
  OBVIOUS
<1>8. CASE src[f] = NoContent
  <2>1. CASE CleanupSteps(f) = <<>>
    BY <1>4, <1>7, <1>8, <2>1 DEF PieceFits
  <2>2. CASE CleanupSteps(f) = <<clean>>
    <3>1. <<clean>> \in Seq(PlanStep) /\ Len(<<clean>>) = 1 /\ <<clean>>[1] = clean
      BY <1>1
    <3> QED
      BY <1>2, <1>4, <1>7, <1>8, <2>2, <3>1 DEF PieceFits
  <2> QED
    BY <1>5, <2>1, <2>2
<1>9. CASE src[f] # NoContent
  <2>1. CleanupSteps(f) = <<>>
    BY <1>6, <1>9
  <2>2. PICK first \in {<<copy>>, <<overwrite>>, <<>>} : Steps(f) = first \o <<remove>>
    BY <1>3, <1>9
  <2>3. ASSUME NEW x \in {copy, overwrite}, first = <<x>>
        PROVE  PieceFits(Steps(f), CleanupSteps(f), f, PlanStep, Files)
    <3>1. x \in PlanStep /\ x.op # "remove_source" /\ x.path = f
      BY <1>1, <1>2
    <3>2. /\ <<x>> \o <<remove>> \in Seq(PlanStep) /\ Len(<<x>> \o <<remove>>) = 2
          /\ (<<x>> \o <<remove>>)[1] = x /\ (<<x>> \o <<remove>>)[2] = remove
      BY <1>1, <3>1
    <3>3. /\ Steps(f) \in Seq(PlanStep) /\ Len(Steps(f)) = 2
          /\ Steps(f)[1] = x /\ Steps(f)[2] = remove
      BY <2>2, <2>3, <3>2
    <3>4. \A i \in 1..Len(Steps(f)) : i = 1 \/ i = 2
      BY <3>3
    <3> QED
      BY <1>2, <1>7, <2>1, <3>1, <3>3, <3>4 DEF PieceFits
  <2>4. CASE first = <<>>
    <3>1. /\ <<>> \o <<remove>> \in Seq(PlanStep) /\ Len(<<>> \o <<remove>>) = 1
          /\ (<<>> \o <<remove>>)[1] = remove
      BY <1>1
    <3>2. Steps(f) \in Seq(PlanStep) /\ Len(Steps(f)) = 1 /\ Steps(f)[1] = remove
      BY <2>2, <2>4, <3>1
    <3>3. \A i \in 1..Len(Steps(f)) : i = 1
      BY <3>2
    <3> QED
      BY <1>2, <1>7, <2>1, <3>2, <3>3 DEF PieceFits
  <2> QED
    BY <2>2, <2>3, <2>4
<1> QED
  BY <1>8, <1>9

(* The whole plan fits the journal and names each source removed once.      *)
LEMMA PlanShape ==
  ASSUME Trees
  PROVE  /\ BuildPlan \in Seq(PlanStep)
         /\ Len(BuildPlan) <= NumActions
         /\ \A a, b \in 1..Len(BuildPlan) :
              /\ BuildPlan[a].op = "remove_source" /\ BuildPlan[b].op = "remove_source"
              /\ BuildPlan[a].path = BuildPlan[b].path
              => a = b
<1> DEFINE N == NumFiles
           steps == [f \in Files |-> Steps(f)]
           cleaned == [f \in Files |-> CleanupSteps(f)]
           isUp(g) == g = [f \in 0..N |-> IF f = 0 THEN <<>> ELSE g[f - 1] \o Steps(f)]
           isDown(g) == g = [f \in 0..N |-> IF f = 0 THEN <<>> ELSE g[f - 1] \o CleanupSteps(f)]
           upTo == CHOOSE g : isUp(g)
           cleanup == CHOOSE g : isDown(g)
<1>1. BuildPlan = upTo[N] \o cleanup[N]
  BY DEF BuildPlan
<1>2. N \in Nat /\ NumActions = 2 * N /\ Files = 1..N
  BY SshAssumption DEF Files
<1>3. \A f \in 0..N : f # 0 => f \in Files /\ steps[f] = Steps(f) /\ cleaned[f] = CleanupSteps(f)
  BY <1>2
<1>4. Joins(steps, N, upTo)
  <2>1. PICK g : Joins(steps, N, g)
    BY <1>2, JoinExists
  <2>2. isUp(g)
    BY <1>3, <2>1, Zenon DEF Joins
  <2>3. isUp(upTo)
    <3> HIDE DEF isUp
    <3> QED
      BY <2>2
  <2> HIDE DEF upTo
  <2> QED
    BY <1>3, <2>3, Zenon DEF Joins
<1>5. Joins(cleaned, N, cleanup)
  <2>1. PICK g : Joins(cleaned, N, g)
    BY <1>2, JoinExists
  <2>2. isDown(g)
    BY <1>3, <2>1, Zenon DEF Joins
  <2>3. isDown(cleanup)
    <3> HIDE DEF isDown
    <3> QED
      BY <2>2
  <2> HIDE DEF cleanup
  <2> QED
    BY <1>3, <2>3, Zenon DEF Joins
<1>6. \A f \in 1..N : PieceFits(steps[f], cleaned[f], f, PlanStep, Files)
  BY <1>2, StepsShape
<1> HIDE DEF upTo, cleanup, steps, cleaned, isUp, isDown
<1>7. JoinedFits(BuildPlan, N, PlanStep, Files)
  BY <1>1, <1>2, <1>4, <1>5, <1>6, JoinedPlan
<1> QED
  BY <1>2, <1>7 DEF JoinedFits

-----------------------------------------------------------------------------
(* The invariant.  The Ledger is what holds wherever the driver stands: a   *)
(* sound journal, whose rows are those of the plan in order, and for each   *)
(* recorded removal a recovery that was as proven.                          *)

FilesTyped ==
  /\ Trees
  /\ trash \in [Files -> Items] /\ taken \in [Files -> Items]
  /\ witnessed \in [Files -> Items] /\ inventory \in [Files -> Items]
  /\ seen \in [src : Items, dst : Items, sound : BOOLEAN]

Removes(a) == plan[a].op = "remove_source"

PlanFits ==
  /\ plan \in Seq(PlanStep)
  /\ Len(plan) <= NumActions
  /\ \A a, b \in 1..Len(plan) :
       Removes(a) /\ Removes(b) /\ plan[a].path = plan[b].path => a = b

RowsFit ==
  \A a \in Actions : HasPlan(a) =>
    /\ a <= Len(plan)
    /\ PlanRow(a).op = plan[a].op
    /\ \A b \in 1..a : HasPlan(b)
    /\ LastPhase(a) # "recovery_resolved"
    /\ LastPhase(a) = "completed" => ~Removes(a)

MovedAsProven(a) ==
  /\ Removes(a)
  /\ taken[plan[a].path] # NoContent
  /\ taken[plan[a].path] = inventory[plan[a].path]
  /\ trash[plan[a].path] = inventory[plan[a].path]
  /\ witnessed[plan[a].path] = inventory[plan[a].path]

Recovered == \A a \in Actions : LastPhase(a) = "removal_completed" => MovedAsProven(a)

Ledger == JournalSound /\ FilesTyped /\ PlanFits /\ RowsFit /\ Recovered

(* The Position ties the step of the driver to the rows of its action.      *)
Outside == {"idle", "give_up", "classify"}
Reconciling == {"reconcile", "record_drained", "record_findings"}
Removing == {"prove", "boundary", "recover", "record_removal"}
Working ==
  {"started", "defer", "transfer", "verify", "complete", "fail_action", "unresolved",
   "review", "cancel_action", "journal_failure"} \cup Removing
Looping == Working \cup {"next", "cancel_remaining"} \cup Reconciling

Standing ==
  /\ pc \in Looping \cup Outside \cup {"begun", "persist"}
  /\ cur \in Nat \ {0}
  /\ pc = "begun" => cur = 1
  /\ pc = "persist" => \A b \in 1..(cur - 1) : HasPlan(b)
  /\ pc \in Working => cur <= Len(plan)
  /\ pc \in Reconciling => cur > Len(plan)
  /\ pc \in Looping => \A a \in Actions : a < cur => LastPhase(a) \notin OpenPhases
  /\ \A a \in Actions : a = cur =>
       /\ pc = "transfer" => LastPhase(a) = "progress"
       /\ pc = "recover" => LastPhase(a) = "removal_started"

(* In a removal, the evidence in hand is of the confirmed content.          *)
StepFits ==
  \A a \in Actions : a = cur =>
    /\ pc \in Removing =>
         /\ Removes(a)
         /\ seen.src = inventory[plan[a].path]
         /\ seen.dst = inventory[plan[a].path]
    /\ pc = "record_removal" => MovedAsProven(a)

(* The driver is past action a, or at it in one of these steps.             *)
Behind(a, steps) ==
  pc \notin Outside => pc \in Looping /\ (a < cur \/ (a = cur /\ pc \in steps))

(* What is gone from the source is shown by the rows of its removal, and    *)
(* what replaced the destination unproven by those of its transfer.         *)
TakenPhases == {"removal_started", "removal_completed", "recovery_review"}
TakenSteps == {"record_removal", "review", "journal_failure"}

TakenShown ==
  \A a \in 1..Len(plan) : Removes(a) /\ taken[plan[a].path] # NoContent =>
    LastPhase(a) \in TakenPhases /\ Behind(a, TakenSteps)

InstalledPhases == {"progress", "unresolved", "interrupted", "recovery_review"}
InstalledSteps == {"verify", "review", "journal_failure"}

InstalledShown ==
  /\ installed \subseteq 1..Len(plan)
  /\ \A a \in installed : LastPhase(a) \in InstalledPhases /\ Behind(a, InstalledSteps)

EndsShown ==
  /\ pc = "journal_failure" => broken # "no"
  /\ pc = "give_up" => broken # "no" \/ ~JournalReadable
  /\ pc = "classify" /\ runs > 0 => stored.recon # "none" \/ broken # "no"
  /\ pc = "idle" /\ runs > 0 /\ JournalReadable =>
       /\ stored.recon # "none" \/ broken # "no"
       /\ attended \/ broken = "killed" \/ ~InProgress
  /\ pc = "classify" => attended

Position ==
  /\ Standing /\ StepFits /\ TakenShown /\ InstalledShown /\ EndsShown
  /\ runs \in Nat
  /\ stored \in [inventory : BOOLEAN, recon : {"none", "drained", "findings"}, blocked : BOOLEAN]

-----------------------------------------------------------------------------
(* Steps that append one row or none.                                       *)

LEMMA PlanBounds ==
  ASSUME PlanFits
  PROVE  /\ Len(plan) \in Nat /\ Len(plan) <= NumActions
         /\ NumActions \in Nat /\ Actions = 1..NumActions
         /\ \A a \in 1..Len(plan) : /\ a \in Actions /\ plan[a] \in PlanStep
                                    /\ plan[a].path \in Files
                                    /\ plan[a].op \in Operations /\ plan[a].item \in Items
<1>1. /\ plan \in Seq(PlanStep) /\ Len(plan) \in Nat /\ Len(plan) <= NumActions
      /\ NumActions \in Nat /\ Actions = 1..NumActions
  BY JournalAssumption DEF PlanFits, Actions
<1>2. ASSUME NEW a \in 1..Len(plan) PROVE a \in Actions /\ plan[a] \in PlanStep
  BY <1>1
<1>3. \A s \in PlanStep : s.path \in Files /\ s.op \in Operations /\ s.item \in Items
  BY DEF PlanStep
<1> QED
  BY <1>1, <1>2, <1>3

LEMMA StayKeeps ==
  ASSUME Stay
  PROVE  /\ src' = src /\ dst' = dst /\ trash' = trash /\ taken' = taken
         /\ witnessed' = witnessed /\ installed' = installed
         /\ inventory' = inventory /\ plan' = plan /\ attended' = attended
         /\ stored' = stored /\ runs' = runs
BY DEF Stay, files, run

(* The Ledger lives on without a new row ...                                *)
LEMMA LedgerGrows ==
  ASSUME Ledger, events' = events, method' = method, FilesTyped',
         plan' = plan, inventory' = inventory,
         \A a \in Actions : LastPhase(a) = "removal_completed" => MovedAsProven(a)'
  PROVE  Ledger' /\ \A a \in Actions : RowsKept(a)
<1>1. JournalSound' /\ \A a \in Actions : RowsKept(a)
  BY SoundSame DEF Ledger
<1>2. PlanFits'
  BY DEF Ledger, PlanFits, Removes
<1>3. Actions' = Actions /\ \A b \in Actions : \A c \in 1..b : c \in Actions
  BY JournalAssumption DEF Actions
<1>4. \A b \in Actions : /\ (HasPlan(b)' <=> HasPlan(b)) /\ LastPhase(b)' = LastPhase(b)
                         /\ PlanRow(b)' = PlanRow(b)
  BY <1>1 DEF RowsKept
<1>5. RowsFit'
  <2> SUFFICES ASSUME NEW b \in Actions, HasPlan(b)'
               PROVE  /\ b <= Len(plan)
                      /\ PlanRow(b)'.op = plan[b].op
                      /\ \A c \in 1..b : HasPlan(c)'
                      /\ LastPhase(b)' # "recovery_resolved"
                      /\ LastPhase(b)' = "completed" => ~Removes(b)
    BY <1>3 DEF RowsFit, Removes
  <2> QED
    BY <1>3, <1>4 DEF Ledger, RowsFit
<1>6. Recovered'
  BY <1>3, <1>4 DEF Recovered
<1> QED
  BY <1>1, <1>2, <1>5, <1>6 DEF Ledger

LEMMA LedgerSame ==
  ASSUME Ledger, events' = events, method' = method, FilesTyped',
         plan' = plan, inventory' = inventory,
         taken' = taken, trash' = trash, witnessed' = witnessed
  PROVE  Ledger' /\ \A a \in Actions : RowsKept(a)
<1>1. \A a \in Actions : LastPhase(a) = "removal_completed" => MovedAsProven(a)'
  BY DEF Ledger, Recovered, MovedAsProven, Removes
<1> QED
  BY <1>1, LedgerGrows

(* ... and with one, of the plan in plan order or of an action it holds.    *)
LEMMA LedgerTold ==
  ASSUME Ledger, NEW a \in Actions, NEW e \in Row, AppendEvent(a, e), FilesTyped',
         plan' = plan, inventory' = inventory,
         taken' = taken, trash' = trash, witnessed' = witnessed,
         e.phase = "planned" =>
           a <= Len(plan) /\ e.op = plan[a].op /\ \A b \in 1..(a - 1) : HasPlan(b),
         e.phase # "recovery_resolved",
         e.phase = "removal_completed" => MovedAsProven(a)
  PROVE  Ledger' /\ Told(a, e)
<1>1. Told(a, e)
  BY RowTold DEF Ledger
<1>2. Actions' = Actions /\ NumActions \in Nat /\ Actions = 1..NumActions
  BY JournalAssumption DEF Actions
<1>3. e.phase # "planned" => HasPlan(a)
  BY AcceptedFollows DEF Ledger, JournalSound, HasPlan
<1>4. a <= Len(plan) /\ \A b \in 1..(a - 1) : HasPlan(b)
  BY <1>2, <1>3 DEF Ledger, RowsFit
<1>5. JournalSound'
  BY <1>4, SoundAppend DEF Ledger
<1>6. PlanFits'
  BY DEF Ledger, PlanFits, Removes
<1>7. \A b \in Actions : b # a => /\ (HasPlan(b)' <=> HasPlan(b)) /\ LastPhase(b)' = LastPhase(b)
                                  /\ PlanRow(b)' = PlanRow(b)
  BY <1>1 DEF Told, RowsKept
<1>8. HasPlan(a)' /\ LastPhase(a)' = e.phase /\ PlanRow(a)'.op = plan[a].op
  BY <1>1, <1>3 DEF Told, Ledger, RowsFit
<1>9. e.phase = "completed" => ~Removes(a)
  <2>1. e.phase = "completed" => HasPlan(a) /\ PlannedOp(a) # "remove_source"
    BY <1>3 DEF AppendEvent, Accepts, ValidEvent, SettlesThroughRemoval
  <2> QED
    BY <2>1 DEF PlannedOp, Ledger, RowsFit, Removes
<1>10. RowsFit'
  <2> SUFFICES ASSUME NEW b \in Actions, HasPlan(b)'
               PROVE  /\ b <= Len(plan)
                      /\ PlanRow(b)'.op = plan[b].op
                      /\ \A c \in 1..b : HasPlan(c)'
                      /\ LastPhase(b)' # "recovery_resolved"
                      /\ LastPhase(b)' = "completed" => ~Removes(b)
    BY <1>2 DEF RowsFit, Removes
  <2>1. \A c \in Actions : HasPlan(c) => HasPlan(c)'
    BY <1>7, <1>8
  <2>2. CASE b = a
    <3>1. \A c \in 1..a : c \in Actions /\ (c = a \/ c \in 1..(a - 1))
      BY <1>2
    <3> QED
      BY <1>4, <1>8, <1>9, <2>1, <2>2, <3>1
  <2>3. CASE b # a
    <3>1. HasPlan(b) /\ LastPhase(b)' = LastPhase(b) /\ PlanRow(b)' = PlanRow(b)
      BY <1>7, <2>3
    <3>2. \A c \in 1..b : c \in Actions
      BY <1>2
    <3> QED
      BY <2>1, <3>1, <3>2 DEF Ledger, RowsFit
  <2> QED
    BY <2>2, <2>3
<1>11. Recovered'
  <2>1. \A b \in Actions : MovedAsProven(b)' <=> MovedAsProven(b)
    BY DEF MovedAsProven, Removes
  <2> QED
    BY <1>2, <1>7, <1>8, <2>1 DEF Ledger, Recovered
<1> QED
  BY <1>1, <1>5, <1>6, <1>10, <1>11 DEF Ledger

-----------------------------------------------------------------------------
(* How a step moves the driver, in the loop or out of the run.              *)

SeenTyped == seen \in [src : Items, dst : Items, sound : BOOLEAN]
Held == UNCHANGED <<files, run, stored, runs>>

LEMMA HeldKeeps ==
  ASSUME Held
  PROVE  /\ src' = src /\ dst' = dst /\ trash' = trash /\ taken' = taken
         /\ witnessed' = witnessed /\ installed' = installed
         /\ inventory' = inventory /\ plan' = plan /\ attended' = attended
         /\ stored' = stored /\ runs' = runs
BY DEF Held, files, run

LEMMA HeldTyped ==
  ASSUME Ledger, Held, SeenTyped'
  PROVE  FilesTyped'
<1>1. Files' = Files /\ Items' = Items
  BY DEF Files, Items
<1> QED
  BY <1>1, HeldKeeps DEF Ledger, FilesTyped, Trees, SeenTyped

Onward ==
  /\ pc \notin Outside /\ pc' \in Looping \cup {"idle", "give_up"}
  /\ pc' \in Looping => pc \in Looping
  /\ cur' \in {cur, cur + 1}
  /\ plan' = plan
  /\ pc' \in Working => cur' <= Len(plan)
  /\ pc' \in Reconciling => cur' > Len(plan)
  /\ \A a \in Actions :
       /\ a # cur => LastPhase(a)' = LastPhase(a)
       /\ a = cur /\ cur' # cur => LastPhase(a)' \notin OpenPhases

LEMMA StandingOnward ==
  ASSUME Ledger, Standing, Onward,
         pc' = "transfer" => cur' = cur /\ \A a \in Actions : a = cur => LastPhase(a)' = "progress",
         pc' = "recover" =>
           cur' = cur /\ \A a \in Actions : a = cur => LastPhase(a)' = "removal_started"
  PROVE  Standing'
<1>1. Actions' = Actions
  BY DEF Actions
<1>2. pc' \notin {"begun", "persist"}
  BY DEF Onward, Looping, Working, Reconciling, Removing
<1>3. cur' \in Nat \ {0}
  BY DEF Onward, Standing
<1>4. ASSUME pc' \in Looping, NEW a \in Actions, a < cur'
      PROVE  LastPhase(a)' \notin OpenPhases
  <2>1. a \in Nat /\ cur \in Nat
    BY DEF Standing, Actions
  <2>2. CASE a = cur
    BY <1>4, <2>1, <2>2 DEF Onward
  <2>3. CASE a < cur
    BY <1>4, <2>1, <2>3 DEF Onward, Standing
  <2> QED
    BY <1>4, <2>1, <2>2, <2>3 DEF Onward
<1> QED
  BY <1>1, <1>2, <1>3, <1>4 DEF Standing, Onward, Outside

LEMMA TakenOnward ==
  ASSUME Ledger, Standing, TakenShown, Onward, taken' = taken,
         pc \in TakenSteps =>
           /\ cur' # cur \/ pc' \in Outside \cup TakenSteps
           /\ \A a \in Actions : a = cur =>
                LastPhase(a)' = LastPhase(a) \/ LastPhase(a)' \in TakenPhases
  PROVE  TakenShown'
<1> SUFFICES ASSUME NEW a \in 1..Len(plan), Removes(a), taken[plan[a].path] # NoContent
             PROVE  LastPhase(a)' \in TakenPhases /\ Behind(a, TakenSteps)'
  BY DEF TakenShown, Onward, Removes, TakenSteps, TakenPhases
<1>1. LastPhase(a) \in TakenPhases /\ Behind(a, TakenSteps)
  BY DEF TakenShown
<1>2. a \in Actions /\ a \in Nat /\ cur \in Nat
  BY PlanBounds DEF Ledger, Standing
<1>3. pc \in Looping /\ (a < cur \/ (a = cur /\ pc \in TakenSteps))
  BY <1>1 DEF Behind, Onward
<1>4. CASE a < cur
  <2>1. LastPhase(a)' = LastPhase(a) /\ a < cur'
    BY <1>2, <1>4 DEF Onward
  <2> QED
    BY <1>1, <2>1 DEF Behind, Onward, Outside
<1>5. CASE a = cur /\ pc \in TakenSteps
  <2>1. LastPhase(a)' \in TakenPhases
    BY <1>1, <1>2, <1>5
  <2>2. CASE cur' # cur
    <3>1. a < cur'
      BY <1>2, <1>5, <2>2 DEF Onward
    <3> QED
      BY <2>1, <3>1 DEF Behind, Onward, Outside
  <2>3. CASE cur' = cur
    BY <1>5, <2>1, <2>3 DEF Behind, Onward, Outside, TakenSteps
  <2> QED
    BY <2>2, <2>3
<1> QED
  BY <1>3, <1>4, <1>5

LEMMA InstalledOnward ==
  ASSUME Ledger, Standing, InstalledShown, Onward, installed' \subseteq installed,
         pc \in InstalledSteps =>
           \/ cur \notin installed'
           \/ /\ cur' # cur \/ pc' \in Outside \cup InstalledSteps
              /\ \A a \in Actions : a = cur =>
                   LastPhase(a)' = LastPhase(a) \/ LastPhase(a)' \in InstalledPhases
  PROVE  InstalledShown'
<1>1. installed' \subseteq 1..Len(plan) /\ plan' = plan
  BY DEF InstalledShown, Onward
<1> SUFFICES ASSUME NEW a \in installed'
             PROVE  LastPhase(a)' \in InstalledPhases /\ Behind(a, InstalledSteps)'
  BY <1>1 DEF InstalledShown, InstalledSteps, InstalledPhases
<1>2. LastPhase(a) \in InstalledPhases /\ Behind(a, InstalledSteps)
  BY DEF InstalledShown
<1>3. a \in Actions /\ a \in Nat /\ cur \in Nat
  BY <1>1, PlanBounds DEF Ledger, Standing
<1>4. pc \in Looping /\ (a < cur \/ (a = cur /\ pc \in InstalledSteps))
  BY <1>2 DEF Behind, Onward
<1>5. CASE a < cur
  <2>1. LastPhase(a)' = LastPhase(a) /\ a < cur'
    BY <1>3, <1>5 DEF Onward
  <2> QED
    BY <1>2, <2>1 DEF Behind, Onward, Outside
<1>6. CASE a = cur /\ pc \in InstalledSteps
  <2>1. LastPhase(a)' \in InstalledPhases
    BY <1>2, <1>3, <1>6
  <2>2. CASE cur' # cur
    <3>1. a < cur'
      BY <1>3, <1>6, <2>2 DEF Onward
    <3> QED
      BY <2>1, <3>1 DEF Behind, Onward, Outside
  <2>3. CASE cur' = cur
    BY <1>6, <2>1, <2>3 DEF Behind, Onward, Outside, InstalledSteps
  <2> QED
    BY <2>2, <2>3
<1> QED
  BY <1>4, <1>5, <1>6

LEMMA EndsOnward ==
  ASSUME Onward,
         pc' \in {"idle", "give_up", "journal_failure"} => broken' # "no",
         pc' = "idle" => attended'
  PROVE  EndsShown'
BY DEF EndsShown, Onward, Looping, Working, Reconciling, Removing

(* No step of a removal: nothing is claimed of the evidence in hand.        *)
LEMMA NoRemoval ==
  ASSUME pc' \notin Removing
  PROVE  StepFits'
BY DEF StepFits, Removing

LEMMA CurAction ==
  ASSUME Ledger, Position, pc \in Working \/ cur <= Len(plan)
  PROVE  cur \in Actions /\ cur \in 1..Len(plan) /\ cur \in Nat /\ Len(plan) \in Nat
BY PlanBounds DEF Ledger, Position, Standing

(* The row e is appended to the action the driver stands at.               *)
ToldHere(e) == \A a \in Actions : a = cur => Told(a, e)

LEMMA LedgerToldHere ==
  ASSUME Ledger, cur \in Actions, NEW e \in Row, AppendEvent(cur, e), FilesTyped',
         plan' = plan, inventory' = inventory,
         taken' = taken, trash' = trash, witnessed' = witnessed,
         e.phase = "planned" =>
           cur <= Len(plan) /\ e.op = plan[cur].op /\ \A b \in 1..(cur - 1) : HasPlan(b),
         e.phase # "recovery_resolved",
         e.phase = "removal_completed" => MovedAsProven(cur)
  PROVE  Ledger' /\ ToldHere(e)
<1>1. PICK a \in Actions : a = cur
  OBVIOUS
<1>2. Ledger' /\ Told(a, e)
  BY <1>1, LedgerTold
<1> QED
  BY <1>1, <1>2 DEF ToldHere

LEMMA ToldPhases ==
  ASSUME NEW e, ToldHere(e), cur \in Actions
  PROVE  \A a \in Actions :
           /\ a = cur => HasPlan(a)' /\ LastPhase(a)' = e.phase
           /\ a # cur => LastPhase(a)' = LastPhase(a) /\ (HasPlan(a)' <=> HasPlan(a))
BY DEF ToldHere, Told, RowsKept

-----------------------------------------------------------------------------
(* The kinds of steps in the loop.  A row ends the action, and the next one *)
(* is up.                                                                   *)
LEMMA RowSettles ==
  ASSUME Ledger, Position, pc \in Looping, cur <= Len(plan), Held, SeenTyped',
         NEW e \in Row, Writes(e),
         NEW q \in {"next", "cancel_remaining"}, NextAction(q),
         e.phase \notin OpenPhases, e.phase # "recovery_resolved",
         e.phase = "removal_completed" => MovedAsProven(cur),
         pc \in TakenSteps => e.phase \in TakenPhases,
         pc \in InstalledSteps => e.phase \in InstalledPhases
  PROVE  Ledger' /\ Position'
<1>1. cur \in Actions /\ cur \in 1..Len(plan) /\ cur \in Nat
  BY CurAction
<1>2. Ledger' /\ ToldHere(e)
  <2>1. AppendEvent(cur, e) /\ e.phase # "planned" /\ FilesTyped'
    BY HeldTyped DEF Writes, OpenPhases
  <2> QED
    BY <1>1, <2>1, HeldKeeps, LedgerToldHere
<1>3. Onward
  BY <1>1, <1>2, HeldKeeps, ToldPhases
     DEF Onward, NextAction, Looping, Working, Removing, Reconciling, Outside
<1>4. pc' = q /\ cur' # cur /\ q \notin Removing \cup {"transfer", "recover"}
  BY <1>1 DEF NextAction, Removing
<1>5. Standing'
  BY <1>3, <1>4, StandingOnward DEF Position
<1>6. StepFits'
  BY <1>4, NoRemoval
<1>7. TakenShown'
  BY <1>1, <1>2, <1>3, <1>4, HeldKeeps, ToldPhases, TakenOnward DEF Position
<1>8. InstalledShown'
  BY <1>1, <1>2, <1>3, <1>4, HeldKeeps, ToldPhases, InstalledOnward DEF Position
<1>9. EndsShown'
  BY <1>3, <1>4, EndsOnward
<1> QED
  BY <1>2, <1>5, <1>6, <1>7, <1>8, <1>9, HeldKeeps DEF Position

(* A row takes the action to its next step.                                 *)
LEMMA RowGoes ==
  ASSUME Ledger, Position, cur <= Len(plan), Held, SeenTyped',
         pc \in Looping \ (TakenSteps \cup InstalledSteps),
         NEW e \in Row, Writes(e),
         NEW q \in Working \ {"journal_failure"}, Goto(q),
         e.phase \notin {"planned", "removal_completed", "recovery_resolved"},
         q = "transfer" => e.phase = "progress",
         q = "recover" => e.phase = "removal_started",
         StepFits'
  PROVE  Ledger' /\ Position'
<1>1. cur \in Actions /\ cur \in 1..Len(plan) /\ cur \in Nat
  BY CurAction
<1>2. Ledger' /\ ToldHere(e)
  <2>1. AppendEvent(cur, e) /\ FilesTyped'
    BY HeldTyped DEF Writes
  <2> QED
    BY <1>1, <2>1, HeldKeeps, LedgerToldHere
<1>3. pc' = q /\ cur' = cur
  BY DEF Goto
<1>4. Onward
  BY <1>1, <1>2, <1>3, HeldKeeps, ToldPhases
     DEF Onward, Looping, Working, Removing, Reconciling, Outside
<1>5. Standing'
  BY <1>1, <1>2, <1>3, <1>4, ToldPhases, StandingOnward DEF Position
<1>6. TakenShown'
  BY <1>4, HeldKeeps, TakenOnward DEF Position
<1>7. InstalledShown'
  BY <1>4, HeldKeeps, InstalledOnward DEF Position
<1>8. EndsShown'
  BY <1>3, <1>4, EndsOnward DEF Working, Removing
<1> QED
  BY <1>2, <1>5, <1>6, <1>7, <1>8, HeldKeeps DEF Position

(* A step without a row.                                                    *)
LEMMA QuietGoes ==
  ASSUME Ledger, Position, Held, SeenTyped', events' = events, method' = method,
         pc \in Looping \ (TakenSteps \cup InstalledSteps),
         NEW q \in Looping \ Removing, Goto(q),
         q \in Working => cur <= Len(plan),
         q \in Reconciling => cur > Len(plan),
         q = "transfer" => pc = "transfer",
         q = "journal_failure" => broken' # "no"
  PROVE  Ledger' /\ Position'
<1>1. Ledger' /\ \A a \in Actions : RowsKept(a)
  BY HeldKeeps, HeldTyped, LedgerSame
<1>2. pc' = q /\ cur' = cur
  BY DEF Goto
<1>3. Onward
  BY <1>1, <1>2, HeldKeeps
     DEF Onward, Looping, Working, Removing, Reconciling, Outside, RowsKept
<1>4. Standing'
  <2>1. \A a \in Actions : a = cur /\ pc = "transfer" => LastPhase(a)' = "progress"
    BY <1>1 DEF Position, Standing, RowsKept
  <2> QED
    BY <1>2, <1>3, <2>1, StandingOnward DEF Position, Removing
<1>5. StepFits'
  BY <1>2, NoRemoval
<1>6. TakenShown'
  BY <1>3, HeldKeeps, TakenOnward DEF Position
<1>7. InstalledShown'
  BY <1>3, HeldKeeps, InstalledOnward DEF Position
<1>8. EndsShown'
  BY <1>2, <1>3, EndsOnward DEF Looping, Working, Removing, Reconciling
<1> QED
  BY <1>1, <1>4, <1>5, <1>6, <1>7, <1>8, HeldKeeps DEF Position

(* A row, or a write of the run's record, is lost: the run is at its end,   *)
(* or looks for a Recovery Review first.                                    *)
LEMMA RowLost ==
  ASSUME Ledger, Position, Held, SeenTyped', events' = events, method' = method,
         pc \notin Outside, broken' # "no",
         Abort \/ (Goto("journal_failure") /\ pc \in Working)
  PROVE  Ledger' /\ Position'
<1>1. Ledger' /\ \A a \in Actions : RowsKept(a)
  BY HeldKeeps, HeldTyped, LedgerSame
<1>2. /\ cur' = cur
      /\ \/ pc' = "idle" /\ attended
         \/ pc' = "give_up"
         \/ pc' = "journal_failure" /\ pc \in Working
  BY DEF Abort, Goto
<1>3. Onward
  BY <1>1, <1>2, HeldKeeps
     DEF Onward, Looping, Working, Removing, Reconciling, Outside, RowsKept, Position, Standing
<1>4. Standing'
  BY <1>2, <1>3, StandingOnward DEF Position
<1>5. StepFits'
  BY <1>2, NoRemoval DEF Removing
<1>6. TakenShown'
  BY <1>1, <1>2, <1>3, HeldKeeps, TakenOnward DEF Position, RowsKept, Outside, TakenSteps
<1>7. InstalledShown'
  BY <1>1, <1>2, <1>3, HeldKeeps, InstalledOnward DEF Position, RowsKept, Outside, InstalledSteps
<1>8. EndsShown'
  BY <1>2, <1>3, HeldKeeps, EndsOnward
<1> QED
  BY <1>1, <1>4, <1>5, <1>6, <1>7, <1>8, HeldKeeps DEF Position

-----------------------------------------------------------------------------
(* The rows of the driver, written or lost.                                 *)

LEMMA StayHeld ==
  ASSUME Stay
  PROVE  Held
BY DEF Stay, Held

LEMMA SeenKept ==
  ASSUME Ledger, UNCHANGED seen
  PROVE  SeenTyped'
<1>1. Items' = Items
  BY DEF Items
<1> QED
  BY <1>1 DEF Ledger, FilesTyped, SeenTyped

LEMMA WorkKept ==
  ASSUME Ledger, UNCHANGED work
  PROVE  SeenTyped' /\ seen' = seen
BY SeenKept DEF work

LEMMA FailsQuietly ==
  ASSUME NEW e, WriteFails(e)
  PROVE  events' = events /\ method' = method /\ broken' # "no"
BY DEF WriteFails

LEMMA ProofRows ==
  ASSUME Ledger
  PROVE  /\ TransferVerified(Proof) \in Row /\ TransferVerified(Proof).phase = "transfer_verified"
         /\ ProofBoundary(Proof, method) \in Row
         /\ ProofBoundary(Proof, method).phase = "proof_boundary"
         /\ RemovalStarted(method) \in Row /\ RemovalStarted(method).phase = "removal_started"
         /\ RemovalCompleted(RemovalProof, method) \in Row
         /\ RemovalCompleted(RemovalProof, method).phase = "removal_completed"
<1>1. Proof \in Evidence /\ RemovalProof \in Evidence
  BY DEF Ledger, FilesTyped, Items, Proof, RemovalProof, Evidence, Sides, Provenances
<1>2. method \in Methods \cup {NoMethod}
  BY DEF Ledger, JournalSound, TypeOK
<1>3. \A p \in {"transfer_verified", "proof_boundary", "removal_started", "removal_completed"} :
        Event(p) \in Row /\ Event(p).phase = p
  BY EventRow DEF Phases
<1> QED
  BY <1>1, <1>2, <1>3
     DEF TransferVerified, ProofBoundary, RemovalStarted, RemovalCompleted, Row

LEMMA RecordsEnd ==
  ASSUME Ledger, Position, pc \in Looping, cur <= Len(plan), SeenTyped',
         NEW e \in Row, NEW q \in {"next", "cancel_remaining"},
         e.phase \notin OpenPhases, e.phase # "recovery_resolved",
         e.phase = "removal_completed" => MovedAsProven(cur),
         pc \in TakenSteps => e.phase \in TakenPhases,
         pc \in InstalledSteps => e.phase \in InstalledPhases,
         \/ Records(e, NextAction(q), Abort)
         \/ Records(e, NextAction(q), Goto("journal_failure")) /\ pc \in Working
  PROVE  Ledger' /\ Position'
<1>1. Held
  BY StayHeld DEF Records
<1>2. CASE Writes(e) /\ NextAction(q)
  BY <1>1, <1>2, RowSettles
<1>3. CASE WriteFails(e) /\ (Abort \/ (Goto("journal_failure") /\ pc \in Working))
  <2>1. pc \notin Outside
    BY DEF Looping, Working, Removing, Reconciling, Outside
  <2> QED
    BY <1>1, <1>3, <2>1, FailsQuietly, RowLost
<1> QED
  BY <1>2, <1>3 DEF Records

LEMMA RecordsGoOn ==
  ASSUME Ledger, Position, cur <= Len(plan), SeenTyped',
         pc \in Looping \ (TakenSteps \cup InstalledSteps),
         NEW e \in Row, NEW q \in Working \ {"journal_failure"},
         e.phase \notin {"planned", "removal_completed", "recovery_resolved"},
         q = "transfer" => e.phase = "progress",
         q = "recover" => e.phase = "removal_started",
         Goto(q) => StepFits',
         \/ Records(e, Goto(q), Abort)
         \/ Records(e, Goto(q), Goto("journal_failure")) /\ pc \in Working
  PROVE  Ledger' /\ Position'
<1>1. Held
  BY StayHeld DEF Records
<1>2. CASE Writes(e) /\ Goto(q)
  BY <1>1, <1>2, RowGoes
<1>3. CASE WriteFails(e) /\ (Abort \/ (Goto("journal_failure") /\ pc \in Working))
  <2>1. pc \notin Outside
    BY DEF Looping, Working, Removing, Reconciling, Outside
  <2> QED
    BY <1>1, <1>3, <2>1, FailsQuietly, RowLost
<1> QED
  BY <1>2, <1>3 DEF Records

-----------------------------------------------------------------------------
(* The loop over the plan.                                                  *)

LEMMA BeginActionKeeps ==
  ASSUME Ledger, Position, BeginAction
  PROVE  Ledger' /\ Position'
<1>1. Event("started") \in Row /\ Event("started").phase = "started"
  BY EventRow DEF Phases
<1>2. pc \in Looping \ (TakenSteps \cup InstalledSteps) /\ cur <= Len(plan)
  BY DEF BeginAction, Looping, TakenSteps, InstalledSteps
<1>3. "started" \in Working \ {"journal_failure"}
  BY DEF Working
<1>4. Goto("started") => StepFits'
  BY NoRemoval DEF Goto, Removing
<1>5. SeenTyped' /\ Records(Event("started"), Goto("started"), Abort)
  BY WorkKept DEF BeginAction
<1> QED
  BY <1>1, <1>2, <1>3, <1>4, <1>5, RecordsGoOn

LEMMA StopLoopKeeps ==
  ASSUME Ledger, Position, StopLoop
  PROVE  Ledger' /\ Position'
<1>1. Held /\ SeenTyped' /\ events' = events /\ method' = method
  BY StayHeld, WorkKept DEF StopLoop, NoFault
<1>2. pc \in Looping \ (TakenSteps \cup InstalledSteps)
  BY DEF StopLoop, Looping, TakenSteps, InstalledSteps
<1>3. PICK q \in {"reconcile", "cancel_remaining"} :
        Goto(q) /\ (q = "reconcile" => cur > Len(plan))
  BY DEF StopLoop
<1>4. q \in Looping \ Removing /\ q \notin Working /\ (q \in Reconciling => q = "reconcile")
  BY DEF Looping, Working, Removing, Reconciling
<1>5. q # "transfer" /\ q # "journal_failure"
  BY <1>3
<1> QED
  BY <1>1, <1>2, <1>3, <1>4, <1>5, QuietGoes

LEMMA FirstProgressKeeps ==
  ASSUME Ledger, Position, FirstProgress
  PROVE  Ledger' /\ Position'
<1> DEFINE deferred == Op = "remove_destination" \/ (Op = "remove_source" /\ ~remote)
           reused == Op = "remove_source" /\ Path \in kept
           q == CASE deferred -> "defer" [] ~deferred /\ reused -> "verify" [] OTHER -> "transfer"
<1>1. Event("progress") \in Row /\ Event("progress").phase = "progress"
  BY EventRow DEF Phases
<1>2. pc \in Working /\ pc \in Looping \ (TakenSteps \cup InstalledSteps)
  BY DEF FirstProgress, Looping, Working, TakenSteps, InstalledSteps
<1>3. cur \in 1..Len(plan) /\ cur <= Len(plan) /\ Path \in Files
  BY <1>2, CurAction, PlanBounds DEF Ledger, Path
<1>4. q \in Working \ {"journal_failure"} /\ q \notin Removing /\ q # "recover"
  BY DEF Working, Removing
<1>5. Records(Event("progress"), Goto(q), Abort)
  BY DEF FirstProgress
<1>6. SeenTyped'
  <2>1. \/ seen' = [src |-> inventory[Path], dst |-> inventory[Path], sound |-> TRUE]
        \/ seen' = NoEvidenceSeen
    BY DEF FirstProgress
  <2>2. inventory[Path] \in Items /\ NoContent \in Items /\ Items' = Items
    BY <1>3 DEF Ledger, FilesTyped, Items
  <2>3. seen' \in [src : Items, dst : Items, sound : BOOLEAN]
    <3>1. CASE seen' = [src |-> inventory[Path], dst |-> inventory[Path], sound |-> TRUE]
      BY <2>2, <3>1
    <3>2. CASE seen' = NoEvidenceSeen
      BY <2>2, <3>2 DEF NoEvidenceSeen
    <3> QED
      BY <2>1, <3>1, <3>2
  <2> QED
    BY <2>2, <2>3 DEF SeenTyped
<1> HIDE DEF q
<1>7. Goto(q) => StepFits'
  BY <1>4, NoRemoval DEF Goto
<1> QED
  BY <1>1, <1>2, <1>3, <1>4, <1>5, <1>6, <1>7, RecordsGoOn

(* The steps that end an action with a plain row.                           *)
LEMMA EndingKeeps ==
  ASSUME Ledger, Position,
         \/ Defer \/ RefuseEvidence \/ CompleteTransfer \/ FailAction \/ LeaveUnresolved
         \/ CancelAction
  PROVE  Ledger' /\ Position'
<1>1. PICK p \in {"deferred", "unresolved", "completed", "failed", "cancelled"},
           q \in {"next", "cancel_remaining"} :
        /\ \/ Records(Event(p), NextAction(q), Abort)
           \/ Records(Event(p), NextAction(q), Goto("journal_failure"))
        /\ pc \in {"defer", "verify", "complete", "fail_action", "unresolved", "cancel_action"}
        /\ pc = "verify" => p = "unresolved"
  BY DEF Defer, RefuseEvidence, CompleteTransfer, FailAction, LeaveUnresolved, CancelAction
<1>2. Event(p) \in Row /\ Event(p).phase = p
  BY EventRow DEF Phases
<1>3. /\ pc \in Working /\ pc \in Looping /\ pc \notin TakenSteps
      /\ pc \in InstalledSteps => p \in InstalledPhases
  BY <1>1 DEF Looping, Working, TakenSteps, InstalledSteps, InstalledPhases
<1>4. p \notin OpenPhases /\ p # "recovery_resolved" /\ p # "removal_completed"
  BY DEF OpenPhases
<1>5. SeenTyped'
  BY SeenKept, WorkKept
     DEF Defer, RefuseEvidence, CompleteTransfer, FailAction, LeaveUnresolved, CancelAction
<1>6. cur <= Len(plan)
  BY <1>3, CurAction
<1> QED
  BY <1>1, <1>2, <1>3, <1>4, <1>5, <1>6, RecordsEnd

LEMMA ReviewActionKeeps ==
  ASSUME Ledger, Position, ReviewAction
  PROVE  Ledger' /\ Position'
<1>1. pc \in Working /\ pc \in Looping
  BY DEF ReviewAction, Looping, Working
<1>2. cur <= Len(plan)
  BY <1>1, CurAction
<1>3. PICK e \in {RecoveryReview(0), Torn(RecoveryReview(0))} :
        SeenTyped' /\ Records(e, NextAction("cancel_remaining"), Abort)
  BY WorkKept DEF ReviewAction
<1>4. "recovery_review" \in (TakenPhases \cap InstalledPhases) \ OpenPhases
  BY DEF TakenPhases, InstalledPhases, OpenPhases
<1>5. e \in Row /\ e.phase = "recovery_review"
  BY ReviewRow, TornIsRow
<1> QED
  BY <1>1, <1>2, <1>3, <1>4, <1>5, RecordsEnd

LEMMA CancelRemainingKeeps ==
  ASSUME Ledger, Position, CancelRemaining
  PROVE  Ledger' /\ Position'
<1>1. pc \in Looping \ (TakenSteps \cup InstalledSteps) /\ SeenTyped'
  BY WorkKept DEF CancelRemaining, Looping, TakenSteps, InstalledSteps
<1>2. CASE cur <= Len(plan)
  <2>1. Event("cancelled") \in Row /\ Event("cancelled").phase = "cancelled"
    BY EventRow DEF Phases
  <2>2. Records(Event("cancelled"), NextAction("cancel_remaining"), Abort)
    BY <1>2 DEF CancelRemaining
  <2> QED
    BY <1>1, <1>2, <2>1, <2>2, RecordsEnd DEF OpenPhases
<1>3. CASE ~(cur <= Len(plan))
  <2>1. Goto("reconcile") /\ Held /\ events' = events /\ method' = method
    BY <1>3, StayHeld DEF CancelRemaining, NoFault
  <2>2. cur > Len(plan)
    BY <1>3, PlanBounds DEF Ledger, Position, Standing
  <2>3. "reconcile" \in Looping \ Removing /\ "reconcile" \notin Working
    BY DEF Looping, Working, Removing, Reconciling
  <2> QED
    BY <1>1, <2>1, <2>2, <2>3, QuietGoes
<1> QED
  BY <1>2, <1>3

(* record_journal_failure: the run is at its end either way.                *)
LEMMA RecordJournalFailureKeeps ==
  ASSUME Ledger, Position, RecordJournalFailure
  PROVE  Ledger' /\ Position'
<1>1. pc = "journal_failure" /\ Held /\ SeenTyped' /\ Abort
  BY StayHeld, WorkKept DEF RecordJournalFailure, Records
<1>2. pc \in Working /\ pc \notin Outside
  BY <1>1 DEF Working, Outside
<1>3. CASE WriteFails(RecoveryReview(0))
  BY <1>1, <1>2, <1>3, FailsQuietly, RowLost
<1>4. CASE Writes(RecoveryReview(0))
  <2>1. cur \in Actions /\ cur \in 1..Len(plan) /\ cur \in Nat
    BY <1>2, CurAction
  <2>2. Ledger' /\ ToldHere(RecoveryReview(0))
    <3>1. AppendEvent(cur, RecoveryReview(0)) /\ FilesTyped'
      BY <1>1, <1>4, HeldTyped DEF Writes
    <3> QED
      BY <1>1, <2>1, <3>1, HeldKeeps, ReviewRow, LedgerToldHere
  <2>3. cur' = cur /\ (pc' = "give_up" \/ (pc' = "idle" /\ attended)) /\ broken' # "no"
    BY <1>1, <1>4 DEF Abort, Goto, Writes, Position, EndsShown
  <2>4. Onward
    BY <1>1, <1>2, <2>1, <2>2, <2>3, HeldKeeps, ToldPhases
       DEF Onward, Looping, Working, Removing, Reconciling
  <2>5. Standing'
    <3>1. Standing /\ pc' \notin {"transfer", "recover"}
      BY <2>3 DEF Position
    <3> QED
      BY <2>4, <3>1, StandingOnward
  <2>6. StepFits'
    BY <2>3, NoRemoval DEF Removing
  <2>7. LastPhase(cur)' = "recovery_review"
    BY <2>1, <2>2, <2>3, ReviewRow, ToldPhases
  <2>8. TakenShown'
    BY <1>1, <2>3, <2>4, <2>7, HeldKeeps, TakenOnward DEF Position, Outside, TakenPhases
  <2>9. InstalledShown'
    BY <1>1, <2>3, <2>4, <2>7, HeldKeeps, InstalledOnward DEF Position, Outside, InstalledPhases
  <2>10. EndsShown'
    BY <1>1, <2>3, <2>4, HeldKeeps, EndsOnward
  <2> QED
    BY <1>1, <2>2, <2>5, <2>6, <2>8, <2>9, <2>10, HeldKeeps DEF Position
<1> QED
  BY <1>3, <1>4 DEF RecordJournalFailure, Records

-----------------------------------------------------------------------------
(* Transfers: what the backend answers.                                     *)

LEMMA CallSteps ==
  ASSUME NEW step, NEW failures, CallEnds(step, failures)
  PROVE  /\ events' = events /\ method' = method
         /\ \/ Goto(step)
            \/ Goto("journal_failure") /\ broken' # "no"
BY DEF CallEnds

LEMMA AttemptBreaksKeeps ==
  ASSUME Ledger, Position, AttemptBreaks
  PROVE  Ledger' /\ Position'
<1>1. Held /\ SeenTyped'
  BY SeenKept DEF AttemptBreaks, Held
<1>2. PICK step \in {"transfer", "fail_action"} : CallEnds(step, 1)
  BY DEF AttemptBreaks
<1>3. events' = events /\ method' = method
  BY <1>2, CallSteps
<1>4. PICK q \in {"transfer", "fail_action", "journal_failure"} :
        Goto(q) /\ (q = "journal_failure" => broken' # "no")
  BY <1>2, CallSteps
<1>5. pc = "transfer" /\ pc \in Working /\ pc \in Looping \ (TakenSteps \cup InstalledSteps)
  BY DEF AttemptBreaks, Looping, Working, TakenSteps, InstalledSteps
<1>6. q \in Looping \ Removing /\ q \notin Reconciling /\ cur <= Len(plan)
  BY <1>5, CurAction DEF Looping, Working, Removing, Reconciling
<1> QED
  BY <1>1, <1>3, <1>4, <1>5, <1>6, QuietGoes

LEMMA TransferRefusedKeeps ==
  ASSUME Ledger, Position, TransferRefused
  PROVE  Ledger' /\ Position'
<1>1. Held /\ SeenTyped'
  BY WorkKept DEF TransferRefused, Held
<1>2. PICK step \in {"cancel_action", "unresolved", "fail_action"}, failures \in Failures \cup {0} :
        CallEnds(step, failures)
  BY DEF TransferRefused
<1>3. events' = events /\ method' = method
  BY <1>2, CallSteps
<1>4. PICK q \in {"cancel_action", "unresolved", "fail_action", "journal_failure"} :
        Goto(q) /\ (q = "journal_failure" => broken' # "no")
  BY <1>2, CallSteps
<1>5. pc \in Working /\ pc \in Looping \ (TakenSteps \cup InstalledSteps)
  BY DEF TransferRefused, Looping, Working, TakenSteps, InstalledSteps
<1>6. q \in Looping \ Removing /\ q \notin Reconciling /\ q # "transfer" /\ cur <= Len(plan)
  BY <1>5, CurAction DEF Looping, Working, Removing, Reconciling
<1> QED
  BY <1>1, <1>3, <1>4, <1>5, <1>6, QuietGoes

(* The destination of the action was replaced, and the driver looks at the  *)
(* result, or for a Recovery Review.                                        *)
LEMMA InstalledKeeps ==
  ASSUME Ledger, Position, pc = "transfer",
         UNCHANGED <<src, trash, taken, witnessed, run, stored, runs, events, method>>,
         dst' \in [Files -> Items], SeenTyped',
         installed' = installed \cup {cur},
         cur' = cur, pc' \in {"verify", "review", "journal_failure"},
         pc' = "journal_failure" => broken' # "no"
  PROVE  Ledger' /\ Position'
<1>1. cur \in Actions /\ cur \in 1..Len(plan) /\ cur \in Nat
  BY CurAction DEF Working
<1>2. plan' = plan /\ inventory' = inventory /\ attended' = attended
  BY DEF run
<1>3. Ledger' /\ \A a \in Actions : RowsKept(a)
  <2>1. FilesTyped'
    BY <1>2 DEF Ledger, FilesTyped, Trees, SeenTyped, Files, Items
  <2> QED
    BY <1>2, <2>1, LedgerSame
<1>4. Onward
  BY <1>1, <1>2, <1>3 DEF Onward, Looping, Working, Removing, Reconciling, Outside, RowsKept
<1>5. Standing'
  BY <1>4, StandingOnward DEF Position
<1>6. StepFits'
  BY NoRemoval DEF Removing
<1>7. TakenShown'
  BY <1>4, TakenOnward DEF Position, TakenSteps
<1>8. InstalledShown'
  <2>1. LastPhase(cur)' \in InstalledPhases
    BY <1>1, <1>3 DEF Position, Standing, RowsKept, InstalledPhases
  <2>2. Behind(cur, InstalledSteps)'
    BY DEF Behind, InstalledSteps, Looping, Working
  <2> SUFFICES ASSUME NEW a \in installed
               PROVE  LastPhase(a)' \in InstalledPhases /\ Behind(a, InstalledSteps)'
    BY <1>1, <1>2, <2>1, <2>2 DEF Position, InstalledShown, InstalledPhases, InstalledSteps
  <2>3. a \in Actions /\ LastPhase(a) \in InstalledPhases /\ Behind(a, InstalledSteps)
    BY PlanBounds DEF Ledger, Position, InstalledShown
  <2>4. a < cur
    BY <2>3 DEF Behind, InstalledSteps, Outside
  <2> QED
    BY <1>3, <2>3, <2>4 DEF Behind, Looping, Working, RowsKept
<1>9. EndsShown'
  BY <1>2, <1>4, EndsOnward
<1> QED
  BY <1>3, <1>5, <1>6, <1>7, <1>8, <1>9 DEF Position

LEMMA TransferReturnsKeeps ==
  ASSUME Ledger, Position, TransferReturns
  PROVE  Ledger' /\ Position'
<1>1. Path \in Files /\ src[Path] \in Items
  <2>1. cur \in 1..Len(plan)
    BY CurAction DEF TransferReturns, Working
  <2> QED
    BY <2>1, PlanBounds DEF Ledger, FilesTyped, Trees, Path
<1>2. PICK item \in Contents, sound \in BOOLEAN :
        /\ dst' = [dst EXCEPT ![Path] = item]
        /\ seen' = [src |-> src[Path], dst |-> item, sound |-> sound]
        /\ \E failures : CallEnds("verify", failures)
  BY DEF TransferReturns
<1>3. dst' \in [Files -> Items] /\ SeenTyped'
  BY <1>1, <1>2 DEF Ledger, FilesTyped, Trees, SeenTyped, Items
<1>4. /\ events' = events /\ method' = method /\ cur' = cur
      /\ pc' = "verify" \/ (pc' = "journal_failure" /\ broken' # "no")
  BY <1>2, CallSteps DEF Goto
<1> QED
  BY <1>3, <1>4, InstalledKeeps DEF TransferReturns

LEMMA BreaksInstalledKeeps ==
  ASSUME Ledger, Position, BreaksInstalled
  PROVE  Ledger' /\ Position'
<1>1. Path \in Files /\ src[Path] \in Items /\ dst[Path] \in Items
  <2>1. cur \in 1..Len(plan)
    BY CurAction DEF BreaksInstalled, Working
  <2> QED
    BY <2>1, PlanBounds DEF Ledger, FilesTyped, Trees, Path
<1>2. dst' \in [Files -> Items] /\ SeenTyped'
  BY <1>1, WorkKept DEF BreaksInstalled, Ledger, FilesTyped, Trees, Items
<1>3. /\ events' = events /\ method' = method /\ cur' = cur
      /\ pc' = "review" \/ (pc' = "journal_failure" /\ broken' # "no")
  BY CallSteps DEF BreaksInstalled, BehindInstallation, Goto
<1> QED
  BY <1>2, <1>3, InstalledKeeps DEF BreaksInstalled

(* TransferVerified: the installation is proven.                            *)
LEMMA RecordVerifiedKeeps ==
  ASSUME Ledger, Position, RecordVerified
  PROVE  Ledger' /\ Position'
<1> DEFINE e == TransferVerified(Proof)
<1>1. pc = "verify" /\ MatchesInventory /\ SeenTyped' /\ seen' = seen
  BY WorkKept DEF RecordVerified
<1>2. cur \in Actions /\ cur \in 1..Len(plan) /\ cur \in Nat /\ pc \in Working
  BY <1>1, CurAction DEF Working
<1>3. /\ src' = src /\ dst' = dst /\ trash' = trash /\ taken' = taken /\ witnessed' = witnessed
      /\ plan' = plan /\ inventory' = inventory /\ attended' = attended
      /\ stored' = stored /\ runs' = runs
  BY DEF RecordVerified, run
<1>4. CASE WriteFails(e) /\ Goto("journal_failure") /\ UNCHANGED installed
  <2>1. Held
    BY <1>4 DEF RecordVerified, Held, files
  <2>2. pc \notin Outside
    BY <1>1 DEF Outside
  <2> QED
    BY <1>1, <1>2, <1>4, <2>1, <2>2, FailsQuietly, RowLost
<1>5. CASE /\ Writes(e) /\ installed' = installed \ {cur}
           /\ \E q \in {"complete", "prove", "unresolved"} :
                Goto(q) /\ (q = "prove" => Op = "remove_source")
  <2>1. PICK q \in {"complete", "prove", "unresolved"} :
          Goto(q) /\ (q = "prove" => Op = "remove_source")
    BY <1>5
  <2>2. pc' = q /\ cur' = cur
    BY <2>1 DEF Goto
  <2>3. Ledger' /\ ToldHere(e)
    <3>1. FilesTyped'
      BY <1>1, <1>3 DEF Ledger, FilesTyped, Trees, SeenTyped, Files, Items
    <3>2. AppendEvent(cur, e)
      BY <1>5 DEF Writes
    <3> QED
      BY <1>2, <1>3, <3>1, <3>2, ProofRows, LedgerToldHere
  <2>4. Onward
    BY <1>2, <1>3, <2>2, <2>3, ToldPhases, <1>1
       DEF Onward, Looping, Working, Removing, Reconciling, Outside
  <2>5. Standing'
    BY <2>2, <2>4, StandingOnward DEF Position
  <2>6. StepFits'
    <3>1. seen.src = inventory[plan[cur].path] /\ seen.dst = inventory[plan[cur].path]
      BY <1>1 DEF MatchesInventory, Path
    <3>2. pc' = "prove" => Removes(cur)
      BY <2>1, <2>2 DEF Op, Removes
    <3> QED
      BY <1>1, <1>3, <2>2, <3>1, <3>2 DEF StepFits, Removes, Removing
  <2>7. TakenShown'
    BY <1>1, <1>3, <2>4, TakenOnward DEF Position, TakenSteps
  <2>8. InstalledShown'
    BY <1>5, <2>4, InstalledOnward DEF Position
  <2>9. EndsShown'
    BY <2>2, <2>4, EndsOnward
  <2> QED
    BY <1>3, <2>3, <2>5, <2>6, <2>7, <2>8, <2>9 DEF Position
<1> QED
  BY <1>4, <1>5 DEF RecordVerified

-----------------------------------------------------------------------------
(* Removing a remote source.                                                *)

LEMMA ProveBoundaryKeeps ==
  ASSUME Ledger, Position, ProveBoundary
  PROVE  Ledger' /\ Position'
<1>1. pc = "prove" /\ pc \in Working /\ pc \in Looping \ (TakenSteps \cup InstalledSteps)
  BY DEF ProveBoundary, Looping, Working, Removing, TakenSteps, InstalledSteps
<1>2. cur <= Len(plan)
  BY <1>1, CurAction
<1>3. /\ SeenTyped' /\ seen' = seen /\ plan' = plan /\ inventory' = inventory
      /\ Records(ProofBoundary(Proof, method), Goto("boundary"), Goto("journal_failure"))
  BY WorkKept, StayKeeps DEF ProveBoundary, Records
<1>4. Goto("boundary") => StepFits'
  BY <1>1, <1>3 DEF Goto, Position, StepFits, Removes, Removing, Actions
<1>5. "boundary" \in Working \ {"journal_failure"}
  BY DEF Working, Removing
<1> QED
  BY <1>1, <1>2, <1>3, <1>4, <1>5, ProofRows, RecordsGoOn

LEMMA StartRemovalKeeps ==
  ASSUME Ledger, Position, StartRemoval
  PROVE  Ledger' /\ Position'
<1>1. pc = "boundary" /\ pc \in Working /\ pc \in Looping \ (TakenSteps \cup InstalledSteps)
  BY DEF StartRemoval, Looping, Working, Removing, TakenSteps, InstalledSteps
<1>2. cur <= Len(plan)
  BY <1>1, CurAction
<1>3. SeenTyped' /\ seen' = seen /\ plan' = plan /\ inventory' = inventory
  BY WorkKept, StayKeeps DEF StartRemoval, Records
<1>4. CASE cancel
  <2>1. Goto("cancel_action") /\ Held /\ events' = events /\ method' = method
    BY <1>4, StayHeld DEF StartRemoval, NoFault
  <2>2. "cancel_action" \in Looping \ Removing /\ "cancel_action" \notin Reconciling
    BY DEF Looping, Working, Removing, Reconciling
  <2> QED
    BY <1>1, <1>2, <1>3, <2>1, <2>2, QuietGoes
<1>5. CASE ~cancel
  <2>1. Goto("recover") => StepFits'
    BY <1>1, <1>3 DEF Goto, Position, StepFits, Removes, Removing, Actions
  <2>2. "recover" \in Working \ {"journal_failure"}
    BY DEF Working, Removing
  <2>3. Records(RemovalStarted(method), Goto("recover"), Abort)
    BY <1>5 DEF StartRemoval
  <2> QED
    BY <1>1, <1>2, <1>3, <2>1, <2>2, <2>3, ProofRows, RecordsGoOn
<1> QED
  BY <1>4, <1>5

(* The move of a source into the recovery location.                         *)
Moved ==
  /\ src' = [src EXCEPT ![Path] = NoContent]
  /\ trash' = [trash EXCEPT ![Path] = src[Path]]
  /\ taken' = [taken EXCEPT ![Path] = src[Path]]

(* It touches no other removal, and none that is recorded already.          *)
LEMMA MoveKeeps ==
  ASSUME Ledger, Position, pc = "recover", Moved, plan' = plan, inventory' = inventory,
         witnessed' \in {witnessed, [witnessed EXCEPT ![Path] = dst[Path]]}
  PROVE  /\ src' \in [Files -> Items] /\ trash' \in [Files -> Items]
         /\ taken' \in [Files -> Items] /\ witnessed' \in [Files -> Items]
         /\ \A a \in Actions : LastPhase(a) = "removal_completed" => MovedAsProven(a)'
         /\ \A a \in 1..Len(plan) : Removes(a) /\ a # cur =>
              taken'[plan[a].path] = taken[plan[a].path]
<1>1. cur \in Actions /\ cur \in 1..Len(plan) /\ pc \in Removing
  BY CurAction DEF Working, Removing
<1>2. Removes(cur) /\ LastPhase(cur) = "removal_started" /\ Path = plan[cur].path
  BY <1>1 DEF Position, StepFits, Standing, Path
<1>3. Path \in Files
  BY <1>1, <1>2, PlanBounds DEF Ledger
<1>4. /\ src \in [Files -> Items] /\ dst \in [Files -> Items] /\ trash \in [Files -> Items]
      /\ taken \in [Files -> Items] /\ witnessed \in [Files -> Items] /\ NoContent \in Items
  BY DEF Ledger, FilesTyped, Trees, Items
<1>5. /\ src' \in [Files -> Items] /\ trash' \in [Files -> Items]
      /\ taken' \in [Files -> Items] /\ witnessed' \in [Files -> Items]
  BY <1>3, <1>4 DEF Moved
<1>6. ASSUME NEW a \in 1..Len(plan), Removes(a), a # cur
      PROVE  /\ plan[a].path \in Files /\ plan[a].path # Path
             /\ taken'[plan[a].path] = taken[plan[a].path]
             /\ trash'[plan[a].path] = trash[plan[a].path]
             /\ witnessed'[plan[a].path] = witnessed[plan[a].path]
  <2>1. plan[a].path \in Files
    BY PlanBounds DEF Ledger
  <2>2. plan[a].path # Path
    BY <1>1, <1>2, <1>6 DEF Ledger, PlanFits
  <2> QED
    BY <1>3, <1>4, <2>1, <2>2 DEF Moved
<1>7. ASSUME NEW a \in Actions, LastPhase(a) = "removal_completed"
      PROVE  MovedAsProven(a)'
  <2>1. MovedAsProven(a) /\ a # cur
    BY <1>2, <1>7 DEF Ledger, Recovered
  <2>2. a \in 1..Len(plan)
    <3>1. HasPlan(a)
      BY <1>7 DEF LastPhase
    <3> QED
      BY <3>1, PlanBounds DEF Ledger, RowsFit
  <2>3. Removes(a)
    BY <2>1 DEF MovedAsProven
  <2> QED
    BY <1>6, <2>1, <2>2, <2>3 DEF MovedAsProven, Removes
<1> QED
  BY <1>5, <1>6, <1>7

(* What it took is shown, whatever the driver does next about it.           *)
LEMMA MoveShown ==
  ASSUME Ledger, Position, pc = "recover", plan' = plan, cur' = cur,
         pc' \in Outside \cup TakenSteps,
         \A a \in Actions : RowsKept(a),
         \A a \in 1..Len(plan) : Removes(a) /\ a # cur =>
           taken'[plan[a].path] = taken[plan[a].path]
  PROVE  TakenShown'
<1> SUFFICES ASSUME NEW a \in 1..Len(plan), Removes(a), taken'[plan[a].path] # NoContent
             PROVE  LastPhase(a)' \in TakenPhases /\ Behind(a, TakenSteps)'
  BY DEF TakenShown, Removes, TakenSteps, TakenPhases
<1>1. a \in Actions /\ LastPhase(a)' = LastPhase(a) /\ cur \in Actions
  BY PlanBounds, CurAction DEF Ledger, RowsKept, Working, Removing
<1>2. CASE a = cur
  <2>1. LastPhase(a) = "removal_started"
    BY <1>1, <1>2 DEF Position, Standing
  <2> QED
    BY <1>1, <1>2, <2>1 DEF TakenPhases, TakenSteps, Behind, Looping, Working, Removing
<1>3. CASE a # cur
  <2>1. LastPhase(a) \in TakenPhases /\ Behind(a, TakenSteps)
    BY <1>3 DEF Position, TakenShown
  <2>2. a < cur
    BY <1>3, <2>1 DEF Behind, Outside
  <2> QED
    BY <1>1, <2>1, <2>2 DEF Behind, TakenSteps, Looping, Working, Removing
<1> QED
  BY <1>2, <1>3

LEMMA RecoveryReturnsKeeps ==
  ASSUME Ledger, Position, RecoveryReturns
  PROVE  Ledger' /\ Position'
<1>1. /\ pc = "recover" /\ pc \in Working /\ pc \in Looping /\ pc \notin InstalledSteps
      /\ cur' = cur /\ pc' \in {"record_removal", "review"}
      /\ pc' = "record_removal" => dst[Path] = seen.dst /\ src[Path] = seen.src
      /\ src[Path] # NoContent
  BY DEF RecoveryReturns, Goto, RecoveryProven, Looping, Working, Removing, InstalledSteps
<1>2. /\ Moved /\ witnessed' = [witnessed EXCEPT ![Path] = dst[Path]]
      /\ dst' = dst /\ plan' = plan /\ inventory' = inventory /\ seen' = seen
      /\ installed' = installed /\ attended' = attended /\ runs' = runs /\ stored' = stored
      /\ events' = events /\ method' = method
  BY DEF RecoveryReturns, Moved, run, work, NoFault
<1>3. /\ src' \in [Files -> Items] /\ trash' \in [Files -> Items]
      /\ taken' \in [Files -> Items] /\ witnessed' \in [Files -> Items]
      /\ \A a \in Actions : LastPhase(a) = "removal_completed" => MovedAsProven(a)'
      /\ \A a \in 1..Len(plan) : Removes(a) /\ a # cur =>
           taken'[plan[a].path] = taken[plan[a].path]
  BY <1>1, <1>2, MoveKeeps
<1>4. Ledger' /\ \A a \in Actions : RowsKept(a)
  <2>1. FilesTyped'
    BY <1>2, <1>3 DEF Ledger, FilesTyped, Trees, Files, Items
  <2> QED
    BY <1>2, <1>3, <2>1, LedgerGrows
<1>5. cur \in Actions /\ cur \in 1..Len(plan) /\ cur \in Nat
  BY <1>1, CurAction
<1>6. Onward
  BY <1>1, <1>2, <1>4, <1>5 DEF Onward, Looping, Working, Removing, Reconciling, Outside, RowsKept
<1>7. Standing'
  BY <1>1, <1>6, StandingOnward DEF Position
<1>8. StepFits'
  <2>1. /\ Removes(cur) /\ Path = plan[cur].path
        /\ seen.src = inventory[Path] /\ seen.dst = inventory[Path]
    BY <1>1, <1>5 DEF Position, StepFits, Path, Removing
  <2>2. Path \in Files
    BY <1>5, <2>1, PlanBounds DEF Ledger
  <2>3. /\ taken'[Path] = src[Path] /\ trash'[Path] = src[Path]
        /\ witnessed'[Path] = dst[Path]
    BY <1>2, <2>2 DEF Moved, Ledger, FilesTyped
  <2>4. pc' = "record_removal" => MovedAsProven(cur)'
    BY <1>1, <1>2, <2>1, <2>3 DEF MovedAsProven, Removes
  <2> QED
    BY <1>1, <1>2, <2>1, <2>4 DEF StepFits, Removes
<1>9. TakenShown'
  BY <1>1, <1>2, <1>3, <1>4, MoveShown DEF TakenSteps
<1>10. InstalledShown'
  BY <1>1, <1>2, <1>6, InstalledOnward DEF Position
<1>11. EndsShown'
  BY <1>1, <1>6, EndsOnward
<1> QED
  BY <1>2, <1>4, <1>7, <1>8, <1>9, <1>10, <1>11 DEF Position

LEMMA RecoveryAmbiguousKeeps ==
  ASSUME Ledger, Position, RecoveryAmbiguous
  PROVE  Ledger' /\ Position'
<1>1. /\ pc = "recover" /\ pc \in Working /\ pc \in Looping /\ pc \notin InstalledSteps
      /\ cur' = cur /\ pc' = "review"
  BY DEF RecoveryAmbiguous, Goto, RecoveryInDoubt, Looping, Working, Removing, InstalledSteps
<1>2. /\ dst' = dst /\ plan' = plan /\ inventory' = inventory /\ seen' = seen
      /\ witnessed' = witnessed
      /\ installed' = installed /\ attended' = attended /\ runs' = runs /\ stored' = stored
      /\ events' = events /\ method' = method
  BY DEF RecoveryAmbiguous, run, work, Fault
<1>3. /\ src' \in [Files -> Items] /\ trash' \in [Files -> Items]
      /\ taken' \in [Files -> Items] /\ witnessed' \in [Files -> Items]
      /\ \A a \in Actions : LastPhase(a) = "removal_completed" => MovedAsProven(a)'
      /\ \A a \in 1..Len(plan) : Removes(a) /\ a # cur =>
           taken'[plan[a].path] = taken[plan[a].path]
  <2>1. CASE Moved
    BY <1>1, <1>2, <2>1, MoveKeeps
  <2>2. CASE UNCHANGED <<src, trash, taken>>
    BY <1>2, <2>2 DEF Ledger, FilesTyped, Trees, Recovered, MovedAsProven, Removes
  <2> QED
    BY <2>1, <2>2 DEF RecoveryAmbiguous, Moved
<1>4. Ledger' /\ \A a \in Actions : RowsKept(a)
  <2>1. FilesTyped'
    BY <1>2, <1>3 DEF Ledger, FilesTyped, Trees, Files, Items
  <2> QED
    BY <1>2, <1>3, <2>1, LedgerGrows
<1>5. cur \in Actions /\ cur \in 1..Len(plan) /\ cur \in Nat
  BY <1>1, CurAction
<1>6. Onward
  BY <1>1, <1>2, <1>4, <1>5 DEF Onward, Looping, Working, Removing, Reconciling, Outside, RowsKept
<1>7. Standing'
  BY <1>1, <1>6, StandingOnward DEF Position
<1>8. StepFits'
  BY <1>1, NoRemoval DEF Removing
<1>9. TakenShown'
  BY <1>1, <1>2, <1>3, <1>4, MoveShown DEF TakenSteps
<1>10. InstalledShown'
  BY <1>1, <1>2, <1>6, InstalledOnward DEF Position
<1>11. EndsShown'
  BY <1>1, <1>6, EndsOnward
<1> QED
  BY <1>2, <1>4, <1>7, <1>8, <1>9, <1>10, <1>11 DEF Position

LEMMA RecoveryRefusedKeeps ==
  ASSUME Ledger, Position, RecoveryRefused
  PROVE  Ledger' /\ Position'
<1>1. Held /\ SeenTyped' /\ events' = events /\ method' = method
  BY WorkKept DEF RecoveryRefused, Held, NoFault, Fault
<1>2. PICK q \in {"cancel_action", "unresolved", "review", "fail_action"} : Goto(q)
  BY DEF RecoveryRefused, RecoveryInDoubt
<1>3. pc \in Working /\ pc \in Looping \ (TakenSteps \cup InstalledSteps)
  BY DEF RecoveryRefused, Looping, Working, Removing, TakenSteps, InstalledSteps
<1>4. /\ q \in Looping \ Removing /\ q \notin Reconciling /\ q # "transfer"
      /\ q # "journal_failure" /\ cur <= Len(plan)
  BY <1>3, CurAction DEF Looping, Working, Removing, Reconciling
<1> QED
  BY <1>1, <1>2, <1>3, <1>4, QuietGoes

LEMMA RecordRemovalKeeps ==
  ASSUME Ledger, Position, RecordRemoval
  PROVE  Ledger' /\ Position'
<1>1. /\ pc = "record_removal" /\ pc \in Working /\ pc \in Looping
      /\ pc \notin InstalledSteps
  BY DEF RecordRemoval, Looping, Working, Removing, InstalledSteps
<1>2. cur \in Actions /\ cur <= Len(plan)
  BY <1>1, CurAction
<1>3. MovedAsProven(cur)
  BY <1>1, <1>2 DEF Position, StepFits
<1>4. SeenTyped'
  BY WorkKept DEF RecordRemoval
<1>5. "removal_completed" \in TakenPhases \ OpenPhases
  BY DEF TakenPhases, OpenPhases
<1>6. Records(RemovalCompleted(RemovalProof, method), NextAction("next"), Goto("journal_failure"))
  BY DEF RecordRemoval
<1> QED
  BY <1>1, <1>2, <1>3, <1>4, <1>5, <1>6, ProofRows, RecordsEnd

-----------------------------------------------------------------------------
(* The end of a run.                                                        *)

LEMMA ReportKept ==
  ASSUME \A a \in Actions : RowsKept(a), stored' = stored
  PROVE  /\ Open' = Open /\ (InProgress' <=> InProgress)
         /\ JournalReadable' <=> JournalReadable
<1>1. Actions' = Actions
  BY DEF Actions
<1>2. PlannedActions' = PlannedActions
  BY <1>1 DEF PlannedActions, RowsKept
<1>3. \A a \in Actions : Outcome(a)' = Outcome(a)
  BY DEF Outcome, RowsKept
<1>4. Open' = Open
  BY <1>2, <1>3 DEF Open, PlannedActions
<1>5. JournalReadable' <=> JournalReadable
  BY <1>1 DEF JournalReadable, RowsKept
<1> QED
  BY <1>2, <1>4, <1>5 DEF InProgress

(* Where the driver is out of the loop, the rows alone show what was done.  *)
LEMMA LeavesRun ==
  ASSUME Ledger, Position, \A a \in Actions : RowsKept(a),
         plan' = plan, taken' = taken, installed' = installed, runs' = runs,
         stored' \in [inventory : BOOLEAN, recon : {"none", "drained", "findings"},
                      blocked : BOOLEAN],
         pc' \in Outside, cur' \in Nat \ {0}, EndsShown'
  PROVE  Position'
<1>1. pc' \notin Looping \cup {"begun", "persist"}
  BY DEF Outside, Looping, Working, Removing, Reconciling
<1>2. Standing'
  BY <1>1 DEF Standing, Looping, Outside
<1>3. StepFits'
  BY <1>1, NoRemoval DEF Looping, Working
<1>4. \A a \in 1..Len(plan) : a \in Actions /\ LastPhase(a)' = LastPhase(a)
  BY PlanBounds DEF Ledger, RowsKept
<1>5. \A a, steps : Behind(a, steps)'
  BY DEF Behind, Outside
<1>6. TakenShown'
  BY <1>4 DEF Position, TakenShown, Behind, Removes, TakenPhases, TakenSteps, Outside
<1>7. InstalledShown'
  BY <1>4 DEF Position, InstalledShown, Behind, InstalledPhases, InstalledSteps, Outside
<1> QED
  BY <1>2, <1>3, <1>6, <1>7 DEF Position

LEMMA QuietLedger ==
  ASSUME Ledger, UNCHANGED <<files, inventory, plan, work>>, events' = events, method' = method
  PROVE  /\ Ledger' /\ \A a \in Actions : RowsKept(a)
         /\ plan' = plan /\ taken' = taken /\ installed' = installed
<1>1. /\ src' = src /\ dst' = dst /\ trash' = trash /\ taken' = taken
      /\ witnessed' = witnessed /\ installed' = installed
      /\ inventory' = inventory /\ plan' = plan
  BY DEF files
<1>2. FilesTyped'
  BY <1>1, WorkKept DEF Ledger, FilesTyped, Trees, SeenTyped, Files, Items
<1> QED
  BY <1>1, <1>2, LedgerSame

(* mark_unattended_blocked: the run is not shown as going on any more.      *)
LEMMA BlockedShown ==
  ASSUME Position, MarkBlocked
  PROVE  /\ stored' \in [inventory : BOOLEAN, recon : {"none", "drained", "findings"},
                         blocked : BOOLEAN]
         /\ pc' \in Outside /\ cur' \in Nat \ {0} /\ EndsShown'
<1>1. pc' = "idle" /\ cur' = cur
  BY DEF MarkBlocked, Goto
<1>2. \/ stored' = [stored EXCEPT !.blocked = TRUE] /\ broken' = "aborted"
      \/ stored' = stored /\ broken' = "killed"
  BY DEF MarkBlocked
<1>3. stored' \in [inventory : BOOLEAN, recon : {"none", "drained", "findings"},
                   blocked : BOOLEAN]
  BY <1>2 DEF Position
<1>4. broken' = "killed" \/ ~InProgress'
  <2>1. CASE stored' = [stored EXCEPT !.blocked = TRUE]
    <3>1. stored'.blocked
      BY <2>1 DEF Position
    <3> QED
      BY <3>1 DEF InProgress
  <2> QED
    BY <1>2, <2>1
<1>5. EndsShown'
  BY <1>1, <1>2, <1>4 DEF EndsShown
<1> QED
  BY <1>1, <1>3, <1>5 DEF Outside, Position, Standing

LEMMA RefuseUnattendedKeeps ==
  ASSUME Ledger, Position, RefuseUnattended
  PROVE  Ledger' /\ Position'
<1>1. /\ UNCHANGED <<files, inventory, plan, work>> /\ events' = events /\ method' = method
      /\ runs' = runs /\ MarkBlocked
  BY DEF RefuseUnattended, run
<1> QED
  BY <1>1, QuietLedger, BlockedShown, LeavesRun

LEMMA GiveUpKeeps ==
  ASSUME Ledger, Position, GiveUp
  PROVE  Ledger' /\ Position'
<1>1. /\ UNCHANGED <<files, inventory, plan, work>> /\ events' = events /\ method' = method
      /\ runs' = runs
  BY DEF GiveUp, run
<1>2. /\ Ledger' /\ \A a \in Actions : RowsKept(a)
      /\ plan' = plan /\ taken' = taken /\ installed' = installed
  BY <1>1, QuietLedger
<1>3. CASE JournalReadable /\ InProgress
  <2>1. MarkBlocked
    BY <1>3 DEF GiveUp
  <2> QED
    BY <1>1, <1>2, <2>1, BlockedShown, LeavesRun
<1>4. CASE ~(JournalReadable /\ InProgress)
  <2>1. pc = "give_up" /\ pc' = "idle" /\ cur' = cur /\ broken' = broken /\ stored' = stored
    BY <1>4 DEF GiveUp, Goto
  <2>2. (JournalReadable => broken # "no") /\ cur \in Nat \ {0}
    BY <2>1 DEF Position, EndsShown, Standing
  <2>3. (JournalReadable' <=> JournalReadable) /\ (JournalReadable' => ~InProgress')
    BY <1>2, <1>4, <2>1, ReportKept
  <2>4. EndsShown'
    BY <2>1, <2>2, <2>3 DEF EndsShown
  <2>5. stored' \in [inventory : BOOLEAN, recon : {"none", "drained", "findings"},
                     blocked : BOOLEAN]
    BY <2>1 DEF Position
  <2> QED
    BY <1>1, <1>2, <2>1, <2>2, <2>4, <2>5, LeavesRun DEF Outside
<1> QED
  BY <1>3, <1>4

LEMMA ReconcileKeeps ==
  ASSUME Ledger, Position, Reconcile
  PROVE  Ledger' /\ Position'
<1>1. Held /\ SeenTyped' /\ events' = events /\ method' = method
  BY StayHeld, WorkKept DEF Reconcile, NoFault, Fault
<1>2. pc \in Reconciling /\ pc \in Looping \ (TakenSteps \cup InstalledSteps)
  BY DEF Reconcile, Looping, Reconciling, TakenSteps, InstalledSteps
<1>3. ASSUME NEW q \in {"record_drained", "record_findings"}, Goto(q)
      PROVE  Ledger' /\ Position'
  <2>1. /\ q \in Looping \ Removing /\ q \notin Working /\ q # "transfer"
        /\ q # "journal_failure" /\ cur > Len(plan)
    BY <1>2 DEF Looping, Working, Removing, Reconciling, Position, Standing
  <2> QED
    BY <1>1, <1>2, <1>3, <2>1, QuietGoes
<1>4. CASE ~JournalReadable /\ NoFault /\ Abort
  <2>1. /\ UNCHANGED <<files, inventory, plan, work>> /\ runs' = runs /\ stored' = stored
        /\ pc' \in {"idle", "give_up"} /\ cur' = cur
    BY <1>4 DEF Reconcile, Stay, run, Abort, Goto
  <2>2. /\ Ledger' /\ \A a \in Actions : RowsKept(a)
        /\ plan' = plan /\ taken' = taken /\ installed' = installed
    BY <1>1, <2>1, QuietLedger
  <2>3. ~JournalReadable'
    BY <1>4, <2>1, <2>2, ReportKept
  <2>4. EndsShown' /\ cur' \in Nat \ {0}
    BY <2>1, <2>3 DEF EndsShown, Position, Standing
  <2>5. stored' \in [inventory : BOOLEAN, recon : {"none", "drained", "findings"},
                     blocked : BOOLEAN]
    BY <2>1 DEF Position
  <2> QED
    BY <2>1, <2>2, <2>4, <2>5, LeavesRun DEF Outside
<1> QED
  BY <1>3, <1>4 DEF Reconcile

(* When the run reconciles, every action of its plan is at an end.          *)
LEMMA NothingOpen ==
  ASSUME Ledger, Position, pc \in Reconciling
  PROVE  Open = {}
<1> SUFFICES ASSUME NEW a \in Actions, HasPlan(a), Outcome(a) = "in_progress"
             PROVE  FALSE
  BY DEF Open, PlannedActions
<1>1. a <= Len(plan) /\ LastPhase(a) # "recovery_resolved"
  BY DEF Ledger, RowsFit
<1>2. a < cur
  <2>1. a \in Nat /\ cur \in Nat /\ Len(plan) \in Nat /\ cur > Len(plan)
    BY PlanBounds DEF Ledger, Position, Standing, Actions
  <2> QED
    BY <1>1, <2>1
<1>3. LastPhase(a) \notin OpenPhases
  BY <1>2 DEF Position, Standing, Looping
<1> QED
  BY <1>1, <1>3, OutcomePhases DEF Ledger

LEMMA RecordReconciliationKeeps ==
  ASSUME Ledger, Position, RecordReconciliation
  PROVE  Ledger' /\ Position'
<1>1. /\ UNCHANGED <<files, inventory, plan, work>> /\ runs' = runs /\ attended' = attended
      /\ pc \in Reconciling
  BY DEF RecordReconciliation, run, Reconciling
<1>2. cur \in Nat \ {0}
  BY DEF Position, Standing
<1>3. CASE StoreFault /\ UNCHANGED stored /\ Abort
  <2>1. Held /\ SeenTyped'
    BY <1>3, WorkKept DEF RecordReconciliation, Held
  <2>2. pc \notin Outside
    BY <1>1 DEF Reconciling, Outside
  <2> QED
    BY <1>3, <2>1, <2>2, RowLost DEF StoreFault
<1>4. CASE /\ NoFault /\ Goto("idle")
           /\ stored' = [stored EXCEPT !.recon =
                           IF pc = "record_drained" THEN "drained" ELSE "findings"]
  <2>1. /\ events' = events /\ method' = method /\ pc' = "idle" /\ cur' = cur
    BY <1>4 DEF NoFault, Goto
  <2>2. /\ Ledger' /\ \A a \in Actions : RowsKept(a)
        /\ plan' = plan /\ taken' = taken /\ installed' = installed
    BY <1>1, <2>1, QuietLedger
  <2>3. /\ stored' \in [inventory : BOOLEAN, recon : {"none", "drained", "findings"},
                        blocked : BOOLEAN]
        /\ stored'.recon # "none"
    BY <1>4 DEF Position
  <2>4. Open' = {}
    <3>1. Open = {}
      BY <1>1, NothingOpen
    <3>2. Actions' = Actions
      BY DEF Actions
    <3>3. Open' = Open
      BY <2>2, <3>2 DEF Open, PlannedActions, RowsKept, Outcome
    <3> QED
      BY <3>1, <3>3
  <2>5. ~InProgress'
    BY <2>3, <2>4 DEF InProgress
  <2>6. EndsShown'
    BY <2>1, <2>3, <2>5 DEF EndsShown
  <2> QED
    BY <1>1, <1>2, <2>1, <2>2, <2>3, <2>6, LeavesRun DEF Outside
<1> QED
  BY <1>3, <1>4 DEF RecordReconciliation

-----------------------------------------------------------------------------
(* A run begins: its inventory and the plan rows.                           *)

LEMMA StartRunKeeps ==
  ASSUME Ledger, Position, NEW user, StartRun(user)
  PROVE  Ledger' /\ Position'
<1>1. /\ method' = method /\ events' = [a \in Actions |-> <<>>] /\ plan' = BuildPlan
      /\ inventory' = src /\ taken' = Nothing /\ witnessed' = Nothing /\ installed' = {}
      /\ seen' = NoEvidenceSeen /\ src' = src /\ dst' = dst /\ trash' = trash
      /\ stored' = [inventory |-> FALSE, recon |-> "none", blocked |-> FALSE]
      /\ pc' = "begun" /\ cur' = 1 /\ runs' = runs + 1
  BY DEF StartRun
<1>2. Actions' = Actions /\ method \in Methods \cup {NoMethod}
  BY DEF Actions, Ledger, JournalSound, TypeOK
<1>3. JournalSound'
  <2>1. (method \in Methods \cup {NoMethod} /\ events = [a \in Actions |-> <<>>])'
    BY <1>1, <1>2
  <2> QED
    BY <2>1, SoundEmpty, PTL
<1>4. /\ Nothing \in [Files -> Items] /\ \A f \in Files : Nothing[f] = NoContent
      /\ NoEvidenceSeen \in [src : Items, dst : Items, sound : BOOLEAN]
  BY DEF Nothing, Items, NoEvidenceSeen
<1>5. Trees
  BY DEF Ledger, FilesTyped
<1>6. FilesTyped'
  BY <1>1, <1>4 DEF Ledger, FilesTyped, Trees, Files, Items
<1>7. PlanFits'
  BY <1>1, <1>5, PlanShape DEF PlanFits, Removes, PlanStep, Files, Items
<1>8. \A a \in Actions : ~HasPlan(a)' /\ LastPhase(a)' = "none"
  BY <1>1 DEF HasPlan, LastPhase
<1>9. RowsFit' /\ Recovered'
  BY <1>2, <1>8 DEF RowsFit, Recovered
<1>10. Standing'
  BY <1>1 DEF Standing, Looping, Working, Removing, Reconciling
<1>11. StepFits'
  BY <1>1, NoRemoval DEF Removing
<1>12. TakenShown'
  <2>1. BuildPlan \in Seq(PlanStep)
    BY <1>5, PlanShape
  <2>2. ASSUME NEW a \in 1..Len(BuildPlan) PROVE Nothing[BuildPlan[a].path] = NoContent
    <3>1. BuildPlan[a] \in PlanStep
      BY <2>1
    <3> QED
      BY <1>4, <3>1 DEF PlanStep
  <2> QED
    BY <1>1, <2>2 DEF TakenShown
<1>13. InstalledShown' /\ EndsShown'
  BY <1>1 DEF InstalledShown, EndsShown
<1>14. /\ runs' \in Nat
       /\ stored' \in [inventory : BOOLEAN, recon : {"none", "drained", "findings"},
                       blocked : BOOLEAN]
  BY <1>1 DEF Position
<1> QED
  BY <1>3, <1>6, <1>7, <1>9, <1>10, <1>11, <1>12, <1>13, <1>14 DEF Ledger, Position

(* While the plan is written nothing is taken or replaced.                  *)
LEMMA PlanningKeeps ==
  ASSUME Ledger, Position, pc \in {"begun", "persist"},
         plan' = plan, taken' = taken, installed' = installed
  PROVE  TakenShown' /\ InstalledShown'
<1>1. pc \notin Outside /\ pc \notin Looping
  BY DEF Outside, Looping, Working, Removing, Reconciling
<1>2. \A a \in 1..Len(plan) : ~(Removes(a) /\ taken[plan[a].path] # NoContent)
  BY <1>1 DEF Position, TakenShown, Behind
<1>3. installed = {}
  BY <1>1 DEF Position, InstalledShown, Behind
<1> QED
  BY <1>2, <1>3 DEF TakenShown, InstalledShown, Removes

LEMMA RecordInventoryKeeps ==
  ASSUME Ledger, Position, RecordInventory
  PROVE  Ledger' /\ Position'
<1>1. /\ UNCHANGED <<files, inventory, plan, work>> /\ runs' = runs /\ pc = "begun"
  BY DEF RecordInventory, run
<1>2. CASE StoreFault /\ UNCHANGED stored /\ Abort
  <2>1. Held /\ SeenTyped'
    BY <1>2, WorkKept DEF RecordInventory, Held
  <2>2. pc \notin Outside
    BY <1>1 DEF Outside
  <2> QED
    BY <1>2, <2>1, <2>2, RowLost DEF StoreFault
<1>3. CASE NoFault /\ stored' = [stored EXCEPT !.inventory = TRUE] /\ Goto("persist")
  <2>1. /\ events' = events /\ method' = method /\ pc' = "persist" /\ cur' = cur
    BY <1>3 DEF NoFault, Goto
  <2>2. /\ Ledger' /\ plan' = plan /\ taken' = taken /\ installed' = installed
    BY <1>1, <2>1, QuietLedger
  <2>3. cur = 1
    BY <1>1 DEF Position, Standing
  <2>4. Standing'
    BY <2>1, <2>3 DEF Standing, Looping, Working, Removing, Reconciling
  <2>5. StepFits' /\ EndsShown'
    BY <2>1, NoRemoval DEF Removing, EndsShown
  <2>6. stored' \in [inventory : BOOLEAN, recon : {"none", "drained", "findings"},
                     blocked : BOOLEAN]
    BY <1>3 DEF Position
  <2> QED
    BY <1>1, <2>2, <2>4, <2>5, <2>6, PlanningKeeps DEF Position
<1> QED
  BY <1>2, <1>3 DEF RecordInventory

LEMMA PlanActionKeeps ==
  ASSUME Ledger, Position, PlanAction
  PROVE  Ledger' /\ Position'
<1> DEFINE e == Planned(Op, plan[cur].item)
<1>1. pc = "persist" /\ cur <= Len(plan) /\ Held /\ SeenTyped' /\ pc \notin Outside
  BY StayHeld, WorkKept DEF PlanAction, Records, Outside
<1>2. cur \in Actions /\ cur \in 1..Len(plan) /\ cur \in Nat
  BY <1>1, CurAction
<1>3. CASE WriteFails(e) /\ Abort
  BY <1>1, <1>3, FailsQuietly, RowLost
<1>4. CASE Writes(e) /\ NextAction("persist")
  <2>1. e \in Row /\ e.phase = "planned" /\ e.op = plan[cur].op
    <3>1. Op \in Operations /\ plan[cur].item \in Items
      BY <1>2, PlanBounds DEF Ledger, Op
    <3>2. Event("planned") \in Row /\ Event("planned").phase = "planned"
      BY EventRow DEF Phases
    <3> QED
      BY <3>1, <3>2 DEF Planned, Row, Items, Op
  <2>2. AppendEvent(cur, e) /\ FilesTyped'
    BY <1>1, <1>4, HeldTyped DEF Writes
  <2>3. \A b \in 1..(cur - 1) : HasPlan(b)
    BY <1>1 DEF Position, Standing
  <2> HIDE DEF e
  <2>4. Ledger' /\ ToldHere(e)
    BY <1>1, <1>2, <2>1, <2>2, <2>3, HeldKeeps, LedgerToldHere
  <2>5. pc' = "persist" /\ cur' = cur + 1
    BY <1>4 DEF NextAction
  <2>6. Standing'
    <3>1. \A b \in 1..cur : HasPlan(b)'
      <4> SUFFICES ASSUME NEW b \in 1..cur PROVE HasPlan(b)'
        OBVIOUS
      <4>1. b \in Actions /\ (b = cur \/ b \in 1..(cur - 1))
        BY <1>2, PlanBounds DEF Ledger
      <4> QED
        BY <1>2, <2>3, <2>4, <4>1, ToldPhases
    <3>2. 1..(cur' - 1) = 1..cur /\ cur' \in Nat \ {0}
      BY <1>2, <2>5
    <3> QED
      BY <2>5, <3>1, <3>2 DEF Standing, Looping, Working, Removing, Reconciling
  <2>7. StepFits' /\ EndsShown'
    BY <2>5, NoRemoval DEF Removing, EndsShown
  <2> QED
    BY <1>1, <2>4, <2>6, <2>7, HeldKeeps, PlanningKeeps DEF Position
<1> QED
  BY <1>3, <1>4 DEF PlanAction, Records

LEMMA PlanWrittenKeeps ==
  ASSUME Ledger, Position, PlanWritten
  PROVE  Ledger' /\ Position'
<1>1. /\ pc = "persist" /\ pc' = "next" /\ cur' = 1 /\ Held
      /\ UNCHANGED <<files, inventory, plan, work>> /\ events' = events /\ method' = method
  BY StayHeld DEF PlanWritten, NoFault, Stay, run
<1>2. /\ Ledger' /\ plan' = plan /\ taken' = taken /\ installed' = installed
  BY <1>1, QuietLedger
<1>3. Standing'
  <2>1. \A a \in Actions' : ~(a < cur')
    BY <1>1 DEF Actions
  <2> QED
    BY <1>1, <2>1 DEF Standing, Looping, Working, Removing, Reconciling
<1>4. StepFits' /\ EndsShown'
  BY <1>1, NoRemoval DEF Removing, EndsShown
<1> QED
  BY <1>1, <1>2, <1>3, <1>4, HeldKeeps, PlanningKeeps DEF Position

-----------------------------------------------------------------------------
(* resume_ssh. *)

LEMMA ResumeKeeps ==
  ASSUME Ledger, Position, Resume
  PROVE  Ledger' /\ Position'
<1>1. /\ UNCHANGED <<files, inventory, plan, work>> /\ events' = events /\ method' = method
      /\ runs' = runs /\ stored' = stored /\ broken' = broken
      /\ pc = "idle" /\ pc' = "classify" /\ cur' = 1 /\ attended'
      /\ JournalReadable
  BY DEF Resume, NoFault
<1>2. EndsShown'
  BY <1>1 DEF Position, EndsShown
<1>3. stored' \in [inventory : BOOLEAN, recon : {"none", "drained", "findings"},
                   blocked : BOOLEAN]
  BY <1>1 DEF Position
<1> QED
  BY <1>1, <1>2, <1>3, QuietLedger, LeavesRun DEF Outside

LEMMA ClassifyOpenKeeps ==
  ASSUME Ledger, Position, ClassifyOpen
  PROVE  Ledger' /\ Position'
<1>1. /\ pc = "classify" /\ cur \in Nat \ {0} /\ cur <= NumActions /\ attended
      /\ runs > 0 => stored.recon # "none" \/ broken # "no"
  BY DEF ClassifyOpen, Position, Standing, EndsShown
<1>2. Held /\ SeenTyped' /\ UNCHANGED <<files, inventory, plan, work>>
  BY StayHeld, WorkKept DEF ClassifyOpen, Records, Stay, run
<1>3. CASE NextAction("classify") /\ NoFault
  <2>1. /\ events' = events /\ method' = method /\ broken' = broken
        /\ pc' = "classify" /\ cur' = cur + 1
    BY <1>3 DEF NoFault, NextAction
  <2>2. EndsShown'
    BY <1>1, <1>2, <2>1, HeldKeeps DEF EndsShown
  <2>3. cur' \in Nat \ {0}
    BY <1>1, <2>1
  <2> QED
    BY <1>2, <2>1, <2>2, <2>3, HeldKeeps, QuietLedger, LeavesRun DEF Outside, Position
<1> DEFINE e == SshClassification(Replay(cur))
<1>4. CASE WriteFails(e) /\ Goto("idle")
  <2>1. /\ events' = events /\ method' = method /\ broken' # "no"
        /\ pc' = "idle" /\ cur' = cur
    BY <1>4, FailsQuietly DEF Goto
  <2>2. EndsShown'
    BY <1>1, <1>2, <2>1, HeldKeeps DEF EndsShown
  <2> QED
    BY <1>1, <1>2, <2>1, <2>2, HeldKeeps, QuietLedger, LeavesRun DEF Outside, Position
<1>5. CASE Writes(e) /\ NextAction("classify") /\ cur \in Open
  <2>1. e \in Row /\ e.phase \in {"recovery_review", "interrupted"}
    <3>1. Event("interrupted") \in Row /\ Event("interrupted").phase = "interrupted"
      BY EventRow DEF Phases
    <3> QED
      BY <3>1, ReviewRow DEF SshClassification
  <2> HIDE DEF e
  <2>2. AppendEvent(cur, e) /\ FilesTyped' /\ broken' = broken
    BY <1>2, <1>5, HeldTyped DEF Writes
  <2>3. cur \in Actions /\ HasPlan(cur) /\ Outcome(cur) = "in_progress"
    BY <1>5 DEF Open, PlannedActions
  <2>4. Ledger' /\ ToldHere(e)
    BY <1>2, <2>1, <2>2, <2>3, HeldKeeps, LedgerToldHere
  <2>5. LastPhase(cur) \in OpenPhases
    BY <2>3, OutcomePhases DEF Ledger, RowsFit
  <2>6. pc' = "classify" /\ cur' = cur + 1
    BY <1>5 DEF NextAction
  <2>7. \A a \in 1..Len(plan) :
          /\ LastPhase(a) \in TakenPhases => LastPhase(a)' \in TakenPhases
          /\ LastPhase(a) \in InstalledPhases => LastPhase(a)' \in InstalledPhases
    <3> SUFFICES ASSUME NEW a \in 1..Len(plan)
                 PROVE  /\ LastPhase(a) \in TakenPhases => LastPhase(a)' \in TakenPhases
                        /\ LastPhase(a) \in InstalledPhases => LastPhase(a)' \in InstalledPhases
      OBVIOUS
    <3>1. a \in Actions
      BY PlanBounds DEF Ledger
    <3>2. CASE a = cur
      <4>1. LastPhase(a)' = e.phase /\ LastPhase(a) \in OpenPhases
        BY <2>3, <2>4, <2>5, <3>1, <3>2, ToldPhases
      <4>2. LastPhase(a) \notin TakenPhases
        BY <4>1 DEF OpenPhases, TakenPhases
      <4>3. e.phase \in InstalledPhases
        BY <2>1 DEF InstalledPhases
      <4> QED
        BY <4>1, <4>2, <4>3
    <3>3. CASE a # cur
      <4>1. LastPhase(a)' = LastPhase(a)
        BY <2>3, <2>4, <3>1, <3>3, ToldPhases
      <4> QED
        BY <4>1 DEF TakenPhases, InstalledPhases
    <3> QED
      BY <3>2, <3>3
  <2>8. pc' \notin Looping \cup {"begun", "persist"} /\ cur' \in Nat \ {0}
    BY <1>1, <2>6 DEF Looping, Working, Removing, Reconciling
  <2>9. Standing'
    BY <2>6, <2>8 DEF Standing, Looping, Outside
  <2>10. StepFits'
    BY <2>6, NoRemoval DEF Removing
  <2>11. TakenShown'
    BY <1>2, <2>6, <2>7, HeldKeeps
       DEF Position, TakenShown, Behind, Removes, Outside, TakenPhases
  <2>12. InstalledShown'
    BY <1>2, <2>6, <2>7, HeldKeeps
       DEF Position, InstalledShown, Behind, Outside, InstalledPhases
  <2>13. EndsShown'
    BY <1>1, <1>2, <2>2, <2>6, HeldKeeps DEF EndsShown
  <2> QED
    BY <1>2, <2>4, <2>9, <2>10, <2>11, <2>12, <2>13, HeldKeeps DEF Position
<1> QED
  BY <1>3, <1>4, <1>5 DEF ClassifyOpen, Records

LEMMA ReopenKeeps ==
  ASSUME Ledger, Position, Reopen
  PROVE  Ledger' /\ Position'
<1>1. CASE StartRun(TRUE)
  BY <1>1, StartRunKeeps
<1>2. CASE Goto("idle") /\ NoFault /\ Stay /\ UNCHANGED work
  <2>1. /\ Held /\ UNCHANGED <<files, inventory, plan, work>>
        /\ events' = events /\ method' = method /\ broken' = broken
        /\ pc = "classify" /\ pc' = "idle" /\ cur' = cur
    BY <1>2, StayHeld DEF NoFault, Goto, Reopen, Stay, run
  <2>2. EndsShown'
    BY <2>1, HeldKeeps DEF Position, EndsShown
  <2> QED
    BY <2>1, <2>2, HeldKeeps, QuietLedger, LeavesRun DEF Outside, Position, Standing
<1> QED
  BY <1>1, <1>2 DEF Reopen


-----------------------------------------------------------------------------
(* The environment: a step that moves neither the driver nor its rows.      *)

LEMMA Unmoved ==
  ASSUME Ledger, Position, FilesTyped', events' = events, method' = method,
         plan' = plan, inventory' = inventory, seen' = seen,
         trash' = trash, taken' = taken, witnessed' = witnessed, installed' = installed,
         pc' = pc, cur' = cur, stored' = stored, runs' = runs,
         attended' = attended, broken' = broken
  PROVE  Ledger' /\ Position'
<1>1. Ledger' /\ \A a \in Actions : RowsKept(a)
  BY LedgerSame
<1>2. Actions' = Actions
  BY DEF Actions
<1>3. \A a \in Actions : LastPhase(a)' = LastPhase(a) /\ (HasPlan(a)' <=> HasPlan(a))
  BY <1>1 DEF RowsKept
<1>4. \A a \in 1..Len(plan) : a \in Actions
  BY PlanBounds DEF Ledger
<1>5. Standing'
  <2>1. pc = "persist" => \A b \in 1..(cur - 1) : HasPlan(b)'
    BY DEF Position, Standing, HasPlan
  <2> QED
    BY <1>2, <1>3, <2>1 DEF Position, Standing
<1>6. StepFits'
  BY <1>2 DEF Position, StepFits, Removes, MovedAsProven
<1>7. TakenShown'
  BY <1>3, <1>4 DEF Position, TakenShown, Removes, Behind
<1>8. InstalledShown'
  BY <1>3, <1>4 DEF Position, InstalledShown, Behind
<1>9. EndsShown'
  BY <1>1, ReportKept DEF Position, EndsShown
<1> QED
  BY <1>1, <1>5, <1>6, <1>7, <1>8, <1>9 DEF Position

LEMMA RequestCancelKeeps ==
  ASSUME Ledger, Position, RequestCancel
  PROVE  Ledger' /\ Position'
<1>1. /\ events' = events /\ method' = method /\ plan' = plan /\ inventory' = inventory
      /\ src' = src /\ dst' = dst
      /\ seen' = seen /\ trash' = trash /\ taken' = taken /\ witnessed' = witnessed
      /\ installed' = installed /\ pc' = pc /\ cur' = cur /\ stored' = stored
      /\ runs' = runs /\ attended' = attended /\ broken' = broken
  BY DEF RequestCancel, NoFault, files, run, work
<1>2. FilesTyped'
  BY <1>1 DEF Ledger, FilesTyped, Trees, Files, Items
<1> QED
  BY <1>1, <1>2, Unmoved

LEMMA EditKeeps ==
  ASSUME Ledger, Position, Edit
  PROVE  Ledger' /\ Position'
<1>1. /\ events' = events /\ method' = method /\ plan' = plan /\ inventory' = inventory
      /\ seen' = seen /\ trash' = trash /\ taken' = taken /\ witnessed' = witnessed
      /\ installed' = installed /\ pc' = pc /\ cur' = cur /\ stored' = stored
      /\ runs' = runs /\ attended' = attended /\ broken' = broken
  BY DEF Edit, NoFault, run, work
<1>2. src' \in [Files -> Items] /\ dst' \in [Files -> Items]
  <2>1. src \in [Files -> Items] /\ dst \in [Files -> Items]
    BY DEF Ledger, FilesTyped, Trees
  <2>2. PICK f \in Files, item \in Items :
          \/ src' = [src EXCEPT ![f] = item] /\ dst' = dst
          \/ dst' = [dst EXCEPT ![f] = item] /\ src' = src
    BY DEF Edit
  <2> QED
    BY <2>1, <2>2
<1>3. FilesTyped'
  BY <1>1, <1>2 DEF Ledger, FilesTyped, Trees, Files, Items
<1> QED
  BY <1>1, <1>3, Unmoved

(* The process dies: what the backend was doing is half done or done.       *)
LEMMA CrashKeeps ==
  ASSUME Ledger, Position, Crash
  PROVE  Ledger' /\ Position'
<1>1. /\ events' = events /\ method' = method /\ plan' = plan /\ inventory' = inventory
      /\ seen' = seen /\ witnessed' = witnessed /\ installed' = installed
      /\ stored' = stored /\ runs' = runs
      /\ pc' = "idle" /\ cur' = cur /\ broken' = "killed"
  BY DEF Crash, Goto, run, work
<1>2. dst' \in [Files -> Items]
  <2>1. CASE dst' = dst
    BY <2>1 DEF Ledger, FilesTyped, Trees
  <2>2. CASE pc = "transfer" /\ dst' # dst
    <3>1. cur \in 1..Len(plan)
      BY <2>2, CurAction DEF Working
    <3>2. Path \in Files
      BY <3>1, PlanBounds DEF Ledger, Path
    <3>3. /\ dst \in [Files -> Items] /\ src[Path] \in Items /\ dst[Path] \in Items
          /\ NoContent \in Items
      BY <3>2 DEF Ledger, FilesTyped, Trees, Items
    <3>4. PICK item \in {dst[Path], NoContent, src[Path]} : dst' = [dst EXCEPT ![Path] = item]
      BY <2>2 DEF Crash
    <3> QED
      BY <3>2, <3>3, <3>4
  <2> QED
    BY <2>1, <2>2 DEF Crash
<1>3. EndsShown'
  BY <1>1 DEF EndsShown
<1>4. cur' \in Nat \ {0} /\ pc' \in Outside
  BY <1>1 DEF Position, Standing, Outside
<1>5. CASE src' = src /\ trash' = trash /\ taken' = taken
  <2>1. FilesTyped'
    BY <1>1, <1>2, <1>5 DEF Ledger, FilesTyped, Trees, Files, Items
  <2>2. Ledger' /\ \A a \in Actions : RowsKept(a)
    BY <1>1, <1>5, <2>1, LedgerSame
  <2>3. stored' \in [inventory : BOOLEAN, recon : {"none", "drained", "findings"},
                     blocked : BOOLEAN]
    BY <1>1 DEF Position
  <2> QED
    BY <1>1, <1>3, <1>4, <1>5, <2>2, <2>3, LeavesRun
<1>6. CASE pc = "recover" /\ Moved
  <2>1. /\ src' \in [Files -> Items] /\ trash' \in [Files -> Items]
        /\ taken' \in [Files -> Items] /\ witnessed' \in [Files -> Items]
        /\ \A a \in Actions : LastPhase(a) = "removal_completed" => MovedAsProven(a)'
        /\ \A a \in 1..Len(plan) : Removes(a) /\ a # cur =>
             taken'[plan[a].path] = taken[plan[a].path]
    BY <1>1, <1>6, MoveKeeps
  <2>2. FilesTyped'
    BY <1>1, <1>2, <2>1 DEF Ledger, FilesTyped, Trees, Files, Items
  <2>3. Ledger' /\ \A a \in Actions : RowsKept(a)
    BY <1>1, <2>1, <2>2, LedgerGrows
  <2>4. TakenShown'
    BY <1>1, <1>6, <2>1, <2>3, MoveShown DEF Outside
  <2>5. pc' \notin Looping \cup {"begun", "persist"}
    BY <1>1 DEF Looping, Working, Removing, Reconciling
  <2>6. Standing'
    BY <1>1, <1>4, <2>5 DEF Standing, Looping, Outside
  <2>7. StepFits'
    BY <2>5, NoRemoval DEF Looping, Working
  <2>8. \A a \in 1..Len(plan) : a \in Actions /\ LastPhase(a)' = LastPhase(a)
    BY <2>3, PlanBounds DEF Ledger, RowsKept
  <2>9. InstalledShown'
    BY <1>1, <2>8 DEF Position, InstalledShown, Behind, InstalledPhases, Outside
  <2> QED
    BY <1>1, <1>3, <2>3, <2>4, <2>6, <2>7, <2>9 DEF Position
<1> QED
  BY <1>5, <1>6 DEF Crash, Moved

LEMMA StartsKeep ==
  ASSUME Ledger, Position, ExecuteSsh \/ ExecuteSshUnattended
  PROVE  Ledger' /\ Position'
BY StartRunKeeps DEF ExecuteSsh, ExecuteSshUnattended

LEMMA DriverKeeps ==
  ASSUME Ledger, Position, Driver
  PROVE  Ledger' /\ Position'
BY RefuseUnattendedKeeps, RecordInventoryKeeps, PlanActionKeeps, PlanWrittenKeeps,
   BeginActionKeeps, StopLoopKeeps, FirstProgressKeeps, EndingKeeps,
   TransferReturnsKeeps, AttemptBreaksKeeps, BreaksInstalledKeeps, TransferRefusedKeeps,
   RecordVerifiedKeeps, ReviewActionKeeps, RecordJournalFailureKeeps, CancelRemainingKeeps,
   ProveBoundaryKeeps, StartRemovalKeeps, RecoveryReturnsKeeps, RecoveryAmbiguousKeeps,
   RecoveryRefusedKeeps, RecordRemovalKeeps, ReconcileKeeps, RecordReconciliationKeeps,
   GiveUpKeeps, ClassifyOpenKeeps, ReopenKeeps
DEF Driver

LEMMA NothingKeeps ==
  ASSUME Ledger, Position, UNCHANGED allVars
  PROVE  Ledger' /\ Position'
<1>1. /\ events' = events /\ method' = method /\ plan' = plan /\ inventory' = inventory
      /\ src' = src /\ dst' = dst
      /\ seen' = seen /\ trash' = trash /\ taken' = taken /\ witnessed' = witnessed
      /\ installed' = installed /\ pc' = pc /\ cur' = cur /\ stored' = stored
      /\ runs' = runs /\ attended' = attended /\ broken' = broken
  BY DEF allVars, files, run, work
<1>2. FilesTyped'
  BY <1>1 DEF Ledger, FilesTyped, Trees, Files, Items
<1> QED
  BY <1>1, <1>2, Unmoved

LEMMA SshStart == SshInit => Ledger /\ Position
<1> SUFFICES ASSUME SshInit PROVE Ledger /\ Position
  OBVIOUS
<1>1. JournalSound
  BY SoundEmpty DEF SshInit
<1>2. Nothing \in [Files -> Items] /\ NoEvidenceSeen \in [src : Items, dst : Items, sound : BOOLEAN]
  BY DEF Nothing, Items, NoEvidenceSeen
<1>3. FilesTyped
  BY <1>2 DEF SshInit, FilesTyped, Trees
<1>4. plan = <<>> /\ Len(plan) = 0 /\ NumActions \in Nat
  BY JournalAssumption DEF SshInit
<1>5. PlanFits
  BY <1>4 DEF PlanFits
<1>6. \A a \in Actions : ~HasPlan(a) /\ LastPhase(a) = "none"
  BY DEF SshInit, HasPlan, LastPhase
<1>7. RowsFit /\ Recovered
  BY <1>6 DEF RowsFit, Recovered
<1>8. pc = "idle" /\ cur = 1 /\ runs = 0 /\ installed = {}
  BY DEF SshInit
<1>9. Standing
  BY <1>8 DEF Standing, Looping, Working, Removing, Reconciling, Outside
<1>10. StepFits
  BY <1>8 DEF StepFits, Removing
<1>11. TakenShown /\ InstalledShown /\ EndsShown
  BY <1>4, <1>8 DEF TakenShown, InstalledShown, EndsShown
<1>12. /\ runs \in Nat
       /\ stored \in [inventory : BOOLEAN, recon : {"none", "drained", "findings"},
                      blocked : BOOLEAN]
  BY <1>8 DEF SshInit
<1> QED
  BY <1>1, <1>3, <1>5, <1>7, <1>9, <1>10, <1>11, <1>12 DEF Ledger, Position

LEMMA SshInvariant == SshSpec => [](Ledger /\ Position)
<1>1. Ledger /\ Position /\ [SshNext]_allVars => (Ledger /\ Position)'
  BY StartsKeep, ResumeKeeps, DriverKeeps, RequestCancelKeeps, CrashKeeps, EditKeeps,
     NothingKeeps
     DEF SshNext
<1> QED
  BY <1>1, SshStart, PTL DEF SshSpec

-----------------------------------------------------------------------------
(* What follows from it.                                                    *)

(* What the report says of an action of the plan, by its last row.          *)
LEMMA ShownAction ==
  ASSUME Ledger, NEW a \in 1..Len(plan), HasPlan(a)
  PROVE  /\ LastPhase(a) \in Phases
         /\ Outcome(a) = "in_progress" <=> LastPhase(a) \in OpenPhases
         /\ Outcome(a) = "completed" <=> LastPhase(a) \in {"completed", "removal_completed"}
         /\ Outcome(a) = "recovery_review" <=>
              LastPhase(a) \in {"proof_boundary", "removal_started", "recovery_review"}
         /\ LastPhase(a) \in {"failed", "cancelled", "interrupted", "deferred", "unresolved"}
              => Outcome(a) = LastPhase(a)
<1>1. a \in Actions /\ LastPhase(a) # "recovery_resolved"
  BY PlanBounds DEF Ledger, RowsFit
<1> QED
  BY <1>1, OutcomePhases DEF Ledger

(* A remote removal that is recorded took the confirmed content, has it at  *)
(* the recovery target and found it at the destination behind the move,     *)
(* whatever was edited, lost or repeated (validate_remote_recovery).        *)
THEOREM SshRecoveredWasProven == SshSpec => []RecoveredWasProven
<1>1. Ledger => RecoveredWasProven
  <2> SUFFICES ASSUME Ledger, NEW a \in 1..Len(plan), LastPhase(a) = "removal_completed"
               PROVE  /\ taken[plan[a].path] = inventory[plan[a].path]
                      /\ trash[plan[a].path] = inventory[plan[a].path]
                      /\ witnessed[plan[a].path] = inventory[plan[a].path]
    BY DEF RecoveredWasProven
  <2>1. a \in Actions
    BY PlanBounds DEF Ledger
  <2> QED
    BY <2>1 DEF Ledger, Recovered, MovedAsProven
<1> QED
  BY <1>1, SshInvariant, PTL

(* A remote source that is gone by the run's hand is recorded as completed  *)
(* or under Recovery Review at every moment, through ambiguous recoveries,  *)
(* lost rows and crashes (record_ssh_failure, requires_recovery_review).    *)
THEOREM SshNeverHidden == SshSpec => []RecoveryNeverHidden
<1>1. Ledger /\ Position => RecoveryNeverHidden
  <2> SUFFICES ASSUME Ledger, Position, NEW a \in 1..Len(plan),
                      plan[a].op = "remove_source", taken[plan[a].path] # NoContent
               PROVE  Outcome(a) \in {"completed", "recovery_review"}
    BY DEF RecoveryNeverHidden
  <2>1. LastPhase(a) \in TakenPhases
    BY DEF Position, TakenShown, Removes
  <2>2. HasPlan(a)
    BY <2>1 DEF LastPhase, TakenPhases
  <2> QED
    BY <2>1, <2>2, ShownAction DEF TakenPhases
<1> QED
  BY <1>1, SshInvariant, PTL

(* An action that replaced the destination and could not prove the result   *)
(* is never reported as completed, cancelled, deferred or as an ordinary    *)
(* failure, and its transfer is never repeated (SshTransferBoundary).       *)
THEOREM SshInstalledIsShown == SshSpec => []InstalledIsShown
<1>1. Ledger /\ Position => InstalledIsShown
  <2> SUFFICES ASSUME Ledger, Position, NEW a \in installed
               PROVE  /\ Outcome(a) \in {"in_progress", "unresolved", "interrupted",
                                         "recovery_review"}
                      /\ cur = a => pc # "transfer"
    BY DEF InstalledIsShown
  <2>1. /\ a \in 1..Len(plan) /\ LastPhase(a) \in InstalledPhases
        /\ Behind(a, InstalledSteps)
    BY DEF Position, InstalledShown
  <2>2. HasPlan(a)
    BY <2>1 DEF LastPhase, InstalledPhases
  <2>3. Outcome(a) \in {"in_progress", "unresolved", "interrupted", "recovery_review"}
    BY <2>1, <2>2, ShownAction DEF InstalledPhases, OpenPhases
  <2>4. cur = a => pc # "transfer"
    <3>1. a \in Nat
      BY <2>1
    <3> QED
      BY <2>1, <3>1 DEF Behind, Outside, InstalledSteps
  <2> QED
    BY <2>3, <2>4
<1> QED
  BY <1>1, SshInvariant, PTL

(* No run whose journal can be read ends without a recorded reconciliation  *)
(* unless a row was lost or refused or the process died; and such a run     *)
(* without a user does not end looking as if it still went on               *)
(* (execute_ssh_confirmed, execute_ssh_unattended).                         *)
THEOREM SshEndsAccountedFor == SshSpec => []EndsAccountedFor
<1>1. Position => EndsAccountedFor
  BY DEF Position, EndsShown, EndsAccountedFor
<1> QED
  BY <1>1, SshInvariant, PTL

(* A remote removal is recorded only behind a verified transfer, a proof    *)
(* boundary and a removal start, by the frozen method (validate_event).     *)
THEOREM SshRestsOnProof == SshSpec => []RemovalRestsOnProof
<1>1. Ledger => RemovalRestsOnProof
  BY ProvenChain DEF Ledger, JournalSound
<1> QED
  BY <1>1, SshInvariant, PTL

(* The rows of one action: what load_journal reads, and a torn review       *)
(* behind a removal that was started.                                       *)
TornFits(b) == \A i \in 1..Len(events[b]) : Legible(events[b][i]) \/ i \in TornReviews(b)

LEMMA TornAppend ==
  ASSUME TypeOK, NEW e, AppendEvent(cur, e),
         Legible(e) \/ (e = Torn(RecoveryReview(0)) /\ LastPhase(cur) = "removal_started"),
         NEW b \in Actions, TornFits(b)
  PROVE  TornFits(b)'
<1>1. events \in [Actions -> Seq(Row)] /\ events' = [events EXCEPT ![cur] = Append(@, e)]
  BY DEF TypeOK, AppendEvent
<1>2. CASE b # cur
  BY <1>1, <1>2 DEF TornFits, TornReviews, RowsOf
<1>3. CASE b = cur
  <2> DEFINE n == Len(events[b])
  <2>1. events[b] \in Seq(Row) /\ events'[b] = Append(events[b], e)
    BY <1>1, <1>3
  <2>2. /\ n \in Nat /\ Len(events'[b]) = n + 1 /\ events'[b][n + 1] = e
        /\ \A i \in 1..n : events'[b][i] = events[b][i]
    BY <2>1
  <2>3. \A i \in 1..n : i \in TornReviews(b) => i \in TornReviews(b)'
    <3> SUFFICES ASSUME NEW i \in 1..n, i \in TornReviews(b)
                 PROVE  i \in TornReviews(b)'
      OBVIOUS
    <3>1. i > 1 /\ i - 1 \in 1..n
      BY <2>2 DEF TornReviews
    <3> QED
      BY <2>2, <3>1 DEF TornReviews, RowsOf
  <2>4. Legible(e) \/ n + 1 \in TornReviews(b)'
    <3> SUFFICES ASSUME e = Torn(RecoveryReview(0)), LastPhase(cur) = "removal_started"
                 PROVE  n + 1 \in TornReviews(b)'
      OBVIOUS
    <3>1. e.phase = "recovery_review" /\ e.evidence.provenance = "torn"
      BY ReviewRow, TornIsRow
    <3>2. n > 0 /\ events[b][n].phase = "removal_started"
      BY <1>3, <2>2 DEF LastPhase, LastRow, HasPlan
    <3>3. n + 1 > 1 /\ (n + 1) - 1 = n /\ n \in 1..n /\ n + 1 \in 1..(n + 1)
      BY <2>2, <3>2
    <3> QED
      BY <2>2, <3>1, <3>2, <3>3 DEF TornReviews, RowsOf
  <2>5. \A i \in 1..(n + 1) : i \in 1..n \/ i = n + 1
    BY <2>2
  <2> QED
    BY <2>2, <2>3, <2>4, <2>5 DEF TornFits
<1> QED
  BY <1>2, <1>3

LEMMA TornStays ==
  ASSUME Ledger, [SshNext]_allVars, NEW b \in Actions, TornFits(b)
  PROVE  TornFits(b)'
<1>1. TypeOK
  BY DEF Ledger, JournalSound
<1>2. SUFFICES \/ events' = events
               \/ events' = [a \in Actions |-> <<>>]
               \/ \E e : /\ \/ Legible(e)
                            \/ e = Torn(RecoveryReview(0)) /\ LastPhase(cur) = "removal_started"
                         /\ AppendEvent(cur, e)
  BY <1>1, TornAppend DEF TornFits, TornReviews, RowsOf
<1>3. /\ \A p \in Phases : Legible(Event(p))
      /\ \A op, c : Legible(Planned(op, c))
      /\ Legible(RemovalStarted(method)) /\ Legible(RecoveryReview(0))
      /\ Legible(TransferVerified(Proof)) /\ Legible(ProofBoundary(Proof, method))
      /\ Legible(RemovalCompleted(RemovalProof, method))
  <2>1. Proof.provenance \in {"none", "whole"} /\ RemovalProof.provenance \in {"none", "whole"}
    BY DEF Proof, RemovalProof
  <2> QED
    BY <2>1, LegibleRows
<1>4. \A e, ok, bad : Records(e, ok, bad) => events' = events \/ AppendEvent(cur, e)
  BY DEF Records, Writes, WriteFails
<1>5. CASE Driver
  <2>1. CASE RefuseUnattended \/ RecordInventory \/ PlanWritten \/ StopLoop
             \/ TransferReturns \/ AttemptBreaks \/ BreaksInstalled \/ TransferRefused
             \/ RecoveryReturns \/ RecoveryAmbiguous \/ RecoveryRefused
             \/ Reconcile \/ RecordReconciliation \/ GiveUp
    BY <2>1 DEF RefuseUnattended, MarkBlocked, RecordInventory, PlanWritten, StopLoop,
         TransferReturns, AttemptBreaks, BreaksInstalled, TransferRefused, CallEnds,
         RecoveryReturns, RecoveryAmbiguous, RecoveryRefused, Reconcile,
         RecordReconciliation, GiveUp, NoFault, Fault, StoreFault
  <2>2. CASE PlanAction \/ BeginAction \/ FirstProgress \/ Defer \/ CompleteTransfer
             \/ FailAction \/ LeaveUnresolved \/ CancelAction \/ RefuseEvidence
    BY <1>3, <1>4, <2>2 DEF PlanAction, BeginAction, FirstProgress, Defer, CompleteTransfer,
         FailAction, LeaveUnresolved, CancelAction, RefuseEvidence, Phases
  <2>3. CASE RecordVerified
    BY <1>3, <2>3 DEF RecordVerified, Writes, WriteFails
  <2>4. CASE ReviewAction
    BY <1>3, <1>4, <2>4 DEF ReviewAction
  <2>5. CASE RecordJournalFailure \/ ProveBoundary \/ RecordRemoval
    BY <1>3, <1>4, <2>5 DEF RecordJournalFailure, ProveBoundary, RecordRemoval
  <2>6. CASE CancelRemaining \/ StartRemoval
    BY <1>3, <1>4, <2>6 DEF CancelRemaining, StartRemoval, NoFault, Phases
  <2>7. CASE ClassifyOpen
    <3>1. Legible(SshClassification(Replay(cur)))
      BY <1>3 DEF SshClassification, Phases
    <3> QED
      BY <1>4, <2>7, <3>1 DEF ClassifyOpen, NoFault
  <2>8. CASE Reopen
    BY <2>8 DEF Reopen, StartRun, NoFault
  <2> QED
    BY <1>5, <2>1, <2>2, <2>3, <2>4, <2>5, <2>6, <2>7, <2>8 DEF Driver
<1>6. CASE ExecuteSsh \/ ExecuteSshUnattended \/ Resume \/ RequestCancel \/ Crash \/ Edit
           \/ UNCHANGED allVars
  BY <1>6 DEF ExecuteSsh, ExecuteSshUnattended, StartRun, Resume, RequestCancel, Crash, Edit,
       NoFault, allVars
<1> QED
  BY <1>5, <1>6 DEF SshNext

(* What the store and the reader make of an SSH run's rows: load_journal    *)
(* refuses exactly the journals with a row it cannot read, and the only     *)
(* such row is the review of a started recovery whose evidence the backend  *)
(* left torn; nothing that was lost, refused or killed adds another.        *)
THEOREM SshIsReadBack == SshSpec => [](ReplayAccepts /\ ReadableUnlessTorn)
<1> DEFINE AllFit == \A b \in Actions : TornFits(b)
<1>1. SshInit => AllFit
  BY DEF SshInit, TornFits
<1>2. Ledger /\ AllFit /\ [SshNext]_allVars => AllFit'
  BY TornStays DEF Actions
<1>3. Ledger /\ AllFit => ReplayAccepts /\ ReadableUnlessTorn
  <2> SUFFICES ASSUME Ledger, AllFit PROVE ReplayAccepts /\ ReadableUnlessTorn
    OBVIOUS
  <2>1. ReplayAccepts
    BY DEF Ledger, JournalSound, ReplayAgrees, EntryAgrees, ReplayAccepts
  <2>2. ASSUME NEW b \in Actions
        PROVE  RowsLegible(b) <=> TornReviews(b) = {}
    <3>1. RowsLegible(b) => TornReviews(b) = {}
      BY DEF RowsLegible, TornReviews, RowsOf, Legible, WithEvidence
    <3>2. TornReviews(b) = {} => RowsLegible(b)
      BY <2>2 DEF RowsLegible, TornFits
    <3> QED
      BY <3>1, <3>2
  <2>3. ASSUME NEW b \in Actions, ~HasPlan(b)
        PROVE  RowsLegible(b)
    BY <2>3 DEF HasPlan, RowsLegible, Ledger, JournalSound, TypeOK
  <2> QED
    BY <2>1, <2>2, <2>3 DEF ReplayAccepts, JournalReadable, ReadableUnlessTorn
<1> QED
  BY <1>1, <1>2, <1>3, SshInvariant, PTL DEF SshSpec

-----------------------------------------------------------------------------
(* What the run reports, takes and finds, source by source: SourceDrain.    *)

(* The word of a removal is that of its last row.                           *)
LEMMA SaidWords ==
  Ledger => \A a \in Actions :
              Said(a) = IF IsRemoval(a) THEN WordOf(LastPhase(a)) ELSE "none"
<1> SUFFICES ASSUME Ledger, NEW a \in Actions, IsRemoval(a)
             PROVE  Said(a) = WordOf(LastPhase(a))
  BY DEF Said
<1>1. CASE ~HasPlan(a)
  <2>1. LastPhase(a) = "none" /\ Said(a) = "none"
    BY <1>1 DEF Said, LastPhase
  <2> QED
    BY <2>1 DEF WordOf, OpenPhases
<1>2. CASE HasPlan(a)
  <2>1. LastPhase(a) # "recovery_resolved" /\ a \in 1..Len(plan)
    BY <1>2 DEF Ledger, RowsFit, IsRemoval
  <2>2. /\ LastPhase(a) \in Phases
        /\ Outcome(a) = "in_progress" <=> LastPhase(a) \in OpenPhases
        /\ Outcome(a) = "completed" <=> LastPhase(a) \in {"completed", "removal_completed"}
        /\ Outcome(a) = "recovery_review" <=>
             LastPhase(a) \in {"proof_boundary", "removal_started", "recovery_review"}
    BY <1>2, <2>1, ShownAction
  <2> QED
    BY <1>2, <2>1, <2>2 DEF Said, WordOf, OpenPhases, Phases
<1> QED
  BY <1>1, <1>2

(* What is gone is shown.                                                   *)
LEMMA GoneShown ==
  Position => \A a \in Actions : IsRemoval(a) /\ taken[plan[a].path] # NoContent =>
                LastPhase(a) \in TakenPhases /\ Behind(a, TakenSteps)
BY DEF Position, TakenShown, IsRemoval, Removes

LEMMA RemovalPaths ==
  Ledger => \A a, b \in Actions :
              /\ IsRemoval(a) => plan[a].path \in Files
              /\ IsRemoval(a) /\ IsRemoval(b) /\ plan[a].path = plan[b].path => a = b
BY PlanBounds DEF IsRemoval, Ledger, PlanFits, Removes

LEMMA WordsKept ==
  ASSUME NEW a \in Actions, RowsKept(a), plan' = plan
  PROVE  Said(a)' = Said(a) /\ (IsRemoval(a)' <=> IsRemoval(a))
<1>1. Outcome(a)' = Outcome(a) /\ (HasPlan(a)' <=> HasPlan(a))
  BY DEF RowsKept, Outcome
<1>2. IsRemoval(a)' <=> IsRemoval(a)
  BY DEF IsRemoval
<1> QED
  BY <1>1, <1>2 DEF Said

LEMMA ItemsKept ==
  ASSUME plan' = plan
  PROVE  \A a \in Actions : /\ taken' = taken => ItemOf(taken, a)' = ItemOf(taken, a)
                            /\ witnessed' = witnessed =>
                                 ItemOf(witnessed, a)' = ItemOf(witnessed, a)
BY DEF ItemOf, IsRemoval

(* Neither a row nor a file: a stutter.                                     *)
LEMMA DrainStays ==
  ASSUME \A a \in Actions : Said(a)' = Said(a),
         plan' = plan, taken' = taken, witnessed' = witnessed
  PROVE  UNCHANGED Drain!drainVars
<1>1. Actions' = Actions
  BY DEF Actions
<1>2. \A a \in Actions : /\ ItemOf(taken, a)' = ItemOf(taken, a)
                         /\ ItemOf(witnessed, a)' = ItemOf(witnessed, a)
  BY ItemsKept
<1> QED
  BY <1>1, <1>2 DEF Drain!drainVars

(* One row of the journal, and no file: a word of the report changes, or    *)
(* none does.                                                               *)
LEMMA RowDrains ==
  ASSUME Ledger, Position, Ledger', Position', NEW s \in Actions, NEW e, AppendEvent(s, e),
         plan' = plan, taken' = taken, witnessed' = witnessed
  PROVE  [Drain!Next]_(Drain!drainVars)
<1>0. Actions' = Actions
  BY DEF Actions
<1>1. LastPhase(s)' # "recovery_resolved"
  <2>1. CASE HasPlan(s)'
    BY <1>0, <2>1 DEF Ledger, RowsFit
  <2>2. CASE ~HasPlan(s)'
    BY <2>2 DEF LastPhase
  <2> QED
    BY <2>1, <2>2
<1>2. /\ LastPhase(s)' \in Phases
      /\ \A b \in Actions : b # s => RowsKept(b)
      /\ \/ WordOf(LastPhase(s)') = WordOf(LastPhase(s))
         \/ WordOf(LastPhase(s)) = "none" /\ LastPhase(s)' = "planned"
         \/ WordOf(LastPhase(s)) = "open" /\ WordOf(LastPhase(s)') = "review"
         \/ WordOf(LastPhase(s)) \in {"open", "review"} /\ WordOf(LastPhase(s)') = "kept"
         \/ LastPhase(s)' \in {"completed", "removal_completed"}
      /\ LastPhase(s)' = "completed" => HasPlan(s) /\ PlanRow(s).op # "remove_source"
      /\ LastPhase(s)' = "removal_completed" => LastPhase(s) = "removal_started"
  BY <1>1, RowWords DEF Ledger
<1>3. \A b \in Actions : b # s => Said(b)' = Said(b)
  BY <1>2, WordsKept
<1>4. IsRemoval(s)' <=> IsRemoval(s)
  BY DEF IsRemoval
<1>5. \A a \in Actions : Said(a) = IF IsRemoval(a) THEN WordOf(LastPhase(a)) ELSE "none"
  BY SaidWords
<1>6. \A a \in Actions : Said(a)' = IF IsRemoval(a)' THEN WordOf(LastPhase(a)') ELSE "none"
  <2>1. (\A a \in Actions :
           Said(a) = IF IsRemoval(a) THEN WordOf(LastPhase(a)) ELSE "none")'
    BY SaidWords, PTL
  <2> QED
    BY <1>0, <2>1 DEF WordOf
<1>7. \A a \in Actions : /\ ItemOf(taken, a)' = ItemOf(taken, a)
                         /\ ItemOf(witnessed, a)' = ItemOf(witnessed, a)
  BY ItemsKept
<1>8. CASE Said(s)' = Said(s)
  BY <1>3, <1>8, DrainStays
<1>9. CASE Said(s)' # Said(s)
  <2>1. /\ IsRemoval(s) /\ IsRemoval(s)'
        /\ Said(s) = WordOf(LastPhase(s)) /\ Said(s)' = WordOf(LastPhase(s)')
    BY <1>4, <1>5, <1>6, <1>9
  <2> DEFINE word == Said(s)'
  <2>2. Drain!Says(s, word)
    BY <1>0, <1>3 DEF Drain!Says
  <2>3. /\ [a \in Actions |-> Said(a)][s] = Said(s)
        /\ [a \in Actions |-> ItemOf(taken, a)][s] = taken[plan[s].path]
        /\ [a \in Actions |-> ItemOf(witnessed, a)][s] = witnessed[plan[s].path]
    BY <2>1 DEF ItemOf
  <2>4. /\ [a \in Actions |-> ItemOf(taken, a)]' = [a \in Actions |-> ItemOf(taken, a)]
        /\ [a \in Actions |-> ItemOf(witnessed, a)]' = [a \in Actions |-> ItemOf(witnessed, a)]
    BY <1>0, <1>7
  <2>5. CASE Said(s) = "none" /\ word = "open"
    BY <2>2, <2>3, <2>4, <2>5 DEF Drain!Next, Drain!Touch, Drain!Plan
  <2>6. CASE Said(s) = "open" /\ word = "review"
    BY <2>2, <2>3, <2>4, <2>6 DEF Drain!Next, Drain!Touch, Drain!Announce
  <2>7. CASE Said(s) \in {"open", "review"} /\ word = "kept"
    <3>1. LastPhase(s)' \notin TakenPhases
      BY <2>1, <2>7 DEF WordOf, TakenPhases, OpenPhases
    <3>2. taken[plan[s].path] = NoContent
      <4>1. (\A a \in Actions : IsRemoval(a) /\ taken[plan[a].path] # NoContent =>
               LastPhase(a) \in TakenPhases /\ Behind(a, TakenSteps))'
        BY GoneShown, PTL
      <4> QED
        BY <1>0, <2>1, <3>1, <4>1 DEF TakenPhases
    <3> QED
      BY <2>2, <2>3, <2>4, <2>7, <3>2 DEF Drain!Next, Drain!Touch, Drain!Spare, Drain!Undecided
  <2>8. CASE LastPhase(s)' \in {"completed", "removal_completed"}
    <3>1. LastPhase(s)' = "removal_completed" /\ LastPhase(s) = "removal_started"
      BY <1>2, <2>1, <2>8 DEF IsRemoval, Ledger, RowsFit
    <3>2. Said(s) = "review" /\ word = "removed"
      BY <2>1, <3>1 DEF WordOf, OpenPhases
    <3>3. MovedAsProven(s)'
      BY <1>0, <3>1 DEF Ledger, Recovered
    <3>4. /\ taken[plan[s].path] # NoContent
          /\ witnessed[plan[s].path] = taken[plan[s].path]
      BY <3>3 DEF MovedAsProven
    <3> QED
      BY <2>2, <2>3, <2>4, <3>2, <3>4 DEF Drain!Next, Drain!Touch, Drain!Conclude
  <2> QED
    BY <1>2, <1>9, <2>1, <2>5, <2>6, <2>7, <2>8 DEF WordOf, OpenPhases
<1> QED
  BY <1>8, <1>9

(* A source moved into the recovery location, behind its announcement; what *)
(* recover_source observed at the destination is known only if it answered. *)
LEMMA MoveDrains ==
  ASSUME Ledger, Position, pc = "recover", Moved,
         plan' = plan, events' = events, method' = method,
         \/ witnessed' = witnessed
         \/ src[Path] # NoContent /\ witnessed' = [witnessed EXCEPT ![Path] = dst[Path]]
  PROVE  [Drain!Next]_(Drain!drainVars)
<1>0. Actions' = Actions
  BY DEF Actions
<1>1. cur \in Actions /\ cur \in 1..Len(plan) /\ pc \in Removing /\ pc \notin Outside \cup TakenSteps
  BY CurAction DEF Working, Removing, Outside, TakenSteps
<1>2. PICK s \in Actions : s = cur /\ s \in 1..Len(plan)
  BY <1>1
<1>3. IsRemoval(s) /\ LastPhase(s) = "removal_started" /\ Path = plan[s].path
  BY <1>1, <1>2 DEF Position, StepFits, Standing, Path, IsRemoval, Removes
<1>4. Path \in Files
  BY <1>3, RemovalPaths
<1>5. taken[Path] = NoContent
  <2>1. ~Behind(s, TakenSteps)
    BY <1>1, <1>2 DEF Behind, Actions
  <2> QED
    BY <1>3, <2>1, GoneShown
<1>6. Said(s) = "review"
  BY <1>3, SaidWords DEF WordOf, OpenPhases
<1>7. /\ src[Path] \in Contents \cup {NoContent} /\ dst[Path] \in Contents \cup {NoContent}
      /\ witnessed[Path] \in Contents \cup {NoContent}
      /\ taken \in [Files -> Items] /\ witnessed \in [Files -> Items]
  BY <1>4 DEF Ledger, FilesTyped, Trees, Items
<1>8. taken' = [taken EXCEPT ![Path] = src[Path]]
  BY DEF Moved
<1>9. \A a \in Actions : Said(a)' = Said(a) /\ (IsRemoval(a)' <=> IsRemoval(a))
  BY SameRowsKept, WordsKept
<1>10. CASE src[Path] = NoContent
  <2>1. taken' = taken /\ witnessed' = witnessed
    BY <1>5, <1>7, <1>8, <1>10
  <2> QED
    BY <1>9, <2>1, DrainStays
<1>11. CASE src[Path] # NoContent
  <2> DEFINE observed == witnessed'[Path]
  <2>1. observed \in Contents \cup {NoContent} /\ witnessed' = [witnessed EXCEPT ![Path] = observed]
    BY <1>4, <1>7
  <2>2. \A a \in Actions :
          /\ ItemOf(taken, a)' = IF a = s THEN src[Path] ELSE ItemOf(taken, a)
          /\ ItemOf(witnessed, a)' = IF a = s THEN observed ELSE ItemOf(witnessed, a)
    <3> SUFFICES ASSUME NEW a \in Actions
                 PROVE  /\ ItemOf(taken, a)' = IF a = s THEN src[Path] ELSE ItemOf(taken, a)
                        /\ ItemOf(witnessed, a)' = IF a = s THEN observed ELSE ItemOf(witnessed, a)
      OBVIOUS
    <3>1. CASE a = s
      BY <1>3, <1>4, <1>7, <1>8, <1>9, <3>1 DEF ItemOf
    <3>2. CASE a # s /\ IsRemoval(a)
      <4>1. plan[a].path \in Files /\ plan[a].path # Path
        BY <1>3, <3>2, RemovalPaths
      <4> QED
        BY <1>7, <1>8, <1>9, <2>1, <3>2, <4>1 DEF ItemOf
    <3>3. CASE a # s /\ ~IsRemoval(a)
      BY <1>9, <3>3 DEF ItemOf
    <3> QED
      BY <3>1, <3>2, <3>3
  <2>3. /\ [a \in Actions |-> Said(a)][s] = Said(s)
        /\ [a \in Actions |-> ItemOf(taken, a)][s] = taken[Path]
    BY <1>3 DEF ItemOf
  <2>4. /\ [a \in Actions |-> Said(a)]' = [a \in Actions |-> Said(a)]
        /\ [a \in Actions |-> ItemOf(taken, a)]' =
             [[a \in Actions |-> ItemOf(taken, a)] EXCEPT ![s] = src[Path]]
        /\ [a \in Actions |-> ItemOf(witnessed, a)]' =
             [[a \in Actions |-> ItemOf(witnessed, a)] EXCEPT ![s] = observed]
    BY <1>0, <1>9, <2>2
  <2>5. Drain!Take(s, src[Path], observed)
    BY <1>5, <1>6, <2>3, <2>4 DEF Drain!Take
  <2> HIDE DEF observed
  <2> QED
    BY <1>7, <1>11, <2>1, <2>5 DEF Drain!Next, Drain!Touch
<1> QED
  BY <1>10, <1>11

(* A step of the process starts a run, moves a source, or writes one row or *)
(* none and leaves the sources alone.                                       *)
Moves ==
  /\ pc = "recover" /\ Moved
  /\ plan' = plan /\ events' = events /\ method' = method
  /\ \/ witnessed' = witnessed
     \/ src[Path] # NoContent /\ witnessed' = [witnessed EXCEPT ![Path] = dst[Path]]

LEMMA RowOrNone ==
  ASSUME Driver
  PROVE  \/ StartRun(TRUE)
         \/ Moves
         \/ /\ plan' = plan /\ taken' = taken /\ witnessed' = witnessed
            /\ \/ events' = events /\ method' = method
               \/ \E e : AppendEvent(cur, e)
<1> USE DEF Records, Writes, WriteFails, NoFault, Fault, StoreFault, Stay, files, run
<1>1. CASE RefuseUnattended \/ RecordInventory \/ PlanAction \/ PlanWritten \/ GiveUp
  BY <1>1 DEF RefuseUnattended, RecordInventory, PlanAction, PlanWritten, GiveUp
<1>2. CASE BeginAction \/ StopLoop \/ FirstProgress \/ Defer
  BY <1>2 DEF BeginAction, StopLoop, FirstProgress, Defer
<1>3. CASE TransferReturns \/ AttemptBreaks \/ BreaksInstalled \/ TransferRefused
  BY <1>3 DEF TransferReturns, AttemptBreaks, BreaksInstalled, TransferRefused, CallEnds
<1>4. CASE RefuseEvidence \/ RecordVerified \/ CompleteTransfer
  BY <1>4 DEF RefuseEvidence, RecordVerified, CompleteTransfer
<1>5. CASE \/ FailAction \/ LeaveUnresolved \/ ReviewAction \/ CancelAction
           \/ RecordJournalFailure \/ CancelRemaining
  BY <1>5 DEF FailAction, LeaveUnresolved, ReviewAction, CancelAction, RecordJournalFailure,
       CancelRemaining
<1>6. CASE ProveBoundary \/ StartRemoval \/ RecoveryRefused \/ RecordRemoval
  BY <1>6 DEF ProveBoundary, StartRemoval, RecoveryRefused, RecordRemoval
<1>7. CASE RecoveryReturns
  BY <1>7 DEF RecoveryReturns, Moves, Moved
<1>8. CASE RecoveryAmbiguous
  BY <1>8 DEF RecoveryAmbiguous, Moves, Moved
<1>9. CASE Reconcile \/ RecordReconciliation \/ ClassifyOpen \/ Reopen
  BY <1>9 DEF Reconcile, RecordReconciliation, ClassifyOpen, Reopen
<1> QED
  BY <1>1, <1>2, <1>3, <1>4, <1>5, <1>6, <1>7, <1>8, <1>9 DEF Driver

(* The start of a run, and of its resumption, is the abstract one.          *)
LEMMA StartDrains ==
  ASSUME Ledger, Ledger', NEW user, StartRun(user)
  PROVE  Drain!Begin
<1>1. /\ events' = [a \in Actions |-> <<>>] /\ taken' = Nothing /\ witnessed' = Nothing
      /\ Actions' = Actions /\ Files' = Files
  BY DEF StartRun, Actions, Files
<1>2. \A a \in Actions : ~HasPlan(a)'
  BY <1>1 DEF HasPlan
<1>3. \A a \in Actions : Said(a)' = "none"
  BY <1>2 DEF Said
<1>4. \A a \in Actions : IsRemoval(a)' => (plan[a].path)' \in Files
  <2>1. (\A a, b \in Actions :
           /\ IsRemoval(a) => plan[a].path \in Files
           /\ IsRemoval(a) /\ IsRemoval(b) /\ plan[a].path = plan[b].path => a = b)'
    BY RemovalPaths, PTL
  <2> QED
    BY <1>1, <2>1
<1>5. \A a \in Actions : ItemOf(taken, a)' = NoContent /\ ItemOf(witnessed, a)' = NoContent
  BY <1>1, <1>4 DEF ItemOf, Nothing
<1> QED
  BY <1>1, <1>3, <1>5 DEF Drain!Begin

LEMMA DrainBegins == SshInit => Drain!Blank
<1> SUFFICES ASSUME SshInit PROVE Drain!Blank
  OBVIOUS
<1>1. \A a \in Actions : ~HasPlan(a) /\ ~IsRemoval(a)
  BY DEF SshInit, HasPlan, IsRemoval
<1>2. \A a \in Actions : /\ Said(a) = "none"
                         /\ ItemOf(taken, a) = NoContent /\ ItemOf(witnessed, a) = NoContent
  BY <1>1 DEF Said, ItemOf
<1> QED
  BY <1>2 DEF Drain!Blank

LEMMA StepDrains ==
  Ledger /\ Position /\ Ledger' /\ Position' /\ [SshNext]_allVars =>
    [Drain!Next]_(Drain!drainVars)
<1> SUFFICES ASSUME Ledger, Position, Ledger', Position', [SshNext]_allVars
             PROVE  [Drain!Next]_(Drain!drainVars)
  OBVIOUS
<1>1. ASSUME NEW user, StartRun(user) PROVE [Drain!Next]_(Drain!drainVars)
  BY <1>1, StartDrains DEF Drain!Next
<1>2. CASE Moves
  BY <1>2, MoveDrains DEF Moves
<1>3. ASSUME plan' = plan, taken' = taken, witnessed' = witnessed,
             events' = events, method' = method
      PROVE  [Drain!Next]_(Drain!drainVars)
  BY <1>3, SameRowsKept, WordsKept, DrainStays
<1>4. ASSUME plan' = plan, taken' = taken, witnessed' = witnessed, NEW e, AppendEvent(cur, e)
      PROVE  [Drain!Next]_(Drain!drainVars)
  <2>1. CASE cur \in Actions
    <3>1. PICK s \in Actions : s = cur
      BY <2>1
    <3> QED
      BY <1>4, <3>1, RowDrains
  <2>2. CASE cur \notin Actions
    <3>1. events = [a \in Actions |-> events[a]]
      BY DEF Ledger, JournalSound, TypeOK
    <3>2. events' = events /\ method' = method
      BY <1>4, <2>2, <3>1 DEF AppendEvent
    <3> QED
      BY <1>3, <1>4, <3>2
  <2> QED
    BY <2>1, <2>2
<1>5. CASE Driver
  BY <1>1, <1>2, <1>3, <1>4, <1>5, RowOrNone
<1>6. CASE ExecuteSsh \/ ExecuteSshUnattended
  BY <1>1, <1>6 DEF ExecuteSsh, ExecuteSshUnattended
<1>7. CASE Resume \/ RequestCancel \/ Crash \/ Edit \/ UNCHANGED allVars
  <2>1. \/ Moves
        \/ /\ plan' = plan /\ taken' = taken /\ witnessed' = witnessed
           /\ events' = events /\ method' = method
    BY <1>7 DEF Resume, RequestCancel, Crash, Edit, NoFault, files, run, allVars, Moves, Moved
  <2> QED
    BY <1>2, <1>3, <2>1
<1> QED
  BY <1>5, <1>6, <1>7 DEF SshNext

(* The SSH driver implements the same SourceDrain: a remote source goes     *)
(* only behind the RemovalStarted row execute_ssh_action writes ahead, is   *)
(* reported as kept only while it is there and as removed only when it went *)
(* and the same item was observed at the destination, and no later row,     *)
(* ambiguous answer, crash or resume takes either report back.              *)
THEOREM SshImplementsDrain == SshSpec => DrainImplemented
BY SshInvariant, DrainBegins, StepDrains, PTL DEF SshSpec, DrainImplemented, Drain!Spec

(* What the report says of a source is true at every moment: a remote       *)
(* source that is gone by the run's hand is under review or reported as     *)
(* removed, and one reported as removed is gone, with the same item         *)
(* observed at the destination (record_ssh_failure,                         *)
(* validate_remote_recovery).                                               *)
THEOREM SshReportIsTrue == SshSpec => []Drain!Truthful
<1>1. Ledger /\ Position => Drain!Truthful
  <2> SUFFICES ASSUME Ledger, Position, NEW s \in Actions
               PROVE  /\ ItemOf(taken, s) # NoContent => Said(s) \in {"review", "removed"}
                      /\ Said(s) = "removed" => /\ ItemOf(taken, s) # NoContent
                                                /\ ItemOf(witnessed, s) = ItemOf(taken, s)
    BY DEF Drain!Truthful
  <2>1. CASE ~IsRemoval(s)
    BY <2>1 DEF Said, ItemOf
  <2>2. CASE IsRemoval(s)
    <3>1. /\ ItemOf(taken, s) = taken[plan[s].path]
          /\ ItemOf(witnessed, s) = witnessed[plan[s].path]
          /\ Said(s) = WordOf(LastPhase(s))
      BY <2>2, SaidWords DEF ItemOf
    <3>2. taken[plan[s].path] # NoContent => LastPhase(s) \in TakenPhases
      BY <2>2, GoneShown
    <3>3. LastPhase(s) \in TakenPhases => WordOf(LastPhase(s)) \in {"review", "removed"}
      BY DEF TakenPhases, WordOf, OpenPhases
    <3>4. WordOf(LastPhase(s)) = "removed" => LastPhase(s) \in {"completed", "removal_completed"}
      BY DEF WordOf
    <3>5. LastPhase(s) # "completed"
      <4>1. Removes(s)
        BY <2>2 DEF IsRemoval, Removes
      <4>2. LastPhase(s) = "completed" => HasPlan(s)
        BY DEF LastPhase
      <4> QED
        BY <4>1, <4>2 DEF Ledger, RowsFit
    <3>6. LastPhase(s) = "removal_completed" => MovedAsProven(s)
      BY DEF Ledger, Recovered
    <3> QED
      BY <3>1, <3>2, <3>3, <3>4, <3>5, <3>6 DEF MovedAsProven
  <2> QED
    BY <2>1, <2>2
<1> QED
  BY <1>1, SshInvariant, PTL
=============================================================================
