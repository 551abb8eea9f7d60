------------------------- MODULE SafeDeleteRunProofs -------------------------
(***************************************************************************)
(* What a Safe Delete run does to the user's files, for any number of      *)
(* paths, contents, runs, edits and failing operations: every step of the  *)
(* driver keeps the files, the plan and the rows of the journal in one     *)
(* relation, and from it follow the promises about removed sources.        *)
(***************************************************************************)
EXTENDS SafeDeleteRun, ActionJournalProofs

-----------------------------------------------------------------------------
(* The plan build_plan makes of any two trees. *)

Step == [op : Operations, path : Files]
Trees == src \in [Files -> Items] /\ dst \in [Files -> Items]

(* The steps of one source item: at most two, on its path, and a removal    *)
(* once and only of an item that is there.                                  *)
LEMMA StepsShape ==
  ASSUME Trees, NEW f \in Files
  PROVE  /\ Steps(f) \in Seq(Step)
         /\ Len(Steps(f)) + Len(CleanupSteps(f)) <= 2
         /\ \A i \in 1..Len(Steps(f)) : Steps(f)[i].path = f
         /\ \A i \in 1..Len(Steps(f)) : Steps(f)[i].op = "remove_source" => src[f] # NoContent
         /\ \A i, j \in 1..Len(Steps(f)) :
              Steps(f)[i].op = "remove_source" /\ Steps(f)[j].op = "remove_source" => i = j
         /\ CleanupSteps(f) \in Seq(Step)
         /\ \A i \in 1..Len(CleanupSteps(f)) : CleanupSteps(f)[i].op = "remove_destination"
<1> DEFINE copy == [op |-> "copy", path |-> f]
           overwrite == [op |-> "overwrite", path |-> f]
           remove == [op |-> "remove_source", path |-> f]
           clean == [op |-> "remove_destination", path |-> f]
<1>1. copy \in Step /\ overwrite \in Step /\ remove \in Step /\ clean \in Step
  BY RunAssumption DEF Step
<1>2. /\ copy.op = "copy" /\ overwrite.op = "overwrite" /\ remove.op = "remove_source"
      /\ clean.op = "remove_destination"
      /\ copy.path = f /\ overwrite.path = f /\ remove.path = f
  OBVIOUS
<1>3. src[f] # NoContent =>
        \E first \in {<<copy>>, <<overwrite>>, <<>>} : Steps(f) = first \o <<remove>>
  <2> DEFINE first == CASE dst[f] = NoContent -> <<copy>>
                        [] dst[f] \in Contents \ {src[f]} -> <<overwrite>>
                        [] OTHER -> <<>>
  <2>1. src[f] # NoContent => Steps(f) = first \o <<remove>>
    BY DEF Steps
  <2>2. first \in {<<copy>>, <<overwrite>>, <<>>}
    OBVIOUS
  <2> QED
    BY <2>1, <2>2
<1>4. src[f] = NoContent => Steps(f) = <<>>
  BY DEF Steps
<1>5. CleanupSteps(f) = <<>> \/ CleanupSteps(f) = <<clean>>
  BY DEF CleanupSteps
<1>6. src[f] # NoContent => CleanupSteps(f) = <<>>
  BY DEF CleanupSteps
<1> HIDE DEF copy, overwrite, remove, clean
<1>8. /\ CleanupSteps(f) \in Seq(Step) /\ Len(CleanupSteps(f)) <= 1
      /\ \A i \in 1..Len(CleanupSteps(f)) : CleanupSteps(f)[i].op = "remove_destination"
  <2>1. CASE CleanupSteps(f) = <<>>
    BY <2>1
  <2>2. CASE CleanupSteps(f) = <<clean>>
    <3>1. <<clean>> \in Seq(Step) /\ Len(<<clean>>) = 1 /\ <<clean>>[1] = clean
      BY <1>1
    <3> QED
      BY <1>2, <2>2, <3>1
  <2> QED
    BY <1>5, <2>1, <2>2
<1>9. CASE src[f] = NoContent
  BY <1>4, <1>8, <1>9
<1>10. ASSUME NEW first, first \in {<<copy>>, <<overwrite>>}
       PROVE  /\ first \o <<remove>> \in Seq(Step) /\ Len(first \o <<remove>>) = 2
              /\ (first \o <<remove>>)[1].op # "remove_source"
              /\ (first \o <<remove>>)[1].path = f
              /\ (first \o <<remove>>)[2] = remove
  <2>1. PICK x \in {copy, overwrite} : first = <<x>>
    BY <1>10
  <2>2. x \in Step /\ x.op # "remove_source" /\ x.path = f
    BY <1>1, <1>2
  <2>3. /\ <<x>> \o <<remove>> \in Seq(Step) /\ Len(<<x>> \o <<remove>>) = 2
        /\ (<<x>> \o <<remove>>)[1] = x /\ (<<x>> \o <<remove>>)[2] = remove
    BY <1>1, <2>2
  <2> QED
    BY <2>1, <2>2, <2>3
<1>11. /\ <<>> \o <<remove>> \in Seq(Step) /\ Len(<<>> \o <<remove>>) = 1
       /\ (<<>> \o <<remove>>)[1] = remove
  BY <1>1
<1>12. CASE src[f] # NoContent
  <2>1. CleanupSteps(f) = <<>> /\ Len(<<>>) = 0
    BY <1>6, <1>12
  <2>2. PICK first \in {<<copy>>, <<overwrite>>, <<>>} : Steps(f) = first \o <<remove>>
    BY <1>3, <1>12
  <2>3. CASE first \in {<<copy>>, <<overwrite>>}
    <3>1. /\ Steps(f) \in Seq(Step) /\ Len(Steps(f)) = 2
          /\ Steps(f)[1].op # "remove_source" /\ Steps(f)[1].path = f
          /\ Steps(f)[2] = remove
      BY <1>10, <2>2, <2>3
    <3>2. \A i \in 1..Len(Steps(f)) : i = 1 \/ i = 2
      BY <3>1
    <3>3. Steps(f)[2].op = "remove_source" /\ Steps(f)[2].path = f
      BY <1>2, <3>1
    <3> QED
      BY <1>8, <1>12, <2>1, <3>1, <3>2, <3>3
  <2>4. CASE first = <<>>
    <3>1. Steps(f) \in Seq(Step) /\ Len(Steps(f)) = 1 /\ Steps(f)[1] = remove
      BY <1>11, <2>2, <2>4
    <3>2. \A i \in 1..Len(Steps(f)) : i = 1
      BY <3>1
    <3> QED
      BY <1>2, <1>8, <1>12, <2>1, <3>1, <3>2
  <2> QED
    BY <2>2, <2>3, <2>4
<1> QED
  BY <1>9, <1>12

(* The whole plan: it fits the journal, names each source removed once, and *)
(* only sources that were there when it was made.                           *)
LEMMA PlanShape ==
  ASSUME Trees
  PROVE  /\ BuildPlan \in Seq(Step)
         /\ Len(BuildPlan) <= NumActions
         /\ \A a, b \in 1..Len(BuildPlan) :
              /\ BuildPlan[a].op = "remove_source" /\ BuildPlan[b].op = "remove_source"
              /\ BuildPlan[a].path = BuildPlan[b].path
              => a = b
         /\ \A a \in 1..Len(BuildPlan) :
              BuildPlan[a].op = "remove_source" => src[BuildPlan[a].path] # NoContent
<1> DEFINE N == NumFiles
           isUp(g) == g = [f \in 0..N |-> IF f = 0 THEN <<>> ELSE g[f - 1] \o Steps(f)]
           isDown(g) == g = [f \in 0..N |-> IF f = 0 THEN <<>> ELSE g[f - 1] \o CleanupSteps(f)]
           upTo == CHOOSE g : isUp(g)
           cleanup == CHOOSE g : isDown(g)
<1>1. BuildPlan = upTo[N] \o cleanup[N]
  BY DEF BuildPlan
<1>2. N \in Nat /\ NumActions = 2 * N /\ Files = 1..N
  BY RunAssumption DEF Files
<1>3. isUp(upTo)
  <2>1. PICK g : Joins([f \in Files |-> Steps(f)], N, g)
    BY <1>2, JoinExists
  <2>2. \A f \in 0..N : f # 0 => f \in Files
    BY <1>2
  <2>3. \A f \in 0..N : f # 0 => [x \in Files |-> Steps(x)][f] = Steps(f)
    BY <2>2
  <2>4. isUp(g)
    BY <2>1, <2>3, Zenon DEF Joins
  <2> HIDE DEF isUp
  <2> QED
    BY <2>4
<1>4. isDown(cleanup)
  <2>1. PICK g : Joins([f \in Files |-> CleanupSteps(f)], N, g)
    BY <1>2, JoinExists
  <2>2. \A f \in 0..N : f # 0 => f \in Files
    BY <1>2
  <2>3. \A f \in 0..N : f # 0 => [x \in Files |-> CleanupSteps(x)][f] = CleanupSteps(f)
    BY <2>2
  <2>4. isDown(g)
    BY <2>1, <2>3, Zenon DEF Joins
  <2> HIDE DEF isDown
  <2> QED
    BY <2>4
<1> HIDE DEF upTo, cleanup
<1> DEFINE steps == [f \in Files |-> Steps(f)]
           cleaned == [f \in Files |-> CleanupSteps(f)]
           there == {f \in Files : src[f] # NoContent}
<1>5. \A f \in 0..N : f # 0 => f \in Files /\ steps[f] = Steps(f) /\ cleaned[f] = CleanupSteps(f)
  BY <1>2
<1>6. Joins(steps, N, upTo) /\ Joins(cleaned, N, cleanup)
  BY <1>3, <1>4, <1>5, Zenon DEF Joins
<1>7. \A f \in 1..N : PieceFits(steps[f], cleaned[f], f, Step, there)
  <2> SUFFICES ASSUME NEW f \in Files
               PROVE  PieceFits(Steps(f), CleanupSteps(f), f, Step, there)
    BY <1>2, <1>5
  <2> QED
    BY StepsShape DEF PieceFits
<1> HIDE DEF isUp, isDown, steps, cleaned, there
<1>8. JoinedFits(BuildPlan, N, Step, there)
  BY <1>1, <1>2, <1>6, <1>7, JoinedPlan
<1>9. \A f \in there : src[f] # NoContent
  BY DEF there
<1> QED
  BY <1>2, <1>8, <1>9 DEF JoinedFits

-----------------------------------------------------------------------------
(* The invariant.  The Ledger is what holds between two steps wherever the  *)
(* driver stands: a sound journal, whose rows are those of the plan, and    *)
(* for each removal recorded as done the item that was taken.               *)

FilesTyped ==
  /\ Trees
  /\ trash \in [Files -> Items] /\ taken \in [Files -> Items]
  /\ witnessed \in [Files -> Items] /\ inventory \in [Files -> Items]
  /\ kept \in [Files -> Items]

Removes(a) == plan[a].op = "remove_source"

PlanFits ==
  /\ plan \in Seq(Step)
  /\ Len(plan) <= NumActions
  /\ \A a, b \in 1..Len(plan) :
       Removes(a) /\ Removes(b) /\ plan[a].path = plan[b].path => a = b
  /\ \A a \in 1..Len(plan) : Removes(a) => inventory[plan[a].path] # NoContent

(* The driver writes no recovery_resolved, and completed only of a transfer. *)
RowsFit ==
  \A a \in Actions : HasPlan(a) =>
    /\ a <= Len(plan)
    /\ PlanRow(a).op = plan[a].op
    /\ \A b \in 1..a : HasPlan(b)
    /\ LastPhase(a) # "recovery_resolved"
    /\ LastPhase(a) = "completed" => ~Removes(a)

RemovedTaken ==
  \A a \in Actions : LastPhase(a) = "removal_completed" =>
    /\ a <= Len(plan) /\ Removes(a)
    /\ taken[plan[a].path] = LastRow(a).evidence.dst
    /\ LastRow(a).evidence.dst # NoContent

Ledger ==
  /\ JournalSound /\ FilesTyped /\ PlanFits /\ RowsFit /\ RemovedTaken
  /\ RemovedInOrder

(* The Position ties the step of the driver to the rows of its action: At   *)
(* gives the phases the action may have reached when step p is next.        *)
Reconciling == {"reconcile", "record_drained", "record_findings"}
Looping == Working \cup {"next", "cancel_remaining"} \cup Reconciling
RunSteps == Looping \cup {"idle", "classify", "begun", "persist"}
Outside == {"idle", "classify"}

At(p) ==
  CASE p \in {"next", "cancel_remaining"} -> {"planned"}
    [] p = "started" -> {"started"}
    [] p \in {"defer", "transfer", "verified", "fail_action", "review_action",
              "cancel_action", "settle", "fail_unresolved"} -> {"progress"}
    [] p \in {"complete", "prove"} -> {"transfer_verified"}
    [] p = "start_removal" -> {"proof_boundary"}
    [] p \in {"remove", "record_removal", "record_uncertain", "record_failure"} ->
         {"removal_started"}
    [] p \in {"journal_failure", "unresolved"} -> {"progress", "transfer_verified"}
    [] OTHER -> {}

Standing ==
  /\ pc \in RunSteps
  /\ cur \in Nat \ {0}
  /\ pc = "begun" => cur = 1 /\ \A a \in Actions : LastPhase(a) = "none"
  /\ pc = "persist" =>
       /\ cur <= Len(plan) + 1
       /\ \A a \in Actions : LastPhase(a) = IF a < cur THEN "planned" ELSE "none"
  /\ pc \in Looping =>
       /\ cur <= Len(plan) + 1
       /\ pc \in Working => cur <= Len(plan)
       /\ pc \in Reconciling => cur = Len(plan) + 1
       /\ \A a \in 1..Len(plan) :
            /\ HasPlan(a)
            /\ a < cur => LastPhase(a) \notin OpenPhases
            /\ a = cur => LastPhase(a) \in At(pc)
            /\ a > cur => LastPhase(a) = "planned"

SettledBehind ==
  pc = "next" /\ ~broken => \A b \in 1..(cur - 1) : LastPhase(b) \in SettledPhases

(* The steps of a removal behind its verified transfer, and those behind    *)
(* its proof boundary.                                                      *)
Removing == {"start_removal", "remove", "record_removal", "record_uncertain", "record_failure"}
Proving == Removing \cup {"prove"}
Taking == {"record_removal", "record_uncertain"}

StepFits ==
  \A a \in 1..Len(plan) : a = cur =>
    /\ pc \in Proving \cup {"settle"} => Removes(a) /\ kept[plan[a].path] # NoContent
    /\ pc \in {"verified", "complete"} =>
         plan[a].op \in {"copy", "overwrite"} /\ kept[plan[a].path] # NoContent
    /\ pc = "transfer" => plan[a].op # "remove_destination"

StepProven ==
  \A a \in 1..Len(plan) : a = cur =>
    /\ pc \in Proving =>
         /\ witnessed[plan[a].path] = kept[plan[a].path]
         /\ PlanRow(a).planned = kept[plan[a].path]
         /\ \A b \in 1..(a - 1) : Removes(b) => taken[plan[b].path] # NoContent
    /\ pc \in Removing => Replay(a).proof = kept[plan[a].path]
    /\ pc = "record_removal" => taken[plan[a].path] = kept[plan[a].path]

(* The rows with which the driver ends an action.                           *)
Endings == (SettledPhases \ {"recovery_resolved"}) \cup {"recovery_review"}

(* What is gone from the source is shown by the rows of its removal.        *)
ShownPhases == {"removal_started", "removal_completed", "recovery_review"}

TakenShown ==
  \A f \in Files : taken[f] # NoContent =>
    /\ witnessed[f] = taken[f]
    /\ method = "trash" => trash[f] = taken[f]
    /\ \E a \in RemovalsOf(f) :
         /\ PlanRow(a).planned = taken[f]
         /\ LastPhase(a) \in ShownPhases
         /\ pc \notin Outside => a < cur \/ (a = cur /\ pc \in Taking)

ReconTrue ==
  /\ pc \notin Outside => recon = "none"
  /\ pc = "record_drained" \/ recon = "drained" => taken = inventory

Position == Standing /\ SettledBehind /\ StepFits /\ StepProven /\ TakenShown /\ ReconTrue

-----------------------------------------------------------------------------
(* Steps that append one row or none, and how they move the driver.         *)

Still == UNCHANGED <<files, record, kept>>

LEMMA StillKeeps ==
  ASSUME Still
  PROVE  /\ src' = src /\ dst' = dst /\ trash' = trash /\ taken' = taken
         /\ witnessed' = witnessed /\ inventory' = inventory /\ plan' = plan
         /\ recon' = recon /\ kept' = kept
BY DEF Still, files, record

LEMMA PlanBounds ==
  ASSUME PlanFits
  PROVE  /\ Len(plan) \in Nat /\ Len(plan) <= NumActions
         /\ NumActions \in Nat /\ Actions = 1..NumActions
         /\ \A a \in 1..Len(plan) : a \in Actions /\ plan[a] \in Step
BY JournalAssumption DEF PlanFits, Actions

LEMMA LedgerGrows ==
  ASSUME Ledger, events' = events, method' = method, FilesTyped',
         plan' = plan, inventory' = inventory, RemovedInOrder',
         \A f \in Files : taken[f] # NoContent => taken'[f] = taken[f]
  PROVE  Ledger' /\ \A a \in Actions : RowsKept(a)
<1>1. JournalSound' /\ \A a \in Actions : RowsKept(a)
  BY SoundSame DEF Ledger
<1>2. PlanFits'
  BY DEF Ledger, PlanFits, Removes
<1>6. \A b \in Actions : /\ (HasPlan(b)' <=> HasPlan(b)) /\ LastPhase(b)' = LastPhase(b)
                         /\ PlanRow(b)' = PlanRow(b) /\ LastRow(b)' = LastRow(b)
                         /\ Removes(b)' = Removes(b)
  BY <1>1 DEF RowsKept, Removes
<1>7. Actions' = Actions /\ \A b \in Actions : \A c \in 1..b : c \in Actions
  BY JournalAssumption DEF Actions
<1>3. RowsFit'
  <2> SUFFICES ASSUME NEW b \in Actions, HasPlan(b)'
               PROVE  /\ b <= Len(plan)
                      /\ PlanRow(b).op = plan[b].op
                      /\ \A c \in 1..b : HasPlan(c)'
                      /\ LastPhase(b) # "recovery_resolved"
                      /\ LastPhase(b) = "completed" => ~Removes(b)
    BY <1>6, <1>7 DEF RowsFit
  <2>1. /\ b <= Len(plan)
        /\ PlanRow(b).op = plan[b].op
        /\ \A c \in 1..b : HasPlan(c)
        /\ LastPhase(b) # "recovery_resolved"
        /\ LastPhase(b) = "completed" => ~Removes(b)
    BY <1>6 DEF Ledger, RowsFit
  <2>2. \A c \in 1..b : HasPlan(c)'
    BY <1>6, <1>7, <2>1
  <2> QED
    BY <2>1, <2>2
<1>4. RemovedTaken'
  <2> SUFFICES ASSUME NEW b \in Actions, LastPhase(b) = "removal_completed"
               PROVE  /\ b <= Len(plan) /\ Removes(b)
                      /\ taken'[plan[b].path] = LastRow(b).evidence.dst
                      /\ LastRow(b).evidence.dst # NoContent
    BY <1>6, <1>7 DEF RemovedTaken
  <2>1. /\ b <= Len(plan) /\ Removes(b)
        /\ taken[plan[b].path] = LastRow(b).evidence.dst
        /\ LastRow(b).evidence.dst # NoContent
    BY DEF Ledger, RemovedTaken
  <2>2. plan[b].path \in Files
    BY <2>1, PlanBounds DEF Ledger, Step, Actions
  <2> QED
    BY <2>1, <2>2
<1> QED
  BY <1>1, <1>2, <1>3, <1>4 DEF Ledger

LEMMA LedgerFiles ==
  ASSUME Ledger, events' = events, method' = method, FilesTyped',
         plan' = plan, inventory' = inventory, taken' = taken
  PROVE  Ledger' /\ \A a \in Actions : RowsKept(a)
<1>1. RemovedInOrder'
  BY DEF Ledger, RemovedInOrder
<1> QED
  BY <1>1, LedgerGrows

LEMMA StillTyped ==
  ASSUME Ledger, Still
  PROVE  FilesTyped'
BY StillKeeps DEF Ledger, FilesTyped, Trees

LEMMA LedgerSame ==
  ASSUME Ledger, Still, events' = events, method' = method
  PROVE  Ledger' /\ \A a \in Actions : RowsKept(a)
BY LedgerFiles, StillKeeps, StillTyped

(* A row more keeps the Ledger; a row that completes a removal names what   *)
(* was taken.                                                               *)
LEMMA LedgerTold ==
  ASSUME Ledger, FilesTyped', plan' = plan, inventory' = inventory, taken' = taken,
         NEW a \in Actions, NEW e \in Row, AppendEvent(a, e), HasPlan(a),
         e.phase \notin {"planned", "recovery_resolved"},
         e.phase = "completed" => ~Removes(a),
         e.phase = "removal_completed" =>
           /\ Removes(a)
           /\ taken[plan[a].path] = e.evidence.dst
           /\ e.evidence.dst # NoContent
  PROVE  Ledger' /\ Told(a, e) /\ method' = method
<1>1. Told(a, e)
  BY RowTold DEF Ledger
<1>2. \A b \in 1..a : HasPlan(b)
  BY DEF Ledger, RowsFit
<1>3. JournalSound'
  <2>1. \A b \in 1..(a - 1) : b \in 1..a
    BY DEF Actions
  <2> QED
    BY <1>2, <2>1, SoundAppend DEF Ledger
<1>4. PlanFits' /\ RemovedInOrder'
  <2>1. PlanFits'
    BY DEF Ledger, PlanFits, Removes
  <2>2. RemovedInOrder'
    BY DEF Ledger, RemovedInOrder
  <2> QED
    BY <2>1, <2>2
<1>5. \A b \in Actions : Removes(b)' = Removes(b)
  BY DEF Removes
<1>6. \A b \in Actions : HasPlan(b)' <=> HasPlan(b)
  BY <1>1 DEF Told, RowsKept
<1>7. \A b \in Actions : \A c \in 1..b : c \in Actions
  BY JournalAssumption DEF Actions
<1>8. RowsFit'
  <2> SUFFICES ASSUME NEW b \in Actions, HasPlan(b)'
               PROVE  /\ b <= Len(plan)
                      /\ PlanRow(b)'.op = plan[b].op
                      /\ \A c \in 1..b : HasPlan(c)'
                      /\ LastPhase(b)' # "recovery_resolved"
                      /\ LastPhase(b)' = "completed" => ~Removes(b)
    BY <1>5 DEF RowsFit, Actions
  <2>1. HasPlan(b)
    BY <1>6
  <2>2. /\ b <= Len(plan)
        /\ PlanRow(b).op = plan[b].op
        /\ \A c \in 1..b : HasPlan(c)
        /\ LastPhase(b) # "recovery_resolved"
        /\ LastPhase(b) = "completed" => ~Removes(b)
    BY <2>1 DEF Ledger, RowsFit
  <2>3. \A c \in 1..b : HasPlan(c)'
    BY <1>6, <1>7, <2>2
  <2>4. CASE b = a
    BY <1>1, <2>2, <2>3, <2>4 DEF Told
  <2>5. CASE b # a
    BY <1>1, <2>2, <2>3, <2>5 DEF Told, RowsKept
  <2> QED
    BY <2>4, <2>5
<1>9. RemovedTaken'
  <2> SUFFICES ASSUME NEW b \in Actions, LastPhase(b)' = "removal_completed"
               PROVE  /\ b <= Len(plan) /\ Removes(b)
                      /\ taken[plan[b].path] = LastRow(b)'.evidence.dst
                      /\ LastRow(b)'.evidence.dst # NoContent
    BY <1>5 DEF RemovedTaken, Actions
  <2>1. CASE b = a
    <3>1. LastRow(b)' = e /\ e.phase = "removal_completed" /\ b <= Len(plan)
      BY <1>1, <2>1 DEF Told, Ledger, RowsFit
    <3> QED
      BY <2>1, <3>1
  <2>2. CASE b # a
    BY <1>1, <2>2 DEF Told, RowsKept, Ledger, RemovedTaken
  <2> QED
    BY <2>1, <2>2
<1>10. method' = method
  BY DEF AppendEvent
<1> QED
  BY <1>1, <1>3, <1>4, <1>8, <1>9, <1>10 DEF Ledger

LEMMA ShownStays ==
  ASSUME PlanFits, TakenShown,
         plan' = plan, taken' = taken, method' = method,
         \A f \in Files : taken[f] # NoContent =>
           witnessed'[f] = witnessed[f] /\ trash'[f] = trash[f],
         \A a \in Actions : HasPlan(a) => PlanRow(a)' = PlanRow(a),
         \A a \in Actions : pc \in Outside \cup Taking \/ a < cur =>
           (LastPhase(a) \in ShownPhases => LastPhase(a)' \in ShownPhases),
         pc' \notin Outside =>
           /\ pc \notin Outside
           /\ \A a \in Actions : a < cur => a < cur'
           /\ pc \in Taking => cur < cur' \/ (cur' = cur /\ pc' \in Taking)
  PROVE  TakenShown'
<1> SUFFICES ASSUME NEW f \in Files, taken[f] # NoContent
             PROVE  /\ witnessed'[f] = taken[f]
                    /\ method = "trash" => trash'[f] = taken[f]
                    /\ \E a \in RemovalsOf(f) :
                         /\ PlanRow(a)'.planned = taken[f]
                         /\ LastPhase(a)' \in ShownPhases
                         /\ pc' \notin Outside => a < cur' \/ (a = cur' /\ pc' \in Taking)
  <2>1. \A f \in Files : RemovalsOf(f)' = RemovalsOf(f)
    BY DEF RemovalsOf
  <2> QED
    BY <2>1 DEF TakenShown
<1>1. witnessed[f] = taken[f] /\ (method = "trash" => trash[f] = taken[f])
  BY DEF TakenShown
<1>2. PICK a \in RemovalsOf(f) :
        /\ PlanRow(a).planned = taken[f]
        /\ LastPhase(a) \in ShownPhases
        /\ pc \notin Outside => a < cur \/ (a = cur /\ pc \in Taking)
  BY DEF TakenShown
<1>3. a \in Actions
  BY PlanBounds DEF RemovalsOf
<1>4. HasPlan(a)
  BY <1>2 DEF LastPhase, ShownPhases
<1>5. PlanRow(a)' = PlanRow(a) /\ LastPhase(a)' \in ShownPhases
  BY <1>2, <1>3, <1>4
<1>6. pc' \notin Outside => a < cur' \/ (a = cur' /\ pc' \in Taking)
  BY <1>2, <1>3
<1> QED
  BY <1>1, <1>2, <1>5, <1>6

LEMMA ReconStays ==
  ASSUME ReconTrue, recon' = recon, taken' = taken, inventory' = inventory,
         pc' \notin Outside => pc \notin Outside,
         pc' = "record_drained" => taken = inventory
  PROVE  ReconTrue'
BY DEF ReconTrue

(* Where the driver stands. *)
LEMMA StepNames ==
  /\ Working \subseteq Looping /\ Looping \subseteq RunSteps
  /\ Proving \subseteq Working /\ Taking \subseteq Removing /\ Removing \subseteq Proving
  /\ \A p \in Working : At(p) \subseteq WorkingPhases
  /\ \A p \in Working : p \notin Reconciling \cup Outside \cup {"next", "cancel_remaining", "begun", "persist"}
  /\ \A p \in Looping : p \notin Outside \cup {"begun", "persist"}
  /\ \A p \in Reconciling : p \notin {"next", "cancel_remaining"}
<1>1. \A p \in Working : At(p) \subseteq WorkingPhases
  BY DEF Working, At, WorkingPhases
<1> QED
  BY <1>1 DEF Working, Looping, RunSteps, Proving, Removing, Taking, Reconciling, Outside

LEMMA PhaseNames ==
  /\ WorkingPhases \subseteq Phases /\ SettledPhases \subseteq Phases
  /\ \A p \in WorkingPhases : p \notin {"planned", "recovery_resolved", "completed", "removal_completed"}
  /\ \A p \in SettledPhases \cup {"recovery_review"} : p \notin OpenPhases /\ p # "planned"
  /\ OpenPhases \cap ShownPhases = {}
BY DEF WorkingPhases, SettledPhases, Phases, OpenPhases, ShownPhases

(* While one action is worked on, every earlier one is settled.             *)
LEMMA EarlierSettled ==
  ASSUME Ledger, NEW a \in 1..Len(plan), LastPhase(a) \in WorkingPhases
  PROVE  \A b \in 1..(a - 1) : LastPhase(b) \in SettledPhases
<1>1. a \in Actions
  BY PlanBounds DEF Ledger
<1>2. ~Untouched(a)
  <2>1. HasPlan(a)
    BY DEF LastPhase, WorkingPhases
  <2>2. Len(events[a]) \in 1..Len(events[a])
    BY <1>1, <2>1 DEF Ledger, JournalSound, TypeOK, HasPlan
  <2>3. events[a][Len(events[a])].phase \in WorkingPhases
    BY <2>1 DEF LastPhase, LastRow
  <2>4. \A p \in WorkingPhases : p \notin ExemptFromOrder
    BY DEF ExemptFromOrder, WorkingPhases
  <2>5. PICK i \in 1..Len(events[a]) : i = Len(events[a])
    BY <2>2
  <2>6. events[a][i].phase \notin ExemptFromOrder
    BY <2>3, <2>4, <2>5
  <2> QED
    BY <2>6 DEF Untouched
<1>3. \A b \in 1..(a - 1) : b \in Actions /\ b < a
  BY <1>1, JournalAssumption DEF Actions
<1> QED
  BY <1>1, <1>2, <1>3 DEF Ledger, JournalSound, FrontierInOrder

(* A removal that is not yet begun has taken nothing.                       *)
LEMMA NotYetTaken ==
  ASSUME PlanFits, TakenShown, NEW a \in 1..Len(plan), Removes(a),
         pc \notin Outside, a >= cur, cur \in Nat, a = cur => pc \notin Taking
  PROVE  taken[plan[a].path] = NoContent
<1> SUFFICES ASSUME taken[plan[a].path] # NoContent PROVE FALSE
  OBVIOUS
<1>1. plan[a].path \in Files /\ Len(plan) \in Nat
  BY PlanBounds DEF Step
<1>2. PICK b \in RemovalsOf(plan[a].path) : b < cur \/ (b = cur /\ pc \in Taking)
  BY <1>1 DEF TakenShown
<1>3. b \in 1..Len(plan) /\ Removes(b) /\ plan[b].path = plan[a].path
  BY <1>2 DEF RemovalsOf, Removes
<1>4. b = a
  BY <1>3 DEF PlanFits
<1> QED
  BY <1>1, <1>2, <1>4

(* The driver leaves the loop: nothing is left to say but what is shown.    *)
LEMMA GoesOut ==
  ASSUME Ledger, Position, method' = method, pc' \in Outside, cur' \in Nat \ {0},
         plan' = plan, inventory' = inventory, taken' = taken, witnessed' = witnessed,
         trash' = trash, recon' = recon \/ ReconTrue',
         \A a \in Actions : HasPlan(a) => PlanRow(a)' = PlanRow(a),
         \A a \in Actions : LastPhase(a) \in ShownPhases => LastPhase(a)' \in ShownPhases
  PROVE  Position'
<1>1. /\ pc' \in RunSteps
      /\ pc' \notin Looping \cup {"begun", "persist", "next", "settle", "verified", "complete", "transfer"}
      /\ pc' \notin Proving /\ pc' \notin Removing /\ pc' # "record_removal" /\ pc' # "record_drained"
  BY DEF RunSteps, Looping, Working, Reconciling, Outside, Proving, Removing
<1>2. Standing'
  BY <1>1 DEF Standing
<1>3. SettledBehind'
  BY <1>1 DEF SettledBehind
<1>4. StepFits'
  BY <1>1 DEF StepFits
<1>5. StepProven'
  BY <1>1 DEF StepProven
<1>6. TakenShown'
  BY ShownStays DEF Ledger, Position
<1>7. ReconTrue'
  BY <1>1, ReconStays DEF Position
<1> QED
  BY <1>2, <1>3, <1>4, <1>5, <1>6, <1>7 DEF Position

(* An action is worked on: a row that says so is written.                   *)
LEMMA WorksOn ==
  ASSUME Ledger, Position, FilesTyped', plan' = plan, inventory' = inventory, taken' = taken,
         recon' = recon, NEW a \in 1..Len(plan), a = cur, NEW e \in Row,
         AppendEvent(a, e), Told(a, e) => TakenShown', pc \in (Working \ Taking) \cup {"next"},
         pc' \in Working, cur' = cur, e.phase \in At(pc'), StepFits', StepProven'
  PROVE  Ledger' /\ Position'
<1>1. e.phase \in WorkingPhases /\ pc \in Looping
  BY StepNames DEF Looping
<1>2. a \in Actions /\ Len(plan) \in Nat /\ HasPlan(a)
  BY <1>1, PlanBounds DEF Ledger, Position, Standing
<1>3. Ledger' /\ Told(a, e) /\ method' = method
  BY <1>1, <1>2, LedgerTold, PhaseNames
<1>6. pc' \in Looping /\ pc' \in RunSteps /\ pc' \notin Reconciling \cup Outside
        /\ pc' \notin {"begun", "persist", "next", "record_drained"} /\ pc \notin Outside
        /\ pc \notin Taking
  BY <1>1, StepNames DEF Reconciling, Taking, Outside
<1>7. Standing'
  <2>1. \A b \in 1..Len(plan) :
          /\ HasPlan(b)
          /\ b < cur => LastPhase(b) \notin OpenPhases
          /\ b > cur => LastPhase(b) = "planned"
    BY <1>1 DEF Position, Standing
  <2>2. ASSUME NEW b \in 1..Len(plan)
        PROVE  /\ HasPlan(b)'
               /\ b < cur => LastPhase(b)' \notin OpenPhases
               /\ b = cur => LastPhase(b)' \in At(pc')
               /\ b > cur => LastPhase(b)' = "planned"
    <3>1. CASE b = a
      BY <1>3, <3>1 DEF Told
    <3>2. CASE b # a
      BY <1>3, <2>1, <3>2, PlanBounds DEF Told, RowsKept, Ledger
    <3> QED
      BY <3>1, <3>2
  <2>3. cur' \in Nat \ {0} /\ cur' <= Len(plan) /\ cur' <= Len(plan) + 1
    BY <1>2
  <2> QED
    BY <1>6, <2>2, <2>3 DEF Standing
<1>8. SettledBehind'
  BY <1>6 DEF SettledBehind
<1>9. ReconTrue'
  BY <1>6, ReconStays DEF Position
<1> QED
  BY <1>3, <1>7, <1>8, <1>9 DEF Position

LEMMA Works ==
  ASSUME Ledger, Position, Still, NEW a \in 1..Len(plan), a = cur, NEW e \in Row,
         AppendEvent(a, e), pc \in (Working \ Taking) \cup {"next"},
         pc' \in Working, cur' = cur, e.phase \in At(pc'), StepFits', StepProven'
  PROVE  Ledger' /\ Position'
<1>1. pc \notin Outside \cup Taking /\ pc \in Looping
  BY StepNames DEF Looping, Outside, Taking
<1>2. a \in Actions /\ HasPlan(a)
  BY <1>1, PlanBounds DEF Ledger, Position, Standing
<1>3. ASSUME Told(a, e)
      PROVE  TakenShown'
  <2>1. \A b \in Actions : HasPlan(b) => PlanRow(b)' = PlanRow(b)
    BY <1>2, <1>3 DEF Told, RowsKept
  <2>2. \A b \in Actions : b < cur => LastPhase(b)' = LastPhase(b)
    BY <1>2, <1>3 DEF Told, RowsKept, Actions
  <2>3. method' = method
    BY DEF AppendEvent
  <2> QED
    BY <1>1, <2>1, <2>2, <2>3, StillKeeps, ShownStays DEF Ledger, Position
<1> QED
  BY <1>3, StillKeeps, StillTyped, WorksOn

(* No row is written and the same action is gone on with.                   *)
LEMMA Falls ==
  ASSUME Ledger, Position, NEW a \in 1..Len(plan), a = cur, PlanFits',
         events' = events, plan' = plan, recon' = recon,
         \A b \in Actions : RowsKept(b), TakenShown',
         pc \in Working, pc' \in Working, cur' = cur, LastPhase(a) \in At(pc'),
         StepFits', StepProven'
  PROVE  Position'
<1>1. Len(plan) \in Nat
  BY PlanBounds DEF Ledger
<1>2. pc \in Looping /\ pc' \in Looping /\ pc' \in RunSteps /\ pc' \notin Reconciling \cup Outside
        /\ pc' \notin {"begun", "persist", "next", "record_drained"} /\ pc \notin Outside
  BY StepNames DEF Reconciling, Outside
<1>3. Standing'
  <2>1. \A b \in 1..Len(plan) :
          /\ HasPlan(b)
          /\ b < cur => LastPhase(b) \notin OpenPhases
          /\ b > cur => LastPhase(b) = "planned"
    BY <1>2 DEF Position, Standing
  <2>2. \A b \in 1..Len(plan) : (HasPlan(b)' <=> HasPlan(b)) /\ LastPhase(b)' = LastPhase(b)
    BY PlanBounds DEF Ledger, RowsKept
  <2>3. cur' \in Nat \ {0} /\ cur' <= Len(plan) /\ cur' <= Len(plan) + 1
    BY <1>1
  <2> QED
    BY <1>2, <2>1, <2>2, <2>3 DEF Standing
<1>4. SettledBehind'
  BY <1>2 DEF SettledBehind
<1>5. ReconTrue'
  BY <1>2 DEF Position, ReconTrue
<1> QED
  BY <1>3, <1>4, <1>5 DEF Position

(* The next action is turned to.                                            *)
LEMMA Passes ==
  ASSUME Ledger, Position, NEW a \in 1..Len(plan), a = cur, Still, method' = method,
         \A b \in Actions : b # a => RowsKept(b),
         HasPlan(a)', PlanRow(a)' = PlanRow(a), LastPhase(a)' \notin OpenPhases,
         pc \in Taking => LastPhase(a)' \in ShownPhases,
         pc \in Looping, pc' \in {"next", "cancel_remaining"}, cur' = cur + 1, SettledBehind'
  PROVE  Position'
<1>1. Len(plan) \in Nat /\ a \in Actions
  BY PlanBounds DEF Ledger
<1>2. /\ pc' \in Looping /\ pc' \in RunSteps
      /\ pc' \notin Working \cup Reconciling \cup Outside \cup Proving \cup Removing \cup Taking
      /\ pc' \notin {"begun", "persist", "record_drained", "settle", "verified", "complete",
                     "transfer", "record_removal"}
      /\ pc \notin Outside /\ At(pc') = {"planned"}
  BY StepNames DEF Looping, RunSteps, Working, Reconciling, Outside, Proving, Removing, Taking, At
<1>3. Standing'
  <2>1. \A b \in 1..Len(plan) :
          /\ HasPlan(b)
          /\ b < cur => LastPhase(b) \notin OpenPhases
          /\ b > cur => LastPhase(b) = "planned"
    BY DEF Position, Standing
  <2>2. \A b \in 1..Len(plan) : b # a =>
          (HasPlan(b)' <=> HasPlan(b)) /\ LastPhase(b)' = LastPhase(b)
    BY PlanBounds DEF Ledger, RowsKept
  <2>3. ASSUME NEW b \in 1..Len(plan)
        PROVE  /\ HasPlan(b)'
               /\ b < cur + 1 => LastPhase(b)' \notin OpenPhases
               /\ b = cur + 1 => LastPhase(b)' = "planned"
               /\ b > cur + 1 => LastPhase(b)' = "planned"
    <3>1. CASE b = a
      BY <1>1, <3>1
    <3>2. CASE b < a
      BY <1>1, <2>1, <2>2, <3>2
    <3>3. CASE b > a
      BY <1>1, <2>1, <2>2, <3>3
    <3> QED
      BY <1>1, <3>1, <3>2, <3>3
  <2>4. cur' \in Nat \ {0} /\ cur' <= Len(plan) + 1
    BY <1>1
  <2>5. plan' = plan
    BY StillKeeps
  <2> QED
    BY <1>2, <2>3, <2>4, <2>5 DEF Standing
<1>4. StepFits'
  BY <1>2 DEF StepFits
<1>5. StepProven'
  BY <1>2 DEF StepProven
<1>6. TakenShown'
  <2>1. \A b \in Actions :
          /\ HasPlan(b) => PlanRow(b)' = PlanRow(b)
          /\ pc \in Outside \cup Taking \/ b < cur =>
               (LastPhase(b) \in ShownPhases => LastPhase(b)' \in ShownPhases)
    BY <1>1, <1>2 DEF RowsKept, Actions
  <2>2. (\A b \in Actions : b < cur => b < cur') /\ cur < cur'
    BY <1>1 DEF Actions
  <2> QED
    BY <1>2, <2>1, <2>2, StillKeeps, ShownStays DEF Ledger, Position
<1>7. ReconTrue'
  BY <1>2, StillKeeps, ReconStays DEF Position
<1> QED
  BY <1>3, <1>4, <1>5, <1>6, <1>7 DEF Position

LEMMA Settles ==
  ASSUME Ledger, Position, Still, NEW a \in 1..Len(plan), a = cur, NEW e \in Row,
         AppendEvent(a, e), e.phase \in Endings,
         e.phase = "completed" => ~Removes(a),
         e.phase = "removal_completed" =>
           /\ Removes(a)
           /\ taken[plan[a].path] = e.evidence.dst
           /\ e.evidence.dst # NoContent,
         pc \in Taking => e.phase \in ShownPhases,
         pc \in Working \cup {"cancel_remaining"}, pc' \in {"next", "cancel_remaining"},
         pc' = "next" => pc \in Working /\ e.phase \in SettledPhases,
         cur' = cur + 1
  PROVE  Ledger' /\ Position'
<1>1. a \in Actions /\ Len(plan) \in Nat /\ a \in Nat
  BY PlanBounds DEF Ledger
<1>2. pc \in Looping
  BY StepNames DEF Looping
<1>3. HasPlan(a) /\ LastPhase(a) \in At(pc)
  BY <1>2 DEF Position, Standing
<1>4. Ledger' /\ Told(a, e) /\ method' = method
  <2>1. e.phase \notin {"planned", "recovery_resolved"}
    BY PhaseNames DEF Endings
  <2> QED
    BY <1>1, <1>3, <2>1, StillKeeps, StillTyped, LedgerTold
<1>5. /\ \A b \in Actions : b # a => RowsKept(b)
      /\ HasPlan(a)' /\ PlanRow(a)' = PlanRow(a) /\ LastPhase(a)' = e.phase
  BY <1>3, <1>4 DEF Told
<1>6. SettledBehind'
  <2> SUFFICES ASSUME pc' = "next", NEW b \in 1..(cur' - 1) PROVE LastPhase(b)' \in SettledPhases
    BY DEF SettledBehind
  <2>1. CASE b = a
    BY <1>5, <2>1
  <2>2. CASE b # a
    <3>1. b \in 1..(a - 1) /\ b \in Actions
      BY <1>1, <2>2, PlanBounds DEF Ledger
    <3>2. LastPhase(a) \in WorkingPhases
      BY <1>3, StepNames
    <3> QED
      BY <1>5, <2>2, <3>1, <3>2, EarlierSettled DEF RowsKept
  <2> QED
    BY <2>1, <2>2
<1>7. Position'
  <2>1. e.phase \notin OpenPhases
    BY PhaseNames DEF Endings
  <2> QED
    BY <1>2, <1>4, <1>5, <1>6, <2>1, Passes
<1> QED
  BY <1>4, <1>7

LEMMA Skips ==
  ASSUME Ledger, Position, Still, NEW a \in 1..Len(plan), a = cur,
         events' = events, method' = method, broken' = TRUE,
         LastPhase(a) \notin OpenPhases, pc \in Working, pc \in Taking => LastPhase(a) \in ShownPhases,
         pc' = "next", cur' = cur + 1
  PROVE  Ledger' /\ Position'
<1>1. a \in Actions /\ pc \in Looping
  BY PlanBounds, StepNames DEF Ledger
<1>2. Ledger' /\ \A b \in Actions : RowsKept(b)
  BY LedgerSame
<1>3. HasPlan(a)
  BY <1>1 DEF Position, Standing
<1>4. HasPlan(a)' /\ PlanRow(a)' = PlanRow(a) /\ LastPhase(a)' = LastPhase(a)
  BY <1>1, <1>2, <1>3 DEF RowsKept
<1>5. SettledBehind'
  BY DEF SettledBehind
<1>6. Position'
  BY <1>1, <1>2, <1>4, <1>5, Passes
<1> QED
  BY <1>2, <1>6

LEMMA FallsStill ==
  ASSUME Ledger, Position, Still, NEW a \in 1..Len(plan), a = cur,
         events' = events, method' = method,
         pc \in Working, pc' \in Working, cur' = cur, LastPhase(a) \in At(pc'),
         pc \in Taking => pc' \in Taking, StepFits', StepProven'
  PROVE  Ledger' /\ Position'
<1>1. Ledger' /\ \A b \in Actions : RowsKept(b)
  BY LedgerSame
<1>2. \A b \in Actions : HasPlan(b) => PlanRow(b)' = PlanRow(b)
  BY <1>1 DEF RowsKept
<1>3. \A b \in Actions : LastPhase(b)' = LastPhase(b)
  BY <1>1 DEF RowsKept
<1>4. pc \notin Outside
  BY StepNames
<1>5. TakenShown'
  BY <1>2, <1>3, <1>4, StillKeeps, ShownStays DEF Ledger, Position
<1>6. Position'
  BY <1>1, <1>5, StillKeeps, Falls DEF Ledger
<1> QED
  BY <1>1, <1>6

LEMMA AbortsStill ==
  ASSUME Ledger, Position, Still, events' = events, method' = method,
         pc' \in Outside, cur' \in Nat \ {0}
  PROVE  Ledger' /\ Position'
<1>1. Ledger' /\ \A b \in Actions : RowsKept(b)
  BY LedgerSame
<1>2. \A b \in Actions : /\ HasPlan(b) => PlanRow(b)' = PlanRow(b)
                         /\ LastPhase(b) \in ShownPhases => LastPhase(b)' \in ShownPhases
  BY <1>1 DEF RowsKept
<1> QED
  BY <1>1, <1>2, StillKeeps, GoesOut

-----------------------------------------------------------------------------
(* The steps of the loop. *)

LEMMA RowAppended ==
  ASSUME NEW a, a = cur, NEW e, Writes(cur, e)
  PROVE  AppendEvent(a, e)
BY DEF Writes

LEMMA RowLost ==
  ASSUME NEW a, NEW e, WriteFails(a, e)
  PROVE  events' = events /\ method' = method /\ broken' = TRUE
BY DEF WriteFails

LEMMA CurrentAction ==
  ASSUME Ledger, Position, pc \in Looping, pc \notin Reconciling, cur <= Len(plan)
  PROVE  /\ cur \in 1..Len(plan) /\ cur \in Actions
         /\ \A a \in 1..Len(plan) : a = cur => HasPlan(a) /\ LastPhase(a) \in At(pc)
<1>1. cur \in Nat \ {0}
  BY DEF Position, Standing
<1>2. cur \in 1..Len(plan)
  BY <1>1, PlanBounds DEF Ledger
<1> QED
  BY <1>2, PlanBounds DEF Ledger, Position, Standing

LEMMA WorkingAction ==
  ASSUME Ledger, Position, pc \in Working
  PROVE  /\ cur \in 1..Len(plan) /\ cur \in Actions
         /\ \A a \in 1..Len(plan) : a = cur => HasPlan(a) /\ LastPhase(a) \in At(pc)
BY StepNames, CurrentAction DEF Position, Standing

(* Steps that lead to none of the steps of a removal need no proof of it.   *)
LEMMA NoProof ==
  ASSUME pc' \notin Proving
  PROVE  StepProven'
BY DEF StepProven, Proving, Removing

LEMMA NoFit ==
  ASSUME pc' \notin Proving \cup {"settle", "verified", "complete", "transfer"}
  PROVE  StepFits'
BY DEF StepFits

LEMMA BeginActionKeeps ==
  ASSUME Ledger, Position, BeginAction
  PROVE  Ledger' /\ Position'
<1>1. pc = "next" /\ cur <= Len(plan)
  BY DEF BeginAction
<1>2. PICK a \in 1..Len(plan) : a = cur
  BY <1>1, CurrentAction DEF Looping, Reconciling
<1>3. Still
  BY DEF BeginAction, Records, Still
<1>4. Event("started") \in Row /\ Event("started").phase = "started"
  BY EventRow DEF Phases
<1>5. CASE Writes(cur, Event("started")) /\ Goto("started")
  <2>1. pc' = "started" /\ cur' = cur
    BY <1>5 DEF Goto
  <2>2. pc' \in Working /\ At(pc') = {"started"} /\ pc' \notin Proving /\ StepFits' /\ StepProven'
    BY <2>1, NoProof, NoFit DEF Working, At, Proving, Removing
  <2> QED
    BY <1>1, <1>2, <1>3, <1>4, <1>5, <2>1, <2>2, RowAppended, Works
<1>6. CASE WriteFails(cur, Event("started")) /\ Abort
  <2>1. pc' = "idle" /\ cur' = cur /\ cur \in Nat \ {0}
    BY <1>6 DEF Abort, Goto, Position, Standing
  <2> QED
    BY <1>3, <1>6, <2>1, RowLost, AbortsStill DEF Outside
<1> QED
  BY <1>5, <1>6 DEF BeginAction, Records

LEMMA DeferKeeps ==
  ASSUME Ledger, Position, Defer
  PROVE  Ledger' /\ Position'
<1>1. pc = "defer" /\ pc \in Working
  BY DEF Defer, Working
<1>2. PICK a \in 1..Len(plan) : a = cur
  BY <1>1, WorkingAction
<1>3. Still
  BY DEF Defer, Records, Still
<1>4. Event("deferred") \in Row /\ Event("deferred").phase = "deferred"
  BY EventRow DEF Phases
<1>5. HasPlan(a) /\ LastPhase(a) \in At(pc) /\ cur \in Nat \ {0}
  BY <1>1, <1>2, WorkingAction DEF Position, Standing
<1>6. CASE Writes(cur, Event("deferred")) /\ NextAction("next")
  <2>1. pc' = "next" /\ cur' = cur + 1
    BY <1>6 DEF NextAction
  <2>2. "deferred" \in Endings /\ "deferred" \in SettledPhases
    BY DEF Endings, SettledPhases
  <2> QED
    BY <1>1, <1>2, <1>3, <1>4, <1>6, <2>1, <2>2, RowAppended, Settles DEF Taking
<1>7. CASE WriteFails(cur, Event("deferred")) /\ Abort
  <2>1. pc' = "idle" /\ cur' = cur
    BY <1>7 DEF Abort, Goto
  <2> QED
    BY <1>3, <1>5, <1>7, <2>1, RowLost, AbortsStill DEF Outside
<1> QED
  BY <1>6, <1>7 DEF Defer, Records

LEMMA FailActionKeeps ==
  ASSUME Ledger, Position, FailAction
  PROVE  Ledger' /\ Position'
<1>1. pc = "fail_action" /\ pc \in Working
  BY DEF FailAction, Working
<1>2. PICK a \in 1..Len(plan) : a = cur
  BY <1>1, WorkingAction
<1>3. Still
  BY DEF FailAction, Records, Still
<1>4. Event("failed") \in Row /\ Event("failed").phase = "failed"
  BY EventRow DEF Phases
<1>5. HasPlan(a) /\ LastPhase(a) \in At(pc) /\ cur \in Nat \ {0}
  BY <1>1, <1>2, WorkingAction DEF Position, Standing
<1>6. CASE Writes(cur, Event("failed")) /\ NextAction("next")
  <2>1. pc' = "next" /\ cur' = cur + 1
    BY <1>6 DEF NextAction
  <2>2. "failed" \in Endings /\ "failed" \in SettledPhases
    BY DEF Endings, SettledPhases
  <2> QED
    BY <1>1, <1>2, <1>3, <1>4, <1>6, <2>1, <2>2, RowAppended, Settles DEF Taking
<1>7. CASE WriteFails(cur, Event("failed")) /\ Abort
  <2>1. pc' = "idle" /\ cur' = cur
    BY <1>7 DEF Abort, Goto
  <2> QED
    BY <1>3, <1>5, <1>7, <2>1, RowLost, AbortsStill DEF Outside
<1> QED
  BY <1>6, <1>7 DEF FailAction, Records

LEMMA ReviewActionKeeps ==
  ASSUME Ledger, Position, ReviewAction
  PROVE  Ledger' /\ Position'
<1>1. pc = "review_action" /\ pc \in Working
  BY DEF ReviewAction, Working
<1>2. PICK a \in 1..Len(plan) : a = cur
  BY <1>1, WorkingAction
<1>3. Still
  BY DEF ReviewAction, Records, Still
<1>4. RecoveryReview(0) \in Row /\ RecoveryReview(0).phase = "recovery_review"
  BY ReviewRow
<1>5. HasPlan(a) /\ LastPhase(a) \in At(pc) /\ cur \in Nat \ {0}
  BY <1>1, <1>2, WorkingAction DEF Position, Standing
<1>6. CASE Writes(cur, RecoveryReview(0)) /\ NextAction("cancel_remaining")
  <2>1. pc' = "cancel_remaining" /\ cur' = cur + 1
    BY <1>6 DEF NextAction
  <2>2. "recovery_review" \in Endings
    BY DEF Endings, SettledPhases
  <2> QED
    BY <1>1, <1>2, <1>3, <1>4, <1>6, <2>1, <2>2, RowAppended, Settles DEF Taking
<1>7. CASE WriteFails(cur, RecoveryReview(0)) /\ Abort
  <2>1. pc' = "idle" /\ cur' = cur
    BY <1>7 DEF Abort, Goto
  <2> QED
    BY <1>3, <1>5, <1>7, <2>1, RowLost, AbortsStill DEF Outside
<1> QED
  BY <1>6, <1>7 DEF ReviewAction, Records

LEMMA CancelActionKeeps ==
  ASSUME Ledger, Position, CancelAction
  PROVE  Ledger' /\ Position'
<1>1. pc = "cancel_action" /\ pc \in Working
  BY DEF CancelAction, Working
<1>2. PICK a \in 1..Len(plan) : a = cur
  BY <1>1, WorkingAction
<1>3. Still
  BY DEF CancelAction, Records, Still
<1>4. Event("cancelled") \in Row /\ Event("cancelled").phase = "cancelled"
  BY EventRow DEF Phases
<1>5. HasPlan(a) /\ LastPhase(a) \in At(pc) /\ cur \in Nat \ {0}
  BY <1>1, <1>2, WorkingAction DEF Position, Standing
<1>6. CASE Writes(cur, Event("cancelled")) /\ NextAction("cancel_remaining")
  <2>1. pc' = "cancel_remaining" /\ cur' = cur + 1
    BY <1>6 DEF NextAction
  <2>2. "cancelled" \in Endings
    BY DEF Endings, SettledPhases
  <2> QED
    BY <1>1, <1>2, <1>3, <1>4, <1>6, <2>1, <2>2, RowAppended, Settles DEF Taking
<1>7. CASE WriteFails(cur, Event("cancelled")) /\ Abort
  <2>1. pc' = "idle" /\ cur' = cur
    BY <1>7 DEF Abort, Goto
  <2> QED
    BY <1>3, <1>5, <1>7, <2>1, RowLost, AbortsStill DEF Outside
<1> QED
  BY <1>6, <1>7 DEF CancelAction, Records

LEMMA RecordUnresolvedKeeps ==
  ASSUME Ledger, Position, RecordUnresolved
  PROVE  Ledger' /\ Position'
<1>1. pc = "unresolved" /\ pc \in Working
  BY DEF RecordUnresolved, Working
<1>2. PICK a \in 1..Len(plan) : a = cur
  BY <1>1, WorkingAction
<1>3. Still
  BY DEF RecordUnresolved, Records, Still
<1>4. Event("unresolved") \in Row /\ Event("unresolved").phase = "unresolved"
  BY EventRow DEF Phases
<1>5. HasPlan(a) /\ LastPhase(a) \in At(pc) /\ cur \in Nat \ {0}
  BY <1>1, <1>2, WorkingAction DEF Position, Standing
<1>6. CASE Writes(cur, Event("unresolved")) /\ NextAction("next")
  <2>1. pc' = "next" /\ cur' = cur + 1
    BY <1>6 DEF NextAction
  <2>2. "unresolved" \in Endings /\ "unresolved" \in SettledPhases
    BY DEF Endings, SettledPhases
  <2> QED
    BY <1>1, <1>2, <1>3, <1>4, <1>6, <2>1, <2>2, RowAppended, Settles DEF Taking
<1>7. CASE WriteFails(cur, Event("unresolved")) /\ Abort
  <2>1. pc' = "idle" /\ cur' = cur
    BY <1>7 DEF Abort, Goto
  <2> QED
    BY <1>3, <1>5, <1>7, <2>1, RowLost, AbortsStill DEF Outside
<1> QED
  BY <1>6, <1>7 DEF RecordUnresolved, Records

LEMMA FailUnresolvedKeeps ==
  ASSUME Ledger, Position, FailUnresolved
  PROVE  Ledger' /\ Position'
<1>1. pc = "fail_unresolved" /\ pc \in Working
  BY DEF FailUnresolved, Working
<1>2. PICK a \in 1..Len(plan) : a = cur
  BY <1>1, WorkingAction
<1>3. Still
  BY DEF FailUnresolved, Records, Still
<1>4. Event("unresolved") \in Row /\ Event("unresolved").phase = "unresolved"
  BY EventRow DEF Phases
<1>5. HasPlan(a) /\ LastPhase(a) \in At(pc) /\ cur \in Nat \ {0}
  BY <1>1, <1>2, WorkingAction DEF Position, Standing
<1>6. CASE Writes(cur, Event("unresolved")) /\ NextAction("next")
  <2>1. pc' = "next" /\ cur' = cur + 1
    BY <1>6 DEF NextAction
  <2>2. "unresolved" \in Endings /\ "unresolved" \in SettledPhases
    BY DEF Endings, SettledPhases
  <2> QED
    BY <1>1, <1>2, <1>3, <1>4, <1>6, <2>1, <2>2, RowAppended, Settles DEF Taking
<1>7. CASE WriteFails(cur, Event("unresolved")) /\ Goto("unresolved")
  <2>1. pc' = "unresolved" /\ cur' = cur
    BY <1>7 DEF Goto
  <2>2. /\ pc' \in Working /\ pc' \notin Proving \cup {"settle", "verified", "complete", "transfer"}
        /\ LastPhase(a) \in At(pc') /\ pc \notin Taking
    BY <1>1, <1>5, <2>1 DEF Working, Proving, Removing, Taking, At
  <2>3. StepFits' /\ StepProven'
    BY <2>2, NoFit, NoProof
  <2> QED
    BY <1>1, <1>2, <1>3, <1>7, <2>1, <2>2, <2>3, RowLost, FallsStill
<1> QED
  BY <1>6, <1>7 DEF FailUnresolved, Records

LEMMA RecordFailureKeeps ==
  ASSUME Ledger, Position, RecordFailure
  PROVE  Ledger' /\ Position'
<1>1. pc = "record_failure" /\ pc \in Working
  BY DEF RecordFailure, Working
<1>2. PICK a \in 1..Len(plan) : a = cur
  BY <1>1, WorkingAction
<1>3. Still
  BY DEF RecordFailure, Records, Still
<1>4. Event("unresolved") \in Row /\ Event("unresolved").phase = "unresolved"
  BY EventRow DEF Phases
<1>5. HasPlan(a) /\ LastPhase(a) \in At(pc) /\ cur \in Nat \ {0}
  BY <1>1, <1>2, WorkingAction DEF Position, Standing
<1>6. CASE Writes(cur, Event("unresolved")) /\ NextAction("next")
  <2>1. pc' = "next" /\ cur' = cur + 1
    BY <1>6 DEF NextAction
  <2>2. "unresolved" \in Endings /\ "unresolved" \in SettledPhases
    BY DEF Endings, SettledPhases
  <2> QED
    BY <1>1, <1>2, <1>3, <1>4, <1>6, <2>1, <2>2, RowAppended, Settles DEF Taking
<1>7. CASE WriteFails(cur, Event("unresolved")) /\ NextAction("next")
  <2>1. pc' = "next" /\ cur' = cur + 1
    BY <1>7 DEF NextAction
  <2>2. LastPhase(a) \notin OpenPhases /\ (pc \in Taking => LastPhase(a) \in ShownPhases)
    BY <1>1, <1>5 DEF At, OpenPhases, ShownPhases, Taking
  <2> QED
    BY <1>1, <1>2, <1>3, <1>7, <2>1, <2>2, RowLost, Skips
<1> QED
  BY <1>6, <1>7 DEF RecordFailure, Records

LEMMA RecordUncertainKeeps ==
  ASSUME Ledger, Position, RecordUncertain
  PROVE  Ledger' /\ Position'
<1>1. pc = "record_uncertain" /\ pc \in Working
  BY DEF RecordUncertain, Working
<1>2. PICK a \in 1..Len(plan) : a = cur
  BY <1>1, WorkingAction
<1>3. Still
  BY DEF RecordUncertain, Records, Still
<1>4. RecoveryReview(0) \in Row /\ RecoveryReview(0).phase = "recovery_review"
  BY ReviewRow
<1>5. HasPlan(a) /\ LastPhase(a) \in At(pc) /\ cur \in Nat \ {0}
  BY <1>1, <1>2, WorkingAction DEF Position, Standing
<1>6. CASE Writes(cur, RecoveryReview(0)) /\ NextAction("cancel_remaining")
  <2>1. pc' = "cancel_remaining" /\ cur' = cur + 1
    BY <1>6 DEF NextAction
  <2>2. "recovery_review" \in Endings
    BY DEF Endings, SettledPhases
  <2> QED
    BY <1>1, <1>2, <1>3, <1>4, <1>6, <2>1, <2>2, RowAppended, Settles DEF Taking, ShownPhases
<1>7. CASE WriteFails(cur, RecoveryReview(0)) /\ NextAction("next")
  <2>1. pc' = "next" /\ cur' = cur + 1
    BY <1>7 DEF NextAction
  <2>2. LastPhase(a) \notin OpenPhases /\ (pc \in Taking => LastPhase(a) \in ShownPhases)
    BY <1>1, <1>5 DEF At, OpenPhases, ShownPhases, Taking
  <2> QED
    BY <1>1, <1>2, <1>3, <1>7, <2>1, <2>2, RowLost, Skips
<1> QED
  BY <1>6, <1>7 DEF RecordUncertain, Records

LEMMA CompleteTransferKeeps ==
  ASSUME Ledger, Position, CompleteTransfer
  PROVE  Ledger' /\ Position'
<1>1. pc = "complete" /\ pc \in Working
  BY DEF CompleteTransfer, Working
<1>2. PICK a \in 1..Len(plan) : a = cur
  BY <1>1, WorkingAction
<1>3. Still
  BY DEF CompleteTransfer, Records, Still
<1>4. Event("completed") \in Row /\ Event("completed").phase = "completed"
  BY EventRow DEF Phases
<1>5. HasPlan(a) /\ LastPhase(a) \in At(pc) /\ cur \in Nat \ {0}
  BY <1>1, <1>2, WorkingAction DEF Position, Standing
<1>6. CASE Writes(cur, Event("completed")) /\ NextAction("next")
  <2>1. pc' = "next" /\ cur' = cur + 1
    BY <1>6 DEF NextAction
  <2>2. "completed" \in Endings /\ "completed" \in SettledPhases
    BY DEF Endings, SettledPhases
  <2>3. ~Removes(a)
    BY <1>1, <1>2 DEF Position, StepFits, Removes
  <2> QED
    BY <1>1, <1>2, <1>3, <1>4, <1>6, <2>1, <2>2, <2>3, RowAppended, Settles DEF Taking
<1>7. CASE WriteFails(cur, Event("completed")) /\ Goto("journal_failure")
  <2>1. pc' = "journal_failure" /\ cur' = cur
    BY <1>7 DEF Goto
  <2>2. /\ pc' \in Working /\ pc' \notin Proving \cup {"settle", "verified", "complete", "transfer"}
        /\ LastPhase(a) \in At(pc') /\ pc \notin Taking
    BY <1>1, <1>5, <2>1 DEF Working, Proving, Removing, Taking, At
  <2>3. StepFits' /\ StepProven'
    BY <2>2, NoFit, NoProof
  <2> QED
    BY <1>1, <1>2, <1>3, <1>7, <2>1, <2>2, <2>3, RowLost, FallsStill
<1> QED
  BY <1>6, <1>7 DEF CompleteTransfer, Records

LEMMA RecordJournalFailureKeeps ==
  ASSUME Ledger, Position, RecordJournalFailure
  PROVE  Ledger' /\ Position'
<1>1. pc = "journal_failure" /\ pc \in Working
  BY DEF RecordJournalFailure, Working
<1>2. PICK a \in 1..Len(plan) : a = cur
  BY <1>1, WorkingAction
<1>3. Still
  BY DEF RecordJournalFailure, Records, Still
<1>4. RecoveryReview(0) \in Row /\ RecoveryReview(0).phase = "recovery_review"
  BY ReviewRow
<1>5. HasPlan(a) /\ LastPhase(a) \in At(pc) /\ cur \in Nat \ {0}
  BY <1>1, <1>2, WorkingAction DEF Position, Standing
<1>6. CASE Writes(cur, RecoveryReview(0)) /\ Abort
  <2>1. pc' = "idle" /\ cur' = cur
    BY <1>6 DEF Abort, Goto
  <2>2. Ledger' /\ Told(a, RecoveryReview(0)) /\ method' = method
    BY <1>2, <1>3, <1>4, <1>5, <1>6, RowAppended, StillKeeps, StillTyped, LedgerTold, PlanBounds DEF Ledger
  <2>3. \A b \in Actions : /\ HasPlan(b) => PlanRow(b)' = PlanRow(b)
                           /\ LastPhase(b) \in ShownPhases => LastPhase(b)' \in ShownPhases
    BY <1>4, <2>2 DEF Told, RowsKept, ShownPhases
  <2> QED
    BY <1>3, <1>5, <2>1, <2>2, <2>3, StillKeeps, GoesOut DEF Outside
<1>7. CASE WriteFails(cur, RecoveryReview(0)) /\ Abort
  <2>1. pc' = "idle" /\ cur' = cur
    BY <1>7 DEF Abort, Goto
  <2> QED
    BY <1>3, <1>5, <1>7, <2>1, RowLost, AbortsStill DEF Outside
<1> QED
  BY <1>6, <1>7 DEF RecordJournalFailure, Records

LEMMA FirstProgressKeeps ==
  ASSUME Ledger, Position, FirstProgress
  PROVE  Ledger' /\ Position'
<1>1. pc = "started" /\ pc \in Working
  BY DEF FirstProgress, Working
<1>2. PICK a \in 1..Len(plan) : a = cur
  BY <1>1, WorkingAction
<1>3. Still
  BY DEF FirstProgress, Records, Still
<1>4. Event("progress") \in Row /\ Event("progress").phase = "progress"
  BY EventRow DEF Phases
<1>5. HasPlan(a) /\ LastPhase(a) \in At(pc) /\ cur \in Nat \ {0}
  BY <1>1, <1>2, WorkingAction DEF Position, Standing
<1> DEFINE next == CASE Op = "remove_destination" -> "defer"
                     [] Op = "remove_source" /\ kept[Path] # NoContent -> "settle"
                     [] OTHER -> "transfer"
<1>6. /\ next \in {"defer", "settle", "transfer"}
      /\ next = "settle" => Op = "remove_source" /\ kept[Path] # NoContent
      /\ next = "transfer" => Op # "remove_destination"
  OBVIOUS
<1>7. /\ next = "settle" => Removes(a) /\ kept[plan[a].path] # NoContent
      /\ next = "transfer" => plan[a].op # "remove_destination"
  BY <1>2, <1>6 DEF Op, Path, Removes
<1>10. \/ Writes(cur, Event("progress")) /\ Goto(next)
       \/ WriteFails(cur, Event("progress")) /\ Abort
  BY DEF FirstProgress, Records
<1> HIDE DEF next
<1>8. CASE Writes(cur, Event("progress")) /\ Goto(next)
  <2>1. pc' = next /\ cur' = cur
    BY <1>8 DEF Goto
  <2>2. pc' \in Working /\ At(pc') = {"progress"} /\ pc' \notin Proving
    BY <1>6, <2>1 DEF Working, At, Proving, Removing
  <2>3. StepFits'
    <3>1. pc' \notin {"verified", "complete"}
      BY <1>6, <2>1
    <3> QED
      BY <1>2, <1>7, <2>1, <2>2, <3>1, StillKeeps, <1>3 DEF StepFits, Removes
  <2>4. StepProven' /\ pc \notin Taking
    BY <1>1, <2>2, NoProof DEF Taking
  <2> QED
    BY <1>1, <1>2, <1>3, <1>4, <1>8, <2>1, <2>2, <2>3, <2>4, RowAppended, Works
<1>9. CASE WriteFails(cur, Event("progress")) /\ Abort
  <2>1. pc' = "idle" /\ cur' = cur
    BY <1>9 DEF Abort, Goto
  <2> QED
    BY <1>3, <1>5, <1>9, <2>1, RowLost, AbortsStill DEF Outside
<1> QED
  BY <1>8, <1>9, <1>10

(* The evidence the driver offers.                                          *)
LEMMA ProofTyped ==
  ASSUME FilesTyped, PlanFits, NEW a \in 1..Len(plan), a = cur
  PROVE  /\ Proof \in Evidence /\ Proof.dst = kept[plan[a].path] /\ Proof.src = kept[plan[a].path]
         /\ Proof.metadata = TRUE /\ Proof.sides = "transferred"
         /\ RemovalProof \in Evidence /\ RemovalProof.dst = kept[plan[a].path]
         /\ RemovalProof.sides = IF method = "trash" THEN "trashed" ELSE "erased"
         /\ Proof.provenance = "none" /\ RemovalProof.provenance \in {"none", "whole"}
<1>1. plan[a].path \in Files
  BY PlanBounds DEF Step
<1>2. kept[plan[a].path] \in Contents \cup {NoContent} /\ Path = plan[a].path
  BY <1>1 DEF FilesTyped, Items, Path
<1> QED
  BY <1>2 DEF Proof, RemovalProof, Evidence, Sides, Provenances

LEMMA EvidenceRow ==
  ASSUME NEW ev \in Evidence, NEW m \in Methods \cup {NoMethod}
  PROVE  /\ TransferVerified(ev) \in Row /\ TransferVerified(ev).phase = "transfer_verified"
         /\ TransferVerified(ev).evidence = ev
         /\ ProofBoundary(ev, m) \in Row /\ ProofBoundary(ev, m).phase = "proof_boundary"
         /\ ProofBoundary(ev, m).evidence = ev /\ ProofBoundary(ev, m).method = m
         /\ RemovalStarted(m) \in Row /\ RemovalStarted(m).phase = "removal_started"
         /\ RemovalStarted(m).method = m
         /\ RemovalCompleted(ev, m) \in Row /\ RemovalCompleted(ev, m).phase = "removal_completed"
         /\ RemovalCompleted(ev, m).evidence = ev /\ RemovalCompleted(ev, m).method = m
<1>1. \A q \in Phases : Event(q) \in Row /\ Event(q).phase = q
  BY EventRow
<1>2. /\ "transfer_verified" \in Phases /\ "proof_boundary" \in Phases
      /\ "removal_started" \in Phases /\ "removal_completed" \in Phases
  BY DEF Phases
<1>4. /\ TransferVerified(ev) \in Row /\ TransferVerified(ev).phase = "transfer_verified"
      /\ TransferVerified(ev).evidence = ev
  BY <1>1, <1>2 DEF TransferVerified, Row
<1>5. /\ ProofBoundary(ev, m) \in Row /\ ProofBoundary(ev, m).phase = "proof_boundary"
      /\ ProofBoundary(ev, m).evidence = ev /\ ProofBoundary(ev, m).method = m
  <2>1. /\ [Event("proof_boundary") EXCEPT !.evidence = ev] \in Row
        /\ [Event("proof_boundary") EXCEPT !.evidence = ev].phase = "proof_boundary"
        /\ [Event("proof_boundary") EXCEPT !.evidence = ev].evidence = ev
    BY <1>1, <1>2 DEF Row
  <2> QED
    BY <2>1 DEF ProofBoundary, Row
<1>6. /\ RemovalStarted(m) \in Row /\ RemovalStarted(m).phase = "removal_started"
      /\ RemovalStarted(m).method = m
  BY <1>1, <1>2 DEF RemovalStarted, Row
<1>7. /\ RemovalCompleted(ev, m) \in Row /\ RemovalCompleted(ev, m).phase = "removal_completed"
      /\ RemovalCompleted(ev, m).evidence = ev /\ RemovalCompleted(ev, m).method = m
  <2>1. /\ [Event("removal_completed") EXCEPT !.evidence = ev] \in Row
        /\ [Event("removal_completed") EXCEPT !.evidence = ev].phase = "removal_completed"
        /\ [Event("removal_completed") EXCEPT !.evidence = ev].evidence = ev
    BY <1>1, <1>2 DEF Row
  <2> QED
    BY <2>1 DEF RemovalCompleted, Row
<1> QED
  BY <1>4, <1>5, <1>6, <1>7

(* The rows of a working action, with the evidence and the frozen method.   *)
LEMMA CurrentRows ==
  ASSUME Ledger, NEW a \in 1..Len(plan), a = cur
  PROVE  /\ TransferVerified(Proof) \in Row
         /\ TransferVerified(Proof).phase = "transfer_verified"
         /\ TransferVerified(Proof).evidence = Proof
         /\ ProofBoundary(Proof, method) \in Row
         /\ ProofBoundary(Proof, method).phase = "proof_boundary"
         /\ ProofBoundary(Proof, method).evidence = Proof
         /\ ProofBoundary(Proof, method).method = method
         /\ RemovalStarted(method) \in Row /\ RemovalStarted(method).phase = "removal_started"
         /\ RemovalStarted(method).method = method
         /\ RemovalCompleted(RemovalProof, method) \in Row
         /\ RemovalCompleted(RemovalProof, method).phase = "removal_completed"
         /\ RemovalCompleted(RemovalProof, method).evidence = RemovalProof
         /\ RemovalCompleted(RemovalProof, method).method = method
<1>1. method \in Methods \cup {NoMethod}
  BY DEF Ledger, JournalSound, TypeOK
<1>2. Proof \in Evidence /\ RemovalProof \in Evidence
  BY ProofTyped DEF Ledger
<1>3. PICK m \in Methods \cup {NoMethod} : m = method
  BY <1>1
<1>4. PICK p \in Evidence : p = Proof
  BY <1>2
<1>5. PICK r \in Evidence : r = RemovalProof
  BY <1>2
<1> QED
  BY <1>3, <1>4, <1>5, EvidenceRow

LEMMA RecordTransferKeeps ==
  ASSUME Ledger, Position, RecordTransfer
  PROVE  Ledger' /\ Position'
<1>1. pc = "verified" /\ pc \in Working
  BY DEF RecordTransfer, Working
<1>2. PICK a \in 1..Len(plan) : a = cur
  BY <1>1, WorkingAction
<1>3. Still
  BY DEF RecordTransfer, Records, Still
<1>4. PICK e \in Row : e = TransferVerified(Proof) /\ e.phase = "transfer_verified"
  BY <1>2, CurrentRows
<1>5. HasPlan(a) /\ LastPhase(a) \in At(pc) /\ cur \in Nat \ {0}
  BY <1>1, <1>2, WorkingAction DEF Position, Standing
<1>6. CASE Writes(cur, TransferVerified(Proof)) /\ Goto("complete")
  <2>1. pc' = "complete" /\ cur' = cur
    BY <1>6 DEF Goto
  <2>2. pc' \in Working /\ At(pc') = {"transfer_verified"} /\ pc' \notin Proving /\ pc \notin Taking
    BY <1>1, <2>1 DEF Working, At, Proving, Removing, Taking
  <2>3. StepFits'
    <3>1. plan[a].op \in {"copy", "overwrite"} /\ kept[plan[a].path] # NoContent
      BY <1>1, <1>2 DEF Position, StepFits
    <3>2. pc' \notin Proving \cup {"settle", "transfer"}
      BY <2>1, <2>2
    <3> QED
      BY <1>2, <1>3, <2>1, <3>1, <3>2, StillKeeps DEF StepFits
  <2>4. StepProven'
    BY <2>2, NoProof
  <2>5. AppendEvent(a, e)
    BY <1>2, <1>4, <1>6, RowAppended
  <2> QED
    BY <1>1, <1>2, <1>3, <1>4, <2>1, <2>2, <2>3, <2>4, <2>5, Works
<1>7. CASE WriteFails(cur, TransferVerified(Proof)) /\ Goto("journal_failure")
  <2>1. pc' = "journal_failure" /\ cur' = cur
    BY <1>7 DEF Goto
  <2>2. /\ pc' \in Working /\ pc' \notin Proving \cup {"settle", "verified", "complete", "transfer"}
        /\ LastPhase(a) \in At(pc') /\ pc \notin Taking
    BY <1>1, <1>5, <2>1 DEF Working, Proving, Removing, Taking, At
  <2>3. StepFits' /\ StepProven'
    BY <2>2, NoFit, NoProof
  <2> QED
    BY <1>1, <1>2, <1>3, <1>7, <2>1, <2>2, <2>3, RowLost, FallsStill
<1> QED
  BY <1>6, <1>7 DEF RecordTransfer, Records

(* The loop ends, gives the rest of the plan up, or is reconciled.          *)
LEMMA Turns ==
  ASSUME Ledger, Position, Still, events' = events, method' = method, cur' = cur,
         \/ pc \in {"next", "cancel_remaining"} /\ cur > Len(plan) /\ pc' = "reconcile"
         \/ pc = "next" /\ cur <= Len(plan) /\ pc' = "cancel_remaining"
         \/ pc = "reconcile" /\ pc' \in {"record_drained", "record_findings"},
         pc' = "record_drained" => taken = inventory
  PROVE  Ledger' /\ Position'
<1>1. Ledger' /\ \A b \in Actions : RowsKept(b)
  BY LedgerSame
<1>2. /\ pc \in Looping /\ pc \notin Outside /\ pc \notin Taking
      /\ pc' \in Looping /\ pc' \in RunSteps /\ pc' \notin Working \cup Outside
      /\ pc' \notin {"begun", "persist", "next"}
      /\ pc' \notin Proving \cup {"settle", "verified", "complete", "transfer"}
      /\ pc' \in Reconciling => cur > Len(plan)
      /\ cur <= Len(plan) => At(pc') = At(pc)
  <2>1. cur \in Nat /\ Len(plan) \in Nat
    BY PlanBounds DEF Position, Standing, Ledger
  <2>2. CASE pc \in {"next", "cancel_remaining"} /\ cur > Len(plan) /\ pc' = "reconcile"
    <3>1. ~(cur <= Len(plan))
      BY <2>1, <2>2
    <3> QED
      BY <2>2, <3>1 DEF Looping, RunSteps, Working, Reconciling, Outside, Taking, Proving, Removing
  <2>3. CASE pc = "next" /\ cur <= Len(plan) /\ pc' = "cancel_remaining"
    <3>1. At(pc') = At(pc)
      BY <2>3 DEF At
    <3> QED
      BY <2>3, <3>1 DEF Looping, RunSteps, Working, Reconciling, Outside, Taking, Proving, Removing
  <2>4. CASE pc = "reconcile" /\ pc' \in {"record_drained", "record_findings"}
    <3>1. cur = Len(plan) + 1
      BY <2>4 DEF Position, Standing, Looping, Reconciling
    <3>2. cur > Len(plan) /\ ~(cur <= Len(plan))
      BY <2>1, <3>1
    <3> QED
      BY <2>4, <3>2 DEF Looping, RunSteps, Working, Reconciling, Outside, Taking, Proving, Removing
  <2> QED
    BY <2>2, <2>3, <2>4
<1>3. \A b \in Actions : /\ (HasPlan(b)' <=> HasPlan(b)) /\ PlanRow(b)' = PlanRow(b)
                         /\ LastPhase(b)' = LastPhase(b)
  BY <1>1 DEF RowsKept
<1>4. Standing'
  <2>1. /\ cur <= Len(plan) + 1 /\ cur \in Nat \ {0}
        /\ \A b \in 1..Len(plan) :
             /\ HasPlan(b)
             /\ b < cur => LastPhase(b) \notin OpenPhases
             /\ b = cur => LastPhase(b) \in At(pc)
             /\ b > cur => LastPhase(b) = "planned"
    BY <1>2 DEF Position, Standing
  <2>2. \A b \in 1..Len(plan) : b \in Actions /\ (HasPlan(b)' <=> HasPlan(b)) /\ LastPhase(b)' = LastPhase(b)
    BY <1>3, PlanBounds DEF Ledger
  <2>3. pc' \in Reconciling => cur = Len(plan) + 1
    BY <1>2, <2>1, PlanBounds DEF Ledger
  <2>4. \A b \in 1..Len(plan) : b = cur => At(pc') = At(pc)
    BY <1>2, PlanBounds DEF Ledger
  <2>5. plan' = plan
    BY StillKeeps
  <2> QED
    BY <1>2, <2>1, <2>2, <2>3, <2>4, <2>5 DEF Standing
<1>5. SettledBehind'
  BY <1>2 DEF SettledBehind
<1>6. StepFits' /\ StepProven'
  BY <1>2, NoFit, NoProof
<1>7. TakenShown'
  <2>1. \A b \in Actions : b < cur => b < cur'
    OBVIOUS
  <2> QED
    BY <1>2, <1>3, <2>1, StillKeeps, ShownStays DEF Ledger, Position
<1>8. ReconTrue'
  BY <1>2, StillKeeps, ReconStays DEF Position
<1> QED
  BY <1>1, <1>4, <1>5, <1>6, <1>7, <1>8 DEF Position

LEMMA StopLoopKeeps ==
  ASSUME Ledger, Position, StopLoop
  PROVE  Ledger' /\ Position'
<1>1. Still /\ events' = events /\ method' = method
  BY DEF StopLoop, Still, NoFault
<1>2. /\ pc = "next" /\ cur' = cur
      /\ \/ cur > Len(plan) /\ pc' = "reconcile"
         \/ cur <= Len(plan) /\ pc' = "cancel_remaining"
  BY DEF StopLoop, Goto
<1> QED
  BY <1>1, <1>2, Turns

LEMMA CancelRemainingKeeps ==
  ASSUME Ledger, Position, CancelRemaining
  PROVE  Ledger' /\ Position'
<1>1. pc = "cancel_remaining" /\ cur \in Nat \ {0}
  BY DEF CancelRemaining, Position, Standing
<1>2. Still
  BY DEF CancelRemaining, Records, Still
<1>3. CASE cur <= Len(plan)
  <2>1. PICK a \in 1..Len(plan) : a = cur
    BY <1>1, <1>3, CurrentAction DEF Looping, Reconciling
  <2>2. Event("cancelled") \in Row /\ Event("cancelled").phase = "cancelled"
    BY EventRow DEF Phases
  <2>3. CASE Writes(cur, Event("cancelled")) /\ NextAction("cancel_remaining")
    <3>1. pc' = "cancel_remaining" /\ cur' = cur + 1
      BY <2>3 DEF NextAction
    <3>2. "cancelled" \in Endings /\ pc \notin Taking
      BY <1>1 DEF Endings, SettledPhases, Taking
    <3> QED
      BY <1>1, <1>2, <2>1, <2>2, <2>3, <3>1, <3>2, RowAppended, Settles
  <2>4. CASE WriteFails(cur, Event("cancelled")) /\ Abort
    <3>1. pc' = "idle" /\ cur' = cur
      BY <2>4 DEF Abort, Goto
    <3> QED
      BY <1>1, <1>2, <2>4, <3>1, RowLost, AbortsStill DEF Outside
  <2> QED
    BY <1>3, <2>3, <2>4 DEF CancelRemaining, Records
<1>4. CASE ~(cur <= Len(plan))
  <2>1. pc' = "reconcile" /\ cur' = cur /\ events' = events /\ method' = method
    BY <1>4 DEF CancelRemaining, Goto, NoFault
  <2>2. cur > Len(plan)
    BY <1>1, <1>4, PlanBounds DEF Ledger
  <2> QED
    BY <1>1, <1>2, <2>1, <2>2, Turns
<1> QED
  BY <1>3, <1>4

-----------------------------------------------------------------------------
(* A completed removal took its source.                                     *)
LEMMA CompletedTaken ==
  ASSUME Ledger, NEW a \in 1..Len(plan), HasPlan(a), Removes(a), Outcome(a) = "completed"
  PROVE  taken[plan[a].path] # NoContent
<1>1. a \in Actions
  BY PlanBounds DEF Ledger
<1>2. LastPhase(a) # "recovery_resolved" /\ LastPhase(a) # "completed"
  BY <1>1 DEF Ledger, RowsFit
<1>3. LastPhase(a) = "removal_completed"
  BY <1>1, <1>2, OutcomePhases DEF Ledger
<1> QED
  BY <1>1, <1>3 DEF Ledger, RemovedTaken

-----------------------------------------------------------------------------
(* The settlement of a source removal. *)

LEMMA RefuseRemovalKeeps ==
  ASSUME Ledger, Position, RefuseRemoval
  PROVE  Ledger' /\ Position'
<1>1. pc = "settle" /\ pc \in Working
  BY DEF RefuseRemoval, Working
<1>2. PICK a \in 1..Len(plan) : a = cur
  BY <1>1, WorkingAction
<1>3. Still
  BY DEF RefuseRemoval, Still
<1>4. /\ events' = events /\ method' = method /\ cur' = cur
      /\ pc' \in {"cancel_action", "unresolved", "fail_unresolved"}
  BY DEF RefuseRemoval, Refuse, NoFault, Fault, Goto
<1>5. LastPhase(a) \in At(pc)
  BY <1>1, <1>2, WorkingAction
<1>6. /\ pc' \in Working /\ pc' \notin Proving \cup {"settle", "verified", "complete", "transfer"}
      /\ pc \notin Taking /\ LastPhase(a) \in At(pc')
  BY <1>1, <1>4, <1>5 DEF Working, Proving, Removing, Taking, At
<1>7. StepFits' /\ StepProven'
  BY <1>6, NoFit, NoProof
<1> QED
  BY <1>1, <1>2, <1>3, <1>4, <1>6, <1>7, FallsStill

(* The destination is witnessed at a path whose source is not yet taken.    *)
LEMMA WitnessStays ==
  ASSUME Ledger, Position, NEW a \in 1..Len(plan), a = cur, Removes(a), pc = "settle",
         trash' = trash, taken' = taken, plan' = plan, method' = method,
         witnessed' = [witnessed EXCEPT ![plan[a].path] = dst[plan[a].path]],
         \A b \in Actions : HasPlan(b) => PlanRow(b)' = PlanRow(b),
         \A b \in Actions : b # a => LastPhase(b)' = LastPhase(b),
         cur' = cur, pc' \in Working
  PROVE  TakenShown'
<1>1. pc \notin Outside \cup Taking /\ cur \in Nat
  BY DEF Outside, Taking, Position, Standing
<1>2. taken[plan[a].path] = NoContent
  BY <1>1, NotYetTaken DEF Ledger, Position
<1>3. \A f \in Files : taken[f] # NoContent => witnessed'[f] = witnessed[f] /\ trash'[f] = trash[f]
  BY <1>2 DEF Ledger, FilesTyped
<1>4. \A b \in Actions : b < cur => LastPhase(b)' = LastPhase(b)
  BY DEF Actions
<1>5. \A b \in Actions : b < cur => b < cur'
  OBVIOUS
<1> QED
  BY <1>1, <1>3, <1>4, <1>5, ShownStays DEF Ledger, Position

LEMMA ProveTransferKeeps ==
  ASSUME Ledger, Position, ProveTransfer
  PROVE  Ledger' /\ Position'
<1>1. pc = "settle" /\ pc \in Working /\ pc \in Looping
  BY StepNames DEF ProveTransfer, Working
<1>2. PICK a \in 1..Len(plan) : a = cur
  BY <1>1, WorkingAction
<1>3. a \in Actions /\ HasPlan(a) /\ LastPhase(a) \in At(pc) /\ plan[a].path \in Files
      /\ Len(plan) \in Nat
  BY <1>1, <1>2, WorkingAction, PlanBounds DEF Ledger, Step
<1> DEFINE p == plan[a].path
<1>4. Removes(a) /\ kept[p] # NoContent
  BY <1>1, <1>2 DEF Position, StepFits
<1>5. /\ src' = src /\ dst' = dst /\ trash' = trash /\ taken' = taken /\ inventory' = inventory
      /\ plan' = plan /\ recon' = recon /\ kept' = kept
      /\ witnessed' = [witnessed EXCEPT ![p] = dst[p]]
  BY <1>2 DEF ProveTransfer, record, Path
<1>6. dst[p] = kept[p] /\ PlanRow(a).planned = kept[p]
  BY <1>2 DEF ProveTransfer, BoundaryHolds, SourceIsJournaled, Path
<1>7. \A b \in 1..(a - 1) : Removes(b) => taken[plan[b].path] # NoContent
  <2> SUFFICES ASSUME NEW b \in 1..(a - 1), Removes(b) PROVE taken[plan[b].path] # NoContent
    OBVIOUS
  <2>1. b \in 1..Len(plan)
    BY <1>3
  <2>2. HasPlan(b)
    BY <1>1, <2>1 DEF Position, Standing
  <2>3. Outcome(b) = "completed"
    BY <1>2 DEF ProveTransfer, PriorRemovalsCompleted, Removes
  <2> QED
    BY <2>1, <2>2, <2>3, CompletedTaken
<1>8. dst[p] \in Items
  BY <1>3 DEF Ledger, FilesTyped, Trees
<1>9. FilesTyped'
  <2>1. witnessed' \in [Files -> Items]
    BY <1>3, <1>5, <1>8 DEF Ledger, FilesTyped
  <2> QED
    BY <1>5, <2>1 DEF Ledger, FilesTyped, Trees
<1>10. witnessed'[p] = kept[p]
  BY <1>3, <1>5, <1>6 DEF Ledger, FilesTyped
<1>11. PICK e \in Row : e = TransferVerified(Proof) /\ e.phase = "transfer_verified"
  BY <1>2, CurrentRows
<1>12. pc \notin Taking
  BY <1>1 DEF Taking
<1> HIDE DEF p
<1>13. CASE Writes(cur, TransferVerified(Proof)) /\ Goto("prove")
  <2>1. pc' = "prove" /\ cur' = cur
    BY <1>13 DEF Goto
  <2>2. AppendEvent(a, e)
    BY <1>2, <1>11, <1>13, RowAppended
  <2>3. /\ pc' \in Working /\ e.phase \in At(pc') /\ pc' \notin Removing
        /\ pc' \notin {"verified", "complete", "transfer", "record_removal"}
    BY <1>11, <2>1 DEF Working, At, Removing
  <2>4. StepFits'
    <3>1. Removes(a)' /\ kept'[plan[a].path] # NoContent
      BY <1>4, <1>5 DEF Removes, p
    <3> QED
      BY <1>2, <1>5, <2>1, <2>3, <3>1 DEF StepFits
  <2>5. Told(a, e)
    BY <1>3, <2>2, RowTold DEF Ledger
  <2>6. StepProven'
    <3>1. PlanRow(a)' = PlanRow(a)
      BY <1>3, <2>5 DEF Told
    <3>2. /\ witnessed'[plan'[a].path] = kept'[plan'[a].path]
          /\ PlanRow(a)'.planned = kept'[plan'[a].path]
      BY <1>5, <1>6, <1>10, <3>1 DEF p
    <3>3. \A b \in 1..(a - 1) : Removes(b)' => taken'[plan'[b].path] # NoContent
      BY <1>5, <1>7 DEF Removes
    <3> QED
      BY <1>2, <1>5, <2>1, <2>3, <3>2, <3>3 DEF StepProven
  <2>7. TakenShown'
    <3>1. /\ \A b \in Actions : HasPlan(b) => PlanRow(b)' = PlanRow(b)
          /\ \A b \in Actions : b # a => LastPhase(b)' = LastPhase(b)
      BY <1>3, <2>5 DEF Told, RowsKept
    <3>2. method' = method
      BY <2>2 DEF AppendEvent
    <3> QED
      BY <1>1, <1>2, <1>4, <1>5, <2>1, <2>3, <3>1, <3>2, WitnessStays DEF p
  <2> QED
    BY <1>1, <1>2, <1>5, <1>9, <1>12, <2>1, <2>2, <2>3, <2>4, <2>6, <2>7, WorksOn
<1>14. CASE WriteFails(cur, TransferVerified(Proof)) /\ Goto("unresolved")
  <2>1. pc' = "unresolved" /\ cur' = cur
    BY <1>14 DEF Goto
  <2>2. events' = events /\ method' = method
    BY <1>14, RowLost
  <2>3. Ledger' /\ \A b \in Actions : RowsKept(b)
    BY <1>5, <1>9, <2>2, LedgerFiles
  <2>4. /\ pc' \in Working /\ LastPhase(a) \in At(pc')
        /\ pc' \notin Proving \cup {"settle", "verified", "complete", "transfer"}
    BY <1>1, <1>3, <2>1 DEF Working, At, Proving, Removing
  <2>5. StepFits' /\ StepProven'
    BY <2>4, NoFit, NoProof
  <2>6. TakenShown'
    <3>1. /\ \A b \in Actions : HasPlan(b) => PlanRow(b)' = PlanRow(b)
          /\ \A b \in Actions : b # a => LastPhase(b)' = LastPhase(b)
      BY <2>3 DEF RowsKept
    <3> QED
      BY <1>1, <1>2, <1>4, <1>5, <2>1, <2>2, <2>4, <3>1, WitnessStays DEF p
  <2>7. PlanFits'
    BY <2>3 DEF Ledger
  <2> QED
    BY <1>1, <1>2, <1>5, <2>1, <2>2, <2>3, <2>4, <2>5, <2>6, <2>7, Falls
<1> QED
  BY <1>13, <1>14 DEF ProveTransfer

(* From one step of a removal to the next.                                  *)
LEMMA RemovalGoesOn ==
  ASSUME Position, NEW a \in 1..Len(plan), a = cur, pc \in Proving, pc' \in Proving, cur' = cur,
         plan' = plan, kept' = kept, witnessed' = witnessed,
         PlanRow(a)' = PlanRow(a),
         \A b \in 1..(a - 1) : taken[plan[b].path] # NoContent => taken'[plan[b].path] # NoContent,
         pc' \in Removing => Replay(a)'.proof = kept[plan[a].path],
         pc' = "record_removal" => taken'[plan[a].path] = kept[plan[a].path]
  PROVE  StepFits' /\ StepProven'
<1>1. pc' \notin {"verified", "complete", "transfer"}
  BY DEF Proving, Removing
<1>2. /\ Removes(a) /\ kept[plan[a].path] # NoContent
      /\ witnessed[plan[a].path] = kept[plan[a].path]
      /\ PlanRow(a).planned = kept[plan[a].path]
      /\ \A b \in 1..(a - 1) : Removes(b) => taken[plan[b].path] # NoContent
  BY DEF Position, StepFits, StepProven
<1>3. Removes(a)' /\ \A b \in 1..(a - 1) : Removes(b)' <=> Removes(b)
  BY <1>2 DEF Removes
<1>4. StepFits'
  BY <1>1, <1>2, <1>3 DEF StepFits
<1>5. \A b \in 1..(a - 1) : Removes(b)' => taken'[plan'[b].path] # NoContent
  BY <1>2, <1>3
<1>6. StepProven'
  BY <1>2, <1>5 DEF StepProven
<1> QED
  BY <1>4, <1>6

LEMMA ProveBoundaryKeeps ==
  ASSUME Ledger, Position, ProveBoundary
  PROVE  Ledger' /\ Position'
<1>1. pc = "prove" /\ pc \in Working /\ pc \in Proving /\ pc \notin Taking
  BY DEF ProveBoundary, Working, Proving, Taking
<1>2. PICK a \in 1..Len(plan) : a = cur
  BY <1>1, WorkingAction
<1>3. Still
  BY DEF ProveBoundary, Records, Still
<1>4. PICK e \in Row : /\ e = ProofBoundary(Proof, method)
                       /\ e.phase = "proof_boundary" /\ e.evidence = Proof
  BY <1>2, CurrentRows
<1>5. HasPlan(a) /\ LastPhase(a) \in At(pc) /\ a \in Actions
  BY <1>1, <1>2, WorkingAction
<1>6. CASE Writes(cur, ProofBoundary(Proof, method)) /\ Goto("start_removal")
  <2>1. pc' = "start_removal" /\ cur' = cur
    BY <1>6 DEF Goto
  <2>2. AppendEvent(a, e)
    BY <1>2, <1>4, <1>6, RowAppended
  <2>3. pc' \in Working /\ e.phase \in At(pc') /\ pc' \in Proving /\ pc' # "record_removal"
    BY <1>4, <2>1 DEF Working, At, Proving, Removing
  <2>4. Told(a, e)
    BY <1>5, <2>2, RowTold DEF Ledger
  <2>5. PlanRow(a)' = PlanRow(a) /\ Replay(a)'.proof = kept[plan[a].path]
    BY <1>2, <1>4, <1>5, <2>4, ProofTyped DEF Told, Ledger
  <2>6. StepFits' /\ StepProven'
    BY <1>1, <1>2, <1>3, <2>1, <2>3, <2>5, StillKeeps, RemovalGoesOn
  <2> QED
    BY <1>1, <1>2, <1>3, <2>1, <2>2, <2>3, <2>6, Works
<1>7. CASE WriteFails(cur, ProofBoundary(Proof, method)) /\ Goto("unresolved")
  <2>1. pc' = "unresolved" /\ cur' = cur
    BY <1>7 DEF Goto
  <2>2. /\ pc' \in Working /\ pc' \notin Proving \cup {"settle", "verified", "complete", "transfer"}
        /\ LastPhase(a) \in At(pc')
    BY <1>1, <1>5, <2>1 DEF Working, Proving, Removing, At
  <2>3. StepFits' /\ StepProven'
    BY <2>2, NoFit, NoProof
  <2> QED
    BY <1>1, <1>2, <1>3, <1>7, <2>1, <2>2, <2>3, RowLost, FallsStill
<1> QED
  BY <1>6, <1>7 DEF ProveBoundary, Records

LEMMA StartRemovalKeeps ==
  ASSUME Ledger, Position, StartRemoval
  PROVE  Ledger' /\ Position'
<1>1. pc = "start_removal" /\ pc \in Working /\ pc \in Proving /\ pc \in Removing /\ pc \notin Taking
  BY DEF StartRemoval, Working, Proving, Removing, Taking
<1>2. PICK a \in 1..Len(plan) : a = cur
  BY <1>1, WorkingAction
<1>3. Still
  BY DEF StartRemoval, Records, Still
<1>4. PICK e \in Row : e = RemovalStarted(method) /\ e.phase = "removal_started"
  BY <1>2, CurrentRows
<1>5. HasPlan(a) /\ LastPhase(a) \in At(pc) /\ a \in Actions
  BY <1>1, <1>2, WorkingAction
<1>6. CASE Writes(cur, RemovalStarted(method)) /\ Goto("remove")
  <2>1. pc' = "remove" /\ cur' = cur
    BY <1>6 DEF Goto
  <2>2. AppendEvent(a, e)
    BY <1>2, <1>4, <1>6, RowAppended
  <2>3. pc' \in Working /\ e.phase \in At(pc') /\ pc' \in Proving /\ pc' # "record_removal"
    BY <1>4, <2>1 DEF Working, At, Proving, Removing
  <2>4. Told(a, e)
    BY <1>5, <2>2, RowTold DEF Ledger
  <2>5. PlanRow(a)' = PlanRow(a) /\ Replay(a)'.proof = kept[plan[a].path]
    <3>1. Replay(a).proof = kept[plan[a].path]
      BY <1>1, <1>2 DEF Position, StepProven
    <3> QED
      BY <1>4, <1>5, <2>4, <3>1 DEF Told
  <2>6. StepFits' /\ StepProven'
    BY <1>1, <1>2, <1>3, <2>1, <2>3, <2>5, StillKeeps, RemovalGoesOn
  <2> QED
    BY <1>1, <1>2, <1>3, <2>1, <2>2, <2>3, <2>6, Works
<1>7. CASE WriteFails(cur, RemovalStarted(method)) /\ NextAction("next")
  <2>1. pc' = "next" /\ cur' = cur + 1
    BY <1>7 DEF NextAction
  <2>2. LastPhase(a) \notin OpenPhases
    BY <1>1, <1>5 DEF At, OpenPhases
  <2> QED
    BY <1>1, <1>2, <1>3, <1>7, <2>1, <2>2, RowLost, Skips
<1> QED
  BY <1>6, <1>7 DEF StartRemoval, Records

LEMMA RecordRemovalKeeps ==
  ASSUME Ledger, Position, RecordRemoval
  PROVE  Ledger' /\ Position'
<1>1. pc = "record_removal" /\ pc \in Working /\ pc \in Proving /\ pc \in Removing /\ pc \in Taking
  BY DEF RecordRemoval, Working, Proving, Removing, Taking
<1>2. PICK a \in 1..Len(plan) : a = cur
  BY <1>1, WorkingAction
<1>3. Still
  BY DEF RecordRemoval, Records, Still
<1>4. PICK e \in Row : /\ e = RemovalCompleted(RemovalProof, method)
                       /\ e.phase = "removal_completed" /\ e.evidence = RemovalProof
  BY <1>2, CurrentRows
<1>5. HasPlan(a) /\ LastPhase(a) \in At(pc) /\ a \in Actions
  BY <1>1, <1>2, WorkingAction
<1>6. /\ Removes(a) /\ kept[plan[a].path] # NoContent
      /\ taken[plan[a].path] = kept[plan[a].path]
      /\ Replay(a).proof = kept[plan[a].path]
  BY <1>1, <1>2 DEF Position, StepFits, StepProven
<1>7. CASE Writes(cur, RemovalCompleted(RemovalProof, method)) /\ NextAction("next")
  <2>1. pc' = "next" /\ cur' = cur + 1
    BY <1>7 DEF NextAction
  <2>2. AppendEvent(a, e)
    BY <1>2, <1>4, <1>7, RowAppended
  <2>3. /\ "removal_completed" \in Endings
        /\ "removal_completed" \in SettledPhases /\ "removal_completed" \in ShownPhases
    BY DEF Endings, SettledPhases, ShownPhases
  <2>4. taken[plan[a].path] = e.evidence.dst /\ e.evidence.dst # NoContent
    BY <1>2, <1>4, <1>6, ProofTyped DEF Ledger
  <2> QED
    BY <1>1, <1>2, <1>3, <1>4, <1>6, <2>1, <2>2, <2>3, <2>4, Settles
<1>8. CASE WriteFails(cur, RemovalCompleted(RemovalProof, method)) /\ Goto("record_uncertain")
  <2>1. pc' = "record_uncertain" /\ cur' = cur
    BY <1>8 DEF Goto
  <2>2. /\ pc' \in Working /\ pc' \in Proving /\ pc' \in Taking /\ pc' # "record_removal"
        /\ LastPhase(a) \in At(pc')
    BY <1>1, <1>5, <2>1 DEF Working, Proving, Removing, Taking, At
  <2>3. events' = events /\ method' = method
    BY <1>8, RowLost
  <2>4. PlanRow(a)' = PlanRow(a) /\ Replay(a)'.proof = kept[plan[a].path]
    BY <1>5, <1>6, <2>3, LedgerSame, <1>3 DEF RowsKept
  <2>5. StepFits' /\ StepProven'
    BY <1>1, <1>2, <1>3, <2>1, <2>2, <2>4, StillKeeps, RemovalGoesOn
  <2> QED
    BY <1>1, <1>2, <1>3, <2>1, <2>2, <2>3, <2>5, FallsStill
<1> QED
  BY <1>7, <1>8 DEF RecordRemoval, Records

(* The source is taken: it is the proved one, and its removal is shown.     *)
LEMMA TakeShown ==
  ASSUME Ledger, Position, NEW a \in 1..Len(plan), a = cur, pc = "remove", Take,
         src[plan[a].path] = kept[plan[a].path],
         witnessed' = witnessed, plan' = plan, method' = method,
         \A b \in Actions : HasPlan(b) => PlanRow(b)' = PlanRow(b),
         \A b \in Actions : LastPhase(b)' = LastPhase(b),
         cur' = cur, pc' \in Taking
  PROVE  /\ \A f \in Files : taken[f] # NoContent => taken'[f] = taken[f]
         /\ taken'[plan[a].path] = kept[plan[a].path]
         /\ TakenShown' /\ RemovedInOrder'
<1> DEFINE p == plan[a].path
<1>1. p \in Files /\ a \in Actions /\ cur \in Nat /\ Len(plan) \in Nat
  BY PlanBounds DEF Ledger, Position, Standing, Step
<1>2. /\ pc \in Working /\ pc \in Proving /\ pc \notin Taking /\ pc \notin Outside
      /\ pc' \notin Outside
  BY DEF Working, Proving, Removing, Taking, Outside
<1>3. HasPlan(a) /\ LastPhase(a) = "removal_started"
  BY <1>2, WorkingAction DEF At
<1>4. /\ Removes(a) /\ kept[p] # NoContent /\ witnessed[p] = kept[p]
      /\ PlanRow(a).planned = kept[p]
      /\ \A b \in 1..(a - 1) : Removes(b) => taken[plan[b].path] # NoContent
  BY <1>2 DEF Position, StepFits, StepProven
<1>5. taken[p] = NoContent
  BY <1>1, <1>2, <1>4, NotYetTaken DEF Ledger, Position
<1>6. /\ taken' = [taken EXCEPT ![p] = kept[p]]
      /\ trash' = IF method = "trash" THEN [trash EXCEPT ![p] = kept[p]] ELSE trash
  BY DEF Take, Path
<1>7. /\ taken'[p] = kept[p] /\ (method = "trash" => trash'[p] = kept[p])
      /\ \A f \in Files : f # p => taken'[f] = taken[f] /\ trash'[f] = trash[f]
  BY <1>1, <1>6 DEF Ledger, FilesTyped
<1>8. \A f \in Files : taken[f] # NoContent => taken'[f] = taken[f]
  BY <1>5, <1>7
<1> HIDE DEF p
<1>9. TakenShown'
  <2> SUFFICES ASSUME NEW f \in Files, taken'[f] # NoContent
               PROVE  /\ witnessed[f] = taken'[f]
                      /\ method = "trash" => trash'[f] = taken'[f]
                      /\ \E b \in RemovalsOf(f) :
                           /\ PlanRow(b)'.planned = taken'[f]
                           /\ LastPhase(b)' \in ShownPhases
                           /\ b < cur \/ (b = cur /\ pc' \in Taking)
    <3>1. \A f \in Files : RemovalsOf(f)' = RemovalsOf(f)
      BY DEF RemovalsOf
    <3> QED
      BY <3>1 DEF TakenShown
  <2>1. CASE f = p
    <3>1. a \in RemovalsOf(f)
      BY <1>4, <2>1 DEF RemovalsOf, Removes, p
    <3>2. PlanRow(a)'.planned = taken'[f] /\ LastPhase(a)' \in ShownPhases
      BY <1>1, <1>3, <1>4, <1>7, <2>1 DEF ShownPhases
    <3> QED
      BY <1>4, <1>7, <2>1, <3>1, <3>2
  <2>2. CASE f # p
    <3>1. taken'[f] = taken[f] /\ trash'[f] = trash[f] /\ taken[f] # NoContent
      BY <1>7, <2>2
    <3>2. witnessed[f] = taken[f] /\ (method = "trash" => trash[f] = taken[f])
      BY <3>1 DEF Position, TakenShown
    <3>3. PICK b \in RemovalsOf(f) :
            PlanRow(b).planned = taken[f] /\ LastPhase(b) \in ShownPhases /\ b < cur
      BY <1>2, <3>1 DEF Position, TakenShown
    <3>4. b \in Actions
      BY PlanBounds DEF RemovalsOf, Ledger
    <3>5. HasPlan(b)
      BY <3>3 DEF LastPhase, ShownPhases
    <3> QED
      BY <3>1, <3>2, <3>3, <3>4, <3>5
  <2> QED
    BY <2>1, <2>2
<1>10. RemovedInOrder'
  <2> SUFFICES ASSUME NEW c \in 1..Len(plan), NEW b \in 1..Len(plan), c < b,
                      Removes(c), Removes(b), taken'[plan[b].path] # NoContent
               PROVE  taken'[plan[c].path] # NoContent
    BY DEF RemovedInOrder, Removes
  <2>1. plan[c].path \in Files /\ plan[b].path \in Files
    BY PlanBounds DEF Ledger, Step
  <2>2. taken[plan[c].path] # NoContent
    <3>1. CASE plan[b].path = p
      <4>1. b = a
        BY <1>4, <3>1 DEF Ledger, PlanFits, p
      <4>2. c \in 1..(a - 1)
        BY <1>1, <4>1
      <4> QED
        BY <1>4, <4>2
    <3>2. CASE plan[b].path # p
      <4>1. taken[plan[b].path] # NoContent
        BY <1>7, <2>1, <3>2
      <4> QED
        BY <4>1 DEF Ledger, RemovedInOrder, Removes
    <3> QED
      BY <3>1, <3>2
  <2> QED
    BY <1>8, <2>1, <2>2
<1> QED
  BY <1>7, <1>8, <1>9, <1>10 DEF p

LEMMA RemoveSourceKeeps ==
  ASSUME Ledger, Position, RemoveSource
  PROVE  Ledger' /\ Position'
<1>1. pc = "remove" /\ pc \in Working /\ pc \in Proving /\ pc \in Removing /\ pc \notin Taking
  BY DEF RemoveSource, Working, Proving, Removing, Taking
<1>2. PICK a \in 1..Len(plan) : a = cur
  BY <1>1, WorkingAction
<1>3. HasPlan(a) /\ LastPhase(a) \in At(pc) /\ a \in Actions /\ plan[a].path \in Files
  BY <1>1, <1>2, WorkingAction, PlanBounds DEF Ledger, Step
<1>4. Replay(a).proof = kept[plan[a].path]
  BY <1>1, <1>2 DEF Position, StepProven
<1>5. /\ dst' = dst /\ witnessed' = witnessed /\ inventory' = inventory
      /\ plan' = plan /\ recon' = recon /\ kept' = kept
  BY DEF RemoveSource, record
<1>6. CASE /\ src[Path] = kept[Path] /\ Take
           /\ (NoFault /\ Goto("record_removal")) \/ (Fault /\ Goto("record_uncertain"))
  <2>1. /\ events' = events /\ method' = method /\ cur' = cur
        /\ pc' \in {"record_removal", "record_uncertain"}
    BY <1>6 DEF NoFault, Fault, Goto
  <2>2. /\ pc' \in Working /\ pc' \in Proving /\ pc' \in Taking /\ LastPhase(a) \in At(pc')
    BY <1>1, <1>3, <2>1 DEF Working, Proving, Removing, Taking, At
  <2>3. \A b \in Actions : RowsKept(b)
    BY <2>1, SoundSame DEF Ledger
  <2>4. \A b \in Actions : /\ HasPlan(b) => PlanRow(b)' = PlanRow(b)
                           /\ LastPhase(b)' = LastPhase(b)
    BY <2>3 DEF RowsKept
  <2>5. src[plan[a].path] = kept[plan[a].path] /\ Take
    BY <1>2, <1>6 DEF Path
  <2>6. /\ \A f \in Files : taken[f] # NoContent => taken'[f] = taken[f]
        /\ taken'[plan[a].path] = kept[plan[a].path]
        /\ TakenShown' /\ RemovedInOrder'
    BY <1>1, <1>2, <1>5, <2>1, <2>2, <2>4, <2>5, TakeShown
  <2>7. FilesTyped'
    <3>1. /\ src' = [src EXCEPT ![plan[a].path] = NoContent]
          /\ trash' = IF method = "trash" THEN [trash EXCEPT ![plan[a].path] = src[plan[a].path]] ELSE trash
          /\ taken' = [taken EXCEPT ![plan[a].path] = src[plan[a].path]]
      BY <1>2, <2>5 DEF Take, Path
    <3>2. NoContent \in Items /\ src[plan[a].path] \in Items
      BY <1>3 DEF Items, Ledger, FilesTyped, Trees
    <3>3. src' \in [Files -> Items] /\ trash' \in [Files -> Items] /\ taken' \in [Files -> Items]
      BY <3>1, <3>2 DEF Ledger, FilesTyped, Trees
    <3> QED
      BY <1>5, <3>3 DEF Ledger, FilesTyped, Trees
  <2>8. Ledger'
    BY <1>5, <2>1, <2>6, <2>7, LedgerGrows
  <2>9. StepFits' /\ StepProven'
    <3>1. PlanRow(a)' = PlanRow(a) /\ Replay(a)'.proof = kept[plan[a].path]
      BY <1>3, <1>4, <2>3 DEF RowsKept
    <3>2. \A b \in 1..(a - 1) : taken[plan[b].path] # NoContent => taken'[plan[b].path] # NoContent
      <4>1. \A b \in 1..(a - 1) : b \in 1..Len(plan)
        BY PlanBounds DEF Ledger
      <4>2. \A b \in 1..(a - 1) : plan[b].path \in Files
        BY <4>1, PlanBounds DEF Ledger, Step
      <4> QED
        BY <2>6, <4>2
    <3> QED
      BY <1>1, <1>2, <1>5, <2>1, <2>2, <2>6, <3>1, <3>2, RemovalGoesOn
  <2>10. PlanFits'
    BY <2>8 DEF Ledger
  <2>11. Position'
    BY <1>1, <1>2, <1>5, <2>1, <2>2, <2>3, <2>6, <2>9, <2>10, Falls
  <2> QED
    BY <2>8, <2>11
<1>7. CASE /\ UNCHANGED <<src, trash, taken>>
           /\ \/ src[Path] # kept[Path] /\ NoFault /\ Goto("record_failure")
              \/ Fault /\ Goto("record_failure")
              \/ Fault /\ Goto("record_uncertain")
  <2>1. Still
    BY <1>7 DEF Still, files, record, RemoveSource
  <2>2. /\ events' = events /\ method' = method /\ cur' = cur
        /\ pc' \in {"record_failure", "record_uncertain"}
    BY <1>7 DEF NoFault, Fault, Goto
  <2>3. /\ pc' \in Working /\ pc' \in Proving /\ pc' # "record_removal" /\ LastPhase(a) \in At(pc')
    BY <1>1, <1>3, <2>2 DEF Working, Proving, Removing, At
  <2>4. PlanRow(a)' = PlanRow(a) /\ Replay(a)'.proof = kept[plan[a].path]
    BY <1>3, <1>4, <2>1, <2>2, LedgerSame DEF RowsKept
  <2>5. StepFits' /\ StepProven'
    BY <1>1, <1>2, <2>1, <2>2, <2>3, <2>4, StillKeeps, RemovalGoesOn
  <2> QED
    BY <1>1, <1>2, <2>1, <2>2, <2>3, <2>5, FallsStill
<1> QED
  BY <1>6, <1>7 DEF RemoveSource

-----------------------------------------------------------------------------
(* The transfer, and what its failure leaves. *)

(* The same action goes on after the files have changed, those of taken     *)
(* sources excepted.                                                        *)
LEMMA FallsFiles ==
  ASSUME Ledger, Position, FilesTyped', NEW a \in 1..Len(plan), a = cur,
         events' = events, method' = method, plan' = plan, inventory' = inventory,
         recon' = recon, taken' = taken, witnessed' = witnessed, trash' = trash,
         pc \in Working \ Taking, pc' \in Working, cur' = cur, LastPhase(a) \in At(pc'),
         StepFits', StepProven'
  PROVE  Ledger' /\ Position'
<1>1. Ledger' /\ \A b \in Actions : RowsKept(b)
  BY LedgerFiles
<1>2. \A b \in Actions : /\ HasPlan(b) => PlanRow(b)' = PlanRow(b)
                         /\ LastPhase(b)' = LastPhase(b)
  BY <1>1 DEF RowsKept
<1>3. pc \notin Outside
  BY StepNames
<1>4. TakenShown'
  BY <1>2, <1>3, ShownStays DEF Ledger, Position
<1>5. Position'
  BY <1>1, <1>4, Falls DEF Ledger
<1> QED
  BY <1>1, <1>5

LEMMA TransferredKeeps ==
  ASSUME Ledger, Position, Transferred
  PROVE  Ledger' /\ Position'
<1>1. pc = "transfer" /\ pc \in Working \ Taking
  BY DEF Transferred, Working, Taking
<1>2. PICK a \in 1..Len(plan) : a = cur
  BY <1>1, WorkingAction
<1>3. LastPhase(a) \in At(pc) /\ plan[a].path \in Files /\ plan[a] \in Step
  BY <1>1, <1>2, WorkingAction, PlanBounds DEF Ledger, Step
<1> DEFINE p == plan[a].path
<1>4. /\ src' = src /\ trash' = trash /\ taken' = taken /\ witnessed' = witnessed
      /\ inventory' = inventory /\ plan' = plan /\ recon' = recon
      /\ dst' = [dst EXCEPT ![p] = src[p]] /\ kept' = [kept EXCEPT ![p] = src[p]]
      /\ src[p] # NoContent
  BY <1>2 DEF Transferred, record, Path
<1>5. /\ events' = events /\ method' = method /\ cur' = cur
      /\ pc' \in {"journal_failure", "settle", "verified"}
      /\ pc' = "settle" => Removes(a)
      /\ pc' = "verified" => ~Removes(a)
  BY <1>2 DEF Transferred, TransferEnds, Goto, Op, Removes
<1>6. src[p] \in Items
  BY <1>3 DEF Ledger, FilesTyped, Trees
<1>7. dst' \in [Files -> Items] /\ kept' \in [Files -> Items] /\ kept'[p] = src[p]
  BY <1>3, <1>4, <1>6 DEF Ledger, FilesTyped, Trees
<1>8. FilesTyped'
  BY <1>4, <1>7 DEF Ledger, FilesTyped, Trees
<1>9. pc' \in Working /\ pc' \notin Proving \cup {"complete", "transfer"} /\ LastPhase(a) \in At(pc')
  BY <1>1, <1>3, <1>5 DEF Working, Proving, Removing, At
<1>10. StepFits'
  <2>1. plan[a].op # "remove_destination"
    BY <1>1, <1>2 DEF Position, StepFits
  <2>2. pc' = "verified" => plan[a].op \in {"copy", "overwrite"}
    BY <1>3, <1>5, <2>1, JournalAssumption DEF Step, Removes
  <2>3. kept'[plan[a].path] # NoContent
    BY <1>4, <1>7
  <2>4. pc' = "settle" => Removes(a)'
    BY <1>4, <1>5 DEF Removes
  <2> HIDE DEF p
  <2> QED
    BY <1>2, <1>4, <1>5, <1>9, <2>2, <2>3, <2>4 DEF StepFits
<1>11. StepProven'
  BY <1>9, NoProof
<1> HIDE DEF p
<1> QED
  BY <1>1, <1>2, <1>4, <1>5, <1>8, <1>9, <1>10, <1>11, FallsFiles

LEMMA UncertainTyped ==
  ASSUME FilesTyped, PlanFits, NEW a \in 1..Len(plan), a = cur, LeaveUncertain
  PROVE  dst' \in [Files -> Items]
<1>1. Path \in Files
  BY PlanBounds DEF Path, Step
<1>2. PICK item \in {dst[Path], NoContent, src[Path]} : dst' = [dst EXCEPT ![Path] = item]
  BY DEF LeaveUncertain
<1>3. item \in Items
  BY <1>1, <1>2 DEF FilesTyped, Trees, Items
<1> QED
  BY <1>1, <1>2, <1>3 DEF FilesTyped, Trees

LEMMA TransferFailsKeeps ==
  ASSUME Ledger, Position, TransferFails
  PROVE  Ledger' /\ Position'
<1>1. pc = "transfer" /\ pc \in Working \ Taking
  BY DEF TransferFails, Working, Taking
<1>2. PICK a \in 1..Len(plan) : a = cur
  BY <1>1, WorkingAction
<1>3. LastPhase(a) \in At(pc)
  BY <1>1, <1>2, WorkingAction
<1>4. /\ src' = src /\ trash' = trash /\ taken' = taken /\ witnessed' = witnessed
      /\ inventory' = inventory /\ plan' = plan /\ recon' = recon /\ kept' = kept
  BY DEF TransferFails, record
<1>5. /\ events' = events /\ method' = method /\ cur' = cur
      /\ pc' \in {"cancel_action", "fail_action", "review_action", "journal_failure"}
      /\ dst' = dst \/ LeaveUncertain
  <2> USE DEF TransferEnds, Goto
  <2>1. CASE cancel /\ TransferEnds("cancel_action", 0) /\ UNCHANGED dst
    BY <2>1
  <2>2. CASE src[Path] = NoContent /\ TransferEnds("fail_action", 0) /\ UNCHANGED dst
    BY <2>2
  <2>3. CASE \E failures \in {1} \cup {0 : f \in touched \cap {Path}} :
               \/ TransferEnds("fail_action", failures) /\ UNCHANGED dst
               \/ TransferEnds("review_action", failures) /\ LeaveUncertain
               \/ TransferEnds("fail_action", failures + 1) /\ LeaveBehind
    BY <2>3 DEF LeaveBehind, LeaveUncertain
  <2> QED
    BY <2>1, <2>2, <2>3 DEF TransferFails
<1>6. FilesTyped'
  BY <1>2, <1>4, <1>5, UncertainTyped DEF Ledger, FilesTyped, Trees
<1>7. /\ pc' \in Working /\ pc' \notin Proving \cup {"settle", "verified", "complete", "transfer"}
      /\ LastPhase(a) \in At(pc')
  BY <1>1, <1>3, <1>5 DEF Working, Proving, Removing, At
<1>8. StepFits' /\ StepProven'
  BY <1>7, NoFit, NoProof
<1> QED
  BY <1>1, <1>2, <1>4, <1>5, <1>6, <1>7, <1>8, FallsFiles

LEMMA CrashKeeps ==
  ASSUME Ledger, Position, Crash
  PROVE  Ledger' /\ Position'
<1>1. /\ events' = events /\ method' = method /\ src' = src /\ trash' = trash /\ taken' = taken
      /\ witnessed' = witnessed /\ inventory' = inventory /\ plan' = plan /\ recon' = recon
      /\ kept' = kept /\ pc' = "idle" /\ cur' = cur
      /\ dst' = dst \/ (pc = "transfer" /\ LeaveUncertain)
  BY DEF Crash, record, Abort, Goto
<1>2. cur \in Nat \ {0}
  BY DEF Position, Standing
<1>3. dst' \in [Files -> Items]
  <2>1. CASE dst' = dst
    BY <2>1 DEF Ledger, FilesTyped, Trees
  <2>2. CASE pc = "transfer" /\ LeaveUncertain
    <3>1. PICK a \in 1..Len(plan) : a = cur
      BY <2>2, WorkingAction DEF Working
    <3> QED
      BY <2>2, <3>1, UncertainTyped DEF Ledger
  <2> QED
    BY <1>1, <2>1, <2>2
<1>4. FilesTyped'
  BY <1>1, <1>3 DEF Ledger, FilesTyped, Trees
<1>5. Ledger' /\ \A b \in Actions : RowsKept(b)
  BY <1>1, <1>4, LedgerFiles
<1>6. \A b \in Actions : /\ HasPlan(b) => PlanRow(b)' = PlanRow(b)
                         /\ LastPhase(b) \in ShownPhases => LastPhase(b)' \in ShownPhases
  BY <1>5 DEF RowsKept
<1> QED
  BY <1>1, <1>2, <1>5, <1>6, GoesOut DEF Outside

-----------------------------------------------------------------------------
(* The environment, and the resumption of the last run. *)

(* A step that leaves the driver where it stands.                           *)
LEMMA StandsStill ==
  ASSUME Ledger, Position, FilesTyped', events' = events, method' = method,
         plan' = plan, inventory' = inventory, recon' = recon, taken' = taken,
         witnessed' = witnessed, trash' = trash, kept' = kept,
         pc' = pc, cur' = cur, broken' = broken
  PROVE  Ledger' /\ Position'
<1>1. Ledger' /\ \A b \in Actions : RowsKept(b)
  BY LedgerFiles
<1>2. \A b \in Actions : /\ (HasPlan(b)' <=> HasPlan(b)) /\ PlanRow(b)' = PlanRow(b)
                         /\ LastPhase(b)' = LastPhase(b) /\ Replay(b)' = Replay(b)
  BY <1>1 DEF RowsKept
<1>3. /\ \A b \in 1..Len(plan) : b \in Actions
      /\ Len(plan) \in Nat /\ cur \in Nat /\ Actions' = Actions
      /\ \A b \in 1..Len(plan) : Removes(b)' = Removes(b)
  BY PlanBounds DEF Ledger, Position, Standing, Actions, Removes
<1>4. Standing'
  <2>1. pc \in Looping => \A b \in 1..Len(plan) :
          /\ HasPlan(b)'
          /\ b < cur => LastPhase(b)' \notin OpenPhases
          /\ b = cur => LastPhase(b)' \in At(pc)
          /\ b > cur => LastPhase(b)' = "planned"
    BY <1>2, <1>3 DEF Position, Standing
  <2>2. /\ pc = "begun" => \A b \in Actions : LastPhase(b)' = "none"
        /\ pc = "persist" => \A b \in Actions : LastPhase(b)' = IF b < cur THEN "planned" ELSE "none"
    BY <1>2 DEF Position, Standing
  <2>3. /\ pc \in RunSteps /\ cur \in Nat \ {0}
        /\ pc = "begun" => cur = 1
        /\ pc \in Looping \cup {"persist"} => cur <= Len(plan) + 1
        /\ pc \in Working => cur <= Len(plan)
        /\ pc \in Reconciling => cur = Len(plan) + 1
    BY StepNames DEF Position, Standing, Looping
  <2> QED
    BY <1>3, <2>1, <2>2, <2>3 DEF Standing
<1>5. SettledBehind'
  <2> SUFFICES ASSUME pc = "next", ~broken, NEW b \in 1..(cur - 1)
               PROVE  LastPhase(b)' \in SettledPhases
    BY DEF SettledBehind
  <2>1. cur <= Len(plan) + 1
    BY DEF Position, Standing, Looping
  <2>2. b \in Actions
    BY <1>3, <2>1
  <2> QED
    BY <1>2, <2>2 DEF Position, SettledBehind
<1>6. StepFits'
  BY <1>3 DEF Position, StepFits
<1>7. StepProven'
  <2>1. ASSUME NEW a \in 1..Len(plan), a = cur, pc \in Proving
        PROVE  \A b \in 1..(a - 1) : Removes(b)' => taken[plan[b].path] # NoContent
    <3>1. \A b \in 1..(a - 1) : b \in 1..Len(plan)
      BY <1>3
    <3> QED
      BY <1>3, <2>1, <3>1 DEF Position, StepProven
  <2>2. \A a \in 1..Len(plan) : PlanRow(a)' = PlanRow(a) /\ Replay(a)' = Replay(a)
    BY <1>2, <1>3
  <2> QED
    BY <2>1, <2>2 DEF Position, StepProven
<1>8. TakenShown'
  <2>1. \A f \in Files : RemovalsOf(f)' = RemovalsOf(f)
    BY DEF RemovalsOf
  <2>2. \A f \in Files : \A a \in RemovalsOf(f) :
          PlanRow(a)' = PlanRow(a) /\ LastPhase(a)' = LastPhase(a)
    BY <1>2, <1>3 DEF RemovalsOf
  <2> QED
    BY <2>1, <2>2 DEF Position, TakenShown
<1>9. ReconTrue'
  BY DEF Position, ReconTrue
<1> QED
  BY <1>1, <1>4, <1>5, <1>6, <1>7, <1>8, <1>9 DEF Position

LEMMA EditKeeps ==
  ASSUME Ledger, Position, Edit
  PROVE  Ledger' /\ Position'
<1>1. /\ trash' = trash /\ taken' = taken /\ witnessed' = witnessed /\ kept' = kept
      /\ inventory' = inventory /\ plan' = plan /\ recon' = recon /\ pc' = pc /\ cur' = cur
      /\ events' = events /\ method' = method /\ broken' = broken
  BY DEF Edit, record, memory, NoFault
<1>2. PICK f \in Files, item \in Items :
        \/ src' = [src EXCEPT ![f] = item] /\ dst' = dst
        \/ dst' = [dst EXCEPT ![f] = item] /\ src' = src
  BY DEF Edit
<1>3. FilesTyped'
  BY <1>1, <1>2 DEF Ledger, FilesTyped, Trees
<1> QED
  BY <1>1, <1>3, StandsStill

LEMMA StuttersKeeps ==
  ASSUME Ledger, Position, RequestCancel \/ UNCHANGED allVars
  PROVE  Ledger' /\ Position'
<1>1. /\ Still /\ pc' = pc /\ cur' = cur
      /\ events' = events /\ method' = method /\ broken' = broken
  BY DEF RequestCancel, NoFault, Still, allVars, memory
<1>2. FilesTyped'
  BY <1>1, StillTyped
<1> QED
  BY <1>1, <1>2, StillKeeps, StandsStill

LEMMA ResumeKeeps ==
  ASSUME Ledger, Position, Resume
  PROVE  Ledger' /\ Position'
<1>1. /\ Still /\ pc' = "classify" /\ cur' = 1 /\ events' = events /\ method' = method
  BY DEF Resume, Still, NoFault
<1> QED
  BY <1>1, AbortsStill DEF Outside

LEMMA ClassifyOpenKeeps ==
  ASSUME Ledger, Position, ClassifyOpen
  PROVE  Ledger' /\ Position'
<1>1. pc = "classify" /\ cur \in Nat \ {0} /\ cur <= NumActions
  BY DEF ClassifyOpen, Position, Standing
<1>2. PICK a \in Actions : a = cur
  BY <1>1 DEF Actions
<1>3. Still
  BY DEF ClassifyOpen, Records, Still
<1>4. CASE a \in Open
  <2>1. HasPlan(a) /\ LastPhase(a) \in OpenPhases
    <3>1. HasPlan(a) /\ Outcome(a) = "in_progress"
      BY <1>4 DEF Open, PlannedActions
    <3> QED
      BY <3>1, OutcomePhases DEF Ledger, RowsFit
  <2>2. PICK e \in Row : /\ e = Classification(Replay(cur))
                         /\ e.phase \in {"recovery_review", "interrupted"}
    <3>1. Event("interrupted") \in Row /\ Event("interrupted").phase = "interrupted"
      BY EventRow DEF Phases
    <3> QED
      BY <3>1, ReviewRow DEF Classification
  <2>3. CASE Writes(cur, Classification(Replay(cur))) /\ NextAction("classify")
    <3>1. pc' = "classify" /\ cur' = cur + 1 /\ cur' \in Nat \ {0}
      BY <1>1, <2>3 DEF NextAction
    <3>2. AppendEvent(a, e)
      BY <1>2, <2>2, <2>3, RowAppended
    <3>3. Ledger' /\ Told(a, e) /\ method' = method
      BY <1>3, <2>1, <2>2, <3>2, StillKeeps, StillTyped, LedgerTold
    <3>4. \A b \in Actions : /\ HasPlan(b) => PlanRow(b)' = PlanRow(b)
                             /\ LastPhase(b) \in ShownPhases => LastPhase(b)' \in ShownPhases
      BY <2>1, <3>3, PhaseNames DEF Told, RowsKept
    <3> QED
      BY <1>3, <3>1, <3>3, <3>4, StillKeeps, GoesOut DEF Outside
  <2>4. CASE WriteFails(cur, Classification(Replay(cur))) /\ Abort
    <3>1. pc' = "idle" /\ cur' = cur
      BY <2>4 DEF Abort, Goto
    <3> QED
      BY <1>1, <1>3, <2>4, <3>1, RowLost, AbortsStill DEF Outside
  <2> QED
    BY <1>2, <1>4, <2>3, <2>4 DEF ClassifyOpen, Records
<1>5. CASE a \notin Open
  <2>1. pc' = "classify" /\ cur' = cur + 1 /\ events' = events /\ method' = method
    BY <1>2, <1>5 DEF ClassifyOpen, NextAction, NoFault
  <2> QED
    BY <1>1, <1>3, <2>1, AbortsStill DEF Outside
<1> QED
  BY <1>4, <1>5

-----------------------------------------------------------------------------
(* A run begins: its snapshot, the inventory, and the plan rows. *)

LEMMA StartRunKeeps ==
  ASSUME Ledger, StartRun
  PROVE  Ledger' /\ Position'
<1>1. /\ method' = method /\ events' = [a \in Actions |-> <<>>] /\ plan' = BuildPlan
      /\ inventory' = src /\ taken' = Nothing /\ witnessed' = Nothing /\ kept' = Nothing
      /\ recon' = "none" /\ src' = src /\ dst' = dst /\ trash' = trash
      /\ pc' = "begun" /\ cur' = 1
  BY DEF StartRun
<1>2. Actions' = Actions /\ method \in Methods \cup {NoMethod}
  BY DEF Actions, Ledger, JournalSound, TypeOK
<1>3. JournalSound'
  <2>1. (method \in Methods \cup {NoMethod} /\ events = [a \in Actions |-> <<>>])'
    BY <1>1, <1>2
  <2> QED
    BY <2>1, SoundEmpty, PTL
<1>4. Nothing \in [Files -> Items] /\ \A f \in Files : Nothing[f] = NoContent
  BY DEF Nothing, Items
<1>5. Trees
  BY DEF Ledger, FilesTyped
<1>6. FilesTyped'
  BY <1>1, <1>4 DEF Ledger, FilesTyped, Trees
<1>7. PlanFits'
  BY <1>1, <1>5, PlanShape DEF PlanFits, Removes
<1>8. \A a \in Actions : ~HasPlan(a)' /\ LastPhase(a)' = "none"
  BY <1>1 DEF HasPlan, LastPhase
<1>9. RowsFit' /\ RemovedTaken'
  BY <1>2, <1>8 DEF RowsFit, RemovedTaken
<1>10. RemovedInOrder'
  <2> SUFFICES ASSUME NEW b \in 1..Len(BuildPlan) PROVE Nothing[BuildPlan[b].path] = NoContent
    BY <1>1 DEF RemovedInOrder
  <2>1. BuildPlan \in Seq(Step)
    BY <1>5, PlanShape
  <2>2. BuildPlan[b] \in Step
    BY <2>1
  <2> QED
    BY <1>4, <2>2 DEF Step
<1>11. Standing'
  BY <1>1, <1>2, <1>8 DEF Standing, RunSteps, Looping, Working, Reconciling
<1>12. SettledBehind' /\ StepFits' /\ StepProven'
  <2>1. pc' \notin Proving \cup {"settle", "verified", "complete", "transfer", "next"}
    BY <1>1 DEF Proving, Removing
  <2> QED
    BY <2>1, NoFit, NoProof DEF SettledBehind
<1>13. TakenShown' /\ ReconTrue'
  BY <1>1, <1>4 DEF TakenShown, ReconTrue
<1> QED
  BY <1>3, <1>6, <1>7, <1>9, <1>10, <1>11, <1>12, <1>13 DEF Ledger, Position

LEMMA ReopenKeeps ==
  ASSUME Ledger, Position, Reopen
  PROVE  Ledger' /\ Position'
<1>1. CASE StartRun
  BY <1>1, StartRunKeeps
<1>2. CASE Abort /\ NoFault /\ UNCHANGED <<files, record, kept, cancel, runs, edited>>
  <2>1. Still /\ pc' = "idle" /\ cur' = cur /\ events' = events /\ method' = method
    BY <1>2 DEF Still, Abort, Goto, NoFault
  <2>2. cur \in Nat \ {0}
    BY DEF Position, Standing
  <2> QED
    BY <2>1, <2>2, AbortsStill DEF Outside
<1> QED
  BY <1>1, <1>2 DEF Reopen

(* While the plan is written nothing is taken.                              *)
LEMMA PlanningTakesNothing ==
  ASSUME Ledger, Position, pc \in {"begun", "persist"}
  PROVE  \A f \in Files : taken[f] = NoContent
<1> SUFFICES ASSUME NEW f \in Files, taken[f] # NoContent PROVE FALSE
  OBVIOUS
<1>1. PICK a \in RemovalsOf(f) : LastPhase(a) \in ShownPhases
  BY DEF Position, TakenShown
<1>2. a \in Actions
  BY PlanBounds DEF RemovalsOf, Ledger
<1>3. LastPhase(a) \in {"none", "planned"}
  BY <1>2 DEF Position, Standing
<1> QED
  BY <1>1, <1>3 DEF ShownPhases

(* The steps that only plan need no proof and show nothing as taken.        *)
LEMMA Plans ==
  ASSUME Ledger, Position, pc \in {"begun", "persist"}, pc' \in {"persist", "next"},
         taken' = taken, recon' = recon, inventory' = inventory,
         Standing', pc' = "next" => cur' = 1
  PROVE  Position'
<1>1. /\ pc' \notin Proving \cup {"settle", "verified", "complete", "transfer", "record_drained"}
      /\ pc \notin Outside
  BY DEF Proving, Removing, Outside
<1>2. SettledBehind'
  BY DEF SettledBehind
<1>3. StepFits' /\ StepProven'
  BY <1>1, NoFit, NoProof
<1>4. TakenShown'
  BY PlanningTakesNothing DEF TakenShown
<1>5. ReconTrue'
  BY <1>1, ReconStays DEF Position
<1> QED
  BY <1>2, <1>3, <1>4, <1>5 DEF Position

LEMMA RecordInventoryKeeps ==
  ASSUME Ledger, Position, RecordInventory
  PROVE  Ledger' /\ Position'
<1>1. /\ pc = "begun" /\ pc' \in {"persist", "idle"} /\ cur' = cur
      /\ events' = events /\ method' = method
      /\ src' = src /\ dst' = dst /\ trash' = trash /\ taken' = taken /\ witnessed' = witnessed
      /\ inventory' = inventory /\ plan' = plan /\ recon' = recon /\ kept' = kept
  BY DEF RecordInventory, files, NoFault, StoreFault, Goto, Abort
<1>2. FilesTyped'
  BY <1>1 DEF Ledger, FilesTyped, Trees
<1>3. Ledger' /\ \A b \in Actions : RowsKept(b)
  BY <1>1, <1>2, LedgerFiles
<1>4. \A b \in Actions : /\ HasPlan(b) => PlanRow(b)' = PlanRow(b)
                         /\ LastPhase(b)' = LastPhase(b)
  BY <1>3 DEF RowsKept
<1>5. cur = 1 /\ \A a \in Actions : LastPhase(a) = "none"
  BY <1>1 DEF Position, Standing
<1>6. CASE pc' = "persist"
  <2>1. cur' <= Len(plan') + 1
    BY <1>1, <1>5, PlanBounds DEF Ledger
  <2>2. \A a \in Actions' : LastPhase(a)' = "none" /\ ~(a < cur')
    BY <1>1, <1>4, <1>5 DEF Actions
  <2>3. pc' \in RunSteps /\ pc' \notin Looping
    BY <1>6 DEF RunSteps, Looping, Working, Reconciling
  <2>4. Standing'
    BY <1>1, <1>5, <1>6, <2>1, <2>2, <2>3 DEF Standing
  <2> QED
    BY <1>1, <1>3, <1>6, <2>4, Plans
<1>7. CASE pc' = "idle"
  BY <1>1, <1>3, <1>4, <1>5, <1>7, GoesOut DEF Outside
<1> QED
  BY <1>1, <1>6, <1>7

(* The plan row of the next action.                                         *)
LEMMA RowPlanned ==
  ASSUME Ledger, Position, pc = "persist", Still, NEW a \in 1..Len(plan), a = cur,
         NEW e \in Row, e.phase = "planned", e.op = plan[a].op, AppendEvent(a, e)
  PROVE  /\ Ledger' /\ Told(a, e)
         /\ \A b \in Actions : LastPhase(b)' = IF b < cur + 1 THEN "planned" ELSE "none"
<1>1. a \in Actions /\ Len(plan) \in Nat /\ Actions = 1..NumActions
  BY PlanBounds DEF Ledger
<1>2. \A b \in Actions : LastPhase(b) = IF b < cur THEN "planned" ELSE "none"
  BY DEF Position, Standing
<1>3. \A b \in Actions : HasPlan(b) <=> b < a
  <2>1. ASSUME NEW b \in Actions, HasPlan(b) PROVE LastPhase(b) # "none"
    <3>1. LastRow(b) \in Row /\ LastPhase(b) = LastRow(b).phase
      BY <2>1 DEF Ledger, JournalSound, TypeOK, HasPlan, LastRow, LastPhase
    <3> QED
      BY <3>1 DEF Row, Phases
  <2>2. \A b \in Actions : ~HasPlan(b) => LastPhase(b) = "none"
    BY DEF LastPhase
  <2> QED
    BY <1>2, <2>1, <2>2
<1>4. Told(a, e)
  BY <1>1, RowTold DEF Ledger
<1>5. JournalSound'
  BY <1>1, SoundAppend DEF Ledger
<1>6. FilesTyped' /\ PlanFits' /\ RemovedInOrder'
  <2>1. FilesTyped'
    BY StillTyped
  <2>2. PlanFits'
    BY StillKeeps DEF Ledger, PlanFits, Removes
  <2>3. RemovedInOrder'
    BY StillKeeps DEF Ledger, RemovedInOrder
  <2> QED
    BY <2>1, <2>2, <2>3
<1>7. /\ HasPlan(a)' /\ LastPhase(a)' = "planned" /\ PlanRow(a)' = e
      /\ \A b \in Actions : b # a => RowsKept(b)
  BY <1>1, <1>3, <1>4 DEF Told
<1>8. ASSUME NEW b \in Actions, b < a, b # a PROVE HasPlan(b)'
  <2>1. HasPlan(b) /\ RowsKept(b)
    BY <1>3, <1>7, <1>8
  <2> QED
    BY <2>1 DEF RowsKept
<1>9. plan' = plan /\ taken' = taken /\ Actions' = Actions
      /\ \A b \in Actions : Removes(b)' = Removes(b)
  BY StillKeeps DEF Actions, Removes
<1>10. RowsFit'
  <2> SUFFICES ASSUME NEW b \in Actions, HasPlan(b)'
               PROVE  /\ b <= Len(plan)
                      /\ PlanRow(b)'.op = plan[b].op
                      /\ \A c \in 1..b : HasPlan(c)'
                      /\ LastPhase(b)' # "recovery_resolved"
                      /\ LastPhase(b)' = "completed" => ~Removes(b)
    BY <1>9 DEF RowsFit
  <2>1. CASE b = a
    <3>1. ASSUME NEW c \in 1..a PROVE HasPlan(c)'
      <4>1. c \in Actions /\ (c = a \/ (c < a /\ c # a))
        BY <1>1, JournalAssumption
      <4> QED
        BY <1>7, <1>8, <4>1
    <3> QED
      BY <1>7, <2>1, <3>1
  <2>2. CASE b # a
    <3>1. HasPlan(b) /\ LastPhase(b)' = LastPhase(b) /\ PlanRow(b)' = PlanRow(b)
      BY <1>7, <2>2 DEF RowsKept
    <3>2. LastPhase(b) = "planned" /\ b <= Len(plan) /\ PlanRow(b).op = plan[b].op /\ b < a
      BY <1>2, <1>3, <3>1 DEF Ledger, RowsFit
    <3>3. ASSUME NEW c \in 1..b PROVE HasPlan(c)'
      <4>1. c \in Actions /\ c < a /\ c # a
        BY <1>1, <3>2, JournalAssumption
      <4> QED
        BY <1>8, <4>1
    <3> QED
      BY <3>1, <3>2, <3>3
  <2> QED
    BY <2>1, <2>2
<1>11. \A b \in Actions : LastPhase(b)' = IF b < cur + 1 THEN "planned" ELSE "none"
  <2> SUFFICES ASSUME NEW b \in Actions
               PROVE  LastPhase(b)' = IF b < cur + 1 THEN "planned" ELSE "none"
    OBVIOUS
  <2>1. CASE b = a
    BY <1>1, <1>7, <2>1
  <2>2. CASE b # a
    BY <1>1, <1>2, <1>7, <2>2 DEF RowsKept
  <2> QED
    BY <2>1, <2>2
<1>12. RemovedTaken'
  BY <1>9, <1>11 DEF RemovedTaken
<1> QED
  BY <1>4, <1>5, <1>6, <1>10, <1>11, <1>12 DEF Ledger

LEMMA PlannedRow ==
  ASSUME NEW op \in Operations, NEW item \in Contents
  PROVE  Planned(op, item) \in Row /\ Planned(op, item).phase = "planned" /\ Planned(op, item).op = op
<1>1. Event("planned") \in Row /\ Event("planned").phase = "planned"
  BY EventRow DEF Phases
<1>2. /\ [Event("planned") EXCEPT !.op = op] \in Row
      /\ [Event("planned") EXCEPT !.op = op].phase = "planned"
      /\ [Event("planned") EXCEPT !.op = op].op = op
  BY <1>1 DEF Row
<1> QED
  BY <1>2 DEF Planned, Row

LEMMA PlanActionKeeps ==
  ASSUME Ledger, Position, PlanAction
  PROVE  Ledger' /\ Position'
<1>1. pc = "persist" /\ cur <= Len(plan) /\ cur \in Nat \ {0}
  BY DEF PlanAction, Position, Standing
<1>2. PICK a \in 1..Len(plan) : a = cur
  BY <1>1, PlanBounds DEF Ledger
<1>3. plan[a] \in Step /\ plan[a].path \in Files /\ plan[a].op \in Operations
      /\ a \in Actions /\ Len(plan) \in Nat
  BY PlanBounds DEF Ledger, Step
<1> DEFINE item == IF Op = "remove_destination" THEN dst[Path] ELSE src[Path]
<1>4. item \in Items
  BY <1>2, <1>3 DEF Ledger, FilesTyped, Trees, Path
<1>5. \/ item = NoContent /\ Abort /\ GiveUp /\ UNCHANGED <<files, record, cancel, runs, edited>>
      \/ item # NoContent /\ Records(Planned(Op, item), NextAction("persist"), Abort)
  BY DEF PlanAction
<1>6. kept' = kept
  BY DEF PlanAction
<1> HIDE DEF item
<1>7. Still
  BY <1>5, <1>6 DEF Still, Records
<1>8. CASE item = NoContent /\ Abort /\ GiveUp
  <2>1. pc' = "idle" /\ cur' = cur /\ events' = events /\ method' = method
    BY <1>8 DEF Abort, Goto, GiveUp
  <2> QED
    BY <1>1, <1>7, <2>1, AbortsStill DEF Outside
<1>9. CASE WriteFails(cur, Planned(Op, item)) /\ Abort
  <2>1. pc' = "idle" /\ cur' = cur
    BY <1>9 DEF Abort, Goto
  <2> QED
    BY <1>1, <1>7, <1>9, <2>1, RowLost, AbortsStill DEF Outside
<1>10. CASE item # NoContent /\ Writes(cur, Planned(Op, item)) /\ NextAction("persist")
  <2>1. pc' = "persist" /\ cur' = cur + 1
    BY <1>10 DEF NextAction
  <2>2. PICK e \in Row : e = Planned(Op, item) /\ e.phase = "planned" /\ e.op = plan[a].op
    <3>1. item \in Contents /\ Op \in Operations /\ Op = plan[a].op
      BY <1>2, <1>3, <1>4, <1>10 DEF Items, Op
    <3> QED
      BY <3>1, PlannedRow
  <2>3. AppendEvent(a, e)
    BY <1>2, <1>10, <2>2, RowAppended
  <2>4. /\ Ledger'
        /\ \A b \in Actions : LastPhase(b)' = IF b < cur + 1 THEN "planned" ELSE "none"
    BY <1>1, <1>2, <1>7, <2>2, <2>3, RowPlanned
  <2>5. Standing'
    <3>1. plan' = plan /\ Actions' = Actions
      BY <1>7, StillKeeps DEF Actions
    <3>2. pc' \in RunSteps /\ pc' \notin Looping
      BY <2>1 DEF RunSteps, Looping, Working, Reconciling
    <3>3. cur' \in Nat \ {0} /\ cur' <= Len(plan) + 1
      BY <1>1, <1>3, <2>1
    <3> QED
      BY <2>1, <2>4, <3>1, <3>2, <3>3 DEF Standing
  <2> QED
    BY <1>1, <1>7, <2>1, <2>4, <2>5, StillKeeps, Plans
<1> QED
  BY <1>5, <1>8, <1>9, <1>10 DEF Records

LEMMA PlanWrittenKeeps ==
  ASSUME Ledger, Position, PlanWritten
  PROVE  Ledger' /\ Position'
<1>1. /\ pc = "persist" /\ cur > Len(plan) /\ pc' = "next" /\ cur' = 1 /\ Still
      /\ events' = events /\ method' = method
  BY DEF PlanWritten, Still, NoFault
<1>2. Ledger' /\ \A b \in Actions : RowsKept(b)
  BY <1>1, LedgerSame
<1>3. Len(plan) \in Nat /\ cur \in Nat /\ \A b \in 1..Len(plan) : b \in Actions
  BY PlanBounds DEF Ledger, Position, Standing
<1>4. \A b \in 1..Len(plan) : HasPlan(b) /\ LastPhase(b) = "planned"
  <2>1. \A b \in 1..Len(plan) : LastPhase(b) = "planned"
    BY <1>1, <1>3 DEF Position, Standing
  <2> QED
    BY <2>1 DEF LastPhase
<1>5. \A b \in 1..Len(plan) : HasPlan(b)' /\ LastPhase(b)' = "planned"
  BY <1>2, <1>3, <1>4 DEF RowsKept
<1>6. Standing'
  <2>1. /\ pc' \in RunSteps /\ pc' \in Looping /\ pc' \notin Working \cup Reconciling
        /\ At(pc') = {"planned"}
    BY <1>1 DEF RunSteps, Looping, Working, Reconciling, At
  <2>2. plan' = plan /\ cur' <= Len(plan) + 1
    BY <1>1, <1>3, StillKeeps
  <2> QED
    BY <1>1, <1>3, <1>5, <2>1, <2>2 DEF Standing
<1> QED
  BY <1>1, <1>2, <1>6, StillKeeps, Plans

-----------------------------------------------------------------------------
(* Completion Reconciliation. *)

(* A path it finds nothing to say of was drained by this run.               *)
LEMMA DrainedTaken ==
  ASSUME Ledger, Position, NEW f \in Files, Drained(f)
  PROVE  taken[f] = inventory[f]
<1>1. CASE inventory[f] = NoContent
  <2> SUFFICES ASSUME taken[f] # NoContent PROVE FALSE
    BY <1>1
  <2>1. PICK a \in RemovalsOf(f) : TRUE
    BY DEF Position, TakenShown
  <2> QED
    BY <1>1, <2>1 DEF RemovalsOf, Ledger, PlanFits, Removes
<1>2. CASE inventory[f] # NoContent
  <2>1. /\ \A a \in ActionsOn(f) : Outcome(a) = "completed"
        /\ \E a \in ActionsOn(f) :
             /\ plan[a].op = "remove_source"
             /\ LastRow(a).evidence.dst = inventory[f]
    BY <1>2 DEF Drained
  <2>2. PICK a \in ActionsOn(f) :
          /\ plan[a].op = "remove_source"
          /\ LastRow(a).evidence.dst = inventory[f]
    BY <2>1
  <2>3. /\ a \in 1..Len(plan) /\ plan[a].path = f /\ HasPlan(a) /\ Removes(a)
        /\ Outcome(a) = "completed" /\ a \in Actions
    BY <2>1, <2>2, PlanBounds DEF ActionsOn, Removes, Ledger
  <2>4. LastPhase(a) # "recovery_resolved" /\ LastPhase(a) # "completed"
    BY <2>3 DEF Ledger, RowsFit
  <2>5. LastPhase(a) = "removal_completed"
    BY <2>3, <2>4, OutcomePhases DEF Ledger
  <2> QED
    BY <2>2, <2>3, <2>5 DEF Ledger, RemovedTaken
<1> QED
  BY <1>1, <1>2

LEMMA ReconcileKeeps ==
  ASSUME Ledger, Position, Reconcile
  PROVE  Ledger' /\ Position'
<1>1. /\ pc = "reconcile" /\ Still /\ cur' = cur /\ events' = events /\ method' = method
      /\ pc' \in {"record_drained", "record_findings"}
      /\ pc' = "record_drained" => \A f \in Files : Drained(f)
  <2>1. CASE Goto(IF \A f \in Files : Drained(f) THEN "record_drained" ELSE "record_findings") /\ NoFault
    BY <2>1 DEF Reconcile, Still, Goto, NoFault
  <2>2. CASE Fault /\ Goto("record_findings")
    BY <2>2 DEF Reconcile, Still, Goto, Fault
  <2> QED
    BY <2>1, <2>2 DEF Reconcile
<1>2. ASSUME pc' = "record_drained" PROVE taken = inventory
  <2>1. \A f \in Files : taken[f] = inventory[f]
    BY <1>1, <1>2, DrainedTaken
  <2>2. taken \in [Files -> Items] /\ inventory \in [Files -> Items]
    BY DEF Ledger, FilesTyped
  <2> QED
    BY <2>1, <2>2
<1> QED
  BY <1>1, <1>2, Turns

LEMMA RecordReconciliationKeeps ==
  ASSUME Ledger, Position, RecordReconciliation
  PROVE  Ledger' /\ Position'
<1>1. /\ pc' = "idle" /\ cur' = cur /\ events' = events /\ method' = method
      /\ src' = src /\ dst' = dst /\ trash' = trash /\ taken' = taken /\ witnessed' = witnessed
      /\ inventory' = inventory /\ plan' = plan /\ kept' = kept
      /\ recon' = "drained" => pc = "record_drained" \/ recon = "drained"
  BY DEF RecordReconciliation, files, NoFault, StoreFault, Goto, Abort
<1>2. FilesTyped'
  BY <1>1 DEF Ledger, FilesTyped, Trees
<1>3. Ledger' /\ \A b \in Actions : RowsKept(b)
  BY <1>1, <1>2, LedgerFiles
<1>4. \A b \in Actions : /\ HasPlan(b) => PlanRow(b)' = PlanRow(b)
                         /\ LastPhase(b) \in ShownPhases => LastPhase(b)' \in ShownPhases
  BY <1>3 DEF RowsKept
<1>5. ReconTrue' /\ cur \in Nat \ {0}
  BY <1>1 DEF Position, Standing, ReconTrue, Outside
<1> QED
  BY <1>1, <1>3, <1>4, <1>5, GoesOut DEF Outside

-----------------------------------------------------------------------------
(* The relation holds from the first step on. *)

LEMMA RunStarts == RunInit => Ledger /\ Position
<1> SUFFICES ASSUME RunInit PROVE Ledger /\ Position
  OBVIOUS
<1>1. Nothing \in [Files -> Items] /\ \A f \in Files : Nothing[f] = NoContent
  BY DEF Nothing, Items
<1>2. JournalSound
  BY SoundEmpty DEF RunInit
<1>3. FilesTyped
  BY <1>1 DEF RunInit, FilesTyped, Trees
<1>4. plan = <<>> /\ <<>> \in Seq(Step) /\ Len(plan) = 0
  BY DEF RunInit
<1>5. PlanFits /\ RemovedInOrder
  <2>1. 1..Len(plan) = {} /\ Len(plan) <= NumActions
    BY <1>4, JournalAssumption
  <2> QED
    BY <1>4, <2>1 DEF PlanFits, RemovedInOrder
<1>6. \A a \in Actions : ~HasPlan(a) /\ LastPhase(a) = "none"
  BY DEF RunInit, HasPlan, LastPhase
<1>7. RowsFit /\ RemovedTaken
  BY <1>6 DEF RowsFit, RemovedTaken
<1>8. /\ pc = "idle" /\ cur = 1 /\ recon = "none"
      /\ pc \in RunSteps /\ pc \notin Looping \cup {"begun", "persist", "next"}
      /\ pc \notin Proving \cup {"settle", "verified", "complete", "transfer"}
  BY DEF RunInit, RunSteps, Looping, Working, Reconciling, Proving, Removing
<1>9. Standing
  BY <1>8 DEF Standing
<1>10. SettledBehind /\ StepFits /\ StepProven
  BY <1>8 DEF SettledBehind, StepFits, StepProven, Proving
<1>11. TakenShown /\ ReconTrue
  BY <1>1, <1>8 DEF RunInit, TakenShown, ReconTrue, Outside
<1> QED
  BY <1>2, <1>3, <1>5, <1>7, <1>9, <1>10, <1>11 DEF Ledger, Position

LEMMA RunGoesOn == Ledger /\ Position /\ [RunNext]_allVars => Ledger' /\ Position'
<1> SUFFICES ASSUME Ledger, Position, [RunNext]_allVars PROVE Ledger' /\ Position'
  OBVIOUS
<1>1. CASE Driver
  <2>1. CASE RecordInventory \/ PlanAction \/ PlanWritten
    BY <2>1, RecordInventoryKeeps, PlanActionKeeps, PlanWrittenKeeps
  <2>2. CASE BeginAction \/ StopLoop \/ FirstProgress \/ Defer
    BY <2>2, BeginActionKeeps, StopLoopKeeps, FirstProgressKeeps, DeferKeeps
  <2>3. CASE Transferred \/ TransferFails \/ RecordTransfer \/ CompleteTransfer
    BY <2>3, TransferredKeeps, TransferFailsKeeps, RecordTransferKeeps, CompleteTransferKeeps
  <2>4. CASE RecordJournalFailure \/ FailAction \/ ReviewAction
    BY <2>4, RecordJournalFailureKeeps, FailActionKeeps, ReviewActionKeeps
  <2>5. CASE CancelAction \/ CancelRemaining
    BY <2>5, CancelActionKeeps, CancelRemainingKeeps
  <2>6. CASE RefuseRemoval \/ ProveTransfer \/ ProveBoundary \/ StartRemoval
    BY <2>6, RefuseRemovalKeeps, ProveTransferKeeps, ProveBoundaryKeeps, StartRemovalKeeps
  <2>7. CASE RemoveSource \/ RecordRemoval \/ RecordUncertain \/ RecordFailure
    BY <2>7, RemoveSourceKeeps, RecordRemovalKeeps, RecordUncertainKeeps, RecordFailureKeeps
  <2>8. CASE FailUnresolved \/ RecordUnresolved
    BY <2>8, FailUnresolvedKeeps, RecordUnresolvedKeeps
  <2>9. CASE Reconcile \/ RecordReconciliation
    BY <2>9, ReconcileKeeps, RecordReconciliationKeeps
  <2>10. CASE ClassifyOpen \/ Reopen
    BY <2>10, ClassifyOpenKeeps, ReopenKeeps
  <2> QED
    BY <1>1, <2>1, <2>2, <2>3, <2>4, <2>5, <2>6, <2>7, <2>8, <2>9, <2>10 DEF Driver
<1>2. CASE Execute
  BY <1>2, StartRunKeeps DEF Execute
<1>3. CASE Resume
  BY <1>3, ResumeKeeps
<1>4. CASE RequestCancel \/ UNCHANGED allVars
  BY <1>4, StuttersKeeps
<1>5. CASE Crash
  BY <1>5, CrashKeeps
<1>6. CASE Edit
  BY <1>6, EditKeeps
<1> QED
  BY <1>1, <1>2, <1>3, <1>4, <1>5, <1>6 DEF RunNext

LEMMA RunInvariant == RunSpec => [](Ledger /\ Position)
BY RunStarts, RunGoesOn, PTL DEF RunSpec

-----------------------------------------------------------------------------
(* What the run promises about the sources it removes. *)

(* The one action of the plan that removes a taken source shows it.         *)
LEMMA RemovalShown ==
  ASSUME Ledger, Position, NEW f \in Files, taken[f] # NoContent, NEW a \in RemovalsOf(f)
  PROVE  /\ PlanRow(a).planned = taken[f]
         /\ LastPhase(a) \in ShownPhases
<1>1. PICK b \in RemovalsOf(f) : PlanRow(b).planned = taken[f] /\ LastPhase(b) \in ShownPhases
  BY DEF Position, TakenShown
<1>2. a = b
  BY DEF RemovalsOf, Ledger, PlanFits, Removes
<1> QED
  BY <1>1, <1>2

(* A source the run took is never reported as kept: whatever write is lost  *)
(* and wherever the process dies, the rows settle_one wrote ahead make the  *)
(* replay of apply_stored_event say completed or Recovery Review, also      *)
(* after the open actions of the run have been classified by a resume.      *)
THEOREM SafeDeleteNeverHidden == RunSpec => []RemovalNeverHidden
<1>1. Ledger /\ Position => RemovalNeverHidden
  <2> SUFFICES ASSUME Ledger, Position, NEW f \in Files, taken[f] # NoContent,
                      NEW a \in RemovalsOf(f)
               PROVE  Outcome(a) \in {"completed", "recovery_review"}
    BY DEF RemovalNeverHidden
  <2>1. LastPhase(a) \in ShownPhases
    BY RemovalShown
  <2>2. a \in Actions /\ HasPlan(a)
    BY <2>1, PlanBounds DEF RemovalsOf, Ledger, LastPhase, ShownPhases
  <2> QED
    BY <2>1, <2>2, OutcomePhases DEF Ledger, ShownPhases
<1> QED
  BY <1>1, RunInvariant, PTL

(* What the run took from the source is the planned version, the one the    *)
(* destination held when the proof boundary of settle_one was written, and  *)
(* with the trash method it is at its recovery target (perform_removal).    *)
THEOREM SafeDeleteTakenWasProven == RunSpec => []TakenWasProven
<1>1. Ledger /\ Position => TakenWasProven
  <2> SUFFICES ASSUME Ledger, Position, NEW f \in Files, taken[f] # NoContent
               PROVE  /\ witnessed[f] = taken[f]
                      /\ \A a \in RemovalsOf(f) : PlanRow(a).planned = taken[f]
                      /\ method = "trash" => trash[f] = taken[f]
    BY DEF TakenWasProven
  <2>1. \A a \in RemovalsOf(f) : PlanRow(a).planned = taken[f]
    BY RemovalShown
  <2> QED
    BY <2>1 DEF Position, TakenShown
<1> QED
  BY <1>1, RunInvariant, PTL

(* A recorded reconciliation that says drained is true: the run itself took *)
(* every item of the Source Inventory, in the version the inventory names   *)
(* (CompletionReconciliation::reconcile over the journal).                  *)
THEOREM SafeDeleteDrainedIsTrue == RunSpec => []DrainedIsTrue
<1>1. Position => DrainedIsTrue
  BY DEF Position, ReconTrue, DrainedIsTrue
<1> QED
  BY <1>1, RunInvariant, PTL

(* No source goes while an earlier removal of the plan has not succeeded    *)
(* (ensure_prior_source_removals_settled).                                  *)
THEOREM SafeDeleteInOrder == RunSpec => []RemovedInOrder
<1>1. Ledger => RemovedInOrder
  BY DEF Ledger
<1> QED
  BY <1>1, RunInvariant, PTL

(* A run that reaches Completion Reconciliation has no action in progress,  *)
(* however it was cancelled and whatever failed (the loop of execute_plan   *)
(* with cancel_remaining and settle_source_removal).                        *)
THEOREM SafeDeleteNothingLeftOpen == RunSpec => []NothingLeftOpen
<1>1. Ledger /\ Position => NothingLeftOpen
  <2> SUFFICES ASSUME Ledger, Position, pc \in Reconciling, NEW a \in Actions, HasPlan(a)
               PROVE  Outcome(a) # "in_progress"
    BY DEF NothingLeftOpen, Open, PlannedActions, Reconciling
  <2>1. a <= Len(plan) /\ LastPhase(a) # "recovery_resolved"
    BY DEF Ledger, RowsFit
  <2>2. a \in 1..Len(plan) /\ cur = Len(plan) + 1 /\ a < cur
    <3>1. cur = Len(plan) + 1
      BY DEF Position, Standing, Looping
    <3> QED
      BY <2>1, <3>1, PlanBounds DEF Ledger, Actions
  <2>3. LastPhase(a) \notin OpenPhases
    BY <2>2 DEF Position, Standing, Looping
  <2> QED
    BY <2>1, <2>3, OutcomePhases DEF Ledger
<1> QED
  BY <1>1, RunInvariant, PTL

-----------------------------------------------------------------------------
(* The rows the driver means to write are taken. *)

(* A row without evidence of an action that is worked on.                   *)
LEMMA PlainRowAccepted ==
  ASSUME Ledger, NEW a \in 1..Len(plan), NEW e, LastPhase(a) \in WorkingPhases,
         e.phase \in {"progress", "completed", "failed", "cancelled", "deferred",
                      "unresolved", "recovery_review"},
         LastPhase(a) \in MayFollow(e.phase),
         e.phase = "completed" => PlannedOp(a) # "remove_source"
  PROVE  Accepts(a, e)
<1>1. \A b \in 1..(a - 1) : LastPhase(b) \in SettledPhases
  BY EarlierSettled
<1>2. ValidEvent(a, e)
  BY DEF ValidEvent, SettlesThroughRemoval, FrozenMethod
<1>3. TransferMatchesPlan(a, e) /\ RemovalMatchesProof(a, e) /\ ResolutionIsNewer(a, e)
  BY DEF TransferMatchesPlan, RemovalMatchesProof, ResolutionIsNewer
<1>4. PriorActionsSettled(a, e)
  BY <1>1 DEF PriorActionsSettled
<1> QED
  BY <1>2, <1>3, <1>4 DEF Accepts

(* The rows that carry the evidence of a transfer or a removal.             *)
LEMMA BoundaryRowAccepted ==
  ASSUME Ledger, NEW a \in 1..Len(plan), NEW e, LastPhase(a) \in WorkingPhases,
         e.phase \in {"transfer_verified", "proof_boundary", "removal_started",
                      "removal_completed"},
         LastPhase(a) \in MayFollow(e.phase),
         e.phase \in {"transfer_verified", "proof_boundary"} => BothSidesProven(e.evidence),
         e.phase = "transfer_verified" =>
           /\ PlannedOp(a) \in TransferOperations
           /\ e.evidence.src = PlanRow(a).planned,
         e.phase # "transfer_verified" =>
           PlannedOp(a) = "remove_source" /\ e.method = method,
         e.phase = "removal_completed" =>
           RemovalOutcomeShown(e) /\ e.evidence.dst = Replay(a).proof
  PROVE  Accepts(a, e)
<1>0. a \in Actions
  BY PlanBounds DEF Ledger
<1>1. \A b \in 1..(a - 1) : LastPhase(b) \in SettledPhases
  BY EarlierSettled
<1>2. ValidEvent(a, e)
  BY DEF ValidEvent, SettlesThroughRemoval, FrozenMethod
<1>3. TransferMatchesPlan(a, e)
  <2>1. HasPlan(a)
    BY DEF LastPhase, WorkingPhases
  <2> QED
    BY <2>1 DEF TransferMatchesPlan, BothSidesProven
<1>4. RemovalMatchesProof(a, e)
  <2> SUFFICES ASSUME e.phase = "removal_completed"
               PROVE  \E i \in RowsOf(a, "proof_boundary") :
                        /\ \A j \in RowsOf(a, "proof_boundary") : j <= i
                        /\ events[a][i].evidence.dst # NoContent
                        /\ e.evidence.dst = events[a][i].evidence.dst
    BY DEF RemovalMatchesProof
  <2>1. LastPhase(a) = "removal_started"
    BY DEF MayFollow
  <2>2. Replay(a).proved
    BY <1>0, <2>1 DEF Ledger, JournalSound, ReplayAgrees, BoundariesAgree
  <2>3. PICK i \in RowsOf(a, "proof_boundary") :
          /\ \A j \in RowsOf(a, "proof_boundary") : j <= i
          /\ Replay(a).proof = events[a][i].evidence.dst
    BY <1>0, <2>2 DEF Ledger, JournalSound, ReplayAgrees, EvidenceAgrees
  <2>4. e.evidence.dst # NoContent
    BY DEF RemovalOutcomeShown
  <2> QED
    BY <2>3, <2>4
<1>5. PriorActionsSettled(a, e) /\ ResolutionIsNewer(a, e)
  BY <1>1 DEF PriorActionsSettled, ResolutionIsNewer
<1> QED
  BY <1>2, <1>3, <1>4, <1>5 DEF Accepts

(* The rows that open an action or give it up unopened.                     *)
LEMMA FirstRowAccepted ==
  ASSUME Ledger, NEW a \in 1..Len(plan), NEW e, LastPhase(a) = "planned",
         e.phase \in {"started", "cancelled"},
         e.phase = "started" => \A b \in 1..(a - 1) : LastPhase(b) \in SettledPhases
  PROVE  Accepts(a, e)
BY DEF Accepts, ValidEvent, MayFollow, NothingDone, SettlesThroughRemoval, FrozenMethod,
       TransferMatchesPlan, RemovalMatchesProof, PriorActionsSettled, ResolutionIsNewer,
       ExemptFromOrder

(* The row about to be written, step by step.                               *)
LEMMA PendingRows ==
  ASSUME Ledger, Position, NEW a \in 1..Len(plan), a = cur,
         pc \in Working \ {"transfer", "settle", "remove"},
         pc = "verified" => kept[plan[a].path] = PlanRow(a).planned
  PROVE  Accepts(a, PendingRow)
<1>1. HasPlan(a) /\ LastPhase(a) \in At(pc) /\ LastPhase(a) \in WorkingPhases /\ a \in Actions
  BY WorkingAction, StepNames
<1>2. PlannedOp(a) = plan[a].op
  BY <1>1 DEF PlannedOp, Ledger, RowsFit
<1>3. \A p \in Phases : Event(p).phase = p
  BY EventRow
<1>4. RecoveryReview(0).phase = "recovery_review"
  BY ReviewRow
<1>5. /\ TransferVerified(Proof).phase = "transfer_verified"
      /\ TransferVerified(Proof).evidence = Proof
      /\ ProofBoundary(Proof, method).phase = "proof_boundary"
      /\ ProofBoundary(Proof, method).evidence = Proof
      /\ ProofBoundary(Proof, method).method = method
      /\ RemovalStarted(method).phase = "removal_started"
      /\ RemovalStarted(method).method = method
      /\ RemovalCompleted(RemovalProof, method).phase = "removal_completed"
      /\ RemovalCompleted(RemovalProof, method).evidence = RemovalProof
      /\ RemovalCompleted(RemovalProof, method).method = method
  BY CurrentRows
<1>6. /\ Proof.dst = kept[plan[a].path] /\ Proof.src = kept[plan[a].path]
      /\ Proof.metadata = TRUE /\ Proof.sides = "transferred"
      /\ RemovalProof.dst = kept[plan[a].path]
      /\ RemovalProof.sides = IF method = "trash" THEN "trashed" ELSE "erased"
  BY ProofTyped DEF Ledger
<1>7. kept[plan[a].path] # NoContent => BothSidesProven(Proof)
  BY <1>6 DEF BothSidesProven
<1>8. CASE pc \in {"started", "defer", "fail_action", "cancel_action", "record_failure",
                   "fail_unresolved", "unresolved"}
  <2>1. PICK e : /\ e = PendingRow
                 /\ e.phase = CASE pc = "started" -> "progress"
                                [] pc = "defer" -> "deferred"
                                [] pc = "fail_action" -> "failed"
                                [] pc = "cancel_action" -> "cancelled"
                                [] OTHER -> "unresolved"
    BY <1>3, <1>8 DEF PendingRow, Phases
  <2>2. /\ e.phase \in {"progress", "deferred", "failed", "cancelled", "unresolved"}
        /\ LastPhase(a) \in MayFollow(e.phase)
    BY <1>1, <1>8, <2>1 DEF At, MayFollow, NothingDone, WorkingPhases
  <2> QED
    BY <1>1, <2>1, <2>2, PlainRowAccepted
<1>9. CASE pc \in {"journal_failure", "review_action", "record_uncertain"}
  <2>1. PICK e : e = PendingRow /\ e.phase = "recovery_review"
    BY <1>4, <1>9 DEF PendingRow
  <2>2. LastPhase(a) \in MayFollow(e.phase)
    BY <1>1, <2>1 DEF MayFollow
  <2> QED
    BY <1>1, <2>1, <2>2, PlainRowAccepted
<1>10. CASE pc = "complete"
  <2>1. PICK e : e = PendingRow /\ e.phase = "completed"
    BY <1>3, <1>10 DEF PendingRow, Phases
  <2>2. LastPhase(a) \in MayFollow(e.phase)
    BY <1>1, <2>1 DEF MayFollow
  <2>3. PlannedOp(a) # "remove_source"
    BY <1>2, <1>10 DEF Position, StepFits
  <2> QED
    BY <1>1, <2>1, <2>2, <2>3, PlainRowAccepted
<1>11. CASE pc = "verified"
  <2>1. PICK e : e = PendingRow /\ e.phase = "transfer_verified" /\ e.evidence = Proof
    BY <1>5, <1>11 DEF PendingRow
  <2>2. LastPhase(a) \in MayFollow(e.phase)
    BY <1>1, <1>11, <2>1 DEF At, MayFollow
  <2>3. plan[a].op \in {"copy", "overwrite"} /\ kept[plan[a].path] # NoContent
    BY <1>11 DEF Position, StepFits
  <2>4. PlannedOp(a) \in TransferOperations /\ e.evidence.src = PlanRow(a).planned
    BY <1>2, <1>6, <1>11, <2>1, <2>3 DEF TransferOperations
  <2> QED
    BY <1>1, <1>7, <2>1, <2>2, <2>3, <2>4, BoundaryRowAccepted
<1>12. CASE pc \in {"prove", "start_removal", "record_removal"}
  <2>1. /\ PlannedOp(a) = "remove_source" /\ kept[plan[a].path] # NoContent
        /\ pc = "record_removal" => Replay(a).proof = kept[plan[a].path]
    BY <1>2, <1>12 DEF Position, StepFits, StepProven, Proving, Removing, Removes
  <2>2. PICK e : /\ e = PendingRow /\ e.method = method
                 /\ e.phase = CASE pc = "prove" -> "proof_boundary"
                                [] pc = "start_removal" -> "removal_started"
                                [] OTHER -> "removal_completed"
                 /\ pc = "prove" => e.evidence = Proof
                 /\ pc = "record_removal" => e.evidence = RemovalProof
    BY <1>5, <1>12 DEF PendingRow
  <2>3. /\ e.phase \in {"proof_boundary", "removal_started", "removal_completed"}
        /\ e.phase = "proof_boundary" => e.evidence = Proof
        /\ e.phase = "removal_completed" => pc = "record_removal" /\ e.evidence = RemovalProof
    BY <1>12, <2>2
  <2>4. LastPhase(a) \in MayFollow(e.phase)
    BY <1>1, <1>12, <2>2 DEF At, MayFollow
  <2>5. e.phase = "removal_completed" =>
          RemovalOutcomeShown(e) /\ e.evidence.dst = Replay(a).proof
    BY <1>6, <2>1, <2>2, <2>3 DEF RemovalOutcomeShown
  <2> QED
    BY <1>1, <1>7, <2>1, <2>2, <2>3, <2>4, <2>5, BoundaryRowAccepted
<1> QED
  BY <1>8, <1>9, <1>10, <1>11, <1>12 DEF Working

(* append_event accepts every row that execute_action, settle_one,          *)
(* cancel_remaining and classify_open_actions mean to write, so that a run  *)
(* is given up for a failing store only; the exception is the transfer of a *)
(* source that changed after its plan row was written.                      *)
THEOREM SafeDeleteRowsAreTaken == RunSpec => []JournalTakesEveryRow
<1>1. Ledger /\ Position => JournalTakesEveryRow
  <2> SUFFICES ASSUME Ledger, Position, Writing, broken => pc = "classify",
                      pc = "verified" => kept[Path] = PlanRow(cur).planned
               PROVE  Accepts(cur, PendingRow)
    BY DEF JournalTakesEveryRow
  <2>1. CASE pc \in Working \ {"transfer", "settle", "remove"}
    <3>1. PICK a \in 1..Len(plan) : a = cur
      BY <2>1, WorkingAction
    <3> QED
      BY <2>1, <3>1, PendingRows DEF Path
  <2>2. CASE pc \in {"next", "cancel_remaining"} /\ cur <= Len(plan)
    <3>1. PICK a \in 1..Len(plan) : a = cur
      BY <2>2, CurrentAction DEF Looping, Reconciling
    <3>2. LastPhase(a) = "planned"
      BY <2>2, <3>1, CurrentAction DEF Looping, Reconciling, At
    <3>3. PICK e : e = PendingRow /\ e.phase = IF pc = "next" THEN "started" ELSE "cancelled"
      <4>1. Event("started").phase = "started" /\ Event("cancelled").phase = "cancelled"
        BY EventRow DEF Phases
      <4> QED
        BY <2>2, <4>1 DEF PendingRow
    <3>4. e.phase = "started" => \A b \in 1..(a - 1) : LastPhase(b) \in SettledPhases
      BY <2>2, <3>1, <3>3 DEF Position, SettledBehind
    <3> QED
      BY <3>1, <3>2, <3>3, <3>4, FirstRowAccepted
  <2>3. CASE pc = "classify" /\ cur \in Open
    <3>1. PICK a \in Actions : a = cur /\ HasPlan(a) /\ Outcome(a) = "in_progress"
      BY <2>3 DEF Open, PlannedActions
    <3>2. PendingRow = Classification(Replay(cur))
      BY <2>3 DEF PendingRow
    <3> QED
      BY <3>1, <3>2, ClassificationAccepted DEF Ledger, JournalSound
  <2> QED
    BY <2>1, <2>2, <2>3 DEF Writing
<1> QED
  BY <1>1, RunInvariant, PTL

-----------------------------------------------------------------------------
(* Files change behind the journal. *)

LEMMA EditsCounted == RunSpec => [](edits \in Nat)
<1>1. RunInit => edits \in Nat
  BY DEF RunInit
<1>2. edits \in Nat /\ [RunNext]_allVars => (edits \in Nat)'
  <2> SUFFICES ASSUME edits \in Nat, [RunNext]_allVars PROVE edits' \in Nat
    OBVIOUS
  <2>1. CASE Driver
    BY <2>1 DEF Driver, RecordInventory, PlanAction, PlanWritten, BeginAction, StopLoop,
         FirstProgress, Defer, Transferred, TransferFails, RecordTransfer, CompleteTransfer,
         RecordJournalFailure, FailAction, ReviewAction, CancelAction, CancelRemaining,
         RefuseRemoval, ProveTransfer, ProveBoundary, StartRemoval, RemoveSource, RecordRemoval,
         RecordUncertain, RecordFailure, FailUnresolved, RecordUnresolved, Reconcile,
         RecordReconciliation, ClassifyOpen, Reopen, StartRun, Records, edited
  <2>2. CASE Execute \/ Resume \/ RequestCancel
    BY <2>2 DEF Execute, StartRun, Resume, RequestCancel, edited
  <2>3. CASE Crash \/ UNCHANGED allVars
    BY <2>3 DEF Crash, allVars, bounds
  <2>4. CASE Edit
    BY <2>4 DEF Edit
  <2> QED
    BY <2>1, <2>2, <2>3, <2>4 DEF RunNext
<1> QED
  BY <1>1, <1>2, PTL DEF RunSpec

(* The only steps of a run that touch the two trees.                        *)
LEMMA TreesTouched ==
  ASSUME [RunNext]_allVars, edits \in Nat, edits' = edits
  PROVE  \/ src' = src /\ dst' = dst
         \/ Transferred \/ TransferFails \/ RemoveSource \/ Crash
<1>1. ~Edit
  BY DEF Edit
<1>2. CASE Driver
  BY <1>2 DEF Driver, RecordInventory, PlanAction, PlanWritten, BeginAction, StopLoop,
       FirstProgress, Defer, RecordTransfer, CompleteTransfer,
       RecordJournalFailure, FailAction, ReviewAction, CancelAction, CancelRemaining,
       RefuseRemoval, ProveTransfer, ProveBoundary, StartRemoval, RecordRemoval,
       RecordUncertain, RecordFailure, FailUnresolved, RecordUnresolved, Reconcile,
       RecordReconciliation, ClassifyOpen, Reopen, StartRun, Records, files
<1>3. CASE Execute \/ Resume \/ RequestCancel \/ UNCHANGED allVars
  BY <1>3 DEF Execute, StartRun, Resume, RequestCancel, files, allVars
<1> QED
  BY <1>1, <1>2, <1>3 DEF RunNext

(* The action at work is the one whose rows say so.                         *)
LEMMA WorkShown ==
  ASSUME Ledger, Position, pc \in {"transfer", "remove"}
  PROVE  /\ Path \in Files
         /\ AtWork(Path, IF pc = "transfer" THEN "progress" ELSE "removal_started")
<1>1. pc \in Working
  BY DEF Working
<1>2. PICK a \in 1..Len(plan) : a = cur
  BY <1>1, WorkingAction
<1>3. LastPhase(a) = IF pc = "transfer" THEN "progress" ELSE "removal_started"
  BY <1>1, <1>2, WorkingAction DEF At
<1>4. \A b \in 1..(a - 1) : LastPhase(b) \in SettledPhases
  BY <1>3, EarlierSettled DEF WorkingPhases
<1>5. Path \in Files
  BY <1>2, PlanBounds DEF Path, Step, Ledger
<1> QED
  BY <1>2, <1>3, <1>4, <1>5 DEF AtWork

(* The destination of an action changes only while its Progress row is its  *)
(* last, a source only behind its RemovalStarted row, each only when every  *)
(* earlier action is settled; a dying process leaves no other trace either  *)
(* (execute_action and settle_one write before they act).                   *)
THEOREM SafeDeleteFollowsJournal == RunSpec => FilesFollowJournal
<1> DEFINE Behind == edits' = edits =>
              \A f \in Files : /\ dst'[f] # dst[f] => AtWork(f, "progress")
                               /\ src'[f] # src[f] => AtWork(f, "removal_started")
<1>1. Ledger /\ Position /\ edits \in Nat /\ [RunNext]_allVars => [Behind]_allVars
  <2> SUFFICES ASSUME Ledger, Position, edits \in Nat, [RunNext]_allVars, edits' = edits,
                      NEW f \in Files
               PROVE  /\ dst'[f] # dst[f] => AtWork(f, "progress")
                      /\ src'[f] # src[f] => AtWork(f, "removal_started")
    OBVIOUS
  <2>1. src \in [Files -> Items] /\ dst \in [Files -> Items]
    BY DEF Ledger, FilesTyped, Trees
  <2>2. CASE src' = src /\ dst' = dst
    BY <2>2
  <2>3. CASE Transferred
    <3>1. pc = "transfer" /\ src' = src /\ dst' = [dst EXCEPT ![Path] = src[Path]]
      BY <2>3 DEF Transferred
    <3>2. Path \in Files /\ AtWork(Path, "progress")
      BY <3>1, WorkShown
    <3>3. f # Path => dst'[f] = dst[f]
      BY <2>1, <3>1, <3>2
    <3> QED
      BY <3>1, <3>2, <3>3
  <2>4. CASE (TransferFails \/ Crash) /\ ~(src' = src /\ dst' = dst)
    <3>1. src' = src /\ pc = "transfer" /\ LeaveUncertain
      BY <2>4 DEF TransferFails, Crash, LeaveBehind, LeaveUncertain
    <3>2. Path \in Files /\ AtWork(Path, "progress")
      BY <3>1, WorkShown
    <3>3. f # Path => dst'[f] = dst[f]
      BY <2>1, <3>1, <3>2 DEF LeaveUncertain
    <3> QED
      BY <3>1, <3>2, <3>3
  <2>5. CASE RemoveSource /\ ~(src' = src /\ dst' = dst)
    <3>1. pc = "remove" /\ dst' = dst /\ Take
      BY <2>5 DEF RemoveSource
    <3>2. Path \in Files /\ AtWork(Path, "removal_started")
      BY <3>1, WorkShown
    <3>3. src' = [src EXCEPT ![Path] = NoContent]
      BY <3>1 DEF Take
    <3>4. f # Path => src'[f] = src[f]
      BY <2>1, <3>2, <3>3
    <3> QED
      BY <3>1, <3>2, <3>4
  <2> QED
    BY <2>2, <2>3, <2>4, <2>5, TreesTouched
<1> QED
  BY <1>1, RunInvariant, EditsCounted, PTL DEF RunSpec, FilesFollowJournal

(* The rows a step of the run adds are rows the reader takes.               *)
LEMMA RowsStayLegible ==
  ASSUME Ledger, [RunNext]_allVars, NEW b \in Actions, RowsLegible(b)
  PROVE  RowsLegible(b)'
<1>1. TypeOK
  BY DEF Ledger, JournalSound
<1>2. SUFFICES \/ events' = events
               \/ events' = [a \in Actions |-> <<>>]
               \/ \E e : Legible(e) /\ AppendEvent(cur, e)
  BY <1>1, LegibleAppend DEF RowsLegible
<1>3. /\ \A p \in Phases : Legible(Event(p))
      /\ \A op, c : Legible(Planned(op, c))
      /\ Legible(RemovalStarted(method)) /\ Legible(RecoveryReview(0))
      /\ Legible(TransferVerified(Proof)) /\ Legible(ProofBoundary(Proof, method))
      /\ Legible(RemovalCompleted(RemovalProof, method))
  <2>1. Proof.provenance \in {"none", "whole"} /\ RemovalProof.provenance \in {"none", "whole"}
    BY DEF Proof, RemovalProof
  <2> QED
    BY <2>1, LegibleRows
<1>4. \A e, ok, bad : Records(e, ok, bad) => events' = events \/ AppendEvent(cur, e)
  BY DEF Records, Writes, WriteFails
<1>5. CASE Driver
  <2>1. CASE RecordInventory \/ PlanWritten \/ StopLoop \/ Transferred \/ TransferFails
             \/ RefuseRemoval \/ RemoveSource \/ Reconcile \/ RecordReconciliation
    BY <2>1 DEF RecordInventory, PlanWritten, StopLoop, Transferred, TransferFails, TransferEnds,
         RefuseRemoval, Refuse, RemoveSource, Reconcile, RecordReconciliation, NoFault, Fault,
         StoreFault
  <2>2. CASE PlanAction
    BY <1>3, <1>4, <2>2 DEF PlanAction, GiveUp
  <2>3. CASE BeginAction \/ FirstProgress \/ Defer \/ CompleteTransfer \/ FailAction
             \/ CancelAction \/ RecordFailure \/ FailUnresolved \/ RecordUnresolved
    BY <1>3, <1>4, <2>3 DEF BeginAction, FirstProgress, Defer, CompleteTransfer, FailAction,
         CancelAction, RecordFailure, FailUnresolved, RecordUnresolved, Phases
  <2>4. CASE RecordTransfer \/ RecordJournalFailure \/ ReviewAction \/ ProveBoundary
             \/ StartRemoval \/ RecordRemoval \/ RecordUncertain
    BY <1>3, <1>4, <2>4 DEF RecordTransfer, RecordJournalFailure, ReviewAction, ProveBoundary,
         StartRemoval, RecordRemoval, RecordUncertain
  <2>5. CASE ProveTransfer
    BY <1>3, <2>5 DEF ProveTransfer, Writes, WriteFails
  <2>6. CASE CancelRemaining
    BY <1>3, <1>4, <2>6 DEF CancelRemaining, NoFault, Phases
  <2>7. CASE ClassifyOpen
    <3>1. Legible(Classification(Replay(cur)))
      BY <1>3 DEF Classification, Phases
    <3> QED
      BY <1>4, <2>7, <3>1 DEF ClassifyOpen, NoFault
  <2>8. CASE Reopen
    BY <2>8 DEF Reopen, StartRun, NoFault
  <2> QED
    BY <1>5, <2>1, <2>2, <2>3, <2>4, <2>5, <2>6, <2>7, <2>8 DEF Driver
<1>6. CASE Execute \/ Resume \/ RequestCancel \/ Crash \/ Edit \/ UNCHANGED allVars
  BY <1>6 DEF Execute, StartRun, Resume, RequestCancel, Crash, Edit, NoFault, allVars
<1> QED
  BY <1>5, <1>6 DEF RunNext

(* What the driver has written is always read back: load_journal refuses    *)
(* the journal of no run, whatever was lost and wherever the process died,  *)
(* for the evidence of a removal has a whole provenance or none.            *)
THEOREM SafeDeleteIsReadBack == RunSpec => [](ReplayAccepts /\ JournalReadable)
<1> DEFINE AllLegible == \A b \in Actions : RowsLegible(b)
<1>1. RunInit => AllLegible
  BY DEF RunInit, RowsLegible
<1>2. Ledger /\ AllLegible /\ [RunNext]_allVars => AllLegible'
  BY RowsStayLegible DEF Actions
<1>3. Ledger /\ AllLegible => ReplayAccepts /\ JournalReadable
  BY DEF Ledger, JournalSound, ReplayAgrees, EntryAgrees, ReplayAccepts, JournalReadable
<1> QED
  BY <1>1, <1>2, <1>3, RunInvariant, PTL DEF RunSpec

(* A source is recorded as removed only behind a verified transfer, a proof *)
(* boundary and a removal start, by the frozen method (validate_event).     *)
THEOREM SafeDeleteRestsOnProof == RunSpec => []RemovalRestsOnProof
<1>1. Ledger => RemovalRestsOnProof
  BY ProvenChain DEF Ledger, JournalSound
<1> QED
  BY <1>1, RunInvariant, PTL

-----------------------------------------------------------------------------
(* What the run reports, takes and finds, source by source: SourceDrain.    *)

(* The word of a removal is that of its last row.                           *)
LEMMA SaidWords ==
  Ledger => \A a \in Actions :
              Said(a) = IF IsRemoval(a) THEN WordOf(LastPhase(a)) ELSE "none"
<1> SUFFICES ASSUME Ledger, NEW a \in Actions, IsRemoval(a)
             PROVE  Said(a) = WordOf(LastPhase(a))
  BY DEF Said
<1>1. CASE ~HasPlan(a)
  <2>1. LastPhase(a) = "none" /\ Said(a) = "none"
    BY <1>1 DEF Said, LastPhase
  <2> QED
    BY <2>1 DEF WordOf, OpenPhases
<1>2. CASE HasPlan(a)
  <2>1. LastPhase(a) # "recovery_resolved"
    BY <1>2 DEF Ledger, RowsFit
  <2>2. /\ LastPhase(a) \in Phases
        /\ Outcome(a) = "in_progress" <=> LastPhase(a) \in OpenPhases
        /\ Outcome(a) = "completed" <=> LastPhase(a) \in {"completed", "removal_completed"}
        /\ Outcome(a) = "recovery_review" <=>
             LastPhase(a) \in {"proof_boundary", "removal_started", "recovery_review"}
    BY <1>2, <2>1, OutcomePhases DEF Ledger
  <2> QED
    BY <1>2, <2>2 DEF Said, WordOf, OpenPhases, Phases
<1> QED
  BY <1>1, <1>2

(* What is gone is shown, and it is what the destination was found to hold. *)
LEMMA GoneShown ==
  Ledger /\ Position =>
    \A a \in Actions : IsRemoval(a) /\ taken[plan[a].path] # NoContent =>
      /\ LastPhase(a) \in ShownPhases
      /\ witnessed[plan[a].path] = taken[plan[a].path]
<1> SUFFICES ASSUME Ledger, Position, NEW a \in Actions, IsRemoval(a),
                    taken[plan[a].path] # NoContent
             PROVE  /\ LastPhase(a) \in ShownPhases
                    /\ witnessed[plan[a].path] = taken[plan[a].path]
  OBVIOUS
<1>1. plan[a].path \in Files /\ a \in RemovalsOf(plan[a].path)
  BY PlanBounds DEF IsRemoval, RemovalsOf, Ledger, Step
<1> QED
  BY <1>1, RemovalShown DEF Position, TakenShown

LEMMA WordsKept ==
  ASSUME NEW a \in Actions, RowsKept(a), plan' = plan
  PROVE  Said(a)' = Said(a) /\ (IsRemoval(a)' <=> IsRemoval(a))
<1>1. Outcome(a)' = Outcome(a) /\ (HasPlan(a)' <=> HasPlan(a))
  BY DEF RowsKept, Outcome
<1>2. IsRemoval(a)' <=> IsRemoval(a)
  BY DEF IsRemoval
<1> QED
  BY <1>1, <1>2 DEF Said

LEMMA ItemsKept ==
  ASSUME plan' = plan
  PROVE  \A a \in Actions : /\ taken' = taken => ItemOf(taken, a)' = ItemOf(taken, a)
                            /\ witnessed' = witnessed =>
                                 ItemOf(witnessed, a)' = ItemOf(witnessed, a)
BY DEF ItemOf, IsRemoval

(* Neither a row nor a file: a stutter.                                     *)
LEMMA DrainStays ==
  ASSUME \A a \in Actions : Said(a)' = Said(a),
         plan' = plan, taken' = taken, witnessed' = witnessed
  PROVE  UNCHANGED Drain!drainVars
<1>1. Actions' = Actions
  BY DEF Actions
<1>2. \A a \in Actions : /\ ItemOf(taken, a)' = ItemOf(taken, a)
                         /\ ItemOf(witnessed, a)' = ItemOf(witnessed, a)
  BY ItemsKept
<1> QED
  BY <1>1, <1>2 DEF Drain!drainVars

(* One row of the journal, and no file: a word of the report changes, or    *)
(* none does.                                                               *)
LEMMA RowDrains ==
  ASSUME Ledger, Position, Ledger', Position', NEW s \in Actions, NEW e, AppendEvent(s, e),
         plan' = plan, taken' = taken, witnessed' = witnessed
  PROVE  [Drain!Next]_(Drain!drainVars)
<1>0. Actions' = Actions
  BY DEF Actions
<1>1. LastPhase(s)' # "recovery_resolved" /\ (LastPhase(s)' = "completed" => ~Removes(s)')
  <2>1. CASE HasPlan(s)'
    BY <1>0, <2>1 DEF Ledger, RowsFit
  <2>2. CASE ~HasPlan(s)'
    BY <2>2 DEF LastPhase
  <2> QED
    BY <2>1, <2>2
<1>2. /\ LastPhase(s)' \in Phases
      /\ \A b \in Actions : b # s => RowsKept(b)
      /\ \/ WordOf(LastPhase(s)') = WordOf(LastPhase(s))
         \/ WordOf(LastPhase(s)) = "none" /\ LastPhase(s)' = "planned"
         \/ WordOf(LastPhase(s)) = "open" /\ WordOf(LastPhase(s)') = "review"
         \/ WordOf(LastPhase(s)) \in {"open", "review"} /\ WordOf(LastPhase(s)') = "kept"
         \/ LastPhase(s)' \in {"completed", "removal_completed"}
      /\ LastPhase(s)' = "removal_completed" => LastPhase(s) = "removal_started"
  BY <1>1, RowWords DEF Ledger
<1>3. \A b \in Actions : b # s => Said(b)' = Said(b)
  BY <1>2, WordsKept
<1>4. IsRemoval(s)' <=> IsRemoval(s)
  BY DEF IsRemoval
<1>5. \A a \in Actions : Said(a) = IF IsRemoval(a) THEN WordOf(LastPhase(a)) ELSE "none"
  BY SaidWords
<1>6. \A a \in Actions : Said(a)' = IF IsRemoval(a)' THEN WordOf(LastPhase(a)') ELSE "none"
  <2>1. (\A a \in Actions :
           Said(a) = IF IsRemoval(a) THEN WordOf(LastPhase(a)) ELSE "none")'
    BY SaidWords, PTL
  <2> QED
    BY <1>0, <2>1 DEF WordOf
<1>7. \A a \in Actions : /\ ItemOf(taken, a)' = ItemOf(taken, a)
                         /\ ItemOf(witnessed, a)' = ItemOf(witnessed, a)
  BY ItemsKept
<1>8. CASE Said(s)' = Said(s)
  BY <1>3, <1>8, DrainStays
<1>9. CASE Said(s)' # Said(s)
  <2>1. /\ IsRemoval(s) /\ IsRemoval(s)' /\ Removes(s)'
        /\ Said(s) = WordOf(LastPhase(s)) /\ Said(s)' = WordOf(LastPhase(s)')
    BY <1>4, <1>5, <1>6, <1>9 DEF IsRemoval, Removes
  <2> DEFINE word == Said(s)'
  <2>2. Drain!Says(s, word)
    BY <1>0, <1>3 DEF Drain!Says
  <2>3. /\ [a \in Actions |-> Said(a)][s] = Said(s)
        /\ [a \in Actions |-> ItemOf(taken, a)][s] = taken[plan[s].path]
        /\ [a \in Actions |-> ItemOf(witnessed, a)][s] = witnessed[plan[s].path]
    BY <2>1 DEF ItemOf
  <2>4. /\ [a \in Actions |-> ItemOf(taken, a)]' = [a \in Actions |-> ItemOf(taken, a)]
        /\ [a \in Actions |-> ItemOf(witnessed, a)]' = [a \in Actions |-> ItemOf(witnessed, a)]
    BY <1>0, <1>7
  <2>5. CASE Said(s) = "none" /\ word = "open"
    BY <2>2, <2>3, <2>4, <2>5 DEF Drain!Next, Drain!Touch, Drain!Plan
  <2>6. CASE Said(s) = "open" /\ word = "review"
    BY <2>2, <2>3, <2>4, <2>6 DEF Drain!Next, Drain!Touch, Drain!Announce
  <2>7. CASE Said(s) \in {"open", "review"} /\ word = "kept"
    <3>1. LastPhase(s)' \notin ShownPhases
      BY <2>1, <2>7 DEF WordOf, ShownPhases, OpenPhases
    <3>2. taken[plan[s].path] = NoContent
      <4>1. (\A a \in Actions : IsRemoval(a) /\ taken[plan[a].path] # NoContent =>
               /\ LastPhase(a) \in ShownPhases
               /\ witnessed[plan[a].path] = taken[plan[a].path])'
        BY GoneShown, PTL
      <4> QED
        BY <1>0, <2>1, <3>1, <4>1 DEF ShownPhases
    <3> QED
      BY <2>2, <2>3, <2>4, <2>7, <3>2 DEF Drain!Next, Drain!Touch, Drain!Spare, Drain!Undecided
  <2>8. CASE LastPhase(s)' \in {"completed", "removal_completed"}
    <3>1. LastPhase(s)' = "removal_completed" /\ LastPhase(s) = "removal_started"
      BY <1>1, <1>2, <2>1, <2>8
    <3>2. Said(s) = "review" /\ word = "removed"
      BY <2>1, <3>1 DEF WordOf, OpenPhases
    <3>3. taken[plan[s].path] # NoContent
      BY <1>0, <3>1 DEF Ledger, RemovedTaken
    <3>4. witnessed[plan[s].path] = taken[plan[s].path]
      BY <2>1, <3>3, GoneShown
    <3> QED
      BY <2>2, <2>3, <2>4, <3>2, <3>3, <3>4 DEF Drain!Next, Drain!Touch, Drain!Conclude
  <2> QED
    BY <1>2, <1>9, <2>1, <2>5, <2>6, <2>7, <2>8 DEF WordOf, OpenPhases
<1> QED
  BY <1>8, <1>9

(* A removal as RemoveSource performs it, if it comes to that: the source   *)
(* goes behind its announcement.                                            *)
LEMMA RemovalDrains ==
  ASSUME Ledger, Position, RemoveSource
  PROVE  [Drain!Next]_(Drain!drainVars)
<1>1. /\ events' = events /\ method' = method /\ plan' = plan /\ witnessed' = witnessed
      /\ pc = "remove"
  BY DEF RemoveSource, NoFault, Fault, record
<1>2. \A a \in Actions : Said(a)' = Said(a) /\ (IsRemoval(a)' <=> IsRemoval(a))
  BY <1>1, SameRowsKept, WordsKept
<1>3. CASE taken' = taken
  BY <1>1, <1>2, <1>3, DrainStays
<1>4. CASE Take /\ src[Path] = kept[Path]
  <2>1. /\ cur \in 1..Len(plan) /\ cur \in Actions
        /\ \A a \in 1..Len(plan) : a = cur => LastPhase(a) \in At(pc)
    BY <1>1, WorkingAction DEF Working
  <2>2. PICK s \in Actions : s = cur /\ s \in 1..Len(plan)
    BY <2>1
  <2>3. /\ LastPhase(s) = "removal_started" /\ Removes(s) /\ kept[plan[s].path] # NoContent
        /\ Path = plan[s].path
    BY <1>1, <2>1, <2>2 DEF At, Position, StepFits, Proving, Removing, Path
  <2>4. IsRemoval(s) /\ Path \in Files
    BY <2>2, <2>3, PlanBounds DEF IsRemoval, Removes, Ledger, Step
  <2>5. Said(s) = "review"
    BY <2>3, <2>4, SaidWords DEF WordOf, OpenPhases
  <2>6. taken[Path] = NoContent
    <3>1. ASSUME taken[Path] # NoContent PROVE FALSE
      <4>1. PICK a \in RemovalsOf(Path) : a < cur \/ (a = cur /\ pc \in Taking)
        BY <1>1, <2>4, <3>1 DEF Position, TakenShown, Outside
      <4>2. a = s
        BY <2>2, <2>3, <4>1 DEF RemovalsOf, Ledger, PlanFits, Removes
      <4> QED
        BY <1>1, <2>1, <2>2, <4>1, <4>2 DEF Taking
    <3> QED
      BY <3>1
  <2>7. src[Path] \in Contents /\ witnessed[Path] \in Contents \cup {NoContent}
    BY <1>4, <2>3, <2>4 DEF Ledger, FilesTyped, Trees, Items
  <2>8. taken' = [taken EXCEPT ![Path] = src[Path]] /\ taken \in [Files -> Items]
    BY <1>4 DEF Take, Ledger, FilesTyped
  <2>9. Actions' = Actions
    BY DEF Actions
  <2>10. \A a \in Actions : ItemOf(taken, a)' = IF a = s THEN src[Path] ELSE ItemOf(taken, a)
    <3> SUFFICES ASSUME NEW a \in Actions
                 PROVE  ItemOf(taken, a)' = IF a = s THEN src[Path] ELSE ItemOf(taken, a)
      OBVIOUS
    <3>1. CASE a = s
      BY <1>2, <1>1, <2>3, <2>4, <2>8, <3>1 DEF ItemOf
    <3>2. CASE a # s /\ IsRemoval(a)
      <4>1. plan[a].path \in Files /\ plan[a].path # Path
        BY <2>2, <2>3, <3>2, PlanBounds DEF IsRemoval, Ledger, PlanFits, Removes, Step
      <4> QED
        BY <1>1, <1>2, <2>8, <3>2, <4>1 DEF ItemOf
    <3>3. CASE a # s /\ ~IsRemoval(a)
      BY <1>2, <3>3 DEF ItemOf
    <3> QED
      BY <3>1, <3>2, <3>3
  <2>11. \A a \in Actions : ItemOf(witnessed, a)' = ItemOf(witnessed, a)
    BY <1>1, ItemsKept
  <2>12. /\ [a \in Actions |-> Said(a)][s] = Said(s)
         /\ [a \in Actions |-> ItemOf(taken, a)][s] = taken[Path]
         /\ [a \in Actions |-> ItemOf(witnessed, a)][s] = witnessed[Path]
    BY <2>3, <2>4 DEF ItemOf
  <2>13. /\ [a \in Actions |-> Said(a)]' = [a \in Actions |-> Said(a)]
         /\ [a \in Actions |-> ItemOf(taken, a)]' =
              [[a \in Actions |-> ItemOf(taken, a)] EXCEPT ![s] = src[Path]]
         /\ [a \in Actions |-> ItemOf(witnessed, a)]' =
              [[a \in Actions |-> ItemOf(witnessed, a)] EXCEPT ![s] = witnessed[Path]]
    BY <1>2, <2>9, <2>10, <2>11, <2>12
  <2>14. Drain!Take(s, src[Path], witnessed[Path])
    BY <2>5, <2>6, <2>12, <2>13 DEF Drain!Take
  <2> QED
    BY <2>7, <2>14 DEF Drain!Next, Drain!Touch
<1> QED
  BY <1>3, <1>4 DEF RemoveSource

(* ProveTransfer looks at the destination, and its row leaves the removal   *)
(* open, written or lost.                                                   *)
LEMMA InspectionDrains ==
  ASSUME Ledger, Position, Ledger', ProveTransfer
  PROVE  [Drain!Next]_(Drain!drainVars)
<1>0. Actions' = Actions
  BY DEF Actions
<1>1. /\ plan' = plan /\ taken' = taken /\ pc = "settle"
      /\ witnessed' = [witnessed EXCEPT ![Path] = dst[Path]]
  BY DEF ProveTransfer, record
<1>2. /\ cur \in 1..Len(plan) /\ cur \in Actions
      /\ \A a \in 1..Len(plan) : a = cur => LastPhase(a) \in At(pc)
  BY <1>1, WorkingAction DEF Working
<1>3. PICK s \in Actions : s = cur /\ s \in 1..Len(plan)
  BY <1>2
<1>4. LastPhase(s) = "progress" /\ Removes(s) /\ Path = plan[s].path
  BY <1>1, <1>2, <1>3 DEF At, Position, StepFits, Path
<1>5. IsRemoval(s) /\ Path \in Files
  BY <1>3, <1>4, PlanBounds DEF IsRemoval, Removes, Ledger, Step
<1>6. Said(s) = "open" /\ taken[Path] = NoContent
  BY <1>4, <1>5, SaidWords, GoneShown DEF WordOf, OpenPhases, ShownPhases
<1>7. \A a \in Actions : Said(a)' = Said(a)
  <2>1. CASE events' = events /\ method' = method
    BY <1>1, <2>1, SameRowsKept, WordsKept
  <2>2. CASE AppendEvent(s, TransferVerified(Proof))
    <3>1. TransferVerified(Proof) \in Row /\ TransferVerified(Proof).phase = "transfer_verified"
      BY <1>3, CurrentRows
    <3>2. Told(s, TransferVerified(Proof))
      BY <2>2, <3>1, RowTold DEF Ledger
    <3>3. LastPhase(s)' = "transfer_verified" /\ \A b \in Actions : b # s => RowsKept(b)
      BY <3>1, <3>2 DEF Told
    <3>4. \A b \in Actions : b # s => Said(b)' = Said(b)
      BY <1>1, <3>3, WordsKept
    <3>5. (\A a \in Actions :
             Said(a) = IF IsRemoval(a) THEN WordOf(LastPhase(a)) ELSE "none")'
      BY SaidWords, PTL
    <3>6. IsRemoval(s)'
      BY <1>1, <1>5 DEF IsRemoval
    <3>7. Said(s)' = WordOf("transfer_verified")
      BY <1>0, <3>3, <3>5, <3>6 DEF WordOf
    <3> QED
      BY <1>6, <3>4, <3>7 DEF WordOf, OpenPhases
  <2> QED
    BY <1>3, <2>1, <2>2 DEF ProveTransfer, Writes, WriteFails
<1>8. dst[Path] \in Contents \cup {NoContent} /\ witnessed \in [Files -> Items]
  BY <1>5 DEF Ledger, FilesTyped, Trees, Items
<1>9. \A a \in Actions :
        ItemOf(witnessed, a)' = IF a = s THEN dst[Path] ELSE ItemOf(witnessed, a)
  <2> SUFFICES ASSUME NEW a \in Actions
               PROVE  ItemOf(witnessed, a)' = IF a = s THEN dst[Path] ELSE ItemOf(witnessed, a)
    OBVIOUS
  <2>0. IsRemoval(a)' <=> IsRemoval(a)
    BY <1>1 DEF IsRemoval
  <2>1. CASE a = s
    BY <1>1, <1>4, <1>5, <1>8, <2>0, <2>1 DEF ItemOf
  <2>2. CASE a # s /\ IsRemoval(a)
    <3>1. plan[a].path \in Files /\ plan[a].path # Path
      BY <1>3, <1>4, <2>2, PlanBounds DEF IsRemoval, Ledger, PlanFits, Removes, Step
    <3> QED
      BY <1>1, <1>8, <2>0, <2>2, <3>1 DEF ItemOf
  <2>3. CASE a # s /\ ~IsRemoval(a)
    BY <2>0, <2>3 DEF ItemOf
  <2> QED
    BY <2>1, <2>2, <2>3
<1>10. \A a \in Actions : ItemOf(taken, a)' = ItemOf(taken, a)
  BY <1>1, ItemsKept
<1>11. /\ [a \in Actions |-> Said(a)][s] = Said(s)
       /\ [a \in Actions |-> ItemOf(taken, a)][s] = taken[Path]
  BY <1>4, <1>5 DEF ItemOf
<1>12. /\ [a \in Actions |-> Said(a)]' = [a \in Actions |-> Said(a)]
       /\ [a \in Actions |-> ItemOf(taken, a)]' = [a \in Actions |-> ItemOf(taken, a)]
       /\ [a \in Actions |-> ItemOf(witnessed, a)]' =
            [[a \in Actions |-> ItemOf(witnessed, a)] EXCEPT ![s] = dst[Path]]
  BY <1>0, <1>7, <1>9, <1>10
<1>13. Drain!Inspect(s, dst[Path])
  BY <1>6, <1>11, <1>12 DEF Drain!Inspect, Drain!Undecided
<1> QED
  BY <1>8, <1>13 DEF Drain!Next, Drain!Touch

(* Every other step of the process writes one row of its action or none.    *)
LEMMA RowOrNone ==
  ASSUME Driver, ~StartRun, ~RemoveSource, ~ProveTransfer
  PROVE  /\ plan' = plan /\ taken' = taken /\ witnessed' = witnessed
         /\ \/ events' = events /\ method' = method
            \/ \E e : AppendEvent(cur, e)
BY DEF Driver, RecordInventory, PlanAction, PlanWritten, BeginAction, StopLoop, FirstProgress,
     Defer, Transferred, TransferFails, TransferEnds, RecordTransfer, CompleteTransfer,
     RecordJournalFailure, FailAction, ReviewAction, CancelAction, CancelRemaining, RefuseRemoval,
     Refuse, ProveBoundary, StartRemoval, RecordRemoval, RecordUncertain, RecordFailure,
     FailUnresolved, RecordUnresolved, Reconcile, RecordReconciliation, ClassifyOpen, Reopen,
     Records, Writes, WriteFails, NoFault, Fault, StoreFault, GiveUp, files, record

LEMMA RemovalPaths == Ledger => \A a \in Actions : IsRemoval(a) => plan[a].path \in Files
BY PlanBounds DEF IsRemoval, Ledger, Step

(* The start of a run, and of its resumption, is the abstract one.          *)
LEMMA StartDrains ==
  ASSUME Ledger, Ledger', StartRun
  PROVE  Drain!Begin
<1>1. /\ events' = [a \in Actions |-> <<>>] /\ taken' = Nothing /\ witnessed' = Nothing
      /\ Actions' = Actions
  BY DEF StartRun, Actions
<1>2. \A a \in Actions : ~HasPlan(a)'
  BY <1>1 DEF HasPlan
<1>3. \A a \in Actions : Said(a)' = "none"
  BY <1>2 DEF Said
<1>4. \A a \in Actions : IsRemoval(a)' => (plan[a].path)' \in Files
  <2>1. (\A a \in Actions : IsRemoval(a) => plan[a].path \in Files)'
    BY RemovalPaths, PTL
  <2> QED
    BY <1>1, <2>1
<1>5. \A a \in Actions : ItemOf(taken, a)' = NoContent /\ ItemOf(witnessed, a)' = NoContent
  BY <1>1, <1>4 DEF ItemOf, Nothing
<1> QED
  BY <1>1, <1>3, <1>5 DEF Drain!Begin

LEMMA DrainBegins == RunInit => Drain!Blank
<1> SUFFICES ASSUME RunInit PROVE Drain!Blank
  OBVIOUS
<1>1. \A a \in Actions : ~HasPlan(a) /\ ~IsRemoval(a)
  BY DEF RunInit, HasPlan, IsRemoval
<1>2. \A a \in Actions : /\ Said(a) = "none"
                         /\ ItemOf(taken, a) = NoContent /\ ItemOf(witnessed, a) = NoContent
  BY <1>1 DEF Said, ItemOf
<1> QED
  BY <1>2 DEF Drain!Blank

LEMMA StepDrains ==
  Ledger /\ Position /\ Ledger' /\ Position' /\ [RunNext]_allVars =>
    [Drain!Next]_(Drain!drainVars)
<1> SUFFICES ASSUME Ledger, Position, Ledger', Position', [RunNext]_allVars
             PROVE  [Drain!Next]_(Drain!drainVars)
  OBVIOUS
<1>1. CASE StartRun
  BY <1>1, StartDrains DEF Drain!Next
<1>2. CASE RemoveSource
  BY <1>2, RemovalDrains
<1>3. CASE ProveTransfer
  BY <1>3, InspectionDrains
<1>4. ASSUME plan' = plan, taken' = taken, witnessed' = witnessed,
             events' = events, method' = method
      PROVE  [Drain!Next]_(Drain!drainVars)
  BY <1>4, SameRowsKept, WordsKept, DrainStays
<1>5. CASE Driver /\ ~StartRun /\ ~RemoveSource /\ ~ProveTransfer
  <2>1. /\ plan' = plan /\ taken' = taken /\ witnessed' = witnessed
        /\ \/ events' = events /\ method' = method
           \/ \E e : AppendEvent(cur, e)
    BY <1>5, RowOrNone
  <2>2. CASE \E e : AppendEvent(cur, e)
    <3>1. PICK e : AppendEvent(cur, e)
      BY <2>2
    <3>2. CASE cur \in Actions
      <4>1. PICK s \in Actions : s = cur
        BY <3>2
      <4> QED
        BY <2>1, <3>1, <4>1, RowDrains
    <3>3. CASE cur \notin Actions
      <4>1. events = [a \in Actions |-> events[a]]
        BY DEF Ledger, JournalSound, TypeOK
      <4>2. events' = events /\ method' = method
        BY <3>1, <3>3, <4>1 DEF AppendEvent
      <4> QED
        BY <1>4, <2>1, <4>2
    <3> QED
      BY <3>2, <3>3
  <2> QED
    BY <1>4, <2>1, <2>2
<1>6. CASE Execute \/ Resume \/ RequestCancel \/ Crash \/ Edit \/ UNCHANGED allVars
  <2>1. \/ StartRun
        \/ /\ plan' = plan /\ taken' = taken /\ witnessed' = witnessed
           /\ events' = events /\ method' = method
    BY <1>6 DEF Execute, Resume, RequestCancel, Crash, Edit, NoFault, Abort, files, record, allVars
  <2> QED
    BY <1>1, <1>4, <2>1
<1> QED
  BY <1>1, <1>2, <1>3, <1>5, <1>6 DEF RunNext

(* The local driver implements SourceDrain: each source goes only behind    *)
(* the announcement settle_one writes ahead, is reported as kept only while *)
(* it is there and as removed only when it went and the destination held    *)
(* the same item, and no later row, crash or resume takes either report     *)
(* back.                                                                    *)
THEOREM SafeDeleteImplementsDrain == RunSpec => DrainImplemented
BY RunInvariant, DrainBegins, StepDrains, PTL DEF RunSpec, DrainImplemented, Drain!Spec

(* What the report says of a source is true at every moment, and not only   *)
(* at the end: a source that is gone by the run's hand is under review or   *)
(* reported as removed, and one reported as removed is gone, with the same  *)
(* item found at the destination (settle_one, apply_stored_event).          *)
THEOREM SafeDeleteReportIsTrue == RunSpec => []Drain!Truthful
<1>1. Ledger /\ Position => Drain!Truthful
  <2> SUFFICES ASSUME Ledger, Position, NEW s \in Actions
               PROVE  /\ ItemOf(taken, s) # NoContent => Said(s) \in {"review", "removed"}
                      /\ Said(s) = "removed" => /\ ItemOf(taken, s) # NoContent
                                                /\ ItemOf(witnessed, s) = ItemOf(taken, s)
    BY DEF Drain!Truthful
  <2>1. CASE ~IsRemoval(s)
    BY <2>1 DEF Said, ItemOf
  <2>2. CASE IsRemoval(s)
    <3>1. /\ ItemOf(taken, s) = taken[plan[s].path]
          /\ ItemOf(witnessed, s) = witnessed[plan[s].path]
          /\ Said(s) = WordOf(LastPhase(s))
      BY <2>2, SaidWords DEF ItemOf
    <3>2. taken[plan[s].path] # NoContent =>
            LastPhase(s) \in ShownPhases /\ witnessed[plan[s].path] = taken[plan[s].path]
      BY <2>2, GoneShown
    <3>3. LastPhase(s) \in ShownPhases => WordOf(LastPhase(s)) \in {"review", "removed"}
      BY DEF ShownPhases, WordOf, OpenPhases
    <3>4. WordOf(LastPhase(s)) = "removed" => LastPhase(s) \in {"completed", "removal_completed"}
      BY DEF WordOf
    <3>5. LastPhase(s) # "completed"
      <4>1. Removes(s)
        BY <2>2 DEF IsRemoval, Removes
      <4>2. LastPhase(s) = "completed" => HasPlan(s)
        BY DEF LastPhase
      <4> QED
        BY <4>1, <4>2 DEF Ledger, RowsFit
    <3>6. LastPhase(s) = "removal_completed" => taken[plan[s].path] # NoContent
      BY DEF Ledger, RemovedTaken
    <3> QED
      BY <3>1, <3>2, <3>3, <3>4, <3>5, <3>6
  <2> QED
    BY <2>1, <2>2
<1> QED
  BY <1>1, RunInvariant, PTL
=============================================================================
