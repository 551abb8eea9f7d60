---------------------------- MODULE MirrorProofs ----------------------------
(***************************************************************************)
(* What Mirror Sync keeps, for any number of paths, any contents and any   *)
(* number of runs, edits and faults.  First the types, which rest on the   *)
(* shape of a run's record; then that the history of agreed states only    *)
(* grows, that a reconciled run's clean paths are mirrored, and from both  *)
(* what may enter the baseline, a deletion plan and the report's rows.     *)
(***************************************************************************)
EXTENDS Mirror, TLAPS

-----------------------------------------------------------------------------
(* Types. *)

(* A run that is not over and not reconciled has a plan and outcomes. *)
LEMMA RunInProgress ==
  ASSUME MirrorTypeOK, run # NoRun, run.pc # "reconciled"
  PROVE  run \in Runs
BY DEF MirrorTypeOK, ReconciledRuns

LEMMA ActingRun ==
  ASSUME MirrorTypeOK, Acting
  PROVE  run \in Runs /\ run # NoRun /\ run.pc = "acting"
BY RunInProgress DEF Acting

(* What a planned action says is typed. *)
LEMMA PlannedAction ==
  ASSUME MirrorTypeOK, Acting, NEW p \in Paths, run.plan[p] # NoAction
  PROVE  /\ run.plan[p] \in Actions
         /\ run.plan[p].from \in Sides
         /\ run.plan[p].expected \in Items
<1>1. run \in Runs
  BY ActingRun
<1>2. run.plan[p] \in Actions
  BY <1>1 DEF Runs
<1>3. QED
  BY <1>2 DEF Actions

LEMMA NewRunTyped ==
  ASSUME MirrorTypeOK, NEW kind \in {"mirror", "resolution", "deletion"},
         NEW pc \in {"confirmed", "acting"}, NEW plan \in [Paths -> Actions]
  PROVE  /\ NewRun(kind, pc) \in Runs
         /\ [NewRun(kind, pc) EXCEPT !.plan = plan] \in Runs
<1>1. files \in Peers
  BY DEF MirrorTypeOK
<1>2. [p \in Paths |-> NoAction] \in [Paths -> Actions]
  BY DEF Actions
<1>3. NoRows \in [Paths -> Outcomes]
  BY DEF NoRows, Outcomes
<1>4. QED
  BY <1>1, <1>2, <1>3 DEF NewRun, Runs

LEMMA PlannedTyped ==
  ASSUME NEW plan \in [Paths -> Actions], Planned(plan)
  PROVE  journal' \in [Paths -> Phases]
BY DEF Planned, Phases

LEMMA OverTyped ==
  ASSUME RunIsOver
  PROVE  run' = NoRun /\ journal' \in [Paths -> Phases]
BY DEF RunIsOver, NoRows, Phases

LEMMA NoRowsTyped == NoRows \in [Paths -> Outcomes] /\ NoRows \in [Paths -> Phases]
BY DEF NoRows, Outcomes, Phases

(* An action that continues or stops the run keeps its record typed. *)
LEMMA ContinuesTyped ==
  ASSUME MirrorTypeOK, Acting, NEW p \in Paths, NEW phase \in Phases,
         NEW outcome \in Outcomes, Continues(p, phase, outcome)
  PROVE  run' \in Runs /\ journal' \in [Paths -> Phases]
<1>1. run \in Runs
  BY ActingRun
<1>2. run' \in Runs
  BY <1>1 DEF Continues, Outcome, Runs
<1>3. journal' \in [Paths -> Phases]
  BY DEF MirrorTypeOK, Continues, Phase
<1>4. QED
  BY <1>2, <1>3

LEMMA StopsTyped ==
  ASSUME MirrorTypeOK, Acting, NEW p \in Paths, NEW phase \in Phases,
         NEW outcome \in Outcomes, Stops(p, phase, outcome)
  PROVE  run' \in Runs /\ journal' \in [Paths -> Phases]
<1>1. run \in Runs
  BY ActingRun
<1>2. run' \in Runs
  BY <1>1 DEF Stops, Runs, Outcomes
<1>3. journal' \in [Paths -> Phases]
  BY DEF MirrorTypeOK, Stops, Phases
<1>4. QED
  BY <1>2, <1>3

LEMMA TransferTyped ==
  ASSUME MirrorTypeOK, Acting, NEW p \in Paths, run.plan[p] # NoAction, Transfer(p)
  PROVE  files' \in Peers /\ installed' \subseteq Paths
<1>1. run.plan[p].from \in Sides
  BY PlannedAction
<1>2. Other(run.plan[p].from) \in Sides
  BY DEF Other, Sides
<1>3. files' = [files EXCEPT ![Other(run.plan[p].from)][p] = files[run.plan[p].from][p]]
  BY DEF Transfer, Change
<1>4. files[run.plan[p].from][p] \in Contents \cup {Absent}
  BY <1>1 DEF MirrorTypeOK, Peers
<1>5. files' \in Peers
  BY <1>2, <1>3, <1>4 DEF MirrorTypeOK, Peers
<1>6. installed' \subseteq Paths
  BY DEF MirrorTypeOK, Transfer
<1>7. QED
  BY <1>5, <1>6

LEMMA LeavesTyped ==
  ASSUME MirrorTypeOK, Acting, NEW p \in Paths, run.plan[p] # NoAction,
         TransferFails(p) \/ TransferUncertain(p)
  PROVE  files' \in Peers /\ installed' \subseteq Paths
<1>1. run.plan[p].from \in Sides /\ Other(run.plan[p].from) \in Sides
  BY PlannedAction DEF Other, Sides
<1>2. {Old(p), Absent, New(p)} \subseteq Contents \cup {Absent}
  BY <1>1 DEF Old, New, MirrorTypeOK, Peers
<1>3. CASE Untransferred
  BY <1>3 DEF Untransferred, MirrorTypeOK
<1>4. CASE ~Untransferred
  <2>1. PICK item \in {Old(p), Absent, New(p)} :
          files' = [files EXCEPT ![Other(run.plan[p].from)][p] = item]
    BY <1>4 DEF TransferFails, TransferUncertain, Leaves, Change
  <2>2. files' \in Peers
    BY <1>1, <1>2, <2>1 DEF MirrorTypeOK, Peers
  <2>3. UNCHANGED installed
    BY <1>4 DEF TransferFails, TransferUncertain, Leaves
  <2>4. QED
    BY <2>2, <2>3 DEF MirrorTypeOK
<1>5. QED
  BY <1>3, <1>4

(* The plans of the three kinds of runs are typed. *)
LEMMA CopyPlanTyped ==
  ASSUME MirrorTypeOK, NEW inv
  PROVE  CopyPlan(inv) \in [Paths -> Actions]
<1> SUFFICES ASSUME NEW p \in Paths
             PROVE  CopyPlan(inv)[p] \in Actions
  BY DEF CopyPlan
<1>1. \A s \in Sides : files[s][p] \in Items
  BY DEF MirrorTypeOK, Peers, Items
<1>2. "A" \in Sides /\ "B" \in Sides
  BY DEF Sides
<1>3. \A s \in Sides : Action("copy", s, files[s][p]) \in Actions
  BY <1>1 DEF Action, Actions
<1>4. QED
  BY <1>2, <1>3 DEF CopyPlan, Actions

(* Every reviewed path of a Resolution Run that may start is a same-path
   conflict with a decision of its own.                                   *)
LEMMA ReviewedHasDecision ==
  ASSUME MirrorTypeOK, review # NoReview, Revalidates(review),
         NEW p \in ReviewedPaths(review)
  PROVE  /\ p \in Paths
         /\ review.decisions[SamePath(p)] \in {"keep_A", "keep_B", "preserve", "defer"}
<1>1. SamePath(p) \in Entries(files)
  BY DEF Revalidates, DecidesAll
<1>2. p \in Conflicts(files)
  BY <1>1 DEF Entries, Duplicates, SamePath, Duplicate
<1>3. p \in Paths
  BY <1>2 DEF Conflicts
<1>4. At(files, p) = At(review.inv, p)
  BY DEF Revalidates
<1>5. \A s \in Sides : files[s][p] = review.inv[s][p]
  BY <1>4 DEF At
<1>6. p \in Conflicts(review.inv)
  BY <1>2, <1>5 DEF Conflicts, Present, Mirrored, Sides
<1>7. SamePath(p) \in Entries(review.inv)
  BY <1>6 DEF Entries
<1>8. review.decisions \in [Entries(review.inv) -> {"keep_A", "keep_B", "preserve", "defer"}]
  BY DEF MirrorTypeOK, Decisions
<1>9. QED
  BY <1>3, <1>7, <1>8

LEMMA ResolutionPlanTyped ==
  ASSUME MirrorTypeOK, review # NoReview, Revalidates(review)
  PROVE  ResolutionPlan(review, files) \in [Paths -> Actions]
<1> SUFFICES ASSUME NEW p \in Paths
             PROVE  ResolutionPlan(review, files)[p] \in Actions
  BY DEF ResolutionPlan
<1>1. CASE p \notin ReviewedPaths(review)
  BY <1>1 DEF ResolutionPlan, Actions
<1>2. CASE p \in ReviewedPaths(review)
  <2> DEFINE d == review.decisions[SamePath(p)]
  <2>1. d \in {"keep_A", "keep_B", "preserve", "defer"}
    BY <1>2, ReviewedHasDecision
  <2>2. files["A"][p] \in Items /\ files["B"][p] \in Items
    BY DEF MirrorTypeOK, Peers, Items, Sides
  <2>3. ResolutionAction(d, files, p) \in Actions
    BY <2>1, <2>2 DEF ResolutionAction, Action, Actions, Sides
  <2>4. QED
    BY <1>2, <2>3 DEF ResolutionPlan
<1>3. QED
  BY <1>1, <1>2

LEMMA DeletionPlanTyped ==
  ASSUME MirrorTypeOK, NEW choice \in [Paths -> {"delete", "defer"}]
  PROVE  DeletionPlan(choice) \in [Paths -> Actions]
<1> SUFFICES ASSUME NEW p \in Paths
             PROVE  DeletionPlan(choice)[p] \in Actions
  BY DEF DeletionPlan
<1>1. \A s \in Sides : files[s][p] \in Items
  BY DEF MirrorTypeOK, Peers, Items
<1>2. "A" \in Sides /\ "B" \in Sides
  BY DEF Sides
<1>3. \A s \in Sides : Action(choice[p], s, files[s][p]) \in Actions
  BY <1>1 DEF Action, Actions
<1>4. QED
  BY <1>2, <1>3 DEF DeletionPlan, Actions

-----------------------------------------------------------------------------
(* What the types rest on besides: a confirmed Resolution Run still has its
   review, and the deletion executor reports one of three results.          *)

ReviewHeld ==
  run # NoRun /\ run.pc = "confirmed" /\ run.kind = "resolution" => review # NoReview

ReportedEverywhere ==
  Acting /\ run.kind = "deletion" =>
    \A p \in Paths : run.outcomes[p] \in {"none", "completed", "failed", "deferred"}

-----------------------------------------------------------------------------
(* Types: one step for each action. *)

LEMMA EditTyped ==
  ASSUME MirrorTypeOK, NEW s \in Sides, NEW p \in Paths, NEW c \in Contents \cup {Absent},
         Edit(s, p, c)
  PROVE  MirrorTypeOK'
<1>1. files' = [files EXCEPT ![s][p] = c]
  BY DEF Edit, Change
<1>2. files' \in Peers
  BY <1>1 DEF MirrorTypeOK, Peers
<1>3. UNCHANGED <<baseline, review, run, journal, rows, installed>>
  BY DEF Edit, evidence
<1>4. QED
  BY <1>2, <1>3 DEF MirrorTypeOK

LEMMA ReviewTyped ==
  ASSUME MirrorTypeOK, ReviewConflicts
  PROVE  MirrorTypeOK'
<1>1. PICK d \in Decisions(files), bound \in BOOLEAN :
        review' = [inv |-> files, decisions |-> d, baseline |-> baseline, bound |-> bound]
  BY DEF ReviewConflicts
<1>2. review'.inv = files /\ review'.decisions = d
  BY <1>1
<1>3. review'.inv \in Peers /\ review'.decisions \in Decisions(review'.inv)
  BY <1>2 DEF MirrorTypeOK
<1>4. UNCHANGED <<files, baseline, run, journal, rows, installed>>
  BY DEF ReviewConflicts, evidence
<1>5. QED
  BY <1>3, <1>4 DEF MirrorTypeOK

LEMMA BeginTyped ==
  ASSUME MirrorTypeOK, BeginMirrorRun \/ BeginResolutionRun \/ BeginDeletionRun
  PROVE  MirrorTypeOK'
<1>1. NewRun("mirror", "confirmed") \in Runs /\ NewRun("resolution", "confirmed") \in Runs
  <2>1. [p \in Paths |-> NoAction] \in [Paths -> Actions]
    BY DEF Actions
  <2>2. QED
    BY <2>1, NewRunTyped
<1>2. run' \in {NoRun} \cup Runs
  <2>1. CASE BeginMirrorRun
    BY <1>1, <2>1 DEF BeginMirrorRun
  <2>2. CASE BeginResolutionRun
    BY <1>1, <2>2 DEF BeginResolutionRun
  <2>3. CASE BeginDeletionRun
    <3>1. PICK choice \in [Paths -> {"delete", "defer"}] :
            run' = [NewRun("deletion", "acting") EXCEPT !.plan = DeletionPlan(choice)]
      BY <2>3 DEF BeginDeletionRun
    <3>2. DeletionPlan(choice) \in [Paths -> Actions]
      BY DeletionPlanTyped
    <3>3. QED
      BY <3>1, <3>2, NewRunTyped
  <2>4. QED
    BY <2>1, <2>2, <2>3
<1>3. UNCHANGED <<files, baseline>> /\ (review' = review \/ review' = NoReview)
  BY DEF BeginMirrorRun, BeginResolutionRun, BeginDeletionRun, Quiet
<1>4. \/ UNCHANGED <<journal, rows, installed>>
      \/ journal' = NoRows /\ rows' = NoRows /\ installed' = {}
  BY DEF BeginMirrorRun, BeginResolutionRun, BeginDeletionRun, evidence
<1>5. /\ journal' \in [Paths -> Phases]
      /\ rows' \in [Paths -> Outcomes]
      /\ installed' \subseteq Paths
  BY <1>4, NoRowsTyped DEF MirrorTypeOK
<1>6. review' # NoReview =>
        review'.inv \in Peers /\ review'.decisions \in Decisions(review'.inv)
  BY <1>3 DEF MirrorTypeOK
<1>7. QED
  BY <1>2, <1>3, <1>5, <1>6 DEF MirrorTypeOK

LEMMA PlanMirrorRunTyped ==
  ASSUME MirrorTypeOK, PlanMirrorRun
  PROVE  MirrorTypeOK'
<1> DEFINE plan == CopyPlan(run.inv)
<1>1. run \in Runs
  BY RunInProgress DEF PlanMirrorRun
<1>2. plan \in [Paths -> Actions]
  BY CopyPlanTyped
<1>3. run' \in {NoRun} \cup Runs /\ journal' \in [Paths -> Phases]
  <2>1. CASE RunIsOver
    BY <2>1, OverTyped
  <2>2. CASE run' = [run EXCEPT !.pc = "acting", !.plan = plan] /\ Planned(plan)
    <3>1. run' \in Runs
      BY <1>1, <1>2, <2>2 DEF Runs
    <3>2. QED
      BY <3>1, <1>2, <2>2, PlannedTyped
  <2>3. QED
    BY <2>1, <2>2 DEF PlanMirrorRun
<1>4. /\ UNCHANGED <<files, baseline, review>>
      /\ rows' = NoRows /\ installed' = {}
  BY DEF PlanMirrorRun, Quiet
<1>5. QED
  BY <1>3, <1>4, NoRowsTyped DEF MirrorTypeOK

LEMMA PrepareTyped ==
  ASSUME MirrorTypeOK, PrepareResolutionRun, review # NoReview
  PROVE  MirrorTypeOK'
<1> DEFINE plan == ResolutionPlan(review, files)
<1>1. /\ run' \in {NoRun} \cup Runs
      /\ journal' \in [Paths -> Phases]
      /\ rows' \in [Paths -> Outcomes]
      /\ installed' \subseteq Paths
  <2>1. CASE ~Revalidates(review)
    <3>1. RunIsOver /\ UNCHANGED <<rows, installed>>
      BY <2>1 DEF PrepareResolutionRun
    <3>2. QED
      BY <3>1, OverTyped DEF MirrorTypeOK
  <2>2. CASE Revalidates(review)
    <3>1. plan \in [Paths -> Actions]
      BY <2>2, ResolutionPlanTyped
    <3>2. /\ run' = [NewRun("resolution", "acting") EXCEPT !.plan = plan]
          /\ Planned(plan)
          /\ rows' = [p \in Paths |->
                        IF plan[p] = NoAction THEN "none"
                        ELSE IF plan[p].decision = "defer" THEN "deferred"
                        ELSE "unresolved"]
          /\ installed' = {}
      BY <2>2 DEF PrepareResolutionRun
    <3>3. run' \in Runs
      BY <3>1, <3>2, NewRunTyped
    <3>4. journal' \in [Paths -> Phases]
      BY <3>1, <3>2, PlannedTyped
    <3>5. rows' \in [Paths -> Outcomes]
      BY <3>2 DEF Outcomes
    <3>6. QED
      BY <3>2, <3>3, <3>4, <3>5
  <2>3. QED
    BY <2>1, <2>2
<1>2. UNCHANGED <<files, baseline>> /\ review' = NoReview
  BY DEF PrepareResolutionRun, Quiet
<1>3. QED
  BY <1>1, <1>2 DEF MirrorTypeOK

LEMMA CopyItemTyped ==
  ASSUME MirrorTypeOK, NEW p \in Paths, CopyItem(p)
  PROVE  MirrorTypeOK'
<1>1. Acting /\ run.plan[p] # NoAction
  BY DEF CopyItem, IsNext, ToDo
<1>2. UNCHANGED <<baseline, review, rows>>
  BY DEF CopyItem
<1>3. "completed" \in Phases /\ "review" \in Phases /\ "failed" \in Phases
  BY DEF Phases
<1>4. "completed" \in Outcomes /\ "unresolved" \in Outcomes
  BY DEF Outcomes
<1>5. CASE /\ Transfer(p)
           /\ IF Verified(p) THEN Continues(p, "completed", "completed") ELSE RunIsOver
  <2>1. run' \in {NoRun} \cup Runs /\ journal' \in [Paths -> Phases]
    BY <1>1, <1>3, <1>4, <1>5, ContinuesTyped, OverTyped
  <2>2. files' \in Peers /\ installed' \subseteq Paths
    BY <1>1, <1>5, TransferTyped
  <2>3. QED
    BY <1>2, <2>1, <2>2 DEF MirrorTypeOK
<1>6. CASE TransferFails(p)
  <2>1. run' \in Runs /\ journal' \in [Paths -> Phases]
    BY <1>1, <1>3, <1>4, <1>6, ContinuesTyped DEF TransferFails
  <2>2. files' \in Peers /\ installed' \subseteq Paths
    BY <1>1, <1>6, LeavesTyped
  <2>3. QED
    BY <1>2, <2>1, <2>2 DEF MirrorTypeOK
<1>7. CASE TransferUncertain(p) /\ Stops(p, "review", "unresolved")
  <2>1. run' \in Runs /\ journal' \in [Paths -> Phases]
    BY <1>1, <1>3, <1>4, <1>7, StopsTyped
  <2>2. files' \in Peers /\ installed' \subseteq Paths
    BY <1>1, <1>7, LeavesTyped
  <2>3. QED
    BY <1>2, <2>1, <2>2 DEF MirrorTypeOK
<1>8. QED
  BY <1>5, <1>6, <1>7 DEF CopyItem

LEMMA KeepItemTyped ==
  ASSUME MirrorTypeOK, NEW p \in Paths, KeepItem(p)
  PROVE  MirrorTypeOK'
<1>1. Acting /\ run.plan[p] # NoAction
  BY DEF KeepItem, Starts, IsNext, ToDo
<1>2. UNCHANGED <<baseline, review, rows>>
  BY DEF KeepItem
<1>3. "completed" \in Phases /\ "review" \in Phases /\ "failed" \in Phases
  BY DEF Phases
<1>4. "completed" \in Outcomes /\ "unresolved" \in Outcomes
  BY DEF Outcomes
<1>5. run' \in Runs /\ journal' \in [Paths -> Phases]
  <2>1. \/ \E phase \in Phases, outcome \in Outcomes : Continues(p, phase, outcome)
        \/ \E phase \in Phases, outcome \in Outcomes : Stops(p, phase, outcome)
    BY <1>3, <1>4 DEF KeepItem, TransferFails
  <2>2. QED
    BY <1>1, <2>1, ContinuesTyped, StopsTyped
<1>6. files' \in Peers /\ installed' \subseteq Paths
  <2>1. CASE Transfer(p)
    BY <1>1, <2>1, TransferTyped
  <2>2. CASE TransferFails(p) \/ TransferUncertain(p)
    BY <1>1, <2>2, LeavesTyped
  <2>3. QED
    BY <2>1, <2>2 DEF KeepItem
<1>7. QED
  BY <1>2, <1>5, <1>6 DEF MirrorTypeOK

(* The actions that transfer nothing to a peer. *)
LEMMA OtherItemsTyped ==
  ASSUME MirrorTypeOK, NEW p \in Paths,
         StartRefused(p) \/ PreserveItem(p) \/ DeferItem(p)
  PROVE  MirrorTypeOK'
<1>1. Acting
  BY DEF StartRefused, PreserveItem, DeferItem, Starts
<1>2. UNCHANGED <<files, baseline, review, rows>>
  BY DEF StartRefused, PreserveItem, DeferItem, Untransferred
<1>3. "open" \in Phases /\ "completed" \in Phases /\ "failed" \in Phases /\ "deferred" \in Phases
  BY DEF Phases
<1>4. "completed" \in Outcomes /\ "unresolved" \in Outcomes /\ "deferred" \in Outcomes
  BY DEF Outcomes
<1>5. \/ \E phase \in Phases, outcome \in Outcomes : Continues(p, phase, outcome)
      \/ \E phase \in Phases, outcome \in Outcomes : Stops(p, phase, outcome)
  BY <1>3, <1>4 DEF StartRefused, PreserveItem, DeferItem
<1>6. run' \in Runs /\ journal' \in [Paths -> Phases]
  BY <1>1, <1>5, ContinuesTyped, StopsTyped
<1>7. installed' \subseteq Paths
  BY DEF MirrorTypeOK, StartRefused, PreserveItem, DeferItem, Untransferred
<1>8. QED
  BY <1>2, <1>6, <1>7 DEF MirrorTypeOK

LEMMA CancelTyped ==
  ASSUME MirrorTypeOK, CancelCopies
  PROVE  MirrorTypeOK'
<1>1. PICK p \in Paths : Stops(p, "cancelled", "unresolved")
  BY DEF CancelCopies
<1>2. Acting /\ UNCHANGED <<files, baseline, review, rows, installed>>
  BY DEF CancelCopies, Untransferred
<1>3. run' \in Runs /\ journal' \in [Paths -> Phases]
  BY <1>1, <1>2, StopsTyped DEF Phases, Outcomes
<1>4. QED
  BY <1>2, <1>3 DEF MirrorTypeOK

LEMMA DeleteItemTyped ==
  ASSUME MirrorTypeOK, NEW p \in Paths, DeleteItem(p)
  PROVE  MirrorTypeOK'
<1>1. Acting /\ run.plan[p] # NoAction
  BY DEF DeleteItem, IsNext, ToDo
<1>2. run \in Runs
  BY <1>1, ActingRun
<1>3. \E outcome \in Outcomes : Outcome(p, outcome)
  BY DEF DeleteItem, Outcomes
<1>4. run' \in Runs
  BY <1>2, <1>3 DEF Outcome, Runs
<1>5. run.plan[p].from \in Sides
  BY <1>1, PlannedAction
<1>6. files' = files \/ files' = [files EXCEPT ![run.plan[p].from][p] = Absent]
  BY DEF DeleteItem, Change
<1>7. files' \in Peers
  <2>1. files \in Peers
    BY DEF MirrorTypeOK
  <2>2. CASE files' = files
    BY <2>1, <2>2
  <2>3. CASE files' = [files EXCEPT ![run.plan[p].from][p] = Absent]
    BY <1>5, <2>1, <2>3 DEF Peers
  <2>4. QED
    BY <1>6, <2>2, <2>3
<1>8. UNCHANGED <<baseline, review, journal, rows, installed>>
  BY DEF DeleteItem, evidence
<1>9. QED
  BY <1>4, <1>7, <1>8 DEF MirrorTypeOK

LEMMA ActionsEndTyped ==
  ASSUME MirrorTypeOK, ActionsEnd
  PROVE  MirrorTypeOK'
<1>1. run \in Runs
  BY ActingRun DEF ActionsEnd
<1>2. run' = [run EXCEPT !.pc = "reconciling"]
  BY DEF ActionsEnd, Goes
<1>3. run' \in Runs
  BY <1>1, <1>2 DEF Runs
<1>4. run.outcomes \in [Paths -> Outcomes]
  BY <1>1 DEF Runs
<1>5. Rows \in [Paths -> Outcomes]
  BY <1>4 DEF Rows, Outcomes
<1>6. rows' \in [Paths -> Outcomes]
  BY <1>5 DEF ActionsEnd, MirrorTypeOK
<1>7. UNCHANGED <<files, baseline, review, journal, installed>>
  BY DEF ActionsEnd, Quiet
<1>8. QED
  BY <1>3, <1>6, <1>7 DEF MirrorTypeOK

LEMMA RecordDeletionsTyped ==
  ASSUME MirrorTypeOK, ReportedEverywhere, RecordDeletions
  PROVE  MirrorTypeOK'
<1>1. run \in Runs
  BY ActingRun DEF RecordDeletions
<1>2. run' = [run EXCEPT !.pc = "reconciling"]
  BY DEF RecordDeletions, Goes
<1>3. run' \in Runs
  BY <1>1, <1>2 DEF Runs
<1>4. \A p \in Paths : DeletionPhase(p) \in Phases
  <2> SUFFICES ASSUME NEW p \in Paths
               PROVE  DeletionPhase(p) \in Phases
    OBVIOUS
  <2>1. run.plan[p] = NoAction \/ run.outcomes[p] \in {"completed", "failed", "deferred"}
    BY DEF RecordDeletions, ReportedEverywhere, ToDo
  <2>2. QED
    BY <2>1 DEF DeletionPhase, Phases
<1>5. journal' \in [Paths -> Phases]
  BY <1>4 DEF RecordDeletions
<1>6. UNCHANGED <<files, baseline, review, rows, installed>>
  BY DEF RecordDeletions, Quiet
<1>7. QED
  BY <1>3, <1>5, <1>6 DEF MirrorTypeOK

LEMMA ReconcileTyped ==
  ASSUME MirrorTypeOK, Reconcile
  PROVE  MirrorTypeOK'
<1>1. run \in Runs
  BY RunInProgress DEF Reconcile
<1>2. run' = [kind |-> run.kind, pc |-> "reconciled", final |-> files, findings |-> Findings]
  BY DEF Reconcile
<1>3. run.kind \in {"mirror", "resolution", "deletion"} /\ files \in Peers
  BY <1>1 DEF Runs, MirrorTypeOK
<1>4. Findings \in SUBSET Paths
  BY DEF Findings
<1>5. run' \in ReconciledRuns
  BY <1>2, <1>3, <1>4 DEF ReconciledRuns
<1>6. UNCHANGED <<files, baseline, review, journal, rows, installed>>
  BY DEF Reconcile, Quiet, evidence
<1>7. QED
  BY <1>5, <1>6 DEF MirrorTypeOK

LEMMA EndTyped ==
  ASSUME MirrorTypeOK, UpdateBaseline \/ Crash
  PROVE  MirrorTypeOK'
<1>1. RunIsOver /\ UNCHANGED <<files, rows, installed>>
  BY DEF UpdateBaseline, Crash, Quiet
<1>2. run' = NoRun /\ journal' \in [Paths -> Phases]
  BY <1>1, OverTyped
<1>3. review' = review \/ review' = NoReview
  BY DEF UpdateBaseline, Crash
<1>4. baseline' \in [Paths -> [Sides -> Items]]
  <2>1. CASE UpdateBaseline
    <3>1. run \in ReconciledRuns
      BY <2>1 DEF MirrorTypeOK, UpdateBaseline, Runs
    <3>2. run.final \in Peers
      BY <3>1 DEF ReconciledRuns
    <3>3. \A p \in Paths : At(run.final, p) \in [Sides -> Items]
      BY <3>2 DEF At, Peers, Items
    <3>4. baseline' = [p \in Paths |-> IF Settled(p) THEN At(run.final, p) ELSE baseline[p]]
      BY <2>1 DEF UpdateBaseline
    <3>5. QED
      BY <3>3, <3>4 DEF MirrorTypeOK
  <2>2. CASE Crash
    BY <2>2 DEF Crash, Quiet, MirrorTypeOK
  <2>3. QED
    BY <2>1, <2>2
<1>5. review' # NoReview =>
        review'.inv \in Peers /\ review'.decisions \in Decisions(review'.inv)
  BY <1>3 DEF MirrorTypeOK
<1>6. QED
  BY <1>1, <1>2, <1>4, <1>5 DEF MirrorTypeOK

-----------------------------------------------------------------------------
TypeInv == MirrorTypeOK /\ ReviewHeld /\ ReportedEverywhere

(* The steps of the actions of a plan, whichever run it belongs to. *)
ItemStep(p) ==
  CopyItem(p) \/ StartRefused(p) \/ KeepItem(p) \/ PreserveItem(p) \/ DeferItem(p)

(* Steps on an item leave the run's kind, control and plan alone, or end it. *)
LEMMA ItemStepRun ==
  ASSUME MirrorTypeOK,
         (\E p \in Paths : ItemStep(p)) \/ CancelCopies
  PROVE  /\ Acting /\ run.kind \in {"mirror", "resolution"}
         /\ \/ run' = NoRun
            \/ /\ run' \in Runs /\ Acting'
               /\ run'.kind = run.kind /\ run'.plan = run.plan /\ run'.inv = run.inv
<1>1. PICK p \in Paths : ItemStep(p) \/ CancelCopies
  BY DEF CancelCopies
<1>2. Acting /\ run.kind \in {"mirror", "resolution"}
  BY <1>1 DEF ItemStep, CopyItem, StartRefused, KeepItem, PreserveItem, DeferItem, Starts,
              CancelCopies
<1>3. run \in Runs
  BY <1>2, ActingRun
<1>4. \/ RunIsOver
      \/ \E f \in [Paths -> Outcomes] : run' = [run EXCEPT !.outcomes = f]
  <2>1. CASE \E q \in Paths, phase \in Phases, outcome \in Outcomes : Continues(q, phase, outcome)
    <3>1. PICK q \in Paths, outcome \in Outcomes : Outcome(q, outcome)
      BY <2>1 DEF Continues
    <3>2. [run.outcomes EXCEPT ![q] = outcome] \in [Paths -> Outcomes]
      BY <1>3 DEF Runs
    <3>3. run' = [run EXCEPT !.outcomes = [run.outcomes EXCEPT ![q] = outcome]]
      BY <1>3, <3>1 DEF Outcome, Runs
    <3>4. QED
      BY <3>2, <3>3
  <2>2. CASE \E q \in Paths, phase \in Phases, outcome \in Outcomes : Stops(q, phase, outcome)
    <3>1. PICK q \in Paths, phase \in Phases, outcome \in Outcomes : Stops(q, phase, outcome)
      BY <2>2
    <3> DEFINE f == [x \in Paths |-> IF x = q THEN outcome
                                     ELSE IF x \in ToDo THEN "unresolved" ELSE run.outcomes[x]]
    <3>2. run' = [run EXCEPT !.outcomes = f]
      BY <3>1 DEF Stops
    <3>3. f \in [Paths -> Outcomes]
      BY <1>3 DEF Runs, Outcomes
    <3>4. QED
      BY <3>2, <3>3
  <2>3. /\ {"completed", "review", "failed", "open", "deferred", "cancelled"} \subseteq Phases
        /\ {"completed", "unresolved", "deferred"} \subseteq Outcomes
    BY DEF Phases, Outcomes
  <2>4. \/ RunIsOver
        \/ \E q \in Paths, phase \in Phases, outcome \in Outcomes : Continues(q, phase, outcome)
        \/ \E q \in Paths, phase \in Phases, outcome \in Outcomes : Stops(q, phase, outcome)
    <3>1. CASE CancelCopies
      BY <2>3, <3>1 DEF CancelCopies
    <3>2. CASE CopyItem(p)
      BY <2>3, <3>2 DEF CopyItem, TransferFails
    <3>3. CASE KeepItem(p)
      BY <2>3, <3>3 DEF KeepItem, TransferFails
    <3>4. CASE StartRefused(p) \/ PreserveItem(p) \/ DeferItem(p)
      BY <2>3, <3>4 DEF StartRefused, PreserveItem, DeferItem
    <3>5. QED
      BY <1>1, <3>1, <3>2, <3>3, <3>4 DEF ItemStep
  <2>5. QED
    BY <2>1, <2>2, <2>4
<1>5. CASE RunIsOver
  BY <1>2, <1>5 DEF RunIsOver
<1>6. CASE \E f \in [Paths -> Outcomes] : run' = [run EXCEPT !.outcomes = f]
  <2>1. PICK f \in [Paths -> Outcomes] : run' = [run EXCEPT !.outcomes = f]
    BY <1>6
  <2>2. run' \in Runs /\ run'.pc = run.pc
    BY <1>3, <2>1 DEF Runs
  <2>3. run'.kind = run.kind /\ run'.plan = run.plan /\ run'.inv = run.inv
    BY <1>3, <2>1 DEF Runs
  <2>4. run' # NoRun
    BY <2>2 DEF Runs, NoRun
  <2>5. QED
    BY <1>2, <2>2, <2>3, <2>4 DEF Acting
<1>7. QED
  BY <1>4, <1>5, <1>6

(* The whole step keeps the types. *)
LEMMA TypeStep ==
  ASSUME TypeInv, [Next]_vars
  PROVE  MirrorTypeOK'
<1>1. CASE UNCHANGED vars
  BY <1>1 DEF TypeInv, MirrorTypeOK, vars, evidence
<1>2. CASE \E s \in Sides, p \in Paths, c \in Contents \cup {Absent} : Edit(s, p, c)
  BY <1>2, EditTyped DEF TypeInv
<1>3. CASE ReviewConflicts
  BY <1>3, ReviewTyped DEF TypeInv
<1>4. CASE BeginMirrorRun \/ BeginResolutionRun \/ BeginDeletionRun
  BY <1>4, BeginTyped DEF TypeInv
<1>5. CASE PlanMirrorRun
  BY <1>5, PlanMirrorRunTyped DEF TypeInv
<1>6. CASE PrepareResolutionRun
  <2>1. review # NoReview
    BY <1>6 DEF TypeInv, ReviewHeld, PrepareResolutionRun
  <2>2. QED
    BY <1>6, <2>1, PrepareTyped DEF TypeInv
<1>7. CASE \E p \in Paths : ItemStep(p)
  BY <1>7, CopyItemTyped, KeepItemTyped, OtherItemsTyped DEF TypeInv, ItemStep
<1>8. CASE CancelCopies
  BY <1>8, CancelTyped DEF TypeInv
<1>9. CASE ActionsEnd
  BY <1>9, ActionsEndTyped DEF TypeInv
<1>10. CASE \E p \in Paths : DeleteItem(p)
  BY <1>10, DeleteItemTyped DEF TypeInv
<1>11. CASE RecordDeletions
  BY <1>11, RecordDeletionsTyped DEF TypeInv
<1>12. CASE Reconcile
  BY <1>12, ReconcileTyped DEF TypeInv
<1>13. CASE UpdateBaseline \/ Crash
  BY <1>13, EndTyped DEF TypeInv
<1>14. QED
  BY <1>1, <1>2, <1>3, <1>4, <1>5, <1>6, <1>7, <1>8, <1>9, <1>10, <1>11, <1>12, <1>13
     DEF Next, ItemStep

LEMMA ReviewHeldStep ==
  ASSUME TypeInv, [Next]_vars
  PROVE  ReviewHeld'
<1>1. CASE \/ UNCHANGED vars
           \/ \E s \in Sides, p \in Paths, c \in Contents \cup {Absent} : Edit(s, p, c)
  <2>1. run' = run /\ review' = review
    BY <1>1 DEF vars, Edit
  <2>2. QED
    BY <2>1 DEF TypeInv, ReviewHeld
<1>2. CASE ReviewConflicts
  BY <1>2 DEF ReviewConflicts, ReviewHeld
<1>3. CASE BeginMirrorRun
  <2>1. run'.kind = "mirror"
    BY <1>3 DEF BeginMirrorRun, NewRun
  <2>2. QED
    BY <2>1 DEF ReviewHeld
<1>4. CASE BeginResolutionRun
  BY <1>4 DEF BeginResolutionRun, ReviewHeld
<1>5. CASE BeginDeletionRun
  <2>1. run'.pc = "acting"
    BY <1>5 DEF BeginDeletionRun, NewRun
  <2>2. QED
    BY <2>1 DEF ReviewHeld
<1>6. CASE PlanMirrorRun
  <2>1. run \in Runs
    BY <1>6, RunInProgress DEF TypeInv, PlanMirrorRun
  <2>2. run' = NoRun \/ run'.pc = "acting"
    BY <1>6, <2>1 DEF PlanMirrorRun, RunIsOver, Runs
  <2>3. QED
    BY <2>2 DEF ReviewHeld
<1>7. CASE PrepareResolutionRun
  <2>1. run' = NoRun \/ run'.pc = "acting"
    BY <1>7 DEF PrepareResolutionRun, RunIsOver, NewRun
  <2>2. QED
    BY <2>1 DEF ReviewHeld
<1>8. CASE (\E p \in Paths : ItemStep(p)) \/ CancelCopies
  <2>1. run' = NoRun \/ run'.pc = "acting"
    BY <1>8, ItemStepRun DEF TypeInv, Acting
  <2>2. QED
    BY <2>1 DEF ReviewHeld
<1>9. CASE ActionsEnd \/ RecordDeletions
  <2>1. run \in Runs
    BY <1>9, ActingRun DEF TypeInv, ActionsEnd, RecordDeletions
  <2>2. run'.pc = "reconciling"
    BY <1>9, <2>1 DEF ActionsEnd, RecordDeletions, Goes, Runs
  <2>3. QED
    BY <2>2 DEF ReviewHeld
<1>10. CASE \E p \in Paths : DeleteItem(p)
  <2>1. run \in Runs /\ run.pc = "acting"
    BY <1>10, ActingRun DEF TypeInv, DeleteItem
  <2>2. PICK p \in Paths, outcome \in Outcomes : Outcome(p, outcome)
    BY <1>10 DEF DeleteItem, Outcomes
  <2>3. run'.pc = "acting"
    BY <2>1, <2>2 DEF Outcome, Runs
  <2>4. QED
    BY <2>3 DEF ReviewHeld
<1>11. CASE Reconcile
  <2>1. run'.pc = "reconciled"
    BY <1>11 DEF Reconcile
  <2>2. QED
    BY <2>1 DEF ReviewHeld
<1>12. CASE UpdateBaseline \/ Crash
  BY <1>12 DEF UpdateBaseline, Crash, RunIsOver, ReviewHeld
<1>13. QED
  BY <1>1, <1>2, <1>3, <1>4, <1>5, <1>6, <1>7, <1>8, <1>9, <1>10, <1>11, <1>12
     DEF Next, ItemStep

LEMMA ReportedStep ==
  ASSUME TypeInv, [Next]_vars
  PROVE  ReportedEverywhere'
<1>1. CASE \/ UNCHANGED vars
           \/ \E s \in Sides, p \in Paths, c \in Contents \cup {Absent} : Edit(s, p, c)
           \/ ReviewConflicts
  <2>1. run' = run
    BY <1>1 DEF vars, Edit, ReviewConflicts
  <2>2. QED
    BY <2>1 DEF TypeInv, ReportedEverywhere, Acting
<1>2. CASE BeginMirrorRun \/ BeginResolutionRun
  <2>1. run' = run \/ run'.pc = "confirmed"
    BY <1>2 DEF BeginMirrorRun, BeginResolutionRun, NewRun
  <2>2. QED
    BY <2>1 DEF TypeInv, ReportedEverywhere, Acting
<1>3. CASE BeginDeletionRun
  <2>1. run'.outcomes = NoRows
    BY <1>3 DEF BeginDeletionRun, NewRun
  <2>2. QED
    BY <2>1 DEF ReportedEverywhere, NoRows
<1>4. CASE PlanMirrorRun
  <2>1. run \in Runs /\ run.kind = "mirror"
    BY <1>4, RunInProgress DEF TypeInv, PlanMirrorRun
  <2>2. run' = NoRun \/ run'.kind = "mirror"
    BY <1>4, <2>1 DEF PlanMirrorRun, RunIsOver, Runs
  <2>3. QED
    BY <2>2 DEF ReportedEverywhere, Acting
<1>5. CASE PrepareResolutionRun
  <2>1. run' = NoRun \/ run'.kind = "resolution"
    BY <1>5 DEF PrepareResolutionRun, RunIsOver, NewRun
  <2>2. QED
    BY <2>1 DEF ReportedEverywhere, Acting
<1>6. CASE (\E p \in Paths : ItemStep(p)) \/ CancelCopies
  <2>1. run' = NoRun \/ run'.kind \in {"mirror", "resolution"}
    BY <1>6, ItemStepRun DEF TypeInv
  <2>2. QED
    BY <2>1 DEF ReportedEverywhere, Acting
<1>7. CASE ActionsEnd \/ RecordDeletions
  <2>1. run \in Runs
    BY <1>7, ActingRun DEF TypeInv, ActionsEnd, RecordDeletions
  <2>2. run'.pc = "reconciling"
    BY <1>7, <2>1 DEF ActionsEnd, RecordDeletions, Goes, Runs
  <2>3. QED
    BY <2>2 DEF ReportedEverywhere, Acting
<1>8. CASE \E p \in Paths : DeleteItem(p)
  <2>1. run \in Runs /\ Acting /\ run.kind = "deletion"
    BY <1>8, ActingRun DEF TypeInv, DeleteItem
  <2>2. PICK q \in Paths, outcome \in {"deferred", "completed", "failed"} : Outcome(q, outcome)
    BY <1>8 DEF DeleteItem
  <2>3. \A p \in Paths : run'.outcomes[p] = IF p = q THEN outcome ELSE run.outcomes[p]
    BY <2>1, <2>2 DEF Outcome, Runs
  <2>4. QED
    BY <2>1, <2>3 DEF TypeInv, ReportedEverywhere
<1>9. CASE Reconcile \/ UpdateBaseline \/ Crash
  <2>1. run' = NoRun \/ run'.pc = "reconciled"
    BY <1>9 DEF Reconcile, UpdateBaseline, Crash, RunIsOver
  <2>2. QED
    BY <2>1 DEF ReportedEverywhere, Acting
<1>10. QED
  BY <1>1, <1>2, <1>3, <1>4, <1>5, <1>6, <1>7, <1>8, <1>9 DEF Next, ItemStep

LEMMA TypeInit == Init => TypeInv
<1> SUFFICES ASSUME Init PROVE TypeInv
  OBVIOUS
<1>1. baseline \in [Paths -> [Sides -> Items]]
  BY DEF Init, NoItem, OnBoth, Items
<1>2. MirrorTypeOK
  BY <1>1, NoRowsTyped DEF Init, MirrorTypeOK
<1>3. QED
  BY <1>2 DEF Init, TypeInv, ReviewHeld, ReportedEverywhere, Acting

(* Every variable keeps its type. *)
THEOREM MirrorTypes == Spec => []MirrorTypeOK
<1>1. TypeInv /\ [Next]_vars => TypeInv'
  BY TypeStep, ReviewHeldStep, ReportedStep DEF TypeInv
<1>2. TypeInv => MirrorTypeOK
  BY DEF TypeInv
<1>3. QED
  BY <1>1, <1>2, TypeInit, PTL DEF Spec

-----------------------------------------------------------------------------
(* What both peers agreed on. *)

SeenAgreed == AgreedStates(files) \subseteq agreed

(* A reconciled run saw states in which the peers agreed, at every path it
   has nothing to say about.                                              *)
ReconciledTruly ==
  run # NoRun /\ run.pc = "reconciled" =>
    /\ AgreedStates(run.final) \subseteq agreed
    /\ \A p \in Paths \ run.findings : Mirrored(run.final, p)

AgreedInv ==
  SeenAgreed /\ ReconciledTruly /\ BaselineWasAgreed /\ DeletesWhatBothHad

(* Every step that changes a peer adds what both then agree on. *)
LEMMA FilesStep ==
  ASSUME [Next]_vars
  PROVE  UNCHANGED <<files, agreed>> \/ agreed' = agreed \cup AgreedStates(files')
<1>1. ASSUME NEW f, Change(f)
      PROVE  agreed' = agreed \cup AgreedStates(files')
  BY <1>1 DEF Change
<1>2. CASE UNCHANGED vars
  BY <1>2 DEF vars
<1>3. CASE \E s \in Sides, p \in Paths, c \in Contents \cup {Absent} : Edit(s, p, c)
  BY <1>1, <1>3 DEF Edit
<1>4. CASE ReviewConflicts
  BY <1>4 DEF ReviewConflicts
<1>5. CASE \/ BeginMirrorRun \/ BeginResolutionRun \/ BeginDeletionRun
           \/ PlanMirrorRun \/ PrepareResolutionRun
  BY <1>5 DEF BeginMirrorRun, BeginResolutionRun, BeginDeletionRun, PlanMirrorRun,
              PrepareResolutionRun, Quiet
<1>6. CASE \E p \in Paths : CopyItem(p)
  BY <1>1, <1>6 DEF CopyItem, Transfer, TransferFails, TransferUncertain, Leaves, Untransferred
<1>7. CASE \E p \in Paths : KeepItem(p)
  BY <1>1, <1>7 DEF KeepItem, Transfer, TransferFails, TransferUncertain, Leaves, Untransferred
<1>8. CASE \/ \E p \in Paths : StartRefused(p) \/ PreserveItem(p) \/ DeferItem(p)
           \/ CancelCopies
  BY <1>8 DEF StartRefused, PreserveItem, DeferItem, CancelCopies, Untransferred
<1>9. CASE \E p \in Paths : DeleteItem(p)
  BY <1>1, <1>9 DEF DeleteItem
<1>10. CASE ActionsEnd \/ RecordDeletions \/ Reconcile \/ UpdateBaseline \/ Crash
  BY <1>10 DEF ActionsEnd, RecordDeletions, Reconcile, UpdateBaseline, Crash, Quiet
<1>11. QED
  BY <1>2, <1>3, <1>4, <1>5, <1>6, <1>7, <1>8, <1>9, <1>10 DEF Next

LEMMA AgreedGrows ==
  ASSUME SeenAgreed, [Next]_vars
  PROVE  agreed \subseteq agreed' /\ SeenAgreed'
BY FilesStep DEF SeenAgreed, AgreedStates, Mirrored

(* Where a run's record comes from that is reconciled, or is a deletion's. *)
LEMMA RunOrigin ==
  ASSUME TypeInv, [Next]_vars, run' # NoRun
  PROVE  /\ run'.pc = "reconciled" => Reconcile \/ run' = run
         /\ run'.pc = "acting" /\ run'.kind = "deletion" =>
              \/ BeginDeletionRun
              \/ Acting /\ run.kind = "deletion" /\ run'.plan = run.plan
<1>1. CASE \/ UNCHANGED vars
           \/ \E s \in Sides, p \in Paths, c \in Contents \cup {Absent} : Edit(s, p, c)
           \/ ReviewConflicts
  BY <1>1 DEF vars, Edit, ReviewConflicts, Acting
<1>2. CASE BeginMirrorRun \/ BeginResolutionRun
  <2>1. run' = run \/ run'.pc = "confirmed"
    BY <1>2 DEF BeginMirrorRun, BeginResolutionRun, NewRun
  <2>2. QED
    BY <2>1 DEF Acting
<1>3. CASE BeginDeletionRun
  <2>1. run'.pc = "acting"
    BY <1>3 DEF BeginDeletionRun, NewRun
  <2>2. QED
    BY <1>3, <2>1
<1>4. CASE PlanMirrorRun
  <2>1. run \in Runs /\ run.kind = "mirror"
    BY <1>4, RunInProgress DEF TypeInv, PlanMirrorRun
  <2>2. run'.kind = "mirror" /\ run'.pc = "acting"
    BY <1>4, <2>1 DEF PlanMirrorRun, RunIsOver, Runs
  <2>3. QED
    BY <2>2
<1>5. CASE PrepareResolutionRun
  <2>1. run'.kind = "resolution" /\ run'.pc = "acting"
    BY <1>5 DEF PrepareResolutionRun, RunIsOver, NewRun
  <2>2. QED
    BY <2>1
<1>6. CASE (\E p \in Paths : ItemStep(p)) \/ CancelCopies
  <2>1. run'.kind \in {"mirror", "resolution"} /\ run'.pc = "acting"
    BY <1>6, ItemStepRun DEF TypeInv, Acting
  <2>2. QED
    BY <2>1
<1>7. CASE ActionsEnd \/ RecordDeletions
  <2>1. run \in Runs
    BY <1>7, ActingRun DEF TypeInv, ActionsEnd, RecordDeletions
  <2>2. run'.pc = "reconciling"
    BY <1>7, <2>1 DEF ActionsEnd, RecordDeletions, Goes, Runs
  <2>3. QED
    BY <2>2
<1>8. CASE \E p \in Paths : DeleteItem(p)
  <2>1. run \in Runs /\ Acting /\ run.kind = "deletion" /\ run.pc = "acting"
    BY <1>8, ActingRun DEF TypeInv, DeleteItem
  <2>2. PICK q \in Paths, outcome \in {"deferred", "completed", "failed"} : Outcome(q, outcome)
    BY <1>8 DEF DeleteItem
  <2>3. run'.pc = "acting" /\ run'.plan = run.plan
    BY <2>1, <2>2 DEF Outcome, Runs
  <2>4. QED
    BY <2>1, <2>3
<1>9. CASE Reconcile \/ UpdateBaseline \/ Crash
  <2>1. CASE Reconcile
    BY <2>1 DEF Reconcile
  <2>2. CASE UpdateBaseline \/ Crash
    BY <2>2 DEF UpdateBaseline, Crash, RunIsOver
  <2>3. QED
    BY <1>9, <2>1, <2>2
<1>10. QED
  BY <1>1, <1>2, <1>3, <1>4, <1>5, <1>6, <1>7, <1>8, <1>9 DEF Next, ItemStep

(* What reconciliation calls clean is the same on both peers. *)
LEMMA CleanIsMirrored ==
  ASSUME NEW p \in Paths, Clean(p)
  PROVE  Mirrored(files, p)
<1>1. \E c : At(files, p) = OnBoth(c)
  BY DEF Clean, NoItem
<1>2. QED
  BY <1>1 DEF At, OnBoth, Mirrored, Sides

LEMMA ReconciledStep ==
  ASSUME TypeInv, AgreedInv, [Next]_vars
  PROVE  ReconciledTruly'
<1> SUFFICES ASSUME run' # NoRun, run'.pc = "reconciled"
             PROVE  /\ AgreedStates(run'.final) \subseteq agreed'
                    /\ \A p \in Paths \ run'.findings : Mirrored(run'.final, p)
  BY DEF ReconciledTruly, AgreedStates, Mirrored
<1>1. agreed \subseteq agreed'
  BY AgreedGrows DEF AgreedInv
<1>2. CASE run' = run
  BY <1>1, <1>2 DEF AgreedInv, ReconciledTruly
<1>3. CASE Reconcile
  <2>1. run'.final = files /\ run'.findings = Findings
    BY <1>3 DEF Reconcile
  <2>2. \A p \in Paths \ Findings : Clean(p)
    BY DEF Findings
  <2>3. QED
    BY <1>1, <2>1, <2>2, CleanIsMirrored DEF AgreedInv, SeenAgreed
<1>4. QED
  BY <1>2, <1>3, RunOrigin

LEMMA BaselineStep ==
  ASSUME TypeInv, AgreedInv, [Next]_vars
  PROVE  BaselineWasAgreed'
<1>1. agreed \subseteq agreed'
  BY AgreedGrows DEF AgreedInv
<1>2. CASE UpdateBaseline
  <2> SUFFICES ASSUME NEW p \in Paths, baseline'[p] # NoItem
               PROVE  baseline'[p]["A"] = baseline'[p]["B"] /\ <<p, baseline'[p]["A"]>> \in agreed'
    BY DEF BaselineWasAgreed, NoItem, OnBoth
  <2>1. baseline'[p] = IF Settled(p) THEN At(run.final, p) ELSE baseline[p]
    BY <1>2 DEF UpdateBaseline
  <2>2. CASE Settled(p)
    <3>1. Mirrored(run.final, p)
      BY <2>2 DEF Settled
    <3>2. <<p, run.final["A"][p]>> \in agreed
      <4>1. <<p, run.final["A"][p]>> \in AgreedStates(run.final)
        BY <3>1 DEF AgreedStates
      <4>2. AgreedStates(run.final) \subseteq agreed
        BY <1>2 DEF AgreedInv, ReconciledTruly, UpdateBaseline
      <4>3. QED
        BY <4>1, <4>2
    <3>3. QED
      BY <1>1, <2>1, <2>2, <3>1, <3>2 DEF At, Sides, Mirrored
  <2>3. CASE ~Settled(p)
    BY <1>1, <2>1, <2>3 DEF AgreedInv, BaselineWasAgreed
  <2>4. QED
    BY <2>2, <2>3
<1>3. CASE UNCHANGED baseline
  BY <1>1, <1>3 DEF AgreedInv, BaselineWasAgreed
<1>4. UpdateBaseline \/ UNCHANGED baseline
  BY DEF Next, vars, Edit, ReviewConflicts, BeginMirrorRun, PlanMirrorRun, BeginResolutionRun,
         PrepareResolutionRun, CopyItem, StartRefused, KeepItem, PreserveItem, DeferItem,
         CancelCopies, ActionsEnd, BeginDeletionRun, DeleteItem, RecordDeletions, Reconcile,
         Crash, Quiet
<1>5. QED
  BY <1>2, <1>3, <1>4

LEMMA DeletesStep ==
  ASSUME TypeInv, AgreedInv, [Next]_vars
  PROVE  DeletesWhatBothHad'
<1> SUFFICES ASSUME run' # NoRun, run'.pc = "acting", run'.kind = "deletion",
                    NEW p \in Paths, run'.plan[p] # NoAction
             PROVE  <<p, run'.plan[p].expected>> \in agreed'
  BY DEF DeletesWhatBothHad, Acting, NoRun, NoAction
<1>1. agreed \subseteq agreed'
  BY AgreedGrows DEF AgreedInv
<1>2. CASE Acting /\ run.kind = "deletion" /\ run'.plan = run.plan
  BY <1>1, <1>2 DEF AgreedInv, DeletesWhatBothHad
<1>3. CASE BeginDeletionRun
  <2>1. PICK choice \in [Paths -> {"delete", "defer"}] :
          run' = [NewRun("deletion", "acting") EXCEPT !.plan = DeletionPlan(choice)]
    BY <1>3 DEF BeginDeletionRun
  <2>2. run'.plan[p] = DeletionPlan(choice)[p]
    BY <2>1 DEF NewRun
  <2>3. PICK s \in Sides : /\ p \in Candidates(files, s)
                           /\ run'.plan[p] = Action(choice[p], s, files[s][p])
    BY <2>2 DEF DeletionPlan, Sides
  <2>4. run'.plan[p].expected = files[s][p]
    BY <2>3 DEF Action
  <2>5. baseline[p] # NoItem /\ baseline[p]["A"] = files[s][p]
    BY <2>3 DEF Candidates, OnBoth, Sides
  <2>6. <<p, files[s][p]>> \in agreed
    BY <2>5 DEF AgreedInv, BaselineWasAgreed
  <2>7. QED
    BY <1>1, <2>4, <2>6
<1>4. QED
  BY <1>2, <1>3, RunOrigin

LEMMA AgreedInit == Init => AgreedInv
BY DEF Init, AgreedInv, SeenAgreed, ReconciledTruly, BaselineWasAgreed, DeletesWhatBothHad, Acting

LEMMA AgreedAlways == Spec => [](TypeInv /\ AgreedInv)
<1>1. Init => TypeInv /\ AgreedInv
  BY TypeInit, AgreedInit
<1>2. TypeInv /\ AgreedInv /\ [Next]_vars => TypeInv' /\ AgreedInv'
  BY TypeStep, ReviewHeldStep, ReportedStep, AgreedGrows, ReconciledStep, BaselineStep, DeletesStep
     DEF TypeInv, AgreedInv
<1>3. QED
  BY <1>1, <1>2, PTL DEF Spec

(* A run whose reconciliation finds nothing left the same on both peers. *)
THEOREM CleanRunsMirror == Spec => []CleanRunMirrors
<1>1. AgreedInv => CleanRunMirrors
  BY DEF AgreedInv, ReconciledTruly, CleanRunMirrors
<1>2. QED
  BY <1>1, AgreedAlways, PTL

(* The Sync Baseline holds nothing that both peers did not hold at once. *)
THEOREM BaselineIsAgreed == Spec => []BaselineWasAgreed
<1>1. AgreedInv => BaselineWasAgreed
  BY DEF AgreedInv
<1>2. QED
  BY <1>1, AgreedAlways, PTL

(* A reviewed deletion is planned only for what both peers held at once. *)
THEOREM DeletionsWereAgreed == Spec => []DeletesWhatBothHad
<1>1. AgreedInv => DeletesWhatBothHad
  BY DEF AgreedInv
<1>2. QED
  BY <1>1, AgreedAlways, PTL

-----------------------------------------------------------------------------
(* The report's rows. *)

DoneAsDecided ==
  Acting /\ run.kind = "resolution" =>
    \A p \in Paths : run.outcomes[p] = "completed" => p \in installed

RowsInv == RowsTellTheTruth /\ DoneAsDecided

(* An action of a Resolution Run keeps what is installed, and counts as
   completed only what it installs.                                        *)
LEMMA ItemCompletes ==
  ASSUME TypeInv, NEW p \in Paths,
         StartRefused(p) \/ KeepItem(p) \/ PreserveItem(p) \/ DeferItem(p)
  PROVE  /\ rows' = rows /\ installed \subseteq installed'
         /\ \A q \in Paths : run'.outcomes[q] = "completed" =>
              run.outcomes[q] = "completed" \/ q \in installed'
<1>1. run \in Runs /\ run.kind = "resolution"
  BY ActingRun DEF TypeInv, StartRefused, KeepItem, PreserveItem, DeferItem, Starts
<1>2. ASSUME NEW phase, NEW outcome, outcome # "completed" \/ p \in installed',
             Continues(p, phase, outcome)
      PROVE  \A q \in Paths : run'.outcomes[q] = "completed" =>
               run.outcomes[q] = "completed" \/ q \in installed'
  BY <1>1, <1>2 DEF Continues, Outcome, Runs
<1>3. ASSUME NEW phase, Stops(p, phase, "unresolved")
      PROVE  \A q \in Paths : run'.outcomes[q] = "completed" => run.outcomes[q] = "completed"
  BY <1>1, <1>3 DEF Stops, Runs
<1>4. CASE StartRefused(p)
  BY <1>3, <1>4 DEF StartRefused, Untransferred
<1>5. CASE KeepItem(p)
  <2>1. CASE Transfer(p)
    <3>1. installed \subseteq installed' /\ (Verified(p) => p \in installed')
      BY <1>1, <2>1 DEF Transfer, Verified
    <3>2. CASE Verified(p) /\ \E phase \in Phases : Continues(p, phase, "completed")
      BY <1>2, <1>5, <3>1, <3>2 DEF KeepItem
    <3>3. CASE \E phase \in Phases : Stops(p, phase, "unresolved")
      BY <1>3, <1>5, <3>1, <3>3 DEF KeepItem
    <3>4. CASE TransferFails(p)
      BY <1>2, <1>5, <3>1, <3>4 DEF KeepItem, TransferFails
    <3>5. QED
      BY <1>5, <3>2, <3>3, <3>4 DEF KeepItem, Phases
  <2>2. CASE TransferFails(p)
    BY <1>2, <1>5, <2>2 DEF KeepItem, TransferFails, Leaves, Untransferred
  <2>3. CASE TransferUncertain(p) /\ Stops(p, "failed", "unresolved")
    BY <1>3, <1>5, <2>3 DEF KeepItem, TransferUncertain, Leaves
  <2>4. QED
    BY <1>5, <2>1, <2>2, <2>3 DEF KeepItem
<1>6. CASE PreserveItem(p)
  BY <1>2, <1>6 DEF PreserveItem
<1>7. CASE DeferItem(p)
  BY <1>2, <1>7 DEF DeferItem, Untransferred
<1>8. QED
  BY <1>4, <1>5, <1>6, <1>7

LEMMA RowsStep ==
  ASSUME TypeInv, RowsInv, [Next]_vars
  PROVE  RowsInv'
<1>1. CASE \/ UNCHANGED vars
           \/ \E s \in Sides, p \in Paths, c \in Contents \cup {Absent} : Edit(s, p, c)
           \/ ReviewConflicts
  <2>1. run' = run /\ rows' = rows /\ installed' = installed
    BY <1>1 DEF vars, evidence, Edit, ReviewConflicts
  <2>2. QED
    BY <2>1 DEF RowsInv, RowsTellTheTruth, DoneAsDecided, Acting
<1>2. CASE BeginMirrorRun \/ BeginResolutionRun
  <2>1. (run' = run \/ run'.pc = "confirmed") /\ rows' = rows /\ installed' = installed
    BY <1>2 DEF BeginMirrorRun, BeginResolutionRun, NewRun, evidence
  <2>2. QED
    BY <2>1 DEF RowsInv, RowsTellTheTruth, DoneAsDecided, Acting
<1>3. CASE BeginDeletionRun
  <2>1. run'.kind = "deletion" /\ rows' = NoRows
    BY <1>3 DEF BeginDeletionRun, NewRun
  <2>2. QED
    BY <2>1 DEF RowsInv, RowsTellTheTruth, DoneAsDecided, NoRows
<1>4. CASE PlanMirrorRun
  <2>1. run \in Runs /\ run.kind = "mirror"
    BY <1>4, RunInProgress DEF TypeInv, PlanMirrorRun
  <2>2. (run' = NoRun \/ run'.kind = "mirror") /\ rows' = NoRows
    BY <1>4, <2>1 DEF PlanMirrorRun, RunIsOver, Runs
  <2>3. QED
    BY <2>2 DEF RowsInv, RowsTellTheTruth, DoneAsDecided, Acting, NoRows
<1>5. CASE PrepareResolutionRun
  <2>1. CASE ~Revalidates(review)
    BY <1>5, <2>1 DEF PrepareResolutionRun, RunIsOver, RowsInv, RowsTellTheTruth,
                      DoneAsDecided, Acting
  <2>2. CASE Revalidates(review)
    <3>1. run'.outcomes = NoRows
      BY <1>5, <2>2 DEF PrepareResolutionRun, NewRun
    <3>2. \A p \in Paths : rows'[p] # "completed"
      BY <1>5, <2>2 DEF PrepareResolutionRun
    <3>3. QED
      BY <3>1, <3>2 DEF RowsInv, RowsTellTheTruth, DoneAsDecided, NoRows
  <2>3. QED
    BY <2>1, <2>2
<1>6. CASE (\E p \in Paths : CopyItem(p)) \/ CancelCopies
  <2>1. run.kind = "mirror" /\ rows' = rows
    BY <1>6 DEF CopyItem, CancelCopies
  <2>2. run' = NoRun \/ run'.kind = "mirror"
    BY <1>6, <2>1, ItemStepRun DEF TypeInv, ItemStep
  <2>3. installed' = installed
    BY <1>6, <2>1 DEF CopyItem, CancelCopies, Transfer, TransferFails, TransferUncertain,
                      Leaves, Untransferred
  <2>4. QED
    BY <2>1, <2>2, <2>3 DEF RowsInv, RowsTellTheTruth, DoneAsDecided, Acting
<1>7. CASE \E p \in Paths : StartRefused(p) \/ KeepItem(p) \/ PreserveItem(p) \/ DeferItem(p)
  <2>1. Acting /\ run.kind = "resolution"
    BY <1>7 DEF StartRefused, KeepItem, PreserveItem, DeferItem, Starts
  <2>2. /\ rows' = rows /\ installed \subseteq installed'
        /\ \A q \in Paths : run'.outcomes[q] = "completed" =>
             run.outcomes[q] = "completed" \/ q \in installed'
    BY <1>7, ItemCompletes
  <2>3. QED
    BY <2>1, <2>2 DEF RowsInv, RowsTellTheTruth, DoneAsDecided
<1>8. CASE ActionsEnd \/ RecordDeletions
  <2>1. run \in Runs
    BY <1>8, ActingRun DEF TypeInv, ActionsEnd, RecordDeletions
  <2>2. run'.pc = "reconciling"
    BY <1>8, <2>1 DEF ActionsEnd, RecordDeletions, Goes, Runs
  <2>3. installed' = installed
    BY <1>8 DEF ActionsEnd, RecordDeletions
  <2>4. \A p \in Paths : rows'[p] = "completed" =>
          rows[p] = "completed" \/ (run.kind = "resolution" /\ run.outcomes[p] = "completed")
    BY <1>8 DEF ActionsEnd, RecordDeletions, Rows
  <2>5. RowsTellTheTruth'
    BY <1>8, <2>3, <2>4 DEF RowsInv, RowsTellTheTruth, DoneAsDecided, ActionsEnd, RecordDeletions
  <2>6. QED
    BY <2>2, <2>5 DEF RowsInv, DoneAsDecided, Acting
<1>9. CASE \E p \in Paths : DeleteItem(p)
  <2>1. run \in Runs /\ Acting /\ run.kind = "deletion"
    BY <1>9, ActingRun DEF TypeInv, DeleteItem
  <2>2. run'.kind = "deletion" /\ rows' = rows /\ installed' = installed
    BY <1>9, <2>1 DEF DeleteItem, Outcome, Runs, evidence
  <2>3. QED
    BY <2>2 DEF RowsInv, RowsTellTheTruth, DoneAsDecided
<1>10. CASE Reconcile \/ UpdateBaseline \/ Crash
  <2>1. run' = NoRun \/ run'.pc = "reconciled"
    BY <1>10 DEF Reconcile, UpdateBaseline, Crash, RunIsOver
  <2>2. rows' = rows /\ installed' = installed
    BY <1>10 DEF Reconcile, UpdateBaseline, Crash, evidence
  <2>3. QED
    BY <2>1, <2>2 DEF RowsInv, RowsTellTheTruth, DoneAsDecided, Acting
<1>11. QED
  BY <1>1, <1>2, <1>3, <1>4, <1>5, <1>6, <1>7, <1>8, <1>9, <1>10 DEF Next

(* A row of the report says completed only where the decision was carried out. *)
THEOREM RowsAreTrue == Spec => []RowsTellTheTruth
<1>1. Init => TypeInv /\ RowsInv
  BY TypeInit DEF Init, RowsInv, RowsTellTheTruth, DoneAsDecided, Acting, NoRows
<1>2. TypeInv /\ RowsInv /\ [Next]_vars => TypeInv' /\ RowsInv'
  BY TypeStep, ReviewHeldStep, ReportedStep, RowsStep DEF TypeInv
<1>3. RowsInv => RowsTellTheTruth
  BY DEF RowsInv
<1>4. QED
  BY <1>1, <1>2, <1>3, PTL DEF Spec
=============================================================================
