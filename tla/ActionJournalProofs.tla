------------------------- MODULE ActionJournalProofs -------------------------
(***************************************************************************)
(* What append_event guarantees of the journal for every plan length,      *)
(* every set of contents and every order of calls, and that load_journal    *)
(* reads back whatever append_event accepted.                              *)
(***************************************************************************)
EXTENDS JournalReplay, WellFoundedInduction, TLAPS

(* Every event a caller can offer has the shape of a row.                   *)
OfferedEvent(a, e) ==
  /\ a \in Actions
  /\ e \in Row
  /\ AppendEvent(a, e)
  /\ e.phase # "planned" => \A b \in Actions : HasPlan(b)

(* Every event but the plan boundary.                                      *)
LaterEvent(a) ==
  \/ AppendStarted(a)
  \/ AppendProgress(a)
  \/ AppendTransferVerified(a)
  \/ AppendProofBoundary(a)
  \/ AppendRemovalStarted(a)
  \/ AppendRemovalCompleted(a)
  \/ AppendSettled(a)
  \/ AppendUntouched(a)
  \/ AppendRecoveryReview(a)
  \/ AppendRecoveryResolved(a)

(* The transition table: only a plan starts an action, and no settled phase *)
(* has a successor.                                                         *)
LEMMA Transitions ==
  ASSUME NEW p \in Phases
  PROVE  /\ p = "planned" => MayFollow(p) = {"none"}
         /\ p # "planned" => MayFollow(p) \subseteq Phases \ SettledPhases
<1> USE DEF MayFollow, Phases, SettledPhases, WorkingPhases, NothingDone, FirstBoundary
<1>1. CASE p \in {"planned", "started", "progress", "transfer_verified", "proof_boundary"}
  BY <1>1
<1>2. CASE p \in {"removal_started", "removal_completed", "recovery_resolved"}
  BY <1>2
<1>3. CASE p \in {"completed", "failed", "deferred", "unresolved", "recovery_review"}
  BY <1>3
<1>4. CASE p \in {"cancelled", "interrupted"}
  BY <1>4
<1> QED
  BY <1>1, <1>2, <1>3, <1>4

(* An accepted event follows the last phase of its action, and opens the    *)
(* action exactly when it is the plan.                                      *)
LEMMA AcceptedFollows ==
  ASSUME TypeOK, NEW a \in Actions, NEW e \in Row, AppendEvent(a, e)
  PROVE  /\ LastPhase(a) \in MayFollow(e.phase)
         /\ e.phase \in Phases
         /\ e.phase = "planned" <=> events[a] = <<>>
         /\ LastPhase(a) \notin SettledPhases
<1>1. LastPhase(a) \in MayFollow(e.phase)
  BY DEF AppendEvent, Accepts, ValidEvent
<1>2. e.phase \in Phases
  BY DEF Row
<1>3. events[a] \in Seq(Row)
  BY DEF TypeOK
<1>4. CASE events[a] = <<>>
  <2>1. LastPhase(a) = "none"
    BY <1>4 DEF LastPhase, HasPlan
  <2> QED
    BY <1>1, <1>2, <1>4, <2>1, Transitions DEF Phases, SettledPhases
<1>5. CASE events[a] # <<>>
  <2>1. Len(events[a]) \in 1..Len(events[a]) /\ events[a][Len(events[a])] \in Row
    BY <1>3, <1>5
  <2>2. LastPhase(a) \in Phases
    BY <1>5, <2>1 DEF LastPhase, HasPlan, LastRow, Row
  <2> QED
    BY <1>1, <1>2, <1>5, <2>2, Transitions DEF Phases
<1> QED
  BY <1>4, <1>5

(* A torn provenance changes nothing but the provenance.                    *)
LEMMA TornIsRow ==
  ASSUME NEW e \in Row
  PROVE  /\ Torn(e) \in Row
         /\ Torn(e).phase = e.phase /\ Torn(e).evidence.provenance = "torn"
<1>1. Torn(e) = [e EXCEPT !.evidence = [e.evidence EXCEPT !.provenance = "torn"]]
  BY DEF Torn, Row
<1>2. /\ [e.evidence EXCEPT !.provenance = "torn"] \in Evidence
      /\ [e.evidence EXCEPT !.provenance = "torn"].provenance = "torn"
  BY DEF Row, Evidence, Provenances
<1> QED
  BY <1>1, <1>2 DEF Row

(* A step of the specification appends one event to one action, or none.   *)
LEMMA StepAppends ==
  ASSUME TypeOK, [Next]_vars
  PROVE  UNCHANGED vars \/ \E a \in Actions : \E e \in Row : OfferedEvent(a, e)
<1> USE JournalAssumption
<1>1. CASE UNCHANGED vars
  BY <1>1
<1>2. CASE \E a \in Actions : PersistPlanned(a)
  <2>1. PICK a \in Actions : PersistPlanned(a)
    BY <1>2
  <2>2. PICK op \in Operations, c \in Contents : AppendEvent(a, Planned(op, c))
    BY <2>1 DEF PersistPlanned
  <2>3. /\ Event("planned") \in Row /\ Event("planned").phase = "planned"
        /\ [Event("planned") EXCEPT !.op = op] \in Row
    <3>1. Event("planned") \in Row
      BY DEF Event, Row, NoEvidence, Evidence, Sides, Provenances, Phases
    <3>2. Event("planned").phase = "planned"
      BY DEF Event
    <3> QED
      BY <3>1, <3>2 DEF Row
  <2>4. Planned(op, c) \in Row /\ Planned(op, c).phase = "planned"
    BY <2>3 DEF Planned, Row
  <2> QED
    BY <2>2, <2>4 DEF OfferedEvent
<1>3. ASSUME NEW a \in Actions, LaterEvent(a)
      PROVE  \E e \in Row : OfferedEvent(a, e)
  <2>1. \A p \in Phases : Event(p) \in Row /\ Event(p).phase = p
    BY DEF Event, Row, NoEvidence, Evidence, Sides, Provenances
  <2>2. SUFFICES \E e \in Row : Offer(a, e)
    BY DEF OfferedEvent, Offer
  <2>3. CASE AppendStarted(a)
    BY <2>1, <2>3 DEF AppendStarted, Phases
  <2>4. CASE AppendProgress(a)
    BY <2>1, <2>4 DEF AppendProgress, Phases
  <2>5. CASE AppendTransferVerified(a)
    <3>1. PICK ev \in Observations : Offer(a, TransferVerified(ev))
      BY <2>5 DEF AppendTransferVerified
    <3>2. TransferVerified(ev) \in Row
      BY <2>1 DEF Observations, TransferVerified, Row, Phases
    <3> QED
      BY <3>1, <3>2
  <2>6. CASE AppendProofBoundary(a)
    <3>1. PICK ev \in Observations, meth \in Methods : Offer(a, ProofBoundary(ev, meth))
      BY <2>6 DEF AppendProofBoundary
    <3>2. [Event("proof_boundary") EXCEPT !.evidence = ev] \in Row
      BY <2>1 DEF Observations, Row, Phases
    <3>3. ProofBoundary(ev, meth) \in Row
      BY <2>1, <3>2 DEF ProofBoundary, Row, Phases
    <3> QED
      BY <3>1, <3>3
  <2>7. CASE AppendRemovalStarted(a)
    <3>1. PICK meth \in Methods : Offer(a, RemovalStarted(meth))
      BY <2>7 DEF AppendRemovalStarted
    <3>2. RemovalStarted(meth) \in Row
      BY <2>1 DEF RemovalStarted, Row, Phases
    <3> QED
      BY <3>1, <3>2
  <2>8. CASE AppendRemovalCompleted(a)
    <3>1. PICK ev \in RemovalObservations, meth \in Methods :
            Offer(a, RemovalCompleted(ev, meth))
      BY <2>8 DEF AppendRemovalCompleted
    <3>2. [Event("removal_completed") EXCEPT !.evidence = ev] \in Row
      BY <2>1 DEF RemovalObservations, Row, Phases
    <3>3. RemovalCompleted(ev, meth) \in Row
      BY <2>1, <3>2 DEF RemovalCompleted, Row, Phases
    <3> QED
      BY <3>1, <3>3
  <2>9. CASE AppendSettled(a)
    BY <2>1, <2>9 DEF AppendSettled, Phases
  <2>10. CASE AppendUntouched(a)
    BY <2>1, <2>10 DEF AppendUntouched, Phases
  <2>11. CASE AppendRecoveryReview(a)
    <3>1. PICK t \in 0..MaxTime : Offer(a, RecoveryReview(t)) \/ Offer(a, Torn(RecoveryReview(t)))
      BY <2>11 DEF AppendRecoveryReview
    <3>2. RecoveryReview(t) \in Row
      BY <2>1 DEF RecoveryReview, Row, Phases
    <3> QED
      BY <3>1, <3>2, TornIsRow
  <2>12. CASE AppendRecoveryResolved(a)
    <3>1. PICK c \in BOOLEAN, t \in 0..MaxTime :
            Offer(a, RecoveryResolved(c, t)) \/ Offer(a, Torn(RecoveryResolved(c, t)))
      BY <2>12 DEF AppendRecoveryResolved
    <3>2. [Event("recovery_resolved") EXCEPT !.completes = c] \in Row
      BY <2>1 DEF Row, Phases
    <3>3. RecoveryResolved(c, t) \in Row
      BY <2>1, <3>2 DEF RecoveryResolved, Row, Phases
    <3> QED
      BY <3>1, <3>3, TornIsRow
  <2> QED
    BY <1>3, <2>3, <2>4, <2>5, <2>6, <2>7, <2>8, <2>9, <2>10, <2>11, <2>12
       DEF LaterEvent
<1>4. CASE Next
  <2>1. PICK a \in Actions : PersistPlanned(a) \/ LaterEvent(a)
    BY <1>4 DEF Next, LaterEvent
  <2> QED
    BY <2>1, <1>2, <1>3
<1> QED
  BY <1>1, <1>4

(* What one accepted row does to the table: it goes after the rows of its   *)
(* action and leaves every other action alone.                              *)
LEMMA AppendedRow ==
  ASSUME TypeOK, NEW a \in Actions, NEW e \in Row, AppendEvent(a, e)
  PROVE  /\ method' = method
         /\ \A b \in Actions : b # a => events'[b] = events[b]
         /\ events'[a] = Append(events[a], e)
         /\ events'[a] \in Seq(Row)
         /\ Len(events'[a]) = Len(events[a]) + 1
         /\ events'[a][Len(events[a]) + 1] = e
         /\ \A i \in 1..Len(events[a]) : events'[a][i] = events[a][i]
<1>1. events \in [Actions -> Seq(Row)] /\ method' = method
  BY DEF TypeOK, AppendEvent
<1>2. events' = [events EXCEPT ![a] = Append(@, e)]
  BY DEF AppendEvent
<1>3. events[a] \in Seq(Row)
  BY <1>1
<1>4. events'[a] = Append(events[a], e) /\ \A b \in Actions : b # a => events'[b] = events[b]
  BY <1>1, <1>2
<1> HIDE DEF Row
<1> QED
  BY <1>1, <1>3, <1>4

(* An accepted row leaves a table of the same shape.                        *)
LEMMA AppendTyped ==
  ASSUME TypeOK, NEW a \in Actions, NEW e \in Row, AppendEvent(a, e)
  PROVE  TypeOK'
<1>1. e.phase = "planned" <=> events[a] = <<>>
  BY AcceptedFollows
<1>2. /\ events \in [Actions -> Seq(Row)]
      /\ \A b \in Actions : \A i \in 1..Len(events[b]) :
           events[b][i].phase = "planned" <=> i = 1
      /\ method \in Methods \cup {NoMethod}
  BY DEF TypeOK
<1>3. events' \in [Actions -> Seq(Row)]
  <2>1. events' = [events EXCEPT ![a] = Append(@, e)] /\ events[a] \in Seq(Row)
    BY <1>2 DEF AppendEvent
  <2>2. Append(events[a], e) \in Seq(Row)
    BY <2>1
  <2> QED
    BY <1>2, <2>1, <2>2
<1>4. ASSUME NEW b \in Actions, NEW i \in 1..Len(events'[b])
      PROVE  events'[b][i].phase = "planned" <=> i = 1
  <2>1. CASE b # a
    BY <1>2, <1>4, <2>1, AppendedRow
  <2>2. CASE b = a /\ i \in 1..Len(events[a])
    BY <1>2, <2>2, AppendedRow
  <2>3. CASE b = a /\ i = Len(events[a]) + 1
    <3>1. events'[a][i] = e
      BY <2>3, AppendedRow
    <3>2. events[a] \in Seq(Row)
      BY <1>2
    <3>3. events[a] = <<>> <=> i = 1
      BY <2>3, <3>2
    <3> QED
      BY <1>1, <2>3, <3>1, <3>3
  <2>4. Len(events'[a]) = Len(events[a]) + 1 /\ Len(events[a]) \in Nat
    BY <1>2, AppendedRow
  <2> QED
    BY <1>4, <2>1, <2>2, <2>3, <2>4
<1> QED
  BY <1>2, <1>3, <1>4, AppendedRow DEF TypeOK

(* The table keeps its shape under every call: an action has one plan       *)
(* boundary, its first row.                                                 *)
THEOREM JournalTypeOK == Spec => []TypeOK
<1>1. Init => TypeOK
  BY DEF Init, TypeOK
<1>2. TypeOK /\ [Next]_vars => TypeOK'
  <2> SUFFICES ASSUME TypeOK, [Next]_vars PROVE TypeOK'
    OBVIOUS
  <2>1. CASE UNCHANGED vars
    BY <2>1 DEF TypeOK, vars
  <2>2. CASE \E a \in Actions : \E e \in Row : OfferedEvent(a, e)
    BY <2>2, AppendTyped DEF OfferedEvent
  <2> QED
    BY <2>1, <2>2, StepAppends
<1> QED
  BY <1>1, <1>2, PTL DEF Spec
-----------------------------------------------------------------------------
(* The frontier.  The formula is inductive beside the type: an accepted     *)
(* event finds the actions before its own settled, and a settled action is  *)
(* given no further event.                                                  *)

(* An accepted row keeps the frontier, once the earlier actions are planned. *)
LEMMA FrontierAppend ==
  ASSUME TypeOK, FrontierInOrder, NEW a \in Actions, NEW e \in Row, AppendEvent(a, e),
         e.phase # "planned" => \A b \in 1..(a - 1) : HasPlan(b)
  PROVE  FrontierInOrder'
<1>1. SUFFICES ASSUME NEW x \in Actions, NEW y \in Actions, x < y, ~Untouched(y)'
               PROVE  LastPhase(x)' \in SettledPhases
  BY DEF FrontierInOrder
<1>2. \A b \in Actions : b # a =>
        LastPhase(b)' = LastPhase(b) /\ Untouched(b)' = Untouched(b)
  BY AppendedRow DEF LastPhase, HasPlan, LastRow, Untouched
<1>3. Actions \subseteq Nat
  BY DEF Actions
<1>4. CASE ~Untouched(y)
  <2>1. LastPhase(x) \in SettledPhases
    BY <1>1, <1>4 DEF FrontierInOrder
  <2>2. x # a
    BY <2>1, AcceptedFollows
  <2> QED
    BY <1>2, <2>1, <2>2
<1>5. CASE Untouched(y)
  <2>1. y = a
    BY <1>1, <1>2, <1>5
  <2>2. e.phase \notin ExemptFromOrder
    <3>1. PICK i \in 1..Len(events'[a]) : events'[a][i].phase \notin ExemptFromOrder
      BY <1>1, <2>1 DEF Untouched
    <3>2. \A j \in 1..Len(events[a]) : events'[a][j].phase \in ExemptFromOrder
      BY <1>5, <2>1, AppendedRow DEF Untouched
    <3>3. Len(events[a]) \in Nat
      BY DEF TypeOK
    <3>4. i = Len(events[a]) + 1
      BY <3>1, <3>2, <3>3, AppendedRow
    <3> QED
      BY <3>1, <3>4, AppendedRow
  <2>3. x \in 1..(a - 1)
    BY <1>1, <2>1 DEF Actions
  <2>4. HasPlan(x)
    BY <2>2, <2>3 DEF ExemptFromOrder
  <2>5. LastPhase(x) \in SettledPhases
    BY <2>2, <2>3, <2>4 DEF AppendEvent, Accepts, PriorActionsSettled
  <2>6. x # a
    BY <2>5, AcceptedFollows
  <2> QED
    BY <1>2, <2>5, <2>6
<1> QED
  BY <1>4, <1>5

(* No caller, however it orders its calls, can make an action do anything   *)
(* while an earlier one is open or waits for its Recovery Review            *)
(* (validate_action_order with validate_event).                             *)
THEOREM JournalFrontier == Spec => []FrontierInOrder
<1>1. Init => FrontierInOrder
  <2> SUFFICES ASSUME Init PROVE FrontierInOrder
    OBVIOUS
  <2>1. \A b \in Actions : events[b] = <<>>
    BY DEF Init
  <2> QED
    BY <2>1 DEF FrontierInOrder, Untouched
<1>2. TypeOK /\ FrontierInOrder /\ [Next]_vars => FrontierInOrder'
  <2> SUFFICES ASSUME TypeOK, FrontierInOrder, [Next]_vars PROVE FrontierInOrder'
    OBVIOUS
  <2>1. CASE UNCHANGED vars
    BY <2>1 DEF FrontierInOrder, Untouched, LastPhase, HasPlan, LastRow, vars
  <2>2. CASE \E a \in Actions : \E e \in Row : OfferedEvent(a, e)
    <3>1. PICK a \in Actions, e \in Row : OfferedEvent(a, e)
      BY <2>2
    <3>2. \A b \in 1..(a - 1) : b \in Actions
      BY JournalAssumption DEF Actions
    <3>3. AppendEvent(a, e) /\ (e.phase # "planned" => \A b \in 1..(a - 1) : HasPlan(b))
      BY <3>1, <3>2 DEF OfferedEvent
    <3> QED
      BY <3>3, FrontierAppend
  <2> QED
    BY <2>1, <2>2, StepAppends
<1> QED
  BY <1>1, <1>2, JournalTypeOK, PTL DEF Spec

-----------------------------------------------------------------------------
(* The removal proof.  RemovalRestsOnProof looks back over four rows, so it *)
(* is not inductive: RowsFollow keeps that every row follows the one before *)
(* it by the transition table, and RowsProven what each removal boundary    *)
(* was checked against when it was appended.                                *)

RowsFollow ==
  \A a \in Actions : \A i \in 2..Len(events[a]) :
    events[a][i - 1].phase \in MayFollow(events[a][i].phase)

RowsProven ==
  \A a \in Actions : \A i \in 1..Len(events[a]) :
    /\ events[a][i].phase = "transfer_verified" =>
         events[a][i].evidence.src = PlanRow(a).planned
    /\ events[a][i].phase \in {"proof_boundary", "removal_started", "removal_completed"} =>
         events[a][i].method = method
    /\ events[a][i].phase = "removal_completed" =>
         events[a][i].evidence.dst = events[a][i - 2].evidence.dst

(* The predecessors of the removal boundaries, read off the table.          *)
LEMMA RemovalChain ==
  /\ MayFollow("removal_completed") = {"removal_started"}
  /\ MayFollow("removal_started") = {"proof_boundary"}
  /\ MayFollow("proof_boundary") = {"transfer_verified"}
BY DEF MayFollow

LEMMA ProvenChain == TypeOK /\ RowsFollow /\ RowsProven => RemovalRestsOnProof
<1> SUFFICES ASSUME TypeOK, RowsFollow, RowsProven, NEW a \in Actions,
                    NEW l \in RowsOf(a, "removal_completed")
             PROVE  \E i, j, k \in 1..Len(events[a]) :
                      /\ i < j /\ j < k /\ k < l
                      /\ events[a][i].phase = "transfer_verified"
                      /\ events[a][i].evidence.src = PlanRow(a).planned
                      /\ events[a][j].phase = "proof_boundary"
                      /\ events[a][j].method = method
                      /\ events[a][k].phase = "removal_started"
                      /\ events[a][k].method = method
                      /\ events[a][l].method = method
                      /\ events[a][l].evidence.dst = events[a][j].evidence.dst
  BY DEF RemovalRestsOnProof
<1>1. l \in 1..Len(events[a]) /\ events[a][l].phase = "removal_completed"
  BY DEF RowsOf
<1>2. Len(events[a]) \in Nat
  BY DEF TypeOK
<1>3. \A i \in 1..Len(events[a]) : events[a][i].phase = "planned" <=> i = 1
  BY DEF TypeOK
<1>4. l >= 2
  BY <1>1, <1>2, <1>3
<1>5. l - 1 \in 1..Len(events[a]) /\ events[a][l - 1].phase = "removal_started"
  BY <1>1, <1>2, <1>4, RemovalChain DEF RowsFollow
<1>6. l - 1 >= 2
  BY <1>1, <1>2, <1>3, <1>5
<1>7. l - 2 \in 1..Len(events[a]) /\ events[a][l - 2].phase = "proof_boundary"
  <2>1. l - 1 \in 2..Len(events[a]) /\ (l - 1) - 1 = l - 2
    BY <1>1, <1>2, <1>6
  <2> QED
    BY <1>2, <1>5, <2>1, RemovalChain DEF RowsFollow
<1>8. l - 2 >= 2
  BY <1>1, <1>2, <1>3, <1>7
<1>9. l - 3 \in 1..Len(events[a]) /\ events[a][l - 3].phase = "transfer_verified"
  <2>1. l - 2 \in 2..Len(events[a]) /\ (l - 2) - 1 = l - 3
    BY <1>1, <1>2, <1>8
  <2> QED
    BY <1>2, <1>7, <2>1, RemovalChain DEF RowsFollow
<1>10. l - 3 < l - 2 /\ l - 2 < l - 1 /\ l - 1 < l
  BY <1>1
<1> QED
  BY <1>1, <1>5, <1>7, <1>9, <1>10 DEF RowsProven

(* Appending an accepted event keeps the chain and its proofs.              *)
LEMMA ChainPreserved ==
  ASSUME TypeOK, RowsFollow, RowsProven,
         NEW a \in Actions, NEW e \in Row, AppendEvent(a, e)
  PROVE  RowsFollow' /\ RowsProven'
<1> DEFINE n == Len(events[a])
<1>1. n \in Nat /\ events[a] \in Seq(Row)
  BY DEF TypeOK
<1>2. /\ method' = method
      /\ \A b \in Actions : b # a => events'[b] = events[b]
      /\ Len(events'[a]) = n + 1
      /\ events'[a][n + 1] = e
      /\ \A i \in 1..n : events'[a][i] = events[a][i]
  BY AppendedRow
<1>3. n > 0 => LastPhase(a) = events[a][n].phase
  BY <1>1 DEF LastPhase, HasPlan, LastRow
<1>4. \A i \in 1..n : events[a][i].phase = "planned" <=> i = 1
  BY DEF TypeOK
<1>5. LastPhase(a) \in MayFollow(e.phase) /\ (e.phase = "planned" <=> events[a] = <<>>)
  BY AcceptedFollows
<1>6. RowsFollow'
  <2> SUFFICES ASSUME NEW b \in Actions, NEW i \in 2..Len(events'[b])
               PROVE  events'[b][i - 1].phase \in MayFollow(events'[b][i].phase)
    BY DEF RowsFollow
  <2>1. CASE b # a
    BY <1>2, <2>1 DEF RowsFollow
  <2>2. CASE b = a /\ i \in 2..n
    BY <1>1, <1>2, <2>2 DEF RowsFollow
  <2>3. CASE b = a /\ i = n + 1
    BY <1>1, <1>2, <1>3, <1>5, <2>3
  <2> QED
    BY <1>1, <1>2, <2>1, <2>2, <2>3
<1>7. RowsProven'
  <2> SUFFICES ASSUME NEW b \in Actions, NEW i \in 1..Len(events'[b])
               PROVE
                 /\ events'[b][i].phase = "transfer_verified" =>
                      events'[b][i].evidence.src = events'[b][1].planned
                 /\ events'[b][i].phase \in
                      {"proof_boundary", "removal_started", "removal_completed"} =>
                      events'[b][i].method = method'
                 /\ events'[b][i].phase = "removal_completed" =>
                      events'[b][i].evidence.dst = events'[b][i - 2].evidence.dst
    BY DEF RowsProven, PlanRow
  <2>1. CASE b # a
    BY <1>2, <2>1 DEF RowsProven, PlanRow
  <2>2. ASSUME NEW k \in 1..n, events[a][k].phase = "removal_completed"
        PROVE  k - 2 \in 1..n
    <3>1. k >= 2
      BY <1>1, <1>4, <2>2
    <3>2. k - 1 \in 1..n /\ events[a][k - 1].phase = "removal_started"
      BY <1>1, <2>2, <3>1, RemovalChain DEF RowsFollow
    <3>3. k - 1 >= 2
      BY <1>1, <1>4, <3>2
    <3> QED
      BY <1>1, <3>3
  <2>3. CASE b = a /\ i \in 1..n
    <3>1. events'[a][i] = events[a][i] /\ events'[a][1] = events[a][1]
      BY <1>1, <1>2, <2>3
    <3>2. /\ events[a][i].phase = "transfer_verified" =>
               events[a][i].evidence.src = events[a][1].planned
          /\ events[a][i].phase \in {"proof_boundary", "removal_started", "removal_completed"} =>
               events[a][i].method = method
          /\ events[a][i].phase = "removal_completed" =>
               events[a][i].evidence.dst = events[a][i - 2].evidence.dst
      BY <2>3 DEF RowsProven, PlanRow
    <3>3. events[a][i].phase = "removal_completed" => events'[a][i - 2] = events[a][i - 2]
      BY <1>2, <2>2, <2>3
    <3> QED
      BY <1>2, <2>3, <3>1, <3>2, <3>3
  <2>4. CASE b = a /\ i = n + 1
    <3>1. CASE e.phase = "transfer_verified"
      <4>1. n > 0 /\ e.evidence.src = events[a][1].planned
        BY <1>1, <3>1 DEF AppendEvent, Accepts, TransferMatchesPlan, HasPlan, PlanRow
      <4> QED
        BY <1>1, <1>2, <2>4, <3>1, <4>1
    <3>2. CASE e.phase \in {"proof_boundary", "removal_started"}
      <4>1. e.method = method
        BY <3>2 DEF AppendEvent, Accepts, ValidEvent, FrozenMethod
      <4> QED
        BY <1>2, <2>4, <3>2, <4>1
    <3>3. CASE e.phase = "removal_completed"
      <4>1. e.method = method
        BY <3>3 DEF AppendEvent, Accepts, ValidEvent, FrozenMethod
      <4>2. n > 0
        BY <1>1, <1>5, <3>3
      <4>3. events[a][n].phase = "removal_started"
        BY <1>3, <1>5, <3>3, <4>2, RemovalChain
      <4>4. n >= 2
        BY <1>1, <1>4, <4>2, <4>3
      <4>5. n - 1 \in 1..n /\ events[a][n - 1].phase = "proof_boundary"
        BY <1>1, <4>3, <4>4, RemovalChain DEF RowsFollow
      <4>6. PICK p \in RowsOf(a, "proof_boundary") :
              /\ \A j \in RowsOf(a, "proof_boundary") : j <= p
              /\ e.evidence.dst = events[a][p].evidence.dst
        BY <3>3 DEF AppendEvent, Accepts, RemovalMatchesProof
      <4>7. p = n - 1
        BY <1>1, <4>3, <4>5, <4>6 DEF RowsOf
      <4>8. (n + 1) - 2 = n - 1
        BY <1>1
      <4> QED
        BY <1>1, <1>2, <2>4, <3>3, <4>1, <4>5, <4>6, <4>7, <4>8
    <3> QED
      BY <1>2, <2>4, <3>1, <3>2, <3>3
  <2> QED
    BY <1>1, <1>2, <2>1, <2>3, <2>4
<1> QED
  BY <1>6, <1>7

(* No caller can have a source recorded as removed without the verified     *)
(* transfer of the planned content, the destination proof and the start of  *)
(* the removal before it, all under the frozen method.                      *)
THEOREM JournalRemovalProof == Spec => []RemovalRestsOnProof
<1>1. Init => RowsFollow /\ RowsProven
  <2> SUFFICES ASSUME Init PROVE RowsFollow /\ RowsProven
    OBVIOUS
  <2>1. \A b \in Actions : Len(events[b]) = 0
    BY DEF Init
  <2> QED
    BY <2>1 DEF RowsFollow, RowsProven
<1>2. TypeOK /\ RowsFollow /\ RowsProven /\ [Next]_vars => (RowsFollow /\ RowsProven)'
  <2> SUFFICES ASSUME TypeOK, RowsFollow, RowsProven, [Next]_vars
               PROVE  RowsFollow' /\ RowsProven'
    OBVIOUS
  <2>1. CASE UNCHANGED vars
    <3>1. events' = events /\ method' = method
      BY <2>1 DEF vars
    <3>2. RowsFollow'
      BY <3>1 DEF RowsFollow
    <3>3. RowsProven'
      BY <3>1 DEF RowsProven, PlanRow
    <3> QED
      BY <3>2, <3>3
  <2>2. CASE \E a \in Actions : \E e \in Row : OfferedEvent(a, e)
    BY <2>2, ChainPreserved DEF OfferedEvent
  <2> QED
    BY <2>1, <2>2, StepAppends
<1> QED
  BY <1>1, <1>2, JournalTypeOK, ProvenChain, PTL DEF Spec

-----------------------------------------------------------------------------
(* The replay.  ReplayRows is a recursive function, so first: there is one  *)
(* function its equation describes, whatever the rows, and a row appended   *)
(* to them is applied to the entry they had.  Both are inductions over the  *)
(* positions of the rows, made with the least position that breaks them.    *)

(* Every set of natural numbers that has an element has a least one.        *)
LEMMA LeastNat ==
  ASSUME NEW T \in SUBSET Nat, T # {}
  PROVE  \E x \in T : \A y \in T : x <= y
<1> DEFINE R == OpToRel(<, Nat)
<1>1. IsWellFoundedOn(R, Nat)
  BY NatLessThanWellFounded
<1>2. \E x \in T : \A y \in T : ~(<<y, x>> \in R)
  <2> HIDE DEF R
  <2> QED
    BY <1>1, WFMin
<1>3. ASSUME NEW x \in Nat, NEW y \in Nat, y < x
      PROVE  <<y, x>> \in R
  BY <1>3 DEF OpToRel
<1> HIDE DEF R
<1>4. PICK x \in T : \A y \in T : ~(<<y, x>> \in R)
  BY <1>2
<1>5. \A y \in T : ~(y < x)
  <2> SUFFICES ASSUME NEW y \in T, y < x PROVE FALSE
    OBVIOUS
  <2>1. x \in Nat /\ y \in Nat
    OBVIOUS
  <2>2. <<y, x>> \in R
    BY <1>3, <2>1
  <2> QED
    BY <1>4, <2>2
<1> QED
  BY <1>5

(* f replays the first n rows under the configured method meth.             *)
Replays(rows, n, meth, f) ==
  f = [i \in 0..n |-> IF i = 0 THEN NoEntry ELSE ReplayRow(f[i - 1], rows[i], meth)]

(* No two functions do.                                                     *)
LEMMA ReplayOnce ==
  ASSUME NEW rows, NEW meth, NEW n \in Nat, NEW f, NEW g,
         Replays(rows, n, meth, f), Replays(rows, n, meth, g)
  PROVE  f = g
<1> DEFINE T == {i \in 0..n : f[i] # g[i]}
<1>0. /\ DOMAIN f = 0..n /\ DOMAIN g = 0..n
      /\ f = [i \in 0..n |-> f[i]] /\ g = [i \in 0..n |-> g[i]]
  BY DEF Replays
<1>1. SUFFICES ASSUME T # {} PROVE FALSE
  BY <1>0
<1>2. PICK i \in T : \A j \in T : i <= j
  <2>1. T \in SUBSET Nat
    OBVIOUS
  <2> HIDE DEF T
  <2> QED
    BY <1>1, <2>1, LeastNat
<1>3. CASE i = 0
  BY <1>2, <1>3 DEF Replays
<1>4. CASE i # 0
  <2>1. i - 1 \in 0..n /\ i - 1 \notin T
    BY <1>2, <1>4
  <2>2. f[i - 1] = g[i - 1]
    BY <2>1
  <2>3. f[i] = ReplayRow(f[i - 1], rows[i], meth) /\ g[i] = ReplayRow(g[i - 1], rows[i], meth)
    BY <1>4 DEF Replays
  <2> QED
    BY <2>2, <2>3
<1> QED
  BY <1>3, <1>4

(* One that replays n rows goes on to replay the next ...                   *)
LEMMA ReplayExtends ==
  ASSUME NEW rows, NEW meth, NEW n \in Nat, NEW f, Replays(rows, n, meth, f)
  PROVE  Replays(rows, n + 1, meth,
           [i \in 0..(n + 1) |->
             IF i = n + 1 THEN ReplayRow(f[n], rows[n + 1], meth) ELSE f[i]])
<1> DEFINE g == [i \in 0..(n + 1) |->
                   IF i = n + 1 THEN ReplayRow(f[n], rows[n + 1], meth) ELSE f[i]]
<1>1. \A i \in 0..n :
        /\ g[i] = f[i]
        /\ f[i] = IF i = 0 THEN NoEntry ELSE ReplayRow(f[i - 1], rows[i], meth)
  BY DEF Replays
<1>2. g[n + 1] = ReplayRow(f[n], rows[n + 1], meth)
  OBVIOUS
<1>4. g = [i \in 0..(n + 1) |-> g[i]]
  OBVIOUS
<1> HIDE DEF g
<1>3. ASSUME NEW i \in 0..(n + 1)
      PROVE  g[i] = IF i = 0 THEN NoEntry ELSE ReplayRow(g[i - 1], rows[i], meth)
  <2>1. CASE i = n + 1
    <3>1. i # 0 /\ i - 1 = n /\ n \in 0..n
      BY <2>1
    <3>2. g[n] = f[n]
      BY <1>1, <3>1
    <3> QED
      BY <1>2, <2>1, <3>1, <3>2
  <2>2. CASE i \in 1..n
    <3>1. i - 1 \in 0..n /\ i \in 0..n /\ i # 0
      BY <2>2
    <3>2. g[i] = f[i] /\ g[i - 1] = f[i - 1]
      BY <1>1, <3>1
    <3>3. f[i] = ReplayRow(f[i - 1], rows[i], meth)
      BY <1>1, <3>1
    <3> QED
      BY <3>1, <3>2, <3>3
  <2>3. CASE i = 0
    BY <1>1, <2>3
  <2> QED
    BY <2>1, <2>2, <2>3
<1>5. Replays(rows, n + 1, meth, g)
  BY <1>3, <1>4 DEF Replays
<1> QED
  BY <1>5 DEF g

(* ... so one exists for any number of rows ...                             *)
LEMMA ReplayExists ==
  ASSUME NEW rows, NEW meth, NEW n \in Nat
  PROVE  \E f : Replays(rows, n, meth, f)
<1> DEFINE T == {m \in Nat : ~ \E f : Replays(rows, m, meth, f)}
<1>1. SUFFICES ASSUME T # {} PROVE FALSE
  OBVIOUS
<1>2. PICK m \in T : \A j \in T : m <= j
  BY <1>1, LeastNat
<1>3. m # 0
  <2>1. Replays(rows, 0, meth, [i \in 0..0 |-> NoEntry])
    BY DEF Replays
  <2> QED
    BY <2>1
<1>4. m - 1 \in Nat /\ m - 1 \notin T /\ (m - 1) + 1 = m
  BY <1>2, <1>3
<1>5. PICK f : Replays(rows, m - 1, meth, f)
  BY <1>4
<1>6. \E g : Replays(rows, (m - 1) + 1, meth, g)
  BY <1>4, <1>5, ReplayExtends
<1> QED
  BY <1>4, <1>6

(* ... and it is the one ReplayRows applies.                                *)
LEMMA ReplayDef ==
  ASSUME NEW rows \in Seq(Row), NEW meth, NEW f, Replays(rows, Len(rows), meth, f)
  PROVE  ReplayRows(rows, meth) = f[Len(rows)]
<1> DEFINE entry == CHOOSE g : Replays(rows, Len(rows), meth, g)
<1>1. Replays(rows, Len(rows), meth, entry)
  OBVIOUS
<1>2. entry = f
  <2> HIDE DEF entry
  <2> QED
    BY <1>1, ReplayOnce
<1>3. ReplayRows(rows, meth) = entry[Len(rows)]
  BY DEF ReplayRows, Replays
<1> QED
  BY <1>2, <1>3
(* A row appended to a journal is applied to the entry its rows replay to.  *)
LEMMA ReplayAppend ==
  ASSUME NEW rows \in Seq(Row), NEW meth, NEW e \in Row
  PROVE  ReplayRows(Append(rows, e), meth) = ReplayRow(ReplayRows(rows, meth), e, meth)
<1> DEFINE n == Len(rows)
           longer == Append(rows, e)
<1>1. n \in Nat /\ longer \in Seq(Row) /\ Len(longer) = n + 1 /\ longer[n + 1] = e
  OBVIOUS
<1>2. \A i \in 1..n : longer[i] = rows[i]
  OBVIOUS
<1> HIDE DEF longer
<1>3. PICK f : Replays(rows, n, meth, f)
  BY <1>1, ReplayExists
<1>4. ReplayRows(rows, meth) = f[n]
  BY <1>3, ReplayDef
<1>5. Replays(longer, n, meth, f)
  BY <1>2, <1>3 DEF Replays
<1> DEFINE g == [i \in 0..(n + 1) |->
                   IF i = n + 1 THEN ReplayRow(f[n], longer[n + 1], meth) ELSE f[i]]
<1>6. Replays(longer, n + 1, meth, g)
  BY <1>1, <1>5, ReplayExtends
<1>7. g[n + 1] = ReplayRow(f[n], e, meth)
  BY <1>1
<1> HIDE DEF g
<1>8. ReplayRows(longer, meth) = g[n + 1]
  BY <1>1, <1>6, ReplayDef
<1> QED
  BY <1>4, <1>7, <1>8 DEF longer

(* An empty journal replays to no entry.                                    *)
LEMMA ReplayNone ==
  ASSUME NEW meth
  PROVE  ReplayRows(<<>>, meth) = NoEntry
<1>1. Replays(<<>>, 0, meth, [i \in 0..0 |-> NoEntry])
  BY DEF Replays
<1>2. <<>> \in Seq(Row) /\ Len(<<>>) = 0
  OBVIOUS
<1> QED
  BY <1>1, <1>2, ReplayDef

(* The shape of an ActionJournalEntry.                                      *)
Entry ==
  [op : Operations \cup {NoOperation}, planned : Contents \cup {NoContent},
   last : Phases \cup {"none"}, transferred : BOOLEAN, proved : BOOLEAN,
   proof : Contents \cup {NoContent}, removed : BOOLEAN, reviewed : BOOLEAN,
   reviewAt : Nat, resolved : BOOLEAN, outcome : Phases \cup {"in_progress"}, sound : BOOLEAN]

(* What apply_stored_event makes of a row that is no plan boundary.         *)
LEMMA LaterRow ==
  ASSUME NEW entry \in Entry, NEW e \in Row, e.phase # "planned",
         NEW meth, NEW next, next = ReplayRow(entry, e, meth)
  PROVE  /\ next \in Entry
         /\ next.op = entry.op /\ next.planned = entry.planned /\ next.last = e.phase
         /\ next.outcome = ReplayOutcome(e)
         /\ next.sound <=>
              entry.sound /\ ReplayMayFollow(entry, e.phase) /\ ReplayEvidence(entry, e, meth)
         /\ next.transferred <=> entry.transferred \/ e.phase = "transfer_verified"
         /\ next.proved <=> entry.proved \/ e.phase = "proof_boundary"
         /\ next.removed <=> entry.removed \/ e.phase = "removal_completed"
         /\ next.reviewed <=> entry.reviewed \/ e.phase = "recovery_review"
         /\ next.resolved <=> entry.resolved \/ e.phase = "recovery_resolved"
         /\ next.proof = IF e.phase = "proof_boundary" THEN e.evidence.dst ELSE entry.proof
         /\ next.reviewAt = IF e.phase = "recovery_review" THEN e.at ELSE entry.reviewAt
<1> DEFINE ok == entry.sound /\ ReplayMayFollow(entry, e.phase) /\ ReplayEvidence(entry, e, meth)
           transferred == entry.transferred \/ e.phase = "transfer_verified"
           proved == entry.proved \/ e.phase = "proof_boundary"
           removed == entry.removed \/ e.phase = "removal_completed"
           reviewed == entry.reviewed \/ e.phase = "recovery_review"
           resolved == entry.resolved \/ e.phase = "recovery_resolved"
           proof == IF e.phase = "proof_boundary" THEN e.evidence.dst ELSE entry.proof
           reviewAt == IF e.phase = "recovery_review" THEN e.at ELSE entry.reviewAt
<1>1. next =
        [entry EXCEPT
            !.sound = ok,
            !.transferred = transferred,
            !.proved = proved,
            !.proof = proof,
            !.removed = removed,
            !.reviewed = reviewed,
            !.reviewAt = reviewAt,
            !.resolved = resolved,
            !.outcome = ReplayOutcome(e),
            !.last = e.phase]
  BY DEF ReplayRow, Entry
<1>2. ReplayOutcome(e) \in Phases \cup {"in_progress"}
  BY DEF ReplayOutcome, Row, Phases
<1>3. e.phase \in Phases /\ e.evidence.dst \in Contents \cup {NoContent} /\ e.at \in Nat
  BY JournalAssumption DEF Row, Evidence
<1>4. /\ ok \in BOOLEAN /\ transferred \in BOOLEAN /\ proved \in BOOLEAN
      /\ removed \in BOOLEAN /\ reviewed \in BOOLEAN /\ resolved \in BOOLEAN
  OBVIOUS
<1>5. proof \in Contents \cup {NoContent} /\ reviewAt \in Nat
  BY <1>3 DEF Entry
<1>6. SUFFICES /\ next \in Entry
               /\ next.op = entry.op /\ next.planned = entry.planned /\ next.last = e.phase
               /\ next.outcome = ReplayOutcome(e) /\ next.sound = ok
               /\ next.transferred = transferred /\ next.proved = proved
               /\ next.removed = removed /\ next.reviewed = reviewed
               /\ next.resolved = resolved /\ next.proof = proof /\ next.reviewAt = reviewAt
  OBVIOUS
<1> HIDE DEF ok, transferred, proved, removed, reviewed, resolved, proof, reviewAt
<1>7. next = [op |-> entry.op, planned |-> entry.planned, last |-> e.phase,
              transferred |-> transferred, proved |-> proved, proof |-> proof,
              removed |-> removed, reviewed |-> reviewed, reviewAt |-> reviewAt,
              resolved |-> resolved, outcome |-> ReplayOutcome(e), sound |-> ok]
  BY <1>1 DEF Entry
<1>8. entry.op \in Operations \cup {NoOperation} /\ entry.planned \in Contents \cup {NoContent}
  BY DEF Entry
<1>9. next \in Entry
  BY <1>2, <1>3, <1>4, <1>5, <1>7, <1>8 DEF Entry
<1> QED
  BY <1>7, <1>9

(* The entry an action has before any row, and after its plan boundary.     *)
LEMMA NoEntryShape == NoEntry \in Entry
<1>1. "none" \in Phases \cup {"none"} /\ NoOperation \in Operations \cup {NoOperation}
  OBVIOUS
<1> QED
  BY <1>1 DEF NoEntry, Entry

LEMMA PlanRowReplayed ==
  ASSUME NEW e \in Row, e.phase = "planned", NEW meth,
         NEW next, next = ReplayRow(NoEntry, e, meth)
  PROVE  /\ next \in Entry
         /\ next.op = e.op /\ next.planned = e.planned /\ next.last = "planned"
         /\ next.outcome = ReplayOutcome(e) /\ next.sound
         /\ ~next.transferred /\ ~next.proved /\ ~next.removed
         /\ ~next.reviewed /\ ~next.resolved
<1>1. next = [NoEntry EXCEPT !.op = e.op, !.planned = e.planned, !.last = "planned"]
  BY DEF ReplayRow, NoEntry
<1>2. next = [op |-> e.op, planned |-> e.planned, last |-> "planned",
              transferred |-> FALSE, proved |-> FALSE, proof |-> NoContent, removed |-> FALSE,
              reviewed |-> FALSE, reviewAt |-> 0, resolved |-> FALSE,
              outcome |-> "in_progress", sound |-> TRUE]
  BY <1>1 DEF NoEntry
<1>3. ReplayOutcome(e) = "in_progress"
  BY DEF ReplayOutcome
<1>4. e.op \in Operations \cup {NoOperation} /\ e.planned \in Contents \cup {NoContent}
  BY DEF Row
<1>5. next \in Entry
  BY <1>2, <1>4 DEF Entry, Phases
<1> QED
  BY <1>2, <1>3, <1>5

(* What the replayed entry says of the rows: what load_journal reads back   *)
(* is what append_event checked when each row was written.                  *)
EntryAgrees(a) ==
  /\ Replay(a) \in Entry
  /\ Replay(a).sound <=> RowsLegible(a)
  /\ Replay(a).last = LastPhase(a)
  /\ Replay(a).op = PlannedOp(a)
  /\ ~HasPlan(a) => Replay(a) = NoEntry
  /\ HasPlan(a) => /\ Replay(a).planned = PlanRow(a).planned
                   /\ Replay(a).outcome = ReplayOutcome(LastRow(a))

(* The boundaries it has seen, by the phase the action has reached.         *)
BoundariesAgree(a) ==
  /\ LastPhase(a) \in NothingDone => ~Replay(a).transferred /\ ~Replay(a).proved
  /\ LastPhase(a) = "transfer_verified" => Replay(a).transferred /\ ~Replay(a).proved
  /\ LastPhase(a) \in {"proof_boundary", "removal_started"} => Replay(a).proved
  /\ LastPhase(a) \in NothingDone \cup WorkingPhases =>
       ~Replay(a).removed /\ ~Replay(a).reviewed /\ ~Replay(a).resolved
  /\ LastPhase(a) = "recovery_review" => Replay(a).reviewed /\ ~Replay(a).resolved

(* The evidence a later row is compared with is that of the latest proof    *)
(* and of the latest review.                                                *)
EvidenceAgrees(a) ==
  /\ Replay(a).proved =>
       \E i \in RowsOf(a, "proof_boundary") :
         /\ \A j \in RowsOf(a, "proof_boundary") : j <= i
         /\ Replay(a).proof = events[a][i].evidence.dst
  /\ Replay(a).reviewed =>
       \E i \in RowsOf(a, "recovery_review") :
         /\ \A j \in RowsOf(a, "recovery_review") : j <= i
         /\ Replay(a).reviewAt = events[a][i].at

ReplayAgrees(a) == EntryAgrees(a) /\ BoundariesAgree(a) /\ EvidenceAgrees(a)

(* An accepted row that is no plan boundary passes the replay's own checks, *)
(* unless its provenance is half recorded.                                  *)
LEMMA ReplayPasses ==
  ASSUME TypeOK, NEW a \in Actions, NEW e \in Row, e.phase # "planned",
         AppendEvent(a, e), ReplayAgrees(a)
  PROVE  /\ ReplayMayFollow(Replay(a), e.phase)
         /\ ReplayEvidence(Replay(a), e, method) <=> Legible(e)
<1> DEFINE entry == Replay(a)
<1>1. LastPhase(a) \in MayFollow(e.phase) /\ e.phase \in Phases
  BY AcceptedFollows
<1>2. HasPlan(a)
  BY AcceptedFollows DEF HasPlan
<1>3. /\ entry \in Entry /\ entry.last = LastPhase(a) /\ entry.op = PlannedOp(a)
      /\ entry.planned = PlanRow(a).planned
  BY <1>2 DEF ReplayAgrees, EntryAgrees
<1>4. /\ entry.last \in NothingDone => ~entry.transferred /\ ~entry.proved
      /\ entry.last = "transfer_verified" => entry.transferred /\ ~entry.proved
      /\ entry.last \in {"proof_boundary", "removal_started"} => entry.proved
      /\ entry.last \in NothingDone \cup WorkingPhases =>
           ~entry.removed /\ ~entry.reviewed /\ ~entry.resolved
      /\ entry.last = "recovery_review" => entry.reviewed /\ ~entry.resolved
  BY <1>3 DEF ReplayAgrees, BoundariesAgree
<1>5. ValidEvent(a, e) /\ TransferMatchesPlan(a, e)
  BY DEF AppendEvent, Accepts
<1>6. ReplayMayFollow(entry, e.phase)
  <2>1. e.phase = "transfer_verified" => entry.op \in TransferOperations
    BY <1>3, <1>5 DEF ValidEvent
  <2>2. e.phase = "proof_boundary" => entry.op = "remove_source"
    BY <1>3, <1>5 DEF ValidEvent, FrozenMethod
  <2>3. entry.last \in MayFollow(e.phase)
    BY <1>1, <1>3
  <2> HIDE DEF entry
  <2> USE DEF MayFollow, NothingDone, WorkingPhases
  <2>4. CASE e.phase \in {"started", "progress", "transfer_verified"}
    BY <1>4, <2>1, <2>3, <2>4 DEF ReplayMayFollow
  <2>5. CASE e.phase \in {"proof_boundary", "removal_started", "removal_completed"}
    BY <1>4, <2>2, <2>3, <2>5 DEF ReplayMayFollow
  <2>6. CASE e.phase \in {"recovery_review", "recovery_resolved"}
    BY <1>4, <2>3, <2>6 DEF ReplayMayFollow
  <2>7. CASE e.phase \in {"completed", "failed", "deferred", "unresolved",
                          "cancelled", "interrupted"}
    BY <2>3, <2>7 DEF ReplayMayFollow
  <2> QED
    BY <1>1, <2>4, <2>5, <2>6, <2>7 DEF Phases
<1>7. ReplayEvidence(entry, e, method) <=> Legible(e)
  <2>1. CASE e.phase = "transfer_verified"
    BY <1>3, <1>5, <2>1 DEF ValidEvent, TransferMatchesPlan, ReplayEvidence
  <2>2. CASE e.phase \in {"proof_boundary", "removal_started"}
    <3>1. ReplayMethod(entry, e, method)
      BY <1>3, <1>5, <2>2 DEF ValidEvent, FrozenMethod, ReplayMethod
    <3>2. e.phase = "proof_boundary" => BothSidesProven(e.evidence)
      BY <1>5 DEF ValidEvent
    <3> QED
      BY <2>2, <3>1, <3>2 DEF ReplayEvidence
  <2>3. CASE e.phase = "removal_completed"
    <3>1. ReplayMethod(entry, e, method) /\ RemovalOutcomeShown(e)
      BY <1>3, <1>5, <2>3 DEF ValidEvent, FrozenMethod, ReplayMethod
    <3>2. ASSUME entry.proved PROVE e.evidence.dst = entry.proof
      <4>1. PICK i \in RowsOf(a, "proof_boundary") :
              /\ \A j \in RowsOf(a, "proof_boundary") : j <= i
              /\ entry.proof = events[a][i].evidence.dst
        BY <3>2 DEF ReplayAgrees, EvidenceAgrees
      <4>2. PICK k \in RowsOf(a, "proof_boundary") :
              /\ \A j \in RowsOf(a, "proof_boundary") : j <= k
              /\ e.evidence.dst = events[a][k].evidence.dst
        BY <2>3 DEF AppendEvent, Accepts, RemovalMatchesProof
      <4>3. i = k
        BY <4>1, <4>2 DEF RowsOf
      <4> QED
        BY <4>1, <4>2, <4>3
    <3> QED
      BY <2>3, <3>1, <3>2 DEF ReplayEvidence
  <2>4. CASE e.phase = "completed"
    BY <1>3, <1>5, <2>4 DEF ValidEvent, SettlesThroughRemoval, ReplayEvidence
  <2>5. CASE e.phase = "recovery_resolved" /\ e.completes
    <3>1. entry.op # "remove_source"
      BY <1>3, <1>5, <2>5 DEF ValidEvent, SettlesThroughRemoval
    <3>2. ASSUME entry.reviewed PROVE e.at > entry.reviewAt
      <4>1. PICK i \in RowsOf(a, "recovery_review") :
              /\ \A j \in RowsOf(a, "recovery_review") : j <= i
              /\ entry.reviewAt = events[a][i].at
        BY <3>2 DEF ReplayAgrees, EvidenceAgrees
      <4>2. PICK k \in RowsOf(a, "recovery_review") :
              /\ \A j \in RowsOf(a, "recovery_review") : j <= k
              /\ e.at > events[a][k].at
        BY <2>5 DEF AppendEvent, Accepts, ResolutionIsNewer
      <4>3. i = k
        BY <4>1, <4>2 DEF RowsOf
      <4> QED
        BY <4>1, <4>2, <4>3
    <3> HIDE DEF entry
    <3> QED
      BY <2>5, <3>1, <3>2 DEF ReplayEvidence
  <2>6. CASE /\ e.phase \notin {"transfer_verified", "proof_boundary", "removal_started",
                                "removal_completed", "completed"}
             /\ ~(e.phase = "recovery_resolved" /\ e.completes)
    BY <2>6 DEF ReplayEvidence
  <2> QED
    BY <2>1, <2>2, <2>3, <2>4, <2>5, <2>6
<1> QED
  BY <1>6, <1>7

(* The agreement survives an accepted row ...                               *)
LEMMA ReplayAgreesAppend ==
  ASSUME TypeOK, NEW a \in Actions, NEW e \in Row, AppendEvent(a, e), ReplayAgrees(a)
  PROVE  ReplayAgrees(a)'
<1> DEFINE n == Len(events[a])
           entry == Replay(a)
           next == ReplayRow(entry, e, method)
<1>1. events[a] \in Seq(Row) /\ n \in Nat
  BY DEF TypeOK
<1>2. /\ method' = method
      /\ events'[a] = Append(events[a], e)
      /\ Len(events'[a]) = n + 1
      /\ events'[a][n + 1] = e
      /\ \A i \in 1..n : events'[a][i] = events[a][i]
  BY AppendedRow
<1>3. Replay(a)' = next
  <2>1. ReplayRows(Append(events[a], e), method) = ReplayRow(ReplayRows(events[a], method), e, method)
    BY <1>1, ReplayAppend
  <2> QED
    BY <1>2, <2>1 DEF Replay
<1>4. HasPlan(a)' /\ LastPhase(a)' = e.phase /\ LastRow(a)' = e
  BY <1>1, <1>2 DEF HasPlan, LastPhase, LastRow
<1>5. LastPhase(a) \in MayFollow(e.phase) /\ e.phase \in Phases
  BY AcceptedFollows
<1>6. \A p \in Phases : e.phase # p => RowsOf(a, p)' = RowsOf(a, p)
  BY <1>1, <1>2 DEF RowsOf
<1>7. n + 1 \in RowsOf(a, e.phase)' /\ \A j \in RowsOf(a, e.phase)' : j <= n + 1
  BY <1>1, <1>2 DEF RowsOf
<1>8. \A p \in Phases : \A i \in RowsOf(a, p) : i \in 1..n /\ events'[a][i] = events[a][i]
  BY <1>2 DEF RowsOf
<1>9. CASE e.phase = "planned"
  <2>1. events[a] = <<>> /\ ~HasPlan(a)
    BY <1>9, AcceptedFollows DEF HasPlan
  <2>8. RowsLegible(a)'
    BY <1>2, <1>9, <2>1 DEF RowsLegible, Legible, WithEvidence
  <2>2. entry = NoEntry
    BY <2>1 DEF ReplayAgrees, EntryAgrees
  <2>3. n = 0 /\ PlanRow(a)' = e
    BY <1>2, <2>1 DEF PlanRow
  <2>4. /\ next \in Entry
        /\ next.op = e.op /\ next.planned = e.planned /\ next.last = "planned"
        /\ next.outcome = ReplayOutcome(e) /\ next.sound
        /\ ~next.transferred /\ ~next.proved /\ ~next.removed
        /\ ~next.reviewed /\ ~next.resolved
    BY <1>9, <2>2, PlanRowReplayed
  <2> HIDE DEF next
  <2>5. EntryAgrees(a)'
    BY <1>3, <1>4, <1>9, <2>3, <2>4, <2>8 DEF EntryAgrees, PlannedOp
  <2>6. BoundariesAgree(a)'
    BY <1>3, <1>4, <1>9, <2>4 DEF BoundariesAgree, WorkingPhases
  <2>7. EvidenceAgrees(a)'
    BY <1>3, <2>4 DEF EvidenceAgrees
  <2> QED
    BY <2>5, <2>6, <2>7 DEF ReplayAgrees
<1>10. CASE e.phase # "planned"
  <2>1. HasPlan(a) /\ n > 0
    BY <1>1, <1>10, AcceptedFollows DEF HasPlan
  <2>2. PlanRow(a)' = PlanRow(a) /\ PlannedOp(a)' = PlannedOp(a)
    BY <1>1, <1>2, <1>4, <2>1 DEF PlanRow, PlannedOp
  <2>3. /\ entry \in Entry /\ (entry.sound <=> RowsLegible(a)) /\ entry.last = LastPhase(a)
        /\ entry.op = PlannedOp(a) /\ entry.planned = PlanRow(a).planned
    BY <2>1 DEF ReplayAgrees, EntryAgrees
  <2>4. ReplayMayFollow(entry, e.phase) /\ (ReplayEvidence(entry, e, method) <=> Legible(e))
    BY <1>10, ReplayPasses
  <2>10. RowsLegible(a)' <=> RowsLegible(a) /\ Legible(e)
    <3>1. RowsLegible(a)' <=> \A i \in 1..(n + 1) : Legible(events'[a][i])
      BY <1>2 DEF RowsLegible
    <3> QED
      BY <1>1, <1>2, <3>1 DEF RowsLegible
  <2>5. /\ next \in Entry
        /\ next.op = entry.op /\ next.planned = entry.planned /\ next.last = e.phase
        /\ next.outcome = ReplayOutcome(e) /\ (next.sound <=> RowsLegible(a)')
    BY <1>10, <2>3, <2>4, <2>10, LaterRow
  <2>6. /\ next.transferred <=> entry.transferred \/ e.phase = "transfer_verified"
        /\ next.proved <=> entry.proved \/ e.phase = "proof_boundary"
        /\ next.removed <=> entry.removed \/ e.phase = "removal_completed"
        /\ next.reviewed <=> entry.reviewed \/ e.phase = "recovery_review"
        /\ next.resolved <=> entry.resolved \/ e.phase = "recovery_resolved"
        /\ next.proof = IF e.phase = "proof_boundary" THEN e.evidence.dst ELSE entry.proof
        /\ next.reviewAt = IF e.phase = "recovery_review" THEN e.at ELSE entry.reviewAt
    BY <1>10, <2>3, LaterRow
  <2> HIDE DEF next, entry
  <2>7. EntryAgrees(a)'
    BY <1>3, <1>4, <2>2, <2>3, <2>5 DEF EntryAgrees
  <2>8. BoundariesAgree(a)'
    <3>1. /\ LastPhase(a) \in NothingDone => ~entry.transferred /\ ~entry.proved
          /\ LastPhase(a) = "transfer_verified" => entry.transferred /\ ~entry.proved
          /\ LastPhase(a) \in {"proof_boundary", "removal_started"} => entry.proved
          /\ LastPhase(a) \in NothingDone \cup WorkingPhases =>
               ~entry.removed /\ ~entry.reviewed /\ ~entry.resolved
          /\ LastPhase(a) = "recovery_review" => entry.reviewed /\ ~entry.resolved
      BY DEF ReplayAgrees, BoundariesAgree, entry
    <3> SUFFICES /\ e.phase \in NothingDone => ~next.transferred /\ ~next.proved
                 /\ e.phase = "transfer_verified" => next.transferred /\ ~next.proved
                 /\ e.phase \in {"proof_boundary", "removal_started"} => next.proved
                 /\ e.phase \in NothingDone \cup WorkingPhases =>
                      ~next.removed /\ ~next.reviewed /\ ~next.resolved
                 /\ e.phase = "recovery_review" => next.reviewed /\ ~next.resolved
      BY <1>3, <1>4 DEF BoundariesAgree
    <3> USE DEF NothingDone, WorkingPhases
    <3>2. CASE e.phase \in {"started", "progress", "transfer_verified"}
      BY <1>5, <2>6, <3>1, <3>2 DEF MayFollow
    <3>3. CASE e.phase \in {"proof_boundary", "removal_started", "removal_completed"}
      BY <1>5, <2>6, <3>1, <3>3 DEF MayFollow
    <3>4. CASE e.phase = "recovery_review"
      BY <1>5, <2>6, <3>1, <3>4 DEF MayFollow
    <3>5. CASE e.phase \in {"completed", "failed", "deferred", "unresolved",
                            "cancelled", "interrupted", "recovery_resolved"}
      BY <3>5
    <3> QED
      BY <1>5, <1>10, <3>2, <3>3, <3>4, <3>5 DEF Phases
  <2>9. EvidenceAgrees(a)'
    <3>1. ASSUME next.proved
          PROVE  \E i \in RowsOf(a, "proof_boundary")' :
                   /\ \A j \in RowsOf(a, "proof_boundary")' : j <= i
                   /\ next.proof = events'[a][i].evidence.dst
      <4>1. CASE e.phase = "proof_boundary"
        BY <1>2, <1>7, <2>6, <4>1
      <4>2. CASE e.phase # "proof_boundary"
        <5>1. PICK i \in RowsOf(a, "proof_boundary") :
                /\ \A j \in RowsOf(a, "proof_boundary") : j <= i
                /\ entry.proof = events[a][i].evidence.dst
          BY <2>6, <3>1, <4>2 DEF ReplayAgrees, EvidenceAgrees, entry
        <5>2. /\ RowsOf(a, "proof_boundary")' = RowsOf(a, "proof_boundary")
              /\ events'[a][i] = events[a][i]
          BY <1>6, <1>8, <4>2, <5>1 DEF Phases
        <5> QED
          BY <2>6, <4>2, <5>1, <5>2
      <4> QED
        BY <4>1, <4>2
    <3>2. ASSUME next.reviewed
          PROVE  \E i \in RowsOf(a, "recovery_review")' :
                   /\ \A j \in RowsOf(a, "recovery_review")' : j <= i
                   /\ next.reviewAt = events'[a][i].at
      <4>1. CASE e.phase = "recovery_review"
        BY <1>2, <1>7, <2>6, <4>1
      <4>2. CASE e.phase # "recovery_review"
        <5>1. PICK i \in RowsOf(a, "recovery_review") :
                /\ \A j \in RowsOf(a, "recovery_review") : j <= i
                /\ entry.reviewAt = events[a][i].at
          BY <2>6, <3>2, <4>2 DEF ReplayAgrees, EvidenceAgrees, entry
        <5>2. /\ RowsOf(a, "recovery_review")' = RowsOf(a, "recovery_review")
              /\ events'[a][i] = events[a][i]
          BY <1>6, <1>8, <4>2, <5>1 DEF Phases
        <5> QED
          BY <2>6, <4>2, <5>1, <5>2
      <4> QED
        BY <4>1, <4>2
    <3> QED
      BY <1>3, <3>1, <3>2 DEF EvidenceAgrees
  <2> QED
    BY <2>7, <2>8, <2>9 DEF ReplayAgrees
<1> QED
  BY <1>9, <1>10

(* ... it survives what leaves the rows of an action alone ...              *)
LEMMA ReplayAgreesSame ==
  ASSUME NEW b \in Actions, events'[b] = events[b], method' = method, ReplayAgrees(b)
  PROVE  ReplayAgrees(b)' /\ Replay(b)' = Replay(b)
<1>1. /\ Replay(b)' = Replay(b) /\ (HasPlan(b)' <=> HasPlan(b))
      /\ LastPhase(b)' = LastPhase(b) /\ PlannedOp(b)' = PlannedOp(b)
      /\ PlanRow(b)' = PlanRow(b) /\ LastRow(b)' = LastRow(b)
      /\ (RowsLegible(b)' <=> RowsLegible(b))
      /\ \A p \in Phases : RowsOf(b, p)' = RowsOf(b, p)
  <2>1. Replay(b)' = Replay(b) /\ PlanRow(b)' = PlanRow(b) /\ LastRow(b)' = LastRow(b)
    BY DEF Replay, PlanRow, LastRow
  <2>2. HasPlan(b)' <=> HasPlan(b)
    BY DEF HasPlan
  <2>3. LastPhase(b)' = LastPhase(b) /\ PlannedOp(b)' = PlannedOp(b)
    BY <2>1, <2>2 DEF LastPhase, PlannedOp
  <2>4. (\A p \in Phases : RowsOf(b, p)' = RowsOf(b, p)) /\ (RowsLegible(b)' <=> RowsLegible(b))
    BY DEF RowsOf, RowsLegible
  <2> QED
    BY <2>1, <2>2, <2>3, <2>4
<1>2. RowsOf(b, "proof_boundary")' = RowsOf(b, "proof_boundary")
      /\ RowsOf(b, "recovery_review")' = RowsOf(b, "recovery_review")
  BY <1>1 DEF Phases
<1>3. EntryAgrees(b)'
  BY <1>1 DEF ReplayAgrees, EntryAgrees
<1>4. BoundariesAgree(b)'
  BY <1>1 DEF ReplayAgrees, BoundariesAgree
<1>5. EvidenceAgrees(b)'
  BY <1>1, <1>2 DEF ReplayAgrees, EvidenceAgrees
<1> QED
  BY <1>1, <1>3, <1>4, <1>5 DEF ReplayAgrees

(* ... it holds of an action without rows ...                               *)
LEMMA ReplayAgreesEmpty ==
  ASSUME NEW a \in Actions, events[a] = <<>>
  PROVE  ReplayAgrees(a)
<1>1. Replay(a) = NoEntry /\ ~HasPlan(a) /\ LastPhase(a) = "none" /\ PlannedOp(a) = NoOperation
  BY ReplayNone DEF Replay, HasPlan, LastPhase, PlannedOp
<1>2. /\ NoEntry.sound /\ RowsLegible(a) /\ NoEntry.last = "none" /\ NoEntry.op = NoOperation
      /\ ~NoEntry.proved /\ ~NoEntry.reviewed
  BY DEF NoEntry, RowsLegible
<1>3. EntryAgrees(a)
  BY <1>1, <1>2, NoEntryShape DEF EntryAgrees
<1>4. BoundariesAgree(a)
  BY <1>1 DEF BoundariesAgree, NothingDone, WorkingPhases
<1>5. EvidenceAgrees(a)
  BY <1>1, <1>2 DEF EvidenceAgrees
<1> QED
  BY <1>3, <1>4, <1>5 DEF ReplayAgrees

(* ... and every step of the journal, from the empty table on.              *)
LEMMA JournalReplayAgrees == Spec => [](\A a \in Actions : ReplayAgrees(a))
<1> DEFINE Agrees == \A a \in Actions : ReplayAgrees(a)
<1>1. Init => Agrees
  BY ReplayAgreesEmpty DEF Init
<1>2. TypeOK /\ Agrees /\ [Next]_vars => Agrees'
  <2> SUFFICES ASSUME TypeOK, Agrees, [Next]_vars, NEW b \in Actions PROVE ReplayAgrees(b)'
    BY DEF Actions
  <2>1. CASE UNCHANGED vars
    BY <2>1, ReplayAgreesSame DEF vars
  <2>2. CASE \E a \in Actions : \E e \in Row : OfferedEvent(a, e)
    <3>1. PICK a \in Actions, e \in Row : AppendEvent(a, e)
      BY <2>2 DEF OfferedEvent
    <3>2. CASE b = a
      BY <3>1, <3>2, ReplayAgreesAppend
    <3>3. CASE b # a
      BY <3>1, <3>3, AppendedRow, ReplayAgreesSame
    <3> QED
      BY <3>2, <3>3
  <2> QED
    BY <2>1, <2>2, StepAppends
<1> QED
  BY <1>1, <1>2, JournalTypeOK, PTL DEF Spec

(* Whatever append_event accepted, in a journal of any length, load_journal *)
(* can read, except a row whose recovery provenance is half recorded: such  *)
(* a row, and no other, replays as corrupt evidence.                        *)
THEOREM JournalReplayAccepts == Spec => []ReplayAccepts
<1>1. (\A a \in Actions : ReplayAgrees(a)) => ReplayAccepts
  BY DEF ReplayAgrees, EntryAgrees, ReplayAccepts
<1> QED
  BY <1>1, JournalReplayAgrees, PTL

(* append_event accepts what classify_open_actions wants to record of any   *)
(* action the replay still shows in progress.                               *)
LEMMA ClassificationAccepted ==
  ASSUME TypeOK, FrontierInOrder, NEW a \in Actions, ReplayAgrees(a),
         HasPlan(a), Outcome(a) = "in_progress"
  PROVE  Accepts(a, Classification(Replay(a)))
<1> DEFINE n == Len(events[a])
<1>1. events[a] \in Seq(Row) /\ n \in 1..n /\ LastRow(a) \in Row /\ LastPhase(a) = LastRow(a).phase
  BY DEF TypeOK, HasPlan, LastRow, LastPhase
<1>2. ReplayOutcome(LastRow(a)) = "in_progress"
  BY DEF ReplayAgrees, EntryAgrees, Outcome
<1>3. LastPhase(a) \in {"planned", "started", "progress", "transfer_verified"}
  BY <1>1, <1>2 DEF ReplayOutcome, Row, Phases
<1>4. /\ LastPhase(a) \in NothingDone => ~Replay(a).transferred /\ ~Replay(a).proved
      /\ LastPhase(a) = "transfer_verified" => Replay(a).transferred
  BY DEF ReplayAgrees, BoundariesAgree
<1>5. CASE LastPhase(a) = "transfer_verified"
  <2>1. Classification(Replay(a)) = RecoveryReview(0)
    BY <1>4, <1>5 DEF Classification
  <2>2. RecoveryReview(0).phase = "recovery_review"
    BY DEF RecoveryReview, Event
  <2>3. ~Untouched(a)
    BY <1>1, <1>5 DEF Untouched, LastRow, ExemptFromOrder
  <2>4. ASSUME NEW b \in 1..(a - 1) PROVE LastPhase(b) \in SettledPhases
    <3>1. b \in Actions /\ b < a
      BY JournalAssumption DEF Actions
    <3> QED
      BY <2>3, <3>1 DEF FrontierInOrder
  <2> QED
    BY <1>5, <2>1, <2>2, <2>4
       DEF Accepts, ValidEvent, MayFollow, WorkingPhases, SettlesThroughRemoval, FrozenMethod,
           TransferMatchesPlan, RemovalMatchesProof, PriorActionsSettled, ResolutionIsNewer
<1>6. CASE LastPhase(a) \in NothingDone
  <2>1. Classification(Replay(a)) = Event("interrupted")
    BY <1>4, <1>6 DEF Classification
  <2>2. Event("interrupted").phase = "interrupted"
    BY DEF Event
  <2> QED
    BY <1>6, <2>1, <2>2
       DEF Accepts, ValidEvent, MayFollow, SettlesThroughRemoval, FrozenMethod, ExemptFromOrder,
           TransferMatchesPlan, RemovalMatchesProof, PriorActionsSettled, ResolutionIsNewer
<1> QED
  BY <1>3, <1>5, <1>6 DEF NothingDone

(* A resume always gets past an interrupted run: append_event accepts what  *)
(* classify_open_actions wants to record of the first open action.          *)
THEOREM JournalOpenActionsClassifiable == Spec => []OpenActionsClassifiable
<1>1. TypeOK /\ FrontierInOrder /\ (\A a \in Actions : ReplayAgrees(a))
        => OpenActionsClassifiable
  BY ClassificationAccepted DEF OpenActionsClassifiable
<1> QED
  BY <1>1, JournalTypeOK, JournalFrontier, JournalReplayAgrees, PTL

(* What the report says of an action is final once it says anything but "in *)
(* progress" or "needs recovery review": no later row can reopen it.        *)
THEOREM JournalOutcomeIsFinal == Spec => OutcomeIsFinal
<1> DEFINE Final == \A a \in Actions :
              events'[a] = events[a] \/ Outcome(a) \in {"in_progress", "recovery_review"}
<1>1. TypeOK /\ (\A a \in Actions : ReplayAgrees(a)) /\ [Next]_vars => [Final]_vars
  <2> SUFFICES ASSUME TypeOK, \A b \in Actions : ReplayAgrees(b), [Next]_vars,
                      NEW a \in Actions, events'[a] # events[a]
               PROVE  Outcome(a) \in {"in_progress", "recovery_review"}
    OBVIOUS
  <2>1. PICK b \in Actions, e \in Row : AppendEvent(b, e)
    BY StepAppends DEF vars, OfferedEvent
  <2>2. b = a
    BY <2>1, AppendedRow
  <2>3. LastPhase(a) \notin SettledPhases
    BY <2>1, <2>2, AcceptedFollows
  <2>4. CASE ~HasPlan(a)
    BY <2>4 DEF ReplayAgrees, EntryAgrees, Outcome, NoEntry
  <2>5. CASE HasPlan(a)
    <3>1. LastRow(a) \in Row /\ LastPhase(a) = LastRow(a).phase
      BY <2>5 DEF TypeOK, HasPlan, LastRow, LastPhase
    <3>2. Outcome(a) = ReplayOutcome(LastRow(a))
      BY <2>5 DEF ReplayAgrees, EntryAgrees, Outcome
    <3>3. LastRow(a).phase \in Phases \ SettledPhases
      BY <2>3, <3>1 DEF Row
    <3> QED
      BY <3>2, <3>3 DEF ReplayOutcome, Phases, SettledPhases
  <2> QED
    BY <2>4, <2>5
<1> QED
  BY <1>1, JournalTypeOK, JournalReplayAgrees, PTL DEF Spec, OutcomeIsFinal

-----------------------------------------------------------------------------
(* The journal a driver writes.  Its rows follow and prove one another, the *)
(* frontier is in order and the replay agrees with it, between any two      *)
(* steps of a run that writes it: RunWorkflow's, local or SSH.              *)

JournalSound ==
  /\ TypeOK /\ FrontierInOrder /\ RowsFollow /\ RowsProven
  /\ \A a \in Actions : ReplayAgrees(a)

(* The phases of an action that is still open, or in the hands of the run.  *)
OpenPhases == {"planned", "started", "progress", "transfer_verified"}

(* What a step does to the rows of one action: nothing, or one row more.    *)

RowsKept(a) ==
  /\ HasPlan(a)' <=> HasPlan(a)
  /\ LastPhase(a)' = LastPhase(a)
  /\ LastRow(a)' = LastRow(a)
  /\ PlanRow(a)' = PlanRow(a)
  /\ Replay(a)' = Replay(a)

Told(a, e) ==
  /\ HasPlan(a)'
  /\ LastPhase(a)' = e.phase
  /\ LastRow(a)' = e
  /\ PlanRow(a)' = IF HasPlan(a) THEN PlanRow(a) ELSE e
  /\ e.phase \notin {"planned", "proof_boundary"} => Replay(a)'.proof = Replay(a).proof
  /\ e.phase = "proof_boundary" => Replay(a)'.proof = e.evidence.dst
  /\ \A b \in Actions : b # a => RowsKept(b)

LEMMA SameRowsKept ==
  ASSUME NEW a \in Actions, events'[a] = events[a], method' = method
  PROVE  RowsKept(a)
<1>1. LastRow(a)' = LastRow(a) /\ PlanRow(a)' = PlanRow(a) /\ (HasPlan(a)' <=> HasPlan(a))
  BY DEF LastRow, PlanRow, HasPlan
<1>2. Replay(a)' = Replay(a)
  BY DEF Replay
<1>3. LastPhase(a)' = LastPhase(a)
  BY <1>1 DEF LastPhase
<1> QED
  BY <1>1, <1>2, <1>3 DEF RowsKept

LEMMA RowTold ==
  ASSUME JournalSound, NEW a \in Actions, NEW e \in Row, AppendEvent(a, e)
  PROVE  Told(a, e)
<1> DEFINE n == Len(events[a])
<1>0. TypeOK /\ ReplayAgrees(a)
  BY DEF JournalSound
<1>1. events[a] \in Seq(Row) /\ n \in Nat
  BY <1>0 DEF TypeOK
<1>2. /\ method' = method
      /\ \A b \in Actions : b # a => events'[b] = events[b]
      /\ events'[a] = Append(events[a], e)
      /\ Len(events'[a]) = n + 1
      /\ events'[a][n + 1] = e
      /\ \A i \in 1..n : events'[a][i] = events[a][i]
  BY <1>0, AppendedRow
<1>3. HasPlan(a)' /\ LastPhase(a)' = e.phase /\ LastRow(a)' = e
  BY <1>1, <1>2 DEF HasPlan, LastPhase, LastRow
<1>4. PlanRow(a)' = IF HasPlan(a) THEN PlanRow(a) ELSE e
  <2>1. CASE HasPlan(a)
    BY <1>1, <1>2, <2>1 DEF HasPlan, PlanRow
  <2>2. CASE ~HasPlan(a)
    BY <1>1, <1>2, <2>2 DEF HasPlan, PlanRow
  <2> QED
    BY <2>1, <2>2
<1>5. Replay(a)' = ReplayRow(Replay(a), e, method)
  <2>1. ReplayRows(Append(events[a], e), method) = ReplayRow(ReplayRows(events[a], method), e, method)
    BY <1>1, ReplayAppend
  <2> QED
    BY <1>2, <2>1 DEF Replay
<1>6. ASSUME e.phase # "planned"
      PROVE  Replay(a)'.proof = IF e.phase = "proof_boundary" THEN e.evidence.dst ELSE Replay(a).proof
  <2>1. Replay(a) \in Entry
    BY <1>0 DEF ReplayAgrees, EntryAgrees
  <2> QED
    BY <1>5, <1>6, <2>1, LaterRow
<1>7. \A b \in Actions : b # a => RowsKept(b)
  BY <1>2, SameRowsKept
<1> QED
  BY <1>3, <1>4, <1>6, <1>7 DEF Told

(* The journal stays sound under the rows of the driver ...                 *)
LEMMA SoundAppend ==
  ASSUME JournalSound, NEW a \in Actions, NEW e \in Row, AppendEvent(a, e),
         e.phase # "planned" => \A b \in 1..(a - 1) : HasPlan(b)
  PROVE  JournalSound'
<1>0. TypeOK /\ FrontierInOrder /\ \A b \in Actions : ReplayAgrees(b)
  BY DEF JournalSound
<1>1. TypeOK'
  BY <1>0, AppendTyped
<1>5. RowsFollow' /\ RowsProven'
  BY <1>0, ChainPreserved DEF JournalSound
<1>2. FrontierInOrder'
  BY <1>0, FrontierAppend
<1>3. ASSUME NEW b \in Actions PROVE ReplayAgrees(b)'
  <2>1. CASE b = a
    BY <1>0, <2>1, ReplayAgreesAppend
  <2>2. CASE b # a
    BY <1>0, <2>2, AppendedRow, ReplayAgreesSame
  <2> QED
    BY <2>1, <2>2
<1>4. Actions' = Actions
  BY DEF Actions
<1> QED
  BY <1>1, <1>2, <1>3, <1>4, <1>5 DEF JournalSound

LEMMA SoundSame ==
  ASSUME JournalSound, events' = events, method' = method
  PROVE  JournalSound' /\ \A a \in Actions : RowsKept(a)
<1>0. TypeOK /\ FrontierInOrder /\ \A b \in Actions : ReplayAgrees(b)
  BY DEF JournalSound
<1>1. TypeOK'
  BY <1>0 DEF TypeOK
<1>2. FrontierInOrder'
  BY <1>0 DEF FrontierInOrder, Untouched, LastPhase, HasPlan, LastRow
<1>3. \A b \in Actions : ReplayAgrees(b)'
  BY <1>0, ReplayAgreesSame
<1>4. \A a \in Actions : RowsKept(a)
  BY SameRowsKept
<1>5. Actions' = Actions
  BY DEF Actions
<1>6. RowsFollow' /\ RowsProven'
  BY DEF JournalSound, RowsFollow, RowsProven, PlanRow
<1> QED
  BY <1>1, <1>2, <1>3, <1>4, <1>5, <1>6 DEF JournalSound

(* ... and a new run begins a new one.                                      *)
LEMMA SoundEmpty ==
  method \in Methods \cup {NoMethod} /\ events = [a \in Actions |-> <<>>] => JournalSound
<1> SUFFICES ASSUME method \in Methods \cup {NoMethod}, events = [a \in Actions |-> <<>>]
             PROVE  JournalSound
  OBVIOUS
<1>1. \A a \in Actions : events[a] = <<>> /\ Len(events[a]) = 0
  OBVIOUS
<1>2. TypeOK
  <2>1. <<>> \in Seq(Row)
    OBVIOUS
  <2>2. events \in [Actions -> Seq(Row)]
    BY <2>1
  <2> QED
    BY <1>1, <2>2 DEF TypeOK
<1>3. FrontierInOrder
  BY <1>1 DEF FrontierInOrder, Untouched
<1>4. RowsFollow /\ RowsProven
  BY <1>1 DEF RowsFollow, RowsProven
<1> QED
  BY <1>1, <1>2, <1>3, <1>4, ReplayAgreesEmpty DEF JournalSound

(* The rows the driver writes.                                              *)
LEMMA EventRow == \A p \in Phases : Event(p) \in Row /\ Event(p).phase = p
BY JournalAssumption DEF Event, Row, NoEvidence, Evidence, Sides, Provenances

LEMMA ReviewRow == RecoveryReview(0) \in Row /\ RecoveryReview(0).phase = "recovery_review"
<1>1. Event("recovery_review") \in Row /\ Event("recovery_review").phase = "recovery_review"
  BY EventRow DEF Phases
<1>2. 0 \in 0..MaxTime
  BY JournalAssumption
<1> QED
  BY <1>1, <1>2 DEF RecoveryReview, Row

(* Rows the reader can take: each kind as the drivers write it.             *)

LEMMA LegibleRows ==
  /\ \A p \in Phases : Legible(Event(p))
  /\ \A op, c : Legible(Planned(op, c))
  /\ \A m : Legible(RemovalStarted(m))
  /\ \A t : Legible(RecoveryReview(t))
  /\ \A ev : ev.provenance \in {"none", "whole"} =>
       /\ Legible(TransferVerified(ev))
       /\ \A m : Legible(ProofBoundary(ev, m)) /\ Legible(RemovalCompleted(ev, m))
<1> USE DEF Legible, Event, NoEvidence
<1>1. \A p \in Phases : Legible(Event(p))
  OBVIOUS
<1>2. /\ \A op, c : Legible(Planned(op, c))
      /\ \A m : Legible(RemovalStarted(m))
      /\ \A t : Legible(RecoveryReview(t))
  BY DEF Planned, RemovalStarted, RecoveryReview
<1>3. \A ev : ev.provenance \in {"none", "whole"} =>
        /\ Legible(TransferVerified(ev))
        /\ \A m : Legible(ProofBoundary(ev, m)) /\ Legible(RemovalCompleted(ev, m))
  BY DEF TransferVerified, ProofBoundary, RemovalCompleted
<1> QED
  BY <1>1, <1>2, <1>3

(* A journal that could be read can be read after such a row.               *)
LEMMA LegibleAppend ==
  ASSUME TypeOK, NEW a, NEW e, Legible(e), AppendEvent(a, e),
         NEW b \in Actions, RowsLegible(b)
  PROVE  RowsLegible(b)'
<1>1. events \in [Actions -> Seq(Row)] /\ events' = [events EXCEPT ![a] = Append(@, e)]
  BY DEF TypeOK, AppendEvent
<1>2. CASE b # a
  BY <1>1, <1>2 DEF RowsLegible
<1>3. CASE b = a
  <2>1. events[a] \in Seq(Row) /\ events'[a] = Append(events[a], e)
    BY <1>1, <1>3
  <2>2. /\ Len(events'[a]) = Len(events[a]) + 1
        /\ \A i \in 1..(Len(events[a]) + 1) :
             events'[a][i] = IF i <= Len(events[a]) THEN events[a][i] ELSE e
    BY <2>1
  <2> QED
    BY <1>3, <2>1, <2>2 DEF RowsLegible
<1> QED
  BY <1>2, <1>3

(* What the replayed outcome says of the last row. *)

LEMMA OutcomePhases ==
  ASSUME JournalSound, NEW a \in Actions, HasPlan(a), LastPhase(a) # "recovery_resolved"
  PROVE  /\ LastPhase(a) \in Phases
         /\ Outcome(a) = "in_progress" <=> LastPhase(a) \in OpenPhases
         /\ Outcome(a) = "completed" <=> LastPhase(a) \in {"completed", "removal_completed"}
         /\ Outcome(a) = "recovery_review" <=>
              LastPhase(a) \in {"proof_boundary", "removal_started", "recovery_review"}
         /\ LastPhase(a) \in {"failed", "cancelled", "interrupted", "deferred", "unresolved"}
              => Outcome(a) = LastPhase(a)
<1>1. LastRow(a) \in Row /\ LastPhase(a) = LastRow(a).phase
  BY DEF JournalSound, TypeOK, HasPlan, LastRow, LastPhase
<1>2. Outcome(a) = ReplayOutcome(LastRow(a))
  BY DEF JournalSound, ReplayAgrees, EntryAgrees, Outcome
<1>3. LastRow(a).phase \in Phases
  BY <1>1 DEF Row
<1> QED
  BY <1>1, <1>2, <1>3 DEF ReplayOutcome, Phases, OpenPhases

(* The same in one word: nothing yet, open, sent for review, removed (or    *)
(* transferred), or kept.                                                   *)
WordOf(p) ==
  CASE p = "none" -> "none"
    [] p \in OpenPhases -> "open"
    [] p \in {"proof_boundary", "removal_started", "recovery_review"} -> "review"
    [] p \in {"completed", "removal_completed"} -> "removed"
    [] OTHER -> "kept"

(* What one row of a driver does to the words: none is taken back, and an   *)
(* action is kept only from where it is open or under review.               *)
LEMMA RowWords ==
  ASSUME JournalSound, JournalSound', NEW a \in Actions, NEW e, AppendEvent(a, e),
         LastPhase(a)' # "recovery_resolved"
  PROVE  /\ HasPlan(a)' /\ LastPhase(a)' \in Phases
         /\ \A b \in Actions : b # a => RowsKept(b)
         /\ LastPhase(a)' = "completed" => HasPlan(a) /\ PlanRow(a).op # "remove_source"
         /\ LastPhase(a)' = "removal_completed" => LastPhase(a) = "removal_started"
         /\ \/ WordOf(LastPhase(a)') = WordOf(LastPhase(a))
            \/ WordOf(LastPhase(a)) = "none" /\ LastPhase(a)' = "planned"
            \/ WordOf(LastPhase(a)) = "open" /\ WordOf(LastPhase(a)') = "review"
            \/ /\ WordOf(LastPhase(a)) \in {"open", "review"}
               /\ WordOf(LastPhase(a)') = "kept"
            \/ LastPhase(a)' \in {"completed", "removal_completed"}
<1>1. e \in Row
  <2>1. events[a] \in Seq(Row) /\ events'[a] \in Seq(Row)
    BY DEF JournalSound, TypeOK, Actions
  <2>2. events'[a] = Append(events[a], e)
    BY DEF AppendEvent, JournalSound, TypeOK
  <2>3. Len(events'[a]) = Len(events[a]) + 1 /\ events'[a][Len(events[a]) + 1] = e
    <3> HIDE DEF Row
    <3> QED
      BY <2>1, <2>2
  <2>4. Len(events[a]) + 1 \in 1..Len(events'[a])
    BY <2>1, <2>3
  <2> QED
    BY <2>1, <2>3, <2>4
<1>2. Told(a, e)
  BY <1>1, RowTold
<1>3. HasPlan(a)' /\ LastPhase(a)' = e.phase /\ \A b \in Actions : b # a => RowsKept(b)
  BY <1>2 DEF Told
<1>4. e.phase \in Phases /\ LastPhase(a) \in MayFollow(e.phase)
  BY <1>1, AcceptedFollows DEF JournalSound
<1>5. e.phase = "completed" => HasPlan(a) /\ PlanRow(a).op # "remove_source"
  <2>1. e.phase = "completed" => PlannedOp(a) # "remove_source"
    BY DEF AppendEvent, Accepts, ValidEvent, SettlesThroughRemoval
  <2>2. e.phase = "completed" => HasPlan(a)
    BY <1>1, AcceptedFollows DEF JournalSound, HasPlan
  <2> QED
    BY <2>1, <2>2 DEF PlannedOp
<1> DEFINE p == LastPhase(a)
           q == e.phase
<1>6. /\ q = "removal_completed" => p = "removal_started"
      /\ \/ WordOf(q) = WordOf(p)
         \/ WordOf(p) = "none" /\ q = "planned"
         \/ WordOf(p) = "open" /\ WordOf(q) = "review"
         \/ WordOf(p) \in {"open", "review"} /\ WordOf(q) = "kept"
         \/ q \in {"completed", "removal_completed"}
  <2> HIDE DEF p, q
  <2>1. q \in Phases /\ p \in MayFollow(q) /\ q # "recovery_resolved"
    BY <1>3, <1>4 DEF p, q
  <2> USE DEF MayFollow, WordOf, OpenPhases, WorkingPhases, NothingDone, FirstBoundary
  <2>2. CASE q \in {"planned", "started", "progress", "transfer_verified", "proof_boundary"}
    BY <2>1, <2>2
  <2>3. CASE q \in {"removal_started", "removal_completed", "completed", "recovery_review"}
    BY <2>1, <2>3
  <2>4. CASE q \in {"failed", "deferred", "unresolved"}
    BY <2>1, <2>4
  <2>5. CASE q \in {"cancelled", "interrupted"}
    BY <2>1, <2>5
  <2> QED
    BY <2>1, <2>2, <2>3, <2>4, <2>5 DEF Phases
<1> QED
  BY <1>3, <1>4, <1>5, <1>6

-----------------------------------------------------------------------------
(* The plan a driver freezes: pieces joined in path order.                  *)

(* f joins the pieces in order.                                             *)
Joins(piece, n, f) ==
  f = [i \in 0..n |-> IF i = 0 THEN <<>> ELSE f[i - 1] \o piece[i]]

LEMMA JoinExists ==
  ASSUME NEW piece, NEW n \in Nat
  PROVE  \E f : Joins(piece, n, f)
<1> DEFINE T == {m \in Nat : ~ \E f : Joins(piece, m, f)}
<1>1. SUFFICES ASSUME T # {} PROVE FALSE
  OBVIOUS
<1>2. PICK m \in T : \A j \in T : m <= j
  BY <1>1, LeastNat
<1>3. m # 0
  <2>1. Joins(piece, 0, [i \in 0..0 |-> <<>>])
    BY DEF Joins
  <2> QED
    BY <2>1
<1>4. m \in Nat /\ m - 1 \in Nat /\ m - 1 \notin T
  BY <1>2, <1>3
<1>5. PICK f : Joins(piece, m - 1, f)
  BY <1>4
<1> DEFINE g == [i \in 0..m |-> IF i = m THEN f[m - 1] \o piece[m] ELSE f[i]]
<1>6. /\ g = [i \in 0..m |-> g[i]]
      /\ g[m] = f[m - 1] \o piece[m]
      /\ \A i \in 0..(m - 1) : g[i] = f[i]
  <2>1. g = [i \in 0..m |-> g[i]]
    OBVIOUS
  <2>2. g[m] = f[m - 1] \o piece[m]
    <3>1. m \in 0..m
      BY <1>4
    <3> QED
      BY <3>1, Zenon
  <2>3. \A i \in 0..(m - 1) : i \in 0..m /\ i # m
    BY <1>4
  <2>4. \A i \in 0..(m - 1) : g[i] = f[i]
    BY <2>3
  <2> QED
    BY <2>1, <2>2, <2>4
<1>7. \A i \in 0..(m - 1) : f[i] = IF i = 0 THEN <<>> ELSE f[i - 1] \o piece[i]
  BY <1>5 DEF Joins
<1> HIDE DEF g
<1>8. ASSUME NEW i \in 0..m
      PROVE  g[i] = IF i = 0 THEN <<>> ELSE g[i - 1] \o piece[i]
  <2>1. CASE i = m
    <3>1. i # 0 /\ i - 1 = m - 1 /\ m - 1 \in 0..(m - 1)
      BY <1>3, <1>4, <2>1
    <3> QED
      BY <1>6, <2>1, <3>1
  <2>2. CASE i \in 1..(m - 1)
    <3>1. i - 1 \in 0..(m - 1) /\ i \in 0..(m - 1) /\ i # 0
      BY <1>4, <2>2
    <3> QED
      BY <1>6, <1>7, <3>1
  <2>3. CASE i = 0
    <3>1. 0 \in 0..(m - 1)
      BY <1>4
    <3> QED
      BY <1>6, <1>7, <2>3, <3>1
  <2> QED
    BY <1>4, <2>1, <2>2, <2>3
<1>9. Joins(piece, m, g)
  BY <1>6, <1>8 DEF Joins
<1> QED
  BY <1>9

(* What the joined sequence holds where.                                    *)
LEMMA JoinedSteps ==
  ASSUME NEW S, NEW s \in Seq(S), NEW t \in Seq(S)
  PROVE  /\ s \o t \in Seq(S) /\ Len(s \o t) = Len(s) + Len(t)
         /\ \A i \in 1..Len(s) : (s \o t)[i] = s[i]
         /\ \A i \in 1..(Len(s) + Len(t)) : i > Len(s) =>
              i - Len(s) \in 1..Len(t) /\ (s \o t)[i] = t[i - Len(s)]
OBVIOUS

(* The pieces of one path: at most two steps, the source taken away once,   *)
(* and only if it is there, and a cleanup that takes no source away.        *)
PieceFits(s, c, k, S, There) ==
  /\ s \in Seq(S) /\ c \in Seq(S)
  /\ Len(s) + Len(c) <= 2
  /\ \A i \in 1..Len(s) : s[i].path = k
  /\ \A i \in 1..Len(s) : s[i].op = "remove_source" => k \in There
  /\ \A i, j \in 1..Len(s) : s[i].op = "remove_source" /\ s[j].op = "remove_source" => i = j
  /\ \A i \in 1..Len(c) : c[i].op = "remove_destination"

(* A plan for n paths: at most two steps for each, each source taken away   *)
(* once, and only if it is there.                                           *)
JoinedFits(w, n, S, There) ==
  /\ w \in Seq(S)
  /\ Len(w) <= 2 * n
  /\ \A a, b \in 1..Len(w) :
       /\ w[a].op = "remove_source" /\ w[b].op = "remove_source"
       /\ w[a].path = w[b].path
       => a = b
  /\ \A a \in 1..Len(w) : w[a].op = "remove_source" => w[a].path \in There

(* The pieces of N paths, path by path, with their cleanup behind them, make *)
(* such a plan.                                                             *)
LEMMA JoinedPlan ==
  ASSUME NEW S, NEW There, NEW N \in Nat, NEW steps, NEW cleanup, NEW upTo, NEW cleanedTo,
         Joins(steps, N, upTo), Joins(cleanup, N, cleanedTo),
         \A k \in 1..N : PieceFits(steps[k], cleanup[k], k, S, There)
  PROVE  JoinedFits(upTo[N] \o cleanedTo[N], N, S, There)
<1>2. \A k \in 1..N : k \in Nat /\ k - 1 \in 0..N
  OBVIOUS
<1>5. /\ upTo[0] = <<>> /\ cleanedTo[0] = <<>>
      /\ \A k \in 1..N : upTo[k] = upTo[k - 1] \o steps[k]
      /\ \A k \in 1..N : cleanedTo[k] = cleanedTo[k - 1] \o cleanup[k]
  <2>1. 0 \in 0..N /\ \A k \in 1..N : k \in 0..N /\ k # 0
    OBVIOUS
  <2> QED
    BY <2>1, Zenon DEF Joins
<1> DEFINE Shape(k) ==
             /\ upTo[k] \in Seq(S) /\ cleanedTo[k] \in Seq(S)
             /\ Len(upTo[k]) + Len(cleanedTo[k]) <= 2 * k
             /\ \A i \in 1..Len(upTo[k]) : upTo[k][i].path \in 1..k
             /\ \A i \in 1..Len(upTo[k]) :
                  upTo[k][i].op = "remove_source" => upTo[k][i].path \in There
             /\ \A i, j \in 1..Len(upTo[k]) :
                  /\ upTo[k][i].op = "remove_source" /\ upTo[k][j].op = "remove_source"
                  /\ upTo[k][i].path = upTo[k][j].path
                  => i = j
             /\ \A i \in 1..Len(cleanedTo[k]) : cleanedTo[k][i].op = "remove_destination"
<1>6. Shape(0)
  <2>1. <<>> \in Seq(S) /\ Len(<<>>) = 0
    OBVIOUS
  <2> QED
    BY <1>5, <2>1
<1>7. ASSUME NEW k \in 1..N, Shape(k - 1)
      PROVE  Shape(k)
  <2> DEFINE s == upTo[k - 1]
             t == steps[k]
             c == cleanedTo[k - 1]
             d == cleanup[k]
  <2>1. k \in Nat /\ k - 1 \in Nat
    BY <1>2
  <2>2. upTo[k] = s \o t /\ cleanedTo[k] = c \o d
    BY <1>5
  <2>3. /\ t \in Seq(S) /\ d \in Seq(S) /\ Len(t) + Len(d) <= 2
        /\ \A i \in 1..Len(t) : t[i].path = k
        /\ \A i \in 1..Len(t) : t[i].op = "remove_source" => k \in There
        /\ \A i, j \in 1..Len(t) :
             t[i].op = "remove_source" /\ t[j].op = "remove_source" => i = j
        /\ \A i \in 1..Len(d) : d[i].op = "remove_destination"
    BY DEF PieceFits
  <2>4. /\ s \in Seq(S) /\ c \in Seq(S) /\ Len(s) + Len(c) <= 2 * (k - 1)
        /\ \A i \in 1..Len(s) : s[i].path \in 1..(k - 1)
        /\ \A i \in 1..Len(s) : s[i].op = "remove_source" => s[i].path \in There
        /\ \A i, j \in 1..Len(s) :
             /\ s[i].op = "remove_source" /\ s[j].op = "remove_source"
             /\ s[i].path = s[j].path
             => i = j
        /\ \A i \in 1..Len(c) : c[i].op = "remove_destination"
    BY <1>7
  <2> HIDE DEF s, t, c, d
  <2>5. /\ s \o t \in Seq(S) /\ Len(s \o t) = Len(s) + Len(t)
        /\ \A i \in 1..Len(s) : (s \o t)[i] = s[i]
        /\ \A i \in 1..(Len(s) + Len(t)) : i > Len(s) =>
             i - Len(s) \in 1..Len(t) /\ (s \o t)[i] = t[i - Len(s)]
    BY <2>3, <2>4, JoinedSteps
  <2>6. /\ c \o d \in Seq(S) /\ Len(c \o d) = Len(c) + Len(d)
        /\ \A i \in 1..Len(c) : (c \o d)[i] = c[i]
        /\ \A i \in 1..(Len(c) + Len(d)) : i > Len(c) =>
             i - Len(c) \in 1..Len(d) /\ (c \o d)[i] = d[i - Len(c)]
    BY <2>3, <2>4, JoinedSteps
  <2>7. Len(s) \in Nat /\ Len(t) \in Nat /\ Len(c) \in Nat /\ Len(d) \in Nat
    BY <2>3, <2>4
  <2> DEFINE u == s \o t
             v == c \o d
  <2>8. upTo[k] = u /\ cleanedTo[k] = v
    BY <2>2
  <2>9. u \in Seq(S) /\ v \in Seq(S) /\ Len(u) + Len(v) <= 2 * k
    BY <2>1, <2>3, <2>4, <2>5, <2>6, <2>7
  <2> HIDE DEF u, v
  <2>10. ASSUME NEW i \in 1..Len(u)
         PROVE  /\ u[i].path \in 1..k
                /\ u[i].op = "remove_source" => u[i].path \in There
                /\ i <= Len(s) => u[i] = s[i] /\ u[i].path # k
                /\ i > Len(s) => /\ i - Len(s) \in 1..Len(t) /\ u[i] = t[i - Len(s)]
                                 /\ u[i].path = k
    <3>1. CASE i <= Len(s)
      <4>1. i \in 1..Len(s) /\ u[i] = s[i]
        BY <2>5, <2>7, <3>1 DEF u
      <4> QED
        BY <2>1, <2>4, <2>7, <3>1, <4>1
    <3>2. CASE i > Len(s)
      <4>1. i - Len(s) \in 1..Len(t) /\ u[i] = t[i - Len(s)]
        BY <2>5, <2>7, <3>2 DEF u
      <4> QED
        BY <2>1, <2>3, <2>7, <3>2, <4>1
    <3> QED
      BY <2>7, <3>1, <3>2
  <2>11. ASSUME NEW i \in 1..Len(u), NEW j \in 1..Len(u),
                u[i].op = "remove_source", u[j].op = "remove_source", u[i].path = u[j].path
         PROVE  i = j
    <3>1. CASE i <= Len(s)
      <4>1. j <= Len(s)
        BY <2>7, <2>10, <2>11, <3>1
      <4>2. i \in 1..Len(s) /\ j \in 1..Len(s) /\ u[i] = s[i] /\ u[j] = s[j]
        BY <2>7, <2>10, <3>1, <4>1
      <4> QED
        BY <2>4, <2>11, <4>2
    <3>2. CASE i > Len(s)
      <4>1. j > Len(s)
        BY <2>7, <2>10, <2>11, <3>2
      <4>2. /\ i - Len(s) \in 1..Len(t) /\ j - Len(s) \in 1..Len(t)
            /\ u[i] = t[i - Len(s)] /\ u[j] = t[j - Len(s)]
        BY <2>7, <2>10, <3>2, <4>1
      <4>3. i - Len(s) = j - Len(s)
        BY <2>3, <2>11, <4>2
      <4> QED
        BY <2>7, <4>3
    <3> QED
      BY <2>7, <3>1, <3>2
  <2>12. ASSUME NEW i \in 1..Len(v)
         PROVE  v[i].op = "remove_destination"
    <3>1. CASE i <= Len(c)
      <4>1. i \in 1..Len(c) /\ v[i] = c[i]
        BY <2>6, <2>7, <3>1 DEF v
      <4> QED
        BY <2>4, <4>1
    <3>2. CASE i > Len(c)
      <4>1. i - Len(c) \in 1..Len(d) /\ v[i] = d[i - Len(c)]
        BY <2>6, <2>7, <3>2 DEF v
      <4> QED
        BY <2>3, <4>1
    <3> QED
      BY <2>7, <3>1, <3>2
  <2> QED
    BY <2>8, <2>9, <2>10, <2>11, <2>12
<1> HIDE DEF Shape
<1>8. \A k \in 0..N : Shape(k)
  <2> DEFINE T == {k \in 0..N : ~Shape(k)}
  <2>1. SUFFICES ASSUME T # {} PROVE FALSE
    OBVIOUS
  <2>2. T \in SUBSET Nat
    BY <1>2
  <2>3. PICK k \in T : \A j \in T : k <= j
    <3> HIDE DEF T
    <3> QED
      BY <2>1, <2>2, LeastNat
  <2>4. k # 0
    BY <1>6, <2>3
  <2>5. k \in 1..N /\ k - 1 \in 0..N /\ ~(k <= k - 1)
    BY <1>2, <2>3, <2>4
  <2>6. Shape(k - 1)
    BY <2>3, <2>5
  <2> QED
    BY <1>7, <2>3, <2>5, <2>6
<1>9. Shape(N)
  BY <1>2, <1>8
<1> DEFINE u == upTo[N]
           v == cleanedTo[N]
<1>10. /\ u \in Seq(S) /\ v \in Seq(S)
       /\ Len(u) + Len(v) <= 2 * N
       /\ \A i \in 1..Len(u) : u[i].op = "remove_source" => u[i].path \in There
       /\ \A i, j \in 1..Len(u) :
            /\ u[i].op = "remove_source" /\ u[j].op = "remove_source"
            /\ u[i].path = u[j].path
            => i = j
       /\ \A i \in 1..Len(v) : v[i].op = "remove_destination"
  BY <1>9 DEF Shape
<1> HIDE DEF u, v
<1>12. /\ u \o v \in Seq(S) /\ Len(u \o v) = Len(u) + Len(v)
       /\ \A i \in 1..Len(u) : (u \o v)[i] = u[i]
       /\ \A i \in 1..(Len(u) + Len(v)) : i > Len(u) =>
            i - Len(u) \in 1..Len(v) /\ (u \o v)[i] = v[i - Len(u)]
  BY <1>10, JoinedSteps
<1> DEFINE z == u \o v
<1> HIDE DEF z
<1>13. Len(u) \in Nat /\ Len(v) \in Nat /\ Len(z) = Len(u) + Len(v) /\ z \in Seq(S)
  BY <1>10, <1>12 DEF z
<1>14. ASSUME NEW i \in 1..Len(z), z[i].op = "remove_source"
       PROVE  i \in 1..Len(u) /\ z[i] = u[i]
  <2>1. CASE i <= Len(u)
    BY <1>12, <1>13, <2>1 DEF z
  <2>2. CASE i > Len(u)
    <3>1. i - Len(u) \in 1..Len(v) /\ z[i] = v[i - Len(u)]
      BY <1>12, <1>13, <2>2 DEF z
    <3> QED
      BY <1>10, <1>14, <3>1
  <2> QED
    BY <1>13, <2>1, <2>2
<1>16. Len(z) <= 2 * N
  BY <1>2, <1>10, <1>13
<1>17. ASSUME NEW a \in 1..Len(z), NEW b \in 1..Len(z),
              z[a].op = "remove_source", z[b].op = "remove_source", z[a].path = z[b].path
       PROVE  a = b
  <2>1. a \in 1..Len(u) /\ z[a] = u[a] /\ b \in 1..Len(u) /\ z[b] = u[b]
    BY <1>14, <1>17
  <2> QED
    BY <1>10, <1>17, <2>1
<1>18. ASSUME NEW a \in 1..Len(z), z[a].op = "remove_source"
       PROVE  z[a].path \in There
  <2>1. a \in 1..Len(u) /\ z[a] = u[a]
    BY <1>14, <1>18
  <2> QED
    BY <1>10, <1>18, <2>1
<1>19. JoinedFits(z, N, S, There)
  BY <1>13, <1>16, <1>17, <1>18 DEF JoinedFits
<1> QED
  BY <1>19 DEF z, u, v
=============================================================================
