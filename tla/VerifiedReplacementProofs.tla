---------------------- MODULE VerifiedReplacementProofs ----------------------
(***************************************************************************)
(* Proofs about the Verified Replacement, for any set of contents and any  *)
(* number of edits and faults.                                             *)
(***************************************************************************)
EXTENDS VerifiedReplacement, TLAPS

(***************************************************************************)
(* Type correctness.  Stage reads the temporary file and source_before, so *)
(* the invariant says from where to where they exist.                      *)
(***************************************************************************)
Staging == {"transfer", "stage", "inspect", "preserve", "install"}

Flags ==
  /\ options \in [timestamps : BOOLEAN, keep_partial : BOOLEAN]
  /\ cancel \in BOOLEAN /\ late \in BOOLEAN /\ blind \in BOOLEAN

Control ==
  /\ pc \in Steps \cup {"returned", "crashed"}
  /\ error \in Errors
  /\ edits \in 0..MaxEdits /\ faults \in 0..MaxFaults

Holdings ==
  /\ at \in [Roles -> Item \cup {NoItem}]
  /\ before \in Item \cup {NoItem}
  /\ seen \in Item \cup {NoItem}
  /\ installed \in Item \cup {NoItem}
  /\ mine \subseteq Item
  /\ pc \in Staging => Exists("temporary")
  /\ pc \in Steps \ {"begin"} => before \in Item

TypeInv == Flags /\ Control /\ Holdings

LEMMA TypeInit == Init => TypeInv
<1> SUFFICES ASSUME Init PROVE TypeInv
  OBVIOUS
<1>1. PICK s \in Bytes, d \in Bytes \cup {NoItem} :
        at = [r \in Roles |->
               CASE r = "source" -> [inode |-> 1, bytes |-> s, time |-> 1]
                 [] r = "destination" /\ d # NoItem -> [inode |-> 2, bytes |-> d, time |-> 2]
                 [] OTHER -> NoItem]
  BY DEF Init
<1>2. at \in [Roles -> Item \cup {NoItem}]
  BY <1>1 DEF Item
<1>3. mine \subseteq Item
  BY <1>2 DEF Init, Shared, Roles
<1>4. cancel \in BOOLEAN /\ late \in BOOLEAN /\ blind \in BOOLEAN
  BY DEF Init
<1>5. options \in [timestamps : BOOLEAN, keep_partial : BOOLEAN]
  BY DEF Init
<1>6. edits \in 0..MaxEdits /\ faults \in 0..MaxFaults
  BY ReplacementAssumption DEF Init
<1>7. pc = "begin" /\ error \in Errors /\ before = NoItem /\ seen = NoItem /\ installed = NoItem
  BY DEF Init, Errors
<1> QED
  BY <1>2, <1>3, <1>4, <1>5, <1>6, <1>7 DEF TypeInv, Flags, Control, Holdings, Steps, Staging

LEMMA FlagsStep == Flags /\ [Next]_vars => Flags'
<1> SUFFICES ASSUME Flags, [Next]_vars PROVE Flags'
  OBVIOUS
<1>1. CASE Driver
  <2>1. UNCHANGED user
    BY <1>1 DEF Driver, CaptureSource, Transfer, Stage, Inspect, Preserve, Install, Examine, ProveInstalled, RecaptureInstalled, ConfirmSource, Probe, Identify, SetAside, RestorePrevious, CleanUp
  <2>2. UNCHANGED options /\ blind' \in {blind, TRUE}
    <3> USE DEF call, Cancelled, Rejects
    <3>1. CaptureSource => UNCHANGED options /\ blind' \in {blind, TRUE}
      BY DEF CaptureSource
    <3>2. Transfer => UNCHANGED options /\ blind' \in {blind, TRUE}
      BY DEF Transfer
    <3>3. Stage => UNCHANGED options /\ blind' \in {blind, TRUE}
      BY DEF Stage
    <3>4. Inspect => UNCHANGED options /\ blind' \in {blind, TRUE}
      BY DEF Inspect
    <3>5. Preserve => UNCHANGED options /\ blind' \in {blind, TRUE}
      BY DEF Preserve
    <3>6. Install => UNCHANGED options /\ blind' \in {blind, TRUE}
      BY DEF Install
    <3>7. Examine => UNCHANGED options /\ blind' \in {blind, TRUE}
      BY DEF Examine
    <3>8. ProveInstalled => UNCHANGED options /\ blind' \in {blind, TRUE}
      BY DEF ProveInstalled
    <3>9. RecaptureInstalled => UNCHANGED options /\ blind' \in {blind, TRUE}
      BY DEF RecaptureInstalled
    <3>10. ConfirmSource => UNCHANGED options /\ blind' \in {blind, TRUE}
      BY DEF ConfirmSource
    <3>11. Probe => UNCHANGED options /\ blind' \in {blind, TRUE}
      BY DEF Probe
    <3>12. Identify => UNCHANGED options /\ blind' \in {blind, TRUE}
      BY DEF Identify
    <3>13. SetAside => UNCHANGED options /\ blind' \in {blind, TRUE}
      BY DEF SetAside
    <3>14. RestorePrevious => UNCHANGED options /\ blind' \in {blind, TRUE}
      BY DEF RestorePrevious
    <3>15. CleanUp => UNCHANGED options /\ blind' \in {blind, TRUE}
      BY DEF CleanUp
    <3> QED
      BY <1>1, <3>1, <3>2, <3>3, <3>4, <3>5, <3>6, <3>7, <3>8, <3>9, <3>10, <3>11, <3>12, <3>13, <3>14, <3>15 DEF Driver
  <2> QED
    BY <2>1, <2>2 DEF Flags, user
<1>2. CASE \E r \in Shared : Edits(r)
  BY <1>2 DEF Edits, call, Flags
<1>3. CASE Cancel
  BY <1>3 DEF Cancel, call, Flags
<1>4. CASE Crash
  BY <1>4 DEF Crash, call, user, Flags
<1>5. CASE UNCHANGED vars
  BY <1>5 DEF vars, Flags
<1> QED
  BY <1>1, <1>2, <1>3, <1>4, <1>5 DEF Next

LEMMA ControlStep == Control /\ [Next]_vars => Control'
<1> SUFFICES ASSUME Control, [Next]_vars PROVE Control'
  OBVIOUS
<1> USE ReplacementAssumption
    DEF Control, Steps, Errors, Goto, Fails, NoFault, Fault, Cancelled, Rejects, user
<1>1. CASE CaptureSource
  BY <1>1 DEF CaptureSource
<1>2. CASE Transfer
  BY <1>2 DEF Transfer
<1>3. CASE Stage
  BY <1>3 DEF Stage
<1>4. CASE Inspect
  BY <1>4 DEF Inspect
<1>5. CASE Preserve
  BY <1>5 DEF Preserve
<1>6. CASE Install
  BY <1>6 DEF Install
<1>7. CASE Examine
  BY <1>7 DEF Examine
<1>8. CASE ProveInstalled
  BY <1>8 DEF ProveInstalled
<1>9. CASE RecaptureInstalled
  BY <1>9 DEF RecaptureInstalled
<1>10. CASE ConfirmSource
  BY <1>10 DEF ConfirmSource
<1>11. CASE Probe
  BY <1>11 DEF Probe
<1>12. CASE Identify
  BY <1>12 DEF Identify
<1>13. CASE SetAside
  BY <1>13 DEF SetAside
<1>14. CASE RestorePrevious
  BY <1>14 DEF RestorePrevious
<1>15. CASE CleanUp
  BY <1>15 DEF CleanUp
<1>16. CASE \E r \in Shared : Edits(r)
  BY <1>16 DEF Edits
<1>17. CASE Cancel
  BY <1>17 DEF Cancel
<1>18. CASE Crash
  BY <1>18 DEF Crash
<1>19. CASE UNCHANGED vars
  BY <1>19 DEF vars
<1> QED
  BY <1>1, <1>2, <1>3, <1>4, <1>5, <1>6, <1>7, <1>8, <1>9, <1>10, <1>11, <1>12, <1>13, <1>14, <1>15, <1>16, <1>17, <1>18, <1>19 DEF Next, Driver

(* A rename keeps at a function from the roles to items, and touches the    *)
(* temporary file only when it installs it.                                 *)
LEMMA RenameHolds ==
  ASSUME NEW from \in Roles, NEW to \in Roles \ {"temporary"},
         at \in [Roles -> Item \cup {NoItem}], Renames(from, to)
  PROVE  /\ at' \in [Roles -> Item \cup {NoItem}]
         /\ from # "temporary" => at'["temporary"] = at["temporary"]
BY DEF Renames, Roles, Shared, Hidden

(* What a change by the user leaves at a path.                              *)
LEMMA EditHolds ==
  ASSUME TypeInv, NEW r \in Shared, Edits(r)
  PROVE  /\ at' \in [Roles -> Item \cup {NoItem}]
         /\ mine' \subseteq Item
         /\ at'["temporary"] = at["temporary"]
<1>1. PICK item \in {NoItem}
                 \cup [inode : {Stamp}, bytes : Bytes, time : {Stamp}]
                 \cup (IF Exists(r)
                         THEN [inode : {at[r].inode}, bytes : Bytes, time : {Stamp}] ELSE {}) :
       /\ at' = [at EXCEPT ![r] = item]
       /\ mine' = (mine \ {at[r]}) \cup ({item} \ {NoItem})
  BY DEF Edits
<1>2. Stamp \in Nat /\ r \in Roles /\ r # "temporary"
  BY DEF Stamp, TypeInv, Control, Shared, Hidden, Roles
<1>3. at[r] \in Item \cup {NoItem}
  BY <1>2 DEF TypeInv, Holdings
<1>4. item \in Item \cup {NoItem}
  BY <1>2, <1>3 DEF Exists, Item
<1> QED
  BY <1>1, <1>2, <1>4 DEF TypeInv, Holdings, Roles

LEMMA HoldingsStep == TypeInv /\ [Next]_vars => Holdings'
<1> SUFFICES ASSUME TypeInv, [Next]_vars PROVE Holdings'
  OBVIOUS
<1>0. Holdings /\ pc \in Steps \cup {"returned", "crashed"}
  BY DEF TypeInv, Control
<1> {"source", "destination", "temporary", "previous", "failed"} = Roles
  BY DEF Roles, Shared, Hidden
<1> USE <1>0, ReplacementAssumption
    DEF Holdings, Steps, Staging, Goto, Fails, Cancelled, Rejects, Exists, call, user
<1>1. CASE CaptureSource
  <2>1. CASE pc' # "transfer"
    BY <1>1, <2>1 DEF CaptureSource
  <2>2. CASE pc' = "transfer"
    <3> DEFINE empty == [inode |-> TemporaryInode, bytes |-> Wrong, time |-> TemporaryInode]
    <3>1. /\ Exists("source") /\ before' = at["source"]
          /\ at' = [at EXCEPT !["temporary"] = empty]
          /\ UNCHANGED <<seen, installed, mine>>
      BY <1>1, <2>2 DEF CaptureSource
    <3>2. empty \in Item
      BY DEF Item, TemporaryInode
    <3>3. at["source"] \in Item
      BY <3>1
    <3> HIDE DEF empty
    <3> QED
      BY <3>1, <3>2, <3>3
  <2> QED
    BY <2>1, <2>2
<1>2. CASE Transfer
  <2>1. CASE at' = at
    BY <1>2, <2>1 DEF Transfer
  <2>2. CASE at' # at
    <3> DEFINE copied == [at["temporary"] EXCEPT !.bytes = at["source"].bytes]
    <3>1. /\ Exists("source") /\ Exists("temporary")
          /\ at' = [at EXCEPT !["temporary"] = copied]
      BY <1>2, <2>2 DEF Transfer
    <3>2. copied \in Item
      BY <3>1 DEF Item
    <3> HIDE DEF copied
    <3> QED
      BY <1>2, <2>2, <3>1, <3>2 DEF Transfer
  <2> QED
    BY <2>1, <2>2
<1>3. CASE Stage
  <2>1. at["temporary"] \in Item /\ before \in Item
    BY <1>3 DEF Stage
  <2>2. [at["temporary"] EXCEPT !.time = before.time] \in Item
    BY <2>1 DEF Item
  <2>3. at' = at \/ \E i \in Item : at' = [at EXCEPT !["temporary"] = i]
    BY <1>3, <2>1, <2>2 DEF Stage
  <2>4. UNCHANGED <<before, seen, installed, mine>>
    BY <1>3 DEF Stage
  <2>5. at' \in [Roles -> Item \cup {NoItem}] /\ at'["temporary"] # NoItem
    BY <2>1, <2>3
  <2> QED
    BY <2>1, <2>4, <2>5
<1>4. CASE Inspect
  BY <1>4 DEF Inspect
<1>5. CASE Preserve
  <2>1. at' = at \/ Renames("destination", "previous")
    BY <1>5 DEF Preserve
  <2>2. at' \in [Roles -> Item \cup {NoItem}]
    BY <2>1, RenameHolds
  <2>3. at'["temporary"] = at["temporary"]
    BY <2>1, RenameHolds
  <2> QED
    BY <1>5, <2>2, <2>3 DEF Preserve
<1>6. CASE Install
  <2>1. at' = at \/ Renames("temporary", "destination")
    BY <1>6 DEF Install
  <2>2. at' \in [Roles -> Item \cup {NoItem}]
    BY <2>1, RenameHolds
  <2> QED
    BY <1>6, <2>2 DEF Install
<1>7. CASE Examine
  BY <1>7 DEF Examine
<1>8. CASE ProveInstalled
  BY <1>8 DEF ProveInstalled
<1>9. CASE RecaptureInstalled
  BY <1>9 DEF RecaptureInstalled
<1>10. CASE ConfirmSource
  BY <1>10 DEF ConfirmSource
<1>11. CASE Probe
  BY <1>11 DEF Probe
<1>12. CASE Identify
  BY <1>12 DEF Identify
<1>13. CASE SetAside
  <2>1. at' = at \/ Renames("destination", "failed")
    BY <1>13 DEF SetAside
  <2>2. at' \in [Roles -> Item \cup {NoItem}]
    BY <2>1, RenameHolds
  <2>3. at'["temporary"] = at["temporary"]
    BY <2>1, RenameHolds
  <2> QED
    BY <1>13, <2>2, <2>3 DEF SetAside
<1>14. CASE RestorePrevious
  <2>1. at' = at \/ Renames("previous", "destination")
    BY <1>14 DEF RestorePrevious
  <2>2. at' \in [Roles -> Item \cup {NoItem}]
    BY <2>1, RenameHolds
  <2>3. at'["temporary"] = at["temporary"]
    BY <2>1, RenameHolds
  <2> QED
    BY <1>14, <2>2, <2>3 DEF RestorePrevious
<1>15. CASE CleanUp
  BY <1>15 DEF CleanUp
<1>16. CASE \E r \in Shared : Edits(r)
  <2>1. PICK r \in Shared : Edits(r)
    BY <1>16
  <2>2. /\ at' \in [Roles -> Item \cup {NoItem}]
        /\ mine' \subseteq Item
        /\ at'["temporary"] = at["temporary"]
    BY <2>1, EditHolds
  <2> QED
    BY <2>1, <2>2 DEF Edits
<1>17. CASE Cancel
  BY <1>17 DEF Cancel
<1>18. CASE Crash
  BY <1>18 DEF Crash
<1>19. CASE UNCHANGED vars
  BY <1>19 DEF vars
<1> QED
  BY <1>1, <1>2, <1>3, <1>4, <1>5, <1>6, <1>7, <1>8, <1>9, <1>10, <1>11, <1>12, <1>13, <1>14, <1>15, <1>16, <1>17, <1>18, <1>19 DEF Next, Driver

LEMMA ReplacementTypes == Spec => []TypeInv
<1>1. TypeInv /\ [Next]_vars => TypeInv'
  BY FlagsStep, ControlStep, HoldingsStep DEF TypeInv
<1> QED
  BY <1>1, TypeInit, PTL DEF Spec

(* Every variable keeps its type, whatever fails and whatever the user does. *)
THEOREM ReplacementTypeCorrect == Spec => []TypeOK
<1>1. TypeInv => TypeOK
  BY DEF TypeInv, Flags, Control, Holdings, TypeOK
<1> QED
  BY <1>1, ReplacementTypes, PTL

(***************************************************************************)
(* No item of the user is lost.  The invariant is inductive by itself once *)
(* at is a function over the roles: a rename takes an item to a free name, *)
(* and the only name the call removes is the temporary one.                *)
(***************************************************************************)
Kept == NoItem \notin mine /\ NoUserItemLost

LEMMA RenameKeeps ==
  ASSUME Kept, UNCHANGED mine, NEW from \in Roles, NEW to \in Roles \ {"temporary"},
         at \in [Roles -> Item \cup {NoItem}], Renames(from, to)
  PROVE  Kept'
<1>1. SUFFICES ASSUME NEW i \in mine PROVE \E r \in Roles \ {"temporary"} : at'[r] = i
  BY DEF Kept, NoUserItemLost
<1>2. PICK r \in Roles \ {"temporary"} : at[r] = i
  BY DEF Kept, NoUserItemLost
<1>3. r # to
  BY <1>2 DEF Kept, Renames, Exists
<1>4. CASE r = from
  BY <1>2, <1>4 DEF Renames
<1>5. CASE r # from
  BY <1>2, <1>3, <1>5 DEF Renames
<1> QED
  BY <1>4, <1>5

(* A step that touches the temporary file alone.                            *)
LEMMA TemporaryKeeps ==
  ASSUME Kept, UNCHANGED mine, \A r \in Roles \ {"temporary"} : at'[r] = at[r]
  PROVE  Kept'
BY DEF Kept, NoUserItemLost

LEMMA EditKeeps ==
  ASSUME TypeInv, Kept, NEW r \in Shared, Edits(r)
  PROVE  Kept'
<1>1. PICK item :
        /\ at' = [at EXCEPT ![r] = item]
        /\ mine' = (mine \ {at[r]}) \cup ({item} \ {NoItem})
  BY DEF Edits
<1>2. r \in Roles \ {"temporary"} /\ at \in [Roles -> Item \cup {NoItem}]
  BY DEF Shared, Hidden, Roles, TypeInv, Holdings
<1>3. ASSUME NEW i \in mine' PROVE \E q \in Roles \ {"temporary"} : at'[q] = i
  <2>1. CASE i = item
    BY <1>1, <1>2, <2>1
  <2>2. CASE i # item
    <3>1. i \in mine /\ i # at[r]
      BY <1>1, <1>3, <2>2
    <3>2. PICK q \in Roles \ {"temporary"} : at[q] = i
      BY <3>1 DEF Kept, NoUserItemLost
    <3> QED
      BY <1>1, <1>2, <3>1, <3>2
  <2> QED
    BY <2>1, <2>2
<1> QED
  BY <1>1, <1>3 DEF Kept, NoUserItemLost

LEMMA KeptStep == TypeInv /\ Kept /\ [Next]_vars => Kept'
<1> SUFFICES ASSUME TypeInv, Kept, [Next]_vars PROVE Kept'
  OBVIOUS
<1>0. at \in [Roles -> Item \cup {NoItem}]
  BY DEF TypeInv, Holdings
<1> {"source", "destination", "temporary", "previous", "failed"} = Roles
  BY DEF Roles, Shared, Hidden
<1> USE DEF Cancelled, Rejects, user
<1>1. CASE CaptureSource
  <2>1. UNCHANGED mine /\ \A r \in Roles \ {"temporary"} : at'[r] = at[r]
    BY <1>1, <1>0 DEF CaptureSource
  <2> QED
    BY <2>1, TemporaryKeeps
<1>2. CASE Transfer
  <2>1. UNCHANGED mine /\ \A r \in Roles \ {"temporary"} : at'[r] = at[r]
    BY <1>2, <1>0 DEF Transfer
  <2> QED
    BY <2>1, TemporaryKeeps
<1>3. CASE Stage
  <2>1. UNCHANGED mine /\ \A r \in Roles \ {"temporary"} : at'[r] = at[r]
    BY <1>3, <1>0 DEF Stage
  <2> QED
    BY <2>1, TemporaryKeeps
<1>4. CASE Inspect
  <2>1. UNCHANGED mine /\ \A r \in Roles \ {"temporary"} : at'[r] = at[r]
    BY <1>4, <1>0 DEF Inspect
  <2> QED
    BY <2>1, TemporaryKeeps
<1>5. CASE Preserve
  <2>1. UNCHANGED mine /\ (at' = at \/ Renames("destination", "previous"))
    BY <1>5 DEF Preserve
  <2> QED
    BY <1>0, <2>1, RenameKeeps, TemporaryKeeps
<1>6. CASE Install
  <2>1. UNCHANGED mine /\ (at' = at \/ Renames("temporary", "destination"))
    BY <1>6 DEF Install
  <2> QED
    BY <1>0, <2>1, RenameKeeps, TemporaryKeeps
<1>7. CASE Examine
  <2>1. UNCHANGED mine /\ \A r \in Roles \ {"temporary"} : at'[r] = at[r]
    BY <1>7, <1>0 DEF Examine
  <2> QED
    BY <2>1, TemporaryKeeps
<1>8. CASE ProveInstalled
  <2>1. UNCHANGED mine /\ \A r \in Roles \ {"temporary"} : at'[r] = at[r]
    BY <1>8, <1>0 DEF ProveInstalled
  <2> QED
    BY <2>1, TemporaryKeeps
<1>9. CASE RecaptureInstalled
  <2>1. UNCHANGED mine /\ \A r \in Roles \ {"temporary"} : at'[r] = at[r]
    BY <1>9, <1>0 DEF RecaptureInstalled
  <2> QED
    BY <2>1, TemporaryKeeps
<1>10. CASE ConfirmSource
  <2>1. UNCHANGED mine /\ \A r \in Roles \ {"temporary"} : at'[r] = at[r]
    BY <1>10, <1>0 DEF ConfirmSource
  <2> QED
    BY <2>1, TemporaryKeeps
<1>11. CASE Probe
  <2>1. UNCHANGED mine /\ \A r \in Roles \ {"temporary"} : at'[r] = at[r]
    BY <1>11, <1>0 DEF Probe
  <2> QED
    BY <2>1, TemporaryKeeps
<1>12. CASE Identify
  <2>1. UNCHANGED mine /\ \A r \in Roles \ {"temporary"} : at'[r] = at[r]
    BY <1>12, <1>0 DEF Identify
  <2> QED
    BY <2>1, TemporaryKeeps
<1>13. CASE SetAside
  <2>1. UNCHANGED mine /\ (at' = at \/ Renames("destination", "failed"))
    BY <1>13 DEF SetAside
  <2> QED
    BY <1>0, <2>1, RenameKeeps, TemporaryKeeps
<1>14. CASE RestorePrevious
  <2>1. UNCHANGED mine /\ (at' = at \/ Renames("previous", "destination"))
    BY <1>14 DEF RestorePrevious
  <2> QED
    BY <1>0, <2>1, RenameKeeps, TemporaryKeeps
<1>15. CASE CleanUp
  <2>1. UNCHANGED mine /\ \A r \in Roles \ {"temporary"} : at'[r] = at[r]
    BY <1>15, <1>0 DEF CleanUp
  <2> QED
    BY <2>1, TemporaryKeeps
<1>16. CASE \E r \in Shared : Edits(r)
  BY <1>16, EditKeeps
<1>17. CASE Cancel
  BY <1>17 DEF Cancel, Kept, NoUserItemLost
<1>18. CASE Crash
  BY <1>18 DEF Crash, Kept, NoUserItemLost
<1>19. CASE UNCHANGED vars
  BY <1>19 DEF vars, Kept, NoUserItemLost
<1> QED
  BY <1>1, <1>2, <1>3, <1>4, <1>5, <1>6, <1>7, <1>8, <1>9, <1>10, <1>11, <1>12, <1>13, <1>14, <1>15, <1>16, <1>17, <1>18, <1>19 DEF Next, Driver

LEMMA KeptInit == Init => Kept
<1> SUFFICES ASSUME Init PROVE Kept
  OBVIOUS
<1>1. mine = {at[r] : r \in Shared} \ {NoItem}
  BY DEF Init
<1>2. Shared \subseteq Roles \ {"temporary"}
  BY DEF Shared, Hidden, Roles
<1> QED
  BY <1>1, <1>2 DEF Kept, NoUserItemLost

(* What the user has at the source or the destination is never destroyed,   *)
(* for any number of edits and failures, in any order with the renames of   *)
(* the replacement and its rollback, and in whatever state a crash leaves.  *)
THEOREM ReplacementLosesNothing == Spec => []NoUserItemLost
<1>1. Kept => NoUserItemLost
  BY DEF Kept
<1> QED
  BY <1>1, KeptInit, KeptStep, ReplacementTypes, PTL DEF Spec

(***************************************************************************)
(* The destination's name never shows an unproven copy.  What another name *)
(* holds matters as well, because a rename can bring it there, and no two  *)
(* names hold the same file, so that a change at one of them does not      *)
(* touch another.                                                          *)
(***************************************************************************)
Distinct ==
  /\ \A r, q \in Roles : r # q /\ Exists(r) /\ Exists(q) => at[r].inode # at[q].inode
  /\ \A r \in Roles : Exists(r) => at[r].inode < Stamp
  /\ pc = "begin" => \A r \in Roles : Exists(r) => r \in Shared /\ at[r].inode # TemporaryInode

Shown(r) == at[r] \in mine \cup {NoItem} \/ Proves(r, before)

Presentable ==
  /\ \A r \in {"destination", "previous", "failed"} : Shown(r)
  /\ pc = "begin" => at["destination"] \in mine \cup {NoItem}
  /\ pc \in {"inspect", "preserve", "install"} => Proves("temporary", before)

(* A step that leaves every file where it is, and leaves the start.         *)
LEMMA InPlaceDistinct ==
  ASSUME Distinct, pc' # "begin", UNCHANGED edits,
         \A r \in Roles : (Exists(r)' <=> Exists(r)) /\ (Exists(r) => at'[r].inode = at[r].inode)
  PROVE  Distinct'
BY DEF Distinct, Stamp

LEMMA RenameDistinct ==
  ASSUME Distinct, pc' # "begin", UNCHANGED edits, NEW from \in Roles, NEW to \in Roles,
         at \in [Roles -> Item \cup {NoItem}], Renames(from, to)
  PROVE  Distinct'
BY DEF Distinct, Stamp, Renames, Exists

LEMMA EditDistinct ==
  ASSUME TypeInv, Distinct, NEW r \in Shared, Edits(r)
  PROVE  Distinct'
<1>1. PICK item \in {NoItem}
                 \cup [inode : {Stamp}, bytes : Bytes, time : {Stamp}]
                 \cup (IF Exists(r)
                         THEN [inode : {at[r].inode}, bytes : Bytes, time : {Stamp}] ELSE {}) :
        at' = [at EXCEPT ![r] = item]
  BY DEF Edits
<1>2. r \in Roles /\ at \in [Roles -> Item \cup {NoItem}] /\ edits \in Nat /\ edits' = edits + 1
  BY ReplacementAssumption DEF Shared, Roles, TypeInv, Holdings, Control, Edits
<1>3. \A q \in Roles : Exists(q) => at[q].inode \in Nat
  BY <1>2 DEF Item, Exists
<1>4. \A q \in Roles \ {r} : at'[q] = at[q]
  BY <1>1, <1>2
<1>5. Stamp \in Nat /\ Stamp' = Stamp + 1 /\ Stamp > TemporaryInode
  BY <1>2 DEF Stamp, TemporaryInode
<1>6. at'[r] = item
  BY <1>1, <1>2
<1>7. item = NoItem \/ item.inode = Stamp \/ (Exists(r) /\ item.inode = at[r].inode)
  BY <1>1
<1>8. /\ Exists(r)' => at'[r].inode \in Nat /\ at'[r].inode < Stamp'
      /\ \A q \in Roles \ {r} : Exists(q)' => Exists(q) /\ at'[q].inode < Stamp
  BY <1>2, <1>3, <1>4, <1>5, <1>6, <1>7 DEF Distinct, Exists
<1>9. \A q \in Roles \ {r} : Exists(r)' /\ Exists(q)' => at'[r].inode # at'[q].inode
  BY <1>2, <1>3, <1>4, <1>5, <1>6, <1>7, <1>8 DEF Distinct, Exists
<1>10. \A q, p \in Roles \ {r} : q # p /\ Exists(q)' /\ Exists(p)' => at'[q].inode # at'[p].inode
  BY <1>4 DEF Distinct, Exists
<1>11. \A q \in Roles : Exists(q)' => at'[q].inode < Stamp'
  <2>1. \A q \in Roles \ {r} : Exists(q)' => at'[q].inode < Stamp'
    BY <1>3, <1>4, <1>5, <1>8
  <2> QED
    BY <2>1, <1>8
<1>12. pc' = "begin" => \A q \in Roles : Exists(q)' => q \in Shared /\ at'[q].inode # TemporaryInode
  <2>1. pc' = pc
    BY DEF Edits
  <2>2. pc = "begin" /\ Exists(r)' => at'[r].inode # TemporaryInode
    BY <1>2, <1>3, <1>5, <1>6, <1>7 DEF Distinct, Exists, TemporaryInode
  <2>3. pc = "begin" => \A q \in Roles \ {r} : Exists(q)' => q \in Shared /\ at'[q].inode # TemporaryInode
    BY <1>4 DEF Distinct, Exists
  <2> QED
    BY <2>1, <2>2, <2>3
<1> QED
  BY <1>9, <1>10, <1>11, <1>12 DEF Distinct

LEMMA DistinctStep == TypeInv /\ Distinct /\ [Next]_vars => Distinct'
<1> SUFFICES ASSUME TypeInv, Distinct, [Next]_vars PROVE Distinct'
  OBVIOUS
<1>0. at \in [Roles -> Item \cup {NoItem}] /\ NoItem \notin Item
  BY ReplacementAssumption DEF TypeInv, Holdings
<1> {"source", "destination", "temporary", "previous", "failed"} = Roles
  BY DEF Roles, Shared, Hidden
<1> USE DEF Cancelled, Rejects, user, Goto, Fails
<1>1. CASE CaptureSource
  <2>1. CASE pc' # "transfer"
    <3>1. at' = at /\ pc' # "begin" /\ UNCHANGED edits
      BY <1>1, <2>1 DEF CaptureSource
    <3> QED
      BY <3>1, InPlaceDistinct DEF Exists
  <2>2. CASE pc' = "transfer"
    <3> DEFINE empty == [inode |-> TemporaryInode, bytes |-> Wrong, time |-> TemporaryInode]
    <3>1. at' = [at EXCEPT !["temporary"] = empty] /\ pc = "begin" /\ UNCHANGED edits
      BY <1>1, <2>2 DEF CaptureSource
    <3>2. empty.inode = TemporaryInode /\ empty # NoItem
      BY <1>0 DEF Item, TemporaryInode
    <3>3. edits \in Nat
      BY ReplacementAssumption DEF TypeInv, Control
    <3> HIDE DEF empty
    <3>4. \A r \in Roles \ {"temporary"} : at'[r] = at[r]
      BY <1>0, <3>1
    <3>5. at'["temporary"] = empty
      BY <1>0, <3>1
    <3>6. TemporaryInode < Stamp'
      BY <3>1, <3>3 DEF TemporaryInode, Stamp
    <3> QED
      BY <2>2, <3>1, <3>2, <3>4, <3>5, <3>6 DEF Distinct, Exists, Stamp
  <2> QED
    BY <2>1, <2>2
<1>2. CASE Transfer
  <2>1. pc' # "begin" /\ UNCHANGED edits /\ Exists("temporary")
    BY <1>2 DEF Transfer, TypeInv, Holdings, Staging
  <2>2. \A r \in Roles \ {"temporary"} : at'[r] = at[r]
    BY <1>0, <1>2 DEF Transfer
  <2>3. at'["temporary"] \in Item /\ at'["temporary"].inode = at["temporary"].inode
    BY <1>0, <1>2, <2>1 DEF Transfer, Exists, Item
  <2> QED
    BY <1>0, <2>1, <2>2, <2>3, InPlaceDistinct DEF Exists
<1>3. CASE Stage
  <2>1. pc' # "begin" /\ UNCHANGED edits /\ Exists("temporary")
    BY <1>3 DEF Stage, TypeInv, Holdings, Staging
  <2>2. \A r \in Roles \ {"temporary"} : at'[r] = at[r]
    BY <1>0, <1>3 DEF Stage
  <2>3. before \in Item
    BY <1>3 DEF Stage, TypeInv, Holdings, Steps
  <2>4. at'["temporary"] \in Item /\ at'["temporary"].inode = at["temporary"].inode
    BY <1>0, <1>3, <2>1, <2>3 DEF Stage, Exists, Item
  <2> QED
    BY <1>0, <2>1, <2>2, <2>4, InPlaceDistinct DEF Exists
<1>4. CASE Inspect
  <2>1. pc' # "begin" /\ UNCHANGED <<at, edits>>
    BY <1>4 DEF Inspect
  <2> QED
    BY <2>1, InPlaceDistinct DEF Exists
<1>5. CASE Preserve
  <2>1. pc' # "begin" /\ UNCHANGED edits /\ (at' = at \/ Renames("destination", "previous"))
    BY <1>5 DEF Preserve
  <2> QED
    BY <1>0, <2>1, RenameDistinct, InPlaceDistinct DEF Exists
<1>6. CASE Install
  <2>1. pc' # "begin" /\ UNCHANGED edits /\ (at' = at \/ Renames("temporary", "destination"))
    BY <1>6 DEF Install
  <2> QED
    BY <1>0, <2>1, RenameDistinct, InPlaceDistinct DEF Exists
<1>7. CASE Examine
  <2>1. pc' # "begin" /\ UNCHANGED <<at, edits>>
    BY <1>7 DEF Examine
  <2> QED
    BY <2>1, InPlaceDistinct DEF Exists
<1>8. CASE ProveInstalled
  <2>1. pc' # "begin" /\ UNCHANGED <<at, edits>>
    BY <1>8 DEF ProveInstalled
  <2> QED
    BY <2>1, InPlaceDistinct DEF Exists
<1>9. CASE RecaptureInstalled
  <2>1. pc' # "begin" /\ UNCHANGED <<at, edits>>
    BY <1>9 DEF RecaptureInstalled
  <2> QED
    BY <2>1, InPlaceDistinct DEF Exists
<1>10. CASE ConfirmSource
  <2>1. pc' # "begin" /\ UNCHANGED <<at, edits>>
    BY <1>10 DEF ConfirmSource
  <2> QED
    BY <2>1, InPlaceDistinct DEF Exists
<1>11. CASE Probe
  <2>1. pc' # "begin" /\ UNCHANGED <<at, edits>>
    BY <1>11 DEF Probe
  <2> QED
    BY <2>1, InPlaceDistinct DEF Exists
<1>12. CASE Identify
  <2>1. pc' # "begin" /\ UNCHANGED <<at, edits>>
    BY <1>12 DEF Identify
  <2> QED
    BY <2>1, InPlaceDistinct DEF Exists
<1>13. CASE SetAside
  <2>1. pc' # "begin" /\ UNCHANGED edits /\ (at' = at \/ Renames("destination", "failed"))
    BY <1>13 DEF SetAside
  <2> QED
    BY <1>0, <2>1, RenameDistinct, InPlaceDistinct DEF Exists
<1>14. CASE RestorePrevious
  <2>1. pc' # "begin" /\ UNCHANGED edits /\ (at' = at \/ Renames("previous", "destination"))
    BY <1>14 DEF RestorePrevious
  <2> QED
    BY <1>0, <2>1, RenameDistinct, InPlaceDistinct DEF Exists
<1>15. CASE CleanUp
  <2>1. pc' # "begin" /\ UNCHANGED edits /\ (at' = at \/ at' = [at EXCEPT !["temporary"] = NoItem])
    BY <1>15 DEF CleanUp
  <2>2. \A r \in Roles : at'[r] \in {at[r], NoItem}
    BY <1>0, <2>1
  <2> QED
    BY <2>1, <2>2 DEF Distinct, Exists, Stamp
<1>16. CASE \E r \in Shared : Edits(r)
  BY <1>16, EditDistinct
<1>17. CASE Cancel
  BY <1>17 DEF Cancel, Distinct, Exists, Stamp
<1>18. CASE Crash
  BY <1>18 DEF Crash, Distinct, Exists, Stamp
<1>19. CASE UNCHANGED vars
  BY <1>19 DEF vars, Distinct, Exists, Stamp
<1> QED
  BY <1>1, <1>2, <1>3, <1>4, <1>5, <1>6, <1>7, <1>8, <1>9, <1>10, <1>11, <1>12, <1>13, <1>14, <1>15, <1>16, <1>17, <1>18, <1>19 DEF Next, Driver

(* A change by the user of one name leaves the others presentable.          *)
LEMMA EditPresentable ==
  ASSUME TypeInv, Distinct, Presentable, NEW r \in Shared, Edits(r)
  PROVE  Presentable'
<1>1. PICK item :
        /\ at' = [at EXCEPT ![r] = item]
        /\ mine' = (mine \ {at[r]}) \cup ({item} \ {NoItem})
  BY DEF Edits
<1>2. /\ r \in Roles /\ at \in [Roles -> Item \cup {NoItem}]
      /\ pc' = pc /\ before' = before /\ r # "temporary"
      /\ {"destination", "temporary", "previous", "failed"} \subseteq Roles
  BY DEF Shared, Hidden, Roles, TypeInv, Holdings, Edits, call
<1>3. \A q \in Roles \ {r} : at'[q] = at[q]
  BY <1>1, <1>2
<1>4. at'[r] \in mine' \cup {NoItem}
  BY <1>1, <1>2
<1>5. ASSUME NEW q \in Roles \ {r}, at[q] \in mine \cup {NoItem} PROVE at'[q] \in mine' \cup {NoItem}
  <2>1. at[q] = NoItem \/ at[q] # at[r]
    BY <1>2, <1>5 DEF Distinct, Exists
  <2> QED
    BY <1>1, <1>3, <1>5, <2>1
<1>6. \A q \in {"destination", "previous", "failed"} : Shown(q)'
  BY <1>2, <1>3, <1>4, <1>5 DEF Presentable, Shown, Proves, Exists
<1>7. pc' = "begin" => at'["destination"] \in mine' \cup {NoItem}
  BY <1>2, <1>4, <1>5 DEF Presentable
<1>8. pc' \in {"inspect", "preserve", "install"} => Proves("temporary", before)'
  BY <1>2, <1>3 DEF Presentable, Proves, Exists
<1> QED
  BY <1>6, <1>7, <1>8 DEF Presentable

LEMMA PresentableStep == TypeInv /\ Distinct /\ Presentable /\ [Next]_vars => Presentable'
<1> SUFFICES ASSUME TypeInv, Distinct, Presentable, [Next]_vars PROVE Presentable'
  OBVIOUS
<1>0. at \in [Roles -> Item \cup {NoItem}] /\ NoItem \notin Item
  BY ReplacementAssumption DEF TypeInv, Holdings
<1> {"source", "destination", "temporary", "previous", "failed"} = Roles
  BY DEF Roles, Shared, Hidden
<1> USE DEF Cancelled, Rejects, user, call, Goto, Fails, Presentable, Shown, Proves, Exists
<1>1. CASE CaptureSource
  <2>1. /\ at["destination"] \in mine \cup {NoItem}
        /\ at["previous"] = NoItem /\ at["failed"] = NoItem
    BY <1>1 DEF CaptureSource, Distinct, Shared
  <2>2. \A r \in Roles \ {"temporary"} : at'[r] = at[r]
    BY <1>0, <1>1 DEF CaptureSource
  <2>3. UNCHANGED mine /\ pc' \in {"transfer", "returned"}
    BY <1>1 DEF CaptureSource
  <2> QED
    BY <2>1, <2>2, <2>3
<1>2. CASE Transfer
  <2>1. \A r \in Roles \ {"temporary"} : at'[r] = at[r]
    BY <1>0, <1>2 DEF Transfer
  <2>2. UNCHANGED <<mine, before>> /\ pc' \in {"stage", "clean_up"}
    BY <1>2 DEF Transfer
  <2> QED
    BY <2>1, <2>2
<1>3. CASE Stage
  <2>1. \A r \in Roles \ {"temporary"} : at'[r] = at[r]
    BY <1>0, <1>3 DEF Stage
  <2>2. UNCHANGED <<mine, before>> /\ pc' \in {"inspect", "clean_up"}
    BY <1>3 DEF Stage
  <2>3. pc' = "inspect" => Proves("temporary", before)'
    <3>1. at["temporary"] \in Item /\ before \in Item
      BY <1>0, <1>3 DEF Stage, TypeInv, Holdings, Steps, Staging
    <3>2. [at["temporary"] EXCEPT !.time = before.time] \in Item
      BY <3>1 DEF Item
    <3> QED
      BY <1>0, <1>3, <3>1, <3>2 DEF Stage, StagedIsProven
  <2> QED
    BY <2>1, <2>2, <2>3
<1>4. CASE Inspect
  BY <1>4 DEF Inspect
<1>5. CASE Preserve
  <2>1. UNCHANGED <<mine, before>> /\ pc' \notin {"begin", "inspect", "preserve"}
    BY <1>5 DEF Preserve
  <2>2. CASE at' = at
    BY <1>5, <2>1, <2>2 DEF Preserve
  <2>3. CASE Renames("destination", "previous")
    BY <1>0, <1>5, <2>1, <2>3 DEF Preserve, Renames
  <2> QED
    BY <1>5, <2>2, <2>3 DEF Preserve
<1>6. CASE Install
  <2>1. UNCHANGED <<mine, before>> /\ pc' \notin {"begin", "inspect", "preserve"}
    BY <1>6 DEF Install
  <2>2. CASE at' = at
    BY <1>6, <2>1, <2>2 DEF Install
  <2>3. CASE Renames("temporary", "destination")
    BY <1>0, <1>6, <2>1, <2>3 DEF Install, Renames
  <2> QED
    BY <1>6, <2>2, <2>3 DEF Install
<1>7. CASE Examine
  BY <1>7 DEF Examine
<1>8. CASE ProveInstalled
  BY <1>8 DEF ProveInstalled
<1>9. CASE RecaptureInstalled
  BY <1>9 DEF RecaptureInstalled
<1>10. CASE ConfirmSource
  BY <1>10 DEF ConfirmSource
<1>11. CASE Probe
  BY <1>11 DEF Probe
<1>12. CASE Identify
  BY <1>12 DEF Identify
<1>13. CASE SetAside
  <2>1. UNCHANGED <<mine, before>> /\ pc' \notin {"begin", "inspect", "preserve"}
    BY <1>13 DEF SetAside
  <2>2. CASE at' = at
    BY <1>13, <2>1, <2>2 DEF SetAside
  <2>3. CASE Renames("destination", "failed")
    BY <1>0, <1>13, <2>1, <2>3 DEF SetAside, Renames
  <2> QED
    BY <1>13, <2>2, <2>3 DEF SetAside
<1>14. CASE RestorePrevious
  <2>1. UNCHANGED <<mine, before>> /\ pc' \notin {"begin", "inspect", "preserve"}
    BY <1>14 DEF RestorePrevious
  <2>2. CASE at' = at
    BY <1>14, <2>1, <2>2 DEF RestorePrevious
  <2>3. CASE Renames("previous", "destination")
    BY <1>0, <1>14, <2>1, <2>3 DEF RestorePrevious, Renames
  <2> QED
    BY <1>14, <2>2, <2>3 DEF RestorePrevious
<1>15. CASE CleanUp
  <2>1. \A r \in Roles \ {"temporary"} : at'[r] = at[r]
    BY <1>0, <1>15 DEF CleanUp
  <2>2. UNCHANGED <<mine, before>> /\ pc' = "returned"
    BY <1>15 DEF CleanUp
  <2> QED
    BY <2>1, <2>2
<1>16. CASE \E r \in Shared : Edits(r)
  BY <1>16, EditPresentable
<1>17. CASE Cancel
  BY <1>17 DEF Cancel
<1>18. CASE Crash
  BY <1>18 DEF Crash
<1>19. CASE UNCHANGED vars
  BY <1>19 DEF vars
<1> QED
  BY <1>1, <1>2, <1>3, <1>4, <1>5, <1>6, <1>7, <1>8, <1>9, <1>10, <1>11, <1>12, <1>13, <1>14, <1>15, <1>16, <1>17, <1>18, <1>19 DEF Next, Driver

LEMMA PresentableInit == Init => Distinct /\ Presentable
<1> SUFFICES ASSUME Init PROVE Distinct /\ Presentable
  OBVIOUS
<1>1. PICK s \in Bytes, d \in Bytes \cup {NoItem} :
        at = [r \in Roles |->
               CASE r = "source" -> [inode |-> 1, bytes |-> s, time |-> 1]
                 [] r = "destination" /\ d # NoItem -> [inode |-> 2, bytes |-> d, time |-> 2]
                 [] OTHER -> NoItem]
  BY DEF Init
<1>2. /\ \A r \in {"temporary", "previous", "failed"} : at[r] = NoItem
      /\ at["source"] = [inode |-> 1, bytes |-> s, time |-> 1]
      /\ at["destination"] # NoItem =>
           at["destination"] = [inode |-> 2, bytes |-> d, time |-> 2]
  BY <1>1 DEF Roles, Shared, Hidden
<1>3. \A r \in Roles : Exists(r) =>
        \/ r = "source" /\ at[r].inode = 1
        \/ r = "destination" /\ at[r].inode = 2
  BY <1>2 DEF Exists, Roles, Shared, Hidden
<1>4. Stamp = 4
  BY DEF Init, Stamp
<1>5. Distinct
  BY <1>3, <1>4 DEF Distinct, TemporaryInode, Shared
<1>6. at["destination"] \in mine \cup {NoItem}
  BY DEF Init, Shared
<1> QED
  BY <1>2, <1>5, <1>6 DEF Init, Presentable, Shown

(* At no moment, a crash included, does the destination's name show anything *)
(* but a file of the user or a copy whose bytes were proven, for any number  *)
(* of edits and faults.                                                      *)
THEOREM ReplacementShowsNothingUnproven == Spec => []NeverShowsUnproven
<1>1. Presentable => NeverShowsUnproven
  BY DEF Presentable, Shown, NeverShowsUnproven
<1> QED
  BY <1>1, PresentableInit, DistinctStep, PresentableStep, ReplacementTypes, PTL DEF Spec


(***************************************************************************)
(* What a return means.  The call recognizes a file by its inode and time, *)
(* and a change gives a file a time no reading has seen, so a file that    *)
(* still matches an earlier reading is the file that was read (Readings).  *)
(* Places follows the names through the renames and their undoing: what is *)
(* aside is the destination inspected, and a call that undoes itself       *)
(* without an uncertain step has it back in place before it cleans up.     *)
(***************************************************************************)
Preparing == {"begin", "transfer", "stage", "inspect", "preserve"}
Installing ==
  {"install", "examine", "prove", "recapture", "confirm", "identify", "set_aside", "probe"}
Proving == {"prove", "recapture", "confirm", "identify", "set_aside"}
Undoing == {"probe", "identify", "set_aside", "restore", "clean_up"}

Earlier(i, stamp) == i # NoItem => i.time < stamp

Dated ==
  /\ \A r \in Roles : Earlier(at[r], Stamp)
  /\ Earlier(before, Stamp) /\ Earlier(seen, Stamp) /\ Earlier(installed, Stamp)

(* The item at r is the one read, if it still has the time read.            *)
Holds(r, reading) == Exists(r) /\ at[r].time = reading.time => at[r] = reading

Readings ==
  /\ pc = "begin" => before = NoItem
  /\ pc # "begin" /\ before # NoItem => Holds("source", before)
  /\ pc = "preserve" => seen \in Item /\ Holds("destination", seen)
  /\ pc \in Proving => installed \in Item /\ Holds("destination", installed)
  /\ pc \in {"recapture", "set_aside"} /\ at["destination"] = installed =>
       installed.bytes = before.bytes
  /\ pc \in {"prove", "recapture", "confirm"} /\ options.timestamps =>
       installed.time = before.time

ErrorKnown ==
  /\ pc \in Steps \ Undoing => error = "none"
  /\ pc \in Undoing => error # "none"

Clean == error \in {"failed", "cancelled"}

(* A lookup that could not see took the installed copy for nothing.         *)
LeftBehind == blind /\ Proves("destination", before)

FailedIsCopy == Exists("failed") => at["failed"].bytes = before.bytes

Places ==
  /\ at["previous"] \in mine \cup {NoItem}
  /\ pc \in Preparing =>
       /\ ~Exists("previous") /\ ~Exists("failed")
       /\ at["destination"] \in mine \cup {NoItem}
       /\ pc # "preserve" => seen = NoItem
  /\ pc = "begin" => ~Exists("temporary")
  /\ pc \in Installing => at["previous"] = seen /\ ~Exists("failed")
  /\ pc = "restore" /\ Clean =>
       at["previous"] = seen /\ (at["destination"] \in mine \cup {NoItem} \/ LeftBehind) /\ FailedIsCopy
  /\ pc \in {"clean_up", "returned"} /\ Clean =>
       /\ ~Exists("previous") /\ FailedIsCopy
       /\ at["destination"] \in mine \cup {NoItem} \/ (LeftBehind /\ seen = NoItem)
  /\ pc = "returned" /\ Clean /\ Exists("temporary") => options.keep_partial
  /\ pc = "confirm" =>
       late \/ (at["destination"] = installed /\ installed.bytes = before.bytes)
  /\ SuccessIsProven

(* What a rename leaves at each name.                                       *)
LEMMA RenameEffect ==
  ASSUME NEW from \in Roles, NEW to \in Roles,
         at \in [Roles -> Item \cup {NoItem}], Renames(from, to)
  PROVE  /\ at'[to] = at[from] /\ at'[from] = NoItem /\ at[to] = NoItem /\ at[from] # NoItem
         /\ \A r \in Roles \ {from, to} : at'[r] = at[r]
BY DEF Renames, Exists

(* A change by the user of one name: the item is new, and its time is.      *)
LEMMA EditEffect ==
  ASSUME TypeInv, NEW r \in Shared, Edits(r)
  PROVE  /\ at'[r] \in mine' \cup {NoItem}
         /\ at'[r] # NoItem => at'[r].time = Stamp
         /\ \A q \in Roles \ {r} : at'[q] = at[q]
         /\ mine \ {at[r]} \subseteq mine'
         /\ Stamp \in Nat /\ Stamp' = Stamp + 1
         /\ UNCHANGED <<options, before, seen, installed, pc, error, faults>>
         /\ pc \in Steps
<1>1. PICK item \in {NoItem}
                 \cup [inode : {Stamp}, bytes : Bytes, time : {Stamp}]
                 \cup (IF Exists(r)
                         THEN [inode : {at[r].inode}, bytes : Bytes, time : {Stamp}] ELSE {}) :
        /\ at' = [at EXCEPT ![r] = item]
        /\ mine' = (mine \ {at[r]}) \cup ({item} \ {NoItem})
  BY DEF Edits
<1>2. r \in Roles /\ at \in [Roles -> Item \cup {NoItem}] /\ edits \in Nat /\ edits' = edits + 1
  BY ReplacementAssumption DEF Shared, Roles, TypeInv, Holdings, Control, Edits
<1>3. item # NoItem => item.time = Stamp
  BY <1>1
<1>4. Stamp \in Nat /\ Stamp' = Stamp + 1
  BY <1>2 DEF Stamp
<1>5. UNCHANGED <<options, before, seen, installed, pc, error, faults>> /\ pc \in Steps
  BY DEF Edits, call
<1> QED
  BY <1>1, <1>2, <1>3, <1>4, <1>5

LEMMA DatedStep == TypeInv /\ Dated /\ [Next]_vars => Dated'
<1> SUFFICES ASSUME TypeInv, Dated, [Next]_vars PROVE Dated'
  OBVIOUS
<1>0. /\ at \in [Roles -> Item \cup {NoItem}] /\ NoItem \notin Item
      /\ before \in Item \cup {NoItem} /\ seen \in Item \cup {NoItem}
      /\ installed \in Item \cup {NoItem} /\ edits \in Nat
      /\ \A i \in Item : i.time \in Nat
  BY ReplacementAssumption DEF TypeInv, Holdings, Control, Item
<1> {"source", "destination", "temporary", "previous", "failed"} = Roles
  BY DEF Roles, Shared, Hidden
<1>a. UNCHANGED edits =>
        /\ Stamp' = Stamp
        /\ \A i \in {at[r] : r \in Roles} \cup {before, seen, installed} : Earlier(i, Stamp')
  BY DEF Dated, Stamp
<1>b. ASSUME UNCHANGED edits,
             {at'[r] : r \in Roles} \cup {before', seen', installed'} \subseteq
               {at[r] : r \in Roles} \cup {before, seen, installed, NoItem}
      PROVE  Dated'
  <2>1. \A i \in {at'[r] : r \in Roles} \cup {before', seen', installed'} : Earlier(i, Stamp')
    BY <1>a, <1>b DEF Earlier
  <2> QED
    BY <2>1 DEF Dated
<1>c. ASSUME UNCHANGED <<edits, before, seen, installed>>, NEW from \in Roles, NEW to \in Roles,
             at' = at \/ Renames(from, to)
      PROVE  Dated'
  <2>1. \A r \in Roles : at'[r] \in {at[q] : q \in Roles} \cup {NoItem}
    BY <1>0, <1>c, RenameEffect
  <2> QED
    BY <1>b, <1>c, <2>1
<1> USE DEF Cancelled, Rejects, user, call
<1>1. CASE CaptureSource
  <2>1. CASE pc' # "transfer"
    <3>1. UNCHANGED <<at, before, seen, installed, edits>>
      BY <1>1, <2>1 DEF CaptureSource, Goto
    <3> QED
      BY <1>b, <3>1
  <2>2. CASE pc' = "transfer"
    <3> DEFINE empty == [inode |-> TemporaryInode, bytes |-> Wrong, time |-> TemporaryInode]
    <3>1. /\ before' = at["source"] /\ at' = [at EXCEPT !["temporary"] = empty]
          /\ UNCHANGED <<seen, installed, edits>>
      BY <1>1, <2>2 DEF CaptureSource, Fails, Goto
    <3>2. empty.time < Stamp'
      BY <1>0, <3>1 DEF Stamp, TemporaryInode
    <3> HIDE DEF empty
    <3>3. \A r \in Roles \ {"temporary"} : at'[r] = at[r]
      BY <1>0, <3>1
    <3>4. at'["temporary"] = empty
      BY <1>0, <3>1
    <3>5. \A r \in Roles : Earlier(at'[r], Stamp')
      BY <1>a, <3>1, <3>2, <3>3, <3>4 DEF Earlier
    <3>6. Earlier(before', Stamp') /\ Earlier(seen', Stamp') /\ Earlier(installed', Stamp')
      BY <1>a, <3>1
    <3> QED
      BY <3>5, <3>6 DEF Dated
  <2> QED
    BY <2>1, <2>2
<1>2. CASE Transfer \/ Stage
  <2>1. /\ at["temporary"] \in Item /\ before \in Item
        /\ UNCHANGED <<before, seen, installed, edits>>
    BY <1>0, <1>2 DEF Transfer, Stage, TypeInv, Holdings, Staging, Steps, Exists
  <2>2. \A r \in Roles \ {"temporary"} : at'[r] = at[r]
    BY <1>0, <1>2 DEF Transfer, Stage
  <2>3. at'["temporary"].time \in {at["temporary"].time, before.time}
    <3>1. CASE Transfer
      BY <1>0, <2>1, <3>1 DEF Transfer, Item
    <3>2. CASE Stage
      BY <1>0, <2>1, <3>2 DEF Stage, Item
    <3> QED
      BY <1>2, <3>1, <3>2
  <2>4. Earlier(at'["temporary"], Stamp')
    BY <1>0, <1>a, <2>1, <2>3 DEF Earlier
  <2>5. \A r \in Roles : Earlier(at'[r], Stamp')
    BY <1>a, <2>1, <2>2, <2>4
  <2> QED
    BY <1>a, <2>1, <2>5 DEF Dated
<1>3. CASE Inspect \/ Examine \/ ProveInstalled \/ RecaptureInstalled \/ ConfirmSource
             \/ Probe \/ Identify
  <2>1. /\ UNCHANGED <<at, edits, before>>
        /\ seen' \in {seen, at["destination"]} /\ installed' \in {installed, at["destination"]}
    BY <1>3 DEF Inspect, Examine, ProveInstalled, RecaptureInstalled, ConfirmSource, Probe, Identify
  <2> QED
    BY <1>b, <2>1
<1>4. CASE Preserve
  <2>1. /\ UNCHANGED <<edits, before, installed>> /\ seen' \in {seen, NoItem}
        /\ at' = at \/ Renames("destination", "previous")
    BY <1>4 DEF Preserve
  <2>2. \A r \in Roles : at'[r] \in {at[q] : q \in Roles} \cup {NoItem}
    BY <1>0, <2>1, RenameEffect
  <2> QED
    BY <1>b, <2>1, <2>2
<1>5. CASE Install
  BY <1>5, <1>c DEF Install
<1>6. CASE SetAside
  BY <1>6, <1>c DEF SetAside
<1>7. CASE RestorePrevious
  BY <1>7, <1>c DEF RestorePrevious
<1>8. CASE CleanUp
  <2>1. \A r \in Roles : at'[r] \in {at[r], NoItem}
    BY <1>0, <1>8 DEF CleanUp
  <2>2. UNCHANGED <<edits, before, seen, installed>>
    BY <1>8 DEF CleanUp
  <2> QED
    BY <1>b, <2>1, <2>2
<1>9. CASE \E r \in Shared : Edits(r)
  <2>1. PICK r \in Shared : Edits(r)
    BY <1>9
  <2>2. /\ at'[r] # NoItem => at'[r].time = Stamp
        /\ \A q \in Roles \ {r} : at'[q] = at[q]
        /\ Stamp \in Nat /\ Stamp' = Stamp + 1
        /\ UNCHANGED <<before, seen, installed>>
    BY <2>1, EditEffect
  <2>3. ASSUME NEW i \in Item \cup {NoItem}, Earlier(i, Stamp) PROVE Earlier(i, Stamp')
    BY <1>0, <2>2, <2>3 DEF Earlier
  <2>4. \A q \in Roles \ {r} : Earlier(at'[q], Stamp')
    BY <1>0, <2>2, <2>3 DEF Dated
  <2>5. Earlier(at'[r], Stamp')
    BY <2>2 DEF Earlier
  <2>6. Earlier(before, Stamp') /\ Earlier(seen, Stamp') /\ Earlier(installed, Stamp')
    BY <1>0, <2>3 DEF Dated
  <2> QED
    BY <2>2, <2>4, <2>5, <2>6 DEF Dated
<1>10. CASE Cancel \/ Crash \/ UNCHANGED vars
  BY <1>10, <1>b DEF Cancel, Crash, vars
<1> QED
  BY <1>1, <1>2, <1>3, <1>4, <1>5, <1>6, <1>7, <1>8, <1>9, <1>10 DEF Next, Driver

LEMMA ErrorKnownStep == Control /\ ErrorKnown /\ [Next]_vars => ErrorKnown'
<1> SUFFICES ASSUME Control, ErrorKnown, [Next]_vars PROVE ErrorKnown'
  OBVIOUS
<1> USE DEF ErrorKnown, Steps, Undoing, Goto, Fails, Cancelled, Rejects
<1>1. CASE CaptureSource
  BY <1>1 DEF CaptureSource
<1>2. CASE Transfer
  BY <1>2 DEF Transfer
<1>3. CASE Stage
  BY <1>3 DEF Stage
<1>4. CASE Inspect
  BY <1>4 DEF Inspect
<1>5. CASE Preserve
  BY <1>5 DEF Preserve
<1>6. CASE Install
  BY <1>6 DEF Install
<1>7. CASE Examine
  BY <1>7 DEF Examine
<1>8. CASE ProveInstalled
  BY <1>8 DEF ProveInstalled
<1>9. CASE RecaptureInstalled
  BY <1>9 DEF RecaptureInstalled
<1>10. CASE ConfirmSource
  BY <1>10 DEF ConfirmSource
<1>11. CASE Probe
  BY <1>11 DEF Probe
<1>12. CASE Identify
  BY <1>12 DEF Identify
<1>13. CASE SetAside
  BY <1>13 DEF SetAside
<1>14. CASE RestorePrevious
  BY <1>14 DEF RestorePrevious
<1>15. CASE CleanUp
  BY <1>15 DEF CleanUp
<1>16. CASE \E r \in Shared : Edits(r)
  BY <1>16 DEF Edits
<1>17. CASE Cancel
  BY <1>17 DEF Cancel
<1>18. CASE Crash
  BY <1>18 DEF Crash
<1>19. CASE UNCHANGED vars
  BY <1>19 DEF vars
<1> QED
  BY <1>1, <1>2, <1>3, <1>4, <1>5, <1>6, <1>7, <1>8, <1>9, <1>10, <1>11, <1>12, <1>13, <1>14, <1>15, <1>16, <1>17, <1>18, <1>19 DEF Next, Driver

(* Two files with the same inode and time as a reading are the file read.   *)
LEMMA SameIsHeld ==
  ASSUME NEW r \in Roles, NEW reading, Holds(r, reading), Exists(r), SameFile(at[r], reading)
  PROVE  at[r] = reading
BY DEF Holds, SameFile

(* A change by the user leaves nothing that passes for an earlier reading.  *)
LEMMA EditHoldsReading ==
  ASSUME TypeInv, Dated, NEW r \in Shared, Edits(r), NEW q \in Shared,
         NEW reading \in {before, seen, installed}, reading \in Item,
         Holds(q, reading)
  PROVE  /\ at'[q] # NoItem /\ at'[q].time = reading.time => at'[q] = reading
         /\ at'[q] = reading => at[q] = reading
<1>1. /\ at'[r] # NoItem => at'[r].time = Stamp
      /\ \A p \in Roles \ {r} : at'[p] = at[p]
      /\ Stamp \in Nat
  BY EditEffect
<1>2. reading.time \in Nat /\ reading.time < Stamp
  BY ReplacementAssumption DEF Dated, Earlier, Item
<1>3. q \in Roles
  BY DEF Shared, Roles
<1> QED
  BY <1>1, <1>2, <1>3, ReplacementAssumption DEF Holds, Exists

LEMMA ReadingsStep == TypeInv /\ Dated /\ Readings /\ [Next]_vars => Readings'
<1> SUFFICES ASSUME TypeInv, Dated, Readings, [Next]_vars PROVE Readings'
  OBVIOUS
<1>0. /\ at \in [Roles -> Item \cup {NoItem}] /\ NoItem \notin Item
      /\ before \in Item \cup {NoItem}
      /\ pc \in Steps \ {"begin"} => before \in Item
  BY ReplacementAssumption DEF TypeInv, Holdings
<1> {"source", "destination", "temporary", "previous", "failed"} = Roles
  BY DEF Roles, Shared, Hidden
<1> USE DEF Cancelled, Rejects, user, call, Goto, Fails
<1>1. CASE CaptureSource
  <2>1. pc' \in {"transfer", "returned"}
    BY <1>1 DEF CaptureSource
  <2>2. before' # NoItem => Holds("source", before)'
    <3>1. CASE pc' # "transfer"
      BY <1>1, <3>1 DEF CaptureSource, Readings
    <3>2. CASE pc' = "transfer"
      BY <1>0, <1>1, <3>2 DEF CaptureSource, Holds, Exists
    <3> QED
      BY <3>1, <3>2
  <2> QED
    BY <2>1, <2>2 DEF Readings, Proving
<1>2. CASE Transfer \/ Stage \/ Probe \/ CleanUp
  <2>1. /\ UNCHANGED <<before, seen, installed, options>> /\ pc # "begin"
        /\ pc' \notin Proving \cup {"preserve", "begin"}
    BY <1>2 DEF Transfer, Stage, Probe, CleanUp, Proving
  <2>2. at'["source"] = at["source"]
    BY <1>0, <1>2 DEF Transfer, Stage, Probe, CleanUp
  <2> QED
    BY <2>1, <2>2 DEF Readings, Holds, Exists, Proving
<1>3. CASE Install \/ SetAside
  <2>1. /\ UNCHANGED <<before, seen, installed, options>> /\ pc # "begin"
        /\ pc' \notin Proving \cup {"preserve", "begin"}
        /\ at' = at \/ Renames("temporary", "destination") \/ Renames("destination", "failed")
    BY <1>3 DEF Install, SetAside, Proving
  <2>2. at'["source"] = at["source"]
    BY <1>0, <2>1, RenameEffect
  <2> QED
    BY <2>1, <2>2 DEF Readings, Holds, Exists, Proving
<1>4. CASE RestorePrevious
  <2>1. /\ UNCHANGED <<before, seen, installed, options>> /\ pc # "begin"
        /\ pc' \notin Proving \cup {"preserve", "begin"}
        /\ at' = at \/ Renames("previous", "destination")
    BY <1>4 DEF RestorePrevious, Proving
  <2>2. at'["source"] = at["source"]
    BY <1>0, <2>1, RenameEffect
  <2> QED
    BY <2>1, <2>2 DEF Readings, Holds, Exists, Proving
<1>5. CASE Preserve
  <2>1. /\ UNCHANGED <<before, installed, options>> /\ pc # "begin"
        /\ pc' \notin Proving \cup {"preserve", "begin"}
        /\ at' = at \/ Renames("destination", "previous")
    BY <1>5 DEF Preserve, Proving
  <2>2. at'["source"] = at["source"]
    BY <1>0, <2>1, RenameEffect
  <2> QED
    BY <2>1, <2>2 DEF Readings, Holds, Exists, Proving
<1>6. CASE Inspect
  <2>1. /\ UNCHANGED <<at, before, installed, options>> /\ pc # "begin"
        /\ pc' \notin Proving \cup {"begin"}
        /\ pc' = "preserve" => seen' = at["destination"] /\ Exists("destination")
    BY <1>6 DEF Inspect, Proving
  <2> QED
    BY <1>0, <2>1 DEF Readings, Holds, Exists, Proving
<1>7. CASE Examine
  <2>1. /\ UNCHANGED <<at, before, seen, options>> /\ pc # "begin"
        /\ pc' \in {"probe", "identify", "prove"}
        /\ pc' # "probe" => installed' = at["destination"] /\ Exists("destination")
        /\ pc' = "prove" /\ options.timestamps => at["destination"].time = before.time
    BY <1>7 DEF Examine
  <2> QED
    BY <1>0, <2>1 DEF Readings, Holds, Exists, Proving
<1>8. CASE ProveInstalled
  <2>1. /\ UNCHANGED <<at, before, seen, installed, options>> /\ pc = "prove"
        /\ pc' \in {"identify", "recapture"}
        /\ pc' = "recapture" => at["destination"].bytes = before.bytes
    BY <1>8 DEF ProveInstalled, Proves
  <2> QED
    BY <1>0, <2>1 DEF Readings, Holds, Exists, Proving
<1>9. CASE RecaptureInstalled
  <2>1. /\ UNCHANGED <<at, before, seen, installed, options>> /\ pc = "recapture"
        /\ pc' \in {"identify", "confirm"}
    BY <1>9 DEF RecaptureInstalled
  <2> QED
    BY <1>0, <2>1 DEF Readings, Holds, Exists, Proving
<1>10. CASE ConfirmSource
  <2>1. /\ UNCHANGED <<at, before, seen, installed, options>> /\ pc = "confirm"
        /\ pc' \in {"identify", "returned"}
    BY <1>10 DEF ConfirmSource
  <2> QED
    BY <1>0, <2>1 DEF Readings, Holds, Exists, Proving
<1>11. CASE Identify
  <2>1. /\ UNCHANGED <<at, before, seen, installed, options>> /\ pc = "identify"
        /\ pc' \in {"clean_up", "set_aside"}
        /\ pc' = "set_aside" => at["destination"].bytes = before.bytes
    BY <1>11 DEF Identify, Proves
  <2> QED
    BY <1>0, <2>1 DEF Readings, Holds, Exists, Proving
<1>12. CASE \E r \in Shared : Edits(r)
  <2>1. PICK r \in Shared : Edits(r)
    BY <1>12
  <2>2. UNCHANGED <<options, before, seen, installed, pc>>
    BY <2>1, EditEffect
  <2>3. ASSUME before # NoItem, pc # "begin" PROVE Holds("source", before)'
    <3>1. before \in Item /\ Holds("source", before) /\ "source" \in Shared
      BY <1>0, <2>3 DEF Readings, Shared
    <3>2. at'["source"] # NoItem /\ at'["source"].time = before.time => at'["source"] = before
      BY <2>1, <3>1, EditHoldsReading
    <3> QED
      BY <2>2, <3>2 DEF Holds, Exists
  <2>4. ASSUME pc = "preserve" PROVE seen \in Item /\ Holds("destination", seen)'
    <3>1. seen \in Item /\ Holds("destination", seen) /\ "destination" \in Shared
      BY <2>4 DEF Readings, Shared
    <3>2. at'["destination"] # NoItem /\ at'["destination"].time = seen.time
            => at'["destination"] = seen
      BY <2>1, <3>1, EditHoldsReading
    <3> QED
      BY <2>2, <3>1, <3>2 DEF Holds, Exists
  <2>5. ASSUME pc \in Proving
        PROVE  /\ installed \in Item /\ Holds("destination", installed)'
               /\ at'["destination"] = installed => at["destination"] = installed
    <3>1. installed \in Item /\ Holds("destination", installed) /\ "destination" \in Shared
      BY <2>5 DEF Readings, Shared
    <3>2. /\ at'["destination"] # NoItem /\ at'["destination"].time = installed.time
               => at'["destination"] = installed
          /\ at'["destination"] = installed => at["destination"] = installed
      BY <2>1, <3>1, EditHoldsReading
    <3> QED
      BY <2>2, <3>1, <3>2 DEF Holds, Exists
  <2>6. \A x \in {"recapture", "set_aside"} : x \in Proving
    BY DEF Proving
  <2> QED
    BY <2>2, <2>3, <2>4, <2>5, <2>6 DEF Readings
<1>13. CASE Cancel \/ UNCHANGED vars
  BY <1>13 DEF Cancel, vars, Readings, Holds, Exists
<1>14. CASE Crash
  BY <1>14 DEF Crash, Readings, Holds, Exists, Proving
<1> QED
  BY <1>1, <1>2, <1>3, <1>4, <1>5, <1>6, <1>7, <1>8, <1>9, <1>10, <1>11, <1>12, <1>13, <1>14
     DEF Next, Driver

(* A change by the user takes away no file from another name.               *)
LEMMA EditPlaces ==
  ASSUME TypeInv, Distinct, Places, NEW r \in Shared, Edits(r)
  PROVE  Places'
<1>1. /\ at'[r] \in mine' \cup {NoItem}
      /\ \A q \in Roles \ {r} : at'[q] = at[q]
      /\ mine \ {at[r]} \subseteq mine'
      /\ UNCHANGED <<options, before, seen, installed, pc, error, faults>>
      /\ pc \in Steps
  BY EditEffect
<1>2. /\ {"source", "destination"} = Shared /\ r \in Roles
      /\ {"destination", "previous", "temporary", "failed"} \subseteq Roles
  BY DEF Roles, Shared, Hidden
<1>3. ASSUME NEW q \in Roles, at[q] \in mine \cup {NoItem} PROVE at'[q] \in mine' \cup {NoItem}
  <2>1. CASE q = r
    BY <1>1, <2>1
  <2>2. CASE q # r
    <3>1. at[q] = NoItem \/ at[q] # at[r]
      BY <1>2, <2>2 DEF Distinct, Exists
    <3> QED
      BY <1>1, <1>3, <2>2, <3>1
  <2> QED
    BY <2>1, <2>2
<1>4. /\ at'["previous"] = at["previous"] /\ at'["failed"] = at["failed"]
      /\ at'["temporary"] = at["temporary"]
  BY <1>1, <1>2
<1>5. /\ at["previous"] \in mine \cup {NoItem} => at'["previous"] \in mine' \cup {NoItem}
      /\ at["destination"] \in mine \cup {NoItem} => at'["destination"] \in mine' \cup {NoItem}
  BY <1>2, <1>3
<1>6. pc = "confirm" => late' \/ at'["destination"] = at["destination"]
  BY <1>1, <1>2 DEF Edits
<1>7. late => late'
  BY DEF Edits
<1>9. LeftBehind => LeftBehind' \/ at'["destination"] \in mine' \cup {NoItem}
  <2>1. UNCHANGED blind
    BY DEF Edits, call
  <2> QED
    BY <1>1, <1>2, <2>1 DEF LeftBehind, Proves, Exists
<1>8. pc # "returned"
  BY <1>1 DEF Steps
<1> QED
  BY <1>1, <1>4, <1>5, <1>6, <1>7, <1>8, <1>9
     DEF Places, Preparing, Installing, Clean, FailedIsCopy, Exists, SuccessIsProven

LEMMA PlacesStep ==
  /\ TypeInv /\ Distinct /\ NeverShowsUnproven /\ Readings /\ ErrorKnown /\ Places
  /\ [Next]_vars
  => Places'
<1> SUFFICES ASSUME TypeInv, Distinct, NeverShowsUnproven, Readings, ErrorKnown, Places, [Next]_vars
             PROVE  Places'
  OBVIOUS
<1>0. /\ at \in [Roles -> Item \cup {NoItem}] /\ NoItem \notin Item
      /\ pc \in Steps \ {"begin"} => before \in Item
  BY ReplacementAssumption DEF TypeInv, Holdings
<1> {"source", "destination", "temporary", "previous", "failed"} = Roles
  BY DEF Roles, Shared, Hidden
<1>a. \A from, to \in Roles : Renames(from, to) => at' # at
  BY <1>0, RenameEffect
<1> USE DEF Cancelled, Rejects, user, call, Goto, Fails, Exists
<1>1. CASE CaptureSource
  <2>1. /\ pc = "begin" /\ UNCHANGED <<options, seen, installed, user>>
        /\ pc' \in {"transfer", "returned"}
        /\ pc' = "returned" => at' = at /\ error' # "none"
    BY <1>1 DEF CaptureSource
  <2>2. \A r \in Roles \ {"temporary"} : at'[r] = at[r]
    BY <1>0, <1>1 DEF CaptureSource
  <2> QED
    BY <2>1, <2>2 DEF Places, Preparing, Installing, FailedIsCopy, SuccessIsProven
<1>2. CASE Transfer \/ Stage \/ Inspect
  <2>1. /\ pc \in {"transfer", "stage", "inspect"} /\ UNCHANGED <<options, before, installed, user>>
        /\ pc' \in {"stage", "inspect", "preserve", "install", "clean_up"}
        /\ pc' # "preserve" => seen' = NoItem
    BY <1>2 DEF Transfer, Stage, Inspect, Places, Preparing
  <2>2. \A r \in Roles \ {"temporary"} : at'[r] = at[r]
    BY <1>0, <1>2 DEF Transfer, Stage, Inspect
  <2> QED
    BY <2>1, <2>2 DEF Places, Preparing, Installing, FailedIsCopy, SuccessIsProven
<1>3. CASE Preserve
  <2>1. pc = "preserve" /\ UNCHANGED <<options, before, installed, user>>
    BY <1>3 DEF Preserve
  <2>2. CASE at' = at
    <3>1. pc' = "clean_up" /\ seen' = NoItem /\ error' = "failed"
      BY <1>3, <1>a, <2>2 DEF Preserve
    <3> QED
      BY <2>1, <2>2, <3>1
         DEF Places, Preparing, Installing, FailedIsCopy, SuccessIsProven
  <2>3. CASE at' # at
    <3>1. /\ Renames("destination", "previous") /\ seen' = seen
          /\ pc' \in {"install", "restore"}
          /\ pc' = "install" => SameFile(at["destination"], seen)
          /\ pc' = "restore" => error' = "uncertain"
      BY <1>3, <2>3 DEF Preserve
    <3>2. /\ at'["previous"] = at["destination"] /\ at'["destination"] = NoItem
          /\ at'["failed"] = at["failed"] /\ at["destination"] # NoItem
      BY <1>0, <3>1, RenameEffect
    <3>3. pc' = "install" => at["destination"] = seen
      BY <2>1, <3>1, <3>2, SameIsHeld DEF Readings
    <3> QED
      BY <2>1, <3>1, <3>2, <3>3
         DEF Places, Preparing, Installing, FailedIsCopy, Clean, SuccessIsProven
  <2> QED
    BY <2>2, <2>3
<1>4. CASE Install
  <2>1. /\ pc = "install" /\ UNCHANGED <<options, before, seen, installed, blind, user>>
        /\ pc' \in {"probe", "examine"}
        /\ at' = at \/ Renames("temporary", "destination")
    BY <1>4 DEF Install
  <2>2. at'["previous"] = at["previous"] /\ at'["failed"] = at["failed"]
    BY <1>0, <2>1, RenameEffect
  <2> QED
    BY <2>1, <2>2 DEF Places, Preparing, Installing, FailedIsCopy, SuccessIsProven
<1>5. CASE Examine \/ ProveInstalled
  <2>1. /\ pc \in {"examine", "prove"} /\ UNCHANGED <<at, options, before, seen, user>>
        /\ pc' \in {"probe", "identify", "prove", "recapture"}
    BY <1>5 DEF Examine, ProveInstalled
  <2> QED
    BY <2>1 DEF Places, Preparing, Installing, FailedIsCopy, SuccessIsProven
<1>6. CASE RecaptureInstalled
  <2>1. /\ pc = "recapture" /\ UNCHANGED <<at, options, before, seen, installed, user>>
        /\ pc' \in {"identify", "confirm"}
        /\ pc' = "confirm" => Exists("destination") /\ SameFile(at["destination"], installed)
    BY <1>6 DEF RecaptureInstalled
  <2>2. pc' = "confirm" => at["destination"] = installed
    BY <2>1, SameIsHeld DEF Readings, Proving
  <2>3. pc' = "confirm" => installed.bytes = before.bytes
    BY <2>1, <2>2 DEF Readings
  <2> QED
    BY <2>1, <2>2, <2>3 DEF Places, Preparing, Installing, FailedIsCopy, SuccessIsProven
<1>7. CASE ConfirmSource
  <2>1. /\ pc = "confirm" /\ UNCHANGED <<at, options, before, seen, installed, user>>
        /\ \/ pc' = "identify"
           \/ pc' = "returned" /\ UNCHANGED error /\ Matches("source", before)
    BY <1>7 DEF ConfirmSource
  <2>2. CASE pc' = "identify"
    BY <2>1, <2>2 DEF Places, Preparing, Installing, FailedIsCopy, SuccessIsProven
  <2>3. CASE pc' = "returned"
    <3>1. error' = "none"
      BY <2>1, <2>3 DEF ErrorKnown, Steps, Undoing
    <3>2. at["source"] = before
      BY <1>0, <2>1, <2>3, SameIsHeld DEF Readings, Matches, Steps
    <3>3. /\ late \/ (at["destination"] = installed /\ installed.bytes = before.bytes)
          /\ at["previous"] = seen /\ at["previous"] \in mine \cup {NoItem}
      BY <2>1 DEF Places, Installing
    <3>4. installed \in Item
      BY <2>1 DEF Readings, Proving
    <3>5. options.timestamps => installed.time = before.time
      BY <2>1 DEF Readings
    <3>6. SuccessIsProven'
      BY <1>0, <2>1, <3>2, <3>3, <3>4, <3>5 DEF SuccessIsProven, Proves, Matches, SameFile
    <3> QED
      BY <2>1, <2>3, <3>1, <3>3, <3>6 DEF Places, Preparing, Installing, Clean
  <2> QED
    BY <2>1, <2>2, <2>3
<1>8. CASE Probe
  <2>1. /\ pc = "probe" /\ UNCHANGED <<at, options, before, seen, installed, user>>
        /\ \/ pc' = "clean_up" /\ error' = "uncertain"
           \/ pc' = "restore" /\ ~Exists("destination") /\ UNCHANGED error
           \/ pc' = "restore" /\ blind' /\ UNCHANGED error
    BY <1>8 DEF Probe
  <2>2. CASE pc' = "clean_up" /\ error' = "uncertain"
    BY <2>1, <2>2 DEF Places, Preparing, Installing, FailedIsCopy, Clean, SuccessIsProven
  <2>3. CASE pc' = "restore"
    <3>1. at'["destination"] \in mine' \cup {NoItem} \/ LeftBehind'
      BY <2>1, <2>3 DEF NeverShowsUnproven, LeftBehind, Proves
    <3>2. at["previous"] = seen /\ ~Exists("failed")
      BY <2>1 DEF Places, Installing
    <3> QED
      BY <2>1, <2>3, <3>1, <3>2 DEF Places, Preparing, Installing, FailedIsCopy, SuccessIsProven
  <2> QED
    BY <2>1, <2>2, <2>3
<1>16. CASE Identify
  <2>1. /\ pc = "identify" /\ UNCHANGED <<at, options, before, seen, installed, user>>
        /\ \/ pc' = "clean_up" /\ error' = "uncertain"
           \/ pc' = "set_aside" /\ UNCHANGED error
    BY <1>16 DEF Identify
  <2> QED
    BY <2>1 DEF Places, Preparing, Installing, FailedIsCopy, Clean, SuccessIsProven
<1>9. CASE SetAside
  <2>1. /\ pc = "set_aside" /\ UNCHANGED <<options, before, seen, installed, blind, user>>
    BY <1>9 DEF SetAside
  <2>2. CASE pc' = "clean_up"
    <3>1. error' = "uncertain" /\ (at' = at \/ Renames("destination", "failed"))
      BY <1>9, <2>2 DEF SetAside
    <3>2. at'["previous"] = at["previous"]
      BY <1>0, <3>1, RenameEffect
    <3> QED
      BY <2>1, <2>2, <3>1, <3>2 DEF Places, Preparing, Installing, Clean, SuccessIsProven
  <2>3. CASE pc' # "clean_up"
    <3>1. /\ pc' = "restore" /\ UNCHANGED error /\ Renames("destination", "failed")
          /\ SameFile(at["destination"], installed)
      BY <1>9, <2>3 DEF SetAside
    <3>2. /\ at'["previous"] = at["previous"] /\ at'["destination"] = NoItem
          /\ at'["failed"] = at["destination"] /\ at["destination"] # NoItem
      BY <1>0, <3>1, RenameEffect
    <3>3. at["destination"] = installed
      BY <2>1, <3>1, <3>2, SameIsHeld DEF Readings, Proving
    <3>4. at["destination"].bytes = before.bytes
      BY <2>1, <3>3 DEF Readings
    <3> QED
      BY <2>1, <3>1, <3>2, <3>4
         DEF Places, Preparing, Installing, FailedIsCopy, SuccessIsProven
  <2> QED
    BY <2>2, <2>3
<1>10. CASE RestorePrevious
  <2>1. /\ pc = "restore" /\ UNCHANGED <<options, before, seen, installed, blind, user>>
        /\ pc' = "clean_up"
    BY <1>10 DEF RestorePrevious
  <2>2. CASE at' = at
    <3>1. error' = "uncertain" \/ (seen = NoItem /\ UNCHANGED error)
      BY <1>10, <1>a, <2>2 DEF RestorePrevious
    <3> QED
      BY <2>1, <2>2, <3>1
         DEF Places, Preparing, Installing, FailedIsCopy, LeftBehind, Proves, Clean, SuccessIsProven
  <2>3. CASE at' # at
    <3>1. Renames("previous", "destination") /\ UNCHANGED error
      BY <1>10, <2>3 DEF RestorePrevious
    <3>2. /\ at'["destination"] = at["previous"] /\ at'["previous"] = NoItem
          /\ at'["failed"] = at["failed"]
      BY <1>0, <3>1, RenameEffect
    <3> QED
      BY <2>1, <3>1, <3>2
         DEF Places, Preparing, Installing, FailedIsCopy, LeftBehind, Proves, Clean, SuccessIsProven
  <2> QED
    BY <2>2, <2>3
<1>11. CASE CleanUp
  <2>1. /\ pc = "clean_up" /\ UNCHANGED <<options, before, seen, installed, blind, user>>
        /\ pc' = "returned"
        /\ error' = "uncertain" \/ UNCHANGED error
        /\ error' = "uncertain" \/ options.keep_partial \/ at' = [at EXCEPT !["temporary"] = NoItem]
    BY <1>11 DEF CleanUp
  <2>2. \A r \in Roles \ {"temporary"} : at'[r] = at[r]
    BY <1>0, <1>11 DEF CleanUp
  <2>3. error # "none"
    BY <2>1 DEF ErrorKnown, Undoing
  <2>4. error' = "uncertain" \/ options.keep_partial \/ at'["temporary"] = NoItem
    BY <1>0, <2>1
  <2> QED
    BY <2>1, <2>2, <2>3, <2>4
       DEF Places, Preparing, Installing, FailedIsCopy, LeftBehind, Proves, Clean, SuccessIsProven
<1>12. CASE \E r \in Shared : Edits(r)
  BY <1>12, EditPlaces
<1>13. CASE Cancel
  BY <1>13 DEF Cancel, Places, FailedIsCopy, LeftBehind, Clean, SuccessIsProven, Proves, Matches
<1>14. CASE Crash
  <2>1. /\ pc' = "crashed" /\ UNCHANGED <<at, options, before, seen, installed, user>>
    BY <1>14 DEF Crash
  <2> QED
    BY <2>1 DEF Places, Preparing, Installing, SuccessIsProven
<1>15. CASE UNCHANGED vars
  BY <1>15 DEF vars, Places, FailedIsCopy, LeftBehind, Clean, SuccessIsProven, Proves, Matches
<1> QED
  BY <1>1, <1>2, <1>3, <1>4, <1>5, <1>6, <1>7, <1>8, <1>9, <1>10, <1>11, <1>12, <1>13, <1>14,
     <1>15, <1>16 DEF Next, Driver

LEMMA ReturnInit == Init => Dated /\ Readings /\ ErrorKnown /\ Places
<1> SUFFICES ASSUME Init PROVE Dated /\ Readings /\ ErrorKnown /\ Places
  OBVIOUS
<1>1. PICK s \in Bytes, d \in Bytes \cup {NoItem} :
        at = [r \in Roles |->
               CASE r = "source" -> [inode |-> 1, bytes |-> s, time |-> 1]
                 [] r = "destination" /\ d # NoItem -> [inode |-> 2, bytes |-> d, time |-> 2]
                 [] OTHER -> NoItem]
  BY DEF Init
<1>2. /\ \A r \in {"temporary", "previous", "failed"} : at[r] = NoItem
      /\ at["source"] = [inode |-> 1, bytes |-> s, time |-> 1]
      /\ at["destination"] # NoItem =>
           at["destination"] = [inode |-> 2, bytes |-> d, time |-> 2]
  BY <1>1 DEF Roles, Shared, Hidden
<1>3. /\ pc = "begin" /\ error = "none"
      /\ before = NoItem /\ seen = NoItem /\ installed = NoItem /\ edits = 0
      /\ at["destination"] \in mine \cup {NoItem}
  BY DEF Init, Shared
<1>4. Dated
  BY <1>2, <1>3 DEF Dated, Earlier, Stamp, Roles, Shared, Hidden
<1> QED
  BY <1>2, <1>3, <1>4
     DEF Readings, ErrorKnown, Places, Proving, Undoing, Preparing, Installing, Exists,
         SuccessIsProven

LEMMA ReplacementReturns == Spec => [](Readings /\ Places)
<1>1. TypeInv => Control
  BY DEF TypeInv
<1> QED
  BY <1>1, ReturnInit, PresentableInit, DatedStep, ErrorKnownStep, ReadingsStep, PlacesStep,
     DistinctStep, ReplacementTypes, ReplacementShowsNothingUnproven, PTL DEF Spec

(* A VerifiedReplacement is returned only over a source that is still what  *)
(* was captured, with its bytes shown and the inspected destination aside,  *)
(* for any number of edits and faults.                                      *)
THEOREM ReplacementSuccessIsProven == Spec => []SuccessIsProven
<1>1. Places => SuccessIsProven
  BY DEF Places
<1> QED
  BY <1>1, ReplacementReturns, PTL

(* Any error but RecoveryUncertain leaves nothing to recover: what the user *)
(* has is where the user left it, and nothing of the call is left behind,   *)
(* but the proven copy where nothing was before and a failed lookup could   *)
(* not see it.                                                              *)
THEOREM ReplacementCleanFailure == Spec => []CleanFailureRestores
<1>1. Kept /\ Places => CleanFailureRestores
  <2> SUFFICES ASSUME Kept, Places, pc = "returned", error \in {"failed", "cancelled"}
               PROVE  /\ ~Exists("previous")
                      /\ \/ at["destination"] \in mine \cup {NoItem}
                         \/ blind /\ seen = NoItem /\ Proves("destination", before)
                      /\ Exists("temporary") => options.keep_partial
                      /\ \A i \in mine :
                           \/ \E r \in Shared : at[r] = i
                           \/ at["failed"] = i /\ i.bytes = before.bytes
    BY DEF CleanFailureRestores
  <2>1. /\ ~Exists("previous") /\ FailedIsCopy
        /\ at["destination"] \in mine \cup {NoItem} \/ (LeftBehind /\ seen = NoItem)
        /\ Exists("temporary") => options.keep_partial
    BY DEF Places, Clean
  <2>2. ASSUME NEW i \in mine
        PROVE  (\E r \in Shared : at[r] = i) \/ (at["failed"] = i /\ i.bytes = before.bytes)
    <3>1. i # NoItem
      BY DEF Kept
    <3>2. PICK r \in Roles \ {"temporary"} : at[r] = i
      BY DEF Kept, NoUserItemLost
    <3> QED
      BY <2>1, <3>1, <3>2 DEF Roles, Shared, Hidden, Exists, FailedIsCopy
  <2> QED
    BY <2>1, <2>2 DEF LeftBehind
<1>2. Init => Kept
  BY KeptInit
<1> QED
  BY <1>1, <1>2, KeptStep, ReplacementReturns, ReplacementTypes, PTL DEF Spec
=============================================================================
