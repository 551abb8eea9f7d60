------------------------ MODULE SourceRemovalProofs ------------------------
(***************************************************************************)
(* The properties of SourceRemoval, for any number of changes by other     *)
(* programs and of failing calls.  They look at the end of the call; the   *)
(* invariant says what holds at each of its steps: which name still points *)
(* to the proven file, and who may have written what is about to go.       *)
(***************************************************************************)
EXTENDS SourceRemoval, TLAPS

(* Inodes that exist: the proven one, the recovery copy, and one for each   *)
(* change; the last kind and the first belong to others.                    *)
TypeInv ==
  /\ RemovalTypeOK
  /\ at \in [Names -> 1..(edits + 2) \cup {None}]
  /\ mine \subseteq 1..(edits + 2) /\ RecoveryCopy \notin mine
  /\ latest \in 1..(edits + 2) \cup {None}

BeforeRemoval == {"check", "link", "copy", "install", "match", "unlink", "rename"}
Forward == BeforeRemoval \cup {"absent", "verify", "record", "clean"}

(* An error is set only on the way out, and drop_guard is the way out of a  *)
(* plain failure; the row is written in the last two steps.                 *)
ErrorInv ==
  /\ pc \in Forward => error = "none"
  /\ pc = "drop_guard" => error = "failed"
  /\ pc \in {"relink", "restore", "rematch"} => error = "uncertain"
  /\ pc \in Steps => (recorded <=> pc = "clean")
  /\ pc \in {"rename", "verify", "restore", "rematch"} => option.method = "move"
  /\ pc \in {"copy", "install"} => option.method = "copy"
  /\ pc \in {"match", "unlink", "relink"} => option.method # "move"

(* From its creation to the end of the call the guard exists, and it is the *)
(* proven file unless that was deleted or replaced before.                  *)
GuardInv ==
  /\ pc \in {"check", "link"} => at["guard"] = None
  /\ pc \in Steps \ {"check", "link"} =>
       at["guard"] # None /\ (Proven \in mine => at["guard"] = Proven)

(* Until the program takes the source away, the source's name shows what    *)
(* others left there: the proven file, if they left it alone.               *)
SourceInv ==
  /\ pc \in BeforeRemoval \cup {"drop_guard"} => (Proven \in mine => at["source"] = Proven)
  /\ pc \in BeforeRemoval => at["source"] = latest
  /\ pc = "drop_guard" /\ option.method # "move" => at["source"] = latest
  /\ option.method = "move" /\ latest # None => latest \in {at["source"], at["target"]}

(* Behind the match of a permanent or copying removal the file that goes is *)
(* the proven one, unless a change came later.                              *)
MatchedInv ==
  option.method # "move" /\ pc \in LastLook =>
    \/ late
    \/ file[Proven] = ProvenFile /\ (pc = "unlink" => at["source"] = Proven)

(* A moved file is at the recovery target, and a copy there is verified.    *)
TargetInv ==
  /\ option.method = "move" /\ pc \in {"absent", "verify", "record", "clean", "restore", "rematch"} =>
       (Proven \in mine => at["target"] = Proven)
  /\ option.method = "copy" /\ pc \in {"match"} \cup LastLook =>
       at["target"] = RecoveryCopy /\ RecoveryMatches(RecoveryCopy)
  /\ option.method = "move" /\ pc \in {"record", "clean"} =>
       late \/ (at["target"] # None /\ RecoveryMatches(at["target"]))

(* A file of somebody else is never kept by the guard alone.                *)
OthersKept ==
  \A i \in mine \ {Proven} : at["source"] = i \/ at["target"] = i \/ late

Kept ==
  LostOnlyProven /\ GuardOutlivesDoubt /\ RecoveryHoldsProven /\ CleanFailureKeepsSource

IInv ==
  /\ TypeInv /\ ErrorInv /\ GuardInv /\ SourceInv /\ MatchedInv /\ TargetInv
  /\ OthersKept /\ Kept

-----------------------------------------------------------------------------
(* The first state: nothing done, the proven file under its own name.       *)
LEMMA InitInv == Init => IInv
<1> USE RemovalAssumption
        DEF Init, Inodes, Proven, RecoveryCopy, ProvenFile, Names, Steps, BeforeRemoval, LastLook, Exists
<1> SUFFICES ASSUME Init PROVE IInv
  OBVIOUS
<1>1. TypeInv
  <2>1. ProvenFile \in Files
    BY DEF Files
  <2>2. at \in [Names -> 1..(edits + 2) \cup {None}] /\ at \in [Names -> Inodes \cup {None}]
    OBVIOUS
  <2>3. file \in [Inodes -> Files]
    BY <2>1
  <2>4. /\ mine \subseteq 1..(edits + 2) /\ mine \subseteq Inodes /\ RecoveryCopy \notin mine
        /\ latest \in 1..(edits + 2) /\ latest \in Inodes
    OBVIOUS
  <2>5. pc \in Steps /\ error \in Errors /\ edits \in 0..MaxEdits /\ faults \in 0..MaxFaults
    BY DEF Errors
  <2>6. recorded \in BOOLEAN /\ late \in BOOLEAN /\ option \in [method : Methods, timestamps : BOOLEAN]
    OBVIOUS
  <2> HIDE DEF Init, Inodes, Steps, Names
  <2> QED
    BY <2>2, <2>3, <2>4, <2>5, <2>6 DEF TypeInv, RemovalTypeOK
<1>2. at["source"] = Proven /\ at["guard"] = None
  OBVIOUS
<1>3. ErrorInv /\ GuardInv /\ SourceInv
  BY <1>2 DEF ErrorInv, GuardInv, SourceInv, Forward
<1>4. MatchedInv /\ TargetInv /\ OthersKept
  BY <1>2 DEF MatchedInv, TargetInv, OthersKept
<1>5. Kept
  BY <1>2
     DEF Kept, LostOnlyProven, GuardOutlivesDoubt, RecoveryHoldsProven, CleanFailureKeepsSource,
         Reachable
<1> QED
  BY <1>1, <1>3, <1>4, <1>5 DEF IInv

(* A step that gives one name another inode in use, and otherwise moves the  *)
(* program counter, keeps the types.                                        *)
LEMMA TypesKept ==
  ASSUME TypeInv, UNCHANGED <<file, option, history>>, recorded' \in BOOLEAN,
         \/ UNCHANGED at
         \/ \E n \in Names, i \in {at["source"], at["guard"], RecoveryCopy, None} :
              at' = [at EXCEPT ![n] = i],
         error' \in Errors, pc' \in Steps \cup {"returned", "crashed"},
         faults' \in 0..MaxFaults
  PROVE  TypeInv'
<1>1. at' \in [Names -> 1..(edits + 2) \cup {None}] /\ at' \in [Names -> Inodes \cup {None}]
  <2>1. /\ at \in [Names -> 1..(edits + 2) \cup {None}] /\ at \in [Names -> Inodes \cup {None}]
        /\ edits \in Nat /\ edits <= MaxEdits
    BY RemovalAssumption DEF TypeInv, RemovalTypeOK
  <2>2. {at["source"], at["guard"], RecoveryCopy, None} \subseteq 1..(edits + 2) \cup {None}
    BY <2>1 DEF Names, RecoveryCopy
  <2>3. 1..(edits + 2) \subseteq Inodes
    BY <2>1, RemovalAssumption DEF Inodes
  <2> QED
    BY <2>1, <2>2, <2>3
<1> QED
  BY <1>1 DEF TypeInv, RemovalTypeOK, history

(* The recovery copy gets bytes and a time a file may have.                 *)
LEMMA CopiedTypes ==
  ASSUME file \in [Inodes -> Files],
         \/ UNCHANGED file
         \/ \E b \in Bytes \cup {Wrong}, t \in {0, MaxEdits + 1} :
              file' = [file EXCEPT ![RecoveryCopy] = [bytes |-> b, time |-> t]]
  PROVE  file' \in [Inodes -> Files]
<1>1. \A b \in Bytes \cup {Wrong}, t \in {0, MaxEdits + 1} : [bytes |-> b, time |-> t] \in Files
  BY RemovalAssumption DEF Files
<1> QED
  BY <1>1

(* A change by another program writes to one inode or uses the next new one. *)
LEMMA EditedTypes ==
  ASSUME TypeInv, Edited,
         \/ UNCHANGED at
         \/ \E n \in Names, i \in {edits + 3, None} : at' = [at EXCEPT ![n] = i],
         \/ UNCHANGED file
         \/ \E i : \E b \in Bytes :
              file' = [file EXCEPT ![i] = [bytes |-> b, time |-> edits + 1]],
         mine' \subseteq mine \cup {edits + 3}, latest' \in {latest, edits + 3, None}
  PROVE  TypeInv'
<1>1. /\ edits \in Nat /\ edits' = edits + 1 /\ edits' \in 0..MaxEdits
      /\ edits + 3 \in 1..(edits' + 2)
  BY RemovalAssumption DEF TypeInv, RemovalTypeOK, Edited
<1>2. 1..(edits + 2) \subseteq 1..(edits' + 2) /\ 1..(edits' + 2) \subseteq Inodes
  BY <1>1, RemovalAssumption DEF Inodes
<1>3. at' \in [Names -> 1..(edits' + 2) \cup {None}] /\ at' \in [Names -> Inodes \cup {None}]
  <2>1. at \in [Names -> 1..(edits' + 2) \cup {None}]
    BY <1>1, <1>2 DEF TypeInv
  <2>2. at' \in [Names -> 1..(edits' + 2) \cup {None}]
    BY <1>1, <2>1
  <2> QED
    BY <1>2, <2>2
<1>4. file' \in [Inodes -> Files]
  <2>1. \A b \in Bytes : [bytes |-> b, time |-> edits + 1] \in Files
    BY <1>1, RemovalAssumption DEF Files
  <2>2. file \in [Inodes -> Files]
    BY DEF TypeInv, RemovalTypeOK
  <2> QED
    BY <2>1, <2>2
<1>5. /\ mine' \subseteq 1..(edits' + 2) /\ mine' \subseteq Inodes /\ RecoveryCopy \notin mine'
      /\ latest' \in 1..(edits' + 2) \cup {None} /\ latest' \in Inodes \cup {None}
  <2>1. edits + 3 # RecoveryCopy
    BY <1>1 DEF RecoveryCopy
  <2>2. mine \subseteq 1..(edits + 2) /\ RecoveryCopy \notin mine /\ latest \in 1..(edits + 2) \cup {None}
    BY DEF TypeInv
  <2> QED
    BY <1>1, <1>2, <2>1, <2>2
<1>6. late' \in BOOLEAN
  BY DEF Edited, TypeInv, RemovalTypeOK
<1>7. UNCHANGED <<option, pc, error, recorded, faults>>
  BY DEF Edited
<1> QED
  BY <1>1, <1>3, <1>4, <1>5, <1>6, <1>7 DEF TypeInv, RemovalTypeOK

(* Steps keep the types, and the inodes in use below the next new one.      *)
LEMMA TypeStep == IInv /\ [Next]_vars => TypeInv'
<1> USE RemovalAssumption
        DEF Steps, LastLook, Forward, BeforeRemoval, Names, Inodes, Proven, RecoveryCopy, ProvenFile,
            Goto, Fails, NoFault, Fault, Keeps, Rejects, Continues, Points, Rest, history,
            Exists
<1> SUFFICES ASSUME IInv, [Next]_vars PROVE TypeInv'
  OBVIOUS
<1> USE DEF IInv, Kept
<1>1. CASE CheckSource
  <2>1. UNCHANGED <<file, option, history>> /\ recorded' \in BOOLEAN
    BY <1>1 DEF CheckSource, TypeInv, RemovalTypeOK
  <2>2. \/ UNCHANGED at
        \/ \E n \in Names, i \in {at["source"], at["guard"], RecoveryCopy, None} :
             at' = [at EXCEPT ![n] = i]
    BY <1>1 DEF CheckSource
  <2>3. /\ error' \in Errors /\ pc' \in Steps \cup {"returned", "crashed"}
        /\ faults' \in 0..MaxFaults
    BY <1>1 DEF CheckSource, TypeInv, RemovalTypeOK, Methods, Errors
  <2> QED
    BY <2>1, <2>2, <2>3, TypesKept
<1>2. CASE CreateGuard
  <2>1. UNCHANGED <<file, option, history>> /\ recorded' \in BOOLEAN
    BY <1>2 DEF CreateGuard, TypeInv, RemovalTypeOK
  <2>2. \/ UNCHANGED at
        \/ \E n \in Names, i \in {at["source"], at["guard"], RecoveryCopy, None} :
             at' = [at EXCEPT ![n] = i]
    BY <1>2 DEF CreateGuard
  <2>3. /\ error' \in Errors /\ pc' \in Steps \cup {"returned", "crashed"}
        /\ faults' \in 0..MaxFaults
    BY <1>2 DEF CreateGuard, TypeInv, RemovalTypeOK, Methods, Errors
  <2> QED
    BY <2>1, <2>2, <2>3, TypesKept
<1>3. CASE DropGuard
  <2>1. UNCHANGED <<file, option, history>> /\ recorded' \in BOOLEAN
    BY <1>3 DEF DropGuard, TypeInv, RemovalTypeOK
  <2>2. \/ UNCHANGED at
        \/ \E n \in Names, i \in {at["source"], at["guard"], RecoveryCopy, None} :
             at' = [at EXCEPT ![n] = i]
    BY <1>3 DEF DropGuard
  <2>3. /\ error' \in Errors /\ pc' \in Steps \cup {"returned", "crashed"}
        /\ faults' \in 0..MaxFaults
    BY <1>3 DEF DropGuard, TypeInv, RemovalTypeOK, Methods, Errors
  <2> QED
    BY <2>1, <2>2, <2>3, TypesKept
<1>4. CASE MatchSource
  <2>1. UNCHANGED <<file, option, history>> /\ recorded' \in BOOLEAN
    BY <1>4 DEF MatchSource, TypeInv, RemovalTypeOK
  <2>2. \/ UNCHANGED at
        \/ \E n \in Names, i \in {at["source"], at["guard"], RecoveryCopy, None} :
             at' = [at EXCEPT ![n] = i]
    BY <1>4 DEF MatchSource
  <2>3. /\ error' \in Errors /\ pc' \in Steps \cup {"returned", "crashed"}
        /\ faults' \in 0..MaxFaults
    BY <1>4 DEF MatchSource, TypeInv, RemovalTypeOK, Methods, Errors
  <2> QED
    BY <2>1, <2>2, <2>3, TypesKept
<1>5. CASE UnlinkSource
  <2>1. UNCHANGED <<file, option, history>> /\ recorded' \in BOOLEAN
    BY <1>5 DEF UnlinkSource, TypeInv, RemovalTypeOK
  <2>2. \/ UNCHANGED at
        \/ \E n \in Names, i \in {at["source"], at["guard"], RecoveryCopy, None} :
             at' = [at EXCEPT ![n] = i]
    BY <1>5 DEF UnlinkSource
  <2>3. /\ error' \in Errors /\ pc' \in Steps \cup {"returned", "crashed"}
        /\ faults' \in 0..MaxFaults
    BY <1>5 DEF UnlinkSource, TypeInv, RemovalTypeOK, Methods, Errors
  <2> QED
    BY <2>1, <2>2, <2>3, TypesKept
<1>6. CASE CheckAbsent
  <2>1. UNCHANGED <<file, option, history>> /\ recorded' \in BOOLEAN
    BY <1>6 DEF CheckAbsent, TypeInv, RemovalTypeOK
  <2>2. \/ UNCHANGED at
        \/ \E n \in Names, i \in {at["source"], at["guard"], RecoveryCopy, None} :
             at' = [at EXCEPT ![n] = i]
    BY <1>6 DEF CheckAbsent
  <2>3. /\ error' \in Errors /\ pc' \in Steps \cup {"returned", "crashed"}
        /\ faults' \in 0..MaxFaults
    BY <1>6 DEF CheckAbsent, TypeInv, RemovalTypeOK, Methods, Errors
  <2> QED
    BY <2>1, <2>2, <2>3, TypesKept
<1>7. CASE Relink
  <2>1. UNCHANGED <<file, option, history>> /\ recorded' \in BOOLEAN
    BY <1>7 DEF Relink, TypeInv, RemovalTypeOK
  <2>2. \/ UNCHANGED at
        \/ \E n \in Names, i \in {at["source"], at["guard"], RecoveryCopy, None} :
             at' = [at EXCEPT ![n] = i]
    BY <1>7 DEF Relink
  <2>3. /\ error' \in Errors /\ pc' \in Steps \cup {"returned", "crashed"}
        /\ faults' \in 0..MaxFaults
    BY <1>7 DEF Relink, TypeInv, RemovalTypeOK, Methods, Errors
  <2> QED
    BY <2>1, <2>2, <2>3, TypesKept
<1>8. CASE MoveToRecovery
  <2>1. /\ at' \in [Names -> 1..(edits + 2) \cup {None}]
        /\ at' \in [Names -> Inodes \cup {None}]
    BY <1>8 DEF MoveToRecovery, TypeInv, RemovalTypeOK
  <2>2. /\ error' \in Errors /\ pc' \in Steps \cup {"returned", "crashed"}
        /\ faults' \in 0..MaxFaults
    BY <1>8 DEF MoveToRecovery, TypeInv, RemovalTypeOK, Files, Methods, Errors
  <2>3. UNCHANGED <<file, option, recorded, history>>
    BY <1>8 DEF MoveToRecovery
  <2> QED
    BY <2>1, <2>2, <2>3 DEF TypeInv, RemovalTypeOK
<1>9. CASE VerifyRecovery
  <2>1. UNCHANGED <<file, option, history>> /\ recorded' \in BOOLEAN
    BY <1>9 DEF VerifyRecovery, TypeInv, RemovalTypeOK
  <2>2. \/ UNCHANGED at
        \/ \E n \in Names, i \in {at["source"], at["guard"], RecoveryCopy, None} :
             at' = [at EXCEPT ![n] = i]
    BY <1>9 DEF VerifyRecovery
  <2>3. /\ error' \in Errors /\ pc' \in Steps \cup {"returned", "crashed"}
        /\ faults' \in 0..MaxFaults
    BY <1>9 DEF VerifyRecovery, TypeInv, RemovalTypeOK, Methods, Errors
  <2> QED
    BY <2>1, <2>2, <2>3, TypesKept
<1>10. CASE RestoreSource
  <2>1. UNCHANGED <<file, option, history>> /\ recorded' \in BOOLEAN
    BY <1>10 DEF RestoreSource, TypeInv, RemovalTypeOK
  <2>2. \/ UNCHANGED at
        \/ \E n \in Names, i \in {at["source"], at["guard"], RecoveryCopy, None} :
             at' = [at EXCEPT ![n] = i]
    BY <1>10 DEF RestoreSource
  <2>3. /\ error' \in Errors /\ pc' \in Steps \cup {"returned", "crashed"}
        /\ faults' \in 0..MaxFaults
    BY <1>10 DEF RestoreSource, TypeInv, RemovalTypeOK, Methods, Errors
  <2> QED
    BY <2>1, <2>2, <2>3, TypesKept
<1>11. CASE Rematch
  <2>1. UNCHANGED <<file, option, history>> /\ recorded' \in BOOLEAN
    BY <1>11 DEF Rematch, TypeInv, RemovalTypeOK
  <2>2. \/ UNCHANGED at
        \/ \E n \in Names, i \in {at["source"], at["guard"], RecoveryCopy, None} :
             at' = [at EXCEPT ![n] = i]
    BY <1>11 DEF Rematch
  <2>3. /\ error' \in Errors /\ pc' \in Steps \cup {"returned", "crashed"}
        /\ faults' \in 0..MaxFaults
    BY <1>11 DEF Rematch, TypeInv, RemovalTypeOK, Methods, Errors
  <2> QED
    BY <2>1, <2>2, <2>3, TypesKept
<1>12. CASE CopySource
  <2>1. file' \in [Inodes -> Files]
    <3>1. file \in [Inodes -> Files] /\ file[Proven].bytes \in Bytes \cup {Wrong}
      BY DEF TypeInv, RemovalTypeOK, Files
    <3>2. \/ UNCHANGED file
          \/ \E b \in Bytes \cup {Wrong}, t \in {0, MaxEdits + 1} :
               file' = [file EXCEPT ![RecoveryCopy] = [bytes |-> b, time |-> t]]
      BY <1>12, <3>1 DEF CopySource
    <3> QED
      BY <3>1, <3>2, CopiedTypes
  <2>2. /\ error' \in Errors /\ pc' \in Steps \cup {"returned", "crashed"}
        /\ faults' \in 0..MaxFaults
    BY <1>12 DEF CopySource, TypeInv, RemovalTypeOK, Methods, Errors
  <2>3. UNCHANGED <<at, option, recorded, history>>
    BY <1>12 DEF CopySource
  <2> QED
    BY <2>1, <2>2, <2>3 DEF TypeInv, RemovalTypeOK
<1>13. CASE InstallRecovery
  <2>1. UNCHANGED <<file, option, history>> /\ recorded' \in BOOLEAN
    BY <1>13 DEF InstallRecovery, TypeInv, RemovalTypeOK
  <2>2. \/ UNCHANGED at
        \/ \E n \in Names, i \in {at["source"], at["guard"], RecoveryCopy, None} :
             at' = [at EXCEPT ![n] = i]
    BY <1>13 DEF InstallRecovery
  <2>3. /\ error' \in Errors /\ pc' \in Steps \cup {"returned", "crashed"}
        /\ faults' \in 0..MaxFaults
    BY <1>13 DEF InstallRecovery, TypeInv, RemovalTypeOK, Methods, Errors
  <2> QED
    BY <2>1, <2>2, <2>3, TypesKept
<1>14. CASE RecordRemoval
  <2>1. UNCHANGED <<file, option, history>> /\ recorded' \in BOOLEAN
    BY <1>14 DEF RecordRemoval, TypeInv, RemovalTypeOK
  <2>2. \/ UNCHANGED at
        \/ \E n \in Names, i \in {at["source"], at["guard"], RecoveryCopy, None} :
             at' = [at EXCEPT ![n] = i]
    BY <1>14 DEF RecordRemoval
  <2>3. /\ error' \in Errors /\ pc' \in Steps \cup {"returned", "crashed"}
        /\ faults' \in 0..MaxFaults
    BY <1>14 DEF RecordRemoval, TypeInv, RemovalTypeOK, Methods, Errors
  <2> QED
    BY <2>1, <2>2, <2>3, TypesKept
<1>15. CASE CleanGuard
  <2>1. UNCHANGED <<file, option, history>> /\ recorded' \in BOOLEAN
    BY <1>15 DEF CleanGuard, TypeInv, RemovalTypeOK
  <2>2. \/ UNCHANGED at
        \/ \E n \in Names, i \in {at["source"], at["guard"], RecoveryCopy, None} :
             at' = [at EXCEPT ![n] = i]
    BY <1>15 DEF CleanGuard
  <2>3. /\ error' \in Errors /\ pc' \in Steps \cup {"returned", "crashed"}
        /\ faults' \in 0..MaxFaults
    BY <1>15 DEF CleanGuard, TypeInv, RemovalTypeOK, Methods, Errors
  <2> QED
    BY <2>1, <2>2, <2>3, TypesKept
<1>16. CASE WriteInPlace
  <2>1. Edited
    BY <1>16 DEF WriteInPlace, NewTime
  <2>2. \/ UNCHANGED at
        \/ \E n \in Names, i \in {edits + 3, None} : at' = [at EXCEPT ![n] = i]
    BY <1>16 DEF WriteInPlace, NewTime
  <2>3. \/ UNCHANGED file
        \/ \E i : \E b \in Bytes :
             file' = [file EXCEPT ![i] = [bytes |-> b, time |-> edits + 1]]
    BY <1>16 DEF WriteInPlace, NewTime
  <2>4. mine' \subseteq mine \cup {edits + 3} /\ latest' \in {latest, edits + 3, None}
    BY <1>16 DEF WriteInPlace, NewTime
  <2> QED
    BY <2>1, <2>2, <2>3, <2>4, EditedTypes
<1>17. CASE Replace("source")
  <2>1. Edited
    BY <1>17 DEF Replace, NewInode, NewTime
  <2>2. \/ UNCHANGED at
        \/ \E n \in Names, i \in {edits + 3, None} : at' = [at EXCEPT ![n] = i]
    BY <1>17 DEF Replace, NewInode, NewTime
  <2>3. \/ UNCHANGED file
        \/ \E i : \E b \in Bytes :
             file' = [file EXCEPT ![i] = [bytes |-> b, time |-> edits + 1]]
    BY <1>17 DEF Replace, NewInode, NewTime
  <2>4. mine' \subseteq mine \cup {edits + 3} /\ latest' \in {latest, edits + 3, None}
    BY <1>17 DEF Replace, NewInode, NewTime
  <2> QED
    BY <2>1, <2>2, <2>3, <2>4, EditedTypes
<1>18. CASE DeleteSource
  <2>1. Edited
    BY <1>18 DEF DeleteSource
  <2>2. \/ UNCHANGED at
        \/ \E n \in Names, i \in {edits + 3, None} : at' = [at EXCEPT ![n] = i]
    BY <1>18 DEF DeleteSource
  <2>3. \/ UNCHANGED file
        \/ \E i : \E b \in Bytes :
             file' = [file EXCEPT ![i] = [bytes |-> b, time |-> edits + 1]]
    BY <1>18 DEF DeleteSource
  <2>4. mine' \subseteq mine \cup {edits + 3} /\ latest' \in {latest, edits + 3, None}
    BY <1>18 DEF DeleteSource
  <2> QED
    BY <2>1, <2>2, <2>3, <2>4, EditedTypes
<1>19. CASE OccupyTarget
  <2>1. Edited
    BY <1>19 DEF OccupyTarget, Replace, NewInode, NewTime
  <2>2. \/ UNCHANGED at
        \/ \E n \in Names, i \in {edits + 3, None} : at' = [at EXCEPT ![n] = i]
    BY <1>19 DEF OccupyTarget, Replace, NewInode, NewTime
  <2>3. \/ UNCHANGED file
        \/ \E i : \E b \in Bytes :
             file' = [file EXCEPT ![i] = [bytes |-> b, time |-> edits + 1]]
    BY <1>19 DEF OccupyTarget, Replace, NewInode, NewTime
  <2>4. mine' \subseteq mine \cup {edits + 3} /\ latest' \in {latest, edits + 3, None}
    BY <1>19 DEF OccupyTarget, Replace, NewInode, NewTime
  <2> QED
    BY <2>1, <2>2, <2>3, <2>4, EditedTypes
<1>20. CASE Crash
  BY <1>20 DEF Crash, TypeInv, RemovalTypeOK, Files, Methods, Errors
<1>21. CASE UNCHANGED vars
  BY <1>21 DEF TypeInv, RemovalTypeOK, Files, Methods, Errors, vars
<1> QED
  BY <1>1, <1>2, <1>3, <1>4, <1>5, <1>6, <1>7, <1>8, <1>9, <1>10, <1>11,
     <1>12, <1>13, <1>14, <1>15, <1>16, <1>17, <1>18, <1>19, <1>20, <1>21 DEF Next, Driver

(* Steps keep what the place in the call says of its error and its row.     *)
LEMMA ErrorStep == IInv /\ [Next]_vars => ErrorInv'
<1> USE RemovalAssumption
        DEF Steps, LastLook, Forward, BeforeRemoval, Names, Inodes, Proven, RecoveryCopy, ProvenFile,
            Goto, Fails, NoFault, Fault, Keeps, Rejects, Continues, Points, Rest, history,
            Exists
<1> SUFFICES ASSUME IInv, [Next]_vars PROVE ErrorInv'
  OBVIOUS
<1> USE DEF IInv, Kept, ErrorInv, TypeInv, RemovalTypeOK, Methods
<1>1. CASE CheckSource
  BY <1>1 DEF CheckSource, SourceMatches
<1>2. CASE CreateGuard
  BY <1>2 DEF CreateGuard
<1>3. CASE DropGuard
  BY <1>3 DEF DropGuard
<1>4. CASE MatchSource
  BY <1>4 DEF MatchSource, SourceMatches
<1>5. CASE UnlinkSource
  BY <1>5 DEF UnlinkSource
<1>6. CASE CheckAbsent
  BY <1>6 DEF CheckAbsent
<1>7. CASE Relink
  BY <1>7 DEF Relink
<1>8. CASE MoveToRecovery
  BY <1>8 DEF MoveToRecovery
<1>9. CASE VerifyRecovery
  BY <1>9 DEF VerifyRecovery
<1>10. CASE RestoreSource
  BY <1>10 DEF RestoreSource
<1>11. CASE Rematch
  BY <1>11 DEF Rematch, SourceMatches
<1>12. CASE CopySource
  BY <1>12 DEF CopySource
<1>13. CASE InstallRecovery
  BY <1>13 DEF InstallRecovery
<1>14. CASE RecordRemoval
  BY <1>14 DEF RecordRemoval
<1>15. CASE CleanGuard
  BY <1>15 DEF CleanGuard
<1>16. CASE WriteInPlace
  BY <1>16 DEF WriteInPlace, Edited, NewTime
<1>17. CASE Replace("source")
  BY <1>17 DEF Replace, Edited, NewInode, NewTime
<1>18. CASE DeleteSource
  BY <1>18 DEF DeleteSource, Edited
<1>19. CASE OccupyTarget
  BY <1>19 DEF OccupyTarget, Replace, Edited, NewInode, NewTime
<1>20. CASE Crash
  BY <1>20 DEF Crash
<1>21. CASE UNCHANGED vars
  BY <1>21 DEF vars
<1> QED
  BY <1>1, <1>2, <1>3, <1>4, <1>5, <1>6, <1>7, <1>8, <1>9, <1>10, <1>11,
     <1>12, <1>13, <1>14, <1>15, <1>16, <1>17, <1>18, <1>19, <1>20, <1>21 DEF Next, Driver

(* Once made, the guard stays the proven file's second name.                *)
LEMMA GuardStep == IInv /\ [Next]_vars => GuardInv'
<1> USE RemovalAssumption
        DEF Steps, LastLook, Forward, BeforeRemoval, Names, Inodes, Proven, RecoveryCopy, ProvenFile,
            Goto, Fails, NoFault, Fault, Keeps, Rejects, Continues, Points, Rest, history,
            Exists
<1> SUFFICES ASSUME IInv, [Next]_vars PROVE GuardInv'
  OBVIOUS
<1> USE DEF IInv, Kept, GuardInv, SourceInv, ErrorInv, Methods, TypeInv, RemovalTypeOK
<1>1. CASE CheckSource
  BY <1>1 DEF CheckSource, SourceMatches
<1>2. CASE CreateGuard
  BY <1>2 DEF CreateGuard
<1>3. CASE DropGuard
  BY <1>3 DEF DropGuard
<1>4. CASE MatchSource
  BY <1>4 DEF MatchSource, SourceMatches
<1>5. CASE UnlinkSource
  BY <1>5 DEF UnlinkSource
<1>6. CASE CheckAbsent
  BY <1>6 DEF CheckAbsent
<1>7. CASE Relink
  BY <1>7 DEF Relink
<1>8. CASE MoveToRecovery
  BY <1>8 DEF MoveToRecovery
<1>9. CASE VerifyRecovery
  BY <1>9 DEF VerifyRecovery
<1>10. CASE RestoreSource
  BY <1>10 DEF RestoreSource
<1>11. CASE Rematch
  BY <1>11 DEF Rematch, SourceMatches
<1>12. CASE CopySource
  BY <1>12 DEF CopySource
<1>13. CASE InstallRecovery
  BY <1>13 DEF InstallRecovery
<1>14. CASE RecordRemoval
  BY <1>14 DEF RecordRemoval
<1>15. CASE CleanGuard
  BY <1>15 DEF CleanGuard
<1>16. CASE WriteInPlace
  BY <1>16 DEF WriteInPlace, Edited, NewTime
<1>17. CASE Replace("source")
  BY <1>17 DEF Replace, Edited, NewInode, NewTime
<1>18. CASE DeleteSource
  BY <1>18 DEF DeleteSource, Edited
<1>19. CASE OccupyTarget
  BY <1>19 DEF OccupyTarget, Replace, Edited, NewInode, NewTime
<1>20. CASE Crash
  BY <1>20 DEF Crash
<1>21. CASE UNCHANGED vars
  BY <1>21 DEF vars
<1> QED
  BY <1>1, <1>2, <1>3, <1>4, <1>5, <1>6, <1>7, <1>8, <1>9, <1>10, <1>11,
     <1>12, <1>13, <1>14, <1>15, <1>16, <1>17, <1>18, <1>19, <1>20, <1>21 DEF Next, Driver

(* Until the removal takes it, the source's name shows what others left.    *)
LEMMA SourceStep == IInv /\ [Next]_vars => SourceInv'
<1> USE RemovalAssumption
        DEF Steps, LastLook, Forward, BeforeRemoval, Names, Inodes, Proven, RecoveryCopy, ProvenFile,
            Goto, Fails, NoFault, Fault, Keeps, Rejects, Continues, Points, Rest, history,
            Exists
<1> SUFFICES ASSUME IInv, [Next]_vars PROVE SourceInv'
  OBVIOUS
<1> USE DEF IInv, Kept, SourceInv, GuardInv, TargetInv, ErrorInv, TypeInv, RemovalTypeOK
<1>1. CASE CheckSource
  BY <1>1 DEF CheckSource, SourceMatches
<1>2. CASE CreateGuard
  BY <1>2 DEF CreateGuard
<1>3. CASE DropGuard
  BY <1>3 DEF DropGuard
<1>4. CASE MatchSource
  BY <1>4 DEF MatchSource, SourceMatches
<1>5. CASE UnlinkSource
  BY <1>5 DEF UnlinkSource
<1>6. CASE CheckAbsent
  BY <1>6 DEF CheckAbsent
<1>7. CASE Relink
  BY <1>7 DEF Relink
<1>8. CASE MoveToRecovery
  BY <1>8 DEF MoveToRecovery
<1>9. CASE VerifyRecovery
  BY <1>9 DEF VerifyRecovery
<1>10. CASE RestoreSource
  BY <1>10 DEF RestoreSource
<1>11. CASE Rematch
  BY <1>11 DEF Rematch, SourceMatches
<1>12. CASE CopySource
  BY <1>12 DEF CopySource
<1>13. CASE InstallRecovery
  BY <1>13 DEF InstallRecovery
<1>14. CASE RecordRemoval
  BY <1>14 DEF RecordRemoval
<1>15. CASE CleanGuard
  BY <1>15 DEF CleanGuard
<1>16. CASE WriteInPlace
  BY <1>16 DEF WriteInPlace, Edited, NewTime
<1>17. CASE Replace("source")
  BY <1>17 DEF Replace, Edited, NewInode, NewTime
<1>18. CASE DeleteSource
  BY <1>18 DEF DeleteSource, Edited
<1>19. CASE OccupyTarget
  BY <1>19 DEF OccupyTarget, Replace, Edited, NewInode, NewTime
<1>20. CASE Crash
  BY <1>20 DEF Crash
<1>21. CASE UNCHANGED vars
  BY <1>21 DEF vars
<1> QED
  BY <1>1, <1>2, <1>3, <1>4, <1>5, <1>6, <1>7, <1>8, <1>9, <1>10, <1>11,
     <1>12, <1>13, <1>14, <1>15, <1>16, <1>17, <1>18, <1>19, <1>20, <1>21 DEF Next, Driver

(* What matched the proof stays the proven file, or the change was late.    *)
LEMMA MatchedStep == IInv /\ [Next]_vars => MatchedInv'
<1> USE RemovalAssumption
        DEF Steps, LastLook, Forward, BeforeRemoval, Names, Inodes, Proven, RecoveryCopy, ProvenFile,
            Goto, Fails, NoFault, Fault, Keeps, Rejects, Continues, Points, Rest, history,
            Exists
<1> SUFFICES ASSUME IInv, [Next]_vars PROVE MatchedInv'
  OBVIOUS
<1> USE
   DEF IInv, Kept, MatchedInv, SourceInv, ErrorInv, SourceMatches, Methods, TypeInv,
       RemovalTypeOK
<1>1. CASE CheckSource
  BY <1>1 DEF CheckSource, SourceMatches
<1>2. CASE CreateGuard
  BY <1>2 DEF CreateGuard
<1>3. CASE DropGuard
  BY <1>3 DEF DropGuard
<1>4. CASE MatchSource
  BY <1>4 DEF MatchSource, SourceMatches
<1>5. CASE UnlinkSource
  BY <1>5 DEF UnlinkSource
<1>6. CASE CheckAbsent
  BY <1>6 DEF CheckAbsent
<1>7. CASE Relink
  BY <1>7 DEF Relink
<1>8. CASE MoveToRecovery
  BY <1>8 DEF MoveToRecovery
<1>9. CASE VerifyRecovery
  BY <1>9 DEF VerifyRecovery
<1>10. CASE RestoreSource
  BY <1>10 DEF RestoreSource
<1>11. CASE Rematch
  BY <1>11 DEF Rematch, SourceMatches
<1>12. CASE CopySource
  BY <1>12 DEF CopySource
<1>13. CASE InstallRecovery
  BY <1>13 DEF InstallRecovery
<1>14. CASE RecordRemoval
  BY <1>14 DEF RecordRemoval
<1>15. CASE CleanGuard
  BY <1>15 DEF CleanGuard
<1>16. CASE WriteInPlace
  BY <1>16 DEF WriteInPlace, Edited, NewTime
<1>17. CASE Replace("source")
  BY <1>17 DEF Replace, Edited, NewInode, NewTime
<1>18. CASE DeleteSource
  BY <1>18 DEF DeleteSource, Edited
<1>19. CASE OccupyTarget
  BY <1>19 DEF OccupyTarget, Replace, Edited, NewInode, NewTime
<1>20. CASE Crash
  BY <1>20 DEF Crash
<1>21. CASE UNCHANGED vars
  BY <1>21 DEF vars
<1> QED
  BY <1>1, <1>2, <1>3, <1>4, <1>5, <1>6, <1>7, <1>8, <1>9, <1>10, <1>11,
     <1>12, <1>13, <1>14, <1>15, <1>16, <1>17, <1>18, <1>19, <1>20, <1>21 DEF Next, Driver

(* The recovery target holds the moved file or the verified copy.           *)
LEMMA TargetStep == IInv /\ [Next]_vars => TargetInv'
<1> USE RemovalAssumption
        DEF Steps, LastLook, Forward, BeforeRemoval, Names, Inodes, Proven, RecoveryCopy, ProvenFile,
            Goto, Fails, NoFault, Fault, Keeps, Rejects, Continues, Points, Rest, history,
            Exists
<1> SUFFICES ASSUME IInv, [Next]_vars PROVE TargetInv'
  OBVIOUS
<1> USE DEF IInv, Kept, TargetInv, SourceInv, ErrorInv, RecoveryMatches, TypeInv, RemovalTypeOK
<1>1. CASE CheckSource
  BY <1>1 DEF CheckSource, SourceMatches
<1>2. CASE CreateGuard
  BY <1>2 DEF CreateGuard
<1>3. CASE DropGuard
  BY <1>3 DEF DropGuard
<1>4. CASE MatchSource
  BY <1>4 DEF MatchSource, SourceMatches
<1>5. CASE UnlinkSource
  BY <1>5 DEF UnlinkSource
<1>6. CASE CheckAbsent
  BY <1>6 DEF CheckAbsent
<1>7. CASE Relink
  BY <1>7 DEF Relink
<1>8. CASE MoveToRecovery
  BY <1>8 DEF MoveToRecovery
<1>9. CASE VerifyRecovery
  BY <1>9 DEF VerifyRecovery
<1>10. CASE RestoreSource
  BY <1>10 DEF RestoreSource
<1>11. CASE Rematch
  BY <1>11 DEF Rematch, SourceMatches
<1>12. CASE CopySource
  BY <1>12 DEF CopySource
<1>13. CASE InstallRecovery
  BY <1>13 DEF InstallRecovery
<1>14. CASE RecordRemoval
  BY <1>14 DEF RecordRemoval
<1>15. CASE CleanGuard
  BY <1>15 DEF CleanGuard
<1>16. CASE WriteInPlace
  <2>1. file'[RecoveryCopy] = file[RecoveryCopy] /\ UNCHANGED <<at, mine, option, pc>>
    BY <1>16 DEF WriteInPlace, Edited, NewTime
  <2>2. late \/ (pc \in {"record", "clean"} /\ option.method = "move") => late'
    BY <1>16 DEF WriteInPlace, Edited, NewTime
  <2> QED
    BY <2>1, <2>2 DEF WriteInPlace, Edited, NewTime
<1>17. CASE Replace("source")
  BY <1>17 DEF Replace, Edited, NewInode, NewTime
<1>18. CASE DeleteSource
  BY <1>18 DEF DeleteSource, Edited
<1>19. CASE OccupyTarget
  BY <1>19 DEF OccupyTarget, Replace, Edited, NewInode, NewTime
<1>20. CASE Crash
  BY <1>20 DEF Crash
<1>21. CASE UNCHANGED vars
  BY <1>21 DEF vars
<1> QED
  BY <1>1, <1>2, <1>3, <1>4, <1>5, <1>6, <1>7, <1>8, <1>9, <1>10, <1>11,
     <1>12, <1>13, <1>14, <1>15, <1>16, <1>17, <1>18, <1>19, <1>20, <1>21 DEF Next, Driver

(* Nobody else's file depends on the guard.                                 *)
LEMMA OthersStep == IInv /\ [Next]_vars => OthersKept'
<1> USE RemovalAssumption
        DEF Steps, LastLook, Forward, BeforeRemoval, Names, Inodes, Proven, RecoveryCopy, ProvenFile,
            Goto, Fails, NoFault, Fault, Keeps, Rejects, Continues, Points, Rest, history,
            Exists
<1> SUFFICES ASSUME IInv, [Next]_vars PROVE OthersKept'
  OBVIOUS
<1> USE
   DEF IInv, Kept, OthersKept, SourceInv, TargetInv, GuardInv, MatchedInv, ErrorInv, TypeInv,
       RemovalTypeOK
<1>1. CASE CheckSource
  BY <1>1 DEF CheckSource, SourceMatches
<1>2. CASE CreateGuard
  BY <1>2 DEF CreateGuard
<1>3. CASE DropGuard
  BY <1>3 DEF DropGuard
<1>4. CASE MatchSource
  BY <1>4 DEF MatchSource, SourceMatches
<1>5. CASE UnlinkSource
  BY <1>5 DEF UnlinkSource
<1>6. CASE CheckAbsent
  BY <1>6 DEF CheckAbsent
<1>7. CASE Relink
  BY <1>7 DEF Relink
<1>8. CASE MoveToRecovery
  BY <1>8 DEF MoveToRecovery
<1>9. CASE VerifyRecovery
  BY <1>9 DEF VerifyRecovery
<1>10. CASE RestoreSource
  BY <1>10 DEF RestoreSource
<1>11. CASE Rematch
  BY <1>11 DEF Rematch, SourceMatches
<1>12. CASE CopySource
  BY <1>12 DEF CopySource
<1>13. CASE InstallRecovery
  BY <1>13 DEF InstallRecovery
<1>14. CASE RecordRemoval
  BY <1>14 DEF RecordRemoval
<1>15. CASE CleanGuard
  BY <1>15 DEF CleanGuard
<1>16. CASE WriteInPlace
  BY <1>16 DEF WriteInPlace, Edited, NewTime
<1>17. CASE Replace("source")
  BY <1>17 DEF Replace, Edited, NewInode, NewTime
<1>18. CASE DeleteSource
  BY <1>18 DEF DeleteSource, Edited
<1>19. CASE OccupyTarget
  BY <1>19 DEF OccupyTarget, Replace, Edited, NewInode, NewTime
<1>20. CASE Crash
  BY <1>20 DEF Crash
<1>21. CASE UNCHANGED vars
  BY <1>21 DEF vars
<1> QED
  BY <1>1, <1>2, <1>3, <1>4, <1>5, <1>6, <1>7, <1>8, <1>9, <1>10, <1>11,
     <1>12, <1>13, <1>14, <1>15, <1>16, <1>17, <1>18, <1>19, <1>20, <1>21 DEF Next, Driver

(* Each step loses at most the proven file.                                 *)
LEMMA LostStep == IInv /\ [Next]_vars => LostOnlyProven'
<1> USE RemovalAssumption
        DEF Steps, LastLook, Forward, BeforeRemoval, Names, Inodes, Proven, RecoveryCopy, ProvenFile,
            Goto, Fails, NoFault, Fault, Keeps, Rejects, Continues, Points, Rest, history,
            Exists
<1> SUFFICES ASSUME IInv, [Next]_vars PROVE LostOnlyProven'
  OBVIOUS
<1> USE
   DEF IInv, Kept, LostOnlyProven, Reachable, OthersKept, SourceInv, TargetInv, GuardInv,
       MatchedInv, ErrorInv, TypeInv, RemovalTypeOK
<1>1. CASE CheckSource
  BY <1>1 DEF CheckSource, SourceMatches
<1>2. CASE CreateGuard
  BY <1>2 DEF CreateGuard
<1>3. CASE DropGuard
  BY <1>3 DEF DropGuard
<1>4. CASE MatchSource
  BY <1>4 DEF MatchSource, SourceMatches
<1>5. CASE UnlinkSource
  BY <1>5 DEF UnlinkSource
<1>6. CASE CheckAbsent
  BY <1>6 DEF CheckAbsent
<1>7. CASE Relink
  BY <1>7 DEF Relink
<1>8. CASE MoveToRecovery
  BY <1>8 DEF MoveToRecovery
<1>9. CASE VerifyRecovery
  BY <1>9 DEF VerifyRecovery
<1>10. CASE RestoreSource
  BY <1>10 DEF RestoreSource
<1>11. CASE Rematch
  BY <1>11 DEF Rematch, SourceMatches
<1>12. CASE CopySource
  BY <1>12 DEF CopySource
<1>13. CASE InstallRecovery
  <2>1. \A n \in Names : at'[n] = at[n] \/ at[n] = None
    BY <1>13 DEF InstallRecovery
  <2>2. None \notin mine
    BY DEF TypeInv, RemovalTypeOK
  <2>3. UNCHANGED <<mine, late, recorded, file>>
    BY <1>13 DEF InstallRecovery
  <2> QED
    BY <2>1, <2>2, <2>3 DEF LostOnlyProven, Reachable
<1>14. CASE RecordRemoval
  BY <1>14 DEF RecordRemoval
<1>15. CASE CleanGuard
  BY <1>15 DEF CleanGuard
<1>16. CASE WriteInPlace
  BY <1>16 DEF WriteInPlace, Edited, NewTime
<1>17. CASE Replace("source")
  BY <1>17 DEF Replace, Edited, NewInode, NewTime
<1>18. CASE DeleteSource
  BY <1>18 DEF DeleteSource, Edited
<1>19. CASE OccupyTarget
  BY <1>19 DEF OccupyTarget, Replace, Edited, NewInode, NewTime
<1>20. CASE Crash
  BY <1>20 DEF Crash
<1>21. CASE UNCHANGED vars
  BY <1>21 DEF vars
<1> QED
  BY <1>1, <1>2, <1>3, <1>4, <1>5, <1>6, <1>7, <1>8, <1>9, <1>10, <1>11,
     <1>12, <1>13, <1>14, <1>15, <1>16, <1>17, <1>18, <1>19, <1>20, <1>21 DEF Next, Driver

(* No step takes the guard while the outcome is in doubt.                   *)
LEMMA DoubtStep == IInv /\ [Next]_vars => GuardOutlivesDoubt'
<1> USE RemovalAssumption
        DEF Steps, LastLook, Forward, BeforeRemoval, Names, Inodes, Proven, RecoveryCopy, ProvenFile,
            Goto, Fails, NoFault, Fault, Keeps, Rejects, Continues, Points, Rest, history,
            Exists
<1> SUFFICES ASSUME IInv, [Next]_vars PROVE GuardOutlivesDoubt'
  OBVIOUS
<1> USE
   DEF IInv, Kept, GuardOutlivesDoubt, Reachable, SourceInv, TargetInv, GuardInv, ErrorInv,
       TypeInv, RemovalTypeOK
<1>1. CASE CheckSource
  BY <1>1 DEF CheckSource, SourceMatches
<1>2. CASE CreateGuard
  BY <1>2 DEF CreateGuard
<1>3. CASE DropGuard
  BY <1>3 DEF DropGuard
<1>4. CASE MatchSource
  BY <1>4 DEF MatchSource, SourceMatches
<1>5. CASE UnlinkSource
  BY <1>5 DEF UnlinkSource
<1>6. CASE CheckAbsent
  BY <1>6 DEF CheckAbsent
<1>7. CASE Relink
  BY <1>7 DEF Relink
<1>8. CASE MoveToRecovery
  BY <1>8 DEF MoveToRecovery
<1>9. CASE VerifyRecovery
  BY <1>9 DEF VerifyRecovery
<1>10. CASE RestoreSource
  BY <1>10 DEF RestoreSource
<1>11. CASE Rematch
  BY <1>11 DEF Rematch, SourceMatches
<1>12. CASE CopySource
  BY <1>12 DEF CopySource
<1>13. CASE InstallRecovery
  BY <1>13 DEF InstallRecovery
<1>14. CASE RecordRemoval
  BY <1>14 DEF RecordRemoval
<1>15. CASE CleanGuard
  BY <1>15 DEF CleanGuard
<1>16. CASE WriteInPlace
  BY <1>16 DEF WriteInPlace, Edited, NewTime
<1>17. CASE Replace("source")
  BY <1>17 DEF Replace, Edited, NewInode, NewTime
<1>18. CASE DeleteSource
  BY <1>18 DEF DeleteSource, Edited
<1>19. CASE OccupyTarget
  BY <1>19 DEF OccupyTarget, Replace, Edited, NewInode, NewTime
<1>20. CASE Crash
  BY <1>20 DEF Crash
<1>21. CASE UNCHANGED vars
  BY <1>21 DEF vars
<1> QED
  BY <1>1, <1>2, <1>3, <1>4, <1>5, <1>6, <1>7, <1>8, <1>9, <1>10, <1>11,
     <1>12, <1>13, <1>14, <1>15, <1>16, <1>17, <1>18, <1>19, <1>20, <1>21 DEF Next, Driver

(* The row is written only behind a verified recovery.                      *)
LEMMA RecoveryStep == IInv /\ [Next]_vars => RecoveryHoldsProven'
<1> USE RemovalAssumption
        DEF Steps, LastLook, Forward, BeforeRemoval, Names, Inodes, Proven, RecoveryCopy, ProvenFile,
            Goto, Fails, NoFault, Fault, Keeps, Rejects, Continues, Points, Rest, history,
            Exists
<1> SUFFICES ASSUME IInv, [Next]_vars PROVE RecoveryHoldsProven'
  OBVIOUS
<1> USE
   DEF IInv, Kept, RecoveryHoldsProven, RecoveryMatches, TargetInv, ErrorInv, Methods, TypeInv,
       RemovalTypeOK
<1>1. CASE CheckSource
  BY <1>1 DEF CheckSource, SourceMatches
<1>2. CASE CreateGuard
  BY <1>2 DEF CreateGuard
<1>3. CASE DropGuard
  BY <1>3 DEF DropGuard
<1>4. CASE MatchSource
  BY <1>4 DEF MatchSource, SourceMatches
<1>5. CASE UnlinkSource
  BY <1>5 DEF UnlinkSource
<1>6. CASE CheckAbsent
  BY <1>6 DEF CheckAbsent
<1>7. CASE Relink
  BY <1>7 DEF Relink
<1>8. CASE MoveToRecovery
  BY <1>8 DEF MoveToRecovery
<1>9. CASE VerifyRecovery
  BY <1>9 DEF VerifyRecovery
<1>10. CASE RestoreSource
  BY <1>10 DEF RestoreSource
<1>11. CASE Rematch
  BY <1>11 DEF Rematch, SourceMatches
<1>12. CASE CopySource
  BY <1>12 DEF CopySource
<1>13. CASE InstallRecovery
  BY <1>13 DEF InstallRecovery
<1>14. CASE RecordRemoval
  BY <1>14 DEF RecordRemoval
<1>15. CASE CleanGuard
  BY <1>15 DEF CleanGuard
<1>16. CASE WriteInPlace
  BY <1>16 DEF WriteInPlace, Edited, NewTime
<1>17. CASE Replace("source")
  BY <1>17 DEF Replace, Edited, NewInode, NewTime
<1>18. CASE DeleteSource
  BY <1>18 DEF DeleteSource, Edited
<1>19. CASE OccupyTarget
  BY <1>19 DEF OccupyTarget, Replace, Edited, NewInode, NewTime
<1>20. CASE Crash
  BY <1>20 DEF Crash
<1>21. CASE UNCHANGED vars
  BY <1>21 DEF vars
<1> QED
  BY <1>1, <1>2, <1>3, <1>4, <1>5, <1>6, <1>7, <1>8, <1>9, <1>10, <1>11,
     <1>12, <1>13, <1>14, <1>15, <1>16, <1>17, <1>18, <1>19, <1>20, <1>21 DEF Next, Driver

(* A plain failure leaves the source as others left it.                     *)
LEMMA CleanStep == IInv /\ [Next]_vars => CleanFailureKeepsSource'
<1> USE RemovalAssumption
        DEF Steps, LastLook, Forward, BeforeRemoval, Names, Inodes, Proven, RecoveryCopy, ProvenFile,
            Goto, Fails, NoFault, Fault, Keeps, Rejects, Continues, Points, Rest, history,
            Exists
<1> SUFFICES ASSUME IInv, [Next]_vars PROVE CleanFailureKeepsSource'
  OBVIOUS
<1> USE DEF IInv, Kept, CleanFailureKeepsSource, SourceInv, ErrorInv, TypeInv, RemovalTypeOK
<1>1. CASE CheckSource
  BY <1>1 DEF CheckSource, SourceMatches
<1>2. CASE CreateGuard
  BY <1>2 DEF CreateGuard
<1>3. CASE DropGuard
  BY <1>3 DEF DropGuard
<1>4. CASE MatchSource
  BY <1>4 DEF MatchSource, SourceMatches
<1>5. CASE UnlinkSource
  BY <1>5 DEF UnlinkSource
<1>6. CASE CheckAbsent
  BY <1>6 DEF CheckAbsent
<1>7. CASE Relink
  BY <1>7 DEF Relink
<1>8. CASE MoveToRecovery
  BY <1>8 DEF MoveToRecovery
<1>9. CASE VerifyRecovery
  BY <1>9 DEF VerifyRecovery
<1>10. CASE RestoreSource
  BY <1>10 DEF RestoreSource
<1>11. CASE Rematch
  BY <1>11 DEF Rematch, SourceMatches
<1>12. CASE CopySource
  BY <1>12 DEF CopySource
<1>13. CASE InstallRecovery
  BY <1>13 DEF InstallRecovery
<1>14. CASE RecordRemoval
  BY <1>14 DEF RecordRemoval
<1>15. CASE CleanGuard
  BY <1>15 DEF CleanGuard
<1>16. CASE WriteInPlace
  BY <1>16 DEF WriteInPlace, Edited, NewTime
<1>17. CASE Replace("source")
  BY <1>17 DEF Replace, Edited, NewInode, NewTime
<1>18. CASE DeleteSource
  BY <1>18 DEF DeleteSource, Edited
<1>19. CASE OccupyTarget
  BY <1>19 DEF OccupyTarget, Replace, Edited, NewInode, NewTime
<1>20. CASE Crash
  BY <1>20 DEF Crash
<1>21. CASE UNCHANGED vars
  BY <1>21 DEF vars
<1> QED
  BY <1>1, <1>2, <1>3, <1>4, <1>5, <1>6, <1>7, <1>8, <1>9, <1>10, <1>11,
     <1>12, <1>13, <1>14, <1>15, <1>16, <1>17, <1>18, <1>19, <1>20, <1>21 DEF Next, Driver

(* Every step keeps the invariant.                                          *)
LEMMA StepInv == IInv /\ [Next]_vars => IInv'
  BY TypeStep, ErrorStep, GuardStep, SourceStep, MatchedStep, TargetStep, OthersStep, LostStep,
     DoubtStep, RecoveryStep, CleanStep DEF IInv, Kept

-----------------------------------------------------------------------------
(* Every variable of perform_removal's call keeps its type.                 *)
THEOREM RemovalTypes == Spec => []RemovalTypeOK
<1>1. IInv => RemovalTypeOK
  BY DEF IInv, TypeInv
<1> QED
  BY InitInv, StepInv, <1>1, PTL DEF Spec

(* However often other programs write, and whatever fails or dies: only the *)
(* proven file loses its last name, and only with a RemovalCompleted row.   *)
THEOREM RemovalLosesOnlyProven == Spec => []LostOnlyProven
<1>1. IInv => LostOnlyProven
  BY DEF IInv, Kept
<1> QED
  BY InitInv, StepInv, <1>1, PTL DEF Spec

(* The source preservation guard is there as long as a review may need it.  *)
THEOREM GuardIsKept == Spec => []GuardOutlivesDoubt
<1>1. IInv => GuardOutlivesDoubt
  BY DEF IInv, Kept
<1> QED
  BY InitInv, StepInv, <1>1, PTL DEF Spec

(* A recorded recoverable removal has its file at the recovery target.      *)
THEOREM RecoveryIsSound == Spec => []RecoveryHoldsProven
<1>1. IInv => RecoveryHoldsProven
  BY DEF IInv, Kept
<1> QED
  BY InitInv, StepInv, <1>1, PTL DEF Spec

(* A failure recorded as plain left the source where it was.                *)
THEOREM FailureKeepsSource == Spec => []CleanFailureKeepsSource
<1>1. IInv => CleanFailureKeepsSource
  BY DEF IInv, Kept
<1> QED
  BY InitInv, StepInv, <1>1, PTL DEF Spec

=============================================================================
