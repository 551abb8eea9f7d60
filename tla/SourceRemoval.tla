---------------------------- MODULE SourceRemoval ----------------------------
(***************************************************************************)
(* One call of perform_removal behind its RemovalStarted row, and the row  *)
(* that follows it: the proven source gets a second name, the source       *)
(* preservation guard, and is then unlinked (permanent removal), moved to  *)
(* the recovery root of the same filesystem, or copied to another one,     *)
(* verified there and unlinked.  The guard goes with the RemovalCompleted  *)
(* row; while the result is uncertain it stays.  Meanwhile a program may   *)
(* write to the file, put another one in its place or delete it, system    *)
(* calls may fail, and the process may be killed.                          *)
(*                                                                         *)
(* Data.  Names point to inodes, an inode is a regular file with bytes and *)
(* a modification time; two writes never leave the same time.  The inode   *)
(* Proven with ProvenFile is what the proof boundary recorded.  Comparing  *)
(* a file with the proof is one step, because it reads the metadata before *)
(* and after the contents.  flock only keeps cooperating programs away.    *)
(***************************************************************************)
EXTENDS Naturals

CONSTANTS
  Bytes,       \* contents of files
  Original,    \* the contents the proof names
  Wrong,       \* what a faulty copy leaves behind
  None,        \* no inode
  MaxEdits,    \* bound: changes by other programs
  MaxFaults    \* bound: system calls and journal writes that fail

ASSUME RemovalAssumption ==
  /\ Original \in Bytes
  /\ Wrong \notin Bytes
  /\ MaxEdits \in Nat
  /\ MaxFaults \in Nat
  /\ None \notin 1..(MaxEdits + 2)

VARIABLES
  at,          \* the inode each name points to
  file,        \* what each inode holds
  option,      \* how to remove; timestamps are required of a recovery copy
  pc, error,   \* the next step of the call, and how it ends
  recorded,    \* the RemovalCompleted row is in the journal
  mine,        \* inodes others wrote and did not delete themselves (history)
  latest,      \* the inode others last left at the source (history)
  late,        \* a change came behind the last check of what is taken (history)
  edits, faults

history == <<mine, latest, late, edits>>
vars == <<at, file, option, pc, error, recorded, mine, latest, late, edits, faults>>

Names == {"source", "guard", "target"}
Methods == {"permanent", "move", "copy"}
Steps == {"check", "link", "copy", "install", "match", "unlink", "rename", "absent", "verify",
          "relink", "restore", "rematch", "drop_guard", "record", "clean"}
Errors == {"none", "failed", "uncertain"}

Proven == 1
RecoveryCopy == 2
Inodes == 1..(MaxEdits + 2)
ProvenFile == [bytes |-> Original, time |-> 0]
Files == [bytes : Bytes \cup {Wrong}, time : 0..(MaxEdits + 1)]
NewInode == edits + 3
NewTime == edits + 1

Exists(n) == at[n] # None

\* ensure_source_entry_matches: identity, size, mode, time and contents.
SourceMatches == at["source"] = Proven /\ file[Proven] = ProvenFile

\* verify_recovery_file: contents, and what of the metadata is required.
RecoveryMatches(i) ==
  /\ file[i].bytes = ProvenFile.bytes
  /\ option.timestamps => file[i].time = ProvenFile.time

-----------------------------------------------------------------------------
Init ==
  /\ at = [n \in Names |-> IF n = "source" THEN Proven ELSE None]
  /\ file = [i \in Inodes |-> ProvenFile]
  /\ option \in [method : Methods, timestamps : BOOLEAN]
  /\ pc = "check" /\ error = "none" /\ recorded = FALSE
  /\ mine = {Proven} /\ latest = Proven /\ late = FALSE
  /\ edits = 0 /\ faults = 0

Goto(step) == pc' = step /\ UNCHANGED error
Fails(e, step) == pc' = step /\ error' = e
NoFault == UNCHANGED faults
Fault == faults < MaxFaults /\ faults' = faults + 1
Keeps == UNCHANGED <<at, file>>

\* The step's condition does not hold, or its system call fails.
Rejects(wrong, e, step) == ((wrong /\ NoFault) \/ Fault) /\ Fails(e, step) /\ Keeps
Continues(right, step) == right /\ NoFault /\ Goto(step) /\ Keeps

Points(name, inode) == at' = [at EXCEPT ![name] = inode] /\ UNCHANGED file
Rest == UNCHANGED <<option, recorded, history>>

-----------------------------------------------------------------------------
(* The guard. *)

CheckSource ==
  /\ pc = "check"
  /\ Rejects(~SourceMatches, "failed", "returned") \/ Continues(SourceMatches, "link")
  /\ Rest

\* linkat: whatever the source's name points to now.
CreateGuard ==
  /\ pc = "link"
  /\ \/ Rejects(~Exists("source"), "failed", "returned")
     \/ /\ Exists("source") /\ NoFault
        /\ Points("guard", at["source"])
        /\ Goto(CASE option.method = "permanent" -> "match"
                  [] option.method = "move" -> "rename"
                  [] option.method = "copy" -> "copy")
  /\ Rest

\* An error with nothing uncertain: the guard is dropped and unlinked.
DropGuard ==
  /\ pc = "drop_guard"
  /\ \/ NoFault /\ Points("guard", None)
     \/ Fault /\ Keeps
  /\ Goto("returned")
  /\ Rest

-----------------------------------------------------------------------------
(* remove_source_exact: match, unlink, look. *)

\* Faulty variant for LostOnlyProven: the identity is compared, the contents
\* are not.
MatchIdentity ==
  /\ pc = "match"
  /\ \/ Rejects(at["source"] # Proven, "failed", "drop_guard")
     \/ Continues(at["source"] = Proven, "unlink")
  /\ Rest

MatchSource ==
  /\ pc = "match"
  /\ Rejects(~SourceMatches, "failed", "drop_guard") \/ Continues(SourceMatches, "unlink")
  /\ Rest

UnlinkSource ==
  /\ pc = "unlink"
  /\ \/ Rejects(~Exists("source"), "uncertain", "relink")
     \/ Exists("source") /\ NoFault /\ Points("source", None) /\ Goto("absent")
  /\ Rest

\* Faulty variant for CleanFailureKeepsSource: an unlink without the proof of
\* absence counts as a plain failure.
CheckAbsentPlainly ==
  /\ pc = "absent" /\ option.method # "move"
  /\ Rejects(Exists("source"), "failed", "relink") \/ Continues(~Exists("source"), "record")
  /\ Rest

\* ensure_entry_absent, behind an unlink or a move.
CheckAbsent ==
  LET moved == option.method = "move" IN
  /\ pc = "absent"
  /\ \/ Rejects(Exists("source"), "uncertain", IF moved THEN "restore" ELSE "relink")
     \/ Continues(~Exists("source"), IF moved THEN "verify" ELSE "record")
  /\ Rest

\* restore_source_from_guard, its result ignored.
Relink ==
  /\ pc = "relink"
  /\ \/ (Exists("source") /\ NoFault /\ Keeps) \/ (Fault /\ Keeps)
     \/ ~Exists("source") /\ NoFault /\ Points("source", at["guard"])
  /\ Goto("returned")
  /\ Rest

-----------------------------------------------------------------------------
(* move_to_same_filesystem_recovery. *)

\* rename_at_noreplace: whatever the source's name points to now.
MoveToRecovery ==
  /\ pc = "rename"
  /\ \/ Rejects(~Exists("source") \/ Exists("target"), "uncertain", "returned")
     \/ /\ Exists("source") /\ ~Exists("target") /\ NoFault
        /\ at' = [at EXCEPT !["target"] = at["source"], !["source"] = None]
        /\ UNCHANGED file
        /\ Goto("absent")
  /\ Rest

\* Faulty variant for RecoveryHoldsProven: the moved item is taken for granted.
TrustRecovery == pc = "verify" /\ Continues(TRUE, "record") /\ Rest

VerifyRecovery ==
  LET right == Exists("target") /\ RecoveryMatches(at["target"]) IN
  /\ pc = "verify"
  /\ Rejects(~right, "uncertain", "restore") \/ Continues(right, "record")
  /\ Rest

RestoreSource ==
  /\ pc = "restore"
  /\ \/ Rejects(Exists("source"), "uncertain", "returned")
     \/ ~Exists("source") /\ NoFault /\ Points("source", at["guard"]) /\ Goto("rematch")
  /\ Rest

\* The restored source is compared with the proof: only then is the guard
\* dropped and the failure certain.
Rematch ==
  /\ pc = "rematch"
  /\ \/ Rejects(~SourceMatches, "uncertain", "returned")
     \/ SourceMatches /\ NoFault /\ Fails("failed", "drop_guard") /\ Keeps
  /\ Rest

-----------------------------------------------------------------------------
(* copy_to_cross_filesystem_recovery. *)

\* The source is opened, its metadata compared, and its bytes read into a
\* temporary file of the recovery root.
CopySource ==
  LET copied(b) == [bytes |-> b,
                    time |-> IF option.timestamps THEN ProvenFile.time ELSE MaxEdits + 1]
      same == at["source"] = Proven /\ file[Proven].time = ProvenFile.time
  IN
  /\ pc = "copy"
  /\ \/ Rejects(~same, "failed", "drop_guard")
     \/ \/ same /\ NoFault /\ file' = [file EXCEPT ![RecoveryCopy] = copied(file[Proven].bytes)]
           /\ UNCHANGED at /\ Goto("install")
        \/ same /\ Fault /\ file' = [file EXCEPT ![RecoveryCopy] = copied(Wrong)]
           /\ UNCHANGED at /\ Goto("install")
  /\ Rest

\* Verify the copy, give it its name without replacing another, verify again.
InstallRecovery ==
  LET right == RecoveryMatches(RecoveryCopy) /\ ~Exists("target") IN
  /\ pc = "install"
  /\ \/ ~right /\ NoFault /\ Fails("uncertain", "returned") /\ Keeps
     \/ right /\ NoFault /\ Points("target", RecoveryCopy) /\ Goto("match")
     \/ \E e \in {"failed", "uncertain"} :
          /\ Fault
          /\ Keeps \/ (right /\ Points("target", RecoveryCopy))
          /\ Fails(e, IF e = "failed" THEN "drop_guard" ELSE "returned")
  /\ Rest

-----------------------------------------------------------------------------
(* The row behind the removal. *)

\* Faulty variant for GuardOutlivesDoubt: the guard goes before the row.
CleanThenRecord ==
  /\ pc = "record"
  /\ Points("guard", None)
  /\ \/ NoFault /\ recorded' = TRUE /\ Goto("returned")
     \/ Fault /\ UNCHANGED recorded /\ Fails("uncertain", "returned")
  /\ UNCHANGED <<option, history>>

\* RemovalCompleted, or, when the write fails, a Recovery Review.
RecordRemoval ==
  /\ pc = "record"
  /\ \/ NoFault /\ recorded' = TRUE /\ Goto("clean")
     \/ Fault /\ UNCHANGED recorded /\ Fails("uncertain", "returned")
  /\ Keeps /\ UNCHANGED <<option, history>>

CleanGuard ==
  /\ pc = "clean"
  /\ \/ NoFault /\ Points("guard", None)
     \/ Fault /\ Keeps
  /\ Goto("returned")
  /\ Rest

Driver ==
  \/ CheckSource \/ CreateGuard \/ DropGuard
  \/ MatchSource \/ UnlinkSource \/ CheckAbsent \/ Relink
  \/ MoveToRecovery \/ VerifyRecovery \/ RestoreSource \/ Rematch
  \/ CopySource \/ InstallRecovery
  \/ RecordRemoval \/ CleanGuard

-----------------------------------------------------------------------------
(* Other programs and the machine. *)

LastLook == {"unlink", "absent", "record", "clean"}
Edited ==
  /\ pc \in Steps
  /\ edits < MaxEdits /\ edits' = edits + 1
  /\ late' = (late \/ (IF option.method = "move" THEN pc \in {"record", "clean"}
                                                 ELSE pc \in LastLook))
  /\ UNCHANGED <<option, pc, error, recorded, faults>>

\* Through a handle, which follows the file to its other names.
WriteInPlace ==
  /\ Edited
  /\ \E i \in mine, b \in Bytes :
       file' = [file EXCEPT ![i] = [bytes |-> b, time |-> NewTime]]
  /\ UNCHANGED <<at, mine, latest>>

\* A new file under the name, renamed over what is there.
Replace(name) ==
  /\ Edited
  /\ \E b \in Bytes : file' = [file EXCEPT ![NewInode] = [bytes |-> b, time |-> NewTime]]
  /\ at' = [at EXCEPT ![name] = NewInode]
  /\ mine' = (mine \ {at[name]}) \cup {NewInode}
  /\ latest' = IF name = "source" THEN NewInode ELSE latest

DeleteSource ==
  /\ Exists("source")
  /\ at' = [at EXCEPT !["source"] = None]
  /\ mine' = mine \ {at["source"]}
  /\ latest' = None
  /\ UNCHANGED file
  /\ Edited

\* Someone else puts a file at the recovery target.
OccupyTarget == ~Exists("target") /\ Replace("target")

Crash ==
  /\ pc \in Steps /\ pc' = "crashed"
  /\ UNCHANGED <<at, file, option, error, recorded, history, faults>>

Next ==
  \/ Driver
  \/ WriteInPlace \/ Replace("source") \/ DeleteSource \/ OccupyTarget
  \/ Crash

Spec == Init /\ [][Next]_vars

-----------------------------------------------------------------------------
(* Properties. *)

Reachable(i) == \E n \in Names : at[n] = i

\* Every variable holds a value the program can hold there.
RemovalTypeOK ==
  /\ at \in [Names -> Inodes \cup {None}]
  /\ file \in [Inodes -> Files]
  /\ option \in [method : Methods, timestamps : BOOLEAN]
  /\ pc \in Steps \cup {"returned", "crashed"}
  /\ error \in Errors
  /\ recorded \in BOOLEAN /\ late \in BOOLEAN
  /\ mine \subseteq Inodes /\ latest \in Inodes \cup {None}
  /\ edits \in 0..MaxEdits /\ faults \in 0..MaxFaults

\* The removal takes nothing but the file the proof names: whatever else is
\* written to the source or put in its place, and whatever someone puts at
\* the recovery target, keeps a name, unless the change came behind the last
\* look at what is taken.
LostOnlyProven ==
  \A i \in mine :
    \/ Reachable(i)
    \/ late
    \/ recorded /\ i = Proven /\ file[i] = ProvenFile

\* While no RemovalCompleted row vouches for the removal, the proven file has
\* a name, even if it was changed in the last moment; and an uncertain result
\* leaves the guard for the review.
GuardOutlivesDoubt ==
  /\ ~recorded /\ Proven \in mine => Reachable(Proven)
  /\ pc = "returned" /\ error = "uncertain" => Exists("guard")

\* A recoverable removal is recorded only when the recovery target holds what
\* the proof names.
RecoveryHoldsProven ==
  recorded /\ option.method # "permanent" =>
    late \/ (Exists("target") /\ RecoveryMatches(at["target"]))

\* A failure that is not uncertain is recorded as Unresolved, the source kept:
\* the source's name then shows what others left there last.  (A file that
\* took the source's place just before the move may have been moved instead;
\* it is then at the recovery target.)
CleanFailureKeepsSource ==
  pc = "returned" /\ error = "failed" /\ latest # None =>
    \/ at["source"] = latest
    \/ option.method = "move" /\ at["target"] = latest

=============================================================================
