------------------------- MODULE VerifiedReplacement -------------------------
(***************************************************************************)
(* One call of perform_verified_replacement_with_cancel_and_metadata_and_  *)
(* partial: the source is transferred to a temporary sibling of the        *)
(* destination and proven there, the old destination is renamed aside, the *)
(* new one is installed and proven in place, and every failure after the   *)
(* install is rolled back.  All renames are renameat2(RENAME_NOREPLACE).   *)
(* While the call runs the user may edit, replace, delete or create the    *)
(* source and the destination, cancel the run or kill the process, and I/O *)
(* operations may fail.                                                    *)
(*                                                                         *)
(* Data.  An item is a regular file: its inode, its bytes and its          *)
(* modification time.  A FileMetadataProof is the inode and the time (two  *)
(* writes never leave the same time), a ContentProof the bytes.  Paths are *)
(* the roles a name plays in the call.  A capture hashes between two equal *)
(* metadata readings, so it is one step.                                   *)
(***************************************************************************)
EXTENDS Naturals

CONSTANTS
  Bytes,       \* contents a file of the user may have
  Wrong,       \* what a transfer that went wrong leaves behind
  NoItem,      \* nothing at a path
  MaxEdits,    \* bound: changes by the user
  MaxFaults    \* bound: I/O operations that fail

Item == [inode : Nat, bytes : Bytes \cup {Wrong}, time : Nat]

ASSUME ReplacementAssumption ==
  /\ Wrong \notin Bytes
  /\ NoItem \notin Item
  /\ MaxEdits \in Nat
  /\ MaxFaults \in Nat

VARIABLES
  at,          \* the item at the path of each role
  options,     \* timestamps are required; partial transfers are kept
  pc, error,   \* the next step of the call, and the error it will return
  before,      \* source_before
  seen,        \* previous_metadata; NoItem while previous_destination is None
  installed,   \* installed_metadata
  cancel,      \* should_cancel()
  mine,        \* items the user made and has not changed since (history)
  late,        \* the user changed the destination after its last check (history)
  blind,       \* the lookup behind a failed install could not see (history)
  edits, faults

call == <<options, before, seen, installed, blind>>
user == <<cancel, mine, late, edits>>
vars == <<at, options, pc, error, before, seen, installed, cancel, mine, late, blind,
          edits, faults>>

Shared == {"source", "destination"}
Hidden == {"temporary", "previous", "failed"}
Roles == Shared \cup Hidden
Steps == {"begin", "transfer", "stage", "inspect", "preserve", "install", "examine", "prove",
          "recapture", "confirm", "probe", "identify", "set_aside", "restore", "clean_up"}
Errors == {"none", "cancelled", "failed", "uncertain"}

\* Inodes and times 1 and 2 are the initial ones, 3 is the temporary file.
TemporaryInode == 3
Stamp == 4 + edits

Exists(r) == at[r] # NoItem
SameFile(i, j) == i.inode = j.inode /\ i.time = j.time
Matches(r, proof) == Exists(r) /\ SameFile(at[r], proof)
Proves(r, proof) == Exists(r) /\ at[r].bytes = proof.bytes

-----------------------------------------------------------------------------
Init ==
  /\ \E s \in Bytes, d \in Bytes \cup {NoItem} :
       at = [r \in Roles |->
               CASE r = "source" -> [inode |-> 1, bytes |-> s, time |-> 1]
                 [] r = "destination" /\ d # NoItem -> [inode |-> 2, bytes |-> d, time |-> 2]
                 [] OTHER -> NoItem]
  /\ options \in [timestamps : BOOLEAN, keep_partial : BOOLEAN]
  /\ pc = "begin" /\ error = "none"
  /\ before = NoItem /\ seen = NoItem /\ installed = NoItem
  /\ cancel = FALSE /\ late = FALSE /\ blind = FALSE
  /\ mine = {at[r] : r \in Shared} \ {NoItem}
  /\ edits = 0 /\ faults = 0

Goto(step) == pc' = step /\ UNCHANGED error
Fails(e, step) == pc' = step /\ error' = e
NoFault == UNCHANGED faults
Fault == faults < MaxFaults /\ faults' = faults + 1

\* The step finds should_cancel() true before it changes anything.
Cancelled(step) == cancel /\ NoFault /\ Fails("cancelled", step) /\ UNCHANGED <<at, call>>
\* The step's I/O fails, or what it reads is not what it must be.
Rejects(wrong, e, step) ==
  /\ (wrong /\ NoFault) \/ Fault
  /\ Fails(e, step)
  /\ UNCHANGED <<at, call>>

\* Faulty variant for NoUserItemLost: rename(2), which replaces the new name.
RenamesOver(from, to) ==
  /\ Exists(from)
  /\ at' = [at EXCEPT ![to] = at[from], ![from] = NoItem]

\* rename_without_replacement: refused when the new name exists.
Renames(from, to) ==
  /\ Exists(from) /\ ~Exists(to)
  /\ at' = [at EXCEPT ![to] = at[from], ![from] = NoItem]

-----------------------------------------------------------------------------
(* The replacement. *)

CaptureSource ==
  /\ pc = "begin"
  /\ \/ Cancelled("returned")
     \/ Rejects(~Exists("source"), "failed", "returned")
     \/ /\ Exists("source") /\ NoFault
        /\ before' = at["source"]
        /\ at' = [at EXCEPT !["temporary"] =
                    [inode |-> TemporaryInode, bytes |-> Wrong, time |-> TemporaryInode]]
        /\ Goto("transfer")
        /\ UNCHANGED <<options, seen, installed, blind>>
  /\ UNCHANGED user

\* The copy process reads the source as it is now; a fault may leave wrong
\* bytes behind a clean exit.
Transfer ==
  /\ pc = "transfer"
  /\ \/ Cancelled("clean_up")
     \/ Rejects(~Exists("source"), "failed", "clean_up")
     \/ /\ \/ NoFault /\ Exists("source")
              /\ at' = [at EXCEPT !["temporary"].bytes = at["source"].bytes]
           \/ Fault /\ UNCHANGED at
        /\ Goto("stage")
        /\ UNCHANGED call
  /\ UNCHANGED user

\* Faulty variant for NeverShowsUnproven: the copy's bytes are not read back.
SourceUnchanged(staged) == Matches("source", before)
StagedIsProven(staged) == staged.bytes = before.bytes /\ Matches("source", before)

\* Sync, apply the required metadata, prove the copy, and prove the source
\* unchanged since before.
Stage ==
  LET staged == IF options.timestamps
                  THEN [at["temporary"] EXCEPT !.time = before.time]
                  ELSE at["temporary"]
  IN
  /\ pc = "stage"
  /\ \/ Cancelled("clean_up")
     \/ Rejects(FALSE, "failed", "clean_up")
     \/ /\ NoFault
        /\ at' = [at EXCEPT !["temporary"] = staged]
        /\ IF StagedIsProven(staged)
             THEN Goto("inspect")
             ELSE Fails("failed", "clean_up")
        /\ UNCHANGED call
  /\ UNCHANGED user

Inspect ==
  /\ pc = "inspect"
  /\ \/ Cancelled("clean_up")
     \/ \E e \in {"failed", "uncertain"} : Rejects(FALSE, e, "clean_up")
     \/ /\ NoFault
        /\ seen' = at["destination"]
        /\ IF Exists("destination") THEN Goto("preserve") ELSE Goto("install")
        /\ UNCHANGED <<at, options, before, installed, blind>>
  /\ UNCHANGED user

\* Rename the old destination aside and check that it is the one inspected.
\* A refused rename leaves previous_destination unset.
Preserve ==
  /\ pc = "preserve"
  /\ \/ /\ (~Exists("destination") /\ NoFault) \/ Fault
        /\ seen' = NoItem
        /\ Fails("failed", "clean_up")
        /\ UNCHANGED <<at, options, before, installed, blind>>
     \/ /\ Renames("destination", "previous")
        /\ \/ NoFault /\ (IF SameFile(at["destination"], seen)
                            THEN Goto("install") ELSE Fails("uncertain", "restore"))
           \/ Fault /\ Fails("uncertain", "restore")
        /\ UNCHANGED call
  /\ UNCHANGED user

Install ==
  /\ pc = "install"
  /\ \/ Cancelled("probe")
     \/ Rejects(Exists("destination"), "failed", "probe")
     \/ Renames("temporary", "destination") /\ NoFault /\ Goto("examine") /\ UNCHANGED call
  /\ UNCHANGED user

\* Identify what was installed and match its metadata with the source's.
Examine ==
  /\ pc = "examine"
  /\ \/ Rejects(~Exists("destination"), "failed", "probe")
     \/ /\ Exists("destination") /\ NoFault
        /\ installed' = at["destination"]
        /\ IF options.timestamps /\ at["destination"].time # before.time
             THEN Fails("failed", "identify")
             ELSE IF cancel THEN Fails("cancelled", "identify") ELSE Goto("prove")
        /\ UNCHANGED <<at, options, before, seen, blind>>
  /\ UNCHANGED user

ProveInstalled ==
  /\ pc = "prove"
  /\ \/ Cancelled("identify")
     \/ Rejects(~Proves("destination", before), "failed", "identify")
     \/ /\ Proves("destination", before)
        /\ NoFault /\ Goto("recapture") /\ UNCHANGED <<at, call>>
  /\ UNCHANGED user

RecaptureInstalled ==
  /\ pc = "recapture"
  /\ \/ Rejects(~Exists("destination"), "failed", "identify")
     \/ /\ Exists("destination") /\ NoFault
        /\ IF SameFile(at["destination"], installed)
             THEN Goto("confirm") ELSE Fails("uncertain", "identify")
        /\ UNCHANGED <<at, call>>
  /\ UNCHANGED user

\* Faulty variant for SuccessIsProven: no final look at the source.
ConfirmNothing ==
  /\ pc = "confirm"
  /\ \/ Cancelled("identify")
     \/ NoFault /\ Goto("returned") /\ UNCHANGED <<at, call>>
  /\ UNCHANGED user

ConfirmSource ==
  /\ pc = "confirm"
  /\ \/ Cancelled("identify")
     \/ Rejects(~Matches("source", before), "failed", "identify")
     \/ Matches("source", before) /\ NoFault /\ Goto("returned") /\ UNCHANGED <<at, call>>
  /\ UNCHANGED user

-----------------------------------------------------------------------------
(* restore_after_failed_install, restore_previous, cleanup_temporary. *)

\* Nothing was identified at the destination: if anything is there, it cannot be
\* told what.  A lookup that fails reads as nothing there (symlink_metadata().is_ok()).
Probe ==
  /\ pc = "probe"
  /\ \/ Exists("destination") /\ NoFault /\ Fails("uncertain", "clean_up") /\ UNCHANGED blind
     \/ ~Exists("destination") /\ NoFault /\ Goto("restore") /\ UNCHANGED blind
     \/ Fault /\ Goto("restore") /\ blind' = TRUE
  /\ UNCHANGED <<at, options, before, seen, installed, user>>

Identify ==
  /\ pc = "identify"
  /\ \/ Rejects(~(Matches("destination", installed) /\ Proves("destination", before)),
                "uncertain", "clean_up")
     \/ /\ Matches("destination", installed) /\ Proves("destination", before)
        /\ NoFault /\ Goto("set_aside") /\ UNCHANGED <<at, call>>
  /\ UNCHANGED user

\* Rename the installed file to its recovery path and check that it is the
\* one identified.  Without a previous destination the outcome is uncertain.
SetAside ==
  /\ pc = "set_aside"
  /\ \/ Rejects(~Exists("destination"), "uncertain", "clean_up")
     \/ /\ Renames("destination", "failed")
        /\ \/ NoFault /\ (IF SameFile(at["destination"], installed) /\ seen # NoItem
                            THEN Goto("restore") ELSE Fails("uncertain", "clean_up"))
           \/ Fault /\ Fails("uncertain", "clean_up")
        /\ UNCHANGED call
  /\ UNCHANGED user

\* Faulty variant for CleanFailureRestores: the previous destination stays aside.
RestoreNothing ==
  pc = "restore" /\ NoFault /\ Goto("clean_up") /\ UNCHANGED <<at, call, user>>

RestorePrevious ==
  /\ pc = "restore"
  /\ \/ seen = NoItem /\ NoFault /\ Goto("clean_up") /\ UNCHANGED <<at, call>>
     \/ seen # NoItem /\ Rejects(Exists("destination"), "uncertain", "clean_up")
     \/ /\ seen # NoItem /\ Renames("previous", "destination")
        /\ NoFault /\ Goto("clean_up") /\ UNCHANGED call
  /\ UNCHANGED user

CleanUp ==
  /\ pc = "clean_up"
  /\ \/ options.keep_partial /\ NoFault /\ Goto("returned") /\ UNCHANGED <<at, call>>
     \/ /\ ~options.keep_partial /\ NoFault
        /\ at' = [at EXCEPT !["temporary"] = NoItem]
        /\ Goto("returned") /\ UNCHANGED call
     \/ /\ ~options.keep_partial /\ Exists("temporary") /\ Rejects(FALSE, "uncertain", "returned")
  /\ UNCHANGED user

Driver ==
  \/ CaptureSource \/ Transfer \/ Stage \/ Inspect \/ Preserve \/ Install \/ Examine
  \/ ProveInstalled \/ RecaptureInstalled \/ ConfirmSource
  \/ Probe \/ Identify \/ SetAside \/ RestorePrevious \/ CleanUp

-----------------------------------------------------------------------------
(* The user and the machine. *)

\* In place, by a new file under the same name, or by removing it.
Edits(r) ==
  /\ pc \in Steps
  /\ edits < MaxEdits /\ edits' = edits + 1
  /\ \E item \in {NoItem}
                 \cup [inode : {Stamp}, bytes : Bytes, time : {Stamp}]
                 \cup (IF Exists(r)
                         THEN [inode : {at[r].inode}, bytes : Bytes, time : {Stamp}] ELSE {}) :
       /\ item # at[r]
       /\ at' = [at EXCEPT ![r] = item]
       /\ mine' = (mine \ {at[r]}) \cup ({item} \ {NoItem})
  /\ late' = (late \/ (r = "destination" /\ pc = "confirm"))
  /\ UNCHANGED <<call, pc, error, cancel, faults>>

Cancel ==
  /\ pc \in Steps /\ ~cancel /\ cancel' = TRUE
  /\ UNCHANGED <<at, call, pc, error, mine, late, edits, faults>>

Crash ==
  /\ pc \in Steps /\ pc' = "crashed"
  /\ UNCHANGED <<at, call, error, user, faults>>

Next == Driver \/ (\E r \in Shared : Edits(r)) \/ Cancel \/ Crash

Spec == Init /\ [][Next]_vars

-----------------------------------------------------------------------------
(* Properties. *)

\* Every variable holds a value the program can hold there.
TypeOK ==
  /\ at \in [Roles -> Item \cup {NoItem}]
  /\ options \in [timestamps : BOOLEAN, keep_partial : BOOLEAN]
  /\ pc \in Steps \cup {"returned", "crashed"}
  /\ error \in Errors
  /\ before \in Item \cup {NoItem}
  /\ seen \in Item \cup {NoItem}
  /\ installed \in Item \cup {NoItem}
  /\ cancel \in BOOLEAN /\ late \in BOOLEAN /\ blind \in BOOLEAN
  /\ mine \subseteq Item
  /\ edits \in 0..MaxEdits /\ faults \in 0..MaxFaults

\* What the user has at the source or the destination is never destroyed by
\* the call, however edits, failures, a cancellation and a crash interleave
\* with its renames: it stays at its path or under a recovery name.
NoUserItemLost == \A i \in mine : \E r \in Roles \ {"temporary"} : at[r] = i

\* At no moment, not even after a crash, does the destination's own name show
\* anything but a file of the user or a copy proven equal to the source.
NeverShowsUnproven ==
  \/ at["destination"] \in mine \cup {NoItem}
  \/ Proves("destination", before)

\* An error other than RecoveryUncertain tells the caller that nothing has
\* to be recovered: no previous destination is left aside, no copy is left
\* installed, the temporary file is gone unless it is kept for a resume, and
\* what the user has is where the user left it.  Two exceptions are the code's.
\* A file the user put in the place of the installed copy, with the same bytes,
\* may be taken for it.  And where there was no destination before, a lookup
\* that fails behind a failed install leaves the copy, proven, where it is and
\* returns the plain error of the install (restore_after_failed_install takes
\* every error of lstat for "not there").
CleanFailureRestores ==
  pc = "returned" /\ error \in {"failed", "cancelled"} =>
    /\ ~Exists("previous")
    /\ \/ at["destination"] \in mine \cup {NoItem}
       \/ blind /\ seen = NoItem /\ Proves("destination", before)
    /\ Exists("temporary") => options.keep_partial
    /\ \A i \in mine :
         \/ \E r \in Shared : at[r] = i
         \/ at["failed"] = i /\ i.bytes = before.bytes

\* A VerifiedReplacement is returned only when the source is still what was
\* captured at the start, the destination shows its bytes and its required
\* time (unless it was changed behind the last check), and the previous
\* destination is the one inspected.
SuccessIsProven ==
  pc = "returned" /\ error = "none" =>
    /\ at["source"] = before
    /\ \/ late
       \/ /\ Proves("destination", before)
          /\ options.timestamps => at["destination"].time = before.time
    /\ seen = NoItem => ~Exists("previous")
    /\ seen # NoItem => Matches("previous", seen) /\ at["previous"] = seen

=============================================================================
