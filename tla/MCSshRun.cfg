\* One file, two runs; the user edits once, two operations may fail.
CONSTANTS
  NumFiles = 1
  NumActions = 2
  Operations = {"copy", "overwrite", "remove_source", "remove_destination"}
  Contents = {c1, c2}
  NoContent = NoContent
  MaxProgress = 1
  MaxTime = 0
  DestinationCleanup = TRUE
  MaxAttempts = 2
  MaxRuns = 2
  MaxEdits = 1
  MaxFaults = 2
SPECIFICATION SshSpec
SYMMETRY ContentSymmetry
INVARIANTS
  RecoveredWasProven
  RecoveryNeverHidden
  InstalledIsShown
  EndsAccountedFor
  ReadableUnlessTorn
CHECK_DEADLOCK FALSE
