\* The fair specification, without symmetry: one file, whose plan has two actions.
CONSTANTS
  NumFiles = 1
  NumActions = 2
  Operations = {"copy", "overwrite", "remove_source", "remove_destination"}
  Contents = {c1}
  NoContent = NoContent
  MaxProgress = 1
  MaxTime = 0
  DestinationCleanup = TRUE
  MaxRuns = 2
  MaxEdits = 1
  MaxFaults = 1
SPECIFICATION FairRunSpec
INVARIANTS
  JournalTakesEveryRow
PROPERTIES
  RunReconciles
CHECK_DEADLOCK FALSE
