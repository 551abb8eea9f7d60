\* One run over two files, which the user may edit once and one operation may fail; it may crash.
CONSTANTS
  NumFiles = 2
  NumActions = 4
  Operations = {"copy", "overwrite", "remove_source", "remove_destination"}
  Contents = {c1, c2}
  NoContent = NoContent
  MaxProgress = 1
  MaxTime = 0
  DestinationCleanup = TRUE
  MaxRuns = 1
  MaxEdits = 1
  MaxFaults = 1
SPECIFICATION RunSpec
SYMMETRY ContentSymmetry
INVARIANTS
  RemovalNeverHidden
  TakenWasProven
  DrainedIsTrue
  RemovedInOrder
  JournalReadable
  NothingLeftOpen
PROPERTIES
  FilesFollowJournal
CHECK_DEADLOCK FALSE
