\* Two paths; the user edits twice, one operation may fail.
CONSTANTS
  NumPaths = 2
  Contents = {c1, c2}
  Absent = Absent
  MaxEdits = 2
  MaxFaults = 1
  MaxRuns = 2
SPECIFICATION Spec
SYMMETRY ContentSymmetry
CONSTRAINT StillToSee
INVARIANTS
  CleanRunMirrors
  BaselineWasAgreed
  DeletesWhatBothHad
  RowsTellTheTruth
CHECK_DEADLOCK FALSE
