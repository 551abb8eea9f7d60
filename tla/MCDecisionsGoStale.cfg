\* Two paths, one run: the counterexample needs no edit and no fault.
CONSTANTS
  NumPaths = 2
  Contents = {c1, c2}
  Absent = Absent
  MaxEdits = 0
  MaxFaults = 0
  MaxRuns = 1
SPECIFICATION Spec
INVARIANTS UnchangedIsNotStale
CHECK_DEADLOCK FALSE
