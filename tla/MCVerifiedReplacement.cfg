\* One replacement: three changes by the user and two failing operations at any step.
CONSTANTS
  a = a
  b = b
  Bytes = {a, b}
  Wrong = wrong
  NoItem = NoItem
  MaxEdits = 3
  MaxFaults = 2
SPECIFICATION Spec
SYMMETRY ByteSymmetry
INVARIANTS
  NoUserItemLost
  NeverShowsUnproven
  CleanFailureRestores
  SuccessIsProven
CHECK_DEADLOCK FALSE
