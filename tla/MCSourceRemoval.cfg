\* Every removal method, three changes and two failures at any step.
CONSTANTS
  a = a
  b = b
  Original = a
  Bytes = {a, b}
  Wrong = wrong
  None = None
  MaxEdits = 3
  MaxFaults = 2
SPECIFICATION Spec
INVARIANTS
  LostOnlyProven
  GuardOutlivesDoubt
  RecoveryHoldsProven
  CleanFailureKeepsSource
CHECK_DEADLOCK FALSE
