\* Two actions, the first of which may block the second; two contents so that a
\* proof, a plan and a result can disagree.
CONSTANTS
  NumActions = 2
  Operations = {"copy", "remove_source"}
  Contents = {c1, c2}
  NoContent = NoContent
  MaxProgress = 1
  MaxTime = 1
SPECIFICATION Spec
SYMMETRY ContentSymmetry
INVARIANTS
  FrontierInOrder
  RemovalRestsOnProof
  ReplayAccepts
  OpenActionsClassifiable
CHECK_DEADLOCK FALSE
