CONSTANTS
  Cases = {c1}
  Handlers = {h1}
  Workers = {w1, w2}
  Reviewers = {r1, r2}
  Actions <- MCFewActions
  None = None
  MaxRetryCount = 1
  MaxInterventions = 2
  MaxRows = 9
  MaxCrashes = 1
SPECIFICATION Spec
SYMMETRY Symmetry
INVARIANTS
  RowLockExclusive
  OnlyRestingStates
  RetryCap
  RecoveredWasCaptured
CHECK_DEADLOCK FALSE
