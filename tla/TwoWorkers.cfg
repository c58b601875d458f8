CONSTANTS
  Cases = {c1}
  Handlers = {h1}
  Workers = {w1, w2}
  Reviewers = {r1}
  Actions <- MCFewActions
  None = None
  MaxRetryCount = 1
  MaxInterventions = 2
  MaxRows = 16
  MaxCrashes = 0
SPECIFICATION Spec
INVARIANTS
  PipelineRunsOnce
CHECK_DEADLOCK FALSE
