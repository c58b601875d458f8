CONSTANTS
  Cases = {c1}
  Handlers = {h1}
  Workers = {w1}
  Reviewers = {r1}
  Actions <- MCFewActions
  None = None
  MaxRetryCount = 1
  MaxInterventions = 2
  MaxRows = 16
  MaxCrashes = 1
SPECIFICATION FairSpec
PROPERTIES
  ReceivedIsProcessed
CHECK_DEADLOCK FALSE
