CONSTANTS
  Cases = {c1}
  Handlers = {h1, h2}
  Workers = {w1}
  Reviewers = {r1}
  Actions <- MCActions
  None = None
  MaxRetryCount = 1
  MaxInterventions = 2
  MaxRows = 16
  MaxCrashes = 1
SPECIFICATION FairSpec
INVARIANTS
  TypeOK
  AuditTrailIsPath
  PipelineRunsOnce
PROPERTIES
  JobsAreSerial
  PublishedIsProcessed
  QueueDrains
  RowIsFreed
  TerminalIsFinal
CHECK_DEADLOCK FALSE
