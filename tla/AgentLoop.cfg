CONSTANTS
  Actions = {retry, stop}
  MaxSteps = 3
  MaxCalls = 2
  MaxDeliveries = 2
  None = None
SPECIFICATION AgentSpec
INVARIANTS
  EveryCallIsAnswered
  RecordIsTheDecision
  FirstRecordCounts
PROPERTIES
  ProposeEnds
CHECK_DEADLOCK FALSE
