CONSTANTS
  FailureCodes <- MCFailureCodes
  Amounts <- MCAmounts
  Counts <- MCCounts
  Risks <- MCRisks
  Hours <- MCHours
  ActiveConfigs <- MCActiveConfigs
SPECIFICATION GateSpec
INVARIANTS
  ApprovedIffPermitted
  SkipIsSound
PROPERTIES
  NeverLooser
CHECK_DEADLOCK FALSE
