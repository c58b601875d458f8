SPECIFICATION ValueSpec
CONSTANTS
  FailureCodes <- MCCodes
  Candidates <- MCCandidates
  FirstTables <- MCFirstTables
  TrainingRows <- MCTrainingRows
  MinSampleSize = 3
  ActionCost <- MCActionCost
  DefaultProbability <- MCDefaultProbability
  FailureCode = "bank_timeout"
  Amount = 12
  RiskScore = 3
  RiskCost = 1
  PolicyConfigs <- MCPolicyConfigs
  ArmA = "RETRY"
  ArmB = "SEND_RECOVERY_LINK"
  MaxRows = 2
CHECK_DEADLOCK FALSE
INVARIANTS
  EstimatesAreRates
  IntelligentCaseIsBounded
  WinnerIsBetter
