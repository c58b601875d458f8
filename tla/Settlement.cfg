SPECIFICATION SettleSpec
CONSTANTS
  Payments = {p1, p2}
  Handlers = {h1, h2}
  None = None
  MaxEvents = 4
  MaxVerdicts = 2
  MaxCrashes = 1
CHECK_DEADLOCK FALSE
SYMMETRY Symmetry
INVARIANTS
  ReconciliationIsNotLost
  RecoveredCountsOnce
  UnverifiableIsNeverSettled
PROPERTIES
  VerdictFitsTheEvents
  VerdictsAreAtomic
