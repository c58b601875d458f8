CONSTANTS
  Merchants = {m1}
  Global = Global
  Putters = {p1, p2}
  Seeders = {s1}
  Deciders = {d1}
  None = None
SPECIFICATION ConfigFairSpec
INVARIANTS
  VersionsAreAHistory
  DefaultIsFound
  DecisionWasInForce
PROPERTIES
  PutIsAnswered
  VersionsAdvance
CHECK_DEADLOCK FALSE
