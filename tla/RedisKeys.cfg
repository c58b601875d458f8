SPECIFICATION RedisSpec
CONSTANTS
  Cases = {c1}
  Recorders = {r1, r2}
  CooldownSeconds = 1
  VelocityWindow = 3
  VelocityThreshold = 2
  MaxDailyAttempts = 2
  DaySeconds = 3
  MaxClock = 6
  Requests = {q1, q2, q3}
  WindowSeconds = 2
  MaxRequests = 2
CHECK_DEADLOCK FALSE
CONSTRAINT OneOfThem
SYMMETRY Symmetry
INVARIANTS
  CountedForItsWindow
  RefusedOnlyWhenFull
PROPERTIES
  NotStoppedByOldAttempts
