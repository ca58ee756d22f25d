SPECIFICATION LimiterSpec
CONSTANTS
  Logins = {r1, r2}
  MaxAttempts = 4
  Window = 2
  Block = 2
  MaxTicks = 5
  MaxRows = 2
  NONE = NONE
SYMMETRY Symmetry
INVARIANTS RestartSlack AttemptSlack
PROPERTIES BlockHolds
CHECK_DEADLOCK FALSE
