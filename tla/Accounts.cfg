SPECIFICATION Spec
CONSTANTS
  Requests = {r1, r2}
  Tokens = {t1, t2, t3}
  Sessions = {s1, s2}
  Passwords = {p1, p2}
  SessionLife = 1
  TokenLife = 1
  MaxClock = 1
  NULL = NULL
SYMMETRY Symmetry
INVARIANT LiveTokenSlack
PROPERTIES OneResetPerToken ChangeEndsSessions OnlyOverlapRevivesSessions
CHECK_DEADLOCK FALSE
