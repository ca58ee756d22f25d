SPECIFICATION HistorySpec
CONSTANTS
  Users = {u1, u2}
  Payloads = {p1, p2}
  Requests = {r1, r2}
  Endpoints <- AllEndpoints
  NULL = NULL
  MaxTurns = 1
  MaxMessages = 4
  OverlapResets = FALSE
SYMMETRY Symmetry
INVARIANT TurnLimitSlack
PROPERTIES OnlyEarlierRequestsWrite ImplementsConversion
