SPECIFICATION HistorySpec
CONSTANTS
  NULL = NULL
  Requests = {r1, r2}
  Operations <- AllOperations
  FirstResponse = 1
  Resolution = 2
  Warning = 1
  MaxTime = 6
  MaxReopens = 2
  OverlapTime = 2
  OverlapReopens = 0
SYMMETRY Symmetry
INVARIANTS PausesCreditedOnce NoticesHaveFlags EvaluationSettles
PROPERTY PauseFreezesUnlessAnswered
