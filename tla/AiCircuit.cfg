SPECIFICATION FairSpec
CONSTANTS
  Requests = {r1, r2}
  Articles = {a1}
  MaxFailures = 2
  Cooldown = 3
  Window = 1
  MaxResponses = 2
  PerMinute = 1
  MaxVersion = 3
INVARIANT AnswersFromOwnContext
PROPERTIES CircuitCloses EveryRequestEnds
