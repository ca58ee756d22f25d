SPECIFICATION Spec
CONSTANTS
  Clients = {c1}
  Advisors = {a1, a2}
  Supervisors = {s1}
  NULL = NULL
  Tickets = {t1}
  Requests = {r1, r2}
  MaxVersion = 6
  Endpoints <- AllButReopen
SYMMETRY Symmetry
INVARIANT HistoryHasNoGap
PROPERTIES ConditionalWriteSeesLatest ImplementsWorkflow
