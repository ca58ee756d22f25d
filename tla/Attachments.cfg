SPECIFICATION Spec
CONSTANTS
  Clients = {c1}
  Advisors = {a1}
  Supervisors = {}
  NULL = NULL
  Statuses = {"EN_PROCESO", "CERRADO"}
  Requests = {r1, r2}
  Keys = {k1, k2, k3}
  Sizes = {2, 3}
  MaxFileSize = 3
  MaxFiles = 1
  MaxTotal = 2
  MaxDeletions = 3
SYMMETRY Symmetry
INVARIANTS ActiveRowHasFile FilesAreAccountedFor QuotaSlack
PROPERTY TerminalKeepsAttachments
