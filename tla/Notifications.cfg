SPECIFICATION Spec
CONSTANTS
  Keys = {k1, k2}
  Critical = {k1}
  Audited = {k1, k2}
  Requests = {r1, r2}
  MaxMails = 2
  NULL = NULL
SYMMETRY Symmetry
INVARIANTS CriticalIsStored CriticalMailedOnce
PROPERTY NoMailOverRow
