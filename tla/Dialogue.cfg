SPECIFICATION DialogueSpec
CONSTANTS
  c1 = c1
  c2 = c2
  a1 = a1
  Categories = {c1, c2}
  Library = {a1, a2}
  NULL = NULL
  Messages <- SomeMessages
  MaxTurns = 5
  MaxClarifications = 2
  MaxOptions = 2
INVARIANTS DialogueTypeOK DraftIsNeverStuck ContextIsTheLatest ClarificationsAreBounded
PROPERTIES OrdinalNeedsAllShown ImplementsLifecycle
CHECK_DEADLOCK FALSE
