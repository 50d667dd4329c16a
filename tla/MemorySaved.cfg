SPECIFICATION Spec
CONSTANTS
  Handlers = {h1}
  Contents = {budget, area}
  MaxFreezes = 2
  MaxDecisions = 2
  MaxEdits = 1
CHECK_DEADLOCK FALSE
PROPERTY SavedVerbatim
