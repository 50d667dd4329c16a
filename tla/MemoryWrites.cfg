SPECIFICATION Spec
CONSTANTS
  Handlers = {h1, h2}
  Contents = {budget, area}
  MaxFreezes = 3
  MaxDecisions = 3
  MaxEdits = 1
SYMMETRY Symmetry
CHECK_DEADLOCK FALSE
INVARIANT RestoredInOrder
INVARIANT OneRecordPerHash
INVARIANT NoCandidateIsLost
PROPERTY KeysAreFresh
