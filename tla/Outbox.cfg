SPECIFICATION Spec
CONSTANTS
  MaxJobs = 2
  Pools = {p1, p2}
  Convs = {c1, c2}
  MaxAttempts = 2
  MaxFaults = 2
  None = None
  Gone = Gone
SYMMETRY Symmetry
INVARIANT SerialWithinConversation
INVARIANT CompletedTookEffect
INVARIANT ErasureStopsJobs
PROPERTY ResultIsSavedOnce
PROPERTY TombstonesStay
