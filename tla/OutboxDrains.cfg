SPECIFICATION FairSpec
CONSTANTS
  MaxJobs = 2
  Pools = {p1, p2}
  Convs = {c1}
  MaxAttempts = 2
  MaxFaults = 2
  None = None
  Gone = Gone
PROPERTY QueueDrains
