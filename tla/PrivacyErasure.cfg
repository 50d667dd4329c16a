SPECIFICATION Spec
CONSTANTS
  Pools = {p1, p2}
  Writers = {w1, w2}
  Convs = {c1}
  Home <- HomeOf
  MaxFaults = 2
  None = None
INVARIANT RowsOutliveThreads
PROPERTY CompleteErases
PROPERTY CredentialsGoLast
PROPERTY BarrierIsLifted
CHECK_DEADLOCK FALSE
