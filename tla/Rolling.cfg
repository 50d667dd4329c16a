CONSTANTS
  Pools = {p1, p2}
  Servers = {p1, p2}
  Workers = {p2}
  Window = 2
  MaxTurns = 4
  MaxFaults = 2
  MaxFailed = 1
  Blank = TRUE
  None = None
SPECIFICATION Spec
INVARIANT TypeOK
INVARIANT TurnReadsTheTranscript
INVARIANT FoldsAreKept
