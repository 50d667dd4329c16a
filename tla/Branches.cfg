SPECIFICATION MemorySpec
CONSTANTS
  Procs = {p1, p2}
  Forkers = {p1}
  Keys = {}
  None = None
  MaxConvs = 3
  MaxTurns = 5
  MaxStarts = 3
  MaxWiped = 1
  MaxEpisodes = 1
INVARIANT MemoryTypeOK
INVARIANT NoHalfTurns
INVARIANT InheritsUpToTheCut
INVARIANT SameSlotSamePast
INVARIANT SeesItsPast
CHECK_DEADLOCK FALSE
