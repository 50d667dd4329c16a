SPECIFICATION MemorySpec
CONSTANTS
  Procs = {p1}
  Forkers = {p1}
  Keys = {k1}
  None = None
  MaxConvs = 3
  MaxTurns = 7
  MaxStarts = 2
  MaxWiped = 0
  MaxEpisodes = 1
INVARIANT SeesOnlyWhatItInherited
CHECK_DEADLOCK FALSE
