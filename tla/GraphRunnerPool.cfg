SPECIFICATION PoolSpec
CONSTANTS
  Requests = {t1, t2, t3}
  Runners = {a, b, c}
  First = a
  Capacity = 2
  MaxCalls = 2
  NoRunner = NoRunner
INVARIANT OneGeneration
INVARIANT SomebodyRestores
PROPERTY ServiceComesBack
