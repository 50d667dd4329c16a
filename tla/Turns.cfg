SPECIFICATION Spec
CONSTANTS
  Convs = {c1, c2}
  Turns = {t1, t2, t3}
  Requests = {r1, r2}
  Handlers = {h1, h2}
  None = None
INVARIANT SingleFlight
INVARIANT NoOrphanRows
INVARIANT OkIsDurableWithinLease
PROPERTY SettledForGood
SYMMETRY Symmetry
PROPERTY ImplementsLedger
