SPECIFICATION Spec
CONSTANTS
  Calls = {c1, c2, c3}
  Keys = {k1, k2}
  MaxFaults = 2
  None = None
SYMMETRY Sym
INVARIANT AtMostOnce
INVARIANT SuccessIsWritten
INVARIANT AnswersAgree
