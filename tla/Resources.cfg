CONSTANTS
  c1 = c1
  c2 = c2
  Calls = {c1, c2}
  Other = Other
  None = None
SYMMETRY CallSymmetry
SPECIFICATION Spec
INVARIANTS Inv InfoWasTrue EnsureSawIt PutIsOwn AbsenceWasTrue
CHECK_DEADLOCK FALSE
