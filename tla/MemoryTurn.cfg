CONSTANTS
  c1 = c1
  c2 = c2
  Calls = {c1, c2}
SYMMETRY CallSymmetry
SPECIFICATION Spec
INVARIANTS Inv StreamComesFirst AckSurvives RefusalIsFinal TwiceOnlyInDoubt
CHECK_DEADLOCK FALSE
