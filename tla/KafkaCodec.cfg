CONSTANTS
  None = None
  Keys <- McKeys
  Values <- McValues
  MaxRecords = 2
SPECIFICATION Spec
INVARIANTS RoundTrip OneBitIsNoticed CutIsNoticed
CHECK_DEADLOCK FALSE
