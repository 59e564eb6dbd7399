CONSTANTS
  Bytes = {0, 77, 255}
  Letters = {0, 63}
  MaxBytes = 4
  MaxChars = 5
  None = None
SPECIFICATION Spec
INVARIANTS OwnValuesReturn ReadersAgree
CHECK_DEADLOCK FALSE
