CONSTANTS
  c1 = c1
  c2 = c2
  c3 = c3
  Calls = {c1, c2, c3}
  None = None
  MaxCorr = 2
  MaxAbandon = 1
SPECIFICATION FairSpec
INVARIANTS Inv OffsetIsOwn AppendedOnce IdleConnectionIsClean
PROPERTIES EveryCallEnds StaleConnectionIsDropped PromiseSpec
CHECK_DEADLOCK FALSE
