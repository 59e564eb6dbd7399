CONSTANTS
  w1 = w1
  w2 = w2
  Workers = {w1, w2}
  Msgs = {1, 2}
  Batch = 2
  MaxDeliver = 2
  MaxFaults = 2
SPECIFICATION FairSpec
INVARIANTS Inv AckedWasHandled OneHandlingPerDelivery UnseenIsAccounted
PROPERTIES TakenWhileOut DeliverySpec EveryMessageSettles
CHECK_DEADLOCK TRUE
