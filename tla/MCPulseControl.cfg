SPECIFICATION FairSpec
CONSTANTS
  Subscribes = {s1, s2}
  Updates = {u1, u2}
  CloseCodes = {2, 4}
INVARIANTS
  TypeOK OneInitialMessage SuccessMeansAccepted
  RefusalKeepsCode LastAckIsActive
PROPERTY EveryCallReturns
CHECK_DEADLOCK FALSE
