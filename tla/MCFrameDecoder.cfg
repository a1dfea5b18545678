SPECIFICATION FairSpec
CONSTANTS
  MaxFrame = 23
  MaxFullTxBody = 20
  MaxU16 = 2
  HeaderSize = 1
  SigSize = 2
  KeySize = 2
  U64Size = 2
  TlvTypes = {1, 2, 3, 4, 9}
INVARIANTS TypeOK VerdictIsExact AllocationBounded
PROPERTY DecodeTerminates
CHECK_DEADLOCK FALSE
