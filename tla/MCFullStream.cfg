SPECIFICATION FairSpec
CONSTANTS
  MaxFrames = 3
  MaxErrors = 2
  Ends <- MCEnds
INVARIANTS TypeOK ReaderAccounting CloseKeepsCode ErrorsHaveCauses
PROPERTY CallsReturn
CHECK_DEADLOCK FALSE
