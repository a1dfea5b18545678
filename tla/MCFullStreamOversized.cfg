SPECIFICATION Spec
CONSTANTS
  MaxFrames = 2
  MaxErrors = 1
  Ends <- MCEnds
INVARIANT OversizedIsBadFrame
CHECK_DEADLOCK FALSE
