SPECIFICATION Spec
CONSTANTS
  MaxFrames = 2
  MaxErrors = 1
  Ends <- MCEnds
INVARIANT BadFrameMeansMalformed
CHECK_DEADLOCK FALSE
