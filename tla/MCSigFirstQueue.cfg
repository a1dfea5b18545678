SPECIFICATION QueueFairSpec
CONSTANTS
  Capacity = 2
  Callers = {c1, c2}
  Ends <- MCEnds
  MaxArrivals = 6
INVARIANTS
  QueueTypeOK ExactlyOnceInOrder DroppedIsEvicted RetryCannotFail
  EndAfterDrain EndErrorFaithful ReconnectDecision
PROPERTIES DrainNeverStalls EndReleasesCallers ImplementsLossyFifo
