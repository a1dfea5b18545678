SPECIFICATION FeedSpec
CONSTANTS
  MaxU64 = 4
  MaxAssigned = 3
  Versions <- MCVersions
  Others <- MCOthers
  Capacity = 1
  Callers = {c1}
  Ends <- MCEnds
  MaxArrivals = 3
INVARIANTS NoSilentLoss GapsAreLosses
PROPERTY PartsUndisturbed
