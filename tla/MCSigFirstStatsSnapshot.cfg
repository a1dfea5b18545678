SPECIFICATION StatsSpec
CONSTANTS
  Capacity = 2
  Callers = {c1, c2}
  Ends <- MCEnds
  MaxArrivals = 5
INVARIANT StatsPointInTime
