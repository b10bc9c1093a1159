CONSTANTS
  Keys = {k1, k2, k3, k4}
  Count = 2
  MaxTime = 3
SPECIFICATION Spec
INVARIANT EvictsCount
INVARIANT LeastRecentEvicted
