\* Posted messages, Stops, Closes and an eviction, which leave several messages
\* in the queue or let two jobs run at once.
CONSTANTS
  Sends = {s1, s2}
  Queued = {}
  Drain = Drain
  None = None
  QueueCap = 2
  MaxStops = 2
  MaxEvicts = 1
  MaxFaults = 0
SPECIFICATION Spec
INVARIANTS StoredOnceUnlessStopped TurnsFollowRows RoundsAreStoredUnlessStopped OverlapNeedsRelease
SYMMETRY MessageSymmetry
CHECK_DEADLOCK FALSE
