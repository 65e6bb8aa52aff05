\* A posted and a queued message, a Stop or Close, an eviction, a failure.
CONSTANTS
  Sends = {s1}
  Queued = {q1}
  Drain = Drain
  None = None
  QueueCap = 2
  MaxStops = 1
  MaxEvicts = 1
  MaxFaults = 1
SPECIFICATION FairSpec
INVARIANTS AckedIsStored TurnedOnce Aligned RepliesAreKeptOnce NothingForgotten
PROPERTIES NothingOverwritten ComesToRest
CHECK_DEADLOCK FALSE
