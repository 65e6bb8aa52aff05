\* A Stop leaves a posted message in the queue of the next one's job.
CONSTANTS
  Sends = {s1, s2}
  Queued = {}
  Drain = Drain
  None = None
  QueueCap = 2
  MaxStops = 1
  MaxEvicts = 0
  MaxFaults = 0
SPECIFICATION Spec
INVARIANT StoredOnce
CHECK_DEADLOCK FALSE
