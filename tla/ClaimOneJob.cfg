\* A Close releases the agent between a job's bootstrap and its first turn.
CONSTANTS
  Sends = {s1, s2}
  Queued = {}
  Drain = Drain
  None = None
  QueueCap = 2
  MaxStops = 1
  MaxEvicts = 0
  MaxFaults = 0
SPECIFICATION Spec
INVARIANT OneJobAtATime
CHECK_DEADLOCK FALSE
