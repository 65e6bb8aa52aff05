\* Three requests for two slots, a crash, an unreadable file and a pause of the machine.
CONSTANTS
  Requests = {r1, r2, r3}
  None = None
  MaxParallel = 2
  MaxCrashes = 1
  MaxSuspends = 1
  MaxFaults = 1
SPECIFICATION FairSpec
INVARIANTS SlotsAreExclusive NothingIsLeft
PROPERTIES EveryRequestIsServed SemaphoreSpec
CHECK_DEADLOCK FALSE
