\* One host: public calls during a tick, a Stop, the terminal's list, a crash, panics.
CONSTANTS
  a = a
  b = b
  c = c
  Hosts = {h1}
  Jobs = {a, b}
  KindOf <- Pair
  None = None
  Life = 1
  MaxTime = 2
  MaxCalls = 2
  MaxTui = 1
  MaxCrashes = 1
SPECIFICATION FairSpec
INVARIANTS TypeOK AcceptedIsKept OneShotFiresOnce OnlyAMoveMisleads ListIsOnDisk
PROPERTIES DueIsHandled StopReturns
CHECK_DEADLOCK FALSE
