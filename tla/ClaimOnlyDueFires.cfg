\* Two one-shots are due in one tick, and a third job is not.
CONSTANTS
  a = a
  b = b
  c = c
  Hosts = {h1}
  Jobs = {a, b, c}
  KindOf <- OneShots
  None = None
  Life = 1
  MaxTime = 2
  MaxCalls = 0
  MaxTui = 0
  MaxCrashes = 0
SPECIFICATION Spec
INVARIANT OnlyDueFires
CHECK_DEADLOCK FALSE
