\* One session under fairness: a Flush, a FlushAll, two snapshots, a truncation.
CONSTANTS
  Sessions = {s1}
  Flushes = {f1}
  FlushAlls = {a1}
  MaxSnap = 2
  Others = {"truncate"}
  MaxOther = 1
SPECIFICATION FairSpec
INVARIANTS FlushAllLeavesOnlyInFlight
PROPERTIES CallsReturn SnapshotsSettle
CHECK_DEADLOCK FALSE
