\* One session, two Flush calls, and one step of another writer of the file.
CONSTANTS
  Sessions = {s1}
  Flushes = {f1, f2}
  FlushAlls = {}
  MaxSnap = 2
  Others = {"sync", "replace", "truncate", "foreign"}
  MaxOther = 1
SPECIFICATION Spec
INVARIANTS AnswersAreTrue NothingVanishes NothingStranded IdleHidesOnlyFailures
PROPERTIES NothingResurrected QueueSpec
SYMMETRY FlushSymmetry
CHECK_DEADLOCK FALSE
