SPECIFICATION Spec
CONSTANTS
  Streams = {1, 2}
  BucketOf <- BucketOne
  EndCap = 2
  SweepLimit = 1
  PageLimit = 1
  MaxEntries = 4
  MaxHistories = 2
INVARIANTS NeverDouble
CHECK_DEADLOCK FALSE
