SPECIFICATION Spec
CONSTANTS
  Streams = {1}
  BucketOf <- OneStream
  EndCap = 1
  SweepLimit = 1
  PageLimit = 1
  MaxEntries = 4
  MaxHistories = 2
INVARIANTS BillsExactly NoAlarm NeverMore NeverLess
CHECK_DEADLOCK FALSE
