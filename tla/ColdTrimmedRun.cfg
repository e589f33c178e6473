\* A shared run of which retention removed a slice.
SPECIFICATION Spec
CONSTANTS
  s1 = s1
  Streams = {s1}
  MaxTail = 2
  MaxGen = 1
  MaxPath = 4
  MaxSeq = 4
  MaxFlush = 1
  MaxRetain = 1
  MaxRun = 3
  PackWidth = 1
  GcBatch = 2
  Duties = {"pack", "shared"}
  Lossy = {}
  Overtaking = FALSE
INVARIANTS RetainedReadable
CHECK_DEADLOCK FALSE
