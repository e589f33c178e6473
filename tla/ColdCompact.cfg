\* Slices and chunks compacted while the GC runs; pack flushes, chunk compactions and GC proposals are refused or lose their answer.
SPECIFICATION Spec
CONSTANTS
  s1 = s1
  Streams = {s1}
  MaxTail = 3
  MaxGen = 1
  MaxPath = 5
  MaxSeq = 4
  MaxFlush = 2
  MaxRetain = 0
  MaxRun = 2
  PackWidth = 1
  GcBatch = 2
  Duties = {"flush", "pack", "shared", "raw", "gc"}
  Lossy = {"pack", "raw", "gc"}
  Overtaking = FALSE
INVARIANTS RetainedReadable NoLeak
CHECK_DEADLOCK FALSE
