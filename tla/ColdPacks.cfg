\* Packs of two streams released by deletes and retention in any order, while later packs are flushed and flushes are refused or lose their answer.
SPECIFICATION Spec
CONSTANTS
  s1 = s1
  s2 = s2
  Streams = {s1, s2}
  MaxTail = 2
  MaxGen = 3
  MaxPath = 2
  MaxSeq = 5
  MaxFlush = 2
  MaxRetain = 1
  MaxRun = 2
  PackWidth = 2
  GcBatch = 2
  Duties = {"pack", "delete"}
  Lossy = {"pack"}
  Overtaking = FALSE
SYMMETRY Symmetry
INVARIANTS RefsCounted
CHECK_DEADLOCK FALSE
