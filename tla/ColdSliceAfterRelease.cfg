\* A slice of a pack published after the pack was queued.
SPECIFICATION Spec
CONSTANTS
  s1 = s1
  s2 = s2
  Streams = {s1, s2}
  MaxTail = 2
  MaxGen = 2
  MaxPath = 2
  MaxSeq = 4
  MaxFlush = 2
  MaxRetain = 0
  MaxRun = 3
  PackWidth = 2
  GcBatch = 2
  Duties = {"pack", "delete"}
  Lossy = {}
  Overtaking = FALSE
SYMMETRY Symmetry
INVARIANTS QueuedUnreferenced
CHECK_DEADLOCK FALSE
