\* Deletes, retention and the GC worker with refused and lost proposals, failed reclamation and passes that start over.
SPECIFICATION Spec
CONSTANTS
  s1 = s1
  Streams = {s1}
  MaxTail = 1
  MaxGen = 2
  MaxPath = 3
  MaxSeq = 4
  MaxFlush = 2
  MaxRetain = 1
  MaxRun = 3
  PackWidth = 1
  GcBatch = 2
  Duties = {"flush", "pack", "external", "delete", "gc"}
  Lossy = {"flush", "pack", "external", "gc"}
  Overtaking = FALSE
INVARIANTS TypeOK NoLeak RetainedReadable QueuedUnreferenced IncarnationPages
PROPERTIES AckedReclaimed
CHECK_DEADLOCK FALSE
