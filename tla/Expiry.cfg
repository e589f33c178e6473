SPECIFICATION FairSpec
CONSTANTS
  Streams = {1, 2}
  Nodes = {1, 2}
  Ttls = {2}
  Fixed = {1}
  Limit = 1
  PassEntries = 2
  Grace = 1
  Skew = 1
  MaxTime = 4
  MaxKeys = 3
INVARIANTS TypeOK FrontExact HeapBounded
PROPERTIES GoneForAll SweepsInOrder ExpiredLeave
CHECK_DEADLOCK FALSE
