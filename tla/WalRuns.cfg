\* Three runs and one move between two hosts: crashes, probes, clean ends, superseded and poisoned runs.
SPECIFICATION Spec
CONSTANTS
  b1 = b1
  b2 = b2
  MaxRun = 3
  MaxTime = 4
  MaxMove = 1
  Boots = {b1, b2}
  Lengths = {2}
  Margin = 1
  Wait = 3
  MoveTime = 2
  Duties <- OneEach
SYMMETRY Symmetry
INVARIANTS NoLateAnswer LeaseEnds IInv WaitRecorded NewerRunCountsHigher
CHECK_DEADLOCK FALSE
