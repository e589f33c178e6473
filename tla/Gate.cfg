\* Crashes, lost disks and elections; and a recovery plan between two elections.
SPECIFICATION Spec
CONSTANTS
  Replica = {1, 2, 3}
  MaxWrites = 1
  Budgets <- LossAndPlan
INVARIANTS TypeOK AckedKept LogIdsUnique CommittedAgree KeptTrue
CHECK_DEADLOCK FALSE
