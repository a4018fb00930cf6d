SPECIFICATION FairSpec
CONSTANTS
  Owner = owner
  Operators = {operator}
  Validators = {v1, v2}
  IsMultiBatchEnabled = TRUE
  Amounts = {2}
  LockupDurations = {1}
  ReleaseUnits = {1, 2}
  ReleaseAmounts <- MixedReleases
  DecimalOne = 2
  Limits = {1, 2}
  MaxUint = 12
  MaxBatches = 2
  MaxTime = 3
  MaxSlashed = 1
CHECK_DEADLOCK FALSE
INVARIANTS
  NeverAhead
  OnSchedule
  Backed
PROPERTIES
  PaidInFull
