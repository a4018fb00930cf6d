SPECIFICATION FairSpec
CONSTANTS
  Users = {u1, u2, u3}
  Owner = u1
  StartTime = 0
  InitTimestamp = 1
  DepositWindow = 3
  WithdrawalWindow = 2
  DecimalOne = 1000
  MaxAmount = 6
  DepositAmounts = {1, 3}
  IncentiveAmounts = {2, 3}
  MaxTime = 7
CHECK_DEADLOCK FALSE
INVARIANTS
  
  IncentivesCovered
  HalfStaysLocked
PROPERTIES
  FrozenAfterPhase
  RewardsPaid
