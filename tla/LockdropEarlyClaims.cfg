SPECIFICATION Spec
CONSTANTS
  Users = {u1, u2}
  Owner = u1
  StartTime = 0
  InitTimestamp = 1
  DepositWindow = 2
  WithdrawalWindow = 1
  DecimalOne = 1000
  MaxAmount = 4
  DepositAmounts = {1, 3}
  IncentiveAmounts = {2}
  MaxTime = 5
CHECK_DEADLOCK FALSE
INVARIANT ClaimsAfterPhase
