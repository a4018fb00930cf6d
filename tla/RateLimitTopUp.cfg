SPECIFICATION LimitSpec
CONSTANTS
  Depositors = {u1, u2}
  MaxWithdrawal = 2
  Frequency = 2
  TicksPerSecond = 2
  LimitDeposits = {1, 3}
  MayTopUpOthers = TRUE
  MaxLimitTime = 6
  MaxHeld = 5
CHECK_DEADLOCK FALSE
PROPERTY DepositAdds
