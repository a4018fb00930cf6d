SPECIFICATION FairSpec
CONSTANTS
  uusd = uusd
  uluna = uluna
  Users = {1, 2}
  Contracts = {1}
  Denoms = {uusd, uluna}
  Deposits <- SingleCoins
  Conditions <- AllConditions
  Limits = {1, 2}
  MaxHeight = 3
  MaxPace = 1
  MaxDeposited = 3
CHECK_DEADLOCK FALSE
INVARIANTS
  Accounted
PROPERTIES
  KeepsItsCondition
  PaidInTheEnd
