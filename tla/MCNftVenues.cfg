SPECIFICATION VenuesSpec
CONSTANTS
  u1 = u1
  u2 = u2
  c1 = c1
  t1 = t1
  t2 = t2
  Market = market
  Staking = staking
  TokenLock = lock
  Wrapper = wrapper
  Machine = machine
  Venues = {"bids", "market", "staking", "lock", "wrap", "gumball"}
  TokensAt <- MCTokensAt
  TimeAt <- MCTimeAt
  Users <- MCUsers
  Contracts <- MCContracts
  Tokens = {t1, t2}
  Prices = {2}
  Royalties = {1}
  Taxes = {1}
  Funds = {0, 3}
  Purse <- MCPurse
  MaxGrants = 1
  BidAmounts = {1, 2}
  Expirations = {1}
  Excess = {1}
  MaxTime = 3
  SalePrices = {2, 3}
  Payments = {3, 4}
  MaxSales = 2
  Collections = {col1, col2}
  Collection = col1
  Reward = 1
  MinBonded = 1
  UnbondingPeriods = {0, 1}
  MaxAllowed = 2
  LockTimes = {0, 1, 2}
  MinLock = 1
  MaxLock = 2
  WrapOwners <- MCUsers
  WrappedIds = {w1, w2}
  CanUnwrap = TRUE
  Denoms = {d1, d2}
  Coin = d1
  GumPrices = {3}
  MaxMints = 2
SYMMETRY Symmetry
CHECK_DEADLOCK FALSE
INVARIANTS
  Escrowed
  RewardsEarned
  
  StockHeld
PROPERTIES
  BidSettled
  PriceIsPaid
  
  
