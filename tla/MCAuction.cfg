SPECIFICATION FairSpec
CONSTANTS
  Users = {u1, u2, u3}
  Tokens = {t1, t2}
  Denoms = {d1}
  Contract = contract
  StartTimes = {1, 2}
  Durations = {1}
  MinBids = {0}
  Whitelists <- Everyone
  BidAmounts = {1, 2}
  AdditiveTaxes = {0}
  PlainTransfers = FALSE
  MaxTime = 3
  MaxAuctions = 2
CHECK_DEADLOCK FALSE
INVARIANTS
  Escrowed
  Charged
  
PROPERTIES
  Immutable
  WinnerGetsToken
