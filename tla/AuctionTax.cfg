SPECIFICATION Spec
CONSTANTS
  Users = {u1, u2, u3}
  Tokens = {t1, t2}
  Denoms = {d1}
  Contract = contract
  StartTimes = {1}
  Durations = {1}
  MinBids = {0}
  Whitelists <- Everyone
  BidAmounts = {1, 2}
  AdditiveTaxes = {0, 1}
  PlainTransfers = FALSE
  MaxTime = 2
  MaxAuctions = 2
CHECK_DEADLOCK FALSE
INVARIANT WinnerCanClaim
