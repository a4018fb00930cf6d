SPECIFICATION FairSpec
CONSTANTS
  Buyers = {1, 2}
  Tokens = {1, 2, 3}
  CanMintAfterSale = TRUE
  Prices = {2}
  MinTokens = {2}
  WalletLimits = {2}
  Expirations = {1, 2}
  Taxes = {0, 1}
  Royalties = {1}
  Excess = {1}
  Limits = {1, 2}
  MaxTime = 2
  MaxSales = 2
CHECK_DEADLOCK FALSE
INVARIANTS
  SalesMatch
  Solvent
PROPERTIES
  KeepsPromise
  FirstSaleEnds
