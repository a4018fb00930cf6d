SPECIFICATION FairSpec
CONSTANTS
  Buyers = {1}
  Tokens = {1, 2}
  CanMintAfterSale = TRUE
  Prices = {2}
  MinTokens = {0, 2}
  WalletLimits = {2}
  Expirations = {1, 2}
  Taxes = {1}
  Royalties = {0}
  Excess = {0}
  Limits = {1, 2}
  MaxTime = 2
  MaxSales = 2
CHECK_DEADLOCK FALSE
PROPERTY SaleEnds
