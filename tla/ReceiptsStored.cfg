SPECIFICATION AdosSpec
CONSTANTS
  Ados = {"token"}
  OwnedAdos = {"modules", "cache", "funds", "splitter", "weighted", "app"}
  ann = ann
  bob = bob
  this = this
  venue = venue
  farm = farm
  andrApp = andrApp
  shop = shop
  list = list
  Actors = {ann, bob}
  Managers = {ann}
  This = this
  Contracts = {this, venue, farm}
  Names = {shop, list}
  Apps = {andrApp}
  ComponentsOf <- Components
  NoApp = NoApp
  PercentOne = 10
  Wealth <- Start
  Gifts = {1}
  MaxClock = 2
  PrimitiveKeys = {1, 2}
  PrimitiveValues <- KeyValues
  AdoTypes = {"cw20", "other"}
  InitialModules <- ModuleLists
  ModuleChoices <- MoreModules
  OperatorChoices = {{}, {bob}}
  WithdrawalChoices <- Withdrawals
  PageSizes = {1, 2}
  Versions = {1, 2}
  BaseVersion = 0
  MaxModules = 4
  SplitterLists <- PercentLists
  LockTimes = {0, 1, 2, 3}
  NoLockTime = NoLockTime
  OneDay = 1
  OneYear = 2
  MaxRecipients = 2
  SentAmounts = {1, 3, 5}
  WeightedLists <- WeightLists
  Strategies = {venue, farm}
  NoStrategy = NoStrategy
  NoAmount = NoAmount
  DepositSizes = {0, 1, 3}
  VaultWithdrawals <- Withdrawals
  Trees <- TwoTrees
  AirdropTotals = {0, 3}
  Expirations = {1, Never}
  Never = Never
  MaxStages = 2
  RateLists <- FeeLists
  ReceiptMinter = this
  ReceiptTexts <- SomeReceipts
  TokenOwner = ann
  Minter = ann
  InitialBalances <- Tokens
  TokenAmounts = {1, 3}
  Prices = {0, 2}
  MaxSupply = 5
  MaxAllowance = 1
  Types = {"auction"}
  CodeIds = {1}
  FactoryKey = 1
  FactoryAddress = venue
  SkippedNames = {list}
  OtherAddress = OtherAddress
  MaxComponents = 2
  Natives = {"coin"}
  Cw20s = {"token"}
  SwapperImpls = {venue, shop}
  AssetWealth <- Assets
  SwapAmounts = {0, 1, 2}
  Depositors = {u1, u2}
  MaxWithdrawal = 2
  Frequency = 2
  TicksPerSecond = 2
  LimitDeposits = {1, 3}
  MayTopUpOthers = FALSE
  MaxLimitTime = 6
  MaxHeld = 5
  DecimalOne = 4
  Users = {alice, carl}
  NonAllocated = {uusd}
  Allocated = {uandr}
  InitialTokens = {}
  AllocationConfigs <- Schedules
  Amounts = {1, 2}
  MaxRewardTokens = 1
  MaxTime = 3
  MaxPool = 3
  MaxFunded = 2
CHECK_DEADLOCK FALSE
PROPERTY ReceiptsKept
