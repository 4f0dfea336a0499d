SPECIFICATION Spec
CONSTANTS
  u1 = u1
  u2 = u2
  comp = comp
  xA = xA
  xE = xE
  Markets = {xA}
  Holders <- mcHolders
  Accounts = {u1, u2}
  ComptrollerAddress = comp
  Admin = u1
  NoAddress = NoAddress
  EtherMarkets = {}
  expScale = 10
  borrowRateMaxMantissa = 1000
  protocolSeizeShareMantissa = 5
  collateralFactorMaxMantissa = 9
  UintMax = 1000
  initialExchangeRate <- oddRates
  initialModel <- mcModels
  initialUnderlying <- seedUnderlying
  initialPrices <- mcUnitPrices
  initialCloseFactor = 5
  initialLiquidationIncentive = 11
  transferFee <- mcNoFee
  MaxBlock = 0
  Amounts = {1}
  TokenAmounts = {}
  TransferAmounts = {}
  Suppliers <- nobody
  Borrowers <- nobody
  Entered <- noneEntered
  Approvals = {}
  Donations = {}
  PriceVectors = {}
  CollateralFactors = {}
  CloseFactors = {}
  LiquidationIncentives = {}
  BorrowCaps = {}
  ReserveFactors = {}
  ReserveAmounts = {}
  RateModels = {}
  Guardians = {}
  Pausers = {}
  Switches = {}
INVARIANT ListedMarketHasSupply
CHECK_DEADLOCK FALSE
