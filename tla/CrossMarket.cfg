SPECIFICATION mcSpec
CONSTANTS
  u1 = u1
  u2 = u2
  comp = comp
  xA = xA
  xE = xE
  Markets = {xA, xE}
  Holders <- mcHolders
  Accounts = {u1, u2}
  ComptrollerAddress = comp
  Admin = u1
  NoAddress = NoAddress
  EtherMarkets = {xE}
  expScale = 10
  borrowRateMaxMantissa = 1000
  protocolSeizeShareMantissa = 5
  collateralFactorMaxMantissa = 9
  UintMax = 1000
  initialExchangeRate <- crossRates
  initialModel <- mcModels
  initialUnderlying <- crossUnderlying
  initialPrices <- mcUnitPrices
  initialCloseFactor = 5
  initialLiquidationIncentive = 11
  transferFee <- mcNoFee
  MaxBlock = 1
  Amounts = {1}
  TokenAmounts = {2}
  TransferAmounts = {2}
  Suppliers <- crossSuppliers
  Borrowers <- crossBorrowers
  Entered <- crossEntered
  Approvals = {}
  Donations = {}
  PriceVectors <- crossPriceVectors
  CollateralFactors = {}
  CloseFactors = {}
  LiquidationIncentives = {}
  BorrowCaps = {}
  ReserveFactors = {}
  ReserveAmounts = {}
  RateModels = {}
  Guardians = {}
  Pausers = {}
  Switches = {}
INVARIANTS TypeOK TokensAddUp SnapshotsArePast AssetsMatchMembership BorrowersAreMembers
PROPERTIES ExchangeRateFallsOnlyByRounding DebtFreeKeepsTokens NoSelfInflictedShortfall MarketsKeepTheBooks
CHECK_DEADLOCK FALSE
