SPECIFICATION mcSpec
CONSTANTS
  u1 = u1
  u2 = u2
  comp = comp
  xA = xA
  xE = xE
  Markets = {xA}
  Holders <- mcHolders
  Accounts = {u1, u2}
  ComptrollerAddress = comp
  Admin = u1
  NoAddress = NoAddress
  EtherMarkets = {}
  expScale = 10
  borrowRateMaxMantissa = 1000
  protocolSeizeShareMantissa = 5
  collateralFactorMaxMantissa = 9
  UintMax = 1000
  initialExchangeRate <- feeRates
  initialModel <- mcModels
  initialUnderlying <- feeUnderlying
  initialPrices <- mcUnitPrices
  initialCloseFactor = 5
  initialLiquidationIncentive = 11
  transferFee <- fourTenths
  MaxBlock = 1
  Amounts = {3}
  TokenAmounts = {2}
  TransferAmounts = {2}
  Suppliers <- justU2
  Borrowers <- justU2
  Entered <- enterAll
  Approvals = {}
  Donations = {3}
  PriceVectors = {}
  CollateralFactors = {0}
  CloseFactors = {}
  LiquidationIncentives = {}
  BorrowCaps = {}
  ReserveFactors = {10}
  ReserveAmounts = {1}
  RateModels = {}
  Guardians = {}
  Pausers = {u1}
  Switches = {"borrow"}
INVARIANTS ListedMarketStaysOpen
PROPERTIES DebtFallsOnlyByPayment PausesBind MarketsKeepTheBooks
CHECK_DEADLOCK FALSE
