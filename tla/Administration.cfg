SPECIFICATION Spec
CONSTANTS
  u1 = u1
  u2 = u2
  comp = comp
  xA = xA
  xE = xE
  Markets = {xA}
  Holders <- mcHolders
  Accounts = {u1, u2}
  ComptrollerAddress = comp
  Admin = u1
  NoAddress = NoAddress
  EtherMarkets = {}
  expScale = 10
  borrowRateMaxMantissa = 1000
  protocolSeizeShareMantissa = 5
  collateralFactorMaxMantissa = 9
  UintMax = 1000
  initialExchangeRate <- feeRates
  initialModel <- mcModels
  initialUnderlying <- adminUnderlying
  initialPrices <- mcUnitPrices
  initialCloseFactor = 5
  initialLiquidationIncentive = 11
  transferFee <- mcNoFee
  MaxBlock = 0
  Amounts = {1}
  TokenAmounts = {1}
  TransferAmounts = {1}
  Suppliers <- everyone
  Borrowers <- nobody
  Entered <- adminEntered
  Approvals = {1}
  Donations = {1}
  PriceVectors = {}
  CollateralFactors = {8}
  CloseFactors = {9}
  LiquidationIncentives = {12}
  BorrowCaps = {1}
  ReserveFactors = {}
  ReserveAmounts = {}
  RateModels <- mcFreeModels
  Guardians = {u2}
  Pausers = {u1, u2}
  Switches = {"mint", "transfer", "seize"}
INVARIANTS UnlistedIsInert ListedMarketStaysOpen
PROPERTIES DebtFreeKeepsTokens PausesBind
CHECK_DEADLOCK FALSE
