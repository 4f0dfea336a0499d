SPECIFICATION mcSpec
CONSTANTS
  u1 = u1
  u2 = u2
  comp = comp
  xA = xA
  xE = xE
  Markets = {xE}
  Holders <- mcHolders
  Accounts = {u1, u2}
  ComptrollerAddress = comp
  Admin = u1
  NoAddress = NoAddress
  EtherMarkets = {xE}
  expScale = 10
  borrowRateMaxMantissa = 1000
  protocolSeizeShareMantissa = 5
  collateralFactorMaxMantissa = 9
  UintMax = 1000
  initialExchangeRate <- unitRates
  initialModel <- mcModels
  initialUnderlying <- soleUnderlying
  initialPrices <- mcUnitPrices
  initialCloseFactor = 5
  initialLiquidationIncentive = 11
  transferFee <- mcNoFee
  MaxBlock = 3
  Amounts = {1, 2}
  TokenAmounts = {}
  TransferAmounts = {}
  Suppliers <- justU2
  Borrowers <- justU2
  Entered <- adminEntered
  Approvals = {}
  Donations = {}
  PriceVectors = {}
  CollateralFactors = {}
  CloseFactors = {}
  LiquidationIncentives = {}
  BorrowCaps = {}
  ReserveFactors = {}
  ReserveAmounts = {}
  RateModels = {}
  Guardians = {}
  Pausers = {}
  Switches = {}
INVARIANT PaymentIsNotCash
CHECK_DEADLOCK FALSE
