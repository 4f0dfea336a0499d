SPECIFICATION RewardedSpec
CONSTANTS
  u1 = u1
  u2 = u2
  comp = comp
  xA = xA
  xE = xE
  ReservoirAddress = Reservoir
  Markets = {xA}
  RewardMarkets = {xA}
  Holders <- mcHolders
  Accounts = {u1, u2}
  ComptrollerAddress = comp
  Admin = u1
  NoAddress = NoAddress
  EtherMarkets = {}
  expScale = 10
  doubleScale = 10
  distributionSchedule <- quickSchedule
  dripRate = 26
  initialReserve = 100
  compUnlockTimestamp = 0
  borrowRateMaxMantissa = 1000
  protocolSeizeShareMantissa = 5
  collateralFactorMaxMantissa = 9
  UintMax = 1000
  initialExchangeRate <- rewardRates
  initialModel <- freeModels
  initialUnderlying <- adminUnderlying
  initialPrices <- mcUnitPrices
  initialCloseFactor = 5
  initialLiquidationIncentive = 11
  transferFee <- mcNoFee
  MaxBlock = 2
  Amounts = {1}
  TokenAmounts = {1}
  TransferAmounts = {1}
  Suppliers <- justU2
  Borrowers <- nobody
  Entered <- noneEntered
  Approvals = {}
  Donations = {}
  PriceVectors = {}
  CollateralFactors = {}
  CloseFactors = {}
  LiquidationIncentives = {}
  BorrowCaps = {}
  ReserveFactors = {}
  ReserveAmounts = {}
  RateModels = {}
  Guardians = {}
  Pausers = {}
  Switches = {}
  Claimants = {u2}
  ClaimSides <- supplySide
  CompSpeeds = {9, 4}
  CompWeights = {0, 10}
  MaxGranted = 5
  Grants = {5}
  ContributorSpeeds = {3}
INVARIANTS RecordsArePast SpeedsAreScheduled ClaimsAreCovered
PROPERTIES RewardsNeverShrink
CHECK_DEADLOCK FALSE
