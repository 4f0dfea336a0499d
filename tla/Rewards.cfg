SPECIFICATION mcRewardedSpec
CONSTANTS
  u1 = u1
  u2 = u2
  comp = comp
  xA = xA
  xE = xE
  ReservoirAddress = Reservoir
  Markets = {xA}
  RewardMarkets = {xA}
  Holders <- mcHolders
  Accounts = {u1, u2}
  ComptrollerAddress = comp
  Admin = u1
  NoAddress = NoAddress
  EtherMarkets = {}
  expScale = 10
  doubleScale = 10
  distributionSchedule <- longSchedule
  dripRate = 10
  initialReserve = 100
  compUnlockTimestamp = 0
  borrowRateMaxMantissa = 1000
  protocolSeizeShareMantissa = 5
  collateralFactorMaxMantissa = 9
  UintMax = 1000
  initialExchangeRate <- rewardRates
  initialModel <- freeModels
  initialUnderlying <- rewardUnderlying
  initialPrices <- mcUnitPrices
  initialCloseFactor = 10
  initialLiquidationIncentive = 11
  transferFee <- mcNoFee
  MaxBlock = 1
  Amounts = {1}
  TokenAmounts = {}
  TransferAmounts = {1}
  Suppliers <- justU2
  Borrowers <- justU2
  Entered <- noneEntered
  Approvals = {}
  Donations = {}
  PriceVectors = {}
  CollateralFactors = {0}
  CloseFactors = {}
  LiquidationIncentives = {}
  BorrowCaps = {}
  ReserveFactors = {}
  ReserveAmounts = {}
  RateModels = {}
  Guardians = {}
  Pausers = {}
  Switches = {}
  Claimants = {u2}
  ClaimSides <- eachSide
  CompSpeeds = {}
  CompWeights = {}
  MaxGranted = 0
  Grants = {}
  ContributorSpeeds = {}
INVARIANTS RewardsTypeOK HoldersHaveIndexes
PROPERTIES RewardsNeverShrink
CHECK_DEADLOCK FALSE
