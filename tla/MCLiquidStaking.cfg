CONSTANTS
  IndexList <- MCIndexList
  Users = {u1}
  FeeReceiver = fee
  NoLedger = NoLedger
  Amounts = {1, 2}
  CallAmounts = {1}
  Scale = 10
  MinNominatorBond = 1
  MinStake = 1
  MinUnstake = 1
  XcmFees = 0
  ReserveFactor = 0
  FastUnstakeFee = 1
  CommissionRate = 1
  StakingLedgerCap = 2
  BondingDuration = 1
  EraLength = 2
  ElectionSolutionStoredOffset = 1
  RelayEraPhase = 0
  MaxChunks = 2
  LoansAccount = loans
  LoansInstantUnstakeFee = 1
  CollateralFactor = 7
  MarketCash = 0
  InitialRate = 10
  MaxBlock = 4
  MaxBlockStep = 1
  MaxQueries = 3
  MaxPoolStake = 2
  MaxEra = 2
  MaxLoansBorrow = 0
  MaxRewards = 1
  RatioInputs = {}
  CapInputs = {}
SPECIFICATION SpecAutonomous
INVARIANTS TypeOK LockAccounting PoolCoversStake
