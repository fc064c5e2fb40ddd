SPECIFICATION Spec
CONSTANTS
  Pool = {p1, p2, p3}
  User = {user}
  BP_DENOMINATOR = 10
  MaxLiquidity = 8
  MaxCredit = 5
  MaxOnPath = 3
  MaxWeight = 2
  DENOMINATOR = 100000
  DELTA_1 = 60000
  DELTA_2 = 5000
  LAMBDA_1 = 400
  LAMBDA_2 = 99600
  LP_FEE = 450
  PROTOCOL_FEE = 15
  PROTOCOL_SUBSIDY = 3
  Ideals <- SomeIdeals
  Balances <- SomeBalances
  SwapAmounts <- SomeSwaps
  Shortfalls = {50, 700}
  RewardPools = {0, 40}
  main = main
  b = b
  c = c
  Chain = {main, b, c}
  MainChain = main
  Holder = {h}
  Contract = contract
  ZeroAddress = zero
  Deployer = h
  InitialSupply = 2
  MaxSent = 1
  MaxDropped = 1
  LPToken = {x, y}
  Staker = {u, v}
  PRECISION = 100
  startBlock = 1
  Points = {0, 1}
  Rates = {1, 4}
  StakeAmounts = {0, 3}
  Funding = 5
  MaxBlock = 3
  MaxRestakes = 3
INVARIANTS NeverOverspends NothingStaysBehind SplittingDoesNotPay Backed NobodyLockedIn RewardsWithinEmission
SYMMETRY Symmetry
CHECK_DEADLOCK FALSE
