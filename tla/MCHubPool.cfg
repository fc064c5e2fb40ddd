SPECIFICATION Spec
CONSTANTS
  w = w
  c = c
  Token = {w}
  Chain = {c}
  Worker = {dataworker}
  Bundle <- OneBundle
  NoBundle = NoBundle
  NoWorker = NoWorker
  ONE = 4
  lpFeeRatePerSecond = 2
  InitialBond <- FirstBond
  DefaultLiveness = 1
  FinalFees = {1}
  Bonds <- OtherBonds
  Livenesses = {1}
  FeePcts = {2}
  RouteChanges = {}
  ChainChanges = {}
  LpAmounts = {2}
  Haircuts = {1}
  Returns = {2}
  MaxLp = 4
  MaxHeld = 4
  MaxGifts = 1
  MaxProposals = 2
  MaxTime = 4
INVARIANTS TypeOK ReservesBalance FeesCovered LiquidButForClaims OneFate
PROPERTIES RateNeverFalls
