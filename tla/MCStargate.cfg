SPECIFICATION Spec
CONSTANTS
  a = a
  b = b
  Pool = {a, b}
  Chain = {a, b}
  ChainOf <- Alone
  User = {u}
  NoUser = NoUser
  BP_DENOMINATOR = 10
  InitialPaths <- BothWays
  InitialWeight <- EqualWeights
  Amounts = {4}
  Payloads = {FALSE}
  FeeChoices <- PaidSwaps
  Rewards = {0, 1}
  Weights = {}
  FeeBPs = {}
  SwapStops = {TRUE}
  DeltaParams <- NoParams
  MaxAsset = 8
  MaxSent = 3
  MaxDropped = 1
INVARIANTS BooksBalance PathsAgree PromisesKept
PROPERTIES SharePriceNeverFalls
CHECK_DEADLOCK FALSE
SYMMETRY Symmetry
