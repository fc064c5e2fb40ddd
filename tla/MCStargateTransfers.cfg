SPECIFICATION FairSpec
CONSTANTS
  a = a
  b = b
  Pool = {a, b}
  Chain = {a, b}
  ChainOf <- Alone
  User = {u}
  NoUser = NoUser
  BP_DENOMINATOR = 10
  InitialPaths <- NoPaths
  InitialWeight <- EqualWeights
  Amounts = {4}
  Payloads = {TRUE}
  FeeChoices <- FreeSwaps
  Rewards = {0}
  Weights = {1}
  FeeBPs = {5}
  SwapStops = {}
  DeltaParams <- Batching
  MaxAsset = 4
  MaxSent = 2
  MaxDropped = 0
INVARIANTS BooksBalance
PROPERTIES HonoursTransfers
CHECK_DEADLOCK FALSE
