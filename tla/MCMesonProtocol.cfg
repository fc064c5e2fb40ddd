SPECIFICATION ProtocolSpec
CONSTANTS
  c1 = c1
  c2 = c2
  u1 = u1
  l1 = l1
  l2 = l2
  Chain = {c1, c2}
  Addr = {u1, l1, l2}
  Initiator = {u1}
  Recipient = {u1}
  Provider = {l1, l2}
  PoolOf <- PoolsOfTwo
  InitiatorOf <- AllByUser
  Liquidity = 2
  NoAddr = NoAddr
  Token = {1}
  MaxPool = 2
  Swap <- BothWays
  Skew <- FirstAhead
  MIN_BOND_TIME_PERIOD = 2
  MAX_BOND_TIME_PERIOD = 9
  LOCK_TIME_PERIOD = 1
  LockMargin = 2
  MAX_SWAP_AMOUNT = 2
  SERVICE_FEE_RATE = 1
  FeeBase = 4
  SERVICE_FEE_MINIMUM = 1
  SERVICE_FEE_MINIMUM_ETH = 1
  SERVICE_FEE_MINIMUM_BNB = 1
  SERVICE_FEE_MINIMUM_BTC = 1
  Listed = {1}
  Admin = u1
  Amounts = {2}
  MsgValues = {0}
  Supply = 9
  MaxTime = 9
INVARIANT NobodyLoses
PROPERTIES ImplementsAtomicSwap NothingStaysLocked
CHECK_DEADLOCK FALSE
