SPECIFICATION Spec
CONSTANTS
  c1 = c1
  a1 = a1
  a2 = a2
  Chain = {c1}
  Addr = {a1, a2}
  Initiator = {a1}
  Recipient = {a1}
  NoAddr = NoAddr
  Token = {1, 52}
  MaxPool = 1
  Swap <- OnePartner
  Skew <- NoSkew
  MIN_BOND_TIME_PERIOD = 2
  MAX_BOND_TIME_PERIOD = 7
  LOCK_TIME_PERIOD = 1
  LockMargin = 1
  MAX_SWAP_AMOUNT = 3
  SERVICE_FEE_RATE = 1
  FeeBase = 4
  SERVICE_FEE_MINIMUM = 1
  SERVICE_FEE_MINIMUM_ETH = 1
  SERVICE_FEE_MINIMUM_BNB = 1
  SERVICE_FEE_MINIMUM_BTC = 1
  Listed = {1, 52}
  Admin = a1
  Amounts = {2}
  MsgValues = {0, 2}
  Supply = 4
  MaxTime = 4
INVARIANTS TypeOK Solvent SettledOnce ReleasedOnce
PROPERTIES BondIsFinal
CHECK_DEADLOCK FALSE
