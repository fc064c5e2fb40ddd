SPECIFICATION Spec
CONSTANTS
  Requests <- SomeRequests
  InexactPrices = {3, 10010}
  SignedSwaps <- SomeSwaps
  SwapSigners = {"ethers", "remote", "nonEcdsa"}
  Chains = {"solana", "sui", "aptos", "starknet", "ckb"}
  RpcNodes = {"n1", "n2"}
  DefaultNode = "n1"
  AdaptorClasses <- SomeAdaptors
  MaxRpcErrors = 1
  MaxClients = 1
  InFamilies = {"evm", "starknet", "ckb"}
  OutFamilies = {"evm", "solana", "ckb"}
  MaxLag = 1
  MaxLocks = 1
  Callers = {"a", "b"}
  Incoming = {"s1", "s2"}
  Outgoing = {"o"}
  Pays <- MPays
  Expiry <- MExpiry
  ItemByte <- MByte
  FirstCells <- MCells
  MaxAhead = 244
  MaxQuery = 1
  MaxPeriod = 11
  MaxPoint = 12
INVARIANTS SdkPredictsContract SignaturesVerify ParsersReadWhatIsSent StatusTellsTheSwap RefCellsRemember
PROPERTIES WaitsEnd
CHECK_DEADLOCK FALSE
