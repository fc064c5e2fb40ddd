SPECIFICATION TokenFairSpec
CONSTANTS
  Chain = {main, b}
  MainChain = main
  Holder = {h}
  Contract = contract
  ZeroAddress = zero
  Deployer = h
  InitialSupply = 2
  MaxSent = 2
  MaxDropped = 0
PROPERTIES EverythingArrives
CHECK_DEADLOCK FALSE
