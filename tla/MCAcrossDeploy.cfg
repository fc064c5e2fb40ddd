SPECIFICATION DeploySpec
CONSTANTS
  Rollouts <- Networks
  Recorded = {"optimism", "zksync", "arbitrum"}
  CctpDomains = {}
  MaxProxies = 2
INVARIANTS AdaptersReachTheirChain
CHECK_DEADLOCK FALSE
