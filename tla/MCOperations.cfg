SPECIFICATION Spec
CONSTANTS
  Terminals = {"t1"}
  Amounts = {1}
  CrossDomainAdmin = "hubPool"
  Reserves = 2
  Savings = 1
  MaxMessages = 2
  MaxCrashes = 1
  Sent <- SomeMessages
  Latest = 7
  Lookbacks = {0, 2, 7}
  Spans = {1, 2, 9}
  PageSize = 3
  Mainnet = m
  Arbitrum = a
  Optimism = o
  OtherChains = {x}
  V4Chains = {x}
  HasToken = {m, a, o, x}
  TaskArgs <- SomeTaskArgs
  MaxTaskRuns = 2
  Validators = {v1, v2}
  Configs <- SomeConfigs
  UsesFeeToken = TRUE
  LogWindows = 1
  MaxRefunds = 1
  MaxNodes = 1
  MaxBoxes = 0
  MaxRoots = 1
  Rollouts <- Networks
  Recorded = {"optimism", "zksync", "arbitrum"}
  CctpDomains = {}
  MaxProxies = 1
  Tags = {"SGNStaking", "GovernedOwner", "MessageBusInit", "MessageBus", "DefaultProxyAdmin", "SentinelUpgradable"}
  MaxEdits = 1
  MaxDeploys = 2
  Operators = {"d", "g"}
  Deployer = "d"
  Guards = {"g"}
  SentinelGovernors = {"g"}
  Initializer = "d"
  LimitTokens = {"t"}
  BasicSettings <- SomeBasics
  LimitSettings <- SomeLimits
  Live = {"bridge", "bus"}
  MaxScripts = 3
  MaxChanges = 1
  OnArbitrum = FALSE
  Environments <- SomeEnvironments
  RollupConfig <- SomeRollupConfig
  Decimals <- SomeDecimals
  MaxRollupScripts = 2
INVARIANTS NoMessageForgotten RoutesCanBeBalanced ChainMovesAsAWhole SidesAgreeOnUsdc RecordsFitTogether RollupsAreWhole
PROPERTIES RemoteCallsArrive SentinelHoldsLimits
CHECK_DEADLOCK FALSE
