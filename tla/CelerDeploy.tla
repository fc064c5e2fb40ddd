----------------------------- MODULE CelerDeploy -----------------------------
(***************************************************************************)
(* Celer, deploy/: hardhat-deploy runs the script of a tag.  A script      *)
(* takes constructor arguments from the .env file, read once when the      *)
(* process starts, and from deployments recorded before.  A deployment is  *)
(* repeated when its arguments differ from the recorded ones, so a script  *)
(* that stopped half-way (a failed transaction, or the verification on the *)
(* explorer that follows most deployments) is simply run again.            *)
(* The variables of .env are grouped by the prefix of their names.         *)
(***************************************************************************)
EXTENDS Naturals, Sequences, SequencesExt

CONSTANTS
  Tags,             \* the tags an operator deploys
  MaxEdits,         \* bound on edits of .env
  MaxDeploys        \* bound on runs of hardhat deploy

ASSUME CelerDeployAssumption == MaxEdits \in Nat /\ MaxDeploys \in Nat

VARIABLES
  env,              \* version of each group of variables in .env
  contracts,        \* contracts on the chain, in the order they were deployed
  records,          \* deployments/: address recorded under a name, 0 if none
  implementations,  \* the same for <name>_Implementation
  deployRun,        \* the script being run
  deployRuns, edits

celerDeployVars == <<env, contracts, records, implementations, deployRun, deployRuns, edits>>

------------------------------------------------------------------------------
\* What a script deploys: constructor arguments from groups of .env and from
\* recorded deployments, and for a proxy the arguments of its init call

WithArgs(name, groups)           == [name |-> name, env |-> groups, on |-> <<>>, init |-> <<>>]
WithOthers(name, groups, others)      == [name |-> name, env |-> groups, on |-> others, init |-> <<>>]
BehindProxy(name, groups, initArgs) == [name |-> name, env |-> groups, on |-> <<>>, init |-> <<initArgs>>]

DeployScript(tag, steps) == [tag |-> tag, steps |-> steps]
Single(tag, groups)      == DeployScript(tag, <<WithArgs(tag, groups)>>)

\* deploy/core
SGNStaking ==
  DeployScript("SGNStaking",
    <<WithArgs("Staking", {"CELR", "STAKING"}),
      WithOthers("SGN", {}, <<"Staking">>),
      WithOthers("StakingReward", {}, <<"Staking">>),
      WithOthers("Govern", {"CELR"}, <<"Staking", "StakingReward">>),
      WithOthers("Viewer", {}, <<"Staking">>)>>)

\* deploy/governed-owner
GovernedOwner ==
  DeployScript("GovernedOwner",
    <<WithArgs("GovernedOwnerProxy", {"GOVERNANCE_INITIALIZER"}),
      WithOthers("SimpleGovernance", {"GOVERNANCE"}, <<"GovernedOwnerProxy">>)>>)
MessageBusOwner == Single("MessageBusOwner", {"GOVERNANCE"})

\* deploy/liquidity-bridge and deploy/circle-usdc
Bridge            == Single("Bridge", {})
FarmingRewards    == Single("FarmingRewards", {"FARMING_REWARDS_SIGS_VERIFIER"})
CircleBridgeProxy == Single("CircleBridgeProxy", {"CIRCLE_BRIDGE"})

\* deploy/pegged-bridge
OriginalTokenVault      == Single("OriginalTokenVault", {"ORIGINAL_TOKEN_VAULT_SIGS_VERIFIER"})
OriginalTokenVaultV2    == Single("OriginalTokenVaultV2", {"ORIGINAL_TOKEN_VAULT_SIGS_VERIFIER"})
PeggedTokenBridge       == Single("PeggedTokenBridge", {"PEGGED_TOKEN_BRIDGE_SIGS_VERIFIER"})
PeggedTokenBridgeV2     == Single("PeggedTokenBridgeV2", {"PEGGED_TOKEN_BRIDGE_SIGS_VERIFIER"})
PeggedBrc20Bridge       == Single("PeggedBrc20Bridge", {"PEGGED_BRC20_BRIDGE_MINTER"})
PeggedNativeTokenBridge == Single("PeggedNativeTokenBridge", {"PEGGED_TOKEN_BRIDGE_SIGS_VERIFIER"})

\* deploy/pegged-bridge/tokens
SingleBridgeToken         == Single("SingleBridgeToken", {"SINGLE_BRIDGE_TOKEN"})
SingleBridgeTokenPermit   == Single("SingleBridgeTokenPermit", {"SINGLE_BRIDGE_TOKEN_PERMIT"})
MultiBridgeToken          == Single("MultiBridgeToken", {"MULTI_BRIDGE_TOKEN"})
MultiBridgeTokenPermit    == Single("MultiBridgeTokenPermit", {"MULTI_BRIDGE_TOKEN_PERMIT"})
MintSwapCanonicalToken    == Single("MintSwapCanonicalToken", {"MINT_SWAP_CANONICAL_TOKEN"})
\* the name is the permit token's own, the symbol and the decimals another's
MintSwapCanonicalTokenPermit ==
  Single("MintSwapCanonicalTokenPermit",
         {"MINT_SWAP_CANONICAL_TOKEN_PERMIT", "MULTI_BRIDGE_TOKEN_PERMIT"})
MintSwapCanonicalTokenUpgradable ==
  DeployScript("MintSwapCanonicalTokenUpgradable",
    <<BehindProxy("MintSwapCanonicalTokenUpgradable", {"MINT_SWAP_CANONICAL_TOKEN"},
            {"MINT_SWAP_CANONICAL_TOKEN"})>>)
MintSwapCanonicalTokenFreezable == Single("MintSwapCanonicalTokenFreezable", {"MINT_SWAP_CANONICAL_TOKEN"})
MintSwapCanonicalTokenUpgradableFreezable ==
  DeployScript("MintSwapCanonicalTokenUpgradableFreezable",
    <<BehindProxy("MintSwapCanonicalTokenUpgradableFreezable", {"MINT_SWAP_CANONICAL_TOKEN"},
            {"MINT_SWAP_CANONICAL_TOKEN"})>>)
WrappedBridgeToken        == Single("WrappedBridgeToken", {"WRAPPED_BRIDGE_TOKEN"})
IntermediaryBridgeToken   == Single("IntermediaryBridgeToken", {"INTERMEDIARY_BRIDGE_TOKEN"})
IntermediaryOriginalToken == Single("IntermediaryOriginalToken", {"INTERMEDIARY_ORIGINAL_TOKEN"})
CircleBridgeToken         == Single("CircleBridgeToken", {"CIRCLE_BRIDGE_TOKEN"})
FraxBridgeToken           == Single("FraxBridgeToken", {"FRAX_BRIDGE_TOKEN"})
MaiBridgeToken            == Single("MaiBridgeToken", {"MAI_BRIDGE_TOKEN"})
OntologyBridgeToken       == Single("OntologyBridgeToken", {"ONTOLOGY_BRIDGE_TOKEN"})
RestrictedMultiBridgeTokenOwner ==
  Single("RestrictedMultiBridgeTokenOwner", {"RESTRICTED_MULTI_BRIDGE_TOKEN_OWNER"})

\* deploy/message: two scripts record under one name, the proxy's or the bus's
MessageBusInit ==
  DeployScript("MessageBusInit",
    <<BehindProxy("MessageBus", {"MESSAGE_BUS_SIGS_VERIFIER", "MESSAGE_BUS"}, {"MESSAGE_BUS"})>>)
MessageBus == Single("MessageBus", {"MESSAGE_BUS_SIGS_VERIFIER", "MESSAGE_BUS"})

\* deploy/message/apps
TransferSwap == Single("TransferSwap", {"CC_SWAP"})
NFTBridge == DeployScript("NFTBridge", <<BehindProxy("NFTBridge", {"MSG_BUS_ADDR"}, {"MSG_BUS_ADDR"})>>)
PegNFT  == Single("PegNFT", {"NFT", "NFT_BRIDGE_ADDR"})
OrigNFT == Single("OrigNFT", {"NFT"})
MCNNFT  == Single("MCNNFT", {"NFT", "NFT_BRIDGE_ADDR"})
MsgTest == Single("MsgTest", {"MESSAGE_BUS_ADDR"})
RFQ     == Single("RFQ", {"MESSAGE_BUS_ADDR"})
MessageReceiverAdapter == Single("MessageReceiverAdapter", {"MESSAGE_BUS_ADDR"})

\* deploy/sentinel
SentinelUpgradable ==
  DeployScript("SentinelUpgradable", <<BehindProxy("Sentinel", {"SENTINEL"}, {"SENTINEL"})>>)

\* deploy/miscs
TestToken        == DeployScript("TestToken", <<WithArgs("MintableERC20", {"TEST_TOKEN"})>>)
Faucet           == Single("Faucet", {})
DummySwap        == Single("DummySwap", {})
WithdrawInbox    == Single("WithdrawInbox", {})
ContractAsLP     == Single("ContractAsLP", {"BRIDGE", "WITHDRAW_INBOX"})
ContractAsSender == Single("ContractAsSender", {})
TransferAgent    == Single("TransferAgent", {})
DefaultProxyAdmin == Single("DefaultProxyAdmin", {"PROXY_ADMIN_OWNER"})

DeployScripts ==
  {SGNStaking, GovernedOwner, MessageBusOwner, Bridge, FarmingRewards, CircleBridgeProxy,
   OriginalTokenVault, OriginalTokenVaultV2, PeggedTokenBridge, PeggedTokenBridgeV2,
   PeggedBrc20Bridge, PeggedNativeTokenBridge, SingleBridgeToken, SingleBridgeTokenPermit,
   MultiBridgeToken, MultiBridgeTokenPermit, MintSwapCanonicalToken, MintSwapCanonicalTokenPermit,
   MintSwapCanonicalTokenUpgradable, MintSwapCanonicalTokenFreezable,
   MintSwapCanonicalTokenUpgradableFreezable, WrappedBridgeToken, IntermediaryBridgeToken,
   IntermediaryOriginalToken, CircleBridgeToken, FraxBridgeToken, MaiBridgeToken,
   OntologyBridgeToken, RestrictedMultiBridgeTokenOwner, MessageBusInit, MessageBus, TransferSwap,
   NFTBridge, PegNFT, OrigNFT, MCNNFT, MsgTest, RFQ, MessageReceiverAdapter, SentinelUpgradable,
   TestToken, Faucet, DummySwap, WithdrawInbox, ContractAsLP, ContractAsSender, TransferAgent,
   DefaultProxyAdmin}

ScriptOf(tag) == CHOOSE s \in DeployScripts : s.tag = tag
StepsOf(tag)  == ScriptOf(tag).steps

\* hardhat deploy runs nothing for a tag that no script has
ASSUME TagsAssumption == Tags \subseteq {s.tag : s \in DeployScripts}

------------------------------------------------------------------------------
AllSteps == UNION {ToSet(StepsOf(t)) : t \in Tags}
DeployNames == {s.name : s \in AllSteps} \cup {"DefaultProxyAdmin"}
Groups      == (UNION {s.env : s \in AllSteps}) \cup {"PROXY_ADMIN_OWNER"}

NoRun == [tag |-> "none", next |-> 1, env |-> [g \in Groups |-> 0], completed |-> FALSE]

CelerDeployInit ==
  /\ env = [g \in Groups |-> 0]
  /\ contracts = <<>>
  /\ records = [n \in DeployNames |-> 0]
  /\ implementations = [n \in DeployNames |-> 0]
  /\ deployRun = NoRun /\ deployRuns = 0 /\ edits = 0

\* dotenv.config() and the tags of hardhat deploy
StartDeploy(tag) ==
  /\ deployRuns < MaxDeploys /\ (deployRun.tag = "none" \/ deployRun.completed)
  /\ deployRun' = [tag |-> tag, next |-> 1, env |-> env, completed |-> FALSE]
  /\ deployRuns' = deployRuns + 1
  /\ UNCHANGED <<env, contracts, records, implementations, edits>>

\* A contract as built from the .env the run has read and from the records;
\* a proxy has in addition the implementation it runs, its admin and what
\* init was called with
Build(s) ==
  [name |-> s.name,
   env  |-> [g \in s.env |-> deployRun.env[g]],
   on   |-> [i \in DOMAIN s.on |-> records[s.on[i]]],
   runs |-> 0, admin |-> 0, init |-> <<>>]

Resolvable(s) == \A i \in DOMAIN s.on : records[s.on[i]] # 0

\* hardhat-deploy deploys again only what differs from the record
UpToDate(address, build) == address # 0 /\ contracts[address] = build

Current == StepsOf(deployRun.tag)[deployRun.next]
Running == deployRun.tag # "none" /\ ~deployRun.completed /\ deployRun.next <= Len(StepsOf(deployRun.tag))

\* Mutant: skipIfAlreadyDeployed
SkippedOnceRecorded(s) == records[s.name] # 0

\* The options of deploy() leave it to hardhat-deploy what to skip
Skipped(s) == UpToDate(records[s.name], Build(s))

Advanced == deployRun' = [deployRun EXCEPT !.next = @ + 1]

DeployPlain ==
  /\ Running /\ Current.init = <<>> /\ Resolvable(Current)
  /\ IF Skipped(Current)
       THEN UNCHANGED <<contracts, records>>
       ELSE /\ contracts' = Append(contracts, Build(Current))
            /\ records' = [records EXCEPT ![Current.name] = Len(contracts')]
  /\ Advanced
  /\ UNCHANGED <<env, implementations, deployRuns, edits>>

\* The proxy recorded before, if there is one: deployments/<name>_Proxy
ProxyOf(name) ==
  LET ps == {a \in DOMAIN contracts : contracts[a].name = name /\ contracts[a].admin # 0}
  IN IF ps = {} THEN 0 ELSE CHOOSE a \in ps : TRUE

AdminBuild ==
  [name |-> "DefaultProxyAdmin",
   env  |-> [g \in IF Current.name = "Sentinel" THEN {"PROXY_ADMIN_OWNER"} ELSE {} |-> deployRun.env[g]],
   on |-> <<>>, runs |-> 0, admin |-> 0, init |-> <<>>]

\* The implementation is deployed when it differs; the first time the proxy
\* follows, with init called by its constructor, later the proxy is upgraded
\* through its admin, which has to be the DefaultProxyAdmin on record
DeployProxy ==
  LET s == Current
      fresh == ~UpToDate(implementations[s.name], Build(s))
      withImpl == IF fresh THEN Append(contracts, Build(s)) ELSE contracts
      impl == IF fresh THEN Len(withImpl) ELSE implementations[s.name]
      admin == records["DefaultProxyAdmin"]
      withAdmin == IF admin = 0 THEN Append(withImpl, AdminBuild) ELSE withImpl
      adminAt == IF admin = 0 THEN Len(withAdmin) ELSE admin
      initial == [Build(s) EXCEPT !.runs = impl, !.admin = adminAt,
                                  !.init = <<[g \in s.init[1] |-> deployRun.env[g]]>>]
  IN /\ Running /\ s.init # <<>>
     /\ implementations' = [implementations EXCEPT ![s.name] = impl]
     /\ IF ProxyOf(s.name) = 0
          THEN /\ contracts' = Append(withAdmin, initial)
               /\ records' = [records EXCEPT !["DefaultProxyAdmin"] = adminAt, ![s.name] = Len(contracts')]
          ELSE /\ contracts[ProxyOf(s.name)].admin = admin
               /\ contracts' = [withImpl EXCEPT ![ProxyOf(s.name)].runs = impl]
               /\ records' = [records EXCEPT ![s.name] = ProxyOf(s.name)]
     /\ Advanced
     /\ UNCHANGED <<env, deployRuns, edits>>

CompleteDeploy ==
  /\ deployRun.tag # "none" /\ ~deployRun.completed /\ deployRun.next > Len(StepsOf(deployRun.tag))
  /\ deployRun' = [deployRun EXCEPT !.completed = TRUE]
  /\ UNCHANGED <<env, contracts, records, implementations, deployRuns, edits>>

\* A transaction or a verification fails, an address is missing, or the
\* process is killed
StopDeploy ==
  /\ deployRun.tag # "none" /\ ~deployRun.completed
  /\ deployRun' = NoRun
  /\ UNCHANGED <<env, contracts, records, implementations, deployRuns, edits>>

\* The operator edits .env, also while a script runs
EditEnv(g) ==
  /\ edits < MaxEdits
  /\ env' = [env EXCEPT ![g] = @ + 1] /\ edits' = edits + 1
  /\ UNCHANGED <<contracts, records, implementations, deployRun, deployRuns>>

CelerDeployNext ==
  \/ \E t \in Tags : StartDeploy(t)
  \/ DeployPlain \/ DeployProxy \/ CompleteDeploy \/ StopDeploy
  \/ \E g \in Groups : EditEnv(g)

------------------------------------------------------------------------------
\* After a run that completed, whatever earlier runs left half-way, every
\* contract it records is built from the .env the run has read and from the
\* contracts that are on record themselves, and every proxy runs the
\* implementation on record while its init call was never repeated: no Govern
\* is left on the StakingReward of an earlier Staking.
RecordsFitTogether ==
  deployRun.completed =>
    \A i \in DOMAIN StepsOf(deployRun.tag) :
      LET s == StepsOf(deployRun.tag)[i]
          c == contracts[records[s.name]]
          built == IF s.init = <<>> THEN c ELSE contracts[c.runs]
      IN /\ built.env = [g \in s.env |-> deployRun.env[g]]
         /\ built.on = [k \in DOMAIN s.on |-> records[s.on[k]]]
         /\ s.init # <<>> => c.runs = implementations[s.name] /\ Len(c.init) = 1
==============================================================================
