--------------------------- MODULE RollupCreation ---------------------------
(***************************************************************************)
(* Arbitrum, scripts/: an operator deploys the templates and the           *)
(* RollupCreator (deployment.ts, or the local deployment), then creates    *)
(* rollups with it.  A script runs alone, may stop at every call it makes, *)
(* and leaves behind what is on the chain: contracts, allowances and       *)
(* transactions that it sent without waiting for them.                     *)
(* Amounts of the fee token are in millionths of an ether.                 *)
(***************************************************************************)
EXTENDS Naturals, Sequences

CONSTANTS
  OnArbitrum,       \* whether the parent chain is itself an Arbitrum chain
  Environments,     \* the environments scripts are started in
  RollupConfig,     \* scripts/config.ts
  Decimals,         \* decimals of each fee token
  MaxRollupScripts  \* bound on the scripts run

ASSUME RollupAssumption ==
  /\ OnArbitrum \in BOOLEAN
  /\ MaxRollupScripts \in Nat
  /\ \A t \in DOMAIN Decimals : Decimals[t] \in Nat

VARIABLES
  creators,         \* the RollupCreators deployed, with their templates
  rollups,          \* the rollups created
  mempool,          \* creators whose setTemplates transaction is not mined yet
  inboxLogics,      \* sequencer inboxes deployed for an upgrade to blobs
  cacheManagers,    \* the cache managers of the child chain
  files,            \* deploy.json and l2_chain_info.json
  script,           \* the script that is running
  rollupScripts     \* number of scripts started

rollupVars == <<creators, rollups, mempool, inboxLogics, cacheManagers, files, script,
                rollupScripts>>

\* the zero address, an unset variable
Unset   == "unset"
\* a variable that is not an address
Garbage == "garbage"

------------------------------------------------------------------------------
\* What the scripts deploy

SequencerInbox(feeToken, bufferable) == [feeToken |-> feeToken, bufferable |-> bufferable]

EthBasedTemplates ==
  [bridge |-> "Bridge", plain |-> SequencerInbox(FALSE, FALSE),
   delayBufferable |-> SequencerInbox(FALSE, TRUE)]
Erc20BasedTemplates ==
  [bridge |-> "ERC20Bridge", plain |-> SequencerInbox(TRUE, FALSE),
   delayBufferable |-> SequencerInbox(TRUE, TRUE)]

CoreContracts ==
  <<"Bridge", "Reader4844", "SequencerInbox", "SequencerInbox", "Inbox", "RollupEventInbox",
    "Outbox", "ERC20Bridge", "SequencerInbox", "SequencerInbox", "ERC20Inbox",
    "ERC20RollupEventInbox", "ERC20Outbox", "BridgeCreator", "OneStepProver0",
    "OneStepProverMemory", "OneStepProverMath", "OneStepProverHostIo", "OneStepProofEntry",
    "EdgeChallengeManager", "RollupAdminLogic", "RollupUserLogic", "UpgradeExecutor",
    "ValidatorWalletCreator", "RollupCreator", "DeployHelper">>
BlobContracts ==
  <<"Reader4844", "SequencerInbox", "OneStepProver0", "OneStepProverMemory",
    "OneStepProverMath", "OneStepProverHostIo", "OneStepProofEntry", "ChallengeManager">>
CacheContracts == <<"CacheManager", "ProxyAdmin", "TransparentUpgradeableProxy">>

ContractsOf == [deployment |-> CoreContracts, local |-> CoreContracts,
                blobs |-> BlobContracts, cache |-> CacheContracts]

\* 90% of the size limit of a transaction on the parent chain
MaxDataSize(arbitrum) == IF arbitrum THEN 104857 ELSE 117964
DataSizeOf(env) == IF env.maxDataSize = 0 THEN MaxDataSize(FALSE) ELSE env.maxDataSize

------------------------------------------------------------------------------
\* Starting, verifying and stopping

NoScript == [env |-> [name |-> "none"], stage |-> "done", built |-> 0, verifying |-> FALSE,
         arbitrum |-> FALSE, creator |-> 0, token |-> Unset, walletCreator |-> 0]

FeeTokenOf(env) ==
  CASE env.name = "erc20" /\ env.feeToken = Unset -> "TestToken"
    [] env.name = "eth" -> Unset
    [] OTHER -> env.feeToken
PricerOf(env) == IF env.name = "eth" THEN Unset ELSE env.feeTokenPricer

FirstStage(env) ==
  IF env.incomplete \/ (env.name = "erc20" /\ env.feeToken = Garbage) THEN "failed"
  ELSE CASE env.name \in {"eth", "erc20"} -> "read"
         [] env.name = "deployment" /\ ~env.ignoreWarning -> "check"
         [] OTHER -> "ask"

StartRollupScript(env) ==
  /\ script.stage \in {"done", "failed"} /\ ~script.verifying
  /\ rollupScripts < MaxRollupScripts
  /\ env.name \in {"eth", "erc20"} => env.creator \in DOMAIN creators
  /\ rollupScripts' = rollupScripts + 1
  /\ script' = [NoScript EXCEPT !.env = env, !.stage = FirstStage(env), !.token = FeeTokenOf(env),
                            !.creator = IF env.name \in {"eth", "erc20"} THEN env.creator ELSE 0]
  /\ UNCHANGED <<creators, rollups, mempool, inboxLogics, cacheManagers, files>>

\* arbOSVersion() fails everywhere else, and any failure counts as "elsewhere"
IsRunningOnArbitrum == IF OnArbitrum THEN BOOLEAN ELSE {FALSE}

ScriptAt(stage) == script.stage = stage /\ ~script.verifying
Goto(stage) == script' = [script EXCEPT !.stage = stage]

CheckDataSize ==
  /\ ScriptAt("check")
  /\ \E arbitrum \in IsRunningOnArbitrum :
       Goto(IF DataSizeOf(script.env) = MaxDataSize(arbitrum) THEN "ask" ELSE "failed")
  /\ UNCHANGED <<creators, rollups, mempool, inboxLogics, cacheManagers, files, rollupScripts>>

AskParentChain ==
  /\ ScriptAt("ask")
  /\ \E arbitrum \in IsRunningOnArbitrum :
       script' = [script EXCEPT !.stage = "deploy", !.arbitrum = arbitrum]
  /\ UNCHANGED <<creators, rollups, mempool, inboxLogics, cacheManagers, files, rollupScripts>>

Verifies == script.env.name = "deployment" /\ script.env.verify

\* the explorer may not have indexed the contract: the verification starts again
VerifyContract ==
  /\ script.verifying
  /\ \E answer \in {"verified", "already verified", "does not have bytecode", "error"} :
       script' = [script EXCEPT !.verifying = answer = "does not have bytecode"]
  /\ UNCHANGED <<creators, rollups, mempool, inboxLogics, cacheManagers, files, rollupScripts>>

\* a call fails or the process dies; a failed createRollup ends here too
RollupScriptFails ==
  /\ script.stage \notin {"done", "failed"}
  /\ script' = [script EXCEPT !.stage = "failed", !.verifying = FALSE]
  /\ UNCHANGED <<creators, rollups, mempool, inboxLogics, cacheManagers, files, rollupScripts>>

------------------------------------------------------------------------------
\* Deploying the templates, and naming them to the RollupCreator

Remaining == SubSeq(ContractsOf[script.env.name], script.built + 1,
                    Len(ContractsOf[script.env.name]))

\* the constructor of a sequencer inbox refuses a blob reader on Arbitrum and
\* wants one elsewhere; the upgrade script always gives one
ConstructorAccepts(contract) ==
  contract = "SequencerInbox" =>
    OnArbitrum = (script.arbitrum /\ script.env.name # "blobs")

NewCreator(env) == [size |-> DataSizeOf(env), eth |-> EthBasedTemplates,
                    erc20 |-> Erc20BasedTemplates, set |-> FALSE,
                    allowance |-> [t \in DOMAIN Decimals |-> 0]]

DeployNextContract ==
  /\ ScriptAt("deploy") /\ Remaining # <<>>
  /\ ConstructorAccepts(Head(Remaining))
  /\ script' = [script EXCEPT
       !.built     = @ + 1,
       !.verifying = Verifies /\ Head(Remaining) \notin {"Reader4844", "UpgradeExecutor"},
       !.creator   = IF Head(Remaining) = "RollupCreator" THEN Len(creators) + 1 ELSE @]
  /\ creators' = IF Head(Remaining) = "RollupCreator"
                 THEN Append(creators, NewCreator(script.env)) ELSE creators
  \* three of the four arguments: the overrides that follow are taken for the fourth
  /\ inboxLogics' = IF Head(Remaining) = "SequencerInbox" /\ script.env.name = "blobs"
                    THEN Append(inboxLogics, SequencerInbox(RollupConfig.isUsingFeeToken, TRUE))
                    ELSE inboxLogics
  /\ cacheManagers' = IF Head(Remaining) = "TransparentUpgradeableProxy"
                      THEN Append(cacheManagers, [initialized |-> FALSE, added |-> FALSE])
                      ELSE cacheManagers
  /\ UNCHANGED <<rollups, mempool, files, rollupScripts>>

\* mutant: the local deployment does not wait either
SetTemplatesUnawaited ==
  /\ ScriptAt("deploy") /\ Remaining = <<>> /\ script.env.name \in {"deployment", "local"}
  /\ mempool' = mempool \cup {script.creator}
  /\ Goto(IF script.env.name = "local" THEN "read" ELSE "done")
  /\ UNCHANGED <<creators, rollups, inboxLogics, cacheManagers, files, rollupScripts>>

\* deployment.ts ends without waiting for the transaction
SetTemplates ==
  /\ ScriptAt("deploy") /\ Remaining = <<>> /\ script.env.name \in {"deployment", "local"}
  /\ mempool' = mempool \cup {script.creator}
  /\ Goto(IF script.env.name = "local" THEN "wait" ELSE "done")
  /\ UNCHANGED <<creators, rollups, inboxLogics, cacheManagers, files, rollupScripts>>

TemplatesMined ==
  /\ \E c \in mempool : /\ mempool' = mempool \ {c}
                        /\ creators' = [creators EXCEPT ![c].set = TRUE]
  /\ UNCHANGED <<rollups, inboxLogics, cacheManagers, files, script, rollupScripts>>

WaitForTemplates ==
  /\ ScriptAt("wait") /\ script.creator \notin mempool
  /\ Goto("read")
  /\ UNCHANGED <<creators, rollups, mempool, inboxLogics, cacheManagers, files, rollupScripts>>

EndDeployment ==
  /\ ScriptAt("deploy") /\ Remaining = <<>> /\ script.env.name \in {"blobs", "cache"}
  /\ Goto(IF script.env.name = "cache" THEN "initialize" ELSE "done")
  /\ UNCHANGED <<creators, rollups, mempool, inboxLogics, cacheManagers, files, rollupScripts>>

------------------------------------------------------------------------------
\* The cache manager of a child chain: the chain owner adds it, directly or
\* through the upgrade executor that owns the chain

InitializeCache ==
  /\ ScriptAt("initialize")
  /\ cacheManagers' = [cacheManagers EXCEPT ![Len(cacheManagers)].initialized = TRUE]
  /\ Goto("add")
  /\ UNCHANGED <<creators, rollups, mempool, inboxLogics, files, rollupScripts>>

AddWasmCacheManager ==
  /\ ScriptAt("add") /\ script.env.chainOwner \in {"caller", "executor of caller"}
  /\ cacheManagers' = [cacheManagers EXCEPT ![Len(cacheManagers)].added = TRUE]
  /\ Goto("done")
  /\ UNCHANGED <<creators, rollups, mempool, inboxLogics, files, rollupScripts>>

------------------------------------------------------------------------------
\* createRollup of rollupCreation.ts: first outside its try block, then inside

ReadWalletCreator ==
  /\ ScriptAt("read")
  /\ script' = [script EXCEPT
       !.walletCreator = IF creators[script.creator].set THEN script.creator ELSE 0,
       !.stage = IF script.token = Unset THEN "create" ELSE "approve"]
  /\ UNCHANGED <<creators, rollups, mempool, inboxLogics, cacheManagers, files, rollupScripts>>

\* 0.13 ether, meant to cover the four factories deployed through retryables
FactoryBudget == 130000

DividedUp(amount, divisor) == (amount + divisor - 1) \div divisor
\* in units of the token, or in millionths when the token has smaller units
PrescaledAmount(token, amount) ==
  IF Decimals[token] < 6 THEN DividedUp(amount, 10 ^ (6 - Decimals[token])) ELSE amount

ApproveCreator ==
  /\ ScriptAt("approve") /\ script.token # Garbage
  /\ creators' = [creators EXCEPT ![script.creator].allowance[script.token] =
                                    PrescaledAmount(script.token, FactoryBudget)]
  /\ Goto("create")
  /\ UNCHANGED <<rollups, mempool, inboxLogics, cacheManagers, files, rollupScripts>>

IsDev == script.env.name = "local"

\* the addresses at which the wallet creator will deploy its first wallets
Wallets == {<<script.walletCreator, nonce>> : nonce \in 1..script.env.validators}

DevParams ==
  [owner |-> script.env.owner, wallets |-> Wallets, validators |-> {"testnode"},
   posters |-> IF script.env.posters = {} THEN {script.env.sequencer} ELSE script.env.posters,
   manager |-> IF script.env.manager = Unset THEN script.env.owner ELSE script.env.manager,
   threshold |-> 600, size |-> DataSizeOf(script.env)]
ConfigParams ==
  [owner |-> RollupConfig.owner, wallets |-> {}, validators |-> RollupConfig.validators,
   posters |-> RollupConfig.posters, manager |-> RollupConfig.manager,
   threshold |-> RollupConfig.threshold, size |-> RollupConfig.maxDataSize]
DeployParams == [params |-> IF IsDev THEN DevParams ELSE ConfigParams,
                 nativeToken |-> script.token, feeTokenPricer |-> PricerOf(script.env)]

\* what the script or ethers refuses before a transaction is sent
Encodable(p) == {Unset, Garbage} \cap ({p.owner, p.manager} \cup p.posters) = {}

\* each factory's cost is rounded up on its own: value and gas of the deployments
FactoryCosts == <<10021, 24721, 10021, 80021>>
FactoriesCost(token) ==
  PrescaledAmount(token, FactoryCosts[1]) + PrescaledAmount(token, FactoryCosts[2])
    + PrescaledAmount(token, FactoryCosts[3]) + PrescaledAmount(token, FactoryCosts[4])

\* BridgeCreator.createBridge
TemplatesFor(creator, token) == IF token = Unset THEN creator.eth ELSE creator.erc20
InboxFor(creator, d) ==
  IF d.params.threshold = 0 THEN TemplatesFor(creator, d.nativeToken).plain
                            ELSE TemplatesFor(creator, d.nativeToken).delayBufferable

Creatable(creator, d) ==
  /\ creator.set
  /\ d.params.size = creator.size
  /\ \A i \in DOMAIN rollups : rollups[i].creator = script.creator => rollups[i].salt # d
  /\ InboxFor(creator, d).feeToken = (d.nativeToken # Unset)
  /\ d.feeTokenPricer # Unset => InboxFor(creator, d).feeToken
  /\ d.nativeToken # Unset => FactoriesCost(d.nativeToken) <= creator.allowance[d.nativeToken]

NewRollup(creator, d) ==
  [creator |-> script.creator, salt |-> d, bridge |-> TemplatesFor(creator, d.nativeToken).bridge,
   inbox |-> InboxFor(creator, d), executors |-> {d.params.owner}, owner |-> "executor",
   wallets |-> d.params.wallets, validators |-> d.params.validators,
   posters |-> d.params.posters, manager |-> d.params.manager]

CreateRollup ==
  /\ ScriptAt("create")
  /\ Encodable(DeployParams.params)
  /\ Creatable(creators[script.creator], DeployParams)
  /\ rollups' = Append(rollups, NewRollup(creators[script.creator], DeployParams))
  /\ creators' = IF script.token = Unset THEN creators
                 ELSE [creators EXCEPT ![script.creator].allowance[script.token] =
                                         @ - FactoriesCost(script.token)]
  /\ script' = [script EXCEPT !.stage = IF IsDev THEN "report" ELSE "done",
                              !.verifying = ~IsDev /\ script.env.verify]
  /\ UNCHANGED <<mempool, inboxLogics, cacheManagers, files, rollupScripts>>

\* the two files of the local deployment are written one after the other
WriteDeployment ==
  /\ ScriptAt("report")
  /\ files' = [files EXCEPT !.deployment = Len(rollups)]
  /\ \E arbitrum \in IsRunningOnArbitrum :
       script' = [script EXCEPT !.stage = "info", !.arbitrum = arbitrum]
  /\ UNCHANGED <<creators, rollups, mempool, inboxLogics, cacheManagers, rollupScripts>>

WriteChainInfo ==
  /\ ScriptAt("info")
  /\ files' = [files EXCEPT !.chainInfo = [rollup |-> Len(rollups),
                                           parentIsArbitrum |-> script.arbitrum]]
  /\ Goto("done")
  /\ UNCHANGED <<creators, rollups, mempool, inboxLogics, cacheManagers, rollupScripts>>

------------------------------------------------------------------------------
RollupsInit ==
  /\ creators = <<>> /\ rollups = <<>> /\ mempool = {}
  /\ inboxLogics = <<>> /\ cacheManagers = <<>>
  /\ files = [deployment |-> 0, chainInfo |-> [rollup |-> 0, parentIsArbitrum |-> FALSE]]
  /\ script = NoScript /\ rollupScripts = 0

RollupsNext ==
  \/ \E env \in Environments : StartRollupScript(env)
  \/ CheckDataSize \/ AskParentChain \/ VerifyContract \/ RollupScriptFails
  \/ DeployNextContract \/ SetTemplates \/ TemplatesMined \/ WaitForTemplates \/ EndDeployment
  \/ InitializeCache \/ AddWasmCacheManager
  \/ ReadWalletCreator \/ ApproveCreator \/ CreateRollup \/ WriteDeployment \/ WriteChainInfo

------------------------------------------------------------------------------
\* A rollup runs the contracts made for its fee token, its delay buffer is one
\* that its sequencer inbox has, and every validator wallet it admits is one
\* that its own wallet creator will deploy.  The addresses of the wallets are
\* computed from what createRollup read before it built the transaction.
RollupsAreWhole ==
  \A i \in DOMAIN rollups :
    LET r == rollups[i]
    IN  /\ r.bridge = IF r.salt.nativeToken = Unset THEN "Bridge" ELSE "ERC20Bridge"
        /\ r.inbox.feeToken = (r.salt.nativeToken # Unset)
        /\ r.inbox.bufferable = (r.salt.params.threshold # 0)
        /\ \A w \in r.wallets : w[1] = r.creator
=============================================================================
