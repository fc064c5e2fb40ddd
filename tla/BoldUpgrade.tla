---------------------------- MODULE BoldUpgrade ----------------------------
(***************************************************************************)
(* Arbitrum, scripts: moving a live chain from the old rollup to BoLD.     *)
(* Three scripts are run by hand: prepareBoldUpgrade deploys the upgrade   *)
(* action, populateLookup stores the state it will start from,             *)
(* executeBoldUpgrade reads the old state, has the UpgradeExecutor run the *)
(* action and compares what it finds.  Meanwhile the old rollup is in use, *)
(* and its owner may pause and resume it, force it to confirm and change   *)
(* its program at any time.                                                *)
(***************************************************************************)
EXTENDS Integers, Sequences, SequencesExt

CONSTANTS
  Validators,       \* who may stake
  Configs,          \* what files/configs may hold when a script reads it
  UsesFeeToken,     \* isUsingFeeToken of the chain's sequencer inbox
  LogWindows,       \* nodes whose NodeCreated populateLookup can still find
  MaxRefunds,       \* how many stakers the action looks at (50 in the code)
  MaxNodes, MaxBoxes, MaxRoots \* bounds on what happens meanwhile

ASSUME BoldAssumption ==
  /\ UsesFeeToken \in BOOLEAN
  /\ {LogWindows, MaxRefunds, MaxNodes, MaxBoxes, MaxRoots} \subseteq Nat

VARIABLES
  upgrade,          \* executeBoldUpgrade: its phase, config and preUpgradeState
  deployedContracts,\* the file that prepareBoldUpgrade writes
  lookup,           \* StateHashPreImageLookup: the nodes whose state it holds
  oldRollup,        \* the rollup to leave
  bridge,           \* proxies behind the chain: implementation, rollup, boxes
  newRollup         \* the BoLD rollup and its challenge manager

boldVars == <<upgrade, deployedContracts, lookup, oldRollup, bridge, newRollup>>

Nothing == [exists |-> FALSE]
Proxies == {"bridge", "seqInbox", "rei", "outbox", "inbox"}
Contracts == {"rollup", "bridge", "sequencerInbox", "rollupEventInbox", "outbox", "inbox",
              "upgradeExecutor", "stakeToken"}
ProxyAdmins == {"proxyAdmin.outbox", "proxyAdmin.inbox", "proxyAdmin.bridge", "proxyAdmin.rei",
                "proxyAdmin.seqInbox"}
Positive == {"confirmPeriodBlocks", "challengePeriodBlocks", "chainId", "minimumAssertionPeriod",
             "blockLeafSize", "bigStepLeafSize", "smallStepLeafSize", "numBigStepLevel",
             "maxDataSize", "stakeAmt"}
BufferSettings == {"max", "threshold", "replenishRateInBasis"}
BASIS == 10000

\* A config: the addresses that hold code, the settings, the mini stakes.
ValidConfig(c) ==
  /\ Contracts \cup ProxyAdmins \subseteq c.code
  /\ \A s \in Positive : c.settings[s] # 0
  /\ Len(c.miniStakes) = c.settings.numBigStepLevel + 2
  /\ c.disableValidatorWhitelist \/ c.validators # {}
  /\ c.isDelayBufferable => \A s \in BufferSettings : c.settings[s] # 0

BoldInit ==
  /\ upgrade = [at |-> "idle"]
  /\ deployedContracts = Nothing /\ newRollup = Nothing
  /\ lookup = {}
  /\ oldRollup = [stakers |-> <<>>, challenged |-> {}, zombies |-> {}, paused |-> FALSE,
                  latestConfirmed |-> 0, wasmModuleRoot |-> 0]
  /\ bridge = [impl |-> [p \in Proxies |-> <<"old">>], rollup |-> [p \in Proxies |-> "old"],
               boxes |-> <<0>>, buffer |-> 0]

------------------------------------------------------------------------------
\* prepareBoldUpgrade

\* The templates of files/templatesV3.1 for this parent chain.
Template(p, c) ==
  <<p, IF UsesFeeToken THEN "erc20" ELSE "eth", p = "seqInbox" /\ c.isDelayBufferable>>

DeployBoldUpgrade(c) ==
  /\ ValidConfig(c)
  /\ upgrade.at = "idle"
  /\ deployedContracts' = [exists |-> TRUE, config |-> c,
                           impl |-> [p \in Proxies |-> Template(p, c)]]
  /\ lookup' = {}
  /\ UNCHANGED <<upgrade, oldRollup, bridge, newRollup>>

------------------------------------------------------------------------------
\* populateLookup: the logs are searched back for the latest confirmed node.

PopulateLookup ==
  /\ deployedContracts.exists /\ upgrade.at = "idle"
  /\ oldRollup.latestConfirmed <= LogWindows
  /\ lookup' = lookup \cup {oldRollup.latestConfirmed}
  /\ UNCHANGED <<upgrade, deployedContracts, oldRollup, bridge, newRollup>>

------------------------------------------------------------------------------
\* executeBoldUpgrade: getPreUpgradeState, one call after another

StartUpgrade(c) ==
  /\ upgrade.at = "idle" /\ deployedContracts.exists /\ ValidConfig(c)
  /\ upgrade' = [at |-> "stakers", config |-> c, count |-> Len(oldRollup.stakers),
                 stakers |-> <<>>, boxes |-> <<>>, wasmModuleRoot |-> 0]
  /\ UNCHANGED <<deployedContracts, lookup, oldRollup, bridge, newRollup>>

\* getStakerAddress(i); the list may have shrunk since stakerCount was read.
ReadStaker ==
  LET i == Len(upgrade.stakers) + 1
  IN  /\ upgrade.at = "stakers" /\ i <= upgrade.count
      /\ upgrade' = IF i <= Len(oldRollup.stakers)
                      THEN [upgrade EXCEPT !.stakers = Append(@, oldRollup.stakers[i])]
                      ELSE [at |-> "idle"]
      /\ UNCHANGED <<deployedContracts, lookup, oldRollup, bridge, newRollup>>

ReadBoxes ==
  /\ upgrade.at = "stakers" /\ Len(upgrade.stakers) = upgrade.count
  /\ upgrade' = [upgrade EXCEPT !.at = "root", !.boxes = bridge.boxes]
  /\ UNCHANGED <<deployedContracts, lookup, oldRollup, bridge, newRollup>>

ReadWasmModuleRoot ==
  /\ upgrade.at = "root"
  /\ upgrade' = [upgrade EXCEPT !.at = "perform", !.wasmModuleRoot = oldRollup.wasmModuleRoot]
  /\ UNCHANGED <<deployedContracts, lookup, oldRollup, bridge, newRollup>>

------------------------------------------------------------------------------
\* perform: UpgradeExecutor.execute(boldAction.perform(config.validators))

\* Stakers and boxes: the last of a list takes the place of one that leaves.
Without(list, i) ==
  SubSeq([list EXCEPT ![i] = Last(list)], 1, Len(list) - 1)

\* cleanupOldRollup looks at as many stakers as there were, but at most at
\* MaxRefunds: one in a challenge is passed over, another is refunded.
StakersLeft ==
  FoldLeft(LAMBDA s, k : IF s.list[s.i] \in oldRollup.challenged
                           THEN [s EXCEPT !.i = @ + 1]
                           ELSE [s EXCEPT !.list = Without(@, s.i)],
           [list |-> oldRollup.stakers, i |-> 1],
           [k \in 1 .. Min({MaxRefunds, Len(oldRollup.stakers)}) |-> k]).list

CleanupOldRollup ==
  [oldRollup EXCEPT !.paused = TRUE, !.stakers = StakersLeft,
                    !.zombies = @ \cup (ToSet(oldRollup.stakers) \ ToSet(StakersLeft))]

\* Mutant: the outbox goes on listening to the old rollup.
UpgradeAllButOutbox(d) ==
  [bridge EXCEPT !.impl = d.impl,
                 !.rollup = [p \in Proxies |-> IF p \in {"inbox", "outbox"} THEN @[p] ELSE "new"],
                 !.buffer = IF d.config.isDelayBufferable THEN d.config.settings.max ELSE @]

UpgradeSurroundingContracts(d) ==
  [bridge EXCEPT !.impl = d.impl, !.rollup = [p \in Proxies |-> IF p = "inbox" THEN @[p] ELSE "new"],
                 !.buffer = IF d.config.isDelayBufferable THEN d.config.settings.max ELSE @]

\* isValidBufferConfig
BufferIsValid(c) ==
  c.isDelayBufferable => /\ c.settings.threshold <= c.settings.max
                         /\ c.settings.replenishRateInBasis <= BASIS

Perform ==
  LET action == deployedContracts.config
  IN  /\ upgrade.at = "perform"
      /\ ~ oldRollup.paused /\ ~ newRollup.exists /\ BufferIsValid(action)
      /\ oldRollup.latestConfirmed \in lookup
      /\ upgrade.config.validators \subseteq Validators
      /\ oldRollup' = CleanupOldRollup
      /\ bridge' = UpgradeSurroundingContracts(deployedContracts)
      /\ newRollup' = [exists |-> TRUE, config |-> [action EXCEPT !.validators = upgrade.config.validators],
                       genesis |-> oldRollup.latestConfirmed,
                       wasmModuleRoot |-> oldRollup.wasmModuleRoot]
      /\ upgrade' = [upgrade EXCEPT !.at = "verify"]
      /\ UNCHANGED <<deployedContracts, lookup>>

\* The transaction reverts, or the signer is no executor and the call data
\* is printed instead.
DoNotPerform ==
  /\ upgrade.at = "perform"
  /\ upgrade' = [at |-> "idle"]
  /\ UNCHANGED <<deployedContracts, lookup, oldRollup, bridge, newRollup>>

------------------------------------------------------------------------------
\* verifyPostUpgrade

\* getProxyImpl
Upgraded(p) == bridge.impl[p] = deployedContracts.impl[p]
IsERC20(p) == bridge.impl[p][2] = "erc20"
Agree(names) ==
  \A s \in names : newRollup.config.settings[s] = upgrade.config.settings[s]

CheckSequencerInbox ==
  /\ Upgraded("seqInbox") /\ IsERC20("seqInbox") = UsesFeeToken
  /\ upgrade.config.isDelayBufferable =>
       bridge.buffer = upgrade.config.settings.max /\ Agree(BufferSettings)
  /\ bridge.rollup["seqInbox"] = "new"

CheckInbox == IsERC20("inbox") = UsesFeeToken /\ Upgraded("inbox")

CheckRollupEventInbox == Upgraded("rei") /\ bridge.rollup["rei"] = "new"

CheckOutbox ==
  IsERC20("outbox") = UsesFeeToken /\ Upgraded("outbox") /\ bridge.rollup["outbox"] = "new"

CheckBridge ==
  /\ IsERC20("bridge") = UsesFeeToken /\ Upgraded("bridge")
  /\ bridge.rollup["bridge"] = "new"
  /\ bridge.boxes = upgrade.boxes

CheckOldRollup ==
  /\ oldRollup.paused /\ oldRollup.stakers = <<>>
  /\ ToSet(upgrade.stakers) \subseteq oldRollup.zombies

CheckInitialAssertion ==
  /\ newRollup.wasmModuleRoot = upgrade.wasmModuleRoot
  /\ Agree({"stakeAmt", "confirmPeriodBlocks"})

CheckNewRollup ==
  /\ Agree({"chainId", "challengeGracePeriodBlocks", "stakeToken", "excessStakeReceiver"})
  /\ CheckInitialAssertion
  /\ newRollup.config.disableValidatorWhitelist = upgrade.config.disableValidatorWhitelist
  /\ upgrade.config.validators \subseteq newRollup.config.validators

\* The mini stakes of the config are compared, not how many there are.
CheckNewChallengeManager ==
  /\ Agree({"challengePeriodBlocks", "blockLeafSize", "bigStepLeafSize", "smallStepLeafSize",
            "stakeToken", "excessStakeReceiver", "numBigStepLevel"})
  /\ IsPrefix(upgrade.config.miniStakes, newRollup.config.miniStakes)

VerifyPostUpgrade ==
  /\ upgrade.at = "verify"
  /\ upgrade' =
       IF /\ CheckSequencerInbox /\ CheckInbox /\ CheckBridge
          /\ CheckRollupEventInbox /\ CheckOutbox /\ CheckOldRollup
          /\ CheckNewRollup /\ CheckNewChallengeManager
         THEN [upgrade EXCEPT !.at = "verified"] ELSE [at |-> "threw"]
  /\ UNCHANGED <<deployedContracts, lookup, oldRollup, bridge, newRollup>>

------------------------------------------------------------------------------
\* The chain meanwhile

InUse == ~ oldRollup.paused
ScriptsOnly == <<upgrade, deployedContracts, lookup, newRollup>>

Stake(v) ==
  /\ InUse /\ v \notin ToSet(oldRollup.stakers) \cup oldRollup.zombies
  /\ oldRollup' = [oldRollup EXCEPT !.stakers = Append(@, v)]
  /\ UNCHANGED <<ScriptsOnly, bridge>>

ReturnOldDeposit(i) ==
  /\ InUse /\ oldRollup.stakers[i] \notin oldRollup.challenged
  /\ oldRollup' = [oldRollup EXCEPT !.stakers = Without(@, i)]
  /\ UNCHANGED <<ScriptsOnly, bridge>>

Challenge(v, w) ==
  /\ InUse /\ v # w /\ {v, w} \subseteq ToSet(oldRollup.stakers) \ oldRollup.challenged
  /\ oldRollup' = [oldRollup EXCEPT !.challenged = @ \cup {v, w}]
  /\ UNCHANGED <<ScriptsOnly, bridge>>

\* The loser is a zombie from then on.
EndChallenge(i) ==
  LET loser == oldRollup.stakers[i]
  IN  /\ InUse /\ loser \in oldRollup.challenged
      /\ \E winner \in oldRollup.challenged \ {loser} :
           oldRollup' = [oldRollup EXCEPT !.stakers = Without(@, i), !.zombies = @ \cup {loser},
                                          !.challenged = @ \ {loser, winner}]
      /\ UNCHANGED <<ScriptsOnly, bridge>>

\* By a validator in use, by the owner when paused; either way the outbox has to
\* take the new root, and it takes it only from the rollup that it listens to.
ConfirmNode ==
  /\ bridge.rollup["outbox"] = "old" /\ oldRollup.latestConfirmed < MaxNodes
  /\ oldRollup' = [oldRollup EXCEPT !.latestConfirmed = @ + 1]
  /\ UNCHANGED <<ScriptsOnly, bridge>>

\* The owner: paused or not.
SetWasmModuleRoot ==
  /\ oldRollup.wasmModuleRoot < MaxRoots
  /\ oldRollup' = [oldRollup EXCEPT !.wasmModuleRoot = @ + 1]
  /\ UNCHANGED <<ScriptsOnly, bridge>>

Pause ==
  /\ ~ oldRollup.paused
  /\ oldRollup' = [oldRollup EXCEPT !.paused = TRUE]
  /\ UNCHANGED <<ScriptsOnly, bridge>>

ResumeOldRollup ==
  /\ oldRollup.paused
  /\ oldRollup' = [oldRollup EXCEPT !.paused = FALSE]
  /\ UNCHANGED <<ScriptsOnly, bridge>>

SetDelayedInbox(box, enabled) ==
  /\ bridge' = [bridge EXCEPT !.boxes =
       IF enabled = (box \in ToSet(@)) THEN @
       ELSE IF enabled THEN Append(@, box)
       ELSE Without(@, CHOOSE i \in DOMAIN @ : @[i] = box)]
  /\ UNCHANGED <<ScriptsOnly, oldRollup>>

\* Batches that come late use up the delay buffer of the new sequencer inbox,
\* down to its threshold; those in time fill it again, up to its maximum.
UseDelayBuffer ==
  /\ newRollup.exists /\ newRollup.config.isDelayBufferable
  /\ \E b \in newRollup.config.settings.threshold .. newRollup.config.settings.max :
       bridge' = [bridge EXCEPT !.buffer = b]
  /\ UNCHANGED <<ScriptsOnly, oldRollup>>

Meanwhile ==
  \/ \E v, w \in Validators : Stake(v) \/ Challenge(v, w)
  \/ \E i \in DOMAIN oldRollup.stakers : ReturnOldDeposit(i) \/ EndChallenge(i)
  \/ ConfirmNode \/ SetWasmModuleRoot \/ Pause \/ ResumeOldRollup
  \/ \E box \in 0 .. MaxBoxes, enabled \in BOOLEAN : SetDelayedInbox(box, enabled)
  \/ UseDelayBuffer

BoldNext ==
  \/ \E c \in Configs : DeployBoldUpgrade(c) \/ StartUpgrade(c)
  \/ PopulateLookup
  \/ ReadStaker \/ ReadBoxes \/ ReadWasmModuleRoot
  \/ Perform \/ DoNotPerform \/ VerifyPostUpgrade
  \/ Meanwhile

------------------------------------------------------------------------------
\* The chain moves as a whole.  From the step that makes the new rollup on, the
\* old one confirms nothing, not even if its owner resumes it or forces it to:
\* no block is confirmed by both or by neither.  And "upgrade verified" means
\* that of the stakers the operator had read none is left in the old rollup,
\* though the action looks at MaxRefunds of them and passes over challenges,
\* and that the new one has the program, the periods and the stakes the
\* operator sees now, not those of the config the action was deployed with or
\* of a later setWasmModuleRoot.
ChainMovesAsAWhole ==
  /\ newRollup.exists => newRollup.genesis = oldRollup.latestConfirmed
  /\ upgrade.at = "verified" =>
       /\ ToSet(upgrade.stakers) \cap ToSet(oldRollup.stakers) = {}
       /\ newRollup.wasmModuleRoot = upgrade.wasmModuleRoot
       /\ Agree({"confirmPeriodBlocks", "challengePeriodBlocks", "stakeAmt", "stakeToken"})

==============================================================================
