---------------------------- MODULE MCOperations ----------------------------
(***************************************************************************)
(* The scripts that deploy and run the bridges, in one run.  They share no *)
(* state: `part` says which ones are at work, the others rest in the       *)
(* initial state.                                                          *)
(***************************************************************************)
EXTENDS SvmRebalance, MessageClaims, EnableToken, BoldUpgrade, AcrossDeploy, CelerDeploy,
        CelerLimits, RollupCreation, TLC

VARIABLE part

\* MessageClaims: two messages of one transaction, and one in the newest block
Msg(block, tx, first) == [block |-> block, tx |-> tx, first |-> first]
SomeMessages == <<Msg(2, 1, TRUE), Msg(2, 1, FALSE), Msg(5, 2, TRUE), Msg(7, 3, TRUE)>>

\* EnableToken: all chains, all but one, and two
SomeTaskArgs ==
  [ chains : {ChainIds, ChainIds \ {Optimism}, {Mainnet, Optimism}},
    routes : {{}, {Arbitrum}, {Optimism}, OtherChains},
    burn : BOOLEAN, enable : BOOLEAN, bridge : {TRUE} ]

\* BoldUpgrade: a configuration, one that differs from what the new contracts
\* were deployed with, and one that the script refuses
SomeSettings ==
  [ confirmPeriodBlocks |-> 3, challengePeriodBlocks |-> 3, chainId |-> 1, minimumAssertionPeriod |-> 1,
    blockLeafSize |-> 4, bigStepLeafSize |-> 4, smallStepLeafSize |-> 4, numBigStepLevel |-> 1,
    maxDataSize |-> 9, stakeAmt |-> 2, stakeToken |-> 5, excessStakeReceiver |-> 6,
    challengeGracePeriodBlocks |-> 0, max |-> 2, threshold |-> 1, replenishRateInBasis |-> 5 ]
BoldConfig ==
  [ code |-> Contracts \cup ProxyAdmins, settings |-> SomeSettings, miniStakes |-> <<0, 5, 7>>,
    disableValidatorWhitelist |-> FALSE, validators |-> Validators, isDelayBufferable |-> TRUE ]
SomeConfigs ==
  { BoldConfig, [BoldConfig EXCEPT !.settings.confirmPeriodBlocks = 4, !.isDelayBufferable = FALSE],
    [BoldConfig EXCEPT !.validators = {}] }

\* CelerLimits: the sentinel governs the bridge, and then its limits are set
SomeBasics == {[bridge |-> [pausers |-> <<"g">>, governors |-> <<"sentinel">>, given |-> {"wrap"}]]}
SomeLimits ==
  { [bridge |-> [tokens |-> <<"t">>, decimals |-> 1, amounts |-> [MaxSend |-> <<1>>]]],
    [bridge |-> [tokens |-> <<"t">>, decimals |-> 1, amounts |-> [MinSend |-> <<1>>, MaxSend |-> <<2>>]]] }

\* RollupCreation: every script, on Ether and on fee tokens
RollupEnv ==
  [ name |-> "deployment", incomplete |-> FALSE, maxDataSize |-> 0, ignoreWarning |-> FALSE, verify |-> TRUE,
    creator |-> 1, feeToken |-> Unset, feeTokenPricer |-> Unset, owner |-> "o", validators |-> 2,
    posters |-> {}, sequencer |-> "q", manager |-> Unset, chainOwner |-> "caller" ]
Local == [RollupEnv EXCEPT !.name = "local"]
Erc20 == [RollupEnv EXCEPT !.name = "erc20"]
SomeEnvironments ==
  { RollupEnv, Local, [Local EXCEPT !.feeToken = "T", !.posters = {"p", Garbage}],
    [Local EXCEPT !.feeToken = "T", !.posters = {"p"}, !.manager = "mm"],
    [RollupEnv EXCEPT !.name = "eth"], Erc20, [Erc20 EXCEPT !.feeToken = "T", !.feeTokenPricer = "pr"],
    [RollupEnv EXCEPT !.name = "cache"], [RollupEnv EXCEPT !.name = "blobs"] }
SomeRollupConfig ==
  [ owner |-> "o", validators |-> {"v"}, posters |-> {"q"}, manager |-> "mm", threshold |-> 0,
    maxDataSize |-> 117964, isUsingFeeToken |-> FALSE ]
SomeDecimals == [TestToken |-> 18, T |-> 3]

------------------------------------------------------------------------------
Init ==
  /\ part \in {"rebalance", "claims", "token", "bold", "across", "celer", "limits", "rollups"}
  /\ RebalanceInit /\ ClaimsInit /\ EnableInit /\ BoldInit /\ DeployInit
  /\ CelerDeployInit /\ CelerLimitsInit /\ RollupsInit

Next ==
  /\ UNCHANGED part
  /\ \/ part = "rebalance" /\ RebalanceNext
        /\ UNCHANGED <<claimVars, enableVars, boldVars, deployVars, celerDeployVars, celerVars,
                       rollupVars>>
     \/ part = "claims" /\ ClaimsNext
        /\ UNCHANGED <<rebalanceVars, enableVars, boldVars, deployVars, celerDeployVars,
                       celerVars, rollupVars>>
     \/ part = "token" /\ EnableNext
        /\ UNCHANGED <<rebalanceVars, claimVars, boldVars, deployVars, celerDeployVars,
                       celerVars, rollupVars>>
     \/ part = "bold" /\ BoldNext
        /\ UNCHANGED <<rebalanceVars, claimVars, enableVars, deployVars, celerDeployVars,
                       celerVars, rollupVars>>
     \/ part = "across" /\ DeployNext
        /\ UNCHANGED <<rebalanceVars, claimVars, enableVars, boldVars, celerDeployVars,
                       celerVars, rollupVars>>
     \/ part = "celer" /\ CelerDeployNext
        /\ UNCHANGED <<rebalanceVars, claimVars, enableVars, boldVars, deployVars, celerVars,
                       rollupVars>>
     \/ part = "limits" /\ CelerLimitsNext
        /\ UNCHANGED <<rebalanceVars, claimVars, enableVars, boldVars, deployVars,
                       celerDeployVars, rollupVars>>
     \/ part = "rollups" /\ RollupsNext
        /\ UNCHANGED <<rebalanceVars, claimVars, enableVars, boldVars, deployVars,
                       celerDeployVars, celerVars>>

vars == <<part, rebalanceVars, claimVars, enableVars, boldVars, deployVars, celerDeployVars, celerVars,
          rollupVars>>

\* RebalanceFairness, asked of the part that is at work
Spec ==
  /\ Init /\ [][Next]_vars
  /\ \A t \in Terminals : WF_rebalanceVars(part = "rebalance" /\ Step(t))
  /\ \A n \in 1..MaxMessages : /\ WF_rebalanceVars(part = "rebalance" /\ Attest(n))
                                /\ SF_rebalanceVars(part = "rebalance" /\ Resume(n))
=============================================================================
