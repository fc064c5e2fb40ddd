----------------------------- MODULE EnableToken -----------------------------
(***************************************************************************)
(* Across, tasks/enableL1TokenAcrossEcosystem: one run collects the calls  *)
(* that enable a token - liquidity provision, deposit routes between       *)
(* chains, pool rebalance routes - and may send them: first the approval,  *)
(* then one multicall of the HubPool, then the burn of the seed.           *)
(***************************************************************************)
EXTENDS Integers, Sequences, SequencesExt, FiniteSets

CONSTANTS
  Mainnet, Arbitrum, Optimism,   \* chains the task treats apart
  OtherChains,
  V4Chains,         \* chains whose SpokePool needs no deposit routes
  HasToken,         \* chains with an address of the token in TOKEN_SYMBOLS_MAP
  TaskArgs,         \* the arguments of a run, the answer to "burn?" among them
  MaxTaskRuns       \* bound on runs of the task

ChainIds == {Mainnet, Arbitrum, Optimism} \cup OtherChains

ASSUME EnableAssumption ==
  /\ V4Chains \subseteq ChainIds /\ HasToken \subseteq ChainIds
  /\ Mainnet \in HasToken /\ MaxTaskRuns \in Nat
  /\ \A args \in TaskArgs : /\ args.chains \subseteq ChainIds /\ args.routes \subseteq ChainIds
                            /\ {args.burn, args.enable, args.bridge} \subseteq BOOLEAN

VARIABLES
  task,             \* the run: its arguments and the calls it has still to send
  hubPool,          \* what the HubPool knows of the token
  lp,               \* LP tokens of the seed: with the signer, and burnt
  approved,         \* the signer's approval of the seed
  tokenRuns,
  takenForOld       \* chains a run was given without their being set up already

enableVars == <<task, hubPool, lp, approved, tokenRuns, takenForOld>>

NoTask == [args |-> [chains |-> {}, routes |-> {}, burn |-> FALSE, enable |-> TRUE,
                     bridge |-> FALSE],
           calls |-> <<>>, done |-> FALSE]

EnableInit ==
  /\ task = NoTask
  /\ hubPool = [liquid |-> FALSE, routes |-> {}, rebalance |-> {}, whitelisted |-> FALSE,
                bridge |-> FALSE]
  /\ lp = [held |-> 0, burnt |-> 0]
  /\ approved = FALSE
  /\ tokenRuns = 0
  /\ takenForOld = {}

\* resolveTokenOnChain
Resolves(chain) == chain \in HasToken

\* Without --depositroutechains every chain takes part.
Involved(args, chain) == args.routes = {} \/ chain \in args.routes

DepositRoutes(args) ==
  {r \in args.chains \X args.chains :
     /\ r[1] # r[2]
     /\ r[1] \notin V4Chains
     /\ Resolves(r[1]) /\ Resolves(r[2])
     /\ Involved(args, r[1]) \/ Involved(args, r[2])}

\* Mutant: no rebalance routes when deposit route chains are given.
RebalanceRoutesOnlyAtFirst(args) ==
  {c \in args.chains : Resolves(c) /\ args.routes = {}}

RebalanceRoutes(args) == {c \in args.chains : Resolves(c) /\ Involved(args, c)}

WhitelistsArbitrum(args) == Arbitrum \in args.routes
SetsOptimismBridge(args) == Optimism \in args.routes /\ args.bridge

\* Both look up the chain's token, which is there only if the run is for the
\* chain too; without one the run throws, and has sent nothing.
TaskThrows(args) ==
  \/ WhitelistsArbitrum(args) /\ ~ (Arbitrum \in args.chains /\ Resolves(Arbitrum))
  \/ SetsOptimismBridge(args) /\ ~ (Optimism \in args.chains /\ Resolves(Optimism))

\* A token the HubPool has no LP token for: enable it and seed the pool.
NewToken == ~ hubPool.liquid
Approval(args) == IF NewToken /\ args.burn THEN <<[call |-> "approve"]>> ELSE <<>>
Multicall(args) ==
  <<[call |-> "multicall", seed |-> NewToken, enable |-> args.enable,
     routes |-> DepositRoutes(args), rebalance |-> RebalanceRoutes(args),
     whitelist |-> WhitelistsArbitrum(args), bridge |-> SetsOptimismBridge(args)]>>
Burn(args) == IF NewToken /\ args.burn THEN <<[call |-> "burn"]>> ELSE <<>>

\* The order in which the targets are first named, which Object.entries keeps.
CallData(args) == Approval(args) \o Multicall(args) \o Burn(args)

\* With --depositroutechains the other chains are taken for old ones, which the
\* task does not check.
TakenForOld(args) ==
  IF args.routes = {} THEN {} ELSE args.chains \ (args.routes \cup hubPool.rebalance)

EnableTokenTask(args) ==
  /\ task.calls = <<>> /\ tokenRuns < MaxTaskRuns
  /\ tokenRuns' = tokenRuns + 1
  /\ IF TaskThrows(args)
     THEN UNCHANGED <<task, takenForOld>>
     ELSE /\ task' = [args |-> args, calls |-> CallData(args), done |-> FALSE]
          /\ takenForOld' = takenForOld \cup TakenForOld(args)
  /\ UNCHANGED <<hubPool, lp, approved>>

Sends(name) == task.calls # <<>> /\ Head(task.calls).call = name
Sent1 == task' = [task EXCEPT !.calls = Tail(@), !.done = (Len(task.calls) = 1)]
Stop == task' = [task EXCEPT !.calls = <<>>]

ApproveCollateral ==
  /\ Sends("approve") /\ approved' = TRUE /\ Sent1
  /\ UNCHANGED <<hubPool, lp, tokenRuns, takenForOld>>

\* addLiquidity pulls the seed: without an approval the multicall reverts.
HubPoolMulticall ==
  /\ Sends("multicall")
  /\ LET c == Head(task.calls) IN
     IF c.seed /\ ~ approved
     THEN Stop /\ UNCHANGED <<hubPool, lp, approved>>
     ELSE /\ hubPool' =
               [liquid |-> hubPool.liquid \/ c.seed,
                routes |-> IF c.enable THEN hubPool.routes \cup c.routes ELSE hubPool.routes \ c.routes,
                rebalance |-> hubPool.rebalance \cup c.rebalance,
                whitelisted |-> hubPool.whitelisted \/ c.whitelist,
                bridge |-> hubPool.bridge \/ c.bridge]
          /\ lp' = [lp EXCEPT !.held = IF c.seed THEN @ + 1 ELSE @]
          /\ approved' = (approved /\ ~ c.seed)
          /\ Sent1
  /\ UNCHANGED <<tokenRuns, takenForOld>>

BurnSeed ==
  /\ Sends("burn")
  /\ IF lp.held > 0 THEN lp' = [held |-> lp.held - 1, burnt |-> lp.burnt + 1] /\ Sent1
                    ELSE UNCHANGED lp /\ Stop
  /\ UNCHANGED <<hubPool, approved, tokenRuns, takenForOld>>

\* The task dies between two transactions.
TaskDies ==
  /\ task.calls # <<>> /\ Stop
  /\ UNCHANGED <<hubPool, lp, approved, tokenRuns, takenForOld>>

EnableNext ==
  \/ \E args \in TaskArgs : EnableTokenTask(args)
  \/ ApproveCollateral \/ HubPoolMulticall \/ BurnSeed \/ TaskDies

EnableSpec == EnableInit /\ [][EnableNext]_enableVars

------------------------------------------------------------------------------
\* No deposit is taken for a chain pair that the HubPool cannot balance, in
\* whatever steps the routes were added and wherever a run died: of every deposit
\* route at least one end has a pool rebalance route, which came with it, and the
\* other lacks one only when the operator named a chain beside those of
\* --depositroutechains that no earlier run had set up.
RoutesCanBeBalanced ==
  \A r \in hubPool.routes :
    /\ {r[1], r[2]} \cap hubPool.rebalance # {}
    /\ {r[1], r[2]} \ hubPool.rebalance \subseteq takenForOld
==============================================================================
