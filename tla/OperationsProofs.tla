-------------------------- MODULE OperationsProofs --------------------------
(***************************************************************************)
(* Proofs about the scripts that deploy and run the bridges: Across's task *)
(* that enables a token, its scripts that claim messages and those that    *)
(* deploy, Arbitrum's upgrade to BoLD and its creation of rollups, Celer's *)
(* deployment and the limits under its Sentinel; for any chains,           *)
(* environments, messages, stops and number of runs.                       *)
(***************************************************************************)
EXTENDS EnableToken, MessageClaims, BoldUpgrade, AcrossDeploy, CelerDeploy,
        CelerLimits, RollupCreation, SequenceTheorems, FiniteSetTheorems, TLAPS

------------------------------------------------------------------------------
(* Across: enabling a token. *)

Route == ChainIds \X ChainIds

Call ==
  [call : {"approve", "burn"}] \cup
  [call : {"multicall"}, seed : BOOLEAN, enable : BOOLEAN, routes : SUBSET Route,
   rebalance : SUBSET ChainIds, whitelist : BOOLEAN, bridge : BOOLEAN]

EnableTypes ==
  /\ task \in [args : TaskArgs \cup {NoTask.args}, calls : Seq(Call), done : BOOLEAN]
  /\ hubPool \in [liquid : BOOLEAN, routes : SUBSET Route, rebalance : SUBSET ChainIds,
                  whitelisted : BOOLEAN, bridge : BOOLEAN]

\* What a multicall brings can be balanced once it is sent.
Balanced(c) ==
  c.call = "multicall" =>
    \A r \in c.routes :
      /\ r[1] \in c.rebalance \cup hubPool.rebalance \/ r[2] \in c.rebalance \cup hubPool.rebalance
      /\ r[1] \in c.rebalance \cup hubPool.rebalance \cup takenForOld
      /\ r[2] \in c.rebalance \cup hubPool.rebalance \cup takenForOld

\* So can all that a run has still to send, whatever it is stopped at.
PlanBalanced == \A i \in 1..Len(task.calls) : Balanced(task.calls[i])

EnableInv == EnableTypes /\ PlanBalanced /\ RoutesCanBeBalanced

------------------------------------------------------------------------------
\* The calls a run collects: between an approval and a burn, one multicall.
LEMMA PlanOfRun ==
  ASSUME NEW args \in TaskArgs, hubPool.liquid \in BOOLEAN
  PROVE  /\ CallData(args) \in Seq(Call)
         /\ \A i \in 1..Len(CallData(args)) :
              CallData(args)[i].call = "multicall" => CallData(args)[i] = Multicall(args)[1]
<1> DEFINE a == Approval(args)
           m == Multicall(args)
           b == Burn(args)
<1>1. a \in Seq(Call) /\ \A i \in 1..Len(a) : a[i].call = "approve"
  BY DEF Approval, Call
<1>2. b \in Seq(Call) /\ \A i \in 1..Len(b) : b[i].call = "burn"
  <2>1. CASE b = <<>>
    BY <2>1
  <2>2. CASE b = <<[call |-> "burn"]>>
    <3> HIDE DEF b
    <3>1. Len(b) = 1 /\ b[1].call = "burn"
      BY <2>2
    <3>2. b \in Seq(Call)
      BY <2>2 DEF Call
    <3> QED BY <3>1, <3>2
  <2> QED BY <2>1, <2>2 DEF Burn
<1>3. m \in Seq(Call) /\ Len(m) = 1
  <2>1. DepositRoutes(args) \in SUBSET Route /\ RebalanceRoutes(args) \in SUBSET ChainIds
    BY EnableAssumption DEF DepositRoutes, RebalanceRoutes, Route
  <2>2. args.enable \in BOOLEAN /\ args.bridge \in BOOLEAN
    BY EnableAssumption
  <2>3. WhitelistsArbitrum(args) \in BOOLEAN /\ SetsOptimismBridge(args) \in BOOLEAN
    BY DEF WhitelistsArbitrum, SetsOptimismBridge
  <2>4. NewToken \in BOOLEAN
    BY DEF NewToken
  <2> QED BY <2>1, <2>2, <2>3, <2>4, SMTT(30) DEF Multicall, Call
<1> HIDE DEF a, m, b
<1>4. /\ a \o m \in Seq(Call) /\ Len(a \o m) = Len(a) + Len(m)
      /\ \A i \in 1..(Len(a) + Len(m)) :
           (a \o m)[i] = IF i <= Len(a) THEN a[i] ELSE m[i - Len(a)]
  BY <1>1, <1>3, ConcatProperties
<1>5. /\ (a \o m) \o b \in Seq(Call) /\ Len((a \o m) \o b) = Len(a \o m) + Len(b)
      /\ \A i \in 1..(Len(a \o m) + Len(b)) :
           ((a \o m) \o b)[i] = IF i <= Len(a \o m) THEN (a \o m)[i] ELSE b[i - Len(a \o m)]
  BY <1>4, <1>2, ConcatProperties
<1>6. Len(a) \in Nat /\ Len(b) \in Nat
  BY <1>1, <1>2
<1>7. ASSUME NEW i \in 1..Len((a \o m) \o b), ((a \o m) \o b)[i].call = "multicall"
      PROVE  ((a \o m) \o b)[i] = m[1]
  <2>1. CASE i <= Len(a)
    BY <2>1, <1>1, <1>3, <1>4, <1>5, <1>6, <1>7
  <2>2. CASE i = Len(a) + 1
    BY <2>2, <1>3, <1>4, <1>5, <1>6
  <2>3. CASE i > Len(a) + 1
    BY <2>3, <1>2, <1>3, <1>4, <1>5, <1>6, <1>7, SMTT(30)
  <2> QED BY <2>1, <2>2, <2>3, <1>6
<1> QED BY <1>5, <1>7 DEF CallData, a, m, b

\* An end of a deposit route gets a rebalance route in the same multicall; so does
\* the other, or the HubPool has one already, or else it is taken for old.
LEMMA RunIsBalanced ==
  ASSUME NEW args \in TaskArgs, EnableTokenTask(args), ~ TaskThrows(args)
  PROVE  Balanced(Multicall(args)[1])'
<1> DEFINE with == RebalanceRoutes(args) \cup hubPool.rebalance
<1>1. hubPool' = hubPool /\ takenForOld' = takenForOld \cup TakenForOld(args)
  BY DEF EnableTokenTask
<1>2. ASSUME NEW c \in args.chains, Resolves(c)
      PROVE  c \in with \cup takenForOld'
  BY <1>1, <1>2 DEF RebalanceRoutes, Involved, Resolves, TakenForOld
<1>3. ASSUME NEW c \in args.chains, Resolves(c), Involved(args, c)
      PROVE  c \in with
  BY <1>3 DEF RebalanceRoutes
<1>4. ASSUME NEW r \in DepositRoutes(args)
      PROVE  /\ r[1] \in with \/ r[2] \in with
             /\ r[1] \in with \cup takenForOld' /\ r[2] \in with \cup takenForOld'
  BY <1>2, <1>3 DEF DepositRoutes
<1>5. /\ Multicall(args)[1]'.routes = DepositRoutes(args)
      /\ Multicall(args)[1]'.rebalance = RebalanceRoutes(args)
  BY DEF Multicall, DepositRoutes, RebalanceRoutes, Involved, Resolves
<1> HIDE DEF with
<1> QED BY <1>1, <1>4, <1>5 DEF Balanced, with

\* A call that is sent leaves the others as they were planned.
LEMMA RestOfPlan ==
  ASSUME NEW calls \in Seq(Call), calls # <<>>
  PROVE  /\ Head(calls) = calls[1] /\ 1 \in 1..Len(calls) /\ Head(calls) \in Call
         /\ Tail(calls) \in Seq(Call)
         /\ \A i \in 1..Len(Tail(calls)) : i + 1 \in 1..Len(calls) /\ Tail(calls)[i] = calls[i + 1]
BY HeadTailProperties

------------------------------------------------------------------------------
\* A HubPool that knows nothing of the token has no route to balance.
THEOREM EnableInitInv == EnableInit => EnableInv
<1> SUFFICES ASSUME EnableInit PROVE EnableInv
  OBVIOUS
<1>1. EnableTypes
  BY DEF EnableInit, NoTask, EnableTypes, Route
<1>2. PlanBalanced /\ RoutesCanBeBalanced
  BY DEF EnableInit, NoTask, PlanBalanced, RoutesCanBeBalanced
<1> QED BY <1>1, <1>2 DEF EnableInv

\* Steps that leave the HubPool alone and send, or drop, what was planned.
LEMMA StepOfPlan ==
  ASSUME EnableInv, hubPool' = hubPool, takenForOld' = takenForOld,
         task' \in [args : TaskArgs \cup {NoTask.args}, calls : Seq(Call), done : BOOLEAN],
         \A i \in 1..Len(task'.calls) :
           \E j \in 1..Len(task.calls) : task'.calls[i] = task.calls[j]
  PROVE  EnableInv'
<1>1. EnableTypes'
  BY DEF EnableInv, EnableTypes
<1>2. PlanBalanced'
  BY DEF EnableInv, PlanBalanced, Balanced
<1>3. RoutesCanBeBalanced'
  BY DEF EnableInv, RoutesCanBeBalanced
<1> QED BY <1>1, <1>2, <1>3 DEF EnableInv

\* Sending the first call, or stopping, leaves a part of what was planned.
LEMMA SendStep ==
  ASSUME EnableInv, task.calls # <<>>, Sent1 \/ Stop
  PROVE  /\ task' \in [args : TaskArgs \cup {NoTask.args}, calls : Seq(Call), done : BOOLEAN]
         /\ \A i \in 1..Len(task'.calls) :
              \E j \in 1..Len(task.calls) : task'.calls[i] = task.calls[j]
<1>1. task \in [args : TaskArgs \cup {NoTask.args}, calls : Seq(Call), done : BOOLEAN]
  BY DEF EnableInv, EnableTypes
<1>2. /\ Tail(task.calls) \in Seq(Call)
      /\ \A i \in 1..Len(Tail(task.calls)) :
           i + 1 \in 1..Len(task.calls) /\ Tail(task.calls)[i] = task.calls[i + 1]
  BY <1>1, RestOfPlan
<1>3. CASE Sent1
  <2>1. task'.calls = Tail(task.calls)
    BY <1>1, <1>3 DEF Sent1
  <2>2. task' \in [args : TaskArgs \cup {NoTask.args}, calls : Seq(Call), done : BOOLEAN]
    BY <1>1, <1>2, <1>3 DEF Sent1
  <2>3. ASSUME NEW i \in 1..Len(task'.calls)
        PROVE  \E j \in 1..Len(task.calls) : task'.calls[i] = task.calls[j]
    <3>1. i + 1 \in 1..Len(task.calls) /\ task'.calls[i] = task.calls[i + 1]
      BY <1>2, <2>1
    <3> QED BY <3>1
  <2> QED BY <2>2, <2>3
<1>4. CASE Stop
  <2>1. task'.calls = <<>>
    BY <1>1, <1>4 DEF Stop
  <2>2. task' \in [args : TaskArgs \cup {NoTask.args}, calls : Seq(Call), done : BOOLEAN]
    <3>1. <<>> \in Seq(Call)
      OBVIOUS
    <3>2. task' = [args |-> task.args, calls |-> <<>>, done |-> task.done]
      BY <1>1, <1>4 DEF Stop
    <3> QED BY <1>1, <3>1, <3>2
  <2>3. 1..Len(task'.calls) = {}
    BY <2>1
  <2> QED BY <2>2, <2>3
<1> QED BY <1>3, <1>4

\* Every step of the task keeps the HubPool and the calls still to send
\* balanced: a run that starts plans balanced calls, the multicall brings its
\* routes together with their rebalance routes, the other steps drop calls.
THEOREM EnableStepInv == EnableInv /\ [EnableNext]_enableVars => EnableInv'
<1> SUFFICES ASSUME EnableInv, [EnableNext]_enableVars PROVE EnableInv'
  OBVIOUS
<1>t. /\ task \in [args : TaskArgs \cup {NoTask.args}, calls : Seq(Call), done : BOOLEAN]
      /\ hubPool \in [liquid : BOOLEAN, routes : SUBSET Route, rebalance : SUBSET ChainIds,
                      whitelisted : BOOLEAN, bridge : BOOLEAN]
  BY DEF EnableInv, EnableTypes
<1>1. ASSUME NEW args \in TaskArgs, EnableTokenTask(args) PROVE EnableInv'
  <2>0. CASE TaskThrows(args)
    <3>1. task' = task /\ hubPool' = hubPool /\ takenForOld' = takenForOld
      BY <1>1, <2>0 DEF EnableTokenTask
    <3> QED BY <1>t, <3>1, StepOfPlan
  <2> SUFFICES ASSUME ~ TaskThrows(args) PROVE EnableInv'
    BY <2>0
  <2>1. /\ task' = [args |-> args, calls |-> CallData(args), done |-> FALSE]
        /\ hubPool' = hubPool /\ takenForOld \subseteq takenForOld'
    BY <1>1 DEF EnableTokenTask
  <2>2. /\ CallData(args) \in Seq(Call)
        /\ \A i \in 1..Len(CallData(args)) :
             CallData(args)[i].call = "multicall" => CallData(args)[i] = Multicall(args)[1]
    BY <1>t, PlanOfRun
  <2>3. Balanced(Multicall(args)[1])'
    BY <1>1, RunIsBalanced
  <2>7. Multicall(args)[1]' = Multicall(args)[1]
    BY <2>1 DEF Multicall, NewToken, DepositRoutes, RebalanceRoutes, WhitelistsArbitrum,
                SetsOptimismBridge, Involved, Resolves
  <2>4. EnableTypes'
    BY <2>1, <2>2, <1>t DEF EnableTypes
  <2>5. PlanBalanced'
    BY <2>1, <2>2, <2>3, <2>7 DEF PlanBalanced, Balanced
  <2>6. RoutesCanBeBalanced'
    BY <2>1 DEF EnableInv, RoutesCanBeBalanced
  <2> QED BY <2>4, <2>5, <2>6 DEF EnableInv
<1>2. CASE ApproveCollateral
  <2>1. task.calls # <<>> /\ Sent1 /\ hubPool' = hubPool /\ takenForOld' = takenForOld
    BY <1>2 DEF ApproveCollateral, Sends
  <2> QED BY <2>1, SendStep, StepOfPlan
<1>3. CASE BurnSeed
  <2>1. /\ task.calls # <<>> /\ (Sent1 \/ Stop)
        /\ hubPool' = hubPool /\ takenForOld' = takenForOld
    BY <1>3 DEF BurnSeed, Sends
  <2> QED BY <2>1, SendStep, StepOfPlan
<1>4. CASE TaskDies
  <2>1. task.calls # <<>> /\ Stop /\ hubPool' = hubPool /\ takenForOld' = takenForOld
    BY <1>4 DEF TaskDies
  <2> QED BY <2>1, SendStep, StepOfPlan
<1>5. CASE HubPoolMulticall
  <2> DEFINE c == Head(task.calls)
  <2>1. task.calls # <<>> /\ c.call = "multicall" /\ takenForOld' = takenForOld
    BY <1>5 DEF HubPoolMulticall, Sends
  <2>2. CASE c.seed /\ ~ approved
    <3>1. Stop /\ hubPool' = hubPool
      BY <1>5, <2>2 DEF HubPoolMulticall
    <3> QED BY <2>1, <3>1, SendStep, StepOfPlan
  <2>3. CASE ~ (c.seed /\ ~ approved)
    <3>1. /\ Sent1
          /\ hubPool' =
               [liquid |-> hubPool.liquid \/ c.seed,
                routes |-> IF c.enable THEN hubPool.routes \cup c.routes ELSE hubPool.routes \ c.routes,
                rebalance |-> hubPool.rebalance \cup c.rebalance,
                whitelisted |-> hubPool.whitelisted \/ c.whitelist,
                bridge |-> hubPool.bridge \/ c.bridge]
      BY <1>5, <2>3 DEF HubPoolMulticall
    <3>2. c \in Call /\ Balanced(c)
      BY <1>t, <2>1, RestOfPlan DEF EnableInv, PlanBalanced
    <3>3. /\ c.seed \in BOOLEAN /\ c.enable \in BOOLEAN /\ c.routes \in SUBSET Route
          /\ c.rebalance \in SUBSET ChainIds /\ c.whitelist \in BOOLEAN /\ c.bridge \in BOOLEAN
      BY <2>1, <3>2 DEF Call
    <3>4. /\ hubPool'.routes \subseteq hubPool.routes \cup c.routes
          /\ hubPool'.rebalance = hubPool.rebalance \cup c.rebalance
      BY <3>1
    <3>5. EnableTypes'
      <4>1. task' \in [args : TaskArgs \cup {NoTask.args}, calls : Seq(Call), done : BOOLEAN]
        BY <2>1, <3>1, SendStep
      <4>2. hubPool' \in [liquid : BOOLEAN, routes : SUBSET Route, rebalance : SUBSET ChainIds,
                          whitelisted : BOOLEAN, bridge : BOOLEAN]
        BY <1>t, <3>1, <3>3
      <4> QED BY <4>1, <4>2 DEF EnableTypes
    <3>6. PlanBalanced'
      <4>1. \A i \in 1..Len(task'.calls) :
              \E j \in 1..Len(task.calls) : task'.calls[i] = task.calls[j]
        BY <2>1, <3>1, SendStep
      <4>2. takenForOld' = takenForOld
        BY <2>1
      <4> HIDE DEF c
      <4> QED BY <4>1, <4>2, <3>4 DEF EnableInv, PlanBalanced, Balanced
    <3>7. RoutesCanBeBalanced'
      <4> DEFINE Fine(r) == /\ {r[1], r[2]} \cap hubPool'.rebalance # {}
                            /\ {r[1], r[2]} \ hubPool'.rebalance \subseteq takenForOld'
      <4>1. ASSUME NEW r \in c.routes PROVE Fine(r)
        <5>1. /\ r[1] \in hubPool'.rebalance \/ r[2] \in hubPool'.rebalance
              /\ r[1] \in hubPool'.rebalance \cup takenForOld
              /\ r[2] \in hubPool'.rebalance \cup takenForOld
          BY <2>1, <3>2, <3>4, <4>1 DEF Balanced
        <5> QED BY <2>1, <5>1
      <4>2. ASSUME NEW r \in hubPool.routes PROVE Fine(r)
        BY <2>1, <3>4, <4>2 DEF EnableInv, RoutesCanBeBalanced
      <4> HIDE DEF c
      <4>3. \A r \in hubPool'.routes : Fine(r)
        BY <3>4, <4>1, <4>2
      <4> QED BY <4>3 DEF RoutesCanBeBalanced
    <3> QED BY <3>5, <3>6, <3>7 DEF EnableInv
  <2> QED BY <2>2, <2>3
<1>6. CASE UNCHANGED enableVars
  BY <1>6 DEF enableVars, EnableInv, EnableTypes, PlanBalanced, Balanced, RoutesCanBeBalanced
<1> QED BY <1>1, <1>2, <1>3, <1>4, <1>5, <1>6 DEF EnableNext

\* A deposit route of the token whose ends the HubPool cannot both rebalance is one
\* to a chain that was given as an old one and was not, and its other end it can
\* rebalance: enableL1TokenAcrossEcosystem, run any number of times with any
\* arguments and stopped between any two of its transactions.
THEOREM RoutesBalanced == EnableSpec => []RoutesCanBeBalanced
<1>1. EnableInit => EnableInv
  BY EnableInitInv
<1>2. EnableInv /\ [EnableNext]_enableVars => EnableInv'
  BY EnableStepInv
<1>3. EnableInv => RoutesCanBeBalanced
  BY DEF EnableInv
<1> QED BY <1>1, <1>2, <1>3, PTL DEF EnableSpec

------------------------------------------------------------------------------
(* Arbitrum: the upgrade to BoLD. *)

BoldSpec == BoldInit /\ [][BoldNext]_boldVars

\* The fields that the contracts and the script keep.
OldFields == {"stakers", "challenged", "zombies", "paused", "latestConfirmed", "wasmModuleRoot"}
BridgeFields == {"impl", "rollup", "boxes", "buffer"}
BoldTypes ==
  /\ oldRollup = [f \in OldFields |-> oldRollup[f]]
  /\ bridge = [f \in BridgeFields |-> bridge[f]]
  /\ upgrade = [f \in DOMAIN upgrade |-> upgrade[f]] /\ "at" \in DOMAIN upgrade

\* What holds from the moment the action has run: the outbox that every confirmation
\* of the old rollup has to tell no longer listens to it.
Migrated ==
  /\ newRollup.genesis = oldRollup.latestConfirmed
  /\ bridge.rollup["outbox"] = "new"

\* What the script has compared when it says that the upgrade is verified: the
\* stakers it had read were refunded, and refunded stakers do not come back.
Compared ==
  /\ oldRollup.stakers \in Seq(Validators \cup oldRollup.zombies)
  /\ ToSet(upgrade.stakers) \subseteq oldRollup.zombies
  /\ ToSet(upgrade.stakers) \cap ToSet(oldRollup.stakers) = {}
  /\ newRollup.wasmModuleRoot = upgrade.wasmModuleRoot
  /\ Agree({"confirmPeriodBlocks", "challengePeriodBlocks", "stakeAmt", "stakeToken"})

BoldInv ==
  /\ BoldTypes
  /\ newRollup.exists => Migrated
  /\ upgrade.at \in {"verify", "verified"} => newRollup.exists
  /\ upgrade.at = "verified" => Compared

\* Who is in a list from which one left was in the list.
LEMMA WithoutLeaves ==
  ASSUME NEW S, NEW list \in Seq(S), NEW i \in DOMAIN list
  PROVE  /\ Without(list, i) \in Seq(S)
         /\ ToSet(Without(list, i)) \subseteq ToSet(list)
<1> DEFINE l == [list EXCEPT ![i] = Last(list)]
<1>1. /\ Len(list) \in Nat \ {0} /\ i \in 1 .. Len(list)
      /\ Last(list) = list[Len(list)] /\ Len(list) \in DOMAIN list
  BY DEF Last
<1>2. l \in Seq(S) /\ Len(l) = Len(list) /\ \A j \in 1 .. Len(list) : l[j] \in ToSet(list)
  BY <1>1 DEF ToSet
<1>3. /\ Without(list, i) \in Seq(S) /\ Len(Without(list, i)) = Len(list) - 1
      /\ \A j \in 1 .. Len(list) - 1 : Without(list, i)[j] = l[j]
  BY <1>1, <1>2 DEF Without
<1> QED BY <1>1, <1>2, <1>3 DEF ToSet

\* One more in a list.
LEMMA OneMoreListed ==
  ASSUME NEW S, NEW list \in Seq(S), NEW v \in S
  PROVE  /\ Append(list, v) \in Seq(S)
         /\ ToSet(Append(list, v)) = ToSet(list) \cup {v}
<1>1. /\ Append(list, v) \in Seq(S) /\ Len(Append(list, v)) = Len(list) + 1 /\ Len(list) \in Nat
      /\ \A j \in 1 .. Len(list) : Append(list, v)[j] = list[j]
      /\ Append(list, v)[Len(list) + 1] = v
  OBVIOUS
<1> QED BY <1>1 DEF ToSet

\* Steps that leave the bridge's rollup, and the old rollup once the new one
\* exists, as they are.
LEMMA BoldStays ==
  ASSUME BoldInv, BoldTypes', UNCHANGED <<upgrade, newRollup>>,
         bridge'.rollup = bridge.rollup, newRollup.exists => oldRollup' = oldRollup
  PROVE  BoldInv'
BY DEF BoldInv, Migrated, Compared, Agree

\* Steps of the script before it verifies.
LEMMA BoldReads ==
  ASSUME BoldInv, BoldTypes', UNCHANGED <<oldRollup, bridge, newRollup>>,
         upgrade'.at \notin {"verify", "verified"}
  PROVE  BoldInv'
BY DEF BoldInv, Migrated

\* Steps of the old rollup that confirm nothing, refund nobody's refund and let
\* nobody who was refunded stake.
LEMMA OldRollupStays ==
  ASSUME BoldInv, UNCHANGED <<upgrade, newRollup, bridge>>,
         oldRollup' = [f \in OldFields |-> oldRollup'[f]],
         oldRollup'.latestConfirmed = oldRollup.latestConfirmed,
         oldRollup.zombies \subseteq oldRollup'.zombies,
         oldRollup.stakers \in Seq(Validators \cup oldRollup.zombies) =>
           /\ oldRollup'.stakers \in Seq(Validators \cup oldRollup'.zombies)
           /\ ToSet(oldRollup'.stakers) \cap oldRollup.zombies \subseteq ToSet(oldRollup.stakers)
  PROVE  BoldInv'
<1>1. BoldTypes'
  BY DEF BoldInv, BoldTypes
<1>2. upgrade.at = "verified" => Compared'
  <2> SUFFICES ASSUME Compared PROVE Compared'
    BY DEF BoldInv
  <2> QED BY DEF Compared, Agree
<1> QED BY <1>1, <1>2 DEF BoldInv, Migrated

\* A longer list of zombies changes nothing for the stakers.
LEMMA MoreZombies ==
  ASSUME NEW S, NEW T, S \subseteq T, NEW list \in Seq(S)
  PROVE  list \in Seq(T)
OBVIOUS

\* What happens to the chain meanwhile.
LEMMA MeanwhileStays ==
  ASSUME BoldInv, Meanwhile
  PROVE  BoldInv'
<1>1. BoldTypes /\ UNCHANGED <<upgrade, newRollup>>
  BY DEF BoldInv, Meanwhile, Stake, Challenge, ReturnOldDeposit, EndChallenge, ConfirmNode, Pause, ResumeOldRollup,
         SetWasmModuleRoot, SetDelayedInbox, UseDelayBuffer, ScriptsOnly
<1>2. CASE \E v, w \in Validators : Stake(v)
  <2>1. PICK v \in Validators : Stake(v)
    BY <1>2
  <2>2. /\ oldRollup' = [f \in OldFields |-> oldRollup'[f]] /\ bridge' = bridge
        /\ oldRollup'.latestConfirmed = oldRollup.latestConfirmed
        /\ oldRollup'.zombies = oldRollup.zombies /\ v \notin oldRollup.zombies
        /\ oldRollup'.stakers = Append(oldRollup.stakers, v)
    BY <1>1, <2>1 DEF Stake, BoldTypes, OldFields
  <2>3. oldRollup.stakers \in Seq(Validators \cup oldRollup.zombies) =>
          /\ oldRollup'.stakers \in Seq(Validators \cup oldRollup'.zombies)
          /\ ToSet(oldRollup'.stakers) = ToSet(oldRollup.stakers) \cup {v}
    BY <2>1, <2>2, OneMoreListed
  <2> QED BY <1>1, <2>2, <2>3, OldRollupStays
<1>3. CASE \E i \in DOMAIN oldRollup.stakers : ReturnOldDeposit(i) \/ EndChallenge(i)
  <2>1. PICK i \in DOMAIN oldRollup.stakers : ReturnOldDeposit(i) \/ EndChallenge(i)
    BY <1>3
  <2>2. /\ oldRollup' = [f \in OldFields |-> oldRollup'[f]] /\ bridge' = bridge
        /\ oldRollup'.latestConfirmed = oldRollup.latestConfirmed
        /\ oldRollup.zombies \subseteq oldRollup'.zombies
        /\ oldRollup'.stakers = Without(oldRollup.stakers, i)
    BY <1>1, <2>1 DEF ReturnOldDeposit, EndChallenge, BoldTypes, OldFields
  <2>3. oldRollup.stakers \in Seq(Validators \cup oldRollup.zombies) =>
          /\ oldRollup'.stakers \in Seq(Validators \cup oldRollup'.zombies)
          /\ ToSet(oldRollup'.stakers) \subseteq ToSet(oldRollup.stakers)
    <3> SUFFICES ASSUME oldRollup.stakers \in Seq(Validators \cup oldRollup.zombies)
                 PROVE  /\ oldRollup'.stakers \in Seq(Validators \cup oldRollup'.zombies)
                        /\ ToSet(oldRollup'.stakers) \subseteq ToSet(oldRollup.stakers)
      OBVIOUS
    <3>1. oldRollup'.stakers \in Seq(Validators \cup oldRollup.zombies)
      BY <2>2, WithoutLeaves
    <3>2. oldRollup'.stakers \in Seq(Validators \cup oldRollup'.zombies)
      BY <2>2, <3>1, MoreZombies, Validators \cup oldRollup.zombies \subseteq Validators \cup oldRollup'.zombies
    <3>3. ToSet(oldRollup'.stakers) \subseteq ToSet(oldRollup.stakers)
      BY <2>2, WithoutLeaves
    <3> QED BY <3>2, <3>3
  <2> QED BY <1>1, <2>2, <2>3, OldRollupStays
<1>4. CASE (\E v, w \in Validators : Challenge(v, w)) \/ SetWasmModuleRoot \/ Pause \/ ResumeOldRollup
  <2>1. /\ oldRollup' = [f \in OldFields |-> oldRollup'[f]] /\ bridge' = bridge
        /\ oldRollup'.latestConfirmed = oldRollup.latestConfirmed
        /\ oldRollup'.zombies = oldRollup.zombies /\ oldRollup'.stakers = oldRollup.stakers
    BY <1>1, <1>4 DEF Challenge, SetWasmModuleRoot, Pause, ResumeOldRollup, BoldTypes, OldFields
  <2> QED BY <1>1, <2>1, OldRollupStays
<1>5. CASE ConfirmNode
  <2>1. ~ newRollup.exists /\ bridge' = bridge
    BY <1>5 DEF ConfirmNode, BoldInv, Migrated
  <2>2. oldRollup' = [f \in OldFields |-> oldRollup'[f]]
    BY <1>1, <1>5 DEF ConfirmNode, BoldTypes, OldFields
  <2>3. BoldTypes'
    BY <1>1, <2>1, <2>2 DEF BoldTypes
  <2> QED BY <1>1, <2>1, <2>3, BoldStays
<1>6. CASE UseDelayBuffer \/ \E box \in 0 .. MaxBoxes, enabled \in BOOLEAN : SetDelayedInbox(box, enabled)
  <2>1. /\ oldRollup' = oldRollup
        /\ bridge'.rollup = bridge.rollup /\ bridge' = [f \in BridgeFields |-> bridge'[f]]
    BY <1>1, <1>6 DEF SetDelayedInbox, UseDelayBuffer, BoldTypes, BridgeFields
  <2>2. BoldTypes'
    BY <1>1, <2>1 DEF BoldTypes
  <2> QED BY <1>1, <2>1, <2>2, BoldStays
<1> QED BY <1>2, <1>3, <1>4, <1>5, <1>6 DEF Meanwhile

\* The action makes the new rollup of what is confirmed, and moves the outbox.
LEMMA PerformMigrates ==
  ASSUME BoldInv, Perform
  PROVE  BoldInv'
<1>1. BoldTypes
  BY DEF BoldInv
<1>2. /\ oldRollup' = [f \in OldFields |-> oldRollup'[f]]
      /\ oldRollup'.latestConfirmed = oldRollup.latestConfirmed
  BY <1>1 DEF Perform, CleanupOldRollup, BoldTypes, OldFields
<1>3. bridge' = [f \in BridgeFields |-> bridge'[f]] /\ bridge'.rollup["outbox"] = "new"
  BY <1>1 DEF Perform, UpgradeSurroundingContracts, BoldTypes, BridgeFields, Proxies
<1>4. newRollup'.exists /\ newRollup'.genesis = oldRollup.latestConfirmed
  BY DEF Perform
<1>5. /\ upgrade' = [f \in DOMAIN upgrade' |-> upgrade'[f]] /\ "at" \in DOMAIN upgrade'
      /\ upgrade'.at = "verify"
  BY <1>1 DEF Perform, BoldTypes
<1>6. BoldTypes'
  BY <1>2, <1>3, <1>5 DEF BoldTypes
<1> QED BY <1>2, <1>3, <1>4, <1>5, <1>6 DEF BoldInv, Migrated

\* The script says "verified" only after its comparisons.
LEMMA VerifyCompares ==
  ASSUME BoldInv, VerifyPostUpgrade
  PROVE  BoldInv'
<1>1. /\ BoldTypes /\ upgrade.at = "verify" /\ newRollup.exists /\ Migrated
      /\ UNCHANGED <<oldRollup, bridge, newRollup>>
  BY DEF BoldInv, VerifyPostUpgrade
<1>2. CASE upgrade' = [at |-> "threw"]
  <2>1. BoldTypes'
    BY <1>1, <1>2 DEF BoldTypes
  <2> QED BY <1>1, <1>2, <2>1, BoldReads
<1>3. CASE /\ upgrade' = [upgrade EXCEPT !.at = "verified"]
           /\ CheckOldRollup /\ CheckNewRollup /\ CheckNewChallengeManager
  <2>1. /\ upgrade' = [f \in DOMAIN upgrade' |-> upgrade'[f]] /\ "at" \in DOMAIN upgrade'
        /\ upgrade'.at = "verified" /\ upgrade'.config = upgrade.config
        /\ upgrade'.stakers = upgrade.stakers /\ upgrade'.wasmModuleRoot = upgrade.wasmModuleRoot
    BY <1>1, <1>3 DEF BoldTypes
  <2>2. /\ oldRollup.stakers = <<>> /\ ToSet(upgrade.stakers) \subseteq oldRollup.zombies
        /\ newRollup.wasmModuleRoot = upgrade.wasmModuleRoot
        /\ Agree({"confirmPeriodBlocks", "challengePeriodBlocks", "stakeAmt", "stakeToken"})
    BY <1>3 DEF CheckOldRollup, CheckNewRollup, CheckInitialAssertion, CheckNewChallengeManager, Agree
  <2>3. <<>> \in Seq(Validators \cup oldRollup.zombies) /\ ToSet(<<>>) = {}
    BY DEF ToSet
  <2>4. Compared'
    BY <1>1, <2>1, <2>2, <2>3 DEF Compared, Agree
  <2>5. BoldTypes'
    BY <1>1, <2>1 DEF BoldTypes
  <2>6. Migrated'
    BY <1>1 DEF Migrated
  <2> QED BY <1>1, <2>1, <2>4, <2>5, <2>6 DEF BoldInv
<1> QED BY <1>2, <1>3 DEF VerifyPostUpgrade

\* The chain moves as a whole, whatever validators and owner do to the old rollup
\* and whoever edits the config between the calls of the scripts, and after them.
THEOREM ChainMoves == BoldSpec => []ChainMovesAsAWhole
<1>1. BoldInit => BoldInv
  BY DEF BoldInit, BoldInv, BoldTypes, OldFields, BridgeFields, Nothing
<1>2. BoldInv /\ [BoldNext]_boldVars => BoldInv'
  <2> SUFFICES ASSUME BoldInv, [BoldNext]_boldVars PROVE BoldInv'
    OBVIOUS
  <2>1. BoldTypes
    BY DEF BoldInv
  <2>2. CASE \E c \in Configs : DeployBoldUpgrade(c)
    BY <2>1, <2>2, BoldStays DEF DeployBoldUpgrade, BoldTypes
  <2>3. CASE PopulateLookup
    BY <2>1, <2>3, BoldStays DEF PopulateLookup, BoldTypes
  <2>4. CASE \E c \in Configs : StartUpgrade(c)
    <3>1. PICK c \in Configs : StartUpgrade(c)
      BY <2>4
    <3>2. upgrade'.at = "stakers" /\ BoldTypes'
      BY <2>1, <3>1 DEF StartUpgrade, BoldTypes
    <3> QED BY <3>1, <3>2, BoldReads DEF StartUpgrade
  <2>5. CASE ReadStaker \/ ReadBoxes \/ ReadWasmModuleRoot \/ DoNotPerform
    <3>1. UNCHANGED <<oldRollup, bridge, newRollup>>
      BY <2>5 DEF ReadStaker, ReadBoxes, ReadWasmModuleRoot, DoNotPerform
    <3>2. /\ upgrade' = [f \in DOMAIN upgrade' |-> upgrade'[f]] /\ "at" \in DOMAIN upgrade'
          /\ upgrade'.at \notin {"verify", "verified"}
      <4>1. CASE upgrade' = [at |-> "idle"]
        BY <4>1
      <4>2. CASE ReadStaker /\ upgrade' = [upgrade EXCEPT !.stakers = Append(@, oldRollup.stakers[Len(upgrade.stakers) + 1])]
        BY <2>1, <4>2 DEF ReadStaker, BoldTypes
      <4>3. CASE ReadBoxes \/ ReadWasmModuleRoot
        BY <2>1, <4>3 DEF ReadBoxes, ReadWasmModuleRoot, BoldTypes
      <4> QED BY <2>5, <4>1, <4>2, <4>3 DEF ReadStaker, DoNotPerform
    <3>3. BoldTypes'
      BY <2>1, <3>1, <3>2 DEF BoldTypes
    <3> QED BY <3>1, <3>2, <3>3, BoldReads
  <2>6. CASE UNCHANGED boldVars
    BY <2>1, <2>6, BoldStays DEF boldVars, BoldTypes
  <2> QED BY <2>2, <2>3, <2>4, <2>5, <2>6, PerformMigrates, VerifyCompares, MeanwhileStays
          DEF BoldNext
<1>3. BoldInv => ChainMovesAsAWhole
  BY DEF BoldInv, Migrated, Compared, ChainMovesAsAWhole
<1> QED BY <1>1, <1>2, <1>3, PTL DEF BoldSpec

------------------------------------------------------------------------------
(* Arbitrum: the creation of rollups. *)

RollupsSpec == RollupsInit /\ [][RollupsNext]_rollupVars

CreatorFields == {"size", "eth", "erc20", "set", "allowance"}
ScriptFields == {"env", "stage", "built", "verifying", "arbitrum", "creator", "token",
                 "walletCreator"}

IsList(s) == \E S : s \in Seq(S)

\* A RollupCreator names the templates of both kinds of fee token.
Complete(c) ==
  /\ c = [f \in CreatorFields |-> c[f]]
  /\ c.eth = EthBasedTemplates /\ c.erc20 = Erc20BasedTemplates

\* The script has its RollupCreator once it deployed it, and while it creates a
\* rollup; the local deployment reads the wallet creator after the templates
\* are set, so it reads the one that its RollupCreator will use.
ScriptInv ==
  /\ script = [f \in ScriptFields |-> script[f]] /\ script.built \in Nat
  /\ script.stage \in {"check", "ask"} => script.built = 0
  /\ script.stage = "deploy" /\ script.env.name \in {"deployment", "local"} /\ script.built > 24
       => script.creator \in 1..Len(creators)
  /\ script.stage \in {"wait", "read", "approve", "create"}
       => script.creator \in 1..Len(creators)
  /\ script.stage = "wait" => script.creator \in mempool \/ creators[script.creator].set
  /\ script.stage = "read" /\ IsDev => creators[script.creator].set
  /\ script.stage \in {"approve", "create"} /\ IsDev => script.walletCreator = script.creator

CreatorsInv == IsList(creators) /\ \A c \in 1..Len(creators) : Complete(creators[c])

RollupsInv == CreatorsInv /\ ScriptInv /\ IsList(rollups) /\ RollupsAreWhole

------------------------------------------------------------------------------
\* What is appended to a list leaves its elements where they are.
LEMMA ListAppended ==
  ASSUME NEW s, NEW e, IsList(s)
  PROVE  /\ IsList(Append(s, e)) /\ Len(s) \in Nat /\ DOMAIN s = 1..Len(s)
         /\ Len(Append(s, e)) = Len(s) + 1 /\ DOMAIN Append(s, e) = 1..(Len(s) + 1)
         /\ \A i \in 1..Len(s) : Append(s, e)[i] = s[i]
         /\ Append(s, e)[Len(s) + 1] = e
<1>1. PICK S : s \in Seq(S)
  BY DEF IsList
<1>2. s \in Seq(S \cup {e}) /\ e \in S \cup {e}
  BY <1>1
<1>3. Append(s, e) \in Seq(S \cup {e})
  BY <1>2
<1> QED BY <1>2, <1>3 DEF IsList

Replaced(s, c, e) == [s EXCEPT ![c] = e]

\* An element of a list that is replaced leaves the others as they are.
LEMMA ListReplaced ==
  ASSUME NEW s, NEW c, NEW e, IsList(s)
  PROVE  /\ IsList(Replaced(s, c, e)) /\ Len(Replaced(s, c, e)) = Len(s)
         /\ \A i \in 1..Len(s) : Replaced(s, c, e)[i] = IF i = c THEN e ELSE s[i]
<1> DEFINE t == Replaced(s, c, e)
<1>1. PICK S : s \in Seq(S)
  BY DEF IsList
<1>2. s \in Seq(S \cup {e}) /\ e \in S \cup {e}
  BY <1>1
<1>3. s \in [1..Len(s) -> S \cup {e}] /\ Len(s) \in Nat
  BY <1>2, LenProperties
<1>4. t \in [1..Len(s) -> S \cup {e}] /\ \A i \in 1..Len(s) : t[i] = IF i = c THEN e ELSE s[i]
  BY <1>3, <1>2 DEF Replaced
<1> HIDE DEF t
<1>5. t \in Seq(S \cup {e}) /\ Len(t) = Len(s)
  BY <1>3, <1>4, SeqDef, LenProperties
<1> QED BY <1>4, <1>5 DEF IsList, t

\* Steps of the script that touch neither contracts nor transactions.
LEMMA ScriptMoves ==
  ASSUME RollupsInv, UNCHANGED <<creators, rollups, mempool>>, ScriptInv'
  PROVE  RollupsInv'
BY DEF RollupsInv, CreatorsInv, IsList, RollupsAreWhole

\* A script that creates rollups is started with a RollupCreator that exists.
LEMMA StartsWhole ==
  ASSUME RollupsInv, NEW given \in Environments, StartRollupScript(given)
  PROVE  RollupsInv'
<1>1. /\ IsList(creators) /\ UNCHANGED <<creators, rollups, mempool>>
      /\ given.name \in {"eth", "erc20"} => given.creator \in DOMAIN creators
  BY DEF RollupsInv, CreatorsInv, StartRollupScript
<1>2. DOMAIN creators = 1..Len(creators)
  BY <1>1, ListAppended
<1>3. /\ script' = [f \in ScriptFields |-> script'[f]] /\ script'.built = 0
      /\ script'.env = given /\ script'.stage = FirstStage(given)
      /\ script'.creator = IF given.name \in {"eth", "erc20"} THEN given.creator ELSE 0
  BY DEF StartRollupScript, NoScript, ScriptFields
<1>4. FirstStage(given) \in {"failed", "read", "check", "ask"}
  BY DEF FirstStage
<1>5. FirstStage(given) = "read" => given.name \in {"eth", "erc20"}
  BY DEF FirstStage
<1>6. ScriptInv'
  BY <1>1, <1>2, <1>3, <1>4, <1>5 DEF ScriptInv, IsDev
<1> QED BY <1>1, <1>6, ScriptMoves

\* Steps that take the script where nothing is created, or change only what it
\* says of the parent chain and of the explorer.
LEMMA PassesBy ==
  ASSUME RollupsInv, UNCHANGED <<creators, rollups, mempool>>,
         script' = [f \in ScriptFields |-> script'[f]], script'.built = script.built,
         script'.stage \in {"check", "ask"} => script.built = 0,
         script'.stage \notin {"deploy", "wait", "read", "approve", "create"}
  PROVE  RollupsInv'
BY ScriptMoves DEF RollupsInv, ScriptInv

\* The explorer's answer moves nothing else.
LEMMA VerifyMovesOn ==
  ASSUME RollupsInv, VerifyContract
  PROVE  RollupsInv'
<1>1. /\ script' = [f \in ScriptFields |-> script'[f]] /\ UNCHANGED <<creators, rollups, mempool>>
      /\ script'.built = script.built /\ script'.stage = script.stage /\ script'.env = script.env
      /\ script'.creator = script.creator /\ script'.walletCreator = script.walletCreator
  BY DEF VerifyContract, RollupsInv, ScriptInv, ScriptFields
<1>2. ScriptInv'
  BY <1>1 DEF RollupsInv, ScriptInv, IsDev
<1> QED BY <1>1, <1>2, ScriptMoves

\* Asking the parent chain precedes the first contract of a deployment.
LEMMA AskedWhole ==
  ASSUME RollupsInv, AskParentChain
  PROVE  RollupsInv'
<1>1. /\ script' = [f \in ScriptFields |-> script'[f]] /\ UNCHANGED <<creators, rollups, mempool>>
      /\ script'.built = 0 /\ script'.stage = "deploy"
  BY DEF AskParentChain, ScriptAt, RollupsInv, ScriptInv, ScriptFields
<1>2. ScriptInv'
  BY <1>1 DEF RollupsInv, ScriptInv, IsDev
<1> QED BY <1>1, <1>2, ScriptMoves

\* Of the contracts of a full deployment, the RollupCreator is the last but one.
LEMMA CreatorComesLate ==
  ASSUME script.env.name \in {"deployment", "local"}, script.built \in Nat
  PROVE  /\ Remaining = <<>> => script.built > 24
         /\ Remaining # <<>> /\ script.built = 24 => Head(Remaining) = "RollupCreator"
<1> DEFINE b == script.built
           c == CoreContracts
<1>1. ContractsOf[script.env.name] = c
  BY DEF ContractsOf
<1>2. Len(c) = 26
  BY DEF CoreContracts
<1>3. c[25] = "RollupCreator"
  BY DEF CoreContracts
<1> HIDE DEF c
<1> DEFINE r == SubSeq(c, b + 1, 26)
           S == {c[i] : i \in 1..26}
<1>4. Remaining = r
  BY <1>1, <1>2 DEF Remaining
<1>5. ASSUME b <= 24
      PROVE  r # <<>> /\ Head(r) = c[b + 1]
  <2>1. b + 1 \in Int /\ 26 \in Int /\ \A i \in (b + 1)..26 : c[i] \in S
    OBVIOUS
  <2> HIDE DEF S
  <2>2. /\ r \in Seq(S) /\ Len(r) = IF b + 1 <= 26 THEN 26 - (b + 1) + 1 ELSE 0
        /\ \A i \in 1..(26 - (b + 1) + 1) : r[i] = c[(b + 1) + i - 1]
    BY <2>1, SubSeqProperties
  <2> HIDE DEF r
  <2>3. 1 \in 1..(26 - (b + 1) + 1) /\ (b + 1) + 1 - 1 = b + 1
    BY <1>5
  <2> HIDE DEF b
  <2>4. Len(r) # 0 /\ r[1] = c[b + 1]
    BY <2>2, <2>3, <1>5 DEF b
  <2> QED BY <2>2, <2>4
<1> HIDE DEF r
<1> QED BY <1>3, <1>4, <1>5

\* Deploying a contract: the RollupCreator becomes the script's own.
LEMMA DeploysWhole ==
  ASSUME RollupsInv, DeployNextContract
  PROVE  RollupsInv'
<1> DEFINE isCreator == Head(Remaining) = "RollupCreator"
           new == NewCreator(script.env)
<1>1. /\ IsList(creators) /\ ScriptInv /\ script.stage = "deploy"
      /\ UNCHANGED <<rollups, mempool>>
  BY DEF RollupsInv, CreatorsInv, DeployNextContract, ScriptAt
<1>2. /\ script' = [f \in ScriptFields |-> script'[f]] /\ script'.built = script.built + 1
      /\ script'.stage = "deploy" /\ script'.env = script.env
      /\ script'.creator = IF isCreator THEN Len(creators) + 1 ELSE script.creator
  BY <1>1 DEF DeployNextContract, ScriptInv, ScriptFields
<1>3. creators' = IF isCreator THEN Append(creators, new) ELSE creators
  BY DEF DeployNextContract
<1>4. Complete(new)
  BY DEF NewCreator, Complete, CreatorFields
<1>5. /\ CreatorsInv' /\ Len(creators) \in Nat
      /\ isCreator => Len(creators') = Len(creators) + 1
  <2> HIDE DEF new
  <2>1. /\ IsList(Append(creators, new)) /\ Len(creators) \in Nat
        /\ Len(Append(creators, new)) = Len(creators) + 1
        /\ \A i \in 1..Len(creators) : Append(creators, new)[i] = creators[i]
        /\ Append(creators, new)[Len(creators) + 1] = new
    BY <1>1, ListAppended
  <2>2. CASE isCreator
    <3>1. \A i \in 1..(Len(creators) + 1) : Complete(Append(creators, new)[i])
      BY <2>1, <1>4 DEF RollupsInv, CreatorsInv
    <3> QED BY <2>1, <2>2, <3>1, <1>3 DEF CreatorsInv
  <2>3. CASE ~isCreator
    BY <2>1, <2>3, <1>3 DEF RollupsInv, CreatorsInv
  <2> QED BY <2>2, <2>3
<1>6. ASSUME script.env.name \in {"deployment", "local"}, script.built > 23
      PROVE  script'.creator \in 1..Len(creators')
  <2>1. CASE isCreator
    BY <2>1, <1>2, <1>5
  <2>2. CASE ~isCreator
    <3>1. Remaining # <<>> /\ script.built \in Nat
      BY <1>1 DEF DeployNextContract, ScriptInv
    <3>2. script.built > 24
      BY <3>1, <2>2, <1>6, CreatorComesLate
    <3> QED BY <3>2, <2>2, <1>1, <1>2, <1>3, <1>6 DEF ScriptInv
  <2> QED BY <2>1, <2>2
<1>7. ScriptInv'
  <2> HIDE DEF isCreator
  <2> QED BY <1>1, <1>2, <1>6 DEF ScriptInv
<1>8. IsList(rollups)' /\ RollupsAreWhole'
  BY <1>1 DEF RollupsInv, IsList, RollupsAreWhole
<1> QED BY <1>5, <1>7, <1>8 DEF RollupsInv

\* The local deployment waits for the transaction that it has sent.
LEMMA TemplatesSent ==
  ASSUME RollupsInv, SetTemplates
  PROVE  RollupsInv'
<1>1. /\ ScriptInv /\ script.stage = "deploy" /\ script.env.name \in {"deployment", "local"}
      /\ Remaining = <<>> /\ script.built \in Nat
      /\ mempool' = mempool \cup {script.creator} /\ UNCHANGED <<creators, rollups>>
  BY DEF RollupsInv, SetTemplates, ScriptAt, ScriptInv
<1>2. script.creator \in 1..Len(creators)
  BY <1>1, CreatorComesLate DEF ScriptInv
<1>3. /\ script' = [f \in ScriptFields |-> script'[f]] /\ script'.built = script.built
      /\ script'.stage \in {"wait", "done"} /\ script'.creator = script.creator
  BY <1>1 DEF SetTemplates, Goto, ScriptInv, ScriptFields
<1>4. ScriptInv'
  BY <1>1, <1>2, <1>3 DEF ScriptInv
<1>5. CreatorsInv' /\ IsList(rollups)' /\ RollupsAreWhole'
  BY <1>1 DEF RollupsInv, CreatorsInv, IsList, RollupsAreWhole
<1> QED BY <1>4, <1>5 DEF RollupsInv

\* A RollupCreator that changes, in its templates being set or in its
\* allowance, keeps the templates it has.
LEMMA CreatorChanges ==
  ASSUME CreatorsInv, NEW c, NEW e,
         c \in 1..Len(creators) => Complete(e) /\ (creators[c].set => e.set),
         creators' = Replaced(creators, c, e)
  PROVE  /\ CreatorsInv' /\ Len(creators') = Len(creators)
         /\ \A i \in 1..Len(creators) : /\ creators[i].set => creators'[i].set
                                        /\ i = c => creators'[i] = e
<1>1. /\ IsList(creators') /\ Len(creators') = Len(creators)
      /\ \A i \in 1..Len(creators) : creators'[i] = IF i = c THEN e ELSE creators[i]
  BY ListReplaced DEF CreatorsInv
<1>2. \A i \in 1..Len(creators') : Complete(creators'[i])
  BY <1>1 DEF CreatorsInv
<1> QED BY <1>1, <1>2 DEF CreatorsInv

\* A mined transaction leaves the pool only once the templates are set.
LEMMA MinedWhole ==
  ASSUME RollupsInv, TemplatesMined
  PROVE  RollupsInv'
<1>1. PICK c \in mempool : /\ mempool' = mempool \ {c}
                           /\ creators' = [creators EXCEPT ![c].set = TRUE]
  BY DEF TemplatesMined
<1> DEFINE e == [creators[c] EXCEPT !.set = TRUE]
<1>2. c \in 1..Len(creators) => Complete(e) /\ e.set
  BY DEF RollupsInv, CreatorsInv, Complete, CreatorFields
<1>3. creators' = Replaced(creators, c, e) /\ UNCHANGED <<rollups, script>>
  BY <1>1 DEF TemplatesMined, Replaced
<1> HIDE DEF e
<1>4. /\ CreatorsInv' /\ Len(creators') = Len(creators)
      /\ \A i \in 1..Len(creators) : /\ creators[i].set => creators'[i].set
                                     /\ i = c => creators'[i] = e
  BY <1>2, <1>3, CreatorChanges DEF RollupsInv
<1>5. ScriptInv'
  BY <1>1, <1>2, <1>3, <1>4 DEF RollupsInv, ScriptInv, IsDev
<1>6. IsList(rollups)' /\ RollupsAreWhole'
  BY <1>3 DEF RollupsInv, IsList, RollupsAreWhole
<1> QED BY <1>4, <1>5, <1>6 DEF RollupsInv

\* The local deployment goes on once its transaction is mined, and reads then.
LEMMA ReadsAfterWait ==
  ASSUME RollupsInv, WaitForTemplates \/ ReadWalletCreator
  PROVE  RollupsInv'
<1>1. ScriptInv /\ UNCHANGED <<creators, rollups, mempool>>
  BY DEF RollupsInv, WaitForTemplates, ReadWalletCreator
<1>2. CASE WaitForTemplates
  <2>1. /\ script' = [f \in ScriptFields |-> script'[f]] /\ script'.built = script.built
        /\ script'.stage = "read" /\ script'.creator = script.creator /\ script.stage = "wait"
        /\ script.creator \notin mempool
    BY <1>1, <1>2 DEF WaitForTemplates, Goto, ScriptAt, ScriptInv, ScriptFields
  <2>2. ScriptInv'
    BY <1>1, <2>1 DEF ScriptInv
  <2> QED BY <1>1, <2>2, ScriptMoves
<1>3. CASE ReadWalletCreator
  <2>1. /\ script' = [f \in ScriptFields |-> script'[f]] /\ script'.built = script.built
        /\ script'.stage \in {"create", "approve"} /\ script.stage = "read"
        /\ script'.creator = script.creator /\ script'.env = script.env
        /\ script'.walletCreator = IF creators[script.creator].set THEN script.creator ELSE 0
    BY <1>1, <1>3 DEF ReadWalletCreator, ScriptAt, ScriptInv, ScriptFields
  <2>2. ScriptInv'
    BY <1>1, <2>1 DEF ScriptInv, IsDev
  <2> QED BY <1>1, <2>2, ScriptMoves
<1> QED BY <1>2, <1>3

\* The allowance of the fee token is given before the rollup is created.
LEMMA ApprovesWhole ==
  ASSUME RollupsInv, ApproveCreator
  PROVE  RollupsInv'
<1> DEFINE c == script.creator
           a == [creators[c].allowance EXCEPT
                   ![script.token] = PrescaledAmount(script.token, FactoryBudget)]
           e == [creators[c] EXCEPT !.allowance = a]
<1>1. creators' = Replaced(creators, c, e) /\ UNCHANGED <<rollups, mempool>>
  BY DEF ApproveCreator, Replaced
<1> HIDE DEF a
<1>2. c \in 1..Len(creators) => Complete(e) /\ e.set = creators[c].set
  BY DEF RollupsInv, CreatorsInv, Complete, CreatorFields
<1> HIDE DEF e
<1>3. /\ CreatorsInv' /\ Len(creators') = Len(creators)
      /\ \A i \in 1..Len(creators) : creators[i].set => creators'[i].set
  BY <1>1, <1>2, CreatorChanges DEF RollupsInv
<1>4. /\ script' = [f \in ScriptFields |-> script'[f]] /\ script'.built = script.built
      /\ script'.stage = "create" /\ script.stage = "approve"
      /\ script'.creator = script.creator /\ script'.env = script.env
      /\ script'.walletCreator = script.walletCreator
  BY DEF ApproveCreator, Goto, ScriptAt, RollupsInv, ScriptInv, ScriptFields
<1>5. ScriptInv'
  BY <1>3, <1>4 DEF RollupsInv, ScriptInv, IsDev
<1>6. IsList(rollups)' /\ RollupsAreWhole'
  BY <1>1 DEF RollupsInv, IsList, RollupsAreWhole
<1> QED BY <1>3, <1>5, <1>6 DEF RollupsInv

IsWhole(r) ==
  /\ r.bridge = IF r.salt.nativeToken = Unset THEN "Bridge" ELSE "ERC20Bridge"
  /\ r.inbox.feeToken = (r.salt.nativeToken # Unset)
  /\ r.inbox.bufferable = (r.salt.params.threshold # 0)
  /\ \A w \in r.wallets : w[1] = r.creator

\* What createRollup asks for is whole, if it read its own wallet creator.
LEMMA NewRollupIsWhole ==
  ASSUME NEW creator, Complete(creator), IsDev => script.walletCreator = script.creator
  PROVE  IsWhole(NewRollup(creator, DeployParams))
<1> DEFINE d == DeployParams
           r == NewRollup(creator, d)
<1>1. /\ r.creator = script.creator /\ r.salt = d /\ r.wallets = d.params.wallets
      /\ r.bridge = TemplatesFor(creator, d.nativeToken).bridge /\ r.inbox = InboxFor(creator, d)
  BY DEF NewRollup
<1>2. \A w \in d.params.wallets : w[1] = script.creator
  BY DEF DeployParams, DevParams, ConfigParams, Wallets
<1> HIDE DEF d, r
<1>3. TemplatesFor(creator, d.nativeToken) =
        IF d.nativeToken = Unset THEN EthBasedTemplates ELSE Erc20BasedTemplates
  BY DEF TemplatesFor, Complete
<1>4. r.bridge = IF d.nativeToken = Unset THEN "Bridge" ELSE "ERC20Bridge"
  BY <1>1, <1>3 DEF EthBasedTemplates, Erc20BasedTemplates
<1>5. /\ InboxFor(creator, d).feeToken = (d.nativeToken # Unset)
      /\ InboxFor(creator, d).bufferable = (d.params.threshold # 0)
  <2>1. CASE d.nativeToken = Unset /\ d.params.threshold = 0
    <3>1. InboxFor(creator, d) = SequencerInbox(FALSE, FALSE)
      BY <1>3, <2>1 DEF InboxFor, EthBasedTemplates
    <3>2. /\ SequencerInbox(FALSE, FALSE).feeToken = FALSE
          /\ SequencerInbox(FALSE, FALSE).bufferable = FALSE
      BY DEF SequencerInbox
    <3> QED BY <2>1, <3>1, <3>2
  <2>2. CASE d.nativeToken = Unset /\ d.params.threshold # 0
    <3>1. InboxFor(creator, d) = SequencerInbox(FALSE, TRUE)
      BY <1>3, <2>2 DEF InboxFor, EthBasedTemplates
    <3>2. /\ SequencerInbox(FALSE, TRUE).feeToken = FALSE
          /\ SequencerInbox(FALSE, TRUE).bufferable = TRUE
      BY DEF SequencerInbox
    <3> QED BY <2>2, <3>1, <3>2
  <2>3. CASE d.nativeToken # Unset /\ d.params.threshold = 0
    <3>1. InboxFor(creator, d) = SequencerInbox(TRUE, FALSE)
      BY <1>3, <2>3 DEF InboxFor, Erc20BasedTemplates
    <3>2. /\ SequencerInbox(TRUE, FALSE).feeToken = TRUE
          /\ SequencerInbox(TRUE, FALSE).bufferable = FALSE
      BY DEF SequencerInbox
    <3> QED BY <2>3, <3>1, <3>2
  <2>4. CASE d.nativeToken # Unset /\ d.params.threshold # 0
    <3>1. InboxFor(creator, d) = SequencerInbox(TRUE, TRUE)
      BY <1>3, <2>4 DEF InboxFor, Erc20BasedTemplates
    <3>2. /\ SequencerInbox(TRUE, TRUE).feeToken = TRUE
          /\ SequencerInbox(TRUE, TRUE).bufferable = TRUE
      BY DEF SequencerInbox
    <3> QED BY <2>4, <3>1, <3>2
  <2> QED BY <2>1, <2>2, <2>3, <2>4
<1> QED BY <1>1, <1>2, <1>4, <1>5 DEF IsWhole, d, r

\* A rollup is created with the templates of a RollupCreator that is complete.
LEMMA CreatesWhole ==
  ASSUME RollupsInv, CreateRollup
  PROVE  RollupsInv'
<1> DEFINE c == script.creator
           n == NewRollup(creators[c], DeployParams)
           a == [creators[c].allowance EXCEPT ![script.token] = @ - FactoriesCost(script.token)]
           e == [creators[c] EXCEPT !.allowance = a]
<1>1. /\ c \in 1..Len(creators) /\ IsList(rollups) /\ RollupsAreWhole
      /\ rollups' = Append(rollups, n) /\ UNCHANGED mempool
  BY DEF RollupsInv, ScriptInv, CreateRollup, ScriptAt
<1>2. IsWhole(n)
  BY <1>1, NewRollupIsWhole DEF RollupsInv, CreatorsInv, ScriptInv, CreateRollup, ScriptAt
<1> HIDE DEF n
<1>3. /\ IsList(Append(rollups, n)) /\ DOMAIN rollups = 1..Len(rollups) /\ Len(rollups) \in Nat
      /\ DOMAIN Append(rollups, n) = 1..(Len(rollups) + 1)
      /\ \A i \in 1..Len(rollups) : Append(rollups, n)[i] = rollups[i]
      /\ Append(rollups, n)[Len(rollups) + 1] = n
  BY <1>1, ListAppended
<1>4. \A i \in DOMAIN rollups : IsWhole(rollups[i])
  BY <1>1 DEF RollupsAreWhole, IsWhole
<1>5. \A i \in 1..(Len(rollups) + 1) : IsWhole(Append(rollups, n)[i])
  BY <1>2, <1>3, <1>4
<1>6. IsList(rollups') /\ RollupsAreWhole'
  BY <1>1, <1>3, <1>5 DEF RollupsAreWhole, IsWhole
<1>7. CreatorsInv'
  <2>1. CASE script.token = Unset
    BY <2>1 DEF CreateRollup, RollupsInv, CreatorsInv
  <2>2. CASE script.token # Unset
    <3>1. creators' = Replaced(creators, c, e)
      BY <2>2 DEF CreateRollup, Replaced
    <3> HIDE DEF a
    <3>2. c \in 1..Len(creators) => Complete(e) /\ e.set = creators[c].set
      BY DEF RollupsInv, CreatorsInv, Complete, CreatorFields
    <3> HIDE DEF e
    <3> QED BY <3>1, <3>2, CreatorChanges DEF RollupsInv
  <2> QED BY <2>1, <2>2
<1>8. /\ script' = [f \in ScriptFields |-> script'[f]] /\ script'.built = script.built
      /\ script'.stage \in {"report", "done"}
  BY DEF CreateRollup, RollupsInv, ScriptInv, ScriptFields
<1>9. ScriptInv'
  BY <1>8 DEF RollupsInv, ScriptInv
<1> QED BY <1>6, <1>7, <1>9 DEF RollupsInv

\* The stages that neither create a rollup nor prepare one.
LEMMA OtherStagesWhole ==
  ASSUME RollupsInv,
         \/ CheckDataSize \/ RollupScriptFails \/ EndDeployment \/ InitializeCache
         \/ AddWasmCacheManager \/ WriteDeployment \/ WriteChainInfo
  PROVE  RollupsInv'
<1>1. script = [f \in ScriptFields |-> script[f]]
  BY DEF RollupsInv, ScriptInv
<1>2. UNCHANGED <<creators, rollups, mempool>>
  BY DEF CheckDataSize, RollupScriptFails, EndDeployment, InitializeCache, AddWasmCacheManager,
         WriteDeployment, WriteChainInfo
<1>3. /\ script' = [f \in ScriptFields |-> script'[f]] /\ script'.built = script.built
      /\ script'.stage \in {"ask", "initialize", "add", "info", "done", "failed"}
      /\ script'.stage = "ask" => script.stage = "check"
  BY <1>1 DEF CheckDataSize, RollupScriptFails, EndDeployment, InitializeCache,
              AddWasmCacheManager, WriteDeployment, WriteChainInfo, Goto, ScriptAt, ScriptFields
<1> QED BY <1>2, <1>3, PassesBy DEF RollupsInv, ScriptInv

\* Whatever the scripts are given and wherever they stop, a rollup is created
\* whole: its contracts are those of its fee token and of its delay buffer, and
\* the wallets it admits are those its own wallet creator will deploy.
THEOREM RollupsAreCreatedWhole == RollupsSpec => []RollupsAreWhole
<1>1. RollupsInit => RollupsInv
  <2> SUFFICES ASSUME RollupsInit PROVE RollupsInv
    OBVIOUS
  <2>1. IsList(<<>>) /\ Len(<<>>) = 0 /\ DOMAIN <<>> = {}
    BY DEF IsList
  <2>2. /\ NoScript = [f \in ScriptFields |-> NoScript[f]] /\ NoScript.built = 0
        /\ NoScript.stage = "done"
    BY DEF NoScript, ScriptFields
  <2> QED BY <2>1, <2>2 DEF RollupsInit, RollupsInv, CreatorsInv, ScriptInv, RollupsAreWhole
<1>2. RollupsInv /\ [RollupsNext]_rollupVars => RollupsInv'
  <2> SUFFICES ASSUME RollupsInv, [RollupsNext]_rollupVars PROVE RollupsInv'
    OBVIOUS
  <2>1. CASE UNCHANGED rollupVars
    BY <2>1, ScriptMoves DEF rollupVars, RollupsInv, ScriptInv, IsDev
  <2>2. CASE RollupsNext
    BY <2>2, StartsWhole, AskedWhole, VerifyMovesOn, DeploysWhole, TemplatesSent, MinedWhole,
       ReadsAfterWait, ApprovesWhole, CreatesWhole, OtherStagesWhole DEF RollupsNext
  <2> QED BY <2>1, <2>2
<1>3. RollupsInv => RollupsAreWhole
  BY DEF RollupsInv
<1> QED BY <1>1, <1>2, <1>3, PTL DEF RollupsSpec

------------------------------------------------------------------------------
(* Celer: the deployment scripts. *)

CelerDeploySpec == CelerDeployInit /\ [][CelerDeployNext]_celerDeployVars

\* A script records under distinct names, takes addresses only from what it
\* deployed before, and does nothing else when it deploys a proxy.
Ordered(steps) ==
  /\ Len(steps) \in Nat /\ DOMAIN steps = 1..Len(steps)
  /\ \A i, j \in 1..Len(steps) : steps[i].name = steps[j].name => i = j
  /\ \A i \in 1..Len(steps) : \A k \in DOMAIN steps[i].on :
       \E j \in 1..Len(steps) : j < i /\ steps[j].name = steps[i].on[k]
  /\ \A i \in 1..Len(steps) :
       steps[i].init # <<>> => /\ Len(steps) = 1 /\ steps[i].on = <<>>
                               /\ steps[i].name # "DefaultProxyAdmin"

OrderedScript(s) == Ordered(s.steps)

\* A script of one step is in order, if what it deploys needs no other contract.
LEMMA OneStepOrdered ==
  ASSUME NEW s, s.on = <<>>, s.init # <<>> => s.name # "DefaultProxyAdmin"
  PROVE  Ordered(<<s>>)
<1>1. Len(<<s>>) = 1 /\ DOMAIN <<s>> = 1..1 /\ <<s>>[1] = s
  OBVIOUS
<1>2. DOMAIN s.on = {}
  OBVIOUS
<1> QED BY <1>1, <1>2 DEF Ordered

\* A script of one contract is in order.
LEMMA SingleOrdered ==
  ASSUME NEW tag, NEW groups
  PROVE  OrderedScript(Single(tag, groups))
<1>1. WithArgs(tag, groups).on = <<>> /\ WithArgs(tag, groups).init = <<>>
  BY DEF WithArgs
<1>2. Single(tag, groups).steps = <<WithArgs(tag, groups)>>
  BY DEF Single, DeployScript
<1> QED BY <1>1, <1>2, OneStepOrdered DEF OrderedScript

\* So is one that deploys a proxy, other than the one of the proxies' admin.
LEMMA ProxyOrdered ==
  ASSUME NEW tag, NEW name, name # "DefaultProxyAdmin", NEW groups, NEW initArgs
  PROVE  OrderedScript(DeployScript(tag, <<BehindProxy(name, groups, initArgs)>>))
<1> DEFINE b == BehindProxy(name, groups, initArgs)
<1>1. b.on = <<>> /\ b.name = name
  BY DEF BehindProxy
<1>2. DeployScript(tag, <<b>>).steps = <<b>>
  BY DEF DeployScript
<1> HIDE DEF b
<1>3. Ordered(<<b>>)
  BY <1>1, OneStepOrdered
<1>4. OrderedScript(DeployScript(tag, <<b>>))
  BY <1>2, <1>3 DEF OrderedScript
<1> QED BY <1>4 DEF b

\* Every script of deploy/ is in order.
LEMMA ScriptsOrdered == \A s \in DeployScripts : OrderedScript(s)
<1>1. \A s \in {MessageBusOwner, CircleBridgeProxy, PeggedTokenBridge, PeggedNativeTokenBridge,
               MultiBridgeToken, MintSwapCanonicalTokenPermit, IntermediaryBridgeToken,
               FraxBridgeToken, RestrictedMultiBridgeTokenOwner, PegNFT, MsgTest, Faucet,
               ContractAsLP, DefaultProxyAdmin} :
       OrderedScript(s)
  BY SingleOrdered DEF MessageBusOwner, CircleBridgeProxy, PeggedTokenBridge,
                       PeggedNativeTokenBridge, MultiBridgeToken, MintSwapCanonicalTokenPermit,
                       IntermediaryBridgeToken, FraxBridgeToken,
                       RestrictedMultiBridgeTokenOwner, PegNFT, MsgTest, Faucet, ContractAsLP,
                       DefaultProxyAdmin
<1>2. \A s \in {Bridge, OriginalTokenVault, PeggedTokenBridgeV2, SingleBridgeToken,
               MultiBridgeTokenPermit, MintSwapCanonicalTokenFreezable,
               IntermediaryOriginalToken, MaiBridgeToken, MessageBus, OrigNFT, RFQ, DummySwap,
               ContractAsSender} :
       OrderedScript(s)
  BY SingleOrdered DEF Bridge, OriginalTokenVault, PeggedTokenBridgeV2, SingleBridgeToken,
                       MultiBridgeTokenPermit, MintSwapCanonicalTokenFreezable,
                       IntermediaryOriginalToken, MaiBridgeToken, MessageBus, OrigNFT, RFQ,
                       DummySwap, ContractAsSender
<1>3. \A s \in {FarmingRewards, OriginalTokenVaultV2, PeggedBrc20Bridge,
               SingleBridgeTokenPermit, MintSwapCanonicalToken, WrappedBridgeToken,
               CircleBridgeToken, OntologyBridgeToken, TransferSwap, MCNNFT,
               MessageReceiverAdapter, WithdrawInbox, TransferAgent} :
       OrderedScript(s)
  BY SingleOrdered DEF FarmingRewards, OriginalTokenVaultV2, PeggedBrc20Bridge,
                       SingleBridgeTokenPermit, MintSwapCanonicalToken, WrappedBridgeToken,
                       CircleBridgeToken, OntologyBridgeToken, TransferSwap, MCNNFT,
                       MessageReceiverAdapter, WithdrawInbox, TransferAgent
<1>4. \A s \in {MintSwapCanonicalTokenUpgradable, MintSwapCanonicalTokenUpgradableFreezable,
               MessageBusInit, NFTBridge, SentinelUpgradable} :
       OrderedScript(s)
  BY ProxyOrdered DEF MintSwapCanonicalTokenUpgradable,
                      MintSwapCanonicalTokenUpgradableFreezable, MessageBusInit, NFTBridge,
                      SentinelUpgradable
<1>5. OrderedScript(SGNStaking)
  BY OneStepOrdered DEF SGNStaking, DeployScript, WithArgs, WithOthers, Ordered, OrderedScript
<1>6. OrderedScript(GovernedOwner)
  BY OneStepOrdered DEF GovernedOwner, DeployScript, WithArgs, WithOthers, Ordered, OrderedScript
<1>7. OrderedScript(TestToken)
  BY OneStepOrdered DEF TestToken, DeployScript, WithArgs, WithOthers, Ordered, OrderedScript
<1> QED BY <1>1, <1>2, <1>3, <1>4, <1>5, <1>6, <1>7 DEF DeployScripts

\* So is the script of any tag.
LEMMA TagOrdered ==
  ASSUME NEW t \in Tags
  PROVE  Ordered(StepsOf(t))
<1>1. \E s \in DeployScripts : s.tag = t
  BY TagsAssumption
<1>2. ScriptOf(t) \in DeployScripts
  BY <1>1 DEF ScriptOf
<1> QED BY <1>2, ScriptsOrdered DEF StepsOf, OrderedScript

------------------------------------------------------------------------------
BuildFields == {"name", "env", "on", "runs", "admin", "init"}
RunFields   == {"tag", "next", "env", "completed"}

\* Only a proxy has an admin, and init was called once when it was constructed.
Initialized(c) ==
  /\ c = [f \in BuildFields |-> c[f]]
  /\ c.admin # 0 => Len(c.init) = 1

ContractsKept == IsList(contracts) /\ \A a \in 1..Len(contracts) : Initialized(contracts[a])

\* What is on record is on the chain.
RecordsKept ==
  /\ records \in [DeployNames -> 0..Len(contracts)]
  /\ implementations \in [DeployNames -> 0..Len(contracts)]

\* A step s that a run has done with the .env e: its contract is on the chain,
\* built from e and from the contracts now on record.
FitsIn(s, cs, rs, is, e) ==
  LET c == cs[rs[s.name]]
      built == IF s.init = <<>> THEN c ELSE cs[c.runs]
  IN  /\ rs[s.name] \in 1..Len(cs)
      /\ built.env = [g \in s.env |-> e[g]]
      /\ built.on = [k \in DOMAIN s.on |-> rs[s.on[k]]]
      /\ s.init # <<>> => c.runs = is[s.name] /\ Len(c.init) = 1

Fits(s) == FitsIn(s, contracts, records, implementations, deployRun.env)

RunFits ==
  /\ deployRun = [f \in RunFields |-> deployRun[f]]
  /\ deployRun.completed => /\ deployRun.tag # "none"
                            /\ deployRun.next > Len(StepsOf(deployRun.tag))
  /\ deployRun.tag # "none" =>
       /\ deployRun.tag \in Tags /\ deployRun.next \in 1..(Len(StepsOf(deployRun.tag)) + 1)
       /\ \A j \in 1..(deployRun.next - 1) : Fits(StepsOf(deployRun.tag)[j])

CelerDeployInv == ContractsKept /\ RecordsKept /\ RunFits

------------------------------------------------------------------------------
\* A script names only what some script of the tags deploys.
LEMMA NamesKnown ==
  ASSUME NEW t \in Tags, NEW i \in 1..Len(StepsOf(t))
  PROVE  /\ StepsOf(t)[i].name \in DeployNames
         /\ \A k \in DOMAIN StepsOf(t)[i].on : StepsOf(t)[i].on[k] \in DeployNames
<1>1. Ordered(StepsOf(t))
  BY TagOrdered
<1>2. \A j \in 1..Len(StepsOf(t)) : StepsOf(t)[j].name \in DeployNames
  BY <1>1 DEF DeployNames, AllSteps, ToSet, Ordered
<1> QED BY <1>1, <1>2 DEF Ordered

\* The step a run is at, and what it deploys.
LEMMA CurrentStep ==
  ASSUME CelerDeployInv, Running
  PROVE  /\ Ordered(StepsOf(deployRun.tag)) /\ Current.name \in DeployNames
         /\ deployRun.next \in 1..Len(StepsOf(deployRun.tag))
         /\ Current = StepsOf(deployRun.tag)[deployRun.next]
         /\ deployRun.tag \in Tags /\ deployRun.tag # "none"
<1> DEFINE steps == StepsOf(deployRun.tag)
<1>1. /\ deployRun.tag \in Tags /\ deployRun.tag # "none"
      /\ deployRun.next \in 1..(Len(steps) + 1) /\ deployRun.next <= Len(steps)
  BY DEF CelerDeployInv, RunFits, Running
<1>2. Ordered(steps)
  BY <1>1, TagOrdered
<1>3. deployRun.next \in 1..Len(steps)
  BY <1>1, <1>2 DEF Ordered
<1> QED BY <1>1, <1>2, <1>3, NamesKnown DEF Current

\* Steps that deploy nothing, and leave the run where it was or start one.
LEMMA NothingDeployed ==
  ASSUME CelerDeployInv, UNCHANGED <<contracts, records, implementations>>, RunFits'
  PROVE  CelerDeployInv'
BY DEF CelerDeployInv, ContractsKept, RecordsKept, IsList

\* What a done step recorded stays as it is while contracts are only added and
\* other names are recorded.
LEMMA FitsStays ==
  ASSUME NEW s, Fits(s), deployRun'.env = deployRun.env, s.init = <<>>,
         Len(contracts) \in Nat, Len(contracts') \in Nat, Len(contracts') >= Len(contracts),
         \A a \in 1..Len(contracts) : contracts'[a] = contracts[a],
         records'[s.name] = records[s.name],
         \A k \in DOMAIN s.on : records'[s.on[k]] = records[s.on[k]]
  PROVE  Fits(s)'
<1>1. records[s.name] \in 1..Len(contracts) /\ contracts'[records'[s.name]] = contracts[records[s.name]]
  BY DEF Fits, FitsIn
<1>2. records'[s.name] \in 1..Len(contracts')
  BY <1>1
<1>3. [k \in DOMAIN s.on |-> records'[s.on[k]]] = [k \in DOMAIN s.on |-> records[s.on[k]]]
  OBVIOUS
<1>4. [g \in s.env |-> deployRun'.env[g]] = [g \in s.env |-> deployRun.env[g]]
  OBVIOUS
<1> QED BY <1>1, <1>2, <1>3, <1>4 DEF Fits, FitsIn

\* A run goes on to its next step: the steps it had done stay, the new one fits.
LEMMA RunAdvances ==
  ASSUME CelerDeployInv, Running, Advanced,
         NEW t, t = deployRun.tag, NEW n, n = deployRun.next,
         \A j \in 1..n : Fits(StepsOf(t)[j])'
  PROVE  RunFits'
<1>1. /\ n \in 1..Len(StepsOf(t)) /\ t \in Tags /\ t # "none" /\ ~deployRun.completed
      /\ Len(StepsOf(t)) \in Nat
  BY CurrentStep DEF Running, Ordered
<1>2. /\ deployRun' = [f \in RunFields |-> deployRun'[f]] /\ deployRun'.next = n + 1
      /\ deployRun'.tag = t /\ deployRun'.completed = deployRun.completed
  BY DEF Advanced, CelerDeployInv, RunFits, RunFields
<1>3. n + 1 \in 1..(Len(StepsOf(t)) + 1) /\ (n + 1) - 1 = n
  BY <1>1
<1> QED BY <1>1, <1>2, <1>3 DEF RunFits, Fits

\* A contract that is built is recorded, and repeated only when it differs.
LEMMA PlainFits ==
  ASSUME CelerDeployInv, DeployPlain
  PROVE  CelerDeployInv'
<1>a. PICK t, n : t = deployRun.tag /\ n = deployRun.next
  OBVIOUS
<1> DEFINE s == StepsOf(t)[n]
           b == Build(s)
<1>1. /\ Running /\ Advanced /\ ContractsKept /\ RecordsKept /\ implementations' = implementations
  BY DEF DeployPlain, CelerDeployInv
<1>2. /\ Ordered(StepsOf(t)) /\ n \in 1..Len(StepsOf(t)) /\ t \in Tags
      /\ s = Current /\ s.name \in DeployNames
  BY <1>a, <1>1, CurrentStep
<1>b. /\ s.init = <<>>
      /\ IF Skipped(s)
           THEN UNCHANGED <<contracts, records>>
           ELSE /\ contracts' = Append(contracts, b)
                /\ records' = [records EXCEPT ![s.name] = Len(contracts')]
  BY <1>2 DEF DeployPlain
<1>3. /\ b = [f \in BuildFields |-> b[f]] /\ b.admin = 0
      /\ b.env = [g \in s.env |-> deployRun.env[g]]
      /\ b.on = [k \in DOMAIN s.on |-> records[s.on[k]]]
  BY DEF Build, BuildFields
<1>4. deployRun'.env = deployRun.env
  BY <1>1 DEF Advanced, CelerDeployInv, RunFits, RunFields
<1>5. \A k \in DOMAIN s.on : s.on[k] # s.name
  BY <1>2 DEF Ordered
<1> HIDE DEF b
<1>6. /\ ContractsKept' /\ RecordsKept' /\ Len(contracts) \in Nat /\ Len(contracts') \in Nat
      /\ Len(contracts') >= Len(contracts)
      /\ \A a \in 1..Len(contracts) : contracts'[a] = contracts[a]
      /\ \A m \in DeployNames \ {s.name} : records'[m] = records[m]
      /\ records'[s.name] \in 1..Len(contracts') /\ contracts'[records'[s.name]] = b
  <2>1. /\ IsList(Append(contracts, b)) /\ Len(contracts) \in Nat
        /\ Len(Append(contracts, b)) = Len(contracts) + 1
        /\ \A a \in 1..Len(contracts) : Append(contracts, b)[a] = contracts[a]
        /\ Append(contracts, b)[Len(contracts) + 1] = b
    BY <1>1, ListAppended DEF ContractsKept
  <2>2. CASE Skipped(s)
    <3>1. contracts' = contracts /\ records' = records
      BY <2>2, <1>b
    <3>2. records[s.name] # 0 /\ contracts[records[s.name]] = b
      BY <2>2 DEF Skipped, UpToDate, b
    <3> QED BY <1>1, <1>2, <2>1, <3>1, <3>2 DEF ContractsKept, RecordsKept
  <2>3. CASE ~Skipped(s)
    <3>1. contracts' = Append(contracts, b)
      BY <2>3, <1>b
    <3>2. records' = [records EXCEPT ![s.name] = Len(contracts')]
      BY <2>3, <1>b
    <3>3. Len(contracts') = Len(contracts) + 1
      BY <2>1, <3>1
    <3>4. \A a \in 1..(Len(contracts) + 1) : Initialized(Append(contracts, b)[a])
      BY <1>1, <1>3, <2>1 DEF ContractsKept, Initialized
    <3>5. ContractsKept'
      BY <2>1, <3>1, <3>4 DEF ContractsKept
    <3>6. /\ records' \in [DeployNames -> 0..Len(contracts')]
          /\ implementations' \in [DeployNames -> 0..Len(contracts')]
          /\ records'[s.name] = Len(contracts')
          /\ \A m \in DeployNames \ {s.name} : records'[m] = records[m]
      BY <1>1, <1>2, <2>1, <3>2, <3>3 DEF RecordsKept
    <3> QED BY <2>1, <3>1, <3>3, <3>5, <3>6 DEF RecordsKept
  <2> QED BY <2>2, <2>3
<1>7. ASSUME NEW j \in 1..(n - 1)
      PROVE  Fits(StepsOf(t)[j])'
  <2> DEFINE r == StepsOf(t)[j]
  <2>1. /\ j \in 1..Len(StepsOf(t)) /\ j # n /\ j \in DOMAIN StepsOf(t) /\ Len(StepsOf(t)) # 1
    BY <1>2 DEF Ordered
  <2>2. Fits(r) /\ r.init = <<>> /\ r.name # s.name
    BY <1>a, <1>1, <1>2, <2>1 DEF CelerDeployInv, RunFits, Running, Ordered
  <2>3. r.name \in DeployNames /\ \A k \in DOMAIN r.on : r.on[k] \in DeployNames
    BY <1>2, <2>1, NamesKnown
  <2>4. \A k \in DOMAIN r.on : r.on[k] # s.name
    <3> SUFFICES ASSUME NEW k \in DOMAIN r.on PROVE r.on[k] # s.name
      OBVIOUS
    <3>1. PICK i \in 1..Len(StepsOf(t)) : i < j /\ StepsOf(t)[i].name = r.on[k]
      BY <1>2, <2>1 DEF Ordered
    <3>2. i # n
      BY <1>2, <3>1 DEF Ordered
    <3> QED BY <1>2, <3>1, <3>2 DEF Ordered
  <2> HIDE DEF r, s
  <2>5. Fits(r)'
    BY <1>4, <1>6, <2>1, <2>2, <2>3, <2>4, FitsStays DEF r
  <2> QED BY <2>5 DEF r
<1>8. Fits(s)'
  <2>1. [g \in s.env |-> deployRun'.env[g]] = [g \in s.env |-> deployRun.env[g]]
    BY <1>4
  <2>2. [k \in DOMAIN s.on |-> records'[s.on[k]]] = [k \in DOMAIN s.on |-> records[s.on[k]]]
    BY <1>2, <1>5, <1>6, NamesKnown
  <2> QED BY <1>b, <1>3, <1>6, <2>1, <2>2 DEF Fits, FitsIn
<1>9. \A j \in 1..n : Fits(StepsOf(t)[j])'
  BY <1>2, <1>7, <1>8
<1>10. RunFits'
  BY <1>a, <1>1, <1>9, RunAdvances
<1> QED BY <1>6, <1>10 DEF CelerDeployInv

------------------------------------------------------------------------------
Kept(cs) == IsList(cs) /\ \A a \in 1..Len(cs) : Initialized(cs[a])

\* ds holds what cs holds, and maybe more.
Longer(cs, ds) ==
  /\ Len(cs) \in Nat /\ Len(ds) \in Nat /\ Len(cs) <= Len(ds)
  /\ \A a \in 1..Len(cs) : ds[a] = cs[a]

\* One more contract.
LEMMA OneMore ==
  ASSUME NEW cs, Kept(cs), NEW e, Initialized(e)
  PROVE  /\ Kept(Append(cs, e)) /\ Longer(cs, Append(cs, e)) /\ Len(Append(cs, e)) = Len(cs) + 1
         /\ Append(cs, e)[Len(cs) + 1] = e
<1>1. /\ IsList(Append(cs, e)) /\ Len(cs) \in Nat /\ Len(Append(cs, e)) = Len(cs) + 1
      /\ \A i \in 1..Len(cs) : Append(cs, e)[i] = cs[i]
      /\ Append(cs, e)[Len(cs) + 1] = e
  BY ListAppended DEF Kept
<1>2. \A a \in 1..(Len(cs) + 1) : Initialized(Append(cs, e)[a])
  BY <1>1 DEF Kept
<1> QED BY <1>1, <1>2 DEF Kept, Longer

\* The implementation is on the chain once the proxy's step has looked for it.
LEMMA Implemented ==
  ASSUME NEW cs, Kept(cs), NEW b, Initialized(b), NEW ds, NEW i,
         \/ ds = Append(cs, b) /\ i = Len(ds)
         \/ ds = cs /\ i \in 1..Len(cs) /\ cs[i] = b
  PROVE  Kept(ds) /\ Longer(cs, ds) /\ i \in 1..Len(ds) /\ ds[i] = b
<1>1. Len(cs) \in Nat
  BY ListAppended DEF Kept
<1>2. CASE ds = Append(cs, b) /\ i = Len(ds)
  BY <1>1, <1>2, OneMore DEF Longer
<1>3. CASE ds = cs /\ i \in 1..Len(cs) /\ cs[i] = b
  BY <1>1, <1>3 DEF Longer
<1> QED BY <1>2, <1>3

\* So is the admin of the proxies.
LEMMA Administered ==
  ASSUME NEW cs, Kept(cs), NEW b, Initialized(b), NEW ds, NEW i,
         \/ ds = Append(cs, b) /\ i = Len(ds)
         \/ ds = cs /\ i \in 1..Len(cs)
  PROVE  Kept(ds) /\ Longer(cs, ds) /\ i \in 1..Len(ds)
<1>1. Len(cs) \in Nat
  BY ListAppended DEF Kept
<1>2. CASE ds = Append(cs, b) /\ i = Len(ds)
  BY <1>1, <1>2, OneMore DEF Longer
<1>3. CASE ds = cs /\ i \in 1..Len(cs)
  BY <1>1, <1>3 DEF Longer
<1> QED BY <1>2, <1>3

\* A proxy runs the implementation on record, built from the .env of the run,
\* and is initialized by its constructor only.
LEMMA ProxyFits ==
  ASSUME CelerDeployInv, DeployProxy
  PROVE  CelerDeployInv'
<1>a. PICK t, n : t = deployRun.tag /\ n = deployRun.next
  OBVIOUS
<1> DEFINE s == StepsOf(t)[n]
           b == Build(s)
           fresh == ~UpToDate(implementations[s.name], b)
           withImpl == IF fresh THEN Append(contracts, b) ELSE contracts
           impl == IF fresh THEN Len(withImpl) ELSE implementations[s.name]
           admin == records["DefaultProxyAdmin"]
           withAdmin == IF admin = 0 THEN Append(withImpl, AdminBuild) ELSE withImpl
           adminAt == IF admin = 0 THEN Len(withAdmin) ELSE admin
           initial == [b EXCEPT !.runs = impl, !.admin = adminAt,
                                !.init = <<[g \in s.init[1] |-> deployRun.env[g]]>>]
           p == ProxyOf(s.name)
<1>1. Running /\ Advanced /\ Kept(contracts) /\ RecordsKept
  BY DEF DeployProxy, CelerDeployInv, ContractsKept, Kept
<1>2. /\ Ordered(StepsOf(t)) /\ n \in 1..Len(StepsOf(t)) /\ t \in Tags
      /\ s = Current /\ s.name \in DeployNames
  BY <1>a, <1>1, CurrentStep
<1>3. /\ s.init # <<>>
      /\ implementations' = [implementations EXCEPT ![s.name] = impl]
      /\ p = 0 => /\ contracts' = Append(withAdmin, initial)
                  /\ records' = [records EXCEPT !["DefaultProxyAdmin"] = adminAt,
                                                ![s.name] = Len(contracts')]
      /\ p # 0 => /\ contracts' = [withImpl EXCEPT ![p].runs = impl]
                  /\ records' = [records EXCEPT ![s.name] = p]
  <2> HIDE DEF s
  <2>1. s = Current
    BY <1>2
  <2> QED BY ONLY <2>1, DeployProxy DEF DeployProxy
<1>4. /\ b = [f \in BuildFields |-> b[f]] /\ b.admin = 0
      /\ b.env = [g \in s.env |-> deployRun.env[g]]
      /\ b.on = [k \in DOMAIN s.on |-> records[s.on[k]]]
  <2> HIDE DEF s
  <2> QED BY DEF Build, BuildFields
<1>c. Initialized(b) /\ Initialized(AdminBuild)
  <2>1. AdminBuild = [f \in BuildFields |-> AdminBuild[f]] /\ AdminBuild.admin = 0
    BY DEF AdminBuild, BuildFields
  <2> HIDE DEF b
  <2> QED BY <1>4, <2>1 DEF Initialized
<1>5. /\ Initialized(initial) /\ initial.runs = impl /\ Len(initial.init) = 1
  <2> HIDE DEF b, impl, adminAt
  <2>1. /\ initial = [f \in BuildFields |-> initial[f]] /\ initial.runs = impl
        /\ initial.init = <<[g \in s.init[1] |-> deployRun.env[g]]>>
    BY <1>4 DEF BuildFields
  <2> HIDE DEF initial
  <2>2. Len(initial.init) = 1
    BY <2>1
  <2> QED BY <2>1, <2>2 DEF Initialized
<1>6. /\ admin \in 0..Len(contracts) /\ implementations[s.name] \in 0..Len(contracts)
  BY <1>1, <1>2 DEF RecordsKept, DeployNames
<1>7. \/ withImpl = Append(contracts, b) /\ impl = Len(withImpl)
      \/ withImpl = contracts /\ impl \in 1..Len(contracts) /\ contracts[impl] = b
  <2> HIDE DEF b
  <2>1. CASE fresh
    <3> HIDE DEF fresh
    <3> QED BY <2>1
  <2>2. CASE ~fresh
    <3>1. implementations[s.name] # 0 /\ contracts[implementations[s.name]] = b
      BY <2>2 DEF UpToDate
    <3>2. withImpl = contracts /\ impl = implementations[s.name]
      BY <2>2
    <3> QED BY <1>6, <3>1, <3>2
  <2> QED BY <2>1, <2>2
<1> HIDE DEF withImpl, impl, b
<1>8. Kept(withImpl) /\ Longer(contracts, withImpl) /\ impl \in 1..Len(withImpl) /\ withImpl[impl] = b
  BY <1>1, <1>c, <1>7, Implemented
<1>9. admin \in 0..Len(withImpl)
  BY <1>6, <1>8 DEF Longer
<1>10. Kept(withAdmin) /\ Longer(withImpl, withAdmin) /\ adminAt \in 1..Len(withAdmin)
  <2> DEFINE added == AdminBuild
  <2>1. \/ withAdmin = Append(withImpl, added) /\ adminAt = Len(withAdmin)
        \/ withAdmin = withImpl /\ adminAt \in 1..Len(withImpl)
    BY <1>8, <1>9 DEF Longer
  <2>2. Initialized(added)
    BY <1>c
  <2> HIDE DEF added, withAdmin, adminAt
  <2> QED BY <1>8, <2>1, <2>2, Administered
<1>11. /\ n = 1 /\ s.on = <<>> /\ s.name # "DefaultProxyAdmin"
       /\ "DefaultProxyAdmin" \in DeployNames
  BY <1>2, <1>3 DEF Ordered, DeployNames
<1>12. deployRun'.env = deployRun.env
  BY <1>1 DEF Advanced, CelerDeployInv, RunFits, RunFields
<1>13. /\ Kept(contracts') /\ Len(contracts') >= Len(contracts) /\ Len(contracts') \in Nat
       /\ impl \in 1..Len(contracts') /\ contracts'[impl] = b
       /\ records' \in [DeployNames -> 0..Len(contracts')]
       /\ records'[s.name] \in 1..Len(contracts')
       /\ contracts'[records'[s.name]].runs = impl /\ Len(contracts'[records'[s.name]].init) = 1
  <2>1. CASE p = 0
    <3> HIDE DEF initial, withAdmin, adminAt, p
    <3>1. /\ Kept(contracts') /\ Longer(withAdmin, contracts') /\ Len(contracts') = Len(withAdmin) + 1
          /\ contracts'[Len(withAdmin) + 1] = initial
      <4>1. contracts' = Append(withAdmin, initial)
        BY <1>3, <2>1
      <4> QED BY <1>5, <1>10, <4>1, OneMore
    <3>2. /\ Len(contracts) <= Len(contracts') /\ Len(contracts) \in Nat /\ Len(contracts') \in Nat
          /\ impl \in 1..Len(contracts') /\ contracts'[impl] = b
          /\ adminAt \in 0..Len(contracts')
      BY <1>8, <1>10, <3>1 DEF Longer
    <3>3. records \in [DeployNames -> 0..Len(contracts')]
      BY <1>1, <3>2 DEF RecordsKept
    <3>4. records' \in [DeployNames -> 0..Len(contracts')] /\ records'[s.name] = Len(contracts')
      <4> HIDE DEF s
      <4> QED BY <1>2, <1>3, <1>11, <2>1, <3>2, <3>3
    <3> QED BY <1>5, <3>1, <3>2, <3>4
  <2>2. CASE p # 0
    <3>1. p \in 1..Len(contracts) /\ contracts[p].admin # 0
      <4> DEFINE ps == {a \in DOMAIN contracts : contracts[a].name = s.name /\ contracts[a].admin # 0}
      <4>1. p = IF ps = {} THEN 0 ELSE CHOOSE a \in ps : TRUE
        BY DEF ProxyOf
      <4>2. DOMAIN contracts = 1..Len(contracts)
        BY <1>1, ListAppended DEF Kept
      <4>3. p \in ps
        <5> HIDE DEF ps, p
        <5> QED BY <4>1, <2>2
      <4> QED BY <4>2, <4>3
    <3> DEFINE q == [withImpl[p] EXCEPT !.runs = impl]
    <3>2. withImpl[p] = contracts[p] /\ p \in 1..Len(withImpl) /\ Initialized(withImpl[p])
      BY <1>8, <3>1, SMTT(30) DEF Longer, Kept
    <3>3. Initialized(q) /\ q.runs = impl /\ Len(q.init) = 1
      BY <3>1, <3>2 DEF Initialized, BuildFields
    <3>4. contracts' = Replaced(withImpl, p, q)
      BY <1>3, <2>2 DEF Replaced
    <3> HIDE DEF q, p
    <3>5. /\ IsList(contracts') /\ Len(contracts') = Len(withImpl)
          /\ \A a \in 1..Len(withImpl) : contracts'[a] = IF a = p THEN q ELSE withImpl[a]
      BY <1>8, <3>4, ListReplaced DEF Kept
    <3>6. Kept(contracts')
      BY <1>8, <3>3, <3>5 DEF Kept
    <3>7. impl # p
      BY <1>4, <1>8, <3>1, <3>2
    <3>8. Len(contracts) <= Len(contracts') /\ Len(contracts) \in Nat /\ Len(contracts') \in Nat
      BY <1>8, <3>5 DEF Longer
    <3>9. records \in [DeployNames -> 0..Len(contracts')]
      BY <1>1, <3>8 DEF RecordsKept
    <3>10. records' \in [DeployNames -> 0..Len(contracts')] /\ records'[s.name] = p
      <4> HIDE DEF s
      <4> QED BY <1>2, <1>3, <2>2, <3>1, <3>8, <3>9
    <3> QED BY <1>8, <3>2, <3>3, <3>5, <3>6, <3>7, <3>8, <3>10
  <2> QED BY <2>1, <2>2
<1> HIDE DEF s
<1>14. /\ implementations' \in [DeployNames -> 0..Len(contracts')]
       /\ implementations'[s.name] = impl
  BY <1>1, <1>2, <1>3, <1>13 DEF RecordsKept
<1>15. Fits(s)'
  <2>1. [g \in s.env |-> deployRun'.env[g]] = [g \in s.env |-> deployRun.env[g]]
    BY <1>12
  <2>2. DOMAIN s.on = {}
    BY <1>11
  <2>3. [k \in DOMAIN s.on |-> records'[s.on[k]]] = [k \in DOMAIN s.on |-> records[s.on[k]]]
    BY <2>2
  <2> QED BY <1>3, <1>4, <1>13, <1>14, <2>1, <2>3 DEF Fits, FitsIn
<1>16. \A j \in 1..n : Fits(StepsOf(t)[j])'
  BY <1>11, <1>15 DEF s
<1>17. RunFits'
  BY <1>a, <1>1, <1>16, RunAdvances
<1>18. ContractsKept' /\ RecordsKept'
  BY <1>13, <1>14 DEF Kept, ContractsKept, RecordsKept
<1> QED BY <1>17, <1>18 DEF CelerDeployInv

\* Whatever .env becomes and wherever runs stop, one that completes has recorded
\* contracts that are built from the .env it read and from one another.
THEOREM RecordsFit == CelerDeploySpec => []RecordsFitTogether
<1>1. CelerDeployInit => CelerDeployInv
  <2> SUFFICES ASSUME CelerDeployInit PROVE CelerDeployInv
    OBVIOUS
  <2>1. IsList(<<>>) /\ Len(<<>>) = 0
    BY DEF IsList
  <2>2. NoRun = [f \in RunFields |-> NoRun[f]] /\ ~NoRun.completed /\ NoRun.tag = "none"
    BY DEF NoRun, RunFields
  <2> QED BY <2>1, <2>2 DEF CelerDeployInit, CelerDeployInv, ContractsKept, RecordsKept, RunFits
<1>2. CelerDeployInv /\ [CelerDeployNext]_celerDeployVars => CelerDeployInv'
  <2> SUFFICES ASSUME CelerDeployInv, [CelerDeployNext]_celerDeployVars PROVE CelerDeployInv'
    OBVIOUS
  <2>0. RunFits
    BY DEF CelerDeployInv
  <2>1. CASE \E t \in Tags : StartDeploy(t)
    <3>1. PICK t \in Tags : StartDeploy(t)
      BY <2>1
    <3>2. /\ deployRun' = [f \in RunFields |-> deployRun'[f]] /\ deployRun'.tag = t
          /\ deployRun'.next = 1 /\ ~deployRun'.completed
          /\ UNCHANGED <<contracts, records, implementations>>
      BY <3>1 DEF StartDeploy, RunFields
    <3>3. Len(StepsOf(t)) \in Nat
      BY TagOrdered DEF Ordered
    <3> QED BY <3>2, <3>3, NothingDeployed DEF RunFits
  <2>2. CASE CompleteDeploy
    <3>1. /\ deployRun' = [f \in RunFields |-> deployRun'[f]] /\ deployRun'.tag = deployRun.tag
          /\ deployRun'.next = deployRun.next /\ deployRun'.env = deployRun.env
          /\ deployRun.tag # "none" /\ deployRun.next > Len(StepsOf(deployRun.tag))
          /\ UNCHANGED <<contracts, records, implementations>>
      BY <2>0, <2>2 DEF CompleteDeploy, RunFits, RunFields
    <3>2. RunFits'
      BY <2>0, <3>1 DEF RunFits, Fits
    <3> QED BY <3>1, <3>2, NothingDeployed
  <2>3. CASE StopDeploy
    <3>1. /\ deployRun' = [f \in RunFields |-> deployRun'[f]] /\ deployRun'.tag = "none"
          /\ ~deployRun'.completed /\ UNCHANGED <<contracts, records, implementations>>
      BY <2>3 DEF StopDeploy, NoRun, RunFields
    <3> QED BY <3>1, NothingDeployed DEF RunFits
  <2>4. CASE (\E g \in Groups : EditEnv(g)) \/ UNCHANGED celerDeployVars
    <3>1. UNCHANGED <<contracts, records, implementations, deployRun>>
      BY <2>4 DEF EditEnv, celerDeployVars
    <3>2. RunFits'
      BY <2>0, <3>1 DEF RunFits, Fits
    <3> QED BY <3>1, <3>2, NothingDeployed
  <2> QED BY <2>1, <2>2, <2>3, <2>4, PlainFits, ProxyFits DEF CelerDeployNext
<1>3. CelerDeployInv => RecordsFitTogether
  <2> SUFFICES ASSUME CelerDeployInv, deployRun.completed,
                      NEW i \in DOMAIN StepsOf(deployRun.tag)
               PROVE  Fits(StepsOf(deployRun.tag)[i])
    BY Zenon DEF RecordsFitTogether, Fits, FitsIn
  <2>1. /\ deployRun.tag \in Tags /\ deployRun.next \in 1..(Len(StepsOf(deployRun.tag)) + 1)
        /\ deployRun.next > Len(StepsOf(deployRun.tag))
        /\ \A j \in 1..(deployRun.next - 1) : Fits(StepsOf(deployRun.tag)[j])
    BY DEF CelerDeployInv, RunFits
  <2>2. Ordered(StepsOf(deployRun.tag))
    BY <2>1, TagOrdered
  <2>3. i \in 1..(deployRun.next - 1)
    BY <2>1, <2>2 DEF Ordered
  <2> QED BY <2>1, <2>3, Zenon
<1> QED BY <1>1, <1>2, <1>3, PTL DEF CelerDeploySpec

------------------------------------------------------------------------------
(* Celer: the Sentinel and the limits. *)

CelerLimitsSpec == CelerLimitsInit /\ [][CelerLimitsNext]_celerVars

\* The Sentinel counts its relaxed guards, and is relaxed when enough are.
SentinelInv ==
  /\ guardStates \in [Operators -> {"none", "guarded", "relaxed"}]
  /\ numRelaxedGuards = Cardinality(RelaxedGuards) /\ relaxThreshold \in Nat
  /\ relaxed <=> numRelaxedGuards >= relaxThreshold

LimitsTyped ==
  /\ DOMAIN limits = Limited
  /\ \A c \in Limited : \A k \in DOMAIN limits[c] : limits[c][k] \in [LimitTokens -> Nat]

CelerLimitsInv == SentinelInv /\ LimitsTyped

------------------------------------------------------------------------------
\* Operators are finitely many, so are the relaxed guards.
LEMMA GuardsFinite ==
  ASSUME NEW S \in SUBSET Operators
  PROVE  IsFiniteSet(S) /\ Cardinality(S) \in Nat
BY CelerLimitsAssumption, FS_Subset, FS_CardinalityType

\* A guard that relaxes, or is a guard again, is counted.
LEMMA GuardsCounted ==
  ASSUME SentinelInv, NEW a \in Operators, Relax(a) \/ GuardAgain(a)
  PROVE  SentinelInv'
<1> DEFINE R == RelaxedGuards
<1>1. R \in SUBSET Operators /\ IsFiniteSet(R) /\ Cardinality(R) \in Nat
  <2>1. R \in SUBSET Operators
    BY DEF RelaxedGuards
  <2> QED BY <2>1, GuardsFinite
<1>2. relaxThreshold' = relaxThreshold /\ relaxed' = (numRelaxedGuards' >= relaxThreshold)
  BY DEF Relax, GuardAgain, UpdateRelaxed
<1>3. CASE Relax(a)
  <2>1. /\ guardStates[a] = "guarded" /\ guardStates' = [guardStates EXCEPT ![a] = "relaxed"]
        /\ numRelaxedGuards' = numRelaxedGuards + 1
    BY <1>3 DEF Relax, SendsNext, Succeeds
  <2>2. RelaxedGuards' = R \cup {a} /\ a \notin R
    BY <2>1 DEF SentinelInv, RelaxedGuards
  <2>3. Cardinality(R \cup {a}) = Cardinality(R) + 1
    BY <1>1, <2>2, FS_AddElement
  <2> QED BY <1>1, <1>2, <2>1, <2>2, <2>3 DEF SentinelInv
<1>4. CASE GuardAgain(a)
  <2>1. /\ guardStates[a] = "relaxed" /\ guardStates' = [guardStates EXCEPT ![a] = "guarded"]
        /\ numRelaxedGuards' = numRelaxedGuards - 1
    BY <1>4 DEF GuardAgain, SendsNext, Succeeds
  <2>2. RelaxedGuards' = R \ {a} /\ a \in R
    BY <2>1 DEF SentinelInv, RelaxedGuards
  <2>3. Cardinality(R \ {a}) = Cardinality(R) - 1
    BY <1>1, <2>2, FS_RemoveElement
  <2> QED BY <1>1, <1>2, <2>1, <2>2, <2>3 DEF SentinelInv
<1> QED BY <1>3, <1>4

\* Guards that are replaced are no longer counted, nor are those that are
\* removed and added at once, which start guarded.
LEMMA GuardsReplaced ==
  ASSUME SentinelInv, NEW add \in SUBSET Operators, NEW remove \in SUBSET Operators,
         NEW n \in 0..Cardinality(Operators), UpdateGuards(add, remove, n)
  PROVE  SentinelInv'
<1> DEFINE R == RelaxedGuards
           left == {a \in Operators : guardStates[a] # "none" /\ a \notin remove}
<1>1. R \in SUBSET Operators /\ IsFiniteSet(R) /\ Cardinality(R) \in Nat
  <2>1. R \in SUBSET Operators
    BY DEF RelaxedGuards
  <2> QED BY <2>1, GuardsFinite
<1>2. /\ add \cap left = {}
      /\ guardStates' = [a \in Operators |-> IF a \in add THEN "guarded"
                                             ELSE IF a \in remove THEN "none" ELSE guardStates[a]]
      /\ numRelaxedGuards' =
           numRelaxedGuards - Cardinality({a \in remove : guardStates[a] = "relaxed"})
      /\ relaxThreshold' = n /\ relaxed' = (numRelaxedGuards' >= n)
  BY DEF UpdateGuards, UpdateRelaxed
<1>3. {a \in remove : guardStates[a] = "relaxed"} = R \cap remove
  BY DEF RelaxedGuards
<1>4. RelaxedGuards' = R \ remove
  BY <1>2 DEF SentinelInv, RelaxedGuards
<1>5. Cardinality(R \ remove) = Cardinality(R) - Cardinality(R \cap remove)
  BY <1>1, FS_Difference
<1>6. guardStates' \in [Operators -> {"none", "guarded", "relaxed"}] /\ n \in Nat
  BY <1>2 DEF SentinelInv
<1> QED BY <1>1, <1>2, <1>3, <1>4, <1>5, <1>6 DEF SentinelInv

\* A transaction sets the limit of kind k of a contract c and a token t to v.
SetTo(v, c, k, t, tx) ==
  /\ c = tx.to /\ k = tx.method
  /\ \E i \in DOMAIN tx.arg.tokens : tx.arg.tokens[i] = t /\ v = tx.arg.amounts[i]

\* Every limit stays a number, whatever is set.
LEMMA WithLimitTyped ==
  ASSUME LimitsTyped, NEW tx, tx.arg \in [tokens : Seq(LimitTokens), amounts : Seq(Nat)],
         Len(tx.arg.tokens) = Len(tx.arg.amounts), limits' = WithLimit(tx)
  PROVE  /\ LimitsTyped' /\ \A c \in Limited : DOMAIN limits'[c] = DOMAIN limits[c]
         /\ \A c \in Limited : \A k \in DOMAIN limits[c] : \A t \in LimitTokens :
              limits'[c][k][t] = limits[c][k][t] \/ SetTo(limits'[c][k][t], c, k, t, tx)
<1> DEFINE old == limits[tx.to][tx.method]
           at(t) == CHOOSE i \in DOMAIN tx.arg.tokens : tx.arg.tokens[i] = t
           new == [t \in LimitTokens |-> IF t \in ToSet(tx.arg.tokens) THEN tx.arg.amounts[at(t)]
                                                                     ELSE old[t]]
<1>1. ASSUME NEW t \in LimitTokens, t \in ToSet(tx.arg.tokens)
      PROVE  /\ at(t) \in DOMAIN tx.arg.tokens /\ tx.arg.tokens[at(t)] = t
             /\ tx.arg.amounts[at(t)] \in Nat
  <2>1. \E i \in DOMAIN tx.arg.tokens : tx.arg.tokens[i] = t
    BY <1>1 DEF ToSet
  <2>2. at(t) \in DOMAIN tx.arg.tokens /\ tx.arg.tokens[at(t)] = t
    BY <2>1
  <2>3. /\ tx.arg.tokens \in Seq(LimitTokens) /\ tx.arg.amounts \in Seq(Nat)
        /\ DOMAIN tx.arg.tokens = DOMAIN tx.arg.amounts
    OBVIOUS
  <2> HIDE DEF at
  <2> QED BY <2>2, <2>3
<1> HIDE DEF at
<1>2. limits' = [limits EXCEPT ![tx.to][tx.method] = new]
  BY DEF WithLimit, at
<1> HIDE DEF new
<1>3. DOMAIN limits' = Limited /\ \A c \in Limited : DOMAIN limits'[c] = DOMAIN limits[c]
  BY <1>2 DEF LimitsTyped
<1>4. \A c \in Limited : \A k \in DOMAIN limits[c] :
        limits'[c][k] = IF c = tx.to /\ k = tx.method THEN new ELSE limits[c][k]
  BY <1>2, <1>3 DEF LimitsTyped
<1>5. ASSUME tx.to \in Limited, tx.method \in DOMAIN limits[tx.to]
      PROVE  new \in [LimitTokens -> Nat]
  BY <1>1, <1>5 DEF LimitsTyped, new
<1>6. LimitsTyped'
  <2>1. ASSUME NEW c \in Limited, NEW k \in DOMAIN limits[c]
        PROVE  limits'[c][k] \in [LimitTokens -> Nat]
    <3>1. CASE c = tx.to /\ k = tx.method
      BY <1>4, <1>5, <3>1
    <3>2. CASE ~(c = tx.to /\ k = tx.method)
      <4>1. limits'[c][k] = limits[c][k]
        BY <1>4, <3>2
      <4> QED BY <4>1 DEF LimitsTyped
    <3> QED BY <3>1, <3>2
  <2> QED BY <1>3, <2>1 DEF LimitsTyped
<1>7. ASSUME NEW t \in LimitTokens
      PROVE  \/ new[t] = old[t]
             \/ \E i \in DOMAIN tx.arg.tokens : /\ tx.arg.tokens[i] = t
                                                /\ new[t] = tx.arg.amounts[i]
  BY <1>1 DEF new
<1> QED BY <1>3, <1>4, <1>6, <1>7 DEF SetTo

\* A method that sets a limit is none of the others.
LEMMA LimitKinds ==
  ASSUME NEW c \in Limited, NEW k \in ToSet(LimitMethods[c])
  PROVE  k \notin {"addPauser", "addGovernor", "set", "transferOwnership", "initGov",
                   "resetSigners", "guard", "relax", "limit"}
<1>1. c \in {"bridge", "vault", "pegBridge"}
  BY DEF Limited, LimitMethods
<1>2. CASE c = "bridge"
  <2>1. LimitMethods[c] = BridgeLimits
    BY <1>2 DEF LimitMethods
  <2> QED BY <2>1 DEF BridgeLimits, ToSet
<1>3. CASE c = "vault"
  <2>1. LimitMethods[c] = OriginalTokenVaultLimits
    BY <1>3 DEF LimitMethods
  <2> QED BY <2>1 DEF OriginalTokenVaultLimits, ToSet
<1>4. CASE c = "pegBridge"
  <2>1. LimitMethods[c] = PeggedTokenBridgeLimits
    BY <1>4 DEF LimitMethods
  <2> QED BY <2>1 DEF PeggedTokenBridgeLimits, ToSet
<1> QED BY <1>1, <1>2, <1>3, <1>4

\* What SentinelHoldsLimits asks of a step.
Held ==
  \A c \in Limited :
    governors[c] = {"sentinel"} /\ Cardinality(RelaxedGuards) < relaxThreshold =>
      \A k \in DOMAIN limits[c], t \in LimitTokens : ~Loosens(k, limits[c][k][t], limits'[c][k][t])

\* A limit set to what it was is not loosened.
LEMMA SameHolds ==
  ASSUME LimitsTyped, limits' = limits
  PROVE  Held
<1> SUFFICES ASSUME NEW c \in Limited, NEW k \in DOMAIN limits[c], NEW t \in LimitTokens
             PROVE  ~Loosens(k, limits[c][k][t], limits'[c][k][t])
  BY DEF Held
<1>1. limits[c][k][t] \in Nat
  BY DEF LimitsTyped
<1> QED BY <1>1 DEF Loosens

\* An operator sets limits directly only as a governor of the contract.
LEMMA DirectlyHeld ==
  ASSUME LimitsTyped, NEW a \in Operators, SetLimit(a)
  PROVE  LimitsTyped' /\ Held
<1>1. PICK tx \in ToSet(scripts[a]) :
        /\ tx.to \in Limited /\ tx.method \in ToSet(LimitMethods[tx.to]) /\ Succeeds(a, tx)
        /\ limits' = WithLimit(tx)
  BY DEF SetLimit, SendsNext
<1>2. MaySetLimit(a, tx)
  BY <1>1, LimitKinds DEF Succeeds
<1>3. /\ LimitsTyped'
      /\ \A c \in Limited : \A k \in DOMAIN limits[c] : \A t \in LimitTokens :
           limits'[c][k][t] = limits[c][k][t] \/ c = tx.to
  BY <1>1, <1>2, WithLimitTyped DEF MaySetLimit, SetTo
<1>4. "sentinel" \notin Operators
  BY CelerLimitsAssumption
<1>5. ASSUME NEW c \in Limited, governors[c] = {"sentinel"},
             NEW k \in DOMAIN limits[c], NEW t \in LimitTokens
      PROVE  ~Loosens(k, limits[c][k][t], limits'[c][k][t])
  <2>1. c # tx.to
    BY <1>2, <1>4, <1>5 DEF MaySetLimit
  <2>2. limits'[c][k][t] = limits[c][k][t] /\ limits[c][k][t] \in Nat
    BY <1>3, <2>1 DEF LimitsTyped
  <2> QED BY <2>2 DEF Loosens
<1> QED BY <1>3, <1>5 DEF Held

\* Through the Sentinel, limits are only tightened before it is relaxed.
LEMMA BySentinelHeld ==
  ASSUME CelerLimitsInv, NEW a \in Operators, SetLimitBySentinel(a)
  PROVE  LimitsTyped' /\ Held
<1>1. PICK tx \in ToSet(scripts[a]) :
        /\ tx.method = "limit" /\ Succeeds(a, tx) /\ limits' = WithLimit(tx.arg)
  BY DEF SetLimitBySentinel, SendsNext
<1> DEFINE l == tx.arg
<1>2. /\ MaySetLimit("sentinel", l)
      /\ relaxed \/ OnlyTightens(l.to, l.method, l.arg)
  BY <1>1 DEF Succeeds
<1> HIDE DEF l
<1>3. limits' = WithLimit(l)
  BY <1>1 DEF l
<1>4. /\ LimitsTyped' /\ \A c \in Limited : DOMAIN limits'[c] = DOMAIN limits[c]
      /\ \A c \in Limited : \A k \in DOMAIN limits[c] : \A t \in LimitTokens :
           limits'[c][k][t] = limits[c][k][t] \/ SetTo(limits'[c][k][t], c, k, t, l)
  BY <1>2, <1>3, WithLimitTyped DEF MaySetLimit, CelerLimitsInv
<1>5. ASSUME NEW c \in Limited, Cardinality(RelaxedGuards) < relaxThreshold,
             NEW k \in DOMAIN limits[c], NEW t \in LimitTokens
      PROVE  ~Loosens(k, limits[c][k][t], limits'[c][k][t])
  <2>1. ~relaxed
    <3>1. RelaxedGuards \in SUBSET Operators
      BY DEF RelaxedGuards
    <3>2. Cardinality(RelaxedGuards) \in Nat
      BY <3>1, GuardsFinite
    <3> QED BY <1>5, <3>2 DEF CelerLimitsInv, SentinelInv
  <2>2. limits[c][k][t] \in Nat
    BY DEF CelerLimitsInv, LimitsTyped
  <2>3. limits'[c][k][t] \in Nat
    <3>1. k \in DOMAIN limits'[c]
      BY <1>4
    <3>2. limits'[c][k] \in [LimitTokens -> Nat]
      BY <1>4, <3>1 DEF LimitsTyped
    <3> QED BY <3>2
  <2>4. CASE limits'[c][k][t] = limits[c][k][t]
    BY <2>2, <2>4 DEF Loosens
  <2>5. CASE limits'[c][k][t] # limits[c][k][t]
    <3>a. SetTo(limits'[c][k][t], c, k, t, l)
      BY <1>4, <2>5
    <3>b. c = l.to /\ k = l.method
      BY <3>a DEF SetTo
    <3>1. PICK i \in DOMAIN l.arg.tokens : l.arg.tokens[i] = t /\ limits'[c][k][t] = l.arg.amounts[i]
      BY <3>a, SMTT(40) DEF SetTo
    <3>2. IF k \in Caps THEN l.arg.amounts[i] < limits[c][k][t]
                        ELSE l.arg.amounts[i] > limits[c][k][t]
      BY <1>2, <2>1, <3>b, <3>1 DEF OnlyTightens
    <3> QED BY <2>2, <2>3, <3>1, <3>2 DEF Loosens
  <2> QED BY <2>4, <2>5
<1> QED BY <1>4, <1>5 DEF Held

\* Whatever scripts, guards and owners do in between, a contract that only the
\* Sentinel governs has its limits tightened and never loosened, until as many
\* guards are relaxed as the threshold asks for.
THEOREM SentinelHolds == CelerLimitsSpec => SentinelHoldsLimits
<1>1. CelerLimitsInit => CelerLimitsInv
  <2> SUFFICES ASSUME CelerLimitsInit PROVE CelerLimitsInv
    OBVIOUS
  <2>1. /\ guardStates = [a \in Operators |-> IF a \in Guards THEN "guarded" ELSE "none"]
        /\ relaxThreshold = Cardinality(Guards) /\ numRelaxedGuards = 0 /\ ~relaxed
    BY DEF CelerLimitsInit
  <2>2. RelaxedGuards = {} /\ Cardinality(RelaxedGuards) = 0
    <3>1. RelaxedGuards = {}
      BY <2>1 DEF RelaxedGuards
    <3> QED BY <3>1, FS_EmptySet
  <2>3. Guards \in SUBSET Operators /\ Guards # {}
    BY CelerLimitsAssumption
  <2>4. Cardinality(Guards) \in Nat /\ Cardinality(Guards) # 0
    BY <2>3, GuardsFinite, FS_EmptySet
  <2>5. SentinelInv
    BY <2>1, <2>2, <2>4 DEF SentinelInv
  <2>6. LimitsTyped
    BY DEF CelerLimitsInit, LimitsTyped
  <2> QED BY <2>5, <2>6 DEF CelerLimitsInv
<1>2. CelerLimitsInv /\ [CelerLimitsNext]_celerVars => CelerLimitsInv' /\ Held
  <2> SUFFICES ASSUME CelerLimitsInv, [CelerLimitsNext]_celerVars PROVE CelerLimitsInv' /\ Held
    OBVIOUS
  <2>0. SentinelInv /\ LimitsTyped
    BY DEF CelerLimitsInv
  <2>1. ASSUME UNCHANGED sentinel PROVE SentinelInv'
    BY <2>0, <2>1 DEF sentinel, SentinelInv, RelaxedGuards
  <2>2. ASSUME UNCHANGED limits PROVE LimitsTyped' /\ Held
    BY <2>0, <2>2, SameHolds DEF LimitsTyped
  <2>3. CASE \E a \in Operators : SetLimit(a) \/ SetLimitBySentinel(a)
    <3>1. UNCHANGED sentinel
      BY <2>3 DEF SetLimit, SetLimitBySentinel
    <3> QED BY <2>0, <2>1, <2>3, <3>1, DirectlyHeld, BySentinelHeld DEF CelerLimitsInv
  <2>4. CASE \/ \E a \in Operators : GuardAgain(a) \/ Relax(a)
             \/ \E add, remove \in SUBSET Operators, n \in 0..Cardinality(Operators) :
                  UpdateGuards(add, remove, n)
    <3>1. UNCHANGED limits
      BY <2>4 DEF GuardAgain, Relax, UpdateGuards
    <3>2. SentinelInv'
      BY <2>0, <2>4, GuardsCounted, GuardsReplaced
    <3> QED BY <2>2, <3>1, <3>2 DEF CelerLimitsInv
  <2>5. CASE \/ \E a \in Operators :
                  \/ RunAny(a) \/ Abandon(a)
                  \/ AddPauser(a) \/ AddGovernor(a) \/ SetValue(a) \/ HandOver(a)
                  \/ InitGovernance(a) \/ ResetBridgeSigners(a)
             \/ \E a \in Operators, c \in DOMAIN governors : Renounce(a, c)
             \/ NotifyReset \/ UNCHANGED celerVars
    <3>1. UNCHANGED <<limits, sentinel>>
      BY <2>5 DEF RunAny, RunScript, Abandon, AddPauser, AddGovernor, SetValue, HandOver,
                  InitGovernance, ResetBridgeSigners, Renounce, NotifyReset, celerVars
    <3> QED BY <2>1, <2>2, <3>1 DEF CelerLimitsInv
  <2> QED BY <2>3, <2>4, <2>5 DEF CelerLimitsNext
<1>3. SentinelHoldsLimits <=> [][Held]_celerVars
  BY DEF SentinelHoldsLimits, Held
<1> QED BY <1>1, <1>2, <1>3, PTL DEF CelerLimitsSpec

------------------------------------------------------------------------------
(* Across: claiming messages by hand. *)

ClaimsSpec == ClaimsInit /\ [][ClaimsNext]_claimVars

\* The fields of a script.
IsClaim(c) ==
  c = [kind |-> c.kind, lookback |-> c.lookback, span |-> c.span, phase |-> c.phase,
       from |-> c.from, found |-> c.found, queue |-> c.queue]

\* While a script asks for events it has found all those of the blocks before
\* the next range; from then on, what it answers for waits, or is dealt with.
\* The window of a script that reads events begins at its lookback; the ranges
\* leave no block of it out, wherever they are cut.
ClaimsInv ==
  /\ IsClaim(claim)
  /\ claim.phase \in {"idle", "collect", "attest", "claim", "done"}
  /\ claim.lookback \in Nat /\ claim.span \in Nat /\ claim.from \in Int
  /\ claim.phase = "collect" => EventsIn(Latest - claim.lookback, claim.from - 1) \subseteq claim.found
  /\ claim.phase \in {"attest", "claim", "done"} =>
       AnswersFor(claim) \subseteq claimed \cup failed \cup claim.queue
  /\ claim.phase = "done" => claim.queue = {}

\* The numbers: the newest block, windows and spans.
LEMMA ClaimNumbers ==
  /\ Latest \in Nat /\ Lookbacks \subseteq Nat /\ Spans \subseteq Nat
  /\ \A i \in DOMAIN Sent : Sent[i].block \in Nat
BY ClaimsAssumption

\* A script that starts has nothing found and nothing to claim.
LEMMA NewClaimFields ==
  ASSUME NEW kind, NEW lookback, NEW span, NEW phase
  PROVE  LET c == NewClaim(kind, lookback, span, phase)
         IN  /\ IsClaim(c) /\ c.kind = kind /\ c.lookback = lookback /\ c.span = span
             /\ c.phase = phase /\ c.from = Latest - lookback /\ c.found = {} /\ c.queue = {}
BY DEF NewClaim, IsClaim

\* Two ranges next to each other leave no block between them out.
LEMMA RangesJoin ==
  ASSUME NEW first \in Int, NEW from \in Int, NEW to \in Int
  PROVE  EventsIn(first, to) \subseteq EventsIn(first, from - 1) \cup EventsIn(from, to)
BY ClaimNumbers DEF EventsIn

\* The invariant survives a query for one range of blocks.
LEMMA QueryKeepsClaims ==
  ASSUME ClaimsInv, QueryEvents
  PROVE  ClaimsInv'
<1> DEFINE events == EventsIn(claim.from, ToBlock)
<1>1. ToBlock \in Int
  BY ClaimNumbers DEF ClaimsInv, ToBlock
<1>2. claim' = [claim EXCEPT !.found = @ \cup events, !.from = ToBlock + 1]
  BY DEF QueryEvents
<1> HIDE DEF events
<1>3. /\ IsClaim(claim') /\ claim'.kind = claim.kind /\ claim'.lookback = claim.lookback
      /\ claim'.span = claim.span /\ claim'.phase = "collect" /\ claim'.queue = claim.queue
      /\ claim'.found = claim.found \cup events /\ claim'.from = ToBlock + 1
  BY <1>2 DEF ClaimsInv, IsClaim, QueryEvents
<1>4. EventsIn(Latest - claim.lookback, ToBlock) \subseteq claim.found \cup events
  <2>1. EventsIn(Latest - claim.lookback, claim.from - 1) \subseteq claim.found
    BY DEF ClaimsInv, QueryEvents
  <2>2. Latest - claim.lookback \in Int /\ claim.from \in Int
    BY ClaimNumbers DEF ClaimsInv
  <2> QED BY <1>1, <2>1, <2>2, RangesJoin DEF events
<1>5. claim'.from - 1 = ToBlock /\ claim'.from \in Int
  BY <1>1, <1>3
<1> QED BY <1>3, <1>4, <1>5 DEF ClaimsInv

\* The invariant survives the collection: what a script answers for has its
\* event in a block of the window, and that was found.
LEMMA CollectKeepsClaims ==
  ASSUME ClaimsInv, Collect
  PROVE  ClaimsInv'
<1> DEFINE queue == Collected(claim)
           phase == IF claim.kind = "cctp" THEN "attest" ELSE "claim"
<1>1. claim' = [claim EXCEPT !.queue = queue, !.phase = phase] /\ UNCHANGED <<claimed, failed>>
  BY DEF Collect
<1>2. phase \in {"attest", "claim"}
  OBVIOUS
<1>3. AnswersFor(claim) \subseteq queue
  <2> SUFFICES ASSUME NEW i \in AnswersFor(claim) PROVE i \in queue
    OBVIOUS
  <2>1. /\ i \in DOMAIN Sent /\ claim.kind \in {"cctp", "linea"}
        /\ Sent[i].block \in (Latest - claim.lookback)..(Latest - 1)
        /\ claim.kind = "cctp" => Sent[i].first
    BY DEF AnswersFor
  <2>2. claim.from >= Latest /\ claim.from \in Int /\ claim.lookback \in Nat
        /\ EventsIn(Latest - claim.lookback, claim.from - 1) \subseteq claim.found
    BY <2>1 DEF Collect, Looks, ClaimsInv
  <2>3. i \in claim.found
    BY <2>1, <2>2, ClaimNumbers DEF EventsIn
  <2>4. Sent[i].tx \in Transactions(claim.found)
    BY <2>3 DEF Transactions
  <2>5. CASE claim.kind = "cctp"
    BY <2>1, <2>4, <2>5 DEF Collected, FirstMessages
  <2>6. CASE claim.kind = "linea"
    BY <2>1, <2>4, <2>6 DEF Collected, MessagesOf
  <2> QED BY <2>1, <2>5, <2>6
<1> HIDE DEF queue, phase
<1>4. /\ IsClaim(claim') /\ claim'.kind = claim.kind /\ claim'.lookback = claim.lookback
      /\ claim'.span = claim.span /\ claim'.phase = phase /\ claim'.queue = queue
      /\ claim'.found = claim.found /\ claim'.from = claim.from
  BY <1>1 DEF ClaimsInv, IsClaim
<1>5. AnswersFor(claim') = AnswersFor(claim)
  BY <1>4 DEF AnswersFor
<1> QED BY <1>1, <1>2, <1>3, <1>4, <1>5 DEF ClaimsInv

\* The invariant survives a message that leaves the queue for what was claimed
\* or what failed.
LEMMA PassKeepsClaims ==
  ASSUME ClaimsInv, claim.phase = "claim", Pass,
         claimed \subseteq claimed', failed \subseteq failed', Message \in claimed' \cup failed'
  PROVE  ClaimsInv'
<1> DEFINE queue == claim.queue \ {Message}
<1>1. claim' = [claim EXCEPT !.queue = queue]
  BY DEF Pass
<1>2. claim.queue \subseteq queue \cup {Message}
  OBVIOUS
<1> HIDE DEF queue
<1>3. /\ IsClaim(claim') /\ claim'.kind = claim.kind /\ claim'.lookback = claim.lookback
      /\ claim'.span = claim.span /\ claim'.phase = "claim" /\ claim'.queue = queue
      /\ claim'.found = claim.found /\ claim'.from = claim.from
  BY <1>1 DEF ClaimsInv, IsClaim
<1>4. AnswersFor(claim') = AnswersFor(claim)
  BY <1>3 DEF AnswersFor
<1> QED BY <1>2, <1>3, <1>4 DEF ClaimsInv

\* The invariant survives a change of phase that leaves the queue as it is.
LEMMA PhaseKeepsClaims ==
  ASSUME ClaimsInv, NEW phase \in {"claim", "done"},
         claim.phase \in {"attest", "claim"}, claim' = [claim EXCEPT !.phase = phase],
         phase = "done" => claim.queue = {}, UNCHANGED <<claimed, failed>>
  PROVE  ClaimsInv'
<1>1. /\ IsClaim(claim') /\ claim'.kind = claim.kind /\ claim'.lookback = claim.lookback
      /\ claim'.span = claim.span /\ claim'.phase = phase /\ claim'.queue = claim.queue
      /\ claim'.found = claim.found /\ claim'.from = claim.from
  BY DEF ClaimsInv, IsClaim
<1>2. AnswersFor(claim') = AnswersFor(claim)
  BY <1>1 DEF AnswersFor
<1> QED BY <1>1, <1>2 DEF ClaimsInv

\* A script that reads events forgets none it answers for: for any messages,
\* blocks, windows and spans, whatever arrives late, fails or is claimed by
\* others, when the script ends each message of its window was claimed or failed
\* on its own, but for those of the newest block, which the last range may leave
\* out, and on CCTP all but the first of a transaction (logs.find).
THEOREM NothingForgotten == ClaimsSpec => []NoMessageForgotten
<1>1. ClaimsInit => ClaimsInv
  <2> SUFFICES ASSUME ClaimsInit PROVE ClaimsInv
    OBVIOUS
  <2>1. /\ IsClaim(claim) /\ claim.phase = "idle" /\ claim.lookback = 0 /\ claim.span = 0
        /\ claim.from = Latest - 0
    BY NewClaimFields DEF ClaimsInit, NoClaim
  <2> QED BY <2>1, ClaimNumbers DEF ClaimsInv
<1>2. ClaimsInv /\ [ClaimsNext]_claimVars => ClaimsInv'
  <2> SUFFICES ASSUME ClaimsInv, [ClaimsNext]_claimVars PROVE ClaimsInv'
    OBVIOUS
  <2>1. ASSUME UNCHANGED claim, claimed \subseteq claimed', failed \subseteq failed' PROVE ClaimsInv'
    BY <2>1 DEF ClaimsInv
  <2>2. CASE UNCHANGED claimVars
    BY <2>1, <2>2 DEF claimVars
  <2>3. ASSUME NEW kind \in Kinds, NEW lookback \in Lookbacks, NEW span \in Spans,
               Run(kind, lookback, span)
        PROVE  ClaimsInv'
    <3>1. /\ IsClaim(claim') /\ claim'.phase = "collect" /\ claim'.lookback = lookback
          /\ claim'.span = span /\ claim'.from = Latest - lookback /\ claim'.found = {}
      BY <2>3, NewClaimFields DEF Run
    <3>2. lookback \in Nat /\ span \in Nat
      BY ClaimNumbers
    <3>3. EventsIn(Latest - lookback, (Latest - lookback) - 1) = {}
      BY <3>2, ClaimNumbers DEF EventsIn
    <3> QED BY <3>1, <3>2, <3>3, ClaimNumbers DEF ClaimsInv
  <2>4. CASE RequestAttestations
    BY <2>4, PhaseKeepsClaims DEF RequestAttestations
  <2>5. CASE SkipClaimed
    BY <2>5, PassKeepsClaims DEF SkipClaimed
  <2>6. CASE Claim
    BY <2>6, PassKeepsClaims DEF Claim, MayClaim
  <2>7. CASE Fail
    BY <2>7, PassKeepsClaims DEF Fail, MayClaim
  <2>8. CASE Finish
    BY <2>8, PhaseKeepsClaims DEF Finish
  <2>9. ASSUME NEW i \in DOMAIN Sent, Arrive(i) \/ ClaimedByOther(i) PROVE ClaimsInv'
    BY <2>1, <2>9 DEF Arrive, ClaimedByOther
  <2> QED BY <2>2, <2>3, <2>4, <2>5, <2>6, <2>7, <2>8, <2>9, QueryKeepsClaims, CollectKeepsClaims
        DEF ClaimsNext
<1>3. ClaimsInv => NoMessageForgotten
  BY DEF ClaimsInv, NoMessageForgotten
<1> QED BY <1>1, <1>2, <1>3, PTL DEF ClaimsSpec

------------------------------------------------------------------------------
(* Across: the deployment scripts. *)

\* How the contracts of a chain move USDC, but for those that differ.
UsdcOf(n) ==
  IF n = "linea" THEN "cctpV2"
  ELSE IF n \in {"lens", "lens-sepolia"} THEN "zkBridge"
  ELSE IF n \in {"lisk", "lisk-sepolia", "ink", "soneium", "worldchain"} THEN "opUsdc"
  ELSE IF n \in {"bsc", "tatara"} THEN "none"
  ELSE IF n \in {"optimism", "optimism-sepolia", "base", "base-sepolia", "unichain",
                 "unichain-sepolia", "arbitrum", "arbitrum-sepolia", "polygon", "polygon-amoy"}
       THEN "cctp" ELSE "canonical"
Differs(s) == s.contract = "Lisk_Adapter" \/ s.contract = "Ink_SpokePool"

\* The contract is one of the two ends that have to agree.
IsEnd(s) ==
  \/ IsSpokePool(s) /\ s.valid
  \/ /\ s.on = "hub" /\ s.serves \intersect {"mainnet", "sepolia"} = {}
     /\ s.usdc # "none"

Consistent(s) ==
  /\ \A n \in s.serves :
       n # "none" /\ (IsEnd(s) => s.usdc = IF Differs(s) THEN "canonical" ELSE UsdcOf(n))
  /\ Differs(s) => IF s.on = "hub" THEN s.serves = {"lisk"} ELSE s.serves = {"ink"}
  /\ s.contract = "Lisk_Adapter" => s.on = "hub"
  /\ s.contract = "Ink_SpokePool" => s.on = "spoke"

\* No script of the hub chain, or for Ethereum and Solana, is an end that differs.
LEMMA HubScriptsConsistent ==
  \A s \in {HubPoolScript, EthereumAdapter, EthereumSpokePool, ConfigStore, MerkleDistributor,
            BondTokenScript, HubPoolStore, MintableERC1155, DonationBox, Multicall3,
            Multicallhandler, SpokePoolVerifier, UpgradeSpokePool, SolanaAdapter} : Consistent(s)
<1>. USE DEF Consistent, Differs, IsEnd, IsSpokePool, Plain, OnHub, UsdcOf
<1>1. Consistent(HubPoolScript)
  BY DEF HubPoolScript, Networks, OnMainnet, OnSepolia
<1>2. Consistent(EthereumAdapter) /\ Consistent(ConfigStore) /\ Consistent(MerkleDistributor)
      /\ Consistent(BondTokenScript) /\ Consistent(HubPoolStore) /\ Consistent(MintableERC1155)
  BY DEF EthereumAdapter, ConfigStore, MerkleDistributor, BondTokenScript, HubPoolStore,
         MintableERC1155
<1>3. Consistent(DonationBox) /\ Consistent(Multicall3) /\ Consistent(Multicallhandler)
      /\ Consistent(SpokePoolVerifier) /\ Consistent(UpgradeSpokePool)
  BY DEF DonationBox, Multicall3, Multicallhandler, SpokePoolVerifier, UpgradeSpokePool
<1>4. Consistent(EthereumSpokePool) /\ Consistent(SolanaAdapter)
  BY DEF EthereumSpokePool, SpokePool, SolanaAdapter, CctpAdapter
<1>. HIDE DEF Consistent
<1>. QED  BY <1>1, <1>2, <1>3, <1>4

\* The scripts for chains of the OP stack agree on how USDC crosses.
LEMMA OpStackScriptsConsistent ==
  \A s \in {OptimismAdapter, OptimismSpokePool, BaseAdapter, BaseSpokePool, BobaAdapter,
            BobaSpokePool, ModeAdapter, ModeSpokePool, LiskAdapter, LiskSpokePool, RedstoneAdapter,
            RedstoneSpokePool, ZoraAdapter, ZoraSpokePool, WorldChainAdapter, WorldChainSpokePool,
            InkSpokePool, CherSpokePool, DoctorWhoSpokePool, DoctorWhoAdapter("unichain"),
            DoctorWhoAdapter("unichain-sepolia"), BlastAdapter, BlastSpokePool,
            BlastDaiRetriever, BlastRescueAdapter}
           \cup {OpAdapter(n) : n \in {"ink", "lisk", "soneium", "worldchain"}} : Consistent(s)
<1>. USE DEF Consistent, Differs, IsEnd, IsSpokePool, Plain, OnHub, CanonicalAdapter, OpStackAdapter,
             SpokePool, OpUsdcSpokePool, UsdcOf
<1>1. Consistent(OptimismAdapter) /\ Consistent(BaseAdapter)
      /\ Consistent(DoctorWhoAdapter("unichain")) /\ Consistent(DoctorWhoAdapter("unichain-sepolia"))
  BY DEF OptimismAdapter, BaseAdapter, DoctorWhoAdapter, CctpAdapter
<1>2. Consistent(OptimismSpokePool) /\ Consistent(BaseSpokePool) /\ Consistent(DoctorWhoSpokePool)
  BY DEF OptimismSpokePool, BaseSpokePool, DoctorWhoSpokePool, CctpSpokePool
<1>3. Consistent(BobaAdapter) /\ Consistent(ModeAdapter) /\ Consistent(LiskAdapter)
      /\ Consistent(RedstoneAdapter) /\ Consistent(ZoraAdapter) /\ Consistent(WorldChainAdapter)
  BY DEF BobaAdapter, ModeAdapter, LiskAdapter, RedstoneAdapter, ZoraAdapter, WorldChainAdapter
<1>4. Consistent(BobaSpokePool) /\ Consistent(ModeSpokePool) /\ Consistent(LiskSpokePool)
      /\ Consistent(RedstoneSpokePool) /\ Consistent(ZoraSpokePool) /\ Consistent(WorldChainSpokePool)
      /\ Consistent(InkSpokePool) /\ Consistent(CherSpokePool)
  BY DEF BobaSpokePool, ModeSpokePool, LiskSpokePool, RedstoneSpokePool, ZoraSpokePool,
         WorldChainSpokePool, InkSpokePool, CherSpokePool
<1>5. \A n \in {"ink", "lisk", "soneium", "worldchain"} : Consistent(OpAdapter(n))
  BY DEF OpAdapter
<1>6. Consistent(BlastAdapter) /\ Consistent(BlastSpokePool) /\ Consistent(BlastDaiRetriever)
      /\ Consistent(BlastRescueAdapter)
  BY DEF BlastAdapter, BlastSpokePool, BlastDaiRetriever, BlastRescueAdapter
<1>. HIDE DEF Consistent
<1>. QED  BY <1>1, <1>2, <1>3, <1>4, <1>5, <1>6

\* So do those for Orbit chains, Polygon, Scroll, Linea and Tatara, and the periphery.
LEMMA OtherScriptsConsistent ==
  \A s \in {ArbitrumAdapter, ArbitrumSpokePool, ArbitrumRescueAdapter, ArbitrumSendTokensAdapter,
            AlephZeroAdapter, AlephZeroSpokePool, PolygonTokenBridgerL1, PolygonAdapter,
            PolygonTokenBridgerL2, PolygonSpokePool, PolygonZkEvmAdapter, PolygonZkEvmSpokePool,
            ScrollAdapter, ScrollSpokePool, LineaAdapter, LineaSpokePool, TataraSpokePool,
            UniswapSwapAndBridge, UniswapUniversalSwapAndBridge, OneInchSwapAndBridge,
            OneInchUniversalSwapAndBridge} : Consistent(s)
<1>. USE DEF Consistent, Differs, IsEnd, IsSpokePool, Plain, OnHub, CanonicalAdapter, SpokePool, UsdcOf
<1>1. Consistent(ArbitrumAdapter) /\ Consistent(ArbitrumSpokePool)
      /\ Consistent(PolygonAdapter) /\ Consistent(PolygonSpokePool)
  BY DEF ArbitrumAdapter, ArbitrumSpokePool, PolygonAdapter, PolygonSpokePool, CctpAdapter,
         CctpSpokePool
<1>2. Consistent(ArbitrumRescueAdapter) /\ Consistent(ArbitrumSendTokensAdapter)
      /\ Consistent(AlephZeroAdapter) /\ Consistent(AlephZeroSpokePool)
  BY DEF ArbitrumRescueAdapter, ArbitrumSendTokensAdapter, AlephZeroAdapter, AlephZeroSpokePool
<1>3. Consistent(PolygonTokenBridgerL1) /\ Consistent(PolygonTokenBridgerL2)
      /\ Consistent(PolygonZkEvmAdapter) /\ Consistent(PolygonZkEvmSpokePool)
  BY DEF PolygonTokenBridgerL1, PolygonTokenBridgerL2, PolygonZkEvmAdapter, PolygonZkEvmSpokePool
<1>4. Consistent(ScrollAdapter) /\ Consistent(ScrollSpokePool) /\ Consistent(LineaAdapter)
      /\ Consistent(LineaSpokePool) /\ Consistent(TataraSpokePool)
  BY DEF ScrollAdapter, ScrollSpokePool, LineaAdapter, LineaSpokePool, TataraSpokePool
<1>5. Consistent(UniswapSwapAndBridge) /\ Consistent(UniswapUniversalSwapAndBridge)
      /\ Consistent(OneInchSwapAndBridge) /\ Consistent(OneInchUniversalSwapAndBridge)
  <2>1. ASSUME NEW contract, NEW l2,
               contract \notin {"Tatara_SpokePool", "Lisk_Adapter", "Ink_SpokePool"}
        PROVE  Consistent(Periphery(contract, l2))
    <3>1. /\ Periphery(contract, l2).contract = contract
          /\ Periphery(contract, l2).on = "spoke"
          /\ Periphery(contract, l2).after = {"recorded SpokePool"}
          /\ "none" \notin Periphery(contract, l2).serves
      BY DEF Periphery
    <3>2. TataraSpokePool.contract = "Tatara_SpokePool"
      BY DEF TataraSpokePool
    <3>3. ~ IsEnd(Periphery(contract, l2))
      BY <2>1, <3>1, <3>2 DEF IsEnd, IsSpokePool
    <3>4. ~ Differs(Periphery(contract, l2))
      BY <2>1, <3>1 DEF Differs
    <3>. HIDE DEF Differs, IsEnd, Periphery
    <3>. QED  BY <2>1, <3>1, <3>3, <3>4 DEF Consistent
  <2>. HIDE DEF Consistent, IsEnd, IsSpokePool, Differs
  <2>. QED  BY <2>1 DEF UniswapSwapAndBridge, UniswapUniversalSwapAndBridge, OneInchSwapAndBridge,
                        OneInchUniversalSwapAndBridge
<1>. HIDE DEF Consistent
<1>. QED  BY <1>1, <1>2, <1>3, <1>4, <1>5

\* The scripts that look an address up in the map of their chain.
LEMMA LookupScriptsConsistent ==
  ASSUME "bsc" \notin CctpDomains
  PROVE  \A s \in {ZkSyncAdapter, ZkSyncSpokePool, ZkStackCustomGasTokenAdapter, ZkStackAdapter,
                   MulticallHandlerZk, SpokePoolVerifierZk, LensSpokePool("lens"),
                   LensSpokePool("lens-sepolia"), UniversalAdapter("bsc"),
                   UniversalSpokePool("bsc")} : Consistent(s)
<1>. USE DEF Consistent, Differs, IsEnd, IsSpokePool, Plain, OnHub, CanonicalAdapter, SpokePool, UsdcOf
<1>1. Consistent(ZkSyncAdapter)
  BY DEF ZkSyncAdapter
<1>2. Consistent(ZkStackCustomGasTokenAdapter) /\ Consistent(ZkStackAdapter)
  BY DEF ZkStackCustomGasTokenAdapter, ZkStackAdapter
<1>3. Consistent(MulticallHandlerZk) /\ Consistent(SpokePoolVerifierZk)
  <2>1. TataraSpokePool.contract = "Tatara_SpokePool"
    BY DEF TataraSpokePool
  <2>2. /\ MulticallHandlerZk.contract # "Tatara_SpokePool"
        /\ SpokePoolVerifierZk.contract # "Tatara_SpokePool"
    BY DEF MulticallHandlerZk, SpokePoolVerifierZk
  <2>. QED  BY <2>1, <2>2 DEF MulticallHandlerZk, SpokePoolVerifierZk
<1>4. /\ L2AddressMap("lens") = {"zkErc20Bridge", "zkUSDCBridge", "cctpTokenMessenger = 0"}
      /\ L2AddressMap("lens-sepolia") = {"zkErc20Bridge"}
      /\ L2AddressMap("zksync") = {"zkErc20Bridge", "cctpTokenMessenger = 0", "1inchV6Router"}
      /\ L2AddressMap("bsc") = {"helios"}
  BY DEF L2AddressMap
<1>5. Consistent(LensSpokePool("lens")) /\ Consistent(LensSpokePool("lens-sepolia"))
      /\ Consistent(ZkSyncSpokePool)
  BY <1>4 DEF LensSpokePool, ZkSyncSpokePool, ZkSpokePool
<1>6. Consistent(UniversalAdapter("bsc")) /\ Consistent(UniversalSpokePool("bsc"))
  BY <1>4 DEF UniversalAdapter, UniversalSpokePool
<1>. HIDE DEF Consistent
<1>. QED  BY <1>1, <1>2, <1>3, <1>5, <1>6

\* All that is deployed is of one chain, and its arguments were defined.
DeployInv ==
  \A s \in deployed : network \in s.serves /\ s.valid /\ Consistent(s)

\* So do all scripts, if BNB Smart Chain, which has no messenger, has no CCTP domain.
LEMMA ScriptsConsistent ==
  ASSUME "bsc" \notin CctpDomains
  PROVE  \A s \in Scripts : Consistent(s)
BY HubScriptsConsistent, OpStackScriptsConsistent, OtherScriptsConsistent,
   LookupScriptsConsistent DEF Scripts

\* No script adds a contract of another chain, or one whose arguments are missing.
LEMMA DeployStepInv ==
  ASSUME "bsc" \notin CctpDomains, DeployInv, [DeployNext]_deployVars
  PROVE  DeployInv'
<1>1. ASSUME NEW n \in Rollouts, Rollout(n)
      PROVE  DeployInv'
  BY <1>1 DEF Rollout, DeployInv, Consistent
<1>2. ASSUME NEW s \in Scripts, DeployContract(s) \/ DeployNewProxy(s)
      PROVE  DeployInv'
  <2>1. network \in s.serves /\ s.valid /\ Consistent(s)
    BY <1>2, ScriptsConsistent DEF DeployContract, DeployNewProxy, Defined
  <2>2. deployed' = deployed \cup {s} /\ network' = network
    BY <1>2 DEF DeployContract, DeployNewProxy
  <2>. QED  BY <2>1, <2>2 DEF DeployInv, Consistent, IsEnd, IsSpokePool
<1>3. CASE Record
  BY <1>3 DEF Record, DeployInv
<1>4. CASE UNCHANGED deployVars
  BY <1>4 DEF deployVars, DeployInv
<1>. QED  BY <1>1, <1>2, <1>3, <1>4 DEF DeployNext

\* The adapter and the SpokePool of a chain agree on how USDC crosses, but for
\* Lisk_Adapter and Ink_SpokePool, which differ from the other end, whichever
\* networks are rolled out and whatever is recorded of them: SidesAgreeOnUsdc.
THEOREM UsdcAgreed ==
  ASSUME "bsc" \notin CctpDomains
  PROVE  DeploySpec => []SidesAgreeOnUsdc
<1>1. DeployInit => DeployInv
  BY DEF DeployInit, DeployInv
<1>2. ASSUME DeployInv, NEW a \in Adapters, NEW s \in deployed, IsSpokePool(s), a.usdc # "none"
      PROVE  a.usdc = s.usdc <=> ~ (a.contract = "Lisk_Adapter" \/ s.contract = "Ink_SpokePool")
  <2>1. /\ network \in a.serves /\ Consistent(a) /\ a.on = "hub" /\ IsEnd(a)
        /\ network \in s.serves /\ Consistent(s) /\ s.on = "spoke" /\ IsEnd(s)
    BY <1>2 DEF DeployInv, Adapters, IsEnd, IsSpokePool
  <2>2. /\ a.contract # "Ink_SpokePool" /\ s.contract # "Lisk_Adapter"
        /\ Differs(a) => network = "lisk"
        /\ Differs(s) => network = "ink"
    BY <2>1 DEF Consistent
  <2>3. /\ a.usdc = IF Differs(a) THEN "canonical" ELSE UsdcOf(network)
        /\ s.usdc = IF Differs(s) THEN "canonical" ELSE UsdcOf(network)
    BY <2>1 DEF Consistent
  <2>4. UsdcOf("lisk") = "opUsdc" /\ UsdcOf("ink") = "opUsdc"
    BY DEF UsdcOf
  <2>. QED  BY <2>2, <2>3, <2>4 DEF Differs
<1>3. DeployInv => SidesAgreeOnUsdc
  BY <1>2 DEF SidesAgreeOnUsdc
<1>. QED  BY <1>1, <1>3, DeployStepInv, PTL DEF DeploySpec

==============================================================================
