------------------------------ MODULE HubPool ------------------------------
(***************************************************************************)
(* Across: the HubPool of L1.  Liquidity providers lend it L1 tokens, data *)
(* workers propose bundles of rebalances against a bond, anybody may       *)
(* dispute a bundle while its challenge period lasts, and afterwards the   *)
(* bundle is executed leaf by leaf: tokens go to the SpokePools and the    *)
(* fees of the bundle are booked.  What comes back from the SpokePools     *)
(* over the canonical bridges is found by comparing balances (_sync).      *)
(***************************************************************************)
EXTENDS Integers, Sequences, FiniteSets

CONSTANTS
  Token,                  \* L1 tokens
  Chain,                  \* chains with a SpokePool
  Worker,                 \* data workers
  Bundle,                 \* the root bundles that may be proposed
  NoBundle, NoWorker,     \* the zero values of a deleted proposal
  ONE,                    \* the fixed-point unit, 1e18 in the code
  lpFeeRatePerSecond,     \* in ONE-ths
  InitialBond,            \* bondToken and bondAmount once set
  DefaultLiveness,
  FinalFees,              \* what UMA's Store may charge for a request
  Bonds, Livenesses, FeePcts,     \* what the owner may set
  RouteChanges, ChainChanges,     \* routes and chains the owner may toggle
  LpAmounts, Haircuts, Returns,   \* amounts that calls and bridges bring
  MaxLp, MaxHeld, MaxGifts, MaxProposals, MaxTime     \* bounds

LeafId == 0 .. 255

\* PoolRebalanceLeaf: what one call of executeRootBundle does on one chain.
PoolRebalanceLeaf ==
  [ leafId : LeafId, chain : Chain, l1Tokens : SUBSET Token,
    netSendAmounts : [Token -> Int], bundleLpFees : [Token -> Nat] ]

BondTerms == [token : Token, amount : Nat]

ASSUME HubAssumption ==
  /\ \A b \in Bundle :
       b.leafCount \in Nat \ {0} /\ b.leaves \subseteq PoolRebalanceLeaf
  /\ NoBundle \notin Bundle /\ NoWorker \notin Worker
  /\ ONE \in Nat \ {0} /\ lpFeeRatePerSecond \in Nat
  /\ InitialBond \in BondTerms /\ Bonds \subseteq BondTerms
  /\ \A b \in Bonds : b.amount > 0
  /\ FinalFees \subseteq Nat
  /\ DefaultLiveness \in Nat /\ Livenesses \subseteq Nat
  /\ FeePcts \subseteq 0 .. ONE
  /\ RouteChanges \subseteq Token \X Chain /\ ChainChanges \subseteq Chain
  /\ LpAmounts \subseteq Nat \ {0} /\ Returns \subseteq Nat \ {0}
  /\ Haircuts \subseteq Int
  /\ {MaxLp, MaxHeld, MaxGifts, MaxProposals, MaxTime} \subseteq Nat

VARIABLES
  now,                    \* getCurrentTime()
  paused,
  rootBundleProposal,
  pooledTokens,           \* token -> PooledToken
  unclaimedAccumulatedProtocolFees,   \* token -> amount
  protocolFeeCapturePct,
  bond,                   \* bondToken and bondAmount
  liveness,
  poolRebalanceRoutes,    \* routes with a destination token
  crossChainContracts,    \* chains with an adapter and a SpokePool
  held,                   \* token -> balanceOf(HubPool)
  outstanding,            \* token -> what the SpokePools still owe (history)
  paidAhead,              \* token -> fees claimed less tokens arrived, since _sync
                          \* last took up the balance (history)
  proposals               \* what became of each proposal (history)

configVars == <<paused, protocolFeeCapturePct, liveness, poolRebalanceRoutes,
                crossChainContracts>>
poolVars == <<pooledTokens, held, outstanding, paidAhead,
              unclaimedAccumulatedProtocolFees>>
bundleVars == <<rootBundleProposal, bond, proposals>>
vars == <<now, configVars, poolVars, bundleVars>>

NoProposal ==
  [ bundle |-> NoBundle, proposer |-> NoWorker, unclaimedPoolRebalanceLeafCount |-> 0,
    claimedBitMap |-> {}, challengePeriodEndTimestamp |-> 0 ]

ActiveRequest == rootBundleProposal.unclaimedPoolRebalanceLeafCount # 0

\* The bond that is in the contract's balance of t.
BondHeld(t) == IF ActiveRequest /\ t = bond.token THEN bond.amount ELSE 0
-----------------------------------------------------------------------------
(* The state of a pool as _exchangeRateCurrent leaves it. *)

\* Mutated: without the minimum.
AccumulatedFeesUncapped(p) ==
  (p.undistributedLpFees * lpFeeRatePerSecond * (now - p.lastLpFeeUpdate)) \div ONE

AccumulatedFees(p) ==
  LET due == (p.undistributedLpFees * lpFeeRatePerSecond * (now - p.lastLpFeeUpdate))
               \div ONE
  IN  IF due < p.undistributedLpFees THEN due ELSE p.undistributedLpFees

UpdateAccumulatedLpFees(p) ==
  [p EXCEPT !.undistributedLpFees = @ - AccumulatedFees(p), !.lastLpFeeUpdate = now]

\* Mutated: the bond counts as liquidity.
SyncWithBond(t, p) ==
  IF held[t] > p.liquidReserves
  THEN [p EXCEPT !.utilizedReserves = @ - (held[t] - p.liquidReserves),
                 !.liquidReserves = held[t]]
  ELSE p

\* What a balance above the liquid reserves shows to have come back is no
\* longer utilized.
Sync(t, p) ==
  LET balanceSansBond == held[t] - BondHeld(t)
  IN  IF balanceSansBond > p.liquidReserves
      THEN [p EXCEPT !.utilizedReserves = @ - (balanceSansBond - p.liquidReserves),
                     !.liquidReserves = balanceSansBond]
      ELSE p

\* The subtraction in _sync is checked.
CanSync(t) == held[t] >= BondHeld(t)

Current(t) ==
  LET p == pooledTokens[t]
  IN  IF p.lpSupply = 0 THEN p ELSE Sync(t, UpdateAccumulatedLpFees(p))

\* What the LP tokens are worth, the fees that are still being smeared aside.
LpValue(p) == p.liquidReserves + p.utilizedReserves - p.undistributedLpFees

\* A negative numerator is a huge one once it is cast, and its product reverts.
CanReadRate(t) ==
  /\ pooledTokens[t].lpToken
  /\ pooledTokens[t].lpSupply # 0 => CanSync(t) /\ LpValue(Current(t)) >= 0

ExchangeRate(p) ==
  IF p.lpSupply = 0 THEN ONE ELSE (LpValue(p) * ONE) \div p.lpSupply
-----------------------------------------------------------------------------
(* Liquidity providers, who may be anybody. *)

\* The history: arrivals that _sync takes up into the liquid reserves are
\* ahead of the fees no longer; fees paid ahead of the arrivals remain so.
TakenUp(t) == [paidAhead EXCEPT ![t] = IF @ < 0 THEN 0 ELSE @]

TakenUpWithRate(t) == IF pooledTokens[t].lpSupply = 0 THEN paidAhead ELSE TakenUp(t)

\* Mutated: one LP token for each token, whatever the rate.
LpTokensToMintAtPar(amount, rate) == amount

LpTokensToMint(amount, rate) == (amount * ONE) \div rate

AddLiquidity(t, amount) ==
  LET p == Current(t)
      rate == ExchangeRate(p)
  IN  /\ ~paused /\ p.isEnabled
      /\ CanReadRate(t) /\ rate > 0
      /\ p.lpSupply + LpTokensToMint(amount, rate) <= MaxLp
      /\ held[t] + amount <= MaxHeld
      /\ pooledTokens' = [pooledTokens EXCEPT ![t] =
           [p EXCEPT !.liquidReserves = @ + amount,
                     !.lpSupply = @ + LpTokensToMint(amount, rate)]]
      /\ held' = [held EXCEPT ![t] = @ + amount]
      /\ paidAhead' = TakenUpWithRate(t)
      /\ UNCHANGED <<now, configVars, bundleVars, outstanding,
                     unclaimedAccumulatedProtocolFees>>

RemoveLiquidity(t, lpTokenAmount) ==
  LET p == Current(t)
      l1TokensToReturn == (lpTokenAmount * ExchangeRate(p)) \div ONE
  IN  /\ ~paused
      /\ CanReadRate(t)
      /\ lpTokenAmount <= p.lpSupply
      /\ l1TokensToReturn <= p.liquidReserves /\ l1TokensToReturn <= held[t]
      /\ pooledTokens' = [pooledTokens EXCEPT ![t] =
           [p EXCEPT !.liquidReserves = @ - l1TokensToReturn,
                     !.lpSupply = @ - lpTokenAmount]]
      /\ held' = [held EXCEPT ![t] = @ - l1TokensToReturn]
      /\ paidAhead' = TakenUpWithRate(t)
      /\ UNCHANGED <<now, configVars, bundleVars, outstanding,
                     unclaimedAccumulatedProtocolFees>>

\* exchangeRateCurrent, and sync with the two functions on utilization.
ReadRate(t) ==
  /\ CanReadRate(t)
  /\ pooledTokens' = [pooledTokens EXCEPT ![t] = Current(t)]
  /\ paidAhead' = TakenUpWithRate(t)
  /\ UNCHANGED <<now, configVars, bundleVars, held, outstanding,
                 unclaimedAccumulatedProtocolFees>>

SyncToken(t) ==
  /\ CanSync(t)
  /\ pooledTokens' = [pooledTokens EXCEPT ![t] = Sync(t, @)]
  /\ paidAhead' = TakenUp(t)
  /\ UNCHANGED <<now, configVars, bundleVars, held, outstanding,
                 unclaimedAccumulatedProtocolFees>>
-----------------------------------------------------------------------------
(* Root bundles. *)

LeavesOf(b) == IF b = NoBundle THEN {} ELSE b.leaves

SetFate(fate) ==
  proposals' = [proposals EXCEPT ![Len(proposals)].fate = fate]

ProposeRootBundle(w, b) ==
  /\ ~ActiveRequest /\ ~paused
  /\ Len(proposals) < MaxProposals
  /\ held[bond.token] + bond.amount <= MaxHeld
  /\ rootBundleProposal' =
       [ bundle |-> b, proposer |-> w, unclaimedPoolRebalanceLeafCount |-> b.leafCount,
         claimedBitMap |-> {}, challengePeriodEndTimestamp |-> now + liveness ]
  /\ held' = [held EXCEPT ![bond.token] = @ + bond.amount]
  /\ proposals' = Append(proposals, [bundle |-> b, fate |-> "open", executed |-> {}, calls |-> 0])
  /\ UNCHANGED <<now, configVars, pooledTokens, outstanding, paidAhead,
                 unclaimedAccumulatedProtocolFees, bond>>

Sent(leaf, t) ==
  IF t \in leaf.l1Tokens /\ leaf.netSendAmounts[t] > 0 THEN leaf.netSendAmounts[t] ELSE 0

Fees(leaf, t) == IF t \in leaf.l1Tokens THEN leaf.bundleLpFees[t] ELSE 0

ProtocolFees(leaf, t) == (Fees(leaf, t) * protocolFeeCapturePct) \div ONE

\* Mutated: the fees of the providers are not expected to come back.
AllocateUnbooked(p, lpFees) == [p EXCEPT !.undistributedLpFees = @ + lpFees]

AllocateLpFees(p, lpFees) ==
  [p EXCEPT !.undistributedLpFees = @ + lpFees, !.utilizedReserves = @ + lpFees]

\* _sendTokensToChainAndUpdatePooledTokenTrackers for one token.
Rebalanced(leaf, t, p) ==
  AllocateLpFees([p EXCEPT !.utilizedReserves = @ + Sent(leaf, t),
                           !.liquidReserves = @ - Sent(leaf, t)],
                 Fees(leaf, t) - ProtocolFees(leaf, t))

PassedLiveness == now > rootBundleProposal.challengePeriodEndTimestamp

\* Mutated: the leaf may be executed again.
ForgetLeaf(leafId) == rootBundleProposal.claimedBitMap

SetClaimed(leafId) == rootBundleProposal.claimedBitMap \cup {leafId}

\* The bond that leaves with the last leaf.
BondReturned(t) ==
  IF rootBundleProposal.unclaimedPoolRebalanceLeafCount = 1 THEN BondHeld(t) ELSE 0

\* The history of a proposal after one more leaf.
WithLeaf(p, leafId) ==
  [ p EXCEPT !.executed = p.executed \cup {leafId}, !.calls = p.calls + 1,
             !.fate = IF rootBundleProposal.unclaimedPoolRebalanceLeafCount = 1
                      THEN "done" ELSE p.fate ]

ExecuteRootBundle(leaf) ==
  LET kept == [t \in Token |-> held[t] - Sent(leaf, t) - BondReturned(t)]
  IN  /\ ~paused
      /\ PassedLiveness
      /\ leaf.leafId \notin rootBundleProposal.claimedBitMap
      /\ leaf \in LeavesOf(rootBundleProposal.bundle)
      /\ leaf.chain \in crossChainContracts
      /\ ActiveRequest
      /\ \A t \in leaf.l1Tokens : <<t, leaf.chain>> \in poolRebalanceRoutes
      /\ \A t \in Token : Sent(leaf, t) <= pooledTokens[t].liquidReserves /\ kept[t] >= 0
      /\ rootBundleProposal' =
           [rootBundleProposal EXCEPT !.claimedBitMap = SetClaimed(leaf.leafId),
                                      !.unclaimedPoolRebalanceLeafCount = @ - 1]
      /\ pooledTokens' = [t \in Token |-> Rebalanced(leaf, t, pooledTokens[t])]
      /\ unclaimedAccumulatedProtocolFees' =
           [t \in Token |-> unclaimedAccumulatedProtocolFees[t] + ProtocolFees(leaf, t)]
      /\ held' = kept
      /\ outstanding' = [t \in Token |-> outstanding[t] + Sent(leaf, t) + Fees(leaf, t)]
      /\ proposals' = [proposals EXCEPT ![Len(proposals)] = WithLeaf(@, leaf.leafId)]
      /\ UNCHANGED <<now, configVars, paidAhead, bond>>

\* The bond goes back to the proposer (_cancelBundle), when UMA would charge
\* more than the bond or refuses the request; otherwise the bond is what the
\* proposer stakes with UMA's oracle, and the disputer's passes through.
DisputeRootBundle(finalFee, refused) ==
  /\ now <= rootBundleProposal.challengePeriodEndTimestamp
  /\ held[bond.token] >= bond.amount
  /\ rootBundleProposal' = NoProposal
  /\ held' = [held EXCEPT ![bond.token] = @ - bond.amount]
  /\ SetFate(IF finalFee >= bond.amount \/ refused THEN "cancelled" ELSE "disputed")
  /\ UNCHANGED <<now, configVars, pooledTokens, outstanding, paidAhead,
                 unclaimedAccumulatedProtocolFees, bond>>

\* Mutated: a bundle that is done returns its bond once more.
BondToReturnAlways(t) == IF t = bond.token THEN bond.amount ELSE 0

BondToReturn(t) == BondHeld(t)

EmergencyDeleteProposal ==
  /\ \A t \in Token : held[t] >= BondToReturn(t)
  /\ rootBundleProposal' = NoProposal
  /\ held' = [t \in Token |-> held[t] - BondToReturn(t)]
  /\ IF ActiveRequest THEN SetFate("deleted") ELSE UNCHANGED proposals
  /\ UNCHANGED <<now, configVars, pooledTokens, outstanding, paidAhead,
                 unclaimedAccumulatedProtocolFees, bond>>

ClaimProtocolFeesCaptured(t) ==
  LET fees == unclaimedAccumulatedProtocolFees[t]
  IN  /\ held[t] >= fees
      /\ unclaimedAccumulatedProtocolFees' =
           [unclaimedAccumulatedProtocolFees EXCEPT ![t] = 0]
      /\ held' = [held EXCEPT ![t] = @ - fees]
      /\ paidAhead' = [paidAhead EXCEPT ![t] = @ + fees]
      /\ UNCHANGED <<now, configVars, bundleVars, pooledTokens, outstanding>>
-----------------------------------------------------------------------------
(* The owner. *)

EnableL1TokenForLiquidityProvision(t) ==
  LET p == pooledTokens[t]
      since == IF p.lpToken THEN p.lastLpFeeUpdate ELSE now
  IN  /\ pooledTokens' = [pooledTokens EXCEPT ![t] =
           [p EXCEPT !.isEnabled = TRUE, !.lpToken = TRUE, !.lastLpFeeUpdate = since]]
      /\ UNCHANGED <<now, configVars, bundleVars, held, outstanding, paidAhead,
                     unclaimedAccumulatedProtocolFees>>

DisableL1TokenForLiquidityProvision(t) ==
  /\ pooledTokens' = [pooledTokens EXCEPT ![t].isEnabled = FALSE]
  /\ UNCHANGED <<now, configVars, bundleVars, held, outstanding, paidAhead,
                 unclaimedAccumulatedProtocolFees>>

\* The owner writes off, or back on, what is lost on a chain; assumed not to
\* take more than the providers have, nor (a bound) more than may be owed.
HaircutReserves(t, haircutAmount) ==
  /\ haircutAmount <= LpValue(pooledTokens[t])
  /\ outstanding[t] - haircutAmount >= -MaxGifts
  /\ pooledTokens' = [pooledTokens EXCEPT ![t].utilizedReserves = @ - haircutAmount]
  /\ outstanding' = [outstanding EXCEPT ![t] = @ - haircutAmount]
  /\ UNCHANGED <<now, configVars, bundleVars, held, paidAhead,
                 unclaimedAccumulatedProtocolFees>>

SetBond(b, finalFee) ==
  /\ ~ActiveRequest
  /\ bond' = [b EXCEPT !.amount = @ + finalFee]
  /\ UNCHANGED <<now, configVars, poolVars, rootBundleProposal, proposals>>

SetPaused(pause) ==
  /\ paused' = pause
  /\ UNCHANGED <<protocolFeeCapturePct, liveness, poolRebalanceRoutes, crossChainContracts>>

SetProtocolFeeCapture(pct) ==
  /\ protocolFeeCapturePct' = pct
  /\ UNCHANGED <<paused, liveness, poolRebalanceRoutes, crossChainContracts>>

SetLiveness(newLiveness) ==
  /\ liveness' = newLiveness
  /\ UNCHANGED <<paused, protocolFeeCapturePct, poolRebalanceRoutes, crossChainContracts>>

SetPoolRebalanceRoute(t, c, set) ==
  /\ poolRebalanceRoutes' = IF set THEN poolRebalanceRoutes \cup {<<t, c>>}
                            ELSE poolRebalanceRoutes \ {<<t, c>>}
  /\ UNCHANGED <<paused, protocolFeeCapturePct, liveness, crossChainContracts>>

SetCrossChainContracts(c, set) ==
  /\ crossChainContracts' = IF set THEN crossChainContracts \cup {c}
                            ELSE crossChainContracts \ {c}
  /\ UNCHANGED <<paused, protocolFeeCapturePct, liveness, poolRebalanceRoutes>>

Configure ==
  /\ \/ \E pause \in BOOLEAN : SetPaused(pause)
     \/ \E pct \in FeePcts : SetProtocolFeeCapture(pct)
     \/ \E l \in Livenesses : SetLiveness(l)
     \/ \E r \in RouteChanges, set \in BOOLEAN : SetPoolRebalanceRoute(r[1], r[2], set)
     \/ \E c \in ChainChanges, set \in BOOLEAN : SetCrossChainContracts(c, set)
  /\ UNCHANGED <<now, poolVars, bundleVars>>
-----------------------------------------------------------------------------
(* The environment. *)

\* Tokens arrive over a canonical bridge, or as a gift, which looks the same.
ReceiveTokens(t, n) ==
  /\ held[t] + n <= MaxHeld /\ outstanding[t] - n >= -MaxGifts
  /\ held' = [held EXCEPT ![t] = @ + n]
  /\ outstanding' = [outstanding EXCEPT ![t] = @ - n]
  /\ paidAhead' = [paidAhead EXCEPT ![t] = @ - n]
  /\ UNCHANGED <<now, configVars, bundleVars, pooledTokens,
                 unclaimedAccumulatedProtocolFees>>

Tick ==
  /\ now < MaxTime
  /\ now' = now + 1
  /\ UNCHANGED <<configVars, poolVars, bundleVars>>

NewPool ==
  [ lpToken |-> FALSE, isEnabled |-> FALSE, lastLpFeeUpdate |-> 0, utilizedReserves |-> 0,
    liquidReserves |-> 0, undistributedLpFees |-> 0, lpSupply |-> 0 ]

Init ==
  /\ now = 1
  /\ paused = FALSE
  /\ rootBundleProposal = NoProposal
  /\ pooledTokens = [t \in Token |-> NewPool]
  /\ unclaimedAccumulatedProtocolFees = [t \in Token |-> 0]
  /\ protocolFeeCapturePct = 0
  /\ bond = InitialBond
  /\ liveness = DefaultLiveness
  /\ poolRebalanceRoutes = Token \X Chain
  /\ crossChainContracts = Chain
  /\ held = [t \in Token |-> 0]
  /\ outstanding = [t \in Token |-> 0]
  /\ paidAhead = [t \in Token |-> 0]
  /\ proposals = <<>>

Next ==
  \/ \E t \in Token :
       \/ \E n \in LpAmounts : AddLiquidity(t, n) \/ RemoveLiquidity(t, n)
       \/ ReadRate(t)
       \/ SyncToken(t)
       \/ ClaimProtocolFeesCaptured(t)
       \/ EnableL1TokenForLiquidityProvision(t)
       \/ DisableL1TokenForLiquidityProvision(t)
       \/ \E h \in Haircuts : HaircutReserves(t, h)
       \/ \E n \in Returns : ReceiveTokens(t, n)
  \/ \E w \in Worker, b \in Bundle : ProposeRootBundle(w, b)
  \/ \E leaf \in LeavesOf(rootBundleProposal.bundle) : ExecuteRootBundle(leaf)
  \/ \E fee \in FinalFees, refused \in BOOLEAN : DisputeRootBundle(fee, refused)
  \/ \E b \in Bonds, fee \in FinalFees : SetBond(b, fee)
  \/ EmergencyDeleteProposal
  \/ Configure
  \/ Tick

Spec == Init /\ [][Next]_vars
-----------------------------------------------------------------------------
(* What the HubPool promises to liquidity providers and data workers. *)

PooledToken ==
  [ lpToken : BOOLEAN, isEnabled : BOOLEAN, lastLpFeeUpdate : Nat, utilizedReserves : Int,
    liquidReserves : Nat, undistributedLpFees : Nat, lpSupply : Nat ]

RootBundle ==
  [ bundle : Bundle \cup {NoBundle}, proposer : Worker \cup {NoWorker},
    unclaimedPoolRebalanceLeafCount : Nat, claimedBitMap : SUBSET LeafId,
    challengePeriodEndTimestamp : Nat ]

Proposal ==
  [ bundle : Bundle, fate : {"open", "done", "disputed", "cancelled", "deleted"},
    executed : SUBSET LeafId, calls : Nat ]

\* Every variable has the type of its Solidity declaration; no unsigned amount
\* and no balance is negative.
TypeOK ==
  /\ now \in Nat \ {0}
  /\ paused \in BOOLEAN
  /\ rootBundleProposal \in RootBundle
  /\ pooledTokens \in [Token -> PooledToken]
  /\ unclaimedAccumulatedProtocolFees \in [Token -> Nat]
  /\ protocolFeeCapturePct \in 0 .. ONE
  /\ bond \in BondTerms
  /\ liveness \in Nat
  /\ poolRebalanceRoutes \subseteq Token \X Chain
  /\ crossChainContracts \subseteq Chain
  /\ held \in [Token -> Nat]
  /\ outstanding \in [Token -> Int]
  /\ paidAhead \in [Token -> Int]
  /\ proposals \in Seq(Proposal)

\* The reserves of a pool, liquid and utilized, are what the contract holds
\* without the bond, plus what the SpokePools owe, less what the protocol may
\* claim: _sync moves amounts between the two without making or losing any, in
\* every order of bridge arrivals, bundles, disputes and claims.
ReservesBalance ==
  \A t \in Token :
    pooledTokens[t].liquidReserves + pooledTokens[t].utilizedReserves
      = held[t] - BondHeld(t) + outstanding[t] - unclaimedAccumulatedProtocolFees[t]

\* "LiquidReserves + utilizedReserves will always be larger than
\* undistributedLpFees": the numerator of the exchange rate is never negative.
FeesCovered == \A t \in Token : LpValue(pooledTokens[t]) >= 0

\* Neither the bond nor anything else of the balance is lent: the liquid
\* reserves are in the contract next to the bond, to the token, but for what
\* was paid to the protocol ahead of the fees that come back for it, and for
\* what has arrived and was not taken up yet.  As long as fees are paid ahead
\* the balance is that much too small, and a dispute or _sync may revert.
LiquidButForClaims ==
  \A t \in Token :
    pooledTokens[t].liquidReserves = held[t] - BondHeld(t) + paidAhead[t]

\* A disputed or cancelled bundle never moved a token, no bundle executes a
\* leaf twice, and one that is done executed as many as it announced.
OneFate ==
  \A i \in 1 .. Len(proposals) :
    LET p == proposals[i]
    IN  /\ p.fate \in {"disputed", "cancelled"} => p.calls = 0
        /\ p.fate = "done" => p.calls = p.bundle.leafCount
        /\ Cardinality(p.executed) = p.calls

\* Nothing that providers, workers, bridges or time do lowers the exchange
\* rate; only the owner's haircut does.
RateNeverFalls ==
  [][ \A t \in Token :
        LET p == pooledTokens[t]
            q == pooledTokens'[t]
        IN  /\ p.lpSupply > 0 /\ q.lpSupply > 0
            /\ ~ \E h \in Haircuts : HaircutReserves(t, h)
            => ExchangeRate(q) >= ExchangeRate(p) ]_vars

\* HubPoolInterface.sol:83, "Number of LP funds held in contract".
LiquidReservesHeld ==
  \A t \in Token : pooledTokens[t].liquidReserves <= held[t] - BondHeld(t)
=============================================================================
