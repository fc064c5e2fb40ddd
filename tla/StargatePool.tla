---------------------------- MODULE StargatePool ----------------------------
(***************************************************************************)
(* A Stargate pool: the functions of Pool.sol, as operators that take the  *)
(* pool's state and return its state afterwards.  The Router calls several *)
(* of them in one transaction, so they compose; what makes a call revert   *)
(* is a predicate of its own (Can...).                                     *)
(*                                                                         *)
(* Amounts are in shared decimals.  The Router only moves multiples of the *)
(* conversion rate, so that conversions to the token's decimals are exact. *)
(* chainPaths is keyed by the pool at the other end; totalWeight and the   *)
(* LP token's totalSupply are the sums the code keeps them equal to.       *)
(***************************************************************************)
EXTENDS Integers, FiniteSets, Totals

CONSTANTS
  Pool,                   \* the pools of all chains
  User,                   \* liquidity providers and recipients
  BP_DENOMINATOR          \* one whole in basis points

ASSUME PoolAssumption ==
  IsFiniteSet(Pool) /\ IsFiniteSet(User) /\ BP_DENOMINATOR \in Nat \ {0}

ChainPath ==
  [ created : BOOLEAN, ready : BOOLEAN, weight : Nat, balance : Nat,
    lkb : Nat, credits : Nat, idealBalance : Nat ]

PoolState ==
  [ chainPaths : [Pool -> ChainPath],
    asset : Nat,                        \* tokens the pool holds
    lp : [User -> Nat],                 \* balances of the LP token
    stopSwap : BOOLEAN, totalLiquidity : Nat,
    mintFeeBP : 0 .. BP_DENOMINATOR,
    protocolFeeBalance : Nat, mintFeeBalance : Nat, eqFeePool : Nat,
    deltaCredit : Nat, batched : BOOLEAN,
    defaultSwapMode : BOOLEAN, defaultLPMode : BOOLEAN,
    swapDeltaBP : 0 .. BP_DENOMINATOR, lpDeltaBP : 0 .. BP_DENOMINATOR ]

\* What the fee library asks of a swap.
Fees == [eqFee : Nat, eqReward : Nat, lpFee : Nat, protocolFee : Nat]

SwapObj ==
  [ amount : Nat, eqFee : Nat, eqReward : Nat, lpFee : Nat,
    protocolFee : Nat, lkbRemove : Nat ]

CreditObj == [credits : Nat, idealBalance : Nat]

NoChainPath ==
  [ created |-> FALSE, ready |-> FALSE, weight |-> 0, balance |-> 0,
    lkb |-> 0, credits |-> 0, idealBalance |-> 0 ]

\* A pool as the constructor leaves it.
NewPool ==
  [ chainPaths |-> [q \in Pool |-> NoChainPath], asset |-> 0,
    lp |-> [u \in User |-> 0], stopSwap |-> FALSE, totalLiquidity |-> 0,
    mintFeeBP |-> 0, protocolFeeBalance |-> 0, mintFeeBalance |-> 0,
    eqFeePool |-> 0, deltaCredit |-> 0, batched |-> FALSE,
    defaultSwapMode |-> TRUE, defaultLPMode |-> TRUE,
    swapDeltaBP |-> 0, lpDeltaBP |-> 0 ]

TotalWeight(pl) == Total([q \in Pool |-> pl.chainPaths[q].weight])
TotalSupply(pl) == Total(pl.lp)

AmountLPtoSD(pl, amountLP) == (amountLP * pl.totalLiquidity) \div TotalSupply(pl)
\* Mutated: rounds up, in favour of the depositor.
AmountSDtoLPUp(pl, amountSD) ==
  (amountSD * TotalSupply(pl) + pl.totalLiquidity - 1) \div pl.totalLiquidity

AmountSDtoLP(pl, amountSD) == (amountSD * TotalSupply(pl)) \div pl.totalLiquidity
-----------------------------------------------------------------------------
(* The Delta algorithm: deltaCredit is handed out to the chain paths. *)

\* The part of an amount that a path's weight gives it.
Portion(pl, amount, q) == (amount * pl.chainPaths[q].weight) \div TotalWeight(pl)

Deficit(pl, q) ==
  LET balLiq == Portion(pl, pl.totalLiquidity, q)
      currLiq == pl.chainPaths[q].lkb + pl.chainPaths[q].credits
  IN  IF balLiq > currLiq THEN balLiq - currLiq ELSE 0

TotalDeficit(pl) == Total([q \in Pool |-> Deficit(pl, q)])

\* Mutated: the excess is not what the deficits leave.
AmtToCreditTwice(pl, fullMode, q) ==
  LET totalDeficit == TotalDeficit(pl)
      deficit == Deficit(pl, q)
      extra(amount) == IF fullMode THEN Portion(pl, amount, q) ELSE 0
  IN  CASE totalDeficit = 0 -> extra(pl.deltaCredit)
        [] totalDeficit > pl.deltaCredit ->
             (deficit * pl.deltaCredit) \div totalDeficit
        [] OTHER -> IF deficit = 0 THEN 0 ELSE deficit + extra(pl.deltaCredit)

\* Mutated: without a deficit nothing is handed out.
AmtToCreditDeficitsOnly(pl, fullMode, q) ==
  LET totalDeficit == TotalDeficit(pl)
      deficit == Deficit(pl, q)
      extra(amount) == IF fullMode THEN Portion(pl, amount, q) ELSE 0
  IN  IF totalDeficit = 0 THEN 0
      ELSE IF totalDeficit > pl.deltaCredit
      THEN (deficit * pl.deltaCredit) \div totalDeficit
      ELSE IF deficit = 0 THEN 0
      ELSE deficit + extra(pl.deltaCredit - totalDeficit)

\* What a path is credited; only the full mode hands out more than deficits.
AmtToCredit(pl, fullMode, q) ==
  LET totalDeficit == TotalDeficit(pl)
      deficit == Deficit(pl, q)
      extra(amount) == IF fullMode THEN Portion(pl, amount, q) ELSE 0
  IN  CASE totalDeficit = 0 -> extra(pl.deltaCredit)
        [] totalDeficit > pl.deltaCredit ->
             (deficit * pl.deltaCredit) \div totalDeficit
        [] OTHER ->
             IF deficit = 0 THEN 0
             ELSE deficit + extra(pl.deltaCredit - totalDeficit)

DeltaRuns(pl) == pl.deltaCredit > 0 /\ TotalWeight(pl) > 0

Spent(pl, fullMode) ==
  IF DeltaRuns(pl) THEN Total([q \in Pool |-> AmtToCredit(pl, fullMode, q)])
  ELSE 0

Delta(pl, fullMode) ==
  IF ~DeltaRuns(pl) THEN pl
  ELSE [pl EXCEPT
          !.chainPaths = [q \in Pool |->
             [pl.chainPaths[q] EXCEPT !.credits = @ + AmtToCredit(pl, fullMode, q)]],
          !.deltaCredit = @ - Spent(pl, fullMode)]

LpDelta(pl, mode) ==
  IF ~pl.batched
     \/ pl.deltaCredit > (pl.totalLiquidity * pl.lpDeltaBP) \div BP_DENOMINATOR
  THEN Delta(pl, mode) ELSE pl

SwapDelta(pl) ==
  IF ~pl.batched
     \/ pl.deltaCredit >= (pl.totalLiquidity * pl.swapDeltaBP) \div BP_DENOMINATOR
  THEN Delta(pl, pl.defaultSwapMode) ELSE pl
-----------------------------------------------------------------------------
(* Liquidity on the pool's own chain. *)

CanMint(pl) ==
  TotalWeight(pl) > 0 /\ (TotalSupply(pl) # 0 => pl.totalLiquidity > 0)

\* Mutated: the mint fee is liquidity too.
MintLocalWithFee(pl, to, amountSD, feesEnabled, creditDelta) ==
  LET mintFee == IF feesEnabled THEN (amountSD * pl.mintFeeBP) \div BP_DENOMINATOR
                 ELSE 0
      added == amountSD - mintFee
      amountLP == IF TotalSupply(pl) = 0 THEN added ELSE AmountSDtoLP(pl, added)
  IN  LpDelta([pl EXCEPT
                 !.mintFeeBalance = @ + mintFee,
                 !.deltaCredit = IF creditDelta THEN @ + added ELSE @,
                 !.totalLiquidity = @ + amountSD,
                 !.lp[to] = @ + amountLP],
              pl.defaultLPMode)

MintLocal(pl, to, amountSD, feesEnabled, creditDelta) ==
  LET mintFee == IF feesEnabled THEN (amountSD * pl.mintFeeBP) \div BP_DENOMINATOR
                 ELSE 0
      added == amountSD - mintFee
      amountLP == IF TotalSupply(pl) = 0 THEN added ELSE AmountSDtoLP(pl, added)
  IN  LpDelta([pl EXCEPT
                 !.mintFeeBalance = @ + mintFee,
                 !.deltaCredit = IF creditDelta THEN @ + added ELSE @,
                 !.totalLiquidity = @ + added,
                 !.lp[to] = @ + amountLP],
              pl.defaultLPMode)

\* The deposit has been transferred in by the Router.
Mint(pl, to, amountSD) ==
  MintLocal([pl EXCEPT !.asset = @ + amountSD], to, amountSD, TRUE, TRUE)

CanBurn(pl, from, amountLP) == TotalSupply(pl) > 0 /\ pl.lp[from] >= amountLP

BurnLocal(pl, from, amountLP) ==
  [pl EXCEPT !.totalLiquidity = @ - AmountLPtoSD(pl, amountLP),
             !.lp[from] = @ - amountLP]

\* At most the credits that are not handed out yet are redeemed.
CapAmountLP(pl, amountLP) ==
  LET cap == AmountSDtoLP(pl, pl.deltaCredit)
  IN  IF amountLP > cap THEN cap ELSE amountLP

CanRedeemAtOnce(pl, from, amountLP) ==
  pl.totalLiquidity > 0 /\ CanBurn(pl, from, CapAmountLP(pl, amountLP))

InstantRedeemLocal(pl, from, amountLP) ==
  LET burnt == CapAmountLP(pl, amountLP)
      amountSD == AmountLPtoSD(pl, burnt)
  IN  [BurnLocal(pl, from, burnt) EXCEPT !.deltaCredit = @ - amountSD,
                                         !.asset = @ - amountSD]

RedeemRemote(pl, from, amountLP) ==
  LpDelta(BurnLocal(pl, from, amountLP), pl.defaultLPMode)

RedeemLocal(pl, from, amountLP) == LpDelta(BurnLocal(pl, from, amountLP), FALSE)
-----------------------------------------------------------------------------
(* Both sides of a transfer. *)

SwapOf(amountSD, f) ==
  [ amount |-> amountSD - f.eqFee - f.protocolFee - f.lpFee,
    eqFee |-> f.eqFee, eqReward |-> f.eqReward, lpFee |-> f.lpFee,
    protocolFee |-> f.protocolFee,
    lkbRemove |-> amountSD - f.lpFee + f.eqReward ]

CanSwap(pl, q, s) ==
  /\ ~pl.stopSwap
  /\ pl.chainPaths[q].ready
  /\ s.eqReward <= pl.eqFeePool
  /\ s.amount >= 0
  /\ s.lkbRemove <= pl.chainPaths[q].balance

\* New liquidity has been, or is then, transferred in by the Router.
Swap(pl, q, amountSD, s, newLiquidity) ==
  LET added == IF newLiquidity THEN amountSD ELSE 0
  IN  SwapDelta([pl EXCEPT
                   !.eqFeePool = @ - s.eqReward,
                   !.chainPaths[q].balance = @ - s.lkbRemove,
                   !.deltaCredit = @ + added + s.eqReward,
                   !.asset = @ + added])

CanSendCredits(pl, q) == pl.chainPaths[q].ready /\ TotalWeight(pl) > 0

CreditsOf(pl, q) ==
  [ credits |-> pl.chainPaths[q].credits,
    idealBalance |-> Portion(pl, pl.totalLiquidity, q) ]

\* Mutated: the credits leave without being kept for the other end.
SendCreditsUnbooked(pl, q) == [pl EXCEPT !.chainPaths[q].credits = 0]

SendCredits(pl, q) ==
  [pl EXCEPT !.chainPaths[q].lkb = @ + pl.chainPaths[q].credits,
             !.chainPaths[q].credits = 0]

CreditChainPath(pl, q, c) ==
  [pl EXCEPT !.chainPaths[q].balance = @ + c.credits,
             !.chainPaths[q].idealBalance = c.idealBalance]

CanSwapRemote(pl, q, s) ==
  s.lkbRemove <= pl.chainPaths[q].lkb /\ s.amount + s.eqReward <= pl.asset

\* Mutated: the LP fee stays out of the books.
SwapRemoteNoLpFee(pl, q, s) ==
  [pl EXCEPT !.eqFeePool = @ + s.eqFee,
             !.protocolFeeBalance = @ + s.protocolFee,
             !.chainPaths[q].lkb = @ - s.lkbRemove,
             !.asset = @ - s.amount - s.eqReward]

SwapRemote(pl, q, s) ==
  [pl EXCEPT !.totalLiquidity = @ + s.lpFee,
             !.eqFeePool = @ + s.eqFee,
             !.protocolFeeBalance = @ + s.protocolFee,
             !.chainPaths[q].lkb = @ - s.lkbRemove,
             !.asset = @ - s.amount - s.eqReward]

\* What a local redemption takes off the balance at the other end; the rest
\* is minted back.
RedeemedOnRemote(pl, q, amountSD) ==
  LET balance == pl.chainPaths[q].balance
  IN  IF amountSD > balance THEN balance ELSE amountSD

\* Mutated: what was redeemed elsewhere may be swapped out once more.
RedeemLocalCheckOnly(pl, q, amountSD) == pl

RedeemLocalCheckOnRemote(pl, q, amountSD) ==
  [pl EXCEPT !.chainPaths[q].balance = @ - RedeemedOnRemote(pl, q, amountSD)]

CanRedeemCallback(pl, q, amountSD, mintSD) ==
  /\ mintSD > 0 => CanMint(pl)
  /\ amountSD <= pl.chainPaths[q].lkb
  /\ amountSD <= pl.asset

RedeemLocalCallback(pl, q, to, amountSD, mintSD) ==
  LET minted == IF mintSD > 0 THEN MintLocal(pl, to, mintSD, FALSE, FALSE) ELSE pl
  IN  [minted EXCEPT !.chainPaths[q].lkb = @ - amountSD, !.asset = @ - amountSD]
-----------------------------------------------------------------------------
(* Calls of the DAO. *)

CreateChainPath(pl, q, weight) ==
  [pl EXCEPT !.chainPaths[q] = [NoChainPath EXCEPT !.created = TRUE, !.weight = weight]]

ActivateChainPath(pl, q) == [pl EXCEPT !.chainPaths[q].ready = TRUE]

SetWeightForChainPath(pl, q, weight) == [pl EXCEPT !.chainPaths[q].weight = weight]

SetFee(pl, fee) == [pl EXCEPT !.mintFeeBP = fee]

SetSwapStop(pl, stop) == [pl EXCEPT !.stopSwap = stop]

SetDeltaParam(pl, batched, swapBP, lpBP, swapMode, lpMode) ==
  [pl EXCEPT !.batched = batched, !.swapDeltaBP = swapBP, !.lpDeltaBP = lpBP,
             !.defaultSwapMode = swapMode, !.defaultLPMode = lpMode]

WithdrawMintFeeBalance(pl) ==
  [pl EXCEPT !.asset = @ - pl.mintFeeBalance, !.mintFeeBalance = 0]

WithdrawProtocolFeeBalance(pl) ==
  [pl EXCEPT !.asset = @ - pl.protocolFeeBalance, !.protocolFeeBalance = 0]
-----------------------------------------------------------------------------
\* What the pool's tokens are set aside for.
Booked(pl) ==
  pl.eqFeePool + pl.protocolFeeBalance + pl.mintFeeBalance + pl.deltaCredit
  + Total([q \in Pool |-> pl.chainPaths[q].lkb])
  + Total([q \in Pool |-> pl.chainPaths[q].credits])
=============================================================================
