---------------------------- MODULE StargateFees ----------------------------
(***************************************************************************)
(* The fees of a swap, as StargateFeeLibraryV02 computes them: a protocol  *)
(* fee and an LP fee in proportion to the amount, an equilibrium fee that  *)
(* is the area under a curve that rises as the balance of the chain path   *)
(* falls below its ideal, and a reward for swaps into a pool in deficit.   *)
(* Here one chain path is drained, swap after swap.                        *)
(***************************************************************************)
EXTENDS Integers

CONSTANTS
  DENOMINATOR,
  DELTA_1, DELTA_2,       \* where the safe zone starts and ends
  LAMBDA_1, LAMBDA_2,     \* the rate at its end, and the rise below it
  LP_FEE, PROTOCOL_FEE, PROTOCOL_SUBSIDY,
  Ideals, Balances,       \* the path at first (bounds)
  SwapAmounts,            \* amounts of swaps (bound)
  Shortfalls,             \* totalLiquidity less the pool's tokens (bound)
  RewardPools             \* eqFeePool (bound)

ASSUME FeeAssumption ==
  /\ {DENOMINATOR, DELTA_1, DELTA_2, LAMBDA_1, LAMBDA_2} \subseteq Nat \ {0}
  /\ {LP_FEE, PROTOCOL_FEE, PROTOCOL_SUBSIDY} \subseteq Nat
  /\ DELTA_2 < DELTA_1 /\ LAMBDA_1 + LAMBDA_2 = DENOMINATOR
  /\ Ideals \subseteq Nat /\ Balances \subseteq Nat
  /\ SwapAmounts \subseteq 1..DENOMINATOR /\ Shortfalls \subseteq Nat \ {0}
  /\ RewardPools \subseteq Nat

VARIABLES idealBalance, balance, eqFeePool

feeVars == <<idealBalance, balance, eqFeePool>>

Rate(amount, fee) == (amount * fee) \div DENOMINATOR

\* The code divides by the width of the safe zone: it has one, or nothing is below it.
ASSUME ZoneAssumption ==
  \A ideal \in Ideals : Rate(ideal, DELTA_1) > 0 => Rate(ideal, DELTA_2) < Rate(ideal, DELTA_1)

SafeZoneMax == Rate(idealBalance, DELTA_1)
SafeZoneMin == Rate(idealBalance, DELTA_2)

\* Height of the curve, at distance drift from the upper end of its zone.
Height(lambda, yOffset, width, drift) == (drift * lambda) \div width + yOffset

\* Mutated: the rate at the end of the swap for all of it.
TrapezoidAreaAtEnd(lambda, yOffset, xUpper, xLower, xStart, xEnd) ==
  LET yEnd == Height(lambda, yOffset, xUpper - xLower, xUpper - xEnd)
  IN  (yEnd * (xStart - xEnd)) \div DENOMINATOR

TrapezoidArea(lambda, yOffset, xUpper, xLower, xStart, xEnd) ==
  LET yStart == Height(lambda, yOffset, xUpper - xLower, xUpper - xStart)
      yEnd == Height(lambda, yOffset, xUpper - xLower, xUpper - xEnd)
  IN  (((yStart + yEnd) * (xStart - xEnd)) \div 2) \div DENOMINATOR

\* The part of the fee in the safe zone, and below it.
SafeArea(from, to) ==
  LET proxy == IF from < SafeZoneMax THEN from ELSE SafeZoneMax
  IN  TrapezoidArea(LAMBDA_1, 0, SafeZoneMax, SafeZoneMin, proxy, to)
DangerArea(from, to) ==
  TrapezoidArea(LAMBDA_2, LAMBDA_1, SafeZoneMin, 0, from, to)

\* The equilibrium fee of a swap of amount from a balance of before.
EqFee(before, amount) ==
  LET after == before - amount
  IN  CASE after >= SafeZoneMax -> Rate(amount, PROTOCOL_SUBSIDY)
        [] after >= SafeZoneMin /\ after < SafeZoneMax -> SafeArea(before, after)
        [] OTHER ->
             IF before >= SafeZoneMin
             THEN SafeArea(before, SafeZoneMin) + DangerArea(SafeZoneMin, after)
             ELSE DangerArea(before, after)

\* In the zone without a fee the protocol pays it.
ProtocolSubsidy(before, amount) ==
  IF before - amount >= SafeZoneMax THEN Rate(amount, PROTOCOL_SUBSIDY) ELSE 0

ProtocolFee(before, amount) ==
  Rate(amount, PROTOCOL_FEE) - ProtocolSubsidy(before, amount)

LpFee(amount) == Rate(amount, LP_FEE)

EqReward(amount, poolDeficit) ==
  LET reward == (eqFeePool * amount) \div poolDeficit
  IN  IF reward > eqFeePool THEN eqFeePool ELSE reward

\* What the user pays for a swap.
UserFee(before, amount) ==
  EqFee(before, amount) + ProtocolFee(before, amount) + LpFee(amount)

FeesInit == idealBalance \in Ideals /\ balance \in Balances /\ eqFeePool \in RewardPools

\* What a swap leaves of the balance. The LP fee stays on the path.
BalanceLeft(before, amount, reward) == before - (amount - LpFee(amount) + reward)

\* The checks of a swap: getFees, the subtractions of Pool.swap, its solvency.
Passes(before, amount, reward) ==
  /\ amount <= before /\ UserFee(before, amount) <= amount
  /\ BalanceLeft(before, amount, reward) >= 0

\* reward: what a swap into a pool in deficit, or else nothing, is rewarded.
Drain(amount, reward) ==
  /\ Passes(balance, amount, reward)
  /\ balance' = BalanceLeft(balance, amount, reward)
  /\ eqFeePool' = eqFeePool - reward
  /\ UNCHANGED idealBalance

Rewards(amount) == {0} \cup {EqReward(amount, d) : d \in Shortfalls}

FeesNext == \E amount \in SwapAmounts : \E reward \in Rewards(amount) : Drain(amount, reward)

FeesSpec == FeesInit /\ [][FeesNext]_feeVars
-----------------------------------------------------------------------------
\* Rounding, as long as amounts are below the denominator: a unit for each of
\* the two rates, two for each place where the area is cut, and one for its shift.
Slack == 7

\* What is kept on the path spares the second part the end of the way down.
Spared(end, kept) == IF kept > 0 THEN EqFee(end, kept) ELSE 0

\* What two swaps pay, the second from the balance that the first leaves.
InTwoParts(before, a1, reward, a2) ==
  UserFee(before, a1) + UserFee(BalanceLeft(before, a1, reward), a2)

\* Splitting a swap in two saves nothing but rounding and the equilibrium fee on
\* the LP fee of the first part: that fee stays on the path (Pool.sol:194-197),
\* so the second part starts, and ends, that much higher up the curve. A reward
\* of the first part takes it down again, below where the whole swap would have
\* passed if it exceeds the LP fee, and then nothing is saved.
SplittingDoesNotPay ==
  \A a1, a2 \in SwapAmounts : \A reward \in Rewards(a1) :
    /\ Passes(balance, a1, reward)
    /\ a1 + a2 <= balance /\ a2 <= BalanceLeft(balance, a1, reward)
    => UserFee(balance, a1 + a2)
         <= InTwoParts(balance, a1, reward, a2)
              + Spared(BalanceLeft(balance, a1, reward) - a2, LpFee(a1) - reward) + Slack
=============================================================================
