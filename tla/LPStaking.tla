------------------------------ MODULE LPStaking ------------------------------
(***************************************************************************)
(* The staking contract of Stargate (LPStaking.sol): LP tokens are staked  *)
(* in pools, and every block emits rewards that the pools share by their   *)
(* allocation points and the stakers of a pool by their amounts.           *)
(*                                                                         *)
(* Rewards per share are kept in units of 1/PRECISION (1e12 in the code);  *)
(* BONUS_MULTIPLIER is 1, so that the end of the bonus does not matter.    *)
(***************************************************************************)
EXTENDS Integers, FiniteSets, Totals

CONSTANTS
  LPToken,                \* the tokens that pools can be added for
  Staker, PRECISION,
  startBlock,
  Points, Rates, StakeAmounts, \* values the owner and the users choose (bounds)
  Funding,                \* rewards that are sent to the contract (bound)
  MaxBlock, MaxRestakes   \* bounds

ASSUME StakingAssumption ==
  /\ IsFiniteSet(LPToken) /\ IsFiniteSet(Staker)
  /\ PRECISION \in Nat \ {0} /\ Points \subseteq Nat /\ Rates \subseteq Nat
  /\ StakeAmounts \subseteq Nat /\ {startBlock, Funding, MaxBlock, MaxRestakes} \subseteq Nat

VARIABLES
  block,                  \* block.number
  poolInfo,               \* token -> its pool
  totalAllocPoint, stargatePerBlock,
  userInfo,               \* token -> user -> amount staked, reward debt
  lpHeld,                 \* token -> LP tokens that the contract holds
  lpBalances,             \* token -> LP tokens that it counts
  stargate,               \* rewards that it holds
  paid,                   \* history: rewards that were due to users
  emitted,                \* history: rewards of the blocks so far
  restakes                \* history: changes of staked amounts

stakes == <<userInfo, lpHeld, lpBalances, stargate, paid, restakes>>
stakingVars == <<block, poolInfo, totalAllocPoint, stargatePerBlock, stakes, emitted>>

NoPool == [added |-> FALSE, allocPoint |-> 0, lastRewardBlock |-> 0, accPerShare |-> 0]

StakingInit ==
  /\ block = 0
  /\ poolInfo = [t \in LPToken |-> NoPool]
  /\ totalAllocPoint = 0
  /\ stargatePerBlock \in Rates
  /\ userInfo = [t \in LPToken |-> [u \in Staker |-> [amount |-> 0, rewardDebt |-> 0]]]
  /\ lpHeld = [t \in LPToken |-> 0]
  /\ lpBalances = [t \in LPToken |-> 0]
  /\ stargate = Funding
  /\ paid = 0 /\ emitted = 0 /\ restakes = 0

Reward(t) ==
  ((block - poolInfo[t].lastRewardBlock) * stargatePerBlock * poolInfo[t].allocPoint)
    \div totalAllocPoint

Due(t) == poolInfo[t].added /\ block > poolInfo[t].lastRewardBlock

\* With stakes and no points at all the division fails.
CanUpdate(t) == Due(t) /\ lpHeld[t] > 0 => totalAllocPoint > 0

\* The pool as updatePool leaves it.
Updated(t) ==
  CASE ~Due(t) -> poolInfo[t]
    [] Due(t) /\ lpHeld[t] = 0 -> [poolInfo[t] EXCEPT !.lastRewardBlock = block]
    [] OTHER -> [poolInfo[t] EXCEPT
                   !.accPerShare = @ + (Reward(t) * PRECISION) \div lpHeld[t],
                   !.lastRewardBlock = block]

AllUpdated == [t \in LPToken |-> Updated(t)]

UpdatePool(t) ==
  /\ poolInfo[t].added /\ CanUpdate(t)
  /\ poolInfo' = [poolInfo EXCEPT ![t] = Updated(t)]

MassUpdatePools ==
  /\ \A t \in LPToken : CanUpdate(t)
  /\ poolInfo' = AllUpdated
-----------------------------------------------------------------------------
(* Calls of the owner. *)

Add(t, points) ==
  /\ ~poolInfo[t].added
  /\ \A x \in LPToken : CanUpdate(x)
  /\ poolInfo' = [AllUpdated EXCEPT ![t] =
       [ added |-> TRUE, allocPoint |-> points, accPerShare |-> 0,
         lastRewardBlock |-> IF block > startBlock THEN block ELSE startBlock ]]
  /\ totalAllocPoint' = totalAllocPoint + points
  /\ UNCHANGED <<block, stargatePerBlock, stakes, emitted>>

Set(t, points) ==
  /\ poolInfo[t].added
  /\ \A x \in LPToken : CanUpdate(x)
  /\ poolInfo' = [AllUpdated EXCEPT ![t].allocPoint = points]
  /\ totalAllocPoint' = totalAllocPoint - poolInfo[t].allocPoint + points
  /\ UNCHANGED <<block, stargatePerBlock, stakes, emitted>>

\* Mutated: the new rate holds for blocks of the past.
SetRateOnly(rate) ==
  /\ stargatePerBlock' = rate
  /\ UNCHANGED <<block, poolInfo, totalAllocPoint, stakes, emitted>>

SetStargatePerBlock(rate) ==
  /\ MassUpdatePools
  /\ stargatePerBlock' = rate
  /\ UNCHANGED <<block, totalAllocPoint, stakes, emitted>>
-----------------------------------------------------------------------------
(* Calls of users. *)

Accrued(pl, amount) == (amount * pl.accPerShare) \div PRECISION

\* What is due to a user once the pool is updated.
Pending(t, u) ==
  Accrued(Updated(t), userInfo[t][u].amount) - userInfo[t][u].rewardDebt

\* No more than the contract holds is transferred.
SafeStargateTransfer(amount) ==
  stargate' = stargate - (IF amount > stargate THEN stargate ELSE amount)

Restake(t, u, amount) ==
  /\ restakes < MaxRestakes
  /\ userInfo' = [userInfo EXCEPT ![t][u] =
       [amount |-> amount, rewardDebt |-> Accrued(Updated(t), amount)]]
  /\ restakes' = restakes + 1

Deposit(t, u, amount) ==
  LET pending == IF userInfo[t][u].amount > 0 THEN Pending(t, u) ELSE 0
  IN  /\ UpdatePool(t)
      /\ pending >= 0
      /\ SafeStargateTransfer(pending)
      /\ paid' = paid + pending
      /\ Restake(t, u, userInfo[t][u].amount + amount)
      /\ lpHeld' = [lpHeld EXCEPT ![t] = @ + amount]
      /\ lpBalances' = [lpBalances EXCEPT ![t] = @ + amount]
      /\ UNCHANGED <<block, totalAllocPoint, stargatePerBlock, emitted>>

Withdraw(t, u, amount) ==
  /\ amount <= userInfo[t][u].amount
  /\ UpdatePool(t)
  /\ Pending(t, u) >= 0
  /\ SafeStargateTransfer(Pending(t, u))
  /\ paid' = paid + Pending(t, u)
  /\ Restake(t, u, userInfo[t][u].amount - amount)
  /\ lpHeld' = [lpHeld EXCEPT ![t] = @ - amount]
  /\ lpBalances' = [lpBalances EXCEPT ![t] = @ - amount]
  /\ UNCHANGED <<block, totalAllocPoint, stargatePerBlock, emitted>>

\* Mutated: the debt of the rewards that are given up stays.
NothingStakedInDebt(info) == [info EXCEPT !.amount = 0]

NothingStaked(info) == [info EXCEPT !.amount = 0, !.rewardDebt = 0]

\* Without rewards, and without an update of the pool.
EmergencyWithdraw(t, u) ==
  LET amount == userInfo[t][u].amount
  IN  /\ poolInfo[t].added
      /\ userInfo' = [userInfo EXCEPT ![t][u] = NothingStaked(@)]
      /\ lpHeld' = [lpHeld EXCEPT ![t] = @ - amount]
      /\ lpBalances' = [lpBalances EXCEPT ![t] = @ - amount]
      /\ UNCHANGED <<block, poolInfo, totalAllocPoint, stargatePerBlock,
                     stargate, paid, emitted, restakes>>

UpdateOnly(t) ==
  /\ UpdatePool(t)
  /\ UNCHANGED <<block, totalAllocPoint, stargatePerBlock, stakes, emitted>>

NextBlock ==
  /\ block < MaxBlock
  /\ block' = block + 1
  /\ emitted' = emitted + (IF block' > startBlock THEN stargatePerBlock ELSE 0)
  /\ UNCHANGED <<poolInfo, totalAllocPoint, stargatePerBlock, stakes>>

StakingNext ==
  \/ \E t \in LPToken :
       \/ \E points \in Points : Add(t, points) \/ Set(t, points)
       \/ \E u \in Staker, amount \in StakeAmounts : Deposit(t, u, amount) \/ Withdraw(t, u, amount)
       \/ \E u \in Staker : EmergencyWithdraw(t, u)
       \/ UpdateOnly(t)
  \/ \E rate \in Rates : SetStargatePerBlock(rate)
  \/ NextBlock

StakingSpec == StakingInit /\ [][StakingNext]_stakingVars
-----------------------------------------------------------------------------
\* Nobody is locked in: what is due is never negative, for the subtraction of
\* the debt would revert every withdrawal.
NobodyLockedIn ==
  \A t \in LPToken, u \in Staker : CanUpdate(t) => Pending(t, u) >= 0

\* Whatever the order of stakes, new pools, new points and new rates, the users
\* are due no more than the blocks emitted, but for the rounding of a debt each
\* time a stake changes.
RewardsWithinEmission ==
  (\A t \in LPToken : CanUpdate(t)) =>
    paid + Total([t \in LPToken |-> Total([u \in Staker |-> Pending(t, u)])])
      <= emitted + restakes
=============================================================================
