-------------------------- MODULE MCStargateParts --------------------------
(***************************************************************************)
(* The parts of Stargate that share no state with the others in the code:  *)
(* the Delta algorithm of one pool with three chain paths, the fees of     *)
(* V02, the token on three chains, and the staking of LP tokens.  `part`   *)
(* says which one is at work; the others rest.                             *)
(***************************************************************************)
EXTENDS StargateDelta, StargateFees, OmnichainToken, LPStaking, TLC

CONSTANTS main, b, c

VARIABLE part

\* The ratios of the fees are those of the code, on 100,000 instead of 10^18; the
\* LP fee is ten times the code's, so that it is more than rounding on such amounts
SomeIdeals == {0, 1, 25, 400, 10000}
SomeBalances == {30, 260, 610, 6100, 10000}
SomeSwaps == {100, 599, 5500, 9000}

\* Paths, chains without a special role, LP tokens and stakers are each
\* interchangeable; the run has no liveness property
Symmetry ==
  Permutations(Pool) \cup Permutations({b, c}) \cup Permutations(LPToken) \cup Permutations(Staker)

------------------------------------------------------------------------------
DeltaRests   == pl = PoolOf(0, 1, [q \in Pool |-> 0], [q \in Pool |-> 1])
FeesRest     == idealBalance = 0 /\ balance = 0 /\ eqFeePool = 0
StakingRests == StakingInit /\ \A rate \in Rates : stargatePerBlock <= rate

Init ==
  \/ part = "delta"   /\ DeltaInit  /\ FeesRest /\ TokenInit /\ StakingRests
  \/ part = "fees"    /\ DeltaRests /\ FeesInit /\ TokenInit /\ StakingRests
  \/ part = "token"   /\ DeltaRests /\ FeesRest /\ TokenInit /\ StakingRests
  \/ part = "staking" /\ DeltaRests /\ FeesRest /\ TokenInit /\ StakingInit

Next ==
  /\ UNCHANGED part
  /\ \/ part = "delta" /\ DeltaNext /\ UNCHANGED <<feeVars, tokenVars, stakingVars>>
     \/ part = "fees" /\ FeesNext /\ UNCHANGED <<pl, tokenVars, stakingVars>>
     \/ part = "token" /\ TokenNext /\ UNCHANGED <<pl, feeVars, stakingVars>>
     \/ part = "staking" /\ StakingNext /\ UNCHANGED <<pl, feeVars, tokenVars>>

vars == <<part, pl, feeVars, tokenVars, stakingVars>>

Spec == Init /\ [][Next]_vars
=============================================================================
