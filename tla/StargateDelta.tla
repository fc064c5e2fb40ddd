--------------------------- MODULE StargateDelta ---------------------------
(***************************************************************************)
(* The Delta algorithm of one pool, called again and again in either mode, *)
(* from any distribution of its liquidity over the chain paths.            *)
(***************************************************************************)
EXTENDS StargatePool

CONSTANTS MaxLiquidity, MaxCredit, MaxOnPath, MaxWeight    \* bounds

ASSUME DeltaAssumption == {MaxLiquidity, MaxCredit, MaxOnPath, MaxWeight} \subseteq Nat

VARIABLE pl                 \* the pool

\* totalLiquidity t, deltaCredit d, and by path the lkb and the weight
PoolOf(t, d, lkb, w) ==
  [NewPool EXCEPT
     !.totalLiquidity = t, !.deltaCredit = d,
     !.chainPaths = [q \in Pool |->
        [NoChainPath EXCEPT !.created = TRUE, !.ready = TRUE, !.weight = w[q], !.lkb = lkb[q]]]]

\* Swaps in either direction leave any liquidity on any path.
DeltaInit ==
  \E t \in 0 .. MaxLiquidity, d \in 1 .. MaxCredit,
     lkb \in [Pool -> 0 .. MaxOnPath], w \in [Pool -> 1 .. MaxWeight] : pl = PoolOf(t, d, lkb, w)

CallDelta(fullMode) == pl' = Delta(pl, fullMode)

DeltaNext == \E fullMode \in BOOLEAN : CallDelta(fullMode)

DeltaSpec == DeltaInit /\ [][DeltaNext]_pl

\* Rounding and the split in two tranches never hand out more than there is:
\* the subtraction at the end of _delta cannot revert the transactions that
\* call it.
NeverOverspends == \A fullMode \in BOOLEAN : Spent(pl, fullMode) <= pl.deltaCredit

\* Credits are put to use: when there is enough for all deficits, one call
\* leaves none, in either mode, and two calls in full mode leave less than one
\* unit per path undistributed, whatever the deficits were.
NothingStaysBehind ==
  /\ Delta(Delta(pl, TRUE), TRUE).deltaCredit < Cardinality(Pool)
  /\ pl.deltaCredit >= TotalDeficit(pl) =>
       \A fullMode \in BOOLEAN : TotalDeficit(Delta(pl, fullMode)) = 0
=============================================================================
