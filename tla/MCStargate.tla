----------------------------- MODULE MCStargate -----------------------------
(***************************************************************************)
(* Two chains with one pool each; a pool has the name of its chain.        *)
(***************************************************************************)
EXTENDS StargateProperties, TLC

CONSTANTS a, b

Alone == [p \in Pool |-> p]
BothWays == {<<a, b>>, <<b, a>>}
NoPaths == {}
EqualWeights == [p \in Pool |-> 1]

FreeSwaps == {[eqFee |-> 0, lpFee |-> 0, protocolFee |-> 0]}
PaidSwaps == {[eqFee |-> 1, lpFee |-> 1, protocolFee |-> 1]}

NoParams == {}
Batching == {<<TRUE, 5, 5, TRUE, FALSE>>}

Symmetry == Permutations(Pool)
=============================================================================
