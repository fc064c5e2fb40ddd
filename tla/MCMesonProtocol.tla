-------------------------- MODULE MCMesonProtocol --------------------------
(***************************************************************************)
(* Two chains whose clocks differ by the allowed margin, one user, and two *)
(* providers competing for two swaps in opposite directions.               *)
(***************************************************************************)
EXTENDS MesonProtocol

CONSTANTS c1, c2, u1, l1, l2

There ==
  [ id |-> 1, amount |-> 2, fee |-> 0, expireTs |-> 6,
    inChain |-> c1, inToken |-> 1, outChain |-> c2, outToken |-> 1,
    toContract |-> FALSE, feeWaived |-> FALSE,
    core |-> "no", coreValue |-> 0, corePrice |-> 0,
    share |-> FALSE, shareAmount |-> 0, sharePool |-> 0 ]

Back == [There EXCEPT !.id = 2, !.inChain = c2, !.outChain = c1, !.expireTs = 8]

BothWays == {There, Back}

FirstAhead == [c \in Chain |-> IF c = c1 THEN 2 ELSE 0]
PoolsOfTwo == [l \in Provider |-> IF l = l1 THEN 1 ELSE 2]
AllByUser == [s \in Swap |-> u1]
=============================================================================
