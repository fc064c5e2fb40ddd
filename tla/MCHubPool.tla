----------------------------- MODULE MCHubPool -----------------------------
(***************************************************************************)
(* One token that is lent and is also the bond, one chain, and a bundle    *)
(* with two leaves: one sends tokens, one only books fees.                 *)
(***************************************************************************)
EXTENDS HubPool

CONSTANTS w, c

Leaf(id, sent, fees) ==
  [ leafId |-> id, chain |-> c, l1Tokens |-> {w},
    netSendAmounts |-> [t \in Token |-> sent], bundleLpFees |-> [t \in Token |-> fees] ]

\* A bundle that announces fewer leaves than its root has.
TooFew == [leafCount |-> 2, leaves |-> {Leaf(0, 1, 2), Leaf(1, -1, 0), Leaf(2, 1, 2)}]

OneBundle == {TooFew}
FirstBond == [token |-> w, amount |-> 2]
OtherBonds == {[token |-> w, amount |-> 1]}
=============================================================================
