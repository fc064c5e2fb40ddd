------------------------ MODULE GuaranteedTransfers ------------------------
(***************************************************************************)
(* What Stargate promises without pools, chains and messages: a transfer   *)
(* that was accepted is honoured exactly once, to the user and for the     *)
(* amount that were fixed when it was accepted, whatever else is accepted  *)
(* in between.  Part of the amount may be honoured in LP tokens.           *)
(***************************************************************************)
EXTENDS Naturals, Sequences

CONSTANTS TransferId, User, Amount

VARIABLES
  promised,               \* transfers accepted and not yet honoured
  honoured                \* transfer -> what was paid for it, each time

promiseVars == <<promised, honoured>>

Init ==
  /\ promised = {}
  /\ honoured = [id \in TransferId |-> <<>>]

Accept(id, u, a) ==
  /\ honoured[id] = <<>>
  /\ \A p \in promised : p.id # id
  /\ promised' = promised \cup {[id |-> id, user |-> u, amount |-> a]}
  /\ UNCHANGED honoured

Honour(id) ==
  \E p \in promised, cash \in Amount :
    /\ p.id = id /\ cash <= p.amount
    /\ promised' = promised \ {p}
    /\ honoured' = [honoured EXCEPT ![id] =
         Append(@, [cash |-> cash, minted |-> p.amount - cash, user |-> p.user])]

Next ==
  \E id \in TransferId :
    \/ \E u \in User, a \in Amount : Accept(id, u, a)
    \/ Honour(id)

\* No transfer that was accepted waits for ever.
Spec ==
  /\ Init /\ [][Next]_promiseVars
  /\ \A id \in TransferId : WF_promiseVars(Honour(id))
=============================================================================
