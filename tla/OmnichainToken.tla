--------------------------- MODULE OmnichainToken ---------------------------
(***************************************************************************)
(* The Stargate token on every chain (OmnichainFungibleToken.sol): tokens  *)
(* that leave the main chain are locked in the contract there, tokens that *)
(* leave another chain are burnt, and arrivals are unlocked or minted.     *)
(*                                                                         *)
(* LayerZero executes the messages of a channel in order; one that cannot  *)
(* be executed blocks those behind it until the owner drops it.            *)
(***************************************************************************)
EXTENDS Integers, Sequences, FiniteSets, Totals

CONSTANTS
  Chain, MainChain,
  Holder,                 \* accounts
  Contract,               \* the address of the token itself
  ZeroAddress,            \* address(0)
  Deployer, InitialSupply,
  MaxSent,                \* messages per channel (bound)
  MaxDropped              \* messages that the owner drops (bound)

ASSUME TokenAssumption ==
  /\ IsFiniteSet(Chain) /\ IsFiniteSet(Holder)
  /\ MainChain \in Chain /\ Deployer \in Holder
  /\ Contract \notin Holder /\ ZeroAddress \notin Holder \cup {Contract}
  /\ {InitialSupply, MaxSent, MaxDropped} \subseteq Nat

VARIABLES
  balanceOf,              \* chain -> account -> tokens
  paused,                 \* chain -> whether sending is stopped
  channel,                \* <<chain, chain>> -> messages in flight, in order
  sent,                   \* <<chain, chain>> -> number of messages sent
  dropped                 \* number of messages dropped

tokenVars == <<balanceOf, paused, channel, sent, dropped>>

Account == Holder \cup {Contract}
Recipient == Account \cup {ZeroAddress}
Channel == {k \in Chain \X Chain : k[1] # k[2]}

TokenInit ==
  /\ balanceOf = [c \in Chain |-> [x \in Account |->
       IF c = MainChain /\ x = Deployer THEN InitialSupply ELSE 0]]
  /\ paused = [c \in Chain |-> FALSE]
  /\ channel = [k \in Channel |-> <<>>]
  /\ sent = [k \in Channel |-> 0]
  /\ dropped = 0

Move(balances, from, to, qty) ==
  IF from = to THEN balances
  ELSE [balances EXCEPT ![from] = @ - qty, ![to] = @ + qty]

\* Mutated: the tokens that leave stay in the contract on every chain.
LeaveLocked(c, from, qty) == Move(balanceOf[c], from, Contract, qty)

\* What leaves is locked on the main chain and burnt elsewhere.
Leave(c, from, qty) ==
  IF c = MainChain THEN Move(balanceOf[c], from, Contract, qty)
  ELSE [balanceOf[c] EXCEPT ![from] = @ - qty]

CanLeave(c, from, qty) == ~paused[c] /\ qty <= balanceOf[c][from]

SendTokens(c, d, from, to, qty) ==
  /\ c # d /\ sent[<<c, d>>] < MaxSent
  /\ CanLeave(c, from, qty)
  /\ balanceOf' = [balanceOf EXCEPT ![c] = Leave(c, from, qty)]
  /\ channel' = [channel EXCEPT ![<<c, d>>] = Append(@, [to |-> to, qty |-> qty])]
  /\ sent' = [sent EXCEPT ![<<c, d>>] = @ + 1]
  /\ UNCHANGED <<paused, dropped>>

\* The ERC20 refuses to transfer or to mint to address(0).
LzReceive(k) ==
  LET m == Head(channel[k])
      d == k[2]
  IN  /\ channel[k] # <<>>
      /\ m.to # ZeroAddress
      /\ IF d = MainChain
         THEN /\ m.qty <= balanceOf[d][Contract]
              /\ balanceOf' = [balanceOf EXCEPT ![d] = Move(@, Contract, m.to, m.qty)]
         ELSE balanceOf' = [balanceOf EXCEPT ![d][m.to] = @ + m.qty]
      /\ channel' = [channel EXCEPT ![k] = Tail(@)]
      /\ UNCHANGED <<paused, sent, dropped>>

\* A transfer on one chain, to the contract itself too.
Transfer(c, from, to, qty) ==
  /\ qty <= balanceOf[c][from]
  /\ balanceOf' = [balanceOf EXCEPT ![c] = Move(@, from, to, qty)]
  /\ UNCHANGED <<paused, channel, sent, dropped>>

PauseSendTokens(c, pause) ==
  /\ paused' = [paused EXCEPT ![c] = pause]
  /\ UNCHANGED <<balanceOf, channel, sent, dropped>>

ForceResumeReceive(k) ==
  /\ dropped < MaxDropped /\ channel[k] # <<>>
  /\ channel' = [channel EXCEPT ![k] = Tail(@)]
  /\ dropped' = dropped + 1
  /\ UNCHANGED <<balanceOf, paused, sent>>

TokenNext ==
  \/ \E c \in Chain, from \in Holder, qty \in 1 .. InitialSupply :
       \/ \E d \in Chain, to \in Recipient : SendTokens(c, d, from, to, qty)
       \/ \E to \in Account : Transfer(c, from, to, qty)
  \/ \E c \in Chain, pause \in BOOLEAN : PauseSendTokens(c, pause)
  \/ \E k \in Channel : LzReceive(k) \/ ForceResumeReceive(k)

TokenSpec == TokenInit /\ [][TokenNext]_tokenVars

\* Relayers deliver what can be delivered; the owner drops nothing unasked.
TokenFairSpec == TokenSpec /\ \A k \in Channel : WF_tokenVars(LzReceive(k))
-----------------------------------------------------------------------------
\* Sums over the messages of a channel.
InTransit(k) == Total([i \in DOMAIN channel[k] |-> channel[k][i].qty])

\* What exists or is on its way anywhere but on the main chain is locked there:
\* whatever comes back, in whatever order and over whichever chains, and after
\* messages were dropped, can be unlocked.
Backed ==
  Total([c \in Chain |-> IF c = MainChain THEN 0 ELSE Total(balanceOf[c])])
  + Total([k \in Channel |-> InTransit(k)])
    <= balanceOf[MainChain][Contract]

\* The comment in lzReceive says that what is sent to address(0) is burnt, so
\* every message is executed in the end and nothing waits behind one.
EverythingArrives == \A k \in Channel : []<>(channel[k] = <<>>)
=============================================================================
