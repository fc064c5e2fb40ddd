--------------------------- MODULE StargateBridge ---------------------------
(***************************************************************************)
(* The Router and the Bridge of every chain, over LayerZero: what users,   *)
(* relayers and the DAO can call, and the messages between the chains.     *)
(*                                                                         *)
(* LayerZero delivers the messages from one chain to another in the order  *)
(* they were sent, and blocks while the first of them cannot be executed;  *)
(* the Bridge's owner may drop a blocked message (forceResumeReceive).     *)
(* A call of a pool that fails inside lzReceive (the token refuses the     *)
(* transfer, or the gas runs out) is caught, and kept to be retried.       *)
(***************************************************************************)
EXTENDS StargatePool, Sequences

CONSTANTS
  Chain, ChainOf,         \* pool -> the chain it is on
  NoUser,                 \* address(0)
  InitialPaths,           \* chain paths that exist and are ready at first
  InitialWeight,          \* pool -> weight of the paths to it
  Amounts,                \* amounts of deposits, swaps and redemptions (bound)
  Payloads,               \* whether swaps carry a payload (bound)
  FeeChoices,             \* fees without rewards (bound)
  Rewards,                \* rewards (bound)
  Weights, FeeBPs, DeltaParams, SwapStops,  \* values the DAO sets (bounds)
  MaxAsset,               \* tokens a pool may hold (bound)
  MaxSent,                \* messages while users may send more (bound)
  MaxDropped              \* messages that the owner drops (bound)

ASSUME BridgeAssumption ==
  /\ IsFiniteSet(Chain)
  /\ ChainOf \in [Pool -> Chain]
  /\ InitialPaths \subseteq Pool \X Pool
  /\ \A e \in InitialPaths : ChainOf[e[1]] # ChainOf[e[2]] /\ <<e[2], e[1]>> \in InitialPaths
  /\ InitialWeight \in [Pool -> Nat]
  /\ NoUser \notin User
  /\ Payloads \subseteq BOOLEAN /\ SwapStops \subseteq BOOLEAN
  /\ Amounts \subseteq Nat \ {0} /\ Rewards \subseteq Nat /\ Weights \subseteq Nat
  /\ FeeChoices \subseteq [eqFee : Nat, lpFee : Nat, protocolFee : Nat]
  /\ FeeBPs \subseteq 0 .. BP_DENOMINATOR
  /\ DeltaParams \subseteq
       BOOLEAN \X (0 .. BP_DENOMINATOR) \X (0 .. BP_DENOMINATOR) \X BOOLEAN \X BOOLEAN
  /\ {MaxAsset, MaxSent, MaxDropped} \subseteq Nat

VARIABLES
  pool,                   \* pool -> its state
  channel,                \* <<chain, chain>> -> messages in flight, in order
  outNonce,               \* <<chain, chain>> -> number of messages sent
  revertLookup,           \* what is kept to be retried or answered
  cachedSwapLookup,       \* payloads whose receiver failed
  dropped,                \* history: messages dropped by the owner
  settled                 \* history: transfer -> what it paid, each time

vars == <<pool, channel, outNonce, revertLookup, cachedSwapLookup, dropped, settled>>

Channel == Chain \X Chain

\* Transfers are known by the channel and the nonce of their first message.
\* Every redemption is answered by at most one message the other way.
TransferId == Channel \X (1 .. 2 * MaxSent)

Init ==
  /\ pool = [p \in Pool |->
       [NewPool EXCEPT !.chainPaths = [q \in Pool |->
          IF <<p, q>> \in InitialPaths
          THEN [NoChainPath EXCEPT !.created = TRUE, !.ready = TRUE,
                                   !.weight = InitialWeight[q]]
          ELSE NoChainPath]]]
  /\ channel = [k \in Channel |-> <<>>]
  /\ outNonce = [k \in Channel |-> 0]
  /\ revertLookup = {}
  /\ cachedSwapLookup = {}
  /\ dropped = {}
  /\ settled = [id \in TransferId |-> <<>>]

\* A message, and what is kept of one in revertLookup and cachedSwapLookup.
\* origin is the transfer that an answer belongs to; the code does without it.
Message ==
  [ type : {"credits", "swap", "redeem", "response", "callback"},
    id : TransferId, from : Pool, to : Pool, credit : CreditObj,
    user : User \cup {NoUser}, swap : SwapObj, payload : BOOLEAN,
    amountSD : Nat, mintSD : Nat, origin : TransferId ]

NoCredit == [credits |-> 0, idealBalance |-> 0]

NoSwap == [ amount |-> 0, eqFee |-> 0, eqReward |-> 0, lpFee |-> 0,
            protocolFee |-> 0, lkbRemove |-> 0 ]

ChannelOf(p, q) == <<ChainOf[p], ChainOf[q]>>

NextId(p, q) == <<ChannelOf(p, q), outNonce[ChannelOf(p, q)] + 1>>

NewMessage(type, p, q, user) ==
  [ type |-> type, id |-> NextId(p, q), from |-> p, to |-> q,
    credit |-> NoCredit, user |-> user, swap |-> NoSwap, payload |-> FALSE,
    amountSD |-> 0, mintSD |-> 0, origin |-> NextId(p, q) ]

\* The end of every transaction that sends a message: pl is the state of the
\* sending pool before sendCredits, whose result goes along.
SendWithCredits(pl, m) ==
  /\ CanSendCredits(pl, m.to)
  /\ pool' = [pool EXCEPT ![m.from] = SendCredits(pl, m.to)]
  /\ channel' = [channel EXCEPT ![m.id[1]] =
       Append(@, [m EXCEPT !.credit = CreditsOf(pl, m.to)])]
  /\ outNonce' = [outNonce EXCEPT ![m.id[1]] = @ + 1]

MaySend == Total(outNonce) < MaxSent

FeesCharged ==
  { [eqFee |-> f.eqFee, lpFee |-> f.lpFee, protocolFee |-> f.protocolFee,
     eqReward |-> r] : f \in FeeChoices, r \in Rewards }

keptVars == <<revertLookup, cachedSwapLookup, dropped, settled>>
-----------------------------------------------------------------------------
(* Calls of users. *)

AddLiquidity(p, u, amount) ==
  /\ pool[p].asset + amount <= MaxAsset
  /\ CanMint(pool[p])
  /\ pool' = [pool EXCEPT ![p] = Mint(@, u, amount)]
  /\ UNCHANGED <<channel, outNonce, keptVars>>

SwapTokens(p, q, u, amount, fees, payload) ==
  LET s == SwapOf(amount, fees)
  IN  /\ MaySend
      /\ pool[p].asset + amount <= MaxAsset
      /\ CanSwap(pool[p], q, s)
      /\ SendWithCredits(Swap(pool[p], q, amount, s, TRUE),
           [NewMessage("swap", p, q, u) EXCEPT !.swap = s, !.payload = payload])
      /\ UNCHANGED keptVars

\* A swap without new liquidity, paid for by burning LP tokens.
RedeemRemotely(p, q, u, amountLP, fees) ==
  LET amountSD == AmountLPtoSD(pool[p], amountLP)
      s == SwapOf(amountSD, fees)
  IN  /\ MaySend
      /\ CanBurn(pool[p], u, amountLP)
      /\ CanSwap(pool[p], q, s)
      /\ SendWithCredits(
           RedeemRemote(Swap(pool[p], q, amountSD, s, FALSE), u, amountLP),
           [NewMessage("swap", p, q, u) EXCEPT !.swap = s])
      /\ UNCHANGED keptVars

RedeemAtOnce(p, u, amountLP) ==
  /\ CanRedeemAtOnce(pool[p], u, amountLP)
  /\ pool' = [pool EXCEPT ![p] = InstantRedeemLocal(@, u, amountLP)]
  /\ UNCHANGED <<channel, outNonce, keptVars>>

\* The liquidity is burnt now, and paid out or minted back by the answer.
RedeemLocally(p, q, u, amountLP) ==
  /\ MaySend
  /\ CanBurn(pool[p], u, amountLP)
  /\ AmountLPtoSD(pool[p], amountLP) > 0
  /\ SendWithCredits(RedeemLocal(pool[p], u, amountLP),
       [NewMessage("redeem", p, q, u) EXCEPT
          !.amountSD = AmountLPtoSD(pool[p], amountLP)])
  /\ UNCHANGED keptVars

SendCreditsOnly(p, q) ==
  /\ MaySend
  /\ SendWithCredits(pool[p], NewMessage("credits", p, q, NoUser))
  /\ UNCHANGED keptVars

CallDelta(p, fullMode) ==
  /\ pool' = [pool EXCEPT ![p] = Delta(@, fullMode)]
  /\ UNCHANGED <<channel, outNonce, keptVars>>
-----------------------------------------------------------------------------
(* What arrives.  pl is the state of the receiving pool so far. *)

\* What is kept of a message.
Kept(m, type) == [m EXCEPT !.type = type, !.credit = NoCredit]

Settle(id, cash, minted, user) ==
  settled' = [settled EXCEPT ![id] =
                Append(@, [cash |-> cash, minted |-> minted, user |-> user])]

\* Mutated: what is kept to be retried stays there.
SwapRemotelyKept(pl, m) ==
  \/ /\ CanSwapRemote(pl, m.from, m.swap)
     /\ pool' = [pool EXCEPT ![m.to] = SwapRemote(pl, m.from, m.swap)]
     /\ Settle(m.origin, m.swap.amount + m.swap.eqReward, 0, m.user)
     /\ \/ UNCHANGED cachedSwapLookup
        \/ /\ m.payload
           /\ cachedSwapLookup' = cachedSwapLookup \cup {Kept(m, "swap")}
     /\ UNCHANGED revertLookup
  \/ /\ pool' = [pool EXCEPT ![m.to] = pl]
     /\ revertLookup' = revertLookup \cup {Kept(m, "swap")}
     /\ UNCHANGED <<cachedSwapLookup, settled>>

\* m is a message or an entry of revertLookup.
SwapRemotely(pl, m) ==
  \/ /\ CanSwapRemote(pl, m.from, m.swap)
     /\ pool' = [pool EXCEPT ![m.to] = SwapRemote(pl, m.from, m.swap)]
     /\ revertLookup' = revertLookup \ {Kept(m, "swap")}
     /\ Settle(m.origin, m.swap.amount + m.swap.eqReward, 0, m.user)
     /\ \/ UNCHANGED cachedSwapLookup
        \/ /\ m.payload
           /\ cachedSwapLookup' = cachedSwapLookup \cup {Kept(m, "swap")}
  \/ /\ pool' = [pool EXCEPT ![m.to] = pl]
     /\ revertLookup' = revertLookup \cup {Kept(m, "swap")}
     /\ UNCHANGED <<cachedSwapLookup, settled>>

CallbackLocally(pl, m) ==
  /\ \/ /\ CanRedeemCallback(pl, m.from, m.amountSD, m.mintSD)
        /\ pool' = [pool EXCEPT ![m.to] =
             RedeemLocalCallback(pl, m.from, m.user, m.amountSD, m.mintSD)]
        /\ revertLookup' = revertLookup \ {Kept(m, "callback")}
        /\ Settle(m.origin, m.amountSD, m.mintSD, m.user)
     \/ /\ pool' = [pool EXCEPT ![m.to] = pl]
        /\ revertLookup' = revertLookup \cup {Kept(m, "callback")}
        /\ UNCHANGED settled
  /\ UNCHANGED cachedSwapLookup

\* The answer is kept until somebody sends it; when the check fails all is to
\* be minted back.
CheckOnRemote(pl, m) ==
  /\ \E ok \in BOOLEAN :
       LET amountSD == IF ok THEN RedeemedOnRemote(pl, m.from, m.amountSD) ELSE 0
           answer == [Kept(m, "response") EXCEPT !.amountSD = amountSD,
                                                 !.mintSD = m.amountSD - amountSD]
       IN  /\ pool' = [pool EXCEPT ![m.to] =
                IF ok THEN RedeemLocalCheckOnRemote(pl, m.from, m.amountSD) ELSE pl]
           /\ revertLookup' = revertLookup \cup {answer}
  /\ UNCHANGED <<cachedSwapLookup, settled>>

\* lzReceive: the credits of a message are booked first.
Receive(k) ==
  LET m == Head(channel[k])
      pl == CreditChainPath(pool[m.to], m.from, m.credit)
  IN  /\ channel[k] # <<>>
      /\ channel' = [channel EXCEPT ![k] = Tail(@)]
      /\ CASE m.type = "swap" -> SwapRemotely(pl, m)
           [] m.type = "redeem" -> CheckOnRemote(pl, m)
           [] m.type = "callback" -> CallbackLocally(pl, m)
           [] OTHER -> /\ pool' = [pool EXCEPT ![m.to] = pl]
                       /\ UNCHANGED <<revertLookup, cachedSwapLookup, settled>>
      /\ UNCHANGED <<outNonce, dropped>>

\* The answer to a local redemption goes back the other way.
RevertRedeemLocal(e) ==
  /\ e \in revertLookup /\ e.type = "response"
  /\ SendWithCredits(pool[e.to],
       [NewMessage("callback", e.to, e.from, e.user) EXCEPT
          !.amountSD = e.amountSD, !.mintSD = e.mintSD, !.origin = e.origin])
  /\ revertLookup' = revertLookup \ {e}
  /\ UNCHANGED <<cachedSwapLookup, dropped, settled>>

\* A retry that fails again leaves everything as it was.
RetryRevert(e) ==
  /\ e \in revertLookup
  /\ \/ e.type = "swap" /\ SwapRemotely(pool[e.to], e)
     \/ e.type = "callback" /\ CallbackLocally(pool[e.to], e)
  /\ UNCHANGED <<channel, outNonce, dropped>>

\* The receiver takes the payload this time.
ClearCachedSwap(e) ==
  /\ e \in cachedSwapLookup
  /\ cachedSwapLookup' = cachedSwapLookup \ {e}
  /\ UNCHANGED <<pool, channel, outNonce, revertLookup, dropped, settled>>

\* The owner drops the message that blocks a channel.
ForceResumeReceive(k) ==
  /\ Cardinality(dropped) < MaxDropped
  /\ channel[k] # <<>>
  /\ dropped' = dropped \cup {Head(channel[k])}
  /\ channel' = [channel EXCEPT ![k] = Tail(@)]
  /\ UNCHANGED <<pool, outNonce, revertLookup, cachedSwapLookup, settled>>
-----------------------------------------------------------------------------
(* Calls of the DAO. *)

\* A path is activated once its counterpart exists.
CanActivate(p, q) ==
  /\ pool[p].chainPaths[q].created /\ pool[q].chainPaths[p].created
  /\ ~pool[p].chainPaths[q].ready

Activate(p, q) ==
  /\ CanActivate(p, q)
  /\ pool' = [pool EXCEPT ![p] = ActivateChainPath(@, q)]
  /\ UNCHANGED <<channel, outNonce, keptVars>>

DaoCall(p) ==
  /\ \/ \E q \in Pool, w \in Weights :
          /\ ChainOf[p] # ChainOf[q] /\ ~pool[p].chainPaths[q].created
          /\ pool' = [pool EXCEPT ![p] = CreateChainPath(@, q, w)]
     \/ \E q \in Pool, w \in Weights :
          /\ pool[p].chainPaths[q].created
          /\ pool' = [pool EXCEPT ![p] = SetWeightForChainPath(@, q, w)]
     \/ \E fee \in FeeBPs : pool' = [pool EXCEPT ![p] = SetFee(@, fee)]
     \/ \E stop \in SwapStops : pool' = [pool EXCEPT ![p] = SetSwapStop(@, stop)]
     \/ \E d \in DeltaParams :
          pool' = [pool EXCEPT ![p] = SetDeltaParam(@, d[1], d[2], d[3], d[4], d[5])]
     \/ pool' = [pool EXCEPT ![p] = WithdrawMintFeeBalance(@)]
     \/ pool' = [pool EXCEPT ![p] = WithdrawProtocolFeeBalance(@)]
  /\ UNCHANGED <<channel, outNonce, keptVars>>

UserCall ==
  \E p, q \in Pool, u \in User, amount \in Amounts :
    \/ AddLiquidity(p, u, amount)
    \/ RedeemAtOnce(p, u, amount)
    \/ RedeemLocally(p, q, u, amount)
    \/ SendCreditsOnly(p, q)
    \/ \E fees \in FeesCharged :
         \/ RedeemRemotely(p, q, u, amount, fees)
         \/ \E payload \in Payloads : SwapTokens(p, q, u, amount, fees, payload)

Next ==
  \/ UserCall
  \/ \E p \in Pool, fullMode \in BOOLEAN : CallDelta(p, fullMode)
  \/ \E p \in Pool : DaoCall(p) \/ \E q \in Pool : Activate(p, q)
  \/ \E k \in Channel : Receive(k) \/ ForceResumeReceive(k)
  \/ \E e \in revertLookup : RevertRedeemLocal(e) \/ RetryRevert(e)
  \/ \E e \in cachedSwapLookup : ClearCachedSwap(e)

Spec == Init /\ [][Next]_vars
=============================================================================
