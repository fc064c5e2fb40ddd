------------------------- MODULE StargateProperties -------------------------
(***************************************************************************)
(* What Stargate must guarantee: the invariants that the audits of its     *)
(* tests compute (test/util/globalBook.js, test/util/poolStateHelpers.js)  *)
(* in every state, with messages in flight, kept for a retry or dropped,   *)
(* and what they are good for.                                             *)
(***************************************************************************)
EXTENDS StargateBridge

\* Every variable stays in its type; in particular no balance or credit is
\* negative, so that none of the checked subtractions of Pool.sol that are not
\* a guard of the model ever reverts a transaction.
TypeOK ==
  /\ pool \in [Pool -> PoolState]
  /\ DOMAIN channel = Channel
  /\ \A k \in Channel : channel[k] \in Seq(Message)
  /\ outNonce \in [Channel -> Nat]
  /\ revertLookup \subseteq Message /\ cachedSwapLookup \subseteq Message
  /\ dropped \subseteq Message

InFlight == UNION {{channel[k][i] : i \in DOMAIN channel[k]} : k \in Channel}

Outstanding == InFlight \cup revertLookup \cup dropped

\* What a message will take off, or has to add to, what q may still draw from p.
Claim(m, p, q) ==
  IF m.from = p /\ m.to = q
  THEN m.credit.credits + (IF m.type = "response" THEN m.amountSD ELSE 0)
  ELSE IF m.from = q /\ m.to = p /\ m.type \in {"swap", "callback"}
  THEN m.swap.lkbRemove + m.amountSD
  ELSE 0

\* The tokens of a pool are all accounted for: fees, rewards, credits that are
\* not handed out, credits that are not sent, and what the pools at the other
\* ends of its paths may draw.
AssetsBooked == \A p \in Pool : pool[p].asset = Booked(pool[p])

\* CONSTRAINT 1 of the tests, between two pools: what p keeps for q is what q
\* may promise from it, plus what is on its way in either direction.
PathsAgree ==
  \A p, q \in Pool :
    pool[p].chainPaths[q].lkb =
      pool[q].chainPaths[p].balance
      + Total([m \in Outstanding |-> Claim(m, p, q)])

\* Liquidity that a message carries out of the books of its sender.
Carried(m) ==
  CASE m.type = "swap" -> m.swap.lkbRemove + m.swap.lpFee
    [] m.type = "credits" -> 0
    [] OTHER -> m.amountSD + m.mintSD

\* What a pool owes to its liquidity providers, for rewards and for fees.
Owes(p) ==
  pool[p].totalLiquidity + pool[p].eqFeePool + pool[p].protocolFeeBalance
  + pool[p].mintFeeBalance

\* CONSTRAINT 2 of the tests: over all chains the pools hold, besides fees and
\* rewards, exactly the liquidity of their providers and what is in transfer.
GlobalSolvency ==
  Total([p \in Pool |-> pool[p].asset])
    = Total([p \in Pool |-> Owes(p)]) + Total([m \in Outstanding |-> Carried(m)])

\* What the audit of the tests sums up: no balance or credit is negative, the
\* tokens of each pool are accounted for, and so is the liquidity of all pools
\* with what is in flight, kept for a retry or dropped.
BooksBalance == TypeOK /\ AssetsBooked /\ GlobalSolvency

\* Instant guaranteed finality: whatever happened since a transfer was
\* accepted, its destination has the tokens and the credits to execute it.
PromisesKept ==
  \A m \in InFlight \cup revertLookup :
    /\ m.type = "swap" => CanSwapRemote(pool[m.to], m.from, m.swap)
    /\ m.type = "callback" =>
         CanRedeemCallback(pool[m.to], m.from, m.amountSD, m.mintSD)

\* Nobody's LP tokens lose value: no deposit, redemption or fee lowers the
\* liquidity that one LP token stands for, as long as there are any.
SharePriceNeverFalls ==
  [][\A p \in Pool :
       TotalSupply(pool[p]) > 0 /\ TotalSupply(pool'[p]) > 0 =>
         pool'[p].totalLiquidity * TotalSupply(pool[p])
           >= pool[p].totalLiquidity * TotalSupply(pool'[p])]_vars
-----------------------------------------------------------------------------
(* Transfers, as GuaranteedTransfers sees them. *)

\* Messages of transfers; what the owner of a bridge dropped stays promised.
Waiting == {m \in Outstanding : m.type # "credits"}

Promised(m) ==
  [ id |-> m.origin, user |-> m.user,
    amount |-> IF m.type = "swap" THEN m.swap.amount + m.swap.eqReward
               ELSE m.amountSD + m.mintSD ]

Transfers ==
  INSTANCE GuaranteedTransfers WITH
    Amount <- 0 .. MaxAsset,
    promised <- {Promised(m) : m \in Waiting},
    honoured <- settled

\* Relayers deliver every message, somebody answers every redemption, and
\* whoever retries succeeds in the end (a retry that fails changes nothing, so
\* weak fairness asks for one that succeeds): the token does not refuse the
\* transfer for ever.  The DAO activates both ends of a path that it created;
\* until then an answer to a redemption cannot be sent.
FairSpec ==
  /\ Spec
  /\ \A p, q \in Pool : WF_vars(Activate(p, q))
  /\ \A k \in Channel : WF_vars(Receive(k))
  /\ \A id \in TransferId :
       /\ WF_vars(\E e \in revertLookup : e.id = id /\ RevertRedeemLocal(e))
       /\ WF_vars(\E e \in revertLookup : e.id = id /\ RetryRevert(e))

\* Swaps and redemptions across chains implement the promise: each of them is
\* honoured once, as it was accepted.
HonoursTransfers == Transfers!Spec
=============================================================================
