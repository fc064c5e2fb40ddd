---------------------------- MODULE MesonStates ----------------------------
(***************************************************************************)
(* The state every Meson contract keeps, on each chain it is deployed on:  *)
(* the supported tokens, the registry of liquidity pools, the pools'       *)
(* balances and the tokens the contract really holds.  It also holds the   *)
(* decoders of an encoded swap.                                            *)
(*                                                                         *)
(* A swap is the record of the fields that its 256-bit encoding packs; a   *)
(* token is its index, 1 to 255; a pool is its index, 0 being Meson's own  *)
(* pool of service fees.  Amounts are in the 6 decimals that the pools'    *)
(* balances use.                                                           *)
(***************************************************************************)
EXTENDS Integers, FiniteSets, Totals

CONSTANTS
  Chain,                  \* the chains the contract is deployed on
  Addr,                   \* addresses that call and own pools
  Initiator,              \* those that request swaps
  Recipient,              \* those that swaps are released to
  NoAddr,                 \* address(0)
  Token,                  \* the token indexes that are ever used
  MaxPool,                \* largest pool index
  Swap,                   \* the encoded swaps
  Skew,                   \* how far a chain's clock is ahead of the slowest
  MIN_BOND_TIME_PERIOD, MAX_BOND_TIME_PERIOD, LOCK_TIME_PERIOD,
  LockMargin,             \* the "5 minutes" of lockSwap
  MAX_SWAP_AMOUNT,
  SERVICE_FEE_RATE, FeeBase,
  SERVICE_FEE_MINIMUM, SERVICE_FEE_MINIMUM_ETH,
  SERVICE_FEE_MINIMUM_BNB, SERVICE_FEE_MINIMUM_BTC,
  Listed,                 \* tokens supported at deployment
  Admin,                  \* owner and premium manager at deployment
  Amounts,                \* amounts of deposits and withdrawals (bound)
  MsgValues,              \* native amounts sent along a payable call (bound)
  Supply,                 \* total supply of every token on a chain
  MaxTime                 \* last instant considered (bound)

Pool == 0 .. MaxPool

Key == (Token \cup {0}) \X Pool         \* poolTokenIndex

SwapFields ==
  [ id : Nat, amount : Nat, fee : Nat, expireTs : Nat,
    inChain : Chain, inToken : Token, outChain : Chain, outToken : Token,
    toContract : BOOLEAN, feeWaived : BOOLEAN,
    core : {"no", "fixed", "rest"}, coreValue : Nat, corePrice : Nat,
    share : BOOLEAN, shareAmount : Nat, sharePool : Pool ]

ASSUME AddrAssumption ==
  /\ NoAddr \notin Addr /\ Admin \in Addr
  /\ Initiator \subseteq Addr /\ Recipient \subseteq Addr
ASSUME FinitenessAssumption == IsFiniteSet(Swap) /\ IsFiniteSet(Addr)
ASSUME TokenAssumption ==
  Token \subseteq 1 .. 255 /\ Listed \subseteq Token /\ MaxPool \in Nat \ {0}
ASSUME TimeAssumption ==
  /\ Skew \in [Chain -> Nat]
  /\ {MIN_BOND_TIME_PERIOD, MAX_BOND_TIME_PERIOD, LOCK_TIME_PERIOD,
      LockMargin, MaxTime} \subseteq Nat
ASSUME AmountAssumption ==
  /\ {MAX_SWAP_AMOUNT, SERVICE_FEE_RATE, SERVICE_FEE_MINIMUM,
      SERVICE_FEE_MINIMUM_ETH, SERVICE_FEE_MINIMUM_BNB,
      SERVICE_FEE_MINIMUM_BTC, Supply} \subseteq Nat
  /\ FeeBase \in Nat \ {0}
  /\ Amounts \subseteq Nat /\ MsgValues \subseteq Nat /\ 0 \in MsgValues
\* The salt's flag bits for a core-token payment exclude those for a transfer
\* to a contract and for sharing with a partner.
ASSUME SwapAssumption ==
  /\ Swap \subseteq SwapFields
  /\ \A s \in Swap : s.core # "no" => ~s.toContract /\ ~s.share
  /\ \A s \in Swap : s.share => ~s.toContract
  /\ \A s \in Swap : s.inToken \notin 129 .. 191 /\ s.outToken \notin 129 .. 191

VARIABLES
  now,                    \* the time of the slowest clock
  releaseSigs,            \* release signatures that initiators have given out
  supported,              \* chain -> tokens t with tokenForIndex[t] set
  poolOfAuthorizedAddr,   \* chain -> address -> pool, 0 when not authorized
  ownerOfPool,            \* chain -> pool -> owner
  balance,                \* chain -> <<token, pool>> -> _balanceOfPoolToken
  held                    \* chain -> asset -> tokens owned by the contract

registryVars == <<poolOfAuthorizedAddr, ownerOfPool>>
moneyVars == <<balance, held>>
envVars == <<now, releaseSigs>>
stateVars == <<envVars, supported, registryVars, moneyVars>>
-----------------------------------------------------------------------------
(* Time and tokens. *)

Timestamp(c) == now + Skew[c]           \* block.timestamp

IsCoreToken(t) == t \in 49 .. 64 \/ (t > 190 /\ t % 4 = 3)

TokenType(t) ==
  IF t >= 192 THEN t \div 4
  ELSE IF t <= 64 THEN 0
  ELSE IF t <= 112 THEN (t + 1) \div 2 - 32
  ELSE t - 80

\* What the contract owns: the native coin, 0, of which every core token is an
\* index, and one ERC20 contract for each other token index.
Asset == {0} \cup { t \in Token : ~IsCoreToken(t) }
AssetOf(t) == IF IsCoreToken(t) THEN 0 ELSE t

\* indexOfToken[address(1)]: the core token the chain supports, 0 if none.
CoreIndex(c) ==
  IF \E t \in supported[c] : IsCoreToken(t)
  THEN CHOOSE t \in supported[c] : IsCoreToken(t)
  ELSE 0
-----------------------------------------------------------------------------
(* Decoding a swap (MesonHelpers). *)

MinFee(t) ==
  IF t >= 252 THEN SERVICE_FEE_MINIMUM_ETH
  ELSE IF t >= 248 THEN SERVICE_FEE_MINIMUM_BNB
  ELSE IF t >= 244 THEN SERVICE_FEE_MINIMUM_ETH
  ELSE IF t >= 240 THEN SERVICE_FEE_MINIMUM_BTC
  ELSE SERVICE_FEE_MINIMUM

ServiceFee(s) ==
  LET fee == (s.amount * SERVICE_FEE_RATE) \div FeeBase
  IN  IF fee > MinFee(s.inToken) THEN fee ELSE MinFee(s.inToken)

FeePaid(s) == IF s.feeWaived THEN 0 ELSE ServiceFee(s)

SwapForCoreToken(s) == s.core # "no" /\ s.outToken < 191

AmountForCoreToken(s) ==
  IF ~SwapForCoreToken(s) THEN 0
  ELSE IF s.core = "rest" THEN s.amount - s.fee - FeePaid(s)
  ELSE s.coreValue

AmountToLock(s) == s.amount - s.fee - AmountForCoreToken(s)

\* The checked arithmetic of the two amounts and of the core token's price does
\* not revert.
Computable(s) ==
  /\ AmountForCoreToken(s) >= 0
  /\ AmountToLock(s) >= 0
  /\ AmountForCoreToken(s) > 0 => s.corePrice > 0

CoreTokenAmount(s) ==
  IF AmountForCoreToken(s) > 0 THEN AmountForCoreToken(s) \div s.corePrice ELSE 0

AmountToShare(s) == IF s.share THEN s.shareAmount ELSE 0
-----------------------------------------------------------------------------
(* Moving tokens in and out of the contract (MesonStates). *)

\* _unsafeDepositToken, in a call that carries msgValue of the native coin.
DepositToken(c, t, amount, msgValue) ==
  /\ amount > 0
  /\ IF IsCoreToken(t) THEN msgValue = amount ELSE t \in supported[c]
  /\ held' = [held EXCEPT ![c] =
       [a \in Asset |-> @[a] + (IF a = 0 THEN msgValue ELSE 0)
                             + (IF a = t THEN amount ELSE 0)]]
  /\ \A a \in Asset : held'[c][a] <= Supply

\* _safeTransfer.  An ERC20 token refuses the zero address; a plain value
\* transfer does not.
CanTransfer(c, t, recipient) ==
  IsCoreToken(t) \/ (t \in supported[c] /\ recipient # NoAddr)

SafeTransfer(c, t, recipient, amount) ==
  /\ CanTransfer(c, t, recipient)
  /\ held[c][AssetOf(t)] >= amount
  /\ held' = [held EXCEPT ![c][AssetOf(t)] = @ - amount]

\* Mutated: an off-by-one in the check of a balance.
AffordsAlmost(c, key, amount) == balance[c][key] + 1 >= amount

\* The checked subtraction of an amount from a balance does not revert.
Affords(c, key, amount) == balance[c][key] >= amount

\* A chain's balances with amount added to, or taken from, one key.
Credit(b, key, amount) == [b EXCEPT ![key] = @ + amount]
Debit(b, key, amount) == [b EXCEPT ![key] = @ - amount]
=============================================================================
